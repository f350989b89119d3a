---------------------------- MODULE MCFileWrite ----------------------------
(* FileWrite on small instances: two calls write the same content and a    *)
(* third one another, which may name the sha it expects.                   *)
EXTENDS FileWrite, TLC

CONSTANTS c1, c2, c3, a, b

ContentOf == [c \in Calls |-> IF c = c3 THEN b ELSE a]
PartOf    == [x \in Contents |-> <<"part", x>>]
NoneNamed == [c \in Calls |-> NoBase]
OneNamed  == [c \in Calls |-> IF c = c3 THEN a ELSE NoBase]

WorkerSymmetry == Permutations(Workers)

(* c1 and c2 are alike in all constants.                                   *)
CallSymmetry == WorkerSymmetry \cup Permutations({c1, c2})
=============================================================================
