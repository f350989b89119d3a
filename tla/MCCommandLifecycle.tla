------------------------- MODULE MCCommandLifecycle -------------------------
(* CommandLifecycle on small instances.  Each submission carries a seed of *)
(* its own unless the instance is about deduplication.                     *)
EXTENDS CommandLifecycle, TLC

CONSTANTS c1, c2, c3

OwnKeys    == [c \in Cmds |-> c]
SharedKeys == [c \in Cmds |-> c1]

WorkerSymmetry == Permutations(Workers)
=============================================================================
