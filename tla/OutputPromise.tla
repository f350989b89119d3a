--------------------------- MODULE OutputPromise ---------------------------
(***************************************************************************)
(* What a client that reads a command's output may rely on, whoever holds  *)
(* the bytes and whatever is lost on the way.  It reads forward, and what  *)
(* it reads is there; of what it is not given it is told that it is gone.  *)
(* How much a command has put out is settled once, after the child has     *)
(* exited, and as no less than there was by then.  Only who has come that  *)
(* far is told that it is over, and after that nothing more.               *)
(***************************************************************************)
EXTENDS Integers

CONSTANT NotYet

VARIABLES length,    \* bytes of output so far
          childEnd,  \* what they were when the child exited, or NotYet
          final,     \* what they are on record to be in the end, or NotYet
          next,      \* next_byte
          given,     \* offsets whose byte the client was given
          lost,      \* offsets it was told are gone
          over       \* was it told eof?

vars == <<length, childEnd, final, next, given, lost, over>>

Init ==
  /\ length = 0 /\ childEnd = NotYet /\ final = NotYet
  /\ next = 0 /\ given = {} /\ lost = {} /\ over = FALSE

Write ==
  /\ length' = length + 1
  /\ UNCHANGED <<childEnd, final, next, given, lost, over>>

Exit ==
  /\ childEnd = NotYet /\ childEnd' = length
  /\ UNCHANGED <<length, final, next, given, lost, over>>

Settle ==
  /\ childEnd # NotYet /\ final = NotYet
  /\ final' \in childEnd..length
  /\ UNCHANGED <<length, childEnd, next, given, lost, over>>

(* A poll gives the bytes from a to b, which it goes on behind.            *)
Read(a, b) ==
  /\ ~over /\ next' = b
  /\ given' = given \cup a..(b - 1)
  /\ lost' = lost \cup next..(a - 1)
  /\ over' \in BOOLEAN
  /\ over' => final # NotYet /\ final <= b
  /\ UNCHANGED <<length, childEnd, final>>

Next == \/ Write \/ Exit \/ Settle
        \/ \E b \in next..length : \E a \in next..b : Read(a, b)

Spec == Init /\ [][Next]_vars
=============================================================================
