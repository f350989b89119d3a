--------------------------- MODULE CommandPromise ---------------------------
(***************************************************************************)
(* What a client of an environment may rely on, whatever queues, claims,   *)
(* processes and messages lie between it and the child process: a command  *)
(* runs only after it was asked for, and once; its run ends in one way;    *)
(* and what is put on record about it is how it ended, for good.  Nothing  *)
(* is promised about commands that never ran or whose record was lost.     *)
(***************************************************************************)
EXTENDS Integers

CONSTANTS Cmds, Results

VARIABLES asked,     \* commands submitted
          ran,       \* how often each was executed
          ended,     \* <<command, state, exit code>> of every run that ended
          recorded   \* the ones the broker has on record

vars == <<asked, ran, ended, recorded>>

Init ==
  /\ asked = {}
  /\ ran = [c \in Cmds |-> 0]
  /\ ended = {}
  /\ recorded = {}

Ask(c) ==
  /\ c \notin asked
  /\ asked' = asked \cup {c}
  /\ UNCHANGED <<ran, ended, recorded>>

Run(c) ==
  /\ c \in asked /\ ran[c] = 0
  /\ ran' = [ran EXCEPT ![c] = 1]
  /\ UNCHANGED <<asked, ended, recorded>>

End(c, r) ==
  /\ ran[c] = 1 /\ \A e \in ended : e[1] # c
  /\ ended' = ended \cup {<<c, r[1], r[2]>>}
  /\ UNCHANGED <<asked, ran, recorded>>

Record(e) ==
  /\ recorded' = recorded \cup {e}
  /\ UNCHANGED <<asked, ran, ended>>

Next == \/ \E c \in Cmds : Ask(c) \/ Run(c) \/ \E r \in Results : End(c, r)
        \/ \E e \in ended : Record(e)

Spec == Init /\ [][Next]_vars
=============================================================================
