---------------------------- MODULE LeasePromise ----------------------------
(***************************************************************************)
(* What an environment's lease is, to its owner and to the broker: it is   *)
(* taken once, by one runner; its end moves later only, and never past the *)
(* cap; and the runner goes by an end that the broker granted, perhaps not *)
(* the last one, because it learns of it from offers that are late or      *)
(* lost.                                                                   *)
(***************************************************************************)
EXTENDS Integers

CONSTANTS Cap, Runners, NoOne

VARIABLES granted,  \* the end of the lease, at the broker
          offered,  \* the end on its way to the runner, or 0
          held,     \* the end the runner goes by
          holder    \* the runner that took the lease, or NoOne

vars == <<granted, offered, held, holder>>

Init == granted = 0 /\ offered = 0 /\ held = 0 /\ holder = NoOne

Grant(end) ==
  /\ end >= granted
  /\ granted' = end
  /\ UNCHANGED <<offered, held, holder>>

Take(h) ==
  /\ holder = NoOne
  /\ holder' = h /\ held' = granted
  /\ UNCHANGED <<granted, offered>>

Offer ==
  /\ holder # NoOne
  /\ offered' = granted
  /\ UNCHANGED <<granted, held, holder>>

Renew ==
  /\ holder # NoOne
  /\ held' = offered /\ offered' = 0
  /\ UNCHANGED <<granted, holder>>

Lose ==
  /\ offered' = 0
  /\ UNCHANGED <<granted, held, holder>>

Next ==
  \/ \E end \in 0..Cap : Grant(end)
  \/ \E h \in Runners : Take(h)
  \/ Offer \/ Renew \/ Lose

Spec == Init /\ [][Next]_vars
=============================================================================
