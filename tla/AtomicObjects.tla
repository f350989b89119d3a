--------------------------- MODULE AtomicObjects ---------------------------
(***************************************************************************)
(* What the other modules take an object of the broker (EnvDO, GuardDO) to *)
(* be: a call of one of its methods takes effect in one step or not at     *)
(* all.  Whoever is answered knows which; whoever is not, because the      *)
(* broker went away, does not.  What took effect is never undone.          *)
(***************************************************************************)
CONSTANTS Calls

VARIABLES told,     \* each call: "no" (not made), "asked", or its outcome
          applied   \* the calls that took effect

vars == <<told, applied>>

Init == told = [c \in Calls |-> "no"] /\ applied = {}

Ask(c) ==
  /\ told[c] = "no"
  /\ told' = [told EXCEPT ![c] = "asked"]
  /\ UNCHANGED applied

Apply(c) ==
  /\ told[c] = "asked" /\ c \notin applied
  /\ applied' = applied \cup {c}
  /\ UNCHANGED told

Answer(c) ==
  /\ told[c] = "asked"
  /\ told' = [told EXCEPT ![c] = IF c \in applied THEN "ok" ELSE "failed"]
  /\ UNCHANGED applied

(* A call to an object that is not there any more fails at once.           *)
Refuse(c) ==
  /\ told[c] = "no"
  /\ told' = [told EXCEPT ![c] = "failed"]
  /\ UNCHANGED applied

GoAway(C) ==
  /\ \A c \in C : told[c] = "asked"
  /\ told' = [c \in Calls |-> IF c \in C THEN "unknown" ELSE told[c]]
  /\ UNCHANGED applied

Next == \/ \E c \in Calls : Ask(c) \/ Apply(c) \/ Answer(c) \/ Refuse(c)
        \/ \E C \in SUBSET Calls : GoAway(C)

Spec == Init /\ [][Next]_vars
=============================================================================
