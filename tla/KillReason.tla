----------------------------- MODULE KillReason -----------------------------
(***************************************************************************)
(* Why a command was killed, and which answer wins when two are reported.  *)
(* The runner reports reasons in the order the operating system reveals    *)
(* them, so the broker merges every report into the one on record.         *)
(***************************************************************************)
EXTENDS Integers

Reasons == {"enospc", "output_cap", "timeout", "inactivity", "user", "spawn_gap"}

NoReason == "none"   \* NULL in the killed_reason column, or absent in a report

(* The rank of a reason; NoReason stands below every real one.             *)
Priority == [r \in Reasons \cup {NoReason} |->
               IF r = "enospc" THEN 60
               ELSE IF r = "output_cap" THEN 50
               ELSE IF r \in {"timeout", "inactivity"} THEN 40
               ELSE IF r = "user" THEN 20
               ELSE IF r = "spawn_gap" THEN 10
               ELSE 0]

PickLast(existing, incoming) ==  \* mutant: the last arrival wins
  IF incoming \in Reasons THEN incoming ELSE existing

(* A report outside Reasons is dropped; the higher rank wins; equal ranks  *)
(* keep what was recorded first.                                           *)
PickKilledReason(existing, incoming) ==
  LET current == IF existing \in Reasons THEN existing ELSE NoReason
  IN  IF incoming \notin Reasons THEN current
      ELSE IF current = NoReason THEN incoming
      ELSE IF Priority[incoming] > Priority[current] THEN incoming
      ELSE current
=============================================================================
