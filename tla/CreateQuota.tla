---------------------------- MODULE CreateQuota ----------------------------
(***************************************************************************)
(* The hourly cap on env_create and the circuit breaker: GuardDO, and the  *)
(* handler of env_create around it.                                        *)
(*                                                                         *)
(* Each method of GuardDO is one step.  The handler awaits between them, so *)
(* several calls interleave, and one that fails takes its place back by    *)
(* deleting the newest row, whosever that is.  Time is counted in ticks    *)
(* from 0.                                                                 *)
(***************************************************************************)
EXTENDS Integers, FiniteSets

CONSTANTS
  Calls,       \* env_create calls
  MaxPerHour,  \* MAX_ENV_CREATES_PER_HOUR
  Hour,        \* 3_600_000 ms, in ticks
  Horizon,     \* bound: the last tick
  MaxCrashes   \* bound: calls that end between two steps

ASSUME QuotaAssumption ==
  /\ MaxPerHour \in Nat /\ Hour \in Nat \ {0} /\ Horizon \in Nat /\ MaxCrashes \in Nat
  /\ IsFiniteSet(Calls)

VARIABLES
  creates,    \* GuardDO: the creates table; a row is named by the call that made it
  open,       \* GuardDO: is the breaker open?
  pc,         \* each call: where its handler is
  ts,         \* each call: when it was admitted, the ts of its row
  code,       \* each call: what dispatchWorkflow returned
  suspended,  \* GitHub: the account is suspended
  now

guard == <<creates, open>>
calls == <<pc, ts, code>>
world == <<suspended, now>>
vars  == <<guard, calls, world>>

Time == 0..Horizon
Never == -1
Over == {"done", "refused", "crashed"}

Init ==
  /\ creates = {}
  /\ open = FALSE
  /\ pc = [c \in Calls |-> "idle"]
  /\ ts = [c \in Calls |-> Never]
  /\ code = [c \in Calls |-> "none"]
  /\ suspended = FALSE
  /\ now = 0

-----------------------------------------------------------------------------
\* GuardDO

PrunedInclusive == {c \in creates : ts[c] > now - Hour}  \* mutant: <=

(* DELETE WHERE ts < cutoff: a row exactly an hour old stays.              *)
Pruned == {c \in creates : ts[c] >= now - Hour}

OldestGone == {c \in creates : \E d \in creates : ts[d] < ts[c]}  \* mutant: MIN(ts)

HourGone == {c \in creates : ts[c] < now - Hour}  \* mutant: ts >= cutoff

(* DELETE WHERE ts = MAX(ts): every row of the newest timestamp.           *)
NewestGone == {c \in creates : \E d \in creates : ts[d] > ts[c]}

(* allowEnvCreate: prune, count, insert.                                   *)
AllowEnvCreate(c) ==
  /\ pc[c] = "checked"
  /\ IF Cardinality(Pruned) >= MaxPerHour
     THEN creates' = Pruned /\ pc' = [pc EXCEPT ![c] = "refused"] /\ UNCHANGED ts
     ELSE /\ creates' = Pruned \cup {c}
          /\ pc' = [pc EXCEPT ![c] = "admitted"] /\ ts' = [ts EXCEPT ![c] = now]
  /\ UNCHANGED <<open, code, world>>

-----------------------------------------------------------------------------
\* env_create

Goto(c, from, to) == pc[c] = from /\ pc' = [pc EXCEPT ![c] = to]

CheckBreaker(c) ==
  /\ Goto(c, "idle", IF open THEN "refused" ELSE "checked")
  /\ UNCHANGED <<guard, ts, code, world>>

Provision(c) ==
  /\ Goto(c, "admitted", "provisioned")
  /\ UNCHANGED <<guard, ts, code, world>>

(* dispatchWorkflow: GitHub's answer as classify sorts it.                 *)
Codes == {"ok", "account_suspended", "refused", "broker_unreachable"}

Dispatch(c, answer) ==
  /\ Goto(c, "provisioned", IF answer = "ok" THEN "dispatched" ELSE "failed")
  /\ code' = [code EXCEPT ![c] = answer]
  /\ (answer = "account_suspended") => suspended
  /\ suspended => answer # "ok"
  /\ UNCHANGED <<guard, ts, world>>

SetDispatch(c) ==
  /\ Goto(c, "dispatched", "done")
  /\ UNCHANGED <<guard, ts, code, world>>

(* The failure path: refundEnvCreate, markFailed, and trip when the        *)
(* account is suspended.                                                   *)
RefundEnvCreate(c) ==
  /\ Goto(c, "failed", "refunded")
  /\ creates' = NewestGone
  /\ UNCHANGED <<open, ts, code, world>>

MarkFailed(c) ==
  /\ Goto(c, "refunded", IF code[c] = "account_suspended" THEN "failing" ELSE "done")
  /\ UNCHANGED <<guard, ts, code, world>>

Trip(c) ==
  /\ Goto(c, "failing", "done")
  /\ open' = TRUE
  /\ UNCHANGED <<creates, ts, code, world>>

(* The broker's isolate goes away under a call, or a method throws.        *)
Crash(c) ==
  /\ pc[c] \notin Over \cup {"idle"}
  /\ Cardinality({d \in Calls : pc[d] = "crashed"}) < MaxCrashes
  /\ pc' = [pc EXCEPT ![c] = "crashed"]
  /\ UNCHANGED <<guard, ts, code, world>>

Suspend ==
  /\ ~suspended
  /\ suspended' = TRUE
  /\ UNCHANGED <<guard, calls, now>>

Tick ==
  /\ now < Horizon
  /\ now' = now + 1
  /\ UNCHANGED <<guard, calls, suspended>>

Next ==
  \/ \E c \in Calls :
       \/ CheckBreaker(c) \/ AllowEnvCreate(c) \/ Provision(c) \/ SetDispatch(c)
       \/ RefundEnvCreate(c) \/ MarkFailed(c) \/ Trip(c) \/ Crash(c)
       \/ \E answer \in Codes : Dispatch(c, answer)
  \/ Suspend
  \/ Tick

Spec == Init /\ [][Next]_vars

-----------------------------------------------------------------------------
TypeOK ==
  /\ creates \subseteq Calls /\ open \in BOOLEAN
  /\ pc \in [Calls -> Over \cup {"idle", "checked", "admitted", "provisioned",
                                "dispatched", "failed", "refunded", "failing"}]
  /\ ts \in [Calls -> Time \cup {Never}]
  /\ code \in [Calls -> Codes \cup {"none"}]
  /\ suspended \in BOOLEAN /\ now \in Time

AdmittedSince(t) == {c \in Calls : ts[c] # Never /\ ts[c] >= t}
InTheHour        == AdmittedSince(now - Hour)

Failed(c) == code[c] \notin {"none", "ok"}
Refunded  == {c \in Calls : Failed(c) /\ pc[c] \notin {"failed", "crashed"}}

(* A failed create burns no quota, although the row it takes back may not  *)
(* be its own and its own may have been taken by another: what counts      *)
(* against the cap is never more than the calls of the last hour that are  *)
(* not refunded.                                                           *)
FailuresBurnNothing == Cardinality(Pruned) <= Cardinality(InTheHour \ Refunded)

(* What GuardDO no longer counts although it is of the last hour was       *)
(* forgotten by refunds, each of which forgets the creates of one moment.  *)
(* So much further than the cap an hour can go, and no further. (A call    *)
(* that crashed on its way to the refund counts as one that made it.)      *)
RefundsMade == {c \in Calls : Failed(c) /\ pc[c] # "failed"}
Forgotten   == InTheHour \ creates
ForgottenByRefunds == Cardinality({ts[c] : c \in Forgotten}) <= Cardinality(RefundsMade)

(* While nothing has failed, no hour sees more creates than the cap.       *)
CapWhileNothingFails ==
  (\A c \in Calls : ~Failed(c)) => Cardinality(InTheHour) <= MaxPerHour

-----------------------------------------------------------------------------
(* The inductive invariant behind them.                                    *)

(* A row has its call's time, and there are never more than the cap.       *)
RowInv ==
  /\ \A c \in creates : ts[c] # Never
  /\ Cardinality(creates) <= MaxPerHour
  /\ \A c \in Calls : ts[c] <= now

(* How far a call is, what it was answered, and that the breaker opens     *)
(* only for a suspension.                                                  *)
CallInv ==
  /\ \A c \in Calls : pc[c] \in {"idle", "checked", "refused"} => ts[c] = Never
  /\ \A c \in Calls : pc[c] \in {"idle", "checked", "refused", "admitted", "provisioned"} => code[c] = "none"
  /\ \A c \in Calls : pc[c] = "dispatched" => code[c] = "ok"
  /\ \A c \in Calls : pc[c] \in {"failed", "refunded"} => Failed(c)
  /\ \A c \in Calls : pc[c] = "failing" => code[c] = "account_suspended"
  /\ \A c \in Calls : code[c] = "account_suspended" => suspended
  /\ open => suspended

(* From any time on there are no more rows than calls admitted and not     *)
(* refunded: a refund takes a row as young as any.                         *)
RowsSince(t) == {c \in creates : ts[c] >= t}
BurnInv == \A t \in -Hour..Horizon : Cardinality(RowsSince(t)) <= Cardinality(AdmittedSince(t) \ Refunded)

IInv == TypeOK /\ RowInv /\ CallInv /\ BurnInv /\ ForgottenByRefunds

(* What it means for the cap, unless two creates are of one moment.        *)
CapButForRefunds ==
  (\A c, d \in InTheHour : ts[c] = ts[d] => c = d)
    => Cardinality(InTheHour) <= MaxPerHour + Cardinality(RefundsMade)

-----------------------------------------------------------------------------
\* What the sources say that the code does not keep

(* A hard cap on env_create per hour: no hour sees more that succeed.      *)
HardCap == Cardinality({c \in InTheHour : code[c] = "ok"}) <= MaxPerHour

(* Once the breaker is open nothing is dispatched any more.                *)
NoDispatchWhenOpen ==
  [][\A c \in Calls : open /\ pc[c] = "provisioned" => pc'[c] \in {"provisioned", "crashed"}]_vars
=============================================================================
