------------------------------ MODULE EnvLease ------------------------------
(***************************************************************************)
(* One environment, from env_create's dispatch to the end of its runner.   *)
(*                                                                         *)
(* EnvDO keeps the environment's state, its lease and the one agent token; *)
(* each of its methods is one step.  GitHub starts the job, perhaps before *)
(* it has answered the dispatch, perhaps although the answer was an error. *)
(* The runner says hello until it is enrolled or refused, then holds one   *)
(* /control request after another, each of which brings it the lease's     *)
(* current end, and stops when that passes, when it is told to, or when    *)
(* it has not been answered for too long.  Any answer may be lost.         *)
(*                                                                         *)
(* Time counts from the environment's creation and stops at Horizon, past  *)
(* the last moment a lease can reach.                                      *)
(***************************************************************************)
EXTENDS Integers

CONSTANTS
  Ttl,          \* ttl_minutes of env_create, clamped to MaxTtl
  MaxTtl,       \* cfg.maxTtlMinutes
  Extensions,   \* the minutes a client asks env_extend for
  Unreachable,  \* unreachable_limit_s
  MaxHellos,    \* attempts of the runner's enroll
  MaxAttempts,  \* bound: how often GitHub runs the workflow
  Horizon       \* bound: where the clock stops

ASSUME LeaseAssumption ==
  /\ Ttl \in Nat /\ MaxTtl \in Nat /\ Ttl <= MaxTtl
  /\ Extensions \subseteq Nat \ {0}
  /\ Unreachable \in Nat /\ MaxHellos \in Nat /\ MaxAttempts \in Nat /\ Horizon \in Nat

VARIABLES
  now,
  state, ttl, run_id, token,  \* EnvDO: meta; the attempt a run id or a token is for, or 0
  call,                       \* where env_create's handler is
  cancel,                     \* where env_destroy's is
  run, attempt, exit_reason,  \* the Actions run: its phase, which attempt, why it ended
  hellos, hello,              \* enroll(): requests sent, and what became of the last
  lease, lastOk,              \* controlMain: ttlExpiresAt, lastOkAt
  request,                    \* the /control request under way
  grants                      \* history: tokens minted

meta    == <<state, ttl, run_id, token>>
tools   == <<call, cancel>>
enroll  == <<hellos, hello>>
control == <<lease, lastOk, request>>
job     == <<run, attempt, exit_reason>>
vars    == <<now, meta, tools, job, enroll, control, grants>>

Larger(a, b) == IF a > b THEN a ELSE b

Idle     == [at |-> "idle", ttl |-> 0, destroy |-> FALSE]
Sent     == [Idle EXCEPT !.at = "sent"]
Parked   == [Idle EXCEPT !.at = "parked"]
Gone     == [Idle EXCEPT !.at = "gone"]          \* 410
Unknown  == [Idle EXCEPT !.at = "unauthorized"]  \* 401
Answer(end, destroy) == [at |-> "answered", ttl |-> end, destroy |-> destroy]

Init ==
  /\ now = 0
  /\ state = "absent" /\ ttl = 0 /\ run_id = 0 /\ token = 0
  /\ call = "idle" /\ cancel = "idle"
  /\ run = "none" /\ attempt = 0 /\ exit_reason = "none"
  /\ hellos = 0 /\ hello = "none"
  /\ lease = 0 /\ lastOk = 0 /\ request = Idle
  /\ grants = 0

-----------------------------------------------------------------------------
\* env_create

(* The row is written, then the dispatch is sent.                          *)
Provision ==
  /\ call = "idle"
  /\ call' = "dispatching"
  /\ state' = "provisioning" /\ ttl' = now + Ttl
  /\ UNCHANGED <<now, run_id, token, cancel, job, enroll, control, grants>>

(* GitHub starts the job, perhaps of a dispatch it seemed to refuse; or a  *)
(* person re-runs the workflow of a run that is over.                      *)
StartRun ==
  /\ call # "idle" /\ run \in {"none", "over"}
  /\ attempt < MaxAttempts
  /\ run' = "hello" /\ attempt' = attempt + 1 /\ exit_reason' = "none"
  /\ hellos' = 0 /\ hello' = "none"
  /\ UNCHANGED <<now, meta, tools, control, grants>>

(* The answer is 2xx, with the run's id in its body or, if 204, without.   *)
SetDispatch ==
  /\ call = "dispatching"
  /\ call' = "returned"
  /\ run_id' \in {1, run_id}
  /\ UNCHANGED <<now, state, ttl, token, cancel, job, enroll, control, grants>>

(* The answer is an error, or none: the environment failed, whatever it is *)
(* by now.                                                                 *)
MarkFailed ==
  /\ call = "dispatching"
  /\ call' = "returned"
  /\ state' = "failed"
  /\ UNCHANGED <<now, ttl, run_id, token, cancel, job, enroll, control, grants>>

-----------------------------------------------------------------------------
\* env_extend and env_destroy, of an environment the client knows of because
\* env_create returned its id or because env_list saw its run

Known == call = "returned" \/ run # "none"

ExtendFromNow(m) ==  \* mutant: minutes measured from now
  /\ Known
  /\ ttl' = IF now + m > MaxTtl THEN MaxTtl ELSE now + m
  /\ UNCHANGED <<now, state, run_id, token, tools, job, enroll, control, grants>>

ExtendUncapped(m) ==  \* mutant: no ceiling
  /\ Known
  /\ ttl' = Larger(ttl, now) + m
  /\ UNCHANGED <<now, state, run_id, token, tools, job, enroll, control, grants>>

(* The lease grows by m from where it ends, or from now if it has lapsed,  *)
(* up to MaxTtl after the creation, and never shrinks.                     *)
Extend(m) ==
  /\ Known
  /\ LET next == Larger(ttl, now) + m
     IN  ttl' = Larger(ttl, IF next > MaxTtl THEN MaxTtl ELSE next)
  /\ UNCHANGED <<now, state, run_id, token, tools, job, enroll, control, grants>>

(* env_destroy, or env_destroy again after a cancellation not accepted.    *)
MarkDestroying ==
  /\ Known /\ cancel # "cancelling"
  /\ state' = "destroying"
  /\ cancel' = IF run_id = 0 THEN "returned" ELSE "cancelling"
  /\ UNCHANGED <<now, ttl, run_id, token, call, job, enroll, control, grants>>

(* GitHub accepts the cancellation and ends the job, or it does not.       *)
CancelRun ==
  /\ cancel = "cancelling"
  /\ cancel' = "returned"
  /\ \/ run \in {"hello", "up"} /\ run' = "over" /\ exit_reason' = "cancelled" /\ request' = Idle
     \/ UNCHANGED <<run, exit_reason, request>>
  /\ UNCHANGED <<now, meta, call, attempt, enroll, lease, lastOk, grants>>

-----------------------------------------------------------------------------
\* /hello

EnrollAgain(hasShell) ==  \* mutant: not one-shot
  /\ run = "hello" /\ hello \in {"none", "lost"} /\ hellos < MaxHellos
  /\ hellos' = hellos + 1
  /\ IF state \in {"provisioning", "ready"} /\ run_id \in {0, attempt} /\ hasShell
     THEN /\ hello' = "granted"
          /\ state' = "ready" /\ run_id' = attempt /\ token' = attempt
          /\ lease' = ttl /\ grants' = grants + 1
     ELSE /\ hello' = "rejected"
          /\ state' = IF state = "provisioning" THEN "failed" ELSE state
          /\ UNCHANGED <<run_id, token, lease, grants>>
  /\ UNCHANGED <<now, ttl, tools, job, lastOk, request>>

(* enroll: only a provisioning environment, only the run that was          *)
(* dispatched, only a host with the shell it needs.                        *)
Enroll(hasShell) ==
  /\ run = "hello" /\ hello \in {"none", "lost"} /\ hellos < MaxHellos
  /\ hellos' = hellos + 1
  /\ IF state = "provisioning" /\ run_id \in {0, attempt} /\ hasShell
     THEN /\ hello' = "granted"
          /\ state' = "ready" /\ run_id' = attempt /\ token' = attempt
          /\ lease' = ttl /\ grants' = grants + 1
     ELSE /\ hello' = "rejected"
          /\ state' = IF state = "provisioning" THEN "failed" ELSE state
          /\ UNCHANGED <<run_id, token, lease, grants>>
  /\ UNCHANGED <<now, ttl, tools, job, lastOk, request>>

(* The request or its answer is lost, and the runner tries again.          *)
LoseHello ==
  /\ run = "hello"
  /\ hello' = "lost"
  /\ \/ hello \in {"none", "lost"} /\ hellos < MaxHellos /\ hellos' = hellos + 1
     \/ hello \in {"granted", "rejected"} /\ UNCHANGED hellos
  /\ UNCHANGED <<now, meta, tools, job, control, grants>>

Enrolled ==
  /\ run = "hello" /\ hello = "granted"
  /\ run' = "up" /\ lastOk' = now
  /\ UNCHANGED <<now, meta, tools, attempt, exit_reason, enroll, lease, request, grants>>

EnrollFailed ==
  /\ run = "hello" /\ (hello = "rejected" \/ (hello = "lost" /\ hellos = MaxHellos))
  /\ run' = "over" /\ exit_reason' = "enroll_failed"
  /\ UNCHANGED <<now, meta, tools, attempt, enroll, control, grants>>

-----------------------------------------------------------------------------
\* The control loop, and authAgent before every agent request

Revoked == state \in {"destroying", "expired"} \/ now > ttl

(* What authAgent writes when it finds the lease lapsed.                   *)
Lapse == state' = IF token = attempt /\ state # "destroying" /\ now > ttl
                  THEN "expired" ELSE state

Stop(reason) == run' = "over" /\ exit_reason' = reason /\ request' = Idle

LeaseIsOver     == now > lease
BrokerIsSilent  == now - lastOk > Unreachable

SelfDestructIfSilent ==  \* mutant: the lease is left to the broker
  /\ run = "up" /\ request.at = "idle"
  /\ BrokerIsSilent /\ Stop("broker_unreachable")
  /\ UNCHANGED <<now, meta, tools, attempt, enroll, lease, lastOk, grants>>

(* The top of the loop, with no request under way.                         *)
SelfDestruct ==
  /\ run = "up" /\ request.at = "idle"
  /\ \/ LeaseIsOver /\ Stop("ttl")
     \/ ~LeaseIsOver /\ BrokerIsSilent /\ Stop("broker_unreachable")
  /\ UNCHANGED <<now, meta, tools, attempt, enroll, lease, lastOk, grants>>

SendControl ==
  /\ run = "up" /\ request.at = "idle" /\ ~LeaseIsOver /\ ~BrokerIsSilent
  /\ request' = Sent
  /\ UNCHANGED <<now, meta, tools, job, enroll, lease, lastOk, grants>>

(* The request reaches the broker: refused, answered at once, or parked.   *)
Authorise ==
  /\ request.at = "sent"
  /\ Lapse
  /\ request' = IF token # attempt THEN Unknown ELSE IF Revoked THEN Gone ELSE Parked
  /\ UNCHANGED <<now, ttl, run_id, token, tools, job, enroll, lease, lastOk, grants>>

(* controlPoll: the answer carries the lease as it is by now.              *)
AnswerControl ==
  /\ request.at = "parked"
  /\ request' = Answer(ttl, state \in {"destroying", "expired"})
  /\ UNCHANGED <<now, meta, tools, job, enroll, lease, lastOk, grants>>

(* The exec workers' requests are authorised the same way.                 *)
WorkerRequest ==
  /\ run = "up" /\ Lapse
  /\ UNCHANGED <<now, ttl, run_id, token, tools, job, enroll, control, grants>>

RenewFromNow ==  \* mutant: each answer is worth the whole ttl_minutes
  /\ request.at = "answered" /\ ~request.destroy
  /\ lease' = now + Ttl
  /\ lastOk' = now /\ request' = Idle
  /\ UNCHANGED <<now, meta, tools, job, enroll, grants>>

Renew ==
  /\ request.at = "answered" /\ ~request.destroy
  /\ lease' = request.ttl
  /\ lastOk' = now /\ request' = Idle
  /\ UNCHANGED <<now, meta, tools, job, enroll, grants>>

Obey ==
  /\ request.at \in {"gone", "unauthorized"} \/ (request.at = "answered" /\ request.destroy)
  /\ Stop(IF request.at = "unauthorized" THEN "unauthorized" ELSE "destroy_requested")
  /\ UNCHANGED <<now, meta, tools, attempt, enroll, lease, lastOk, grants>>

(* The request times out or an answer other than 200, 401, 403, 410 comes. *)
LoseControl ==
  /\ request.at # "idle"
  /\ request' = Idle
  /\ UNCHANGED <<now, meta, tools, job, enroll, lease, lastOk, grants>>

(* The host goes away, or GitHub's own limit ends the job.                 *)
RunDies ==
  /\ run \in {"hello", "up"}
  /\ Stop("died")
  /\ UNCHANGED <<now, meta, tools, attempt, enroll, lease, lastOk, grants>>

Tick ==
  /\ call # "idle" /\ now < Horizon
  /\ now' = now + 1
  /\ UNCHANGED <<meta, tools, job, enroll, control, grants>>

Loop == SelfDestruct \/ SendControl \/ Authorise \/ AnswerControl \/ Renew \/ Obey

Next ==
  \/ Provision \/ StartRun \/ SetDispatch \/ MarkFailed
  \/ \E m \in Extensions : Extend(m)
  \/ MarkDestroying \/ CancelRun
  \/ (\E hasShell \in BOOLEAN : Enroll(hasShell)) \/ LoseHello \/ Enrolled \/ EnrollFailed
  \/ SelfDestruct \/ SendControl \/ Authorise \/ AnswerControl \/ Renew \/ Obey
  \/ WorkerRequest \/ LoseControl \/ RunDies \/ Tick

Spec == Init /\ [][Next]_vars

(* Time passes, and the runner's loop does not stand still: brokerReq puts *)
(* a limit on every request, so its own steps or LoseControl always come.  *)
FairSpec == Spec /\ WF_vars(Tick) /\ WF_vars(Loop)

-----------------------------------------------------------------------------
\* Types

States == {"absent", "provisioning", "ready", "destroying", "expired", "failed"}

Requests == [at : {"idle", "sent", "parked", "gone", "unauthorized", "answered"},
             ttl : Nat, destroy : BOOLEAN]

TypeOK ==
  /\ now \in 0..Horizon
  /\ state \in States /\ ttl \in Nat /\ run_id \in Nat /\ token \in Nat
  /\ call \in {"idle", "dispatching", "returned"} /\ cancel \in {"idle", "cancelling", "returned"}
  /\ run \in {"none", "hello", "up", "over"} /\ attempt \in Nat
  /\ exit_reason \in {"none", "cancelled", "enroll_failed", "ttl", "broker_unreachable",
                      "destroy_requested", "unauthorized", "died"}
  /\ hellos \in Nat /\ hello \in {"none", "lost", "granted", "rejected"}
  /\ lease \in Nat /\ lastOk \in Nat
  /\ request \in Requests
  /\ grants \in Nat

-----------------------------------------------------------------------------
\* Safety

(* However often hello is sent, lost, repeated or sent by a re-run, one    *)
(* environment gives out one agent token, and only the attempt it was      *)
(* minted for is ever up.                                                  *)
OneHolder == grants <= 1 /\ (run = "up" => token = attempt)

(* No sequence of env_extend calls takes the lease past the hard cap.      *)
LeaseWithinCap == ttl <= MaxTtl

(* "Extend, and only ever extend": nothing shortens a lease.               *)
LeaseOnlyGrows == [][call # "idle" => ttl' >= ttl]_ttl

(* The runner never believes in a longer lease than the broker granted, so *)
(* the two safety nets agree on when it must be gone: whatever answers     *)
(* were lost, and also while an answer is on its way.                      *)
RunnerNeverOutbids ==
  /\ run = "up" => lease <= ttl
  /\ request.at = "answered" => request.ttl <= ttl

(* The inductive invariant behind them.                                    *)
BirthInv ==
  /\ call = "idle" <=> state = "absent"
  /\ call = "idle" => now = 0 /\ ttl = 0 /\ run = "none"
  /\ state \in {"absent", "provisioning"} => grants = 0 /\ token = 0
  /\ run # "none" => attempt \in 1..MaxAttempts

HolderInv ==
  /\ grants <= 1
  /\ run = "up" \/ (run = "hello" /\ hello = "granted") => token = attempt
  /\ request.at # "idle" => run = "up"

LeaseInv == lease <= ttl /\ request.ttl <= ttl /\ ttl <= MaxTtl

IInv == TypeOK /\ BirthInv /\ HolderInv /\ LeaseInv

-----------------------------------------------------------------------------
(* However the dispatch, hello, extensions, re-runs and lost answers fall  *)
(* together, the lease is what LeasePromise says: one runner takes it, it  *)
(* only grows, up to the cap, and the runner goes by an end that was       *)
(* granted.                                                                *)
Lease_ == INSTANCE LeasePromise WITH
  Cap <- MaxTtl, Runners <- 1..MaxAttempts, NoOne <- 0,
  granted <- ttl, offered <- request.ttl, held <- lease, holder <- token
KeepsLease == Lease_!Spec

-----------------------------------------------------------------------------
\* Liveness, and what the sources say that the code does not keep

(* "Self-destruct so the environment is reclaimed even if the broker ...   *)
(* is gone for good": extended, destroyed, unreachable or not, no runner   *)
(* stays up for ever.                                                      *)
EveryRunnerStops == (run = "up") ~> (run # "up")

(* "A lease that has already lapsed extends from now": after an extension  *)
(* of the lease the environment is not expired.                            *)
ExtensionTakesEffect == state = "expired" => now > ttl
=============================================================================
