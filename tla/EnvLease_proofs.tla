-------------------------- MODULE EnvLease_proofs --------------------------
(***************************************************************************)
(* Proofs about EnvLease, for every lease, cap, extension, limit and       *)
(* number of attempts.                                                     *)
(*                                                                         *)
(* The argument is the invariant IInv.  BirthInv says that a token can     *)
(* still be minted only while none has been, because no step returns to    *)
(* `provisioning`; HolderInv carries the token from the answer of hello to *)
(* the runner; LeaseInv says that every copy of the lease, in the runner   *)
(* and on its way, is one the broker granted, and the broker's only grows. *)
(* The refinement of LeasePromise follows from it.                         *)
(***************************************************************************)
EXTENDS EnvLease, TLAPS

\* Only an answer carries a lease.
LEMMA RequestFact ==
  \A r \in {Idle, Sent, Parked, Gone, Unknown} :
    r \in Requests /\ r.ttl = 0 /\ r.at # "answered" /\ (r.at = "idle" <=> r = Idle)
<1>1. Idle \in Requests /\ Idle.ttl = 0 /\ Idle.at = "idle"
  BY DEF Idle, Requests
<1>2. Sent \in Requests /\ Sent.ttl = 0 /\ Sent.at = "sent"
  BY DEF Sent, Idle, Requests
<1>3. Parked \in Requests /\ Parked.ttl = 0 /\ Parked.at = "parked"
  BY DEF Parked, Idle, Requests
<1>4. Gone \in Requests /\ Gone.ttl = 0 /\ Gone.at = "gone"
  BY DEF Gone, Idle, Requests
<1>5. Unknown \in Requests /\ Unknown.ttl = 0 /\ Unknown.at = "unauthorized"
  BY DEF Unknown, Idle, Requests
<1> QED
  BY <1>1, <1>2, <1>3, <1>4, <1>5

\* The state before env_create satisfies the invariant.
LEMMA InitIInv == Init => IInv
BY LeaseAssumption DEF Init, IInv, TypeOK, BirthInv, HolderInv, LeaseInv, States, Idle, Requests

\* The larger of two natural numbers is one, and bounds both.
LEMMA LargerFact ==
  ASSUME NEW a \in Nat, NEW b \in Nat
  PROVE  Larger(a, b) \in Nat /\ Larger(a, b) >= a /\ Larger(a, b) >= b
         /\ Larger(a, b) \in {a, b}
BY DEF Larger

\* What Extend does to the lease, of which the other proofs need no more.
LEMMA ExtendFact ==
  ASSUME IInv, NEW m \in Extensions, Extend(m)
  PROVE  ttl' \in Nat /\ ttl' >= ttl /\ ttl' <= MaxTtl
<1> DEFINE next == Larger(ttl, now) + m
           capped == IF next > MaxTtl THEN MaxTtl ELSE next
<1>1. ttl \in Nat /\ now \in Nat /\ m \in Nat /\ MaxTtl \in Nat /\ ttl <= MaxTtl
  BY LeaseAssumption DEF IInv, TypeOK, LeaseInv
<1>2. next \in Nat
  <2> PICK x \in Nat : x = Larger(ttl, now)
    BY <1>1, LargerFact
  <2> QED
    BY <1>1
<1>3. capped \in Nat /\ capped <= MaxTtl
  BY <1>1, <1>2
<1>4. ttl' = Larger(ttl, capped)
  BY DEF Extend
<1> HIDE DEF capped, next
<1> QED
  BY <1>1, <1>3, <1>4, LargerFact

\* Every step of the environment, the tools and the runner preserves IInv.
LEMMA StepIInv == IInv /\ [Next]_vars => IInv'
<1> SUFFICES ASSUME IInv, [Next]_vars PROVE IInv'
  OBVIOUS
<1> USE LeaseAssumption DEF IInv, TypeOK, BirthInv, HolderInv, LeaseInv, States
<1>1. CASE Provision
  <2>1. now = 0 /\ ttl = 0 /\ run = "none" /\ state = "absent"
    BY <1>1 DEF Provision
  <2>2. ttl' = Ttl
    BY <1>1, <2>1 DEF Provision
  <2>3. state' = "provisioning" /\ call' = "dispatching"
        /\ UNCHANGED <<now, run_id, token, cancel, job, enroll, control, grants>>
    BY <1>1 DEF Provision
  <2>4. (TypeOK /\ BirthInv)'
    BY <2>1, <2>2, <2>3 DEF job, enroll, control
  <2>5. HolderInv'
    BY <2>1, <2>3 DEF job, enroll, control
  <2>6. LeaseInv'
    <3>1. PICK r \in Nat : r = request.ttl
      BY DEF Requests
    <3>2. lease = 0 /\ r = 0
      BY <2>1, <3>1
    <3> QED
      BY <2>2, <2>3, <3>1, <3>2 DEF control
  <2> QED
    BY <2>4, <2>5, <2>6
<1>2. CASE StartRun
  BY <1>2 DEF StartRun, meta, tools, control
<1>3. CASE SetDispatch
  BY <1>3 DEF SetDispatch, job, enroll, control
<1>4. CASE MarkFailed
  BY <1>4 DEF MarkFailed, job, enroll, control
<1>5. ASSUME NEW m \in Extensions, Extend(m) PROVE IInv'
  <2>1. ttl' \in Nat /\ ttl' >= ttl /\ ttl' <= MaxTtl
    BY <1>5, ExtendFact
  <2>2. UNCHANGED <<now, state, run_id, token, tools, job, enroll, control, grants>>
    BY <1>5 DEF Extend
  <2>3. (TypeOK /\ BirthInv)'
    <3>1. call # "idle"
      BY <1>5 DEF Extend, Known
    <3> QED
      BY <2>1, <2>2, <3>1 DEF tools, job, enroll, control
  <2>4. HolderInv'
    BY <2>2 DEF job, enroll, control
  <2>5. LeaseInv'
    <3>1. lease \in Nat /\ request.ttl \in Nat /\ lease <= ttl /\ request.ttl <= ttl /\ ttl \in Nat
      BY DEF Requests
    <3>2. lease' = lease /\ request' = request
      BY <2>2 DEF control
    <3>3. PICK r \in Nat : r = request.ttl
      BY <3>1
    <3> QED
      BY <2>1, <3>1, <3>2, <3>3
  <2> QED
    BY <2>3, <2>4, <2>5
<1>6. CASE MarkDestroying
  BY <1>6 DEF MarkDestroying, Known, job, enroll, control
<1>7. CASE CancelRun
  BY <1>7, RequestFact DEF CancelRun, meta, enroll, job
<1>8. ASSUME NEW hasShell \in BOOLEAN, Enroll(hasShell) PROVE IInv'
  BY <1>8 DEF Enroll, tools, job
<1>9. CASE LoseHello
  BY <1>9 DEF LoseHello, meta, tools, job, control
<1>10. CASE Enrolled
  BY <1>10 DEF Enrolled, meta, tools, enroll
<1>11. CASE EnrollFailed
  BY <1>11 DEF EnrollFailed, meta, tools, enroll, control
<1>12. CASE SelfDestruct
  BY <1>12, RequestFact DEF SelfDestruct, Stop, meta, tools, enroll
<1>13. CASE SendControl
  BY <1>13, RequestFact DEF SendControl, meta, tools, job, enroll
<1>14. CASE Authorise
  BY <1>14, RequestFact DEF Authorise, Lapse, tools, job, enroll
<1>15. CASE AnswerControl
  BY <1>15 DEF AnswerControl, Answer, Requests, meta, tools, job, enroll
<1>16. CASE Renew
  <2>1. request.ttl \in Nat
    BY DEF Requests
  <2> QED
    BY <1>16, <2>1, RequestFact DEF Renew, meta, tools, job, enroll
<1>17. CASE Obey
  <2>1. request' = Idle /\ run' = "over"
        /\ exit_reason' \in {"unauthorized", "destroy_requested"}
    BY <1>17 DEF Obey, Stop
  <2>0. call # "idle" /\ run = "up"
    BY <1>17 DEF Obey
  <2>2. UNCHANGED <<now, meta, tools, attempt, enroll, lease, lastOk, grants>>
    BY <1>17 DEF Obey
  <2> QED
    BY <2>0, <2>1, <2>2, RequestFact DEF meta, tools, enroll
<1>18. CASE WorkerRequest
  BY <1>18 DEF WorkerRequest, Lapse, tools, job, enroll, control
<1>19. CASE LoseControl
  BY <1>19, RequestFact DEF LoseControl, meta, tools, job, enroll
<1>20. CASE RunDies
  BY <1>20, RequestFact DEF RunDies, Stop, meta, tools, enroll
<1>21. CASE Tick
  BY <1>21 DEF Tick, meta, tools, job, enroll, control
<1>22. CASE UNCHANGED vars
  BY <1>22 DEF vars, meta, tools, job, enroll, control
<1> QED
  BY <1>1, <1>2, <1>3, <1>4, <1>5, <1>6, <1>7, <1>8, <1>9, <1>10, <1>11, <1>12, <1>13,
     <1>14, <1>15, <1>16, <1>17, <1>18, <1>19, <1>20, <1>21, <1>22 DEF Next

\* IInv holds in every state the environment can reach.
THEOREM Invariance == Spec => []IInv
BY InitIInv, StepIInv, PTL DEF Spec

\* One environment never gives out a second token, and no runner is up
\* without the one that was: enroll is one-shot.
THEOREM EnrollOnce == Spec => []OneHolder
<1>1. IInv => OneHolder
  BY DEF IInv, HolderInv, OneHolder
<1> QED
  BY <1>1, Invariance, PTL

\* The hard cap holds whatever env_extend is called with.
THEOREM CapHolds == Spec => []LeaseWithinCap
<1>1. IInv => LeaseWithinCap
  BY DEF IInv, LeaseInv, LeaseWithinCap
<1> QED
  BY <1>1, Invariance, PTL

\* The runner's lease and every answer under way are within the broker's.
THEOREM RunnerIsBound == Spec => []RunnerNeverOutbids
<1>1. IInv => RunnerNeverOutbids
  BY DEF IInv, LeaseInv, RunnerNeverOutbids
<1> QED
  BY <1>1, Invariance, PTL

\* No step shortens a lease once the environment exists.
THEOREM OnlyExtends == Spec => LeaseOnlyGrows
<1>1. IInv /\ [Next]_vars => [call # "idle" => ttl' >= ttl]_ttl
  <2> SUFFICES ASSUME IInv, Next, call # "idle", ttl' # ttl PROVE ttl' >= ttl
    BY DEF vars, meta
  <2>1. ASSUME NEW m \in Extensions, Extend(m) PROVE ttl' >= ttl
    BY <2>1, ExtendFact
  <2>2. \/ Provision \/ \E m \in Extensions : Extend(m)
        \/ UNCHANGED ttl
    BY DEF Next, StartRun, SetDispatch, MarkFailed, MarkDestroying, CancelRun, Enroll,
           LoseHello, Enrolled, EnrollFailed, SelfDestruct, SendControl, Authorise,
           AnswerControl, Renew, Obey, WorkerRequest, LoseControl, RunDies, Tick, meta
  <2>3. ~Provision
    BY DEF Provision
  <2> QED
    BY <2>1, <2>2, <2>3
<1> QED
  BY <1>1, Invariance, PTL DEF Spec, LeaseOnlyGrows

\* Every step grants, offers, delivers or loses an end of the lease, lets one
\* runner take it, or has nothing to do with it.
LEMMA LeaseStep == IInv /\ [Next]_vars => [Lease_!Next]_(Lease_!vars)
<1> SUFFICES ASSUME IInv, [Next]_vars PROVE Lease_!Next \/ UNCHANGED Lease_!vars
  OBVIOUS
<1> USE DEF Lease_!vars
<1>1. ASSUME ttl' \in 0..MaxTtl, ttl' >= ttl, UNCHANGED <<request, lease, token>>
      PROVE  Lease_!Next
  BY <1>1 DEF Lease_!Next, Lease_!Grant
<1>2. ASSUME request'.ttl = 0, UNCHANGED <<ttl, lease, token>>
      PROVE  Lease_!Next
  BY <1>2 DEF Lease_!Next, Lease_!Lose
<1>3. CASE Provision
  <2>1. ttl' \in 0..MaxTtl /\ ttl' >= ttl
    BY <1>3, LeaseAssumption DEF Provision, IInv, BirthInv
  <2> QED
    BY <1>1, <1>3, <2>1 DEF Provision, control
<1>4. ASSUME NEW m \in Extensions, Extend(m) PROVE Lease_!Next
  <2>1. ttl' \in 0..MaxTtl /\ ttl' >= ttl
    BY <1>4, ExtendFact, LeaseAssumption
  <2> QED
    BY <1>1, <1>4, <2>1 DEF Extend, control
<1>5. ASSUME NEW hasShell \in BOOLEAN, Enroll(hasShell)
      PROVE  Lease_!Next \/ UNCHANGED Lease_!vars
  <2>1. CASE state = "provisioning" /\ run_id \in {0, attempt} /\ hasShell
    <3>1. token = 0 /\ attempt \in 1..MaxAttempts
      BY <1>5, <2>1 DEF Enroll, IInv, BirthInv
    <3>2. Lease_!Take(attempt)
      BY <1>5, <2>1, <3>1 DEF Enroll, Lease_!Take
    <3> QED
      BY <3>1, <3>2 DEF Lease_!Next
  <2>2. CASE ~(state = "provisioning" /\ run_id \in {0, attempt} /\ hasShell)
    BY <1>5, <2>2 DEF Enroll
  <2> QED
    BY <2>1, <2>2
<1>6. CASE AnswerControl
  <2>1. token # 0
    BY <1>6 DEF AnswerControl, IInv, HolderInv, BirthInv
  <2>2. request'.ttl = ttl
    BY <1>6 DEF AnswerControl, Answer
  <2> QED
    BY <1>6, <2>1, <2>2 DEF AnswerControl, meta, Lease_!Next, Lease_!Offer
<1>7. CASE Renew
  <2>1. token # 0
    BY <1>7 DEF Renew, IInv, HolderInv, BirthInv
  <2>2. request'.ttl = 0 /\ lease' = request.ttl /\ UNCHANGED <<ttl, token>>
    BY <1>7, RequestFact DEF Renew, meta
  <2> QED
    BY <2>1, <2>2 DEF Lease_!Next, Lease_!Renew
<1>8. CASE \/ SelfDestruct \/ SendControl \/ Authorise \/ Obey \/ LoseControl \/ RunDies
           \/ (CancelRun /\ request' = Idle)
  <2>1. request'.ttl = 0
    BY <1>8, RequestFact DEF SelfDestruct, SendControl, Authorise, Obey, LoseControl, RunDies, Stop
  <2>2. UNCHANGED <<ttl, lease, token>>
    BY <1>8 DEF SelfDestruct, SendControl, Authorise, Obey, LoseControl, RunDies, CancelRun, meta
  <2> QED
    BY <1>2, <2>1, <2>2
<1>9. CASE \/ StartRun \/ SetDispatch \/ MarkFailed \/ MarkDestroying \/ LoseHello \/ Enrolled
           \/ EnrollFailed \/ WorkerRequest \/ Tick \/ (CancelRun /\ request' = request)
           \/ UNCHANGED vars
  BY <1>9 DEF StartRun, SetDispatch, MarkFailed, MarkDestroying, LoseHello, Enrolled, EnrollFailed,
              WorkerRequest, Tick, CancelRun, vars, meta, control
<1>10. CancelRun => request' \in {Idle, request}
  BY DEF CancelRun
<1> QED
  BY <1>3, <1>4, <1>5, <1>6, <1>7, <1>8, <1>9, <1>10 DEF Next

\* The environment's lease is the one LeasePromise describes, for every ttl,
\* cap, extension and loss.
THEOREM Refinement == Spec => KeepsLease
<1>1. Init => Lease_!Init
  BY DEF Init, Idle, Lease_!Init
<1>2. Spec => [][Lease_!Next]_(Lease_!vars)
  BY LeaseStep, Invariance, PTL DEF Spec
<1> QED
  BY <1>1, <1>2, PTL DEF Spec, KeepsLease, Lease_!Spec
=============================================================================
