------------------------ MODULE CreateQuota_proofs -------------------------
(***************************************************************************)
(* Proofs about CreateQuota, for any number of calls, any cap, and any     *)
(* length of an hour.                                                      *)
(*                                                                         *)
(* The difficulty is the refund that takes another call's row.  What is    *)
(* invariant is a count from every time on (BurnInv): a refund takes a     *)
(* newest row, so wherever it takes the refunded call from the count, it   *)
(* takes a row as well, unless none is left.  The other way round, the     *)
(* rows it takes are of one moment (ForgottenByRefunds).                   *)
(***************************************************************************)
EXTENDS CreateQuota, FiniteSetTheorems, WellFoundedInduction, TLAPS

USE QuotaAssumption

-----------------------------------------------------------------------------
\* The first state satisfies the invariant.
LEMMA InitIInv == Init => IInv
<1> SUFFICES ASSUME Init PROVE IInv
  OBVIOUS
<1>1. TypeOK
  <2>1. 0 \in Time
    BY DEF Time
  <2> QED
    BY <2>1 DEF Init, TypeOK
<1>2. RowInv /\ CallInv
  BY FS_EmptySet DEF Init, RowInv, CallInv, Failed, Never
<1>3. BurnInv
  <2>1. ASSUME NEW t \in -Hour..Horizon
        PROVE  Cardinality(RowsSince(t)) <= Cardinality(AdmittedSince(t) \ Refunded)
    <3>1. RowsSince(t) = {} /\ AdmittedSince(t) \ Refunded = {}
      BY DEF Init, RowsSince, AdmittedSince
    <3> QED
      BY <3>1, FS_EmptySet
  <2> QED
    BY <2>1 DEF BurnInv
<1>4. ForgottenByRefunds
  <2>1. Forgotten = {} /\ RefundsMade = {}
    BY DEF Init, Forgotten, RefundsMade, InTheHour, AdmittedSince, Failed
  <2>2. {ts[c] : c \in Forgotten} = {}
    BY <2>1
  <2> QED
    BY <2>1, <2>2, FS_EmptySet DEF ForgottenByRefunds
<1> QED
  BY <1>1, <1>2, <1>3, <1>4 DEF IInv

-----------------------------------------------------------------------------
\* Calls are admitted at no more moments than there are calls, and at as many
\* if no two of them share one.
LEMMA Moments ==
  ASSUME NEW S \in SUBSET Calls
  PROVE  /\ IsFiniteSet({ts[c] : c \in S}) /\ Cardinality({ts[c] : c \in S}) \in Nat
         /\ (\A c, d \in S : ts[c] = ts[d] => c = d) => Cardinality({ts[c] : c \in S}) = Cardinality(S)
<1> DEFINE T == {ts[c] : c \in S}
           g == [c \in S |-> ts[c]]
<1>1. IsFiniteSet(S)
  BY FS_Subset
<1>2. g \in Surjection(S, T)
  BY DEF Surjection
<1>3. (\A c, d \in S : ts[c] = ts[d] => c = d) => g \in Injection(S, T)
  BY DEF Injection, IsInjective
<1> HIDE DEF T, g
<1>4. IsFiniteSet(T) /\ (g \in Injection(S, T) => Cardinality(T) = Cardinality(S))
  BY <1>1, <1>2, FS_Surjection
<1>5. Cardinality(T) \in Nat
  BY <1>4, FS_CardinalityType
<1> QED
  BY <1>3, <1>4, <1>5 DEF T

\* Forgetting nothing new, and forgetting the creates of one moment for a refund.
LEMMA ForgottenKept ==
  ASSUME IInv, {ts'[c] : c \in Forgotten'} \subseteq {ts[c] : c \in Forgotten},
         RefundsMade \subseteq RefundsMade'
  PROVE  ForgottenByRefunds'
<1> DEFINE M == {ts[c] : c \in Forgotten}
           N == {ts'[c] : c \in Forgotten'}
<1>1. Forgotten \subseteq Calls /\ RefundsMade' \subseteq Calls /\ RefundsMade \subseteq Calls
  BY DEF Forgotten, InTheHour, AdmittedSince, RefundsMade
<1>2. IsFiniteSet(M) /\ Cardinality(M) \in Nat /\ Cardinality(M) <= Cardinality(RefundsMade)
  BY <1>1, Moments DEF IInv, ForgottenByRefunds
<1> HIDE DEF M, N
<1>3. N \subseteq M
  BY DEF M, N
<1>4. Cardinality(N) \in Nat /\ Cardinality(N) <= Cardinality(M)
  BY <1>2, <1>3, FS_Subset, FS_CardinalityType
<1>5. /\ Cardinality(RefundsMade) \in Nat /\ Cardinality(RefundsMade') \in Nat
      /\ Cardinality(RefundsMade) <= Cardinality(RefundsMade')
  BY <1>1, FS_Subset, FS_CardinalityType
<1>6. Cardinality(N) <= Cardinality(RefundsMade')
  BY <1>2, <1>4, <1>5
<1> QED
  BY <1>6 DEF ForgottenByRefunds, N

LEMMA ForgottenMore ==
  ASSUME IInv, NEW c \in Calls, c \notin RefundsMade, RefundsMade' = RefundsMade \cup {c}, NEW t,
         {ts'[d] : d \in Forgotten'} \subseteq {ts[d] : d \in Forgotten} \cup {t}
  PROVE  ForgottenByRefunds'
<1> DEFINE M == {ts[d] : d \in Forgotten}
           N == {ts'[d] : d \in Forgotten'}
<1>1. Forgotten \subseteq Calls /\ RefundsMade \subseteq Calls
  BY DEF Forgotten, InTheHour, AdmittedSince, RefundsMade
<1>2. IsFiniteSet(M) /\ Cardinality(M) \in Nat /\ Cardinality(M) <= Cardinality(RefundsMade)
  <2>1. IsFiniteSet(M) /\ Cardinality(M) \in Nat
    <3>1. Forgotten \in SUBSET Calls
      BY <1>1
    <3> QED
      BY <3>1, Moments
  <2>2. Cardinality(M) <= Cardinality(RefundsMade)
    BY DEF IInv, ForgottenByRefunds
  <2> QED
    BY <2>1, <2>2
<1> HIDE DEF M, N
<1>3. N \subseteq M \cup {t}
  BY DEF M, N
<1>4. IsFiniteSet(M \cup {t}) /\ Cardinality(M \cup {t}) \in Nat /\ Cardinality(M \cup {t}) <= Cardinality(M) + 1
  <2>1. CASE t \in M
    <3>1. M \cup {t} = M
      BY <2>1
    <3> QED
      BY <1>2, <3>1
  <2>2. CASE t \notin M
    <3>1. IsFiniteSet(M \cup {t}) /\ Cardinality(M \cup {t}) = Cardinality(M) + 1
      BY <1>2, <2>2, FS_AddElement
    <3> QED
      BY <1>2, <3>1
  <2> QED
    BY <2>1, <2>2
<1>5. Cardinality(N) \in Nat /\ Cardinality(N) <= Cardinality(M \cup {t})
  BY <1>3, <1>4, FS_Subset, FS_CardinalityType
<1>6. Cardinality(RefundsMade') = Cardinality(RefundsMade) + 1 /\ Cardinality(RefundsMade) \in Nat
  <2>1. IsFiniteSet(RefundsMade)
    BY <1>1, FS_Subset
  <2>2. Cardinality(RefundsMade \cup {c}) = Cardinality(RefundsMade) + 1
    BY <2>1, FS_AddElement
  <2> QED
    BY <2>1, <2>2, FS_CardinalityType
<1>7. Cardinality(N) <= Cardinality(RefundsMade')
  BY <1>2, <1>4, <1>5, <1>6
<1> QED
  BY <1>7 DEF ForgottenByRefunds, N

-----------------------------------------------------------------------------
\* Of calls that have rows one is the last admitted.
LEMMA NewestExists ==
  ASSUME TypeOK, RowInv, NEW S \in SUBSET creates, S # {}
  PROVE  \E d \in S : \A c \in S : ts[c] <= ts[d]
<1> DEFINE Newer(d) == {c \in S : ts[c] > ts[d]}
           Sets     == {Newer(d) : d \in S}
<1>1. \A c \in S : ts[c] \in Int
  BY DEF TypeOK, RowInv, Time, Never
<1>2. Sets \subseteq FiniteSubsetsOf(S) /\ Sets # {}
  <2>1. IsFiniteSet(S)
    BY FS_Subset DEF TypeOK
  <2>2. \A T \in SUBSET S : IsFiniteSet(T)
    BY <2>1, FS_Subset
  <2> QED
    BY <2>2 DEF FiniteSubsetsOf
<1>3. PICK N \in Sets : \A M \in Sets : <<M, N>> \notin StrictSubsetOrdering(S)
  <2> HIDE DEF Sets
  <2> QED
    BY <1>2, FS_StrictSubsetOrderingWellFounded, WFMin
<1>4. PICK d \in S : N = Newer(d)
  BY <1>3
<1>5. ASSUME NEW c \in S, ts[c] > ts[d] PROVE FALSE
  <2>1. Newer(c) \subseteq Newer(d) /\ c \in Newer(d) /\ c \notin Newer(c)
    BY <1>1, <1>5
  <2>2. <<Newer(c), Newer(d)>> \in StrictSubsetOrdering(S)
    BY <2>1 DEF StrictSubsetOrdering
  <2> QED
    BY <1>3, <1>4, <2>2
<1> QED
  BY <1>1, <1>5

\* A subset of the calls is finite and counts no more than its superset.
LEMMA Count ==
  ASSUME NEW T \in SUBSET Calls, NEW S \in SUBSET T
  PROVE  /\ IsFiniteSet(T) /\ IsFiniteSet(S)
         /\ Cardinality(S) \in Nat /\ Cardinality(T) \in Nat /\ Cardinality(S) <= Cardinality(T)
<1>1. IsFiniteSet(T)
  BY FS_Subset
<1>2. IsFiniteSet(S) /\ Cardinality(S) <= Cardinality(T)
  BY <1>1, FS_Subset
<1> QED
  BY <1>1, <1>2, FS_CardinalityType

-----------------------------------------------------------------------------
PCs == Over \cup {"idle", "checked", "admitted", "provisioned", "dispatched", "failed", "refunded", "failing"}

\* The steps of a handler that leave the creates table alone.
Onward(c) == \/ CheckBreaker(c) \/ Provision(c) \/ SetDispatch(c) \/ MarkFailed(c) \/ Trip(c) \/ Crash(c)
             \/ \E answer \in Codes : Dispatch(c, answer)

\* What GitHub answered a call stays its answer; no step but a refund's makes
\* a call one of the refunded.
LEMMA CallStep ==
  ASSUME TypeOK, CallInv, NEW c \in Calls, Onward(c)
  PROVE  /\ TypeOK' /\ CallInv' /\ UNCHANGED <<creates, ts, now>>
         /\ Refunded' \subseteq Refunded /\ RefundsMade \subseteq RefundsMade'
<1> DEFINE Good == /\ TypeOK' /\ CallInv' /\ UNCHANGED <<creates, ts, now>>
                   /\ Refunded' \subseteq Refunded /\ RefundsMade \subseteq RefundsMade'
<1> USE DEF PCs, Over, Failed
<1>1. ASSUME NEW to \in PCs, pc' = [pc EXCEPT ![c] = to], UNCHANGED <<creates, ts, code, suspended, now>>,
             open' = open \/ (open' = TRUE /\ suspended),
             to \in {"idle", "checked", "refused"} => ts[c] = Never,
             to \in {"idle", "checked", "refused", "admitted", "provisioned"} => code[c] = "none",
             to = "dispatched" => code[c] = "ok",
             to # "failed", to = "refunded" => Failed(c),
             to = "failing" => code[c] = "account_suspended",
             Failed(c) /\ pc[c] \in {"failed", "crashed"} => to \in {"failed", "crashed"}
      PROVE  Good
  <2>1. TypeOK'
    BY <1>1 DEF TypeOK
  <2>2. CallInv'
    BY <1>1 DEF TypeOK, CallInv
  <2>3. Refunded' \subseteq Refunded /\ RefundsMade \subseteq RefundsMade'
    BY <1>1 DEF TypeOK, Refunded, RefundsMade
  <2> QED
    BY <1>1, <2>1, <2>2, <2>3
<1>2. ASSUME CheckBreaker(c) PROVE Good
  BY <1>1, <1>2 DEF CheckBreaker, Goto, CallInv, TypeOK, guard, world
<1>3. ASSUME Provision(c) \/ SetDispatch(c) PROVE Good
  BY <1>1, <1>3 DEF Provision, SetDispatch, Goto, CallInv, TypeOK, guard, world
<1>4. ASSUME MarkFailed(c) PROVE Good
  BY <1>1, <1>4 DEF MarkFailed, Goto, CallInv, TypeOK, guard, world
<1>5. ASSUME Trip(c) PROVE Good
  BY <1>1, <1>5 DEF Trip, Goto, CallInv, TypeOK, world
<1>6. ASSUME Crash(c) PROVE Good
  BY <1>1, <1>6 DEF Crash, CallInv, TypeOK, guard, world
<1>7. ASSUME NEW answer \in Codes, Dispatch(c, answer) PROVE Good
  <2>1. /\ pc[c] = "provisioned" /\ code[c] = "none" /\ code' = [code EXCEPT ![c] = answer]
        /\ pc' = [pc EXCEPT ![c] = IF answer = "ok" THEN "dispatched" ELSE "failed"]
        /\ answer = "account_suspended" => suspended
        /\ UNCHANGED <<creates, open, ts, suspended, now>>
    BY <1>7 DEF Dispatch, Goto, CallInv, guard, world
  <2>2. TypeOK'
    BY <2>1 DEF TypeOK
  <2>3. CallInv'
    BY <2>1 DEF TypeOK, CallInv, Codes
  <2>4. Refunded' \subseteq Refunded /\ RefundsMade \subseteq RefundsMade'
    BY <2>1 DEF TypeOK, Refunded, RefundsMade
  <2> QED
    BY <2>1, <2>2, <2>3, <2>4 DEF TypeOK
<1> QED
  BY <1>2, <1>3, <1>4, <1>5, <1>6, <1>7 DEF Onward

-----------------------------------------------------------------------------
\* A step that keeps the rows or drops some, admits nobody and refunds nobody,
\* keeps the counts.
LEMMA CountsKept ==
  ASSUME IInv, creates' \subseteq creates, UNCHANGED ts, Refunded' \subseteq Refunded
  PROVE  BurnInv'
<1> SUFFICES ASSUME NEW t \in -Hour..Horizon
             PROVE  Cardinality(RowsSince(t)') <= Cardinality(AdmittedSince(t)' \ Refunded')
  BY DEF BurnInv
<1>1. /\ RowsSince(t)' \subseteq RowsSince(t) /\ RowsSince(t) \subseteq Calls
      /\ AdmittedSince(t) \ Refunded \subseteq AdmittedSince(t)' \ Refunded'
      /\ AdmittedSince(t)' \ Refunded' \subseteq Calls
  BY DEF RowsSince, AdmittedSince, IInv, TypeOK
<1>2. Cardinality(RowsSince(t)) <= Cardinality(AdmittedSince(t) \ Refunded)
  BY DEF IInv, BurnInv
<1> HIDE DEF RowsSince, AdmittedSince, Refunded
<1>3. Cardinality(RowsSince(t)') \in Nat /\ Cardinality(RowsSince(t)) \in Nat
      /\ Cardinality(RowsSince(t)') <= Cardinality(RowsSince(t))
  BY <1>1, Count
<1>4. /\ Cardinality(AdmittedSince(t) \ Refunded) \in Nat /\ Cardinality(AdmittedSince(t)' \ Refunded') \in Nat
      /\ Cardinality(AdmittedSince(t) \ Refunded) <= Cardinality(AdmittedSince(t)' \ Refunded')
  BY <1>1, Count
<1> QED
  BY <1>2, <1>3, <1>4

\* An admitted call adds a row and is one that counts.
LEMMA AdmitStep == ASSUME IInv, NEW c \in Calls, AllowEnvCreate(c) PROVE IInv'
<1>0. TypeOK /\ RowInv /\ CallInv /\ pc[c] = "checked" /\ ts[c] = Never /\ code[c] = "none" /\ c \notin creates
  BY DEF IInv, CallInv, RowInv, AllowEnvCreate
<1>1. /\ UNCHANGED <<open, code, suspended, now>> /\ Pruned \subseteq creates
      /\ IsFiniteSet(Pruned) /\ Cardinality(Pruned) \in Nat /\ Cardinality(Pruned) <= Cardinality(creates)
      /\ Cardinality(creates) <= MaxPerHour /\ Cardinality(creates) \in Nat
  BY <1>0, Count DEF AllowEnvCreate, world, Pruned, TypeOK, RowInv
<1>2. CASE creates' = Pruned /\ pc' = [pc EXCEPT ![c] = "refused"] /\ UNCHANGED ts
  <2>1. TypeOK' /\ CallInv'
    BY <1>0, <1>1, <1>2 DEF TypeOK, CallInv, Over, Failed
  <2>2. RowInv'
    BY <1>0, <1>1, <1>2 DEF RowInv
  <2>3. Refunded' \subseteq Refunded
    BY <1>0, <1>1, <1>2 DEF TypeOK, Refunded, Failed
  <2>4. BurnInv'
    BY <1>1, <1>2, <2>3, CountsKept
  <2>5. Forgotten' = Forgotten /\ RefundsMade \subseteq RefundsMade'
    <3>1. InTheHour' = InTheHour /\ \A d \in InTheHour : d \in creates <=> d \in creates'
      BY <1>1, <1>2 DEF InTheHour, AdmittedSince, Pruned
    <3> QED
      BY <1>0, <1>1, <1>2, <3>1 DEF Forgotten, RefundsMade, Failed, TypeOK
  <2>6. {ts'[d] : d \in Forgotten'} \subseteq {ts[d] : d \in Forgotten}
    BY <1>2, <2>5
  <2>7. ForgottenByRefunds'
    BY <2>5, <2>6, ForgottenKept
  <2> QED
    BY <2>1, <2>2, <2>4, <2>7 DEF IInv
<1>3. CASE /\ Cardinality(Pruned) < MaxPerHour
           /\ creates' = Pruned \cup {c} /\ pc' = [pc EXCEPT ![c] = "admitted"] /\ ts' = [ts EXCEPT ![c] = now]
  <2>1. TypeOK' /\ CallInv'
    BY <1>0, <1>1, <1>3 DEF TypeOK, CallInv, Over, Failed
  <2>2. now # Never /\ now \in Nat
    BY <1>0 DEF TypeOK, Time, Never
  <2>3. Cardinality(creates') <= MaxPerHour
    <3>1. c \notin Pruned
      BY <1>0, <1>1
    <3>2. Cardinality(Pruned \cup {c}) = Cardinality(Pruned) + 1
      BY <1>1, <3>1, FS_AddElement
    <3> QED
      BY <1>1, <1>3, <3>2
  <2>4. RowInv'
    BY <1>0, <1>1, <1>3, <2>2, <2>3 DEF RowInv, TypeOK
  <2>5. Refunded' = Refunded /\ c \notin Refunded
    BY <1>0, <1>1, <1>3 DEF TypeOK, Refunded, Failed
  <2>6. ASSUME NEW t \in -Hour..Horizon
        PROVE  Cardinality(RowsSince(t)') <= Cardinality(AdmittedSince(t)' \ Refunded')
    <3> DEFINE Rows == RowsSince(t)
               Cnt  == AdmittedSince(t) \ Refunded
    <3>1. Cardinality(Rows) <= Cardinality(Cnt)
      BY DEF IInv, BurnInv
    <3>2. Rows \subseteq Calls /\ Cnt \subseteq Calls /\ c \notin Rows /\ c \notin Cnt
      BY <1>0 DEF RowsSince, AdmittedSince, TypeOK
    <3>3. /\ IsFiniteSet(Rows) /\ Cardinality(Rows) \in Nat /\ IsFiniteSet(Cnt) /\ Cardinality(Cnt) \in Nat
      BY <3>2, Count
    <3>4. CASE now >= t
      <4>1. RowsSince(t)' \subseteq Rows \cup {c}
        BY <1>0, <1>1, <1>3 DEF RowsSince, TypeOK
      <4>2. AdmittedSince(t)' \ Refunded' = Cnt \cup {c}
        BY <1>0, <1>3, <2>2, <2>5, <3>4 DEF AdmittedSince, TypeOK
      <4> HIDE DEF Rows, Cnt
      <4>3. Cardinality(Rows \cup {c}) = Cardinality(Rows) + 1 /\ Cardinality(Cnt \cup {c}) = Cardinality(Cnt) + 1
        BY <3>2, <3>3, FS_AddElement
      <4>4. Rows \cup {c} \in SUBSET Calls
        BY <3>2
      <4>5. Cardinality(RowsSince(t)') <= Cardinality(Rows \cup {c}) /\ Cardinality(RowsSince(t)') \in Nat
        BY <4>1, <4>4, Count
      <4> QED
        BY <3>1, <3>3, <4>2, <4>3, <4>5
    <3>5. CASE ~(now >= t)
      <4>1. RowsSince(t)' \subseteq Rows
        BY <1>0, <1>1, <1>3, <3>5 DEF RowsSince, TypeOK
      <4>2. AdmittedSince(t)' \ Refunded' = Cnt
        BY <1>0, <1>3, <2>2, <2>5, <3>5 DEF AdmittedSince, TypeOK
      <4> HIDE DEF Rows, Cnt
      <4>3. Cardinality(RowsSince(t)') <= Cardinality(Rows) /\ Cardinality(RowsSince(t)') \in Nat
        BY <3>2, <4>1, Count
      <4> QED
        BY <3>1, <3>3, <4>2, <4>3
    <3> QED
      BY <3>4, <3>5
  <2>7. BurnInv'
    BY <2>6 DEF BurnInv
  <2>8. ForgottenByRefunds'
    <3>1. ASSUME NEW d \in Forgotten' PROVE d \in Forgotten /\ ts'[d] = ts[d]
      <4>1. d \in Calls /\ d # c /\ ts'[d] = ts[d]
        BY <1>0, <1>3, <3>1 DEF Forgotten, InTheHour, AdmittedSince, TypeOK
      <4> QED
        BY <1>1, <1>3, <3>1, <4>1 DEF Forgotten, InTheHour, AdmittedSince, Pruned
    <3>2. {ts'[d] : d \in Forgotten'} \subseteq {ts[d] : d \in Forgotten}
      BY <3>1
    <3>3. RefundsMade \subseteq RefundsMade'
      BY <1>0, <1>1, <1>3 DEF RefundsMade, Failed, TypeOK
    <3> QED
      BY <3>2, <3>3, ForgottenKept
  <2> QED
    BY <2>1, <2>4, <2>7, <2>8 DEF IInv
<1> QED
  BY <1>1, <1>2, <1>3 DEF AllowEnvCreate

\* A refund: a newest row goes, and the call no longer counts.
LEMMA RefundStep == ASSUME IInv, NEW c \in Calls, RefundEnvCreate(c) PROVE IInv'
<1>0. TypeOK /\ RowInv /\ CallInv /\ pc[c] = "failed" /\ Failed(c)
  BY DEF IInv, CallInv, RefundEnvCreate, Goto
<1>1. /\ UNCHANGED <<open, ts, code, suspended, now>> /\ pc' = [pc EXCEPT ![c] = "refunded"]
      /\ creates' = NewestGone /\ NewestGone \subseteq creates /\ creates \subseteq Calls
  BY <1>0 DEF RefundEnvCreate, Goto, NewestGone, world, TypeOK
<1>2. TypeOK' /\ CallInv'
  BY <1>0, <1>1 DEF TypeOK, CallInv, Over, Failed
<1>3. RowInv'
  <2>1. Cardinality(creates') <= Cardinality(creates) /\ Cardinality(creates') \in Nat /\ Cardinality(creates) \in Nat
    BY <1>1, Count
  <2> QED
    BY <1>0, <1>1, <2>1 DEF RowInv
<1>4. ForgottenByRefunds'
  <2>1. RefundsMade' = RefundsMade \cup {c} /\ c \notin RefundsMade
    BY <1>0, <1>1 DEF TypeOK, RefundsMade, Failed
  <2>2. \E t : {ts'[d] : d \in Forgotten'} \subseteq {ts[d] : d \in Forgotten} \cup {t}
    <3>1. InTheHour' = InTheHour
      BY <1>1 DEF InTheHour, AdmittedSince
    <3>2. CASE creates = {}
      <4>1. Forgotten' \subseteq Forgotten
        BY <3>1, <3>2 DEF Forgotten
      <4>2. {ts'[d] : d \in Forgotten'} \subseteq {ts[d] : d \in Forgotten} \cup {Never}
        BY <1>1, <4>1
      <4> QED
        BY <4>2
    <3>3. CASE creates # {}
      <4>1. PICK m \in creates : \A d \in creates : ts[d] <= ts[m]
        BY <1>0, <3>3, NewestExists
      <4>2. ASSUME NEW d \in Forgotten' PROVE d \in Forgotten \/ ts[d] = ts[m]
        <5>1. CASE d \notin creates
          BY <3>1, <4>2, <5>1 DEF Forgotten
        <5>2. CASE d \in creates
          <6>1. ~\E e \in creates : ts[e] > ts[d]
            BY <1>1, <4>2, <5>2 DEF Forgotten, NewestGone
          <6>2. ts[d] \in Int /\ ts[m] \in Int
            BY <1>0, <4>1, <5>2 DEF TypeOK, RowInv, Time, Never
          <6> QED
            BY <4>1, <5>2, <6>1, <6>2
        <5> QED
          BY <5>1, <5>2
      <4>3. {ts'[d] : d \in Forgotten'} \subseteq {ts[d] : d \in Forgotten} \cup {ts[m]}
        BY <1>1, <4>2
      <4> QED
        BY <4>3
    <3> QED
      BY <3>2, <3>3
  <2> QED
    BY <2>1, <2>2, ForgottenMore
<1>5. Refunded' = Refunded \cup {c}
  BY <1>0, <1>1 DEF TypeOK, Refunded, Failed
<1>6. ASSUME NEW t \in -Hour..Horizon
      PROVE  Cardinality(RowsSince(t)') <= Cardinality(AdmittedSince(t)' \ Refunded')
  <2> DEFINE Rows == RowsSince(t)
             Cnt  == AdmittedSince(t) \ Refunded
  <2>1. Cardinality(Rows) <= Cardinality(Cnt)
    BY DEF IInv, BurnInv
  <2>2. Rows \subseteq Calls /\ Cnt \subseteq Calls /\ AdmittedSince(t)' \ Refunded' = Cnt \ {c}
        /\ RowsSince(t)' = {d \in NewestGone : ts[d] >= t}
    BY <1>1, <1>5 DEF RowsSince, AdmittedSince
  <2>3. /\ IsFiniteSet(Rows) /\ Cardinality(Rows) \in Nat /\ IsFiniteSet(Cnt) /\ Cardinality(Cnt) \in Nat
    BY <2>2, Count
  <2>4. Cardinality(Cnt \ {c}) >= Cardinality(Cnt) - 1 /\ Cardinality(Cnt \ {c}) \in Nat
    <3>1. IsFiniteSet(Cnt \ {c}) /\ Cardinality(Cnt \ {c}) = IF c \in Cnt THEN Cardinality(Cnt) - 1 ELSE Cardinality(Cnt)
      BY <2>3, FS_RemoveElement
    <3>2. Cardinality(Cnt \ {c}) \in Nat
      BY <3>1, FS_CardinalityType
    <3> QED
      BY <2>3, <3>1, <3>2
  <2>5. CASE Rows = {}
    <3>1. RowsSince(t)' = {}
      BY <1>1, <2>2, <2>5 DEF RowsSince
    <3>2. Cardinality(RowsSince(t)') = 0
      BY <3>1, FS_EmptySet
    <3>3. Cardinality(AdmittedSince(t)' \ Refunded') \in Nat
      BY <2>2, <2>4
    <3> QED
      BY <3>2, <3>3
  <2>6. CASE Rows # {}
    <3>1. PICK m \in Rows : \A d \in Rows : ts[d] <= ts[m]
      BY <1>0, <2>6, NewestExists DEF RowsSince
    <3>2. m \notin RowsSince(t)'
      <4>1. ASSUME NEW d \in creates, ts[d] > ts[m] PROVE FALSE
        <5>1. ts[d] \in Int /\ ts[m] \in Int /\ ts[m] >= t /\ t \in Int
          BY <1>0 DEF RowsSince, TypeOK, Time, Never
        <5>2. d \in Rows
          BY <4>1, <5>1 DEF RowsSince
        <5> QED
          BY <3>1, <4>1, <5>1, <5>2
      <4> QED
        BY <2>2, <4>1 DEF NewestGone
    <3>3. RowsSince(t)' \subseteq Rows \ {m}
      BY <1>1, <2>2, <3>2 DEF RowsSince
    <3> HIDE DEF Rows, Cnt
    <3>4. IsFiniteSet(Rows \ {m}) /\ Cardinality(Rows \ {m}) = Cardinality(Rows) - 1
      BY <2>3, <3>1, FS_RemoveElement
    <3>5. Cardinality(RowsSince(t)') <= Cardinality(Rows \ {m}) /\ Cardinality(RowsSince(t)') \in Nat
      <4>1. Rows \ {m} \in SUBSET Calls
        BY <2>2
      <4> QED
        BY <3>3, <4>1, Count
    <3> QED
      BY <2>1, <2>2, <2>3, <2>4, <3>4, <3>5
  <2> QED
    BY <2>5, <2>6
<1>7. BurnInv'
  BY <1>6 DEF BurnInv
<1> QED
  BY <1>2, <1>3, <1>4, <1>7 DEF IInv

-----------------------------------------------------------------------------
\* Every step keeps the invariant.
LEMMA StepIInv == IInv /\ [Next]_vars => IInv'
<1> SUFFICES ASSUME IInv, [Next]_vars PROVE IInv'
  OBVIOUS
<1>0. TypeOK /\ RowInv /\ CallInv
  BY DEF IInv
<1>1. ASSUME NEW c \in Calls, Onward(c) PROVE IInv'
  <2>1. /\ TypeOK' /\ CallInv' /\ UNCHANGED <<creates, ts, now>>
        /\ Refunded' \subseteq Refunded /\ RefundsMade \subseteq RefundsMade'
    BY <1>0, <1>1, CallStep
  <2>2. RowInv' /\ Forgotten' = Forgotten
    BY <1>0, <2>1 DEF RowInv, Forgotten, InTheHour, AdmittedSince
  <2>4. {ts'[d] : d \in Forgotten'} \subseteq {ts[d] : d \in Forgotten}
    BY <2>1, <2>2
  <2>5. ForgottenByRefunds'
    BY <2>1, <2>4, ForgottenKept
  <2>3. BurnInv'
    BY <2>1, CountsKept
  <2> QED
    BY <2>1, <2>2, <2>3, <2>5 DEF IInv
<1>2. ASSUME Suspend \/ Tick \/ UNCHANGED vars PROVE IInv'
  <2>1. UNCHANGED <<creates, open, pc, ts, code>> /\ now \in Time /\ now' \in Time /\ now' >= now
        /\ suspended' \in BOOLEAN /\ (suspended => suspended')
    <3>1. CASE Suspend
      BY <1>0, <3>1 DEF Suspend, guard, calls, TypeOK, Time
    <3>2. CASE Tick
      BY <1>0, <3>2 DEF Tick, guard, calls, TypeOK, Time
    <3>3. CASE UNCHANGED vars
      BY <1>0, <3>3 DEF vars, guard, calls, world, TypeOK, Time
    <3> QED
      BY <1>2, <3>1, <3>2, <3>3
  <2>2. TypeOK' /\ CallInv'
    BY <1>0, <2>1 DEF TypeOK, CallInv, Failed
  <2>3. RowInv'
    BY <1>0, <2>1 DEF RowInv, TypeOK, Time, Never
  <2>4. ForgottenByRefunds'
    <3>1. Forgotten' \subseteq Forgotten
      BY <1>0, <2>1 DEF Forgotten, InTheHour, AdmittedSince, TypeOK, Time, Never
    <3>2. {ts'[d] : d \in Forgotten'} \subseteq {ts[d] : d \in Forgotten}
      BY <2>1, <3>1
    <3>3. RefundsMade' = RefundsMade
      BY <2>1 DEF RefundsMade, Failed
    <3> QED
      BY <3>2, <3>3, ForgottenKept
  <2>5. BurnInv'
    BY <2>1, CountsKept DEF Refunded, Failed
  <2> QED
    BY <2>2, <2>3, <2>4, <2>5 DEF IInv
<1>3. \/ \E c \in Calls : Onward(c) \/ AllowEnvCreate(c) \/ RefundEnvCreate(c)
      \/ Suspend \/ Tick \/ UNCHANGED vars
  BY DEF Next, Onward
<1> QED
  BY <1>1, <1>2, <1>3, AdmitStep, RefundStep

\* IInv holds in every state the calls, GitHub and the clock can reach.
THEOREM Invariance == Spec => []IInv
BY InitIInv, StepIInv, PTL DEF Spec

\* A failed create burns no quota, whosever row its refund takes.
THEOREM RefundsSuffice == Spec => []FailuresBurnNothing
<1>1. IInv => FailuresBurnNothing
  <2> SUFFICES ASSUME IInv PROVE FailuresBurnNothing
    OBVIOUS
  <2>1. now - Hour \in -Hour..Horizon
    BY DEF IInv, TypeOK, Time
  <2>2. RowsSince(now - Hour) = Pruned /\ AdmittedSince(now - Hour) = InTheHour
    BY DEF RowsSince, Pruned, InTheHour
  <2> QED
    BY <2>1, <2>2 DEF IInv, BurnInv, FailuresBurnNothing
<1> QED
  BY <1>1, Invariance, PTL

\* What GuardDO has forgotten of the hour, refunds made it forget.
THEOREM RefundsForget == Spec => []ForgottenByRefunds
<1>1. IInv => ForgottenByRefunds
  BY DEF IInv
<1> QED
  BY <1>1, Invariance, PTL

\* The rows are never more than the cap, so the hour is over it by what was
\* forgotten.
LEMMA HourCount ==
  ASSUME IInv
  PROVE  /\ Forgotten \subseteq Calls /\ Cardinality(Forgotten) \in Nat /\ Cardinality(InTheHour) \in Nat
         /\ Cardinality(InTheHour) <= MaxPerHour + Cardinality(Forgotten)
<1>1. /\ InTheHour \subseteq Calls /\ Forgotten \subseteq Calls /\ creates \subseteq Calls
      /\ InTheHour \cup creates \subseteq Calls /\ InTheHour \subseteq creates \cup Forgotten
      /\ creates \cup Forgotten \subseteq Calls /\ creates \cap Forgotten = {}
      /\ Cardinality(creates) <= MaxPerHour
  BY DEF IInv, TypeOK, RowInv, InTheHour, AdmittedSince, Forgotten
<1>2. /\ IsFiniteSet(creates) /\ IsFiniteSet(Forgotten)
      /\ Cardinality(creates) \in Nat /\ Cardinality(Forgotten) \in Nat
  BY <1>1, Count
<1>3. Cardinality(creates \cup Forgotten) = Cardinality(creates) + Cardinality(Forgotten)
  BY <1>1, <1>2, FS_Union, FS_EmptySet
<1>4. Cardinality(InTheHour) \in Nat /\ Cardinality(InTheHour) <= Cardinality(creates \cup Forgotten)
  BY <1>1, Count
<1> QED
  BY <1>1, <1>2, <1>3, <1>4

\* No hour sees more creates than the cap and one for each refund, unless two
\* creates are of one moment.
THEOREM CapGivesWay == Spec => []CapButForRefunds
<1>1. IInv => CapButForRefunds
  <2> SUFFICES ASSUME IInv, \A c, d \in InTheHour : ts[c] = ts[d] => c = d
               PROVE  Cardinality(InTheHour) <= MaxPerHour + Cardinality(RefundsMade)
    BY DEF CapButForRefunds
  <2>1. \A c, d \in Forgotten : ts[c] = ts[d] => c = d
    BY DEF Forgotten
  <2>2. Cardinality({ts[c] : c \in Forgotten}) = Cardinality(Forgotten)
    <3>1. Forgotten \in SUBSET Calls
      BY HourCount
    <3> QED
      BY <2>1, <3>1, Moments
  <2>3. Cardinality(Forgotten) <= Cardinality(RefundsMade)
    BY <2>2 DEF IInv, ForgottenByRefunds
  <2>4. Cardinality(RefundsMade) \in Nat
    BY FS_Subset, FS_CardinalityType DEF RefundsMade
  <2> QED
    BY <2>3, <2>4, HourCount
<1> QED
  BY <1>1, Invariance, PTL

\* While no create has failed, no hour sees more of them than the cap.
THEOREM CapHolds == Spec => []CapWhileNothingFails
<1>1. IInv => CapWhileNothingFails
  <2> SUFFICES ASSUME IInv, \A c \in Calls : ~Failed(c) PROVE Cardinality(InTheHour) <= MaxPerHour
    BY DEF CapWhileNothingFails
  <2>1. RefundsMade = {}
    BY DEF RefundsMade
  <2>2. Cardinality({ts[c] : c \in Forgotten}) <= 0
    BY <2>1, FS_EmptySet DEF IInv, ForgottenByRefunds
  <2>3. {ts[c] : c \in Forgotten} = {}
    <3> DEFINE M == {ts[c] : c \in Forgotten}
    <3>1. IsFiniteSet(M) /\ Cardinality(M) \in Nat
      BY HourCount, Moments
    <3> HIDE DEF M
    <3>2. Cardinality(M) = 0
      BY <2>2, <3>1 DEF M
    <3> QED
      BY <3>1, <3>2, FS_EmptySet DEF M
  <2>4. Forgotten = {}
    BY <2>3
  <2>5. Cardinality(Forgotten) = 0
    BY <2>4, FS_EmptySet
  <2> QED
    BY <2>5, HourCount
<1> QED
  BY <1>1, Invariance, PTL
=============================================================================
