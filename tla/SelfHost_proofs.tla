-------------------------- MODULE SelfHost_proofs --------------------------
(***************************************************************************)
(* Proofs about SelfHost, for any number of processes, objects, requests,  *)
(* calls, evictions and crashes.                                           *)
(*                                                                         *)
(* A call that was asked for waits in one record, that of its object in    *)
(* the process that holds the lock (ChainInv); it is applied only by the   *)
(* commit of its own turn, and that turn ends with the answer the commit   *)
(* calls for (CommitFact, SettleFact).  So every step is a step of         *)
(* AtomicObjects or leaves told and Applied alone.                         *)
(***************************************************************************)
EXTENDS SelfHost, SequenceTheorems, TLAPS

USE HostAssumption

-----------------------------------------------------------------------------
\* The head and the tail of a chain.
LEMMA HeadTail ==
  ASSUME NEW S, NEW q \in Seq(S), q # <<>>
  PROVE  /\ 1 \in 1..Len(q) /\ Head(q) = q[1] /\ Head(q) \in S
         /\ Tail(q) \in Seq(S) /\ Len(Tail(q)) = Len(q) - 1 /\ Len(Tail(q)) \in Nat
         /\ \A i \in 1..Len(Tail(q)) : i + 1 \in 1..Len(q) /\ Tail(q)[i] = q[i + 1]
         /\ \A i \in 1..Len(q) : i # 1 => i - 1 \in 1..Len(Tail(q)) /\ Tail(q)[i - 1] = q[i]
<1>1. Len(q) \in Nat /\ Len(q) >= 1
  BY EmptySeq
<1>2. Head(q) = q[1] /\ q[1] \in S
  BY <1>1, ElementOfSeq
<1>3. Tail(q) \in Seq(S) /\ Len(Tail(q)) = Len(q) - 1 /\ \A i \in 1..Len(Tail(q)) : Tail(q)[i] = q[i + 1]
  BY <1>1, HeadTailProperties
<1> QED
  BY <1>1, <1>2, <1>3

\* What is true of the call a record is at.
LEMMA HeadFact ==
  ASSUME IInv, NEW s \in Slots, chain[s] # <<>>
  PROVE  /\ Head(chain[s]) = chain[s][1] /\ 1 \in 1..Len(chain[s])
         /\ Head(chain[s]) \in Calls
         /\ told[Head(chain[s])] = "asked"
         /\ Head(chain[s]) \in Applied => step[s] = "done"
<1>1. chain[s] \in Seq(Calls) /\ RecordInv(s)
  BY DEF IInv, TypeOK, ChainInv
<1>2. Head(chain[s]) = chain[s][1] /\ 1 \in 1..Len(chain[s]) /\ Head(chain[s]) \in Calls
  BY <1>1, HeadTail
<1> QED
  BY <1>1, <1>2 DEF RecordInv

\* A request waits in one place.
LEMMA Alone ==
  ASSUME IInv, NEW s \in Slots, NEW t \in Slots,
         NEW i \in 1..Len(chain[s]), NEW k \in 1..Len(chain[t]), chain[s][i][1] = chain[t][k][1]
  PROVE  s = t /\ i = k
<1>1. chain[s] \in Seq(Calls) /\ chain[t] \in Seq(Calls) /\ RecordInv(s) /\ RecordInv(t)
  BY DEF IInv, TypeOK, ChainInv
<1>2. PICK c \in Calls, d \in Calls : c = chain[s][i] /\ d = chain[t][k]
  BY <1>1, ElementOfSeq
<1>3. /\ home[c[1]] = s[1] /\ Target[c[1]] = s[2] /\ made[c[1]] = c[2]
      /\ home[d[1]] = t[1] /\ Target[d[1]] = t[2] /\ made[d[1]] = d[2]
  BY <1>1, <1>2 DEF RecordInv, Object
<1>4. c = <<c[1], c[2]>> /\ d = <<d[1], d[2]>> /\ s = <<s[1], s[2]>> /\ t = <<t[1], t[2]>>
  BY DEF Calls, Slots
<1>5. c = d /\ s = t
  BY <1>2, <1>3, <1>4
<1>6. \A m, n \in 1..Len(chain[s]) : chain[s][m] = chain[s][n] => m = n
  BY <1>1 DEF RecordInv
<1> QED
  BY <1>2, <1>5, <1>6

-----------------------------------------------------------------------------
\* The first state satisfies the invariant.
LEMMA InitIInv == Init => IInv
<1> SUFFICES ASSUME Init PROVE IInv
  OBVIOUS
<1> USE DEF Init
<1>1. TypeOK
  BY DEF TypeOK
<1>2. OneBroker /\ MemoryAgrees /\ NothingHalf
  BY DEF OneBroker, MemoryAgrees, NothingHalf
<1>3. ChainInv
  BY DEF ChainInv, RecordInv, Written, Applied
<1>4. HandlerInv
  BY DEF HandlerInv, Applied, Calls
<1> QED
  BY <1>1, <1>2, <1>3, <1>4 DEF IInv

-----------------------------------------------------------------------------
\* The types are kept.
LEMMA TypeStep == IInv /\ [Next]_vars => TypeOK'
<1> SUFFICES ASSUME IInv, [Next]_vars PROVE TypeOK'
  OBVIOUS
<1>0. TypeOK
  BY DEF IInv
<1> USE DEF TypeOK, server, handler, record, bounds
<1>1. ASSUME NEW p \in Procs, Start(p) \/ Close(p) \/ CloseNamespaces(p) PROVE TypeOK'
  BY <1>0, <1>1 DEF Start, Close, CloseNamespaces
<1>2. ASSUME NEW p \in Procs, Gone(p) PROVE
        /\ lock' \in Procs \cup {NoProc} /\ phase' \in [Procs -> {"down", "up", "closing", "draining"}]
        /\ home' \in [Requests -> Procs \cup {NoProc}]
        /\ pc' \in [Requests -> {"new", "open", "waiting", "over"}]
        /\ made' \in [Requests -> 0..MaxCalls] /\ stub' \in [Requests -> Nat]
        /\ inflight' \subseteq Requests
        /\ open' \in [Slots -> BOOLEAN] /\ gen' \in [Slots -> Nat]
        /\ mem' \in [Slots -> SUBSET Calls] /\ db' \subseteq Calls \X Parts
  BY <1>0, <1>2 DEF Gone
<1>3. ASSUME NEW p \in Procs, Exit(p) PROVE TypeOK'
  BY <1>0, <1>2, <1>3 DEF Exit
<1>4. ASSUME NEW p \in Procs, Crash(p) PROVE TypeOK'
  <2>1. chain' \in [Slots -> Seq(Calls)]
    BY <1>0, <1>4, EmptySeq DEF Crash
  <2>2. /\ step' \in [Slots -> {"idle", "begun", "half", "full", "done"}]
        /\ tx' \in [Slots -> SUBSET (Calls \X Parts)]
        /\ told' \in [Calls -> {"no", "asked", "ok", "failed", "unknown"}]
        /\ evictions' \in Nat /\ crashes' \in Nat
    BY <1>0, <1>4 DEF Crash
  <2> QED
    BY <1>2, <1>4, <2>1, <2>2 DEF Crash
<1>5. ASSUME NEW r \in Requests, NEW p \in Procs, Admit(r, p) PROVE TypeOK'
  BY <1>0, <1>5 DEF Admit
<1>6. ASSUME NEW r \in Requests, CallMethod(r) PROVE TypeOK'
  <2> DEFINE s == <<home[r], Target[r]>>
             c == <<r, made[r] + 1>>
  <2>1. s \in Slots /\ c \in Calls
    BY <1>0, <1>6 DEF CallMethod, IInv, HandlerInv, Slots, Calls
  <2>2. made' = [made EXCEPT ![r] = made[r] + 1] /\ made[r] + 1 \in 0..MaxCalls
    BY <1>0, <1>6 DEF CallMethod
  <2>3. /\ \/ stub' = stub /\ open' = open /\ gen' = gen
           \/ /\ stub' = [stub EXCEPT ![r] = gen'[s]]
              /\ open' = [open EXCEPT ![s] = TRUE]
              /\ gen' = [gen EXCEPT ![s] = IF open[s] THEN @ ELSE @ + 1]
        /\ UNCHANGED <<lock, phase, home, inflight, step, tx, mem, db, evictions, crashes>>
    BY <1>6 DEF CallMethod, Reject, Enqueue
  <2>4. /\ chain' \in {chain, [chain EXCEPT ![s] = Append(@, c)]}
        /\ told' \in {[told EXCEPT ![c] = "asked"], [told EXCEPT ![c] = "failed"]}
        /\ pc' \in {pc, [pc EXCEPT ![r] = "waiting"]}
    BY <1>6 DEF CallMethod, Reject, Enqueue
  <2> HIDE DEF s, c
  <2>5. chain[s] \in Seq(Calls) /\ Append(chain[s], c) \in Seq(Calls)
    BY <1>0, <2>1, AppendProperties
  <2>6. chain' \in [Slots -> Seq(Calls)]
    <3>1. chain \in [Slots -> Seq(Calls)]
      BY <1>0
    <3>2. chain' = chain \/ chain' = [chain EXCEPT ![s] = Append(chain[s], c)]
      BY <2>4
    <3> QED
      BY <2>1, <2>5, <3>1, <3>2
  <2>7. gen' \in [Slots -> Nat]
    BY <1>0, <2>1, <2>3
  <2>8. stub' \in [Requests -> Nat]
    <3>1. gen'[s] \in Nat /\ (stub' = stub \/ stub' = [stub EXCEPT ![r] = gen'[s]])
      BY <2>1, <2>3, <2>7
    <3>2. stub \in [Requests -> Nat]
      BY <1>0
    <3> QED
      BY <3>1, <3>2
  <2>81. open' \in [Slots -> BOOLEAN]
    <3>1. open \in [Slots -> BOOLEAN] /\ (open' = open \/ open' = [open EXCEPT ![s] = TRUE])
      BY <1>0, <2>3
    <3> QED
      BY <2>1, <3>1
  <2>9. /\ told' \in [Calls -> {"no", "asked", "ok", "failed", "unknown"}]
        /\ pc' \in [Requests -> {"new", "open", "waiting", "over"}]
    BY <1>0, <2>1, <2>4
  <2> QED
    BY <1>0, <2>2, <2>3, <2>6, <2>7, <2>8, <2>81, <2>9
<1>7. ASSUME NEW r \in Requests, Finish(r) \/ Disconnect(r) PROVE TypeOK'
  BY <1>0, <1>7 DEF Finish, Disconnect
<1>8. ASSUME NEW s \in Slots, Begin(s) \/ Evict(s) PROVE TypeOK'
  <2>1. CASE Begin(s)
    BY <1>0, <2>1 DEF Begin
  <2>2. CASE Evict(s)
    <3>1. open' \in [Slots -> BOOLEAN]
      BY <1>0, <2>2, Zenon DEF Evict
    <3> QED
      BY <1>0, <2>2, <3>1 DEF Evict
  <2> QED
    BY <1>8, <2>1, <2>2
<1>9. ASSUME NEW s \in Slots, Write(s) PROVE TypeOK'
  <2>1. Head(chain[s]) \in Calls
    BY <1>9, HeadFact DEF Write, Turn
  <2>2. <<Head(chain[s]), 1>> \in Calls \X Parts /\ <<Head(chain[s]), 2>> \in Calls \X Parts
    BY <2>1 DEF Parts
  <2>3. tx' \in [Slots -> SUBSET (Calls \X Parts)]
    <3>1. tx \in [Slots -> SUBSET (Calls \X Parts)]
      BY <1>0
    <3>2. PICK x \in Calls \X Parts : tx' = [tx EXCEPT ![s] = @ \cup {x}]
      BY <1>9, <2>2 DEF Write
    <3> QED
      BY <3>1, <3>2
  <2>4. mem' \in [Slots -> SUBSET Calls] /\ step' \in [Slots -> {"idle", "begun", "half", "full", "done"}]
    BY <1>0, <1>9, <2>1 DEF Write
  <2> QED
    BY <1>0, <1>9, <2>3, <2>4 DEF Write
<1>10. ASSUME NEW s \in Slots, Commit(s) PROVE TypeOK'
  BY <1>0, <1>10 DEF Commit
<1>11. ASSUME NEW s \in Slots, Answer(s) \/ Throw(s) PROVE TypeOK'
  <2>1. chain[s] # <<>> /\ chain[s] \in Seq(Calls)
    BY <1>0, <1>11 DEF Answer, Throw, Turn
  <2>2. Head(chain[s]) \in Calls /\ Head(chain[s])[1] \in Requests /\ Tail(chain[s]) \in Seq(Calls)
    BY <2>1, HeadTail DEF Calls
  <2>3. PICK outcome \in {"ok", "failed"} : Settle(s, outcome)
    BY <1>11 DEF Answer, Throw
  <2>4. tx' \in [Slots -> SUBSET (Calls \X Parts)] /\ mem' \in [Slots -> SUBSET Calls]
    BY <1>0, <1>11 DEF Answer, Throw
  <2> QED
    BY <1>0, <2>2, <2>3, <2>4 DEF Settle
<1>12. CASE UNCHANGED vars
  BY <1>0, <1>12 DEF vars
<1> QED
  BY <1>1, <1>3, <1>4, <1>5, <1>6, <1>7, <1>8, <1>9, <1>10, <1>11, <1>12 DEF Next, Run

-----------------------------------------------------------------------------
\* Who works on the directory holds the lock.
LEMMA LockStep == IInv /\ [Next]_vars => OneBroker'
<1> SUFFICES ASSUME IInv, [Next]_vars PROVE OneBroker'
  OBVIOUS
<1>0. TypeOK /\ OneBroker
  BY DEF IInv
<1> USE DEF TypeOK, OneBroker, server, handler, record, bounds
<1>1. ASSUME NEW p \in Procs, Start(p) PROVE OneBroker'
  BY <1>0, <1>1 DEF Start, Slots
<1>2. ASSUME NEW p \in Procs, Close(p) \/ CloseNamespaces(p) PROVE OneBroker'
  BY <1>0, <1>2 DEF Close, CloseNamespaces
<1>3. ASSUME NEW p \in Procs, Exit(p) \/ Crash(p) PROVE OneBroker'
  <2>1. phase[p] # "down" /\ Gone(p)
    BY <1>3 DEF Exit, Crash
  <2> QED
    BY <1>0, <2>1 DEF Gone
<1>4. ASSUME NEW r \in Requests, CallMethod(r) PROVE OneBroker'
  <2>1. home[r] \in Procs /\ lock = home[r] /\ <<home[r], Target[r]>> \in Slots
    BY <1>0, <1>4 DEF CallMethod, IInv, HandlerInv, Slots
  <2>2. open' \in {open, [open EXCEPT ![<<home[r], Target[r]>>] = TRUE]} /\ UNCHANGED <<lock, phase>>
    BY <1>4 DEF CallMethod, Reject, Enqueue
  <2>3. \A t \in Slots : open'[t] => open[t] \/ t = <<home[r], Target[r]>>
    BY <1>0, <2>1, <2>2
  <2> QED
    BY <1>0, <2>1, <2>2, <2>3
<1>5. ASSUME NEW s \in Slots, Evict(s) PROVE OneBroker'
  BY <1>0, <1>5 DEF Evict
<1>6. CASE UNCHANGED <<lock, phase, open>>
  BY <1>0, <1>6
<1>7. \/ \E p \in Procs : Start(p) \/ Close(p) \/ CloseNamespaces(p) \/ Exit(p) \/ Crash(p)
      \/ \E r \in Requests : CallMethod(r)
      \/ \E s \in Slots : Evict(s)
      \/ UNCHANGED <<lock, phase, open>>
  BY DEF Next, vars, Run, Admit, Finish, Disconnect, Begin, Write, Commit, Answer, Throw, Settle
<1> QED
  BY <1>1, <1>2, <1>3, <1>4, <1>5, <1>6, <1>7

\* What a commit adds: both statements of the call whose turn it is.
LEMMA CommitFact ==
  ASSUME IInv, NEW s \in Slots, Commit(s)
  PROVE  /\ db' = db \cup {<<Head(chain[s]), 1>>, <<Head(chain[s]), 2>>}
         /\ Head(chain[s]) \in Calls /\ Head(chain[s]) \notin Applied
         /\ Applied' = Applied \cup {Head(chain[s])}
<1>1. chain[s] # <<>> /\ step[s] = "full"
  BY DEF Commit, Turn
<1>2. tx[s] = {<<Head(chain[s]), 1>>, <<Head(chain[s]), 2>>}
  BY <1>1 DEF IInv, ChainInv, RecordInv, Written
<1>3. Head(chain[s]) \in Calls /\ Head(chain[s]) \notin Applied
  BY <1>1, HeadFact
<1> QED
  BY <1>2, <1>3 DEF Commit, Applied

\* Nothing else is committed.
LEMMA DbStep ==
  ASSUME IInv, [Next]_vars
  PROVE  db' = db \/ \E s \in Slots : Commit(s)
BY DEF Next, vars, handler, server, record, Run, Start, Admit, CallMethod, Begin, Write, Answer, Throw, Settle,
       Evict, Finish, Disconnect, Close, CloseNamespaces, Gone, Exit, Crash

\* Whole methods are committed.
LEMMA HalfStep == IInv /\ [Next]_vars => NothingHalf'
<1> SUFFICES ASSUME IInv, [Next]_vars PROVE NothingHalf'
  OBVIOUS
<1>1. NothingHalf
  BY DEF IInv
<1>2. CASE db' = db
  BY <1>1, <1>2 DEF NothingHalf
<1>3. ASSUME NEW s \in Slots, Commit(s) PROVE NothingHalf'
  <2>1. PICK h : db' = db \cup {<<h, 1>>, <<h, 2>>}
    BY <1>3, CommitFact
  <2> QED
    BY <1>1, <2>1 DEF NothingHalf
<1> QED
  BY <1>2, <1>3, DbStep

-----------------------------------------------------------------------------
\* A record that a step leaves alone is as it was, if the step leaves alone
\* what its calls are.
LEMMA RecordFrame ==
  ASSUME NEW s \in Slots, RecordInv(s), Applied \subseteq Applied',
         chain'[s] = chain[s], open'[s] = open[s], step'[s] = step[s], tx'[s] = tx[s], mem'[s] = mem[s],
         \A i \in 1..Len(chain[s]) :
           /\ told'[chain[s][i]] = "asked" /\ home'[chain[s][i][1]] = home[chain[s][i][1]]
           /\ pc'[chain[s][i][1]] = pc[chain[s][i][1]] /\ made'[chain[s][i][1]] = made[chain[s][i][1]]
           /\ chain[s][i] \in Applied' => chain[s][i] \in Applied
  PROVE  RecordInv(s)'
<1>1. Written(s)' = Written(s)
  BY DEF Written
<1>2. mem'[s] \subseteq Applied' \cup (IF step'[s] \in {"half", "full"} THEN {Head(chain'[s])} ELSE {})
  BY DEF RecordInv
<1>3. step'[s] = "done" => Head(chain'[s]) \in Applied'
  BY DEF RecordInv
<1>4. \A i \in 1..Len(chain'[s]) :
        LET c == chain'[s][i]
        IN  /\ told'[c] = "asked" /\ home'[c[1]] = s[1] /\ Object(c) = s[2]
            /\ pc'[c[1]] = "waiting" /\ made'[c[1]] = c[2]
            /\ c \in Applied' => i = 1 /\ step'[s] = "done"
  BY DEF RecordInv
<1>5. \A i, j \in 1..Len(chain'[s]) : chain'[s][i] = chain'[s][j] => i = j
  BY DEF RecordInv
<1> QED
  BY <1>1, <1>2, <1>3, <1>4, <1>5 DEF RecordInv, Object

\* So it is with a call that waits.
LEMMA WaitsFrame ==
  ASSUME NEW c \in Calls, Waits(c), home'[c[1]] = home[c[1]],
         chain'[<<home[c[1]], Object(c)>>] = chain[<<home[c[1]], Object(c)>>]
  PROVE  Waits(c)'
BY DEF Waits, Object

\* Every call that was asked for waits in one record.
LEMMA ChainStep == IInv /\ [Next]_vars => ChainInv'
<1> SUFFICES ASSUME IInv, [Next]_vars PROVE ChainInv'
  OBVIOUS
<1>0. /\ \A s \in Slots : RecordInv(s) /\ \A i \in 1..Len(chain[s]) : told[chain[s][i]] = "asked" /\ chain[s][i] \in Calls
      /\ \A c \in Calls : told[c] = "asked" => Waits(c)
      /\ chain \in [Slots -> Seq(Calls)] /\ step \in [Slots -> {"idle", "begun", "half", "full", "done"}]
      /\ tx \in [Slots -> SUBSET (Calls \X Parts)] /\ mem \in [Slots -> SUBSET Calls]
      /\ pc \in [Requests -> {"new", "open", "waiting", "over"}]
      /\ told \in [Calls -> {"no", "asked", "ok", "failed", "unknown"}]
      /\ open \in [Slots -> BOOLEAN]
  BY ElementOfSeq DEF IInv, ChainInv, TypeOK, RecordInv
<1>1. ASSUME UNCHANGED <<open, chain, step, tx, mem, db, told>>,
             \A c \in Calls : told[c] = "asked" =>
               home'[c[1]] = home[c[1]] /\ pc'[c[1]] = pc[c[1]] /\ made'[c[1]] = made[c[1]]
      PROVE  ChainInv'
  <2>1. Applied' = Applied
    BY <1>1 DEF Applied
  <2>2. ASSUME NEW s \in Slots PROVE RecordInv(s)'
    BY <1>0, <1>1, <2>1, RecordFrame
  <2>3. ASSUME NEW c \in Calls, told'[c] = "asked" PROVE Waits(c)'
    BY <1>0, <1>1, <2>3, WaitsFrame
  <2> QED
    BY <2>2, <2>3 DEF ChainInv
<1>2. ASSUME NEW r \in Requests, pc[r] # "waiting" PROVE \A c \in Calls : told[c] = "asked" => c[1] # r
  <2> SUFFICES ASSUME NEW c \in Calls, told[c] = "asked" PROVE pc[c[1]] = "waiting"
    BY <1>2
  <2>1. PICK s \in Slots : \E i \in 1..Len(chain[s]) : chain[s][i] = c
    BY <1>0 DEF Waits
  <2> QED
    BY <1>0, <2>1 DEF RecordInv
\* Steps that concern one record and no other call than the one it is at.
<1>3. ASSUME NEW s \in Slots, UNCHANGED <<home, made, told, pc>>,
             \A t \in Slots \ {s} : /\ chain'[t] = chain[t] /\ open'[t] = open[t] /\ step'[t] = step[t]
                                    /\ tx'[t] = tx[t] /\ mem'[t] = mem[t],
             chain' = chain, Applied \subseteq Applied',
             \A c \in Applied' \ Applied : chain[s] # <<>> /\ c = Head(chain[s]),
             RecordInv(s)'
      PROVE  ChainInv'
  <2>1. ASSUME NEW t \in Slots \ {s}, NEW i \in 1..Len(chain[t]), chain[t][i] \in Applied'
        PROVE  chain[t][i] \in Applied
    BY <1>0, <1>3, <2>1, HeadFact, Alone
  <2>2. ASSUME NEW t \in Slots \ {s} PROVE RecordInv(t)'
    BY <1>0, <1>3, <2>1, RecordFrame
  <2>3. ASSUME NEW c \in Calls, told'[c] = "asked" PROVE Waits(c)'
    BY <1>0, <1>3, <2>3, WaitsFrame
  <2> QED
    BY <1>3, <2>2, <2>3 DEF ChainInv
<1>4. ASSUME NEW s \in Slots, Begin(s) PROVE ChainInv'
  <2>1. RecordInv(s) /\ Applied' = Applied /\ step[s] = "idle" /\ step'[s] = "begun" /\ chain[s] # <<>>
    BY <1>0, <1>4 DEF Begin, Turn, Applied
  <2>2. /\ UNCHANGED <<home, made, told, pc, open, chain, tx, mem>>
        /\ \A t \in Slots \ {s} : step'[t] = step[t]
    BY <1>0, <1>4 DEF Begin, handler
  <2>3. RecordInv(s)'
    BY <2>1, <2>2 DEF RecordInv, Written, Object
  <2> QED
    BY <1>3, <2>1, <2>2, <2>3
<1>5. ASSUME NEW s \in Slots, Evict(s) PROVE ChainInv'
  <2>1. RecordInv(s) /\ Applied' = Applied /\ chain[s] = <<>> /\ mem'[s] = {}
    BY <1>0, <1>5 DEF Evict, Applied
  <2>2. /\ UNCHANGED <<home, made, told, pc, chain, tx, step>>
        /\ \A t \in Slots \ {s} : open'[t] = open[t] /\ mem'[t] = mem[t]
    BY <1>0, <1>5 DEF Evict, handler
  <2>3. RecordInv(s)'
    BY <2>1, <2>2 DEF RecordInv, Written, Object
  <2> QED
    BY <1>3, <2>1, <2>2, <2>3
<1>6. ASSUME NEW s \in Slots, Write(s) PROVE ChainInv'
  <2>1. /\ RecordInv(s) /\ Applied' = Applied /\ chain[s] # <<>>
        /\ mem'[s] = mem[s] \cup {Head(chain[s])}
        /\ \/ step[s] = "begun" /\ step'[s] = "half" /\ tx'[s] = tx[s] \cup {<<Head(chain[s]), 1>>}
           \/ step[s] = "half" /\ step'[s] = "full" /\ tx'[s] = tx[s] \cup {<<Head(chain[s]), 2>>}
    BY <1>0, <1>6 DEF Write, Turn, Applied
  <2>2. /\ UNCHANGED <<home, made, told, pc, open, chain>>
        /\ \A t \in Slots \ {s} : step'[t] = step[t] /\ tx'[t] = tx[t] /\ mem'[t] = mem[t]
    BY <1>0, <1>6 DEF Write, handler
  <2>3. RecordInv(s)'
    <3>1. tx'[s] = Written(s)' /\ step'[s] \in {"half", "full"}
      <4>1. CASE step[s] = "begun"
        BY <2>1, <2>2, <4>1 DEF RecordInv, Written
      <4>2. CASE step[s] = "half"
        BY <2>1, <2>2, <4>2 DEF RecordInv, Written
      <4> QED
        BY <2>1, <4>1, <4>2
    <3>2. step[s] # "done" /\ mem'[s] \subseteq Applied' \cup {Head(chain'[s])}
      BY <2>1, <2>2 DEF RecordInv
    <3>3. \A i \in 1..Len(chain[s]) : chain[s][i] \notin Applied
      BY <2>1, <3>2 DEF RecordInv
    <3> QED
      BY <2>1, <2>2, <3>1, <3>2, <3>3 DEF RecordInv, Object
  <2> QED
    BY <1>3, <2>1, <2>2, <2>3
<1>7. ASSUME NEW s \in Slots, Commit(s) PROVE ChainInv'
  <2>1. /\ RecordInv(s) /\ chain[s] # <<>> /\ step[s] = "full" /\ step'[s] = "done" /\ tx'[s] = {}
        /\ Applied' = Applied \cup {Head(chain[s])} /\ Head(chain[s]) = chain[s][1] /\ 1 \in 1..Len(chain[s])
    BY <1>0, <1>7, CommitFact, HeadFact DEF Commit, Turn
  <2>2. /\ UNCHANGED <<home, made, told, pc, open, chain, mem>>
        /\ \A t \in Slots \ {s} : step'[t] = step[t] /\ tx'[t] = tx[t]
    BY <1>0, <1>7 DEF Commit, handler
  <2>3. RecordInv(s)'
    BY <2>1, <2>2 DEF RecordInv, Written, Object
  <2> QED
    BY <1>3, <2>1, <2>2, <2>3
<1>8. ASSUME NEW s \in Slots, Answer(s) \/ Throw(s) PROVE ChainInv'
  <2> DEFINE h == Head(chain[s])
  <2>1. /\ RecordInv(s) /\ Applied' = Applied /\ chain[s] # <<>> /\ chain[s] \in Seq(Calls)
        /\ step'[s] = "idle" /\ chain'[s] = Tail(chain[s])
        /\ UNCHANGED <<home, made, open>>
    BY <1>0, <1>8 DEF Answer, Throw, Settle, Turn, Applied
  <2>2. /\ h \in Calls /\ h = chain[s][1] /\ 1 \in 1..Len(chain[s]) /\ h[1] \in Requests
        /\ \A i \in 1..Len(Tail(chain[s])) : i + 1 \in 1..Len(chain[s]) /\ Tail(chain[s])[i] = chain[s][i + 1]
        /\ \A i \in 1..Len(chain[s]) : i # 1 => i - 1 \in 1..Len(Tail(chain[s])) /\ Tail(chain[s])[i - 1] = chain[s][i]
        /\ Len(Tail(chain[s])) \in Nat
    BY <2>1, HeadTail DEF Calls
  <2>3. /\ tx'[s] = {} /\ mem'[s] \subseteq Applied
    BY <1>0, <1>8, <2>1, HeadFact DEF Answer, Throw, Turn, RecordInv, Written
  <2>4. /\ \A t \in Slots \ {s} : /\ chain'[t] = chain[t] /\ step'[t] = step[t]
                                  /\ tx'[t] = tx[t] /\ mem'[t] = mem[t]
        /\ \E o \in {"ok", "failed"} : told' = [told EXCEPT ![h] = o]
        /\ pc' = [pc EXCEPT ![h[1]] = "open"]
    BY <1>0, <1>8 DEF Answer, Throw, Settle
  <2> HIDE DEF h
  <2>5. ASSUME NEW t \in Slots, NEW i \in 1..Len(chain[t]), t # s \/ i # 1
        PROVE  told'[chain[t][i]] = "asked" /\ pc'[chain[t][i][1]] = pc[chain[t][i][1]]
    <3>1. chain[t][i] \in Calls /\ chain[t][i][1] \in Requests
      BY <1>0 DEF Calls
    <3>2. chain[t][i][1] # h[1]
      BY <2>2, <2>5, Alone
    <3> QED
      BY <1>0, <2>2, <2>4, <3>1, <3>2
  <2>6. ASSUME NEW t \in Slots \ {s} PROVE RecordInv(t)'
    BY <1>0, <2>1, <2>4, <2>5, <2>6, RecordFrame
  <2>7. RecordInv(s)'
    <3>1. \A i \in 1..Len(chain'[s]) :
            /\ told'[chain'[s][i]] = "asked" /\ home'[chain'[s][i][1]] = s[1] /\ Object(chain'[s][i]) = s[2]
            /\ pc'[chain'[s][i][1]] = "waiting" /\ made'[chain'[s][i][1]] = chain'[s][i][2]
            /\ chain'[s][i] \notin Applied
      BY <2>1, <2>2, <2>5 DEF RecordInv
    <3>2. \A i, j \in 1..Len(chain'[s]) : chain'[s][i] = chain'[s][j] => i = j
      BY <2>1, <2>2 DEF RecordInv
    <3>3. open'[s]
      BY <2>1 DEF RecordInv
    <3> QED
      BY <2>1, <2>3, <3>1, <3>2, <3>3 DEF RecordInv, Written, Object
  <2>8. ASSUME NEW c \in Calls, told'[c] = "asked" PROVE Waits(c)'
    <3>1. told[c] = "asked" /\ c # h
      BY <1>0, <2>2, <2>4, <2>8
    <3>a. PICK t \in Slots : t = <<home[c[1]], Object(c)>> /\ \E i \in 1..Len(chain[t]) : chain[t][i] = c
      BY <1>0, <3>1 DEF Waits
    <3>2. PICK i \in 1..Len(chain[t]) : chain[t][i] = c
      BY <3>a
    <3>3. \E k \in 1..Len(chain'[t]) : chain'[t][k] = c
      <4>1. CASE t = s
        <5>1. i - 1 \in 1..Len(chain'[s]) /\ chain'[s][i - 1] = c
          BY <2>1, <2>2, <3>1, <3>2, <4>1
        <5> QED
          BY <4>1, <5>1
      <4>2. CASE t # s
        BY <2>4, <3>2, <4>2
      <4> QED
        BY <4>1, <4>2
    <3> QED
      BY <2>1, <3>a, <3>3 DEF Waits, Object
  <2> QED
    BY <2>6, <2>7, <2>8 DEF ChainInv
<1>9. ASSUME NEW r \in Requests, CallMethod(r) PROVE ChainInv'
  <2>a. pc[r] = "open" /\ made[r] < MaxCalls /\ made[r] \in 0..MaxCalls /\ home[r] \in Procs
    BY <1>9 DEF CallMethod, IInv, TypeOK, HandlerInv
  <2>b. PICK s \in Slots, c \in Calls : s = <<home[r], Target[r]>> /\ c = <<r, made[r] + 1>>
    <3>1. <<home[r], Target[r]>> \in Slots /\ <<r, made[r] + 1>> \in Calls
      BY <2>a DEF Slots, Calls
    <3> QED
      BY <3>1
  <2>1. told[c] = "no" /\ c \notin Applied /\ c[1] = r /\ c[2] = made[r] + 1
    <3>1. c[1] = r /\ c[2] = made[r] + 1
      BY <2>b
    <3>2. told[c] = "no"
      BY <2>a, <3>1 DEF IInv, HandlerInv
    <3> QED
      BY <3>1, <3>2 DEF IInv, HandlerInv
  <2>2. /\ UNCHANGED <<home, step, tx, mem, db>> /\ Applied' = Applied
        /\ made' = [made EXCEPT ![r] = made[r] + 1]
    BY <1>9 DEF CallMethod, Reject, Enqueue, record, Applied
  <2>3. \/ told' = [told EXCEPT ![c] = "failed"] /\ UNCHANGED <<pc, open, chain>>
        \/ /\ told' = [told EXCEPT ![c] = "asked"] /\ chain' = [chain EXCEPT ![s] = Append(chain[s], c)]
           /\ pc' = [pc EXCEPT ![r] = "waiting"]
           /\ \/ open' = [open EXCEPT ![s] = TRUE]
              \/ open[s] /\ UNCHANGED open
    BY <1>9, <2>b DEF CallMethod, Reject, Enqueue, record
  <2>4. \A d \in Calls : told[d] = "asked" => d[1] # r
    BY <1>2, <2>a
  <2>5. made \in [Requests -> 0..MaxCalls]
    BY DEF IInv, TypeOK
  <2>6. CASE told' = [told EXCEPT ![c] = "failed"] /\ UNCHANGED <<pc, open, chain>>
    <3>1. ASSUME NEW t \in Slots PROVE RecordInv(t)'
      <4>1. \A i \in 1..Len(chain[t]) : /\ told'[chain[t][i]] = "asked"
                                        /\ made'[chain[t][i][1]] = made[chain[t][i][1]]
        BY <1>0, <2>1, <2>2, <2>4, <2>5, <2>6 DEF Calls
      <4> QED
        BY <1>0, <2>2, <2>6, <4>1, RecordFrame
    <3>2. ASSUME NEW d \in Calls, told'[d] = "asked" PROVE Waits(d)'
      <4>1. Waits(d)
        BY <1>0, <2>1, <2>6, <3>2
      <4> QED
        BY <2>2, <2>6, <4>1, WaitsFrame
    <3> QED
      BY <3>1, <3>2 DEF ChainInv
  <2>7. CASE /\ told' = [told EXCEPT ![c] = "asked"] /\ chain' = [chain EXCEPT ![s] = Append(chain[s], c)]
             /\ pc' = [pc EXCEPT ![r] = "waiting"]
             /\ \/ open' = [open EXCEPT ![s] = TRUE]
                \/ open[s] /\ UNCHANGED open
    <3>1. \A t \in Slots : \A i \in 1..Len(chain[t]) :
            /\ told'[chain[t][i]] = "asked" /\ pc'[chain[t][i][1]] = pc[chain[t][i][1]]
            /\ made'[chain[t][i][1]] = made[chain[t][i][1]]
      BY <1>0, <2>1, <2>2, <2>4, <2>5, <2>7 DEF Calls
    <3>2. ASSUME NEW t \in Slots \ {s} PROVE RecordInv(t)'
      <4>1. chain'[t] = chain[t] /\ open'[t] = open[t]
        BY <1>0, <2>1, <2>7
      <4> QED
        BY <1>0, <2>2, <3>1, <4>1, RecordFrame
    <3>3. /\ chain[s] \in Seq(Calls) /\ chain'[s] = Append(chain[s], c) /\ Len(chain'[s]) = Len(chain[s]) + 1
          /\ Len(chain[s]) \in Nat /\ chain'[s][Len(chain[s]) + 1] = c
          /\ \A i \in 1..Len(chain[s]) : chain'[s][i] = chain[s][i] /\ chain[s][i] # c
      BY <1>0, <2>1, <2>7, AppendProperties
    <3>4. open'[s]
      BY <1>0, <2>1, <2>7
    <3>5. /\ chain'[s] # <<>> /\ step'[s] = step[s] /\ tx'[s] = tx[s] /\ mem'[s] = mem[s]
          /\ step[s] # "idle" => chain[s] # <<>> /\ Head(chain'[s]) = Head(chain[s])
      <4>1. chain[s] # <<>> => Head(chain'[s]) = Head(chain[s])
        <5>1. ASSUME chain[s] # <<>> PROVE Head(chain'[s]) = Head(chain[s])
          BY <3>3, <5>1, HeadTail, EmptySeq, AppendProperties
        <5> QED
          BY <5>1
      <4> QED
        BY <1>0, <2>1, <2>2, <3>3, <4>1, AppendProperties DEF RecordInv
    <3>6. RecordInv(s)'
      <4>0. RecordInv(s)
        BY <1>0, <2>1
      <4>1. \A i \in 1..Len(chain'[s]) :
              /\ told'[chain'[s][i]] = "asked" /\ home'[chain'[s][i][1]] = s[1] /\ Object(chain'[s][i]) = s[2]
              /\ pc'[chain'[s][i][1]] = "waiting" /\ made'[chain'[s][i][1]] = chain'[s][i][2]
              /\ chain'[s][i] \in Applied' => i = 1 /\ step'[s] = "done"
        <5>1. ASSUME NEW i \in 1..Len(chain[s])
              PROVE  /\ told'[chain'[s][i]] = "asked" /\ home'[chain'[s][i][1]] = s[1] /\ Object(chain'[s][i]) = s[2]
                     /\ pc'[chain'[s][i][1]] = "waiting" /\ made'[chain'[s][i][1]] = chain'[s][i][2]
                     /\ chain'[s][i] \in Applied' => i = 1 /\ step'[s] = "done"
          <6>1. /\ home[chain[s][i][1]] = s[1] /\ Object(chain[s][i]) = s[2] /\ pc[chain[s][i][1]] = "waiting"
                /\ made[chain[s][i][1]] = chain[s][i][2]
                /\ chain[s][i] \in Applied => i = 1 /\ step[s] = "done"
            BY <4>0 DEF RecordInv
          <6>2. chain'[s][i] = chain[s][i]
            BY <3>3
          <6> QED
            BY <2>1, <2>2, <3>1, <3>5, <6>1, <6>2
        <5>2. /\ told'[c] = "asked" /\ home'[c[1]] = s[1] /\ Object(c) = s[2]
              /\ pc'[c[1]] = "waiting" /\ made'[c[1]] = c[2] /\ c \notin Applied'
          BY <1>0, <2>a, <2>b, <2>1, <2>2, <2>5, <2>7 DEF Object
        <5> QED
          BY <3>3, <5>1, <5>2
      <4>2. \A i, j \in 1..Len(chain'[s]) : chain'[s][i] = chain'[s][j] => i = j
        BY <3>3, <4>0 DEF RecordInv
      <4>3. tx'[s] = Written(s)'
        <5>1. step[s] \in {"half", "full"} => Head(chain'[s]) = Head(chain[s])
          BY <3>5
        <5> QED
          BY <3>5, <4>0, <5>1 DEF RecordInv, Written
      <4>4. /\ step'[s] = "done" => Head(chain'[s]) \in Applied'
            /\ mem'[s] \subseteq Applied' \cup (IF step'[s] \in {"half", "full"} THEN {Head(chain'[s])} ELSE {})
        BY <2>2, <3>5, <4>0 DEF RecordInv
      <4> QED
        BY <3>4, <3>5, <4>1, <4>2, <4>3, <4>4 DEF RecordInv
    <3>7. ASSUME NEW d \in Calls, told'[d] = "asked" PROVE Waits(d)'
      <4>1. CASE d = c
        <5>1. \E i \in 1..Len(chain'[s]) : chain'[s][i] = c
          BY <3>3
        <5>2. s = <<home'[c[1]], Object(c)>>
          BY <2>b, <2>1, <2>2 DEF Object
        <5> QED
          BY <2>1, <4>1, <5>1, <5>2 DEF Waits, Object
      <4>2. CASE d # c
        <5>1. PICK t \in Slots : t = <<home[d[1]], Object(d)>> /\ \E i \in 1..Len(chain[t]) : chain[t][i] = d
          <6>1. told[d] = "asked"
            BY <1>0, <2>1, <2>7, <3>7, <4>2
          <6> QED
            BY <1>0, <6>1 DEF Waits
        <5>2. \E i \in 1..Len(chain'[t]) : chain'[t][i] = d
          <6>1. CASE t = s
            <7>1. PICK i \in 1..Len(chain[s]) : chain[s][i] = d
              BY <5>1, <6>1
            <7>2. i \in 1..Len(chain'[s]) /\ chain'[s][i] = d
              BY <3>3, <7>1
            <7> QED
              BY <6>1, <7>2
          <6>2. CASE t # s
            BY <1>0, <2>1, <2>7, <5>1, <6>2
          <6> QED
            BY <6>1, <6>2
        <5> QED
          BY <2>2, <5>1, <5>2 DEF Waits, Object
      <4> QED
        BY <4>1, <4>2
    <3> QED
      BY <3>2, <3>6, <3>7 DEF ChainInv
  <2> QED
    BY <2>3, <2>6, <2>7
<1>10. ASSUME NEW p \in Procs, Exit(p) \/ Crash(p) PROVE ChainInv'
  <2>1. Gone(p) /\ Applied' = Applied /\ phase[p] # "down"
    BY <1>10 DEF Exit, Crash, Gone, Applied
  <2>2. \A s \in Slots : s[1] = p => /\ chain'[s] = <<>> /\ step'[s] = "idle" /\ tx'[s] = {} /\ mem'[s] = {}
    <3>1. CASE Exit(p)
      <4>1. ASSUME NEW s \in Slots, s[1] = p PROVE chain[s] = <<>>
        <5>1. s[2] \in Objects /\ s = <<p, s[2]>>
          BY <4>1 DEF Slots
        <5> QED
          BY <3>1, <5>1 DEF Exit
      <4> QED
        <5>1. ASSUME NEW s \in Slots, s[1] = p PROVE chain[s] = <<>> /\ step[s] = "idle" /\ tx[s] = {}
          BY <1>0, <4>1, <5>1 DEF RecordInv, Written
        <5>2. UNCHANGED <<chain, step, tx>> /\ \A s \in Slots : s[1] = p => mem'[s] = {}
          BY <2>1, <3>1 DEF Exit, Gone
        <5> QED
          BY <5>1, <5>2
    <3>2. CASE Crash(p)
      BY <2>1, <3>2 DEF Crash, Gone
    <3> QED
      BY <1>10, <3>1, <3>2
  <2>3. ASSUME NEW s \in Slots, s[1] = p PROVE RecordInv(s)'
    <3>1. Len(chain'[s]) = 0
      BY <2>2, <2>3, EmptySeq
    <3> QED
      <4>1. 1..Len(chain'[s]) = {} /\ Written(s)' = {}
        BY <2>2, <2>3, <3>1 DEF Written
      <4> QED
        BY <2>2, <2>3, <4>1 DEF RecordInv
  <2>4. /\ \A s \in Slots : s[1] # p => /\ chain'[s] = chain[s] /\ open'[s] = open[s] /\ step'[s] = step[s]
                                        /\ tx'[s] = tx[s] /\ mem'[s] = mem[s]
        /\ UNCHANGED <<home, made>>
        /\ \A r \in Requests : home[r] # p => pc'[r] = pc[r]
        /\ \A c \in Calls : home[c[1]] # p => told'[c] = told[c]
        /\ \A c \in Calls : told'[c] = "asked" => told[c] = "asked"
    BY <1>0, <1>10, <2>1 DEF Exit, Crash, Gone
  <2>5. ASSUME NEW s \in Slots, s[1] # p PROVE RecordInv(s)'
    <3>1. ASSUME NEW i \in 1..Len(chain[s])
          PROVE  told'[chain[s][i]] = "asked" /\ pc'[chain[s][i][1]] = pc[chain[s][i][1]]
      <4>1. chain[s][i] \in Calls /\ chain[s][i][1] \in Requests /\ home[chain[s][i][1]] # p
        BY <1>0, <2>5 DEF RecordInv, Calls
      <4> QED
        BY <1>0, <2>4, <4>1
    <3> QED
      BY <1>0, <2>1, <2>4, <2>5, <3>1, RecordFrame
  <2>6. ASSUME NEW c \in Calls, told'[c] = "asked" PROVE Waits(c)'
    <3>1. PICK t \in Slots : t = <<home[c[1]], Object(c)>> /\ \E i \in 1..Len(chain[t]) : chain[t][i] = c
      BY <1>0, <2>4, <2>6 DEF Waits
    <3>2. t[1] # p
      <4>1. CASE Crash(p)
        BY <2>6, <3>1, <4>1 DEF Crash
      <4>2. CASE Exit(p)
        <5>1. ASSUME t[1] = p PROVE FALSE
          <6>1. t[2] \in Objects /\ t = <<p, t[2]>>
            BY <5>1 DEF Slots
          <6>2. chain[t] = <<>>
            BY <4>2, <6>1 DEF Exit
          <6> QED
            BY <3>1, <6>2, EmptySeq
        <5> QED
          BY <5>1
      <4> QED
        BY <1>10, <4>1, <4>2
    <3> QED
      BY <2>4, <3>1, <3>2 DEF Waits, Object
  <2> QED
    BY <2>3, <2>5, <2>6 DEF ChainInv
<1>11. ASSUME NEW r \in Requests, NEW p \in Procs, Admit(r, p) PROVE ChainInv'
  <2>1. /\ UNCHANGED <<made, open, chain, step, tx, mem, db, told>> /\ pc[r] = "new"
        /\ pc' = [pc EXCEPT ![r] = "open"] /\ home' = [home EXCEPT ![r] = p]
    BY <1>11 DEF Admit, record
  <2>2. home \in [Requests -> Procs \cup {NoProc}]
    BY DEF IInv, TypeOK
  <2>3. \A c \in Calls : told[c] = "asked" => home'[c[1]] = home[c[1]] /\ pc'[c[1]] = pc[c[1]]
    BY <1>0, <1>2, <2>1, <2>2 DEF Calls
  <2> QED
    BY <1>1, <2>1, <2>3
<1>12. ASSUME NEW r \in Requests, Finish(r) PROVE ChainInv'
  <2>1. UNCHANGED <<home, made, open, chain, step, tx, mem, db, told>> /\ pc[r] = "open" /\ pc' = [pc EXCEPT ![r] = "over"]
    BY <1>12 DEF Finish, record
  <2>2. \A c \in Calls : told[c] = "asked" => pc'[c[1]] = pc[c[1]]
    BY <1>0, <1>2, <2>1 DEF Calls
  <2> QED
    BY <1>1, <2>1, <2>2
<1>13. CASE UNCHANGED <<home, pc, made, open, chain, step, tx, mem, db, told>>
  BY <1>1, <1>13
<1>14. \/ \E p \in Procs : Exit(p) \/ Crash(p) \/ \E r \in Requests : Admit(r, p)
       \/ \E r \in Requests : CallMethod(r) \/ Finish(r)
       \/ \E s \in Slots : Run(s) \/ Evict(s)
       \/ UNCHANGED <<home, pc, made, open, chain, step, tx, mem, db, told>>
  BY DEF Next, vars, handler, record, Start, Close, CloseNamespaces, Disconnect
<1> QED
  BY <1>4, <1>5, <1>6, <1>7, <1>8, <1>9, <1>10, <1>11, <1>12, <1>13, <1>14 DEF Run

-----------------------------------------------------------------------------
\* How a turn ends: what the handler is told is what happened.
LEMMA SettleFact ==
  ASSUME IInv, NEW s \in Slots, Answer(s) \/ Throw(s)
  PROVE  \E h \in Calls, o \in {"ok", "failed"} :
           /\ told[h] = "asked" /\ pc[h[1]] = "waiting" /\ o = (IF h \in Applied THEN "ok" ELSE "failed")
           /\ told' = [told EXCEPT ![h] = o] /\ pc' = [pc EXCEPT ![h[1]] = "open"]
           /\ UNCHANGED <<lock, phase, home, made, db>>
<1>1. chain[s] # <<>> /\ RecordInv(s)
  BY DEF Answer, Throw, Turn, IInv, ChainInv
<1>2. PICK h \in Calls : h = Head(chain[s])
  BY <1>1, HeadFact
<1>3. told[h] = "asked" /\ pc[h[1]] = "waiting" /\ (h \in Applied => step[s] = "done")
  BY <1>1, <1>2, HeadFact DEF RecordInv
<1>4. CASE Answer(s)
  <2>1. h \in Applied
    BY <1>1, <1>2, <1>4 DEF Answer, Turn, RecordInv
  <2> QED
    BY <1>2, <1>3, <1>4, <2>1 DEF Answer, Settle, server
<1>5. CASE Throw(s)
  <2>1. h \notin Applied
    BY <1>3, <1>5 DEF Throw
  <2> QED
    BY <1>2, <1>3, <1>5, <2>1 DEF Throw, Settle, server
<1> QED
  BY <1>4, <1>5

\* A method's call: it is asked for, or refused at once.
LEMMA CallFact ==
  ASSUME IInv, NEW r \in Requests, CallMethod(r)
  PROVE  \E c \in Calls : /\ c[1] = r /\ c[2] = made[r] + 1 /\ told[c] = "no" /\ pc[r] = "open"
                          /\ told' \in {[told EXCEPT ![c] = "asked"], [told EXCEPT ![c] = "failed"]}
                          /\ pc' \in {pc, [pc EXCEPT ![r] = "waiting"]}
                          /\ made' = [made EXCEPT ![r] = made[r] + 1]
                          /\ UNCHANGED <<lock, phase, home, db>>
<1>1. pc[r] = "open" /\ made[r] < MaxCalls /\ made[r] \in 0..MaxCalls
  BY DEF CallMethod, IInv, TypeOK
<1>2. PICK c \in Calls : c = <<r, made[r] + 1>>
  <2>1. <<r, made[r] + 1>> \in Calls
    BY <1>1 DEF Calls
  <2> QED
    BY <2>1
<1>3. told[c] = "no"
  BY <1>1, <1>2 DEF IInv, HandlerInv
<1> QED
  BY <1>1, <1>2, <1>3 DEF CallMethod, Reject, Enqueue, server

\* Handlers are of processes that run, and what they were told is true.
LEMMA HandlerStep == IInv /\ [Next]_vars => HandlerInv'
<1> SUFFICES ASSUME IInv, [Next]_vars PROVE HandlerInv'
  OBVIOUS
<1>0. /\ HandlerInv /\ \A c \in Calls : c[1] \in Requests /\ c[2] \in 1..MaxCalls
      /\ pc \in [Requests -> {"new", "open", "waiting", "over"}]
      /\ home \in [Requests -> Procs \cup {NoProc}] /\ made \in [Requests -> 0..MaxCalls]
      /\ phase \in [Procs -> {"down", "up", "closing", "draining"}]
      /\ told \in [Calls -> {"no", "asked", "ok", "failed", "unknown"}]
  BY DEF IInv, TypeOK, Calls
<1>1. db' = db => Applied' = Applied
  BY DEF Applied
<1>2. ASSUME NEW p \in Procs, Start(p) \/ Close(p) \/ CloseNamespaces(p) PROVE HandlerInv'
  <2>1. UNCHANGED <<home, pc, made, told, db>> /\ \E f \in {"up", "closing", "draining"} : phase' = [phase EXCEPT ![p] = f]
    BY <1>2 DEF Start, Close, CloseNamespaces, handler
  <2> QED
    BY <1>0, <1>1, <2>1 DEF HandlerInv
<1>3. ASSUME NEW p \in Procs, Exit(p) \/ Crash(p) PROVE HandlerInv'
  <2>1. /\ UNCHANGED <<home, made, db>> /\ phase' = [phase EXCEPT ![p] = "down"]
        /\ pc' = [r \in Requests |-> IF home[r] = p THEN "over" ELSE pc[r]]
        /\ \A c \in Calls : told'[c] = told[c] \/ (told[c] = "asked" /\ told'[c] = "unknown")
    BY <1>0, <1>3 DEF Exit, Crash, Gone
  <2> QED
    BY <1>0, <1>1, <2>1 DEF HandlerInv
<1>4. ASSUME NEW r \in Requests, NEW p \in Procs, Admit(r, p) PROVE HandlerInv'
  <2>1. /\ UNCHANGED <<made, told, db, phase>> /\ phase[p] = "up"
        /\ pc' = [pc EXCEPT ![r] = "open"] /\ home' = [home EXCEPT ![r] = p]
    BY <1>4 DEF Admit, server
  <2> QED
    BY <1>0, <1>1, <2>1 DEF HandlerInv
<1>5. ASSUME NEW r \in Requests, CallMethod(r) PROVE HandlerInv'
  <2>1. PICK c \in Calls : /\ c[1] = r /\ c[2] = made[r] + 1 /\ told[c] = "no" /\ pc[r] = "open"
                           /\ told' \in {[told EXCEPT ![c] = "asked"], [told EXCEPT ![c] = "failed"]}
                           /\ pc' \in {pc, [pc EXCEPT ![r] = "waiting"]}
                           /\ made' = [made EXCEPT ![r] = made[r] + 1]
                           /\ UNCHANGED <<lock, phase, home, db>>
    BY <1>5, CallFact
  <2>2. \A d \in Calls : d # c => told'[d] = told[d] /\ (d[1] = r => d[2] # c[2])
    <3>1. \A d \in Calls : d = <<d[1], d[2]>>
      BY DEF Calls
    <3> QED
      BY <1>0, <2>1, <3>1
  <2>3. \A d \in Calls : (told'[d] = "no") <=> d[2] > made'[d[1]]
    BY <1>0, <2>1, <2>2 DEF HandlerInv
  <2>4. /\ \A q \in Requests : pc'[q] = "new" => made'[q] = 0
        /\ \A q \in Requests : pc'[q] \in {"open", "waiting"} => home'[q] \in Procs /\ phase'[home'[q]] # "down"
    BY <1>0, <2>1 DEF HandlerInv
  <2>5. \A d \in Calls : /\ told'[d] = "ok" => d \in Applied'
                         /\ told'[d] \in {"no", "failed"} => d \notin Applied'
    BY <1>0, <1>1, <2>1, <2>2 DEF HandlerInv
  <2> QED
    BY <2>3, <2>4, <2>5 DEF HandlerInv
<1>6. ASSUME NEW r \in Requests, Finish(r) PROVE HandlerInv'
  <2>1. UNCHANGED <<home, made, told, db, phase>> /\ pc' = [pc EXCEPT ![r] = "over"]
    BY <1>6 DEF Finish, server
  <2> QED
    BY <1>0, <1>1, <2>1 DEF HandlerInv
<1>7. ASSUME NEW s \in Slots, Commit(s) PROVE HandlerInv'
  <2>1. /\ UNCHANGED <<home, pc, made, told, phase>>
        /\ Applied' = Applied \cup {Head(chain[s])} /\ told[Head(chain[s])] = "asked"
    BY <1>7, CommitFact, HeadFact DEF Commit, handler, server, Turn
  <2> QED
    BY <1>0, <2>1 DEF HandlerInv
<1>8. ASSUME NEW s \in Slots, Answer(s) \/ Throw(s) PROVE HandlerInv'
  <2>1. PICK h \in Calls, o \in {"ok", "failed"} :
          /\ told[h] = "asked" /\ pc[h[1]] = "waiting" /\ o = (IF h \in Applied THEN "ok" ELSE "failed")
          /\ told' = [told EXCEPT ![h] = o] /\ pc' = [pc EXCEPT ![h[1]] = "open"]
          /\ UNCHANGED <<lock, phase, home, made, db>>
    BY <1>8, SettleFact
  <2> QED
    BY <1>0, <1>1, <2>1 DEF HandlerInv
<1>9. CASE UNCHANGED <<home, pc, made, phase, told, db>>
  BY <1>0, <1>1, <1>9 DEF HandlerInv
<1>10. \/ \E p \in Procs : \/ Start(p) \/ Close(p) \/ CloseNamespaces(p) \/ Exit(p) \/ Crash(p)
                           \/ \E r \in Requests : Admit(r, p)
       \/ \E r \in Requests : CallMethod(r) \/ Finish(r)
       \/ \E s \in Slots : Commit(s) \/ Answer(s) \/ Throw(s)
       \/ UNCHANGED <<home, pc, made, phase, told, db>>
  BY DEF Next, vars, handler, server, Run, Disconnect, Begin, Write, Evict
<1> QED
  BY <1>2, <1>3, <1>4, <1>5, <1>6, <1>7, <1>8, <1>9, <1>10

-----------------------------------------------------------------------------
\* Every step keeps the whole invariant.
LEMMA StepIInv == IInv /\ [Next]_vars => IInv'
<1> SUFFICES ASSUME IInv, [Next]_vars PROVE IInv'
  OBVIOUS
<1>1. TypeOK' /\ OneBroker' /\ NothingHalf' /\ ChainInv' /\ HandlerInv'
  BY TypeStep, LockStep, HalfStep, ChainStep, HandlerStep
<1>2. MemoryAgrees'
  BY <1>1 DEF TypeOK, ChainInv, RecordInv, MemoryAgrees
<1> QED
  BY <1>1, <1>2 DEF IInv

\* IInv holds in every state the processes and handlers can reach.
THEOREM Invariance == Spec => []IInv
BY InitIInv, StepIInv, PTL DEF Spec

\* Every step is one of atomic objects, or does not concern what they promise.
LEMMA ObjectsStep == IInv /\ [Next]_vars => [Objects_!Next]_(Objects_!vars)
<1> SUFFICES ASSUME IInv, [Next]_vars PROVE [Objects_!Next]_(Objects_!vars)
  OBVIOUS
<1> USE DEF Objects_!Next, Objects_!vars
<1>0. told \in [Calls -> {"no", "asked", "ok", "failed", "unknown"}] /\ HandlerInv
  BY DEF IInv, TypeOK
<1>1. db' = db => Applied' = Applied
  BY DEF Applied
<1>2. ASSUME NEW p \in Procs, Crash(p) PROVE [Objects_!Next]_(Objects_!vars)
  <2> DEFINE C == {c \in Calls : told[c] = "asked" /\ home[c[1]] = p}
  <2>1. told' = [c \in Calls |-> IF c \in C THEN "unknown" ELSE told[c]] /\ Applied' = Applied
    BY <1>1, <1>2 DEF Crash, Gone
  <2>2. Objects_!GoAway(C)
    BY <2>1 DEF Objects_!GoAway
  <2> QED
    BY <2>2
<1>3. ASSUME NEW r \in Requests, CallMethod(r) PROVE [Objects_!Next]_(Objects_!vars)
  <2>1. PICK c \in Calls : /\ told[c] = "no" /\ UNCHANGED db
                           /\ told' \in {[told EXCEPT ![c] = "asked"], [told EXCEPT ![c] = "failed"]}
    BY <1>3, CallFact
  <2>2. Objects_!Ask(c) \/ Objects_!Refuse(c)
    BY <1>1, <2>1 DEF Objects_!Ask, Objects_!Refuse
  <2> QED
    BY <2>2
<1>4. ASSUME NEW s \in Slots, Commit(s) PROVE [Objects_!Next]_(Objects_!vars)
  <2>1. PICK c \in Calls : /\ told[c] = "asked" /\ c \notin Applied /\ Applied' = Applied \cup {c}
                           /\ told' = told
    BY <1>4, CommitFact, HeadFact DEF Commit, Turn
  <2>2. Objects_!Apply(c)
    BY <2>1 DEF Objects_!Apply
  <2> QED
    BY <2>2
<1>5. ASSUME NEW s \in Slots, Answer(s) \/ Throw(s) PROVE [Objects_!Next]_(Objects_!vars)
  <2>1. PICK c \in Calls, o \in {"ok", "failed"} :
          /\ told[c] = "asked" /\ o = (IF c \in Applied THEN "ok" ELSE "failed")
          /\ told' = [told EXCEPT ![c] = o] /\ UNCHANGED db
    BY <1>5, SettleFact
  <2>2. Objects_!Answer(c)
    BY <1>1, <2>1 DEF Objects_!Answer
  <2> QED
    BY <2>2
<1>6. CASE UNCHANGED <<told, db>>
  BY <1>1, <1>6
<1>7. \/ \E p \in Procs : Crash(p)
      \/ \E r \in Requests : CallMethod(r)
      \/ \E s \in Slots : Commit(s) \/ Answer(s) \/ Throw(s)
      \/ UNCHANGED <<told, db>>
  BY DEF Next, vars, Run, Start, Admit, Finish, Disconnect, Close, CloseNamespaces, Exit, Gone, Begin, Write, Evict
<1> QED
  BY <1>2, <1>3, <1>4, <1>5, <1>6, <1>7

\* The objects of the self-hosted broker are atomic: what the other modules
\* of the broker assume of them.
THEOREM Refinement == Spec => Implements
<1>1. Init => Objects_!Init
  BY DEF Init, Objects_!Init, Applied
<1> QED
  BY <1>1, Invariance, ObjectsStep, PTL DEF Implements, Objects_!Spec, Spec
=============================================================================
