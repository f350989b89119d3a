---------------------- MODULE CommandLifecycle_proofs ----------------------
(***************************************************************************)
(* Proofs about CommandLifecycle, for any number of commands, workers,     *)
(* crashes and lost messages.  IInv is shown to be inductive, one lemma    *)
(* per action; the safety properties, the action properties and the        *)
(* refinement of CommandPromise follow from it.                            *)
(***************************************************************************)
EXTENDS CommandLifecycle, TLAPS

(* A merged reason is a reason, and it never explains less than the old one. *)
LEMMA PickType ==
  ASSUME NEW e \in Reasons \cup {NoReason}, NEW i \in Reasons \cup {NoReason}
  PROVE  /\ PickKilledReason(e, i) \in Reasons \cup {NoReason}
         /\ Priority[PickKilledReason(e, i)] >= Priority[e]
  BY DEF PickKilledReason, Reasons, NoReason, Priority

(* What a run may end in is a chunk about that command, exited or killed. *)
LEMMA VerdictShape ==
  ASSUME NEW c \in Cmds, NEW m \in Verdicts(c)
  PROVE  m \in Chunk /\ m.id = c /\ m.state \in Settled
  BY CommandAssumption DEF Verdicts, MkChunk, Chunk, Settled, IsTerminal, NoReason

(* What a worker that gives up reports: lost, and no exit code. *)
LEMMA LostShape ==
  ASSUME NEW c \in Cmds, NEW m \in LostChunks(c)
  PROVE  m \in Chunk /\ m.id = c /\ m.state = "lost" /\ m.exit_code = NoExit
  BY CommandAssumption DEF LostChunks, MkChunk, Chunk, IsTerminal, NoReason

(* The chunk pushed while a child runs. *)
LEMMA RunningShape ==
  ASSUME NEW c \in Cmds
  PROVE  LET m == MkChunk(c, "running", NoExit, NoReason)
         IN  m \in Chunk /\ m.id = c /\ m.state = "running" /\ m.exit_code = NoExit
  BY DEF MkChunk, Chunk, NoReason

(* An environment without commands satisfies the invariant. *)
LEMMA InitIInv == ASSUME Init PROVE IInv
  <1> USE CommandAssumption DEF Init, Never, NoExit
  <1>1. TypeOK
    <2>1. state \in [Cmds -> States] /\ exit_code \in [Cmds -> ExitCodes \cup {NoExit}]
      BY DEF States
    <2>2. killed_reason \in [Cmds -> Reasons \cup {NoReason}]
      OBVIOUS
    <2>3. /\ created \in [Cmds -> Ages] /\ claimed_at \in [Cmds -> Ages]
          /\ started_at \in [Cmds -> Ages]
      BY DEF Ages
    <2>4. /\ seq \in [Cmds -> Nat] /\ nextSeq \in Nat \ {0} /\ runs \in [Cmds -> Nat]
          /\ pid \in [Cmds -> BOOLEAN] /\ meta \in [Cmds -> BOOLEAN]
      OBVIOUS
    <2>5. /\ pc \in [Workers -> {"polling", "delivered", "starting", "running", "ended", "dead"}]
          /\ job \in [Workers -> Cmds \cup {NoCmd}]
          /\ \A w \in Workers : job[w] = NoCmd <=> pc[w] \in {"polling", "dead"}
      OBVIOUS
    <2> QED BY <2>1, <2>2, <2>3, <2>4, <2>5 DEF TypeOK
  <1>2. AtMostOnce /\ QueuedIffUnclaimed /\ QueueInv
    BY DEF AtMostOnce, QueuedIffUnclaimed, QueueInv, Rows
  <1>3. UntouchedInv /\ RunnerInv /\ VerdictInv
    BY DEF UntouchedInv, RunnerInv, VerdictInv, Active
  <1>4. RecordInv
    BY DEF RecordInv, Settled
  <1> QED BY <1>1, <1>2, <1>3, <1>4 DEF IInv

(* enqueue: a fresh row, about which the runner knows nothing. *)
LEMMA EnqueueIInv == ASSUME IInv, NEW c \in Cmds, Enqueue(c) PROVE IInv'
  <1> USE DEF IInv, Enqueue, files, workers, control, history
  <1>1. TypeOK'
    BY DEF TypeOK, States, IsTerminal, Settled, Ages, Never
  <1>2. AtMostOnce'
    BY DEF AtMostOnce
  <1>3. QueuedIffUnclaimed'
    BY DEF TypeOK, QueuedIffUnclaimed, QueueInv, Never
  <1>4. QueueInv'
    BY DEF TypeOK, QueueInv, Rows, Settled, Never
  <1>5. UntouchedInv'
    BY DEF TypeOK, UntouchedInv
  <1>6. RunnerInv'
    BY DEF RunnerInv, Active
  <1>7. VerdictInv'
    BY DEF VerdictInv
  <1>8. RecordInv'
    BY DEF TypeOK, RecordInv, Settled
  <1> QED BY <1>1, <1>2, <1>3, <1>4, <1>5, <1>6, <1>7, <1>8

(* A claim whose answer has no reader: only the two tables change. *)
LEMMA ClaimForNobodyIInv == ASSUME IInv, ClaimForNobody PROVE IInv'
  <1> USE DEF IInv, ClaimForNobody, TakeRow, files, workers, control, history, Claimable, Never
  <1>1. TypeOK'
    BY DEF TypeOK, States, Ages
  <1>2. AtMostOnce'
    BY DEF AtMostOnce
  <1>3. QueuedIffUnclaimed'
    BY DEF TypeOK, QueuedIffUnclaimed
  <1>4. QueueInv'
    BY DEF TypeOK, QueueInv, Rows, Settled
  <1>5. UntouchedInv'
    BY DEF TypeOK, UntouchedInv
  <1>6. RunnerInv' /\ VerdictInv'
    BY DEF RunnerInv, VerdictInv, Active
  <1>7. RecordInv'
    BY DEF TypeOK, RecordInv, QueueInv, Settled
  <1> QED BY <1>1, <1>2, <1>3, <1>4, <1>5, <1>6, <1>7

(* A claim that is answered: the row had not been touched, or was redelivered. *)
LEMMA ClaimNextIInv == ASSUME IInv, NEW w \in Workers, ClaimNext(w) PROVE IInv'
  <1> USE DEF IInv, ClaimNext, TakeRow, Go, files, control, history, Claimable, Never
  <1>1. TypeOK'
    BY CommandAssumption DEF TypeOK, States, Ages
  <1>2. AtMostOnce'
    BY DEF AtMostOnce
  <1>3. QueuedIffUnclaimed'
    BY DEF TypeOK, QueuedIffUnclaimed
  <1>4. QueueInv'
    BY DEF TypeOK, QueueInv, Rows, Settled
  <1>5. UntouchedInv'
    BY DEF TypeOK, UntouchedInv, QueueInv
  <1>6. RunnerInv' /\ VerdictInv'
    BY DEF TypeOK, RunnerInv, VerdictInv, Active
  <1>7. RecordInv'
    BY DEF TypeOK, RecordInv, QueueInv, Settled
  <1> QED BY <1>1, <1>2, <1>3, <1>4, <1>5, <1>6, <1>7

(* ingestChunk: whichever chunk arrives, however late. *)
LEMMA IngestIInv == ASSUME IInv, NEW m \in net, IngestChunk(m) PROVE IInv'
  <1> USE DEF IInv, IngestChunk, MergedState, MergedExit, files, workers, control, history
  <1>1. TypeOK'
    BY PickType DEF TypeOK, Chunk, States, Ages, IsTerminal, Settled
  <1>2. AtMostOnce'
    BY DEF AtMostOnce
  <1>3. QueuedIffUnclaimed'
    BY DEF TypeOK, Chunk, QueuedIffUnclaimed, UntouchedInv, IsTerminal, Settled
  <1>4. QueueInv'
    BY DEF TypeOK, Chunk, QueueInv, Rows, IsTerminal, Settled, Never
  <1>5. UntouchedInv'
    BY DEF TypeOK, Chunk, UntouchedInv, IsTerminal, Settled
  <1>6. RunnerInv' /\ VerdictInv'
    BY DEF RunnerInv, VerdictInv, Active
  <1>7. RecordInv'
    BY DEF TypeOK, Chunk, RecordInv, VerdictInv, Settled
  <1> QED BY <1>1, <1>2, <1>3, <1>4, <1>5, <1>6, <1>7

(* controlPoll: a survey names only commands whose marker exists. *)
LEMMA ControlPollIInv == ASSUME IInv, ControlPoll PROVE IInv'
  <1> USE DEF IInv, ControlPoll, files, workers, control, history
  <1>1. TypeOK'
    BY DEF TypeOK, States, IsTerminal, Reasons
  <1>2. AtMostOnce'
    BY DEF AtMostOnce
  <1>3. QueuedIffUnclaimed'
    BY DEF TypeOK, QueuedIffUnclaimed, UntouchedInv
  <1>4. QueueInv'
    BY DEF TypeOK, QueueInv, Rows, Settled
  <1>5. UntouchedInv'
    BY DEF TypeOK, UntouchedInv
  <1>6. RunnerInv' /\ VerdictInv'
    BY DEF RunnerInv, VerdictInv, Active
  <1>7. RecordInv'
    BY DEF TypeOK, RecordInv, Settled
  <1> QED BY <1>1, <1>2, <1>3, <1>4, <1>5, <1>6, <1>7

(* A lost answer leaves the claim behind and nothing else. *)
LEMMA LoseNextIInv == ASSUME IInv, NEW w \in Workers, LoseNext(w) PROVE IInv'
  <1> USE DEF IInv, LoseNext, Go, tables, files, control, history
  <1>1. TypeOK'
    BY DEF TypeOK
  <1>2. AtMostOnce' /\ QueuedIffUnclaimed' /\ QueueInv'
    BY DEF AtMostOnce, QueuedIffUnclaimed, QueueInv, Rows
  <1>3. UntouchedInv'
    BY CommandAssumption DEF TypeOK, UntouchedInv
  <1>4. RunnerInv' /\ VerdictInv' /\ RecordInv'
    BY CommandAssumption DEF TypeOK, RunnerInv, VerdictInv, RecordInv, Active
  <1> QED BY <1>1, <1>2, <1>3, <1>4

(* O_EXCL: the winner is the only active worker of that command. *)
LEMMA StartJobIInv == ASSUME IInv, NEW w \in Workers, StartJob(w) PROVE IInv'
  <1> USE DEF IInv, StartJob, Go, tables, control, history
  <1>1. TypeOK'
    BY CommandAssumption DEF TypeOK, Ages
  <1>2. AtMostOnce' /\ QueuedIffUnclaimed' /\ QueueInv'
    BY DEF AtMostOnce, QueuedIffUnclaimed, QueueInv, Rows
  <1>3. UntouchedInv'
    BY CommandAssumption DEF TypeOK, UntouchedInv
  <1>4. RunnerInv'
    BY CommandAssumption DEF TypeOK, RunnerInv, Active, Never
  <1>5. VerdictInv' /\ RecordInv'
    BY CommandAssumption DEF TypeOK, VerdictInv, RecordInv, Never
  <1> QED BY <1>1, <1>2, <1>3, <1>4, <1>5

(* The loser goes back to polling. *)
LEMMA IgnoreDuplicateIInv == ASSUME IInv, NEW w \in Workers, IgnoreDuplicate(w) PROVE IInv'
  <1> USE DEF IInv, IgnoreDuplicate, Go, tables, files, control, history
  <1>1. TypeOK'
    BY DEF TypeOK
  <1>2. AtMostOnce' /\ QueuedIffUnclaimed' /\ QueueInv'
    BY DEF AtMostOnce, QueuedIffUnclaimed, QueueInv, Rows
  <1>3. UntouchedInv'
    BY CommandAssumption DEF TypeOK, UntouchedInv
  <1>4. RunnerInv' /\ VerdictInv' /\ RecordInv'
    BY CommandAssumption DEF TypeOK, RunnerInv, VerdictInv, RecordInv, Active
  <1> QED BY <1>1, <1>2, <1>3, <1>4

(* The worker reports lost, which no verdict contradicts. *)
LEMMA GiveUpIInv == ASSUME IInv, NEW w \in Workers, GiveUp(w) PROVE IInv'
  <1> USE DEF IInv, GiveUp, Go, Push, tables, files, control, history
  <1>1. job[w] \in Cmds
    BY DEF TypeOK
  <1>2. PICK m \in LostChunks(job[w]) : Push(m)
    BY DEF GiveUp
  <1>3. m \in Chunk /\ m.id = job[w] /\ m.state = "lost" /\ m.exit_code = NoExit
    BY <1>1, <1>2, LostShape
  <1>4. TypeOK'
    BY <1>2, <1>3 DEF TypeOK
  <1>5. AtMostOnce' /\ QueuedIffUnclaimed' /\ QueueInv'
    BY DEF AtMostOnce, QueuedIffUnclaimed, QueueInv, Rows
  <1>6. UntouchedInv'
    BY <1>1, <1>2, <1>3, CommandAssumption DEF TypeOK, UntouchedInv
  <1>7. RunnerInv' /\ RecordInv'
    BY CommandAssumption DEF TypeOK, RunnerInv, RecordInv, Active
  <1>8. VerdictInv'
    BY <1>1, <1>2, <1>3, CommandAssumption DEF TypeOK, VerdictInv, Settled
  <1> QED BY <1>1, <1>2, <1>3, <1>4, <1>5, <1>6, <1>7, <1>8

(* The one execution: only the holder of the marker gets here. *)
LEMMA ExecuteIInv == ASSUME IInv, NEW w \in Workers, Execute(w) PROVE IInv'
  <1> USE DEF IInv, Execute, Go, tables, control, history
  <1>1. TypeOK'
    <2>1. PICK written \in BOOLEAN : pid' = [pid EXCEPT ![job[w]] = written]
      OBVIOUS
    <2>2. pid' \in [Cmds -> BOOLEAN]
      BY <2>1 DEF TypeOK
    <2>3. runs' \in [Cmds -> Nat]
      BY DEF TypeOK
    <2> QED BY <2>2, <2>3, CommandAssumption DEF TypeOK
  <1>2. AtMostOnce'
    BY DEF TypeOK, AtMostOnce, RunnerInv
  <1>3. QueuedIffUnclaimed' /\ QueueInv'
    BY DEF QueuedIffUnclaimed, QueueInv, Rows
  <1>4. UntouchedInv'
    BY CommandAssumption DEF TypeOK, UntouchedInv
  <1>5. RunnerInv'
    BY CommandAssumption DEF TypeOK, RunnerInv, Active
  <1>6. VerdictInv' /\ RecordInv'
    BY CommandAssumption DEF TypeOK, VerdictInv, RecordInv, Chunk
  <1> QED BY <1>1, <1>2, <1>3, <1>4, <1>5, <1>6

(* The one verdict of the one run. *)
LEMMA FinishIInv == ASSUME IInv, NEW w \in Workers, Finish(w) PROVE IInv'
  <1> USE DEF IInv, Finish, Conclude, Go, tables, control, history
  <1>1. job[w] \in Cmds /\ pc[w] = "running"
    BY DEF TypeOK
  <1>2. PICK m \in Verdicts(job[w]) : verdicts' = verdicts \cup {m}
    OBVIOUS
  <1>3. m \in Chunk /\ m.id = job[w] /\ m.state \in Settled
    BY <1>1, <1>2, VerdictShape
  <1>4. TypeOK'
    BY <1>1, <1>2, <1>3, CommandAssumption DEF TypeOK
  <1>5. AtMostOnce' /\ QueuedIffUnclaimed' /\ QueueInv'
    BY DEF AtMostOnce, QueuedIffUnclaimed, QueueInv, Rows
  <1>6. UntouchedInv'
    BY <1>1, CommandAssumption DEF TypeOK, UntouchedInv
  <1>7. RunnerInv'
    BY <1>1, CommandAssumption DEF TypeOK, RunnerInv, Active
  <1>8. VerdictInv'
    BY <1>1, <1>2, <1>3, CommandAssumption DEF TypeOK, VerdictInv, RunnerInv, Active
  <1>9. RecordInv'
    BY <1>2 DEF RecordInv
  <1> QED BY <1>1, <1>2, <1>3, <1>4, <1>5, <1>6, <1>7, <1>8, <1>9

(* A verdict about a command that never ran is `lost`. *)
LEMMA SpawnErrorIInv == ASSUME IInv, NEW w \in Workers, SpawnError(w) PROVE IInv'
  <1> USE DEF IInv, SpawnError, Conclude, Go, tables, control, history
  <1>1. job[w] \in Cmds /\ pc[w] = "starting"
    BY DEF TypeOK
  <1>2. PICK m \in LostChunks(job[w]) : verdicts' = verdicts \cup {m}
    OBVIOUS
  <1>3. m \in Chunk /\ m.id = job[w] /\ m.state = "lost" /\ m.exit_code = NoExit
    BY <1>1, <1>2, LostShape
  <1>4. TypeOK'
    BY <1>1, <1>2, <1>3, CommandAssumption DEF TypeOK
  <1>5. AtMostOnce' /\ QueuedIffUnclaimed' /\ QueueInv'
    BY DEF AtMostOnce, QueuedIffUnclaimed, QueueInv, Rows
  <1>6. UntouchedInv'
    BY <1>1, CommandAssumption DEF TypeOK, UntouchedInv
  <1>7. RunnerInv'
    BY <1>1, CommandAssumption DEF TypeOK, RunnerInv, Active
  <1>8. VerdictInv'
    BY <1>1, <1>2, <1>3, CommandAssumption DEF TypeOK, VerdictInv, RunnerInv, Active, Settled
  <1>9. RecordInv'
    BY <1>2 DEF RecordInv
  <1> QED BY <1>1, <1>2, <1>3, <1>4, <1>5, <1>6, <1>7, <1>8, <1>9

(* A progress chunk settles nothing. *)
LEMMA PushRunningIInv == ASSUME IInv, NEW w \in Workers, PushRunning(w) PROVE IInv'
  <1> USE DEF IInv, PushRunning, Push, tables, files, workers, control, history
  <1>1. job[w] \in Cmds
    BY DEF TypeOK
  <1>2. PICK m \in Chunk : net' = net \cup {m} /\ m.id = job[w] /\ m.state = "running" /\ m.exit_code = NoExit
    BY <1>1, RunningShape
  <1>3. TypeOK'
    BY <1>2 DEF TypeOK
  <1>4. AtMostOnce' /\ QueuedIffUnclaimed' /\ QueueInv'
    BY DEF AtMostOnce, QueuedIffUnclaimed, QueueInv, Rows
  <1>5. UntouchedInv'
    BY <1>1, <1>2 DEF TypeOK, UntouchedInv
  <1>6. RunnerInv' /\ RecordInv'
    BY DEF RunnerInv, RecordInv, Active
  <1>7. VerdictInv'
    BY <1>2 DEF VerdictInv, Settled
  <1> QED BY <1>1, <1>2, <1>3, <1>4, <1>5, <1>6, <1>7

(* The chunk that settles a command carries its run's verdict. *)
LEMMA PushFinalIInv == ASSUME IInv, NEW w \in Workers, PushFinal(w) PROVE IInv'
  <1> USE DEF IInv, PushFinal, Push, Go, tables, files, control, history
  <1>1. PICK m \in verdicts : m.id = job[w] /\ net' = net \cup {m}
    OBVIOUS
  <1>2. job[w] \in Cmds
    BY DEF TypeOK
  <1>3. TypeOK'
    BY <1>1 DEF TypeOK
  <1>4. AtMostOnce' /\ QueuedIffUnclaimed' /\ QueueInv'
    BY DEF AtMostOnce, QueuedIffUnclaimed, QueueInv, Rows
  <1>5. UntouchedInv'
    BY <1>1, <1>2, CommandAssumption DEF TypeOK, UntouchedInv
  <1>6. RunnerInv' /\ RecordInv'
    BY CommandAssumption DEF TypeOK, RunnerInv, RecordInv, Active
  <1>7. VerdictInv'
    BY <1>1, CommandAssumption DEF TypeOK, VerdictInv
  <1> QED BY <1>1, <1>2, <1>3, <1>4, <1>5, <1>6, <1>7

(* A worker that dies leaves files and tables as they are. *)
LEMMA CrashIInv == ASSUME IInv, NEW w \in Workers, Crash(w) PROVE IInv'
  <1> USE DEF IInv, Crash, Go, tables, files, control, history
  <1>1. TypeOK'
    BY DEF TypeOK
  <1>2. AtMostOnce' /\ QueuedIffUnclaimed' /\ QueueInv'
    BY DEF AtMostOnce, QueuedIffUnclaimed, QueueInv, Rows
  <1>3. UntouchedInv'
    BY CommandAssumption DEF TypeOK, UntouchedInv
  <1>4. RunnerInv' /\ VerdictInv' /\ RecordInv'
    BY CommandAssumption DEF TypeOK, RunnerInv, VerdictInv, RecordInv, Active
  <1> QED BY <1>1, <1>2, <1>3, <1>4

(* The control process reads the job directories, or its request ends. *)
LEMMA SurveyIInv == ASSUME IInv, SurveyJobs \/ ControlReturns PROVE IInv'
  <1> USE DEF IInv, SurveyJobs, ControlReturns, tables, files, workers, history
  <1>1. TypeOK'
    BY DEF TypeOK, SpawnGaps
  <1>2. AtMostOnce' /\ QueuedIffUnclaimed' /\ QueueInv'
    BY DEF AtMostOnce, QueuedIffUnclaimed, QueueInv, Rows
  <1>3. UntouchedInv'
    BY CommandAssumption DEF TypeOK, UntouchedInv, SpawnGaps, Never, Ages
  <1>4. RunnerInv' /\ VerdictInv' /\ RecordInv'
    BY CommandAssumption DEF TypeOK, RunnerInv, VerdictInv, RecordInv, Active, SpawnGaps, Never
  <1> QED BY <1>1, <1>2, <1>3, <1>4

(* Losing a chunk. *)
LEMMA LoseChunkIInv == ASSUME IInv, NEW m \in net, LoseChunk(m) PROVE IInv'
  <1> USE DEF IInv, LoseChunk, tables, files, workers, control, history
  <1>1. TypeOK'
    BY DEF TypeOK
  <1>2. AtMostOnce' /\ QueuedIffUnclaimed' /\ QueueInv'
    BY DEF AtMostOnce, QueuedIffUnclaimed, QueueInv, Rows
  <1>3. UntouchedInv'
    BY DEF UntouchedInv
  <1>4. RunnerInv' /\ RecordInv'
    BY DEF RunnerInv, RecordInv, Active
  <1>5. VerdictInv'
    BY DEF VerdictInv
  <1> QED BY <1>1, <1>2, <1>3, <1>4, <1>5

(* Ageing an age keeps unset ages unset. *)
LEMMA OlderType ==
  ASSUME NEW a \in Ages, NEW limit \in Nat
  PROVE  Older(a, limit) \in Ages /\ (Older(a, limit) = Never <=> a = Never)
  BY DEF Ages, Never, Older

(* Time passes. *)
LEMMA TickIInv == ASSUME IInv, Tick PROVE IInv'
  <1> USE DEF IInv, Tick, workers, control, history
  <1>1. \A c \in Cmds : /\ claimed_at'[c] \in Ages /\ (claimed_at'[c] = Never <=> claimed_at[c] = Never)
                     /\ started_at'[c] \in Ages /\ (started_at'[c] = Never <=> started_at[c] = Never)
                     /\ created'[c] \in Ages
    BY OlderType, CommandAssumption DEF TypeOK
  <1>2. TypeOK'
    BY <1>1 DEF TypeOK
  <1>3. AtMostOnce' /\ QueuedIffUnclaimed' /\ QueueInv'
    BY <1>1 DEF AtMostOnce, QueuedIffUnclaimed, QueueInv, Rows
  <1>4. UntouchedInv'
    BY <1>1 DEF UntouchedInv
  <1>5. RunnerInv'
    BY <1>1 DEF TypeOK, RunnerInv, Active
  <1>6. VerdictInv' /\ RecordInv'
    BY <1>1 DEF TypeOK, VerdictInv, RecordInv, Chunk
  <1> QED BY <1>1, <1>2, <1>3, <1>4, <1>5, <1>6

(* A step that changes nothing. *)
LEMMA StutterIInv == ASSUME IInv, UNCHANGED vars PROVE IInv'
  <1> USE DEF IInv, vars, tables, files, workers, control, history
  <1>1. TypeOK' /\ AtMostOnce' /\ QueuedIffUnclaimed' /\ QueueInv'
    BY DEF TypeOK, AtMostOnce, QueuedIffUnclaimed, QueueInv, Rows
  <1>2. UntouchedInv' /\ RunnerInv' /\ VerdictInv' /\ RecordInv'
    BY DEF UntouchedInv, RunnerInv, VerdictInv, RecordInv, Active
  <1> QED BY <1>1, <1>2

(* The invariant is inductive. *)
LEMMA NextIInv == IInv /\ [Next]_vars => IInv'
  <1> SUFFICES ASSUME IInv, [Next]_vars PROVE IInv'
    OBVIOUS
  <1>1. ASSUME NEW w \in Workers, ClaimNext(w) \/ LoseNext(w) \/ Work(w) \/ PushRunning(w) \/ Crash(w)
        PROVE  IInv'
    BY <1>1, ClaimNextIInv, LoseNextIInv, StartJobIInv, IgnoreDuplicateIInv, GiveUpIInv, ExecuteIInv,
       SpawnErrorIInv, FinishIInv, PushRunningIInv, PushFinalIInv, CrashIInv DEF Work
  <1>2. ASSUME NEW m \in net, IngestChunk(m) \/ LoseChunk(m)
        PROVE  IInv'
    BY <1>2, IngestIInv, LoseChunkIInv
  <1>3. ASSUME ClaimForNobody PROVE IInv'
    BY <1>3, ClaimForNobodyIInv
  <1> QED BY <1>1, <1>2, <1>3, EnqueueIInv, ControlPollIInv, SurveyIInv, TickIInv, StutterIInv DEF Next

-----------------------------------------------------------------------------
(* Every reachable state satisfies IInv, the strengthening the results below need: who may hold a
   command, what chunks may be about, and which verdict stands behind what is on record. *)
THEOREM Invariance == Spec => []IInv
  BY InitIInv, NextIInv, PTL DEF Spec

(* First claims stay in order of submission. *)
LEMMA OrderStep == IInv /\ FirstClaimsInOrder /\ [Next]_vars => FirstClaimsInOrder'
  <1> SUFFICES ASSUME IInv, FirstClaimsInOrder, [Next]_vars PROVE FirstClaimsInOrder'
    OBVIOUS
  <1> USE DEF IInv, FirstClaimsInOrder, Rows
  <1>1. ASSUME NEW c \in Cmds, Enqueue(c) PROVE FirstClaimsInOrder'
    BY <1>1 DEF Enqueue, TypeOK, QueueInv, Never, Ages
  <1>2. ASSUME NEW c \in Cmds, TakeRow(c) PROVE FirstClaimsInOrder'
    BY <1>2 DEF TakeRow, Claimable, TypeOK, Never, Ages
  <1>3. ASSUME NEW m \in net, IngestChunk(m) PROVE FirstClaimsInOrder'
    BY <1>3 DEF IngestChunk, MergedState, MergedExit, TypeOK, Chunk
  <1>4. CASE Tick
    BY <1>4, OlderType, CommandAssumption DEF Tick, TypeOK
  <1>5. CASE UNCHANGED <<seq, claimed_at>>
    BY <1>5
  <1> QED
    BY <1>1, <1>2, <1>3, <1>4, <1>5
    DEF Next, ClaimNext, ClaimForNobody, LoseNext, LoseChunk, ControlPoll, Work, StartJob, IgnoreDuplicate, GiveUp,
        Execute, SpawnError, Finish, Conclude, PushRunning, PushFinal, Crash, SurveyJobs, ControlReturns, vars, tables

(* No step changes what is on record about a settled command. *)
LEMMA SettledStep ==
  IInv /\ [Next]_vars => \A c \in Cmds : state[c] \in Settled => state'[c] = state[c] /\ exit_code'[c] = exit_code[c]
  <1> SUFFICES ASSUME IInv, [Next]_vars, NEW c \in Cmds, state[c] \in Settled
               PROVE  state'[c] = state[c] /\ exit_code'[c] = exit_code[c]
    OBVIOUS
  <1> USE DEF IInv, Settled
  <1>1. ASSUME NEW d \in Cmds, Enqueue(d) PROVE state'[c] = state[c] /\ exit_code'[c] = exit_code[c]
    BY <1>1 DEF Enqueue, TypeOK
  <1>2. ASSUME NEW d \in Cmds, TakeRow(d) PROVE state'[c] = state[c] /\ exit_code'[c] = exit_code[c]
    BY <1>2 DEF TakeRow, Claimable, TypeOK, QueueInv
  <1>3. ASSUME NEW m \in net, IngestChunk(m) PROVE state'[c] = state[c] /\ exit_code'[c] = exit_code[c]
    BY <1>3 DEF IngestChunk, MergedState, MergedExit, TypeOK, Chunk, VerdictInv, RecordInv
  <1>4. CASE ControlPoll
    BY <1>4 DEF ControlPoll, TypeOK
  <1>5. CASE UNCHANGED <<state, exit_code>>
    BY <1>5
  <1> QED
    BY <1>1, <1>2, <1>3, <1>4, <1>5
    DEF Next, ClaimNext, ClaimForNobody, LoseNext, LoseChunk, Work, StartJob, IgnoreDuplicate, GiveUp, Tick,
        Execute, SpawnError, Finish, Conclude, PushRunning, PushFinal, Crash, SurveyJobs, ControlReturns, vars, tables

(* No step replaces a reason by one that explains less. *)
LEMMA ReasonStep ==
  IInv /\ [Next]_vars => \A c \in Cmds : Priority[killed_reason'[c]] >= Priority[killed_reason[c]]
  <1> SUFFICES ASSUME IInv, [Next]_vars, NEW c \in Cmds
               PROVE  Priority[killed_reason'[c]] >= Priority[killed_reason[c]]
    OBVIOUS
  <1>0. killed_reason[c] \in Reasons \cup {NoReason}
    BY DEF IInv, TypeOK
  <1>1. ASSUME NEW m \in net, IngestChunk(m) PROVE Priority[killed_reason'[c]] >= Priority[killed_reason[c]]
    <2>1. m.id \in Cmds /\ m.killed_reason \in Reasons \cup {NoReason}
      BY DEF IInv, TypeOK, Chunk
    <2>2. killed_reason'[c] = killed_reason[c] \/ killed_reason'[c] = PickKilledReason(killed_reason[c], m.killed_reason)
      BY <1>1, <2>1 DEF IngestChunk, MergedState, MergedExit, IInv, TypeOK
    <2> QED BY <1>0, <2>1, <2>2, PickType DEF Priority
  <1>2. CASE ControlPoll
    <2>1. killed_reason'[c] = killed_reason[c] \/ (killed_reason[c] = NoReason /\ killed_reason'[c] = "spawn_gap")
      BY <1>2, SMT DEF ControlPoll
    <2> QED BY <1>0, <2>1 DEF Priority, Reasons, NoReason
  <1>3. CASE UNCHANGED killed_reason
    BY <1>0, <1>3 DEF Priority
  <1> QED
    BY <1>1, <1>2, <1>3
    DEF Next, Enqueue, ClaimNext, ClaimForNobody, TakeRow, LoseNext, LoseChunk, Work, StartJob, IgnoreDuplicate, GiveUp,
        Tick, Execute, SpawnError, Finish, Conclude, PushRunning, PushFinal, Crash, SurveyJobs, ControlReturns,
        vars, tables

(* However often a command is delivered, the O_EXCL marker lets it run at most once. *)
THEOREM RunsAtMostOnce == Spec => []AtMostOnce
  BY Invariance, PTL DEF IInv

(* A command is `queued` on record exactly while its row was never handed out. *)
THEOREM WaitingIsUntouched == Spec => []QueuedIffUnclaimed
  BY Invariance, PTL DEF IInv

(* A command on record as exited or killed ran, and ended exactly as the record says. *)
THEOREM RecordIsTrue == Spec => []SettledIsTheRunsVerdict
  <1>1. IInv => SettledIsTheRunsVerdict
    BY DEF IInv, RecordInv, VerdictInv, SettledIsTheRunsVerdict
  <1> QED BY <1>1, Invariance, PTL

(* claimNext hands commands out for the first time in the order they were submitted. *)
THEOREM ClaimsInOrder == Spec => []FirstClaimsInOrder
  <1>1. Init => FirstClaimsInOrder
    BY DEF Init, FirstClaimsInOrder, Rows
  <1> QED BY <1>1, OrderStep, Invariance, PTL DEF Spec

(* Redelivered claims, late chunks and stale surveys leave a settled command alone. *)
THEOREM RecordIsFinal == Spec => SettledForever
  BY SettledStep, Invariance, PTL DEF Spec, SettledForever

(* The killed_reason on record is only replaced by one that explains more. *)
THEOREM ReasonsOnlyImprove == Spec => ReasonNeverWeakens
  BY ReasonStep, Invariance, PTL DEF Spec, ReasonNeverWeakens

(* Every step of the lifecycle is a step of the promise, or none. *)
LEMMA PromiseStep == IInv /\ IInv' /\ [Next]_vars => [Promise!Next]_(Promise!vars)
  <1> SUFFICES ASSUME IInv, IInv', [Next]_vars PROVE Promise!Next \/ UNCHANGED Promise!vars
    OBVIOUS
  <1> USE DEF IInv
  <1>0. \A v \in verdicts : v.id \in Cmds /\ v.exit_code \in ExitCodes \cup {NoExit}
    BY DEF TypeOK, Chunk
  <1>1. ASSUME NEW c \in Cmds, Enqueue(c) PROVE Promise!Ask(c)
    <2>1. Asked' = Asked \cup {c} /\ c \notin Asked
      BY <1>1 DEF Enqueue, TypeOK, Asked
    <2>2. Recorded' = Recorded
      BY <1>1 DEF Enqueue, TypeOK, Recorded, Settled
    <2> QED BY <1>1, <2>1, <2>2 DEF Promise!Ask, Enqueue, history, Ended
  <1>2. ASSUME NEW w \in Workers, Execute(w) PROVE Promise!Run(job[w])
    <2>1. job[w] \in Cmds /\ runs[job[w]] = 0 /\ job[w] \in Asked
      BY <1>2 DEF Execute, TypeOK, RunnerInv, UntouchedInv, Asked
    <2>2. runs' = [runs EXCEPT ![job[w]] = 1]
      BY <1>2, <2>1 DEF Execute, TypeOK
    <2> QED BY <1>2, <2>1, <2>2 DEF Promise!Run, Execute, tables, Asked, Ended, Recorded
  <1>3. ASSUME NEW w \in Workers, Finish(w)
        PROVE  \E r \in Settled \X (ExitCodes \cup {NoExit}) : Promise!End(job[w], r)
    <2>1. job[w] \in Cmds /\ runs[job[w]] = 1 /\ pc[w] = "running"
      BY <1>3 DEF Finish, TypeOK, RunnerInv
    <2>2. PICK m \in Verdicts(job[w]) : verdicts' = verdicts \cup {m}
      BY <1>3 DEF Finish, Conclude
    <2>3. m \in Chunk /\ m.id = job[w] /\ m.state \in Settled
      BY <2>1, <2>2, VerdictShape
    <2>4. Ended' = Ended \cup {<<job[w], m.state, m.exit_code>>}
      BY <2>2, <2>3 DEF Ended
    <2>5. \A e \in Ended : e[1] # job[w]
      BY <2>1 DEF Ended, VerdictInv
    <2>6. Promise!End(job[w], <<m.state, m.exit_code>>)
      BY <1>3, <2>1, <2>4, <2>5 DEF Promise!End, Finish, Conclude, tables, Asked, Recorded
    <2> QED BY <2>3, <2>6 DEF Chunk
  <1>4. ASSUME NEW m \in net, IngestChunk(m)
        PROVE  (\E e \in Ended : Promise!Record(e)) \/ UNCHANGED Promise!vars
    <2> DEFINE c == m.id
    <2>1. c \in Cmds /\ m.state # "absent" /\ state[c] # "absent"
      BY DEF TypeOK, Chunk, IsTerminal, Settled, UntouchedInv
    <2>2. Asked' = Asked
      BY <1>4, <2>1 DEF IngestChunk, MergedState, MergedExit, TypeOK, Asked, Settled
    <2>3. runs' = runs /\ Ended' = Ended
      BY <1>4 DEF IngestChunk, MergedState, MergedExit, history, Ended
    <2>4. \A d \in Cmds : d # c => state'[d] = state[d] /\ exit_code'[d] = exit_code[d]
      BY <1>4 DEF IngestChunk, MergedState, MergedExit, TypeOK
    <2>5. CASE state[c] \in Settled \/ m.state \notin Settled
      <3>1. /\ state'[c] \in Settled <=> state[c] \in Settled
            /\ state[c] \in Settled => state'[c] = state[c] /\ exit_code'[c] = exit_code[c]
        BY <1>4, <2>1, <2>5, SettledStep DEF IngestChunk, MergedState, MergedExit, TypeOK
      <3>2. Recorded' = Recorded
        BY <2>4, <3>1 DEF Recorded
      <3> QED BY <2>2, <2>3, <3>2 DEF Promise!vars
    <2>6. CASE state[c] \notin Settled /\ m.state \in Settled
      <3> DEFINE e == <<c, state'[c], exit_code'[c]>>
      <3>1. state'[c] \in Settled
        BY <1>4, <2>1, <2>6 DEF IngestChunk, MergedState, MergedExit, TypeOK
      <3>2. Recorded' = Recorded \cup {e}
        BY <2>1, <2>4, <2>6, <3>1 DEF Recorded
      <3>3. e \in Ended
        <4>1. PICK v \in verdicts' : v.id = c /\ v.state = state'[c] /\ v.exit_code = exit_code'[c]
          BY <2>1, <3>1 DEF RecordInv
        <4>2. v \in verdicts /\ v.state \in Settled
          BY <1>4, <3>1, <4>1 DEF IngestChunk, MergedState, MergedExit, history
        <4> QED BY <4>1, <4>2 DEF Ended
      <3> QED BY <2>2, <2>3, <3>2, <3>3 DEF Promise!Record
    <2> QED BY <2>5, <2>6
  <1>5. ASSUME NEW c \in Cmds, TakeRow(c), UNCHANGED history PROVE UNCHANGED Promise!vars
    <2>1. state[c] \notin Settled \cup {"absent"}
      BY <1>5 DEF TakeRow, Claimable, QueueInv
    <2>2. Asked' = Asked /\ Recorded' = Recorded
      BY <1>5, <2>1 DEF TakeRow, TypeOK, Asked, Recorded, Settled
    <2> QED BY <1>5, <2>2 DEF Promise!vars, history, Ended
  <1>6. ASSUME ControlPoll PROVE UNCHANGED Promise!vars
    <2>1. Asked' = Asked /\ Recorded' = Recorded
      BY <1>6 DEF ControlPoll, TypeOK, Asked, Recorded, Settled
    <2> QED BY <1>6, <2>1 DEF Promise!vars, ControlPoll, history, Ended
  <1>7. ASSUME NEW w \in Workers, SpawnError(w) PROVE UNCHANGED Promise!vars
    <2>1. PICK m \in LostChunks(job[w]) : verdicts' = verdicts \cup {m}
      BY <1>7 DEF SpawnError, Conclude
    <2>2. m.state = "lost"
      BY <1>7, <2>1, LostShape DEF SpawnError, TypeOK
    <2>3. Ended' = Ended
      BY <2>1, <2>2 DEF Ended, Settled
    <2> QED BY <1>7, <2>3 DEF Promise!vars, SpawnError, Conclude, tables, Asked, Recorded
  <1>8. ASSUME UNCHANGED <<state, exit_code, history>> PROVE UNCHANGED Promise!vars
    BY <1>8 DEF Promise!vars, history, Asked, Ended, Recorded
  <1> QED
    <2>1. CASE UNCHANGED vars
      BY <2>1, <1>8 DEF vars, tables
    <2>2. CASE Next
      <3>1. ASSUME NEW w \in Workers, ClaimNext(w) \/ LoseNext(w) \/ Work(w) \/ PushRunning(w) \/ Crash(w)
            PROVE  Promise!Next \/ UNCHANGED Promise!vars
        <4>1. job[w] \in Cmds \/ ~(Execute(w) \/ Finish(w))
          BY DEF Execute, Finish, TypeOK
        <4> QED BY <3>1, <4>1, <1>2, <1>3, <1>5, <1>7, <1>8
             DEF Promise!Next, ClaimNext, LoseNext, Work, PushRunning, Crash, StartJob, IgnoreDuplicate, GiveUp,
                 PushFinal, tables
      <3>2. ASSUME NEW m \in net, LoseChunk(m) PROVE UNCHANGED Promise!vars
        BY <3>2, <1>8 DEF LoseChunk, tables
      <3>3. CASE SurveyJobs \/ ControlReturns \/ Tick
        BY <3>3, <1>8 DEF SurveyJobs, ControlReturns, Tick, tables
      <3>4. CASE ClaimForNobody
        BY <3>4, <1>5 DEF ClaimForNobody
      <3> QED BY <2>2, <3>1, <3>2, <3>3, <3>4, <1>1, <1>4, <1>6 DEF Next, Promise!Next
    <2> QED BY <2>1, <2>2

(* The whole protocol implements CommandPromise. *)
THEOREM Refinement == Spec => KeepsPromise
  <1>1. Init => Promise!Init
    BY DEF Init, Promise!Init, Asked, Ended, Recorded, Settled
  <1>2. Spec => [][Promise!Next]_(Promise!vars)
    BY PromiseStep, Invariance, PTL DEF Spec
  <1> QED BY <1>1, <1>2, PTL DEF Spec, KeepsPromise, Promise!Spec
=============================================================================
