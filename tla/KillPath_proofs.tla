-------------------------- MODULE KillPath_proofs --------------------------
(***************************************************************************)
(* Proofs about KillPath, for any number of commands, workers, pids and    *)
(* stops, losses and crashes, with full disks and cancelled workflows.     *)
(*                                                                         *)
(* A verdict waits for the exit event, and while a worker has a command    *)
(* only a survey writes something else on its record (OwnerInv,            *)
(* ProcessInv); a stop leaves traces in lists, marker files and latched    *)
(* reasons, each of which goes back to a client's call or to the           *)
(* workflow's end, and in that case nothing is pushed (StopInv); and since *)
(* the workers die before the list of jobs is made, what is alive later    *)
(* and has a pid file is on it (EndInv).                                   *)
(***************************************************************************)
EXTENDS KillPath, SequenceTheorems, TLAPS

USE KillAssumption

Control_ == [at : {"parked", "next", "signal", "grace", "ending"}, todo : SUBSET Cmds,
             cmd : Cmds \cup {NoCmd}, pid : Pids \cup {NoPid}, sig : Signals, queue : Seq(Action)]

-----------------------------------------------------------------------------
\* The first state satisfies the invariant.
LEMMA InitIInv == Init => IInv
<1> SUFFICES ASSUME Init PROVE IInv
  OBVIOUS
<1> USE DEF Init, Idle, Rec, NoReason
<1>1. TypeOK
  <2>1. <<>> \in Seq(Action)
    BY EmptySeq
  <2> QED
    BY <2>1 DEF TypeOK, Record, Settled, Latched, Signals
<1>2. VerdictAfterDeath /\ UserReasonIsTrue
  BY DEF VerdictAfterDeath, UserReasonIsTrue
<1>3. OwnerInv /\ ProcessInv /\ EndInv /\ RecordInv
  BY DEF OwnerInv, ProcessInv, EndInv, RecordInv, Settled
<1>4. StopInv
  BY DEF StopInv, Told
<1> QED
  BY <1>1, <1>2, <1>3, <1>4 DEF IInv

-----------------------------------------------------------------------------
\* What a signal may change: processes die, and nothing else becomes of them.
LEMMA SignalFact ==
  ASSUME TypeOK, NEW p, NEW sig, Signal(p, sig)
  PROVE  /\ proc' \in [Cmds -> {"none", "alive", "ended", "dead"}] /\ UNCHANGED <<pid, spawner>>
         /\ \A c \in Cmds : proc'[c] = proc[c] \/ (proc[c] = "alive" /\ proc'[c] = "dead")
         /\ sig = "KILL" => \A c \in Cmds : proc'[c] = "alive" => pid[c] # p
BY DEF TypeOK, Signal, Holders

\* A worker that is up and not polling has a command.
LEMMA Busy == TypeOK => \A w \in Workers : pc[w] \in {"delivered", "starting", "running"} => job[w] \in Cmds
<1> SUFFICES ASSUME TypeOK, NEW w \in Workers, pc[w] \in {"delivered", "starting", "running"}
             PROVE  job[w] \in Cmds
  OBVIOUS
<1>1. job[w] \in Cmds \cup {NoCmd} /\ (job[w] = NoCmd <=> pc[w] \in {"polling", "gone", "dead"})
  BY DEF TypeOK
<1> QED
  BY <1>1

-----------------------------------------------------------------------------
\* What the merge keeps of the reason on record, and what of the one reported.
LEMMA PickFact ==
  ASSUME NEW old \in Reasons \cup {NoReason}, NEW new \in Latched
  PROVE  /\ PickKilledReason(old, new) \in {old, new}
         /\ old \in {NoReason, "spawn_gap"} => Blamed(PickKilledReason(old, new)) = new
         /\ PickKilledReason(old, NoReason) = old
<1>1. new \in {"enospc", "output_cap", "timeout", "inactivity", "user", NoReason}
  BY DEF Latched
<1>2. PickKilledReason(old, new) \in {old, new} /\ PickKilledReason(old, NoReason) = old
  BY DEF PickKilledReason, Reasons, NoReason
<1>3. ASSUME old \in {NoReason, "spawn_gap"} PROVE Blamed(PickKilledReason(old, new)) = new
  <2>1. CASE new = NoReason
    BY <1>2, <1>3, <2>1 DEF Blamed, NoReason
  <2>2. CASE new # NoReason
    <3>1. new \in Reasons /\ new # "spawn_gap"
      BY <1>1, <2>2 DEF Reasons
    <3>2. Priority[new] > Priority["spawn_gap"]
      BY <1>1, <2>2 DEF Priority, Reasons, NoReason
    <3>3. PickKilledReason(old, new) = new
      BY <1>3, <3>1, <3>2 DEF PickKilledReason, Reasons, NoReason
    <3> QED
      BY <3>1, <3>3 DEF Blamed
  <2> QED
    BY <2>1, <2>2
<1> QED
  BY <1>2, <1>3

\* What a worker's report makes of the records, with a warning or without.
Reports(c, s, r) == \E b \in BOOLEAN : Report(c, s, r, b)

LEMMA ReportFact ==
  ASSUME TypeOK, NEW c \in Cmds, NEW s \in {"running", "lost"} \cup Settled, NEW r \in Latched,
         record[c].state \notin Settled, Reports(c, s, r)
  PROVE  /\ record' \in [Cmds -> Record]
         /\ \A d \in Cmds : d # c => record'[d] = record[d]
         /\ stopping => record' = record
         /\ ~stopping => /\ record'[c].state = s
                         /\ record'[c].reason = PickKilledReason(record[c].reason, r)
<1>0. PICK b \in BOOLEAN : Report(c, s, r, b)
  BY DEF Reports
<1>1. record \in [Cmds -> Record] /\ record[c] \in Record
  BY DEF TypeOK
<1>2. record[c].state \in {"queued", "running", "lost"} \cup Settled /\ record[c].reason \in Reasons \cup {NoReason}
      /\ record[c].warned \in BOOLEAN
  BY <1>1 DEF Record
<1> DEFINE st   == IF record[c].state \in Settled THEN record[c].state ELSE s
           pick == PickKilledReason(record[c].reason, r)
           new  == Rec(st, pick, record[c].warned \/ b)
<1>3. pick \in Reasons \cup {NoReason}
  BY <1>2, PickFact DEF Latched, Reasons
<1>4. new \in Record /\ new.state = st /\ new.reason = pick
  <2> HIDE DEF pick
  <2>1. st \in {"queued", "running", "lost"} \cup Settled
    BY <1>2
  <2> HIDE DEF st
  <2> QED
    BY <1>2, <1>3, <2>1 DEF Rec, Record
<1>5. record' = IF stopping THEN record ELSE [record EXCEPT ![c] = new]
  BY <1>0 DEF Report
<1> HIDE DEF new
<1>6. ~stopping => record'[c] = new
  BY <1>1, <1>5
<1> QED
  BY <1>1, <1>4, <1>5, <1>6

\* A worker that has a command has it unsettled on record.
LEMMA PendingFact ==
  ASSUME IInv, NEW w \in Workers, job[w] \in Cmds
  PROVE  /\ record[job[w]].state \in {"running", "lost"} /\ record[job[w]].state \notin Settled
         /\ record[job[w]].reason \in {NoReason, "spawn_gap"}
         /\ record[job[w]].state = "lost" => record[job[w]].reason = "spawn_gap"
<1>1. <<record[job[w]].state, record[job[w]].reason>> \in Pending
  BY DEF IInv, OwnerInv
<1> QED
  BY <1>1 DEF Pending, Settled

\* How a command comes to be lost: nothing ran, or its worker gave it up.
LEMMA LostFact ==
  ASSUME IInv, NEW w \in Workers, FailCommand(w) \/ GiveUp(w)
  PROVE  /\ job[w] \in Cmds /\ pc[w] \in {"delivered", "starting", "running"}
         /\ record' \in [Cmds -> Record]
         /\ \A d \in Cmds : d # job[w] => record'[d] = record[d]
         /\ \/ record'[job[w]] = record[job[w]]
            \/ record'[job[w]].state = "lost" /\ record'[job[w]].reason \in {record[job[w]].reason, "enospc", NoReason}
         /\ \E to \in {"gone", "polling"} : pc' = [pc EXCEPT ![w] = to]
         /\ job' = [job EXCEPT ![w] = NoCmd] /\ over' = [over EXCEPT ![w] = {}]
         /\ enospc' \in [Workers -> BOOLEAN]
         /\ UNCHANGED <<actions, files, control, process, loop, stopping, asked>>
<1>1. TypeOK /\ job[w] \in Cmds /\ pc[w] \in {"delivered", "starting", "running"}
  BY Busy DEF IInv, FailCommand, GiveUp
<1>2. PICK r \in {"enospc", NoReason} : Reports(job[w], "lost", r)
  BY DEF FailCommand, GiveUp, Excuse, Reports
<1>3. r \in Latched /\ record[job[w]] \in Record
  BY <1>1 DEF Latched, TypeOK
<1>4. record[job[w]].state \notin Settled /\ record[job[w]].reason \in Reasons \cup {NoReason}
  BY <1>1, <1>3, PendingFact DEF Record
<1>5. /\ record' \in [Cmds -> Record] /\ \A d \in Cmds : d # job[w] => record'[d] = record[d]
      /\ stopping => record' = record
      /\ ~stopping => /\ record'[job[w]].state = "lost"
                      /\ record'[job[w]].reason = PickKilledReason(record[job[w]].reason, r)
  BY <1>1, <1>2, <1>3, <1>4, ReportFact
<1>6. PickKilledReason(record[job[w]].reason, r) \in {record[job[w]].reason, r}
  BY <1>3, <1>4, PickFact
<1>7. LetGo(w) /\ enospc' \in [Workers -> BOOLEAN] /\ UNCHANGED <<actions, files, control, process, loop, stopping, asked>>
  BY <1>1 DEF FailCommand, GiveUp, WriteFails, TypeOK
<1> QED
  BY <1>1, <1>5, <1>6, <1>7 DEF LetGo, Go

\* A flush takes back what a survey put on record, and leaves the reason.
LEMMA FlushFact ==
  ASSUME IInv, NEW w \in Workers, Flush(w)
  PROVE  /\ job[w] \in Cmds /\ record' \in [Cmds -> Record]
         /\ \A d \in Cmds : d # job[w] => record'[d] = record[d]
         /\ record'[job[w]].reason = record[job[w]].reason
         /\ record'[job[w]].state \in {record[job[w]].state, "running"}
         /\ UNCHANGED <<actions, files, control, workers, process, loop, stopping, history>>
<1>1. TypeOK /\ job[w] \in Cmds /\ Reports(job[w], "running", NoReason)
  BY Busy DEF IInv, Flush, Reports
<1>2. NoReason \in Latched /\ record[job[w]] \in Record
  BY <1>1 DEF Latched, TypeOK
<1>3. record[job[w]].state \notin Settled /\ record[job[w]].reason \in Reasons \cup {NoReason}
  BY <1>1, <1>2, PendingFact DEF Record
<1>4. PickKilledReason(record[job[w]].reason, NoReason) = record[job[w]].reason
  BY <1>2, <1>3, PickFact
<1>5. /\ record' \in [Cmds -> Record] /\ \A d \in Cmds : d # job[w] => record'[d] = record[d]
      /\ stopping => record' = record
      /\ ~stopping => /\ record'[job[w]].state = "running"
                      /\ record'[job[w]].reason = PickKilledReason(record[job[w]].reason, NoReason)
  BY <1>1, <1>2, <1>3, ReportFact
<1> QED
  BY <1>1, <1>4, <1>5 DEF Flush

\* How a worker with a command comes to a verdict.
LEMMA ConcludeFact ==
  ASSUME IInv, NEW w \in Workers, RcSeen(w) \/ RcGrace(w)
  PROVE  /\ job[w] \in Cmds /\ pc[w] = "running" /\ exited[job[w]] /\ proc[job[w]] \in {"ended", "dead"}
         /\ record[job[w]].state \in {"running", "lost"}
         /\ record' \in [Cmds -> Record]
         /\ \A d \in Cmds : d # job[w] => record'[d] = record[d]
         /\ stopping => record' = record
         /\ ~stopping => /\ record'[job[w]].state \in Settled
                         /\ record'[job[w]].reason \in {record[job[w]].reason, killedReason[job[w]]}
                         /\ Ending(job[w]) = <<job[w], record'[job[w]].state, Blamed(record'[job[w]].reason)>>
         /\ \E to \in {"gone", "polling"} : pc' = [pc EXCEPT ![w] = to]
         /\ job' = [job EXCEPT ![w] = NoCmd] /\ over' = [over EXCEPT ![w] = {}]
         /\ UNCHANGED <<actions, files, control, enospc, process, loop, stopping, history>>
<1> DEFINE c == job[w]
           s == IF killedReason[c] # NoReason \/ proc[c] = "dead" THEN "killed" ELSE "exited"
<1>1. TypeOK /\ c \in Cmds /\ pc[w] = "running" /\ exited[c] /\ Conclude(w)
  BY Busy DEF RcSeen, RcGrace, IInv
<1>2. proc[c] \in {"ended", "dead"}
  BY <1>1 DEF IInv, ProcessInv
<1>3. /\ killedReason[c] \in Latched /\ record[c] \in Record /\ s \in Settled
      /\ (enospc[w] /\ killedReason[c] # "enospc") \in BOOLEAN
  BY <1>1 DEF TypeOK, Settled
<1>4. Report(c, s, killedReason[c], enospc[w] /\ killedReason[c] # "enospc")
  BY <1>1 DEF Conclude
<1>5. /\ record[c].state \in {"running", "lost"} /\ record[c].state \notin Settled
      /\ record[c].reason \in {NoReason, "spawn_gap"} /\ record[c].reason \in Reasons \cup {NoReason}
  BY <1>1, <1>3, PendingFact DEF Record
<1>6. Ending(c) = <<c, s, killedReason[c]>>
  BY <1>2 DEF Ending
<1>7. /\ LetGo(w) /\ UNCHANGED <<actions, files, control, enospc, process, loop, stopping, history>>
  BY <1>1 DEF Conclude
<1> HIDE DEF c, s
<1>8. /\ record' \in [Cmds -> Record] /\ \A d \in Cmds : d # c => record'[d] = record[d]
      /\ stopping => record' = record
      /\ ~stopping => record'[c].state = s /\ record'[c].reason = PickKilledReason(record[c].reason, killedReason[c])
  <2>1. s \in {"running", "lost"} \cup Settled
    BY <1>3
  <2>2. Reports(c, s, killedReason[c])
    BY <1>3, <1>4 DEF Reports
  <2> QED
    BY <1>1, <1>3, <1>5, <2>1, <2>2, ReportFact
<1>9. /\ PickKilledReason(record[c].reason, killedReason[c]) \in {record[c].reason, killedReason[c]}
      /\ Blamed(PickKilledReason(record[c].reason, killedReason[c])) = killedReason[c]
  BY <1>3, <1>5, PickFact
<1>10. ~stopping => Ending(c) = <<c, record'[c].state, Blamed(record'[c].reason)>>
  BY <1>6, <1>8, <1>9
<1>11. /\ \E to \in {"gone", "polling"} : pc' = [pc EXCEPT ![w] = to]
       /\ job' = [job EXCEPT ![w] = NoCmd] /\ over' = [over EXCEPT ![w] = {}]
  BY <1>7 DEF LetGo, Go
<1> QED
  BY <1>1, <1>2, <1>3, <1>5, <1>7, <1>8, <1>9, <1>10, <1>11 DEF c

\* What a survey puts on record: jobs it takes for never started are lost.
LEMMA GapFact ==
  ASSUME IInv, ControlPoll
  PROVE  /\ record' \in [Cmds -> Record]
         /\ \A c \in Cmds : \/ record'[c] = record[c]
                            \/ /\ record[c].state = "running" /\ record'[c].state = "lost"
                               /\ record'[c].reason = IF record[c].reason = NoReason THEN "spawn_gap" ELSE record[c].reason
         /\ UNCHANGED <<files, workers, process, loop, stopping, history>>
<1>1. /\ record' = [c \in Cmds |-> IF c \in survey THEN Gap(record[c]) ELSE record[c]]
      /\ UNCHANGED <<files, workers, process, loop, stopping, history>>
  BY DEF ControlPoll
<1>2. SUFFICES ASSUME NEW c \in Cmds
               PROVE  /\ record'[c] \in Record
                      /\ \/ record'[c] = record[c]
                         \/ /\ record[c].state = "running" /\ record'[c].state = "lost"
                            /\ record'[c].reason = IF record[c].reason = NoReason THEN "spawn_gap" ELSE record[c].reason
  BY <1>1
<1>3. record[c] \in Record /\ (c \in survey => record[c].state # "queued")
  BY DEF IInv, TypeOK, OwnerInv
<1>4. CASE c \in survey /\ record[c].state = "running"
  BY <1>1, <1>3, <1>4 DEF Gap, Rec, Record, Reasons
<1>5. CASE ~(c \in survey /\ record[c].state = "running")
  BY <1>1, <1>3, <1>5 DEF Gap
<1> QED
  BY <1>4, <1>5

\* Who writes a record.
LEMMA WhoRecords ==
  ASSUME [Next]_vars
  PROVE  \/ \E w \in Workers : \/ FailCommand(w) \/ GiveUp(w) \/ Flush(w) \/ RcSeen(w) \/ RcGrace(w)
                               \/ \E c \in Cmds : ClaimNext(w, c)
         \/ ControlPoll
         \/ record' = record
BY DEF Next, vars, broker, EndItself, DieOfTerm, Exceed, Resume, KillCommand, LoseActions, Cancel, Control,
       Survey, NextAction, MarkJob, SignalJob, KillJob, KillAllJobs, ControlEnds, Work, StartJob, Spawn,
       ProbeFails, ExitEvent, Look, LoopTerm, LoopKill, Crash

-----------------------------------------------------------------------------
\* The types are kept.
LEMMA TypeStep == IInv /\ [Next]_vars => TypeOK'
<1> SUFFICES ASSUME IInv, [Next]_vars PROVE TypeOK'
  OBVIOUS
<1>0. TypeOK
  BY DEF IInv
<1> USE DEF TypeOK, broker, files, workers, control, process, loop, history
<1>1. ASSUME NEW c \in Cmds, EndItself(c) \/ DieOfTerm(c) PROVE TypeOK'
  BY <1>0, <1>1 DEF EndItself, DieOfTerm
<1>2. ASSUME NEW w \in Workers, Resume(w) \/ \E l \in Limits : Exceed(w, l) PROVE TypeOK'
  <2>1. PICK set \in SUBSET Limits : over' = [over EXCEPT ![w] = set]
    BY <1>0, <1>2 DEF Exceed, Resume
  <2>2. over' \in [Workers -> SUBSET Limits]
    BY <1>0, <2>1
  <2> QED
    BY <1>0, <1>2, <2>2 DEF Exceed, Resume
<1>3. ASSUME Survey PROVE TypeOK'
  BY <1>0, <1>3 DEF Survey, ListJobIds
<1>4. ASSUME NEW jobs \in SUBSET Cmds, NEW all \in BOOLEAN, NEW sig \in Signals, KillCommand(jobs, all, sig)
      PROVE  TypeOK'
  <2>1. [jobs |-> jobs, all |-> all, sig |-> sig] \in Action
    BY DEF Action
  <2>2. actions' \in Seq(Action)
    BY <1>0, <1>4, <2>1, AppendProperties DEF KillCommand
  <2> QED
    BY <1>0, <1>4, <2>2 DEF KillCommand
<1>5. ASSUME LoseActions PROVE TypeOK'
  BY <1>0, <1>5, EmptySeq DEF LoseActions
<1>6. ASSUME Cancel PROVE TypeOK'
  BY <1>0, <1>6 DEF Cancel
<1>7. ASSUME ControlPoll PROVE TypeOK'
  <2>1. record' \in [Cmds -> Record] /\ UNCHANGED <<files, workers, process, loop, stopping, history>>
    BY <1>7, GapFact
  <2>2. \/ UNCHANGED <<actions, ctl, survey>>
        \/ actions' = <<>> /\ survey' = {} /\ ctl' = [ctl EXCEPT !.at = "next", !.queue = actions]
    BY <1>7 DEF ControlPoll
  <2>3. actions' \in Seq(Action) /\ survey' \subseteq Cmds
    <3>1. actions \in Seq(Action) /\ survey \subseteq Cmds /\ <<>> \in Seq(Action)
      BY <1>0, EmptySeq
    <3> HIDE DEF TypeOK
    <3> QED
      BY <2>2, <3>1
  <2>4. ctl' \in Control_
    <3>1. ctl \in Control_ /\ actions \in Seq(Action)
      BY <1>0 DEF Control_
    <3> QED
      BY <2>2, <3>1 DEF Control_
  <2> QED
    BY <1>0, <2>1, <2>3, <2>4 DEF Control_
<1>8. ASSUME NextAction PROVE TypeOK'
  <2>1. CASE ctl.queue = <<>>
    <3>1. ctl' = Idle /\ Idle.queue \in Seq(Action)
      BY <1>8, <2>1, EmptySeq DEF NextAction, Idle
    <3> QED
      BY <1>0, <1>8, <3>1 DEF NextAction, Idle, Signals
  <2>2. CASE ctl.queue # <<>>
    <3>1. Head(ctl.queue) \in Action /\ Tail(ctl.queue) \in Seq(Action)
      BY <1>0, <2>2, HeadTailProperties
    <3>2. ctl' = [ctl EXCEPT !.queue = Tail(ctl.queue), !.sig = Head(ctl.queue).sig,
                             !.todo = IF Head(ctl.queue).all THEN ListJobIds ELSE Head(ctl.queue).jobs]
      BY <1>8, <2>2 DEF NextAction
    <3> QED
      BY <1>0, <1>8, <3>1, <3>2 DEF NextAction, Action, ListJobIds
  <2> QED
    BY <2>1, <2>2
<1>9. ASSUME NEW c \in Cmds, MarkJob(c) PROVE TypeOK'
  <2>1. pidFile[c] # NoPid => pidFile[c] \in Pids
    BY <1>0
  <2>2. \/ ctl' = [ctl EXCEPT !.todo = ctl.todo \ {c}]
        \/ ctl' = [ctl EXCEPT !.todo = ctl.todo \ {c}, !.at = "signal", !.cmd = c, !.pid = pidFile[c]]
    BY <1>9 DEF MarkJob
  <2>3. ctl' \in Control_
    <3>1. ctl \in Control_ /\ ctl.todo \ {c} \in SUBSET Cmds /\ pidFile[c] \in Pids \cup {NoPid}
      BY <1>0 DEF Control_
    <3>2. CASE ctl' = [ctl EXCEPT !.todo = ctl.todo \ {c}]
      BY <3>1, <3>2 DEF Control_
    <3>3. CASE ctl' = [ctl EXCEPT !.todo = ctl.todo \ {c}, !.at = "signal", !.cmd = c, !.pid = pidFile[c]]
      BY <3>1, <3>3 DEF Control_
    <3> QED
      BY <2>2, <3>2, <3>3
  <2>4. marker' \in [Cmds -> BOOLEAN]
    BY <1>0, <1>9 DEF MarkJob
  <2> QED
    BY <1>0, <1>9, <2>3, <2>4 DEF MarkJob, Control_
<1>10. ASSUME SignalJob \/ KillJob PROVE TypeOK'
  <2>1. proc' \in [Cmds -> {"none", "alive", "ended", "dead"}] /\ UNCHANGED <<pid, spawner>>
    BY <1>0, <1>10, SignalFact DEF SignalJob, KillJob
  <2>2. ctl' \in Control_
    <3>1. \E to \in {"grace", "next"} : ctl' = [ctl EXCEPT !.at = to]
      BY <1>10 DEF SignalJob, KillJob
    <3>2. ctl \in Control_
      BY <1>0 DEF Control_
    <3> QED
      BY <3>1, <3>2 DEF Control_
  <2>3. /\ UNCHANGED <<record, actions, dir, pidFile, marker, survey, pc, job, enospc, over>>
        /\ UNCHANGED <<exited, killedReason, escalate, stopping, asked>>
    BY <1>10 DEF SignalJob, KillJob
  <2> QED
    BY <1>0, <2>1, <2>2, <2>3 DEF Control_
<1>11. ASSUME NEW c \in Cmds, KillAllJobs(c) PROVE TypeOK'
  <2>1. proc' \in [Cmds -> {"none", "alive", "ended", "dead"}] /\ UNCHANGED <<pid, spawner>>
    BY <1>0, <1>11, SignalFact DEF KillAllJobs
  <2> QED
    BY <1>0, <1>11, <2>1 DEF KillAllJobs
<1>12. ASSUME ControlEnds PROVE TypeOK'
  <2>1. ctl' = [Idle EXCEPT !.at = "ending", !.todo = ListJobIds] /\ <<>> \in Seq(Action)
    BY <1>12, EmptySeq DEF ControlEnds
  <2> QED
    <3>1. ctl' \in [at : {"parked", "next", "signal", "grace", "ending"}, todo : SUBSET Cmds,
                    cmd : Cmds \cup {NoCmd}, pid : Pids \cup {NoPid}, sig : Signals, queue : Seq(Action)]
      BY <2>1 DEF Idle, ListJobIds, Signals
    <3>2. /\ pc' \in [Workers -> {"polling", "delivered", "starting", "running", "gone", "dead"}]
          /\ job' \in [Workers -> Cmds \cup {NoCmd}]
          /\ \A w \in Workers : job'[w] = NoCmd /\ pc'[w] = "dead"
          /\ over' \in [Workers -> SUBSET Limits] /\ survey' = {}
      BY <1>12 DEF ControlEnds
    <3> QED
      BY <1>0, <1>12, <3>1, <3>2 DEF ControlEnds
<1>13. ASSUME NEW w \in Workers, NEW c \in Cmds, ClaimNext(w, c) PROVE TypeOK'
  <2>1. record' \in [Cmds -> Record]
    <3>1. [record[c] EXCEPT !.state = "running"] \in Record
      <4>1. record[c] \in Record
        BY <1>0
      <4> QED
        BY <4>1 DEF Record
    <3>2. record' = [record EXCEPT ![c] = [record[c] EXCEPT !.state = "running"]]
      BY <1>13 DEF ClaimNext
    <3> QED
      BY <1>0, <3>1, <3>2
  <2> QED
    BY <1>0, <1>13, <2>1 DEF ClaimNext, Go
<1>14. ASSUME NEW w \in Workers, StartJob(w) PROVE TypeOK'
  BY <1>0, <1>14 DEF StartJob, Go
<1>15. ASSUME NEW w \in Workers, Spawn(w) PROVE TypeOK'
  <2>1. job[w] \in Cmds
    BY <1>0, <1>15, Busy DEF Spawn
  <2>2. PICK p \in Pids : /\ pid' = [pid EXCEPT ![job[w]] = p]
                          /\ pidFile' \in {pidFile, [pidFile EXCEPT ![job[w]] = p]}
    BY <1>15 DEF Spawn
  <2>3. pid' \in [Cmds -> Pids \cup {NoPid}] /\ pidFile' \in [Cmds -> Pids \cup {NoPid}]
    BY <1>0, <2>1, <2>2
  <2>4. enospc' \in [Workers -> BOOLEAN]
    BY <1>0, <1>15 DEF Spawn, WriteFails
  <2>5. /\ proc' \in [Cmds -> {"none", "alive", "ended", "dead"}]
        /\ pc' = [pc EXCEPT ![w] = "running"] /\ job' = [job EXCEPT ![w] = job[w]]
        /\ pc[w] = "starting"
    BY <1>0, <1>15 DEF Spawn, Go
  <2>6. spawner' \in [Cmds -> SUBSET Workers] /\ over' \in [Workers -> SUBSET Limits]
    BY <1>0, <1>15, <2>1 DEF Spawn, Go
  <2>7. UNCHANGED <<record, actions, dir, marker, ctl, survey, exited, killedReason, escalate, stopping, asked>>
    BY <1>15 DEF Spawn
  <2> QED
    BY <1>0, <2>1, <2>3, <2>4, <2>5, <2>6, <2>7
\* A worker lets go of its command.
<1>16. ASSUME NEW w \in Workers, NEW to \in {"gone", "polling"}, record' \in [Cmds -> Record],
              pc' = [pc EXCEPT ![w] = to], job' = [job EXCEPT ![w] = NoCmd], over' = [over EXCEPT ![w] = {}],
              enospc' \in [Workers -> BOOLEAN], UNCHANGED <<actions, files, control, process, loop, stopping, asked>>
       PROVE  TypeOK'
  <2>1. /\ pc' \in [Workers -> {"polling", "delivered", "starting", "running", "gone", "dead"}]
        /\ job' \in [Workers -> Cmds \cup {NoCmd}] /\ over' \in [Workers -> SUBSET Limits]
        /\ \A v \in Workers : job'[v] = NoCmd <=> pc'[v] \in {"polling", "gone", "dead"}
    BY <1>0, <1>16
  <2> QED
    BY <1>0, <1>16, <2>1
<1>17. ASSUME NEW w \in Workers, FailCommand(w) \/ GiveUp(w) \/ RcSeen(w) \/ RcGrace(w) PROVE TypeOK'
  <2>1. CASE FailCommand(w) \/ GiveUp(w)
    <3> HIDE DEF TypeOK, broker, files, workers, control, process, loop, history
    <3> QED
      BY <1>16, <2>1, LostFact
  <2>2. CASE RcSeen(w) \/ RcGrace(w)
    <3>1. enospc \in [Workers -> BOOLEAN] /\ (UNCHANGED history => asked' = asked)
      BY <1>0
    <3> HIDE DEF TypeOK, broker, files, workers, control, process, loop, history
    <3> QED
      BY <1>16, <2>2, <3>1, ConcludeFact
  <2> QED
    BY <1>17, <2>1, <2>2
<1>18. ASSUME NEW w \in Workers, Flush(w) PROVE TypeOK'
  BY <1>0, <1>18, FlushFact
<1>19. ASSUME NEW w \in Workers, ProbeFails(w) PROVE TypeOK'
  BY <1>0, <1>19 DEF ProbeFails, WriteFails
<1>20. ASSUME NEW w \in Workers, NEW c \in Cmds, ExitEvent(w, c) PROVE TypeOK'
  BY <1>0, <1>20 DEF ExitEvent
<1>21. ASSUME NEW w \in Workers, Look(w) PROVE TypeOK'
  <2>1. Found(w, job[w]) \in Latched
    BY <1>0 DEF Found, Latched
  <2> QED
    BY <1>0, <1>21, <2>1 DEF Look
<1>22. ASSUME NEW w \in Workers, NEW c \in Cmds, LoopTerm(w, c) \/ LoopKill(w, c) PROVE TypeOK'
  <2>1. proc' \in [Cmds -> {"none", "alive", "ended", "dead"}] /\ UNCHANGED <<pid, spawner>>
    BY <1>0, <1>22, SignalFact DEF LoopTerm, LoopKill
  <2>2. /\ UNCHANGED <<record, actions, dir, pidFile, marker, ctl, survey, pc, job, enospc, over, exited, killedReason>>
        /\ UNCHANGED <<stopping, asked>>
        /\ \E e \in {"grace", "done"} : escalate' = [escalate EXCEPT ![c] = e]
    BY <1>22 DEF LoopTerm, LoopKill
  <2>3. escalate' \in [Cmds -> {"no", "start", "grace", "done"}]
    BY <1>0, <2>2
  <2> QED
    BY <1>0, <2>1, <2>2, <2>3
<1>23. ASSUME NEW w \in Workers, Crash(w) PROVE TypeOK'
  BY <1>0, <1>23 DEF Crash, Go
<1>24. CASE UNCHANGED vars
  BY <1>0, <1>24 DEF vars
<1>25. {} \in SUBSET Cmds /\ \A c \in Cmds : {c} \in SUBSET Cmds
  OBVIOUS
<1> HIDE DEF TypeOK
<1> QED
  BY <1>1, <1>2, <1>3, <1>4, <1>5, <1>6, <1>7, <1>8, <1>9, <1>10, <1>11, <1>12, <1>13, <1>14, <1>15, <1>17,
     <1>18, <1>19, <1>20, <1>21, <1>22, <1>23, <1>24, <1>25 DEF Next, Control, Work

-----------------------------------------------------------------------------
\* What becomes of processes: only a spawn makes one, and it stays over.
LEMMA ProcStep ==
  ASSUME IInv, [Next]_vars
  PROVE  \/ \E w \in Workers : Spawn(w)
         \/ \A c \in Cmds : \/ proc'[c] = proc[c]
                            \/ proc[c] = "alive" /\ proc'[c] \in {"ended", "dead"}
<1>0. TypeOK
  BY DEF IInv
<1>1. ASSUME NEW c \in Cmds, EndItself(c) \/ DieOfTerm(c)
      PROVE  \A d \in Cmds : proc'[d] = proc[d] \/ (proc[d] = "alive" /\ proc'[d] \in {"ended", "dead"})
  BY <1>0, <1>1 DEF EndItself, DieOfTerm, TypeOK
<1>2. ASSUME NEW p, NEW sig, Signal(p, sig)
      PROVE  \A d \in Cmds : proc'[d] = proc[d] \/ (proc[d] = "alive" /\ proc'[d] \in {"ended", "dead"})
  BY <1>0, <1>2, SignalFact
<1>3. (\E p, sig : Signal(p, sig))
         \/ (\E c \in Cmds : EndItself(c) \/ DieOfTerm(c)) \/ (\E w \in Workers : Spawn(w)) \/ proc' = proc
  BY DEF Next, vars, process, Exceed, Resume, KillCommand, LoseActions, Cancel, Control, Survey, ControlPoll,
         NextAction, MarkJob, SignalJob, KillJob, KillAllJobs, ControlEnds, ClaimNext, Work, StartJob,
         FailCommand, GiveUp, Flush, ProbeFails, ExitEvent, Look, LoopTerm, LoopKill, RcSeen, RcGrace, Conclude,
         Crash
<1> QED
  BY <1>1, <1>2, <1>3

\* Starting a process.
LEMMA SpawnFact ==
  ASSUME IInv, NEW w \in Workers, Spawn(w)
  PROVE  /\ pc[w] = "starting" /\ job[w] \in Cmds /\ proc[job[w]] = "none" /\ record[job[w]].state \in {"running", "lost"}
         /\ record[job[w]].state = "lost" => record[job[w]].reason = "spawn_gap"
         /\ dir[job[w]]
         /\ proc' = [proc EXCEPT ![job[w]] = "alive"] /\ pc' = [pc EXCEPT ![w] = "running"]
         /\ \A v \in Workers : job'[v] = job[v]
         /\ \E p \in Pids : /\ pid' = [pid EXCEPT ![job[w]] = p]
                            /\ pidFile' \in {pidFile, [pidFile EXCEPT ![job[w]] = p]}
         /\ UNCHANGED <<record, actions, dir, marker, control, exited, killedReason, stopping, asked>>
<1>1. TypeOK /\ OwnerInv /\ pc[w] = "starting" /\ job[w] \in Cmds
  BY Busy DEF IInv, Spawn
<1>2. proc[job[w]] = "none" /\ dir[job[w]]
  BY <1>1 DEF OwnerInv
<1>3. \A v \in Workers : job'[v] = job[v]
  BY <1>1 DEF Spawn, Go, TypeOK
<1>4. \E p \in Pids : /\ pid' = [pid EXCEPT ![job[w]] = p]
                      /\ pidFile' \in {pidFile, [pidFile EXCEPT ![job[w]] = p]}
  BY DEF Spawn
<1>5. /\ proc' = [proc EXCEPT ![job[w]] = "alive"] /\ pc' = [pc EXCEPT ![w] = "running"]
      /\ UNCHANGED <<record, actions, dir, marker, control, exited, killedReason, stopping, asked>>
  BY DEF Spawn, Go, broker, loop
<1> QED
  BY <1>1, <1>2, <1>3, <1>4, <1>5, PendingFact

\* A command has one worker, and until the verdict only a survey meddles.
LEMMA OwnerStep == IInv /\ [Next]_vars => OwnerInv'
<1> SUFFICES ASSUME IInv, [Next]_vars PROVE OwnerInv'
  OBVIOUS
<1>0. /\ OwnerInv /\ NoCmd \notin Cmds
      /\ job \in [Workers -> Cmds \cup {NoCmd}]
      /\ pc \in [Workers -> {"polling", "delivered", "starting", "running", "gone", "dead"}]
      /\ \A w \in Workers : job[w] = NoCmd <=> pc[w] \in {"polling", "gone", "dead"}
      /\ record \in [Cmds -> Record] /\ dir \in [Cmds -> BOOLEAN]
      /\ proc \in [Cmds -> {"none", "alive", "ended", "dead"}] /\ survey \subseteq Cmds
  BY DEF IInv, TypeOK
<1>1. ASSUME NEW w \in Workers, NEW c \in Cmds, ClaimNext(w, c) PROVE OwnerInv'
  <2>1. /\ record[c].state = "queued" /\ record[c].reason = NoReason /\ proc[c] = "none"
        /\ \A v \in Workers : job[v] # c
        /\ record[c] \in Record
    BY <1>0, <1>1 DEF ClaimNext, OwnerInv, Pending
  <2>2. /\ \A d \in Cmds : record'[d] = IF d = c THEN [record[c] EXCEPT !.state = "running"] ELSE record[d]
        /\ pc' = [pc EXCEPT ![w] = "delivered"] /\ job' = [job EXCEPT ![w] = c]
        /\ UNCHANGED <<dir, proc, survey>>
    BY <1>0, <1>1 DEF ClaimNext, Go, files, process, control
  <2>3. record'[c].state = "running" /\ record'[c].reason = NoReason
    BY <2>1, <2>2 DEF Record
  <2>4. <<record'[c].state, record'[c].reason>> \in Pending
    BY <2>3 DEF Pending
  <2> QED
    BY <1>0, <2>1, <2>2, <2>3, <2>4 DEF OwnerInv
<1>2. ASSUME NEW w \in Workers, StartJob(w) PROVE OwnerInv'
  <2>1. /\ pc[w] = "delivered" /\ pc' = [pc EXCEPT ![w] = "starting"] /\ job' = [job EXCEPT ![w] = job[w]]
        /\ dir' = [dir EXCEPT ![job[w]] = TRUE] /\ UNCHANGED <<record, proc, survey>>
    BY <1>2 DEF StartJob, Go, broker, process, control
  <2>2. job' = job /\ job[w] \in Cmds
    BY <1>0, <2>1
  <2>3. \A c \in Cmds : dir'[c] = (dir[c] \/ c = job[w])
    BY <1>0, <2>1, <2>2
  <2>4. record[job[w]].state # "queued"
    BY <2>2, PendingFact
  <2> QED
    BY <1>0, <2>1, <2>2, <2>3, <2>4 DEF OwnerInv
<1>3. ASSUME NEW w \in Workers, Spawn(w) PROVE OwnerInv'
  <2>1. /\ pc[w] = "starting" /\ job[w] \in Cmds /\ record[job[w]].state # "queued"
        /\ proc' = [proc EXCEPT ![job[w]] = "alive"] /\ pc' = [pc EXCEPT ![w] = "running"]
        /\ \A v \in Workers : job'[v] = job[v]
        /\ UNCHANGED <<record, dir, survey>>
    BY <1>3, SpawnFact DEF control
  <2> QED
    BY <1>0, <2>1 DEF OwnerInv
<1>4. ASSUME NEW w \in Workers, FailCommand(w) \/ GiveUp(w) \/ RcSeen(w) \/ RcGrace(w) PROVE OwnerInv'
  <2>1. /\ job[w] \in Cmds /\ \A d \in Cmds : d # job[w] => record'[d] = record[d]
        /\ record'[job[w]] = record[job[w]] \/ record'[job[w]].state \in {"lost"} \cup Settled
        /\ \E to \in {"gone", "polling"} : pc' = [pc EXCEPT ![w] = to]
        /\ job' = [job EXCEPT ![w] = NoCmd] /\ UNCHANGED <<dir, proc, survey>>
    <3>1. CASE FailCommand(w) \/ GiveUp(w)
      BY <3>1, LostFact DEF files, process, control
    <3>2. CASE RcSeen(w) \/ RcGrace(w)
      BY <3>2, ConcludeFact DEF files, process, control
    <3> QED
      BY <1>4, <3>1, <3>2
  <2>2. record'[job[w]].state # "queued"
    BY <2>1, PendingFact DEF Settled
  <2>3. \A v \in Workers \ {w} : job[v] = NoCmd \/ job[v] # job[w]
    BY <1>0 DEF OwnerInv
  <2> QED
    BY <1>0, <2>1, <2>2, <2>3 DEF OwnerInv
<1>5. ASSUME NEW w \in Workers, Flush(w) PROVE OwnerInv'
  <2>1. /\ job[w] \in Cmds /\ record'[job[w]].reason = record[job[w]].reason
        /\ record'[job[w]].state \in {record[job[w]].state, "running"}
        /\ \A d \in Cmds : d # job[w] => record'[d] = record[d]
        /\ UNCHANGED <<dir, proc, pc, job, survey>>
    BY <1>5, FlushFact DEF files, process, control, workers
  <2>2. /\ <<record[job[w]].state, record[job[w]].reason>> \in Pending
        /\ record[job[w]].state # "queued"
    BY <1>0, <2>1, PendingFact DEF OwnerInv
  <2>3. <<record'[job[w]].state, record'[job[w]].reason>> \in Pending /\ record'[job[w]].state # "queued"
    BY <2>1, <2>2 DEF Pending
  <2> QED
    BY <1>0, <2>1, <2>2, <2>3 DEF OwnerInv
<1>6. ASSUME ControlPoll PROVE OwnerInv'
  <2>1. /\ \A c \in Cmds :
             \/ record'[c] = record[c]
             \/ /\ record[c].state = "running" /\ record'[c].state = "lost"
                /\ record'[c].reason = IF record[c].reason = NoReason THEN "spawn_gap" ELSE record[c].reason
        /\ UNCHANGED <<dir, proc, pc, job>> /\ survey' \in {survey, {}}
    BY <1>6, GapFact DEF files, process, workers, control, ControlPoll
  <2>2. \A c \in Cmds : <<record[c].state, record[c].reason>> \in Pending
                          => <<record'[c].state, record'[c].reason>> \in Pending
    BY <2>1 DEF Pending, NoReason
  <2>3. \A c \in Cmds : record'[c].state = "queued" => record'[c] = record[c]
    BY <2>1
  <2>4. \A w \in Workers : job'[w] # NoCmd => <<record'[job'[w]].state, record'[job'[w]].reason>> \in Pending
    <3>1. SUFFICES ASSUME NEW w \in Workers, job[w] # NoCmd
                   PROVE  <<record'[job[w]].state, record'[job[w]].reason>> \in Pending
      BY <2>1
    <3>2. job[w] \in Cmds /\ <<record[job[w]].state, record[job[w]].reason>> \in Pending
      BY <1>0, <3>1 DEF OwnerInv
    <3> QED
      BY <2>2, <3>2
  <2>5. /\ \A c \in Cmds : record'[c].state = "queued" => proc'[c] = "none" /\ ~dir'[c] /\ record'[c].reason = NoReason
        /\ \A c \in survey' : dir'[c]
    BY <1>0, <2>1, <2>3 DEF OwnerInv
  <2>6. /\ \A v, w \in Workers : job'[v] = job'[w] /\ job'[v] # NoCmd => v = w
        /\ \A w \in Workers : pc'[w] \in {"delivered", "starting"} => proc'[job'[w]] = "none"
        /\ \A w \in Workers : pc'[w] \in {"starting", "running"} => dir'[job'[w]]
    BY <1>0, <2>1 DEF OwnerInv
  <2> QED
    BY <2>4, <2>5, <2>6 DEF OwnerInv
<1>7. ASSUME ControlEnds \/ \E w \in Workers : Crash(w) PROVE OwnerInv'
  <2>1. /\ UNCHANGED <<record, dir, proc>> /\ survey' \in {survey, {}}
        /\ \A v \in Workers : \/ job'[v] = job[v] /\ pc'[v] = pc[v]
                              \/ job'[v] = NoCmd /\ pc'[v] = "dead"
    BY <1>0, <1>7 DEF ControlEnds, Crash, Go, broker, files, process, control
  <2> QED
    BY <1>0, <2>1 DEF OwnerInv
<1>8. ASSUME Survey PROVE OwnerInv'
  <2>1. UNCHANGED <<record, dir, proc, pc, job>> /\ survey' \subseteq ListJobIds
    BY <1>8 DEF Survey, broker, files, process, workers
  <2> QED
    BY <1>0, <2>1 DEF OwnerInv, ListJobIds
<1>9. CASE UNCHANGED <<record, dir, pc, job, survey>> /\ ~\E w \in Workers : Spawn(w)
  BY <1>0, <1>9, ProcStep DEF OwnerInv
<1>10. \/ \E w \in Workers : \/ StartJob(w) \/ Spawn(w) \/ FailCommand(w) \/ GiveUp(w) \/ RcSeen(w) \/ RcGrace(w)
                             \/ Crash(w) \/ Flush(w) \/ \E c \in Cmds : ClaimNext(w, c)
       \/ ControlEnds \/ ControlPoll \/ Survey
       \/ UNCHANGED <<record, dir, pc, job, survey>>
  BY ZenonT(100) DEF Next, vars, broker, files, workers, control, EndItself, DieOfTerm, Exceed, Resume,
         KillCommand, LoseActions, Cancel, Control, NextAction, MarkJob, SignalJob, KillJob, KillAllJobs, Work,
         ProbeFails, ExitEvent, Look, LoopTerm, LoopKill
<1> QED
  BY <1>1, <1>2, <1>3, <1>4, <1>5, <1>6, <1>7, <1>8, <1>9, <1>10

\* A verdict stands on record only of what is over, and `lost` beside a living
\* process only from a survey or when its worker has let go of it.
LEMMA VerdictStep == IInv /\ [Next]_vars => VerdictAfterDeath'
<1> SUFFICES ASSUME IInv, [Next]_vars PROVE VerdictAfterDeath'
  OBVIOUS
<1>0. /\ VerdictAfterDeath /\ OwnerInv /\ NoCmd \notin Cmds /\ job \in [Workers -> Cmds \cup {NoCmd}]
      /\ record \in [Cmds -> Record] /\ proc \in [Cmds -> {"none", "alive", "ended", "dead"}]
  BY DEF IInv, TypeOK
\* Nobody is watched who was not.
<1>1. ASSUME \A v \in Workers : job'[v] \in {job[v], NoCmd}
      PROVE  \A c \in Cmds : Unwatched(c) => Unwatched(c)'
  BY <1>0, <1>1 DEF Unwatched
\* What becomes of a command whose record and process are as they were.
<1>2. ASSUME NEW c \in Cmds, record'[c] = record[c], proc'[c] = "alive" => proc[c] = "alive",
             Unwatched(c) => Unwatched(c)', proc'[c] = "alive"
      PROVE  /\ record'[c].state \notin Settled
             /\ record'[c].state = "lost" => record'[c].reason = "spawn_gap" \/ Unwatched(c)'
  BY <1>0, <1>2 DEF VerdictAfterDeath
<1>3. ASSUME NEW w \in Workers, Spawn(w) PROVE VerdictAfterDeath'
  <2>1. /\ job[w] \in Cmds /\ record[job[w]].state \in {"running", "lost"} /\ record' = record
        /\ record[job[w]].state = "lost" => record[job[w]].reason = "spawn_gap"
        /\ proc' = [proc EXCEPT ![job[w]] = "alive"] /\ \A v \in Workers : job'[v] = job[v]
    BY <1>3, SpawnFact
  <2>2. SUFFICES ASSUME NEW c \in Cmds, proc'[c] = "alive"
                 PROVE  /\ record'[c].state \notin Settled
                        /\ record'[c].state = "lost" => record'[c].reason = "spawn_gap" \/ Unwatched(c)'
    BY DEF VerdictAfterDeath
  <2>3. CASE c = job[w]
    BY <2>1, <2>3 DEF Settled
  <2>4. CASE c # job[w]
    <3>1. Unwatched(c) => Unwatched(c)'
      BY <1>1, <2>1
    <3> QED
      BY <1>0, <1>2, <2>1, <2>2, <2>4, <3>1
  <2> QED
    BY <2>3, <2>4
<1>4. ASSUME NEW w \in Workers, NEW d \in Cmds, ClaimNext(w, d) PROVE VerdictAfterDeath'
  <2>1. /\ record' = [record EXCEPT ![d] = [record[d] EXCEPT !.state = "running"]] /\ proc' = proc
        /\ job' = [job EXCEPT ![w] = d] /\ record[d] \in Record
    BY <1>0, <1>4 DEF ClaimNext, Go, process
  <2>2. record'[d].state = "running" /\ \A c \in Cmds : c # d => record'[c] = record[c] /\ (Unwatched(c) => Unwatched(c)')
    BY <1>0, <2>1 DEF Record, Unwatched
  <2> QED
    BY <1>0, <1>2, <2>1, <2>2 DEF VerdictAfterDeath, Settled
<1>5. ASSUME NEW w \in Workers, FailCommand(w) \/ GiveUp(w) PROVE VerdictAfterDeath'
  <2>1. /\ job[w] \in Cmds /\ \A d \in Cmds : d # job[w] => record'[d] = record[d]
        /\ record'[job[w]] = record[job[w]] \/ record'[job[w]].state = "lost"
        /\ job' = [job EXCEPT ![w] = NoCmd] /\ proc' = proc
    BY <1>5, LostFact DEF process
  <2>2. \A c \in Cmds : Unwatched(c) => Unwatched(c)'
    BY <1>0, <1>1, <2>1
  <2>3. \A v \in Workers : job'[v] # job[w]
    <3>1. \A v \in Workers : v # w => job[v] # job[w]
      BY <1>0, <2>1 DEF OwnerInv
    <3>2. \A v \in Workers : job'[v] = IF v = w THEN NoCmd ELSE job[v]
      BY <1>0, <2>1
    <3> QED
      BY <1>0, <2>1, <3>1, <3>2
  <2>4. record'[job[w]].state \notin Settled
    BY <2>1, PendingFact DEF Settled
  <2>5. SUFFICES ASSUME NEW c \in Cmds, proc'[c] = "alive"
                 PROVE  /\ record'[c].state \notin Settled
                        /\ record'[c].state = "lost" => record'[c].reason = "spawn_gap" \/ Unwatched(c)'
    BY DEF VerdictAfterDeath
  <2>6. CASE c = job[w]
    BY <2>3, <2>4, <2>6 DEF Unwatched
  <2>7. CASE c # job[w]
    BY <1>2, <2>1, <2>2, <2>5, <2>7
  <2> QED
    BY <2>6, <2>7
<1>6. ASSUME NEW w \in Workers, Flush(w) PROVE VerdictAfterDeath'
  <2>1. /\ job[w] \in Cmds /\ record'[job[w]].reason = record[job[w]].reason
        /\ record'[job[w]].state \in {record[job[w]].state, "running"}
        /\ \A d \in Cmds : d # job[w] => record'[d] = record[d]
        /\ UNCHANGED <<proc, job>>
    BY <1>6, FlushFact DEF process, workers
  <2>2. \A c \in Cmds : Unwatched(c) => Unwatched(c)'
    BY <2>1 DEF Unwatched
  <2>3. SUFFICES ASSUME NEW c \in Cmds, proc'[c] = "alive"
                 PROVE  /\ record'[c].state \notin Settled
                        /\ record'[c].state = "lost" => record'[c].reason = "spawn_gap" \/ Unwatched(c)'
    BY DEF VerdictAfterDeath
  <2>4. CASE c = job[w]
    BY <1>0, <2>1, <2>2, <2>3, <2>4 DEF VerdictAfterDeath, Settled
  <2>5. CASE c # job[w]
    BY <1>2, <2>1, <2>2, <2>3, <2>5
  <2> QED
    BY <2>4, <2>5
<1>7. ASSUME NEW w \in Workers, RcSeen(w) \/ RcGrace(w) PROVE VerdictAfterDeath'
  <2>1. /\ job[w] \in Cmds /\ \A d \in Cmds : d # job[w] => record'[d] = record[d]
        /\ proc[job[w]] # "alive" /\ job' = [job EXCEPT ![w] = NoCmd] /\ proc' = proc
    BY <1>7, ConcludeFact DEF process
  <2>2. \A c \in Cmds : Unwatched(c) => Unwatched(c)'
    BY <1>0, <1>1, <2>1
  <2> QED
    BY <1>2, <2>1, <2>2 DEF VerdictAfterDeath
<1>8. ASSUME ControlPoll PROVE VerdictAfterDeath'
  <2>1. /\ \A c \in Cmds :
             \/ record'[c] = record[c]
             \/ /\ record[c].state = "running" /\ record'[c].state = "lost"
                /\ record'[c].reason = IF record[c].reason = NoReason THEN "spawn_gap" ELSE record[c].reason
        /\ UNCHANGED <<proc, job>>
    BY <1>8, GapFact DEF process, workers
  <2>2. \A c \in Cmds : (Unwatched(c) => Unwatched(c)') /\ (Unwatched(c) \/ record[c].reason \in {NoReason, "spawn_gap"})
    BY <2>1, PendingFact DEF Unwatched
  <2>3. SUFFICES ASSUME NEW c \in Cmds, proc'[c] = "alive"
                 PROVE  /\ record'[c].state \notin Settled
                        /\ record'[c].state = "lost" => record'[c].reason = "spawn_gap" \/ Unwatched(c)'
    BY DEF VerdictAfterDeath
  <2>4. CASE record'[c] = record[c]
    BY <1>2, <2>1, <2>2, <2>3, <2>4
  <2>5. CASE record'[c] # record[c]
    BY <2>1, <2>2, <2>5 DEF Settled
  <2> QED
    BY <2>4, <2>5
<1>9. CASE record' = record /\ (\A v \in Workers : job'[v] \in {job[v], NoCmd}) /\ ~\E w \in Workers : Spawn(w)
  <2>1. \A c \in Cmds : Unwatched(c) => Unwatched(c)'
    BY <1>1, <1>9
  <2>2. \A c \in Cmds : proc'[c] = "alive" => proc[c] = "alive"
    BY <1>9, ProcStep
  <2> QED
    BY <1>2, <1>9, <2>1, <2>2 DEF VerdictAfterDeath
<1>10. \/ \E w \in Workers : \/ FailCommand(w) \/ GiveUp(w) \/ Flush(w) \/ RcSeen(w) \/ RcGrace(w) \/ Spawn(w)
                             \/ \E c \in Cmds : ClaimNext(w, c)
       \/ ControlPoll
       \/ record' = record /\ \A v \in Workers : job'[v] \in {job[v], NoCmd}
  <2>1. ASSUME ControlEnds \/ \E w \in Workers : Crash(w) \/ StartJob(w)
        PROVE  \A v \in Workers : job'[v] \in {job[v], NoCmd}
    BY <1>0, <2>1 DEF ControlEnds, Crash, StartJob, Go
  <2>2. \/ \E w \in Workers : \/ FailCommand(w) \/ GiveUp(w) \/ RcSeen(w) \/ RcGrace(w) \/ Spawn(w)
                              \/ Crash(w) \/ StartJob(w) \/ Flush(w) \/ \E c \in Cmds : ClaimNext(w, c)
        \/ ControlEnds
        \/ job' = job
    BY DEF Next, vars, workers, EndItself, DieOfTerm, Exceed, Resume, KillCommand, LoseActions, Cancel, Control,
           Survey, ControlPoll, NextAction, MarkJob, SignalJob, KillJob, KillAllJobs, Work, ProbeFails,
           ExitEvent, Look, LoopTerm, LoopKill
  <2>3. ~(\E w \in Workers : \/ FailCommand(w) \/ GiveUp(w) \/ Flush(w) \/ RcSeen(w) \/ RcGrace(w) \/ Spawn(w)
                             \/ \E c \in Cmds : ClaimNext(w, c))
           => \A v \in Workers : job'[v] \in {job[v], NoCmd}
    BY <2>1, <2>2
  <2> QED
    BY <2>3, WhoRecords
<1> QED
  BY <1>3, <1>4, <1>5, <1>6, <1>7, <1>8, <1>9, <1>10

\* The exit event and the pid file are about the process there was.
LEMMA ProcessStep == IInv /\ [Next]_vars => ProcessInv'
<1> SUFFICES ASSUME IInv, [Next]_vars PROVE ProcessInv'
  OBVIOUS
<1>0. /\ ProcessInv /\ exited \in [Cmds -> BOOLEAN] /\ dir \in [Cmds -> BOOLEAN]
      /\ proc \in [Cmds -> {"none", "alive", "ended", "dead"}]
      /\ pid \in [Cmds -> Pids \cup {NoPid}] /\ pidFile \in [Cmds -> Pids \cup {NoPid}]
      /\ NoPid \notin Pids
  BY DEF IInv, TypeOK
<1>1. ASSUME NEW w \in Workers, Spawn(w) PROVE ProcessInv'
  <2>1. PICK p \in Pids : /\ pid' = [pid EXCEPT ![job[w]] = p]
                          /\ pidFile' \in {pidFile, [pidFile EXCEPT ![job[w]] = p]}
    BY <1>1, SpawnFact
  <2>2. /\ job[w] \in Cmds /\ proc[job[w]] = "none" /\ dir[job[w]]
        /\ proc' = [proc EXCEPT ![job[w]] = "alive"] /\ UNCHANGED <<dir, exited>>
    BY <1>1, SpawnFact
  <2>3. pidFile[job[w]] = NoPid /\ ~exited[job[w]]
    BY <1>0, <2>2 DEF ProcessInv
  <2> QED
    BY <1>0, <2>1, <2>2, <2>3 DEF ProcessInv
<1>2. ASSUME NEW w \in Workers, NEW c \in Cmds, ExitEvent(w, c) PROVE ProcessInv'
  <2>1. proc[c] \in {"ended", "dead"} /\ exited' = [exited EXCEPT ![c] = TRUE]
        /\ UNCHANGED <<proc, pid, pidFile, dir>>
    BY <1>2 DEF ExitEvent, files, process
  <2> QED
    BY <1>0, <2>1 DEF ProcessInv
<1>3. CASE /\ UNCHANGED <<exited, pid, pidFile>> /\ \A c \in Cmds : dir[c] => dir'[c]
           /\ ~\E w \in Workers : Spawn(w)
  BY <1>0, <1>3, ProcStep DEF ProcessInv
<1>4. ASSUME NEW w \in Workers, StartJob(w) PROVE UNCHANGED <<exited, pid, pidFile>> /\ \A c \in Cmds : dir[c] => dir'[c]
  BY <1>0, <1>4 DEF StartJob, loop, process
<1>5. \/ \E w \in Workers : Spawn(w) \/ StartJob(w) \/ \E c \in Cmds : ExitEvent(w, c)
      \/ UNCHANGED <<exited, pid, pidFile, dir>>
  BY ZenonT(100) DEF Next, vars, files, loop, process, Signal, EndItself, DieOfTerm, Exceed, Resume,
         KillCommand, LoseActions, Cancel, Control, Survey, ControlPoll, NextAction, MarkJob, SignalJob,
         KillJob, KillAllJobs, ControlEnds, ClaimNext, Work, FailCommand, GiveUp, Flush, ProbeFails, Look,
         LoopTerm, LoopKill, RcSeen, RcGrace, Conclude, Crash
<1> QED
  BY <1>1, <1>2, <1>3, <1>4, <1>5

-----------------------------------------------------------------------------
\* Lists of actions that go back to clients.
LEMMA ToldFact ==
  ASSUME NEW list \in Seq(Action), Told(list)
  PROVE  /\ Told(<<>>)
         /\ list # <<>> => Told(Tail(list)) /\ [jobs |-> Head(list).jobs, all |-> Head(list).all] \in asked
<1>1. Told(<<>>)
  BY DEF Told
<1>2. ASSUME list # <<>> PROVE Told(Tail(list)) /\ [jobs |-> Head(list).jobs, all |-> Head(list).all] \in asked
  <2>1. /\ Len(list) \in Nat /\ Len(list) >= 1 /\ Head(list) = list[1] /\ DOMAIN list = 1..Len(list)
        /\ Tail(list) \in Seq(Action) /\ Len(Tail(list)) = Len(list) - 1
        /\ \A i \in 1..Len(Tail(list)) : Tail(list)[i] = list[i + 1]
    BY <1>2, EmptySeq, HeadTailProperties
  <2>2. DOMAIN Tail(list) = 1..Len(Tail(list))
    BY <2>1
  <2>3. ASSUME NEW i \in DOMAIN Tail(list) PROVE [jobs |-> Tail(list)[i].jobs, all |-> Tail(list)[i].all] \in asked
    <3>1. i + 1 \in DOMAIN list /\ Tail(list)[i] = list[i + 1]
      BY <2>1, <2>2
    <3> QED
      BY <3>1 DEF Told
  <2>4. 1 \in DOMAIN list
    BY <2>1
  <2> QED
    BY <2>1, <2>3, <2>4 DEF Told
<1> QED
  BY <1>1, <1>2

\* Nobody is less asked for than before.
LEMMA AskedStep ==
  ASSUME [Next]_vars
  PROVE  /\ asked \subseteq asked'
         /\ stopping => stopping'
         /\ \A c \in Cmds : Asked(c) => Asked(c)'
<1>1. \/ asked' = asked
      \/ \E jobs \in SUBSET Cmds, all \in BOOLEAN, sig \in Signals : KillCommand(jobs, all, sig)
  <2>1. {} \in SUBSET Cmds /\ \A c \in Cmds : {c} \in SUBSET Cmds
    OBVIOUS
  <2>2. \/ asked' = asked
        \/ \E sig \in Signals : KillCommand({}, TRUE, sig) \/ \E c \in Cmds : KillCommand({c}, FALSE, sig)
    BY ZenonT(100) DEF Next, vars, history, EndItself, DieOfTerm, Exceed, Resume, LoseActions, Cancel, Control,
           Survey, ControlPoll, NextAction, MarkJob, SignalJob, KillJob, KillAllJobs, ControlEnds, ClaimNext,
           Work, StartJob, Spawn, FailCommand, GiveUp, Flush, ProbeFails, ExitEvent, Look, LoopTerm, LoopKill,
           RcSeen, RcGrace, Conclude, Crash
  <2> QED
    BY <2>1, <2>2
<1>2. stopping' = stopping \/ stopping' = TRUE
  BY ZenonT(100) DEF Next, vars, EndItself, DieOfTerm, Exceed, Resume, KillCommand, LoseActions, Cancel,
         Control, Survey, ControlPoll, NextAction, MarkJob, SignalJob, KillJob, KillAllJobs, ControlEnds,
         ClaimNext, Work, StartJob, Spawn, FailCommand, GiveUp, Flush, ProbeFails, ExitEvent, Look, LoopTerm,
         LoopKill, RcSeen, RcGrace, Conclude, Crash
<1>3. asked \subseteq asked'
  BY <1>1 DEF KillCommand
<1> QED
  BY <1>2, <1>3 DEF Asked

\* Every trace of a stop goes back to somebody who asked for it.
LEMMA StopStep == IInv /\ [Next]_vars => StopInv'
<1> SUFFICES ASSUME IInv, [Next]_vars PROVE StopInv'
  OBVIOUS
<1>0. /\ StopInv /\ actions \in Seq(Action) /\ ctl.queue \in Seq(Action) /\ ctl.todo \in SUBSET Cmds
      /\ ctl \in [at : {"parked", "next", "signal", "grace", "ending"}, todo : SUBSET Cmds,
                  cmd : Cmds \cup {NoCmd}, pid : Pids \cup {NoPid}, sig : Signals, queue : Seq(Action)]
      /\ marker \in [Cmds -> BOOLEAN] /\ killedReason \in [Cmds -> Latched]
  BY DEF IInv, TypeOK
<1>1. asked \subseteq asked' /\ (stopping => stopping') /\ \A c \in Cmds : Asked(c) => Asked(c)'
  BY AskedStep
<1>2. ASSUME NEW list, Told(list) PROVE \A i \in DOMAIN list : [jobs |-> list[i].jobs, all |-> list[i].all] \in asked'
  BY <1>1, <1>2 DEF Told
\* What the control process works on, and what workers and files say.
<1> DEFINE Lists == Told(actions) /\ Told(ctl.queue)
           Todo  == ctl.at # "ending" => \A c \in ctl.todo : Asked(c)
           Marks == /\ \A c \in Cmds : marker[c] => Asked(c)
                    /\ \A c \in Cmds : killedReason[c] = "user" => stopping \/ Asked(c)
<1>3. Lists /\ Todo /\ Marks
  BY <1>0 DEF StopInv
<1>3a. actions' \in {actions, <<>>} => Told(actions)'
  <2>1. CASE actions' = actions
    BY <1>2, <1>3, <2>1 DEF Told
  <2>2. CASE actions' = <<>>
    BY <2>2 DEF Told
  <2> QED
    BY <2>1, <2>2
<1>3b. ctl'.queue \in {ctl.queue, actions, <<>>} => Told(ctl.queue)'
  <2>1. CASE ctl'.queue = ctl.queue
    BY <1>2, <1>3, <2>1 DEF Told
  <2>2. CASE ctl'.queue = actions
    BY <1>2, <1>3, <2>2 DEF Told
  <2>3. CASE ctl'.queue = <<>>
    BY <2>3 DEF Told
  <2> QED
    BY <2>1, <2>2, <2>3
<1>3c. (ctl.at # "ending" /\ ctl'.todo \subseteq ctl.todo) \/ ctl'.at = "ending" \/ ctl'.todo = {} => Todo'
  BY <1>0, <1>1, <1>3
<1>4. UNCHANGED <<actions, ctl>> => Lists' /\ Todo'
  <2>1. SUFFICES ASSUME UNCHANGED <<actions, ctl>> PROVE Lists' /\ Todo'
    OBVIOUS
  <2>2. ctl'.queue = ctl.queue /\ ctl'.todo = ctl.todo /\ ctl'.at = ctl.at
    BY <2>1
  <2> QED
    BY <1>3a, <1>3b, <1>3c, <2>1, <2>2
<1>5. UNCHANGED <<marker, killedReason>> => Marks'
  BY <1>1, <1>3
<1>6. Lists' /\ Todo' /\ Marks' => StopInv'
  BY DEF StopInv
<1>7. ASSUME NEW jobs \in SUBSET Cmds, NEW all \in BOOLEAN, NEW sig \in Signals, KillCommand(jobs, all, sig)
      PROVE  StopInv'
  <2>1. /\ actions' = Append(actions, [jobs |-> jobs, all |-> all, sig |-> sig])
        /\ asked' = asked \cup {[jobs |-> jobs, all |-> all]} /\ UNCHANGED <<ctl, marker, killedReason>>
    BY <1>7 DEF KillCommand, files, loop, control
  <2>2. Told(actions)'
    <3>1. [jobs |-> jobs, all |-> all, sig |-> sig] \in Action
      BY DEF Action
    <3>2. /\ DOMAIN actions' = 1..(Len(actions) + 1) /\ DOMAIN actions = 1..Len(actions) /\ Len(actions) \in Nat
          /\ \A i \in 1..Len(actions) : actions'[i] = actions[i]
          /\ actions'[Len(actions) + 1] = [jobs |-> jobs, all |-> all, sig |-> sig]
      BY <1>0, <2>1, <3>1, AppendProperties
    <3>3. ASSUME NEW i \in DOMAIN actions' PROVE [jobs |-> actions'[i].jobs, all |-> actions'[i].all] \in asked'
      <4>1. CASE i = Len(actions) + 1
        BY <2>1, <3>2, <4>1
      <4>2. CASE i \in DOMAIN actions
        BY <1>2, <1>3, <3>2, <4>2
      <4> QED
        BY <3>2, <4>1, <4>2
    <3> QED
      BY <3>3 DEF Told
  <2>3. Told(ctl.queue)' /\ Todo'
    <3>1. ctl'.queue = ctl.queue /\ ctl'.todo = ctl.todo /\ ctl'.at = ctl.at
      BY <2>1
    <3> QED
      BY <1>3b, <1>3c, <3>1
  <2> QED
    BY <1>5, <1>6, <2>1, <2>2, <2>3
<1>8. ASSUME LoseActions PROVE StopInv'
  <2>1. actions' = <<>> /\ UNCHANGED <<asked, ctl, marker, killedReason>>
    BY <1>8 DEF LoseActions, files, loop, control
  <2>2. ctl'.queue = ctl.queue /\ ctl'.todo = ctl.todo /\ ctl'.at = ctl.at
    BY <2>1
  <2>3. Lists' /\ Todo'
    BY <1>3a, <1>3b, <1>3c, <2>1, <2>2
  <2> QED
    BY <1>5, <1>6, <2>1, <2>3
<1>9. ASSUME ControlPoll PROVE StopInv'
  <2>1. UNCHANGED <<asked, marker, killedReason>>
    BY <1>9 DEF ControlPoll, files, loop, history
  <2>2. CASE UNCHANGED <<actions, control>>
    BY <1>4, <1>5, <1>6, <2>1, <2>2 DEF control
  <2>3. CASE ~UNCHANGED <<actions, control>>
    <3>1. actions' = <<>> /\ ctl' = [ctl EXCEPT !.at = "next", !.queue = actions] /\ ctl.at = "parked"
      BY <1>9, <2>3 DEF ControlPoll
    <3>2. ctl'.queue = actions /\ ctl'.todo = ctl.todo /\ ctl'.at = "next"
      BY <1>0, <3>1
    <3>3. Lists' /\ Todo'
      BY <1>3a, <1>3b, <1>3c, <3>1, <3>2
    <3> QED
      BY <1>5, <1>6, <2>1, <3>3
  <2> QED
    BY <2>2, <2>3
<1>10. ASSUME NextAction PROVE StopInv'
  <2>1. UNCHANGED <<actions, asked, marker, killedReason>> /\ ctl.at = "next"
    BY <1>10 DEF NextAction, broker, files, loop, history
  <2>2. Lists' /\ Todo'
    <3>1. CASE ctl.queue = <<>>
      <4>1. ctl'.queue = <<>> /\ ctl'.todo = {}
        BY <1>10, <3>1 DEF NextAction, Idle
      <4> QED
        BY <1>3a, <1>3b, <1>3c, <2>1, <4>1
    <3>2. CASE ctl.queue # <<>>
      <4> DEFINE a == Head(ctl.queue)
      <4>1. a \in Action /\ Told(Tail(ctl.queue)) /\ [jobs |-> a.jobs, all |-> a.all] \in asked
        BY <1>0, <1>3, <3>2, ToldFact, HeadTailProperties
      <4>2. /\ ctl'.queue = Tail(ctl.queue) /\ ctl'.at = "next"
            /\ ctl'.todo = IF a.all THEN ListJobIds ELSE a.jobs
        BY <1>0, <1>10, <2>1, <3>2 DEF NextAction
      <4> HIDE DEF a
      <4>3. \A c \in ctl'.todo : Asked(c)
        BY <4>1, <4>2 DEF Asked, ListJobIds, Action
      <4>4. Todo'
        BY <2>1, <4>3 DEF Asked
      <4>5. Lists'
        BY <1>3, <2>1, <4>1, <4>2 DEF Told
      <4> QED
        BY <4>4, <4>5
    <3> QED
      BY <3>1, <3>2
  <2> QED
    BY <1>5, <1>6, <2>1, <2>2
<1>11. ASSUME NEW c \in Cmds, MarkJob(c) PROVE StopInv'
  <2>1. /\ ctl.at = "next" /\ c \in ctl.todo /\ marker' = [marker EXCEPT ![c] = @ \/ dir[c]]
        /\ UNCHANGED <<actions, asked, stopping, killedReason>>
    BY <1>11 DEF MarkJob, broker, loop, history
  <2>2. ctl'.queue = ctl.queue /\ ctl'.todo \subseteq ctl.todo /\ ctl'.at # "ending"
    <3>1. CASE ctl' = [ctl EXCEPT !.todo = ctl.todo \ {c}]
      BY <1>0, <2>1, <3>1
    <3>2. CASE ctl' = [ctl EXCEPT !.todo = ctl.todo \ {c}, !.at = "signal", !.cmd = c, !.pid = pidFile[c]]
      BY <1>0, <3>2
    <3> QED
      BY <1>11, <3>1, <3>2 DEF MarkJob
  <2>3. Lists' /\ Todo'
    BY <1>3a, <1>3b, <1>3c, <2>1, <2>2
  <2>4. Asked(c)
    BY <1>3, <2>1
  <2>5. Marks'
    BY <1>0, <1>1, <1>3, <2>1, <2>4
  <2> QED
    BY <1>6, <2>3, <2>5
<1>12. ASSUME NEW to \in {"grace", "next"}, ctl.at # "ending", ctl' = [ctl EXCEPT !.at = to],
              UNCHANGED <<actions, marker, killedReason>>
       PROVE  StopInv'
  <2>1. ctl'.queue = ctl.queue /\ ctl'.todo = ctl.todo
    BY <1>0, <1>12
  <2>2. Lists' /\ Todo'
    BY <1>12, <1>3a, <1>3b, <1>3c, <2>1
  <2> QED
    BY <1>5, <1>6, <1>12, <2>2
<1>13. ASSUME SignalJob \/ KillJob PROVE StopInv'
  BY <1>12, <1>13 DEF SignalJob, KillJob, broker, files, loop
<1>14. ASSUME ctl'.at = "ending", ctl'.queue \in {<<>>, ctl.queue}, UNCHANGED <<actions, marker, killedReason>>
       PROVE  StopInv'
  <2>1. Lists' /\ Todo'
    BY <1>14, <1>3a, <1>3b, <1>3c
  <2> QED
    BY <1>5, <1>6, <1>14, <2>1
<1>15. ASSUME ControlEnds \/ \E c \in Cmds : KillAllJobs(c) PROVE StopInv'
  <2>1. ctl'.at = "ending" /\ ctl'.queue \in {<<>>, ctl.queue}
    BY <1>0, <1>15 DEF ControlEnds, KillAllJobs, Idle
  <2>2. UNCHANGED <<actions, marker, killedReason>>
    BY <1>15 DEF ControlEnds, KillAllJobs, broker, files, loop
  <2> QED
    BY <1>14, <2>1, <2>2
<1>16. ASSUME NEW w \in Workers, Look(w) PROVE StopInv'
  <2>1. /\ UNCHANGED <<actions, ctl, marker, stopping>> /\ job[w] \in Cmds
        /\ killedReason' = [killedReason EXCEPT ![job[w]] = Found(w, job[w])]
    BY <1>16, Busy DEF Look, Looks, broker, files, control, IInv
  <2>2. Found(w, job[w]) = "user" => marker[job[w]] \/ stopping
    BY DEF Found, NoReason
  <2>3. Marks'
    BY <1>0, <1>1, <1>3, <2>1, <2>2
  <2> QED
    BY <1>4, <1>6, <2>1, <2>3
<1>17. CASE UNCHANGED <<actions, ctl, marker, killedReason>>
  BY <1>4, <1>5, <1>6, <1>17
<1>18. {} \in SUBSET Cmds /\ \A c \in Cmds : {c} \in SUBSET Cmds
  OBVIOUS
<1>19. \/ \E sig \in Signals : KillCommand({}, TRUE, sig) \/ \E c \in Cmds : KillCommand({c}, FALSE, sig)
       \/ LoseActions \/ ControlPoll \/ NextAction \/ SignalJob \/ KillJob \/ ControlEnds
       \/ \E c \in Cmds : MarkJob(c) \/ KillAllJobs(c)
       \/ \E w \in Workers : Look(w)
       \/ UNCHANGED <<actions, ctl, marker, killedReason>>
  BY ZenonT(100) DEF Next, vars, broker, files, loop, control, EndItself, DieOfTerm, Exceed, Resume, Cancel,
         Control, Survey, ClaimNext, Work, StartJob, Spawn, FailCommand, GiveUp, Flush, ProbeFails, ExitEvent,
         LoopTerm, LoopKill, RcSeen, RcGrace, Conclude, Crash
<1> QED
  BY <1>7, <1>8, <1>9, <1>10, <1>11, <1>13, <1>15, <1>16, <1>17, <1>18, <1>19

\* Whoever is on record as stopped by the user was.
LEMMA UserStep == IInv /\ [Next]_vars => UserReasonIsTrue'
<1> SUFFICES ASSUME IInv, [Next]_vars PROVE UserReasonIsTrue'
  OBVIOUS
<1>0. UserReasonIsTrue /\ StopInv /\ record \in [Cmds -> Record]
  BY DEF IInv, TypeOK
<1>1. \A c \in Cmds : Asked(c) => Asked(c)'
  BY AskedStep
<1>2. \A c \in Cmds : record'[c].reason = "user" => Asked(c)
  <2>1. ASSUME NEW w \in Workers, NEW d \in Cmds, ClaimNext(w, d)
        PROVE  \A c \in Cmds : record'[c].reason = record[c].reason
    <3>1. record' = [record EXCEPT ![d] = [record[d] EXCEPT !.state = "running"]] /\ record[d] \in Record
      BY <1>0, <2>1 DEF ClaimNext
    <3> QED
      BY <1>0, <3>1 DEF Record
  <2>2. ASSUME NEW w \in Workers, FailCommand(w) \/ GiveUp(w) \/ Flush(w)
        PROVE  \A c \in Cmds : record'[c].reason = "user" => record[c].reason = "user"
    <3>1. /\ \A c \in Cmds : c # job[w] => record'[c] = record[c]
          /\ record'[job[w]].reason \in {record[job[w]].reason, "enospc", NoReason}
      BY <2>2, LostFact, FlushFact
    <3> QED
      BY <3>1 DEF NoReason
  <2>3. ASSUME NEW w \in Workers, RcSeen(w) \/ RcGrace(w)
        PROVE  \A c \in Cmds : record'[c].reason = "user" => Asked(c)
    <3>1. CASE stopping
      BY <1>0, <2>3, <3>1, ConcludeFact DEF UserReasonIsTrue
    <3>2. CASE ~stopping
      <4>1. /\ \A c \in Cmds : c # job[w] => record'[c] = record[c]
            /\ job[w] \in Cmds /\ record'[job[w]].reason \in {record[job[w]].reason, killedReason[job[w]]}
        BY <2>3, <3>2, ConcludeFact
      <4> QED
        BY <1>0, <3>2, <4>1 DEF UserReasonIsTrue, StopInv
    <3> QED
      BY <3>1, <3>2
  <2>4. ASSUME ControlPoll
        PROVE  \A c \in Cmds : record'[c].reason = "user" => record[c].reason = "user"
    BY <2>4, GapFact
  <2> QED
    BY <1>0, <2>1, <2>2, <2>3, <2>4, WhoRecords DEF UserReasonIsTrue
<1> QED
  BY <1>1, <1>2 DEF UserReasonIsTrue

\* At the end the control process has everybody on its list.
LEMMA EndStep == IInv /\ [Next]_vars => EndInv'
<1> SUFFICES ASSUME IInv, [Next]_vars PROVE EndInv'
  OBVIOUS
<1>0. /\ EndInv /\ ProcessInv
      /\ ctl \in [at : {"parked", "next", "signal", "grace", "ending"}, todo : SUBSET Cmds,
                  cmd : Cmds \cup {NoCmd}, pid : Pids \cup {NoPid}, sig : Signals, queue : Seq(Action)]
  BY DEF IInv, TypeOK
<1>1. CASE ControlEnds
  <2>1. /\ ctl'.todo = ListJobIds /\ UNCHANGED <<proc, pidFile, dir>> /\ \A w \in Workers : pc'[w] = "dead"
    BY <1>1 DEF ControlEnds, files, process, Idle
  <2> QED
    BY <1>0, <2>1 DEF EndInv, ProcessInv, ListJobIds
<1>2. ASSUME NEW c \in Cmds, KillAllJobs(c) PROVE EndInv'
  <2>1. /\ ctl.at = "ending" /\ UNCHANGED <<pc, pidFile>> /\ ctl' = [ctl EXCEPT !.todo = ctl.todo \ {c}]
        /\ Signal(pidFile[c], "KILL")
    BY <1>2 DEF KillAllJobs, files, workers
  <2>2. \A d \in Cmds : proc'[d] = "alive" => proc[d] = "alive" /\ pid[d] # pidFile[c]
    BY <2>1, SignalFact DEF IInv
  <2>3. ctl'.todo = ctl.todo \ {c}
    BY <1>0, <2>1
  <2>4. ASSUME NEW d \in Cmds, proc'[d] = "alive", pidFile'[d] # NoPid PROVE d \in ctl'.todo
    <3>1. d \in ctl.todo /\ pidFile[d] = pid[d]
      BY <1>0, <2>1, <2>2, <2>4 DEF EndInv, ProcessInv
    <3>2. d # c
      BY <2>2, <2>4, <3>1
    <3> QED
      BY <2>3, <3>1, <3>2
  <2>5. \A w \in Workers : pc'[w] = "dead"
    BY <1>0, <2>1 DEF EndInv
  <2> QED
    BY <2>4, <2>5 DEF EndInv
<1>3. CASE ctl.at = "ending" /\ ~\E c \in Cmds : KillAllJobs(c)
  <2>1. \A w \in Workers : pc[w] = "dead"
    BY <1>0, <1>3 DEF EndInv
  <2>2. UNCHANGED <<ctl, pc, pidFile>> /\ ~\E w \in Workers : Spawn(w)
    <3>1. \A w \in Workers : ~(StartJob(w) \/ Spawn(w) \/ FailCommand(w) \/ GiveUp(w) \/ RcSeen(w) \/ RcGrace(w)
                               \/ Crash(w) \/ \E c \in Cmds : ClaimNext(w, c))
      BY <2>1 DEF StartJob, Spawn, FailCommand, GiveUp, RcSeen, RcGrace, Crash, ClaimNext
    <3>2. ~(ControlPoll \/ NextAction \/ (\E c \in Cmds : MarkJob(c)) \/ SignalJob \/ KillJob \/ ControlEnds)
      BY <1>3 DEF ControlPoll, NextAction, MarkJob, SignalJob, KillJob, ControlEnds
    <3>3. UNCHANGED <<ctl, pc, pidFile>>
      <4>1. ~\E c \in Cmds : KillAllJobs(c)
        BY <1>3
      <4> QED
        BY <3>1, <3>2, <4>1, ZenonT(100) DEF Next, vars, files, workers, control, EndItself, DieOfTerm, Exceed,
               Resume, KillCommand, LoseActions, Cancel, Control, Survey, Work, Flush, ProbeFails, ExitEvent,
               Look, LoopTerm, LoopKill
    <3> QED
      BY <3>1, <3>3
  <2>3. \A c \in Cmds : proc'[c] = "alive" => proc[c] = "alive"
    BY <2>2, ProcStep
  <2> QED
    BY <1>0, <2>2, <2>3 DEF EndInv
<1>4. CASE ctl.at # "ending" /\ ~ControlEnds
  <2>1. ControlPoll \/ SignalJob \/ KillJob => ctl'.at # "ending"
    BY <1>0, <1>4 DEF ControlPoll, SignalJob, KillJob, control
  <2>2. ASSUME NextAction PROVE ctl'.at # "ending"
    <3>1. CASE ctl.queue = <<>>
      BY <2>2, <3>1 DEF NextAction, Idle
    <3>2. CASE ctl.queue # <<>>
      BY <1>0, <2>2, <3>2 DEF NextAction
    <3> QED
      BY <3>1, <3>2
  <2>3. ASSUME NEW c \in Cmds, MarkJob(c) PROVE ctl'.at # "ending"
    BY <1>0, <1>4, <2>3 DEF MarkJob
  <2>4. ControlPoll \/ SignalJob \/ KillJob \/ NextAction \/ (\E c \in Cmds : MarkJob(c)) \/ ctl' = ctl
    <3>1. ~(\E c \in Cmds : KillAllJobs(c)) /\ ~ControlEnds
      BY <1>4 DEF KillAllJobs
    <3> QED
      BY <3>1, ZenonT(100) DEF Next, vars, control, EndItself, DieOfTerm, Exceed, Resume, KillCommand,
             LoseActions, Cancel, Control, Survey, ClaimNext, Work, StartJob, Spawn, FailCommand, GiveUp, Flush,
             ProbeFails, ExitEvent, Look, LoopTerm, LoopKill, RcSeen, RcGrace, Conclude, Crash
  <2> QED
    BY <1>4, <2>1, <2>2, <2>3, <2>4 DEF EndInv
<1> QED
  BY <1>1, <1>2, <1>3, <1>4

-----------------------------------------------------------------------------
\* What becomes of a record and of an exit that was seen.
LEMMA LookFact ==
  ASSUME IInv, [Next]_vars
  PROVE  \A c \in Cmds : exited[c] => exited'[c] /\ Ending(c)' = Ending(c)
<1> SUFFICES ASSUME NEW c \in Cmds, exited[c] PROVE exited'[c] /\ Ending(c)' = Ending(c)
  OBVIOUS
<1>0. /\ proc[c] \in {"ended", "dead"} /\ exited \in [Cmds -> BOOLEAN] /\ killedReason \in [Cmds -> Latched]
  BY DEF IInv, TypeOK, ProcessInv
<1>1. proc'[c] = proc[c]
  <2>1. ASSUME NEW w \in Workers, Spawn(w) PROVE proc'[c] = proc[c]
    <3>1. proc[job[w]] = "none" /\ proc' = [proc EXCEPT ![job[w]] = "alive"]
      BY <2>1, SpawnFact
    <3> QED
      BY <1>0, <3>1 DEF IInv, TypeOK
  <2> QED
    BY <1>0, <2>1, ProcStep
<1>2. ASSUME NEW w \in Workers, NEW d \in Cmds, ExitEvent(w, d) PROVE exited'[c] /\ killedReason' = killedReason
  BY <1>0, <1>2 DEF ExitEvent
<1>3. ASSUME NEW w \in Workers, Look(w) PROVE exited' = exited /\ killedReason'[c] = killedReason[c]
  BY <1>0, <1>3 DEF Look, Looks
<1>4. (\E w \in Workers : Look(w) \/ \E d \in Cmds : ExitEvent(w, d)) \/ UNCHANGED <<exited, killedReason>>
  BY ZenonT(100) DEF Next, vars, loop, EndItself, DieOfTerm, Exceed, Resume, KillCommand, LoseActions, Cancel,
         Control, Survey, ControlPoll, NextAction, MarkJob, SignalJob, KillJob, KillAllJobs, ControlEnds,
         ClaimNext, Work, StartJob, Spawn, FailCommand, GiveUp, Flush, ProbeFails, LoopTerm, LoopKill, RcSeen,
         RcGrace, Conclude, Crash
<1>5. exited'[c] /\ killedReason'[c] = killedReason[c]
  BY <1>2, <1>3, <1>4
<1> QED
  BY <1>1, <1>5 DEF Ending

\* No step but the verdict puts a command's end on record, or takes it back.
LEMMA OtherRecords ==
  ASSUME IInv, [Next]_vars, ~\E w \in Workers : RcSeen(w) \/ RcGrace(w)
  PROVE  \A c \in Cmds : /\ record[c].state \in Settled => record'[c] = record[c]
                         /\ record'[c].state \in Settled => record[c].state \in Settled
<1>0. record \in [Cmds -> Record] /\ OwnerInv /\ TypeOK
  BY DEF IInv, TypeOK
<1>1. ASSUME NEW w \in Workers, NEW d \in Cmds, ClaimNext(w, d)
      PROVE  \A c \in Cmds : record'[c] = record[c] \/ (record[c].state = "queued" /\ record'[c].state = "running")
  <2>1. record' = [record EXCEPT ![d] = [record[d] EXCEPT !.state = "running"]] /\ record[d].state = "queued"
        /\ record[d] \in Record
    BY <1>0, <1>1 DEF ClaimNext
  <2> QED
    BY <1>0, <2>1 DEF Record
<1>2. ASSUME NEW w \in Workers, FailCommand(w) \/ GiveUp(w) \/ Flush(w)
      PROVE  \A c \in Cmds : \/ record'[c] = record[c]
                             \/ record[c].state \in {"running", "lost"} /\ record'[c].state \in {"running", "lost"}
  <2>1. /\ job[w] \in Cmds /\ \A d \in Cmds : d # job[w] => record'[d] = record[d]
        /\ \/ record'[job[w]] = record[job[w]]
           \/ record'[job[w]].state \in {record[job[w]].state, "running", "lost"}
    BY <1>2, LostFact, FlushFact
  <2>2. record[job[w]].state \in {"running", "lost"}
    BY <2>1, PendingFact
  <2> QED
    BY <2>1, <2>2
<1>3. ASSUME ControlPoll
      PROVE  \A c \in Cmds : record'[c] = record[c] \/ (record[c].state = "running" /\ record'[c].state = "lost")
  BY <1>3, GapFact
<1>4. \/ \E w \in Workers : FailCommand(w) \/ GiveUp(w) \/ Flush(w) \/ \E c \in Cmds : ClaimNext(w, c)
      \/ ControlPoll
      \/ record' = record
  BY WhoRecords
<1> QED
  BY <1>1, <1>2, <1>3, <1>4 DEF Settled

LEMMA RecordStep == IInv /\ [Next]_vars => RecordInv'
<1> SUFFICES ASSUME IInv, [Next]_vars PROVE RecordInv'
  OBVIOUS
<1>0. RecordInv
  BY DEF IInv
<1>1. SUFFICES ASSUME NEW c \in Cmds, record'[c].state \in Settled
               PROVE  exited'[c] /\ Ending(c)' = <<c, record'[c].state, Blamed(record'[c].reason)>>
  BY DEF RecordInv, Blamed
<1>2. CASE record'[c] = record[c]
  <2>1. exited[c] /\ Ending(c) = <<c, record[c].state, Blamed(record[c].reason)>>
    BY <1>0, <1>1, <1>2 DEF RecordInv
  <2> QED
    BY <1>2, <2>1, LookFact
<1>3. ASSUME NEW w \in Workers, RcSeen(w) \/ RcGrace(w), record'[c] # record[c]
      PROVE  exited'[c] /\ Ending(c)' = <<c, record'[c].state, Blamed(record'[c].reason)>>
  <2>1. c = job[w] /\ exited[c] /\ Ending(c) = <<c, record'[c].state, Blamed(record'[c].reason)>>
    BY <1>3, ConcludeFact
  <2> QED
    BY <2>1, LookFact
<1>4. CASE ~\E w \in Workers : RcSeen(w) \/ RcGrace(w)
  BY <1>1, <1>2, <1>4, OtherRecords
<1> QED
  BY <1>2, <1>3, <1>4

-----------------------------------------------------------------------------
\* Every step keeps the whole invariant.
LEMMA StepIInv == IInv /\ [Next]_vars => IInv'
BY TypeStep, VerdictStep, UserStep, OwnerStep, ProcessStep, StopStep, EndStep, RecordStep DEF IInv

\* IInv holds in every state that clients, runner and operating system reach.
THEOREM Invariance == Spec => []IInv
BY InitIInv, StepIInv, PTL DEF Spec

\* No verdict stands beside a process that lives on; `lost` does only where a
\* survey says so, or where the command's worker has let go of it.
THEOREM OverIsOver == Spec => []VerdictAfterDeath
<1>1. IInv => VerdictAfterDeath
  BY DEF IInv
<1> QED
  BY <1>1, Invariance, PTL

\* `user` blames a client that stopped this command, and never a neighbour's
\* stop nor a cancelled workflow.
THEOREM UserMeansUser == Spec => []UserReasonIsTrue
<1>1. IInv => UserReasonIsTrue
  BY DEF IInv
<1> QED
  BY <1>1, Invariance, PTL

\* What outlives the runner's last round never had a pid file.
THEOREM EndIsClean == Spec => []EndLeavesNoProcess
<1>1. IInv => EndLeavesNoProcess
  BY DEF IInv, EndInv, EndLeavesNoProcess
<1> QED
  BY <1>1, Invariance, PTL

-----------------------------------------------------------------------------
\* The four sets and functions of CommandPromise, as KillPath has them.
Claimed  == {c \in Cmds : record[c].state # "queued"}
Runs     == [c \in Cmds |-> IF proc[c] = "none" THEN 0 ELSE 1]
Ended    == {Ending(c) : c \in {d \in Cmds : exited[d]}}
Recorded == {<<c, record[c].state, Blamed(record[c].reason)>> :
               c \in {d \in Cmds : record[d].state \in Settled}}

\* An exit event adds one end, and no other step changes the ends.
LEMMA EndedStep ==
  ASSUME IInv, [Next]_vars, ~\E w \in Workers, c \in Cmds : ExitEvent(w, c)
  PROVE  Ended' = Ended
<1>1. exited' = exited
  BY ZenonT(100) DEF Next, vars, loop, EndItself, DieOfTerm, Exceed, Resume, KillCommand, LoseActions, Cancel,
         Control, Survey, ControlPoll, NextAction, MarkJob, SignalJob, KillJob, KillAllJobs, ControlEnds,
         ClaimNext, Work, StartJob, Spawn, FailCommand, GiveUp, Flush, ProbeFails, Look, LoopTerm, LoopKill,
         RcSeen, RcGrace, Conclude, Crash
<1> QED
  BY <1>1, LookFact DEF Ended

\* Only a verdict changes what is on record of ends.
LEMMA RecordedStep ==
  ASSUME IInv, [Next]_vars, ~\E w \in Workers : RcSeen(w) \/ RcGrace(w)
  PROVE  Recorded' = Recorded
BY OtherRecords DEF Recorded

\* Only a worker that is given a command makes it claimed.
LEMMA ClaimedStep ==
  ASSUME IInv, [Next]_vars, ~\E w \in Workers, c \in Cmds : ClaimNext(w, c)
  PROVE  Claimed' = Claimed
<1>1. ASSUME NEW w \in Workers, FailCommand(w) \/ GiveUp(w) \/ Flush(w) \/ RcSeen(w) \/ RcGrace(w)
      PROVE  Claimed' = Claimed
  <2>1. /\ job[w] \in Cmds /\ \A d \in Cmds : d # job[w] => record'[d] = record[d]
        /\ record'[job[w]].state \in {record[job[w]].state, "running", "lost"} \cup Settled
    <3>1. CASE FailCommand(w) \/ GiveUp(w)
      BY <3>1, LostFact
    <3>2. CASE Flush(w)
      BY <3>2, FlushFact
    <3>3. CASE RcSeen(w) \/ RcGrace(w)
      BY <3>3, ConcludeFact
    <3> QED
      BY <1>1, <3>1, <3>2, <3>3
  <2>2. record[job[w]].state # "queued" /\ record'[job[w]].state # "queued"
    BY <2>1, PendingFact DEF Settled
  <2>3. \A c \in Cmds : record'[c].state # "queued" <=> record[c].state # "queued"
    BY <2>1, <2>2
  <2> QED
    BY <2>3 DEF Claimed
<1>2. CASE ControlPoll
  <2>1. \A c \in Cmds : record'[c].state # "queued" <=> record[c].state # "queued"
    BY <1>2, GapFact
  <2> QED
    BY <2>1 DEF Claimed
<1>3. CASE record' = record
  BY <1>3 DEF Claimed
<1> QED
  BY <1>1, <1>2, <1>3, WhoRecords

\* Only a spawn makes a run.
LEMMA RunsStep ==
  ASSUME IInv, [Next]_vars, ~\E w \in Workers : Spawn(w)
  PROVE  Runs' = Runs
BY ProcStep DEF Runs

\* Being given a command is the promise's Ask.
LEMMA ClaimAsks ==
  ASSUME IInv, [Next]_vars, NEW w \in Workers, NEW c \in Cmds, ClaimNext(w, c)
  PROVE  Promise!Ask(c)
<1>0. record \in [Cmds -> Record] /\ pc[w] = "polling"
  BY DEF IInv, TypeOK, ClaimNext
<1>1. \A d \in Cmds : record'[d] = IF d = c THEN [record[c] EXCEPT !.state = "running"] ELSE record[d]
  BY <1>0 DEF ClaimNext
<1>2. record'[c].state = "running" /\ record[c].state = "queued"
  BY <1>0, <1>1 DEF ClaimNext, Record
<1>3. c \notin Claimed /\ Claimed' = Claimed \cup {c}
  BY <1>1, <1>2 DEF Claimed
<1>4. UNCHANGED <<exited, proc, killedReason>>
  BY DEF ClaimNext, process, loop
<1>5. UNCHANGED <<Runs, Ended>>
  BY <1>4 DEF Runs, Ended, Ending
<1>6. Recorded' = Recorded
  BY <1>1, <1>2 DEF Recorded, Settled
<1> QED
  BY <1>3, <1>5, <1>6 DEF Promise!Ask, Claimed, Runs, Ended, Recorded

\* A spawn is its Run: the command was claimed, and had no process before.
LEMMA SpawnRuns ==
  ASSUME IInv, [Next]_vars, NEW w \in Workers, Spawn(w)
  PROVE  \E c \in Cmds : Promise!Run(c)
<1>0. PICK c \in Cmds : c = job[w]
  BY SpawnFact
<1>1. /\ c \in Cmds /\ proc[c] = "none" /\ record[c].state # "queued"
      /\ proc' = [proc EXCEPT ![c] = "alive"] /\ UNCHANGED <<record, exited, killedReason>>
  BY <1>0, SpawnFact
<1>2. proc \in [Cmds -> {"none", "alive", "ended", "dead"}]
  BY DEF IInv, TypeOK
<1>3. c \in Claimed /\ Runs[c] = 0 /\ Runs' = [Runs EXCEPT ![c] = 1]
  BY <1>1, <1>2 DEF Claimed, Runs
<1>4. UNCHANGED <<Claimed, Recorded>>
  BY <1>1 DEF Claimed, Recorded
<1>5. Ended' = Ended
  BY <1>1, LookFact DEF Ended
<1>6. Promise!Run(c)
  BY <1>3, <1>4, <1>5 DEF Promise!Run, Claimed, Runs, Ended, Recorded
<1> QED
  BY <1>6

\* The exit event is its End.
LEMMA ExitEnds ==
  ASSUME IInv, [Next]_vars, NEW w \in Workers, NEW c \in Cmds, ExitEvent(w, c)
  PROVE  \E r \in Settled \X Latched : Promise!End(c, r)
<1>1. /\ proc[c] \in {"ended", "dead"} /\ ~exited[c] /\ exited' = [exited EXCEPT ![c] = TRUE]
      /\ UNCHANGED <<record, proc, killedReason>>
  BY DEF ExitEvent, broker, process
<1>2. exited \in [Cmds -> BOOLEAN] /\ killedReason \in [Cmds -> Latched]
  BY DEF IInv, TypeOK
<1>3. PICK r \in Settled \X Latched : Ending(c) = <<c, r[1], r[2]>>
  <2>1. PICK s \in Settled, k \in Latched : Ending(c) = <<c, s, k>>
    BY <1>2 DEF Ending, Settled
  <2>2. <<s, k>> \in Settled \X Latched /\ <<s, k>>[1] = s /\ <<s, k>>[2] = k
    OBVIOUS
  <2> QED
    BY <2>1, <2>2
<1>4. \A d \in Cmds : Ending(d)' = Ending(d) /\ Ending(d)[1] = d
  BY <1>1 DEF Ending
<1>5. Runs[c] = 1 /\ \A e \in Ended : e[1] # c
  BY <1>1, <1>4 DEF Runs, Ended
<1>6. Ended' = Ended \cup {<<c, r[1], r[2]>>}
  <2>1. \A d \in Cmds : exited'[d] <=> exited[d] \/ d = c
    BY <1>1, <1>2
  <2> QED
    BY <1>1, <1>3, <1>4, <2>1 DEF Ended
<1>7. UNCHANGED <<Claimed, Runs, Recorded>>
  BY <1>1 DEF Claimed, Runs, Recorded, Blamed
<1>8. Promise!End(c, r)
  BY <1>5, <1>6, <1>7 DEF Promise!End, Claimed, Runs, Ended, Recorded
<1> QED
  BY <1>8

\* The verdict is its Record, unless the agent was told to stop.
LEMMA VerdictRecords ==
  ASSUME IInv, [Next]_vars, NEW w \in Workers, RcSeen(w) \/ RcGrace(w)
  PROVE  (\E e \in Ended : Promise!Record(e)) \/ UNCHANGED <<Claimed, Runs, Ended, Recorded>>
<1> DEFINE c == job[w]
<1>1. /\ c \in Cmds /\ exited[c] /\ record[c].state \in {"running", "lost"}
      /\ UNCHANGED <<proc, exited, killedReason>>
      /\ \A d \in Cmds : d # c => record'[d] = record[d]
      /\ stopping => record' = record
      /\ ~stopping => /\ record'[c].state \in Settled
                      /\ Ending(c) = <<c, record'[c].state, Blamed(record'[c].reason)>>
  BY ConcludeFact DEF process, loop
<1> HIDE DEF c
<1>2. UNCHANGED <<Runs, Ended>>
  BY <1>1 DEF Runs, Ended, Ending
<1>3. CASE stopping
  BY <1>1, <1>2, <1>3 DEF Claimed, Recorded, Blamed
<1>4. CASE ~stopping
  <2>1. Ending(c) \in Ended
    BY <1>1 DEF Ended
  <2>2. Recorded' = Recorded \cup {Ending(c)}
    <3>1. record[c].state \notin Settled
      BY <1>1 DEF Settled
    <3>2. \A d \in Cmds : d # c => <<d, record'[d].state, Blamed(record'[d].reason)>>
                                     = <<d, record[d].state, Blamed(record[d].reason)>>
      BY <1>1
    <3> QED
      BY <1>1, <1>4, <3>1, <3>2 DEF Recorded, Blamed
  <2>3. Claimed' = Claimed
    BY <1>1, <1>4 DEF Claimed, Settled
  <2>4. PICK e \in Ended : e = Ending(c)
    BY <2>1
  <2>5. Promise!Record(e)
    BY <1>2, <2>2, <2>3, <2>4 DEF Promise!Record, Claimed, Runs, Ended, Recorded
  <2> QED
    BY <2>5
<1> QED
  BY <1>3, <1>4

\* Every step is one of the promise, or none.
LEMMA PromiseStep == IInv /\ [Next]_vars => [Promise!Next]_(Promise!vars)
<1> SUFFICES ASSUME IInv, [Next]_vars PROVE Promise!Next \/ UNCHANGED Promise!vars
  OBVIOUS
<1>1. ASSUME NEW w \in Workers, NEW c \in Cmds, ClaimNext(w, c) PROVE Promise!Next
  BY <1>1, ClaimAsks DEF Promise!Next
<1>2. ASSUME NEW w \in Workers, Spawn(w) PROVE Promise!Next
  BY <1>2, SpawnRuns DEF Promise!Next
<1>3. ASSUME NEW w \in Workers, NEW c \in Cmds, ExitEvent(w, c) PROVE Promise!Next
  BY <1>3, ExitEnds DEF Promise!Next
<1>4. UNCHANGED <<Claimed, Runs, Ended, Recorded>> => UNCHANGED Promise!vars
  BY DEF Promise!vars, Claimed, Runs, Ended, Recorded
<1>5. ASSUME NEW w \in Workers, RcSeen(w) \/ RcGrace(w) PROVE Promise!Next \/ UNCHANGED Promise!vars
  BY <1>4, <1>5, VerdictRecords DEF Promise!Next, Ended
<1>6. CASE ~\E w \in Workers : Spawn(w) \/ RcSeen(w) \/ RcGrace(w) \/ \E c \in Cmds : ClaimNext(w, c) \/ ExitEvent(w, c)
  <2>1. UNCHANGED <<Claimed, Runs, Ended, Recorded>>
    BY <1>6, ClaimedStep, RunsStep, EndedStep, RecordedStep
  <2> QED
    BY <1>4, <2>1
<1> QED
  BY <1>1, <1>2, <1>3, <1>5, <1>6

\* However limits, stops, signals and exits race, a process runs once, its
\* end is settled when the exit is seen, and that is put on record for good.
THEOREM Refinement == Spec => KeepsPromise
<1>1. Init => Promise!Init
  BY DEF Init, Promise!Init, Rec, Settled
<1>2. Spec => [][Promise!Next]_(Promise!vars)
  BY PromiseStep, Invariance, PTL DEF Spec
<1> QED
  BY <1>1, <1>2, PTL DEF Spec, KeepsPromise, Promise!Spec
=============================================================================
