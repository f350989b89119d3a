------------------------------ MODULE KillPath ------------------------------
(***************************************************************************)
(* How a command's process ends: by itself, by one of the limits the exec  *)
(* worker's loop watches, or by a client's stop_job.                       *)
(*                                                                         *)
(* A stop travels far.  EnvDO keeps it in a list in memory, hands the list *)
(* to the answer of the parked /control, and the runner's control process  *)
(* drops a marker file, looks the pid up and signals; the exec worker that *)
(* owns the process looks at marker and limits only every few ms, and once *)
(* it has seen the exit event it looks at neither.  Each of these is a     *)
(* step here, and so is whatever else puts a command on record as over:    *)
(* the survey of jobs without a pid file, and a worker whose own code      *)
(* throws.  Every command has been enqueued at the start; delivery and     *)
(* pushes, whose losses are CommandLifecycle's subject, are taken to       *)
(* succeed, except that an agent told to stop pushes nothing.              *)
(***************************************************************************)
EXTENDS Integers, Sequences, FiniteSets, KillReason

CONSTANTS
  Cmds,          \* commands; file jobs, which own no process, are left out
  Workers,       \* exec worker processes
  Pids,          \* what the operating system numbers processes with
  Stubborn,      \* the commands whose process ignores SIGTERM
  Limits,        \* the limits that can run out; time always can
  NoCmd, NoPid,
  DiskFills,     \* may a write of the agent fail with ENOSPC?
  MayCancel,     \* may the workflow be cancelled?
  MaxStops,      \* bound: stop_job calls
  MaxLosses,     \* bound: action lists that vanish on their way
  MaxCrashes,    \* bound: exec workers that die
  MaxMishaps     \* bound: pid files not written and flushes that throw

ASSUME KillAssumption ==
  /\ NoCmd \notin Cmds /\ NoPid \notin Pids
  /\ {"timeout"} \subseteq Limits /\ Limits \subseteq {"output_cap", "timeout", "inactivity"}
  /\ Stubborn \subseteq Cmds /\ DiskFills \in BOOLEAN /\ MayCancel \in BOOLEAN
  /\ MaxStops \in Nat /\ MaxLosses \in Nat /\ MaxCrashes \in Nat /\ MaxMishaps \in Nat

VARIABLES
  \* the broker: what it records of each command, its list of actions
  record, actions,
  \* runner: files in each job directory (NoPid: no usable pid file)
  dir, pidFile, marker,
  \* runner: the control process, the kill it is handling, and the jobs its
  \* parked request reports as never started
  ctl, survey,
  \* runner: exec workers, with space.enospcAt in each of these processes,
  \* and the limits that the command each one watches exceeds
  pc, job, enospc, over,
  \* runner: each command's process, the worker that spawned it if one has
  \* (spawner[c] has at most one element), and what that knows and decided
  proc, pid, spawner, termed, exited, killedReason, escalate,
  \* the world: a cancelled workflow
  stopping,
  \* history: stops asked for; during which commands a write failed; what
  \* the bounds count
  asked, wrote, stops, losses, mishaps

broker  == <<record, actions>>
files   == <<dir, pidFile, marker>>
workers == <<pc, job, enospc, over>>
control == <<ctl, survey>>
process == <<proc, pid, spawner, termed>>
loop    == <<exited, killedReason, escalate>>
history == <<asked, wrote, stops, losses, mishaps>>
vars    == <<broker, files, control, workers, process, loop, stopping, history>>

-----------------------------------------------------------------------------
Signals  == {"TERM", "KILL"}
Action   == [jobs : SUBSET Cmds, all : BOOLEAN, sig : Signals]
Idle     == [at |-> "parked", todo |-> {}, cmd |-> NoCmd, pid |-> NoPid, sig |-> "TERM", queue |-> <<>>]
Latched  == Limits \cup {"enospc", "user", NoReason}   \* what a worker can report
Settled  == {"exited", "killed"}
Record   == [state : {"queued", "running", "lost"} \cup Settled,
             reason : Reasons \cup {NoReason}, warned : BOOLEAN]

Rec(s, r, warn) == [state |-> s, reason |-> r, warned |-> warn]

Init ==
  /\ record = [c \in Cmds |-> Rec("queued", NoReason, FALSE)]
  /\ actions = <<>>
  /\ dir = [c \in Cmds |-> FALSE]
  /\ pidFile = [c \in Cmds |-> NoPid]
  /\ marker = [c \in Cmds |-> FALSE]
  /\ ctl = Idle /\ survey = {}
  /\ pc = [w \in Workers |-> "polling"]
  /\ job = [w \in Workers |-> NoCmd]
  /\ enospc = [w \in Workers |-> FALSE]
  /\ proc = [c \in Cmds |-> "none"]
  /\ pid = [c \in Cmds |-> NoPid]
  /\ spawner = [c \in Cmds |-> {}]
  /\ termed = [c \in Cmds |-> FALSE]
  /\ exited = [c \in Cmds |-> FALSE]
  /\ killedReason = [c \in Cmds |-> NoReason]
  /\ escalate = [c \in Cmds |-> "no"]
  /\ over = [w \in Workers |-> {}]
  /\ stopping = FALSE
  /\ asked = {} /\ wrote = {} /\ stops = 0 /\ losses = 0 /\ mishaps = 0

-----------------------------------------------------------------------------
\* The broker

(* killCommand for stop_job, of one job or of all: the action is appended. *)
KillCommand(jobs, all, sig) ==
  /\ stops < MaxStops
  /\ stops' = stops + 1
  /\ actions' = Append(actions, [jobs |-> jobs, all |-> all, sig |-> sig])
  /\ asked' = asked \cup {[jobs |-> jobs, all |-> all]}
  /\ UNCHANGED <<record, files, control, workers, process, loop, stopping, wrote, losses, mishaps>>

(* The isolate is replaced, or controlPoll drained the list into an answer *)
(* that never arrived.                                                     *)
LoseActions ==
  /\ actions # <<>> /\ losses < MaxLosses
  /\ actions' = <<>>
  /\ losses' = losses + 1
  /\ UNCHANGED <<record, files, control, workers, process, loop, stopping, asked, wrote, stops, mishaps>>

(* A worker's report reaches ingestChunk: a settled state stays, reasons    *)
(* and warnings are merged.  Once its agent is told to stop pushChunk      *)
(* tries nothing any more.                                                 *)
Report(c, state, reason, warn) ==
  record' = IF stopping THEN record
            ELSE [record EXCEPT ![c] = Rec(IF @.state \in Settled THEN @.state ELSE state,
                                           PickKilledReason(@.reason, reason), @.warned \/ warn)]

(* A survey's report: lost, with a reason only if none is on record.       *)
Gap(old) ==
  IF old.state \in {"queued", "running"}
  THEN Rec("lost", IF old.reason = NoReason THEN "spawn_gap" ELSE old.reason, old.warned)
  ELSE old

-----------------------------------------------------------------------------
\* The operating system

Holders(p) == {c \in Cmds : proc[c] = "alive" /\ pid[c] = p}

(* kill(-pid), and each of the tree's pids: who holds the number now.      *)
Signal(p, sig) ==
  LET hit == Holders(p)
  IN  /\ proc' = [c \in Cmds |-> IF c \in hit /\ sig = "KILL" THEN "dead" ELSE proc[c]]
      /\ termed' = [c \in Cmds |-> IF c \in hit THEN sig = "TERM" ELSE termed[c]]
      /\ UNCHANGED <<pid, spawner>>

(* The process ends by itself, or of the SIGTERM it does not ignore.       *)
EndItself(c) ==
  /\ proc[c] = "alive"
  /\ proc' = [proc EXCEPT ![c] = "ended"] /\ termed' = [termed EXCEPT ![c] = FALSE]
  /\ UNCHANGED <<broker, files, control, workers, pid, spawner, loop, stopping, history>>

DieOfTerm(c) ==
  /\ proc[c] = "alive" /\ termed[c] /\ c \notin Stubborn
  /\ proc' = [proc EXCEPT ![c] = "dead"] /\ termed' = [termed EXCEPT ![c] = FALSE]
  /\ UNCHANGED <<broker, files, control, workers, pid, spawner, loop, stopping, history>>

(* The loop looks until it sees the exit, or has found a reason.           *)
Looks(w) == pc[w] = "running" /\ ~exited[job[w]] /\ escalate[job[w]] = "no"

(* What the next look of the loop will find exceeded.                      *)
Exceed(w, limit) ==
  /\ Looks(w) /\ limit \notin over[w]
  /\ over' = [over EXCEPT ![w] = @ \cup {limit}]
  /\ UNCHANGED <<broker, files, control, pc, job, enospc, process, loop, stopping, history>>

(* Output resumes: only inactivity can be over again.                      *)
Resume(w) ==
  /\ Looks(w) /\ "inactivity" \in over[w] /\ proc[job[w]] = "alive"
  /\ over' = [over EXCEPT ![w] = @ \ {"inactivity"}]
  /\ UNCHANGED <<broker, files, control, pc, job, enospc, process, loop, stopping, history>>

(* The workflow is cancelled: every agent process gets SIGINT or SIGTERM.  *)
Cancel ==
  /\ MayCancel /\ ~stopping
  /\ stopping' = TRUE
  /\ UNCHANGED <<broker, files, control, workers, process, loop, history>>

-----------------------------------------------------------------------------
\* The control process

ListJobIds == {c \in Cmds : dir[c]}

(* listRunning, for the next /control: a job that has no pid file five     *)
(* seconds after its start counts as never started.  Whoever has its       *)
(* meta.json is skipped, which here is on record as settled.               *)
Survey ==
  /\ ctl.at = "parked" /\ ~stopping
  /\ survey' \in SUBSET {c \in ListJobIds : pidFile[c] = NoPid /\ record[c].state \notin Settled}
  /\ UNCHANGED <<broker, files, ctl, workers, process, loop, stopping, history>>

(* controlPoll, when the request arrives and when it is answered: what it  *)
(* surveyed is recorded, and the answer takes the whole list along.        *)
ControlPoll ==
  /\ ctl.at = "parked"
  /\ record' = [c \in Cmds |-> IF c \in survey THEN Gap(record[c]) ELSE record[c]]
  /\ IF actions = <<>> \/ stopping
     THEN UNCHANGED <<actions, control>>
     ELSE /\ ctl' = [ctl EXCEPT !.at = "next", !.queue = actions]
          /\ actions' = <<>> /\ survey' = {}
  /\ UNCHANGED <<files, workers, process, loop, stopping, history>>

(* handleAction: which jobs this action is for; `all` is every directory.  *)
NextAction ==
  /\ ctl.at = "next" /\ ctl.todo = {}
  /\ IF ctl.queue = <<>>
     THEN ctl' = Idle
     ELSE LET a == Head(ctl.queue)
          IN  ctl' = [ctl EXCEPT !.queue = Tail(@), !.sig = a.sig,
                                 !.todo = IF a.all THEN ListJobIds ELSE a.jobs]
  /\ UNCHANGED <<broker, files, survey, workers, process, loop, stopping, history>>

(* The marker comes first; its write fails quietly if the directory is not *)
(* there yet.  Without a pid there is nothing to signal.                   *)
MarkJob(c) ==
  /\ ctl.at = "next" /\ c \in ctl.todo
  /\ marker' = [marker EXCEPT ![c] = @ \/ dir[c]]
  /\ IF pidFile[c] = NoPid
     THEN ctl' = [ctl EXCEPT !.todo = @ \ {c}]
     ELSE ctl' = [ctl EXCEPT !.todo = @ \ {c}, !.at = "signal", !.cmd = c, !.pid = pidFile[c]]
  /\ UNCHANGED <<broker, dir, pidFile, survey, workers, process, loop, stopping, history>>

(* killProcessGroup with no isExited of its own: SIGTERM, a grace period,  *)
(* and SIGKILL whatever happened in between; or SIGKILL at once.           *)
SignalJob ==
  /\ ctl.at = "signal"
  /\ Signal(ctl.pid, ctl.sig)
  /\ ctl' = [ctl EXCEPT !.at = IF ctl.sig = "TERM" THEN "grace" ELSE "next"]
  /\ UNCHANGED <<broker, files, survey, workers, loop, stopping, history>>

KillJobNever ==  \* mutant: the control process does not escalate
  /\ ctl.at = "grace"
  /\ ctl' = [ctl EXCEPT !.at = "next"]
  /\ UNCHANGED <<broker, files, survey, workers, process, loop, stopping, history>>

KillJob ==
  /\ ctl.at = "grace"
  /\ Signal(ctl.pid, "KILL")
  /\ ctl' = [ctl EXCEPT !.at = "next"]
  /\ UNCHANGED <<broker, files, survey, workers, loop, stopping, history>>

ControlEndsLast ==  \* mutant: the workers are killed after the jobs
  /\ ctl.at = "parked"
  /\ ctl' = [Idle EXCEPT !.at = "ending", !.todo = ListJobIds]
  /\ survey' = {}
  /\ UNCHANGED <<broker, files, workers, process, loop, stopping, history>>

(* The lease is over, the broker is gone for good, or the workflow was      *)
(* cancelled: the workers are killed first, then what the directories,     *)
(* listed once, have a pid for.                                            *)
ControlEnds ==
  /\ ctl.at = "parked"
  /\ pc' = [w \in Workers |-> "dead"]
  /\ job' = [w \in Workers |-> NoCmd] /\ over' = [w \in Workers |-> {}]
  /\ ctl' = [Idle EXCEPT !.at = "ending", !.todo = ListJobIds]
  /\ survey' = {}
  /\ UNCHANGED <<broker, files, enospc, process, loop, stopping, history>>

KillAllJobs(c) ==
  /\ ctl.at = "ending" /\ c \in ctl.todo
  /\ Signal(pidFile[c], "KILL")
  /\ ctl' = [ctl EXCEPT !.todo = @ \ {c}]
  /\ UNCHANGED <<broker, files, survey, workers, loop, stopping, history>>

Control == ControlPoll \/ NextAction \/ (\E c \in Cmds : MarkJob(c)) \/ SignalJob \/ KillJob
           \/ (\E c \in Cmds : KillAllJobs(c))

-----------------------------------------------------------------------------
\* The exec workers

Go(w, to, c) ==
  pc' = [pc EXCEPT ![w] = to] /\ job' = [job EXCEPT ![w] = c] /\ over' = [over EXCEPT ![w] = {}]
LetGo(w)     == Go(w, IF stopping THEN "gone" ELSE "polling", NoCmd)

ClaimNext(w, c) ==
  /\ pc[w] = "polling" /\ ~stopping
  /\ record[c].state = "queued"
  /\ record' = [record EXCEPT ![c].state = "running"]
  /\ Go(w, "delivered", c)
  /\ UNCHANGED <<actions, files, control, enospc, process, loop, stopping, history>>

(* The directory and the O_EXCL marker.                                    *)
StartJob(w) ==
  /\ pc[w] = "delivered"
  /\ dir' = [dir EXCEPT ![job[w]] = TRUE]
  /\ Go(w, "starting", job[w])
  /\ UNCHANGED <<broker, pidFile, marker, control, enospc, process, loop, stopping, history>>

(* space.enospcAt is set when a guarded write fails, and never cleared.    *)
WriteFails(w) ==
  /\ DiskFills
  /\ enospc' = [enospc EXCEPT ![w] = TRUE]
  /\ wrote' = wrote \cup {job[w]}

Mishap == mishaps < MaxMishaps /\ mishaps' = mishaps + 1

(* spawn() returns a child.  Writing the pid file may fail, for want of    *)
(* space or for another reason, and nobody hears of it.                    *)
Spawn(w) ==
  LET c == job[w]
  IN  /\ pc[w] = "starting"
      /\ \E p \in Pids :
           /\ Holders(p) = {}
           /\ pid' = [pid EXCEPT ![c] = p]
           /\ \/ pidFile' = [pidFile EXCEPT ![c] = p] /\ UNCHANGED <<enospc, wrote, mishaps>>
              \/ Mishap /\ (UNCHANGED <<enospc, wrote>> \/ WriteFails(w)) /\ UNCHANGED pidFile
      /\ proc' = [proc EXCEPT ![c] = "alive"]
      /\ spawner' = [spawner EXCEPT ![c] = {w}]
      /\ Go(w, "running", c)
      /\ UNCHANGED <<broker, dir, marker, control, termed, loop, stopping, asked, stops, losses>>

Excuse(w) == IF enospc[w] THEN "enospc" ELSE NoReason

(* Nothing ran: failCommand, a throw on the way to the spawn, a child that *)
(* only ever emits `error`.  A write may have failed for want of space.    *)
FailCommand(w) ==
  /\ pc[w] \in {"delivered", "starting"}
  /\ \/ UNCHANGED <<enospc, wrote>> /\ Report(job[w], "lost", Excuse(w), FALSE)
     \/ WriteFails(w) /\ Report(job[w], "lost", "enospc", FALSE)
  /\ LetGo(w)
  /\ UNCHANGED <<actions, files, control, process, loop, stopping, asked, stops, losses, mishaps>>

(* A flush throws, and execWorkerMain reports the command as lost and goes *)
(* on to the next.  The process is left to itself, and nobody looks at its *)
(* limits; the event listener and an escalation under way remain.          *)
GiveUp(w) ==
  /\ pc[w] = "running" /\ Mishap
  /\ Report(job[w], "lost", Excuse(w), FALSE)
  /\ LetGo(w)
  /\ UNCHANGED <<actions, files, control, enospc, process, loop, stopping, asked, wrote, stops, losses>>

(* A flush while the loop runs takes a survey's `lost` back.               *)
Flush(w) ==
  /\ pc[w] = "running"
  /\ Report(job[w], "running", NoReason, FALSE)
  /\ UNCHANGED <<actions, files, control, workers, process, loop, stopping, history>>

(* confirmNoSpace's probe fails while the command runs.                    *)
ProbeFails(w) ==
  /\ pc[w] = "running" /\ ~exited[job[w]] /\ ~enospc[w]
  /\ WriteFails(w)
  /\ UNCHANGED <<broker, files, control, pc, job, over, process, loop, stopping, asked, stops, losses, mishaps>>

(* The exit event reaches the event loop of whoever spawned the process.   *)
ExitEvent(w, c) ==
  /\ w \in spawner[c] /\ pc[w] # "dead"
  /\ proc[c] \in {"ended", "dead"} /\ ~exited[c]
  /\ exited' = [exited EXCEPT ![c] = TRUE]
  /\ UNCHANGED <<broker, files, control, workers, process, killedReason, escalate, stopping, history>>

StoppedByAny(w, c) ==  \* mutant: one kill marker for the whole environment
  IF enospc[w] THEN "enospc"
  ELSE IF over[w] # {} THEN CHOOSE l \in over[w] : TRUE
  ELSE IF (\E d \in Cmds : marker[d]) \/ stopping THEN "user" ELSE NoReason

(* The reason a look finds, in the code's order.                           *)
Found(w, c) ==
  IF enospc[w] THEN "enospc"
  ELSE IF "output_cap" \in over[w] THEN "output_cap"
  ELSE IF "timeout" \in over[w] THEN "timeout"
  ELSE IF "inactivity" \in over[w] THEN "inactivity"
  ELSE IF marker[c] \/ stopping THEN "user"
  ELSE NoReason

LookLate(w) ==  \* mutant: the loop still looks when the exit has been seen
  /\ pc[w] = "running" /\ Found(w, job[w]) # NoReason /\ killedReason[job[w]] = NoReason
  /\ killedReason' = [killedReason EXCEPT ![job[w]] = Found(w, job[w])]
  /\ escalate' = [escalate EXCEPT ![job[w]] = "start"]
  /\ UNCHANGED <<broker, files, control, workers, process, exited, stopping, history>>

(* One look of runCommand's loop while no exit has been seen: the first    *)
(* reason found is kept, and killProcessGroup is started with escalation.  *)
Look(w) ==
  LET c == job[w]
  IN  /\ Looks(w) /\ Found(w, c) # NoReason
      /\ killedReason' = [killedReason EXCEPT ![c] = Found(w, c)]
      /\ escalate' = [escalate EXCEPT ![c] = "start"]
      /\ UNCHANGED <<broker, files, control, workers, process, exited, stopping, history>>

(* That killProcessGroup runs beside the loop and outlives it: after the   *)
(* walk of the tree SIGTERM, and, if the exit was not seen by the end of   *)
(* the grace period, SIGKILL.  Later looks send SIGKILL again and again.   *)
LoopTerm(w, c) ==
  /\ w \in spawner[c] /\ pc[w] # "dead" /\ escalate[c] = "start"
  /\ Signal(pid[c], "TERM")
  /\ escalate' = [escalate EXCEPT ![c] = "grace"]
  /\ UNCHANGED <<broker, files, control, workers, exited, killedReason, stopping, history>>

LoopKill(w, c) ==
  /\ w \in spawner[c] /\ pc[w] # "dead" /\ escalate[c] = "grace" /\ ~exited[c]
  /\ Signal(pid[c], "KILL")
  /\ escalate' = [escalate EXCEPT ![c] = IF job[w] = c THEN "grace" ELSE "done"]
  /\ UNCHANGED <<broker, files, control, workers, exited, killedReason, stopping, history>>

(* The end of runCommand: the exit was seen, and the rc file or the end of *)
(* its grace period.  The verdict blames a full disk as the reason, or as  *)
(* a warning if another reason was kept.                                   *)
Conclude(w) ==
  LET c == job[w]
  IN  /\ Report(c, IF killedReason[c] # NoReason \/ proc[c] = "dead" THEN "killed" ELSE "exited",
                killedReason[c], enospc[w] /\ killedReason[c] # "enospc")
      /\ LetGo(w)
      /\ UNCHANGED <<actions, files, control, enospc, process, loop, stopping, history>>

RcGraceNever(w) == FALSE  \* mutant: wait for the rc file for ever
RcSeenEarly(w) ==  \* mutant: a signal sent counts as an exit
  pc[w] = "running" /\ (exited[job[w]] \/ escalate[job[w]] = "grace") /\ Conclude(w)

(* Only a script that came to its end has left the file, and may have not. *)
RcSeen(w)  == pc[w] = "running" /\ exited[job[w]] /\ proc[job[w]] = "ended" /\ Conclude(w)
RcGrace(w) == pc[w] = "running" /\ exited[job[w]] /\ Conclude(w)

(* A worker process dies: what it spawned belongs to nobody.               *)
Crash(w) ==
  /\ pc[w] # "dead"
  /\ Cardinality({v \in Workers : pc[v] = "dead"}) < MaxCrashes
  /\ Go(w, "dead", NoCmd)
  /\ UNCHANGED <<broker, files, control, enospc, process, loop, stopping, history>>

Work(w) ==
  \/ StartJob(w) \/ Spawn(w) \/ FailCommand(w) \/ Look(w) \/ RcSeen(w) \/ RcGrace(w)
  \/ \E c \in Cmds : ExitEvent(w, c)

Next ==
  \/ \E c \in Cmds : \/ EndItself(c) \/ DieOfTerm(c)
                     \/ \E sig \in Signals : KillCommand({c}, FALSE, sig)
                     \/ \E w \in Workers : ClaimNext(w, c)
  \/ \E sig \in Signals : KillCommand({}, TRUE, sig)
  \/ LoseActions
  \/ Cancel
  \/ Control
  \/ Survey
  \/ ControlEnds
  \/ \E w \in Workers : \/ Work(w) \/ ProbeFails(w) \/ Flush(w) \/ GiveUp(w) \/ Crash(w)
                        \/ Resume(w) \/ \E l \in Limits : Exceed(w, l)
                        \/ \E c \in Cmds : LoopTerm(w, c) \/ LoopKill(w, c)

Spec == Init /\ [][Next]_vars

(* Timers fire: a command always runs out of its time limit, and the grace *)
(* periods end.  Processes that are alive run on, and a SIGTERM is obeyed  *)
(* by those that do not ignore it.  Nobody is forced to stop a job, and no *)
(* worker to get one, or to throw.                                         *)
Fairness ==
  /\ \A c \in Cmds : WF_vars(DieOfTerm(c))
  /\ WF_vars(Control)
  /\ \A w \in Workers : /\ WF_vars(Exceed(w, "timeout")) /\ WF_vars(Work(w))
                        /\ \A c \in Cmds : WF_vars(LoopTerm(w, c)) /\ WF_vars(LoopKill(w, c))

FairSpec == Spec /\ Fairness

-----------------------------------------------------------------------------
TypeOK ==
  /\ record \in [Cmds -> Record] /\ actions \in Seq(Action)
  /\ dir \in [Cmds -> BOOLEAN] /\ marker \in [Cmds -> BOOLEAN]
  /\ pidFile \in [Cmds -> Pids \cup {NoPid}] /\ pid \in [Cmds -> Pids \cup {NoPid}]
  /\ ctl \in [at : {"parked", "next", "signal", "grace", "ending"}, todo : SUBSET Cmds,
              cmd : Cmds \cup {NoCmd}, pid : Pids \cup {NoPid}, sig : Signals, queue : Seq(Action)]
  /\ survey \subseteq Cmds /\ spawner \in [Cmds -> SUBSET Workers]
  /\ pc \in [Workers -> {"polling", "delivered", "starting", "running", "gone", "dead"}]
  /\ job \in [Workers -> Cmds \cup {NoCmd}] /\ enospc \in [Workers -> BOOLEAN]
  /\ \A w \in Workers : job[w] = NoCmd <=> pc[w] \in {"polling", "gone", "dead"}
  /\ proc \in [Cmds -> {"none", "alive", "ended", "dead"}]
  /\ exited \in [Cmds -> BOOLEAN] /\ killedReason \in [Cmds -> Latched]
  /\ escalate \in [Cmds -> {"no", "start", "grace", "done"}]
  /\ over \in [Workers -> SUBSET Limits] /\ stopping \in BOOLEAN
  /\ asked \subseteq [jobs : SUBSET Cmds, all : BOOLEAN]

-----------------------------------------------------------------------------
\* Safety

(* No worker has c any more, or yet.                                       *)
Unwatched(c) == \A w \in Workers : job[w] # c

(* A verdict is decided by the exit event and never by a signal that was   *)
(* sent: no process lives on beside it.  `lost` is weaker.  A living       *)
(* process has it only from a survey, which says so by the reason, or      *)
(* because its worker has let go of it.                                    *)
VerdictAfterDeath ==
  \A c \in Cmds : proc[c] = "alive" =>
    /\ record[c].state \notin Settled
    /\ record[c].state = "lost" => record[c].reason = "spawn_gap" \/ Unwatched(c)

(* A client stopped c, by name or with all.                                *)
Asked(c) == \E a \in asked : a.all \/ c \in a.jobs

(* `user` is on record only for a job that was stopped, whatever happens   *)
(* to its neighbours and however late the stop arrives.  A cancelled       *)
(* workflow latches it too, but then nothing is pushed any more.           *)
UserReasonIsTrue == \A c \in Cmds : record[c].reason = "user" => Asked(c)

(* Once the control process has worked off its last list, the only         *)
(* processes left are those that never got a pid file: no worker starts    *)
(* another behind its back.                                                *)
EndLeavesNoProcess ==
  (ctl.at = "ending" /\ ctl.todo = {}) =>
    \A c \in Cmds : proc[c] = "alive" => pidFile[c] = NoPid

-----------------------------------------------------------------------------
(* The inductive invariant behind them.                                    *)

(* A command has one worker, which has it until the verdict.  Until then   *)
(* only a survey may have put something else on record than `running`.     *)
Pending == {<<"running", NoReason>>, <<"running", "spawn_gap">>, <<"lost", "spawn_gap">>}

OwnerInv ==
  /\ \A w \in Workers : job[w] # NoCmd => <<record[job[w]].state, record[job[w]].reason>> \in Pending
  /\ \A v, w \in Workers : job[v] = job[w] /\ job[v] # NoCmd => v = w
  /\ \A w \in Workers : pc[w] \in {"delivered", "starting"} => proc[job[w]] = "none"
  /\ \A w \in Workers : pc[w] \in {"starting", "running"} => dir[job[w]]
  /\ \A c \in Cmds : record[c].state = "queued" => proc[c] = "none" /\ ~dir[c] /\ record[c].reason = NoReason
  /\ \A c \in survey : dir[c]

(* What the worker and the files say of a process is so.                   *)
ProcessInv ==
  /\ \A c \in Cmds : exited[c] => proc[c] \in {"ended", "dead"}
  /\ \A c \in Cmds : proc[c] = "none" => pidFile[c] = NoPid
  /\ \A c \in Cmds : pidFile[c] # NoPid => pidFile[c] = pid[c] /\ dir[c]

(* Every trace of a stop, wherever it is on its way, goes back to a client *)
(* or to the workflow's end.                                               *)
Told(list) == \A i \in DOMAIN list : [jobs |-> list[i].jobs, all |-> list[i].all] \in asked

StopInv ==
  /\ Told(actions) /\ Told(ctl.queue)
  /\ ctl.at # "ending" => \A c \in ctl.todo : Asked(c)
  /\ \A c \in Cmds : marker[c] => Asked(c)
  /\ \A c \in Cmds : killedReason[c] = "user" => stopping \/ Asked(c)

(* At the end no worker is left, and a process is on the list or unknown.  *)
EndInv ==
  ctl.at = "ending" =>
    /\ \A w \in Workers : pc[w] = "dead"
    /\ \A c \in Cmds : proc[c] = "alive" /\ pidFile[c] # NoPid => c \in ctl.todo

(* How c's process came to its end, which is settled with the exit event:   *)
(* the loop looks no further, and nothing happens to a process twice.      *)
Ending(c) == <<c, IF killedReason[c] = NoReason /\ proc[c] = "ended" THEN "exited" ELSE "killed",
               killedReason[c]>>

(* A reason that a verdict gave: a survey's guess stays on record beside a *)
(* verdict without any.                                                    *)
Blamed(reason) == IF reason = "spawn_gap" THEN NoReason ELSE reason

(* What is on record is that.                                              *)
RecordInv ==
  \A c \in Cmds : record[c].state \in Settled =>
    exited[c] /\ Ending(c) = <<c, record[c].state, Blamed(record[c].reason)>>

IInv == /\ TypeOK /\ VerdictAfterDeath /\ UserReasonIsTrue /\ OwnerInv /\ ProcessInv /\ StopInv
        /\ EndInv /\ RecordInv

-----------------------------------------------------------------------------
(* What the path of a command's end promises a client, see CommandPromise. *)
(* A command is asked for when a worker is given it, and its result is the *)
(* state and the reason a verdict gives.                                   *)
Promise == INSTANCE CommandPromise WITH
  Results <- Settled \X Latched,
  asked <- {c \in Cmds : record[c].state # "queued"},
  ran <- [c \in Cmds |-> IF proc[c] = "none" THEN 0 ELSE 1],
  ended <- {Ending(c) : c \in {d \in Cmds : exited[d]}},
  recorded <- {<<c, record[c].state, Blamed(record[c].reason)>> :
                 c \in {d \in Cmds : record[d].state \in Settled}}

(* However limits, stops, signals and the exit race, a process runs once,  *)
(* how it ended and why is settled when its exit is seen, and exactly that *)
(* is put on record, for good.                                             *)
KeepsPromise == Promise!Spec

-----------------------------------------------------------------------------
\* Liveness

(* A command that runs ends, whether or not its process ignores SIGTERM    *)
(* and whether or not it leaves an rc file, and its verdict is recorded.   *)
(* It goes without if a worker dies; and if its worker has let go of it,   *)
(* leaving `lost` on record or, told to stop, nothing.  Only a process     *)
(* that no limit had caught up with by then may live on.                   *)
EveryRunEnds ==
  \A c \in Cmds : (proc[c] = "alive")
     ~> \/ record[c].state \in Settled
        \/ /\ Unwatched(c) /\ (record[c].state = "lost" \/ stopping)
           /\ proc[c] # "alive" \/ escalate[c] = "no"
        \/ \E w \in Workers : pc[w] = "dead"

(* A stop that found a process to signal ends it, even one whose worker    *)
(* has died and that ignores SIGTERM.                                      *)
StopEndsTheProcess ==
  \A c \in Cmds : (ctl.at = "signal" /\ ctl.cmd = c) ~> (proc[c] # "alive")

-----------------------------------------------------------------------------
\* What the sources say that the code does not keep

(* The marker is dropped before the signal so that the death is attributed *)
(* to the user: whoever is on record as killed with a marker has a reason. *)
StopIsAttributed ==
  \A c \in Cmds : record[c].state = "killed" /\ marker[c] => record[c].reason # NoReason

(* A stopped job does not start afterwards, when the stop has been told to *)
(* the runner and worked off there.                                        *)
WorkedOff(c) == losses = 0 /\ actions = <<>> /\ ctl = Idle /\ \E a \in asked : c \in a.jobs
StoppedNeverStarts == [][\A c \in Cmds : WorkedOff(c) /\ proc[c] = "none" => proc'[c] = "none"]_vars

(* stop_job stops the job it names: no other process gets its signals.     *)
StopsOnlyItsJob ==
  [][SignalJob \/ KillJob => \A c \in Cmds : c = ctl.cmd \/ UNCHANGED <<proc[c], termed[c]>>]_vars

(* timeout_s kills the command: with no crash and no cancelled workflow it *)
(* does not run for ever.                                                  *)
TimeLimitHolds == \A c \in Cmds : (proc[c] = "alive") ~> (proc[c] # "alive")

(* Whoever is told of a full disk had a write fail while its own command   *)
(* ran.                                                                    *)
EnospcIsThisCommands ==
  \A c \in Cmds : (record[c].reason = "enospc" \/ record[c].warned) => c \in wrote
=============================================================================
