-------------------------- MODULE CommandLifecycle --------------------------
(***************************************************************************)
(* The life of a command, from exec's enqueue to the verdict on record.    *)
(*                                                                         *)
(* Two programs share it.  The broker's EnvDO keeps the `command` and      *)
(* `queue` tables; every method of it is one atomic step.  The runner's    *)
(* exec workers are separate processes that poll GET /next, run one        *)
(* command at a time and push POST /chunk; its control process surveys the *)
(* job directories and reports them with POST /control.  Between them is   *)
(* HTTP: a /next answer can be lost after the claim was written, and a     *)
(* chunk can be lost, duplicated, delayed and overtaken.                   *)
(*                                                                         *)
(* Time is kept as ages that stop counting once past the only limit they   *)
(* are compared with, so the model is finite without a clock bound.        *)
(***************************************************************************)
EXTENDS Integers, FiniteSets, KillReason

CONSTANTS
  Cmds,            \* command ids (fresh UUIDs in the code)
  Workers,         \* exec worker processes
  FileJobs,        \* the commands whose payload says type = "file"
  IdemKey,         \* the idem_hash each submission carries
  MaxQueue,        \* the queue cap the tools pass to enqueue
  IdemWindow,      \* idemWindowMs, in ticks
  ClaimRedeliver,  \* CLAIM_REDELIVER_MS, in ticks
  SpawnGap,        \* SPAWN_GAP_MS, in ticks
  ExitCodes,       \* exit codes a child may end with
  LoopReasons,     \* reasons runCommand's loop may decide on
  NoCmd,
  ChunkLoss,       \* may all six attempts of a push fail?
  MaxCrashes       \* bound: how many workers may die

ASSUME CommandAssumption ==
  /\ FileJobs \subseteq Cmds
  /\ NoCmd \notin Cmds
  /\ ExitCodes \subseteq Nat
  /\ LoopReasons \subseteq Reasons \ {"spawn_gap"}
  /\ MaxQueue \in Nat /\ IdemWindow \in Nat /\ ClaimRedeliver \in Nat
  /\ SpawnGap \in Nat /\ MaxCrashes \in Nat
  /\ ChunkLoss \in BOOLEAN

Never  == -1     \* an unset timestamp
NoExit == -1     \* exit_code IS NULL

VARIABLES
  \* EnvDO: the command table, one column per variable
  state, exit_code, killed_reason, created,
  \* EnvDO: the queue table
  seq, claimed_at, nextSeq,
  \* runner: files in each job directory
  started_at, pid, meta,
  \* runner: exec workers
  pc, job,
  \* runner: the control process's request
  parked, survey,
  \* HTTP: chunks that may still reach the broker
  net,
  \* history: the verdicts workers reached, and how often each command ran
  verdicts, runs

tables  == <<state, exit_code, killed_reason, created, seq, claimed_at, nextSeq>>
files   == <<started_at, pid, meta>>
workers == <<pc, job>>
control == <<parked, survey>>
history == <<verdicts, runs>>
vars    == <<tables, files, workers, control, net, history>>

-----------------------------------------------------------------------------
Settled    == {"exited", "killed"}
IsTerminal == Settled \cup {"lost"}
States     == {"absent", "queued", "running"} \cup IsTerminal
Ages       == Nat \cup {Never}

Chunk == [id : Cmds, state : {"running"} \cup IsTerminal,
          exit_code : ExitCodes \cup {NoExit},
          killed_reason : Reasons \cup {NoReason}]

MkChunk(c, s, e, r) == [id |-> c, state |-> s, exit_code |-> e, killed_reason |-> r]

(* What a run of c can end in.  A file job always reports exited; a child  *)
(* that died of a signal nobody decided on is killed without a reason, and *)
(* one that traps the signal is killed with an exit code.                  *)
Verdicts(c) ==
  {MkChunk(c, "exited", e, NoReason) : e \in ExitCodes} \cup
  (IF c \in FileJobs THEN {}
   ELSE {MkChunk(c, "killed", e, r) :
           e \in ExitCodes \cup {NoExit}, r \in LoopReasons \cup {NoReason}})

LostChunks(c) == {MkChunk(c, "lost", NoExit, r) :
                    r \in {NoReason} \cup (LoopReasons \cap {"enospc"})}

Rows == {c \in Cmds : seq[c] # 0}

ClaimableOnce(c) == seq[c] # 0 /\ claimed_at[c] = Never  \* mutant: no redelivery

(* A row no worker holds, or whose holder has had it for too long.         *)
Claimable(c) == seq[c] # 0 /\ (claimed_at[c] = Never \/ claimed_at[c] > ClaimRedeliver)

Init ==
  /\ state = [c \in Cmds |-> "absent"]
  /\ exit_code = [c \in Cmds |-> NoExit]
  /\ killed_reason = [c \in Cmds |-> NoReason]
  /\ created = [c \in Cmds |-> Never]
  /\ seq = [c \in Cmds |-> 0]
  /\ claimed_at = [c \in Cmds |-> Never]
  /\ nextSeq = 1
  /\ started_at = [c \in Cmds |-> Never]
  /\ pid = [c \in Cmds |-> FALSE]
  /\ meta = [c \in Cmds |-> FALSE]
  /\ pc = [w \in Workers |-> "polling"]
  /\ job = [w \in Workers |-> NoCmd]
  /\ parked = FALSE
  /\ survey = {}
  /\ net = {}
  /\ verdicts = {}
  /\ runs = [c \in Cmds |-> 0]

-----------------------------------------------------------------------------
\* The broker

(* enqueue: an identical submission inside the window returns the existing *)
(* command whatever became of it, and a full queue refuses: in both cases  *)
(* nothing is written, so only the insert is a step.                       *)
Enqueue(c) ==
  /\ state[c] = "absent"
  /\ \A d \in Cmds : (state[d] # "absent" /\ IdemKey[d] = IdemKey[c]) => created[d] > IdemWindow
  /\ Cardinality(Rows) < MaxQueue
  /\ state' = [state EXCEPT ![c] = "queued"]
  /\ created' = [created EXCEPT ![c] = 0]
  /\ seq' = [seq EXCEPT ![c] = nextSeq]
  /\ nextSeq' = nextSeq + 1
  /\ UNCHANGED <<exit_code, killed_reason, claimed_at, files, workers, control, net, history>>

TakeRowInAnyOrder(c) ==  \* mutant: no ORDER BY seq
  /\ Claimable(c)
  /\ claimed_at' = [claimed_at EXCEPT ![c] = 0]
  /\ state' = [state EXCEPT ![c] = "running"]
  /\ UNCHANGED <<exit_code, killed_reason, created, seq, nextSeq>>

TakeRowSilently(c) ==  \* mutant: the command row is not updated
  /\ Claimable(c)
  /\ \A d \in Cmds : Claimable(d) => seq[c] <= seq[d]
  /\ claimed_at' = [claimed_at EXCEPT ![c] = 0]
  /\ UNCHANGED <<state, exit_code, killed_reason, created, seq, nextSeq>>

(* claimNext's writes: the oldest claimable row is taken, and its command  *)
(* set running whatever it was.                                            *)
TakeRow(c) ==
  /\ Claimable(c)
  /\ \A d \in Cmds : Claimable(d) => seq[c] <= seq[d]
  /\ claimed_at' = [claimed_at EXCEPT ![c] = 0]
  /\ state' = [state EXCEPT ![c] = "running"]
  /\ UNCHANGED <<exit_code, killed_reason, created, seq, nextSeq>>

NewestState(c, m) == m.state      \* mutant: the last chunk to arrive wins
LostIsSettled(c, m) == IF state[c] \in IsTerminal THEN state[c] ELSE m.state  \* mutant
NewestExit(c, m)  == m.exit_code  \* mutant: no COALESCE

(* A settled command keeps its state; an exit code is never replaced by    *)
(* the absence of one.                                                     *)
MergedState(c, m) == IF state[c] \in Settled THEN state[c] ELSE m.state
MergedExit(c, m)  == IF m.exit_code # NoExit THEN m.exit_code ELSE exit_code[c]

(* ingestChunk: merge one chunk into the row.  Nothing removes the chunk   *)
(* from the network: the same one may arrive again, at any later time.     *)
IngestChunk(m) ==
  LET c == m.id
      s == MergedState(c, m)
  IN  /\ state' = [state EXCEPT ![c] = s]
      /\ exit_code' = [exit_code EXCEPT ![c] = MergedExit(c, m)]
      /\ killed_reason' = [killed_reason EXCEPT ![c] = PickKilledReason(@, m.killed_reason)]
      /\ seq' = [seq EXCEPT ![c] = IF s \in IsTerminal THEN 0 ELSE @]
      /\ claimed_at' = [claimed_at EXCEPT ![c] = IF s \in IsTerminal THEN Never ELSE @]
      /\ UNCHANGED <<created, nextSeq, files, workers, control, net, history>>

(* controlPoll: every job the survey calls a spawn gap becomes lost, if    *)
(* the broker still thought it open.  The queue row stays.  /control calls *)
(* this with the same body again when it stops parking.                    *)
ControlPoll ==
  /\ parked
  /\ LET hit == {c \in survey : state[c] \in {"queued", "running"}}
     IN  /\ state' = [c \in Cmds |-> IF c \in hit THEN "lost" ELSE state[c]]
         /\ killed_reason' = [c \in Cmds |->
                                IF c \in hit /\ killed_reason[c] = NoReason
                                THEN "spawn_gap" ELSE killed_reason[c]]
  /\ UNCHANGED <<exit_code, created, seq, claimed_at, nextSeq, files, workers, control, net, history>>

-----------------------------------------------------------------------------
\* The exec workers

Go(w, to, c) == pc' = [pc EXCEPT ![w] = to] /\ job' = [job EXCEPT ![w] = c]

Push(m) == net' = net \cup {m}

(* GET /next answers worker w with a command.                              *)
ClaimNext(w) ==
  /\ pc[w] = "polling"
  /\ \E c \in Cmds : TakeRow(c) /\ Go(w, "delivered", c)
  /\ UNCHANGED <<files, control, net, history>>

(* GET /next claims for a request whose sender has already given up.       *)
ClaimForNobody ==
  /\ \E c \in Cmds : TakeRow(c)
  /\ UNCHANGED <<files, workers, control, net, history>>

(* The answer never arrives; the worker polls again.                       *)
LoseNext(w) ==
  /\ pc[w] = "delivered"
  /\ Go(w, "polling", NoCmd)
  /\ UNCHANGED <<tables, files, control, net, history>>

StartJobUnmarked(w) ==  \* mutant: the marker is written, but not with O_EXCL
  /\ pc[w] = "delivered"
  /\ started_at' = [started_at EXCEPT ![job[w]] = 0]
  /\ Go(w, "starting", job[w])
  /\ UNCHANGED <<tables, pid, meta, control, net, history>>

(* O_EXCL on started_at: one worker wins ...                               *)
StartJob(w) ==
  LET c == job[w]
  IN  /\ pc[w] = "delivered"
      /\ started_at[c] = Never
      /\ started_at' = [started_at EXCEPT ![c] = 0]
      /\ Go(w, "starting", c)
      /\ UNCHANGED <<tables, pid, meta, control, net, history>>

(* ... and a duplicate delivery is ignored.                                *)
IgnoreDuplicate(w) ==
  /\ pc[w] = "delivered"
  /\ started_at[job[w]] # Never
  /\ Go(w, "polling", NoCmd)
  /\ UNCHANGED <<tables, files, control, net, history>>

(* The agent itself fails: a full disk before the marker or with it, a     *)
(* precondition (no such shell, no stdin) or a throw after it, a read that *)
(* throws while the child runs or in the last flush, when the verdict has  *)
(* been decided.  The worker says `lost` instead and moves on.             *)
GiveUp(w) ==
  LET c == job[w]
  IN  /\ \/ pc[w] = "delivered" /\ started_at[c] = Never
         \/ pc[w] = "starting"
         \/ pc[w] \in {"running", "ended"} /\ c \notin FileJobs
      /\ \E m \in LostChunks(c) : Push(m)
      /\ Go(w, "polling", NoCmd)
      /\ UNCHANGED <<tables, files, control, history>>

(* The job runs.  For a command spawn() returned a child, whose pid file   *)
(* may quietly fail to be written; a file job performs its operation and   *)
(* never writes a pid.                                                     *)
Execute(w) ==
  LET c == job[w]
  IN  /\ pc[w] = "starting"
      /\ \E written \in (IF c \in FileJobs THEN {FALSE} ELSE BOOLEAN) :
           pid' = [pid EXCEPT ![c] = written]
      /\ runs' = [runs EXCEPT ![c] = @ + 1]
      /\ Go(w, "running", c)
      /\ UNCHANGED <<tables, started_at, meta, control, net, verdicts>>

(* The end of runCommand: the verdict is decided, and meta.json records it *)
(* unless the disk is full.                                                *)
Conclude(w, possible) ==
  LET c == job[w]
  IN  /\ \E m \in possible : verdicts' = verdicts \cup {m}
      /\ \E written \in (IF c \in FileJobs THEN {FALSE} ELSE BOOLEAN) :
           meta' = [meta EXCEPT ![c] = written]
      /\ Go(w, "ended", c)
      /\ UNCHANGED <<tables, started_at, pid, control, net, runs>>

(* The child has exited, or the file operation has returned.               *)
Finish(w) == pc[w] = "running" /\ Conclude(w, Verdicts(job[w]))

(* spawn() returned an object that only emits `error`: nothing ran.        *)
SpawnError(w) ==
  /\ pc[w] = "starting" /\ job[w] \notin FileJobs
  /\ Conclude(w, LostChunks(job[w]))

(* flush while the child runs, or an early piece of the last flush.        *)
PushRunning(w) ==
  /\ pc[w] \in {"running", "ended"} /\ job[w] \notin FileJobs /\ runs[job[w]] > 0
  /\ Push(MkChunk(job[w], "running", NoExit, NoReason))
  /\ UNCHANGED <<tables, files, workers, control, history>>

(* The terminal chunk is pushed; the worker goes back to polling whether   *)
(* or not any of the attempts got through.                                 *)
PushFinal(w) ==
  /\ pc[w] = "ended"
  /\ \E m \in verdicts : m.id = job[w] /\ Push(m)
  /\ Go(w, "polling", NoCmd)
  /\ UNCHANGED <<tables, files, control, history>>

(* A worker process dies.  The control process does not start another, and *)
(* the child, in its own process group, is nobody's from then on.          *)
Crash(w) ==
  /\ pc[w] # "dead"
  /\ Cardinality({v \in Workers : pc[v] = "dead"}) < MaxCrashes
  /\ Go(w, "dead", NoCmd)
  /\ UNCHANGED <<tables, files, control, net, history>>

-----------------------------------------------------------------------------
\* The control process and the world

(* listRunning: a job with no meta.json, no pid and an old marker.         *)
SpawnGaps == {c \in Cmds : /\ ~meta[c] /\ ~pid[c]
                           /\ started_at[c] > SpawnGap}

SurveyJobs ==
  /\ ~parked
  /\ parked' = TRUE
  /\ survey' = SpawnGaps
  /\ UNCHANGED <<tables, files, workers, net, history>>

(* The /control request ends: answered, timed out or failed.               *)
ControlReturns ==
  /\ parked
  /\ parked' = FALSE
  /\ survey' = {}
  /\ UNCHANGED <<tables, files, workers, net, history>>

LoseChunk(m) ==
  /\ ChunkLoss
  /\ net' = net \ {m}
  /\ UNCHANGED <<tables, files, workers, control, history>>

Older(age, limit) == IF age = Never \/ age > limit THEN age ELSE age + 1

Tick ==
  /\ created' = [c \in Cmds |-> Older(created[c], IdemWindow)]
  /\ claimed_at' = [c \in Cmds |-> Older(claimed_at[c], ClaimRedeliver)]
  /\ started_at' = [c \in Cmds |-> Older(started_at[c], SpawnGap)]
  /\ UNCHANGED <<state, exit_code, killed_reason, seq, nextSeq, pid, meta,
                 workers, control, net, history>>

Work(w) == \/ StartJob(w) \/ IgnoreDuplicate(w) \/ GiveUp(w) \/ Execute(w) \/ SpawnError(w)
           \/ Finish(w) \/ PushFinal(w)

Next ==
  \/ \E c \in Cmds : Enqueue(c)
  \/ \E m \in net : IngestChunk(m) \/ LoseChunk(m)
  \/ ControlPoll
  \/ \E w \in Workers : ClaimNext(w) \/ LoseNext(w) \/ Work(w) \/ PushRunning(w) \/ Crash(w)
  \/ ClaimForNobody
  \/ SurveyJobs
  \/ ControlReturns
  \/ Tick

Spec == Init /\ [][Next]_vars

-----------------------------------------------------------------------------
(* What the code's scheduling justifies.  Timers fire.  A worker process   *)
(* that is alive runs on, and a child ends: every command has a timeout,   *)
(* and runCommand escalates to SIGKILL.  A free worker polls without end:  *)
(* requests already given up may win a row, and answers may be lost, but   *)
(* not every time.  A terminal chunk still on its way arrives.             *)
Fairness ==
  /\ WF_vars(Tick)
  /\ \A w \in Workers :
       /\ SF_vars(ClaimNext(w))
       /\ SF_vars(StartJob(w))
       /\ WF_vars(Work(w))
  /\ \A c \in Cmds :
       /\ WF_vars(\E m \in net : m.id = c /\ m.state \in Settled /\ IngestChunk(m))
       /\ WF_vars(\E m \in net : m.id = c /\ m.state = "lost" /\ IngestChunk(m))

FairSpec == Spec /\ Fairness

-----------------------------------------------------------------------------
\* Types

TypeOK ==
  /\ state \in [Cmds -> States]
  /\ exit_code \in [Cmds -> ExitCodes \cup {NoExit}]
  /\ killed_reason \in [Cmds -> Reasons \cup {NoReason}]
  /\ created \in [Cmds -> Ages] /\ claimed_at \in [Cmds -> Ages] /\ started_at \in [Cmds -> Ages]
  /\ seq \in [Cmds -> Nat] /\ nextSeq \in Nat \ {0}
  /\ pid \in [Cmds -> BOOLEAN] /\ meta \in [Cmds -> BOOLEAN]
  /\ pc \in [Workers -> {"polling", "delivered", "starting", "running", "ended", "dead"}]
  /\ job \in [Workers -> Cmds \cup {NoCmd}]
  /\ \A w \in Workers : job[w] = NoCmd <=> pc[w] \in {"polling", "dead"}
  /\ parked \in BOOLEAN /\ survey \subseteq Cmds
  /\ net \subseteq Chunk /\ verdicts \subseteq Chunk
  /\ runs \in [Cmds -> Nat]

-----------------------------------------------------------------------------
\* Safety

(* However often a command is delivered, and however many workers poll,    *)
(* the O_EXCL marker lets it run at most once.                             *)
AtMostOnce == \A c \in Cmds : runs[c] <= 1

(* A command on record as exited or killed did run, and both the state and *)
(* the exit code on record are those its own run ended with, whichever     *)
(* chunks were lost, repeated or overtaken on the way.                     *)
SettledIsTheRunsVerdict ==
  \A c \in Cmds : state[c] \in Settled =>
    /\ runs[c] = 1
    /\ \E v \in verdicts : v.id = c /\ v.state = state[c] /\ v.exit_code = exit_code[c]

(* The broker says `queued` exactly of the rows no worker was ever given:  *)
(* neither a survey nor a stray chunk touches a command still waiting.     *)
QueuedIffUnclaimed ==
  \A c \in Cmds : state[c] = "queued" <=> (seq[c] # 0 /\ claimed_at[c] = Never)

(* No command is first handed out while an older one has never been.       *)
FirstClaimsInOrder ==
  \A c, d \in Rows : (seq[c] < seq[d] /\ claimed_at[d] # Never) => claimed_at[c] # Never

(* Once exited or killed, a command keeps its state and exit code: neither *)
(* a redelivered claim nor a late chunk nor a stale survey reopens it.     *)
SettledForever ==
  [][\A c \in Cmds : state[c] \in Settled =>
        state'[c] = state[c] /\ exit_code'[c] = exit_code[c]]_vars

(* A recorded reason is only ever replaced by one that explains more.      *)
ReasonNeverWeakens ==
  [][\A c \in Cmds : Priority[killed_reason'[c]] >= Priority[killed_reason[c]]]_vars

-----------------------------------------------------------------------------
(* The inductive invariant behind the safety properties.                   *)

Active(w) == pc[w] \in {"starting", "running", "ended"}

QueueInv ==
  /\ \A c \in Cmds : seq[c] < nextSeq /\ (seq[c] = 0 => claimed_at[c] = Never)
  /\ \A c, d \in Rows : seq[c] = seq[d] => c = d
  /\ \A c \in Cmds : state[c] \in Settled \cup {"absent"} => seq[c] = 0

(* Nothing of the runner's knows a command that was never handed out.      *)
UntouchedInv ==
  \A c \in Cmds : state[c] \in {"absent", "queued"} =>
    /\ started_at[c] = Never
    /\ c \notin survey
    /\ \A w \in Workers : job[w] # c
    /\ \A m \in net : m.id # c

RunnerInv ==
  /\ \A w \in Workers : Active(w) => started_at[job[w]] # Never
  /\ \A v, w \in Workers : Active(v) /\ Active(w) /\ job[v] = job[w] => v = w
  /\ \A c \in Cmds : started_at[c] = Never => runs[c] = 0
  /\ \A w \in Workers : pc[w] = "starting" => runs[job[w]] = 0
  /\ \A w \in Workers : pc[w] = "running" => runs[job[w]] = 1
  /\ \A c \in survey : started_at[c] # Never

VerdictInv ==
  /\ \A v \in verdicts : started_at[v.id] # Never
  /\ \A v \in verdicts : \A w \in Workers : pc[w] \in {"starting", "running"} => job[w] # v.id
  /\ \A u, v \in verdicts : u.id = v.id => u = v
  /\ \A v \in verdicts : v.state \in Settled => runs[v.id] = 1
  /\ \A m \in net \cup verdicts : m.exit_code # NoExit => m.state \in Settled
  /\ \A m \in net : m.state \in Settled => m \in verdicts

RecordInv ==
  \A c \in Cmds :
    /\ exit_code[c] # NoExit => state[c] \in Settled
    /\ state[c] \in Settled =>
         \E v \in verdicts : v.id = c /\ v.state = state[c] /\ v.exit_code = exit_code[c]

IInv == /\ TypeOK /\ AtMostOnce /\ QueuedIffUnclaimed /\ QueueInv
        /\ UntouchedInv /\ RunnerInv /\ VerdictInv /\ RecordInv

-----------------------------------------------------------------------------
(* What the lifecycle promises a client, see CommandPromise.               *)
Asked    == {c \in Cmds : state[c] # "absent"}
Ended    == {<<v.id, v.state, v.exit_code>> : v \in {u \in verdicts : u.state \in Settled}}
Recorded == {<<c, state[c], exit_code[c]>> : c \in {d \in Cmds : state[d] \in Settled}}

Promise == INSTANCE CommandPromise WITH
  Results <- Settled \X (ExitCodes \cup {NoExit}),
  asked <- Asked, ran <- runs, ended <- Ended, recorded <- Recorded

(* Queues, claims, markers, lost and repeated messages together implement  *)
(* it: a command runs after it was asked for and at most once, ends in one *)
(* way, and what is put on record is that and never changes.               *)
KeepsPromise == Promise!Spec

-----------------------------------------------------------------------------
\* Liveness, and what the sources say that the code does not keep

(* Every command accepted is eventually reported as finished or lost.      *)
EveryCommandConcludes ==
  \A c \in Cmds : (state[c] = "queued") ~> (state[c] \in IsTerminal)

(* The worker gave up over the last flush: nobody holds the job any more,  *)
(* and its verdict was never sent.                                         *)
Abandoned(c) ==
  /\ \A w \in Workers : job[w] # c
  /\ \A m \in net : m.id = c => m.state \notin Settled

(* A run that ended is eventually on record, and as what it was: `lost`    *)
(* stands for it only if its worker threw the verdict away.                *)
EveryRunIsRecorded ==
  \A c \in Cmds : (\E v \in verdicts : v.id = c /\ v.state \in Settled)
                      ~> (state[c] \in Settled \/ (state[c] = "lost" /\ Abandoned(c)))

(* A spawn gap is reported so that the caller can be told re-running is    *)
(* safe: the first run must then never happen.                             *)
SpawnGapNeverRuns ==
  [][\A c \in Cmds : state[c] = "lost" /\ killed_reason[c] = "spawn_gap"
        => runs'[c] = runs[c]]_vars
=============================================================================
