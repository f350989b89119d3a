# Verification of gha-mcp-host

TLA+ models of the program in `../src`, TLC runs that check them on small
instances, and TLAPS proofs of the properties that matter most for every value
of the constants. `PROJECT.json` ties every definition to the lines it
translates, every property to a run, to a theorem where there is one, and to a
plausible bug (a definition marked `\* mutant`) that breaks it.

## 1. The system

An MCP client talks to the *broker* (a Cloudflare Worker, or a self-hosted
server), which starts GitHub Actions *runners* and drives them without ever
connecting to one: the runner's processes poll the broker over HTTP.

| Component | Keeps | Operations | Talks to |
|---|---|---|---|
| `EnvDO` (`broker/src/env-do.ts`), one object per environment | tables `meta`, `command`, `queue`; in memory: rings, pulls, actions | provision, setDispatch, enroll, authAgent, extend, markDestroying, markFailed, enqueue, claimNext, ingestChunk, controlPoll, requestPull, takePull, window, killCommand, setOverlay | called by the tools and by the agent lane |
| Agent lane (`index.ts`) | nothing | `/hello`, `/control`, `/next`, `/chunk`; parks long polls | EnvDO |
| Tools (`tools-*.ts`) | nothing between requests | env_*, execute, start_command, poll_job, stop_job, read_file, write_file, ... | EnvDO, GuardDO, GitHub |
| `GuardDO` (`guard-do.ts`), one object | table `creates`, circuit breaker | breaker, trip, allowEnvCreate, refundEnvCreate | env_create |
| Ring, window, cut (`ring.ts`, `env-window.ts`, `bytes.ts`) | per command a bounded ring | appendChunk, sliceRing, tailOf, readWindow, safeCut | EnvDO, poll_job |
| Self-hosted server (`broker/selfhost/`) | a lock on the data directory; per object an SQLite handle, an instance and a promise chain | request, stub call, transaction, eviction, close | takes Cloudflare's place under EnvDO and GuardDO |
| Control process (`lib/control.mjs`) | lease end, last answer | enroll, control loop, listRunning, handleAction, self-destruct | `/hello`, `/control`, the jobs' files and processes |
| Exec workers (`lib/worker.mjs`, `exec.mjs`), 1 to 8 processes | one job each; per job a directory with started_at, pid, meta.json, out.raw, the kill marker | claim, run, flush, look at the limits, escalate, conclude | `/next`, `/chunk` |
| Process tree kill (`vendor/process-utils.mjs`) | nothing | killProcessGroup: walk, first signal, SIGKILL | control process, exec workers |
| File jobs (`lib/fileop.mjs`, `lib/vendor/write-file-atomic.mjs`) | replay cache per worker, temporary files | read, write, edit, commit, sweep | run by exec workers |
| Not core | | MCP transport, schemas, results, diff, shell plans, snapshot, workflows | |

What is hard here: claims, pushes and stops travel over HTTP and so are lost,
repeated, delayed and overtaken; the broker's buffers disappear whenever its
isolate is replaced; worker processes, the control process and the broker act
concurrently and decide by timeouts and by files; a lease is known in two
places; a process tree changes while it is killed; a failed create takes back
somebody's place. `PROJECT.json` lists each hazard at its line. Per component,
correct means:

* commands: at most one execution, a truthful and final record, queue order,
  and every accepted command concludes;
* output: no false byte, no silent gap, eof only after everything, and a reader
  that reaches it unless a push was lost for good;
* lease: one token, a lease that only grows up to the cap, a runner that never
  outlives it by belief and always ends;
* writes: a file is replaced in one step, and by all of a content unless the disk
  cuts the write short; conditional on what was read, truthful answers, and a
  repetition does not write again while it is remembered;
* stops and limits: no verdict about a living process (and `lost` beside one only
  where a survey guessed or its worker let go of it), `user` only for a command
  somebody stopped, an end of the environment that leaves nothing running but
  what never got a pid file, and every run that is watched ends;
* tree kill: who stays in the group, or in the tree, dies;
* quota: failed creates burn nothing, and the cap holds in every hour;
* self-hosting: an object acts like one whose methods are single steps.

## 2. Modules

| Module | Models | State |
|---|---|---|
| `KillReason` | `kill-reason.ts` | none: a rank and the merge |
| `CommandLifecycle` | EnvDO's queue and command tables with exec workers and the control process's survey | columns of both tables; marker, pid and meta files; where each worker is; chunks in flight |
| `CommandPromise` | what `CommandLifecycle` and `KillPath` implement | asked, ran, ended, recorded |
| `OutputStream` | one command's bytes: child, flush, ring, tail, window, pull, poll_job loop | file length, pushed offset, pushes in flight, ring, tail, the client's cursor |
| `OutputPromise` | what `OutputStream` implements | length, final length, next_byte, bytes given and declared lost, eof |
| `OutputWindow` | `OutputStream` with the cut that `WindowCut` says the code makes | none of its own |
| `WindowCut` | safeCut, on every short window | none: operators on byte classes, and a terminal's reading as reference |
| `EnvLease` | env_create/extend/destroy, enroll, authAgent, the control loop | meta table, the Actions run, the runner's copy of the lease, the request under way |
| `LeasePromise` | what `EnvLease` implements | granted, offered and held end of the lease, its holder |
| `KillPath` | stop_job, the action list, handleAction, the survey of jobs without a pid file, runCommand's loop, conclusion and give-up, the runner's shutdown | records, actions, markers and pid files, control process and its survey, workers, processes and who spawned them |
| `TreeKill` | killProcessGroup beside the processes it kills | alive, parent, group; walk, found, targets |
| `FileWrite` | write_file: pre-read, write job, sha comparison, staging, rename, replay | the path, temporary files, calls, queue, workers, replay caches |
| `FilePromise` | what `FileWrite` implements | content, base of each write, writes put in place, refused, answers |
| `CreateQuota` | GuardDO and env_create's handler | rows, breaker, where each call is |
| `SelfHost` | durable.mjs and server.mjs | directory lock, handlers, records (open, generation, chain, transaction, memory), database |
| `AtomicObjects` | what `SelfHost` implements, and every other module assumes | asked, answered and applied calls |
| `MC*` | constants and symmetry for TLC | |
| `*_proofs` | theorems | |

Every EnvDO and GuardDO method is one step. On Cloudflare that is the input gate
(no method awaits anything but its own storage); self-hosted it is the promise
queue and SQLite transaction of `broker/selfhost/durable.mjs`, and there the
assumption is itself a theorem: `SelfHost` implements `AtomicObjects`. On the
runner, every file-system call whose result another process can see is a step of
its own.

**CommandLifecycle.** `Enqueue`, `TakeRow` (claimNext), `IngestChunk` and
`ControlPoll` are the broker's methods. A worker goes polling -> delivered ->
starting -> running -> ended -> polling by `ClaimNext`, `StartJob` (the O_EXCL
marker) or `IgnoreDuplicate`, `Execute`, `Finish`, `PushFinal`; `GiveUp` and
`SpawnError` are its error paths. A throw on the way to the end of a run, the
last flush included, is caught by the worker, which reports the job lost and
throws the verdict away, if there was one: `EveryRunIsRecorded` says so
(`Abandoned`). The network `net` is a set from which nothing
is removed by delivery, so every chunk may arrive again at any later time;
`LoseChunk` removes one. Times are ages that stop counting past the limit they
are compared with. Authorisation is `EnvLease`'s subject, so the environment is
taken to be ready.

**OutputStream.** Byte i of out.raw is the number i, so that a byte served at a
wrong offset shows. `FlushRunning`, `NextPiece`, `LastPiece`, `FlushFinal` are
`flush`, whose offset moves on when the push is sent; `Stale` says whether an
abandoned request may still arrive. `Window` is readWindow with all four of its
sources. A cut is any non-empty prefix (`Cuts`): `WindowCut` says what `safeCut`
really does, and `CutShowsSomething`, in `OutputWindow`, that this is one of
those. `childEnd` is a history variable: the file's length when the child
exited; what detached processes append later is bounded by `MaxLate`.
`OutputPromise` says what is left of all this for the client: it reads forward,
every byte between two polls was given or declared lost, and eof means that it
has passed the final length, which is settled after the exit and as no less than
there was by then. The text a failed
command sends as output (`failCommand`) is abstracted to an empty chunk.

**WindowCut.** A byte is one of ten classes, those that `safeCut` tells apart.
`LineEnd`, `WholeChars`, `WholeEscapes` and `SafeCut` are its steps, which look
back from the end of the window; `InSequence` and `InCharacter` read the bytes
from the left as a terminal and UTF-8 do, and are the definition it is compared
with.

**EnvLease.** Time counts from env_create. An attempt is a pair (run_id,
run_attempt); a workflow can be run again, or be run although its dispatch
seemed to fail. `Authorise` is authAgent before `/control`, `AnswerControl` the
controlPoll that answers the parked request, `Renew`, `Obey` and `LoseControl`
what the runner does with the answer. `LeasePromise` says what owner and broker
may rely on: the lease is taken once, its end moves later only and stays under
the cap, and the runner goes by an end that was granted.

**KillPath.** A stop is `KillCommand` (a list in memory), `ControlPoll` (the
list drained into the parked `/control`), `NextAction` and `MarkJob` (marker,
then the pid read from a file), `SignalJob` (to whoever holds that number by
then), a grace period and `KillJob`. Beside it the exec
worker's loop looks at exit event, marker, disk and limits in the order of the
code, latches the first reason and escalates; `Conclude` writes the verdict. Two
more actors put a command on record as over. `Survey` collects the jobs that
have a directory and no pid file, and `ControlPoll` records them as lost: such a
job may be slow to start, or be running with a pid file that could not be
written (`Spawn`), until a `Flush` of its worker or its verdict takes that back.
And a flush may throw: the worker reports the job lost and takes the next one
(`GiveUp`). What it spawned lives on, its exit event and an escalation already
under way are still attended to (`ExitEvent`, `LoopTerm`, `LoopKill` go by
`spawner`), but nobody looks at marker or limits any more. Once told to stop, a
worker pushes nothing (`Report`). Pid files not written and flushes that throw
are counted together as mishaps. Under the mapping to `CommandPromise` a command is asked for when a worker is given it, a
run ends with the exit event, and its result is the state and the latched
reason: nothing that races with the exit changes either. At
the end of the environment, or when the workflow is cancelled, the control
process kills the workers and the jobs it found in one reading of the
directory. A process group is one process here, dying at once of SIGKILL;
`TreeKill` opens it up.

**TreeKill.** Processes fork, call setsid and exit at any moment; an exiting
parent's children are adopted and belong to nobody's tree from then on. `Walk`
is one pgrep, whose order is any; then the group and each process found get
SIGTERM, and after the grace period SIGKILL, unless the caller says the root has
exited. A pgrep is taken to answer in its five seconds.

**FileWrite.** A content stands for its sha. `Check` is handleFileOp up to the
comparison, `Stage`/`Staged`/`Rename` writeAtomic with the sweep before it,
`Verify` the look afterwards, `Report` the chunk, `ReadText`/`ReadSha` the two
passes of opRead. `writeSync` may write less than it was given, and nobody looks:
`Staged` may leave the temporary file at `Part` of its content and goes on, the
rename puts that in place (`Held`), and `Verify` answers ok with a sha that
differs (`ok_differs`). So the path holds whole contents except while the last
write of all is such a one (`FileIsWhole`), and only ok with the content's own
sha says that the whole content was there (`OkMeansWritten`). `mutating` is left out: every file operation is synchronous in
its process, so the set is empty whenever one starts. `opEdit` is left out: no
tool sends it. `ExecContents` bounds what commands write into the file, and
`MaxMishaps` how many crashes, short writes and commands there are in all. Under
the mapping to `FilePromise` a write is fit between its comparison and its
rename, put in place by the rename, and closed by a result that refuses it; a
caller's answer must agree with these.

**CreateQuota.** A row of `creates` has only a timestamp; the model names it by
the call that inserted it. `AllowEnvCreate` prunes, counts and inserts,
`NewestGone` is the DELETE of a refund, which takes every row of the newest
timestamp, whoever made it. Between the handler's awaits any other call may act.

**SelfHost.** Two broker processes share a directory and its lock. A call joins
the chain of its record, runs in a transaction of two statements and one change
in memory (standing for any method that writes), and is committed, or thrown
away together with the instance. Requests end before their handlers do, records
are evicted when idle, `close` waits for requests and then for the chains, and a
process can be killed anywhere.

## 3. Runs

| Run | Instance | Shows |
|---|---|---|
| `one_command` | 1 command, 2 workers, losses, 1 crash, 2 exit codes, 2 reasons | `IInv`, `AtMostOnce`, `SettledIsTheRunsVerdict`, `SettledForever`, `ReasonNeverWeakens`, `KeepsPromise` |
| `two_commands` | 2 file jobs, 2 workers, immediate redelivery | `QueuedIffUnclaimed`, `FirstClaimsInOrder` |
| `command_liveness` | 1 command, 2 workers, fair | `EveryCommandConcludes`, `EveryRunIsRecorded` |
| `output` | 3 bytes, 1 of them after the exit, pushes of 2, ring 2, tail 1, reads of 2, losses, stale requests, 1 eviction, fair; windows of up to 5 bytes with a lookback of 2 for the cut | `ReadsAreTruthful`, `EofIsComplete`, `KeepsPromise`, `EofUnlessCutShort`, `CutShowsSomething`, `CutBreaksLittle` |
| `output_loss` | 3 bytes, a ring that holds them all, lost pushes, fair | `ReaderReachesEof` is violated |
| `lease` | lease 2, cap 4, extensions of 1 and 3, 2 hellos, 2 attempts, clock to 5, fair | `IInv`, `OneHolder`, `RunnerNeverOutbids`, `KeepsLease`, `EveryRunnerStops` |
| `kill` | 2 commands, 1 worker, 2 pids, 1 stop (of one or of all), a time limit, 1 mishap (a pid file not written or a flush that throws) | `VerdictAfterDeath`, `UserReasonIsTrue`, `EndLeavesNoProcess`, `KeepsPromise` |
| `kill_liveness` | 1 command that ignores SIGTERM, two limits, a full disk, a cancelled workflow, 1 stop, 1 loss, 1 crash, 2 mishaps, fair | `EveryRunEnds`, `StopEndsTheProcess` |
| `tree_kill` | 4 processes, two of them stubborn, setsid allowed | `IInv`, `OnlyEscapeesSurvive` |
| `file_write` | 2 calls with one content, 2 workers, a path that is absent at first, and one mishap: a crash, a write cut short, or a write of another content by a command | `StaleOnlyIfRaced`, `OkMeansWritten`, `RefusedMeansUnwritten`, `RepeatsWriteOnce`, `KeepsPromise` |
| `quota` | 3 calls, cap 2, an hour of 2 ticks, 5 ticks in all, 1 crash | `ForgottenByRefunds`, `FailuresBurnNothing`, `CapWhileNothingFails` |
| `selfhost` | 2 processes, 1 object, 2 requests of 2 calls, 1 eviction, 1 crash, fair | `IInv`, `Implements`, `EveryCallIsAnswered` |

Why the bounds are enough for the cases to happen: two workers are what a
redelivered claim needs; ages 0, 1 and "past" are all a comparison with a limit
tells apart; three bytes with ring 2 and tail 1 make gap, overlap, ring
overflow, tail shorter than ring, and skip all occur, and one eviction comes at
any of those points; a window of five bytes holds a whole character of four, or a
sequence with its end, and one byte more, and a lookback of two leaves sequences
out of sight; lease 2 with cap 4 lets an extension be granted, clamped
and useless, and the clock runs past the last possible lease; two commands and
two pids let a stop hit a neighbour, a number be used again, and a worker start a
job while the environment ends, and with one mishap a worker that has let go of
a process goes on to the next (`MCKillAll.cfg`, which takes longer than a run may
and is checked by hand, has two workers, with `IInv`); four processes are a root, a
child, a grandchild and one that is forked or adopted between two steps of the
walk; two calls with the same content make both a repetition and a race, a
command's write the sha mismatch, and one mishap comes at any step of either
(`MCFileAll.cfg`, which takes longer than a run may and is checked by hand, has one
of each, with `IInv`); three calls and a cap of two make a refusal, a
refund that takes another call's row, and a tie of two rows, and five ticks
contain two hours; two calls per request and two requests let a call wait behind
one that throws, with the record closed and opened again in between. Symmetry is
declared only for sets whose members are treated alike, and in no run with
liveness. The bounds that exist only for TLC are named as such in each module's
CONSTANTS. Deadlock is checked in the three `CommandLifecycle` runs and in
`selfhost`; in the others everything may really be over, and their cfg files
say so (`CHECK_DEADLOCK FALSE`).

**Fairness.** Timers fire: ages grow, a time limit runs out, a grace period
ends. A process that is alive runs on (workers, the control process, a
self-hosted record's chain), and one that does not ignore SIGTERM dies of it. A
child of `CommandLifecycle` ends, since every command has a timeout with
escalation to SIGKILL: that is what `kill_liveness` shows (`EveryRunEnds`), for
every run whose worker lives and does not let go of it. After a flush that
throws, a process that no limit had caught up with may live on (`TimeLimitHolds`
below); `CommandLifecycle` asks for a child's end only of a worker that waits for
it. A
free worker polls without end, so it wins a claim (strong fairness: other
requests may win in between) and not every answer is lost. A terminal chunk on
its way arrives, by the six attempts of `pushChunk`; the safety runs drop that.
The client keeps polling, and not every pull is answered too late. `brokerReq`
puts a limit on every request, so the control loop does not stand still. No
fairness is assumed of crashes, losses, clients, stops or GitHub.

### Where the code and its sources disagree

One disagreement is a run of its own: `output_loss`. When the last push fails
for good nobody repeats it, and a client that loops until eof, as the tool's
text says, loops for ever (finding in `PROJECT.json`). `EofUnlessCutShort` in
the run `output` is the promise that is kept.

The others are stated in the modules as properties, with a configuration that
is checked by hand (`tlc -config <cfg> <module>`, with `-continue` for the three
of `MCCut.cfg`) and that TLC finds violated:

| Property, configuration | The sources say | The code does |
|---|---|---|
| `SpawnGapNeverRuns`, `MCSpawnGap.cfg` | `lib/control.mjs:83-87`: a spawn gap never ran, running it again is safe | `control.mjs:107` infers it from a missing pid file; a slow worker may still run it, and one whose pid file could not be written is running it (`KillPath`, `VerdictAfterDeath`) |
| `CutKeepsSequences`, `MCCut.cfg` of `OutputWindow` | `bytes.ts:20-23`: no window boundary falls inside an escape sequence unless `forcedSplit` says so | `bytes.ts:167-174`: of a window that ends in half of a string's terminator only that ESC is withheld; a sequence that began before the lookback is cut without the flag |
| `CutKeepsCharacters`, `MCCut.cfg` | `bytes.ts:116-117`: the caller never sees a broken character | `bytes.ts:159-163`: a lead byte that ends the window has no continuation byte behind it to start the walk |
| `ForcedBySequence`, `MCCut.cfg` | `bytes.ts:71-75`, `tools-shared.ts:177-180`: only an escape sequence forces a split | `bytes.ts:163`: a whole character at the very end of the output is withheld as if it were half, and then forced |
| `ExtensionTakesEffect`, `MCLeaseExtend.cfg` | `env-do.ts:182-184, 246-248`: an extension takes effect at once, also on a lapsed lease | `env-do.ts:233, 252`: `expired`, written by any request that noticed, is never taken back |
| `ReaderSeesWholeFiles`, `MCFileShort.cfg` | `tools-fs.ts:440`: a reader sees the whole old file or the whole new one | `write-file-atomic.mjs:123`: how much `writeSync` wrote is not looked at before the rename |
| `ConditionalWrite`, `MCFileRace.cfg` | `lib/worker.mjs:9-11`, `tools-fs.ts:439`: base_sha makes the write conditional | `lib/fileop.mjs:308`: comparison and rename are two steps, and jobs run side by side |
| `RetryIsReplayed`, `MCFileRetry.cfg` | `tools-fs.ts:124-127, 441`: a retried write is replayed | `tools-fs.ts:128`: the write_id depends on what was read again |
| `StopIsAttributed`, `MCKillReason.cfg` | `control.mjs:144-145`: the marker comes first so that the reason is `user` | `exec.mjs:344`: the exit is seen before the marker |
| `StoppedNeverStarts`, `MCKillQueued.cfg` | `tools-run.ts:629`, `env-do.ts:644-648`: a stop is for a command that is not over | `control.mjs:146`: without a job directory the stop has no effect |
| `StopsOnlyItsJob`, `MCKillPid.cfg` | `tools-run.ts:629`: stops this job | `control.mjs:147`: signals whoever has the number by then |
| `EnospcIsThisCommands`, `MCKillDisk.cfg` | `exec.mjs:424`, `util.mjs:131-135`: the reason says why this command ended | `exec.mjs:354`: a full disk of an earlier command is still on record |
| `TimeLimitHolds`, `MCKillLimit.cfg` | `schemas.ts:107`: the command is killed after this many seconds | `worker.mjs:46-63`: after a flush that throws (`exec.mjs:120`) the worker goes on, and nobody looks at the limits |
| `TreeDies`, `MCTreeEscape.cfg` | `process-utils.mjs:124-125`, `tools-run.ts:669`: all descendants are killed | `process-utils.mjs:175`: who was cut off from the tree in another group is in neither list |
| `LoopKillsGroup`, `MCTreeExit.cfg` | `process-utils.mjs:123-125` | `process-utils.mjs:197`: a root that obeys SIGTERM ends the escalation for a child that does not |
| `HardCap`, `MCQuotaCap.cfg` | `guard-do.ts:9`: a hard cap per hour | `guard-do.ts:82`: a refund may take the row of a call that succeeded, in favour of a third |
| `NoDispatchWhenOpen`, `MCQuotaBreaker.cfg` | `tools-env.ts:37`, `github.ts:41-42`: nothing is dispatched while the breaker is open | `tools-env.ts:33`: it is read three awaits before the dispatch |

## 4. Proofs

For every value of the constants, under the `ASSUME` of the module, which only
gives types and orders to the constants. Each proof module shows
`Invariance`: `Spec => []IInv`, one lemma per action, and derives the rest from
it.

* `CommandLifecycle_proofs`. The safety properties are not inductive alone:
  at-most-once needs that an active worker's job has its marker and that no two
  active workers share one (`RunnerInv`); the truth of the record needs that
  every terminal chunk in flight is a verdict and a command has one verdict
  (`VerdictInv`); `queued` needs that the runner knows nothing of a row never
  handed out (`UntouchedInv`). From it: `RunsAtMostOnce`, `WaitingIsUntouched`,
  `RecordIsTrue`, `ClaimsInOrder` (which has an invariant of its own on top),
  `RecordIsFinal`, `ReasonsOnlyImprove`, and `Refinement`: the lifecycle
  implements `CommandPromise`, with asked, ran, ended and recorded computed from
  the tables and the workers' verdicts.
* `OutputStream_proofs`. `NoFalseByte`, `NoSilentGap`
  (`NothingSkippedInSilence`), `EofMeansAll`, and `Refinement`: `OutputStream`
  implements `OutputPromise`. The invariant says that ring, tail, every piece in
  flight and every pull hold the file's own bytes, that the client's cursor is
  covered by what it read and what was declared skipped (`ClientInv`), that a
  chunk that says exited carries a size measured after the exit (`Measured`),
  and that the total on record is one of those (`EndInv`). Lemmas about `Slice`,
  `LastOf` and `AppendChunk` carry the arithmetic. `CutGetsOn` and `CutBreaksOnly`
  are about `safeCut`, for windows of every length and every lookback: it shows
  something of every window, and, unless forced, breaks a character only behind
  a lead byte at the window's end and a sequence only in front of an ESC or one
  that began out of the lookback's sight. Where the code scans, the proofs take
  the last or the first position of a set of positions, which is there because
  such sets are finite.
* `EnvLease_proofs`. `EnrollOnce`, `CapHolds`, `RunnerIsBound`, `OnlyExtends`,
  and `Refinement`: `EnvLease` implements `LeasePromise`. The invariant relates
  the token to the one attempt that may hold it (`HolderInv`) and bounds the
  runner's lease and the answer under way by the broker's (`LeaseInv`).
* `FileWrite_proofs`. `NeverTorn` (`FileIsWhole`, and whole contents only where
  the disk cuts nothing short), `ConditionalUnlessRaced`, `OkIsTrue`,
  `RefusalIsTrue`, `NoTwins` (`RepeatsWriteOnce`), and `Refinement`: `FileWrite`
  implements `FilePromise`. A job is in one place (`PlaceInv`) and belongs to
  its calls' content (`JobInv`); a temporary file that is renamed is whole, or the
  disk has cut a write short (`StagingInv`); the path holds what the last write
  put there, a job writes once, and jobs whose windows are open differ
  (`HistoryInv`); a worker between comparison and rename remembers no job like
  the one it has (`MemoryInv`); what a worker saw holds until something writes
  (`SeenInv`); a job that a worker has is not on record yet (`FreshInv`), so it
  cannot be refused before and put in place after; and every result, in a
  worker, a cache or a call, is grounded in the history of writes
  (`ResultInv`).
* `KillPath_proofs`. `OverIsOver`, `UserMeansUser`, `EndIsClean`, and
  `Refinement`: `KillPath` implements `CommandPromise`. A command has
  one worker until its verdict or until that lets go of it, and meanwhile only a
  survey's guess can stand on record beside `running` (`OwnerInv`); the worker's flags and the files
  tell the truth about the process (`ProcessInv`), every marker and every action
  under way goes back to a stop (`StopInv`), at the end no worker is left and a
  living process with a pid file is on the list being killed (`EndInv`), and a
  record of an end says what was latched when the exit was seen (`RecordInv`).
* `TreeKill_proofs`. `OnlyEscapeesAreLeft`. A descendant that stays tied to the
  tree while it is walked has a parent that does, and is on a list as soon as
  the parent was asked for; so the list of those found is closed under
  parenthood when the walk ends. The tree is the least set closed under
  parenthood, which the proof uses without any recursion.
* `CreateQuota_proofs`. `RefundsSuffice`, `RefundsForget`, `CapHolds`. A refund takes a row that
  may not be its own, so no relation between calls and rows survives; what does
  is a count: from every time on, there are at most as many rows as admitted
  calls that are not refunded (`BurnInv`), because the row that goes is as young
  as any. How far the cap gives way is a count too: the creates of the last hour
  that have lost their rows are of no more moments than refunds were made, each
  refund deleting one moment's rows (`ForgottenByRefunds`). Hence `CapGivesWay`
  (`CapButForRefunds`): an hour holds at most the cap and one create for each
  refund, unless two creates share a moment.
* `SelfHost_proofs`. `Refinement`: `SelfHost` implements `AtomicObjects`, a call
  taking effect when its transaction commits. The invariant says that one
  process has the database open at a time, that an instance's memory and the
  rows agree whenever no method runs, and that what is half done is only in a
  transaction.

Only model-checked: the liveness properties `EveryCommandConcludes`,
`EveryRunIsRecorded`, `EofUnlessCutShort`, `EveryRunnerStops`, `EveryRunEnds`,
`StopEndsTheProcess` and `EveryCallIsAnswered`; fairness and ENABLED are out of
the prover's reach. Every safety property of a passing run is a theorem. The
proofs refer to each module's whole `IInv`; TLC checks it in the runs that list
it, and in `OutputStream`, `FileWrite`, `KillPath` and `CreateQuota` the runs list
the properties that follow from it. `NothingSkippedInSilence` and `FileIsWhole` are
parts of the invariants there that `KeepsPromise` covers for TLC.

## 5. Not modelled

* Shell plans (`lib/shell.mjs`), unified diff (`diff.ts`), argv quoting, MIME
  sniffing and listings, schemas and results: text in, text out, no state between requests.
* MCP transport and tool registration: request plumbing. Snapshot and status:
  read-only queries.
* Sticky cwd, overlay and chdir: one file written by one process and read by the
  next; overlay and chdir are sent by no tool. `opEdit`: sent by no tool.
* GitHub's error classification beyond the classes the handlers tell apart.
* The agent's entry point, build and workflow files, deployment.
* In modelled parts: a pgrep that fails or does not answer, Windows' taskkill,
  stripping and redaction of output (so the consequence of a broken sequence, its
  residue in the text, is not shown), line windows and encodings of read_file,
  the request signature of `/hello`, routing of the self-hosted server.

`PROJECT.json` gives the reason for each under `components`, and under `hazards`
the notes on what no property covers.

## 6. Plan

Done: `CommandLifecycle` and `KillPath` with `CommandPromise`, `OutputStream` with
`OutputPromise`, `WindowCut`, `EnvLease` with `LeasePromise`, `FileWrite` with
`FilePromise`, `TreeKill`, `CreateQuota`, `SelfHost` with `AtomicObjects`, each
with its proofs.

Left:

1. `unifiedDiff`'s counts against a reference definition, in a module that only
   TLC uses.
2. A composition of `EnvLease` with `CommandLifecycle`: a command's life across
   the end of its lease.
3. A stop of a whole tree: `KillPath` with `TreeKill`'s steps in the place of
   its one-step SIGKILL.
