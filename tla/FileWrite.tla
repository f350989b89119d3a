----------------------------- MODULE FileWrite -----------------------------
(***************************************************************************)
(* write_file, all calls that name one path.                               *)
(*                                                                         *)
(* A call reads the file, then writes it conditionally on what it read:    *)
(* two jobs in the runner's queue, run by whichever exec workers claim     *)
(* them, while commands may write the file too.  A worker does one job at  *)
(* a time, but its steps on the file system are not one: it compares the   *)
(* sha, stages a temporary file, renames it, and looks again.  The broker  *)
(* answers a write that repeats an earlier one with the earlier job, and   *)
(* so does a worker from its replay cache.                                 *)
(*                                                                         *)
(* A file's bytes are a model value, and so is their sha.  writeSync may   *)
(* write less than it was given when the disk or a quota is nearly full:   *)
(* nobody looks at what it returns.  That a job is run once however often  *)
(* it is delivered is CommandLifecycle's business.                         *)
(***************************************************************************)
EXTENDS Integers, Sequences

CONSTANTS
  Calls,      \* write_file calls
  Workers,    \* exec worker processes
  Contents,   \* what a file may hold
  Empty,      \* the empty content
  Initially,  \* what the path may hold at first
  Content,    \* the content of each call
  CallBase,   \* its base_sha argument, or NoBase
  NoBase,
  Absent,     \* no file at the path
  Part,       \* what a short write leaves of a content
  NoJob,
  MaxCrashes, \* bound: workers that may be killed
  MaxShort,   \* bound: writes cut short by the disk, 0 if it never does that
  MaxExecs,   \* bound: writes by commands
  ExecContents, \* bound: what they write
  MaxMishaps  \* bound: how many of these three in all

Parts == {Part[x] : x \in Contents}
Bytes == Contents \cup Parts

ASSUME FileAssumption ==
  /\ ExecContents \subseteq Contents
  /\ Empty \in Contents /\ Initially \subseteq Contents \cup {Absent}
  /\ {Absent, NoBase} \cap Bytes = {}
  /\ Content \in [Calls -> Contents]
  /\ CallBase \in [Calls -> Bytes \cup {NoBase}]
  /\ NoJob \notin Calls
  /\ MaxCrashes \in Nat /\ MaxExecs \in Nat /\ MaxShort \in Nat
  /\ MaxMishaps \in Nat

VARIABLES
  file,            \* the path
  tmp, old,        \* the temporary file of each write job; is it older than ORPHAN_TMP_MS?
  at, base,        \* write_file: where the call is, and the base_sha it will send
  job, answer,     \* the write job it waits for, and what it returned
  queue,           \* <<op, call>> of the jobs nobody has claimed
  window,          \* write jobs enqueue still answers a repetition with
  result,          \* the result on record of each write job
  pc, doing,       \* exec workers: step, and the call whose job it is
  seen, found,     \* its locals: how many writes had happened, what it has read or will report
  cache,           \* replayCache of each worker: write jobs it remembers, with their results
  crashes, shorts, \* how many so far
  writes           \* history: every write of the path

client == <<at, base, job, answer>>
broker == <<queue, window, result>>
disk   == <<file, tmp, old, shorts, writes>>
worker == <<pc, doing, seen, found>>
vars   == <<client, broker, disk, worker, cache, crashes>>

-----------------------------------------------------------------------------
Execs   == Len(SelectSeq(writes, LAMBDA i : i.by = NoJob))
Mishaps == crashes + shorts + Execs

Sha(bytes) == IF bytes = Absent THEN Empty ELSE bytes

(* The arguments write_id is a hash of.                                    *)
Key(c) == <<Content[c], base[c]>>

Refusals == {"sha_mismatch", "rename_locked", "not_found", "io_error"}
Oks      == {"ok", "ok_differs"}  \* sha_verified is the content's sha, or another
Results  == {"none"} \cup Oks \cup Refusals

Init ==
  /\ file \in Initially
  /\ tmp = [c \in Calls |-> "none"] /\ old = {}
  /\ at = [c \in Calls |-> "idle"]
  /\ base = [c \in Calls |-> NoBase]
  /\ job = [c \in Calls |-> NoJob] /\ answer = [c \in Calls |-> "none"]
  /\ queue = {} /\ window = {} /\ result = [c \in Calls |-> "none"]
  /\ pc = [w \in Workers |-> "polling"] /\ doing = [w \in Workers |-> NoJob]
  /\ seen = [w \in Workers |-> 0] /\ found = [w \in Workers |-> "none"]
  /\ cache = [w \in Workers |-> {}]
  /\ crashes = 0 /\ shorts = 0 /\ writes = <<>>

-----------------------------------------------------------------------------
\* The tool call

Call(c) ==
  /\ at[c] = "idle"
  /\ at' = [at EXCEPT ![c] = "reading"]
  /\ queue' = queue \cup {<<"read", c>>}
  /\ UNCHANGED <<base, job, answer, window, result, disk, worker, cache, crashes>>

(* The write is enqueued, or an earlier one with the same path, content    *)
(* and base_sha stands in for it, whatever became of that.                 *)
Submit(c) ==
  /\ at[c] = "read"
  /\ at' = [at EXCEPT ![c] = "waiting"]
  /\ \/ \E d \in window : Key(d) = Key(c) /\ job' = [job EXCEPT ![c] = d]
        /\ UNCHANGED <<queue, window>>
     \/ /\ \A d \in window : Key(d) # Key(c)
        /\ job' = [job EXCEPT ![c] = c]
        /\ queue' = queue \cup {<<"write", c>>}
        /\ window' = window \cup {c}
  /\ UNCHANGED <<base, answer, result, disk, worker, cache, crashes>>

Answer(c) ==
  /\ at[c] = "waiting" /\ result[job[c]] # "none"
  /\ at' = [at EXCEPT ![c] = "answered"]
  /\ answer' = [answer EXCEPT ![c] = result[job[c]]]
  /\ UNCHANGED <<base, job, broker, disk, worker, cache, crashes>>

(* The deadline passes, the queue has no room for the write, or its job is *)
(* reported lost: the caller is not told what became of the write.         *)
NoResult(c) ==
  /\ at[c] \in {"reading", "read", "waiting"}
  /\ at' = [at EXCEPT ![c] = "answered"]
  /\ answer' = [answer EXCEPT ![c] = "no_result"]
  /\ UNCHANGED <<base, job, broker, disk, worker, cache, crashes>>

(* The read is refused by a full queue, lost, or finds no text: "its       *)
(* failure is never fatal", the write goes ahead without what it would     *)
(* have found.                                                             *)
ReadFails(c) ==
  /\ at[c] = "reading"
  /\ at' = [at EXCEPT ![c] = "read"]
  /\ base' = [base EXCEPT ![c] = CallBase[c]]
  /\ UNCHANGED <<job, answer, broker, disk, worker, cache, crashes>>

(* idemWindowMs pass.                                                      *)
WindowCloses(c) ==
  /\ c \in window
  /\ window' = window \ {c}
  /\ UNCHANGED <<client, queue, result, disk, worker, cache, crashes>>

-----------------------------------------------------------------------------
\* The exec worker

Step(w, to, what) == pc' = [pc EXCEPT ![w] = to] /\ found' = [found EXCEPT ![w] = what]

Release(w) == doing' = [doing EXCEPT ![w] = NoJob] /\ seen' = [seen EXCEPT ![w] = 0]

Take(w, op, c) ==
  /\ pc[w] = "polling" /\ <<op, c>> \in queue
  /\ queue' = queue \ {<<op, c>>}
  /\ doing' = [doing EXCEPT ![w] = c]

(* opRead reads the text first, which the diff is made from ...            *)
ReadText(w, c) ==
  /\ Take(w, "read", c)
  /\ Step(w, "reading", IF file = Absent THEN "not_found" ELSE "none")
  /\ UNCHANGED <<client, window, result, disk, seen, cache, crashes>>

(* ... and the sha of the whole file in a second pass.  The call may have  *)
(* stopped waiting.                                                        *)
ReadSha(w) ==
  LET c == doing[w]
      read == IF found[w] = "not_found" THEN Empty ELSE Sha(file)
  IN  /\ pc[w] = "reading"
      /\ IF at[c] # "reading" THEN UNCHANGED <<at, base>>
         ELSE /\ at' = [at EXCEPT ![c] = "read"]
              /\ base' = [base EXCEPT ![c] = IF CallBase[c] # NoBase THEN CallBase[c] ELSE read]
      /\ Step(w, "polling", "none") /\ Release(w)
      /\ UNCHANGED <<job, answer, broker, disk, cache, crashes>>

RememberedByContent(w, c) ==  \* mutant: write_id leaves base_sha out
  {r \in cache[w] : Content[r[1]] = Content[c]}
RememberedByJob(w, c) ==  \* mutant: write_id is the command id
  {r \in cache[w] : r[1] = c}

Remembered(w, c) == {r \in cache[w] : Key(r[1]) = Key(c)}

CheckNothing(w, c) ==  \* mutant: base_sha is not compared
  /\ Take(w, "write", c)
  /\ seen' = [seen EXCEPT ![w] = Len(writes)]
  /\ Step(w, "checked", "none")
  /\ UNCHANGED <<client, window, result, disk, cache, crashes>>

(* A write whose write_id the worker remembers is answered as it was then; *)
(* one whose base_sha is not the file's is refused; the file's state at    *)
(* this moment is all the condition there is.                              *)
Check(w, c) ==
  /\ Take(w, "write", c)
  /\ seen' = [seen EXCEPT ![w] = Len(writes)]
  /\ IF Remembered(w, c) # {}
     THEN \E r \in Remembered(w, c) : Step(w, "answering", r[2]) /\ UNCHANGED cache
     ELSE IF base[c] \in {NoBase, Sha(file)}
     THEN Step(w, "checked", "none") /\ UNCHANGED cache
     ELSE /\ Step(w, "answering", "sha_mismatch")
          /\ cache' = [cache EXCEPT ![w] = @ \cup {<<c, "sha_mismatch">>}]
  /\ UNCHANGED <<client, window, result, disk, crashes>>

StageInPlace(w) ==  \* mutant: the target itself is opened and written
  /\ pc[w] = "checked"
  /\ tmp' = [tmp EXCEPT ![doing[w]] = "part"]
  /\ file' = Part[Content[doing[w]]]
  /\ Step(w, "staging", "none")
  /\ UNCHANGED <<client, broker, old, shorts, writes, doing, seen, cache, crashes>>

(* sweepOrphanTmp, then the temporary file is opened and written.          *)
Stage(w) ==
  /\ pc[w] = "checked"
  /\ tmp' = [c \in Calls |-> IF c = doing[w] THEN "part" ELSE IF c \in old THEN "none" ELSE tmp[c]]
  /\ old' = {}
  /\ Step(w, "staging", "none")
  /\ UNCHANGED <<client, broker, file, shorts, writes, doing, seen, cache, crashes>>

(* writeSync, fsync, close, chmod.  The number of bytes that were written  *)
(* is not looked at: a temporary file that lacks the rest counts as        *)
(* staged as well.                                                         *)
Staged(w) ==
  LET c == doing[w]
  IN  /\ pc[w] = "staging"
      /\ \/ tmp' = [tmp EXCEPT ![c] = IF @ = "part" THEN "whole" ELSE @]
            /\ UNCHANGED shorts
         \/ tmp[c] = "part" /\ Content[c] # Empty /\ shorts < MaxShort /\ Mishaps < MaxMishaps
            /\ shorts' = shorts + 1 /\ UNCHANGED tmp
      /\ Step(w, "staged", "none")
      /\ UNCHANGED <<client, broker, file, old, writes, doing, seen, cache, crashes>>

Drop(c) == tmp' = [tmp EXCEPT ![c] = "none"] /\ old' = old \ {c}

Written(c, since, bytes) == [by |-> c, over |-> Sha(file), since |-> since, put |-> bytes]

(* What the temporary file of a job holds once it is staged.               *)
Held(c) == IF tmp[c] = "whole" THEN Content[c] ELSE Part[Content[c]]

(* The rename is the commit point.  It fails if the temporary file was     *)
(* taken for an orphan.                                                    *)
Rename(w) ==
  LET c == doing[w]
  IN  /\ pc[w] = "staged"
      /\ Drop(c)
      /\ IF tmp[c] = "none"
         THEN /\ Step(w, "answering", "not_found")
              /\ cache' = [cache EXCEPT ![w] = @ \cup {<<c, "not_found">>}]
              /\ UNCHANGED <<file, writes>>
         ELSE /\ file' = Held(c)
              /\ writes' = Append(writes, Written(c, seen[w], Held(c)))
              /\ Step(w, "renamed", "none")
              /\ UNCHANGED cache
      /\ UNCHANGED <<client, broker, shorts, doing, seen, crashes>>

(* A write fails outright, or the target stays locked: nothing is          *)
(* committed.                                                              *)
StageFails(w) ==
  LET c == doing[w]
  IN  /\ pc[w] \in {"staging", "staged"}
      /\ Drop(c)
      /\ \E e \in {"rename_locked", "io_error"} :
           /\ Step(w, "answering", e)
           /\ cache' = [cache EXCEPT ![w] = @ \cup {<<c, e>>}]
      /\ UNCHANGED <<client, broker, file, shorts, writes, doing, seen, crashes>>

VerifyBlames(w) ==  \* mutant: what is found afterwards decides the answer
  LET res == IF file = Content[doing[w]] THEN "ok" ELSE "sha_mismatch"
  IN  /\ pc[w] = "renamed"
      /\ Step(w, "answering", res)
      /\ cache' = [cache EXCEPT ![w] = @ \cup {<<doing[w], res>>}]
      /\ UNCHANGED <<client, broker, disk, doing, seen, crashes>>

(* ok, with size_verified and sha_verified as they are found, which are    *)
(* compared with nothing; a throw here is not remembered.                  *)
Verify(w) ==
  LET res == IF file = Content[doing[w]] THEN "ok" ELSE "ok_differs"
  IN  /\ pc[w] = "renamed"
      /\ \/ Step(w, "answering", res) /\ cache' = [cache EXCEPT ![w] = @ \cup {<<doing[w], res>>}]
         \/ Step(w, "answering", "io_error") /\ UNCHANGED cache
      /\ UNCHANGED <<client, broker, disk, doing, seen, crashes>>

(* The terminal chunk, which may be lost, and the next poll.               *)
Report(w) ==
  /\ pc[w] = "answering"
  /\ result' \in {result, [result EXCEPT ![doing[w]] = found[w]]}
  /\ Step(w, "polling", "none") /\ Release(w)
  /\ UNCHANGED <<client, queue, window, disk, cache, crashes>>

(* RESULT_TTL_MS pass, which is longer than idemWindowMs.                  *)
CacheForgets(w) ==
  /\ \E r \in cache[w] : r[1] \notin window /\ cache' = [cache EXCEPT ![w] = @ \ {r}]
  /\ UNCHANGED <<client, broker, disk, worker, crashes>>

(* SIGKILL: the temporary file stays.                                      *)
Crash(w) ==
  /\ pc[w] # "dead" /\ crashes < MaxCrashes /\ Mishaps < MaxMishaps
  /\ crashes' = crashes + 1
  /\ Step(w, "dead", "none") /\ Release(w)
  /\ cache' = [cache EXCEPT ![w] = {}]
  /\ UNCHANGED <<client, broker, disk>>

(* A temporary file gets old, also under a worker that is merely slow.     *)
TmpAges(c) ==
  /\ tmp[c] # "none" /\ c \notin old
  /\ old' = old \cup {c}
  /\ UNCHANGED <<client, broker, file, tmp, shorts, writes, worker, cache, crashes>>

(* A command writes the file.                                              *)
ExecWrites(x) ==
  /\ x \in ExecContents
  /\ Execs < MaxExecs /\ Mishaps < MaxMishaps
  /\ file' = x
  /\ writes' = Append(writes, Written(NoJob, Len(writes), x))
  /\ UNCHANGED <<client, broker, tmp, old, shorts, worker, cache, crashes>>

Next ==
  \/ \E c \in Calls : Call(c) \/ Submit(c) \/ Answer(c) \/ NoResult(c) \/ ReadFails(c)
                     \/ WindowCloses(c) \/ TmpAges(c)
  \/ \E w \in Workers : \/ \E c \in Calls : ReadText(w, c) \/ Check(w, c)
                        \/ ReadSha(w) \/ Stage(w) \/ Staged(w) \/ Rename(w) \/ StageFails(w)
                        \/ Verify(w) \/ Report(w) \/ CacheForgets(w) \/ Crash(w)
  \/ \E x \in Contents : ExecWrites(x)

Spec == Init /\ [][Next]_vars

-----------------------------------------------------------------------------
\* Types

Steps == {"polling", "reading", "checked", "staging", "staged", "renamed", "answering", "dead"}

TypeOK ==
  /\ file \in Bytes \cup {Absent}
  /\ tmp \in [Calls -> {"none", "part", "whole"}] /\ old \subseteq Calls
  /\ at \in [Calls -> {"idle", "reading", "read", "waiting", "answered"}]
  /\ base \in [Calls -> Bytes \cup {NoBase}]
  /\ job \in [Calls -> Calls \cup {NoJob}]
  /\ answer \in [Calls -> Results \cup {"no_result"}]
  /\ queue \subseteq {"read", "write"} \X Calls /\ window \subseteq Calls
  /\ result \in [Calls -> Results]
  /\ pc \in [Workers -> Steps] /\ doing \in [Workers -> Calls \cup {NoJob}]
  /\ seen \in [Workers -> Nat] /\ found \in [Workers -> Results]
  /\ cache \in [Workers -> SUBSET (Calls \X Results)]
  /\ crashes \in Nat /\ shorts \in 0..MaxShort
  /\ writes \in Seq([by : Calls \cup {NoJob}, over : Bytes, since : Nat, put : Bytes])

-----------------------------------------------------------------------------
\* Safety

Commits == {i \in 1..Len(writes) : writes[i].by # NoJob}

(* Whatever workers crash, sweep and race: the path holds a whole content, *)
(* unless the last write of all was a job's and the disk cut it short.     *)
FileIsWhole ==
  \/ file \in Contents \cup {Absent}
  \/ /\ shorts > 0 /\ Len(writes) \in Commits
     /\ file = Part[Content[writes[Len(writes)].by]]

(* A write that depends on a sha replaces the content with that sha,       *)
(* unless another worker or a command wrote between its look and its       *)
(* rename.                                                                 *)
StaleOnlyIfRaced ==
  \A i \in Commits :
    base[writes[i].by] = NoBase \/ writes[i].over = base[writes[i].by] \/ writes[i].since < i - 1

(* A call that is told ok: its bytes were put in place, on the condition   *)
(* it had sent, by its own job or by one that stood in for it; and if the  *)
(* sha it is told is its content's, the path held all of it at some moment *)
(* from then on.                                                           *)
OkMeansWritten ==
  \A c \in Calls : answer[c] \in Oks =>
    \E i \in Commits :
      /\ Key(writes[i].by) = Key(c)
      /\ answer[c] = "ok" => \E k \in i..Len(writes) : writes[k].put = Content[c]

(* "Nothing was committed; sending the same content again is safe": a job  *)
(* whose result says so, or that the file had changed, wrote nothing.      *)
RefusedMeansUnwritten ==
  \A c \in Calls : result[c] \in {"sha_mismatch", "rename_locked", "not_found"} =>
    \A i \in Commits : writes[i].by # c

(* A write that was put in place is not put in place again by a job like   *)
(* it, in content and base_sha, that was accepted in its window, nor by a  *)
(* worker that remembers what became of it.                                *)
RepeatsWriteOnce ==
  [][\A w \in Workers : pc[w] = "staged" /\ pc'[w] = "renamed" =>
       LET c == doing[w]
       IN  \A i \in Commits : Key(writes[i].by) = Key(c) =>
             /\ ~({c, writes[i].by} \subseteq window)
             /\ \A r \in cache[w] : r[1] # writes[i].by]_vars

-----------------------------------------------------------------------------
(* The inductive invariant behind them.                                    *)

Early == {"idle", "reading", "read"}
Uncommitted == {"checked", "staging", "staged"}
Writing(w)  == pc[w] \in Uncommitted \cup {"renamed", "answering"}
Wrote(c)    == \E i \in Commits : writes[i].by = c
Unstarted(c) == \/ at[c] \in Early \/ <<"write", c>> \in queue
                \/ \E w \in Workers : pc[w] \in Uncommitted /\ doing[w] = c
Blameless   == {"sha_mismatch", "rename_locked", "not_found"}

(* A write job is in one place: not yet sent, queued, with one worker, or  *)
(* over.                                                                   *)
PlaceInv ==
  /\ \A w \in Workers : pc[w] \in {"polling", "dead"} <=> doing[w] = NoJob
  /\ \A c \in Calls : at[c] \in Early =>
       /\ <<"write", c>> \notin queue /\ c \notin window
       /\ \A w \in Workers : ~(Writing(w) /\ doing[w] = c)
  /\ \A c \in Calls :
       Unstarted(c) => /\ ~Wrote(c) /\ result[c] = "none"
                       /\ \A w \in Workers : \A r \in cache[w] : r[1] # c
  /\ \A c \in Calls : <<"write", c>> \in queue => \A w \in Workers : ~(Writing(w) /\ doing[w] = c)
  /\ \A v, w \in Workers : Writing(v) /\ Writing(w) /\ doing[v] = doing[w] => v = w

(* What a worker is about to do or to report is not on record yet.         *)
FreshInv == \A w \in Workers : Writing(w) => result[doing[w]] = "none"

(* A call waits for a job with its content and base_sha, settled by then.  *)
JobInv ==
  /\ \A c \in Calls : at[c] = "waiting" =>
       job[c] \in Calls /\ Key(job[c]) = Key(c) /\ at[job[c]] \notin Early
  /\ \A c \in Calls : answer[c] # "none" => at[c] = "answered"

(* Only a whole temporary file is renamed, unless the disk cut it short.   *)
StagingInv ==
  /\ \A w \in Workers : pc[w] = "staging" => tmp[doing[w]] \in {"part", "none"}
  /\ \A w \in Workers : pc[w] = "staged" =>
       tmp[doing[w]] \in {"whole", "none"} \/ (tmp[doing[w]] = "part" /\ shorts > 0)

(* What was put in place last is there; a job writes once, and alike jobs  *)
(* have no window in common.                                               *)
HistoryInv ==
  /\ writes # <<>> => file = writes[Len(writes)].put
  /\ \A i, k \in Commits : writes[i].by = writes[k].by => i = k
  /\ \A c, d \in window : Key(c) = Key(d) => c = d

(* A worker that is about to write remembers nothing like it.              *)
MemoryInv == \A w \in Workers : pc[w] \in Uncommitted => Remembered(w, doing[w]) = {}

(* What a worker saw still holds unless something wrote since.             *)
SeenInv ==
  \A w \in Workers : pc[w] \in Uncommitted =>
    /\ seen[w] <= Len(writes)
    /\ seen[w] = Len(writes) => base[doing[w]] \in {NoBase, Sha(file)}

(* What is remembered, about to be reported or on record is true.          *)
Grounded(c, res) ==
  /\ res \in Oks => \E i \in Commits :
       /\ Key(writes[i].by) = Key(c)
       /\ res = "ok" => \E k \in i..Len(writes) : writes[k].put = Content[c]
  /\ res \in Blameless => ~Wrote(c)

ResultInv ==
  /\ \A w \in Workers : pc[w] = "renamed" => Wrote(doing[w])
  /\ \A w \in Workers : pc[w] = "answering" => Grounded(doing[w], found[w])
  /\ \A w \in Workers : \A r \in cache[w] : Grounded(r[1], r[2])
  /\ \A c \in Calls : Grounded(c, result[c])

IInv == /\ TypeOK /\ FileIsWhole /\ StaleOnlyIfRaced /\ OkMeansWritten /\ HistoryInv /\ MemoryInv
        /\ PlaceInv /\ FreshInv /\ JobInv /\ StagingInv /\ SeenInv /\ ResultInv

-----------------------------------------------------------------------------
(* What all of it amounts to for the callers.                              *)

Settled == {c \in Calls : at[c] \notin {"idle", "reading"}}
Fit     == {doing[w] : w \in {v \in Workers : pc[v] \in Uncommitted}}
Puts    == {writes[i].by : i \in Commits}
Closed  == {c \in Calls : result[c] \in Blameless}

Promise == INSTANCE FilePromise WITH
  Short <- MaxShort > 0,
  content <- Sha(file), settled <- Settled, fit <- Fit, puts <- Puts, closed <- Closed, told <- answer

(* The steps on the file system, crashes, sweeps, replays and lost results *)
(* keep the promise: each write is put in place once at most, in one step, *)
(* after a comparison with what it depends on, and whole but for a disk    *)
(* that cuts it short; ok and the refusals mean what they say.             *)
KeepsPromise == Promise!Spec

-----------------------------------------------------------------------------
\* What the sources say that the code does not keep

(* "A reader sees the whole old file or the whole new one": a short write  *)
(* is renamed into place like a whole one.                                 *)
ReaderSeesWholeFiles == file \in Contents \cup {Absent}

(* "The queue gives us per-env serialisation for free": so nothing writes  *)
(* between a job's look and its rename, and a conditional write is one.    *)
ConditionalWrite ==
  \A i \in Commits : base[writes[i].by] \in {NoBase, writes[i].over}

(* "Identical arguments therefore replay the recorded result instead of    *)
(* writing twice": of two calls alike whose windows are both open, one     *)
(* writes.                                                                 *)
RetryIsReplayed ==
  \A i, k \in Commits :
    LET c == writes[i].by  d == writes[k].by
    IN  (c # d /\ c \in window /\ d \in window) => <<Content[c], CallBase[c]>> # <<Content[d], CallBase[d]>>
=============================================================================
