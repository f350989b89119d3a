-------------------------- MODULE FileWrite_proofs --------------------------
(***************************************************************************)
(* Proofs about FileWrite, for any number of calls, workers, contents,     *)
(* crashes, short writes and writes by commands.                           *)
(*                                                                         *)
(* The properties are not inductive; IInv adds why they hold.  A write job *)
(* is in one place (PlaceInv), so nothing commits on its behalf behind the *)
(* back of the worker that has it, and what is known of a job that is over *)
(* stays so (GroundedStep).  Hence every result that is about to be        *)
(* reported, remembered or on record is true (ResultInv), through the      *)
(* replay cache too, whose entries are shared by calls that are alike.  A  *)
(* temporary file is renamed by the worker that filled it, whole unless    *)
(* the disk cut it short (StagingInv), and what a worker compared still    *)
(* holds unless something wrote since (SeenInv).  What the path holds is   *)
(* what the last write put there, and no job writes twice (HistoryInv), so *)
(* what a worker finds when it looks again has been written, and a job     *)
(* that is about to write can share neither its window nor its worker's    *)
(* memory (MemoryInv) with one like it that has written.                   *)
(***************************************************************************)
EXTENDS FileWrite, TLAPS

USE FileAssumption

Write == [by : Calls \cup {NoJob}, over : Bytes, since : Nat, put : Bytes]

\* What the job of a worker adds to the history when it is renamed.
Entry(w) == Written(doing[w], seen[w], Held(doing[w]))

\* A write like that of c is in the history; and after it the content of c, if
\* res says that it was found there.
Backed(c, res) ==
  \E i \in Commits :
    /\ Key(writes[i].by) = Key(c)
    /\ res = "ok" => \E k \in i..Len(writes) : writes[k].put = Content[c]

-----------------------------------------------------------------------------
\* The first state satisfies the invariant.
LEMMA InitIInv == Init => IInv
<1> SUFFICES ASSUME Init PROVE IInv
  OBVIOUS
<1> USE DEF Init
<1>1. TypeOK
  BY DEF TypeOK, Results, Refusals, Oks, Steps, Bytes
<1>2. FileIsWhole /\ HistoryInv /\ MemoryInv /\ StaleOnlyIfRaced /\ OkMeansWritten
  BY DEF FileIsWhole, HistoryInv, MemoryInv, Uncommitted, StaleOnlyIfRaced, OkMeansWritten, Oks, Commits
<1>3. PlaceInv /\ FreshInv /\ JobInv /\ StagingInv /\ SeenInv /\ ResultInv
  BY DEF PlaceInv, FreshInv, JobInv, StagingInv, SeenInv, ResultInv, Grounded, Unstarted, Writing,
         Uncommitted, Wrote, Commits, Early, Blameless, Oks
<1> QED
  BY <1>1, <1>2, <1>3 DEF IInv

-----------------------------------------------------------------------------
\* A file that is not there counts as empty.
LEMMA ShaType == TypeOK => Sha(file) \in Bytes
BY DEF TypeOK, Sha, Bytes

\* What is renamed holds a content or what is left of one.
LEMMA HeldType == \A c \in Calls : Held(c) \in Bytes
BY DEF Held, Bytes, Parts

\* A worker that is neither polling nor dead has a job.
LEMMA Busy == IInv => \A w \in Workers : pc[w] \notin {"polling", "dead"} => doing[w] \in Calls
BY DEF IInv, TypeOK, PlaceInv

\* What the runs can report are results.
LEMMA ResultFact ==
  {"none", "ok", "ok_differs", "sha_mismatch", "rename_locked", "not_found", "io_error"} = Results
BY DEF Results, Refusals, Oks

\* A worker may remember one more result.
LEMMA Remember ==
  ASSUME NEW M \in [Workers -> SUBSET (Calls \X Results)], NEW w \in Workers,
         NEW c \in Calls, NEW res \in Results
  PROVE  [M EXCEPT ![w] = @ \cup {<<c, res>>}] \in [Workers -> SUBSET (Calls \X Results)]
OBVIOUS

\* ... and then remembers nothing else.
LEMMA RememberOne ==
  ASSUME NEW M \in [Workers -> SUBSET (Calls \X Results)], NEW w \in Workers, NEW x,
         NEW N, N \in {M, [M EXCEPT ![w] = @ \cup {x}]}
  PROVE  \A v \in Workers : \A r \in N[v] : r \in M[v] \/ r = x
OBVIOUS

\* Every step keeps the types.
LEMMA TypeStep == IInv /\ [Next]_vars => TypeOK'
<1> SUFFICES ASSUME IInv, [Next]_vars PROVE TypeOK'
  OBVIOUS
<1> USE DEF TypeOK, client, broker, disk, worker, Steps, Step, Release, Take, Drop
<1>0. TypeOK /\ Sha(file) \in Bytes /\ Contents \subseteq Bytes
      /\ \A r \in {"none", "sha_mismatch", "rename_locked", "not_found", "io_error"} : r \in Results
  BY ShaType, ResultFact DEF IInv, Bytes
<1>00. /\ cache \in [Workers -> SUBSET (Calls \X Results)]
       /\ {"none", "ok", "ok_differs", "sha_mismatch", "rename_locked", "not_found", "io_error"} \subseteq Results
  BY ResultFact DEF IInv
<1>1. ASSUME NEW c \in Calls, Call(c) PROVE TypeOK'
  BY <1>0, <1>1 DEF Call
<1>2. ASSUME NEW c \in Calls, Submit(c) PROVE TypeOK'
  <2>1. at' \in [Calls -> {"idle", "reading", "read", "waiting", "answered"}]
    BY <1>0, <1>2 DEF Submit
  <2>2. job' \in [Calls -> Calls \cup {NoJob}]
    <3>1. PICK d \in Calls : job' = [job EXCEPT ![c] = d]
      BY <1>0, <1>2 DEF Submit
    <3> QED
      BY <1>0, <3>1
  <2>3. queue' \subseteq {"read", "write"} \X Calls /\ window' \subseteq Calls
    BY <1>0, <1>2 DEF Submit
  <2> QED
    BY <1>0, <1>2, <2>1, <2>2, <2>3 DEF Submit
<1>3. ASSUME NEW c \in Calls, Answer(c) PROVE TypeOK'
  <2>1. job[c] \in Calls
    BY <1>3 DEF IInv, JobInv, Answer
  <2> QED
    BY <1>0, <1>3, <2>1 DEF Answer
<1>4. ASSUME NEW c \in Calls, NoResult(c) PROVE TypeOK'
  BY <1>0, <1>4 DEF NoResult
<1>5. ASSUME NEW c \in Calls, ReadFails(c) PROVE TypeOK'
  BY <1>0, <1>5 DEF ReadFails
<1>6. ASSUME NEW c \in Calls, WindowCloses(c) PROVE TypeOK'
  BY <1>0, <1>6 DEF WindowCloses
<1>7. ASSUME NEW c \in Calls, TmpAges(c) PROVE TypeOK'
  BY <1>0, <1>7 DEF TmpAges
<1>8. ASSUME NEW w \in Workers, NEW c \in Calls, ReadText(w, c) PROVE TypeOK'
  BY <1>0, <1>8 DEF ReadText
<1>9. ASSUME NEW w \in Workers, ReadSha(w) PROVE TypeOK'
  <2>1. doing[w] \in Calls
    BY <1>9, Busy DEF ReadSha
  <2>2. CASE at[doing[w]] # "reading"
    BY <1>0, <1>9, <2>2 DEF ReadSha
  <2>3. CASE at[doing[w]] = "reading"
    <3> DEFINE read == IF found[w] = "not_found" THEN Empty ELSE Sha(file)
    <3>1. at' = [at EXCEPT ![doing[w]] = "read"]
          /\ base' = [base EXCEPT ![doing[w]] = IF CallBase[doing[w]] # NoBase
                                               THEN CallBase[doing[w]] ELSE read]
      BY <1>9, <2>3 DEF ReadSha
    <3>2. read \in Bytes
      BY <1>0
    <3> HIDE DEF read
    <3>3. base' \in [Calls -> Bytes \cup {NoBase}]
      BY <1>0, <2>1, <3>1, <3>2
    <3>4. at' \in [Calls -> {"idle", "reading", "read", "waiting", "answered"}]
      BY <1>0, <2>1, <3>1
    <3> QED
      BY <1>0, <1>9, <3>3, <3>4 DEF ReadSha
  <2> QED
    BY <2>2, <2>3
<1>10. ASSUME NEW w \in Workers, NEW c \in Calls, Check(w, c) PROVE TypeOK'
  <2>1. queue' \subseteq {"read", "write"} \X Calls /\ doing' \in [Workers -> Calls \cup {NoJob}]
    BY <1>0, <1>10 DEF Check
  <2>2. seen' \in [Workers -> Nat]
    BY <1>0, <1>10 DEF Check
  <2>3. PICK to \in Steps, res \in Results :
          Step(w, to, res) /\ (cache' = cache \/ cache' = [cache EXCEPT ![w] = @ \cup {<<c, "sha_mismatch">>}])
    <3>1. CASE Remembered(w, c) # {}
      <4>1. PICK r \in Remembered(w, c) : Step(w, "answering", r[2]) /\ UNCHANGED cache
        BY <1>10, <3>1 DEF Check
      <4>2. r[2] \in Results
        BY <1>0 DEF Remembered
      <4> QED
        BY <4>1, <4>2
    <3>2. CASE Remembered(w, c) = {}
      BY <1>10, <1>00, <3>2 DEF Check
    <3> QED
      BY <3>1, <3>2
  <2>4. pc' \in [Workers -> Steps] /\ found' \in [Workers -> Results]
    BY <1>0, <2>3
  <2>5. cache' \in [Workers -> SUBSET (Calls \X Results)]
    BY <1>00, <2>3, Remember
  <2> QED
    BY <1>0, <1>10, <2>1, <2>2, <2>4, <2>5 DEF Check
<1>11. ASSUME NEW w \in Workers, Stage(w) PROVE TypeOK'
  BY <1>0, <1>11 DEF Stage
<1>12. ASSUME NEW w \in Workers, Staged(w) PROVE TypeOK'
  <2>1. tmp' \in [Calls -> {"none", "part", "whole"}]
    <3>1. tmp' \in {tmp, [tmp EXCEPT ![doing[w]] = IF @ = "part" THEN "whole" ELSE @]}
      BY <1>12 DEF Staged
    <3>2. tmp \in [Calls -> {"none", "part", "whole"}]
      BY <1>0
    <3> HIDE DEF TypeOK
    <3> QED
      BY <3>1, <3>2
  <2>2. shorts' \in 0..MaxShort
    BY <1>0, <1>12 DEF Staged
  <2> QED
    BY <1>0, <1>12, <2>1, <2>2 DEF Staged
<1>13. ASSUME NEW w \in Workers, Rename(w) PROVE TypeOK'
  <2>1. doing[w] \in Calls
    BY <1>0, <1>13, Busy DEF Rename
  <2>2. tmp' \in [Calls -> {"none", "part", "whole"}] /\ old' \subseteq Calls
    BY <1>0, <1>13, <2>1 DEF Rename
  <2>3. Held(doing[w]) \in Bytes /\ Entry(w) \in Write
    BY <1>0, <2>1, HeldType DEF Entry, Written, Write
  <2>4. CASE tmp[doing[w]] = "none"
    <3>1. Step(w, "answering", "not_found")
          /\ cache' = [cache EXCEPT ![w] = @ \cup {<<doing[w], "not_found">>}]
      BY <1>13, <2>4 DEF Rename
    <3>2. cache' \in [Workers -> SUBSET (Calls \X Results)]
      <4>1. PICK c \in Calls : c = doing[w]
        BY <2>1
      <4> QED
        BY <1>00, <3>1, <4>1, Remember
    <3>3. pc' \in [Workers -> Steps] /\ found' \in [Workers -> Results]
      BY <1>0, <1>00, <3>1
    <3> QED
      BY <1>0, <1>13, <2>2, <2>4, <3>2, <3>3 DEF Rename
  <2>5. CASE tmp[doing[w]] # "none"
    <3>1. file' = Held(doing[w]) /\ writes' = Append(writes, Entry(w))
          /\ Step(w, "renamed", "none") /\ cache' = cache
      BY <1>13, <2>5 DEF Rename, Entry
    <3>2. writes' \in Seq(Write)
      BY <1>0, <2>3, <3>1 DEF Write
    <3>3. pc' \in [Workers -> Steps] /\ found' \in [Workers -> Results]
      BY <1>0, <3>1
    <3> QED
      BY <1>0, <1>13, <2>2, <2>3, <3>1, <3>2, <3>3 DEF Rename, Write
  <2> QED
    BY <2>4, <2>5
<1>14. ASSUME NEW w \in Workers, StageFails(w) PROVE TypeOK'
  <2>1. doing[w] \in Calls
    BY <1>14, Busy DEF StageFails
  <2> QED
    BY <1>0, <1>14, <2>1 DEF StageFails
<1>15. ASSUME NEW w \in Workers, Verify(w) PROVE TypeOK'
  <2>1. doing[w] \in Calls
    BY <1>15, Busy DEF Verify
  <2>2. PICK res \in Results : /\ Step(w, "answering", res)
                               /\ cache' \in {cache, [cache EXCEPT ![w] = @ \cup {<<doing[w], res>>}]}
    BY <1>15, <1>00 DEF Verify
  <2>3. pc' \in [Workers -> Steps] /\ found' \in [Workers -> Results]
    BY <1>0, <2>2
  <2>4. cache' \in [Workers -> SUBSET (Calls \X Results)]
    <3>1. PICK c \in Calls : c = doing[w]
      BY <2>1
    <3> QED
      BY <1>00, <2>2, <3>1, Remember
  <2> QED
    BY <1>0, <1>15, <2>3, <2>4 DEF Verify
<1>16. ASSUME NEW w \in Workers, Report(w) PROVE TypeOK'
  BY <1>0, <1>16 DEF Report
<1>17. ASSUME NEW w \in Workers, CacheForgets(w) PROVE TypeOK'
  BY <1>0, <1>17 DEF CacheForgets
<1>18. ASSUME NEW w \in Workers, Crash(w) PROVE TypeOK'
  BY <1>0, <1>18 DEF Crash
<1>19. ASSUME NEW x \in Contents, ExecWrites(x) PROVE TypeOK'
  <2>1. Written(NoJob, Len(writes), x) \in Write
    BY <1>0 DEF Written, Write
  <2>2. writes' \in Seq(Write)
    BY <1>0, <1>19, <2>1 DEF ExecWrites, Write
  <2> QED
    BY <1>0, <1>19, <2>2 DEF ExecWrites, Write
<1>20. CASE UNCHANGED vars
  BY <1>0, <1>20 DEF vars
<1> QED
  BY <1>1, <1>2, <1>3, <1>4, <1>5, <1>6, <1>7, <1>8, <1>9, <1>10, <1>11, <1>12, <1>13, <1>14,
     <1>15, <1>16, <1>17, <1>18, <1>19, <1>20 DEF Next

-----------------------------------------------------------------------------
\* Once a call has its base_sha it keeps it, and it does not go back.
LEMMA SettledStep ==
  IInv /\ [Next]_vars => \A c \in Calls : at[c] \notin Early =>
                            at'[c] \notin Early /\ base'[c] = base[c] /\ Key(c)' = Key(c)
<1> SUFFICES ASSUME IInv, [Next]_vars, NEW c \in Calls, at[c] \notin Early
             PROVE  at'[c] \notin Early /\ base'[c] = base[c] /\ Key(c)' = Key(c)
  OBVIOUS
<1>1. at'[c] \notin Early /\ base'[c] = base[c]
  <2>0. /\ at \in [Calls -> {"idle", "reading", "read", "waiting", "answered"}]
        /\ base \in [Calls -> Bytes \cup {NoBase}]
    BY DEF IInv, TypeOK
  <2>1. ASSUME NEW d \in Calls, Call(d) \/ ReadFails(d) PROVE at'[c] \notin Early /\ base'[c] = base[c]
    <3>1. d # c
      BY <2>1 DEF Call, ReadFails, Early
    <3>2. at'[c] = at[c] /\ base'[c] = base[c]
      BY <2>0, <2>1, <3>1 DEF Call, ReadFails
    <3> QED
      BY <3>2
  <2>2. ASSUME NEW d \in Calls, Submit(d) \/ Answer(d) \/ NoResult(d)
        PROVE  at'[c] \notin Early /\ base'[c] = base[c]
    <3>1. at' \in {[at EXCEPT ![d] = "waiting"], [at EXCEPT ![d] = "answered"]} /\ base' = base
      BY <2>2 DEF Submit, Answer, NoResult
    <3> QED
      BY <2>0, <3>1 DEF Early
  <2>3. ASSUME NEW w \in Workers, ReadSha(w) PROVE at'[c] \notin Early /\ base'[c] = base[c]
    <3>1. CASE at[doing[w]] # "reading"
      BY <2>3, <3>1 DEF ReadSha
    <3>2. CASE at[doing[w]] = "reading"
      <4>1. PICK b : /\ at' = [at EXCEPT ![doing[w]] = "read"]
                     /\ base' = [base EXCEPT ![doing[w]] = b]
        BY <2>3, <3>2 DEF ReadSha
      <4>2. doing[w] # c
        BY <3>2 DEF Early
      <4> QED
        BY <2>0, <4>1, <4>2
    <3> QED
      BY <3>1, <3>2
  <2>4. \/ \E d \in Calls : Call(d) \/ ReadFails(d)
        \/ \E d \in Calls : Submit(d) \/ Answer(d) \/ NoResult(d)
        \/ \E w \in Workers : ReadSha(w)
        \/ UNCHANGED <<at, base>>
    BY DEF Next, vars, client, WindowCloses, TmpAges, ReadText, Check, Stage, Staged, Rename,
           StageFails, Verify, Report, CacheForgets, Crash, ExecWrites
  <2> QED
    BY <2>1, <2>2, <2>3, <2>4
<1> QED
  BY <1>1 DEF Key

\* Only two actions write the path, and they add to its history.
LEMMA HistoryStep ==
  [Next]_vars => \/ UNCHANGED <<writes, file>>
                 \/ \E w \in Workers : Rename(w)
                 \/ \E x \in Contents : ExecWrites(x)
BY DEF Next, vars, disk, Call, Submit, Answer, NoResult, ReadFails, WindowCloses, TmpAges,
       ReadText, ReadSha, Check, Stage, Staged, StageFails, Verify, Report, CacheForgets, Crash

Renames(w) == Rename(w) /\ tmp[doing[w]] # "none"

\* What they add.
LEMMA EntryType ==
  IInv => \A w \in Workers : doing[w] \in Calls =>
            /\ Entry(w) \in Write /\ Entry(w).by = doing[w] /\ Entry(w).over = Sha(file)
            /\ Entry(w).since = seen[w] /\ Entry(w).put = Held(doing[w])
<1> SUFFICES ASSUME IInv, NEW w \in Workers, doing[w] \in Calls
             PROVE  /\ Entry(w) \in Write /\ Entry(w).by = doing[w] /\ Entry(w).over = Sha(file)
                    /\ Entry(w).since = seen[w] /\ Entry(w).put = Held(doing[w])
  OBVIOUS
<1>1. Sha(file) \in Bytes /\ Held(doing[w]) \in Bytes /\ seen[w] \in Nat
  BY ShaType, HeldType DEF IInv, TypeOK
<1> QED
  BY <1>1 DEF Entry, Written, Write

LEMMA AppendFact ==
  ASSUME IInv, [Next]_vars, ~UNCHANGED <<writes, file>>
  PROVE  \E r \in Write :
           /\ writes' = Append(writes, r) /\ r.over = Sha(file) /\ file' = r.put
           /\ \/ r.by = NoJob /\ r.put \in Contents /\ \E x \in Contents : ExecWrites(x)
              \/ \E w \in Workers : Renames(w) /\ r = Entry(w) /\ doing[w] \in Calls
<1>0. TypeOK /\ Sha(file) \in Bytes /\ Len(writes) \in Nat
  BY ShaType DEF IInv, TypeOK
<1>1. ASSUME NEW w \in Workers, Rename(w)
      PROVE  /\ Renames(w) /\ Entry(w) \in Write /\ Entry(w).over = Sha(file)
             /\ writes' = Append(writes, Entry(w)) /\ file' = Entry(w).put
             /\ doing[w] \in Calls
  <2>1. doing[w] \in Calls
    BY <1>1, Busy DEF Rename
  <2>2. Renames(w)
    BY <1>1 DEF Rename, Renames
  <2>3. /\ Entry(w) \in Write /\ Entry(w).over = Sha(file) /\ Entry(w).put = Held(doing[w])
    BY <2>1, EntryType
  <2>4. writes' = Append(writes, Entry(w)) /\ file' = Held(doing[w])
    BY <1>1, <2>2 DEF Rename, Renames, Entry
  <2> QED
    BY <2>1, <2>2, <2>3, <2>4
<1>2. ASSUME NEW x \in Contents, ExecWrites(x)
      PROVE  \E r \in Write : /\ writes' = Append(writes, r) /\ r.over = Sha(file)
                              /\ r.by = NoJob /\ r.put \in Contents /\ file' = r.put
  <2> DEFINE r == Written(NoJob, Len(writes), x)
  <2>1. r \in Write /\ r.over = Sha(file) /\ r.by = NoJob /\ r.put = x
    BY <1>0 DEF Write, Written, Bytes
  <2>2. writes' = Append(writes, r) /\ file' = x
    BY <1>2 DEF ExecWrites
  <2> HIDE DEF r
  <2> QED
    BY <2>1, <2>2
<1>4. CASE \E w \in Workers : Rename(w)
  BY <1>1, <1>4
<1>5. CASE \E x \in Contents : ExecWrites(x)
  BY <1>2, <1>5
<1> QED
  BY <1>4, <1>5, HistoryStep

\* What an appended record does to the indices.
LEMMA AppendIndex ==
  ASSUME NEW q \in Seq(Write), NEW r \in Write
  PROVE  /\ Len(Append(q, r)) = Len(q) + 1 /\ Append(q, r)[Len(q) + 1] = r
         /\ \A i \in 1..Len(q) : Append(q, r)[i] = q[i]
OBVIOUS

\* Commits stay, and only a rename adds one.
LEMMA CommitStep ==
  ASSUME IInv, [Next]_vars
  PROVE  /\ \A i \in Commits : i \in Commits' /\ writes'[i] = writes[i] /\ writes[i].by \in Calls
         /\ \A w \in Workers : Renames(w) => Wrote(doing[w])'
         /\ \A i \in Commits' : \/ i \in Commits /\ writes'[i] = writes[i]
                               \/ /\ i = Len(writes) + 1
                                  /\ \E w \in Workers : Renames(w) /\ writes'[i] = Entry(w)
<1>1. writes \in Seq(Write)
  BY DEF IInv, TypeOK, Write
<1>2. \A i \in Commits : i \in 1..Len(writes) /\ writes[i].by \in Calls
  <2> SUFFICES ASSUME NEW i \in Commits PROVE i \in 1..Len(writes) /\ writes[i].by \in Calls
    OBVIOUS
  <2>1. i \in 1..Len(writes) /\ writes[i].by # NoJob
    BY DEF Commits
  <2>2. writes[i] \in Write
    BY <1>1, <2>1
  <2> QED
    BY <2>1, <2>2 DEF Write
<1>3. CASE UNCHANGED <<writes, file>>
  <2>1. \A w \in Workers : ~Renames(w)
    <3> SUFFICES ASSUME NEW w \in Workers, Renames(w) PROVE FALSE
      OBVIOUS
    <3>1. writes' = Append(writes, Entry(w))
      BY DEF Renames, Rename, Entry
    <3>2. Len(writes') = Len(writes) + 1
      <4>1. Entry(w) \in Write
        BY Busy, EntryType DEF Renames, Rename
      <4> QED
        BY <1>1, <3>1, <4>1, AppendIndex
    <3> QED
      BY <1>1, <1>3, <3>2
  <2> QED
    BY <1>2, <1>3, <2>1 DEF Commits
<1>4. CASE ~UNCHANGED <<writes, file>>
  <2>1. PICK r \in Write :
           /\ writes' = Append(writes, r)
           /\ \/ r.by = NoJob /\ \E x \in Contents : ExecWrites(x)
              \/ \E w \in Workers : Renames(w) /\ r = Entry(w) /\ doing[w] \in Calls
    BY <1>4, AppendFact
  <2>2. /\ Len(writes') = Len(writes) + 1 /\ writes'[Len(writes) + 1] = r
        /\ \A i \in 1..Len(writes) : writes'[i] = writes[i]
    BY <1>1, <2>1, AppendIndex
  <2>3. Len(writes) \in Nat
    BY <1>1
  <2>4. \A i \in Commits : i \in Commits' /\ writes'[i] = writes[i] /\ writes[i].by \in Calls
    BY <1>2, <2>2, <2>3 DEF Commits
  <2>5. \A w \in Workers : Renames(w) => Wrote(doing[w])'
    <3> SUFFICES ASSUME NEW w \in Workers, Renames(w) PROVE Wrote(doing[w])'
      OBVIOUS
    <3>1. doing[w] \in Calls
      BY Busy DEF Renames, Rename
    <3>2. Entry(w) \in Write /\ Entry(w).by = doing[w]
      BY <3>1, EntryType
    <3>3. writes' = Append(writes, Entry(w)) /\ doing' = doing
      BY DEF Renames, Rename, Entry
    <3>4. writes'[Len(writes) + 1] = Entry(w)
      BY <1>1, <3>2, <3>3, AppendIndex
    <3>5. Len(writes) + 1 \in Commits'
      BY <2>2, <2>3, <3>1, <3>2, <3>4 DEF Commits
    <3> QED
      BY <3>2, <3>3, <3>4, <3>5 DEF Wrote
  <2>6. \A i \in Commits' : \/ i \in Commits /\ writes'[i] = writes[i]
                          \/ /\ i = Len(writes) + 1
                             /\ \E w \in Workers : Renames(w) /\ writes'[i] = Entry(w)
    <3> SUFFICES ASSUME NEW i \in Commits', i \notin Commits \/ writes'[i] # writes[i]
                 PROVE  i = Len(writes) + 1 /\ \E w \in Workers : Renames(w) /\ writes'[i] = Entry(w)
      OBVIOUS
    <3>1. i \in 1..(Len(writes) + 1) /\ writes'[i].by # NoJob
      BY <2>2 DEF Commits
    <3>2. i = Len(writes) + 1
      BY <2>2, <2>3, <3>1 DEF Commits
    <3> QED
      BY <2>1, <2>2, <3>1, <3>2
  <2> QED
    BY <2>4, <2>5, <2>6
<1> QED
  BY <1>3, <1>4

\* Only a call that was submitted can have written.
LEMMA WroteFact == IInv => \A c \in Calls : Wrote(c) => at[c] \notin Early
BY DEF IInv, PlaceInv, Unstarted

\* Who wrote, has written; nobody else did but by a rename.
LEMMA WroteStep ==
  ASSUME IInv, [Next]_vars
  PROVE  \A c \in Calls : /\ Wrote(c) => Wrote(c)'
                         /\ Wrote(c)' => Wrote(c) \/ \E w \in Workers : Renames(w) /\ doing[w] = c
<1>1. \A w \in Workers : Entry(w).by = doing[w]
  BY DEF Entry, Written
<1> QED
  BY <1>1, CommitStep DEF Wrote

\* Entries of the history stay.
LEMMA EntriesStay ==
  ASSUME IInv, [Next]_vars
  PROVE  Len(writes) <= Len(writes') /\ \A k \in 1..Len(writes) : writes'[k] = writes[k]
<1>1. writes \in Seq(Write) /\ Len(writes) \in Nat
  BY DEF IInv, TypeOK, Write
<1>2. CASE UNCHANGED <<writes, file>>
  BY <1>1, <1>2
<1>3. CASE ~UNCHANGED <<writes, file>>
  <2>1. PICK r \in Write : writes' = Append(writes, r)
    BY <1>3, AppendFact
  <2>2. Len(writes') = Len(writes) + 1 /\ \A k \in 1..Len(writes) : writes'[k] = writes[k]
    BY <1>1, <2>1, AppendIndex
  <2> QED
    BY <1>1, <2>2
<1> QED
  BY <1>2, <1>3

\* What backs a result of a call backs it for good.
LEMMA BackedStep ==
  ASSUME IInv, [Next]_vars, NEW c \in Calls, at[c] \notin Early, NEW res, Backed(c, res)
  PROVE  Backed(c, res)'
<1>1. PICK i \in Commits : /\ Key(writes[i].by) = Key(c)
                           /\ res = "ok" => \E k \in i..Len(writes) : writes[k].put = Content[c]
  BY DEF Backed
<1>2. i \in Commits' /\ writes'[i] = writes[i] /\ writes[i].by \in Calls
  BY CommitStep
<1>3. at[writes[i].by] \notin Early
  <2>1. Wrote(writes[i].by)
    BY DEF Wrote
  <2> QED
    BY <1>2, <2>1, WroteFact
<1>4. Key(c)' = Key(c) /\ base'[writes[i].by] = base[writes[i].by]
  BY <1>2, <1>3, SettledStep
<1>5. Key(writes[i].by)' = Key(writes[i].by)
  BY <1>2, <1>4 DEF Key
<1>6. Key(writes[i].by)' = Key(c)'
  BY <1>1, <1>4, <1>5
<1>7. ASSUME res = "ok" PROVE \E k \in i..Len(writes') : writes'[k].put = Content[c]
  <2>1. PICK k \in i..Len(writes) : writes[k].put = Content[c]
    BY <1>1, <1>7
  <2>2. Len(writes) \in Nat /\ Len(writes') \in Nat /\ i \in 1..Len(writes)
    BY TypeStep DEF IInv, TypeOK, Commits
  <2>3. k \in i..Len(writes') /\ writes'[k] = writes[k]
    BY <2>2, EntriesStay
  <2> QED
    BY <2>1, <2>3
<1> QED
  BY <1>2, <1>6, <1>7 DEF Backed

-----------------------------------------------------------------------------
\* A write job stays in one place.
LEMMA PlaceStep == IInv /\ [Next]_vars => PlaceInv'
<1> SUFFICES ASSUME IInv, [Next]_vars PROVE PlaceInv'
  OBVIOUS
<1>0. TypeOK /\ PlaceInv
  BY DEF IInv
<1>w. \A c \in Calls : Wrote(c)' => Wrote(c) \/ \E w \in Workers : Renames(w) /\ doing[w] = c
  BY WroteStep
<1>r. \A w \in Workers : Renames(w) => pc[w] = "staged" /\ pc'[w] = "renamed"
  BY <1>0 DEF Renames, Rename, Step, TypeOK
<1> USE DEF PlaceInv, Unstarted, Writing, Uncommitted, Early, TypeOK, Steps, client, broker, disk, worker,
            Step, Release, Take
<1>p. ASSUME NEW w \in Workers, doing[w] \in Calls, pc[w] \in {"staging", "staged", "renamed"},
             NEW to \in {"renamed", "answering"}, pc' = [pc EXCEPT ![w] = to],
             UNCHANGED <<doing, at, queue, window, result>>,
             \A v \in Workers : \A r \in cache'[v] : r \in cache[v] \/ r[1] = doing[w],
             \A d \in Calls : Wrote(d)' => Wrote(d) \/ d = doing[w]
      PROVE  PlaceInv'
  <2>1. \A v \in Workers \ {w} : pc'[v] = pc[v]
    BY <1>0, <1>p
  <2>2. pc'[w] = to
    BY <1>0, <1>p
  <2>3. /\ at[doing[w]] \notin Early /\ <<"write", doing[w]>> \notin queue
        /\ \A v \in Workers \ {w} : ~(Writing(v) /\ doing[v] = doing[w])
    BY <1>0, <1>p
  <2>4. \A d \in Calls : d = doing[w] => ~Unstarted(d)'
    BY <1>0, <1>p, <2>1, <2>2, <2>3
  <2>5. \A d \in Calls : Unstarted(d)' => Unstarted(d)
    BY <1>0, <1>p, <2>1, <2>2
  <2>6. \A d \in Calls :
          Unstarted(d)' => /\ ~Wrote(d)' /\ result'[d] = "none"
                           /\ \A v \in Workers : \A r \in cache'[v] : r[1] # d
    <3> SUFFICES ASSUME NEW d \in Calls, Unstarted(d)'
                 PROVE  /\ ~Wrote(d)' /\ result'[d] = "none"
                        /\ \A v \in Workers : \A r \in cache'[v] : r[1] # d
      OBVIOUS
    <3> HIDE DEF Unstarted
    <3>1. d # doing[w] /\ Unstarted(d)
      BY <2>4, <2>5
    <3>2. /\ ~Wrote(d) /\ result[d] = "none"
          /\ \A v \in Workers : \A r \in cache[v] : r[1] # d
      BY <1>0, <3>1
    <3> QED
      BY <1>p, <3>1, <3>2
  <2>7. \A v \in Workers : Writing(v)' => Writing(v)
    BY <1>p, <2>1
  <2>8. \A v \in Workers : pc'[v] \in {"polling", "dead"} <=> doing'[v] = NoJob
    BY <1>0, <1>p, <2>1, <2>2
  <2> QED
    BY <1>0, <1>p, <2>6, <2>7, <2>8
<1>1. ASSUME NEW c \in Calls, Call(c) PROVE PlaceInv'
  BY <1>0, <1>w, <1>r, <1>1 DEF Call
<1>2. ASSUME NEW c \in Calls, Submit(c) PROVE PlaceInv'
  <2>1. /\ at[c] = "read" /\ at' = [at EXCEPT ![c] = "waiting"]
        /\ \/ UNCHANGED <<queue, window>>
           \/ queue' = queue \cup {<<"write", c>>} /\ window' = window \cup {c}
        /\ UNCHANGED <<result, writes, pc, doing, cache>>
    BY <1>2 DEF Submit
  <2>2. \A d \in Calls : Wrote(d)' => Wrote(d)
    BY <1>w, <1>r, <2>1
  <2>3. \A d \in Calls : Unstarted(d)' => Unstarted(d)
    BY <1>0, <2>1
  <2>4. \A d \in Calls : Unstarted(d)' => /\ ~Wrote(d)' /\ result'[d] = "none"
                                         /\ \A v \in Workers : \A r \in cache'[v] : r[1] # d
    <3> HIDE DEF Unstarted
    <3> QED
      BY <1>0, <2>1, <2>2, <2>3
  <2>5. \A v \in Workers : ~(Writing(v) /\ doing[v] = c)
    BY <1>0, <2>1
  <2> QED
    BY <1>0, <2>1, <2>4, <2>5
<1>3. ASSUME NEW c \in Calls, Answer(c) PROVE PlaceInv'
  BY <1>0, <1>w, <1>r, <1>3 DEF Answer
<1>4. ASSUME NEW c \in Calls, NoResult(c) PROVE PlaceInv'
  BY <1>0, <1>w, <1>r, <1>4 DEF NoResult
<1>5. ASSUME NEW c \in Calls, ReadFails(c) PROVE PlaceInv'
  BY <1>0, <1>w, <1>r, <1>5 DEF ReadFails
<1>6. ASSUME NEW c \in Calls, WindowCloses(c) PROVE PlaceInv'
  BY <1>0, <1>w, <1>r, <1>6 DEF WindowCloses
<1>7. ASSUME NEW c \in Calls, TmpAges(c) PROVE PlaceInv'
  BY <1>0, <1>w, <1>r, <1>7 DEF TmpAges
<1>8. ASSUME NEW w \in Workers, NEW c \in Calls, ReadText(w, c) PROVE PlaceInv'
  BY <1>0, <1>w, <1>r, <1>8 DEF ReadText
<1>9. ASSUME NEW w \in Workers, ReadSha(w) PROVE PlaceInv'
  BY <1>0, <1>w, <1>r, <1>9 DEF ReadSha
<1>10. ASSUME NEW w \in Workers, NEW c \in Calls, Check(w, c) PROVE PlaceInv'
  <2>1. /\ pc[w] = "polling" /\ <<"write", c>> \in queue
        /\ queue' = queue \ {<<"write", c>>} /\ doing' = [doing EXCEPT ![w] = c]
        /\ UNCHANGED <<at, window, result, writes>>
    BY <1>10 DEF Check
  <2>2. \/ pc' = [pc EXCEPT ![w] = "checked"] /\ cache' = cache
        \/ /\ pc' = [pc EXCEPT ![w] = "answering"]
           /\ cache' \in {cache, [cache EXCEPT ![w] = @ \cup {<<c, "sha_mismatch">>}]}
    BY <1>10 DEF Check
  <2>3. /\ at[c] \notin Early /\ ~Wrote(c) /\ result[c] = "none"
        /\ \A v \in Workers : ~(Writing(v) /\ doing[v] = c)
        /\ \A v \in Workers : \A r \in cache[v] : r[1] # c
    BY <1>0, <2>1
  <2>5. /\ \A v \in Workers \ {w} : doing'[v] = doing[v] /\ pc'[v] = pc[v] /\ cache'[v] = cache[v]
        /\ doing'[w] = c /\ pc'[w] \in {"checked", "answering"} /\ cache[w] \subseteq cache'[w]
        /\ \A r \in cache'[w] : r \in cache[w] \/ (r[1] = c /\ pc'[w] = "answering")
    BY <1>0, <2>1, <2>2
  <2>4. \A d \in Calls : Wrote(d)' => Wrote(d)
    <3>1. \A v \in Workers : ~Renames(v)
      BY <1>r, <2>1, <2>5
    <3> QED
      BY <1>w, <3>1
  <2>6. \A v \in Workers : pc'[v] \in {"polling", "dead"} <=> doing'[v] = NoJob
    <3>1. \A v \in Workers : pc[v] \in {"polling", "dead"} <=> doing[v] = NoJob
      BY <1>0
    <3>2. c # NoJob
      OBVIOUS
    <3> HIDE DEF TypeOK, PlaceInv
    <3> QED
      BY <2>5, <3>1, <3>2
  <2>7. \A d \in Calls : at'[d] \in Early =>
          /\ <<"write", d>> \notin queue' /\ d \notin window'
          /\ \A v \in Workers : ~(Writing(v)' /\ doing'[v] = d)
    BY <1>0, <2>1, <2>3, <2>5
  <2>8. \A d \in Calls :
          Unstarted(d)' => /\ ~Wrote(d)' /\ result'[d] = "none"
                           /\ \A v \in Workers : \A r \in cache'[v] : r[1] # d
    <3>1. pc'[w] = "answering" => ~Unstarted(c)'
      BY <1>0, <2>1, <2>3, <2>5
    <3>2. ASSUME NEW d \in Calls, Unstarted(d)' PROVE Unstarted(d)
      <4>1. CASE d = c
        BY <2>1, <4>1
      <4>2. CASE d # c
        BY <2>1, <2>5, <3>2, <4>2
      <4> QED
        BY <4>1, <4>2
    <3> HIDE DEF Unstarted
    <3>3. \A d \in Calls : Unstarted(d) => /\ ~Wrote(d) /\ result[d] = "none"
                                          /\ \A v \in Workers : \A r \in cache[v] : r[1] # d
      BY <1>0
    <3>4. \A d \in Calls : Unstarted(d)' => \A v \in Workers : \A r \in cache'[v] : r[1] # d
      BY <2>5, <3>1, <3>2, <3>3
    <3> QED
      BY <2>1, <2>4, <3>2, <3>3, <3>4
  <2>9. \A d \in Calls : <<"write", d>> \in queue' =>
          \A v \in Workers : ~(Writing(v)' /\ doing'[v] = d)
    <3>1. \A d \in Calls : <<"write", d>> \in queue =>
            \A v \in Workers : ~(Writing(v) /\ doing[v] = d)
      BY <1>0
    <3>2. \A d \in Calls : <<"write", d>> \in queue' => <<"write", d>> \in queue /\ d # c
      BY <2>1
    <3> HIDE DEF TypeOK, PlaceInv
    <3> QED
      BY <2>5, <3>1, <3>2
  <2>10. \A u, v \in Workers : Writing(u)' /\ Writing(v)' /\ doing'[u] = doing'[v] => u = v
    <3>1. \A u, v \in Workers : Writing(u) /\ Writing(v) /\ doing[u] = doing[v] => u = v
      BY <1>0
    <3> HIDE DEF TypeOK, PlaceInv
    <3> QED
      BY <2>3, <2>5, <3>1
  <2> QED
    BY <2>6, <2>7, <2>8, <2>9, <2>10
<1>11. ASSUME NEW w \in Workers, Stage(w) PROVE PlaceInv'
  BY <1>0, <1>w, <1>r, <1>11 DEF Stage
<1>12. ASSUME NEW w \in Workers, Staged(w) PROVE PlaceInv'
  BY <1>0, <1>w, <1>r, <1>12 DEF Staged
<1>13. ASSUME NEW w \in Workers, Rename(w) PROVE PlaceInv'
  <2>1. doing[w] \in Calls
    BY <1>13, Busy DEF Rename
  <2>2. PICK to \in {"renamed", "answering"} : pc' = [pc EXCEPT ![w] = to]
    BY <1>13 DEF Rename
  <2>3. \A v \in Workers : \A r \in cache'[v] : r \in cache[v] \/ r[1] = doing[w]
    <3>1. cache' \in {cache, [cache EXCEPT ![w] = @ \cup {<<doing[w], "not_found">>}]}
      BY <1>13 DEF Rename
    <3>2. cache \in [Workers -> SUBSET (Calls \X Results)]
      BY <1>0
    <3>3. \A v \in Workers : \A r \in cache'[v] : r \in cache[v] \/ r = <<doing[w], "not_found">>
      BY <3>1, <3>2, RememberOne
    <3> QED
      BY <3>3
  <2>4. \A d \in Calls : Wrote(d)' => Wrote(d) \/ d = doing[w]
    BY <1>0, <1>w, <1>r, <2>2
  <2>5. pc[w] = "staged" /\ UNCHANGED <<doing, at, queue, window, result>>
    BY <1>13 DEF Rename
  <2> QED
    BY <1>p, <2>1, <2>2, <2>3, <2>4, <2>5
<1>14. ASSUME NEW w \in Workers, StageFails(w) PROVE PlaceInv'
  <2>1. doing[w] \in Calls
    BY <1>14, Busy DEF StageFails
  <2>2. pc' = [pc EXCEPT ![w] = "answering"]
    BY <1>14 DEF StageFails
  <2>3. \A v \in Workers : \A r \in cache'[v] : r \in cache[v] \/ r[1] = doing[w]
    BY <1>0, <1>14, <2>1 DEF StageFails
  <2>4. \A d \in Calls : Wrote(d)' => Wrote(d) \/ d = doing[w]
    BY <1>0, <1>w, <1>r, <2>2
  <2>5. pc[w] \in {"staging", "staged"} /\ UNCHANGED <<doing, at, queue, window, result>>
    BY <1>14 DEF StageFails
  <2> QED
    BY <1>p, <2>1, <2>2, <2>3, <2>4, <2>5
<1>15. ASSUME NEW w \in Workers, Verify(w) PROVE PlaceInv'
  <2>1. doing[w] \in Calls
    BY <1>15, Busy DEF Verify
  <2>2. pc' = [pc EXCEPT ![w] = "answering"]
    BY <1>15 DEF Verify
  <2>3. \A v \in Workers : \A r \in cache'[v] : r \in cache[v] \/ r[1] = doing[w]
    <3>1. PICK res : cache' \in {cache, [cache EXCEPT ![w] = @ \cup {<<doing[w], res>>}]}
      BY <1>15 DEF Verify
    <3>2. cache \in [Workers -> SUBSET (Calls \X Results)]
      BY <1>0
    <3>3. \A v \in Workers : \A r \in cache'[v] : r \in cache[v] \/ r = <<doing[w], res>>
      BY <3>1, <3>2, RememberOne
    <3> QED
      BY <3>3
  <2>4. \A d \in Calls : Wrote(d)' => Wrote(d) \/ d = doing[w]
    BY <1>0, <1>w, <1>r, <2>2
  <2>5. pc[w] = "renamed" /\ UNCHANGED <<doing, at, queue, window, result>>
    BY <1>15 DEF Verify
  <2> QED
    BY <1>p, <2>1, <2>2, <2>3, <2>4, <2>5
<1>16. ASSUME NEW w \in Workers, Report(w) PROVE PlaceInv'
  BY <1>0, <1>w, <1>r, <1>16 DEF Report
<1>17. ASSUME NEW w \in Workers, CacheForgets(w) PROVE PlaceInv'
  BY <1>0, <1>w, <1>r, <1>17 DEF CacheForgets
<1>18. ASSUME NEW w \in Workers, Crash(w) PROVE PlaceInv'
  BY <1>0, <1>w, <1>r, <1>18 DEF Crash
<1>19. ASSUME NEW x \in Contents, ExecWrites(x) PROVE PlaceInv'
  BY <1>0, <1>w, <1>r, <1>19 DEF ExecWrites
<1>20. CASE UNCHANGED vars
  BY <1>0, <1>w, <1>r, <1>20 DEF vars
<1> QED
  BY <1>1, <1>2, <1>3, <1>4, <1>5, <1>6, <1>7, <1>8, <1>9, <1>10, <1>11, <1>12, <1>13, <1>14,
     <1>15, <1>16, <1>17, <1>18, <1>19, <1>20 DEF Next

-----------------------------------------------------------------------------
\* A call keeps waiting for a job like its own, and is answered once.
LEMMA JobStep == IInv /\ [Next]_vars => JobInv'
<1> SUFFICES ASSUME IInv, [Next]_vars PROVE JobInv'
  OBVIOUS
<1>0. /\ at \in [Calls -> {"idle", "reading", "read", "waiting", "answered"}]
      /\ job \in [Calls -> Calls \cup {NoJob}]
      /\ answer \in [Calls -> Results \cup {"no_result"}]
      /\ window \subseteq Calls
  BY DEF IInv, TypeOK
<1>1. \A c \in Calls : at[c] = "waiting" =>
        job[c] \in Calls /\ Key(job[c]) = Key(c) /\ at[job[c]] \notin Early
  BY DEF IInv, JobInv
<1>a. \A c \in Calls : answer[c] # "none" => at[c] = "answered"
  BY DEF IInv, JobInv
<1>2. \A c \in window : at[c] \notin Early
  BY <1>0 DEF IInv, PlaceInv
<1>3. \A c \in Calls : at[c] \notin Early => at'[c] \notin Early /\ base'[c] = base[c]
  BY SettledStep
<1>4. \A c \in Calls : at'[c] = "waiting" =>
        \/ at[c] = "waiting" /\ job'[c] = job[c]
        \/ job'[c] \in Calls /\ Key(job'[c]) = Key(c) /\ at'[job'[c]] \notin Early
           /\ base' = base
  <2>1. ASSUME NEW d \in Calls, Submit(d), NEW c \in Calls, at'[c] = "waiting"
        PROVE  \/ at[c] = "waiting" /\ job'[c] = job[c]
               \/ job'[c] \in Calls /\ Key(job'[c]) = Key(c) /\ at'[job'[c]] \notin Early
                  /\ base' = base
    <3>1. PICK e \in window \cup {d} : job' = [job EXCEPT ![d] = e] /\ Key(e) = Key(d)
      BY <2>1 DEF Submit
    <3>2. at' = [at EXCEPT ![d] = "waiting"] /\ base' = base
      BY <2>1 DEF Submit
    <3>3. e \in Calls /\ at'[e] \notin Early
      BY <1>0, <1>2, <3>1, <3>2 DEF Early
    <3>4. CASE c = d
      BY <1>0, <3>1, <3>2, <3>3, <3>4
    <3>5. CASE c # d
      BY <1>0, <2>1, <3>1, <3>2, <3>5
    <3> QED
      BY <3>4, <3>5
  <2>2. ASSUME NEW d \in Calls, Call(d) \/ Answer(d) \/ NoResult(d) \/ ReadFails(d),
               NEW c \in Calls, at'[c] = "waiting"
        PROVE  at[c] = "waiting" /\ job'[c] = job[c]
    BY <1>0, <2>2 DEF Call, Answer, NoResult, ReadFails
  <2>3. ASSUME NEW w \in Workers, ReadSha(w), NEW c \in Calls, at'[c] = "waiting"
        PROVE  at[c] = "waiting" /\ job'[c] = job[c]
    <3>1. at' \in {at, [at EXCEPT ![doing[w]] = "read"]} /\ job' = job
      BY <2>3 DEF ReadSha
    <3> QED
      BY <1>0, <2>3, <3>1
  <2>4. \/ \E d \in Calls : Submit(d)
        \/ \E d \in Calls : Call(d) \/ Answer(d) \/ NoResult(d) \/ ReadFails(d)
        \/ \E w \in Workers : ReadSha(w)
        \/ UNCHANGED <<at, job>>
    BY DEF Next, vars, client, WindowCloses, TmpAges, ReadText, Check, Stage, Staged, Rename,
           StageFails, Verify, Report, CacheForgets, Crash, ExecWrites
  <2> QED
    BY <2>1, <2>2, <2>3, <2>4
<1>5. ASSUME NEW c \in Calls, at'[c] = "waiting"
      PROVE  job'[c] \in Calls /\ Key(job[c])' = Key(c)' /\ at'[job'[c]] \notin Early
  <2>1. CASE at[c] = "waiting" /\ job'[c] = job[c]
    <3>1. PICK j \in Calls : j = job'[c] /\ at[j] \notin Early /\ Key(j) = Key(c)
      BY <1>1, <2>1
    <3>2. base'[j] = base[j] /\ at'[j] \notin Early
      BY <1>3, <3>1
    <3>3. base'[c] = base[c]
      BY <1>3, <2>1 DEF Early
    <3> QED
      BY <3>1, <3>2, <3>3 DEF Key
  <2>2. CASE job'[c] \in Calls /\ Key(job'[c]) = Key(c) /\ at'[job'[c]] \notin Early /\ base' = base
    BY <2>2 DEF Key
  <2> QED
    BY <1>4, <1>5, <2>1, <2>2
<1>6. \A c \in Calls : answer'[c] # "none" => at'[c] = "answered"
  <2>1. ASSUME NEW d \in Calls, Answer(d) \/ NoResult(d), NEW c \in Calls, answer'[c] # "none"
        PROVE  at'[c] = "answered"
    <3>1. at' = [at EXCEPT ![d] = "answered"] /\ \A x \in Calls \ {d} : answer'[x] = answer[x]
      BY <1>0, <2>1 DEF Answer, NoResult
    <3> QED
      BY <1>0, <1>a, <2>1, <3>1
  <2>2. ASSUME NEW d \in Calls, Call(d) \/ Submit(d) \/ ReadFails(d), NEW c \in Calls, answer'[c] # "none"
        PROVE  at'[c] = "answered"
    <3>1. at[d] # "answered" /\ answer' = answer /\ \A x \in Calls \ {d} : at'[x] = at[x]
      BY <1>0, <2>2 DEF Call, Submit, ReadFails
    <3> QED
      BY <1>a, <2>2, <3>1
  <2>3. ASSUME NEW w \in Workers, ReadSha(w), NEW c \in Calls, answer'[c] # "none"
        PROVE  at'[c] = "answered"
    <3>1. answer' = answer
      BY <2>3 DEF ReadSha
    <3>2. CASE at[doing[w]] # "reading"
      BY <1>a, <2>3, <3>1, <3>2 DEF ReadSha
    <3>3. CASE at[doing[w]] = "reading"
      <4>1. at' = [at EXCEPT ![doing[w]] = "read"]
        BY <2>3, <3>3 DEF ReadSha
      <4> QED
        BY <1>0, <1>a, <2>3, <3>1, <3>3, <4>1
    <3> QED
      BY <3>2, <3>3
  <2>4. \/ \E d \in Calls : Answer(d) \/ NoResult(d)
        \/ \E d \in Calls : Call(d) \/ Submit(d) \/ ReadFails(d)
        \/ \E w \in Workers : ReadSha(w)
        \/ UNCHANGED <<at, answer>>
    BY DEF Next, vars, client, WindowCloses, TmpAges, ReadText, Check, Stage, Staged, Rename,
           StageFails, Verify, Report, CacheForgets, Crash, ExecWrites
  <2> QED
    BY <1>a, <2>1, <2>2, <2>3, <2>4
<1> QED
  BY <1>5, <1>6 DEF JobInv

\* Whoever writes, writes for a submitted call, and alone.
LEMMA WriterFact ==
  IInv => \A w \in Workers : Writing(w) =>
            /\ doing[w] \in Calls /\ at[doing[w]] \notin Early
            /\ \A v \in Workers : Writing(v) /\ doing[v] = doing[w] => v = w
BY Busy DEF IInv, PlaceInv, Writing, Uncommitted

\* How a worker comes to have a write job: it had it, or has just taken it.
LEMMA WriterStep ==
  ASSUME IInv, [Next]_vars, NEW w \in Workers, Writing(w)'
  PROVE  (Writing(w) /\ doing'[w] = doing[w]) \/ \E c \in Calls : Check(w, c) /\ doing'[w] = c
<1>0. pc \in [Workers -> Steps] /\ doing \in [Workers -> Calls \cup {NoJob}]
  BY DEF IInv, TypeOK
<1> USE DEF Writing, Uncommitted, Steps
<1>1. ASSUME NEW v \in Workers, NEW to \in {"polling", "dead", "reading"}, pc' = [pc EXCEPT ![v] = to],
             NEW d, doing' = [doing EXCEPT ![v] = d]
      PROVE  Writing(w) /\ doing'[w] = doing[w]
  BY <1>0, <1>1
<1>2. ASSUME NEW v \in Workers, Writing(v), NEW to, pc' = [pc EXCEPT ![v] = to], doing' = doing
      PROVE  Writing(w) /\ doing'[w] = doing[w]
  BY <1>0, <1>2
<1>3. ASSUME NEW v \in Workers, NEW c \in Calls, Check(v, c)
      PROVE  (Writing(w) /\ doing'[w] = doing[w]) \/ \E d \in Calls : Check(w, d) /\ doing'[w] = d
  <2>1. PICK to : pc' = [pc EXCEPT ![v] = to] /\ doing' = [doing EXCEPT ![v] = c]
    BY <1>3 DEF Check, Take, Step
  <2>2. CASE v = w
    BY <1>0, <1>3, <2>1, <2>2
  <2>3. CASE v # w
    BY <1>0, <2>1, <2>3
  <2> QED
    BY <2>2, <2>3
<1>4. ASSUME NEW v \in Workers, NEW c \in Calls, ReadText(v, c) PROVE Writing(w) /\ doing'[w] = doing[w]
  <2>1. pc' = [pc EXCEPT ![v] = "reading"] /\ doing' = [doing EXCEPT ![v] = c]
    BY <1>4 DEF ReadText, Take, Step
  <2> QED
    BY <1>1, <2>1
<1>5. ASSUME NEW v \in Workers, ReadSha(v) \/ Report(v) \/ Crash(v) PROVE Writing(w) /\ doing'[w] = doing[w]
  <2>1. PICK to \in {"polling", "dead"} :
          pc' = [pc EXCEPT ![v] = to] /\ doing' = [doing EXCEPT ![v] = NoJob]
    BY <1>5 DEF ReadSha, Report, Crash, Step, Release
  <2> QED
    BY <1>1, <2>1
<1>6. ASSUME NEW v \in Workers, Stage(v) \/ Staged(v) \/ Rename(v) \/ StageFails(v) \/ Verify(v)
      PROVE  Writing(w) /\ doing'[w] = doing[w]
  <2>1. Writing(v) /\ doing' = doing /\ \E to : pc' = [pc EXCEPT ![v] = to]
    BY <1>6 DEF Stage, Staged, Rename, StageFails, Verify, Step
  <2> QED
    BY <1>2, <2>1
<1>7. \/ \E v \in Workers : \/ Rename(v) \/ Stage(v) \/ Staged(v) \/ StageFails(v) \/ Verify(v)
                           \/ ReadSha(v) \/ Report(v) \/ Crash(v)
                           \/ \E c \in Calls : ReadText(v, c) \/ Check(v, c)
      \/ UNCHANGED <<pc, doing>>
  BY DEF Next, vars, worker, Call, Submit, Answer, NoResult, ReadFails, WindowCloses, TmpAges,
         CacheForgets, ExecWrites
<1> QED
  BY <1>3, <1>4, <1>5, <1>6, <1>7

\* Results get on record one by one, each from the worker that has the job.
LEMMA ResultChange ==
  [Next]_vars => \/ UNCHANGED result
                 \/ \E w \in Workers : Report(w)
BY DEF Next, vars, broker, Call, Submit, Answer, NoResult, ReadFails, WindowCloses, TmpAges, ReadText, ReadSha,
       Check, Stage, Staged, Rename, StageFails, Verify, CacheForgets, Crash, ExecWrites

\* A worker's job has no result on record.
LEMMA FreshStep == IInv /\ [Next]_vars => FreshInv'
<1> SUFFICES ASSUME IInv, [Next]_vars, NEW w \in Workers, Writing(w)' PROVE result'[doing'[w]] = "none"
  BY DEF FreshInv
<1>0. /\ pc \in [Workers -> Steps] /\ doing \in [Workers -> Calls \cup {NoJob}]
      /\ result \in [Calls -> Results]
  BY DEF IInv, TypeOK
<1>1. ASSUME NEW c \in Calls, Check(w, c), doing'[w] = c PROVE result'[doing'[w]] = "none"
  <2>1. <<"write", c>> \in queue /\ UNCHANGED result
    BY <1>1 DEF Check, Take
  <2> QED
    BY <1>1, <2>1 DEF IInv, PlaceInv, Unstarted
<1>2. CASE Writing(w) /\ doing'[w] = doing[w]
  <2>1. result[doing[w]] = "none" /\ doing[w] \in Calls
    BY <1>2, WriterFact DEF IInv, FreshInv
  <2>2. CASE UNCHANGED result
    BY <1>2, <2>1, <2>2
  <2>3. ASSUME NEW v \in Workers, Report(v) PROVE result'[doing'[w]] = "none"
    <3>1. /\ pc[v] = "answering" /\ pc' = [pc EXCEPT ![v] = "polling"]
          /\ result' \in {result, [result EXCEPT ![doing[v]] = found[v]]}
      BY <2>3 DEF Report, Step
    <3>2. v # w /\ Writing(v)
      BY <1>0, <3>1 DEF Writing, Uncommitted
    <3>3. doing[v] # doing[w]
      BY <1>2, <3>2, WriterFact
    <3> QED
      BY <1>0, <1>2, <2>1, <3>1, <3>3
  <2> QED
    BY <2>2, <2>3, ResultChange
<1> QED
  BY <1>1, <1>2, WriterStep

\* What the last write put there is there, no job writes twice, and no two
\* writes in the window are alike.
LEMMA HistoryInvStep == IInv /\ [Next]_vars => HistoryInv'
<1> SUFFICES ASSUME IInv, [Next]_vars PROVE HistoryInv'
  OBVIOUS
<1>0. writes \in Seq(Write) /\ Len(writes) \in Nat
  BY DEF IInv, TypeOK, Write
<1>1. writes' # <<>> => file' = writes'[Len(writes')].put
  <2>1. CASE UNCHANGED <<writes, file>>
    BY <2>1 DEF IInv, HistoryInv
  <2>2. CASE ~UNCHANGED <<writes, file>>
    <3>1. PICK r \in Write : writes' = Append(writes, r) /\ file' = r.put
      BY <2>2, AppendFact
    <3>2. Len(writes') = Len(writes) + 1 /\ writes'[Len(writes) + 1] = r
      BY <1>0, <3>1, AppendIndex
    <3> QED
      BY <3>1, <3>2
  <2> QED
    BY <2>1, <2>2
<1>2. ASSUME NEW i \in Commits', NEW k \in Commits', writes'[i].by = writes'[k].by PROVE i = k
  <2>1. \A j \in Commits' : \/ j \in Commits /\ writes'[j] = writes[j] /\ Wrote(writes'[j].by)
                            \/ j = Len(writes) + 1 /\ ~Wrote(writes'[j].by)
    <3> SUFFICES ASSUME NEW j \in Commits'
                 PROVE  \/ j \in Commits /\ writes'[j] = writes[j] /\ Wrote(writes'[j].by)
                        \/ j = Len(writes) + 1 /\ ~Wrote(writes'[j].by)
      OBVIOUS
    <3>1. CASE j \in Commits /\ writes'[j] = writes[j]
      BY <3>1 DEF Wrote
    <3>2. ASSUME j = Len(writes) + 1, NEW w \in Workers, Renames(w), writes'[j] = Entry(w)
          PROVE  ~Wrote(writes'[j].by)
      <4>1. pc[w] \in Uncommitted /\ doing[w] \in Calls /\ writes'[j].by = doing[w]
        BY <3>2, Busy DEF Renames, Rename, Uncommitted, Entry, Written
      <4>2. Unstarted(doing[w])
        BY <4>1 DEF Unstarted
      <4> QED
        BY <4>1, <4>2 DEF IInv, PlaceInv
    <3> QED
      BY <3>1, <3>2, CommitStep
  <2>2. \A j, l \in Commits : writes[j].by = writes[l].by => j = l
    BY DEF IInv, HistoryInv
  <2> QED
    BY <1>2, <2>1, <2>2
<1>3. ASSUME NEW c \in window', NEW d \in window', Key(c)' = Key(d)' PROVE c = d
  <2>1. window \subseteq Calls /\ \A x \in window : at[x] \notin Early
    BY DEF IInv, TypeOK, PlaceInv
  <2>2. \A x \in window : Key(x)' = Key(x)
    BY <2>1, SettledStep
  <2>3. \A x, y \in window : Key(x) = Key(y) => x = y
    BY DEF IInv, HistoryInv
  <2>4. ASSUME NEW x \in Calls, Submit(x) PROVE c = d
    <3>1. \A y : Key(y)' = Key(y)
      BY <2>4 DEF Submit, Key
    <3>2. \/ window' = window
          \/ window' = window \cup {x} /\ \A y \in window : Key(y) # Key(x)
      BY <2>4 DEF Submit
    <3> QED
      BY <1>3, <2>3, <3>1, <3>2
  <2>5. (\E x \in Calls : Submit(x)) \/ window' \subseteq window
    BY DEF Next, vars, broker, Call, Answer, NoResult, ReadFails, WindowCloses, TmpAges, ReadText, ReadSha,
           Check, Stage, Staged, Rename, StageFails, Verify, Report, CacheForgets, Crash, ExecWrites
  <2> QED
    BY <1>3, <2>2, <2>3, <2>4, <2>5
<1> QED
  BY <1>1, <1>2, <1>3 DEF HistoryInv

\* A worker that is about to write comes to remember nothing like it: what it
\* adds to its memory it adds when it is done with a job.
LEMMA MemoryStep == IInv /\ [Next]_vars => MemoryInv'
<1> SUFFICES ASSUME IInv, [Next]_vars, NEW w \in Workers, pc'[w] \in Uncommitted
             PROVE  Remembered(w, doing[w])' = {}
  BY DEF MemoryInv
<1>0. /\ pc \in [Workers -> Steps] /\ doing \in [Workers -> Calls \cup {NoJob}]
      /\ cache \in [Workers -> SUBSET (Calls \X Results)]
  BY DEF IInv, TypeOK
<1>1. /\ doing'[w] \in Calls /\ at[doing'[w]] \notin Early
      /\ cache'[w] \subseteq cache[w] /\ Remembered(w, doing'[w]) = {}
  <2>1. ASSUME NEW c \in Calls, Check(w, c), doing'[w] = c
        PROVE  /\ doing'[w] \in Calls /\ at[doing'[w]] \notin Early
               /\ cache'[w] \subseteq cache[w] /\ Remembered(w, doing'[w]) = {}
    <3>1. at[c] \notin Early
      BY <2>1 DEF Check, Take, IInv, PlaceInv
    <3>2. Remembered(w, c) = {} /\ cache' = cache
      <4>1. pc' # [pc EXCEPT ![w] = "answering"]
        BY <1>0 DEF Uncommitted
      <4> QED
        BY <2>1, <4>1 DEF Check, Step
    <3> QED
      BY <2>1, <3>1, <3>2
  <2>2. CASE Writing(w) /\ doing'[w] = doing[w]
    <3>1. doing[w] \in Calls /\ at[doing[w]] \notin Early
      BY <2>2, WriterFact
    <3>2. pc[w] \in Uncommitted /\ cache'[w] \subseteq cache[w]
      <4> USE DEF Uncommitted
      <4>1. ASSUME NEW v \in Workers, NEW to \in Steps \ Uncommitted, pc' = [pc EXCEPT ![v] = to],
                   \A u \in Workers \ {v} : cache'[u] \subseteq cache[u]
            PROVE  pc[w] \in Uncommitted /\ cache'[w] \subseteq cache[w]
        BY <1>0, <4>1
      <4>2. ASSUME NEW v \in Workers, NEW c \in Calls, Check(v, c)
            PROVE  pc[w] \in Uncommitted /\ cache'[w] \subseteq cache[w]
        <5>1. v # w
          BY <2>2, <4>2 DEF Check, Take, Writing
        <5>2. \E x : cache' \in {cache, [cache EXCEPT ![v] = x]}
          BY <4>2 DEF Check
        <5>3. \E to : pc' = [pc EXCEPT ![v] = to]
          BY <4>2 DEF Check, Step
        <5> QED
          BY <1>0, <5>1, <5>2, <5>3
      <4>3. ASSUME NEW v \in Workers, Stage(v) \/ Staged(v)
            PROVE  pc[w] \in Uncommitted /\ cache'[w] \subseteq cache[w]
        BY <1>0, <4>3 DEF Stage, Staged, Step
      <4>4. ASSUME NEW v \in Workers, Rename(v) \/ StageFails(v) \/ Verify(v)
            PROVE  pc[w] \in Uncommitted /\ cache'[w] \subseteq cache[w]
        <5>1. PICK to \in {"renamed", "answering"} : pc' = [pc EXCEPT ![v] = to]
          BY <4>4 DEF Rename, StageFails, Verify, Step
        <5>2. \E x : cache' \in {cache, [cache EXCEPT ![v] = x]}
          BY <4>4 DEF Rename, StageFails, Verify
        <5>3. \A u \in Workers \ {v} : cache'[u] \subseteq cache[u]
          BY <1>0, <5>2
        <5> QED
          BY <4>1, <5>1, <5>3 DEF Steps
      <4>5. ASSUME NEW v \in Workers, ReadSha(v) \/ Report(v) \/ Crash(v) \/ \E c \in Calls : ReadText(v, c)
            PROVE  pc[w] \in Uncommitted /\ cache'[w] \subseteq cache[w]
        <5>1. PICK to \in {"polling", "reading", "dead"} : pc' = [pc EXCEPT ![v] = to]
          BY <4>5 DEF ReadSha, ReadText, Report, Crash, Step
        <5>2. cache' \in {cache, [cache EXCEPT ![v] = {}]}
          BY <4>5 DEF ReadSha, ReadText, Report, Crash
        <5>3. \A u \in Workers \ {v} : cache'[u] \subseteq cache[u]
          BY <1>0, <5>2
        <5> QED
          BY <4>1, <5>1, <5>3 DEF Steps
      <4>6. ASSUME NEW v \in Workers, CacheForgets(v)
            PROVE  pc[w] \in Uncommitted /\ cache'[w] \subseteq cache[w]
        <5>1. PICK r : cache' = [cache EXCEPT ![v] = @ \ {r}]
          BY <4>6 DEF CacheForgets
        <5> QED
          BY <1>0, <4>6, <5>1 DEF CacheForgets, worker
      <4>7. CASE UNCHANGED <<pc, cache>>
        BY <4>7
      <4>8. \/ \E v \in Workers : \/ Rename(v) \/ Stage(v) \/ Staged(v) \/ StageFails(v) \/ Verify(v)
                                 \/ ReadSha(v) \/ Report(v) \/ Crash(v) \/ CacheForgets(v)
                                 \/ \E c \in Calls : ReadText(v, c) \/ Check(v, c)
            \/ UNCHANGED <<pc, cache>>
        BY DEF Next, vars, worker, Call, Submit, Answer, NoResult, ReadFails, WindowCloses, TmpAges, ExecWrites
      <4> QED
        BY <4>2, <4>3, <4>4, <4>5, <4>6, <4>7, <4>8
    <3> QED
      BY <2>2, <3>1, <3>2 DEF IInv, MemoryInv
  <2>3. Writing(w)'
    BY DEF Writing
  <2> QED
    BY <2>1, <2>2, <2>3, WriterStep
<1>2. PICK c \in Calls : c = doing'[w]
  BY <1>1
<1>3. Key(c)' = Key(c)
  BY <1>1, <1>2, SettledStep
<1>4. ASSUME NEW r \in cache[w] PROVE Key(r[1])' = Key(r[1])
  <2>1. r[1] \in Calls
    BY <1>0
  <2>2. ~Unstarted(r[1])
    BY <2>1 DEF IInv, PlaceInv
  <2>3. at[r[1]] \notin Early
    BY <2>2 DEF Unstarted
  <2> QED
    BY <2>1, <2>3, SettledStep
<1> QED
  BY <1>1, <1>2, <1>3, <1>4 DEF Remembered, Key

\* A temporary file that is renamed is whole, or the disk has cut a write short.
LEMMA StagingStep == IInv /\ [Next]_vars => FileIsWhole' /\ StagingInv'
<1> SUFFICES ASSUME IInv, [Next]_vars PROVE FileIsWhole' /\ StagingInv'
  OBVIOUS
<1>0. /\ pc \in [Workers -> Steps] /\ doing \in [Workers -> Calls \cup {NoJob}]
      /\ tmp \in [Calls -> {"none", "part", "whole"}]
      /\ shorts \in Nat /\ writes \in Seq(Write) /\ Len(writes) \in Nat
  BY DEF IInv, TypeOK, Write
<1>1. /\ \A w \in Workers : pc[w] = "staging" => tmp[doing[w]] \in {"part", "none"}
      /\ \A w \in Workers : pc[w] = "staged" =>
           tmp[doing[w]] \in {"whole", "none"} \/ (tmp[doing[w]] = "part" /\ shorts > 0)
  BY DEF IInv, StagingInv
<1>2. shorts' \in Nat /\ (shorts > 0 => shorts' > 0)
  <2>1. shorts' = shorts \/ shorts' = shorts + 1
    BY DEF Next, vars, disk, Call, Submit, Answer, NoResult, ReadFails, WindowCloses, TmpAges, ReadText, ReadSha,
           Check, Stage, Staged, Rename, StageFails, Verify, Report, CacheForgets, Crash, ExecWrites
  <2> QED
    BY <1>0, <2>1
<1>3. \A v, w \in Workers :
        pc[w] \in {"checked", "staging", "staged"} /\ pc[v] \in {"staging", "staged"} /\ v # w
          => doing[v] # doing[w] /\ doing[v] \in Calls /\ doing[w] \in Calls
  BY WriterFact DEF Writing, Uncommitted
<1>4. \A w \in Workers : pc[w] \in {"checked", "staging", "staged"} => doing[w] \in Calls
  BY Busy
<1>5. FileIsWhole'
  <2>1. ASSUME NEW w \in Workers, Rename(w), ~UNCHANGED <<writes, file>> PROVE FileIsWhole'
    <3>1. pc[w] = "staged" /\ doing[w] \in Calls
      BY <1>4, <2>1 DEF Rename
    <3>2. Renames(w) /\ file' = Held(doing[w]) /\ writes' = Append(writes, Entry(w))
      BY <2>1 DEF Rename, Renames, Entry
    <3>3. CASE tmp[doing[w]] = "whole"
      BY <3>1, <3>2, <3>3 DEF FileIsWhole, Held
    <3>4. CASE tmp[doing[w]] # "whole"
      <4>1. shorts' > 0 /\ file' = Part[Content[doing[w]]]
        BY <1>0, <1>1, <1>2, <3>1, <3>2, <3>4 DEF Held, Renames
      <4>2. Entry(w) \in Write /\ Entry(w).by = doing[w]
        BY <3>1, EntryType
      <4>3. Len(writes') = Len(writes) + 1 /\ writes'[Len(writes) + 1] = Entry(w)
        BY <1>0, <3>2, <4>2, AppendIndex
      <4>4. Len(writes') \in Commits'
        BY <1>0, <3>1, <4>2, <4>3 DEF Commits
      <4> QED
        BY <4>1, <4>2, <4>3, <4>4 DEF FileIsWhole
    <3> QED
      BY <3>3, <3>4
  <2>2. ASSUME NEW x \in Contents, ExecWrites(x) PROVE FileIsWhole'
    BY <2>2 DEF ExecWrites, FileIsWhole
  <2>3. CASE UNCHANGED <<writes, file>>
    BY <1>2, <2>3 DEF IInv, FileIsWhole, Commits
  <2> QED
    BY <2>1, <2>2, <2>3, HistoryStep
<1> USE DEF Step
<1>6. ASSUME NEW w \in Workers, Stage(w) PROVE StagingInv'
  <2>1. /\ pc[w] = "checked" /\ pc' = [pc EXCEPT ![w] = "staging"] /\ doing' = doing
        /\ \A c \in Calls : tmp'[c] = IF c = doing[w] THEN "part" ELSE IF c \in old THEN "none" ELSE tmp[c]
    BY <1>6 DEF Stage
  <2> QED
    BY <1>0, <1>1, <1>2, <1>3, <1>4, <2>1 DEF StagingInv
<1>7. ASSUME NEW w \in Workers, Staged(w) PROVE StagingInv'
  <2>1. /\ pc[w] = "staging" /\ pc' = [pc EXCEPT ![w] = "staged"] /\ doing' = doing
        /\ \/ tmp' = [tmp EXCEPT ![doing[w]] = IF @ = "part" THEN "whole" ELSE @]
           \/ tmp' = tmp /\ shorts' > 0
    BY <1>0, <1>7 DEF Staged
  <2> QED
    BY <1>0, <1>1, <1>2, <1>3, <1>4, <2>1 DEF StagingInv
<1>8. ASSUME NEW w \in Workers, Rename(w) \/ StageFails(w) PROVE StagingInv'
  <2>1. PICK to \in {"renamed", "answering"} :
          /\ pc[w] \in {"staging", "staged"} /\ pc' = [pc EXCEPT ![w] = to] /\ doing' = doing
          /\ tmp' = [tmp EXCEPT ![doing[w]] = "none"]
    BY <1>8 DEF Rename, StageFails, Drop
  <2> QED
    BY <1>0, <1>1, <1>2, <1>3, <1>4, <2>1 DEF StagingInv
<1>9. ASSUME UNCHANGED tmp,
             \A w \in Workers : pc'[w] \in {"staging", "staged"} => pc'[w] = pc[w] /\ doing'[w] = doing[w]
      PROVE  StagingInv'
  BY <1>0, <1>1, <1>2, <1>9 DEF StagingInv
<1>10. ASSUME NEW w \in Workers, NEW to \in Steps \ {"staging", "staged"}, pc' = [pc EXCEPT ![w] = to],
              \/ doing' = doing
              \/ \E c : doing' = [doing EXCEPT ![w] = c]
       PROVE  \A v \in Workers : pc'[v] \in {"staging", "staged"} => pc'[v] = pc[v] /\ doing'[v] = doing[v]
  BY <1>0, <1>10
<1>11. ASSUME NEW w \in Workers, NEW c \in Calls, ReadText(w, c) \/ Check(w, c) PROVE StagingInv'
  <2>1. PICK to \in {"reading", "answering", "checked"} :
          /\ pc' = [pc EXCEPT ![w] = to] /\ doing' = [doing EXCEPT ![w] = c] /\ tmp' = tmp
    BY <1>11 DEF ReadText, Check, Take, disk
  <2> QED
    BY <1>9, <1>10, <2>1 DEF Steps
<1>12. ASSUME NEW w \in Workers, ReadSha(w) \/ Verify(w) \/ Report(w) \/ Crash(w) PROVE StagingInv'
  <2>1. PICK to \in {"polling", "answering", "dead"} :
          /\ pc' = [pc EXCEPT ![w] = to] /\ doing' \in {doing, [doing EXCEPT ![w] = NoJob]} /\ tmp' = tmp
    BY <1>12 DEF ReadSha, Verify, Report, Crash, Release, disk
  <2> QED
    BY <1>9, <1>10, <2>1 DEF Steps
<1>13. ASSUME UNCHANGED <<tmp, pc, doing>> PROVE StagingInv'
  BY <1>0, <1>1, <1>2, <1>13 DEF StagingInv
<1>14. \/ \E w \in Workers : \/ Stage(w) \/ Staged(w) \/ Rename(w) \/ StageFails(w)
                            \/ ReadSha(w) \/ Verify(w) \/ Report(w) \/ Crash(w)
                            \/ \E c \in Calls : ReadText(w, c) \/ Check(w, c)
       \/ UNCHANGED <<tmp, pc, doing>>
  BY DEF Next, vars, disk, worker, Call, Submit, Answer, NoResult, ReadFails, WindowCloses, TmpAges,
         CacheForgets, ExecWrites
<1> QED
  BY <1>5, <1>6, <1>7, <1>8, <1>11, <1>12, <1>13, <1>14

\* What a worker saw holds while nothing is written, so that a commit that is
\* stale was raced.
LEMMA SeenStep == IInv /\ [Next]_vars => SeenInv' /\ StaleOnlyIfRaced'
<1> SUFFICES ASSUME IInv, [Next]_vars PROVE SeenInv' /\ StaleOnlyIfRaced'
  OBVIOUS
<1>0. /\ pc \in [Workers -> Steps] /\ doing \in [Workers -> Calls \cup {NoJob}]
      /\ seen \in [Workers -> Nat] /\ writes \in Seq(Write) /\ Len(writes) \in Nat
  BY DEF IInv, TypeOK, Write
<1>1. \A w \in Workers : pc[w] \in Uncommitted =>
        /\ seen[w] <= Len(writes)
        /\ seen[w] = Len(writes) => base[doing[w]] \in {NoBase, Sha(file)}
  BY DEF IInv, SeenInv
<1>2. \A w \in Workers : pc[w] \in Uncommitted => base'[doing[w]] = base[doing[w]]
  BY WriterFact, SettledStep DEF Writing, Uncommitted
<1>3. \A w \in Workers : pc'[w] \in Uncommitted =>
        \/ pc[w] \in Uncommitted /\ doing'[w] = doing[w] /\ seen'[w] = seen[w]
        \/ /\ seen'[w] = Len(writes) /\ UNCHANGED <<writes, file>>
           /\ base'[doing'[w]] \in {NoBase, Sha(file)}
  <2>1. ASSUME NEW v \in Workers, NEW c \in Calls, Check(v, c), NEW w \in Workers, pc'[w] \in Uncommitted
        PROVE  \/ pc[w] \in Uncommitted /\ doing'[w] = doing[w] /\ seen'[w] = seen[w]
               \/ /\ seen'[w] = Len(writes) /\ UNCHANGED <<writes, file>>
                  /\ base'[doing'[w]] \in {NoBase, Sha(file)}
    <3>1. /\ doing' = [doing EXCEPT ![v] = c] /\ seen' = [seen EXCEPT ![v] = Len(writes)]
          /\ UNCHANGED <<writes, file, base>>
      BY <2>1 DEF Check, Take, client, disk
    <3>2. \/ pc' = [pc EXCEPT ![v] = "answering"]
          \/ pc' = [pc EXCEPT ![v] = "checked"] /\ base[c] \in {NoBase, Sha(file)}
      BY <2>1 DEF Check, Step
    <3>3. CASE w = v
      BY <1>0, <2>1, <3>1, <3>2, <3>3 DEF Uncommitted
    <3>4. CASE w # v
      BY <1>0, <2>1, <3>1, <3>2, <3>4
    <3> QED
      BY <3>3, <3>4
  <2>2. ASSUME NEW v \in Workers, NEW to \in Steps, pc' = [pc EXCEPT ![v] = to],
               to \in Uncommitted => pc[v] \in Uncommitted /\ doing'[v] = doing[v] /\ seen'[v] = seen[v],
               \A w \in Workers \ {v} : doing'[w] = doing[w] /\ seen'[w] = seen[w],
               NEW w \in Workers, pc'[w] \in Uncommitted
        PROVE  pc[w] \in Uncommitted /\ doing'[w] = doing[w] /\ seen'[w] = seen[w]
    BY <1>0, <2>2
  <2>3. ASSUME NEW v \in Workers, NEW c \in Calls, ReadText(v, c), NEW w \in Workers, pc'[w] \in Uncommitted
        PROVE  pc[w] \in Uncommitted /\ doing'[w] = doing[w] /\ seen'[w] = seen[w]
    <3>1. pc' = [pc EXCEPT ![v] = "reading"] /\ doing' = [doing EXCEPT ![v] = c] /\ seen' = seen
      BY <2>3 DEF ReadText, Take, Step
    <3> QED
      BY <1>0, <2>2, <2>3, <3>1 DEF Steps, Uncommitted
  <2>4. ASSUME NEW v \in Workers, Stage(v) \/ Staged(v) \/ Rename(v) \/ StageFails(v) \/ Verify(v),
               NEW w \in Workers, pc'[w] \in Uncommitted
        PROVE  pc[w] \in Uncommitted /\ doing'[w] = doing[w] /\ seen'[w] = seen[w]
    <3>1. PICK to \in {"staging", "staged", "renamed", "answering"} :
            /\ pc' = [pc EXCEPT ![v] = to] /\ doing' = doing /\ seen' = seen
            /\ pc[v] \in Uncommitted \/ to = "answering"
      BY <2>4 DEF Stage, Staged, Rename, StageFails, Verify, Step, Uncommitted
    <3> QED
      BY <1>0, <2>2, <2>4, <3>1 DEF Steps, Uncommitted
  <2>5. ASSUME NEW v \in Workers, ReadSha(v) \/ Report(v) \/ Crash(v), NEW w \in Workers, pc'[w] \in Uncommitted
        PROVE  pc[w] \in Uncommitted /\ doing'[w] = doing[w] /\ seen'[w] = seen[w]
    <3>1. PICK to \in {"polling", "dead"} :
            /\ pc' = [pc EXCEPT ![v] = to] /\ doing' = [doing EXCEPT ![v] = NoJob]
            /\ seen' = [seen EXCEPT ![v] = 0]
      BY <2>5 DEF ReadSha, Report, Crash, Step, Release
    <3> QED
      BY <1>0, <2>2, <2>5, <3>1 DEF Steps, Uncommitted
  <2>6. \/ \E w \in Workers : \/ Stage(w) \/ Staged(w) \/ Rename(w) \/ StageFails(w) \/ Verify(w)
                             \/ ReadSha(w) \/ Report(w) \/ Crash(w)
                             \/ \E c \in Calls : ReadText(w, c) \/ Check(w, c)
        \/ UNCHANGED <<pc, doing, seen>>
    BY DEF Next, vars, worker, Call, Submit, Answer, NoResult, ReadFails, WindowCloses, TmpAges,
           CacheForgets, ExecWrites
  <2> QED
    BY <2>1, <2>3, <2>4, <2>5, <2>6
<1>4. UNCHANGED <<writes, file>> \/ (Len(writes') = Len(writes) + 1 /\ \A w \in Workers : seen'[w] = seen[w])
  <2> SUFFICES ASSUME ~UNCHANGED <<writes, file>>
               PROVE  Len(writes') = Len(writes) + 1 /\ \A w \in Workers : seen'[w] = seen[w]
    OBVIOUS
  <2>1. Len(writes') = Len(writes) + 1
    BY <1>0, AppendFact, AppendIndex
  <2>2. seen' = seen
    BY HistoryStep DEF Rename, ExecWrites, worker
  <2> QED
    BY <2>1, <2>2
<1>5. SeenInv'
  <2> SUFFICES ASSUME NEW w \in Workers, pc'[w] \in Uncommitted
               PROVE  /\ seen'[w] <= Len(writes')
                      /\ seen'[w] = Len(writes') => base'[doing'[w]] \in {NoBase, Sha(file)'}
    BY DEF SeenInv
  <2>1. CASE UNCHANGED <<writes, file>>
    <3>1. Sha(file)' = Sha(file)
      BY <2>1 DEF Sha
    <3> QED
      BY <1>1, <1>2, <1>3, <2>1, <3>1
  <2>2. CASE Len(writes') = Len(writes) + 1 /\ seen'[w] = seen[w]
    BY <1>0, <1>1, <1>3, <2>2
  <2> QED
    BY <1>4, <2>1, <2>2
<1>6. StaleOnlyIfRaced'
  <2> SUFFICES ASSUME NEW i \in Commits'
               PROVE  \/ base'[writes'[i].by] = NoBase
                      \/ writes'[i].over = base'[writes'[i].by]
                      \/ writes'[i].since < i - 1
    BY DEF StaleOnlyIfRaced
  <2>1. CASE i \in Commits /\ writes'[i] = writes[i]
    <3>1. writes[i].by \in Calls /\ Wrote(writes[i].by)
      BY <2>1, CommitStep DEF Wrote
    <3>2. base'[writes[i].by] = base[writes[i].by]
      BY <3>1, WroteFact, SettledStep
    <3> QED
      BY <2>1, <3>2 DEF IInv, StaleOnlyIfRaced
  <2>2. ASSUME i = Len(writes) + 1, NEW w \in Workers, Renames(w), writes'[i] = Entry(w)
        PROVE  \/ base'[writes'[i].by] = NoBase
               \/ writes'[i].over = base'[writes'[i].by]
               \/ writes'[i].since < i - 1
    <3>1. writes'[i].by = doing[w] /\ writes'[i].over = Sha(file) /\ writes'[i].since = seen[w]
      BY <2>2 DEF Entry, Written
    <3>2. pc[w] \in Uncommitted
      BY <2>2 DEF Renames, Rename, Uncommitted
    <3> QED
      BY <1>0, <1>1, <1>2, <2>2, <3>1, <3>2
  <2> QED
    BY <2>1, <2>2, CommitStep
<1> QED
  BY <1>5, <1>6

\* What is true of a job that is over stays true.
LEMMA GroundedStep ==
  ASSUME IInv, [Next]_vars, NEW c \in Calls, NEW res, Grounded(c, res), ~Unstarted(c)
  PROVE  Grounded(c, res)'
<1>1. at[c] \notin Early /\ \A w \in Workers : pc[w] \in Uncommitted => doing[w] # c
  BY DEF Unstarted
<1>2. \A w \in Workers : ~(Renames(w) /\ doing[w] = c)
  BY <1>1 DEF Renames, Rename, Uncommitted
<1>3. ASSUME res \in Oks PROVE Backed(c, res)'
  <2>1. Backed(c, res)
    BY <1>3 DEF Grounded, Backed
  <2> QED
    BY <1>1, <2>1, BackedStep
<1>4. ASSUME res \in Blameless PROVE ~Wrote(c)'
  BY <1>2, <1>4, WroteStep DEF Grounded
<1> QED
  BY <1>3, <1>4 DEF Grounded, Backed, Blameless, Oks

\* ... and so does all that is true of any, while nothing is written.
LEMMA GroundedSame ==
  ASSUME NEW c, NEW res, Grounded(c, res), UNCHANGED <<writes, base>>
  PROVE  Grounded(c, res)'
BY DEF Grounded, Commits, Key, Wrote, Blameless, Oks

\* res is what a worker reports or remembers, or what is on record, of c.
Known(c, res) ==
  \/ \E w \in Workers : pc[w] = "answering" /\ doing[w] = c /\ found[w] = res
  \/ \E w \in Workers : <<c, res>> \in cache[w]
  \/ result[c] = res

\* Every result that is remembered, reported or on record stays true, and so
\* does every ok that was told.
LEMMA ResultStep == IInv /\ [Next]_vars => ResultInv' /\ OkMeansWritten'
<1> SUFFICES ASSUME IInv, [Next]_vars PROVE ResultInv' /\ OkMeansWritten'
  OBVIOUS
<1>0. /\ pc \in [Workers -> Steps] /\ doing \in [Workers -> Calls \cup {NoJob}]
      /\ found \in [Workers -> Results] /\ cache \in [Workers -> SUBSET (Calls \X Results)]
      /\ result \in [Calls -> Results] /\ answer \in [Calls -> Results \cup {"no_result"}]
  BY DEF IInv, TypeOK
<1>1. /\ \A w \in Workers : pc[w] = "renamed" => Wrote(doing[w])
      /\ \A w \in Workers : pc[w] = "answering" => Grounded(doing[w], found[w])
      /\ \A w \in Workers : \A r \in cache[w] : Grounded(r[1], r[2])
      /\ \A c \in Calls : Grounded(c, result[c])
  BY DEF IInv, ResultInv
<1>2. \A w \in Workers : pc[w] \in {"renamed", "answering"} =>
        doing[w] \in Calls /\ ~Unstarted(doing[w])
  BY WriterFact DEF IInv, PlaceInv, Unstarted, Writing, Uncommitted
<1>3. \A w \in Workers : \A r \in cache[w] : r[1] \in Calls /\ ~Unstarted(r[1])
  BY <1>0 DEF IInv, PlaceInv
<1>4. \A c \in Calls : Unstarted(c) => ~Wrote(c) /\ result[c] = "none"
  BY DEF IInv, PlaceInv
<1>5. ASSUME NEW c \in Calls, NEW res \in Results, Known(c, res) PROVE Grounded(c, res)'
  <2>1. Grounded(c, res)
    BY <1>1, <1>5 DEF Known
  <2>2. CASE ~Unstarted(c)
    BY <2>1, <2>2, GroundedStep
  <2>3. CASE Unstarted(c)
    <3>1. res = "none"
      BY <1>2, <1>3, <1>4, <1>5, <2>3 DEF Known
    <3> QED
      BY <3>1 DEF Grounded, Blameless, Oks
  <2> QED
    BY <2>2, <2>3
<1>6. ASSUME NEW w \in Workers, NEW c \in Calls, NEW res \in Results, Grounded(c, res), UNCHANGED <<writes, base>>,
             pc' = [pc EXCEPT ![w] = "answering"], found' = [found EXCEPT ![w] = res], doing'[w] = c,
             \A v \in Workers \ {w} : doing'[v] = doing[v], result' = result,
             cache' \in {cache, [cache EXCEPT ![w] = @ \cup {<<c, res>>}]},
             NEW d \in Calls, NEW s \in Results, Known(d, s)'
      PROVE  Grounded(d, s)'
  <2>1. Known(d, s) \/ (d = c /\ s = res)
    <3>1. \A v \in Workers : \A r \in cache'[v] : r \in cache[v] \/ r = <<c, res>>
      BY <1>0, <1>6, RememberOne
    <3> QED
      BY <1>0, <1>6, <3>1 DEF Known
  <2>2. CASE d = c /\ s = res
    BY <1>6, <2>2, GroundedSame
  <2> QED
    BY <1>5, <2>1, <2>2
<1>7. ASSUME NEW w \in Workers, NEW c \in Calls, Check(w, c), NEW d \in Calls, NEW s \in Results, Known(d, s)'
      PROVE  Grounded(d, s)'
  <2>1. /\ doing' = [doing EXCEPT ![w] = c] /\ UNCHANGED <<writes, base, result>>
        /\ ~Wrote(c)
    BY <1>4, <1>7 DEF Check, Take, client, disk, Unstarted
  <2>2. CASE pc' = [pc EXCEPT ![w] = "checked"] /\ cache' = cache
    <3>1. \E f : found' = [found EXCEPT ![w] = f]
      BY <1>7 DEF Check, Step
    <3>2. /\ \A v \in Workers \ {w} : found'[v] = found[v] /\ pc'[v] = pc[v] /\ doing'[v] = doing[v]
          /\ pc'[w] # "answering"
      BY <1>0, <2>1, <2>2, <3>1
    <3>3. Known(d, s)
      BY <1>7, <2>1, <2>2, <3>2 DEF Known
    <3> QED
      BY <1>5, <3>3
  <2>3. ASSUME NEW r \in Remembered(w, c), Step(w, "answering", r[2]), cache' = cache
        PROVE  Grounded(d, s)'
    <3>1. r[2] \in Results /\ r[1] \in Calls /\ Key(r[1]) = Key(c) /\ Grounded(r[1], r[2])
      BY <1>0, <1>1 DEF Remembered
    <3>2. Grounded(c, r[2])
      <4>1. Content[r[1]] = Content[c]
        BY <3>1 DEF Key
      <4> QED
        BY <2>1, <3>1, <4>1 DEF Grounded
    <3> QED
      BY <1>0, <1>6, <1>7, <2>1, <2>3, <3>1, <3>2 DEF Step
  <2>4. ASSUME Step(w, "answering", "sha_mismatch"), cache' = [cache EXCEPT ![w] = @ \cup {<<c, "sha_mismatch">>}]
        PROVE  Grounded(d, s)'
    <3>1. Grounded(c, "sha_mismatch") /\ "sha_mismatch" \in Results
      BY <2>1, ResultFact DEF Grounded, Oks
    <3> QED
      BY <1>0, <1>6, <1>7, <2>1, <2>4, <3>1 DEF Step
  <2> QED
    BY <1>7, <2>2, <2>3, <2>4 DEF Check, Step
<1>8. ASSUME NEW w \in Workers, Rename(w) \/ StageFails(w) \/ Verify(w), NEW d \in Calls, NEW s \in Results, Known(d, s)'
      PROVE  Grounded(d, s)'
  <2>1. /\ doing' = doing /\ result' = result /\ base' = base /\ doing[w] \in Calls
        /\ pc[w] \in {"staging", "staged", "renamed"}
    BY <1>8, Busy DEF Rename, StageFails, Verify, client, broker
  <2>2. CASE cache' = cache /\ pc' = [pc EXCEPT ![w] = "renamed"] /\ found' = [found EXCEPT ![w] = "none"]
    <3>1. Known(d, s)
      BY <1>0, <1>8, <2>1, <2>2 DEF Known
    <3> QED
      BY <1>5, <3>1
  <2>3. ASSUME NEW res \in Results, Grounded(doing[w], res), UNCHANGED writes, Step(w, "answering", res),
               cache' \in {cache, [cache EXCEPT ![w] = @ \cup {<<doing[w], res>>}]}
        PROVE  Grounded(d, s)'
    BY <1>6, <1>8, <2>1, <2>3 DEF Step
  <2>4. pc[w] \in {"staging", "staged"} => ~Wrote(doing[w])
    BY <1>4, <2>1 DEF Unstarted, Uncommitted
  <2>5. ASSUME NEW e \in {"rename_locked", "io_error", "not_found"}, pc[w] \in {"staging", "staged"}
        PROVE  Grounded(doing[w], e)
    BY <2>4, <2>5 DEF Grounded, Oks
  <2>6. ASSUME pc[w] = "renamed"
        PROVE  /\ Grounded(doing[w], "ok_differs")
               /\ file = Content[doing[w]] => Grounded(doing[w], "ok")
    <3>1. PICK i \in Commits : writes[i].by = doing[w]
      BY <1>1, <2>6 DEF Wrote
    <3>2. Len(writes) \in Nat /\ i \in 1..Len(writes)
      BY DEF IInv, TypeOK, Commits
    <3>3. Len(writes) \in i..Len(writes) /\ writes[Len(writes)].put = file
      BY <3>2 DEF IInv, HistoryInv
    <3> QED
      BY <3>1, <3>3 DEF Grounded, Blameless
  <2>7. Grounded(doing[w], "io_error")
    BY DEF Grounded, Blameless, Oks
  <2>8. CASE Rename(w)
    <3>1. CASE tmp[doing[w]] = "none"
      <4>1. /\ Step(w, "answering", "not_found") /\ UNCHANGED writes /\ pc[w] = "staged"
            /\ cache' = [cache EXCEPT ![w] = @ \cup {<<doing[w], "not_found">>}]
        BY <2>8, <3>1 DEF Rename
      <4> QED
        BY <2>3, <2>5, <4>1, ResultFact
    <3>2. CASE tmp[doing[w]] # "none"
      BY <2>2, <2>8, <3>2 DEF Rename, Step
    <3> QED
      BY <3>1, <3>2
  <2>9. CASE StageFails(w)
    <3>1. PICK e \in {"rename_locked", "io_error"} :
            Step(w, "answering", e) /\ cache' = [cache EXCEPT ![w] = @ \cup {<<doing[w], e>>}]
      BY <2>9 DEF StageFails
    <3>2. UNCHANGED writes /\ pc[w] \in {"staging", "staged"}
      BY <2>9 DEF StageFails
    <3> QED
      BY <2>3, <2>5, <3>1, <3>2, ResultFact
  <2>10. CASE Verify(w)
    <3>1. UNCHANGED writes /\ pc[w] = "renamed"
      BY <2>10 DEF Verify, disk
    <3>2. PICK res \in {"ok", "ok_differs", "io_error"} :
            /\ Step(w, "answering", res)
            /\ cache' \in {cache, [cache EXCEPT ![w] = @ \cup {<<doing[w], res>>}]}
            /\ res = "ok" => file = Content[doing[w]]
      BY <2>10 DEF Verify
    <3>3. Grounded(doing[w], res)
      BY <2>6, <2>7, <3>1, <3>2
    <3> QED
      BY <2>3, <3>1, <3>2, <3>3, ResultFact
  <2> QED
    BY <1>8, <2>8, <2>9, <2>10
<1>9. ASSUME NEW w \in Workers, Report(w), NEW d \in Calls, NEW s \in Results, Known(d, s)'
      PROVE  Grounded(d, s)'
  <2>1. /\ pc' = [pc EXCEPT ![w] = "polling"] /\ cache' = cache /\ pc[w] = "answering"
        /\ doing' = [doing EXCEPT ![w] = NoJob] /\ found' = [found EXCEPT ![w] = "none"]
        /\ result' \in {result, [result EXCEPT ![doing[w]] = found[w]]}
    BY <1>9 DEF Report, Step, Release
  <2>2. Known(d, s)
    BY <1>0, <1>2, <1>9, <2>1 DEF Known
  <2> QED
    BY <1>5, <2>2
<1>10. ASSUME NEW w \in Workers, NEW to \in Steps \ {"answering"}, pc' = [pc EXCEPT ![w] = to],
              \A v \in Workers \ {w} : doing'[v] = doing[v] /\ found'[v] = found[v],
              \A v \in Workers : cache'[v] \subseteq cache[v], result' = result,
              NEW d \in Calls, NEW s \in Results, Known(d, s)'
       PROVE  Grounded(d, s)'
  <2>1. Known(d, s)
    BY <1>0, <1>10 DEF Known
  <2> QED
    BY <1>5, <2>1
<1>11. \A d \in Calls, s \in Results : Known(d, s)' => Grounded(d, s)'
  <2> SUFFICES ASSUME NEW d \in Calls, NEW s \in Results, Known(d, s)' PROVE Grounded(d, s)'
    OBVIOUS
  <2>1. ASSUME NEW w \in Workers, NEW c \in Calls, ReadText(w, c) PROVE Grounded(d, s)'
    <3>1. /\ pc' = [pc EXCEPT ![w] = "reading"] /\ doing' = [doing EXCEPT ![w] = c]
          /\ \E f : found' = [found EXCEPT ![w] = f]
          /\ UNCHANGED <<cache, result>>
      BY <2>1 DEF ReadText, Take, Step
    <3>2. \A v \in Workers \ {w} : doing'[v] = doing[v] /\ found'[v] = found[v]
      BY <1>0, <3>1
    <3> QED
      BY <1>10, <3>1, <3>2 DEF Steps
  <2>2. ASSUME NEW w \in Workers, Stage(w) \/ Staged(w) PROVE Grounded(d, s)'
    <3>1. PICK to \in {"staging", "staged"} :
            /\ pc' = [pc EXCEPT ![w] = to] /\ found' = [found EXCEPT ![w] = "none"]
            /\ UNCHANGED <<doing, cache, result>>
      BY <2>2 DEF Stage, Staged, Step, broker
    <3> QED
      BY <1>0, <1>10, <3>1 DEF Steps
  <2>3. ASSUME NEW w \in Workers, ReadSha(w) \/ Crash(w) PROVE Grounded(d, s)'
    <3>1. PICK to \in {"polling", "dead"} :
            /\ pc' = [pc EXCEPT ![w] = to] /\ found' = [found EXCEPT ![w] = "none"]
            /\ doing' = [doing EXCEPT ![w] = NoJob] /\ result' = result
            /\ cache' \in {cache, [cache EXCEPT ![w] = {}]}
      BY <2>3 DEF ReadSha, Crash, Step, Release, broker
    <3>2. \A v \in Workers : cache'[v] \subseteq cache[v]
      BY <1>0, <3>1
    <3> QED
      BY <1>0, <1>10, <3>1, <3>2 DEF Steps
  <2>4. ASSUME UNCHANGED <<pc, doing, found, result>>, \A v \in Workers : cache'[v] \subseteq cache[v]
        PROVE  Grounded(d, s)'
    <3>1. Known(d, s)
      BY <2>4 DEF Known
    <3> QED
      BY <1>5, <3>1
  <2>5. ASSUME NEW w \in Workers, CacheForgets(w) PROVE Grounded(d, s)'
    <3>1. UNCHANGED <<pc, doing, found, result>>
      BY <2>5 DEF CacheForgets, broker, worker
    <3>2. PICK r : cache' = [cache EXCEPT ![w] = @ \ {r}]
      BY <2>5 DEF CacheForgets
    <3>3. \A v \in Workers : cache'[v] \subseteq cache[v]
      BY <1>0, <3>2
    <3> QED
      BY <2>4, <3>1, <3>3
  <2>6. CASE UNCHANGED <<pc, doing, found, result, cache>>
    BY <2>4, <2>6
  <2>7. \/ \E w \in Workers : \/ Stage(w) \/ Staged(w) \/ ReadSha(w) \/ Crash(w) \/ CacheForgets(w)
                             \/ Rename(w) \/ StageFails(w) \/ Verify(w) \/ Report(w)
                             \/ \E c \in Calls : ReadText(w, c) \/ Check(w, c)
        \/ UNCHANGED <<pc, doing, found, result, cache>>
    BY DEF Next, vars, broker, worker, Call, Submit, Answer, NoResult, ReadFails, WindowCloses, TmpAges,
           ExecWrites
  <2> QED
    BY <1>7, <1>8, <1>9, <2>1, <2>2, <2>3, <2>5, <2>6, <2>7
<1>12. \A w \in Workers : pc'[w] = "renamed" => Wrote(doing[w])'
  <2> SUFFICES ASSUME NEW w \in Workers, pc'[w] = "renamed" PROVE Wrote(doing[w])'
    OBVIOUS
  <2>1. CASE pc[w] = "renamed" /\ doing'[w] = doing[w]
    <3>1. PICK i \in Commits : writes[i].by = doing[w]
      BY <1>1, <2>1 DEF Wrote
    <3>2. i \in Commits' /\ writes'[i] = writes[i]
      BY CommitStep
    <3> QED
      BY <2>1, <3>1, <3>2 DEF Wrote
  <2>2. CASE Renames(w)
    BY <2>2, CommitStep
  <2>3. (pc[w] = "renamed" /\ doing'[w] = doing[w]) \/ Renames(w)
    <3>1. ASSUME NEW v \in Workers, Rename(v) PROVE (pc[w] = "renamed" /\ doing'[w] = doing[w]) \/ Renames(w)
      <4>1. CASE v = w
        <5>1. tmp[doing[w]] = "none" => pc' = [pc EXCEPT ![w] = "answering"]
          BY <3>1, <4>1 DEF Rename, Step
        <5> QED
          BY <1>0, <3>1, <4>1, <5>1 DEF Renames
      <4>2. CASE v # w
        BY <1>0, <3>1, <4>2 DEF Rename, Step
      <4> QED
        BY <4>1, <4>2
    <3>2. ASSUME NEW v \in Workers, NEW to \in Steps \ {"renamed"}, pc' = [pc EXCEPT ![v] = to],
                 \A u \in Workers \ {v} : doing'[u] = doing[u]
          PROVE  pc[w] = "renamed" /\ doing'[w] = doing[w]
      BY <1>0, <3>2
    <3>3. ASSUME NEW v \in Workers, NEW c \in Calls, ReadText(v, c) \/ Check(v, c)
          PROVE  pc[w] = "renamed" /\ doing'[w] = doing[w]
      <4>1. PICK to \in {"reading", "answering", "checked"} :
              pc' = [pc EXCEPT ![v] = to] /\ doing' = [doing EXCEPT ![v] = c]
        BY <3>3 DEF ReadText, Check, Take, Step
      <4> QED
        BY <1>0, <3>2, <4>1 DEF Steps
    <3>4. ASSUME NEW v \in Workers, ReadSha(v) \/ Report(v) \/ Crash(v)
          PROVE  pc[w] = "renamed" /\ doing'[w] = doing[w]
      <4>1. PICK to \in {"polling", "dead"} :
              pc' = [pc EXCEPT ![v] = to] /\ doing' = [doing EXCEPT ![v] = NoJob]
        BY <3>4 DEF ReadSha, Report, Crash, Step, Release
      <4> QED
        BY <1>0, <3>2, <4>1 DEF Steps
    <3>5. ASSUME NEW v \in Workers, Stage(v) \/ Staged(v) \/ StageFails(v) \/ Verify(v)
          PROVE  pc[w] = "renamed" /\ doing'[w] = doing[w]
      <4>1. PICK to \in {"staging", "staged", "answering"} : pc' = [pc EXCEPT ![v] = to] /\ doing' = doing
        BY <3>5 DEF Stage, Staged, StageFails, Verify, Step
      <4> QED
        BY <1>0, <3>2, <4>1 DEF Steps
    <3>6. \/ \E v \in Workers : \/ Rename(v) \/ Stage(v) \/ Staged(v) \/ StageFails(v) \/ Verify(v)
                               \/ ReadSha(v) \/ Report(v) \/ Crash(v)
                               \/ \E c \in Calls : ReadText(v, c) \/ Check(v, c)
          \/ UNCHANGED <<pc, doing>>
      BY DEF Next, vars, worker, Call, Submit, Answer, NoResult, ReadFails, WindowCloses, TmpAges,
             CacheForgets, ExecWrites
    <3> QED
      BY <3>1, <3>3, <3>4, <3>5, <3>6
  <2> QED
    BY <2>1, <2>2, <2>3
<1>13. OkMeansWritten'
  <2> SUFFICES ASSUME NEW c \in Calls, NEW res \in Oks, answer'[c] = res PROVE Backed(c, res)'
    BY DEF OkMeansWritten, Backed
  <2>1. CASE answer[c] = res
    <3>1. at[c] \notin Early
      BY <2>1 DEF IInv, JobInv, Early, Oks
    <3>2. Backed(c, res)
      BY <2>1 DEF IInv, OkMeansWritten, Backed
    <3> QED
      BY <3>1, <3>2, BackedStep
  <2>2. CASE answer[c] # res
    <3>1. Answer(c)
      <4>1. ASSUME NEW d \in Calls, Answer(d) PROVE d = c
        BY <1>0, <2>2, <4>1 DEF Answer
      <4>2. ASSUME NEW d \in Calls, NoResult(d) PROVE FALSE
        BY <1>0, <2>2, <4>2 DEF NoResult, Oks
      <4>3. (\E d \in Calls : Answer(d) \/ NoResult(d)) \/ UNCHANGED answer
        BY DEF Next, vars, client, Call, Submit, ReadFails, WindowCloses, TmpAges, ReadText, ReadSha,
               Check, Stage, Staged, Rename, StageFails, Verify, Report, CacheForgets, Crash, ExecWrites
      <4> QED
        BY <2>2, <4>1, <4>2, <4>3
    <3>2. PICK j \in Calls : j = job[c] /\ Key(j) = Key(c)
      BY <3>1 DEF Answer, IInv, JobInv
    <3>3. result[j] = res /\ UNCHANGED <<writes, base>>
      BY <1>0, <3>1, <3>2 DEF Answer, disk
    <3>4. Backed(c, res)
      <4>1. Content[j] = Content[c]
        BY <3>2 DEF Key
      <4> QED
        BY <1>1, <3>2, <3>3, <4>1 DEF Grounded, Backed
    <3> QED
      BY <3>3, <3>4 DEF Backed, Commits, Key
  <2> QED
    BY <2>1, <2>2
<1>14. ResultInv'
  <2>1. TypeOK'
    BY TypeStep
  <2>2. PlaceInv'
    BY PlaceStep
  <2>3. ASSUME NEW w \in Workers, pc'[w] = "answering" PROVE Grounded(doing[w], found[w])'
    <3>1. PICK d \in Calls, s \in Results : d = doing'[w] /\ s = found'[w]
      BY <2>1, <2>2, <2>3 DEF TypeOK, PlaceInv
    <3>2. Known(d, s)'
      BY <2>3, <3>1 DEF Known
    <3>3. Grounded(d, s)'
      BY <1>11, <3>2
    <3> QED
      BY <3>1, <3>3 DEF Grounded, Wrote, Key
  <2>4. ASSUME NEW w \in Workers, NEW r \in cache'[w] PROVE Grounded(r[1], r[2])'
    <3>1. r[1] \in Calls /\ r[2] \in Results /\ r = <<r[1], r[2]>>
      BY <2>1, <2>4 DEF TypeOK
    <3>2. Known(r[1], r[2])'
      BY <2>4, <3>1 DEF Known
    <3> QED
      BY <1>11, <3>1, <3>2
  <2>5. ASSUME NEW c \in Calls PROVE Grounded(c, result[c])'
    <3>1. PICK s \in Results : s = result'[c]
      BY <2>1 DEF TypeOK
    <3>2. Known(c, s)'
      BY <3>1 DEF Known
    <3>3. Grounded(c, s)'
      BY <1>11, <3>2
    <3> QED
      BY <3>1, <3>3 DEF Grounded
  <2> QED
    BY <1>12, <2>3, <2>4, <2>5 DEF ResultInv
<1> QED
  BY <1>13, <1>14

-----------------------------------------------------------------------------
\* Every step keeps the whole invariant.
LEMMA StepIInv == IInv /\ [Next]_vars => IInv'
BY TypeStep, PlaceStep, FreshStep, JobStep, HistoryInvStep, MemoryStep, StagingStep, SeenStep, ResultStep DEF IInv

\* IInv holds in every state the calls, workers and commands can reach.
THEOREM Invariance == Spec => []IInv
BY InitIInv, StepIInv, PTL DEF Spec

\* Whatever is killed, swept or raced, a reader of the path sees part of a
\* content only if the disk cut the last write of all short, and that was a
\* job's; where the disk never does, it never sees one.
THEOREM NeverTorn == Spec => [](FileIsWhole /\ (MaxShort = 0 => ReaderSeesWholeFiles))
<1>1. IInv => FileIsWhole /\ (MaxShort = 0 => ReaderSeesWholeFiles)
  BY DEF IInv, TypeOK, FileIsWhole, ReaderSeesWholeFiles
<1> QED
  BY <1>1, Invariance, PTL

\* A conditional write replaces what it named, or something wrote in between.
THEOREM ConditionalUnlessRaced == Spec => []StaleOnlyIfRaced
<1>1. IInv => StaleOnlyIfRaced
  BY DEF IInv
<1> QED
  BY <1>1, Invariance, PTL

\* No answer claims a write that did not happen, nor a sha that was not found,
\* through deduplication, replay and writes that are cut short.
THEOREM OkIsTrue == Spec => []OkMeansWritten
<1>1. IInv => OkMeansWritten
  BY DEF IInv
<1> QED
  BY <1>1, Invariance, PTL

\* No result says that nothing was committed of a job that committed.
THEOREM RefusalIsTrue == Spec => []RefusedMeansUnwritten
<1>1. IInv => RefusedMeansUnwritten
  BY DEF IInv, ResultInv, Grounded, Blameless, Wrote, RefusedMeansUnwritten
<1> QED
  BY <1>1, Invariance, PTL

\* The job of a repeated write does not write again while one like it that has
\* written shares its window, or is remembered by its worker.
THEOREM NoTwins == Spec => RepeatsWriteOnce
<1> DEFINE Once ==
      \A w \in Workers : pc[w] = "staged" /\ pc'[w] = "renamed" =>
        LET c == doing[w]
        IN  \A i \in Commits : Key(writes[i].by) = Key(c) =>
              /\ ~({c, writes[i].by} \subseteq window)
              /\ \A r \in cache[w] : r[1] # writes[i].by
<1>1. IInv => Once
  <2> SUFFICES ASSUME IInv, NEW w \in Workers, pc[w] = "staged", NEW i \in Commits,
                      Key(writes[i].by) = Key(doing[w])
               PROVE  /\ ~({doing[w], writes[i].by} \subseteq window)
                      /\ \A r \in cache[w] : r[1] # writes[i].by
    OBVIOUS
  <2>1. pc[w] \in Uncommitted /\ doing[w] \in Calls
    BY Busy DEF Uncommitted
  <2>2. ~Wrote(doing[w])
    BY <2>1 DEF IInv, PlaceInv, Unstarted
  <2>3. writes[i].by # doing[w]
    BY <2>2 DEF Wrote
  <2>4. \A c, d \in window : Key(c) = Key(d) => c = d
    BY DEF IInv, HistoryInv
  <2>5. \A r \in cache[w] : Key(r[1]) # Key(doing[w])
    BY <2>1 DEF IInv, MemoryInv, Remembered
  <2> QED
    BY <2>3, <2>4, <2>5
<1>2. IInv => [Once]_vars
  BY <1>1
<1>3. Spec => [][Once]_vars
  BY <1>2, Invariance, PTL
<1> QED
  BY <1>3 DEF RepeatsWriteOnce
-----------------------------------------------------------------------------
\* Refinement: what the steps do to the state the callers know of.

\* Who wrote, in a history of writes.
LEMMA WriterOf ==
  ASSUME NEW q \in Seq(Write), NEW i \in 1..Len(q), q[i].by # NoJob
  PROVE  q[i].by \in Calls
<1>1. q[i] \in Write
  OBVIOUS
<1> QED
  BY <1>1 DEF Write

\* The writes that were put in place are those that have written.
LEMMA PutsFact == TypeOK => Puts = {c \in Calls : Wrote(c)}
<1> SUFFICES ASSUME TypeOK PROVE Puts = {c \in Calls : Wrote(c)}
  OBVIOUS
<1>1. \A i \in Commits : writes[i].by \in Calls
  BY WriterOf DEF TypeOK, Write, Commits
<1> QED
  BY <1>1 DEF Puts, Wrote

\* A step of one worker that begins or ends nothing, ends something, or begins.
LEMMA FitStep ==
  ASSUME IInv, NEW w \in Workers, NEW to \in Steps, pc' = [pc EXCEPT ![w] = to],
         NEW d \in Calls \cup {NoJob}, doing' \in {doing, [doing EXCEPT ![w] = d]}
  PROVE  /\ pc[w] \notin Uncommitted /\ to \notin Uncommitted => Fit' = Fit
         /\ to \notin Uncommitted => Fit' \subseteq Fit
         /\ doing' = doing /\ pc[w] \in Uncommitted /\ to \in Uncommitted => Fit' = Fit
         /\ doing' = doing /\ pc[w] \in Uncommitted /\ to \notin Uncommitted => Fit' = Fit \ {doing[w]}
         /\ doing'[w] = d /\ pc[w] \notin Uncommitted /\ to \in Uncommitted => Fit' = Fit \cup {d}
<1>0. pc \in [Workers -> Steps] /\ doing \in [Workers -> Calls \cup {NoJob}]
  BY DEF IInv, TypeOK
<1>1. \A v \in Workers \ {w} : pc'[v] = pc[v] /\ doing'[v] = doing[v]
  BY <1>0
<1>2. pc'[w] = to
  BY <1>0
<1>3. \A v \in Workers : pc[v] \in Uncommitted /\ pc[w] \in Uncommitted /\ doing[v] = doing[w] => v = w
  BY WriterFact DEF Writing
<1>4. \A c : c \in Fit <=> \E v \in Workers : pc[v] \in Uncommitted /\ doing[v] = c
  BY DEF Fit
<1>5. \A c : c \in Fit' <=> \E v \in Workers : pc'[v] \in Uncommitted /\ doing'[v] = c
  BY DEF Fit
<1>6. ASSUME pc[w] \notin Uncommitted, to \notin Uncommitted PROVE Fit' = Fit
  <2>1. \A c : c \in Fit' <=> c \in Fit
    BY <1>1, <1>2, <1>4, <1>5, <1>6
  <2> QED
    BY <2>1
<1>7. ASSUME to \notin Uncommitted PROVE Fit' \subseteq Fit
  BY <1>1, <1>2, <1>4, <1>5, <1>7
<1>8. ASSUME doing' = doing, pc[w] \in Uncommitted, to \in Uncommitted PROVE Fit' = Fit
  <2>1. \A c : c \in Fit' <=> c \in Fit
    BY <1>1, <1>2, <1>4, <1>5, <1>8
  <2> QED
    BY <2>1
<1>9. ASSUME doing' = doing, pc[w] \in Uncommitted, to \notin Uncommitted PROVE Fit' = Fit \ {doing[w]}
  <2>1. \A c : c \in Fit' <=> c \in Fit /\ c # doing[w]
    BY <1>1, <1>2, <1>3, <1>4, <1>5, <1>9
  <2> QED
    BY <2>1
<1>10. ASSUME doing'[w] = d, pc[w] \notin Uncommitted, to \in Uncommitted PROVE Fit' = Fit \cup {d}
  <2>1. \A c : c \in Fit' <=> c \in Fit \/ c = d
    BY <1>1, <1>2, <1>4, <1>5, <1>10
  <2> QED
    BY <2>1
<1> QED
  BY <1>6, <1>7, <1>8, <1>9, <1>10

\* The promise speaks of the same bytes.
LEMMA PromiseBytes == Promise!Bytes = Bytes
BY DEF Promise!Bytes, Bytes, Parts

\* Steps the callers do not notice.
LEMMA PromiseStutters ==
  ASSUME UNCHANGED <<file, base, writes, result, answer>>, Settled' = Settled, Fit' = Fit
  PROVE  UNCHANGED Promise!vars
BY DEF Promise!vars, Sha, Puts, Commits, Closed

\* The call's own steps.
LEMMA PromiseCall ==
  ASSUME IInv, NEW c \in Calls,
         Call(c) \/ Submit(c) \/ Answer(c) \/ NoResult(c) \/ ReadFails(c) \/ WindowCloses(c) \/ TmpAges(c)
  PROVE  Promise!Next \/ UNCHANGED Promise!vars
<1>0. /\ at \in [Calls -> {"idle", "reading", "read", "waiting", "answered"}]
      /\ base \in [Calls -> Bytes \cup {NoBase}] /\ result \in [Calls -> Results]
      /\ answer \in [Calls -> Results \cup {"no_result"}]
  BY DEF IInv, TypeOK
<1>1. UNCHANGED <<file, writes, result>> /\ Fit' = Fit
  BY DEF Call, Submit, Answer, NoResult, ReadFails, WindowCloses, TmpAges, broker, disk, worker, Fit
<1>2. UNCHANGED <<Sha(file), Puts, Closed>>
  BY <1>1 DEF Sha, Puts, Commits, Closed
<1>3. ASSUME Call(c) \/ Submit(c) \/ WindowCloses(c) \/ TmpAges(c) PROVE UNCHANGED Promise!vars
  <2>1. Settled' = Settled /\ UNCHANGED <<base, answer>>
    BY <1>0, <1>3 DEF Call, Submit, WindowCloses, TmpAges, client, Settled
  <2> QED
    BY <1>1, <2>1, PromiseStutters
<1>4. ASSUME ReadFails(c) PROVE Promise!Settle(c)
  <2>1. /\ at' = [at EXCEPT ![c] = "read"] /\ base' = [base EXCEPT ![c] = CallBase[c]] /\ answer' = answer
        /\ at[c] = "reading" /\ CallBase[c] \in Bytes \cup {NoBase}
    BY <1>4 DEF ReadFails
  <2>2. c \notin Settled /\ Settled' = Settled \cup {c}
    BY <1>0, <2>1 DEF Settled
  <2> QED
    BY <1>1, <1>2, <2>1, <2>2, PromiseBytes DEF Promise!Settle
<1>5. ASSUME NoResult(c) PROVE Promise!GiveUp(c)
  <2>1. /\ at' = [at EXCEPT ![c] = "answered"] /\ answer' = [answer EXCEPT ![c] = "no_result"] /\ base' = base
        /\ answer[c] = "none"
    BY <1>0, <1>5 DEF NoResult, IInv, JobInv
  <2>2. Settled' = Settled \cup {c}
    BY <1>0, <2>1 DEF Settled
  <2> QED
    BY <1>1, <1>2, <2>1, <2>2 DEF Promise!GiveUp
<1>6. ASSUME Answer(c) PROVE \E r \in Promise!Refused \cup Promise!Oks \cup {"io_error"} : Promise!Tell(c, r)
  <2>1. PICK j \in Calls : j = job[c] /\ Key(j) = Key(c)
    BY <1>6 DEF Answer, IInv, JobInv
  <2>2. PICK r : r = result[j]
    OBVIOUS
  <2>3. /\ at' = [at EXCEPT ![c] = "answered"] /\ answer' = [answer EXCEPT ![c] = r] /\ base' = base
        /\ answer[c] = "none" /\ r # "none" /\ at[c] = "waiting"
    BY <1>0, <1>6, <2>1, <2>2 DEF Answer, IInv, JobInv
  <2>4. Settled' = Settled
    BY <1>0, <2>3 DEF Settled
  <2>5. r \in Promise!Refused \cup Promise!Oks \cup {"io_error"}
    BY <1>0, <2>2, <2>3 DEF Results, Refusals, Oks, Promise!Refused, Promise!Oks
  <2>6. ASSUME r \in Promise!Oks PROVE \E d \in Puts : Promise!Key(d) = Promise!Key(c)
    <3>1. \E i \in Commits : Key(writes[i].by) = Key(j)
      BY <2>2, <2>6 DEF IInv, ResultInv, Grounded, Oks, Promise!Oks
    <3> QED
      BY <2>1, <3>1 DEF Puts, Key, Promise!Key
  <2>7. ASSUME r \in Promise!Refused PROVE \E d \in Closed : Promise!Key(d) = Promise!Key(c)
    <3>1. j \in Closed
      BY <2>2, <2>7 DEF Closed, Blameless, Promise!Refused
    <3> QED
      BY <2>1, <3>1 DEF Key, Promise!Key
  <2>8. Promise!Tell(c, r)
    BY <1>1, <1>2, <2>3, <2>4, <2>6, <2>7 DEF Promise!Tell
  <2> QED
    BY <2>5, <2>8
<1> QED
  BY <1>3, <1>4, <1>5, <1>6 DEF Promise!Next

\* A worker's steps before the rename.
LEMMA PromiseRead ==
  ASSUME IInv, NEW w \in Workers, ReadSha(w) \/ \E c \in Calls : ReadText(w, c)
  PROVE  Promise!Next \/ UNCHANGED Promise!vars
<1>0. /\ at \in [Calls -> {"idle", "reading", "read", "waiting", "answered"}]
      /\ base \in [Calls -> Bytes \cup {NoBase}] /\ Sha(file) \in Bytes
  BY ShaType DEF IInv, TypeOK
<1>1. UNCHANGED <<file, writes, result, answer>>
  BY DEF ReadSha, ReadText, client, broker, disk
<1>2. UNCHANGED <<Sha(file), Puts, Closed>>
  BY <1>1 DEF Sha, Puts, Commits, Closed
<1>3. Fit' = Fit
  <2>1. PICK to \in {"polling", "reading"}, d \in Calls \cup {NoJob} :
          pc' = [pc EXCEPT ![w] = to] /\ doing' = [doing EXCEPT ![w] = d] /\ pc[w] \in {"polling", "reading"}
    BY DEF ReadSha, ReadText, Take, Step, Release
  <2> QED
    BY <2>1, FitStep DEF Steps, Uncommitted
<1>4. CASE UNCHANGED <<at, base>>
  BY <1>1, <1>3, <1>4, PromiseStutters DEF Settled
<1>5. ASSUME ReadSha(w), at[doing[w]] = "reading" PROVE \E c \in Calls : Promise!Settle(c)
  <2>1. PICK c \in Calls : c = doing[w]
    BY <1>5, Busy DEF ReadSha
  <2>2. PICK b : b = IF CallBase[c] # NoBase THEN CallBase[c]
                     ELSE IF found[w] = "not_found" THEN Empty ELSE Sha(file)
    OBVIOUS
  <2>3. at' = [at EXCEPT ![c] = "read"] /\ base' = [base EXCEPT ![c] = b]
    BY <1>5, <2>1, <2>2 DEF ReadSha
  <2>4. b \in Promise!Bytes \cup {NoBase} /\ (CallBase[c] # NoBase => b = CallBase[c])
    <3>1. Empty \in Bytes
      BY DEF Bytes
    <3> QED
      BY <1>0, <2>2, <3>1, PromiseBytes
  <2>5. c \notin Settled /\ Settled' = Settled \cup {c}
    BY <1>0, <1>5, <2>1, <2>3 DEF Settled
  <2>6. Promise!Settle(c)
    BY <1>1, <1>2, <1>3, <2>3, <2>4, <2>5 DEF Promise!Settle
  <2> QED
    BY <2>6
<1>6. UNCHANGED <<at, base>> \/ (ReadSha(w) /\ at[doing[w]] = "reading")
  BY DEF ReadSha, ReadText, client
<1> QED
  BY <1>4, <1>5, <1>6 DEF Promise!Next

\* The comparison: the one that lets a write go ahead finds what it depends on.
LEMMA PromiseCheck ==
  ASSUME IInv, NEW w \in Workers, NEW c \in Calls, Check(w, c)
  PROVE  Promise!Compare(c) \/ UNCHANGED Promise!vars
<1>1. /\ UNCHANGED <<file, writes, result, answer, at, base>> /\ pc[w] = "polling"
      /\ <<"write", c>> \in queue /\ doing' = [doing EXCEPT ![w] = c] /\ doing'[w] = c
  BY DEF Check, Take, client, disk, IInv, TypeOK
<1>2. UNCHANGED <<Sha(file), Puts, Closed, Settled>>
  BY <1>1 DEF Sha, Puts, Commits, Closed, Settled
<1>3. CASE pc' = [pc EXCEPT ![w] = "answering"]
  <2>1. Fit' = Fit
    BY <1>1, <1>3, FitStep DEF Steps, Uncommitted
  <2> QED
    BY <1>1, <1>2, <2>1, PromiseStutters
<1>4. CASE pc' = [pc EXCEPT ![w] = "checked"] /\ base[c] \in {NoBase, Sha(file)}
  <2>1. Fit' = Fit \cup {c}
    BY <1>1, <1>4, FitStep DEF Steps, Uncommitted
  <2>2. c \in Settled /\ c \notin Closed /\ ~Wrote(c)
    <3>1. at[c] \notin Early /\ result[c] = "none" /\ ~Wrote(c)
      BY <1>1 DEF IInv, PlaceInv, Unstarted
    <3> QED
      BY <3>1 DEF Settled, Closed, Early, Blameless
  <2>3. c \notin Puts
    BY <2>2, PutsFact DEF IInv
  <2> QED
    BY <1>1, <1>2, <1>4, <2>1, <2>2, <2>3 DEF Promise!Compare
<1>5. \/ pc' = [pc EXCEPT ![w] = "answering"]
      \/ pc' = [pc EXCEPT ![w] = "checked"] /\ base[c] \in {NoBase, Sha(file)}
  BY DEF Check, Step
<1> QED
  BY <1>3, <1>4, <1>5

\* Staging, failing, verifying and dying.
LEMMA PromiseWork ==
  ASSUME IInv, NEW w \in Workers,
         Stage(w) \/ Staged(w) \/ StageFails(w) \/ Verify(w) \/ CacheForgets(w) \/ Crash(w)
  PROVE  Promise!Drop \/ UNCHANGED Promise!vars
<1>1. UNCHANGED <<file, writes, result, answer, at, base>>
  BY DEF Stage, Staged, StageFails, Verify, CacheForgets, Crash, client, broker, disk
<1>2. UNCHANGED <<Sha(file), Puts, Closed, Settled>>
  BY <1>1 DEF Sha, Puts, Commits, Closed, Settled
<1>3. ASSUME Stage(w) \/ Staged(w) PROVE Fit' = Fit
  <2>1. PICK to \in {"staging", "staged"} :
          pc' = [pc EXCEPT ![w] = to] /\ doing' = doing /\ pc[w] \in {"checked", "staging"}
    BY <1>3 DEF Stage, Staged, Step
  <2> QED
    BY <2>1, FitStep DEF Steps, Uncommitted
<1>4. ASSUME Verify(w) PROVE Fit' = Fit
  <2>1. pc' = [pc EXCEPT ![w] = "answering"] /\ doing' = doing /\ pc[w] = "renamed"
    BY <1>4 DEF Verify, Step
  <2> QED
    BY <2>1, FitStep DEF Steps, Uncommitted
<1>5. ASSUME CacheForgets(w) PROVE Fit' = Fit
  BY <1>5 DEF CacheForgets, worker, Fit
<1>6. ASSUME StageFails(w) \/ Crash(w) PROVE Fit' \subseteq Fit
  <2>1. PICK to \in {"answering", "dead"} :
          pc' = [pc EXCEPT ![w] = to] /\ doing' \in {doing, [doing EXCEPT ![w] = NoJob]}
    BY <1>6 DEF StageFails, Crash, Step, Release
  <2> QED
    BY <2>1, FitStep DEF Steps, Uncommitted
<1>7. CASE Fit' = Fit
  BY <1>1, <1>2, <1>7, PromiseStutters
<1>8. CASE Fit' \subseteq Fit
  BY <1>1, <1>2, <1>8 DEF Promise!Drop
<1> QED
  BY <1>3, <1>4, <1>5, <1>6, <1>7, <1>8

\* The commit point.
LEMMA PromiseRename ==
  ASSUME IInv, [Next]_vars, NEW w \in Workers, Rename(w)
  PROVE  Promise!Drop \/ \E c \in Calls : Promise!Put(c)
<1>1. UNCHANGED <<result, answer, at, base, doing>> /\ pc[w] = "staged"
  BY DEF Rename, client, broker
<1>2. UNCHANGED <<Closed, Settled>>
  BY <1>1 DEF Closed, Settled
<1>3. PICK c \in Calls : c = doing[w]
  BY <1>1, Busy
<1>4. PICK to \in {"answering", "renamed"} : pc' = [pc EXCEPT ![w] = to]
  BY DEF Rename, Step
<1>5. Fit' = Fit \ {c} /\ c \in Fit
  BY <1>1, <1>3, <1>4, FitStep DEF Steps, Uncommitted, Fit
<1>6. CASE tmp[c] = "none"
  <2>1. UNCHANGED <<file, writes>>
    BY <1>3, <1>6 DEF Rename
  <2>2. UNCHANGED <<Sha(file), Puts>>
    BY <2>1 DEF Sha, Puts, Commits
  <2> QED
    BY <1>1, <1>2, <1>5, <2>2 DEF Promise!Drop
<1>7. CASE tmp[c] # "none"
  <2>1. file' = Held(c) /\ Held(c) \in Bytes
    BY <1>3, <1>7, HeldType DEF Rename
  <2>2. Held(c) = Content[c] \/ (MaxShort > 0 /\ Held(c) = Part[Content[c]])
    <3>1. CASE tmp[c] = "whole"
      BY <3>1 DEF Held
    <3>2. CASE tmp[c] # "whole"
      <4>1. shorts > 0 /\ shorts \in 0..MaxShort
        BY <1>1, <1>3, <1>7, <3>2 DEF IInv, StagingInv, TypeOK
      <4> QED
        BY <3>2, <4>1 DEF Held
    <3> QED
      BY <3>1, <3>2
  <2>3. Sha(file)' = Held(c)
    BY <2>1 DEF Sha
  <2>4. Puts' = Puts \cup {c}
    <3>1. Renames(w)
      BY <1>3, <1>7 DEF Renames
    <3>2. Wrote(c)'
      <4>1. Wrote(doing[w])'
        BY <3>1, CommitStep
      <4> QED
        BY <1>1, <1>3, <4>1 DEF Wrote
    <3>3. \A d \in Calls : Wrote(d)' => Wrote(d) \/ d = c
      <4>1. ASSUME NEW v \in Workers, Renames(v) PROVE doing[v] = c
        <5>1. /\ writes' = Append(writes, Entry(v)) /\ writes' = Append(writes, Entry(w))
              /\ writes \in Seq(Write)
          BY <3>1, <4>1 DEF Renames, Rename, Entry, IInv, TypeOK, Write
        <5>2. Entry(v) \in Write /\ Entry(w) \in Write
          BY <3>1, <4>1, Busy, EntryType DEF Renames, Rename
        <5>3. Entry(v) = Entry(w)
          <6> DEFINE n == Len(writes) + 1
          <6>1. Append(writes, Entry(v))[n] = Entry(v)
            BY <5>1, <5>2, AppendIndex
          <6>2. Append(writes, Entry(w))[n] = Entry(w)
            BY <5>1, <5>2, AppendIndex
          <6> HIDE DEF n
          <6> QED
            BY <5>1, <6>1, <6>2
        <5> QED
          BY <1>3, <5>3 DEF Entry, Written
      <4> QED
        BY <4>1, WroteStep
    <3>4. \A d \in Calls : Wrote(d) => Wrote(d)'
      <4>1. SUFFICES ASSUME NEW d \in Calls, Wrote(d) PROVE Wrote(d)'
        OBVIOUS
      <4>2. PICK i \in Commits : writes[i].by = d
        BY <4>1 DEF Wrote
      <4>3. i \in Commits' /\ writes'[i] = writes[i]
        BY CommitStep
      <4> QED
        BY <4>2, <4>3 DEF Wrote
    <3>5. Puts = {d \in Calls : Wrote(d)} /\ Puts' = {d \in Calls : Wrote(d)'}
      <4>1. TypeOK' /\ TypeOK
        BY TypeStep DEF IInv
      <4>2. \A i \in Commits' : writes'[i].by \in Calls
        BY <4>1, WriterOf DEF TypeOK, Write, Commits
      <4> QED
        BY <4>1, <4>2, PutsFact DEF Puts, Wrote
    <3> QED
      BY <3>2, <3>3, <3>4, <3>5
  <2> QED
    BY <1>1, <1>2, <1>5, <2>2, <2>3, <2>4 DEF Promise!Put
<1> QED
  BY <1>6, <1>7

\* A result gets on record, or is lost.
LEMMA PromiseReport ==
  ASSUME IInv, NEW w \in Workers, Report(w)
  PROVE  (\E c \in Calls : Promise!Close(c)) \/ UNCHANGED Promise!vars
<1>1. /\ UNCHANGED <<file, writes, answer, at, base>> /\ pc[w] = "answering" /\ result \in [Calls -> Results]
      /\ pc' = [pc EXCEPT ![w] = "polling"] /\ doing' = [doing EXCEPT ![w] = NoJob]
      /\ result' \in {result, [result EXCEPT ![doing[w]] = found[w]]}
  BY DEF Report, client, disk, Step, Release, IInv, TypeOK
<1>2. UNCHANGED <<Sha(file), Puts, Settled>>
  BY <1>1 DEF Sha, Puts, Commits, Settled
<1>3. Fit' = Fit
  BY <1>1, FitStep DEF Steps, Uncommitted
<1>4. CASE result' = result
  BY <1>1, <1>2, <1>3, <1>4, PromiseStutters
<1>5. CASE result' = [result EXCEPT ![doing[w]] = found[w]]
  <2>1. PICK c \in Calls : c = doing[w]
    BY <1>1, Busy
  <2>2. result[c] = "none" /\ Grounded(c, found[w]) /\ Writing(w)
    BY <1>1, <2>1 DEF IInv, FreshInv, ResultInv, Writing
  <2>3. CASE found[w] \in Blameless
    <3>1. Closed' = Closed \cup {c}
      BY <1>1, <1>5, <2>1, <2>3 DEF Closed
    <3>2. c \notin Puts
      BY <2>2, <2>3, PutsFact DEF Grounded, IInv
    <3>3. c \notin Fit
      <4>1. \A v \in Workers : pc[v] \in Uncommitted => Writing(v) /\ v # w
        BY <1>1 DEF Writing, Uncommitted
      <4> QED
        BY <2>1, <2>2, <4>1, WriterFact DEF Fit
    <3> QED
      BY <1>1, <1>2, <1>3, <3>1, <3>2, <3>3 DEF Promise!Close
  <2>4. CASE found[w] \notin Blameless
    <3>1. Closed' = Closed
      BY <1>1, <1>5, <2>1, <2>2, <2>4 DEF Closed, Blameless
    <3> QED
      BY <1>1, <1>2, <1>3, <3>1 DEF Promise!vars
  <2> QED
    BY <2>3, <2>4
<1> QED
  BY <1>1, <1>4, <1>5

\* Somebody else's write.
LEMMA PromiseOther ==
  ASSUME IInv, [Next]_vars, NEW x \in Contents, ExecWrites(x)
  PROVE  Promise!Other
<1>1. UNCHANGED <<result, answer, at, base, pc, doing>> /\ file' = x
  BY DEF ExecWrites, client, broker, worker
<1>2. UNCHANGED <<Closed, Settled, Fit>>
  BY <1>1 DEF Closed, Settled, Fit
<1>3. Sha(file)' \in Contents
  BY <1>1 DEF Sha
<1>4. Puts' = Puts
  <2>1. writes \in Seq(Write) /\ \E r \in Write : writes' = Append(writes, r) /\ r.by = NoJob
    <3>1. writes \in Seq(Write) /\ Len(writes) \in Nat /\ Sha(file) \in Bytes
      BY ShaType DEF IInv, TypeOK, Write
    <3> DEFINE r == Written(NoJob, Len(writes), x)
    <3>2. r \in Write /\ r.by = NoJob /\ writes' = Append(writes, r)
      BY <3>1 DEF ExecWrites, Write, Written, Bytes
    <3> HIDE DEF r
    <3> QED
      BY <3>1, <3>2
  <2>2. PICK r \in Write : writes' = Append(writes, r) /\ r.by = NoJob
    BY <2>1
  <2>3. /\ Len(writes') = Len(writes) + 1 /\ writes'[Len(writes) + 1] = r
        /\ \A i \in 1..Len(writes) : writes'[i] = writes[i] /\ Len(writes) \in Nat
    BY <2>1, <2>2, AppendIndex
  <2>4. \A i \in 1..(Len(writes) + 1) : i \in 1..Len(writes) \/ i = Len(writes) + 1
    BY <2>1
  <2>5. \A i \in 1..Len(writes) : i \in 1..(Len(writes) + 1)
    BY <2>1
  <2>6. Commits' = Commits
    BY <2>2, <2>3, <2>4, <2>5 DEF Commits
  <2>7. \A i \in Commits : writes'[i] = writes[i]
    BY <2>3 DEF Commits
  <2> QED
    BY <2>6, <2>7 DEF Puts
<1> QED
  BY <1>1, <1>2, <1>3, <1>4 DEF Promise!Other

LEMMA PromiseStep == IInv /\ [Next]_vars => [Promise!Next]_(Promise!vars)
<1> SUFFICES ASSUME IInv, [Next]_vars PROVE Promise!Next \/ UNCHANGED Promise!vars
  OBVIOUS
<1>1. CASE UNCHANGED vars
  <2>1. Settled' = Settled /\ Fit' = Fit
    BY <1>1 DEF vars, client, worker, Settled, Fit
  <2> QED
    BY <1>1, <2>1, PromiseStutters DEF vars, client, broker, disk
<1>2. CASE \E c \in Calls : Call(c) \/ Submit(c) \/ Answer(c) \/ NoResult(c) \/ ReadFails(c)
                            \/ WindowCloses(c) \/ TmpAges(c)
  BY <1>2, PromiseCall
<1>3. CASE \E w \in Workers : ReadSha(w) \/ \E c \in Calls : ReadText(w, c)
  BY <1>3, PromiseRead
<1>4. CASE \E w \in Workers, c \in Calls : Check(w, c)
  BY <1>4, PromiseCheck DEF Promise!Next
<1>5. CASE \E w \in Workers : Stage(w) \/ Staged(w) \/ StageFails(w) \/ Verify(w) \/ CacheForgets(w) \/ Crash(w)
  BY <1>5, PromiseWork DEF Promise!Next
<1>6. CASE \E w \in Workers : Rename(w)
  BY <1>6, PromiseRename DEF Promise!Next
<1>7. CASE \E w \in Workers : Report(w)
  BY <1>7, PromiseReport DEF Promise!Next
<1>8. CASE \E x \in Contents : ExecWrites(x)
  BY <1>8, PromiseOther DEF Promise!Next
<1> QED
  BY <1>1, <1>2, <1>3, <1>4, <1>5, <1>6, <1>7, <1>8 DEF Next

\* Through every interleaving, crash, sweep, replay and lost result, callers of
\* write_file see what FilePromise describes: each write put in place once at
\* most, in one step and on its condition, whole unless the disk cuts it short,
\* and answers that mean what they say.
THEOREM Refinement == Spec => KeepsPromise
<1>1. Init => Promise!Init
  <2> SUFFICES ASSUME Init PROVE Promise!Init
    OBVIOUS
  <2>1. Sha(file) \in Contents
    BY DEF Init, Sha
  <2>2. Settled = {} /\ Fit = {} /\ Puts = {} /\ Closed = {}
    BY DEF Init, Settled, Fit, Puts, Commits, Closed, Uncommitted, Blameless
  <2> QED
    BY <2>1, <2>2 DEF Init, Promise!Init
<1>2. Spec => [][Promise!Next]_(Promise!vars)
  BY Invariance, PromiseStep, PTL DEF Spec
<1> QED
  BY <1>1, <1>2, PTL DEF Spec, KeepsPromise, Promise!Spec
=============================================================================
