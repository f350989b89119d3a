------------------------- MODULE OutputStream_proofs -------------------------
(***************************************************************************)
(* What holds of the output path for every file size, piece size, ring     *)
(* and tail capacity and window, with pushes lost, duplicated, late, and   *)
(* the broker's memory lost at any moment.                                 *)
(***************************************************************************)
EXTENDS OutputWindow, SequenceTheorems, FiniteSetTheorems, WellFoundedInduction, TLAPS

-----------------------------------------------------------------------------
\* Stretches of out.raw

(* q is what out.raw holds from offset a on.                               *)
Run(q, a) == q \in Seq(Nat) /\ \A k \in 1..Len(q) : q[k] = a + k - 1

(* A stretch of out.raw is a sequence of the right length and content.     *)
LEMMA BytesFacts ==
  ASSUME NEW a \in Nat, NEW b \in Nat
  PROVE  /\ Bytes(a, b) \in Seq(Nat)
         /\ Len(Bytes(a, b)) = IF a <= b THEN b - a ELSE 0
         /\ \A k \in 1..Len(Bytes(a, b)) : Bytes(a, b)[k] = a + k - 1
  <1>1. CASE a <= b
    <2>1. b - a \in Nat /\ DOMAIN Bytes(a, b) = 1..(b - a)
      BY <1>1 DEF Bytes
    <2>2. \A k \in 1..(b - a) : Bytes(a, b)[k] = a + k - 1
      BY DEF Bytes
    <2>3. Bytes(a, b) \in [1..(b - a) -> Nat]
      BY <2>1 DEF Bytes
    <2>4. Bytes(a, b) \in Seq(Nat)
      BY <2>1, <2>3
    <2> QED BY <1>1, <2>1, <2>2, <2>4, LenProperties
  <1>2. CASE a > b
    <2>1. Bytes(a, b) = <<>>
      BY <1>2 DEF Bytes
    <2> QED BY <1>2, <2>1
  <1> QED BY <1>1, <1>2

(* A stretch of a stretch.                                                 *)
LEMMA RunSub ==
  ASSUME NEW q, NEW a \in Nat, Run(q, a), NEW m \in 1..(Len(q) + 1), NEW n \in 0..Len(q), m <= n + 1
  PROVE  Run(SubSeq(q, m, n), a + m - 1) /\ Len(SubSeq(q, m, n)) = n - m + 1
  <1>1. q \in Seq(Nat) /\ Len(q) \in Nat
    BY LenProperties DEF Run
  <1>2. /\ SubSeq(q, m, n) \in Seq(Nat) /\ Len(SubSeq(q, m, n)) = n - m + 1
        /\ \A i \in 1..(n - m + 1) : SubSeq(q, m, n)[i] = q[m + i - 1]
    BY <1>1
  <1>3. \A i \in 1..(n - m + 1) : m + i - 1 \in 1..Len(q)
    BY <1>1
  <1>4. \A i \in 1..(n - m + 1) : q[m + i - 1] = a + (m + i - 1) - 1
    BY <1>3 DEF Run
  <1>5. \A i \in 1..(n - m + 1) : SubSeq(q, m, n)[i] = (a + m - 1) + i - 1
    BY <1>2, <1>4
  <1> QED BY <1>2, <1>5 DEF Run

(* Two stretches that meet.                                                *)
LEMMA RunConcat ==
  ASSUME NEW p, NEW q, NEW a \in Nat, Run(p, a), Run(q, a + Len(p))
  PROVE  Run(p \o q, a) /\ Len(p \o q) = Len(p) + Len(q)
  <1>1. p \in Seq(Nat) /\ q \in Seq(Nat) /\ Len(p) \in Nat /\ Len(q) \in Nat
    BY LenProperties DEF Run
  <1>2. /\ p \o q \in Seq(Nat) /\ Len(p \o q) = Len(p) + Len(q)
        /\ \A i \in 1..(Len(p) + Len(q)) :
             (p \o q)[i] = IF i <= Len(p) THEN p[i] ELSE q[i - Len(p)]
    BY <1>1, ConcatProperties, Zenon
  <1>3. ASSUME NEW i \in 1..(Len(p) + Len(q)) PROVE (p \o q)[i] = a + i - 1
    <2>1. CASE i <= Len(p)
      <3>1. i \in 1..Len(p)
        BY <1>1, <2>1
      <3> QED BY <1>2, <2>1, <3>1 DEF Run
    <2>2. CASE ~(i <= Len(p))
      <3>1. i - Len(p) \in 1..Len(q)
        BY <1>1, <2>2
      <3>2. q[i - Len(p)] = (a + Len(p)) + (i - Len(p)) - 1
        BY <3>1 DEF Run
      <3> QED BY <1>1, <1>2, <2>2, <3>2
    <2> QED BY <2>1, <2>2
  <1> QED BY <1>2, <1>3 DEF Run

-----------------------------------------------------------------------------
\* The buffers

(* What the ring and the tail are, once they are anything.                 *)
LEMMA BufFacts ==
  ASSUME NEW b \in Buffers
  PROVE  /\ b.start \in Nat /\ b.bytes \in Seq(Nat) /\ Len(b.bytes) \in Nat
         /\ End(b) \in Nat /\ End(b) = b.start + Len(b.bytes)
         /\ b = Buffer(b.start, b.bytes)
         /\ Truthful(b) <=> Run(b.bytes, b.start)
  <1>1. b.start \in Nat /\ b.bytes \in Seq(Nat) /\ Len(b.bytes) \in Nat
    BY LenProperties DEF Buffers
  <1> QED BY <1>1 DEF Buffers, Buffer, End, Truthful, Run

(* A buffer made of a stretch.                                             *)
LEMMA MakeBuf ==
  ASSUME NEW a \in Nat, NEW q, Run(q, a)
  PROVE  /\ Buffer(a, q) \in Buffers /\ Truthful(Buffer(a, q)) /\ Buffer(a, q).bytes = q
         /\ End(Buffer(a, q)) = a + Len(q)
  BY DEF Buffer, Buffers, Truthful, End, Run

(* The end of a truthful buffer is truthful, ends where it did and is at   *)
(* most as long as asked.                                                  *)
LEMMA LastOfFacts ==
  ASSUME NEW b \in Buffers, Truthful(b), NEW n \in Nat
  PROVE  /\ LastOf(b, n) \in Buffers /\ Truthful(LastOf(b, n))
         /\ End(LastOf(b, n)) = End(b) /\ Len(LastOf(b, n).bytes) <= n
  <1>0. /\ b.start \in Nat /\ Len(b.bytes) \in Nat /\ Run(b.bytes, b.start)
        /\ End(b) = b.start + Len(b.bytes)
    BY BufFacts
  <1>1. PICK drop : drop = Greater(0, Len(b.bytes) - n)
    OBVIOUS
  <1>2. drop \in 0..Len(b.bytes) /\ Len(b.bytes) - drop <= n
    BY <1>0, <1>1 DEF Greater
  <1>3. LastOf(b, n) = Buffer(b.start + drop, SubSeq(b.bytes, drop + 1, Len(b.bytes)))
    BY <1>1 DEF LastOf
  <1>4. /\ Run(SubSeq(b.bytes, drop + 1, Len(b.bytes)), b.start + (drop + 1) - 1)
        /\ Len(SubSeq(b.bytes, drop + 1, Len(b.bytes))) = Len(b.bytes) - (drop + 1) + 1
    <2>1. drop + 1 \in 1..(Len(b.bytes) + 1) /\ Len(b.bytes) \in 0..Len(b.bytes)
          /\ drop + 1 <= Len(b.bytes) + 1
      BY <1>0, <1>2
    <2> QED BY <1>0, <2>1, RunSub
  <1>5. b.start + (drop + 1) - 1 = b.start + drop /\ b.start + drop \in Nat
        /\ Len(b.bytes) - (drop + 1) + 1 = Len(b.bytes) - drop
    BY <1>0, <1>2
  <1>6. /\ LastOf(b, n) \in Buffers /\ Truthful(LastOf(b, n))
        /\ LastOf(b, n).bytes = SubSeq(b.bytes, drop + 1, Len(b.bytes))
        /\ End(LastOf(b, n)) = (b.start + drop) + Len(SubSeq(b.bytes, drop + 1, Len(b.bytes)))
    BY <1>3, <1>4, <1>5, MakeBuf
  <1> QED BY <1>0, <1>2, <1>4, <1>5, <1>6

(* A truthful chunk that overlaps the end of a truthful ring extends it to *)
(* the chunk's own end.                                                    *)
LEMMA JoinFacts ==
  ASSUME NEW b \in Buffers, Truthful(b), NEW m \in Buffers, Truthful(m),
         NEW skip \in 0..Len(m.bytes), End(b) = m.start + skip
  PROVE  LET j == Buffer(b.start, b.bytes \o SubSeq(m.bytes, skip + 1, Len(m.bytes)))
         IN  j \in Buffers /\ Truthful(j) /\ End(j) = End(m)
  <1>1. PICK rest : rest = SubSeq(m.bytes, skip + 1, Len(m.bytes))
    OBVIOUS
  <1>2. Run(rest, m.start + (skip + 1) - 1) /\ Len(rest) = Len(m.bytes) - (skip + 1) + 1
    <2>1. Run(m.bytes, m.start) /\ m.start \in Nat /\ Len(m.bytes) \in Nat
      BY BufFacts
    <2>2. skip + 1 \in 1..(Len(m.bytes) + 1) /\ Len(m.bytes) \in 0..Len(m.bytes)
          /\ skip + 1 <= Len(m.bytes) + 1
      BY <2>1
    <2> QED BY <1>1, <2>1, <2>2, RunSub
  <1>3. m.start + (skip + 1) - 1 = b.start + Len(b.bytes)
    BY BufFacts
  <1>4. Run(b.bytes \o rest, b.start) /\ Len(b.bytes \o rest) = Len(b.bytes) + Len(rest)
    BY <1>2, <1>3, RunConcat, BufFacts
  <1>5. b.start + Len(b.bytes \o rest) = End(m)
    <2>1. /\ b.start \in Int /\ Len(b.bytes) \in Int /\ m.start \in Int /\ Len(m.bytes) \in Int
          /\ skip \in Int /\ b.start + Len(b.bytes) = m.start + skip
      BY BufFacts
    <2>2. PICK a, l, c, n : a = b.start /\ l = Len(b.bytes) /\ c = m.start /\ n = Len(m.bytes)
      OBVIOUS
    <2>3. a \in Int /\ l \in Int /\ c \in Int /\ n \in Int /\ skip \in Int /\ a + l = c + skip
      BY <2>1, <2>2
    <2>4. Len(b.bytes \o rest) = l + (n - skip)
      BY <1>2, <1>4, <2>2, <2>3
    <2>5. a + (l + (n - skip)) = c + n
      BY <2>3
    <2> QED BY <2>2, <2>4, <2>5 DEF End
  <1> QED BY <1>1, <1>4, <1>5, MakeBuf, BufFacts

(* Appending a truthful chunk keeps a ring truthful and within its cap,    *)
(* and its end is no further than the further of the two.                  *)
LEMMA AppendFacts ==
  ASSUME NEW r \in Buffers \cup {NoBuffer}, Truthful(r),
         NEW m \in Buffers, Truthful(m)
  PROVE  LET a == AppendChunk(r, m.start, m.bytes)
         IN  /\ a \in Buffers /\ Truthful(a) /\ Len(a.bytes) <= RingMax
             /\ End(a) <= Greater(End(r), End(m))
  <1>1. PICK old : old = IF r = NoBuffer THEN Buffer(m.start, <<>>) ELSE r
    OBVIOUS
  <1>2. old \in Buffers /\ Truthful(old) /\ End(old) <= Greater(End(r), End(m))
    <2>1. CASE r = NoBuffer
      <3>1. Run(<<>>, m.start) /\ Len(<<>>) = 0
        BY DEF Run
      <3>2. End(old) = m.start /\ old \in Buffers /\ Truthful(old)
        BY <1>1, <2>1, <3>1, MakeBuf, BufFacts
      <3>3. End(r) = -1
        BY <2>1 DEF End, NoBuffer, Buffer
      <3> QED BY <3>2, <3>3, BufFacts DEF Greater
    <2>2. CASE r # NoBuffer
      BY <1>1, <2>2, BufFacts DEF Greater
    <2> QED BY <2>1, <2>2
  <1>3. PICK skip \in Int : skip = End(old) - m.start
    BY <1>2, BufFacts
  <1>4. PICK new : new = IF skip < 0 THEN Buffer(m.start, m.bytes)
                         ELSE Buffer(old.start, old.bytes \o SubSeq(m.bytes, skip + 1, Len(m.bytes)))
    OBVIOUS
  <1>5. AppendChunk(r, m.start, m.bytes) = LastOf(new, RingMax)
    BY <1>1, <1>3, <1>4 DEF AppendChunk
  <1>6. End(m) <= Greater(End(r), End(m))
    BY BufFacts DEF Greater, End, NoBuffer, Buffer
  <1>7. new \in Buffers /\ Truthful(new) /\ End(new) <= Greater(End(r), End(m))
    <2>1. CASE skip < 0
      BY <1>4, <1>6, <2>1, BufFacts
    <2>2. CASE skip > Len(m.bytes)
      <3>1. SubSeq(m.bytes, skip + 1, Len(m.bytes)) = <<>>
        BY <1>3, <2>2, BufFacts, SubSeqEmpty
      <3>2. old.bytes \o <<>> = old.bytes
        BY <1>2, BufFacts, ConcatEmptySeq
      <3>3. ~(skip < 0)
        BY <1>3, <2>2, BufFacts
      <3>4. new = old
        BY <1>2, <1>4, <3>1, <3>2, <3>3, BufFacts
      <3> QED BY <1>2, <3>4
    <2>3. CASE skip \in 0..Len(m.bytes)
      <3>1. End(old) = m.start + skip /\ ~(skip < 0)
        BY <1>2, <1>3, <2>3, BufFacts
      <3> QED BY <1>2, <1>4, <1>6, <2>3, <3>1, JoinFacts
    <2>4. skip < 0 \/ skip > Len(m.bytes) \/ skip \in 0..Len(m.bytes)
      BY BufFacts
    <2> QED BY <2>1, <2>2, <2>3, <2>4
  <1>8. RingMax \in Nat
    BY StreamAssumption
  <1> QED BY <1>5, <1>7, <1>8, LastOfFacts

(* A window into a truthful buffer is truthful, wherever it starts, and    *)
(* goes no further than the buffer.                                        *)
LEMMA SliceFacts ==
  ASSUME NEW b \in Buffers, Truthful(b), NEW from \in Nat, b.start <= from
  PROVE  Run(Slice(b, from), from) /\ from + Len(Slice(b, from)) <= Greater(from, End(b))
  <1>1. PICK a, l, w : a = b.start /\ l = Len(b.bytes) /\ w = Want
    OBVIOUS
  <1>2. a \in Nat /\ l \in Nat /\ w \in Nat \ {0} /\ Run(b.bytes, a) /\ b.bytes \in Seq(Nat)
    BY <1>1, BufFacts, StreamAssumption
  <1>3. Slice(b, from) = SubSeq(b.bytes, from - a + 1, Lesser(l, from - a + w))
    BY <1>1 DEF Slice
  <1>4. CASE from <= a + l
    <2>0. PICK t : t = from - a
      OBVIOUS
    <2>1. PICK m, n : m = t + 1 /\ n = Lesser(l, t + w)
      OBVIOUS
    <2>2. /\ m \in 1..(l + 1) /\ n \in 0..l /\ m <= n + 1 /\ a + m - 1 = from
          /\ from + (n - m + 1) <= a + l
      <3>1. t \in Nat /\ t <= l /\ a + t = from
        BY <1>1, <1>2, <1>4, <2>0
      <3>2. n \in Nat /\ n <= l /\ t <= n
        BY <1>2, <2>1, <3>1 DEF Lesser
      <3> QED BY <1>2, <2>1, <3>1, <3>2
    <2>3. Run(SubSeq(b.bytes, m, n), a + m - 1) /\ Len(SubSeq(b.bytes, m, n)) = n - m + 1
      BY <1>1, <1>2, <2>2, RunSub
    <2>4. End(b) = a + l /\ Greater(from, End(b)) >= a + l
      BY <1>1, <1>2 DEF End, Greater
    <2>5. Run(Slice(b, from), from)
      BY <1>3, <2>0, <2>1, <2>2, <2>3
    <2>6. Len(Slice(b, from)) = n - m + 1
      BY <1>3, <2>0, <2>1, <2>3
    <2>7. Greater(from, End(b)) \in Nat
      BY <1>2, <2>4 DEF Greater
    <2> QED BY <1>2, <2>2, <2>4, <2>5, <2>6, <2>7
  <1>5. CASE from > a + l
    <2>1. Slice(b, from) = <<>>
      <3>1. from - a + 1 \in Int /\ Lesser(l, from - a + w) \in Int
            /\ from - a + 1 > Lesser(l, from - a + w)
        BY <1>2, <1>5 DEF Lesser
      <3> QED BY <1>2, <1>3, <3>1, SubSeqEmpty
    <2>2. End(b) = a + l
      BY <1>1 DEF End
    <2> QED BY <1>2, <1>5, <2>1, <2>2 DEF Run, Greater
  <1> QED BY <1>2, <1>4, <1>5

(* Every piece a flush sends is truthful, and lies in what it has seen.    *)
LEMMA PieceFacts ==
  ASSUME NEW from \in Nat, NEW n \in Nat, from <= n, NEW s \in {"running", "exited"}
  PROVE  LET m == Piece(from, n, s)
         IN  /\ m \in Chunk /\ Truthful(m) /\ m.total = n /\ m # GaveUp
             /\ m.start + Len(m.bytes) \in Nat /\ m.start + Len(m.bytes) <= n
             /\ m.state = "exited" => s = "exited"
  <1>1. PICK to : to = Lesser(n, from + PushMax)
    OBVIOUS
  <1>2. to \in Nat /\ from <= to /\ to <= n
    BY <1>1, StreamAssumption DEF Lesser
  <1>3. PICK q : q = Bytes(from, to)
    OBVIOUS
  <1>4. q \in Seq(Nat) /\ Len(q) = to - from /\ \A k \in 1..Len(q) : q[k] = from + k - 1
    BY <1>2, <1>3, BytesFacts
  <1>5. PICK v : v = IF to = n THEN s ELSE "running"
    OBVIOUS
  <1>6. Piece(from, n, s) = [start |-> from, bytes |-> q, total |-> n, state |-> v]
    BY <1>1, <1>3, <1>5 DEF Piece
  <1>7. v \in {"running", "exited"} /\ (v = "exited" => s = "exited")
    BY <1>5
  <1> QED BY <1>2, <1>4, <1>6, <1>7 DEF Chunk, Truthful, GaveUp

LEMMA GaveUpFacts == GaveUp \in Chunk /\ Truthful(GaveUp) /\ GaveUp.start + Len(GaveUp.bytes) = 0
                     /\ GaveUp.total = 0 /\ GaveUp.state = "lost"
  BY DEF GaveUp, Chunk, Truthful

-----------------------------------------------------------------------------
\* The steps

(* A step that leaves the worker alone, and after which the row says       *)
(* exited only if it did or such a chunk was on its way.                   *)
LEMMA EndStays ==
  ASSUME IInv, UNCHANGED <<written, childEnd, pc, size, piece, net>>,
         state' = "exited" => state = "exited" \/ \E m \in net : m.state = "exited"
  PROVE  EndInv'
  <1>1. Measured => Measured'
    BY DEF Measured
  <1> QED BY <1>1 DEF IInv, EndInv

(* One that leaves the client alone.                                       *)
LEMMA ClientStays ==
  ASSUME IInv, UNCHANGED <<cursor, eof>>, written' \in Nat, written <= written',
         pull' \in Pulls, pull'.from + Len(pull'.bytes) <= written',
         pull'.at # "none" => pull.at # "none" \/ eof # "exited"
  PROVE  ClientInv'
  BY DEF IInv, TypeOK, ClientInv

LEMMA InitIInv == Init => IInv
  <1> SUFFICES ASSUME Init PROVE IInv
    OBVIOUS
  <1>1. ring = NoBuffer /\ tail = NoBuffer /\ net = {} /\ piece = GaveUp /\ pull = NoPull
    BY DEF Init
  <1>2. End(NoBuffer) = -1 /\ Len(NoBuffer.bytes) = 0 /\ Truthful(NoBuffer)
    BY DEF NoBuffer, Buffer, End, Truthful
  <1>3. TypeOK
    <2>1. NoPull \in Pulls
      BY DEF NoPull, Pulls
    <2> QED BY <1>1, <2>1, GaveUpFacts DEF Init, TypeOK, States
  <1>4. BufferInv /\ BoundedInv
    BY <1>1, <1>2, StreamAssumption DEF Init, BufferInv, BoundedInv
  <1>5. ChunkInv
    BY <1>1, GaveUpFacts DEF Init, ChunkInv, Greater
  <1>6. WorkerInv
    BY <1>1, GaveUpFacts DEF Init, WorkerInv
  <1>7. PullInv
    BY <1>1 DEF NoPull, PullInv
  <1>8. ReadsAreTruthful /\ NothingSkippedInSilence /\ EofIsComplete
    BY DEF Init, ReadsAreTruthful, NothingSkippedInSilence, EofIsComplete
  <1>9. EndInv
    BY <1>1, GaveUpFacts DEF Init, EndInv, NotYet
  <1>10. ClientInv
    BY <1>1 DEF Init, ClientInv, NoPull
  <1> QED BY <1>3, <1>4, <1>5, <1>6, <1>7, <1>8, <1>9, <1>10 DEF IInv

(* The child's steps touch nothing but the file.                           *)
LEMMA ChildIInv == IInv /\ (Write \/ ChildExits) => IInv'
  <1> SUFFICES ASSUME IInv, Write \/ ChildExits PROVE IInv'
    OBVIOUS
  <1>1. /\ UNCHANGED <<worker, net, broker, gone, evictions, pull, reader>>
        /\ written' \in Nat /\ written <= written' /\ childEnd' \in Nat \cup {NotYet}
        /\ childEnd' = childEnd \/ (childEnd = NotYet /\ childEnd' = written)
    <2>1. UNCHANGED <<worker, net, broker, gone, evictions, pull, reader>>
      BY DEF Write, ChildExits
    <2>2. written' \in Nat /\ written <= written'
      BY DEF IInv, TypeOK, Write, ChildExits
    <2>3. childEnd' = childEnd \/ (childEnd = NotYet /\ childEnd' = written)
      BY DEF Write, ChildExits
    <2>4. childEnd' \in Nat \cup {NotYet}
      BY <2>3 DEF IInv, TypeOK
    <2> QED BY <2>1, <2>2, <2>3, <2>4
  <1>2. TypeOK'
    BY <1>1 DEF IInv, TypeOK, worker, broker, reader
  <1>3. BufferInv' /\ BoundedInv' /\ ChunkInv' /\ PullInv'
    BY <1>1 DEF IInv, BufferInv, BoundedInv, ChunkInv, PullInv, worker, broker, reader
  <1>4. WorkerInv'
    BY <1>1 DEF IInv, TypeOK, WorkerInv, worker, broker, reader
  <1>5. Measured => Measured'
    BY <1>1 DEF Measured, worker
  <1>6. ReadsAreTruthful' /\ NothingSkippedInSilence' /\ EofIsComplete'
    BY <1>1, <1>5 DEF IInv, ReadsAreTruthful, NothingSkippedInSilence, EofIsComplete, worker, broker, reader
  <1>7. EndInv'
    <2>1. childEnd' <= written'
      BY <1>1 DEF IInv, TypeOK, EndInv, NotYet
    <2> QED BY <1>1, <1>5, <2>1 DEF IInv, EndInv, worker, broker
  <1>8. ClientInv'
    BY <1>1, ClientStays DEF IInv, TypeOK, Pulls, ClientInv, reader
  <1> QED BY <1>2, <1>3, <1>4, <1>6, <1>7, <1>8 DEF IInv

(* Sending a piece of what the worker has seen, or forgetting one.  Only a *)
(* worker that has not yet seen the end measures the file anew, and only   *)
(* one that has seen it says exited.                                       *)
LEMMA SendIInv ==
  ASSUME IInv, NEW m \in Chunk, Truthful(m),
         m.start + Len(m.bytes) <= Greater(m.total, 0), m.total <= size',
         m.state = "exited" => m.total = size' /\ pc' \in {"ending", "done"},
         size' \in Nat, size <= size', size' <= written,
         size' = size \/ pc \notin {"ending", "done"},
         pushed' \in Nat, pushed' <= size',
         piece' = m, acked' \in BOOLEAN, net' \subseteq net \cup {m},
         pc' \in {"loop", "flushing", "ending", "done"},
         pc \in {"ending", "done"} => pc' \in {"ending", "done"},
         m.state = "exited" \/ (pc' = "ending" /\ m # GaveUp) => Measured',
         UNCHANGED <<written, childEnd, broker, gone, evictions, pull, reader>>
  PROVE  IInv'
  <1>1. TypeOK'
    BY DEF IInv, TypeOK, broker, reader
  <1>2. BufferInv' /\ BoundedInv' /\ PullInv'
    BY DEF IInv, BufferInv, BoundedInv, PullInv, broker, reader
  <1>3. ChunkInv'
    <2>1. ASSUME NEW c \in net' \cup {piece'}, c # m
          PROVE  /\ Truthful(c) /\ c.start + Len(c.bytes) <= Greater(c.total, 0)
                 /\ c.total <= size' /\ (c.state = "exited" => c.total = size')
      <3>1. c \in net /\ c \in Chunk /\ c.total \in Nat
        BY <2>1 DEF IInv, TypeOK, Chunk
      <3>2. /\ Truthful(c) /\ c.start + Len(c.bytes) <= Greater(c.total, 0)
            /\ c.total <= size /\ (c.state = "exited" => c.total = size)
        BY <3>1 DEF IInv, ChunkInv
      <3>3. c.state = "exited" => size' = size
        BY <3>1 DEF IInv, WorkerInv
      <3>4. size \in Nat
        BY DEF IInv, TypeOK
      <3> QED BY <3>1, <3>2, <3>3, <3>4
    <2> QED BY <2>1 DEF ChunkInv
  <1>4. WorkerInv'
    <2>1. total \in Nat /\ size \in Nat /\ written \in Nat /\ total <= size
          /\ (state = "exited" => total = size /\ pc \in {"ending", "done"})
          /\ (eof = "exited" => state = "exited")
      BY DEF IInv, TypeOK, WorkerInv
    <2>2. total' = total /\ state' = state /\ eof' = eof /\ written' = written
      BY DEF broker, reader
    <2>3. \A c \in net' \cup {piece'} : c.state = "exited" => pc' \in {"ending", "done"}
      BY DEF IInv, WorkerInv
    <2> QED BY <2>1, <2>2, <2>3 DEF WorkerInv
  <1>5. ReadsAreTruthful' /\ NothingSkippedInSilence'
    BY DEF IInv, ReadsAreTruthful, NothingSkippedInSilence, reader
  <1>6. EofIsComplete'
    <2>1. eof' = "exited" => eof = "exited" /\ state = "exited"
      BY DEF IInv, WorkerInv, reader
    <2>2. state = "exited" => size' = size
      BY DEF IInv, WorkerInv
    <2> QED BY <2>1, <2>2 DEF IInv, EofIsComplete, Measured, broker, reader
  <1>7. EndInv'
    <2>1. Measured => Measured'
      BY DEF IInv, TypeOK, Measured
    <2>2. childEnd' <= written'
      BY DEF IInv, EndInv
    <2>3. ASSUME NEW c \in net' \cup {piece'}, c.state = "exited" PROVE Measured'
      <3>1. c = m \/ c \in net
        OBVIOUS
      <3> QED BY <2>1, <2>3, <3>1 DEF IInv, EndInv
    <2>4. state' = "exited" \/ (pc' = "ending" /\ piece' # GaveUp) => Measured'
      BY <2>1 DEF IInv, EndInv, broker
    <2> QED BY <2>2, <2>3, <2>4 DEF EndInv
  <1>8. ClientInv'
    BY DEF IInv, ClientInv, reader
  <1> QED BY <1>1, <1>2, <1>3, <1>4, <1>5, <1>6, <1>7, <1>8 DEF IInv

(* What a worker that is about to push knows.                              *)
LEMMA AboutToSend ==
  ASSUME IInv, NEW n \in Nat, pushed <= n, NEW s \in {"running", "exited"}, NEW m, m = Piece(pushed, n, s)
  PROVE  /\ m \in Chunk /\ Truthful(m) /\ m # GaveUp
         /\ m.start + Len(m.bytes) <= Greater(m.total, 0) /\ m.total = n
         /\ m.start + Len(m.bytes) \in Nat /\ m.start + Len(m.bytes) <= n
         /\ m.state = "exited" => s = "exited"
  <1>1. pushed \in Nat
    BY DEF IInv, TypeOK
  <1>2. /\ m \in Chunk /\ Truthful(m) /\ m.total = n /\ m # GaveUp
        /\ m.start + Len(m.bytes) \in Nat /\ m.start + Len(m.bytes) <= n
        /\ m.state = "exited" => s = "exited"
    BY <1>1, PieceFacts
  <1> QED BY <1>2 DEF Greater

LEMMA FlushRunningIInv == IInv /\ FlushRunning => IInv'
  <1> SUFFICES ASSUME IInv, FlushRunning PROVE IInv'
    OBVIOUS
  <1>1. PICK m : m = Piece(pushed, written, "running")
    OBVIOUS
  <1>2. written \in Nat /\ pushed <= written /\ size <= written /\ pushed \in Nat /\ size \in Nat
    BY DEF IInv, TypeOK, WorkerInv, FlushRunning
  <1>3. /\ m \in Chunk /\ Truthful(m) /\ m # GaveUp
        /\ m.start + Len(m.bytes) <= Greater(m.total, 0) /\ m.total = written
        /\ m.start + Len(m.bytes) \in Nat /\ m.start + Len(m.bytes) <= written
        /\ m.state # "exited"
    BY <1>1, <1>2, AboutToSend
  <1>4. /\ pc = "loop" /\ pc' = "flushing" /\ size' = written /\ piece' = m /\ acked' = FALSE
        /\ net' = net \cup {m} /\ pushed' = m.start + Len(m.bytes)
        /\ UNCHANGED <<written, childEnd, broker, gone, evictions, pull, reader>>
    BY <1>1, <1>3 DEF FlushRunning, Send
  <1>5. /\ m.total <= size' /\ size' \in Nat /\ size <= size' /\ size' <= written
        /\ pushed' \in Nat /\ pushed' <= size' /\ net' \subseteq net \cup {m}
        /\ m.state = "exited" => m.total = size' /\ pc' \in {"ending", "done"}
    BY <1>2, <1>3, <1>4
  <1>6. acked' \in BOOLEAN
    BY <1>4
  <1> QED BY <1>3, <1>4, <1>5, <1>6, SendIInv

LEMMA FlushFinalIInv == IInv /\ FlushFinal => IInv'
  <1> SUFFICES ASSUME IInv, FlushFinal PROVE IInv'
    OBVIOUS
  <1>1. PICK m : m = Piece(pushed, written, "exited")
    OBVIOUS
  <1>2. written \in Nat /\ pushed <= written /\ size <= written /\ pushed \in Nat /\ size \in Nat
    BY DEF IInv, TypeOK, WorkerInv
  <1>3. /\ m \in Chunk /\ Truthful(m) /\ m # GaveUp
        /\ m.start + Len(m.bytes) <= Greater(m.total, 0) /\ m.total = written
        /\ m.start + Len(m.bytes) \in Nat /\ m.start + Len(m.bytes) <= written
    BY <1>1, <1>2, AboutToSend
  <1>4. /\ pc = "loop" /\ pc' = "ending" /\ size' = written /\ piece' = m /\ acked' = FALSE
        /\ net' = net \cup {m} /\ pushed' = m.start + Len(m.bytes)
        /\ UNCHANGED <<written, childEnd, broker, gone, evictions, pull, reader>>
    BY <1>1, <1>3 DEF FlushFinal, Send
  <1>5. /\ m.total <= size' /\ size' \in Nat /\ size <= size' /\ size' <= written
        /\ pushed' \in Nat /\ pushed' <= size' /\ net' \subseteq net \cup {m}
        /\ m.state = "exited" => m.total = size' /\ pc' \in {"ending", "done"}
    BY <1>2, <1>3, <1>4
  <1>6. acked' \in BOOLEAN
    BY <1>4
  <1>7. Measured'
    BY <1>4 DEF FlushFinal, IInv, EndInv, Measured
  <1> QED BY <1>3, <1>4, <1>5, <1>6, <1>7, SendIInv

LEMMA NextPieceIInv == IInv /\ NextPiece => IInv'
  <1> SUFFICES ASSUME IInv, NextPiece PROVE IInv'
    OBVIOUS
  <1>1. PICK s : s = IF pc = "ending" THEN "exited" ELSE "running"
    OBVIOUS
  <1>2. PICK m : m = Piece(pushed, size, s)
    OBVIOUS
  <1>3. size \in Nat /\ pushed <= size /\ size <= written /\ written \in Nat
        /\ pc \in {"loop", "flushing", "ending", "done"}
    BY DEF IInv, TypeOK, WorkerInv
  <1>4. /\ m \in Chunk /\ Truthful(m)
        /\ m.start + Len(m.bytes) <= Greater(m.total, 0) /\ m.total = size
        /\ m.start + Len(m.bytes) \in Nat /\ m.start + Len(m.bytes) <= size
        /\ m.state = "exited" => pc = "ending"
    <2>1. s \in {"running", "exited"}
      BY <1>1
    <2> QED BY <1>1, <1>2, <1>3, <2>1, AboutToSend
  <1>5. /\ pc' = pc /\ size' = size /\ piece' = m /\ acked' = FALSE
        /\ net' \subseteq net \cup {m} /\ pushed' = m.start + Len(m.bytes)
        /\ UNCHANGED <<written, childEnd, broker, gone, evictions, pull, reader>>
    BY <1>1, <1>2 DEF NextPiece
  <1>6. acked' \in BOOLEAN
    BY <1>5
  <1>7. /\ m.total <= size' /\ size' \in Nat /\ size <= size' /\ size' <= written
        /\ pushed' \in Nat /\ pushed' <= size'
        /\ m.state = "exited" => m.total = size' /\ pc' \in {"ending", "done"}
    BY <1>3, <1>4, <1>5
  <1>8. pc = "ending" => Measured'
    BY <1>5 DEF NextPiece, MoreToSend, IInv, EndInv, Measured
  <1> QED BY <1>3, <1>4, <1>5, <1>6, <1>7, <1>8, SendIInv

LEMMA AfterFlushIInv == IInv /\ (LastPiece \/ PushFails) => IInv'
  <1> SUFFICES ASSUME IInv, LastPiece \/ PushFails PROVE IInv'
    OBVIOUS
  <1>1. /\ pc \in {"flushing", "ending"} /\ pc' = IF pc = "flushing" THEN "loop" ELSE "done"
        /\ net' \subseteq net \cup {piece}
        /\ UNCHANGED <<written, childEnd, size, pushed, piece, acked, broker, gone, evictions, pull, reader>>
    BY DEF LastPiece, PushFails, AfterFlush, Forget
  <1>2. /\ piece \in Chunk /\ acked \in BOOLEAN /\ size \in Nat /\ pushed \in Nat /\ written \in Nat
    BY DEF IInv, TypeOK
  <1>3. /\ Truthful(piece) /\ piece.start + Len(piece.bytes) <= Greater(piece.total, 0)
        /\ piece.total <= size
        /\ piece.state = "exited" => piece.total = size /\ pc \in {"ending", "done"}
    BY DEF IInv, ChunkInv, WorkerInv
  <1>4. pushed <= size /\ size <= written
    BY DEF IInv, WorkerInv
  <1>5. /\ piece.total <= size' /\ size' \in Nat /\ size <= size' /\ size' <= written /\ size' = size
        /\ pushed' \in Nat /\ pushed' <= size'
        /\ piece.state = "exited" => piece.total = size' /\ pc' \in {"ending", "done"}
        /\ pc' \in {"loop", "flushing", "ending", "done"}
        /\ pc \in {"ending", "done"} => pc' \in {"ending", "done"}
    BY <1>1, <1>2, <1>3, <1>4
  <1>6. acked' \in BOOLEAN /\ piece' = piece
    BY <1>1, <1>2
  <1>7. pc' # "ending" /\ (piece.state = "exited" => Measured')
    BY <1>1 DEF IInv, EndInv, Measured
  <1> QED BY <1>1, <1>2, <1>3, <1>5, <1>6, <1>7, SendIInv

LEMMA GiveUpIInv == IInv /\ GiveUp => IInv'
  <1> SUFFICES ASSUME IInv, GiveUp PROVE IInv'
    OBVIOUS
  <1>1. /\ pc' = "ending" /\ piece' = GaveUp /\ acked' = FALSE
        /\ net' = net \cup {GaveUp} /\ pushed' = pushed
        /\ UNCHANGED <<written, childEnd, size, broker, gone, evictions, pull, reader>>
    BY DEF GiveUp, Send
  <1>2. /\ size \in Nat /\ pushed \in Nat /\ written \in Nat /\ pushed <= size /\ size <= written
    BY DEF IInv, TypeOK, WorkerInv
  <1>3. /\ GaveUp.total <= size' /\ size' \in Nat /\ size <= size' /\ size' <= written /\ size' = size
        /\ pushed' \in Nat /\ pushed' <= size'
        /\ GaveUp.start + Len(GaveUp.bytes) <= Greater(GaveUp.total, 0)
        /\ net' \subseteq net \cup {GaveUp}
    BY <1>1, <1>2, GaveUpFacts DEF Greater
  <1>4. acked' \in BOOLEAN
    BY <1>1
  <1> QED BY <1>1, <1>3, <1>4, GaveUpFacts, SendIInv

(* A chunk changes no byte the ring or the tail already answers for, and   *)
(* brings in nothing the worker has not measured.                          *)
LEMMA IngestIInv == ASSUME IInv, NEW m \in net, IngestChunk(m) PROVE IInv'
  <1>1. PICK r : r = IF m.bytes = <<>> THEN ring ELSE AppendChunk(ring, m.start, m.bytes)
    OBVIOUS
  <1>2. PICK s : s = IF state = "exited" THEN state ELSE m.state
    OBVIOUS
  <1>3. /\ ring' = r /\ state' = s /\ total' = Greater(total, m.total)
        /\ tail' = IF Terminal(s) /\ r.bytes # <<>> THEN LastOf(r, TailMax) ELSE tail
        /\ gone' = FALSE /\ acked' = (acked \/ m = piece)
        /\ UNCHANGED <<written, childEnd, pc, size, pushed, piece, net, evictions, pull, reader>>
    BY <1>1, <1>2 DEF IngestChunk
  <1>4. /\ m \in Chunk /\ m.start \in Nat /\ m.bytes \in Seq(Nat) /\ m.total \in Nat
        /\ m.state \in States /\ Len(m.bytes) \in Nat
    BY LenProperties DEF IInv, TypeOK, Chunk, States
  <1>5. /\ Run(m.bytes, m.start) /\ m.start + Len(m.bytes) <= m.total /\ m.total <= size
        /\ m.state = "exited" => m.total = size /\ pc \in {"ending", "done"}
    <2>1. /\ Truthful(m) /\ m.start + Len(m.bytes) <= Greater(m.total, 0) /\ m.total <= size
          /\ m.state = "exited" => m.total = size
      BY DEF IInv, ChunkInv
    <2>2. m.state = "exited" => pc \in {"ending", "done"}
      BY DEF IInv, WorkerInv
    <2> QED BY <1>4, <2>1, <2>2 DEF Truthful, Run, Greater
  <1>6. /\ total \in Nat /\ size \in Nat /\ state \in States /\ ring \in Buffers \cup {NoBuffer}
        /\ tail \in Buffers \cup {NoBuffer} /\ total <= size
        /\ state = "exited" => total = size /\ pc \in {"ending", "done"}
    BY DEF IInv, TypeOK, WorkerInv
  <1>7. total' \in Nat /\ total <= total' /\ m.total <= total' /\ total' <= size
        /\ (s = "exited" => total' = size /\ pc \in {"ending", "done"}) /\ s \in States
    BY <1>2, <1>3, <1>4, <1>5, <1>6 DEF Greater
  <1>8. r \in Buffers \cup {NoBuffer} /\ Truthful(r) /\ End(r) <= total' /\ Len(r.bytes) <= RingMax
    <2>1. Truthful(ring) /\ End(ring) <= total /\ Len(ring.bytes) <= RingMax /\ End(ring) \in Int
      BY <1>6, BufFacts DEF IInv, BufferInv, BoundedInv, End, NoBuffer, Buffer
    <2>2. CASE m.bytes = <<>>
      BY <1>1, <1>6, <1>7, <2>1, <2>2
    <2>3. CASE m.bytes # <<>>
      <3>1. PICK c : c = Buffer(m.start, m.bytes)
        OBVIOUS
      <3>2. c \in Buffers /\ Truthful(c) /\ End(c) = m.start + Len(m.bytes)
            /\ c.start = m.start /\ c.bytes = m.bytes
        BY <1>4, <1>5, <3>1, MakeBuf DEF Buffer
      <3>3. /\ r \in Buffers /\ Truthful(r) /\ Len(r.bytes) <= RingMax
            /\ End(r) <= Greater(End(ring), End(c))
        BY <1>1, <1>6, <2>1, <2>3, <3>2, AppendFacts
      <3>4. End(r) \in Nat /\ End(c) \in Nat
        BY <3>2, <3>3, BufFacts
      <3>5. Greater(End(ring), End(c)) <= total' /\ Greater(End(ring), End(c)) \in Int
        BY <1>4, <1>5, <1>6, <1>7, <2>1, <3>2, <3>4 DEF Greater
      <3> QED BY <1>7, <3>3, <3>4, <3>5
    <2> QED BY <2>2, <2>3
  <1>9. /\ tail' \in Buffers \cup {NoBuffer} /\ Truthful(tail') /\ End(tail') <= total'
        /\ Len(tail'.bytes) <= TailMax
    <2>1. Truthful(tail) /\ End(tail) <= total /\ Len(tail.bytes) <= TailMax /\ End(tail) \in Int
      BY <1>6, BufFacts DEF IInv, BufferInv, BoundedInv, End, NoBuffer, Buffer
    <2>2. CASE tail' = tail
      BY <1>6, <1>7, <2>1, <2>2
    <2>3. CASE Terminal(s) /\ r.bytes # <<>> /\ tail' = LastOf(r, TailMax)
      <3>1. r \in Buffers
        BY <1>8, <2>3 DEF NoBuffer, Buffer
      <3> QED BY <1>8, <2>3, <3>1, LastOfFacts, StreamAssumption
    <2> QED BY <1>3, <2>2, <2>3
  <1>10. TypeOK'
    <2>1. acked' \in BOOLEAN /\ gone' \in BOOLEAN
      BY <1>3
    <2> QED BY <1>3, <1>7, <1>8, <1>9, <2>1 DEF IInv, TypeOK, reader
  <1>11. BufferInv' /\ BoundedInv'
    BY <1>3, <1>8, <1>9 DEF BufferInv, BoundedInv
  <1>12. ChunkInv' /\ PullInv'
    BY <1>3 DEF IInv, ChunkInv, PullInv, reader
  <1>13. WorkerInv'
    <2>1. eof' = "exited" => state' = "exited"
      BY <1>2, <1>3 DEF IInv, WorkerInv, reader
    <2> QED BY <1>3, <1>7, <2>1 DEF IInv, WorkerInv
  <1>14. ReadsAreTruthful' /\ NothingSkippedInSilence'
    BY <1>3 DEF IInv, ReadsAreTruthful, NothingSkippedInSilence, reader
  <1>15. EofIsComplete'
    <2>1. eof' = "exited" => total' = size'
      BY <1>3, <1>6, <1>7 DEF IInv, EofIsComplete, reader
    <2> QED BY <1>3, <2>1 DEF IInv, EofIsComplete, Measured, reader
  <1>16. EndInv'
    BY <1>2, <1>3, EndStays
  <1>17. ClientInv'
    BY <1>3 DEF IInv, ClientInv, reader
  <1> QED BY <1>10, <1>11, <1>12, <1>13, <1>14, <1>15, <1>16, <1>17 DEF IInv

LEMMA BrokerIInv == IInv /\ (MarkLost \/ Evict \/ Silence) => IInv'
  <1> SUFFICES ASSUME IInv, MarkLost \/ Evict \/ Silence PROVE IInv'
    OBVIOUS
  <1>1. /\ UNCHANGED <<written, childEnd, worker, net, tail, total, reader>>
        /\ ring' = ring \/ ring' = NoBuffer
        /\ state' = state \/ (state = "running" /\ state' = "lost")
        /\ \/ pull' = pull
           \/ pull' = [pull EXCEPT !.at = "dropped"] /\ pull.at \in {"queued", "answered"}
    BY DEF MarkLost, Evict, Silence, broker
  <1>2. evictions' \in Nat
    <2>1. CASE MarkLost
      BY <2>1 DEF MarkLost, IInv, TypeOK
    <2>2. CASE Evict
      BY <2>2 DEF Evict, IInv, TypeOK
    <2>3. CASE Silence
      BY <2>3 DEF Silence, IInv, TypeOK
    <2> QED BY <2>1, <2>2, <2>3
  <1>3. gone' \in BOOLEAN
    <2>1. CASE MarkLost
      BY <2>1 DEF MarkLost
    <2>2. CASE Evict
      BY <2>2 DEF Evict, IInv, TypeOK
    <2>3. CASE Silence
      BY <2>3 DEF Silence
    <2> QED BY <2>1, <2>2, <2>3
  <1>4. pull' \in Pulls /\ pull'.bytes = pull.bytes /\ pull'.from = pull.from
        /\ (pull.at = "none" => pull'.at = "none")
    BY <1>1 DEF IInv, TypeOK, Pulls
  <1>5. TypeOK'
    <2>1. state' \in States /\ ring' \in Buffers \cup {NoBuffer}
      BY <1>1 DEF IInv, TypeOK, States
    <2> QED BY <1>1, <1>2, <1>3, <1>4, <2>1 DEF IInv, TypeOK, worker, reader
  <1>6. BufferInv' /\ BoundedInv'
    <2>1. total \in Nat /\ RingMax \in Nat
      BY StreamAssumption DEF IInv, TypeOK
    <2>2. Truthful(NoBuffer) /\ End(NoBuffer) <= total /\ Len(NoBuffer.bytes) <= RingMax
      BY <2>1 DEF NoBuffer, Buffer, Truthful, End
    <2> QED BY <1>1, <2>2 DEF IInv, BufferInv, BoundedInv
  <1>7. ChunkInv'
    BY <1>1 DEF IInv, ChunkInv, worker
  <1>8. WorkerInv'
    BY <1>1 DEF IInv, WorkerInv, worker, reader
  <1>9. PullInv'
    BY <1>1, <1>4 DEF IInv, PullInv, reader
  <1>10. ReadsAreTruthful' /\ NothingSkippedInSilence'
    BY <1>1 DEF IInv, ReadsAreTruthful, NothingSkippedInSilence, reader
  <1>11. EofIsComplete'
    BY <1>1 DEF IInv, EofIsComplete, Measured, worker, reader
  <1>12. EndInv'
    BY <1>1, EndStays DEF worker
  <1>13. ClientInv'
    BY <1>1, <1>4 DEF IInv, ClientInv, reader
  <1> QED BY <1>5, <1>6, <1>7, <1>8, <1>9, <1>10, <1>11, <1>12, <1>13 DEF IInv

LEMMA PullIInv == IInv /\ (FetchPull \/ AnswerPull \/ PullTimesOut) => IInv'
  <1> SUFFICES ASSUME IInv, FetchPull \/ AnswerPull \/ PullTimesOut PROVE IInv'
    OBVIOUS
  <1>1. /\ UNCHANGED <<written, childEnd, worker, net, broker, evictions, reader>>
        /\ gone' = FALSE \/ gone' = gone
    BY DEF FetchPull, AnswerPull, PullTimesOut
  <1>2. gone' \in BOOLEAN
    BY <1>1 DEF IInv, TypeOK
  <1>3. pull' \in Pulls /\ PullInv'
    <2>1. CASE FetchPull
      BY <1>1, <2>1 DEF FetchPull, IInv, TypeOK, Pulls, PullInv, reader
    <2>2. CASE AnswerPull
      <3>1. PICK to : to = Lesser(written, pull.from + Want)
        OBVIOUS
      <3>2. pull.from \in Nat /\ pull.from = cursor
        BY <2>2 DEF AnswerPull, IInv, TypeOK, Pulls, PullInv
      <3>3. to \in Nat
        BY <3>1, <3>2, StreamAssumption DEF IInv, TypeOK, Lesser
      <3>4. pull' = [pull EXCEPT !.at = "answered", !.bytes = Bytes(pull.from, to)]
        BY <2>2, <3>1 DEF AnswerPull
      <3>5. pull'.from = pull.from /\ pull'.bytes = Bytes(pull.from, to) /\ pull'.at = "answered"
            /\ pull' \in Pulls
        BY <3>2, <3>3, <3>4, BytesFacts DEF IInv, TypeOK, Pulls
      <3>6. \A k \in 1..Len(pull'.bytes) : pull'.bytes[k] = pull'.from + k - 1
        <4>1. PICK f, q : f = pull.from /\ q = Bytes(f, to)
          OBVIOUS
        <4>2. \A k \in 1..Len(q) : q[k] = f + k - 1
          BY <3>2, <3>3, <4>1, BytesFacts
        <4> QED BY <3>5, <4>1, <4>2
      <3> QED BY <1>1, <3>2, <3>5, <3>6 DEF PullInv, reader
    <2>3. CASE PullTimesOut
      BY <2>3 DEF PullTimesOut, NoPull, Pulls, PullInv
    <2> QED BY <2>1, <2>2, <2>3
  <1>4. TypeOK'
    BY <1>1, <1>2, <1>3 DEF IInv, TypeOK, worker, broker, reader
  <1>5. BufferInv' /\ BoundedInv' /\ ChunkInv' /\ WorkerInv'
    BY <1>1 DEF IInv, BufferInv, BoundedInv, ChunkInv, WorkerInv, worker, broker, reader
  <1>6. ReadsAreTruthful' /\ NothingSkippedInSilence' /\ EofIsComplete'
    BY <1>1 DEF IInv, ReadsAreTruthful, NothingSkippedInSilence, EofIsComplete, Measured, worker, broker, reader
  <1>7. EndInv'
    BY <1>1, EndStays DEF worker, broker
  <1>8. ClientInv'
    <2>1. written' = written /\ written \in Nat /\ UNCHANGED <<cursor, eof>>
      BY <1>1 DEF IInv, TypeOK, reader
    <2>2. pull'.from + Len(pull'.bytes) <= written' /\ (pull'.at # "none" => pull.at # "none")
      <3>1. CASE FetchPull
        BY <2>1, <3>1 DEF FetchPull, IInv, TypeOK, Pulls, ClientInv
      <3>2. CASE AnswerPull
        <4>1. PICK from, to : from = pull.from /\ to = Lesser(written, from + Want)
          OBVIOUS
        <4>2. from \in Nat /\ from = cursor /\ cursor <= written
          BY <3>2, <4>1 DEF AnswerPull, IInv, TypeOK, Pulls, PullInv, ClientInv
        <4>3. to \in Nat /\ from <= to /\ to <= written
          BY <2>1, <4>1, <4>2, StreamAssumption DEF Lesser
        <4>4. pull'.from = from /\ pull'.bytes = Bytes(from, to)
          BY <3>2, <4>1 DEF AnswerPull, IInv, TypeOK, Pulls
        <4>5. Len(pull'.bytes) = to - from
          BY <4>2, <4>3, <4>4, BytesFacts
        <4> QED BY <2>1, <3>2, <4>2, <4>3, <4>4, <4>5 DEF AnswerPull
      <3>3. CASE PullTimesOut
        BY <2>1, <3>3 DEF PullTimesOut, NoPull
      <3> QED BY <3>1, <3>2, <3>3
    <2> QED BY <1>3, <2>1, <2>2, ClientStays
  <1> QED BY <1>3, <1>4, <1>5, <1>6, <1>7, <1>8 DEF IInv

(* What any tool result does to what the client knows, provided it begins  *)
(* no earlier than the client asked and goes no further than out.raw.      *)
LEMMA DeliverFacts ==
  ASSUME IInv, NEW start \in Nat, NEW bytes, Run(bytes, start), cursor <= start,
         start + Len(bytes) <= written, NEW last \in BOOLEAN, Deliver(start, bytes, last)
  PROVE  /\ cursor' \in Nat /\ read' \subseteq Nat \X Nat /\ skipped' \subseteq Nat
         /\ read \subseteq read' /\ skipped \subseteq skipped'
         /\ ReadsAreTruthful' /\ NothingSkippedInSilence'
         /\ eof' = eof \/ (last /\ eof' = state /\ cursor' = start + Len(bytes))
         /\ start <= cursor' /\ cursor' <= written
         /\ {p[1] : p \in read'} = {p[1] : p \in read} \cup start..(cursor' - 1)
         /\ skipped' = skipped \cup cursor..(start - 1)
  <1>1. Len(bytes) \in Nat /\ bytes \in Seq(Nat)
    BY LenProperties DEF Run
  <1>2. PICK n \in Cuts(bytes) : Told(start, bytes, n, start + n, last /\ n = Len(bytes))
    BY DEF Deliver
  <1>3. n \in 0..Len(bytes)
    BY <1>1, <1>2 DEF Cuts
  <1>4. /\ cursor' = start + n
        /\ read' = read \cup {<<start + k - 1, bytes[k]>> : k \in 1..n}
        /\ skipped' = skipped \cup cursor..(start - 1)
        /\ eof' = IF last /\ n = Len(bytes) THEN state ELSE eof
    BY <1>2 DEF Told
  <1>5. cursor \in Nat /\ read \subseteq Nat \X Nat /\ skipped \subseteq Nat
    BY DEF IInv, TypeOK
  <1>6. \A k \in 1..n : bytes[k] = start + k - 1 /\ start + k - 1 \in Nat
    BY <1>1, <1>3 DEF Run
  <1>7. read' \subseteq Nat \X Nat /\ ReadsAreTruthful'
    BY <1>4, <1>5, <1>6 DEF IInv, ReadsAreTruthful
  <1>8. skipped' \subseteq Nat /\ cursor' \in Nat
    BY <1>1, <1>3, <1>4, <1>5
  <1>9. ASSUME NEW i \in 0..(cursor' - 1)
        PROVE  (\E p \in read' : p[1] = i) \/ i \in skipped'
    <2>1. CASE i < cursor
      <3>1. i \in 0..(cursor - 1)
        BY <1>5, <1>8, <2>1
      <3> QED BY <1>4, <3>1 DEF IInv, NothingSkippedInSilence
    <2>2. CASE cursor <= i /\ i < start
      BY <1>4, <1>5, <1>8, <2>2
    <2>3. CASE start <= i
      <3>1. PICK k : k = i - start + 1
        OBVIOUS
      <3>2. k \in 1..n /\ start + k - 1 = i
        BY <1>1, <1>3, <1>4, <2>3, <3>1
      <3>3. <<start + k - 1, bytes[k]>> \in read'
        BY <1>4, <3>2
      <3> QED BY <3>2, <3>3
    <2> QED BY <1>5, <1>8, <2>1, <2>2, <2>3
  <1>10. NothingSkippedInSilence'
    BY <1>9 DEF NothingSkippedInSilence
  <1>11. eof' = eof \/ (last /\ eof' = state /\ cursor' = start + Len(bytes))
    BY <1>4
  <1>12. start <= cursor' /\ cursor' <= written
    BY <1>1, <1>3, <1>4 DEF IInv, TypeOK
  <1>13. {p[1] : p \in read'} = {p[1] : p \in read} \cup start..(cursor' - 1)
    <2>1. PICK new : new = {<<start + k - 1, bytes[k]>> : k \in 1..n}
      OBVIOUS
    <2>2. ASSUME NEW i PROVE (\E p \in new : i = p[1]) <=> i \in start..(cursor' - 1)
      <3>1. ASSUME NEW p \in new, i = p[1] PROVE i \in start..(cursor' - 1)
        <4>1. PICK k \in 1..n : p = <<start + k - 1, bytes[k]>>
          BY <2>1
        <4>2. i = start + k - 1
          BY <3>1, <4>1
        <4> QED BY <1>1, <1>3, <1>4, <4>2
      <3>2. ASSUME i \in start..(cursor' - 1) PROVE \E p \in new : i = p[1]
        <4>1. PICK k : k = i - start + 1
          OBVIOUS
        <4>2. k \in 1..n /\ start + k - 1 = i
          BY <1>1, <1>3, <1>4, <3>2, <4>1
        <4>3. <<start + k - 1, bytes[k]>> \in new
          BY <2>1, <4>2
        <4> QED BY <4>2, <4>3
      <3> QED BY <3>1, <3>2
    <2>3. read' = read \cup new
      BY <1>4, <2>1
    <2>4. ASSUME NEW i
          PROVE  i \in {p[1] : p \in read'} <=> i \in {p[1] : p \in read} \cup start..(cursor' - 1)
      BY <2>2, <2>3
    <2> QED BY <2>4
  <1> QED BY <1>4, <1>7, <1>8, <1>10, <1>11, <1>12, <1>13

(* Bytes the client has been told of stay told.                            *)
LEMMA EofStays ==
  ASSUME IInv, read \subseteq read', skipped \subseteq skipped', size' = size, total' = total,
         childEnd' = childEnd, eof' = "exited" => eof = "exited"
  PROVE  EofIsComplete'
  BY DEF IInv, EofIsComplete, Measured

(* A window that serves anything serves the truth from the cursor on, or   *)
(* from where the tail begins when that is all there is.                   *)
LEMMA WindowFacts ==
  ASSUME IInv
  PROVE  \/ Window(cursor).evicted
         \/ \E start \in Nat : \E bytes :
              /\ Run(bytes, start) /\ cursor <= start /\ start + Len(bytes) <= written
              /\ Window(cursor) = [start |-> start, bytes |-> bytes, evicted |-> FALSE,
                                   eof |-> Terminal(state) /\ start + Len(bytes) >= total]
  <1>1. /\ cursor \in Nat /\ total \in Nat
        /\ ring \in Buffers \cup {NoBuffer} /\ tail \in Buffers \cup {NoBuffer}
        /\ Truthful(ring) /\ Truthful(tail)
    BY DEF IInv, TypeOK, BufferInv
  <1>0. ASSUME NEW b \in Buffers, b = ring \/ b = tail, NEW from \in Nat, NEW bytes, Run(bytes, from),
               from = cursor \/ from <= End(b), from + Len(bytes) <= Greater(from, End(b))
        PROVE  from + Len(bytes) <= written
    <2>1. total \in Nat /\ size \in Nat /\ written \in Nat /\ cursor <= written
          /\ End(ring) <= total /\ End(tail) <= total /\ total <= size /\ size <= written
      BY DEF IInv, TypeOK, BufferInv, WorkerInv, ClientInv
    <2>2. End(b) \in Nat /\ End(b) <= written
      BY <1>0, <2>1, BufFacts
    <2>3. Len(bytes) \in Nat
      BY <1>0, LenProperties DEF Run
    <2> QED BY <1>0, <2>1, <2>2, <2>3 DEF Greater
  <1> DEFINE Of(start, bytes) == [start |-> start, bytes |-> bytes, evicted |-> FALSE,
                                  eof |-> Terminal(state) /\ start + Len(bytes) >= total]
             Good(start, bytes) == /\ Run(bytes, start) /\ cursor <= start
                                   /\ start + Len(bytes) <= written
                                   /\ Window(cursor) = Of(start, bytes)
  <1> SUFFICES Window(cursor).evicted \/ \E start \in Nat : \E bytes : Good(start, bytes)
    OBVIOUS
  <1>2. CASE RingServes(cursor)
    <2>1. ring \in Buffers /\ ring.start <= cursor
      BY <1>1, <1>2 DEF RingServes
    <2>2. Run(Slice(ring, cursor), cursor) /\ cursor + Len(Slice(ring, cursor)) <= written
      BY <1>0, <1>1, <2>1, SliceFacts
    <2>3. Window(cursor) = Of(cursor, Slice(ring, cursor))
      BY <1>2 DEF Window
    <2>4. Good(cursor, Slice(ring, cursor)) /\ cursor \in Nat
      BY <1>1, <2>2, <2>3
    <2> HIDE DEF Good
    <2> QED BY <2>4
  <1>3. CASE ~RingServes(cursor) /\ cursor >= total
    <2>1. Run(<<>>, cursor) /\ cursor + Len(<<>>) <= written
      BY <1>1 DEF Run, IInv, ClientInv
    <2>2. Window(cursor) = Of(cursor, <<>>)
      BY <1>3 DEF Window
    <2>4. Good(cursor, <<>>) /\ cursor \in Nat
      BY <1>1, <2>1, <2>2
    <2> HIDE DEF Good
    <2> QED BY <2>4
  <1>4. CASE ~RingServes(cursor) /\ ~(cursor >= total) /\ tail # NoBuffer /\ cursor >= tail.start
    <2>1. tail \in Buffers /\ tail.start <= cursor
      BY <1>1, <1>4, BufFacts
    <2>2. Run(Slice(tail, cursor), cursor) /\ cursor + Len(Slice(tail, cursor)) <= written
      BY <1>0, <1>1, <2>1, SliceFacts
    <2>3. Window(cursor) = Of(cursor, Slice(tail, cursor))
      BY <1>4 DEF Window
    <2>4. Good(cursor, Slice(tail, cursor)) /\ cursor \in Nat
      BY <1>1, <2>2, <2>3
    <2> HIDE DEF Good
    <2> QED BY <2>4
  <1>5. CASE /\ ~RingServes(cursor) /\ ~(cursor >= total) /\ tail # NoBuffer /\ ~(cursor >= tail.start)
             /\ Terminal(state) /\ gone
    <2>1. tail \in Buffers /\ tail.start \in Nat /\ cursor <= tail.start
      BY <1>1, <1>5, BufFacts
    <2>2. Run(Slice(tail, tail.start), tail.start)
          /\ tail.start + Len(Slice(tail, tail.start)) <= written
      <3>1. tail.start <= End(tail)
        BY <2>1, BufFacts
      <3> QED BY <1>0, <1>1, <2>1, <3>1, SliceFacts
    <2>3. Window(cursor) = Of(tail.start, Slice(tail, tail.start))
      BY <1>5 DEF Window
    <2>4. Good(tail.start, Slice(tail, tail.start)) /\ tail.start \in Nat
      BY <2>1, <2>2, <2>3
    <2> HIDE DEF Good
    <2> QED BY <2>4
  <1>6. CASE /\ ~RingServes(cursor) /\ ~(cursor >= total)
             /\ ~(tail # NoBuffer /\ cursor >= tail.start)
             /\ ~(tail # NoBuffer /\ Terminal(state) /\ gone)
    BY <1>6 DEF Window
  <1> QED BY <1>2, <1>3, <1>4, <1>5, <1>6

LEMMA PollIInv == IInv /\ Poll => IInv'
  <1> SUFFICES ASSUME IInv, Poll PROVE IInv'
    OBVIOUS
  <1>1. /\ UNCHANGED <<written, childEnd, worker, net, broker, gone, evictions>>
        /\ eof # "exited" /\ pull = NoPull
    BY DEF Poll
  <1>2. BufferInv' /\ BoundedInv' /\ ChunkInv'
    BY <1>1 DEF IInv, BufferInv, BoundedInv, ChunkInv, worker, broker
  <1>3. CASE pull' = [at |-> "queued", from |-> cursor, bytes |-> <<>>] /\ UNCHANGED reader
    <2>1. cursor \in Nat
      BY DEF IInv, TypeOK
    <2>2. pull' \in Pulls /\ PullInv'
      BY <1>3, <2>1 DEF Pulls, PullInv, reader
    <2>3. TypeOK' /\ WorkerInv'
      BY <1>1, <1>3, <2>2 DEF IInv, TypeOK, WorkerInv, worker, broker, reader
    <2>4. ReadsAreTruthful' /\ NothingSkippedInSilence' /\ EofIsComplete'
      BY <1>1, <1>3 DEF IInv, ReadsAreTruthful, NothingSkippedInSilence, EofIsComplete, Measured,
                        worker, broker, reader
    <2>5. EndInv'
      BY <1>1, EndStays DEF worker, broker
    <2>6. ClientInv'
      BY <1>1, <1>3, <2>1 DEF IInv, ClientInv, reader
    <2> QED BY <1>2, <2>2, <2>3, <2>4, <2>5, <2>6 DEF IInv
  <1>4. CASE ~Window(cursor).evicted
    <2>1. PICK start \in Nat, bytes \in Seq(Nat) :
            /\ Run(bytes, start) /\ cursor <= start /\ start + Len(bytes) <= written
            /\ Window(cursor) = [start |-> start, bytes |-> bytes, evicted |-> FALSE,
                                 eof |-> Terminal(state) /\ start + Len(bytes) >= total]
      BY <1>4, WindowFacts DEF Run
    <2>2. PICK last \in BOOLEAN : last = (Terminal(state) /\ start + Len(bytes) >= total)
      OBVIOUS
    <2>3. Window(cursor) = [start |-> start, bytes |-> bytes, evicted |-> FALSE, eof |-> last]
      BY <2>1, <2>2, Zenon
    <2>4. Deliver(start, bytes, last) /\ pull' = pull
      BY <1>4, <2>3 DEF Poll
    <2>5. /\ cursor' \in Nat /\ read' \subseteq Nat \X Nat /\ skipped' \subseteq Nat
          /\ read \subseteq read' /\ skipped \subseteq skipped'
          /\ ReadsAreTruthful' /\ NothingSkippedInSilence' /\ cursor' <= written
          /\ eof' = eof \/ (last /\ eof' = state /\ cursor' = start + Len(bytes))
      BY <2>1, <2>4, DeliverFacts
    <2>6. TypeOK'
      <3>1. eof' \in States \cup {"no"}
        BY <2>5 DEF IInv, TypeOK
      <3> QED BY <1>1, <2>4, <2>5, <3>1 DEF IInv, TypeOK, worker, broker
    <2>7. WorkerInv'
      BY <1>1, <2>5 DEF IInv, WorkerInv, worker, broker
    <2>8. PullInv'
      BY <1>1, <2>4 DEF PullInv, NoPull
    <2>9. EofIsComplete'
      <3>1. SUFFICES ASSUME eof' = "exited" PROVE EofIsComplete'
        BY DEF EofIsComplete
      <3>2. last /\ state = "exited" /\ cursor' = start + Len(bytes)
        BY <1>1, <2>5, <3>1
      <3>3. start + Len(bytes) >= total
        BY <2>2, <3>2
      <3>4. total = size /\ total \in Nat /\ total' = total /\ size' = size
        BY <1>1, <3>2 DEF IInv, TypeOK, WorkerInv, worker, broker
      <3>5. \A i \in 0..(size' - 1) : i \in 0..(cursor' - 1)
        BY <2>5, <3>2, <3>3, <3>4
      <3>6. Measured'
        BY <1>1, <3>2 DEF IInv, EndInv, Measured, worker
      <3> QED BY <2>5, <3>4, <3>5, <3>6 DEF EofIsComplete, NothingSkippedInSilence
    <2>10. EndInv'
      BY <1>1, EndStays DEF worker, broker
    <2>11. ClientInv'
      BY <1>1, <2>4, <2>5 DEF IInv, TypeOK, ClientInv, NoPull
    <2> QED BY <1>2, <2>5, <2>6, <2>7, <2>8, <2>9, <2>10, <2>11 DEF IInv
  <1>5. \/ pull' = [at |-> "queued", from |-> cursor, bytes |-> <<>>] /\ UNCHANGED reader
        \/ ~Window(cursor).evicted
    BY DEF Poll
  <1> QED BY <1>3, <1>4, <1>5

LEMMA TakePullIInv == IInv /\ TakePull => IInv'
  <1> SUFFICES ASSUME IInv, TakePull PROVE IInv'
    OBVIOUS
  <1>1. /\ UNCHANGED <<written, childEnd, worker, net, broker, gone, evictions>>
        /\ pull.at = "answered" /\ pull' = NoPull
    BY DEF TakePull
  <1>2. PICK start, bytes : start = pull.from /\ bytes = pull.bytes
    OBVIOUS
  <1>3. start \in Nat /\ cursor <= start /\ Run(bytes, start) /\ start + Len(bytes) <= written
    BY <1>1, <1>2 DEF IInv, TypeOK, Pulls, PullInv, ClientInv, Run
  <1>4. Deliver(start, bytes, FALSE)
    BY <1>2 DEF TakePull
  <1>5. /\ cursor' \in Nat /\ read' \subseteq Nat \X Nat /\ skipped' \subseteq Nat
        /\ read \subseteq read' /\ skipped \subseteq skipped'
        /\ ReadsAreTruthful' /\ NothingSkippedInSilence' /\ eof' = eof /\ cursor' <= written
    BY <1>3, <1>4, DeliverFacts
  <1>6. TypeOK'
    <2>1. pull' \in Pulls
      BY <1>1 DEF NoPull, Pulls
    <2> QED BY <1>1, <1>5, <2>1 DEF IInv, TypeOK, worker, broker
  <1>7. BufferInv' /\ BoundedInv' /\ ChunkInv'
    BY <1>1 DEF IInv, BufferInv, BoundedInv, ChunkInv, worker, broker
  <1>8. WorkerInv' /\ PullInv'
    BY <1>1, <1>5 DEF IInv, WorkerInv, PullInv, NoPull, worker, broker
  <1>9. EofIsComplete'
    BY <1>1, <1>5, EofStays DEF worker, broker
  <1>10. EndInv'
    BY <1>1, EndStays DEF worker, broker
  <1>11. ClientInv'
    BY <1>1, <1>5 DEF IInv, TypeOK, ClientInv, NoPull
  <1> QED BY <1>5, <1>6, <1>7, <1>8, <1>9, <1>10, <1>11 DEF IInv

LEMMA StutterIInv == IInv /\ UNCHANGED vars => IInv'
  <1> SUFFICES ASSUME IInv, UNCHANGED vars PROVE IInv'
    OBVIOUS
  <1> USE DEF vars, worker, broker, reader, IInv
  <1>1. TypeOK' /\ BufferInv' /\ BoundedInv'
    BY DEF TypeOK, BufferInv, BoundedInv
  <1>2. ChunkInv' /\ WorkerInv' /\ PullInv'
    BY DEF ChunkInv, WorkerInv, PullInv
  <1>3. ReadsAreTruthful' /\ NothingSkippedInSilence' /\ EofIsComplete'
    BY DEF ReadsAreTruthful, NothingSkippedInSilence, EofIsComplete, Measured
  <1>4. EndInv' /\ ClientInv'
    BY DEF EndInv, Measured, ClientInv
  <1> QED BY <1>1, <1>2, <1>3, <1>4

LEMMA NextIInv == IInv /\ [Next]_vars => IInv'
  <1> SUFFICES ASSUME IInv, [Next]_vars PROVE IInv'
    OBVIOUS
  <1>1. CASE Write \/ ChildExits
    BY <1>1, ChildIInv
  <1>2. CASE Worker
    BY <1>2, FlushRunningIInv, FlushFinalIInv, NextPieceIInv, AfterFlushIInv DEF Worker
  <1>3. CASE PushFails
    BY <1>3, AfterFlushIInv
  <1>4. CASE GiveUp
    BY <1>4, GiveUpIInv
  <1>5. CASE \E m \in net : IngestChunk(m)
    BY <1>5, IngestIInv
  <1>6. CASE MarkLost \/ Evict \/ Silence
    BY <1>6, BrokerIInv
  <1>7. CASE Poll
    BY <1>7, PollIInv
  <1>8. CASE FetchPull \/ AnswerPull \/ PullTimesOut
    BY <1>8, PullIInv
  <1>9. CASE TakePull
    BY <1>9, TakePullIInv
  <1>10. CASE UNCHANGED vars
    BY <1>10, StutterIInv
  <1> QED BY <1>1, <1>2, <1>3, <1>4, <1>5, <1>6, <1>7, <1>8, <1>9, <1>10 DEF Next

-----------------------------------------------------------------------------
\* The theorems

(* Ring, tail, requests under way and pulls only ever hold what out.raw    *)
(* holds at those offsets, within their caps (ring.ts, env-do.ts).         *)
THEOREM Invariance == Spec => []IInv
  <1>1. Init => IInv
    BY InitIInv
  <1>2. IInv /\ [Next]_vars => IInv'
    BY NextIInv
  <1> QED BY <1>1, <1>2, PTL DEF Spec

(* No poll, whoever serves it and whatever was lost on the way, returns a  *)
(* byte other than the one the child wrote at that offset.                 *)
THEOREM NoFalseByte == Spec => []ReadsAreTruthful
  <1>1. IInv => ReadsAreTruthful
    BY DEF IInv
  <1> QED BY <1>1, Invariance, PTL

(* next_byte passes over no byte that was neither returned nor declared    *)
(* as discarded (readWindow, jobResult).                                   *)
THEOREM NoSilentGap == Spec => []NothingSkippedInSilence
  <1>1. IInv => NothingSkippedInSilence
    BY DEF IInv
  <1> QED BY <1>1, Invariance, PTL

(* A client that is told an exited command's eof has been given, or told   *)
(* of, all the output the worker measured after the child's end.           *)
THEOREM EofMeansAll == Spec => []EofIsComplete
  <1>1. IInv => EofIsComplete
    BY DEF IInv
  <1> QED BY <1>1, Invariance, PTL

-----------------------------------------------------------------------------
\* Refinement

(* Steps the client and the record say nothing of.                         *)
LEMMA PromiseStutters ==
  ASSUME UNCHANGED <<written, childEnd, cursor, eof, read, skipped>>,
         state' = "exited" <=> state = "exited", state = "exited" => total' = total
  PROVE  UNCHANGED Promise!vars
  BY DEF Promise!vars

(* A tool result is a read, whoever serves it: over the range it covers,   *)
(* and with eof only when that range reaches what is on record.            *)
LEMMA PromiseRead ==
  ASSUME IInv, IInv', NEW start \in Nat, NEW bytes, Run(bytes, start), cursor <= start,
         start + Len(bytes) <= written, NEW last \in BOOLEAN, Deliver(start, bytes, last),
         last => start + Len(bytes) >= total, eof # "exited", UNCHANGED <<written, childEnd, worker, broker>>
  PROVE  Promise!Next
  <1>1. /\ start <= cursor' /\ cursor' <= written
        /\ {p[1] : p \in read'} = {p[1] : p \in read} \cup start..(cursor' - 1)
        /\ skipped' = skipped \cup cursor..(start - 1)
    BY DeliverFacts
  <1>2. cursor' \in cursor..written /\ start \in cursor..cursor'
    BY <1>1 DEF IInv, TypeOK
  <1>3. eof' = "exited" => state = "exited" /\ total <= cursor'
    BY DeliverFacts
  <1>4. eof' = "exited" => total # NotYet
    BY DEF IInv, TypeOK, NotYet
  <1>5. PICK b : b = cursor'
    OBVIOUS
  <1>6. Promise!Read(start, b)
    BY <1>1, <1>3, <1>4, <1>5 DEF Promise!Read, broker
  <1>7. \E y \in cursor..written : \E x \in cursor..y : Promise!Read(x, y)
    BY <1>2, <1>5, <1>6
  <1> QED BY <1>7 DEF Promise!Next

LEMMA PromiseStep == IInv /\ IInv' /\ [Next]_vars => [Promise!Next]_(Promise!vars)
  <1> SUFFICES ASSUME IInv, IInv', [Next]_vars PROVE Promise!Next \/ UNCHANGED Promise!vars
    OBVIOUS
  <1>1. ASSUME Write PROVE Promise!Write
    BY <1>1 DEF Write, Promise!Write, broker, reader
  <1>2. ASSUME ChildExits PROVE Promise!Exit
    BY <1>2 DEF ChildExits, Promise!Exit, broker, reader
  <1>3. ASSUME NEW m \in net, IngestChunk(m) PROVE Promise!Settle \/ UNCHANGED Promise!vars
    <2>1. UNCHANGED <<written, childEnd, size, cursor, eof, read, skipped>>
      BY <1>3 DEF IngestChunk, reader
    <2>2. CASE state = "exited" \/ state' # "exited"
      <3>1. state = "exited" => state' = "exited"
        BY <1>3 DEF IngestChunk
      <3>2. state = "exited" => total' = size' /\ total = size
        BY <3>1 DEF IInv, WorkerInv
      <3> QED BY <2>1, <2>2, <3>1, <3>2, PromiseStutters
    <2>3. CASE state # "exited" /\ state' = "exited"
      <3>1. Measured' /\ total' = size' /\ size' <= written' /\ size' \in Nat /\ written' \in Nat
        BY <2>3 DEF IInv, TypeOK, WorkerInv, EndInv
      <3>2. childEnd # NotYet /\ total' \in childEnd..written
        BY <2>1, <3>1 DEF Measured, IInv, TypeOK, NotYet
      <3> QED BY <2>1, <2>3, <3>2 DEF Promise!Settle
    <2> QED BY <2>2, <2>3
  <1>4. ASSUME Poll PROVE Promise!Next \/ UNCHANGED Promise!vars
    <2>1. eof # "exited" /\ UNCHANGED <<written, childEnd, worker, broker>>
      BY <1>4 DEF Poll
    <2>2. CASE UNCHANGED reader
      BY <2>1, <2>2, PromiseStutters DEF reader, broker
    <2>3. CASE ~Window(cursor).evicted
      <3>1. PICK start \in Nat, bytes \in Seq(Nat) :
              /\ Run(bytes, start) /\ cursor <= start /\ start + Len(bytes) <= written
              /\ Window(cursor) = [start |-> start, bytes |-> bytes, evicted |-> FALSE,
                                   eof |-> Terminal(state) /\ start + Len(bytes) >= total]
        BY <2>3, WindowFacts DEF Run
      <3>2. PICK last \in BOOLEAN : last = (Terminal(state) /\ start + Len(bytes) >= total)
        OBVIOUS
      <3>3. Window(cursor) = [start |-> start, bytes |-> bytes, evicted |-> FALSE, eof |-> last]
        BY <3>1, <3>2, Zenon
      <3>4. Deliver(start, bytes, last)
        BY <1>4, <2>3, <3>3 DEF Poll
      <3> QED BY <2>1, <3>1, <3>2, <3>4, PromiseRead
    <2> QED BY <1>4, <2>2, <2>3 DEF Poll
  <1>5. ASSUME TakePull PROVE Promise!Next
    <2>1. PICK start, bytes : start = pull.from /\ bytes = pull.bytes
      OBVIOUS
    <2>2. /\ start \in Nat /\ cursor <= start /\ Run(bytes, start) /\ start + Len(bytes) <= written
          /\ eof # "exited"
      BY <1>5, <2>1 DEF TakePull, IInv, TypeOK, Pulls, PullInv, ClientInv, Run
    <2>3. Deliver(start, bytes, FALSE) /\ UNCHANGED <<written, childEnd, worker, broker>>
      BY <1>5, <2>1 DEF TakePull
    <2> QED BY <2>2, <2>3, PromiseRead
  <1>6. ASSUME Worker \/ PushFails \/ GiveUp PROVE UNCHANGED Promise!vars
    <2>1. UNCHANGED <<written, childEnd, broker, reader>>
      BY <1>6 DEF Worker, FlushRunning, FlushFinal, NextPiece, LastPiece, PushFails, GiveUp
    <2> QED BY <2>1, PromiseStutters DEF broker, reader
  <1>7. ASSUME MarkLost \/ Evict \/ Silence PROVE UNCHANGED Promise!vars
    <2>1. /\ UNCHANGED <<written, childEnd, total, reader>>
          /\ state' = state \/ (state = "running" /\ state' = "lost")
      BY <1>7 DEF MarkLost, Evict, Silence, broker
    <2> QED BY <2>1, PromiseStutters DEF reader
  <1>8. ASSUME FetchPull \/ AnswerPull \/ PullTimesOut PROVE UNCHANGED Promise!vars
    <2>1. UNCHANGED <<written, childEnd, broker, reader>>
      BY <1>8 DEF FetchPull, AnswerPull, PullTimesOut
    <2> QED BY <2>1, PromiseStutters DEF broker, reader
  <1>9. ASSUME UNCHANGED vars PROVE UNCHANGED Promise!vars
    BY <1>9, PromiseStutters DEF vars, broker, reader
  <1> QED BY <1>1, <1>2, <1>3, <1>4, <1>5, <1>6, <1>7, <1>8, <1>9 DEF Next, Promise!Next

(* However bytes reach the client and whatever is lost on the way: it goes *)
(* forward only, over bytes it is given or told are gone; the size on      *)
(* record is settled once, after the child's exit; and eof is the end.     *)
THEOREM Refinement == Spec => KeepsPromise
  <1>1. Init => Promise!Init
    BY DEF Init, Promise!Init, NotYet
  <1>2. Spec => [][Promise!Next]_(Promise!vars)
    BY Invariance, PromiseStep, PTL DEF Spec
  <1> QED BY <1>1, <1>2, PTL DEF Spec, KeepsPromise, Promise!Spec

-----------------------------------------------------------------------------
\* Numbers: induction without an operator parameter, on sets

(* A set of numbers that is not empty has a least one.                     *)
LEMMA Least ==
  ASSUME NEW S \in SUBSET Nat, S # {}
  PROVE  \E n \in S : \A m \in S : n <= m
  <1> DEFINE T == {0..n : n \in S}
  <1>1. T # {}
    OBVIOUS
  <1>2. T \subseteq FiniteSubsetsOf(Nat)
    <2>1. \A n \in Nat : IsFiniteSet(0..n)
      BY FS_Interval
    <2> QED BY <2>1 DEF FiniteSubsetsOf
  <1>3. PICK x \in T : \A y \in T : <<y, x>> \notin StrictSubsetOrdering(Nat)
    <2> HIDE DEF T
    <2> QED BY <1>1, <1>2, WFMin, FS_StrictSubsetOrderingWellFounded
  <1>4. PICK n \in S : x = 0..n
    OBVIOUS
  <1>5. ASSUME NEW m \in S, ~(n <= m) PROVE FALSE
    <2>1. n \in 0..n /\ n \notin 0..m
      BY <1>5
    <2>2. 0..m \in T /\ 0..m \subseteq 0..n /\ 0..m # 0..n
      BY <2>1, <1>5
    <2>3. <<0..m, 0..n>> \in StrictSubsetOrdering(Nat)
      BY <2>2, <1>5 DEF StrictSubsetOrdering
    <2> QED BY <2>2, <2>3, <1>3, <1>4
  <1> QED BY <1>5

(* One that has a bound has a greatest one, which Max is.                  *)
LEMMA Greatest ==
  ASSUME NEW S \in SUBSET Nat, S # {}, NEW b \in Nat, \A n \in S : n <= b
  PROVE  Max(S) \in S /\ \A n \in S : n <= Max(S)
  <1> DEFINE D == {b - n : n \in S}
  <1>1. D # {}
    OBVIOUS
  <1>2. ASSUME NEW d \in D PROVE d \in Nat
    BY <1>2
  <1>3. PICK d \in D : \A e \in D : d <= e
    <2>1. D \in SUBSET Nat
      BY <1>2
    <2> HIDE DEF D
    <2> QED BY <1>1, <2>1, Least
  <1>4. PICK k \in S : d = b - k
    OBVIOUS
  <1>5. ASSUME NEW n \in S PROVE n <= k
    <2>1. d <= b - n
      BY <1>3
    <2> QED BY <2>1, <1>4
  <1>6. \E m \in S : \A n \in S : m >= n
    BY <1>5
  <1> QED BY <1>6 DEF Max

(* What holds first, and next whenever it holds, always holds.             *)
LEMMA Induct ==
  ASSUME NEW S, 0 \in S, \A n \in Nat : n \in S => n + 1 \in S
  PROVE  Nat \subseteq S
  <1>1. SUFFICES ASSUME Nat \ S # {} PROVE FALSE
    OBVIOUS
  <1>2. PICK n \in Nat \ S : \A m \in Nat \ S : n <= m
    BY <1>1, Least
  <1>3. n - 1 \in Nat /\ n - 1 \notin S
    BY <1>2
  <1> QED BY <1>2, <1>3

-----------------------------------------------------------------------------
\* The terminal's reading

(* Modes is what its recursion says.                                       *)
LEMMA ModesFacts ==
  ASSUME NEW w \in Seq(Octet)
  PROVE  /\ Modes(w)[0] = "ground"
         /\ \A i \in 1..Len(w) : Modes(w)[i] = AfterOctet(Modes(w)[i - 1], w[i])
  <1> DEFINE Rec(f, n) == f = [i \in 0..n |-> IF i = 0 THEN "ground" ELSE AfterOctet(f[i - 1], w[i])]
             Good == {n \in Nat : \E f : Rec(f, n)}
  <1>1. 0 \in Good
    <2>1. Rec([i \in 0..0 |-> "ground"], 0)
      OBVIOUS
    <2> QED BY <2>1
  <1>2. ASSUME NEW n \in Nat, n \in Good PROVE n + 1 \in Good
    <2>1. PICK f : Rec(f, n)
      BY <1>2
    <2> DEFINE g == [i \in 0..(n + 1) |-> IF i <= n THEN f[i] ELSE AfterOctet(f[n], w[n + 1])]
    <2>2. \A i \in 0..n : f[i] = IF i = 0 THEN "ground" ELSE AfterOctet(f[i - 1], w[i])
      BY <2>1
    <2>3. ASSUME NEW i \in 0..(n + 1)
          PROVE  g[i] = IF i = 0 THEN "ground" ELSE AfterOctet(g[i - 1], w[i])
      <3>1. CASE i = 0
        BY <3>1, <2>2
      <3>2. CASE i \in 1..n
        <4>1. g[i] = f[i] /\ g[i - 1] = f[i - 1]
          BY <3>2
        <4> QED BY <4>1, <3>2, <2>2
      <3>3. CASE i = n + 1
        <4>1. g[i] = AfterOctet(f[n], w[n + 1]) /\ g[i - 1] = f[n]
          BY <3>3
        <4> QED BY <4>1, <3>3
      <3> QED BY <3>1, <3>2, <3>3
    <2>4. Rec(g, n + 1)
      BY <2>3
    <2>5. \E h : Rec(h, n + 1)
      <3> HIDE DEF g
      <3> QED BY <2>4
    <2> QED BY <2>5
  <1>3. Len(w) \in Good
    <2> HIDE DEF Good
    <2> QED BY <1>1, <1>2, Induct, LenProperties
  <1>4. Rec(Modes(w), Len(w))
    BY <1>3 DEF Modes
  <1> QED BY <1>4, LenProperties


(* Without an ESC, and once its end has come, a sequence is over.          *)
LEMMA SequenceEnds ==
  ASSUME NEW w \in Seq(Octet), NEW e \in Nat, NEW c \in Nat, 0 < e, e <= c, c <= Len(w),
         w[e] = "esc", \A i \in (e + 1)..c : w[i] # "esc", EscapeTerminated(w, e, c)
  PROVE  ~InSequence(w, c)
  <1> DEFINE m == Modes(w)
  <1>1. Len(w) \in Nat /\ \A i \in 1..Len(w) : w[i] \in Octet
    BY LenProperties
  <1>2. \A i \in 1..c : m[i] = AfterOctet(m[i - 1], w[i])
    BY <1>1, ModesFacts
  <1> HIDE DEF m
  <1>3. m[e] = "esc"
    BY <1>2 DEF AfterOctet
  <1>4. e + 1 <= c /\ m[e + 1] = AfterOctet("esc", w[e + 1]) /\ w[e + 1] # "esc"
    BY <1>2, <1>3 DEF EscapeTerminated
  (* From j on the sequence is of one kind, until its end at k.            *)
  <1>5. ASSUME NEW kind \in {"csi", "string", "ground"}, m[e + 1] = kind,
               NEW k \in Nat, e + 1 <= k, k <= c, kind # "ground" => k > e + 1 /\ AfterOctet(kind, w[k]) = "ground"
        PROVE  m[c] = "ground"
    <2> DEFINE S == {i \in Nat : e + 1 + i <= c =>
                                   /\ m[e + 1 + i] \in {kind, "ground"}
                                   /\ e + 1 + i >= k => m[e + 1 + i] = "ground"}
    <2>1. 0 \in S
      BY <1>5
    <2>2. ASSUME NEW i \in Nat, i \in S PROVE i + 1 \in S
      <3>1. SUFFICES ASSUME e + 1 + (i + 1) <= c
                     PROVE  /\ m[e + 1 + (i + 1)] \in {kind, "ground"}
                            /\ e + 1 + (i + 1) >= k => m[e + 1 + (i + 1)] = "ground"
        OBVIOUS
      <3> DEFINE a == m[e + 1 + i]
                 b == w[e + 1 + (i + 1)]
      <3>2. m[e + 1 + (i + 1)] = AfterOctet(a, b) /\ b # "esc" /\ b \in Octet
        <4>1. e + 1 + (i + 1) \in 1..c /\ (e + 1 + (i + 1)) - 1 = e + 1 + i
          BY <3>1
        <4> QED BY <4>1, <1>1, <1>2
      <3>3. a \in {kind, "ground"} /\ (e + 1 + i >= k => a = "ground")
        BY <3>1, <2>2
      <3>4. AfterOctet("ground", b) = "ground"
        BY <3>2 DEF AfterOctet, Octet
      <3>5. e + 1 + (i + 1) = k => AfterOctet(kind, b) = "ground"
        BY <1>5, <3>4
      <3>6. e + 1 + (i + 1) >= k => e + 1 + i >= k \/ e + 1 + (i + 1) = k
        BY <1>5
      <3>7. AfterOctet(kind, b) \in {kind, "ground"}
        BY <3>2 DEF AfterOctet, Octet
      <3> QED BY <3>2, <3>3, <3>4, <3>5, <3>6, <3>7
    <2>3. c - (e + 1) \in S
      <3> HIDE DEF S
      <3>1. c - (e + 1) \in Nat
        BY <1>4
      <3> QED BY <2>1, <2>2, <3>1, Induct
    <2> QED BY <2>3, <1>4, <1>5
  <1>6. CASE w[e + 1] = "csi"
    <2>1. PICK k \in (e + 2)..c : w[k] # "par"
      BY <1>6 DEF EscapeTerminated
    <2>2. AfterOctet("csi", w[k]) = "ground" /\ AfterOctet("esc", "csi") = "csi"
      BY <2>1, <1>1 DEF AfterOctet, Octet
    <2>3. m[c] = "ground"
      BY <2>1, <2>2, <1>4, <1>5, <1>6
    <2> QED BY <2>3 DEF m, InSequence
  <1>7. CASE w[e + 1] = "string"
    <2>1. PICK k \in (e + 2)..c : w[k] = "bel"
      BY <1>7 DEF EscapeTerminated
    <2>2. AfterOctet("string", w[k]) = "ground" /\ AfterOctet("esc", "string") = "string"
      BY <2>1 DEF AfterOctet
    <2>3. m[c] = "ground"
      BY <2>1, <2>2, <1>4, <1>5, <1>7
    <2> QED BY <2>3 DEF m, InSequence
  <1>8. CASE w[e + 1] \notin {"csi", "string"}
    <2>1. AfterOctet("esc", w[e + 1]) = "ground"
      BY <1>1, <1>4, <1>8 DEF AfterOctet, Octet
    <2>2. m[c] = "ground"
      BY <2>1, <1>4, <1>5
    <2> QED BY <2>2 DEF m, InSequence
  <1> QED BY <1>6, <1>7, <1>8

-----------------------------------------------------------------------------
\* The three steps of the cut

(* The end of the last line, if it is not the end of the window.           *)
LEMMA LineEndFacts ==
  ASSUME NEW w \in Seq(Octet), NEW last \in BOOLEAN
  PROVE  /\ LineEnd(w, last) \in 0..Len(w)
         /\ w # <<>> => LineEnd(w, last) > 0
         /\ LineEnd(w, last) < Len(w) => ~last /\ w[LineEnd(w, last)] = "nl"
  <1> DEFINE lines == Positions(w, "nl")
  <1>1. Len(w) \in Nat /\ (w # <<>> => Len(w) > 0)
    BY LenProperties, EmptySeq
  <1>2. CASE last \/ lines = {}
    BY <1>1, <1>2 DEF LineEnd
  <1>3. CASE ~last /\ lines # {}
    <2>1. \A i \in lines : i \in 1..Len(w) /\ w[i] = "nl"
      BY DEF Positions
    <2>2. lines \in SUBSET Nat /\ \A i \in lines : i <= Len(w)
      BY <2>1, <1>1
    <2>3. Max(lines) \in lines
      <3> HIDE DEF lines
      <3> QED BY <1>1, <1>3, <2>2, Greatest
    <2>4. LineEnd(w, last) = Max(lines)
      BY <1>3 DEF LineEnd
    <2> QED BY <2>1, <2>3, <2>4, <1>1, <1>3
  <1> QED BY <1>2, <1>3

(* The longest tail of continuation bytes that the walk back covers.       *)
LEMMA WholeCharsFacts ==
  ASSUME NEW w \in Seq(Octet), NEW f \in 0..Len(w)
  PROVE  \E t \in 0..MaxTail :
           /\ t <= f /\ \A i \in (f - t + 1)..f : w[i] = "cont"
           /\ t < MaxTail /\ t < f => w[f - t] # "cont"
           /\ WholeChars(w, f) = IF t > 0 /\ t < f /\ w[f - t] = "lead" THEN f - t - 1 ELSE f - t
  <1> DEFINE Tails == {n \in 0..MaxTail : n <= f /\ \A i \in (f - n + 1)..f : w[i] = "cont"}
             t == Max(Tails)
  <1>1. MaxTail \in Nat /\ f \in Nat /\ Len(w) \in Nat
    BY CutAssumption, LenProperties
  <1>2. 0 \in Tails
    BY <1>1
  <1>3. t \in Tails /\ \A n \in Tails : n <= t
    <2>1. Tails \in SUBSET Nat /\ \A n \in Tails : n <= MaxTail
      BY <1>1
    <2> HIDE DEF Tails
    <2> QED BY <1>1, <1>2, <2>1, Greatest
  <1>4. WholeChars(w, f) = IF t > 0 /\ t < f /\ w[f - t] = "lead" THEN f - t - 1 ELSE f - t
    BY DEF WholeChars
  <1> HIDE DEF t
  <1>5. ASSUME t < MaxTail, t < f, w[f - t] = "cont" PROVE FALSE
    <2>1. t \in Nat
      BY <1>1, <1>3
    <2>2. \A i \in (f - (t + 1) + 1)..f : i = f - t \/ i \in (f - t + 1)..f
      BY <1>1, <2>1
    <2>3. t + 1 \in Tails
      BY <1>1, <1>3, <1>5, <2>1, <2>2
    <2>4. t + 1 <= t
      BY <1>3, <2>3
    <2> QED BY <2>1, <2>4
  <1> QED BY <1>3, <1>4, <1>5

(* In front of an ESC, or where no near sequence is open.                  *)
LEMMA WholeEscapesFacts ==
  ASSUME NEW w \in Seq(Octet), NEW c \in 0..Len(w)
  PROVE  \/ WholeEscapes(w, c) \in 0..(c - 1) /\ w[WholeEscapes(w, c) + 1] = "esc"
         \/ /\ WholeEscapes(w, c) = c
            /\ \/ \A i \in Positions(w, "esc") : i <= c => i <= c - Lookback
               \/ ~InSequence(w, c)
  <1> DEFINE near == {i \in Positions(w, "esc") : i <= c /\ i > c - Lookback}
             e == Max(near)
  <1>1. Len(w) \in Nat /\ c \in Nat /\ Lookback \in Nat
    BY CutAssumption, LenProperties
  <1>2. \A i \in Positions(w, "esc") : i \in 1..Len(w) /\ w[i] = "esc"
    BY DEF Positions
  <1>3. CASE near = {}
    <2>1. WholeEscapes(w, c) = c
      BY <1>3 DEF WholeEscapes
    <2>2. ASSUME NEW i \in Positions(w, "esc"), i <= c PROVE i <= c - Lookback
      BY <1>1, <1>2, <1>3, <2>2
    <2> QED BY <2>1, <2>2
  <1>4. CASE near # {}
    <2>1. near \in SUBSET Nat /\ \A n \in near : n <= c
      BY <1>1, <1>2
    <2>2. e \in near /\ \A n \in near : n <= e
      <3> HIDE DEF near
      <3> QED BY <1>1, <1>4, <2>1, Greatest
    <2>3. WholeEscapes(w, c) = IF ~EscapeTerminated(w, e, c) THEN e - 1 ELSE c
      BY <1>4 DEF WholeEscapes
    <2> HIDE DEF e
    <2>4. e \in 1..Len(w) /\ e <= c /\ w[e] = "esc" /\ e > c - Lookback
      BY <1>2, <2>2
    <2>5. ASSUME NEW i \in (e + 1)..c, w[i] = "esc" PROVE FALSE
      <3>1. i \in Positions(w, "esc")
        BY <1>1, <2>4, <2>5 DEF Positions
      <3>2. i \in near
        BY <3>1, <1>1, <2>4, <2>5
      <3> QED BY <3>2, <1>1, <2>2, <2>4
    <2>6. CASE EscapeTerminated(w, e, c)
      <3>1. ~InSequence(w, c)
        BY <2>4, <2>5, <2>6, <1>1, SequenceEnds
      <3> QED BY <3>1, <2>3, <2>6
    <2>7. CASE ~EscapeTerminated(w, e, c)
      <3>1. WholeEscapes(w, c) = e - 1 /\ (e - 1) + 1 = e
        BY <2>3, <2>4, <2>7, <1>1
      <3> QED BY <3>1, <2>4, <1>1
    <2> QED BY <2>6, <2>7
  <1> QED BY <1>3, <1>4


-----------------------------------------------------------------------------
\* The cut

LEMMA TextFacts ==
  ASSUME NEW w \in Windows
  PROVE  /\ w \in Seq(Octet)
         /\ \A i \in 1..(Len(w) - MaxTail) : \E j \in i..(i + MaxTail) : w[j] # "cont"
  <1>1. w \in SeqOf(Octet, MaxText)
    BY DEF Windows
  <1>2. PICK m \in 0..MaxText : w \in [1..m -> Octet]
    BY <1>1 DEF SeqOf
  <1>3. m \in Nat
    BY TextAssumption
  <1>4. w \in Seq(Octet)
    BY <1>2, <1>3
  <1> QED BY <1>4 DEF Windows

(* Where a cut is that is not forced.                                      *)
LEMMA UnforcedFacts ==
  ASSUME NEW w \in Seq(Octet), NEW last \in BOOLEAN, w # <<>>
  PROVE  LET f == LineEnd(w, last)
             n == WholeEscapes(w, WholeChars(w, f))
         IN  /\ SafeCut(w, last).end = IF n = 0 THEN f ELSE n
             /\ SafeCut(w, last).forcedSplit = (n = 0)
  BY DEF SafeCut

LEMMA CutInWindow ==
  ASSUME NEW w \in Seq(Octet), NEW last \in BOOLEAN
  PROVE  SafeCut(w, last).end \in Cuts(w)
  <1> DEFINE f == LineEnd(w, last)
             c == WholeChars(w, f)
             n == WholeEscapes(w, c)
  <1>1. Len(w) \in Nat /\ MaxTail \in Nat
    BY LenProperties, CutAssumption
  <1>2. f \in 0..Len(w) /\ (w # <<>> => f > 0)
    BY LineEndFacts
  <1> HIDE DEF f
  <1>3. c \in 0..f
    BY <1>1, <1>2, WholeCharsFacts
  <1> HIDE DEF c
  <1>4. n \in 0..c
    BY <1>1, <1>2, <1>3, WholeEscapesFacts
  <1>5. SafeCut(w, last).end = IF n = 0 THEN f ELSE n
    BY DEF SafeCut, f, c
  <1> HIDE DEF n
  <1>6. CASE w = <<>>
    <2>1. Len(w) = 0
      BY <1>6
    <2> QED BY <1>2, <1>3, <1>4, <1>5, <1>6, <2>1 DEF Cuts
  <1>7. CASE w # <<>>
    BY <1>1, <1>2, <1>3, <1>4, <1>5, <1>7 DEF Cuts
  <1> QED BY <1>6, <1>7

(* For every window: the cut is one that OutputStream's reader makes, so   *)
(* what is proved about the stream holds with safeCut as its cut, and a    *)
(* reader is never shown nothing of a window that holds something.         *)
THEOREM CutGetsOn == Spec => []CutShowsSomething
  <1>1. CutShowsSomething
    BY TextFacts, CutInWindow DEF CutShowsSomething
  <1> QED BY <1>1, PTL

(* Where a cut that is not forced may break a character.                   *)
LEMMA CharacterKept ==
  ASSUME NEW w \in Windows, NEW last \in BOOLEAN, BreaksCharacter(w, last)
  PROVE  SafeCut(w, last).end = Len(w) /\ w[Len(w)] = "lead"
  <1> DEFINE f == LineEnd(w, last)
             c == WholeChars(w, f)
             n == WholeEscapes(w, c)
             v == IF last THEN w ELSE Append(w, "cont")
  <1>1. /\ w \in Seq(Octet) /\ w # <<>> /\ Len(w) \in Nat /\ MaxTail \in Nat
        /\ \A i \in 1..Len(w) : w[i] \in Octet
    BY TextFacts, LenProperties, CutAssumption DEF BreaksCharacter, Unforced
  <1>2. SafeCut(w, last).end = n /\ n # 0
    BY <1>1, UnforcedFacts DEF BreaksCharacter, Unforced
  <1>3. f \in 0..Len(w) /\ f > 0 /\ (f < Len(w) => ~last /\ w[f] = "nl")
    BY <1>1, LineEndFacts
  <1>4. /\ \A i \in 1..Len(w) : v[i] = w[i]
        /\ Len(v) = IF last THEN Len(w) ELSE Len(w) + 1
    BY <1>1
  <1>5. /\ n < Len(v) /\ v[n + 1] = "cont"
        /\ \E i \in 1..n : n - i < MaxTail /\ v[i] = "lead" /\ \A j \in (i + 1)..n : v[j] = "cont"
    BY <1>2 DEF BreaksCharacter, InCharacter
  <1> HIDE DEF f, v
  <1>6. PICK t \in 0..MaxTail :
          /\ t <= f /\ \A i \in (f - t + 1)..f : w[i] = "cont"
          /\ t < MaxTail /\ t < f => w[f - t] # "cont"
          /\ c = IF t > 0 /\ t < f /\ w[f - t] = "lead" THEN f - t - 1 ELSE f - t
    BY <1>1, <1>3, WholeCharsFacts
  <1>7. c \in 0..f
    BY <1>1, <1>3, <1>6
  <1> HIDE DEF c
  <1>8. n = c
    <2>1. (n \in 0..(c - 1) /\ w[n + 1] = "esc") \/ n = c
      BY <1>1, <1>3, <1>7, WholeEscapesFacts
    <2>2. ~(n \in 0..(c - 1) /\ w[n + 1] = "esc")
      BY <1>1, <1>3, <1>4, <1>5, <1>7
    <2> QED BY <2>1, <2>2
  <1> HIDE DEF n
  <1>9. PICK i \in 1..n : n - i < MaxTail /\ w[i] = "lead" /\ \A j \in (i + 1)..n : w[j] = "cont"
    BY <1>1, <1>3, <1>4, <1>5, <1>7, <1>8
  <1>10. CASE t = 0
    <2>1. n = f /\ i \in 1..f
      BY <1>6, <1>8, <1>9, <1>10, <1>3
    <2>2. i = f
      BY <2>1, <1>1, <1>3, <1>6, <1>9, <1>10
    <2> QED BY <2>1, <2>2, <1>1, <1>2, <1>3, <1>9
  <1>11. CASE t > 0
    <2>1. f = Len(w)
      BY <1>1, <1>3, <1>6, <1>11
    <2>2. CASE t < f /\ w[f - t] = "lead"
      <3>1. n + 1 = f - t /\ n + 1 \in 1..Len(w)
        BY <1>1, <1>3, <1>6, <1>8, <1>11, <2>1, <2>2
      <3>2. w[n + 1] = v[n + 1]
        BY <3>1, <1>4
      <3> QED BY <3>1, <3>2, <2>2, <1>5
    <2>3. CASE ~(t < f /\ w[f - t] = "lead")
      <3>1. n = f - t /\ t < f
        BY <1>1, <1>2, <1>3, <1>6, <1>8, <2>3
      <3>2. i # n /\ w[n] = "cont"
        BY <3>1, <2>3, <1>9
      <3>3. t = MaxTail
        BY <3>1, <3>2, <1>1, <1>6
      <3>4. \A j \in n..(n + MaxTail) : w[j] = "cont"
        BY <3>1, <3>2, <3>3, <1>1, <1>3, <1>6
      <3>5. n \in 1..(Len(w) - MaxTail)
        BY <3>1, <3>3, <2>1, <1>1, <1>2, <1>3
      <3> QED BY <3>4, <3>5, TextFacts
    <2> QED BY <2>2, <2>3
  <1> QED BY <1>1, <1>6, <1>10, <1>11

(* Where a cut that is not forced may break a sequence.                    *)
LEMMA SequenceKept ==
  ASSUME NEW w \in Windows, NEW last \in BOOLEAN, BreaksSequence(w, last)
  PROVE  LET n == SafeCut(w, last).end
         IN  \/ n < Len(w) /\ w[n + 1] = "esc"
             \/ \A i \in Positions(w, "esc") : i <= n => i <= n - Lookback
  <1> DEFINE f == LineEnd(w, last)
             c == WholeChars(w, f)
             n == WholeEscapes(w, c)
  <1>1. w \in Seq(Octet) /\ w # <<>> /\ Len(w) \in Nat /\ MaxTail \in Nat
    BY TextFacts, LenProperties, CutAssumption DEF BreaksSequence, Unforced
  <1>2. SafeCut(w, last).end = n
    BY <1>1, UnforcedFacts DEF BreaksSequence, Unforced
  <1>3. f \in 0..Len(w)
    BY <1>1, LineEndFacts
  <1> HIDE DEF f
  <1>4. c \in 0..Len(w)
    BY <1>1, <1>3, WholeCharsFacts
  <1>5. InSequence(w, n)
    BY <1>2 DEF BreaksSequence
  <1> HIDE DEF c
  <1>6. \/ n \in 0..(c - 1) /\ w[n + 1] = "esc"
        \/ n = c /\ \A i \in Positions(w, "esc") : i <= c => i <= c - Lookback
    BY <1>1, <1>4, <1>5, WholeEscapesFacts
  <1> HIDE DEF n
  <1> QED BY <1>1, <1>2, <1>4, <1>6

(* For every window and lookback: what a cut that is not forced can break. *)
THEOREM CutBreaksOnly == Spec => []CutBreaksLittle
  <1>1. CutBreaksLittle
    BY CharacterKept, SequenceKept DEF CutBreaksLittle
  <1> QED BY <1>1, PTL
=============================================================================
