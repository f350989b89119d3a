---------------------------- MODULE OutputStream ----------------------------
(***************************************************************************)
(* One command's output, from out.raw to the client that reads it.         *)
(*                                                                         *)
(* The child appends to a file.  The exec worker pushes what it has not    *)
(* pushed yet, piece by piece, and forgets a piece whether or not it got   *)
(* through.  EnvDO keeps a bounded ring in memory, which an eviction       *)
(* empties, and a bounded tail on disk once the command has ended.  The    *)
(* client loops on poll_job with from_byte = next_byte; what the broker no *)
(* longer holds is pulled from the runner's file over the control channel. *)
(*                                                                         *)
(* The byte at offset i of out.raw is written as the number i, so a byte   *)
(* served at the wrong offset shows.                                       *)
(***************************************************************************)
EXTENDS Integers, Sequences

CONSTANTS
  MaxSize,       \* bound: bytes that are written
  MaxLate,       \* bound: those written after the child has exited
  PushMax,       \* PUSH_MAX_BYTES
  RingMax,       \* RING_MAX
  TailMax,       \* TAIL_MAX
  Want,          \* max_bytes of a poll
  PushLoss,      \* may a push fail altogether?
  Stale,         \* may a request arrive after its sender gave it up?
  MaxEvictions   \* bound: times the Durable Object is evicted

ASSUME StreamAssumption ==
  /\ MaxSize \in Nat /\ MaxLate \in Nat /\ MaxEvictions \in Nat
  /\ PushMax \in Nat \ {0} /\ RingMax \in Nat \ {0} /\ TailMax \in Nat \ {0} /\ Want \in Nat \ {0}
  /\ PushLoss \in BOOLEAN /\ Stale \in BOOLEAN

VARIABLES
  written,                      \* out.raw's length
  childEnd,                     \* history: what it was when the child exited, or NotYet
  pc, size, pushed, piece, acked, \* exec worker: st.size, st.pushed, the push it awaits
  net,                          \* /chunk requests that may still arrive
  ring, tail, state, total,     \* EnvDO: rings.get(id), and the command row
  gone, evictions,              \* EnvDO: silent for RUNNER_GONE_MS?
  pull,                         \* the reader's pull, wherever it is
  cursor, eof, read, skipped    \* client; history: what it was told

worker == <<pc, size, pushed, piece, acked>>
broker == <<ring, tail, state, total>>
reader == <<cursor, eof, read, skipped>>
vars == <<written, childEnd, worker, net, broker, gone, evictions, pull, reader>>

NotYet == -1

-----------------------------------------------------------------------------
Lesser(a, b)  == IF a < b THEN a ELSE b
Greater(a, b) == IF a > b THEN a ELSE b

(* out.raw from offset a to just before b.                                 *)
Bytes(a, b) == [k \in 1..(b - a) |-> a + k - 1]

Buffer(start, bytes) == [start |-> start, bytes |-> bytes]
Buffers == [start : Nat, bytes : Seq(Nat)]
NoBuffer == Buffer(-1, <<>>)
End(b) == b.start + Len(b.bytes)

(* At most Want bytes of b from offset `from` on.                          *)
Slice(b, from) == SubSeq(b.bytes, from - b.start + 1, Lesser(Len(b.bytes), from - b.start + Want))

(* The last n bytes of b.                                                  *)
LastOf(b, n) ==
  LET drop == Greater(0, Len(b.bytes) - n)
  IN  Buffer(b.start + drop, SubSeq(b.bytes, drop + 1, Len(b.bytes)))

AppendBlindly(r, start, bytes) ==  \* mutant: a gap is not noticed
  LET old == IF r = NoBuffer THEN Buffer(start, <<>>) ELSE r
  IN  LastOf(Buffer(old.start, old.bytes \o SubSeq(bytes, Greater(0, End(old) - start) + 1, Len(bytes))),
             RingMax)

(* appendChunk: start_byte is the dedupe key.  A chunk that starts past    *)
(* the end restarts the ring, one that overlaps adds its unseen end.       *)
AppendChunk(r, start, bytes) ==
  LET old  == IF r = NoBuffer THEN Buffer(start, <<>>) ELSE r
      skip == End(old) - start
      new  == IF skip < 0 THEN Buffer(start, bytes)
              ELSE Buffer(old.start, old.bytes \o SubSeq(bytes, skip + 1, Len(bytes)))
  IN  LastOf(new, RingMax)

Terminal(s) == s \in {"exited", "lost"}

Chunk == [start : Nat, bytes : Seq(Nat), total : Nat, state : {"running", "exited", "lost"}]

(* The piece a flush sends from offset `from` of the n bytes it has seen:  *)
(* its last piece carries the state, the others say running.               *)
Piece(from, n, s) ==
  LET to == Lesser(n, from + PushMax)
  IN  [start |-> from, bytes |-> Bytes(from, to), total |-> n,
       state |-> IF to = n THEN s ELSE "running"]

GaveUp == [start |-> 0, bytes |-> <<>>, total |-> 0, state |-> "lost"]

Pulls == [at : {"none", "queued", "fetched", "answered", "dropped"}, from : Nat, bytes : Seq(Nat)]
NoPull == [at |-> "none", from |-> 0, bytes |-> <<>>]

Init ==
  /\ written = 0 /\ childEnd = NotYet
  /\ pc = "loop" /\ size = 0 /\ pushed = 0 /\ piece = GaveUp /\ acked = FALSE
  /\ net = {}
  /\ ring = NoBuffer /\ tail = NoBuffer /\ state = "running" /\ total = 0
  /\ gone = FALSE /\ evictions = 0
  /\ pull = NoPull
  /\ cursor = 0 /\ eof = "no" /\ read = {} /\ skipped = {}

-----------------------------------------------------------------------------
\* The child and the exec worker

(* The child writes; so may a grandchild it leaves behind.                 *)
Write ==
  /\ written < MaxSize /\ (childEnd # NotYet => written < childEnd + MaxLate)
  /\ written' = written + 1
  /\ UNCHANGED <<childEnd, worker, net, broker, gone, evictions, pull, reader>>

ChildExits ==
  /\ childEnd = NotYet /\ childEnd' = written
  /\ UNCHANGED <<written, worker, net, broker, gone, evictions, pull, reader>>

(* Start the push of m; `pushed` moves on before the answer is known.      *)
Send(m, to) ==
  /\ piece' = m /\ acked' = FALSE
  /\ net' = net \cup {m}
  /\ pc' = to
  /\ pushed' = IF m = GaveUp THEN pushed ELSE m.start + Len(m.bytes)

(* The loop of runCommand has looked at the size and flushes.              *)
FlushRunning ==
  /\ pc = "loop" /\ written > pushed
  /\ size' = written
  /\ Send(Piece(pushed, written, "running"), "flushing")
  /\ UNCHANGED <<written, childEnd, broker, gone, evictions, pull, reader>>

FlushUnmeasured ==  \* mutant: the size of the last look is believed
  /\ pc = "loop" /\ childEnd # NotYet
  /\ size' = size
  /\ Send(Piece(pushed, size, "exited"), "ending")
  /\ UNCHANGED <<written, childEnd, broker, gone, evictions, pull, reader>>

(* The child has exited: measure a last time, flush with the verdict.  A   *)
(* flush with nothing left to send still sends one empty piece.            *)
FlushFinal ==
  /\ pc = "loop" /\ childEnd # NotYet
  /\ size' = written
  /\ Send(Piece(pushed, written, "exited"), "ending")
  /\ UNCHANGED <<written, childEnd, broker, gone, evictions, pull, reader>>

(* Requests already sent for a piece die with it, or arrive when they may. *)
Forget == net' = IF Stale THEN net ELSE net \ {piece}

(* One of the attempts was answered 200.                                   *)
MoreToSend == pc \in {"flushing", "ending"} /\ acked /\ piece # GaveUp /\ pushed < size

NextPiece ==
  /\ MoreToSend
  /\ LET m == Piece(pushed, size, IF pc = "ending" THEN "exited" ELSE "running")
     IN  /\ piece' = m /\ acked' = FALSE
         /\ net' = (IF Stale THEN net ELSE net \ {piece}) \cup {m}
         /\ pushed' = m.start + Len(m.bytes)
  /\ UNCHANGED <<written, childEnd, pc, size, broker, gone, evictions, pull, reader>>

AfterFlush == pc' = IF pc = "flushing" THEN "loop" ELSE "done"

LastPiece ==
  /\ pc \in {"flushing", "ending"} /\ acked /\ ~MoreToSend
  /\ AfterFlush /\ Forget
  /\ UNCHANGED <<written, childEnd, size, pushed, piece, acked, broker, gone, evictions, pull, reader>>

(* Every attempt failed or the token was refused: flush returns false.     *)
PushFails ==
  /\ PushLoss /\ pc \in {"flushing", "ending"}
  /\ AfterFlush /\ Forget
  /\ UNCHANGED <<written, childEnd, size, pushed, piece, acked, broker, gone, evictions, pull, reader>>

(* The worker's own failure, a read that throws: it reports `lost`.        *)
GiveUp ==
  /\ pc = "loop" \/ MoreToSend
  /\ Send(GaveUp, "ending")
  /\ UNCHANGED <<written, childEnd, size, broker, gone, evictions, pull, reader>>

-----------------------------------------------------------------------------
\* EnvDO

(* ingestChunk: the ring takes the bytes, the row is merged, and the tail  *)
(* is rewritten when the command is over and the ring holds anything.      *)
IngestChunk(m) ==
  LET r == IF m.bytes = <<>> THEN ring ELSE AppendChunk(ring, m.start, m.bytes)
      s == IF state = "exited" THEN state ELSE m.state
  IN  /\ ring' = r
      /\ state' = s
      /\ total' = Greater(total, m.total)
      /\ tail' = IF Terminal(s) /\ r.bytes # <<>> THEN LastOf(r, TailMax) ELSE tail
      /\ gone' = FALSE
      /\ acked' = (acked \/ m = piece)
      /\ UNCHANGED <<written, childEnd, pc, size, pushed, piece, net, evictions, pull, reader>>

(* controlPoll believes a survey that calls the running command a gap.     *)
MarkLost ==
  /\ state = "running"
  /\ state' = "lost" /\ gone' = FALSE
  /\ UNCHANGED <<written, childEnd, worker, net, ring, tail, total, evictions, pull, reader>>

(* The isolate is replaced: rings, actions and pulls were only in memory.  *)
Evict ==
  /\ evictions < MaxEvictions /\ evictions' = evictions + 1
  /\ ring' = NoBuffer
  /\ pull' = IF pull.at \in {"queued", "answered"} THEN [pull EXCEPT !.at = "dropped"] ELSE pull
  /\ UNCHANGED <<written, childEnd, worker, net, tail, state, total, gone, reader>>

(* RUNNER_GONE_MS pass without a word from the runner.                     *)
Silence ==
  /\ ~gone /\ gone' = TRUE
  /\ UNCHANGED <<written, childEnd, worker, net, broker, evictions, pull, reader>>

-----------------------------------------------------------------------------
\* The client's poll_job

(* EnvDO.window and readWindow: who serves offset `from`, if anyone.       *)
RingServes(from) == ring # NoBuffer /\ ring.start <= from /\ from <= End(ring)

Window(from) ==
  LET Of(start, bytes) ==
        [start |-> start, bytes |-> bytes, evicted |-> FALSE,
         eof |-> Terminal(state) /\ start + Len(bytes) >= total]
  IN  IF RingServes(from) THEN Of(from, Slice(ring, from))
      ELSE IF from >= total THEN Of(from, <<>>)
      ELSE IF tail # NoBuffer /\ from >= tail.start THEN Of(from, Slice(tail, from))
      ELSE IF tail # NoBuffer /\ Terminal(state) /\ gone THEN Of(tail.start, Slice(tail, tail.start))
      ELSE [start |-> from, bytes |-> <<>>, evicted |-> TRUE, eof |-> FALSE]

(* What the client learns from the first n of these bytes; a window that   *)
(* starts later than asked declares the skip as head_discarded_bytes.      *)
Told(start, bytes, n, next, ended) ==
  /\ cursor' = next
  /\ read' = read \cup {<<start + k - 1, bytes[k]>> : k \in 1..n}
  /\ skipped' = skipped \cup cursor..(start - 1)
  /\ eof' = IF ended THEN state ELSE eof

(* The cut may hold bytes back, but never all of them.                     *)
Cuts(bytes) == IF bytes = <<>> THEN {0} ELSE 1..Len(bytes)

DeliverPastTheCut(start, bytes, last) ==  \* mutant: next_byte counts the withheld bytes
  \E n \in Cuts(bytes) : Told(start, bytes, n, start + Len(bytes), last /\ n = Len(bytes))

DeliverEofEarly(start, bytes, last) ==  \* mutant: eof though the cut withheld bytes
  \E n \in Cuts(bytes) : Told(start, bytes, n, start + n, last)

DeliverWholeLines(start, bytes, last) ==  \* mutant: an unfinished line is always withheld
  LET n == IF last THEN Len(bytes) ELSE Greater(0, Len(bytes) - 1)
  IN  Told(start, bytes, n, start + n, last)

(* A tool result; eof is claimed only when nothing was held back.          *)
Deliver(start, bytes, last) ==
  \E n \in Cuts(bytes) : Told(start, bytes, n, start + n, last /\ n = Len(bytes))

Poll ==
  /\ eof # "exited" /\ pull = NoPull
  /\ LET w == Window(cursor)
     IN  IF w.evicted
         THEN pull' = [at |-> "queued", from |-> cursor, bytes |-> <<>>] /\ UNCHANGED reader
         ELSE Deliver(w.start, w.bytes, w.eof) /\ UNCHANGED pull
  /\ UNCHANGED <<written, childEnd, worker, net, broker, gone, evictions>>

(* The control long-poll drains the queued actions.                        *)
FetchPull ==
  /\ pull.at = "queued"
  /\ pull' = [pull EXCEPT !.at = "fetched"]
  /\ gone' = FALSE
  /\ UNCHANGED <<written, childEnd, worker, net, broker, evictions, reader>>

(* handleAction reads the range from out.raw and pushes it back.           *)
AnswerPull ==
  /\ pull.at = "fetched"
  /\ pull' = [pull EXCEPT !.at = "answered",
                          !.bytes = Bytes(pull.from, Lesser(written, pull.from + Want))]
  /\ UNCHANGED <<written, childEnd, worker, net, broker, gone, evictions, reader>>

TakePull ==
  /\ pull.at = "answered"
  /\ Deliver(pull.from, pull.bytes, FALSE)
  /\ pull' = NoPull
  /\ UNCHANGED <<written, childEnd, worker, net, broker, gone, evictions>>

(* No answer in time, or an answer the next look at the window overwrites. *)
PullTimesOut ==
  /\ pull # NoPull
  /\ pull' = NoPull
  /\ UNCHANGED <<written, childEnd, worker, net, broker, gone, evictions, reader>>

Worker == FlushRunning \/ FlushFinal \/ NextPiece \/ LastPiece

Next ==
  \/ Write \/ ChildExits \/ Worker \/ PushFails \/ GiveUp
  \/ \E m \in net : IngestChunk(m)
  \/ MarkLost \/ Evict \/ Silence
  \/ Poll \/ FetchPull \/ AnswerPull \/ TakePull \/ PullTimesOut

Spec == Init /\ [][Next]_vars

(* The worker runs on, a push that is retried gets through, the client     *)
(* keeps polling, and not every pull is answered too late.                 *)
Fairness ==
  /\ WF_vars(Worker)
  /\ WF_vars(IngestChunk(piece) /\ piece \in net)
  /\ WF_vars(Poll) /\ WF_vars(PullTimesOut)
  /\ SF_vars(FetchPull) /\ SF_vars(AnswerPull) /\ SF_vars(TakePull)

FairSpec == Spec /\ Fairness

-----------------------------------------------------------------------------
\* Types

States == {"running", "exited", "lost"}

TypeOK ==
  /\ written \in Nat /\ childEnd \in Nat \cup {NotYet}
  /\ pc \in {"loop", "flushing", "ending", "done"}
  /\ size \in Nat /\ pushed \in Nat /\ piece \in Chunk /\ acked \in BOOLEAN
  /\ net \subseteq Chunk
  /\ ring \in Buffers \cup {NoBuffer} /\ tail \in Buffers \cup {NoBuffer}
  /\ state \in States /\ total \in Nat
  /\ gone \in BOOLEAN /\ evictions \in Nat
  /\ pull \in Pulls
  /\ cursor \in Nat /\ eof \in States \cup {"no"}
  /\ read \subseteq Nat \X Nat /\ skipped \subseteq Nat

-----------------------------------------------------------------------------
\* Safety

(* Every byte the client was ever given at an offset is the byte at that   *)
(* offset of out.raw: whichever of ring, tail and runner serves a read or  *)
(* a re-read, it returns the same bytes.                                   *)
ReadsAreTruthful == \A p \in read : p[2] = p[1]

(* The client's next_byte never leaves bytes behind in silence: all of     *)
(* them were returned, or declared as discarded.                           *)
NothingSkippedInSilence ==
  \A i \in 0..(cursor - 1) : (\E p \in read : p[1] = i) \/ i \in skipped

(* The worker has measured what the child left when it exited.             *)
Measured == childEnd # NotYet /\ childEnd <= size

(* eof of a command that exited: the client has been given, or told of,    *)
(* every byte there was when the child exited, and every later one that    *)
(* the worker measured.                                                    *)
EofIsComplete ==
  eof = "exited" =>
    /\ Measured /\ total = size
    /\ \A i \in 0..(size - 1) : (\E p \in read : p[1] = i) \/ i \in skipped

(* What the ring or the tail holds is what out.raw holds there.            *)
Truthful(b) == \A k \in 1..Len(b.bytes) : b.bytes[k] = b.start + k - 1

BufferInv == Truthful(ring) /\ Truthful(tail) /\ End(ring) <= total /\ End(tail) <= total

(* No ring outgrows its cap, and the tail on record is short as well.      *)
BoundedInv == Len(ring.bytes) <= RingMax /\ Len(tail.bytes) <= TailMax

ChunkInv ==
  \A m \in net \cup {piece} :
    /\ Truthful(m) /\ m.start + Len(m.bytes) <= Greater(m.total, 0)
    /\ m.total <= size
    /\ m.state = "exited" => m.total = size

WorkerInv ==
  /\ total <= size /\ pushed <= size /\ size <= written
  /\ state = "exited" => total = size /\ pc \in {"ending", "done"}
  /\ \A m \in net \cup {piece} : m.state = "exited" => pc \in {"ending", "done"}
  /\ eof = "exited" => state = "exited"

PullInv == /\ \A k \in 1..Len(pull.bytes) : pull.bytes[k] = pull.from + k - 1
           /\ pull.at # "none" => pull.from = cursor

(* Only what was measured after the child's exit is called exited.         *)
EndInv ==
  /\ childEnd <= written
  /\ \A m \in net \cup {piece} : m.state = "exited" => Measured
  /\ state = "exited" \/ (pc = "ending" /\ piece # GaveUp) => Measured

(* The client is not ahead of out.raw, and asks for nothing after eof.     *)
ClientInv ==
  /\ cursor <= written /\ pull.from + Len(pull.bytes) <= written
  /\ pull.at # "none" => eof # "exited"

IInv == /\ TypeOK /\ BufferInv /\ BoundedInv /\ ChunkInv /\ WorkerInv /\ PullInv
        /\ EndInv /\ ClientInv
        /\ ReadsAreTruthful /\ NothingSkippedInSilence /\ EofIsComplete

-----------------------------------------------------------------------------
(* What all of it amounts to for the client.                               *)

Promise == INSTANCE OutputPromise WITH
  length <- written, next <- cursor, lost <- skipped, over <- eof = "exited",
  given  <- {p[1] : p \in read},
  final  <- IF state = "exited" THEN total ELSE NotYet

(* Ring, tail, pulls, lost and late pushes and evictions together keep the *)
(* promise: a poll goes forward only, over bytes that it returns or        *)
(* declares discarded; the size on record is settled once, after the       *)
(* child's exit; and nothing is read after eof.                            *)
KeepsPromise == Promise!Spec

-----------------------------------------------------------------------------
\* Liveness, and what the sources say that the code does not keep

(* The window answers the client's offset with nothing although there is   *)
(* more: a buffer that a lost push cut short covers the offset.            *)
CutShort == LET w == Window(cursor) IN ~w.evicted /\ w.bytes = <<>> /\ cursor < total

(* A command on record as exited is read to its eof by a client that loops *)
(* with from_byte = next_byte, whatever was lost, late or evicted.  The    *)
(* one exception is a client that such a window holds for ever, since only *)
(* an evicted range is pulled.                                             *)
EofUnlessCutShort == (state = "exited") ~> (eof = "exited" \/ CutShort)

(* "Loop with from_byte = next_byte until eof is true": the loop ends.     *)
ReaderReachesEof == (state = "exited") ~> (eof = "exited")
=============================================================================
