------------------------------ MODULE SelfHost ------------------------------
(***************************************************************************)
(* The self-hosted broker: processes that take turns on a data directory,  *)
(* and what they put in the place of Cloudflare's Durable Objects.         *)
(*                                                                         *)
(* LocalNamespace keeps, for each object in use, a record with an SQLite   *)
(* handle, an instance of the class and a chain of promises.  A method is  *)
(* called through a stub; it waits for its turn in the chain and runs in a *)
(* transaction, and if it throws both the transaction and the instance are *)
(* thrown away.  Records that are idle are closed, and so is everything    *)
(* when the server stops; a lock on the directory keeps a second process   *)
(* out meanwhile.  A tool handler that streams its answer goes on after    *)
(* its request is gone, and may still call a stub.                         *)
(*                                                                         *)
(* A method is any that writes: two statements and one change in memory    *)
(* stand for its effect.                                                   *)
(***************************************************************************)
EXTENDS Integers, Sequences, FiniteSets

CONSTANTS
  Procs,        \* broker processes that share a data directory
  Objects,
  Requests,     \* HTTP requests
  Target,       \* the object each is about
  NoProc,
  MaxCalls,     \* bound: methods one request calls
  MaxEvictions, \* bound: records closed as idle
  MaxCrashes    \* bound: processes that are killed

ASSUME HostAssumption ==
  /\ NoProc \notin Procs
  /\ Target \in [Requests -> Objects]
  /\ MaxCalls \in Nat /\ MaxEvictions \in Nat /\ MaxCrashes \in Nat

Calls == Requests \X (1..MaxCalls)
Slots == Procs \X Objects
Parts == {1, 2}   \* the statements of a method

VARIABLES
  lock, phase,        \* who holds broker-lock.sqlite; each process: down, up, closing, draining
  home, pc, made,     \* each handler: its process, where it is, calls made
  stub,               \* ... and which record it holds a stub of, by generation
  inflight,           \* requests whose HTTP side is not over
  open, gen, chain, step, tx, mem,  \* the record of each object in each process
  db,                 \* what is committed
  told,               \* history: what became of each call
  evictions, crashes

server  == <<lock, phase>>
handler == <<home, pc, made, stub, inflight>>
record  == <<open, gen, chain, step, tx, mem>>
bounds  == <<evictions, crashes>>
vars    == <<server, handler, record, db, told, bounds>>

-----------------------------------------------------------------------------
Object(c) == Target[c[1]]

Init ==
  /\ lock = NoProc /\ phase = [p \in Procs |-> "down"]
  /\ home = [r \in Requests |-> NoProc] /\ pc = [r \in Requests |-> "new"]
  /\ made = [r \in Requests |-> 0] /\ stub = [r \in Requests |-> 0]
  /\ inflight = {}
  /\ open = [s \in Slots |-> FALSE] /\ gen = [s \in Slots |-> 0]
  /\ chain = [s \in Slots |-> <<>>] /\ step = [s \in Slots |-> "idle"]
  /\ tx = [s \in Slots |-> {}] /\ mem = [s \in Slots |-> {}]
  /\ db = {}
  /\ told = [c \in Calls |-> "no"]
  /\ evictions = 0 /\ crashes = 0

-----------------------------------------------------------------------------
\* startServer

(* BEGIN EXCLUSIVE fails when another process has it, and the start with it. *)
Start(p) ==
  /\ phase[p] = "down" /\ lock = NoProc
  /\ lock' = p
  /\ phase' = [phase EXCEPT ![p] = "up"]
  /\ UNCHANGED <<handler, record, db, told, bounds>>

(* A request comes in; once `closing` is set they are answered with 503.   *)
Admit(r, p) ==
  /\ pc[r] = "new" /\ phase[p] = "up"
  /\ home' = [home EXCEPT ![r] = p]
  /\ pc' = [pc EXCEPT ![r] = "open"]
  /\ inflight' = inflight \cup {r}
  /\ UNCHANGED <<server, made, stub, record, db, told, bounds>>

-----------------------------------------------------------------------------
\* LocalNamespace

Enqueue(r, s, c) ==
  /\ chain' = [chain EXCEPT ![s] = Append(@, c)]
  /\ told' = [told EXCEPT ![c] = "asked"]
  /\ pc' = [pc EXCEPT ![r] = "waiting"]

(* The namespace or the database behind the stub is closed.                *)
Reject(c) ==
  /\ told' = [told EXCEPT ![c] = "failed"]
  /\ UNCHANGED <<pc, stub, record>>

(* The handler calls its object's next method: get(id), if it has no stub  *)
(* yet, opens the record.  `evictIdle` waits for ten idle minutes and no    *)
(* handler pauses as long, but nothing ties a stub to its record: here a    *)
(* stub may outlive it.                                                    *)
CallMethod(r) ==
  LET p == home[r]
      s == <<p, Target[r]>>
      c == <<r, made[r] + 1>>
  IN  /\ pc[r] = "open" /\ made[r] < MaxCalls
      /\ made' = [made EXCEPT ![r] = @ + 1]
      /\ \/ phase[p] = "draining" /\ Reject(c)
         \/ /\ phase[p] # "draining" /\ stub[r] = 0
            /\ open' = [open EXCEPT ![s] = TRUE]
            /\ gen' = [gen EXCEPT ![s] = IF open[s] THEN @ ELSE @ + 1]
            /\ stub' = [stub EXCEPT ![r] = gen'[s]]
            /\ Enqueue(r, s, c)
            /\ UNCHANGED <<step, tx, mem>>
         \/ /\ phase[p] # "draining" /\ stub[r] # 0
            /\ open[s] /\ stub[r] = gen[s]
            /\ Enqueue(r, s, c)
            /\ UNCHANGED <<stub, open, gen, step, tx, mem>>
         \/ /\ phase[p] # "draining" /\ stub[r] # 0
            /\ ~(open[s] /\ stub[r] = gen[s])
            /\ Reject(c)
      /\ UNCHANGED <<server, home, inflight, db, bounds>>

Turn(s, from) == chain[s] # <<>> /\ step[s] = from

(* The chain comes to a call: BEGIN IMMEDIATE.                             *)
Begin(s) ==
  /\ Turn(s, "idle")
  /\ step' = [step EXCEPT ![s] = "begun"]
  /\ UNCHANGED <<server, handler, open, gen, chain, tx, mem, db, told, bounds>>

(* The method's statements, and what it changes in the instance.           *)
Write(s) ==
  /\ \/ Turn(s, "begun") /\ step' = [step EXCEPT ![s] = "half"]
        /\ tx' = [tx EXCEPT ![s] = @ \cup {<<Head(chain[s]), 1>>}]
     \/ Turn(s, "half") /\ step' = [step EXCEPT ![s] = "full"]
        /\ tx' = [tx EXCEPT ![s] = @ \cup {<<Head(chain[s]), 2>>}]
  /\ mem' = [mem EXCEPT ![s] = @ \cup {Head(chain[s])}]
  /\ UNCHANGED <<server, handler, open, gen, chain, db, told, bounds>>

Commit(s) ==
  /\ Turn(s, "full")
  /\ db' = db \cup tx[s]
  /\ tx' = [tx EXCEPT ![s] = {}]
  /\ step' = [step EXCEPT ![s] = "done"]
  /\ UNCHANGED <<server, handler, open, gen, chain, mem, told, bounds>>

(* The promise settles, the handler is told, and the chain moves on.       *)
Settle(s, outcome) ==
  /\ told' = [told EXCEPT ![Head(chain[s])] = outcome]
  /\ chain' = [chain EXCEPT ![s] = Tail(@)]
  /\ step' = [step EXCEPT ![s] = "idle"]
  /\ pc' = [pc EXCEPT ![Head(chain[s])[1]] = "open"]
  /\ UNCHANGED <<server, home, made, stub, inflight, open, gen, db, bounds>>

Answer(s) ==
  /\ Turn(s, "done")
  /\ Settle(s, "ok")
  /\ UNCHANGED <<tx, mem>>

ThrowWithoutRollback(s) ==  \* mutant: what was written joins the next commit
  /\ chain[s] # <<>> /\ step[s] \in {"begun", "half", "full"}
  /\ Settle(s, "failed")
  /\ mem' = [mem EXCEPT ![s] = {}]
  /\ UNCHANGED tx

ThrowKeepingInstance(s) ==  \* mutant: the instance survives the rollback
  /\ chain[s] # <<>> /\ step[s] \in {"begun", "half", "full"}
  /\ Settle(s, "failed")
  /\ tx' = [tx EXCEPT ![s] = {}]
  /\ UNCHANGED mem

ThrowPoisons(s) ==  \* mutant: `pending` stays rejected
  /\ chain[s] # <<>> /\ step[s] \in {"begun", "half", "full"}
  /\ told' = [told EXCEPT ![Head(chain[s])] = "failed"]
  /\ step' = [step EXCEPT ![s] = "poisoned"]
  /\ UNCHANGED <<server, handler, open, gen, chain, tx, mem, db, bounds>>

(* The method or the COMMIT throws: ROLLBACK, and a new instance.          *)
Throw(s) ==
  /\ chain[s] # <<>> /\ step[s] \in {"begun", "half", "full"}
  /\ Settle(s, "failed")
  /\ tx' = [tx EXCEPT ![s] = {}]
  /\ mem' = [mem EXCEPT ![s] = {}]

(* evictIdle: no call is active.                                           *)
Evict(s) ==
  /\ open[s] /\ chain[s] = <<>>
  /\ evictions < MaxEvictions /\ evictions' = evictions + 1
  /\ open' = [open EXCEPT ![s] = FALSE]
  /\ mem' = [mem EXCEPT ![s] = {}]
  /\ UNCHANGED <<server, handler, gen, chain, step, tx, db, told, crashes>>

-----------------------------------------------------------------------------
\* Requests and the server come to an end

Finish(r) ==
  /\ pc[r] = "open"
  /\ pc' = [pc EXCEPT ![r] = "over"]
  /\ inflight' = inflight \ {r}
  /\ UNCHANGED <<server, home, made, stub, record, db, told, bounds>>

(* The client disconnects, or the server aborts the request: the answer    *)
(* stream ends, and the handler does not know yet.                         *)
Disconnect(r) ==
  /\ r \in inflight
  /\ inflight' = inflight \ {r}
  /\ UNCHANGED <<server, home, pc, made, stub, record, db, told, bounds>>

(* close(): no new requests, and those under way are aborted.              *)
Close(p) ==
  /\ phase[p] = "up"
  /\ phase' = [phase EXCEPT ![p] = "closing"]
  /\ UNCHANGED <<lock, handler, record, db, told, bounds>>

(* All of `inflight` has settled: the namespaces are closed to new calls.  *)
CloseNamespaces(p) ==
  /\ phase[p] = "closing"
  /\ \A r \in inflight : home[r] # p
  /\ phase' = [phase EXCEPT ![p] = "draining"]
  /\ UNCHANGED <<lock, handler, record, db, told, bounds>>

Gone(p) ==
  /\ lock' = NoProc
  /\ phase' = [phase EXCEPT ![p] = "down"]
  /\ pc' = [r \in Requests |-> IF home[r] = p THEN "over" ELSE pc[r]]
  /\ inflight' = {r \in inflight : home[r] # p}
  /\ open' = [s \in Slots |-> open[s] /\ s[1] # p]
  /\ mem' = [s \in Slots |-> IF s[1] = p THEN {} ELSE mem[s]]
  /\ UNCHANGED <<home, made, stub, gen, db>>

(* Every chain has run out: the databases are closed, then the lock, and   *)
(* the process exits.                                                      *)
Exit(p) ==
  /\ phase[p] = "draining"
  /\ \A o \in Objects : chain[<<p, o>>] = <<>>
  /\ Gone(p)
  /\ UNCHANGED <<chain, step, tx, told, bounds>>

(* The process is killed, or its ten seconds for stopping are over.  Its   *)
(* transactions are rolled back, and the system frees the lock.            *)
Crash(p) ==
  /\ phase[p] # "down"
  /\ crashes < MaxCrashes /\ crashes' = crashes + 1
  /\ Gone(p)
  /\ chain' = [s \in Slots |-> IF s[1] = p THEN <<>> ELSE chain[s]]
  /\ step' = [s \in Slots |-> IF s[1] = p THEN "idle" ELSE step[s]]
  /\ tx' = [s \in Slots |-> IF s[1] = p THEN {} ELSE tx[s]]
  /\ told' = [c \in Calls |-> IF told[c] = "asked" /\ home[c[1]] = p THEN "unknown" ELSE told[c]]
  /\ UNCHANGED evictions

Run(s) == Begin(s) \/ Write(s) \/ Commit(s) \/ Answer(s) \/ Throw(s)

Next ==
  \/ \E p \in Procs : Start(p) \/ Close(p) \/ CloseNamespaces(p) \/ Exit(p) \/ Crash(p)
  \/ \E r \in Requests : \/ \E p \in Procs : Admit(r, p)
                         \/ CallMethod(r) \/ Finish(r) \/ Disconnect(r)
  \/ \E s \in Slots : Run(s) \/ Evict(s)

Spec == Init /\ [][Next]_vars

(* A method awaits nothing but its own storage, so it runs to an end.      *)
FairSpec == Spec /\ \A s \in Slots : WF_vars(Run(s))

-----------------------------------------------------------------------------
TypeOK ==
  /\ lock \in Procs \cup {NoProc}
  /\ phase \in [Procs -> {"down", "up", "closing", "draining"}]
  /\ home \in [Requests -> Procs \cup {NoProc}]
  /\ pc \in [Requests -> {"new", "open", "waiting", "over"}]
  /\ made \in [Requests -> 0..MaxCalls] /\ stub \in [Requests -> Nat]
  /\ inflight \subseteq Requests
  /\ open \in [Slots -> BOOLEAN] /\ gen \in [Slots -> Nat]
  /\ chain \in [Slots -> Seq(Calls)]
  /\ step \in [Slots -> {"idle", "begun", "half", "full", "done"}]
  /\ tx \in [Slots -> SUBSET (Calls \X Parts)] /\ mem \in [Slots -> SUBSET Calls]
  /\ db \subseteq Calls \X Parts
  /\ told \in [Calls -> {"no", "asked", "ok", "failed", "unknown"}]
  /\ evictions \in Nat /\ crashes \in Nat

Applied == {c \in Calls : <<c, 1>> \in db}

(* One process at a time works on the data directory: no object has two    *)
(* instances, and none is open in a process without the lock.              *)
OneBroker ==
  /\ \A p \in Procs : phase[p] # "down" <=> lock = p
  /\ \A s \in Slots : open[s] => lock = s[1]

(* What an instance remembers did happen: between two calls its memory has *)
(* no effect of a call whose transaction was rolled back.                  *)
MemoryAgrees == \A s \in Slots : step[s] = "idle" => mem[s] \subseteq Applied

(* Only whole methods are committed.                                       *)
NothingHalf == \A c \in Calls : <<c, 1>> \in db <=> <<c, 2>> \in db

(* What is asked for waits in one place, in an open record of its handler's *)
(* process, and is not committed before its turn is done.                  *)
Written(s) == CASE step[s] = "half" -> {<<Head(chain[s]), 1>>}
                [] step[s] = "full" -> {<<Head(chain[s]), 1>>, <<Head(chain[s]), 2>>}
                [] OTHER -> {}

RecordInv(s) ==
  /\ chain[s] # <<>> => open[s]
  /\ step[s] # "idle" => chain[s] # <<>>
  /\ tx[s] = Written(s)
  /\ step[s] = "done" => Head(chain[s]) \in Applied
  /\ mem[s] \subseteq Applied \cup (IF step[s] \in {"half", "full"} THEN {Head(chain[s])} ELSE {})
  /\ \A i \in 1..Len(chain[s]) :
       LET c == chain[s][i]
       IN  /\ told[c] = "asked" /\ home[c[1]] = s[1] /\ Object(c) = s[2]
           /\ pc[c[1]] = "waiting" /\ made[c[1]] = c[2]
           /\ c \in Applied => i = 1 /\ step[s] = "done"
  /\ \A i, j \in 1..Len(chain[s]) : chain[s][i] = chain[s][j] => i = j

Waits(c) ==
  LET s == <<home[c[1]], Object(c)>>
  IN  s \in Slots /\ \E i \in 1..Len(chain[s]) : chain[s][i] = c

ChainInv ==
  /\ \A s \in Slots : RecordInv(s)
  /\ \A c \in Calls : told[c] = "asked" => Waits(c)

HandlerInv ==
  /\ \A r \in Requests : pc[r] = "new" => made[r] = 0
  /\ \A r \in Requests : pc[r] \in {"open", "waiting"} => home[r] \in Procs /\ phase[home[r]] # "down"
  /\ \A c \in Calls : told[c] = "no" <=> c[2] > made[c[1]]
  /\ \A c \in Calls : told[c] = "ok" => c \in Applied
  /\ \A c \in Calls : told[c] \in {"no", "failed"} => c \notin Applied

IInv == TypeOK /\ OneBroker /\ MemoryAgrees /\ NothingHalf /\ ChainInv /\ HandlerInv

-----------------------------------------------------------------------------
(* The objects are what the modules of the broker take them for, also when *)
(* the process is killed at any moment, stops while handlers go on, or is  *)
(* replaced by another: an answer is true for good.                        *)
Objects_ == INSTANCE AtomicObjects WITH applied <- Applied
Implements == Objects_!Spec

(* Every call is answered, or its process is killed: a call that throws    *)
(* does not hold up those behind it.                                       *)
EveryCallIsAnswered == \A c \in Calls : (told[c] = "asked") ~> (told[c] # "asked")
=============================================================================
