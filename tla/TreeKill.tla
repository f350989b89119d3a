------------------------------ MODULE TreeKill ------------------------------
(***************************************************************************)
(* killProcessGroup: end a command's process and everything it started.    *)
(*                                                                         *)
(* The tree is walked once, one pgrep per process, while the processes go  *)
(* on forking, leaving the group (setsid) and exiting; an exiting parent's *)
(* children are adopted by init and are in nobody's tree from then on.     *)
(* Then the group and each process found get the first signal, and after a *)
(* grace period SIGKILL.  Pids are the numbers 1, 2, ... in order of birth *)
(* and are not used again; 1 is the root, leader of its own group.         *)
(* A pgrep is taken to answer in its five seconds.  (On Windows taskkill   *)
(* does all of this.)                                                      *)
(***************************************************************************)
EXTENDS Integers, Sequences, FiniteSets, SequencesExt

CONSTANTS
  MaxProcs,   \* bound: processes ever started
  Stubborn,   \* the pids that ignore SIGTERM
  Detaches    \* may a process leave the group?

ASSUME TreeAssumption ==
  /\ MaxProcs \in Nat \ {0}
  /\ Stubborn \subseteq Nat
  /\ Detaches \in BOOLEAN

Root == 1
Adopter == 0     \* the adopting process

VARIABLES
  watched,   \* TRUE: called by the exec loop, which is told when the root exits;
             \* FALSE: by the control process, whose isExited is always false
  alive,     \* pids of living processes
  born,      \* how many were ever started
  parent, group,
  termed,    \* who was sent SIGTERM and has not died yet
  step,      \* of killProcessGroup
  walk,      \* pids getAllDescendants has still to ask for
  found,     \* pids it has asked for, the root first
  targets,   \* pids the running loop has still to signal
  tied       \* history: in the tree ever since the walk began

procs == <<watched, alive, born, parent, group, termed>>
killer == <<step, walk, found, targets>>
vars == <<procs, killer, tied>>

Pids == 1..MaxProcs

Init ==
  /\ watched \in BOOLEAN
  /\ alive = {Root} /\ born = 1
  /\ parent = [p \in Pids |-> Adopter]
  /\ group = [p \in Pids |-> Root]
  /\ termed = {}
  /\ step = "idle" /\ walk = <<>> /\ found = <<>> /\ targets = <<>> /\ tied = {}

-----------------------------------------------------------------------------
\* The processes

Fork(p) ==
  /\ p \in alive /\ born < MaxProcs
  /\ born' = born + 1
  /\ alive' = alive \cup {born + 1}
  /\ parent' = [parent EXCEPT ![born + 1] = p]
  /\ group' = [group EXCEPT ![born + 1] = group[p]]
  /\ UNCHANGED <<watched, termed, killer, tied>>

Setsid(p) ==
  /\ Detaches
  /\ p \in alive /\ group[p] # p
  /\ group' = [group EXCEPT ![p] = p]
  /\ UNCHANGED <<watched, alive, born, parent, termed, killer, tied>>

(* Who descends from a living root: whoever no set that is closed under    *)
(* having children can leave out.                                          *)
Closed(S, up) == Root \in S /\ \A c \in Pids : up[c] \in S => c \in S

TreeOf(living, up) == {p \in living : \A S \in SUBSET Pids : Closed(S, up) => p \in S}

(* The dead leave their children to init.                                  *)
Die(dead) ==
  /\ alive' = alive \ dead
  /\ parent' = [p \in Pids |-> IF parent[p] \in dead THEN Adopter ELSE parent[p]]
  /\ termed' = termed \ dead
  /\ tied' = IF step = "walk" THEN tied \cap TreeOf(alive', parent') ELSE tied
  /\ UNCHANGED <<watched, born, group>>

Exit(p) ==
  /\ p \in alive
  /\ p \in termed => p \notin Stubborn
  /\ Die({p})
  /\ UNCHANGED killer

Send(whom, sig) ==
  IF sig = "KILL" THEN Die(whom \cap alive)
  ELSE termed' = termed \cup (whom \cap alive) /\ UNCHANGED <<watched, alive, born, parent, group, tied>>

-----------------------------------------------------------------------------
\* killProcessGroup

Children(p) == {c \in alive : parent[c] = p}
Members     == {p \in alive : group[p] = Root}

(* What pgrep may print of them: each pid once.                            *)
Lists(S) == {s \in [1..Cardinality(S) -> S] : \A p \in S : \E i \in DOMAIN s : s[i] = p}

Start ==
  /\ step = "idle"
  /\ step' = "walk" /\ walk' = <<Root>>
  /\ tied' = TreeOf(alive, parent)
  /\ UNCHANGED <<procs, found, targets>>

WalkOneLevel ==  \* mutant: children, but not grandchildren
  /\ step = "walk" /\ walk # <<>>
  /\ walk' = <<>>
  /\ \E kids \in Lists(Children(Head(walk))) : found' = <<Head(walk)>> \o kids
  /\ UNCHANGED <<procs, step, targets, tied>>

(* One pgrep -P: the children there are now, each asked in its turn.       *)
Walk ==
  /\ step = "walk" /\ walk # <<>>
  /\ \E kids \in Lists(Children(Head(walk))) : walk' = kids \o Tail(walk)
  /\ found' = Append(found, Head(walk))
  /\ UNCHANGED <<procs, step, targets, tied>>

(* Descendants before their parents, and the root last.                    *)
AllPidsToKill == Reverse(found)

(* The first signal, SIGTERM since both callers escalate: to the group ... *)
TermGroup ==
  /\ step = "walk" /\ walk = <<>>
  /\ Send(Members, "TERM")
  /\ step' = "term" /\ targets' = AllPidsToKill
  /\ UNCHANGED <<walk, found>>

(* ... and to each process found, one after the other.                     *)
TermEach ==
  /\ step = "term" /\ targets # <<>>
  /\ Send({Head(targets)}, "TERM")
  /\ targets' = Tail(targets)
  /\ UNCHANGED <<step, walk, found>>

IsExited == watched /\ Root \notin alive

(* isExited is asked before the grace period, when the event may not have  *)
(* come yet, and after it.                                                 *)
GiveUpIfExited ==
  /\ step \in {"term", "grace"} /\ targets = <<>>
  /\ IsExited
  /\ step' = "done"
  /\ UNCHANGED <<procs, walk, found, targets, tied>>

StartGrace ==
  /\ step = "term" /\ targets = <<>>
  /\ step' = "grace"
  /\ UNCHANGED <<procs, walk, found, targets, tied>>

KillOnlyFound ==  \* mutant: no kill(-pid) the second time
  /\ step = "grace" /\ ~IsExited
  /\ step' = "kill" /\ targets' = AllPidsToKill
  /\ UNCHANGED <<procs, walk, found, tied>>

KillGroup ==
  /\ step = "grace" /\ ~IsExited
  /\ Send(Members, "KILL")
  /\ step' = "kill" /\ targets' = AllPidsToKill
  /\ UNCHANGED <<walk, found>>

KillEach ==
  /\ step = "kill" /\ targets # <<>>
  /\ Send({Head(targets)}, "KILL")
  /\ targets' = Tail(targets)
  /\ UNCHANGED <<step, walk, found>>

Done ==
  /\ step = "kill" /\ targets = <<>>
  /\ step' = "done"
  /\ UNCHANGED <<procs, walk, found, targets, tied>>

Next ==
  \/ \E p \in Pids : Fork(p) \/ Setsid(p) \/ Exit(p)
  \/ Start \/ Walk \/ TermGroup \/ TermEach \/ GiveUpIfExited \/ StartGrace
  \/ KillGroup \/ KillEach \/ Done

Spec == Init /\ [][Next]_vars

-----------------------------------------------------------------------------
TypeOK ==
  /\ watched \in BOOLEAN /\ born \in Pids
  /\ alive \subseteq 1..born /\ termed \subseteq alive /\ tied \subseteq 1..born
  /\ parent \in [Pids -> Pids \cup {Adopter}] /\ group \in [Pids -> Pids]
  /\ step \in {"idle", "walk", "term", "grace", "kill", "done"}
  /\ walk \in Seq(Pids) /\ found \in Seq(Pids) /\ targets \in Seq(Pids)

(* After a stop_job, only a process that left the root's group and was cut *)
(* off from its tree is left: children forked after the walk die with the  *)
(* group, and whoever was a descendant of the root all through the walk is *)
(* found, in whatever session, although the tree changed meanwhile.        *)
OnlyEscapeesSurvive ==
  (step = "done" /\ ~watched) => \A p \in alive : group[p] # Root /\ p \notin tied

-----------------------------------------------------------------------------
(* The inductive invariant behind it.                                      *)

(* Parents are alive, the unborn have none, the root keeps its group.      *)
ProcInv ==
  /\ \A p \in alive : parent[p] \in alive \cup {Adopter}
  /\ \A p \in Pids : p > born => parent[p] = Adopter
  /\ group[Root] = Root

(* While the tree is walked, whoever is tied to it has a parent who is,    *)
(* and is on a list if the parent was asked for: when nobody is left to be *)
(* asked for, all were.                                                    *)
WalkInv ==
  /\ step = "idle" => found = <<>>
  /\ step = "walk" =>
       /\ Root \in ToSet(walk) \cup ToSet(found)
       /\ tied \subseteq TreeOf(alive, parent)
       /\ \A c \in tied \ {Root} : parent[c] \in tied
       /\ \A c \in tied \ {Root} : parent[c] \in ToSet(found) => c \in ToSet(walk) \cup ToSet(found)

(* Who was tied was found, and is signalled; the group dies at once and is *)
(* joined by nobody.                                                       *)
KillInv ==
  /\ step \in {"term", "grace"} => tied \subseteq ToSet(found)
  /\ step = "kill" => Members = {} /\ tied \cap alive \subseteq ToSet(targets)
  /\ step = "done" /\ ~watched => Members = {} /\ tied \cap alive = {}

IInv == TypeOK /\ ProcInv /\ WalkInv /\ KillInv

-----------------------------------------------------------------------------
\* What the sources say that the code does not keep

(* After a stop_job all descendants are killed, as the header of           *)
(* killProcessGroup says.                                                  *)
TreeDies == (step = "done" /\ ~watched) => alive = {}

(* The same for the exec loop's kills (a timeout, a full disk) of commands *)
(* none of whose processes leaves the group.                               *)
LoopKillsGroup == (step = "done" /\ watched) => Members = {}
=============================================================================
