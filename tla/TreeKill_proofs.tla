-------------------------- MODULE TreeKill_proofs --------------------------
(***************************************************************************)
(* Proofs about TreeKill, for any number of processes.                     *)
(*                                                                         *)
(* TreeOf is defined by the sets that are closed under having children,    *)
(* which is what makes the end of the walk provable: who was found, with   *)
(* whoever is not tied, is such a set (WalkEnds).                          *)
(***************************************************************************)
EXTENDS TreeKill, SequenceTheorems, FiniteSetTheorems, TLAPS

USE TreeAssumption DEF Root, Adopter, Pids

-----------------------------------------------------------------------------
\* Lists of pids and what is on them.
LEMMA OnHeadTail ==
  ASSUME NEW s \in Seq(Pids), s # <<>>
  PROVE  Head(s) \in Pids /\ Tail(s) \in Seq(Pids) /\ ToSet(s) = {Head(s)} \cup ToSet(Tail(s))
<1>1. /\ Len(s) \in Nat /\ Len(s) >= 1 /\ DOMAIN s = 1..Len(s) /\ Head(s) = s[1] /\ Head(s) \in Pids
      /\ Tail(s) \in Seq(Pids) /\ Len(Tail(s)) = Len(s) - 1
      /\ \A i \in 1..Len(Tail(s)) : Tail(s)[i] = s[i + 1]
  BY EmptySeq, HeadTailProperties
<1>2. DOMAIN Tail(s) = 1..Len(Tail(s))
  BY <1>1
<1>3. ASSUME NEW i \in DOMAIN s PROVE s[i] \in {Head(s)} \cup ToSet(Tail(s))
  <2>1. CASE i = 1
    BY <1>1, <2>1
  <2>2. CASE i # 1
    <3>1. i - 1 \in DOMAIN Tail(s) /\ Tail(s)[i - 1] = s[i]
      BY <1>1, <1>2, <2>2
    <3> QED
      BY <3>1 DEF ToSet
  <2> QED
    BY <2>1, <2>2
<1>4. ASSUME NEW i \in DOMAIN Tail(s) PROVE Tail(s)[i] \in ToSet(s)
  <2>1. i + 1 \in DOMAIN s /\ Tail(s)[i] = s[i + 1]
    BY <1>1, <1>2
  <2> QED
    BY <2>1 DEF ToSet
<1>5. Head(s) \in ToSet(s)
  BY <1>1 DEF ToSet
<1> QED
  BY <1>1, <1>3, <1>4, <1>5 DEF ToSet

LEMMA OnConcat ==
  ASSUME NEW s \in Seq(Pids), NEW t \in Seq(Pids)
  PROVE  s \o t \in Seq(Pids) /\ ToSet(s \o t) = ToSet(s) \cup ToSet(t)
<1>1. /\ s \o t \in Seq(Pids) /\ Len(s \o t) = Len(s) + Len(t) /\ Len(s) \in Nat /\ Len(t) \in Nat
      /\ \A i \in 1..(Len(s) + Len(t)) : (s \o t)[i] = IF i <= Len(s) THEN s[i] ELSE t[i - Len(s)]
      /\ DOMAIN s = 1..Len(s) /\ DOMAIN t = 1..Len(t)
  BY ConcatProperties, LenProperties
<1>2. DOMAIN (s \o t) = 1..(Len(s) + Len(t))
  BY <1>1
<1>3. ASSUME NEW i \in DOMAIN (s \o t) PROVE (s \o t)[i] \in ToSet(s) \cup ToSet(t)
  <2>1. CASE i <= Len(s)
    BY <1>1, <1>2, <2>1 DEF ToSet
  <2>2. CASE ~(i <= Len(s))
    <3>1. i - Len(s) \in DOMAIN t /\ (s \o t)[i] = t[i - Len(s)]
      BY <1>1, <1>2, <2>2
    <3> QED
      BY <3>1 DEF ToSet
  <2> QED
    BY <2>1, <2>2
<1>4. ASSUME NEW i \in DOMAIN s PROVE s[i] \in ToSet(s \o t)
  <2>1. i \in DOMAIN (s \o t) /\ (s \o t)[i] = s[i]
    BY <1>1, <1>2
  <2> QED
    BY <2>1 DEF ToSet
<1>5. ASSUME NEW i \in DOMAIN t PROVE t[i] \in ToSet(s \o t)
  <2>1. i + Len(s) \in DOMAIN (s \o t) /\ (s \o t)[i + Len(s)] = t[i]
    BY <1>1, <1>2
  <2> QED
    BY <2>1 DEF ToSet
<1> QED
  BY <1>1, <1>3, <1>4, <1>5 DEF ToSet

LEMMA OnAppend ==
  ASSUME NEW s \in Seq(Pids), NEW p \in Pids
  PROVE  Append(s, p) \in Seq(Pids) /\ ToSet(Append(s, p)) = ToSet(s) \cup {p}
<1>1. Append(s, p) = s \o <<p>> /\ <<p>> \in Seq(Pids) /\ Append(s, p) \in Seq(Pids)
  BY AppendIsConcat, AppendProperties
<1>2. ToSet(<<p>>) = {p}
  BY DEF ToSet
<1> QED
  BY <1>1, <1>2, OnConcat

LEMMA OnReverse ==
  ASSUME NEW s \in Seq(Pids)
  PROVE  Reverse(s) \in Seq(Pids) /\ ToSet(Reverse(s)) = ToSet(s)
<1>1. Len(s) \in Nat /\ DOMAIN s = 1..Len(s) /\ \A i \in 1..Len(s) : s[i] \in Pids
  BY LenProperties, ElementOfSeq
<1>2. /\ DOMAIN Reverse(s) = 1..Len(s)
      /\ \A i \in 1..Len(s) : Reverse(s)[i] = s[Len(s) - i + 1] /\ Len(s) - i + 1 \in 1..Len(s)
  BY <1>1 DEF Reverse
<1>3. Reverse(s) \in [1..Len(s) -> Pids]
  BY <1>1, <1>2 DEF Reverse
<1>4. Reverse(s) \in Seq(Pids)
  BY <1>1, <1>3, SeqDef
<1>5. ASSUME NEW i \in DOMAIN s PROVE s[i] \in ToSet(Reverse(s))
  <2>1. Len(s) - i + 1 \in DOMAIN Reverse(s) /\ Reverse(s)[Len(s) - i + 1] = s[i]
    BY <1>1, <1>2
  <2> QED
    BY <2>1 DEF ToSet
<1>6. ASSUME NEW i \in DOMAIN Reverse(s) PROVE Reverse(s)[i] \in ToSet(s)
  BY <1>1, <1>2 DEF ToSet
<1> QED
  BY <1>4, <1>5, <1>6 DEF ToSet

LEMMA OnLists ==
  ASSUME NEW S \in SUBSET Pids, NEW s \in Lists(S)
  PROVE  s \in Seq(Pids) /\ ToSet(s) = S
<1>1. IsFiniteSet(Pids)
  BY FS_Interval
<1>2. Cardinality(S) \in Nat
  BY <1>1, FS_Subset, FS_CardinalityType
<1>3. s \in [1..Cardinality(S) -> S] /\ \A p \in S : \E i \in DOMAIN s : s[i] = p
  BY DEF Lists
<1>4. s \in [1..Cardinality(S) -> Pids]
  BY <1>3
<1>5. s \in Seq(Pids)
  BY <1>2, <1>4
<1> QED
  BY <1>3, <1>5 DEF ToSet

LEMMA OnEmpty == <<>> \in Seq(Pids) /\ ToSet(<<>>) = {}
BY EmptySeq DEF ToSet

-----------------------------------------------------------------------------
\* Who descends from the root has a parent who does.
LEMMA ParentInTree ==
  ASSUME NEW living \in SUBSET Pids, NEW up \in [Pids -> Pids \cup {Adopter}],
         \A p \in living : up[p] \in living \cup {Adopter},
         NEW c \in TreeOf(living, up), c # Root
  PROVE  up[c] \in TreeOf(living, up)
<1>1. c \in living /\ c \in Pids
  BY DEF TreeOf
<1>2. ASSUME NEW S \in SUBSET Pids, Closed(S, up), up[c] \notin S PROVE FALSE
  <2>1. Closed(S \ {c}, up)
    BY <1>2 DEF Closed
  <2>2. S \ {c} \in SUBSET Pids
    OBVIOUS
  <2> QED
    BY <2>1, <2>2 DEF TreeOf
<1>3. up[c] # Adopter
  <2>1. CASE up[c] = Adopter
    <3>1. Closed(Pids, up) /\ Pids \in SUBSET Pids
      BY DEF Closed
    <3> QED
      BY <1>2, <2>1, <3>1
  <2> QED
    BY <2>1
<1> QED
  BY <1>1, <1>2, <1>3 DEF TreeOf

\* More children put nobody out of the tree.
LEMMA TreeGrows ==
  ASSUME NEW living, NEW more, living \subseteq more, NEW up, NEW up2,
         \A c \in Pids : up[c] \in Pids => up2[c] = up[c]
  PROVE  TreeOf(living, up) \subseteq TreeOf(more, up2)
<1>1. ASSUME NEW S \in SUBSET Pids, Closed(S, up2) PROVE Closed(S, up)
  BY <1>1 DEF Closed
<1> QED
  BY <1>1 DEF TreeOf

\* When nobody is left to be asked for, all who are tied were found.
LEMMA WalkEnds ==
  ASSUME TypeOK, WalkInv, step = "walk", walk = <<>>
  PROVE  tied \subseteq ToSet(found)
<1> DEFINE S == ToSet(found) \cup (Pids \ tied)
<1>1. ToSet(walk) = {} /\ ToSet(found) \subseteq Pids
  <2>1. found \in Seq(Pids)
    BY DEF TypeOK
  <2>2. \A i \in DOMAIN found : found[i] \in Pids
    BY <2>1, LenProperties
  <2> QED
    BY <2>2, OnEmpty DEF ToSet
<1>2. ASSUME NEW c \in Pids, parent[c] \in S PROVE c \in S
  BY <1>1, <1>2 DEF WalkInv
<1>3. Closed(S, parent) /\ S \in SUBSET Pids
  BY <1>1, <1>2 DEF Closed, WalkInv
<1>4. \A p \in tied : p \in S
  BY <1>3 DEF WalkInv, TreeOf
<1> QED
  BY <1>4

-----------------------------------------------------------------------------
\* The first state satisfies the invariant.
LEMMA InitIInv == Init => IInv
<1> SUFFICES ASSUME Init PROVE IInv
  OBVIOUS
<1>1. TypeOK
  BY OnEmpty DEF Init, TypeOK
<1>2. ProcInv /\ WalkInv /\ KillInv
  BY DEF Init, ProcInv, WalkInv, KillInv
<1> QED
  BY <1>1, <1>2 DEF IInv

\* A birth changes nothing for those who are there.
LEMMA ForkStep == ASSUME IInv, NEW p \in Pids, Fork(p) PROVE IInv'
<1>0. TypeOK /\ ProcInv /\ WalkInv /\ KillInv
  BY DEF IInv
<1>1. /\ p \in alive /\ born < MaxProcs /\ born' = born + 1 /\ alive' = alive \cup {born + 1}
      /\ parent' = [parent EXCEPT ![born + 1] = p] /\ group' = [group EXCEPT ![born + 1] = group[p]]
      /\ UNCHANGED <<watched, termed, step, walk, found, targets, tied>>
  BY DEF Fork, killer
<1>2. born + 1 \in Pids /\ born + 1 # Root /\ born + 1 \notin alive /\ born + 1 \notin tied
      /\ parent[born + 1] = Adopter
  BY <1>0, <1>1 DEF TypeOK, ProcInv
<1>7. /\ born \in Pids /\ 1..born \subseteq 1..born' /\ born + 1 \in 1..born' /\ alive \subseteq 1..born /\ tied \subseteq 1..born
      /\ p \in alive /\ parent \in [Pids -> Pids \cup {Adopter}] /\ group \in [Pids -> Pids]
  <2>1. /\ born \in Pids /\ alive \subseteq 1..born /\ tied \subseteq 1..born
        /\ parent \in [Pids -> Pids \cup {Adopter}] /\ group \in [Pids -> Pids]
    BY <1>0 DEF TypeOK
  <2>2. \A n \in Nat : 1..n \subseteq 1..(n + 1) /\ n + 1 \in 1..(n + 1)
    OBVIOUS
  <2>3. born \in Nat
    BY <2>1
  <2> QED
    BY <1>1, <2>1, <2>2, <2>3
<1>3. TypeOK'
  <2>1. alive' \subseteq 1..born' /\ tied' \subseteq 1..born' /\ termed' \subseteq alive'
    BY <1>0, <1>1, <1>7 DEF TypeOK
  <2>2. parent' \in [Pids -> Pids \cup {Adopter}] /\ group' \in [Pids -> Pids]
    BY <1>1, <1>2, <1>7
  <2> QED
    BY <1>0, <1>1, <1>2, <2>1, <2>2 DEF TypeOK
<1>4. ProcInv'
  <2>1. \A q \in alive' : parent'[q] \in alive' \cup {Adopter}
    BY <1>0, <1>1, <1>2, <1>7 DEF ProcInv
  <2>2. \A q \in Pids : q > born' => parent'[q] = Adopter
    BY <1>0, <1>1, <1>2, <1>7 DEF ProcInv
  <2>3. group'[Root] = Root
    BY <1>0, <1>1, <1>2, <1>7 DEF ProcInv
  <2> QED
    BY <2>1, <2>2, <2>3 DEF ProcInv
<1>5. WalkInv'
  <2>1. TreeOf(alive, parent) \subseteq TreeOf(alive', parent')
    <3>1. \A c \in Pids : parent[c] \in Pids => parent'[c] = parent[c]
      BY <1>0, <1>1, <1>2 DEF TypeOK
    <3>2. alive \subseteq alive'
      BY <1>1
    <3> QED
      BY <3>1, <3>2, TreeGrows
  <2>2. \A c \in tied : c \in Pids /\ parent'[c] = parent[c]
    <3>1. SUFFICES ASSUME NEW c \in tied PROVE c \in Pids /\ parent'[c] = parent[c]
      OBVIOUS
    <3>2. c \in Pids /\ c # born + 1
      BY <1>7
    <3> QED
      BY <1>1, <1>2, <3>2
  <2>3. ASSUME step = "walk" PROVE tied' \subseteq TreeOf(alive', parent')
    BY <1>0, <1>1, <2>1, <2>3 DEF WalkInv
  <2>4. ASSUME step = "walk", NEW c \in tied \ {Root}
        PROVE  parent'[c] \in tied /\ (parent'[c] \in ToSet(found) => c \in ToSet(walk) \cup ToSet(found))
    BY <1>0, <2>2, <2>4 DEF WalkInv
  <2> QED
    BY <1>0, <1>1, <2>3, <2>4 DEF WalkInv
<1>6. KillInv'
  <2>1. Members = {} => Members' = {}
    <3>1. SUFFICES ASSUME Members = {}, NEW q \in alive' PROVE group'[q] # Root
      BY DEF Members
    <3>2. CASE q = born + 1
      BY <1>1, <1>2, <1>7, <3>1, <3>2 DEF Members
    <3>3. CASE q \in alive
      <4>1. q \in Pids
        BY <1>7, <3>3
      <4> QED
        BY <1>1, <1>2, <1>7, <3>1, <3>3, <4>1 DEF Members
    <3> QED
      BY <1>1, <3>1, <3>2, <3>3
  <2>2. tied \cap alive' = tied \cap alive
    BY <1>1, <1>2
  <2> QED
    BY <1>0, <1>1, <2>1, <2>2 DEF KillInv
<1> QED
  BY <1>3, <1>4, <1>5, <1>6 DEF IInv

\* Who leaves a group leads its own, which is not the root's.
LEMMA SetsidStep == ASSUME IInv, NEW p \in Pids, Setsid(p) PROVE IInv'
<1>0. TypeOK /\ ProcInv /\ WalkInv /\ KillInv
  BY DEF IInv
<1>1. /\ group' = [group EXCEPT ![p] = p] /\ p # Root
      /\ UNCHANGED <<watched, alive, born, parent, termed, step, walk, found, targets, tied>>
  BY <1>0 DEF Setsid, killer, ProcInv
<1>2. TypeOK'
  BY <1>0, <1>1 DEF TypeOK
<1>7. ProcInv'
  BY <1>0, <1>1 DEF ProcInv, TypeOK
<1>8. WalkInv'
  BY <1>0, <1>1 DEF WalkInv
<1>3. Members' \subseteq Members
  BY <1>0, <1>1 DEF Members, TypeOK
<1>4. KillInv'
  BY <1>0, <1>1, <1>3 DEF KillInv
<1> QED
  BY <1>2, <1>7, <1>8, <1>4 DEF IInv

\* Deaths, be they of one process or of many.
LEMMA DieFact ==
  ASSUME IInv, NEW dead \in SUBSET alive, Die(dead)
  PROVE  /\ ProcInv' /\ watched' = watched /\ born' \in Pids /\ alive' = alive \ dead /\ alive' \subseteq 1..born'
         /\ termed' \subseteq alive' /\ tied' \subseteq 1..born' /\ tied' \subseteq tied
         /\ parent' \in [Pids -> Pids \cup {Adopter}] /\ group' = group /\ group' \in [Pids -> Pids]
         /\ Members' = Members \ dead
         /\ step = "walk" => /\ tied' \subseteq TreeOf(alive', parent')
                            /\ \A c \in tied' \ {Root} : parent'[c] \in tied' /\ parent'[c] = parent[c]
<1>0. TypeOK /\ ProcInv /\ WalkInv
  BY DEF IInv
<1>1. /\ alive' = alive \ dead /\ termed' = termed \ dead /\ UNCHANGED <<watched, born, group>>
      /\ parent' = [p \in Pids |-> IF parent[p] \in dead THEN Adopter ELSE parent[p]]
      /\ tied' = IF step = "walk" THEN tied \cap TreeOf(alive', parent') ELSE tied
  BY DEF Die
<1>2. parent' \in [Pids -> Pids \cup {Adopter}] /\ alive' \in SUBSET Pids
  BY <1>0, <1>1 DEF TypeOK
<1>3. ProcInv'
  BY <1>0, <1>1 DEF TypeOK, ProcInv
<1>4. ASSUME step = "walk", NEW c \in tied' \ {Root} PROVE parent'[c] \in tied' /\ parent'[c] = parent[c]
  <2>1. c \in tied /\ c \in TreeOf(alive', parent') /\ c \in Pids
    BY <1>0, <1>1, <1>4 DEF TypeOK
  <2>2. parent'[c] \in TreeOf(alive', parent')
    BY <1>2, <1>3, <1>4, <2>1, ParentInTree DEF ProcInv
  <2>3. parent'[c] \in Pids
    BY <1>2, <2>2 DEF TreeOf
  <2>4. parent'[c] = parent[c] /\ parent[c] \in tied
    BY <1>0, <1>1, <1>4, <2>1, <2>3 DEF WalkInv
  <2> QED
    BY <1>1, <1>4, <2>2, <2>4
<1> QED
  BY <1>0, <1>1, <1>2, <1>3, <1>4 DEF TypeOK, Members

\* A process ends by itself, or of its SIGTERM.
LEMMA ExitStep == ASSUME IInv, NEW p \in Pids, Exit(p) PROVE IInv'
<1>0. TypeOK /\ ProcInv /\ WalkInv /\ KillInv
  BY DEF IInv
<1>1. {p} \in SUBSET alive /\ Die({p}) /\ UNCHANGED <<step, walk, found, targets>>
  BY DEF Exit, killer
<1>2. /\ ProcInv' /\ watched' = watched /\ born' \in Pids /\ alive' = alive \ {p} /\ alive' \subseteq 1..born'
      /\ termed' \subseteq alive' /\ tied' \subseteq 1..born' /\ tied' \subseteq tied
      /\ parent' \in [Pids -> Pids \cup {Adopter}] /\ group' \in [Pids -> Pids]
      /\ Members' = Members \ {p}
      /\ step = "walk" => /\ tied' \subseteq TreeOf(alive', parent')
                         /\ \A c \in tied' \ {Root} : parent'[c] \in tied' /\ parent'[c] = parent[c]
  BY <1>1, DieFact
<1>3. TypeOK'
  BY <1>0, <1>1, <1>2 DEF TypeOK
<1>4. WalkInv'
  BY <1>0, <1>1, <1>2 DEF WalkInv
<1>5. KillInv'
  BY <1>0, <1>1, <1>2 DEF KillInv
<1> QED
  BY <1>2, <1>3, <1>4, <1>5 DEF IInv

-----------------------------------------------------------------------------
\* The walk begins with whoever descends from the root at that moment.
LEMMA StartStep == ASSUME IInv, Start PROVE IInv'
<1>0. TypeOK /\ ProcInv /\ WalkInv
  BY DEF IInv
<1>1. /\ step = "idle" /\ step' = "walk" /\ walk' = <<Root>> /\ tied' = TreeOf(alive, parent)
      /\ UNCHANGED <<watched, alive, born, parent, group, termed, found, targets>> /\ found = <<>>
  BY <1>0 DEF Start, procs, WalkInv
<1>2. walk' \in Seq(Pids) /\ ToSet(walk') = {Root} /\ ToSet(found') = {}
  <2>1. Root \in Pids
    OBVIOUS
  <2>2. Append(<<>>, Root) = <<Root>>
    OBVIOUS
  <2> QED
    BY <1>1, <2>1, <2>2, OnEmpty, OnAppend
<1>3. tied' \subseteq alive
  BY <1>1 DEF TreeOf
<1>4. TypeOK'
  BY <1>0, <1>1, <1>2, <1>3 DEF TypeOK
<1>5. ProcInv' /\ KillInv'
  BY <1>0, <1>1 DEF ProcInv, KillInv
<1>6. WalkInv'
  <2>1. \A c \in tied' \ {Root} : parent[c] \in tied'
    <3>1. alive \in SUBSET Pids /\ parent \in [Pids -> Pids \cup {Adopter}]
      BY <1>0 DEF TypeOK
    <3> QED
      BY <1>0, <1>1, <3>1, ParentInTree DEF ProcInv
  <2> QED
    BY <1>1, <1>2, <2>1 DEF WalkInv
<1> QED
  BY <1>4, <1>5, <1>6 DEF IInv

\* One pid is asked for, and its children come on the list.
LEMMA WalkStep == ASSUME IInv, Walk PROVE IInv'
<1>0. TypeOK /\ ProcInv /\ WalkInv
  BY DEF IInv
<1>1. /\ step = "walk" /\ walk # <<>> /\ found' = Append(found, Head(walk))
      /\ UNCHANGED <<watched, alive, born, parent, group, termed, step, targets, tied>>
  BY DEF Walk, procs
<1> DEFINE h == Head(walk)
           Kids == Children(h)
<1>2. PICK kids \in Lists(Kids) : walk' = kids \o Tail(walk)
  BY DEF Walk
<1>3. h \in Pids /\ Tail(walk) \in Seq(Pids) /\ ToSet(walk) = {h} \cup ToSet(Tail(walk))
  BY <1>0, <1>1, OnHeadTail DEF TypeOK
<1>4. Kids \in SUBSET Pids
  <2>1. born \in Pids /\ alive \subseteq 1..born
    BY <1>0 DEF TypeOK
  <2>2. alive \subseteq Pids
    BY <2>1 DEF Pids
  <2> QED
    BY <2>2 DEF Children
<1>5. kids \in Seq(Pids) /\ ToSet(kids) = Kids
  BY <1>4, OnLists
<1>6. walk' \in Seq(Pids) /\ ToSet(walk') = Kids \cup ToSet(Tail(walk))
  BY <1>2, <1>3, <1>5, OnConcat
<1>7. found' \in Seq(Pids) /\ ToSet(found') = ToSet(found) \cup {h}
  BY <1>0, <1>1, <1>3, OnAppend DEF TypeOK
<1>8. TypeOK'
  BY <1>0, <1>1, <1>6, <1>7 DEF TypeOK
<1>9. ProcInv' /\ KillInv'
  BY <1>0, <1>1 DEF ProcInv, KillInv
<1>10. WalkInv'
  <2>1. tied \subseteq TreeOf(alive, parent) /\ tied \subseteq alive
    BY <1>0, <1>1 DEF WalkInv, TreeOf
  <2>2. ASSUME NEW c \in tied \ {Root}, parent[c] \in ToSet(found')
        PROVE  c \in ToSet(walk') \cup ToSet(found')
    <3>1. CASE parent[c] = h
      <4>1. c \in Kids
        BY <2>1, <2>2, <3>1 DEF Children
      <4> QED
        BY <1>6, <4>1
    <3>2. CASE parent[c] # h
      <4>1. c \in ToSet(walk) \cup ToSet(found)
        BY <1>0, <1>1, <1>7, <2>2, <3>2 DEF WalkInv
      <4> QED
        BY <1>3, <1>6, <1>7, <4>1
    <3> QED
      BY <3>1, <3>2
  <2>3. Root \in ToSet(walk') \cup ToSet(found')
    <3>1. Root \in ToSet(walk) \cup ToSet(found)
      BY <1>0, <1>1 DEF WalkInv
    <3> QED
      BY <1>3, <1>6, <1>7, <3>1
  <2> QED
    BY <1>0, <1>1, <2>1, <2>2, <2>3 DEF WalkInv
<1> QED
  BY <1>8, <1>9, <1>10 DEF IInv

\* What AllPidsToKill returns.
LEMMA AllPidsFact == TypeOK => AllPidsToKill \in Seq(Pids) /\ ToSet(AllPidsToKill) = ToSet(found)
BY OnReverse DEF TypeOK, AllPidsToKill

\* The signals: the first to the group and one by one, and what is between.
LEMMA TermStep ==
  ASSUME IInv, TermGroup \/ TermEach \/ GiveUpIfExited \/ StartGrace
  PROVE  IInv'
<1>0. TypeOK /\ ProcInv /\ WalkInv /\ KillInv
  BY DEF IInv
<1>1. ASSUME TermGroup PROVE IInv'
  <2>1. /\ step = "walk" /\ walk = <<>> /\ step' = "term" /\ targets' = AllPidsToKill
        /\ termed' = termed \cup (Members \cap alive)
        /\ UNCHANGED <<watched, alive, born, parent, group, walk, found, tied>>
    BY <1>1 DEF TermGroup, Send
  <2>2. tied \subseteq ToSet(found)
    BY <1>0, <2>1, WalkEnds
  <2>3. TypeOK'
    BY <1>0, <2>1, AllPidsFact DEF TypeOK
  <2>4. ProcInv' /\ WalkInv' /\ KillInv'
    BY <1>0, <2>1, <2>2 DEF ProcInv, WalkInv, KillInv
  <2> QED
    BY <2>3, <2>4 DEF IInv
<1>2. ASSUME TermEach PROVE IInv'
  <2>1. /\ step = "term" /\ targets # <<>> /\ targets' = Tail(targets)
        /\ termed' = termed \cup ({Head(targets)} \cap alive)
        /\ UNCHANGED <<watched, alive, born, parent, group, step, walk, found, tied>>
    BY <1>2 DEF TermEach, Send
  <2>2. targets' \in Seq(Pids)
    BY <1>0, <2>1, OnHeadTail DEF TypeOK
  <2>3. TypeOK'
    BY <1>0, <2>1, <2>2 DEF TypeOK
  <2>4. ProcInv' /\ WalkInv' /\ KillInv'
    BY <1>0, <2>1 DEF ProcInv, WalkInv, KillInv
  <2> QED
    BY <2>3, <2>4 DEF IInv
<1>3. ASSUME GiveUpIfExited \/ StartGrace PROVE IInv'
  <2>1. /\ step \in {"term", "grace"}
        /\ (step' = "grace" /\ step = "term") \/ (step' = "done" /\ watched)
        /\ UNCHANGED <<watched, alive, born, parent, group, termed, walk, found, targets, tied>>
    BY <1>3 DEF GiveUpIfExited, StartGrace, IsExited, procs
  <2>2. TypeOK' /\ ProcInv'
    BY <1>0, <2>1 DEF TypeOK, ProcInv
  <2>3. WalkInv' /\ KillInv'
    BY <1>0, <2>1 DEF WalkInv, KillInv
  <2> QED
    BY <2>2, <2>3 DEF IInv
<1> QED
  BY <1>1, <1>2, <1>3

\* ... and SIGKILL: the group at once, then whoever was found.
LEMMA KillStep == ASSUME IInv, KillGroup \/ KillEach \/ Done PROVE IInv'
<1>0. TypeOK /\ ProcInv /\ WalkInv /\ KillInv
  BY DEF IInv
<1>1. ASSUME KillGroup PROVE IInv'
  <2>1. /\ step = "grace" /\ step' = "kill" /\ targets' = AllPidsToKill /\ Die(Members \cap alive)
        /\ UNCHANGED <<walk, found>> /\ Members \cap alive \in SUBSET alive /\ Members \subseteq alive
    BY <1>1 DEF KillGroup, Send, Members
  <2>2. /\ ProcInv' /\ watched' = watched /\ born' \in Pids /\ alive' \subseteq 1..born'
        /\ termed' \subseteq alive' /\ tied' \subseteq 1..born' /\ tied' \subseteq tied
        /\ parent' \in [Pids -> Pids \cup {Adopter}] /\ group' \in [Pids -> Pids]
        /\ Members' = Members \ (Members \cap alive)
    BY <2>1, DieFact
  <2>3. TypeOK'
    BY <1>0, <2>1, <2>2, AllPidsFact DEF TypeOK
  <2>4. WalkInv'
    BY <2>1 DEF WalkInv
  <2>5. KillInv'
    <3>1. Members' = {} /\ tied' \subseteq ToSet(targets')
      BY <1>0, <2>1, <2>2, AllPidsFact DEF KillInv
    <3> QED
      BY <2>1, <3>1 DEF KillInv
  <2> QED
    BY <2>2, <2>3, <2>4, <2>5 DEF IInv
<1>2. ASSUME KillEach PROVE IInv'
  <2>1. /\ step = "kill" /\ targets # <<>> /\ targets' = Tail(targets) /\ Die({Head(targets)} \cap alive)
        /\ UNCHANGED <<step, walk, found>> /\ {Head(targets)} \cap alive \in SUBSET alive
    BY <1>2 DEF KillEach, Send
  <2>2. /\ ProcInv' /\ watched' = watched /\ born' \in Pids /\ alive' \subseteq 1..born'
        /\ alive' = alive \ ({Head(targets)} \cap alive)
        /\ termed' \subseteq alive' /\ tied' \subseteq 1..born' /\ tied' \subseteq tied
        /\ parent' \in [Pids -> Pids \cup {Adopter}] /\ group' \in [Pids -> Pids]
        /\ Members' \subseteq Members
    BY <2>1, DieFact
  <2>3. targets' \in Seq(Pids) /\ ToSet(targets) = {Head(targets)} \cup ToSet(targets')
    BY <1>0, <2>1, OnHeadTail DEF TypeOK
  <2>4. TypeOK'
    BY <1>0, <2>1, <2>2, <2>3 DEF TypeOK
  <2>5. WalkInv'
    BY <2>1 DEF WalkInv
  <2>6. KillInv'
    BY <1>0, <2>1, <2>2, <2>3 DEF KillInv
  <2> QED
    BY <2>2, <2>4, <2>5, <2>6 DEF IInv
<1>3. ASSUME Done PROVE IInv'
  <2>1. /\ step = "kill" /\ targets = <<>> /\ step' = "done"
        /\ UNCHANGED <<watched, alive, born, parent, group, termed, walk, found, targets, tied>>
    BY <1>3 DEF Done, procs
  <2>2. TypeOK' /\ ProcInv' /\ WalkInv'
    BY <1>0, <2>1 DEF TypeOK, ProcInv, WalkInv
  <2>3. KillInv'
    BY <1>0, <2>1, OnEmpty DEF KillInv, Members
  <2> QED
    BY <2>2, <2>3 DEF IInv
<1> QED
  BY <1>1, <1>2, <1>3

-----------------------------------------------------------------------------
\* Every step keeps the invariant.
LEMMA StepIInv == IInv /\ [Next]_vars => IInv'
<1>1. ASSUME IInv, UNCHANGED vars PROVE IInv'
  <2>1. UNCHANGED <<watched, alive, born, parent, group, termed, step, walk, found, targets, tied>>
    BY <1>1 DEF vars, procs, killer
  <2>2. TypeOK' /\ ProcInv'
    BY <1>1, <2>1 DEF IInv, TypeOK, ProcInv
  <2>3. WalkInv' /\ KillInv'
    BY <1>1, <2>1 DEF IInv, WalkInv, KillInv, Members
  <2> QED
    BY <2>2, <2>3 DEF IInv
<1> QED
  BY <1>1, ForkStep, SetsidStep, ExitStep, StartStep, WalkStep, TermStep, KillStep DEF Next

\* IInv holds in every state that processes and killer reach.
THEOREM Invariance == Spec => []IInv
BY InitIInv, StepIInv, PTL DEF Spec

\* Of a stopped job only escapees are left, however it forks and exits meanwhile.
THEOREM OnlyEscapeesAreLeft == Spec => []OnlyEscapeesSurvive
<1>1. IInv => OnlyEscapeesSurvive
  BY DEF IInv, KillInv, OnlyEscapeesSurvive, Members
<1> QED
  BY <1>1, Invariance, PTL
=============================================================================
