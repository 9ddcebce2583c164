--------------------------- MODULE BaseListProofs ---------------------------
(***************************************************************************)
(* Proofs about the list of bases that BaseLookup walks without a lock,    *)
(* for any number of threads, bases and rounds of the sorter.              *)
(*                                                                         *)
(* A walk may stand on a base that was unlinked, or closed, long ago, and  *)
(* goes on with the prev pointer it finds there.  Why that never leads it  *)
(* past the key: bases are ordered by bctl->index; a merged base inherits  *)
(* the index of the first of its group, so a key only ever moves in the    *)
(* direction of the walk; and no prev pointer, be it of a listed or of a   *)
(* forgotten base, skips a listed one, unless it leads to a base that is   *)
(* closed, or will be before anybody can hold it, where the walk starts    *)
(* again (NoSkip).                                                         *)
(*                                                                         *)
(* A lookup never searches a closed base, for any number of threads, bases *)
(* and rounds.  The argument is the protocol of critness: it counts the    *)
(* lookups inside the base, a base is locked by the sorter only when the   *)
(* count is zero, nobody enters a locked base, and only bases whose lock   *)
(* the sorter keeps are closed.                                            *)
(***************************************************************************)
EXTENDS BaseLookup, FiniteSetTheorems, SequenceTheorems, TLAPS

Inside == {"check", "search", "again", "skip", "found"}

(* The lookups between eblob_bctl_hold and eblob_bctl_release of base b.   *)
Users(b) == {t \in Threads : at[t] = b /\ pc[t] \in Inside}

(* What the argument needs of the types.                                   *)
Shape ==
    /\ bases \in Seq(Bases) /\ born \in FirstBases .. MaxBases
    /\ critness \in [Bases -> Nat]
    /\ locked \in SUBSET Bases
    /\ pc \in [Threads -> Pcs] /\ at \in [Threads -> Nodes]
    /\ group \in Seq(Bases)
    /\ phase \in {"idle", "lock", "swap", "link", "unlink", "close"}
    /\ phase = "lock" => todo \in Seq(Bases) /\ todo # <<>>

(* A thread about to enter a base, or inside it, is at one.                *)
AtBase == \A t \in Threads : pc[t] \in Inside \cup {"enter"} => at[t] \in Bases

(* critness is exact.                                                      *)
Counted == \A b \in Bases : critness[b] = Cardinality(Users(b))

(* The sorter keeps the lock of no base that is in use.                    *)
LockedUnused == \A b \in locked : critness[b] = 0

(* It keeps the locks of its group, but for those it still has to take.    *)
GroupLocked ==
    /\ phase = "lock" => Range(group) \subseteq locked \cup Range(todo)
    /\ phase \in {"swap", "link", "unlink", "close"} => Range(group) \subseteq locked

IInv == Shape /\ AtBase /\ Counted /\ LockedUnused /\ GroupLocked /\ HeldOpen

-----------------------------------------------------------------------------
(* The users of a base are finitely many. *)
LEMMA UsersFinite == \A b : IsFiniteSet(Users(b))
  BY ThreadsAssumption, FS_Subset DEF Users

(* A base that nobody is counted in has nobody inside. *)
LEMMA NoUsers ==
  ASSUME Counted, NEW b \in Bases, critness[b] = 0
  PROVE  \A t \in Threads : pc[t] \in Inside => at[t] # b
<1>1. Cardinality(Users(b)) = 0
  BY DEF Counted
<1>2. Users(b) = {}
  BY <1>1, UsersFinite, FS_EmptySet
<1> QED
  BY <1>2 DEF Users

(* No thread enters or leaves a base. *)
NobodyMoves ==
    \A t \in Threads :
        \/ pc[t] \notin Inside /\ pc'[t] \notin Inside
        \/ pc[t] \in Inside /\ pc'[t] \in Inside /\ at'[t] = at[t]

(* Such a step keeps the count. *)
LEMMA SameUsers ==
  ASSUME Counted, critness' = critness, NobodyMoves
  PROVE  Counted'
<1>1. \A b : Users(b)' = Users(b)
  BY DEF Users, NobodyMoves
<1> QED
  BY <1>1 DEF Counted

(* A step of the sorter is no step of a lookup. *)
LEMMA SorterMovesNobody ==
  ASSUME UNCHANGED walk
  PROVE  NobodyMoves
  BY DEF NobodyMoves, walk

(* Removing an element of a sequence leaves a sequence. *)
LEMMA RemoveAtType ==
  ASSUME NEW S, NEW s \in Seq(S), NEW i \in DOMAIN s
  PROVE  RemoveAt(s, i) \in Seq(S)
<1>1. i \in 1 .. Len(s) /\ Len(s) \in Nat /\ \A j \in 1 .. Len(s) : s[j] \in S
  OBVIOUS
<1>2. SubSeq(s, 1, i - 1) \in Seq(S)
  BY <1>1, SubSeqProperties
<1>3. SubSeq(s, i + 1, Len(s)) \in Seq(S)
  BY <1>1, SubSeqProperties
<1> QED
  BY <1>2, <1>3 DEF RemoveAt

(* The bases before the last are bases. *)
LEMMA OldAreBases ==
  ASSUME bases \in Seq(Bases)
  PROVE  Old \subseteq Bases
<1>1. Len(bases) \in Nat /\ \A j \in 1 .. Len(bases) : bases[j] \in Bases
  OBVIOUS
<1>2. Front(bases) \in Seq(Bases)
  BY <1>1, SubSeqProperties DEF Front
<1>3. \A i \in DOMAIN Front(bases) : Front(bases)[i] \in Bases
  BY <1>2
<1> QED
  BY <1>3 DEF Old, Range

(* Unlinking a base keeps the type of the list. *)
LEMMA UnlinkType ==
  ASSUME bases \in Seq(Bases), NEW b, Unlink(b)
  PROVE  bases' \in Seq(Bases)
  BY RemoveAtType DEF Unlink

-----------------------------------------------------------------------------
(* Return leaves a base only if the caller was inside one; the lemmas      *)
(* below say what each action does to the invariant.                       *)

(* The lookup in the hash begins a walk or ends at once. *)
LEMMA LookupKeeps ==
  ASSUME IInv, NEW t \in Threads, NEW own \in BOOLEAN, Lookup(t, own)
  PROVE  IInv'
<1> USE DEF IInv
<1>1. pc' \in [Threads -> Pcs] /\ at' \in [Threads -> Nodes]
      /\ pc[t] = "idle" /\ pc'[t] \in {"idle", "step"}
      /\ \A u \in Threads \ {t} : pc'[u] = pc[u] /\ at'[u] = at[u]
  BY DEF Lookup, Return, Shape, Pcs, Nodes
<1>2. UNCHANGED <<list, record, critness, locked, sorter>>
  BY DEF Lookup
<1>3. Shape'
  BY <1>1, <1>2 DEF Shape, list, sorter
<1>4. AtBase'
  BY <1>1, <1>2 DEF AtBase, Inside
<1>5. Counted'
  <2>1. NobodyMoves
    BY <1>1 DEF NobodyMoves, Inside
  <2> QED
    BY <1>2, <2>1, SameUsers
<1>6. HeldOpen'
  BY <1>1, <1>2 DEF HeldOpen, record
<1> QED
  BY <1>2, <1>3, <1>4, <1>5, <1>6 DEF LockedUnused, GroupLocked, sorter

(* One step along the prev pointers. *)
LEMMA StepKeeps ==
  ASSUME IInv, NEW t \in Threads, Step(t)
  PROVE  IInv'
<1> USE DEF IInv
<1>1. /\ pc' \in [Threads -> Pcs] /\ at' \in [Threads -> Nodes]
      /\ pc[t] = "step" /\ pc'[t] \in {"idle", "step", "enter"}
      /\ pc'[t] = "enter" => at'[t] \in Bases
      /\ \A u \in Threads \ {t} : pc'[u] = pc[u] /\ at'[u] = at[u]
  BY DEF Step, Return, Shape, Pcs, Nodes, walk
<1>2. UNCHANGED <<list, record, critness, locked, sorter>>
  BY DEF Step
<1>3. Shape'
  BY <1>1, <1>2 DEF Shape, list, sorter
<1>4. AtBase'
  BY <1>1, <1>2 DEF AtBase, Inside
<1>5. Counted'
  <2>1. NobodyMoves
    BY <1>1 DEF NobodyMoves, Inside
  <2> QED
    BY <1>2, <2>1, SameUsers
<1>6. HeldOpen'
  BY <1>1, <1>2 DEF HeldOpen, record
<1> QED
  BY <1>2, <1>3, <1>4, <1>5, <1>6 DEF LockedUnused, GroupLocked, sorter

(* eblob_bctl_hold: one more user, of a base the sorter does not keep. *)
LEMMA HoldKeeps ==
  ASSUME IInv, NEW t \in Threads, Hold(t)
  PROVE  IInv'
<1> USE DEF IInv
<1>1. /\ pc[t] = "enter" /\ at[t] \in Bases /\ at[t] \notin locked
      /\ pc' = [pc EXCEPT ![t] = "check"] /\ at' = at
      /\ critness' = [critness EXCEPT ![at[t]] = @ + 1]
  BY DEF Hold, AtBase
<1>2. UNCHANGED <<list, record, locked, sorter>>
  BY DEF Hold
<1>3. Shape'
  BY <1>1, <1>2 DEF Shape, list, sorter, Pcs
<1>4. AtBase'
  BY <1>1 DEF AtBase, Inside, Shape
<1>5. Counted'
  <2> SUFFICES ASSUME NEW b \in Bases
               PROVE  critness'[b] = Cardinality(Users(b)')
    BY DEF Counted
  <2>1. CASE b = at[t]
    <3>1. Users(b)' = Users(b) \cup {t} /\ t \notin Users(b)
      BY <1>1, <2>1 DEF Users, Shape, Inside
    <3>2. Cardinality(Users(b)') = Cardinality(Users(b)) + 1
      BY <3>1, UsersFinite, FS_AddElement
    <3> QED
      BY <1>1, <2>1, <3>2 DEF Counted, Shape
  <2>2. CASE b # at[t]
    <3>1. Users(b)' = Users(b)
      BY <1>1, <2>2 DEF Users, Shape, Inside
    <3> QED
      BY <1>1, <2>2, <3>1 DEF Counted, Shape
  <2> QED
    BY <2>1, <2>2
<1>6. LockedUnused'
  BY <1>1, <1>2 DEF LockedUnused, Shape
<1>7. HeldOpen'
  BY <1>1, <1>2 DEF HeldOpen, record, Shape
<1> QED
  BY <1>2, <1>3, <1>4, <1>5, <1>6, <1>7 DEF GroupLocked, sorter

(* The check of index_fd admits only an open base to the search. *)
LEMMA CheckKeeps ==
  ASSUME IInv, NEW t \in Threads, Check(t) \/ Search(t)
  PROVE  IInv'
<1> USE DEF IInv
<1>1. /\ pc' \in [Threads -> Pcs] /\ at' = at
      /\ pc[t] \in Inside /\ pc'[t] \in Inside
      /\ pc'[t] = "search" => at[t] \in open
      /\ \A u \in Threads \ {t} : pc'[u] = pc[u]
  BY DEF Check, CheckOf, Search, Shape, Pcs, Inside
<1>2. UNCHANGED <<list, record, critness, locked, sorter>>
  BY DEF Check, Search
<1>3. Shape'
  BY <1>1, <1>2 DEF Shape, list, sorter
<1>4. AtBase'
  BY <1>1 DEF AtBase, Inside
<1>5. Counted'
  <2>1. NobodyMoves
    BY <1>1 DEF NobodyMoves
  <2> QED
    BY <1>2, <2>1, SameUsers
<1>6. HeldOpen'
  BY <1>1, <1>2 DEF HeldOpen, record
<1> QED
  BY <1>2, <1>3, <1>4, <1>5, <1>6 DEF LockedUnused, GroupLocked, sorter

(* eblob_bctl_release: one user less. *)
LEMMA ReleaseKeeps ==
  ASSUME IInv, NEW t \in Threads, Release(t)
  PROVE  IInv'
<1> USE DEF IInv
<1>1. /\ pc[t] \in {"again", "skip", "found"}
      /\ pc' \in [Threads -> Pcs] /\ at' \in [Threads -> Nodes]
      /\ pc'[t] \in {"idle", "step"}
      /\ \A u \in Threads \ {t} : pc'[u] = pc[u] /\ at'[u] = at[u]
      /\ critness' = [critness EXCEPT ![at[t]] = @ - 1]
      /\ at[t] \notin locked
  BY DEF Release, Return, Shape, Pcs, Nodes
<1>2. UNCHANGED <<list, record, locked, job, phase, group, todo>>
  BY DEF Release
<1>3. at[t] \in Bases /\ t \in Users(at[t])
  BY <1>1 DEF AtBase, Users, Inside
<1>4. ASSUME NEW b \in Bases
      PROVE  critness'[b] = Cardinality(Users(b)') /\ critness'[b] \in Nat
  <2>1. Cardinality(Users(b)') \in Nat
    <3>1. IsFiniteSet(Users(b)')
      BY ThreadsAssumption, FS_Subset DEF Users
    <3> QED
      BY <3>1, FS_CardinalityType
  <2>2. CASE b = at[t]
    <3>1. Users(b)' = Users(b) \ {t}
      BY <1>1, <2>2 DEF Users, Shape, Inside
    <3>2. Cardinality(Users(b)') = Cardinality(Users(b)) - 1
      BY <1>3, <2>2, <3>1, UsersFinite, FS_RemoveElement
    <3> QED
      BY <1>1, <2>1, <2>2, <3>2 DEF Counted, Shape
  <2>3. CASE b # at[t]
    <3>1. Users(b)' = Users(b)
      BY <1>1, <2>3 DEF Users, Shape, Inside
    <3> QED
      BY <1>1, <2>1, <2>3, <3>1 DEF Counted, Shape
  <2> QED
    BY <2>2, <2>3
<1>5. critness' \in [Bases -> Nat]
  BY <1>1, <1>4 DEF Shape
<1>6. Shape'
  BY <1>1, <1>2, <1>5 DEF Shape, list
<1>7. AtBase'
  BY <1>1 DEF AtBase, Inside
<1>8. Counted'
  BY <1>4 DEF Counted
<1>9. LockedUnused'
  BY <1>1, <1>2 DEF LockedUnused, Shape
<1>10. HeldOpen'
  BY <1>1, <1>2 DEF HeldOpen, record
<1> QED
  BY <1>2, <1>6, <1>7, <1>8, <1>9, <1>10 DEF GroupLocked

(* Writers add a base and touch no other. *)
LEMMA WriterKeeps ==
  ASSUME IInv, Rewrite \/ \E t \in Threads : AddBase(t) \/ LinkBase(t)
  PROVE  IInv'
<1> USE DEF IInv
<1>1. /\ UNCHANGED <<critness, locked, at, sorter>>
      /\ open \subseteq open'
      /\ bases' \in Seq(Bases) /\ born' \in FirstBases .. MaxBases
      /\ pc' \in [Threads -> Pcs]
      /\ \A u \in Threads : \/ pc'[u] = pc[u]
                            \/ pc[u] \in {"idle", "add"} /\ pc'[u] \in {"idle", "add"}
  <2>1. CASE Rewrite
    BY <2>1 DEF Rewrite, Shape, list, walk
  <2>2. ASSUME NEW t \in Threads, AddBase(t)
        PROVE  <1>1!:
    BY <2>2, BasesAssumption DEF AddBase, Shape, Pcs
  <2>3. ASSUME NEW t \in Threads, LinkBase(t)
        PROVE  <1>1!:
    BY <2>3, BasesAssumption DEF LinkBase, Shape, Pcs, Bases, record
  <2> QED
    BY <2>1, <2>2, <2>3
<1>3. Shape'
  BY <1>1 DEF Shape, sorter
<1>4. AtBase'
  BY <1>1 DEF AtBase, Inside
<1>5. Counted'
  <2>1. NobodyMoves
    BY <1>1 DEF NobodyMoves, Inside
  <2> QED
    BY <1>1, <2>1, SameUsers
<1>6. HeldOpen'
  BY <1>1 DEF HeldOpen
<1> QED
  BY <1>1, <1>3, <1>4, <1>5, <1>6 DEF LockedUnused, GroupLocked, sorter

(* The sorter takes b->lock; it has a group to lock. *)
LEMMA StartKeeps ==
  ASSUME IInv, StartMerge \/ StartIndexsort \/ StartRemove
  PROVE  IInv'
<1> USE DEF IInv
<1>1. bases' \in Seq(Bases) /\ born' = born
  BY UnlinkType DEF StartMerge, StartIndexsort, StartRemove, list, Shape
<1>2. PICK j, g : Start(j, g) /\ g \in Seq(Bases) /\ g # <<>>
  <2>1. CASE StartMerge
    <3>1. PICK n \in 1 .. Len(bases) - 1 : \E g \in [1 .. n -> Old] : Start("merge", g)
      BY <2>1 DEF StartMerge
    <3>2. PICK g \in [1 .. n -> Old] : Start("merge", g)
      BY <3>1
    <3>3. n \in Nat /\ n >= 1
      BY DEF Shape
    <3>4. g \in [1 .. n -> Bases]
      BY <3>2, OldAreBases DEF Shape
    <3>5. g \in Seq(Bases) /\ Len(g) = n
      BY <3>3, <3>4
    <3> QED
      BY <3>2, <3>3, <3>5
  <2>2. CASE StartIndexsort
    <3>1. PICK b \in Old : Start("indexsort", <<b>>)
      BY <2>2 DEF StartIndexsort
    <3>2. b \in Bases
      BY OldAreBases DEF Shape
    <3>3. <<b>> \in Seq(Bases) /\ <<b>> # <<>>
      BY <3>2
    <3> QED
      BY <3>1, <3>3
  <2>3. CASE StartRemove
    <3>1. PICK b \in Old : Start("remove", <<b>>)
      BY <2>3 DEF StartRemove
    <3>2. b \in Bases
      BY OldAreBases DEF Shape
    <3>3. <<b>> \in Seq(Bases) /\ <<b>> # <<>>
      BY <3>2
    <3> QED
      BY <3>1, <3>3
  <2> QED
    BY <2>1, <2>2, <2>3
<1>3. phase' = "lock" /\ group' = g /\ todo' = g
      /\ UNCHANGED <<record, critness, locked, walk>>
  BY <1>2 DEF Start
<1>4. Shape'
  BY <1>1, <1>2, <1>3 DEF Shape, walk
<1>5. AtBase'
  BY <1>3 DEF AtBase, walk
<1>6. Counted'
  BY <1>3, SameUsers, SorterMovesNobody
<1>7. HeldOpen'
  BY <1>3 DEF HeldOpen, walk, record
<1> QED
  BY <1>3, <1>4, <1>5, <1>6, <1>7 DEF LockedUnused, GroupLocked

(* eblob_base_wait_locked: the lock of an unused base is kept. *)
LEMMA WaitLockedKeeps ==
  ASSUME IInv, WaitLocked
  PROVE  IInv'
<1> USE DEF IInv
<1>1. phase = "lock" /\ todo \in Seq(Bases) /\ todo # <<>>
      /\ UNCHANGED <<list, record, critness, walk, group>>
  BY DEF WaitLocked, Shape
<1>2. AtBase' /\ HeldOpen'
  BY <1>1 DEF AtBase, HeldOpen, walk, record
<1>3. Counted'
  BY <1>1, SameUsers, SorterMovesNobody
<1>4. CASE UNCHANGED <<locked, todo, phase>>
  BY <1>1, <1>2, <1>3, <1>4 DEF Shape, LockedUnused, GroupLocked, walk, list
<1>5. CASE /\ critness[Head(todo)] = 0
           /\ locked' = locked \cup {Head(todo)}
           /\ todo' = Tail(todo)
           /\ phase' = IF Len(todo) = 1 THEN "swap" ELSE "lock"
  <2>1. Head(todo) \in Bases /\ Tail(todo) \in Seq(Bases)
        /\ (Len(todo) # 1 => Tail(todo) # <<>>)
    <3>1. Head(todo) \in Bases /\ Tail(todo) \in Seq(Bases)
      BY <1>1, HeadTailProperties
    <3>2. Len(Tail(todo)) = Len(todo) - 1 /\ Len(todo) \in Nat
      BY <1>1
    <3>3. Len(todo) # 1 => Len(Tail(todo)) # 0
      BY <3>2
    <3> QED
      BY <3>1, <3>3, EmptySeq
  <2>2. Shape'
    BY <1>1, <1>5, <2>1 DEF Shape, walk, list
  <2>3. LockedUnused'
    BY <1>1, <1>5 DEF LockedUnused
  <2>4. Range(todo) \subseteq {Head(todo)} \cup Range(Tail(todo))
    <3> SUFFICES ASSUME NEW i \in DOMAIN todo
                 PROVE  todo[i] = Head(todo) \/ \E j \in DOMAIN Tail(todo) : todo[i] = Tail(todo)[j]
      BY DEF Range
    <3>1. CASE i = 1
      BY <1>1, <3>1
    <3>2. CASE i # 1
      <4>1. i - 1 \in DOMAIN Tail(todo) /\ todo[i] = Tail(todo)[i - 1]
        BY <1>1, <3>2
      <4> QED
        BY <4>1
    <3> QED
      BY <3>1, <3>2
  <2>5. Len(todo) = 1 => Range(todo) = {Head(todo)}
    BY <1>1 DEF Range
  <2>6. GroupLocked'
    BY <1>1, <1>5, <2>4, <2>5 DEF GroupLocked
  <2> QED
    BY <1>2, <1>3, <2>2, <2>3, <2>6
<1> QED
  BY <1>4, <1>5 DEF WaitLocked, Unused

(* Closing a group closes no base a lookup is in; all locks are released. *)
LEMMA FinishKeeps ==
  ASSUME IInv, GiveUp \/ IndexsortSwap \/ Close
  PROVE  IInv'
<1> USE DEF IInv
<1>1. Finish /\ UNCHANGED list
  BY DEF GiveUp, IndexsortSwap, Close
<1>2. phase' = "idle" /\ group' = <<>> /\ locked' = {} /\ UNCHANGED <<critness, walk>>
  BY <1>1 DEF Finish
<1>3. Shape' /\ AtBase'
  BY <1>1, <1>2 DEF Shape, AtBase, walk, list
<1>4. Counted'
  BY <1>2, SameUsers, SorterMovesNobody
<1>5. LockedUnused' /\ GroupLocked'
  BY <1>2 DEF LockedUnused, GroupLocked
<1>6. HeldOpen'
  <2>1. CASE GiveUp \/ IndexsortSwap
    BY <1>2, <2>1 DEF GiveUp, IndexsortSwap, HeldOpen, walk, record
  <2>2. CASE Close
    <3>1. Range(group) \subseteq locked /\ open' = open \ Range(group)
      BY <2>2 DEF Close, GroupLocked
    <3>2. \A b \in locked : b \in Bases /\ critness[b] = 0
      BY DEF LockedUnused, Shape
    <3>3. \A t \in Threads : pc[t] \in Inside => at[t] \notin Range(group)
      BY <3>1, <3>2, NoUsers
    <3> QED
      BY <1>2, <3>1, <3>3 DEF HeldOpen, walk, Inside
  <2> QED
    BY <2>1, <2>2
<1> QED
  BY <1>3, <1>4, <1>5, <1>6

(* The list operations of a merge open a base and close none. *)
LEMMA MergeKeeps ==
  ASSUME IInv, SwapMemory \/ LinkMerged \/ UnlinkMerged
  PROVE  IInv'
<1> USE DEF IInv
<1>1. /\ UNCHANGED <<critness, locked, walk, group>>
      /\ phase \in {"swap", "link", "unlink"} /\ phase' \in {"link", "unlink", "close"}
      /\ open \subseteq open'
  BY DEF SwapMemory, LinkMerged, UnlinkMerged, record
<1>2. born' \in FirstBases .. MaxBases
  BY BasesAssumption DEF SwapMemory, LinkMerged, UnlinkMerged, Shape
<1>3. bases' \in Seq(Bases)
  <2>1. CASE SwapMemory
    BY <2>1 DEF SwapMemory, Shape
  <2>2. CASE LinkMerged
    <3>1. born \in Bases
      BY BasesAssumption DEF Shape, Bases
    <3> QED
      BY <2>2, <3>1 DEF LinkMerged, ReplaceAll, Shape
  <2>3. CASE UnlinkMerged
    BY <2>3, UnlinkType DEF UnlinkMerged, Shape
  <2> QED
    BY <2>1, <2>2, <2>3
<1>4. Shape' /\ AtBase'
  BY <1>1, <1>2, <1>3 DEF Shape, AtBase, walk
<1>5. Counted'
  BY <1>1, SameUsers, SorterMovesNobody
<1>6. LockedUnused' /\ GroupLocked' /\ HeldOpen'
  BY <1>1 DEF LockedUnused, GroupLocked, HeldOpen, walk
<1> QED
  BY <1>4, <1>5, <1>6

-----------------------------------------------------------------------------
(* In the beginning nobody is anywhere. *)
LEMMA InitHolds == Init => IInv
<1> SUFFICES ASSUME Init PROVE IInv
  OBVIOUS
<1>1. Shape
  BY BasesAssumption DEF Init, Shape, Pcs, Nodes, Bases
<1>2. AtBase /\ LockedUnused /\ GroupLocked /\ HeldOpen
  BY DEF Init, AtBase, LockedUnused, GroupLocked, HeldOpen, Inside
<1>3. \A b \in Bases : Users(b) = {}
  BY DEF Init, Users, Inside
<1>4. Counted
  BY <1>3, FS_EmptySet DEF Init, Counted
<1> QED
  BY <1>1, <1>2, <1>4 DEF IInv

(* Every step keeps the invariant. *)
LEMMA NextKeeps == IInv /\ [Next]_vars => IInv'
<1> SUFFICES ASSUME IInv, [Next]_vars PROVE IInv'
  OBVIOUS
<1>1. ASSUME NEW t \in Threads, Walk(t) \/ AddBase(t) PROVE IInv'
  BY <1>1, StepKeeps, HoldKeeps, CheckKeeps, ReleaseKeeps, WriterKeeps DEF Walk
<1>2. ASSUME NEW t \in Threads, NEW own \in BOOLEAN, Lookup(t, own) PROVE IInv'
  BY <1>2, LookupKeeps
<1>3. CASE Rewrite
  BY <1>3, WriterKeeps
<1>4. CASE StartMerge \/ StartIndexsort \/ StartRemove
  BY <1>4, StartKeeps
<1>5. CASE Sort
  BY <1>5, WaitLockedKeeps, FinishKeeps, MergeKeeps DEF Sort
<1>6. CASE UNCHANGED vars
  <2>1. Counted'
    BY <1>6, SameUsers, SorterMovesNobody DEF IInv, vars
  <2> QED
    BY <1>6, <2>1 DEF IInv, Shape, AtBase, LockedUnused, GroupLocked, HeldOpen,
       vars, list, record, walk, sorter
<1> QED
  BY <1>1, <1>2, <1>3, <1>4, <1>5, <1>6 DEF Next

(* IInv, which says that critness is exact and that the sorter keeps the   *)
(* lock of no base in use, is an invariant of the specification.           *)
THEOREM CritnessInvariant == Spec => []IInv
  BY InitHolds, NextKeeps, PTL DEF Spec

(* A lookup never searches the index of a closed base: what the wait for   *)
(* critness in eblob_base_wait_locked is for.                              *)
THEOREM SearchesOpenBases == Spec => []HeldOpen
<1>1. IInv => HeldOpen
  BY DEF IInv
<1> QED
  BY <1>1, CritnessInvariant, PTL


-----------------------------------------------------------------------------
(* Sequences of bases, in the order of their places f, and prev pointers p  *)

Ascending(s, f) == \A i, j \in DOMAIN s : i < j => f[s[i]] < f[s[j]]

(* The i-th base of s and, one further, the head; and what comes before.   *)
Node(s, i) == IF i = Len(s) + 1 THEN Root ELSE s[i]
Pred(s, i) == IF i = 1 THEN Root ELSE s[i - 1]

Linked(s, p) == \A i \in 1 .. Len(s) + 1 : p[Node(s, i)] = Pred(s, i)

(* In a list in order no base is there twice.                              *)
LEMMA AscendingDiffer ==
  ASSUME NEW s \in Seq(Bases), NEW f \in [Bases -> Nat], Ascending(s, f)
  PROVE  /\ \A i, j \in DOMAIN s : s[i] = s[j] => i = j
         /\ \A i, j \in DOMAIN s : f[s[i]] <= f[s[j]] => i <= j
<1>1. \A i \in DOMAIN s : i \in Nat /\ s[i] \in Bases /\ f[s[i]] \in Nat
  OBVIOUS
<1>2. ASSUME NEW i \in DOMAIN s, NEW j \in DOMAIN s, f[s[i]] <= f[s[j]], ~(i <= j)
      PROVE  FALSE
  <2>1. f[s[j]] < f[s[i]]
    BY <1>1, <1>2 DEF Ascending
  <2> QED
    BY <1>1, <1>2, <2>1
<1>3. ASSUME NEW i \in DOMAIN s, NEW j \in DOMAIN s, s[i] = s[j]
      PROVE  i = j
  <2>1. i <= j /\ j <= i
    BY <1>1, <1>2, <1>3
  <2> QED
    BY <1>1, <2>1
<1> QED
  BY <1>2, <1>3

(* r is s without its i-th of n elements.                                   *)
Without(r, s, n, i) ==
    /\ DOMAIN s = 1 .. n /\ DOMAIN r = 1 .. n - 1
    /\ \A j \in 1 .. n - 1 : j < i => r[j] = s[j]
    /\ \A j \in 1 .. n - 1 : ~(j < i) => r[j] = s[j + 1]

(* What __list_del leaves.                                                 *)
LEMMA RemoveAtFacts ==
  ASSUME NEW s \in Seq(Bases), NEW i \in 1 .. Len(s), NEW r, r = RemoveAt(s, i)
  PROVE  /\ r \in Seq(Bases) /\ Len(r) = Len(s) - 1
         /\ Without(r, s, Len(s), i)
         /\ i < Len(s) => r # <<>> /\ Last(r) = Last(s)
<1> DEFINE a == SubSeq(s, 1, i - 1)
           c == SubSeq(s, i + 1, Len(s))
<1>1. Len(s) \in Nat /\ \A j \in 1 .. Len(s) : s[j] \in Bases
  OBVIOUS
<1>2. /\ a \in Seq(Bases) /\ Len(a) = i - 1
      /\ \A j \in 1 .. i - 1 : a[j] = s[j]
  BY <1>1, SubSeqProperties
<1>3. /\ c \in Seq(Bases) /\ Len(c) = Len(s) - i
      /\ \A j \in 1 .. Len(s) - i : c[j] = s[i + j]
  BY <1>1, SubSeqProperties
<1>4. r = a \o c
  BY DEF RemoveAt
<1> HIDE DEF a, c
<1>5. /\ r \in Seq(Bases) /\ Len(r) = Len(a) + Len(c)
      /\ \A j \in 1 .. Len(a) + Len(c) : r[j] = IF j <= Len(a) THEN a[j] ELSE c[j - Len(a)]
  <2>1. a \in Seq(Bases) /\ c \in Seq(Bases)
    BY <1>2, <1>3
  <2> QED
    BY <1>4, <2>1, ConcatProperties, Zenon
<1>6. Len(r) = Len(s) - 1
  BY <1>1, <1>2, <1>3, <1>5
<1>7. ASSUME NEW j \in 1 .. Len(s) - 1
      PROVE  /\ j < i => r[j] = s[j]
             /\ ~(j < i) => r[j] = s[j + 1]
  <2>1. CASE j < i
    <3>1. j \in 1 .. Len(a) + Len(c) /\ j <= Len(a) /\ j \in 1 .. i - 1
      BY <1>1, <1>2, <1>3, <2>1
    <3>2. r[j] = a[j]
      BY <1>5, <3>1
    <3> QED
      BY <1>2, <2>1, <3>1, <3>2
  <2>2. CASE ~(j < i)
    <3>1. j - Len(a) \in 1 .. Len(s) - i /\ i + (j - Len(a)) = j + 1 /\ ~(j <= Len(a))
      BY <1>1, <1>2, <2>2
    <3>2. j \in 1 .. Len(a) + Len(c)
      BY <1>1, <1>2, <1>3
    <3>3. r[j] = c[j - Len(a)]
      BY <1>5, <3>1, <3>2
    <3> QED
      BY <1>3, <2>2, <3>1, <3>3
  <2> QED
    BY <2>1, <2>2
<1>8. Without(r, s, Len(s), i)
  BY <1>5, <1>6, <1>7 DEF Without
<1>9. i < Len(s) => r # <<>> /\ Last(r) = Last(s)
  <2> SUFFICES ASSUME i < Len(s) PROVE r # <<>> /\ Last(r) = Last(s)
    OBVIOUS
  <2>1. Len(s) - 1 \in 1 .. Len(s) - 1 /\ ~(Len(s) - 1 < i) /\ (Len(s) - 1) + 1 = Len(s)
    BY <1>1
  <2>2. r[Len(s) - 1] = s[Len(s)]
    BY <1>7, <2>1
  <2>3. Len(r) # 0
    BY <1>6, <2>1
  <2> QED
    BY <1>5, <1>6, <2>2, <2>3, EmptySeq DEF Last
<1> QED
  BY <1>5, <1>6, <1>8, <1>9

(* The order stays, and just one base leaves.                              *)
LEMMA WithoutOrder ==
  ASSUME NEW n \in Nat, NEW i \in 1 .. n, NEW s, NEW r, Without(r, s, n, i),
         NEW f, Ascending(s, f), \A j, k \in DOMAIN s : s[j] = s[k] => j = k
  PROVE  Ascending(r, f) /\ Range(r) = Range(s) \ {s[i]}
<1> USE DEF Without
<1>1. Ascending(r, f)
  <2> SUFFICES ASSUME NEW j \in DOMAIN r, NEW k \in DOMAIN r, j < k
               PROVE  f[r[j]] < f[r[k]]
    BY DEF Ascending
  <2>1. PICK jj \in DOMAIN s : r[j] = s[jj] /\ jj = IF j < i THEN j ELSE j + 1
    OBVIOUS
  <2>2. PICK kk \in DOMAIN s : r[k] = s[kk] /\ kk = IF k < i THEN k ELSE k + 1
    OBVIOUS
  <2>3. jj < kk
    BY <2>1, <2>2
  <2> QED
    BY <2>1, <2>2, <2>3 DEF Ascending
<1>2. ASSUME NEW x \in Range(r) PROVE x \in Range(s) \ {s[i]}
  <2>1. PICK j \in DOMAIN r : x = r[j]
    BY <1>2 DEF Range
  <2>2. PICK jj \in DOMAIN s : x = s[jj] /\ jj = IF j < i THEN j ELSE j + 1
    BY <2>1
  <2>3. jj # i
    BY <2>2
  <2> QED
    BY <2>2, <2>3 DEF Range
<1>3. ASSUME NEW x \in Range(s) \ {s[i]} PROVE x \in Range(r)
  <2>1. PICK j \in DOMAIN s : x = s[j] /\ j # i
    BY DEF Range
  <2>2. CASE j < i
    <3>1. j \in DOMAIN r /\ r[j] = x
      BY <2>1, <2>2
    <3> QED
      BY <3>1 DEF Range
  <2>3. CASE j > i
    <3>1. j - 1 \in DOMAIN r /\ r[j - 1] = x
      BY <2>1, <2>3
    <3> QED
      BY <3>1 DEF Range
  <2> QED
    BY <2>1, <2>2, <2>3
<1> QED
  BY <1>1, <1>2, <1>3

(* The nodes of a list in order differ.                                    *)
LEMMA NodesDiffer ==
  ASSUME NEW s \in Seq(Bases), NEW f \in [Bases -> Nat], Ascending(s, f)
  PROVE  /\ \A j, k \in 1 .. Len(s) + 1 : Node(s, j) = Node(s, k) => j = k
         /\ \A j \in 1 .. Len(s) + 1 : Node(s, j) \in Nodes
         /\ \A j \in 1 .. Len(s) : Node(s, j) = s[j]
         /\ \A j \in 1 .. Len(s) + 1 : j # 1 => Pred(s, j) = Node(s, j - 1)
         /\ Node(s, Len(s) + 1) = Root /\ Pred(s, 1) = Root
<1>1. Len(s) \in Nat /\ DOMAIN s = 1 .. Len(s) /\ \A j \in 1 .. Len(s) : s[j] \in Bases
  OBVIOUS
<1>2. \A j, k \in DOMAIN s : s[j] = s[k] => j = k
  BY AscendingDiffer
<1>3. Root \notin Bases
  BY DEF Bases, Root
<1> DEFINE n == Len(s)
<1> HIDE DEF n
<1>4. n \in Nat /\ DOMAIN s = 1 .. n /\ \A j \in 1 .. n : s[j] \in Bases
  BY <1>1 DEF n
<1>5. \A j : Node(s, j) = IF j = n + 1 THEN Root ELSE s[j]
  BY DEF Node, n
<1>6. \A j, k \in 1 .. n + 1 : Node(s, j) = Node(s, k) => j = k
  BY <1>2, <1>3, <1>4, <1>5
<1>7. \A j \in 1 .. n + 1 : Node(s, j) \in Nodes
  BY <1>4, <1>5 DEF Nodes
<1>8. \A j \in 1 .. n : Node(s, j) = s[j]
  BY <1>4, <1>5
<1>9. \A j \in 1 .. n + 1 : j # 1 => Pred(s, j) = Node(s, j - 1)
  BY <1>4, <1>5 DEF Pred
<1> QED
  BY <1>5, <1>6, <1>7, <1>8, <1>9 DEF n, Pred

(* The neighbours are linked.                                              *)
LEMMA RemoveAtLinks ==
  ASSUME NEW s \in Seq(Bases), NEW f \in [Bases -> Nat], Ascending(s, f),
         NEW p \in [Nodes -> Nodes \cup {NULL}], Linked(s, p),
         NEW i \in 1 .. Len(s), NEW r, r = RemoveAt(s, i),
         NEW q, q = [p EXCEPT ![Node(s, i + 1)] = p[s[i]]]
  PROVE  Linked(r, q)
<1> DEFINE n == Len(s)
<1>1. /\ n \in Nat /\ i \in 1 .. n
      /\ Len(r) = n - 1 /\ Without(r, s, n, i)
  BY RemoveAtFacts
<1>2. /\ \A j, k \in 1 .. n + 1 : Node(s, j) = Node(s, k) => j = k
      /\ \A j \in 1 .. n + 1 : Node(s, j) \in Nodes
      /\ \A j \in 1 .. n : Node(s, j) = s[j]
  BY NodesDiffer
<1>3. \A j \in 1 .. n + 1 : p[Node(s, j)] = Pred(s, j)
  BY DEF Linked
<1>4. \A j : Node(s, j) = IF j = n + 1 THEN Root ELSE s[j]
  BY DEF Node
<1> HIDE DEF n
<1>5. \A j : Node(r, j) = IF j = n THEN Root ELSE r[j]
  <2>1. Len(r) + 1 = n
    BY <1>1
  <2> QED
    BY <2>1 DEF Node
<1> SUFFICES ASSUME NEW j \in 1 .. n PROVE q[Node(r, j)] = Pred(r, j)
  BY <1>1 DEF Linked
<1>6. CASE j < i
  <2>1. Node(r, j) = Node(s, j)
    BY <1>1, <1>4, <1>5, <1>6 DEF Without
  <2>3. Pred(r, j) = Pred(s, j)
    BY <1>1, <1>6 DEF Pred, Without
  <2>2. Node(s, j) # Node(s, i + 1) /\ Node(s, j) \in Nodes
    BY <1>1, <1>2, <1>6
  <2> QED
    BY <1>1, <1>3, <2>1, <2>2, <2>3
<1>7. CASE j = i
  <2>1. Node(r, j) = Node(s, i + 1)
    <3>1. CASE j = n
      BY <1>1, <1>4, <1>5, <1>7, <3>1
    <3>2. CASE j # n
      <4>1. j \in 1 .. n - 1 /\ ~(j < i) /\ j + 1 # n + 1
        BY <1>1, <1>7, <3>2
      <4>2. Node(r, j) = r[j] /\ r[j] = s[j + 1] /\ Node(s, j + 1) = s[j + 1]
        BY <1>1, <1>4, <1>5, <3>2, <4>1 DEF Without
      <4> QED
        BY <1>7, <4>2
    <3> QED
      BY <3>1, <3>2
  <2>3. Pred(r, j) = Pred(s, i)
    BY <1>1, <1>7 DEF Pred, Without
  <2>2. p[s[i]] = Pred(s, i) /\ Node(s, i + 1) \in Nodes
    BY <1>1, <1>2, <1>3
  <2> QED
    BY <2>1, <2>2, <2>3
<1>8. CASE j > i
  <2>1. Node(r, j) = Node(s, j + 1)
    <3>1. CASE j = n
      BY <1>1, <1>4, <1>5, <1>8, <3>1
    <3>2. CASE j # n
      <4>1. j \in 1 .. n - 1 /\ ~(j < i) /\ j + 1 # n + 1
        BY <1>1, <1>8, <3>2
      <4>2. Node(r, j) = r[j] /\ r[j] = s[j + 1] /\ Node(s, j + 1) = s[j + 1]
        BY <1>1, <1>4, <1>5, <3>2, <4>1 DEF Without
      <4> QED
        BY <1>8, <4>2
    <3> QED
      BY <3>1, <3>2
  <2>3. Pred(r, j) = Pred(s, j + 1)
    BY <1>1, <1>8 DEF Pred, Without
  <2>2. Node(s, j + 1) # Node(s, i + 1) /\ Node(s, j + 1) \in Nodes
    BY <1>1, <1>2, <1>8
  <2> QED
    BY <1>1, <1>3, <2>1, <2>2, <2>3
<1> QED
  BY <1>1, <1>6, <1>7, <1>8

-----------------------------------------------------------------------------
(* The state of the list *)

Listed == Range(bases)
Grouped == Range(group)
Swapping == phase \in {"link", "unlink", "close"}
Adding == \E t \in Threads : pc[t] = "add"

(* The base that is open and not yet in the list.                          *)
Extra == IF Adding \/ phase = "link" THEN {born} ELSE {}

(* Closed, or about to be closed by a sorter that holds its lock.          *)
Gone(x) == x \notin open \/ (Swapping /\ x \in Grouped)

-----------------------------------------------------------------------------
(* The inductive invariant *)

(* The variables CritnessInvariant says nothing about.                     *)
Types ==
    /\ prev \in [Nodes -> Nodes \cup {NULL}] /\ place \in [Bases -> 0 .. MaxBases]
    /\ open \in SUBSET Bases /\ sorted \in SUBSET open
    /\ home \in Nodes /\ cached \in BOOLEAN
    /\ mutex \in Threads \cup {Nobody, Sorter}
    /\ tries \in [Threads -> Nat]
    /\ result \in [Threads -> {"none", "found", "absent", "deadlk"}]
    /\ job \in {"none", "merge", "indexsort", "remove"} /\ asleep \in BOOLEAN
    /\ todo \in Seq(Bases)
    /\ lookups \in 0 .. MaxLookups /\ rounds \in 0 .. MaxRounds
    /\ excuse \in SUBSET Threads /\ since \in [Threads -> 0 .. MaxRounds]
    /\ crashed \in BOOLEAN

(* Who changes the list owns b->lock.                                      *)
Owners ==
    /\ \A t \in Threads : pc[t] = "add" => mutex = t
    /\ phase # "idle" <=> mutex = Sorter
    /\ phase = "idle" => group = <<>>
    /\ phase # "idle" => group # <<>> /\ rounds < MaxRounds
    /\ Swapping => job = "merge"

(* The list is ordered by bctl->index, and indexes only grow.              *)
Ordered ==
    /\ bases # <<>>
    /\ Listed \subseteq 1 .. born
    /\ Extra \cap Listed = {}
    /\ \A b \in 1 .. born : place[b] \in 1 .. b
    /\ Adding => place[born] = born
    /\ Ascending(bases, place)

(* Where the bases of the group are, and in which order.                   *)
GroupInList ==
    /\ Ascending(group, place) /\ Grouped \subseteq 1 .. born
    /\ phase \in {"lock", "swap", "link"} /\ job # "remove" =>
          Grouped \subseteq Listed \ {Last(bases)}
    /\ job = "remove" \/ phase = "close" => Grouped \cap Listed = {}
    /\ phase = "unlink" =>
          /\ Range(todo) = Grouped \cap Listed /\ Last(bases) \notin Grouped
          /\ todo # <<>> /\ Ascending(todo, place)
    /\ phase = "link" => place[born] = place[Replaced]

(* What is open: the listed bases, those that leave, the one that comes.   *)
OpenBases == open = Listed \cup Grouped \cup Extra

(* Two bases a lookup can hold have different places.                      *)
PlacesDiffer ==
    \A x, y \in open : ~Gone(x) /\ ~Gone(y) /\ place[x] = place[y] => x = y

(* The prev pointers of the listed bases, in the middle of the list        *)
(* operations, too.                                                        *)
Links ==
    /\ \A x \in Bases : x > born \/ x \in Extra => prev[x] = NULL
    /\ \A x \in Nodes : prev[x] \in {Root, NULL} \cup 1 .. born
    /\ \A i \in 1 .. Len(bases) + 1 :
          prev[Node(bases, i)] = IF \/ Adding /\ i = Len(bases) + 1
                                    \/ phase = "link" /\ Pred(bases, i) = Replaced
                                 THEN born ELSE Pred(bases, i)

(* Where the key is, and that it can be found there.                       *)
HomeInv ==
    home # Root =>
        /\ home \in Listed \cup Extra /\ ~(Adding /\ home = born)
        /\ Swapping => home \notin Grouped
        /\ cached \/ home \in sorted

(* No prev pointer leads past a listed base.                               *)
Reaches(y, z) == y \in 1 .. born /\ (Gone(y) \/ place[y] >= place[z])

NoSkip ==
    \A x \in {Root} \cup 1 .. born : \A z \in Listed :
        (IF x = Root THEN TRUE ELSE place[z] < place[x]) =>
            prev[x] = NULL \/ Reaches(prev[x], z)

(* As long as no round ends, a walk sees only open bases.                  *)
OpenPrev == \A x \in open \cup {Root} : prev[x] \in open \cup {Root, NULL}

Walking(t) == pc[t] \notin {"idle", "add"}

(* A walk has its key before it.                                           *)
OnTrack(t) ==
    /\ at[t] \in {Root} \cup 1 .. born
    /\ ~Walking(t) => at[t] = Root
    /\ Walking(t) /\ t \notin excuse =>
        /\ home # Root /\ home \in sorted
        /\ pc[t] = "step" /\ at[t] # Root => place[at[t]] > place[home]
        /\ pc[t] \in {"enter", "check", "search"} =>
              Gone(at[t]) \/ place[at[t]] >= place[home]
        /\ pc[t] = "skip" => place[at[t]] > place[home]

(* Restarts and rounds.                                                    *)
Paid(t) ==
    /\ since[t] <= rounds
    /\ ~Walking(t) => tries[t] = 0
    /\ Walking(t) =>
        /\ tries[t] <= rounds - since[t]
        /\ tries[t] = rounds - since[t] => at[t] \in open \cup {Root}
        /\ pc[t] = "again" => tries[t] < rounds - since[t]

ListInv ==
    /\ Types /\ Owners /\ Ordered /\ GroupInList /\ OpenBases /\ PlacesDiffer
    /\ Links /\ HomeInv /\ NoSkip /\ OpenPrev

WalkOf(t) == OnTrack(t) /\ (result[t] = "absent" => t \in excuse) /\ Paid(t)

WalkInv == \A t \in Threads : WalkOf(t)

-----------------------------------------------------------------------------
(* What follows from the invariant in one state *)

(* Types and ranges. *)
LEMMA ListFacts ==
  ASSUME IInv, ListInv
  PROVE  /\ born \in Nat /\ born \in Bases /\ 1 .. born \subseteq Bases
         /\ place \in [Bases -> Nat] /\ bases \in Seq(Bases)
         /\ Len(bases) \in Nat /\ Len(bases) >= 1 /\ DOMAIN bases = 1 .. Len(bases)
         /\ Last(bases) \in Listed /\ open \subseteq 1 .. born
         /\ Root \notin Bases /\ Listed \subseteq 1 .. born
<1>1. born \in Nat /\ born \in Bases /\ 1 .. born \subseteq Bases
  BY BasesAssumption DEF IInv, Shape, Bases
<1>2. place \in [Bases -> Nat] /\ bases \in Seq(Bases)
  BY BasesAssumption DEF IInv, Shape, ListInv, Types
<1>3. Len(bases) \in Nat /\ Len(bases) # 0 /\ DOMAIN bases = 1 .. Len(bases)
  BY <1>2, EmptySeq DEF ListInv, Ordered
<1>4. Last(bases) \in Listed
  BY <1>3 DEF Last, Listed, Range
<1>5. open \subseteq 1 .. born
  <2>1. Extra \subseteq 1 .. born
    BY <1>1 DEF Extra, Bases
  <2> QED
    BY <2>1 DEF ListInv, OpenBases, Ordered, GroupInList
<1> QED
  BY <1>1, <1>2, <1>3, <1>4, <1>5 DEF Bases, Root, ListInv, Ordered

(* No two listed bases are the same, or have the same place. *)
LEMMA ListDiffers ==
  ASSUME IInv, ListInv
  PROVE  /\ \A i, j \in DOMAIN bases : bases[i] = bases[j] => i = j
         /\ \A i, j \in DOMAIN bases : place[bases[i]] <= place[bases[j]] => i <= j
  BY ListFacts, AscendingDiffer DEF ListInv, Ordered

(* In the middle of no list operation the list is linked. *)
LEMMA ListLinked ==
  ASSUME IInv, ListInv, ~Adding, phase # "link"
  PROVE  Linked(bases, prev)
  BY DEF ListInv, Links, Linked

(* The key is where a lookup may hold it. *)
LEMMA HomeHeld ==
  ASSUME IInv, ListInv, home # Root
  PROVE  /\ home \in open /\ ~Gone(home) /\ home \in Bases
         /\ \E z \in Listed : place[z] = place[home]
<1>1. home \in Listed \cup Extra /\ (Swapping => home \notin Grouped)
  BY DEF ListInv, HomeInv
<1>2. home \in open
  BY <1>1 DEF ListInv, OpenBases
<1>3. ~Gone(home)
  BY <1>1, <1>2 DEF Gone
<1>4. \E z \in Listed : place[z] = place[home]
  <2>1. CASE home \in Listed
    BY <2>1
  <2>2. CASE home \notin Listed
    <3>1. home = born /\ phase = "link"
      BY <1>1, <2>2 DEF Extra, ListInv, HomeInv
    <3>2. place[home] = place[Replaced] /\ Grouped \subseteq Listed /\ group # <<>>
      BY <3>1 DEF ListInv, GroupInList, Owners, Swapping
    <3>3. Replaced \in Grouped
      BY <3>2 DEF Replaced, Grouped, Range, IInv, Shape
    <3> QED
      BY <3>2, <3>3
  <2> QED
    BY <2>1, <2>2
<1> QED
  BY <1>2, <1>3, <1>4, ListFacts

(* Nobody is inside a base that will be closed. *)
LEMMA InsideNotGone ==
  ASSUME IInv, ListInv, NEW t \in Threads, pc[t] \in Inside, at[t] \in open
  PROVE  ~Gone(at[t])
<1>1. ASSUME Swapping, at[t] \in Grouped PROVE FALSE
  <2>1. at[t] \in locked
    BY <1>1 DEF IInv, GroupLocked, Swapping, Grouped
  <2>2. at[t] \in Bases /\ critness[at[t]] = 0
    BY <2>1 DEF IInv, LockedUnused, Shape
  <2> QED
    BY <2>2, NoUsers DEF IInv
<1> QED
  BY <1>1 DEF Gone

-----------------------------------------------------------------------------
(* Steps of the lookups *)

(* They leave the list as it is. *)
LEMMA WalkKeepsList ==
  ASSUME IInv, ListInv, Types', NEW t \in Threads,
         pc[t] # "add", pc'[t] # "add", \A u \in Threads \ {t} : pc'[u] = pc[u],
         UNCHANGED <<list, record, job, phase, group, todo, rounds>>,
         mutex' = mutex \/ (mutex \in {t, Nobody} /\ mutex' \in {t, Nobody})
  PROVE  ListInv'
<1>1. /\ bases' = bases /\ prev' = prev /\ born' = born /\ place' = place
      /\ open' = open /\ sorted' = sorted /\ home' = home /\ cached' = cached
      /\ job' = job /\ phase' = phase /\ group' = group /\ todo' = todo
  BY DEF list, record
<1>2. Adding' <=> Adding
  BY DEF Adding
<1>3. Listed' = Listed /\ Grouped' = Grouped /\ (Swapping' <=> Swapping)
      /\ Extra' = Extra /\ Replaced' = Replaced
  BY <1>1, <1>2 DEF Listed, Grouped, Swapping, Extra, Replaced
<1>4. \A x : Gone(x)' <=> Gone(x)
  BY <1>1, <1>3 DEF Gone
<1>5. Owners'
  BY <1>1, <1>3, ThreadsAssumption, BasesAssumption DEF ListInv, Owners
<1>6. Ordered' /\ GroupInList' /\ OpenBases'
  BY <1>1, <1>2, <1>3 DEF ListInv, Ordered, GroupInList, OpenBases
<1>7. PlacesDiffer' /\ OpenPrev'
  BY <1>1, <1>4 DEF ListInv, PlacesDiffer, OpenPrev
<1>8. Links' /\ HomeInv'
  BY <1>1, <1>2, <1>3 DEF ListInv, Links, HomeInv
<1>9. NoSkip'
  BY <1>1, <1>3, <1>4 DEF ListInv, NoSkip, Reaches
<1> QED
  BY <1>5, <1>6, <1>7, <1>8, <1>9 DEF ListInv

(* What the other lookups know stays true. *)
LEMMA OthersKeep ==
  ASSUME WalkInv, NEW t \in Threads,
         UNCHANGED <<list, record, job, phase, group, todo, rounds>>,
         \A u \in Threads \ {t} :
            /\ pc'[u] = pc[u] /\ at'[u] = at[u] /\ tries'[u] = tries[u]
            /\ result'[u] = result[u] /\ since'[u] = since[u]
            /\ u \in excuse' <=> u \in excuse,
         WalkOf(t)'
  PROVE  WalkInv'
<1> SUFFICES ASSUME NEW u \in Threads, u # t PROVE WalkOf(u)'
  BY DEF WalkInv
<1>1. WalkOf(u)
  BY DEF WalkInv
<1>2. \A x : Gone(x)' <=> Gone(x)
  BY DEF Gone, Swapping, Grouped, record
<1>3. OnTrack(u)'
  BY <1>1, <1>2 DEF WalkOf, OnTrack, Walking, list, record
<1> QED
  BY <1>1, <1>3 DEF WalkOf, Paid, Walking, record

(* eblob_cache_lookup begins: the key is absent, in the hash, or on disk. *)
LEMMA LookupKeepsWalk ==
  ASSUME IInv, ListInv, WalkInv, NEW t \in Threads, NEW own \in BOOLEAN, Lookup(t, own)
  PROVE  ListInv' /\ WalkInv'
<1>1. /\ UNCHANGED <<list, record, job, phase, group, todo, rounds>>
      /\ pc[t] = "idle" /\ pc'[t] \in {"idle", "step"}
      /\ \A u \in Threads \ {t} :
            /\ pc'[u] = pc[u] /\ at'[u] = at[u] /\ tries'[u] = tries[u]
            /\ result'[u] = result[u] /\ since'[u] = since[u]
            /\ u \in excuse' <=> u \in excuse
  BY DEF Lookup, Return, sorter, IInv, Shape, ListInv, Types
<1>2. mutex' = mutex \/ (mutex \in {t, Nobody} /\ mutex' \in {t, Nobody})
  BY DEF Lookup, Return
<1>3. Types'
  <2>1. mutex' \in Threads \cup {Nobody, Sorter}
    BY DEF Lookup, Return, ListInv, Types
  <2>2. /\ tries' \in [Threads -> Nat]
        /\ result' \in [Threads -> {"none", "found", "absent", "deadlk"}]
    <3>1. \/ tries' = tries /\ result' = [result EXCEPT ![t] = "none"]
          \/ tries' = [tries EXCEPT ![t] = 0] /\ result' = [result EXCEPT ![t] = "found"]
      BY DEF Lookup, Return
    <3>2. /\ tries \in [Threads -> Nat]
          /\ result \in [Threads -> {"none", "found", "absent", "deadlk"}]
      BY DEF ListInv, Types
    <3>3. [tries EXCEPT ![t] = 0] \in [Threads -> Nat]
      BY <3>2
    <3>4. /\ [result EXCEPT ![t] = "none"] \in [Threads -> {"none", "found", "absent", "deadlk"}]
          /\ [result EXCEPT ![t] = "found"] \in [Threads -> {"none", "found", "absent", "deadlk"}]
      BY <3>2
    <3> QED
      BY <3>1, <3>2, <3>3, <3>4
  <2>3. lookups' \in 0 .. MaxLookups /\ rounds' = rounds
    BY BasesAssumption DEF Lookup, ListInv, Types
  <2>4. excuse' \in SUBSET Threads /\ since' \in [Threads -> 0 .. MaxRounds]
    BY DEF Lookup, ListInv, Types
  <2>5. crashed' = crashed /\ asleep' = asleep
    BY DEF Lookup, sorter
  <2> QED
    BY <1>1, <2>1, <2>2, <2>3, <2>4, <2>5 DEF ListInv, Types, list, record
<1>4. ListInv'
  BY <1>1, <1>2, <1>3, WalkKeepsList
<1>5. pc'[t] = "step" => ~cached /\ at'[t] = at[t] /\ tries'[t] = tries[t]
  BY DEF Lookup, Return, IInv, Shape
<1>6. WalkOf(t)
  BY DEF WalkInv
<1>7. tries[t] = 0 /\ tries'[t] = 0 /\ since'[t] = rounds /\ rounds' = rounds
  BY <1>1, <1>5, <1>6 DEF WalkOf, Paid, Walking, Lookup, Return, ListInv, Types
<1>8. result'[t] # "absent"
  BY DEF Lookup, Return, ListInv, Types
<1>9. at'[t] = Root
  BY <1>1, <1>5, <1>6 DEF WalkOf, OnTrack, Walking, Lookup, Return, IInv, Shape
<1>10. OnTrack(t)'
  BY <1>1, <1>4, <1>5, <1>6, <1>9 DEF OnTrack, WalkOf, Walking, Lookup, list, record, ListInv, HomeInv
<1>11. Paid(t)'
  BY <1>1, <1>3, <1>7, <1>9 DEF Paid, Walking, Types
<1> QED
  BY <1>1, <1>4, <1>8, <1>10, <1>11, OthersKeep DEF WalkOf

(* The types after a step of a walk. *)
LEMMA WalkTypes ==
  ASSUME ListInv, UNCHANGED <<list, record, job, todo, lookups, rounds, excuse, since>>,
         mutex' \in {mutex, Nobody}, NEW t \in Threads, NEW n \in Nat,
         NEW res \in {"none", "found", "absent", "deadlk"},
         tries' = tries \/ tries' = [tries EXCEPT ![t] = n],
         result' = result \/ result' = [result EXCEPT ![t] = res],
         asleep' \in BOOLEAN, crashed' \in BOOLEAN
  PROVE  Types'
<1>1. tries' \in [Threads -> Nat]
  BY DEF ListInv, Types
<1>2. result' \in [Threads -> {"none", "found", "absent", "deadlk"}]
  BY DEF ListInv, Types
<1> QED
  BY <1>1, <1>2 DEF ListInv, Types, list, record

(* One step along the prev pointers: not past the key, and not to a closed *)
(* base unless a round was finished meanwhile. *)
LEMMA StepKeepsWalk ==
  ASSUME IInv, ListInv, WalkInv, NEW t \in Threads, Step(t)
  PROVE  ListInv' /\ WalkInv'
<1> DEFINE p == prev[at[t]]
<1>1. /\ UNCHANGED <<list, record, job, phase, group, todo, rounds, lookups, excuse, since>>
      /\ pc[t] = "step" /\ asleep' = asleep
      /\ \A u \in Threads \ {t} :
            /\ pc'[u] = pc[u] /\ at'[u] = at[u] /\ tries'[u] = tries[u]
            /\ result'[u] = result[u] /\ since'[u] = since[u]
            /\ u \in excuse' <=> u \in excuse
  BY DEF Step, Return, sorter, walk, IInv, Shape, ListInv, Types
<1>2. WalkOf(t)
  BY DEF WalkInv
<1>3. at[t] \in Nodes /\ Walking(t)
  BY <1>1 DEF IInv, Shape, Walking
<1>4. CASE p = NULL /\ crashed' = TRUE /\ UNCHANGED <<walk, mutex>>
  <2>1. Types'
    BY <1>1, <1>4 DEF walk, list, record, ListInv, Types
  <2>2. WalkOf(t)'
    <3>1. \A x : Gone(x)' <=> Gone(x)
      BY <1>1 DEF Gone, Swapping, Grouped, record
    <3> QED
      BY <1>1, <1>2, <1>4, <3>1 DEF WalkOf, OnTrack, Paid, Walking, walk, record, list
  <2> QED
    BY <1>1, <1>4, <2>1, <2>2, WalkKeepsList, OthersKeep DEF walk
<1>5. CASE p = Root /\ Return(t, "absent") /\ UNCHANGED crashed
  <2>1. pc'[t] = "idle" /\ at'[t] = Root /\ tries'[t] = 0 /\ result'[t] = "absent"
        /\ mutex' \in {mutex, Nobody} /\ (mutex' # mutex => mutex = t)
    BY <1>5 DEF Return, IInv, Shape, ListInv, Types
  <2>2. Types'
    BY <1>1, <1>5, <2>1, WalkTypes DEF Return, ListInv, Types
  <2>3. t \in excuse
    <3> SUFFICES ASSUME t \notin excuse PROVE FALSE
      OBVIOUS
    <3>1. home # Root /\ (at[t] # Root => place[at[t]] > place[home])
      BY <1>1, <1>2, <1>3 DEF WalkOf, OnTrack
    <3>2. PICK z \in Listed : place[z] = place[home]
      BY <3>1, HomeHeld
    <3>3. at[t] \in {Root} \cup 1 .. born
      BY <1>2 DEF WalkOf, OnTrack
    <3>4. prev[at[t]] = NULL \/ Reaches(prev[at[t]], z)
      BY <3>1, <3>2, <3>3, ListFacts, HomeHeld DEF ListInv, NoSkip
    <3> QED
      BY <1>5, <3>4, BasesAssumption DEF Reaches, Root, Nodes
  <2>4. WalkOf(t)'
    BY <1>1, <1>2, <2>1, <2>3 DEF WalkOf, OnTrack, Paid, Walking
  <2> QED
    BY <1>1, <2>1, <2>2, <2>4, WalkKeepsList, OthersKeep
<1>6. CASE /\ p \in Bases /\ at' = [at EXCEPT ![t] = p]
           /\ pc' = [pc EXCEPT ![t] = "enter"] /\ UNCHANGED <<tries, result, mutex, crashed>>
  <2>1. pc'[t] = "enter" /\ at'[t] = p
    BY <1>6 DEF IInv, Shape
  <2>2. Types'
    BY <1>1, <1>6, WalkTypes DEF ListInv, Types
  <2>3. p \in 1 .. born
    <3>1. p \in {Root, NULL} \cup 1 .. born
      BY <1>3 DEF ListInv, Links
    <3> QED
      BY <1>6, <3>1, ListFacts, BasesAssumption DEF Nodes
  <2>4. t \notin excuse => Gone(p) \/ place[p] >= place[home]
    <3> SUFFICES ASSUME t \notin excuse PROVE Gone(p) \/ place[p] >= place[home]
      OBVIOUS
    <3>1. home # Root /\ (at[t] # Root => place[at[t]] > place[home])
      BY <1>1, <1>2, <1>3 DEF WalkOf, OnTrack
    <3>2. PICK z \in Listed : place[z] = place[home]
      BY <3>1, HomeHeld
    <3>3. at[t] \in {Root} \cup 1 .. born
      BY <1>2 DEF WalkOf, OnTrack
    <3>4. prev[at[t]] = NULL \/ Reaches(prev[at[t]], z)
      BY <3>1, <3>2, <3>3, ListFacts, HomeHeld DEF ListInv, NoSkip
    <3> QED
      BY <1>6, <3>2, <3>4, BasesAssumption DEF Reaches, Nodes
  <2>5. tries[t] = rounds - since[t] => p \in open
    BY <1>2, <1>3, <1>6, ListFacts, BasesAssumption DEF WalkOf, Paid, ListInv, OpenPrev, Nodes
  <2>6. \A x : Gone(x)' <=> Gone(x)
    BY <1>1 DEF Gone, Swapping, Grouped, record
  <2>7. OnTrack(t)'
    BY <1>1, <1>2, <1>3, <2>1, <2>3, <2>4, <2>6 DEF WalkOf, OnTrack, Walking, list, record
  <2>8. Paid(t)'
    BY <1>1, <1>2, <1>3, <1>6, <2>1, <2>5 DEF WalkOf, Paid, Walking, record
  <2> QED
    BY <1>1, <1>2, <1>6, <2>1, <2>2, <2>7, <2>8, WalkKeepsList, OthersKeep DEF WalkOf
<1> QED
  BY <1>4, <1>5, <1>6 DEF Step

(* A step inside one base: only what pc says of the thread changes. *)
LEMMA InsideKeeps ==
  ASSUME IInv, ListInv, WalkInv, NEW t \in Threads,
         UNCHANGED <<list, record, mutex, at, tries, result, sorter, lookups, rounds,
                     observers>>,
         \A u \in Threads \ {t} : pc'[u] = pc[u],
         Walking(t), Walking(t)', at[t] \in Bases,
         /\ pc'[t] = "step" => pc[t] = "skip"
         /\ pc'[t] = "again" => at[t] \notin open
         /\ pc'[t] \in {"enter", "check", "search"} => pc[t] \in {"enter", "check", "search"}
         /\ pc'[t] = "skip" /\ t \notin excuse => place[at[t]] > place[home]
  PROVE  ListInv' /\ WalkInv'
<1>1. /\ UNCHANGED <<list, record, job, phase, group, todo, rounds, lookups, excuse, since>>
      /\ asleep' = asleep /\ crashed' = crashed
      /\ UNCHANGED <<tries, result, at, mutex>>
  BY DEF sorter, observers
<1>2. Types'
  BY <1>1 DEF list, record, ListInv, Types
<1>3. pc[t] # "add" /\ pc'[t] # "add"
  BY DEF Walking
<1>4. WalkOf(t)
  BY DEF WalkInv
<1>5. \A x : Gone(x)' <=> Gone(x)
  BY <1>1 DEF Gone, Swapping, Grouped, record
<1>6. at[t] # Root
  BY ListFacts
<1>7. OnTrack(t)'
  BY <1>1, <1>4, <1>5, <1>6 DEF WalkOf, OnTrack, Walking, list, record
<1>8. tries[t] \in Nat /\ since[t] \in Nat /\ rounds \in Nat
  BY BasesAssumption DEF ListInv, Types
<1>9. /\ since[t] <= rounds /\ tries[t] <= rounds - since[t]
      /\ tries[t] = rounds - since[t] => at[t] \in open \cup {Root}
  BY <1>4 DEF WalkOf, Paid
<1>10. pc'[t] = "again" => tries[t] < rounds - since[t]
  BY <1>6, <1>8, <1>9
<1>11. Paid(t)'
  BY <1>1, <1>9, <1>10 DEF Paid, record
<1> QED
  BY <1>1, <1>2, <1>3, <1>4, <1>7, <1>11, WalkKeepsList, OthersKeep DEF WalkOf

(* eblob_bctl_hold *)
LEMMA HoldKeepsWalk ==
  ASSUME IInv, ListInv, WalkInv, NEW t \in Threads, Hold(t)
  PROVE  ListInv' /\ WalkInv'
<1>1. pc[t] = "enter" /\ pc'[t] = "check" /\ at[t] \in Bases
      /\ \A u \in Threads \ {t} : pc'[u] = pc[u]
  BY DEF Hold, IInv, Shape, AtBase
<1>2. UNCHANGED <<list, record, mutex, at, tries, result, sorter, lookups, rounds, observers>>
  BY DEF Hold
<1> QED
  BY <1>1, <1>2, InsideKeeps DEF Walking

(* The base a lookup holds, if not closed, is the key's or comes after it. *)
LEMMA HeldFacts ==
  ASSUME IInv, ListInv, WalkInv, NEW t \in Threads, t \notin excuse,
         pc[t] \in {"check", "search"}, at[t] \in open, at[t] # home
  PROVE  place[at[t]] > place[home]
<1>1. WalkOf(t)
  BY DEF WalkInv
<1>2. home # Root /\ (Gone(at[t]) \/ place[at[t]] >= place[home])
  BY <1>1 DEF WalkOf, OnTrack, Walking
<1>3. ~Gone(at[t])
  BY InsideNotGone DEF Inside
<1>4. home \in open /\ ~Gone(home)
  BY <1>2, HomeHeld
<1>5. place[at[t]] # place[home]
  BY <1>3, <1>4 DEF ListInv, PlacesDiffer
<1>6. place[at[t]] \in Nat /\ place[home] \in Nat
  BY <1>4, ListFacts
<1> QED
  BY <1>2, <1>3, <1>5, <1>6

(* The base held is closed, or has no sorted index, or is searched. *)
LEMMA CheckKeepsWalk ==
  ASSUME IInv, ListInv, WalkInv, NEW t \in Threads, Check(t)
  PROVE  ListInv' /\ WalkInv'
<1>1. /\ pc[t] = "check" /\ at[t] \in Bases
      /\ \A u \in Threads \ {t} : pc'[u] = pc[u]
      /\ pc'[t] = CheckOf(t)
  BY DEF Check, IInv, Shape, AtBase, Inside
<1>2. UNCHANGED <<list, record, mutex, at, tries, result, sorter, lookups, rounds, observers>>
  BY DEF Check
<1>3. CheckOf(t) \in {"again", "skip", "search"}
      /\ (CheckOf(t) = "again" => at[t] \notin open)
      /\ (CheckOf(t) = "skip" => at[t] \in open /\ at[t] \notin sorted)
  BY DEF CheckOf
<1>4. CheckOf(t) = "skip" /\ t \notin excuse => place[at[t]] > place[home]
  <2>1. WalkOf(t)
    BY DEF WalkInv
  <2>2. t \notin excuse => home \in sorted
    BY <1>1, <2>1 DEF WalkOf, OnTrack, Walking
  <2> QED
    BY <1>1, <1>3, <2>2, HeldFacts
<1> QED
  BY <1>1, <1>2, <1>3, <1>4, InsideKeeps DEF Walking

(* eblob_find_on_disk finds the key or leaves it ahead. *)
LEMMA SearchKeepsWalk ==
  ASSUME IInv, ListInv, WalkInv, NEW t \in Threads, Search(t)
  PROVE  ListInv' /\ WalkInv'
<1>1. /\ pc[t] = "search" /\ at[t] \in Bases /\ at[t] \in open
      /\ \A u \in Threads \ {t} : pc'[u] = pc[u]
      /\ pc'[t] = IF home = at[t] THEN "found" ELSE "skip"
  BY DEF Search, IInv, Shape, AtBase, Inside, HeldOpen
<1>2. UNCHANGED <<list, record, mutex, at, tries, result, sorter, lookups, rounds, observers>>
  BY DEF Search
<1>3. home # at[t] /\ t \notin excuse => place[at[t]] > place[home]
  BY <1>1, HeldFacts
<1> QED
  BY <1>1, <1>2, <1>3, InsideKeeps DEF Walking

(* eblob_bctl_release: on to the next base, back to the head, or done. *)
LEMMA ReleaseKeepsWalk ==
  ASSUME IInv, ListInv, WalkInv, NEW t \in Threads, Release(t)
  PROVE  ListInv' /\ WalkInv'
<1>1. /\ UNCHANGED <<list, record, job, phase, group, todo, rounds, lookups, excuse, since>>
      /\ pc[t] \in {"again", "skip", "found"} /\ crashed' = crashed
      /\ \A u \in Threads \ {t} :
            /\ pc'[u] = pc[u] /\ at'[u] = at[u] /\ tries'[u] = tries[u]
            /\ result'[u] = result[u] /\ since'[u] = since[u]
            /\ u \in excuse' <=> u \in excuse
  BY DEF Release, Return, observers, IInv, Shape, ListInv, Types
<1>2. WalkOf(t)
  BY DEF WalkInv
<1>3. asleep' \in BOOLEAN
  BY DEF Release, Woken
<1>4. \A x : Gone(x)' <=> Gone(x)
  BY <1>1 DEF Gone, Swapping, Grouped, record
<1>5. ASSUME NEW res \in {"found", "deadlk"}, Return(t, res)
      PROVE  ListInv' /\ WalkInv'
  <2>1. pc'[t] = "idle" /\ at'[t] = Root /\ tries'[t] = 0 /\ result'[t] = res
        /\ mutex' \in {mutex, Nobody} /\ (mutex' # mutex => mutex = t)
    BY <1>5 DEF Return, IInv, Shape, ListInv, Types
  <2>2. Types'
    BY <1>1, <1>3, <1>5, <2>1, WalkTypes DEF Return, ListInv, Types
  <2>3. WalkOf(t)'
    BY <1>1, <1>2, <2>1 DEF WalkOf, OnTrack, Paid, Walking
  <2> QED
    BY <1>1, <2>1, <2>2, <2>3, WalkKeepsList, OthersKeep
<1>6. CASE pc[t] = "skip" /\ pc' = [pc EXCEPT ![t] = "step"]
           /\ UNCHANGED <<at, tries, result, mutex>>
  <2>1. pc'[t] = "step" /\ at[t] # Root
    BY <1>6, ListFacts DEF IInv, Shape, AtBase, Inside
  <2>2. Types'
    BY <1>1, <1>3, <1>6 DEF list, record, ListInv, Types
  <2>3. OnTrack(t)'
    BY <1>1, <1>2, <1>4, <1>6, <2>1 DEF WalkOf, OnTrack, Walking, list, record
  <2>4. Paid(t)'
    BY <1>1, <1>2, <1>6, <2>1 DEF WalkOf, Paid, Walking, record
  <2> QED
    BY <1>1, <1>2, <1>6, <2>1, <2>2, <2>3, <2>4, WalkKeepsList, OthersKeep DEF WalkOf
<1>7. CASE /\ pc[t] = "again" /\ tries' = [tries EXCEPT ![t] = @ + 1]
           /\ at' = [at EXCEPT ![t] = Root] /\ pc' = [pc EXCEPT ![t] = "step"]
           /\ UNCHANGED <<result, mutex>>
  <2>1. pc'[t] = "step" /\ at'[t] = Root /\ tries'[t] = tries[t] + 1 /\ tries[t] \in Nat
    BY <1>7 DEF IInv, Shape, ListInv, Types
  <2>2. Types'
    <3>1. /\ tries \in [Threads -> Nat] /\ tries' = [tries EXCEPT ![t] = tries[t] + 1]
          /\ tries[t] + 1 \in Nat /\ mutex' = mutex /\ result' = result
      BY <1>7, <2>1 DEF ListInv, Types
    <3>2. tries' \in [Threads -> Nat]
      BY <3>1
    <3> QED
      BY <1>1, <1>3, <3>1, <3>2 DEF list, record, ListInv, Types
  <2>3. OnTrack(t)'
    BY <1>1, <1>2, <1>4, <1>7, <2>1 DEF WalkOf, OnTrack, Walking, list, record
  <2>4. since[t] \in Nat /\ rounds \in Nat
    BY BasesAssumption DEF ListInv, Types
  <2>5. Paid(t)'
    BY <1>1, <1>2, <1>7, <2>1, <2>4 DEF WalkOf, Paid, Walking, record
  <2> QED
    BY <1>1, <1>2, <1>7, <2>1, <2>2, <2>3, <2>5, WalkKeepsList, OthersKeep DEF WalkOf
<1> QED
  BY <1>5, <1>6, <1>7 DEF Release

-----------------------------------------------------------------------------
(* Steps of the writers and of the sorter, seen by the walks *)

(* A walk keeps its key before it as long as closed bases stay closed and  *)
(* the key, unless it is rewritten, moves only in the direction it walks;  *)
(* and bases are closed only at the end of a round. *)
LEMMA WalkersKeep ==
  ASSUME IInv, ListInv, WalkInv, UNCHANGED <<at, tries, result, since>>,
         \A t \in Threads : (Walking(t)' <=> Walking(t)) /\ (Walking(t) => pc'[t] = pc[t]),
         born' \in Nat, born <= born', \A x \in 1 .. born : place'[x] = place[x],
         \A x \in 1 .. born : Gone(x) => Gone(x)',
         excuse \subseteq excuse',
         home # Root /\ home \in sorted /\ (\E t \in Threads : Walking(t) /\ t \notin excuse') =>
            /\ home' # Root /\ home' \in sorted'
            /\ place'[home'] \in Nat /\ place'[home'] <= place[home],
         (rounds' = rounds /\ open \subseteq open') \/ rounds' = rounds + 1
  PROVE  WalkInv'
<1> SUFFICES ASSUME NEW t \in Threads PROVE WalkOf(t)'
  BY DEF WalkInv
<1>1. WalkOf(t)
  BY DEF WalkInv
<1>2. born \in Nat /\ at[t] \in {Root} \cup 1 .. born
  BY <1>1, ListFacts DEF WalkOf, OnTrack
<1>3. tries[t] \in Nat /\ since[t] \in Nat /\ rounds \in Nat
  BY BasesAssumption DEF ListInv, Types
<1>4. OnTrack(t)'
  <2>1. at[t] \in {Root} \cup 1 .. born'
    BY <1>2
  <2>2. ~Walking(t) => at[t] = Root
    BY <1>1 DEF WalkOf, OnTrack
  <2>3. ASSUME Walking(t), t \notin excuse'
        PROVE  /\ home' # Root /\ home' \in sorted'
               /\ pc'[t] = "step" /\ at[t] # Root => place'[at[t]] > place'[home']
               /\ pc'[t] \in {"enter", "check", "search"} =>
                     Gone(at[t])' \/ place'[at[t]] >= place'[home']
               /\ pc'[t] = "skip" => place'[at[t]] > place'[home']
    <3>1. pc'[t] = pc[t] /\ t \notin excuse
      BY <2>3
    <3>2. /\ home # Root /\ home \in sorted
          /\ pc[t] = "step" /\ at[t] # Root => place[at[t]] > place[home]
          /\ pc[t] \in {"enter", "check", "search"} =>
                Gone(at[t]) \/ place[at[t]] >= place[home]
          /\ pc[t] = "skip" => place[at[t]] > place[home]
      BY <1>1, <2>3, <3>1 DEF WalkOf, OnTrack
    <3>3. /\ home' # Root /\ home' \in sorted'
          /\ place'[home'] \in Nat /\ place'[home'] <= place[home]
      BY <2>3, <3>2
    <3>4. home \in Bases /\ place[home] \in Nat
      BY <3>2, HomeHeld, ListFacts
    <3>5. CASE at[t] \in 1 .. born
      <4>1. place'[at[t]] = place[at[t]] /\ place[at[t]] \in Nat
        BY <3>5, ListFacts
      <4> QED
        BY <3>1, <3>2, <3>3, <3>4, <3>5, <4>1
    <3>6. CASE at[t] = Root
      <4>1. pc[t] \notin Inside \cup {"enter"}
        BY <3>6, ListFacts DEF IInv, AtBase
      <4> QED
        BY <3>1, <3>3, <3>6, <4>1 DEF Inside
    <3> QED
      BY <1>2, <3>5, <3>6
  <2> QED
    BY <2>1, <2>2, <2>3 DEF OnTrack
<1>5. Paid(t)'
  <2>1. /\ since[t] <= rounds
        /\ ~Walking(t) => tries[t] = 0
        /\ Walking(t) => /\ tries[t] <= rounds - since[t]
                         /\ tries[t] = rounds - since[t] => at[t] \in open \cup {Root}
                         /\ pc[t] = "again" => tries[t] < rounds - since[t]
    BY <1>1 DEF WalkOf, Paid
  <2>2. CASE rounds' = rounds /\ open \subseteq open'
    BY <2>1, <2>2 DEF Paid
  <2>3. CASE rounds' = rounds + 1
    <3>1. since[t] <= rounds + 1
      BY <1>3, <2>1
    <3>2. Walking(t) => tries[t] < rounds + 1 - since[t]
      BY <1>3, <2>1
    <3>3. Walking(t) => tries[t] <= rounds + 1 - since[t] /\ tries[t] # rounds + 1 - since[t]
      BY <1>3, <2>1
    <3>4. since'[t] = since[t] /\ tries'[t] = tries[t] /\ (Walking(t)' <=> Walking(t))
      OBVIOUS
    <3>5. /\ since'[t] <= rounds'
          /\ ~Walking(t)' => tries'[t] = 0
          /\ Walking(t)' => /\ tries'[t] < rounds' - since'[t]
                            /\ tries'[t] <= rounds' - since'[t]
                            /\ tries'[t] # rounds' - since'[t]
      BY <1>3, <2>1, <2>3, <3>1, <3>2, <3>3, <3>4
    <3> QED
      BY <3>5 DEF Paid
  <2> QED
    BY <2>2, <2>3
<1> QED
  BY <1>1, <1>4, <1>5 DEF WalkOf

(* Where a base of the list is and what comes after it. *)
LEMMA NextFacts ==
  ASSUME IInv, ListInv, NEW b \in Listed, b # Last(bases)
  PROVE  \E r \in 1 .. Len(bases) - 1 :
            /\ bases[r] = b /\ NextOf(b) = bases[r + 1] /\ bases[r + 1] \in Listed
            /\ \A i \in 1 .. Len(bases) : bases[i] = b => i = r
            /\ place[b] < place[bases[r + 1]]
            /\ \A z \in Listed : place[z] < place[bases[r + 1]] => z = b \/ place[z] < place[b]
            /\ \A i \in 1 .. Len(bases) + 1 : Node(bases, i) = bases[r + 1] <=> i = r + 1
            /\ \A i \in 1 .. Len(bases) + 1 : Pred(bases, i) = b <=> i = r + 1
<1>1. PICK r \in DOMAIN bases : bases[r] = b
  BY DEF Listed, Range
<1> DEFINE n == Len(bases)
<1>2. n \in Nat /\ DOMAIN bases = 1 .. n /\ bases \in Seq(Bases) /\ place \in [Bases -> Nat]
  BY ListFacts
<1>3. r # n
  BY <1>1 DEF Last
<1>4. \A i, j \in DOMAIN bases : bases[i] = bases[j] => i = j
  BY ListDiffers
<1>5. Position(b) = r
  BY <1>1, <1>4 DEF Position
<1>6. NextOf(b) = bases[r + 1]
  BY <1>3, <1>5 DEF NextOf
<1> HIDE DEF n
<1>7. r \in 1 .. n - 1 /\ r + 1 \in 1 .. n /\ r < r + 1 /\ r \in 1 .. n
  BY <1>1, <1>2, <1>3
<1>8. bases[r + 1] \in Listed /\ place[b] < place[bases[r + 1]]
  BY <1>1, <1>2, <1>7 DEF Listed, Range, ListInv, Ordered, Ascending
<1>9. ASSUME NEW z \in Listed, place[z] < place[bases[r + 1]]
      PROVE  z = b \/ place[z] < place[b]
  <2>1. PICK k \in DOMAIN bases : bases[k] = z
    BY DEF Listed, Range
  <2>2. place[z] <= place[bases[r + 1]] /\ z # bases[r + 1]
    BY <1>2, <1>7, <1>9, <2>1, ListFacts
  <2>3. k <= r + 1 /\ k # r + 1
    BY <1>2, <1>7, <2>1, <2>2, ListDiffers
  <2>4. k = r \/ k < r
    BY <1>2, <2>1, <2>3
  <2> QED
    BY <1>1, <2>1, <2>4 DEF ListInv, Ordered, Ascending
<1>10. /\ \A j, k \in 1 .. n + 1 : Node(bases, j) = Node(bases, k) => j = k
       /\ \A j \in 1 .. n : Node(bases, j) = bases[j]
       /\ \A j \in 1 .. n + 1 : j # 1 => Pred(bases, j) = Node(bases, j - 1)
       /\ Pred(bases, 1) = Root
  BY ListFacts, NodesDiffer DEF ListInv, Ordered, n
<1>11. ASSUME NEW i \in 1 .. n + 1
       PROVE  /\ Node(bases, i) = bases[r + 1] <=> i = r + 1
              /\ Pred(bases, i) = b <=> i = r + 1
  <2>1. Node(bases, r + 1) = bases[r + 1] /\ Node(bases, r) = b /\ b # Root
    BY <1>1, <1>7, <1>10, ListFacts
  <2>2. Node(bases, i) = bases[r + 1] <=> i = r + 1
    BY <1>2, <1>7, <1>10, <2>1
  <2>3. CASE i = 1
    <3>1. i # r + 1
      BY <1>7, <2>3
    <3> QED
      BY <1>10, <2>1, <2>2, <2>3, <3>1
  <2>4. CASE i # 1
    <3>1. i - 1 \in 1 .. n + 1 /\ r \in 1 .. n + 1 /\ (i - 1 = r <=> i = r + 1)
      BY <1>2, <1>7, <2>4
    <3> QED
      BY <1>10, <2>1, <2>2, <2>4, <3>1
  <2> QED
    BY <2>2, <2>3, <2>4
<1> QED
  BY <1>1, <1>2, <1>4, <1>6, <1>7, <1>8, <1>9, <1>11 DEF n

-----------------------------------------------------------------------------
(* Steps of the writers and of the sorter, seen by the list *)

(* Whoever owns b->lock, the others neither add a base nor sort. *)
LEMMA OwnersFacts ==
  ASSUME IInv, ListInv
  PROVE  /\ mutex = Nobody => ~Adding /\ phase = "idle" /\ group = <<>>
         /\ phase # "idle" => ~Adding /\ mutex = Sorter /\ group # <<>>
         /\ \A t \in Threads : pc[t] = "add" => phase = "idle" /\ group = <<>>
         /\ \A t, u \in Threads : pc[t] = "add" /\ pc[u] = "add" => t = u
  BY ThreadsAssumption, BasesAssumption DEF ListInv, Owners, Adding

(* What depends on the list alone stays when the list does. *)
LEMMA SameListKeeps ==
  ASSUME IInv, ListInv, UNCHANGED <<list, open>>, Adding' <=> Adding,
         phase' = "link" <=> phase = "link", phase = "link" => Replaced' = Replaced,
         \A x : Gone(x)' <=> Gone(x)
  PROVE  Ordered' /\ PlacesDiffer' /\ Links' /\ NoSkip' /\ OpenPrev' /\ Extra' = Extra
<1>1. bases' = bases /\ prev' = prev /\ born' = born /\ place' = place /\ open' = open
  BY DEF list
<1>2. Listed' = Listed /\ Extra' = Extra
  BY <1>1 DEF Listed, Extra
<1>3. Ordered'
  BY <1>1, <1>2 DEF ListInv, Ordered
<1>4. PlacesDiffer' /\ OpenPrev'
  BY <1>1 DEF ListInv, PlacesDiffer, OpenPrev
<1>5. Links'
  BY <1>1, <1>2 DEF ListInv, Links
<1>6. NoSkip'
  BY <1>1, <1>2 DEF ListInv, NoSkip, Reaches
<1> QED
  BY <1>2, <1>3, <1>4, <1>5, <1>6

(* Unlinking a base that is not the last: the pointer of its successor now *)
(* leads where its own does, and skips nothing but the base itself. *)
LEMMA UnlinkKeepsList ==
  ASSUME IInv, ListInv, ~Adding, ~Adding', phase # "link", phase' # "link",
         UNCHANGED <<born, place, open>>, NEW b \in Listed, b # Last(bases), Unlink(b),
         \A x : Gone(x)' <=> Gone(x)
  PROVE  /\ Ordered' /\ PlacesDiffer' /\ Links' /\ NoSkip' /\ OpenPrev'
         /\ Listed' = Listed \ {b} /\ Last(bases') = Last(bases)
         /\ Extra = {} /\ Extra' = {}
         /\ prev' \in [Nodes -> Nodes \cup {NULL}]
<1>1. PICK r \in 1 .. Len(bases) - 1 :
            /\ bases[r] = b /\ NextOf(b) = bases[r + 1] /\ bases[r + 1] \in Listed
            /\ \A i \in 1 .. Len(bases) : bases[i] = b => i = r
            /\ place[b] < place[bases[r + 1]]
            /\ \A z \in Listed : place[z] < place[bases[r + 1]] => z = b \/ place[z] < place[b]
  BY NextFacts
<1> DEFINE m == bases[r + 1]
<1>2. prev' = [prev EXCEPT ![m] = prev[b]] /\ bases' = RemoveAt(bases, r)
  BY <1>1, ListFacts DEF Unlink, Unlinked
<1>3. r \in 1 .. Len(bases) /\ r < Len(bases) /\ Len(bases) \in Nat /\ bases \in Seq(Bases)
      /\ place \in [Bases -> Nat] /\ DOMAIN bases = 1 .. Len(bases)
  BY ListFacts
<1>4. /\ bases' \in Seq(Bases) /\ bases' # <<>> /\ Last(bases') = Last(bases)
      /\ Without(bases', bases, Len(bases), r)
  BY <1>2, <1>3, RemoveAtFacts
<1>5. Ascending(bases', place) /\ Listed' = Listed \ {b}
  BY <1>1, <1>3, <1>4, ListDiffers, WithoutOrder DEF ListInv, Ordered, Listed
<1>6. m \in Listed /\ m \in 1 .. born /\ m \in Bases /\ m \in Nodes /\ m # Root /\ b \in 1 .. born
      /\ b \in Bases /\ b \in Nodes
  BY <1>1, ListFacts DEF Nodes
<1>7. prev \in [Nodes -> Nodes \cup {NULL}]
  BY DEF ListInv, Types
<1>8. /\ prev' \in [Nodes -> Nodes \cup {NULL}] /\ prev'[m] = prev[b]
      /\ \A x \in Nodes : x # m => prev'[x] = prev[x]
  BY <1>2, <1>6, <1>7
<1>9. Extra = {} /\ Extra' = {}
  BY DEF Extra
<1>10. Ordered'
  BY <1>4, <1>5, <1>9 DEF ListInv, Ordered
<1>11. PlacesDiffer'
  BY DEF ListInv, PlacesDiffer
<1>12. Links'
  <2>1. Linked(bases', prev')
    <3>1. Linked(bases, prev)
      BY ListLinked
    <3>2. Node(bases, r + 1) = m
      BY <1>3 DEF Node
    <3>3. prev' = [prev EXCEPT ![Node(bases, r + 1)] = prev[bases[r]]]
      BY <1>1, <1>2, <3>2
    <3> QED
      BY <1>2, <1>3, <1>7, <3>1, <3>3, RemoveAtLinks DEF ListInv, Ordered
  <2>2. \A x \in Bases : x > born => prev'[x] = NULL
    <3> SUFFICES ASSUME NEW x \in Bases, x > born PROVE prev'[x] = NULL
      OBVIOUS
    <3>1. x # m /\ x \in Nodes
      BY <1>6, ListFacts DEF Nodes, Bases
    <3> QED
      BY <1>8, <3>1 DEF ListInv, Links
  <2>3. \A x \in Nodes : prev'[x] \in {Root, NULL} \cup 1 .. born
    BY <1>6, <1>8 DEF ListInv, Links
  <2> QED
    BY <1>9, <2>1, <2>2, <2>3 DEF Links, Linked
<1>13. NoSkip'
  <2> SUFFICES ASSUME NEW x \in {Root} \cup 1 .. born, NEW z \in Listed',
                      IF x = Root THEN TRUE ELSE place[z] < place[x]
               PROVE  prev'[x] = NULL \/ Reaches(prev'[x], z)
    BY DEF NoSkip, Reaches
  <2>1. z \in Listed /\ z # b
    BY <1>5
  <2>2. CASE x = m
    <3>1. place[z] < place[b]
      BY <1>1, <1>6, <2>1, <2>2
    <3> QED
      BY <1>6, <1>8, <2>1, <2>2, <3>1 DEF ListInv, NoSkip, Root
  <2>3. CASE x # m
    <3>1. x \in Nodes
      BY ListFacts DEF Nodes
    <3> QED
      BY <1>8, <2>1, <2>3, <3>1 DEF ListInv, NoSkip
  <2> QED
    BY <2>2, <2>3
<1>14. OpenPrev'
  <2>1. b \in open /\ open \subseteq Nodes /\ Root \in Nodes
    BY ListFacts DEF ListInv, OpenBases, Types, Nodes
  <2> QED
    BY <1>8, <2>1 DEF ListInv, OpenPrev
<1> QED
  BY <1>4, <1>5, <1>8, <1>9, <1>10, <1>11, <1>12, <1>13, <1>14

(* What the sorter may take. *)
LEMMA OldFacts ==
  ASSUME IInv, ListInv
  PROVE  Old = Listed \ {Last(bases)}
<1> DEFINE n == Len(bases)
<1>1. n \in Nat /\ n >= 1 /\ DOMAIN bases = 1 .. n /\ bases \in Seq(Bases)
  BY ListFacts
<1>2. \A j \in 1 .. n : bases[j] \in Bases
  BY <1>1
<1>3. Len(Front(bases)) = n - 1 /\ Front(bases) \in Seq(Bases)
      /\ \A j \in 1 .. n - 1 : Front(bases)[j] = bases[j]
  BY <1>1, <1>2, SubSeqProperties DEF Front
<1>5. DOMAIN Front(bases) = 1 .. n - 1 /\ Last(bases) = bases[n]
  BY <1>3 DEF Last
<1> HIDE DEF n
<1>4. \A i \in 1 .. n : bases[i] = Last(bases) => i = n
  <2>1. n \in 1 .. n
    BY <1>1
  <2> QED
    BY <1>1, <1>5, <2>1, ListDiffers
<1>6. Old = {bases[i] : i \in 1 .. n - 1}
  BY <1>3, <1>5 DEF Old, Range
<1>7. Listed = {bases[i] : i \in 1 .. n}
  BY <1>1 DEF Listed, Range
<1>8. \A i \in 1 .. n : i \in 1 .. n - 1 \/ i = n
  BY <1>1
<1>9. \A i \in 1 .. n - 1 : i \in 1 .. n /\ i # n
  BY <1>1
<1> QED
  BY <1>4, <1>5, <1>6, <1>7, <1>8, <1>9

(* list_add_tail has published the base in the head's prev pointer. *)
LEMMA AddBaseKeepsList ==
  ASSUME IInv, ListInv, WalkInv, NEW t \in Threads, AddBase(t)
  PROVE  ListInv' /\ WalkInv'
<1> DEFINE n == born + 1
<1>1. /\ mutex = Nobody /\ mutex' = t /\ born' = n /\ n \in Bases /\ n \notin 1 .. born
      /\ bases' = bases /\ sorted' = sorted /\ home' = home /\ cached' = cached
      /\ open' = open \cup {n}
      /\ UNCHANGED <<at, tries, result, sorter, lookups, rounds, observers>>
  BY ListFacts, BasesAssumption DEF AddBase, Bases
<1>2. /\ job' = job /\ phase' = phase /\ group' = group /\ todo' = todo /\ asleep' = asleep
      /\ excuse' = excuse /\ since' = since /\ crashed' = crashed
      /\ pc[t] = "idle" /\ pc'[t] = "add" /\ \A u \in Threads \ {t} : pc'[u] = pc[u]
  BY DEF AddBase, sorter, observers, IInv, Shape
<1>3. ~Adding /\ phase = "idle" /\ group = <<>>
  BY <1>1, OwnersFacts
<1>4. /\ born \in Nat /\ 1 .. born \subseteq Bases /\ Listed \subseteq 1 .. born
      /\ open \subseteq 1 .. born /\ Root \notin Bases
  BY ListFacts
<1>5. /\ place' \in [Bases -> 0 .. MaxBases] /\ place'[n] = n
      /\ \A x \in 1 .. born : place'[x] = place[x] /\ place[x] \in 1 .. x /\ place[x] \in Nat
  <2>1. place' = [place EXCEPT ![n] = n] /\ place \in [Bases -> 0 .. MaxBases]
    BY DEF AddBase, ListInv, Types
  <2>2. n \in 0 .. MaxBases
    BY <1>1 DEF Bases
  <2>3. \A x \in 1 .. born : x \in Bases /\ x # n /\ place[x] \in 1 .. x
    BY <1>1, <1>4 DEF ListInv, Ordered
  <2> QED
    BY <1>1, <2>1, <2>2, <2>3
<1>6. /\ prev' \in [Nodes -> Nodes \cup {NULL}] /\ prev'[Root] = n
      /\ \A x \in Bases : prev'[x] = prev[x]
  BY <1>1, <1>4 DEF AddBase, ListInv, Types, Nodes
<1>7. Listed' = Listed /\ Grouped = {} /\ Grouped' = {} /\ ~Swapping /\ ~Swapping'
      /\ Extra = {} /\ Extra' = {n} /\ Adding'
  BY <1>1, <1>2, <1>3 DEF Listed, Grouped, Swapping, Extra, Adding, Range
<1>8. \A x \in 1 .. born : Gone(x)' <=> Gone(x)
  BY <1>1, <1>7 DEF Gone
<1>9. Types'
  BY <1>1, <1>2, <1>5, <1>6 DEF ListInv, Types
<1>10. Owners'
  BY <1>1, <1>2, <1>3, <1>7, OwnersFacts, ThreadsAssumption DEF ListInv, Owners, Adding
<1>11. Ordered'
  <2>1. \A b \in 1 .. n : place'[b] \in 1 .. b
    BY <1>4, <1>5
  <2>2. Ascending(bases, place')
    BY <1>4, <1>5 DEF ListInv, Ordered, Ascending, Listed, Range
  <2>3. Listed \subseteq 1 .. n /\ n \notin Listed
    BY <1>4
  <2> QED
    BY <1>1, <1>5, <1>7, <2>1, <2>2, <2>3 DEF ListInv, Ordered
<1>12. GroupInList'
  BY <1>2, <1>3, <1>7 DEF GroupInList, Ascending
<1>13. OpenBases'
  BY <1>1, <1>7 DEF ListInv, OpenBases
<1>14. PlacesDiffer'
  <2> SUFFICES ASSUME NEW x \in open', NEW y \in open', place'[x] = place'[y] PROVE x = y
    BY DEF PlacesDiffer
  <2>1. \A z \in open : place'[z] = place[z] /\ place'[z] # n /\ ~Gone(z)
    BY <1>4, <1>5, <1>7 DEF Gone
  <2> QED
    BY <1>1, <1>5, <2>1 DEF ListInv, PlacesDiffer
<1>15. Links'
  <2>1. \A x \in Bases : x > n \/ x \in {n} => prev'[x] = NULL
    BY <1>4, <1>6 DEF ListInv, Links, Bases
  <2>2. \A x \in Nodes : prev'[x] \in {Root, NULL} \cup 1 .. n
    <3>1. n \in 1 .. n /\ 1 .. born \subseteq 1 .. n
      BY <1>4
    <3> QED
      BY <1>6, <3>1 DEF ListInv, Links, Nodes
  <2>3. ASSUME NEW i \in 1 .. Len(bases) + 1
        PROVE  prev'[Node(bases, i)] = IF i = Len(bases) + 1 THEN n ELSE Pred(bases, i)
    <3>1. i # Len(bases) + 1 => Node(bases, i) \in Bases
      BY ListFacts DEF Node
    <3>2. i = Len(bases) + 1 => Node(bases, i) = Root
      BY DEF Node
    <3>3. prev[Node(bases, i)] = Pred(bases, i)
      BY <1>3, ListLinked DEF Linked
    <3> QED
      BY <1>6, <3>1, <3>2, <3>3
  <2> QED
    BY <1>1, <1>2, <1>3, <1>7, <2>1, <2>2, <2>3 DEF Links
<1>16. HomeInv'
  BY <1>1, <1>4, <1>7 DEF ListInv, HomeInv
<1>17. NoSkip'
  <2> SUFFICES ASSUME NEW x \in {Root} \cup 1 .. n, NEW z \in Listed,
                      IF x = Root THEN TRUE ELSE place'[z] < place'[x],
                      NEW y, y = prev'[x]
               PROVE  y = NULL \/ Reaches(y, z)'
    BY <1>1, <1>7 DEF NoSkip, Reaches, Gone
  <2>1. CASE x = Root
    <3>1. n \in 1 .. n /\ place'[n] >= place'[z]
      BY <1>4, <1>5
    <3> QED
      BY <1>1, <1>6, <2>1, <3>1 DEF Reaches
  <2>2. CASE x = n
    BY <1>1, <1>4, <1>6, <2>2 DEF ListInv, Links, Bases
  <2>3. CASE x \in 1 .. born
    <3>1. place[z] < place[x] /\ x # Root /\ prev'[x] = prev[x]
      BY <1>4, <1>5, <1>6, <2>3
    <3>2. y = NULL \/ Reaches(y, z)
      BY <2>3, <3>1 DEF ListInv, NoSkip
    <3>3. Reaches(y, z) => Reaches(y, z)'
      <4>1. y \in 1 .. born => y \in 1 .. n
        BY <1>4
      <4> QED
        BY <1>1, <1>4, <1>5, <1>8, <4>1 DEF Reaches
    <3> QED
      BY <3>1, <3>2, <3>3
  <2> QED
    BY <1>4, <2>1, <2>2, <2>3
<1>18. OpenPrev'
  <2>1. prev[n] = NULL
    BY <1>1, <1>4 DEF ListInv, Links, Bases
  <2> QED
    BY <1>1, <1>4, <1>6, <2>1 DEF ListInv, OpenPrev
<1>19. WalkInv'
  <2>1. \A u \in Threads : (Walking(u)' <=> Walking(u)) /\ (Walking(u) => pc'[u] = pc[u])
    BY <1>2 DEF Walking
  <2>2. born' \in Nat /\ born <= born'
    BY <1>1, <1>4
  <2>3. home # Root => home \in Bases /\ place'[home] = place[home] /\ place[home] \in Nat
    BY <1>4, <1>5, HomeHeld
  <2> QED
    BY <1>1, <1>2, <1>5, <1>8, <2>1, <2>2, <2>3, WalkersKeep
<1> QED
  BY <1>9, <1>10, <1>11, <1>12, <1>13, <1>14, <1>15, <1>16, <1>17, <1>18, <1>19 DEF ListInv

(* ... and sets the prev pointer of the base. *)
LEMMA LinkBaseKeepsList ==
  ASSUME IInv, ListInv, WalkInv, NEW t \in Threads, LinkBase(t)
  PROVE  ListInv' /\ WalkInv'
<1>1. /\ pc[t] = "add" /\ mutex' = Nobody /\ bases' = Append(bases, born)
      /\ UNCHANGED <<born, place, open, sorted, home, cached, job, phase, group, todo, asleep>>
      /\ UNCHANGED <<at, tries, result, lookups, rounds, excuse, since, crashed>>
      /\ pc'[t] = "idle" /\ \A u \in Threads \ {t} : pc'[u] = pc[u]
  BY DEF LinkBase, record, sorter, observers, IInv, Shape
<1>2. Adding /\ phase = "idle" /\ group = <<>> /\ \A u \in Threads : pc[u] = "add" => u = t
  BY <1>1, OwnersFacts DEF Adding
<1>3. ~Adding'
  BY <1>1, <1>2 DEF Adding
<1>4. /\ born \in Nat /\ born \in Bases /\ 1 .. born \subseteq Bases /\ Listed \subseteq 1 .. born
      /\ open \subseteq 1 .. born /\ Root \notin Bases /\ Last(bases) \in Listed
  BY ListFacts
<1> DEFINE n == Len(bases)
<1>5. n \in Nat /\ n >= 1 /\ DOMAIN bases = 1 .. n /\ bases \in Seq(Bases)
  BY ListFacts
<1>6. /\ bases' \in Seq(Bases) /\ Len(bases') = n + 1 /\ DOMAIN bases' = 1 .. n + 1
      /\ bases' # <<>> /\ bases'[n + 1] = born
      /\ \A i \in 1 .. n : bases'[i] = bases[i]
  BY <1>1, <1>4, <1>5, AppendProperties
<1>7. Last(bases) = bases[n]
  BY DEF Last
<1>8. \A i : Node(bases, i) = IF i = n + 1 THEN Root ELSE bases[i]
  BY DEF Node
<1> HIDE DEF n
<1>9. /\ prev' \in [Nodes -> Nodes \cup {NULL}] /\ prev'[born] = Last(bases)
      /\ \A x \in Nodes : x # born => prev'[x] = prev[x]
  BY <1>4 DEF LinkBase, ListInv, Types, Nodes
<1>10. /\ Listed' = Listed \cup {born} /\ born \notin Listed /\ Extra = {born} /\ Extra' = {}
       /\ Grouped = {} /\ Grouped' = {} /\ ~Swapping /\ ~Swapping'
  <2>1. Listed' = {bases'[i] : i \in 1 .. n + 1} /\ Listed = {bases[i] : i \in 1 .. n}
    BY <1>5, <1>6 DEF Listed, Range
  <2>2. \A i \in 1 .. n + 1 : i \in 1 .. n \/ i = n + 1
    BY <1>5
  <2>3. \A i \in 1 .. n : i \in 1 .. n + 1
    BY <1>5
  <2>4. n + 1 \in 1 .. n + 1
    BY <1>5
  <2>5. Listed' = Listed \cup {born}
    BY <1>6, <2>1, <2>2, <2>3, <2>4
  <2>6. Extra = {born} /\ Extra' = {} /\ Grouped = {} /\ Grouped' = {} /\ ~Swapping /\ ~Swapping'
    BY <1>1, <1>2, <1>3 DEF Extra, Grouped, Swapping, Range
  <2> QED
    BY <2>5, <2>6 DEF ListInv, Ordered
<1>11. \A x : Gone(x)' <=> Gone(x)
  BY <1>1, <1>10 DEF Gone
<1>12. \A z \in Listed : place[z] < place[born] /\ place[z] \in Nat
  <2>1. \A z \in Listed : z \in 1 .. born /\ z # born /\ place[z] \in 1 .. z
    BY <1>4, <1>10 DEF ListInv, Ordered
  <2>2. place[born] = born
    BY <1>2 DEF ListInv, Ordered
  <2> QED
    BY <1>4, <2>1, <2>2
<1>13. Types'
  BY <1>1, <1>9 DEF ListInv, Types
<1>14. Owners'
  BY <1>1, <1>2, <1>3, <1>10, BasesAssumption DEF ListInv, Owners, Adding
<1>15. Ordered'
  <2>1. ASSUME NEW i \in 1 .. n + 1, NEW j \in 1 .. n + 1, i < j
        PROVE  place[bases'[i]] < place[bases'[j]]
    <3>1. i \in 1 .. n /\ bases'[i] = bases[i] /\ bases[i] \in Listed
      BY <1>5, <1>6, <2>1 DEF Listed, Range
    <3>2. CASE j = n + 1
      BY <1>6, <1>12, <3>1, <3>2
    <3>3. CASE j \in 1 .. n
      BY <1>5, <1>6, <2>1, <3>1, <3>3 DEF ListInv, Ordered, Ascending
    <3> QED
      BY <1>5, <3>2, <3>3
  <2>2. Ascending(bases', place)
    BY <1>6, <2>1 DEF Ascending
  <2>3. born \in 1 .. born
    BY <1>4 DEF Bases
  <2> QED
    BY <1>1, <1>3, <1>4, <1>6, <1>10, <2>2, <2>3 DEF ListInv, Ordered
<1>16. GroupInList'
  BY <1>1, <1>2, <1>10 DEF GroupInList, Ascending
<1>17. OpenBases'
  BY <1>1, <1>10 DEF ListInv, OpenBases
<1>18. PlacesDiffer'
  BY <1>1, <1>11 DEF ListInv, PlacesDiffer
<1>19. Links'
  <2>1. \A x \in Bases : x > born => prev'[x] = NULL
    <3>1. \A x \in Bases : x > born => x # born /\ x \in Nodes
      BY <1>4 DEF Bases, Nodes
    <3> QED
      BY <1>9, <3>1 DEF ListInv, Links
  <2>2. \A x \in Nodes : prev'[x] \in {Root, NULL} \cup 1 .. born
    BY <1>4, <1>9 DEF ListInv, Links
  <2>3. ASSUME NEW i \in 1 .. n + 2
        PROVE  prev'[Node(bases', i)] = Pred(bases', i)
    <3>1. Node(bases', i) = IF i = n + 2 THEN Root ELSE bases'[i]
      <4>1. Len(bases') + 1 = n + 2
        BY <1>5, <1>6
      <4> QED
        BY <4>1 DEF Node
    <3>2. Root \in Nodes /\ Root # born
      BY <1>4 DEF Nodes
    <3>3. \A j \in 1 .. n + 1 : prev[Node(bases, j)] = IF j = n + 1 THEN born ELSE Pred(bases, j)
      BY <1>2 DEF ListInv, Links, n
    <3>4. CASE i = n + 2
      <4>1. prev[Root] = born
        BY <1>5, <1>8, <3>3
      <4>2. Pred(bases', i) = bases'[n + 1]
        BY <1>5, <3>4 DEF Pred
      <4> QED
        BY <1>6, <1>9, <3>1, <3>2, <3>4, <4>1, <4>2
    <3>5. CASE i = n + 1
      <4>1. Node(bases', i) = born
        BY <1>5, <1>6, <3>1, <3>5
      <4>2. Pred(bases', i) = bases[n]
        BY <1>5, <1>6, <3>5 DEF Pred
      <4> QED
        BY <1>7, <1>9, <4>1, <4>2
    <3>6. CASE i \in 1 .. n
      <4>1. Node(bases', i) = bases[i] /\ Node(bases, i) = bases[i]
        BY <1>5, <1>6, <1>8, <3>1, <3>6
      <4>2. bases[i] \in Listed /\ bases[i] # born /\ bases[i] \in Nodes
        BY <1>4, <1>5, <1>10, <3>6 DEF Listed, Range, Nodes
      <4>3. prev[Node(bases, i)] = Pred(bases, i)
        BY <1>5, <3>3, <3>6
      <4>4. Pred(bases', i) = Pred(bases, i)
        BY <1>5, <1>6, <3>6 DEF Pred
      <4> QED
        BY <1>9, <4>1, <4>2, <4>3, <4>4
    <3> QED
      BY <1>5, <3>4, <3>5, <3>6
  <2>4. Len(bases') + 1 = n + 2
    BY <1>5, <1>6
  <2> QED
    BY <1>1, <1>2, <1>3, <1>10, <2>1, <2>2, <2>3, <2>4 DEF Links
<1>20. HomeInv'
  BY <1>1, <1>3, <1>10 DEF ListInv, HomeInv
<1>21. NoSkip'
  <2> SUFFICES ASSUME NEW x \in {Root} \cup 1 .. born, NEW z \in Listed',
                      IF x = Root THEN TRUE ELSE place[z] < place[x]
               PROVE  prev'[x] = NULL \/ Reaches(prev'[x], z)
    BY <1>1, <1>11 DEF NoSkip, Reaches
  <2>1. place[born] = born
    BY <1>2 DEF ListInv, Ordered
  <2>2. CASE x = born
    <3>1. z \in Listed /\ z \in Bases
      BY <1>4, <1>10, <2>1, <2>2
    <3>2. place[Last(bases)] >= place[z]
      <4>1. PICK k \in 1 .. n : bases[k] = z
        BY <1>5, <3>1 DEF Listed, Range
      <4>2. k = n \/ (k < n /\ n \in 1 .. n)
        BY <1>5
      <4>3. place[z] \in Nat /\ place[bases[n]] \in Nat
        BY <1>4, <1>7, <1>12, <3>1
      <4>4. k < n => place[z] < place[bases[n]]
        BY <1>5, <4>1, <4>2 DEF ListInv, Ordered, Ascending
      <4> QED
        BY <1>7, <4>1, <4>2, <4>3, <4>4
    <3> QED
      BY <1>4, <1>9, <2>2, <3>2 DEF Reaches
  <2>3. CASE x # born
    <3>1. prev'[x] = prev[x]
      BY <1>4, <1>9, <2>3 DEF Nodes
    <3>2. CASE z \in Listed
      BY <3>1, <3>2 DEF ListInv, NoSkip
    <3>3. CASE z = born
      <4>1. x = Root
        <5>1. x \in 1 .. born => place[x] \in 1 .. x
          BY DEF ListInv, Ordered
        <5> QED
          BY <1>4, <2>1, <2>3, <3>3, <5>1
      <4>2. prev[Root] = born
        <5>1. n + 1 \in 1 .. n + 1
          BY <1>5
        <5> QED
          BY <1>2, <1>8, <5>1 DEF ListInv, Links, n
      <4> QED
        BY <1>4, <2>1, <3>1, <3>3, <4>1, <4>2 DEF Reaches, Bases
    <3> QED
      BY <1>10, <3>2, <3>3
  <2> QED
    BY <2>2, <2>3
<1>22. OpenPrev'
  <2>1. Last(bases) \in open
    BY <1>4 DEF ListInv, OpenBases
  <2> QED
    BY <1>1, <1>4, <1>9, <2>1 DEF ListInv, OpenPrev, Nodes
<1>23. WalkInv'
  <2>1. \A u \in Threads : (Walking(u)' <=> Walking(u)) /\ (Walking(u) => pc'[u] = pc[u])
    BY <1>1 DEF Walking
  <2>2. born' \in Nat /\ born <= born'
    BY <1>1, <1>4
  <2>3. home # Root => place[home] \in Nat
    BY HomeHeld, ListFacts
  <2> QED
    BY <1>1, <1>11, <2>1, <2>2, <2>3, WalkersKeep
<1> QED
  BY <1>13, <1>14, <1>15, <1>16, <1>17, <1>18, <1>19, <1>20, <1>21, <1>22, <1>23 DEF ListInv

(* A write moves the key to the last base; the walks that may miss it for  *)
(* that have an excuse. *)
LEMMA RewriteKeepsList ==
  ASSUME IInv, ListInv, WalkInv, Rewrite
  PROVE  ListInv' /\ WalkInv'
<1>1. /\ mutex = Nobody /\ home' = Last(bases) /\ cached' = TRUE
      /\ excuse' = excuse \cup {t \in Threads : pc[t] # "idle"}
      /\ UNCHANGED <<bases, prev, born, place, open, sorted, mutex, job, phase, group, todo>>
      /\ UNCHANGED <<asleep, pc, at, tries, result, lookups, rounds, since, crashed>>
  BY DEF Rewrite, list, walk, sorter
<1>2. ~Adding /\ phase = "idle" /\ group = <<>>
  BY <1>1, OwnersFacts
<1>3. /\ Listed' = Listed /\ Grouped' = Grouped /\ ~Swapping /\ ~Swapping' /\ Extra' = Extra
      /\ (Adding' <=> Adding) /\ \A x : Gone(x)' <=> Gone(x)
  BY <1>1, <1>2 DEF Listed, Grouped, Swapping, Extra, Adding, Gone
<1>4. Last(bases) \in Listed /\ Last(bases) \in Nodes
  BY ListFacts DEF Nodes
<1>5. Types'
  BY <1>1, <1>4 DEF ListInv, Types
<1>6. Owners' /\ GroupInList' /\ OpenBases' /\ HomeInv'
  BY <1>1, <1>2, <1>3, <1>4 DEF ListInv, Owners, GroupInList, OpenBases, HomeInv, Replaced
<1>7. Ordered' /\ PlacesDiffer' /\ Links' /\ NoSkip' /\ OpenPrev'
  <2>1. UNCHANGED <<list, open>> /\ Replaced' = Replaced
    BY <1>1 DEF list, Replaced
  <2> QED
    BY <1>1, <1>3, <2>1, SameListKeeps
<1>8. WalkInv'
  <2>1. \A u \in Threads : (Walking(u)' <=> Walking(u)) /\ (Walking(u) => pc'[u] = pc[u])
    BY <1>1 DEF Walking
  <2>2. \A u \in Threads : Walking(u) => u \in excuse'
    BY <1>1 DEF Walking
  <2>3. born' \in Nat /\ born <= born'
    BY <1>1, ListFacts
  <2> QED
    BY <1>1, <1>3, <2>1, <2>2, <2>3, WalkersKeep
<1> QED
  BY <1>5, <1>6, <1>7, <1>8 DEF ListInv

(* The sorter takes a group of bases that stay in the list for now. *)
LEMMA StartKeepsList ==
  ASSUME IInv, ListInv, WalkInv, CanStart, UNCHANGED list, NEW j \in {"merge", "indexsort"},
         NEW g \in Seq(Bases), Start(j, g), g # <<>>, Range(g) \subseteq Old,
         Ascending(g, place)
  PROVE  ListInv' /\ WalkInv'
<1>1. /\ mutex = Nobody /\ mutex' = Sorter /\ job' = j /\ phase' = "lock" /\ phase = "idle"
      /\ group' = g /\ todo' = g /\ rounds < MaxRounds
      /\ UNCHANGED <<bases, prev, born, place, open, sorted, home, cached>>
      /\ UNCHANGED <<asleep, pc, at, tries, result, lookups, rounds, excuse, since, crashed>>
  BY DEF CanStart, Start, list, record, walk, observers
<1>2. ~Adding /\ phase = "idle" /\ group = <<>>
  BY <1>1, OwnersFacts
<1>3. /\ Listed' = Listed /\ Grouped' = Range(g) /\ Grouped = {} /\ ~Swapping /\ ~Swapping'
      /\ Extra' = Extra /\ (Adding' <=> Adding) /\ \A x : Gone(x)' <=> Gone(x)
  BY <1>1, <1>2 DEF Listed, Grouped, Swapping, Extra, Adding, Gone, Range
<1>4. Range(g) \subseteq Listed \ {Last(bases)} /\ Listed \subseteq 1 .. born
  BY OldFacts, ListFacts
<1>5. Types'
  BY <1>1 DEF ListInv, Types
<1>6. Owners'
  BY <1>1, <1>2, <1>3, ThreadsAssumption, BasesAssumption DEF ListInv, Owners, Adding
<1>7. GroupInList' /\ OpenBases' /\ HomeInv'
  BY <1>1, <1>2, <1>3, <1>4 DEF ListInv, GroupInList, OpenBases, HomeInv
<1>8. Ordered' /\ PlacesDiffer' /\ Links' /\ NoSkip' /\ OpenPrev'
  <2>1. UNCHANGED <<list, open>> /\ phase # "link" /\ phase' # "link"
    BY <1>1 DEF list
  <2> QED
    BY <1>3, <2>1, SameListKeeps
<1>9. WalkInv'
  <2>1. \A u \in Threads : (Walking(u)' <=> Walking(u)) /\ (Walking(u) => pc'[u] = pc[u])
    BY <1>1 DEF Walking
  <2>2. born' \in Nat /\ born <= born'
    BY <1>1, ListFacts
  <2>3. home # Root => place[home] \in Nat
    BY HomeHeld, ListFacts
  <2> QED
    BY <1>1, <1>3, <2>1, <2>2, <2>3, WalkersKeep
<1> QED
  BY <1>5, <1>6, <1>7, <1>8, <1>9 DEF ListInv

(* The bases of a merge are in the order of the list. *)
LEMMA StartMergeKeepsList ==
  ASSUME IInv, ListInv, WalkInv, StartMerge
  PROVE  ListInv' /\ WalkInv'
<1>1. PICK n \in 1 .. Len(bases) - 1 : \E g \in [1 .. n -> Old] :
        /\ \A i, j \in 1 .. n : i < j => Position(g[i]) < Position(g[j])
        /\ Start("merge", g)
  BY DEF StartMerge
<1>2. PICK g \in [1 .. n -> Old] :
        /\ \A i, j \in 1 .. n : i < j => Position(g[i]) < Position(g[j])
        /\ Start("merge", g)
  BY <1>1
<1>3. n \in Nat /\ n >= 1
  BY ListFacts
<1>4. Old \subseteq Bases /\ Old \subseteq Listed
  BY OldFacts, ListFacts
<1>5. g \in Seq(Bases) /\ g # <<>> /\ Range(g) \subseteq Old
  <2>1. g \in Seq(Old) /\ Len(g) = n
    BY <1>3
  <2>2. g \in [1 .. n -> Bases]
    BY <1>2, <1>4
  <2> QED
    BY <1>3, <2>1, <2>2, EmptySeq DEF Range
<1>6. Ascending(g, place)
  <2> SUFFICES ASSUME NEW i \in 1 .. n, NEW j \in 1 .. n, i < j
               PROVE  place[g[i]] < place[g[j]]
    BY DEF Ascending
  <2>1. \A b \in Listed : Position(b) \in DOMAIN bases /\ bases[Position(b)] = b
    BY DEF Position, Listed, Range
  <2>2. Position(g[i]) < Position(g[j]) /\ g[i] \in Listed /\ g[j] \in Listed
    BY <1>2, <1>4
  <2> QED
    BY <2>1, <2>2 DEF ListInv, Ordered, Ascending
<1>7. CanStart /\ UNCHANGED list
  BY DEF StartMerge
<1> QED
  BY <1>2, <1>5, <1>6, <1>7, StartKeepsList

(* An index sort takes a single base. *)
LEMMA StartIndexsortKeepsList ==
  ASSUME IInv, ListInv, WalkInv, StartIndexsort
  PROVE  ListInv' /\ WalkInv'
<1>1. PICK b \in Old \ sorted : Start("indexsort", <<b>>)
  BY DEF StartIndexsort
<1>2. b \in Bases
  BY OldFacts, ListFacts
<1>3. <<b>> \in Seq(Bases) /\ <<b>> # <<>> /\ Range(<<b>>) \subseteq Old
  BY <1>2 DEF Range
<1>4. Ascending(<<b>>, place)
  BY DEF Ascending
<1>5. CanStart /\ UNCHANGED list
  BY DEF StartIndexsort
<1> QED
  BY <1>1, <1>3, <1>4, <1>5, StartKeepsList

(* A base without records is unlinked before the sorter waits for it. *)
LEMMA StartRemoveKeepsList ==
  ASSUME IInv, ListInv, WalkInv, StartRemove
  PROVE  ListInv' /\ WalkInv'
<1>1. PICK b \in Old \ {home} : Start("remove", <<b>>) /\ Unlink(b)
  BY DEF StartRemove
<1>2. /\ mutex = Nobody /\ mutex' = Sorter /\ job' = "remove" /\ phase' = "lock"
      /\ phase = "idle" /\ group' = <<b>> /\ todo' = <<b>> /\ rounds < MaxRounds
      /\ UNCHANGED <<born, place, open, sorted, home, cached>>
      /\ UNCHANGED <<asleep, pc, at, tries, result, lookups, rounds, excuse, since, crashed>>
  BY <1>1 DEF StartRemove, CanStart, Start, record, walk, observers
<1>3. ~Adding /\ phase = "idle" /\ group = <<>>
  BY <1>2, OwnersFacts
<1>4. b \in Listed /\ b # Last(bases) /\ b \in Bases /\ b \in 1 .. born
  BY OldFacts, ListFacts
<1>5. /\ Grouped' = {b} /\ Grouped = {} /\ ~Swapping /\ ~Swapping' /\ ~Adding'
      /\ \A x : Gone(x)' <=> Gone(x)
  BY <1>2, <1>3 DEF Grouped, Swapping, Adding, Gone, Range
<1>6. /\ Ordered' /\ PlacesDiffer' /\ Links' /\ NoSkip' /\ OpenPrev'
      /\ Listed' = Listed \ {b} /\ Extra = {} /\ Extra' = {}
      /\ prev' \in [Nodes -> Nodes \cup {NULL}]
  BY <1>1, <1>2, <1>3, <1>4, <1>5, UnlinkKeepsList
<1>7. Types'
  BY <1>2, <1>4, <1>6 DEF ListInv, Types
<1>8. Owners'
  BY <1>2, <1>3, <1>5, ThreadsAssumption, BasesAssumption DEF ListInv, Owners, Adding
<1>9. Ascending(group', place')
  BY <1>2 DEF Ascending
<1>10. GroupInList' /\ OpenBases'
  BY <1>2, <1>4, <1>5, <1>6, <1>9 DEF ListInv, GroupInList, OpenBases
<1>11. HomeInv'
  BY <1>1, <1>2, <1>5, <1>6 DEF ListInv, HomeInv
<1>12. WalkInv'
  <2>1. \A u \in Threads : (Walking(u)' <=> Walking(u)) /\ (Walking(u) => pc'[u] = pc[u])
    BY <1>2 DEF Walking
  <2>2. born' \in Nat /\ born <= born'
    BY <1>2, ListFacts
  <2>3. home # Root => place[home] \in Nat
    BY HomeHeld, ListFacts
  <2> QED
    BY <1>2, <1>5, <2>1, <2>2, <2>3, WalkersKeep
<1> QED
  BY <1>6, <1>7, <1>8, <1>10, <1>11, <1>12 DEF ListInv

(* Steps of the sorter that close nothing and move nothing in the list. *)
LEMMA SorterKeepsList ==
  ASSUME IInv, ListInv, WalkInv, Types', Owners', GroupInList', OpenBases', HomeInv',
         UNCHANGED <<list, open, home, walk, excuse, since>>, sorted \subseteq sorted',
         phase \in {"lock", "swap"}, phase' \in {"lock", "swap", "idle"},
         rounds' \in {rounds, rounds + 1}
  PROVE  ListInv' /\ WalkInv'
<1>1. /\ ~Swapping /\ ~Swapping' /\ open' = open /\ pc' = pc /\ at' = at /\ tries' = tries
      /\ result' = result /\ born' = born /\ place' = place /\ home' = home
  BY DEF Swapping, list, walk
<1>2. (Adding' <=> Adding) /\ \A x : Gone(x)' <=> Gone(x)
  BY <1>1 DEF Adding, Gone
<1>3. Ordered' /\ PlacesDiffer' /\ Links' /\ NoSkip' /\ OpenPrev'
  BY <1>2, SameListKeeps
<1>4. WalkInv'
  <2>1. \A u \in Threads : (Walking(u)' <=> Walking(u)) /\ (Walking(u) => pc'[u] = pc[u])
    BY <1>1 DEF Walking
  <2>2. born' \in Nat /\ born <= born'
    BY <1>1, ListFacts
  <2>3. home # Root => place[home] \in Nat
    BY HomeHeld, ListFacts
  <2>4. rounds' = rounds \/ rounds' = rounds + 1
    OBVIOUS
  <2> QED
    BY <1>1, <1>2, <2>1, <2>2, <2>3, <2>4, WalkersKeep
<1> QED
  BY <1>3, <1>4 DEF ListInv

(* eblob_base_wait_locked *)
LEMMA WaitLockedKeepsList ==
  ASSUME IInv, ListInv, WalkInv, WaitLocked
  PROVE  ListInv' /\ WalkInv'
<1>1. /\ phase = "lock" /\ phase' \in {"lock", "swap"}
      /\ UNCHANGED <<list, record, mutex, walk, job, group, lookups, rounds, observers>>
  BY DEF WaitLocked
<1>2. todo \in Seq(Bases) /\ todo # <<>>
  BY <1>1 DEF IInv, Shape
<1>3. todo' \in Seq(Bases) /\ asleep' \in BOOLEAN
  BY <1>2, HeadTailProperties DEF WaitLocked, ListInv, Types
<1>4. /\ bases' = bases /\ born' = born /\ place' = place /\ prev' = prev /\ open' = open
      /\ sorted' = sorted /\ home' = home /\ cached' = cached /\ pc' = pc /\ tries' = tries
      /\ result' = result /\ excuse' = excuse /\ since' = since /\ crashed' = crashed
  BY <1>1 DEF list, record, walk, observers
<1>5. /\ Listed' = Listed /\ Grouped' = Grouped /\ Extra' = Extra /\ ~Swapping /\ ~Swapping'
      /\ (Adding' <=> Adding)
  BY <1>1, <1>4 DEF Listed, Grouped, Extra, Swapping, Adding
<1>6. Types'
  BY <1>1, <1>3, <1>4 DEF ListInv, Types
<1>7. Owners'
  BY <1>1, <1>4, <1>5 DEF ListInv, Owners
<1>8. GroupInList' /\ OpenBases' /\ HomeInv'
  BY <1>1, <1>4, <1>5 DEF ListInv, GroupInList, OpenBases, HomeInv
<1> QED
  BY <1>1, <1>4, <1>6, <1>7, <1>8, SorterKeepsList

(* An index sort, or an attempt given up, ends. *)
LEMMA SwapKeepsList ==
  ASSUME IInv, ListInv, WalkInv, GiveUp \/ IndexsortSwap
  PROVE  ListInv' /\ WalkInv'
<1>1. /\ phase = "swap" /\ job # "remove" /\ Finish
      /\ UNCHANGED <<list, open, home>>
  BY DEF GiveUp, IndexsortSwap, record
<1>2. /\ phase' = "idle" /\ job' = "none" /\ group' = <<>> /\ todo' = <<>> /\ mutex' = Nobody
      /\ rounds' = rounds + 1 /\ UNCHANGED <<walk, asleep, lookups, excuse, since, crashed>>
  BY <1>1 DEF Finish, observers
<1>3. /\ bases' = bases /\ born' = born /\ place' = place /\ prev' = prev /\ open' = open
      /\ home' = home /\ pc' = pc /\ tries' = tries /\ result' = result
  BY <1>1, <1>2 DEF list, walk
<1>4. ~Adding /\ Grouped \subseteq Listed
  BY <1>1, OwnersFacts DEF ListInv, GroupInList
<1>5. /\ sorted \subseteq sorted' /\ sorted' \subseteq open /\ cached' \in BOOLEAN
      /\ home # Root /\ home \notin sorted' => (cached' <=> cached)
  <2>1. CASE GiveUp
    BY <2>1 DEF GiveUp, record, ListInv, Types
  <2>2. CASE IndexsortSwap
    <3>1. sorted' = sorted \cup Grouped /\ cached' = (cached /\ home \notin Grouped)
      BY <2>2 DEF IndexsortSwap, Grouped
    <3>2. sorted \subseteq open /\ Grouped \subseteq open
      BY <1>4 DEF ListInv, Types, OpenBases
    <3> QED
      BY <3>1, <3>2
  <2> QED
    BY <2>1, <2>2
<1>6. /\ Listed' = Listed /\ Grouped' = {} /\ Extra' = {} /\ Extra = {} /\ ~Swapping /\ ~Swapping'
      /\ ~Adding'
  BY <1>1, <1>2, <1>3, <1>4 DEF Listed, Grouped, Extra, Swapping, Adding, Range
<1>7. Types'
  <2>1. rounds < MaxRounds /\ rounds \in 0 .. MaxRounds
    BY <1>1 DEF ListInv, Owners, Types
  <2>2. rounds' \in 0 .. MaxRounds
    BY <1>2, <2>1, BasesAssumption
  <2> QED
    BY <1>2, <1>3, <1>5, <2>2 DEF ListInv, Types
<1>8. Owners'
  BY <1>2, <1>6, BasesAssumption DEF Owners, Adding
<1>9. GroupInList'
  BY <1>2, <1>6 DEF GroupInList, Ascending
<1>10. OpenBases'
  BY <1>3, <1>4, <1>6 DEF ListInv, OpenBases
<1>11. HomeInv'
  BY <1>3, <1>5, <1>6 DEF ListInv, HomeInv
<1> QED
  BY <1>1, <1>2, <1>5, <1>7, <1>8, <1>9, <1>10, <1>11, SorterKeepsList

(* The bases of the group are closed: the walks that stand on one, or are  *)
(* led to one, start again. *)
LEMMA CloseKeepsList ==
  ASSUME IInv, ListInv, WalkInv, Close
  PROVE  ListInv' /\ WalkInv'
<1>1. /\ phase \in {"close", "swap"} /\ (phase = "swap" => job = "remove")
      /\ open' = open \ Grouped /\ sorted' = sorted \ Grouped
      /\ UNCHANGED <<bases, prev, born, place, home, cached>>
  BY DEF Close, SortReset, Grouped, list
<1>2. /\ phase' = "idle" /\ job' = "none" /\ group' = <<>> /\ todo' = <<>> /\ mutex' = Nobody
      /\ rounds' = rounds + 1
      /\ UNCHANGED <<pc, at, tries, result, asleep, lookups, excuse, since, crashed>>
  BY DEF Close, Finish, observers, walk
<1>3. ~Adding /\ Grouped \cap Listed = {}
  BY <1>1, OwnersFacts DEF ListInv, GroupInList
<1>4. /\ Listed' = Listed /\ Grouped' = {} /\ Extra' = {} /\ Extra = {} /\ ~Swapping' /\ ~Adding'
  BY <1>1, <1>2, <1>3 DEF Listed, Grouped, Extra, Swapping, Adding, Range
<1>5. open' = Listed
  BY <1>1, <1>3, <1>4 DEF ListInv, OpenBases
<1>6. \A x : Gone(x) => Gone(x)'
  BY <1>1, <1>4 DEF Gone
<1>7. Types'
  <2>1. rounds < MaxRounds /\ rounds \in 0 .. MaxRounds
    BY <1>1 DEF ListInv, Owners, Types
  <2>2. rounds' \in 0 .. MaxRounds
    BY <1>2, <2>1, BasesAssumption
  <2> QED
    BY <1>1, <1>2, <2>2 DEF ListInv, Types
<1>8. Owners'
  BY <1>2, <1>4, BasesAssumption DEF Owners, Adding
<1>9. GroupInList'
  BY <1>2, <1>4 DEF GroupInList, Ascending
<1>10. OpenBases' /\ HomeInv'
  BY <1>1, <1>3, <1>4, <1>5 DEF ListInv, OpenBases, HomeInv
<1>11. Ordered'
  BY <1>1, <1>4 DEF ListInv, Ordered
<1>12. PlacesDiffer'
  BY <1>1 DEF ListInv, PlacesDiffer, Gone
<1>13. Links'
  <2>1. Linked(bases, prev)
    BY <1>1, <1>3, ListLinked
  <2> QED
    BY <1>1, <1>2, <1>4, <2>1 DEF ListInv, Links, Linked
<1>14. NoSkip'
  BY <1>1, <1>4, <1>6 DEF ListInv, NoSkip, Reaches
<1>15. OpenPrev'
  <2> SUFFICES ASSUME NEW x \in Listed \cup {Root} PROVE prev[x] \in Listed \cup {Root, NULL}
    BY <1>1, <1>5 DEF OpenPrev
  <2> DEFINE n == Len(bases)
  <2>1. n \in Nat /\ DOMAIN bases = 1 .. n
    BY ListFacts
  <2>2. \A i : Node(bases, i) = IF i = n + 1 THEN Root ELSE bases[i]
    BY DEF Node
  <2>3. \A i \in 1 .. n + 1 : prev[Node(bases, i)] = Pred(bases, i)
    BY <1>1, <1>3, ListLinked DEF Linked
  <2> HIDE DEF n
  <2>4. PICK i \in 1 .. n + 1 : Node(bases, i) = x
    <3>1. CASE x = Root
      <4>1. n + 1 \in 1 .. n + 1
        BY <2>1
      <4> QED
        BY <2>2, <3>1, <4>1
    <3>2. CASE x \in Listed
      <4>1. PICK i \in 1 .. n : bases[i] = x
        BY <2>1, <3>2 DEF Listed, Range
      <4>2. i \in 1 .. n + 1 /\ i # n + 1
        BY <2>1
      <4> QED
        BY <2>2, <4>1, <4>2
    <3> QED
      BY <3>1, <3>2
  <2>5. Pred(bases, i) \in Listed \cup {Root}
    <3>1. i # 1 => i - 1 \in DOMAIN bases
      BY <2>1
    <3> QED
      BY <3>1 DEF Pred, Listed, Range
  <2> QED
    BY <2>3, <2>4, <2>5
<1>16. WalkInv'
  <2>1. \A u \in Threads : (Walking(u)' <=> Walking(u)) /\ (Walking(u) => pc'[u] = pc[u])
    BY <1>2 DEF Walking
  <2>2. born' \in Nat /\ born <= born'
    BY <1>1, ListFacts
  <2>3. home # Root => home \notin Grouped
    BY <1>3, <1>4 DEF ListInv, HomeInv
  <2>4. home # Root => place[home] \in Nat
    BY HomeHeld, ListFacts
  <2> QED
    BY <1>1, <1>2, <1>6, <2>1, <2>2, <2>3, <2>4, WalkersKeep
<1> QED
  BY <1>7, <1>8, <1>9, <1>10, <1>11, <1>12, <1>13, <1>14, <1>15, <1>16 DEF ListInv

(* The first base of a group is one of the group. *)
LEMMA ReplacedFacts ==
  ASSUME IInv, group # <<>>
  PROVE  /\ Replaced \in Grouped /\ Len(group) \in Nat /\ Len(group) >= 1
         /\ DOMAIN group = 1 .. Len(group) /\ group \in Seq(Bases)
<1>1. group \in Seq(Bases) /\ Len(group) # 0
  BY EmptySeq DEF IInv, Shape
<1>2. Len(group) \in Nat /\ DOMAIN group = 1 .. Len(group)
  BY <1>1
<1>3. 1 \in DOMAIN group
  BY <1>1, <1>2
<1> QED
  BY <1>1, <1>2, <1>3 DEF Replaced, Grouped, Range

(* Places below the newest base do not change when a base is born. *)
LEMMA AscendingSame ==
  ASSUME NEW s, NEW f, NEW g, \A x \in Range(s) : f[x] = g[x], Ascending(s, f)
  PROVE  Ascending(s, g)
  BY DEF Ascending, Range

(* datasort_swap_memory: the successor of the first base of the group      *)
(* leads to the merged base, which has the place of that base. *)
LEMMA SwapMemoryKeepsList ==
  ASSUME IInv, ListInv, WalkInv, SwapMemory
  PROVE  ListInv' /\ WalkInv'
<1> DEFINE n == born + 1
           R == Replaced
<1>1. /\ phase = "swap" /\ job = "merge" /\ born' = n /\ n \in Bases /\ n \notin 1 .. born
      /\ open' = open \cup {n} /\ sorted' = sorted \cup {n}
      /\ home' = (IF home \in Grouped THEN n ELSE home)
      /\ cached' = (cached /\ home \notin Grouped) /\ phase' = "link"
      /\ UNCHANGED <<bases, mutex, job, group, todo, asleep, lookups, rounds>>
      /\ UNCHANGED <<pc, at, tries, result, excuse, since, crashed>>
  BY ListFacts, BasesAssumption DEF SwapMemory, Bases, Grouped, walk, observers
<1>2. ~Adding /\ group # <<>> /\ mutex = Sorter
  BY <1>1, OwnersFacts
<1>3. R \in Grouped /\ Grouped \subseteq Listed \ {Last(bases)}
  BY <1>1, <1>2, ReplacedFacts DEF ListInv, GroupInList
<1>4. /\ born \in Nat /\ 1 .. born \subseteq Bases /\ Listed \subseteq 1 .. born
      /\ open \subseteq 1 .. born /\ Root \notin Bases
  BY ListFacts
<1>5. PICK r \in 1 .. Len(bases) - 1 :
        /\ NextOf(R) = bases[r + 1] /\ bases[r + 1] \in Listed
        /\ \A z \in Listed : place[z] < place[bases[r + 1]] => z = R \/ place[z] < place[R]
        /\ \A i \in 1 .. Len(bases) + 1 : Node(bases, i) = bases[r + 1] <=> i = r + 1
        /\ \A i \in 1 .. Len(bases) + 1 : Pred(bases, i) = R <=> i = r + 1
  BY <1>3, NextFacts
<1> DEFINE m == bases[r + 1]
<1>6. m \in Listed /\ m \in 1 .. born /\ m \in Bases /\ m # Root /\ m # n /\ n # Root
      /\ R \in 1 .. born /\ R \in Bases
  BY <1>1, <1>3, <1>4, <1>5
<1> HIDE DEF m, R
<1>7. /\ place' \in [Bases -> 0 .. MaxBases] /\ place'[n] = place[R]
      /\ \A x \in 1 .. born : place'[x] = place[x] /\ place[x] \in 1 .. x /\ place[x] \in Nat
  <2>1. place' = [place EXCEPT ![n] = place[R]] /\ place \in [Bases -> 0 .. MaxBases]
    BY DEF SwapMemory, ListInv, Types, R
  <2>2. \A x \in 1 .. born : x \in Bases /\ x # n /\ place[x] \in 1 .. x
    BY <1>1, <1>4 DEF ListInv, Ordered
  <2> QED
    BY <1>1, <1>6, <2>1, <2>2
<1>8. /\ prev' \in [Nodes -> Nodes \cup {NULL}] /\ prev'[m] = n
      /\ \A x \in Nodes : x # m => prev'[x] = prev[x]
  <2>1. prev' = [prev EXCEPT ![m] = n] /\ prev \in [Nodes -> Nodes \cup {NULL}]
    BY <1>5 DEF SwapMemory, ListInv, Types, R, m
  <2> QED
    BY <1>1, <1>6, <2>1 DEF Nodes
<1>9. /\ Listed' = Listed /\ Grouped' = Grouped /\ ~Swapping /\ Swapping' /\ ~Adding'
      /\ Extra = {} /\ Extra' = {n} /\ Replaced' = R
  BY <1>1, <1>2 DEF Listed, Grouped, Swapping, Adding, Extra, Replaced, R
<1>10. \A x \in 1 .. born : Gone(x) => Gone(x)'
  BY <1>1, <1>9 DEF Gone
<1>11. Types'
  <2>1. cached' \in BOOLEAN /\ home' \in Nodes
    BY <1>1 DEF ListInv, Types, Nodes
  <2> QED
    BY <1>1, <1>7, <1>8, <2>1 DEF ListInv, Types
<1>12. Owners'
  BY <1>1, <1>2, <1>9 DEF ListInv, Owners, Adding
<1>13. Ordered'
  <2>1. \A b \in 1 .. n : place'[b] \in 1 .. b
    BY <1>4, <1>6, <1>7
  <2>2. Ascending(bases, place')
    BY <1>4, <1>7, AscendingSame DEF ListInv, Ordered, Listed
  <2>3. Listed \subseteq 1 .. n /\ n \notin Listed
    BY <1>4
  <2> QED
    BY <1>1, <1>9, <2>1, <2>2, <2>3 DEF ListInv, Ordered
<1>14. GroupInList'
  <2>1. Grouped \subseteq 1 .. born /\ Grouped \subseteq 1 .. n
    BY <1>3, <1>4
  <2>2. Ascending(group, place')
    BY <1>7, <2>1, AscendingSame DEF ListInv, GroupInList, Grouped
  <2> QED
    BY <1>1, <1>3, <1>6, <1>7, <1>9, <2>1, <2>2 DEF GroupInList
<1>15. OpenBases'
  BY <1>1, <1>9 DEF ListInv, OpenBases
<1>16. PlacesDiffer'
  <2> SUFFICES ASSUME NEW x \in open', NEW y \in open', x \notin Grouped, y \notin Grouped,
                      place'[x] = place'[y]
               PROVE  x = y
    BY <1>9 DEF PlacesDiffer, Gone
  <2>1. \A z \in open : place'[z] = place[z] /\ ~Gone(z)
    BY <1>4, <1>7, <1>9 DEF Gone
  <2>2. R \in open
    BY <1>3 DEF ListInv, OpenBases
  <2>3. \A z \in open : place'[z] = place'[n] => z = R
    BY <1>7, <2>1, <2>2 DEF ListInv, PlacesDiffer
  <2>4. \A z, w \in open : place'[z] = place'[w] => z = w
    BY <2>1 DEF ListInv, PlacesDiffer
  <2> QED
    BY <1>1, <1>3, <2>3, <2>4
<1>17. Links'
  <2>1. \A x \in Bases : x > n \/ x \in {n} => prev'[x] = NULL
    <3> SUFFICES ASSUME NEW x \in Bases, x > n \/ x = n PROVE prev'[x] = NULL
      OBVIOUS
    <3>1. x > born /\ x # m /\ x \in Nodes
      BY <1>4, <1>6 DEF Nodes, Bases
    <3> QED
      BY <1>8, <3>1 DEF ListInv, Links
  <2>2. \A x \in Nodes : prev'[x] \in {Root, NULL} \cup 1 .. n
    <3>1. n \in 1 .. n /\ 1 .. born \subseteq 1 .. n
      BY <1>4
    <3> QED
      BY <1>8, <3>1 DEF ListInv, Links
  <2>3. ASSUME NEW i \in 1 .. Len(bases) + 1
        PROVE  prev'[Node(bases, i)] = IF Pred(bases, i) = R THEN n ELSE Pred(bases, i)
    <3>1. prev[Node(bases, i)] = Pred(bases, i)
      BY <1>1, <1>2, ListLinked DEF Linked
    <3>2. Node(bases, i) \in Nodes
      BY ListFacts, NodesDiffer DEF ListInv, Ordered
    <3>3. Node(bases, i) = m <=> Pred(bases, i) = R
      BY <1>5 DEF m
    <3> QED
      BY <1>8, <3>1, <3>2, <3>3
  <2> QED
    BY <1>1, <1>9, <2>1, <2>2, <2>3 DEF Links
<1>18. HomeInv'
  BY <1>1, <1>3, <1>4, <1>9 DEF ListInv, HomeInv
<1>19. NoSkip'
  <2> SUFFICES ASSUME NEW x \in {Root} \cup 1 .. n, NEW z \in Listed,
                      IF x = Root THEN TRUE ELSE place'[z] < place'[x],
                      NEW y, y = prev'[x]
               PROVE  y = NULL \/ Reaches(y, z)'
    BY <1>1, <1>9 DEF NoSkip, Reaches, Gone
  <2>1. CASE x = m
    <3>1. place[z] < place[m]
      BY <1>4, <1>6, <1>7, <2>1
    <3>2. z = R \/ place[z] < place[R]
      BY <1>5, <3>1 DEF m
    <3>3. y = n /\ n \in 1 .. n /\ place'[n] >= place'[z]
      BY <1>4, <1>6, <1>7, <1>8, <2>1, <3>2 DEF Nodes
    <3> QED
      BY <1>1, <3>3 DEF Reaches
  <2>2. CASE x = n
    <3>1. prev[n] = NULL /\ prev'[n] = prev[n]
      BY <1>1, <1>4, <1>6, <1>8 DEF ListInv, Links, Bases, Nodes
    <3> QED
      BY <2>2, <3>1
  <2>3. CASE x # m /\ x # n
    <3>1. x \in {Root} \cup 1 .. born /\ x \in Nodes
      BY <1>4, <2>3 DEF Nodes
    <3>2. x # Root => place[z] < place[x]
      BY <1>4, <1>7, <3>1
    <3>3. y = prev[x]
      BY <1>8, <2>3, <3>1
    <3>4. y = NULL \/ Reaches(y, z)
      BY <3>1, <3>2, <3>3 DEF ListInv, NoSkip
    <3>5. Reaches(y, z) => Reaches(y, z)'
      <4>1. y \in 1 .. born => y \in 1 .. n
        BY <1>4
      <4> QED
        BY <1>1, <1>4, <1>7, <1>10, <4>1 DEF Reaches
    <3> QED
      BY <3>4, <3>5
  <2> QED
    BY <2>1, <2>2, <2>3
<1>20. OpenPrev'
  <2>1. prev[n] = NULL /\ prev'[n] = prev[n]
    BY <1>1, <1>4, <1>6, <1>8 DEF ListInv, Links, Bases, Nodes
  <2> QED
    BY <1>1, <1>4, <1>8, <2>1 DEF ListInv, OpenPrev, Nodes
<1>21. WalkInv'
  <2>1. \A u \in Threads : (Walking(u)' <=> Walking(u)) /\ (Walking(u) => pc'[u] = pc[u])
    BY <1>1 DEF Walking
  <2>2. born' \in Nat /\ born <= born'
    BY <1>1, <1>4
  <2>3. home # Root /\ home \in sorted =>
            /\ home' # Root /\ home' \in sorted'
            /\ place'[home'] \in Nat /\ place'[home'] <= place[home]
    <3> SUFFICES ASSUME home # Root, home \in sorted
                 PROVE  /\ home' # Root /\ home' \in sorted'
                        /\ place'[home'] \in Nat /\ place'[home'] <= place[home]
      OBVIOUS
    <3>1. home \in 1 .. born
      BY <1>4, HomeHeld
    <3>2. CASE home \notin Grouped
      BY <1>1, <1>7, <3>1, <3>2
    <3>3. CASE home \in Grouped
      <4>1. PICK i \in DOMAIN group : home = group[i]
        BY <3>3 DEF Grouped, Range
      <4>2. i = 1 \/ (1 < i /\ 1 \in DOMAIN group)
        BY <1>2, <4>1, ReplacedFacts
      <4>3. home = R \/ place[R] < place[home]
        BY <4>1, <4>2 DEF ListInv, GroupInList, Ascending, R, Replaced
      <4> QED
        BY <1>1, <1>6, <1>7, <3>1, <3>3, <4>3
    <3> QED
      BY <3>2, <3>3
  <2> QED
    BY <1>1, <1>7, <1>10, <2>1, <2>2, <2>3, WalkersKeep
<1> QED
  BY <1>11, <1>12, <1>13, <1>14, <1>15, <1>16, <1>17, <1>18, <1>19, <1>20, <1>21 DEF ListInv

(* What remains of a group after its first base. *)
LEMMA TailFacts ==
  ASSUME NEW s \in Seq(Bases), s # <<>>, NEW f \in [Bases -> Nat], Ascending(s, f)
  PROVE  /\ Tail(s) \in Seq(Bases) /\ Ascending(Tail(s), f)
         /\ Head(s) = s[1] /\ Head(s) \in Range(s)
         /\ Range(Tail(s)) = Range(s) \ {Head(s)}
         /\ Len(s) # 1 => Tail(s) # <<>>
         /\ Len(s) = 1 => Range(s) = {Head(s)}
<1> DEFINE n == Len(s)
           r == Tail(s)
<1>1. n \in Nat /\ n # 0 /\ DOMAIN s = 1 .. n
  BY EmptySeq
<1>2. /\ r \in Seq(Bases) /\ Len(r) = n - 1 /\ Head(s) = s[1]
      /\ \A i \in 1 .. n - 1 : r[i] = s[i + 1]
  BY HeadTailProperties
<1>4. \A i, j \in DOMAIN s : s[i] = s[j] => i = j
  BY AscendingDiffer
<1> HIDE DEF n, r
<1>3. DOMAIN r = 1 .. n - 1 /\ (n # 1 => r # <<>>)
  <2>1. DOMAIN r = 1 .. Len(r)
    BY <1>2
  <2>2. n # 1 => Len(r) # 0
    BY <1>1, <1>2
  <2> QED
    BY <1>2, <2>1, <2>2, EmptySeq
<1>5. ASSUME NEW i \in 1 .. n - 1, NEW j \in 1 .. n - 1, i < j
      PROVE  f[r[i]] < f[r[j]]
  <2>1. i + 1 \in 1 .. n /\ j + 1 \in 1 .. n /\ i + 1 < j + 1
    BY <1>1, <1>5
  <2> QED
    BY <1>1, <1>2, <2>1 DEF Ascending
<1>6. Ascending(r, f)
  BY <1>3, <1>5 DEF Ascending
<1>7. ASSUME NEW x \in Range(r) PROVE x \in Range(s) /\ x # s[1]
  <2>1. PICK i \in 1 .. n - 1 : x = r[i]
    BY <1>3, <1>7 DEF Range
  <2>2. i + 1 \in 1 .. n /\ i + 1 # 1 /\ 1 \in 1 .. n
    BY <1>1
  <2> QED
    BY <1>1, <1>2, <1>4, <2>1, <2>2 DEF Range
<1>8. ASSUME NEW x \in Range(s), x # s[1] PROVE x \in Range(r)
  <2>1. PICK i \in 1 .. n : x = s[i]
    BY <1>1, <1>8 DEF Range
  <2>2. i - 1 \in 1 .. n - 1 /\ (i - 1) + 1 = i
    BY <1>1, <1>8, <2>1
  <2>3. r[i - 1] = x
    BY <1>2, <2>1, <2>2
  <2> QED
    BY <1>3, <2>2, <2>3 DEF Range
<1>9. s[1] \in Range(s) /\ (n = 1 => Range(s) = {s[1]})
  BY <1>1 DEF Range
<1> QED
  BY <1>2, <1>3, <1>6, <1>7, <1>8, <1>9 DEF n, r

(* The merged base takes the place of the first base of the group, in the  *)
(* list and in the order. *)
LEMMA LinkMergedKeepsList ==
  ASSUME IInv, ListInv, WalkInv, LinkMerged
  PROVE  ListInv' /\ WalkInv'
<1> DEFINE R == Replaced
           n == Len(bases)
<1>1. /\ phase = "link" /\ phase' = (IF Len(group) = 1 THEN "close" ELSE "unlink")
      /\ bases' = ReplaceAll(bases, R, born) /\ todo' = Tail(group)
      /\ UNCHANGED <<born, place, open, sorted, home, cached, mutex, job, group, asleep>>
      /\ UNCHANGED <<pc, at, tries, result, lookups, rounds, excuse, since, crashed>>
  BY DEF LinkMerged, record, walk, observers
<1>2. ~Adding /\ group # <<>> /\ mutex = Sorter /\ job = "merge"
  BY <1>1, OwnersFacts DEF ListInv, Owners, Swapping
<1>3. R \in Grouped /\ Grouped \subseteq Listed \ {Last(bases)} /\ place[born] = place[R]
  BY <1>1, <1>2, ReplacedFacts DEF ListInv, GroupInList
<1>4. /\ born \in Nat /\ born \in Bases /\ 1 .. born \subseteq Bases /\ Listed \subseteq 1 .. born
      /\ open \subseteq 1 .. born /\ Root \notin Bases /\ place \in [Bases -> Nat]
  BY ListFacts
<1>5. n \in Nat /\ n >= 1 /\ DOMAIN bases = 1 .. n /\ bases \in Seq(Bases)
  BY ListFacts
<1>6. PICK r \in 1 .. n - 1 :
        /\ bases[r] = R /\ \A i \in 1 .. n : bases[i] = R => i = r
        /\ \A i \in 1 .. n + 1 : Pred(bases, i) = R <=> i = r + 1
  BY <1>3, NextFacts
<1>7. bases' = [i \in 1 .. n |-> IF bases[i] = R THEN born ELSE bases[i]]
  BY <1>1 DEF ReplaceAll
<1>8. bases' \in Seq(Bases) /\ Len(bases') = n /\ DOMAIN bases' = 1 .. n
  BY <1>4, <1>5, <1>7
<1>9. Last(bases) = bases[n] /\ Last(bases') = bases'[n]
  BY <1>8 DEF Last
<1>10. /\ \A i : Node(bases, i) = IF i = n + 1 THEN Root ELSE bases[i]
       /\ \A i : Node(bases', i) = IF i = n + 1 THEN Root ELSE bases'[i]
  BY <1>8 DEF Node
<1>11. \A i \in 1 .. n + 1 : prev[Node(bases, i)] = IF Pred(bases, i) = R THEN born
                                                     ELSE Pred(bases, i)
  BY <1>1, <1>2 DEF ListInv, Links
<1> HIDE DEF n, R
<1>12. r \in 1 .. n /\ r # n /\ r + 1 \in 1 .. n /\ bases'[r] = born
       /\ \A i \in 1 .. n : i # r => bases'[i] = bases[i]
  BY <1>5, <1>6, <1>7
<1>13. Extra = {born} /\ Extra' = {} /\ born \notin Listed /\ Grouped' = Grouped
       /\ Swapping /\ Swapping' /\ ~Adding'
  BY <1>1, <1>2 DEF Extra, Grouped, Swapping, Adding, ListInv, Ordered
<1>14. Listed' = (Listed \ {R}) \cup {born}
  <2>1. Listed = {bases[i] : i \in 1 .. n} /\ Listed' = {bases'[i] : i \in 1 .. n}
    BY <1>5, <1>8 DEF Listed, Range
  <2> QED
    BY <1>6, <1>12, <2>1
<1>15. \A x : Gone(x)' <=> Gone(x)
  BY <1>1, <1>13 DEF Gone
<1>16. R \in Listed /\ R \in 1 .. born /\ R \in Bases /\ R # born
  BY <1>3, <1>4, <1>13
<1>17. /\ prev' \in [Nodes -> Nodes \cup {NULL}] /\ prev'[born] = prev[R]
       /\ \A x \in Nodes : x # born => prev'[x] = prev[x]
  <2>1. prev' = [prev EXCEPT ![born] = prev[R]] /\ prev \in [Nodes -> Nodes \cup {NULL}]
    BY DEF LinkMerged, ListInv, Types, R
  <2> QED
    BY <1>4, <1>16, <2>1 DEF Nodes
<1>18. /\ Tail(group) \in Seq(Bases) /\ Ascending(Tail(group), place) /\ Head(group) = R
       /\ Range(Tail(group)) = Grouped \ {R}
       /\ Len(group) # 1 => Tail(group) # <<>>
       /\ Len(group) = 1 => Grouped = {R}
  BY <1>2, <1>4, ReplacedFacts, TailFacts DEF ListInv, GroupInList, Grouped, R, Replaced
<1>19. Types'
  BY <1>1, <1>17, <1>18 DEF ListInv, Types
<1>20. Owners'
  BY <1>1, <1>2, <1>13 DEF ListInv, Owners, Adding
<1>21. Ordered'
  <2>1. \A i \in 1 .. n : place[bases'[i]] = place[bases[i]]
    BY <1>3, <1>6, <1>12
  <2>2. Ascending(bases', place)
    BY <1>5, <1>8, <2>1 DEF ListInv, Ordered, Ascending
  <2>3. bases' # <<>> /\ born \in 1 .. born
    BY <1>4, <1>5, <1>8 DEF Bases
  <2> QED
    BY <1>1, <1>4, <1>13, <1>14, <2>2, <2>3 DEF ListInv, Ordered
<1>22. GroupInList'
  <2>1. Last(bases') = Last(bases) /\ Last(bases) \notin Grouped
    BY <1>3, <1>5, <1>9, <1>12
  <2>2. Grouped \cap Listed' = Grouped \ {R}
    BY <1>3, <1>13, <1>14
  <2>3. Len(group) = 1 => Grouped \cap Listed' = {}
    BY <1>18, <2>2
  <2> QED
    BY <1>1, <1>2, <1>13, <1>18, <2>1, <2>2, <2>3 DEF ListInv, GroupInList
<1>23. OpenBases'
  BY <1>1, <1>3, <1>13, <1>14 DEF ListInv, OpenBases
<1>24. PlacesDiffer'
  BY <1>1, <1>15 DEF ListInv, PlacesDiffer
<1>25. Links'
  <2>1. \A x \in Bases : x > born => prev'[x] = NULL
    <3>1. \A x \in Bases : x > born => x # born /\ x \in Nodes
      BY <1>4 DEF Bases, Nodes
    <3> QED
      BY <1>17, <3>1 DEF ListInv, Links
  <2>2. \A x \in Nodes : prev'[x] \in {Root, NULL} \cup 1 .. born
    BY <1>16, <1>17 DEF ListInv, Links, Nodes
  <2>3. ASSUME NEW i \in 1 .. n + 1
        PROVE  prev'[Node(bases', i)] = Pred(bases', i)
    <3>1. CASE i = r
      <4>1. Node(bases', i) = born /\ Node(bases, i) = R
        BY <1>5, <1>6, <1>10, <1>12, <3>1
      <4>2. Pred(bases, i) # R
        BY <1>5, <1>6, <1>12, <3>1
      <4>3. Pred(bases', i) = Pred(bases, i)
        BY <1>5, <1>12, <3>1 DEF Pred
      <4> QED
        BY <1>11, <1>17, <4>1, <4>2, <4>3
    <3>2. CASE i # r
      <4>1. Node(bases', i) = Node(bases, i) /\ Node(bases, i) \in Nodes /\ Node(bases, i) # born
        <5>1. i = n + 1 \/ i \in 1 .. n
          BY <1>5
        <5>2. i = n + 1 => Node(bases, i) = Root /\ Node(bases', i) = Root
          BY <1>10
        <5>3. i # n + 1 => Node(bases, i) = bases[i] /\ Node(bases', i) = bases[i]
          BY <1>10, <1>12, <3>2, <5>1
        <5>4. i # n + 1 => bases[i] \in Listed
          BY <1>5, <5>1 DEF Listed, Range
        <5> QED
          BY <1>4, <1>13, <5>1, <5>2, <5>3, <5>4 DEF Nodes
      <4>2. Pred(bases', i) = IF Pred(bases, i) = R THEN born ELSE Pred(bases, i)
        <5>1. CASE i = r + 1
          <6>1. Pred(bases', i) = bases'[r] /\ Pred(bases, i) = R
            BY <1>5, <1>6, <1>12, <5>1 DEF Pred
          <6> QED
            BY <1>12, <6>1
        <5>2. CASE i # r + 1
          <6>1. Pred(bases, i) # R
            BY <1>6, <5>2
          <6>2. i = 1 \/ (i - 1 \in 1 .. n /\ i - 1 # r)
            BY <1>5, <5>2
          <6>3. Pred(bases', i) = Pred(bases, i)
            BY <1>12, <6>2 DEF Pred
          <6> QED
            BY <6>1, <6>3
        <5> QED
          BY <5>1, <5>2
      <4> QED
        BY <1>11, <1>17, <4>1, <4>2
    <3> QED
      BY <3>1, <3>2
  <2> QED
    BY <1>1, <1>8, <1>13, <2>1, <2>2, <2>3 DEF Links
<1>26. HomeInv'
  BY <1>1, <1>3, <1>13, <1>14 DEF ListInv, HomeInv
<1>27. NoSkip'
  <2> SUFFICES ASSUME NEW x \in {Root} \cup 1 .. born, NEW z \in Listed',
                      IF x = Root THEN TRUE ELSE place[z] < place[x]
               PROVE  prev'[x] = NULL \/ Reaches(prev'[x], z)
    BY <1>1, <1>15 DEF NoSkip, Reaches
  <2>1. PICK w \in Listed : place[w] = place[z]
    BY <1>3, <1>14, <1>16
  <2>2. PICK v \in {Root} \cup 1 .. born : prev'[x] = prev[v] /\ (v = Root <=> x = Root)
                                           /\ (x # Root => place[v] = place[x])
    <3>1. CASE x = born
      BY <1>3, <1>4, <1>16, <1>17, <3>1
    <3>2. CASE x # born
      BY <1>4, <1>17, <3>2 DEF Nodes
    <3> QED
      BY <3>1, <3>2
  <2>3. prev[v] = NULL \/ Reaches(prev[v], w)
    BY <2>1, <2>2 DEF ListInv, NoSkip
  <2> QED
    BY <2>1, <2>2, <2>3 DEF Reaches
<1>28. OpenPrev'
  <2>1. R \in open
    BY <1>16 DEF ListInv, OpenBases
  <2> QED
    BY <1>1, <1>4, <1>17, <2>1 DEF ListInv, OpenPrev, Nodes
<1>29. WalkInv'
  <2>1. \A u \in Threads : (Walking(u)' <=> Walking(u)) /\ (Walking(u) => pc'[u] = pc[u])
    BY <1>1 DEF Walking
  <2>2. born' \in Nat /\ born <= born'
    BY <1>1, <1>4
  <2>3. home # Root => place[home] \in Nat
    BY HomeHeld, ListFacts
  <2> QED
    BY <1>1, <1>15, <2>1, <2>2, <2>3, WalkersKeep
<1> QED
  BY <1>19, <1>20, <1>21, <1>22, <1>23, <1>24, <1>25, <1>26, <1>27, <1>28, <1>29 DEF ListInv

(* Then the other bases of the group leave the list, one after the other. *)
LEMMA UnlinkMergedKeepsList ==
  ASSUME IInv, ListInv, WalkInv, UnlinkMerged
  PROVE  ListInv' /\ WalkInv'
<1> DEFINE b == Head(todo)
<1>1. /\ phase = "unlink" /\ Unlink(b) /\ todo' = Tail(todo)
      /\ phase' = (IF Len(todo) = 1 THEN "close" ELSE "unlink")
      /\ UNCHANGED <<born, place, open, sorted, home, cached, mutex, job, group, asleep>>
      /\ UNCHANGED <<pc, at, tries, result, lookups, rounds, excuse, since, crashed>>
  BY DEF UnlinkMerged, record, walk, observers
<1>2. ~Adding /\ group # <<>> /\ mutex = Sorter /\ job = "merge"
  BY <1>1, OwnersFacts DEF ListInv, Owners, Swapping
<1>3. /\ Range(todo) = Grouped \cap Listed /\ Last(bases) \notin Grouped
      /\ todo # <<>> /\ Ascending(todo, place) /\ todo \in Seq(Bases)
  BY <1>1 DEF ListInv, GroupInList, Types
<1>4. /\ Tail(todo) \in Seq(Bases) /\ Ascending(Tail(todo), place) /\ b \in Range(todo)
      /\ Range(Tail(todo)) = Range(todo) \ {b}
      /\ Len(todo) # 1 => Tail(todo) # <<>>
      /\ Len(todo) = 1 => Range(todo) = {b}
  BY <1>3, ListFacts, TailFacts
<1>5. b \in Listed /\ b \in Grouped /\ b # Last(bases)
  BY <1>3, <1>4
<1> HIDE DEF b
<1>6. /\ Grouped' = Grouped /\ Swapping /\ Swapping' /\ ~Adding'
      /\ \A x : Gone(x)' <=> Gone(x)
  BY <1>1, <1>2 DEF Grouped, Swapping, Adding, Gone
<1>7. /\ Ordered' /\ PlacesDiffer' /\ Links' /\ NoSkip' /\ OpenPrev'
      /\ Listed' = Listed \ {b} /\ Last(bases') = Last(bases)
      /\ Extra = {} /\ Extra' = {} /\ prev' \in [Nodes -> Nodes \cup {NULL}]
  BY <1>1, <1>2, <1>5, <1>6, UnlinkKeepsList
<1>8. Types'
  BY <1>1, <1>4, <1>7 DEF ListInv, Types
<1>9. Owners'
  BY <1>1, <1>2, <1>6 DEF ListInv, Owners, Adding
<1>10. GroupInList'
  <2>1. Grouped \cap Listed' = Range(Tail(todo))
    BY <1>3, <1>4, <1>7
  <2>2. Len(todo) = 1 => Grouped \cap Listed' = {}
    BY <1>4, <2>1
  <2> QED
    BY <1>1, <1>2, <1>3, <1>4, <1>6, <1>7, <2>1, <2>2 DEF ListInv, GroupInList
<1>11. OpenBases'
  BY <1>1, <1>5, <1>6, <1>7 DEF ListInv, OpenBases
<1>12. HomeInv'
  BY <1>1, <1>5, <1>6, <1>7 DEF ListInv, HomeInv
<1>13. WalkInv'
  <2>1. \A u \in Threads : (Walking(u)' <=> Walking(u)) /\ (Walking(u) => pc'[u] = pc[u])
    BY <1>1 DEF Walking
  <2>2. born' \in Nat /\ born <= born'
    BY <1>1, ListFacts
  <2>3. home # Root => place[home] \in Nat
    BY HomeHeld, ListFacts
  <2> QED
    BY <1>1, <1>6, <2>1, <2>2, <2>3, WalkersKeep
<1> QED
  BY <1>7, <1>8, <1>9, <1>10, <1>11, <1>12, <1>13 DEF ListInv

-----------------------------------------------------------------------------
(* The list of the beginning *)
LEMMA InitList == Init => ListInv /\ WalkInv
<1> SUFFICES ASSUME Init PROVE ListInv /\ WalkInv
  OBVIOUS
<1> DEFINE n == FirstBases
<1>1. /\ n \in Nat /\ n >= 1 /\ n <= MaxBases /\ MaxBases \in Nat /\ MaxRounds \in Nat
      /\ MaxLookups \in Nat /\ NULL \notin Nodes
  BY BasesAssumption
<1>2. /\ bases = [i \in 1 .. n |-> i] /\ born = n /\ open = 1 .. n
      /\ place = [b \in Bases |-> IF b <= n THEN b ELSE 0]
      /\ group = <<>> /\ phase = "idle" /\ mutex = Nobody /\ pc = [t \in Threads |-> "idle"]
  BY DEF Init
<1>3. /\ bases \in Seq(Bases) /\ Len(bases) = n /\ DOMAIN bases = 1 .. n
      /\ \A i \in 1 .. n : bases[i] = i
  BY <1>1, <1>2 DEF Bases
<1>4. Listed = 1 .. n /\ Grouped = {} /\ ~Swapping /\ ~Adding /\ Extra = {}
  BY <1>2, <1>3 DEF Listed, Grouped, Swapping, Adding, Extra, Range
<1>5. \A x \in 1 .. n : x \in Bases /\ place[x] = x /\ ~Gone(x)
  BY <1>1, <1>2, <1>4 DEF Bases, Gone
<1>6. /\ prev \in [Nodes -> Nodes \cup {NULL}] /\ prev[Root] = n
      /\ \A x \in 1 .. n : prev[x] = x - 1
      /\ \A x \in Bases : x > n => prev[x] = NULL
  <2>1. prev = [x \in Nodes |-> IF x = Root THEN n ELSE IF x <= n THEN x - 1 ELSE NULL]
    BY DEF Init
  <2>2. \A x \in 1 .. n : x - 1 \in Nodes /\ x \in Nodes /\ x # Root
    BY <1>1 DEF Nodes, Bases, Root
  <2>3. \A x \in Nodes : x \in Nat
    BY DEF Nodes, Bases, Root
  <2>4. n \in Nodes /\ Root \in Nodes
    BY <1>1 DEF Nodes, Bases
  <2>5. \A x \in Bases : x > n => x # Root /\ ~(x <= n) /\ x \in Nodes
    BY <1>1 DEF Nodes, Bases, Root
  <2>6. ASSUME NEW x \in Nodes PROVE prev[x] \in Nodes \cup {NULL}
    <3>1. x = Root \/ x \in 1 .. n \/ ~(x <= n)
      BY <1>1, <2>3 DEF Nodes, Bases
    <3>2. x \in 1 .. n => x <= n /\ x # Root
      BY <1>1 DEF Root
    <3> QED
      BY <2>1, <2>2, <2>4, <3>1, <3>2
  <2> QED
    BY <1>1, <2>1, <2>2, <2>4, <2>5, <2>6
<1>7. Types
  <2>1. /\ place \in [Bases -> 0 .. MaxBases] /\ open \in SUBSET Bases
        /\ sorted \in SUBSET open /\ home \in Nodes
    <3>1. place \in [Bases -> 0 .. MaxBases]
      BY <1>1, <1>2 DEF Bases
    <3>2. sorted \in SUBSET (1 .. n - 1) /\ home \in 0 .. n
      BY DEF Init
    <3> QED
      BY <1>1, <1>2, <3>1, <3>2 DEF Bases, Nodes, Root
  <2>2. /\ cached \in BOOLEAN /\ mutex \in Threads \cup {Nobody, Sorter}
        /\ tries \in [Threads -> Nat]
        /\ result \in [Threads -> {"none", "found", "absent", "deadlk"}]
        /\ job \in {"none", "merge", "indexsort", "remove"} /\ asleep \in BOOLEAN
        /\ todo \in Seq(Bases)
        /\ lookups \in 0 .. MaxLookups /\ rounds \in 0 .. MaxRounds
        /\ excuse \in SUBSET Threads /\ since \in [Threads -> 0 .. MaxRounds]
        /\ crashed \in BOOLEAN
    <3>1. cached \in BOOLEAN /\ mutex \in Threads \cup {Nobody, Sorter} /\ todo \in Seq(Bases)
      BY DEF Init
    <3>2. tries \in [Threads -> Nat] /\ since \in [Threads -> 0 .. MaxRounds]
      BY <1>1 DEF Init
    <3>3. result \in [Threads -> {"none", "found", "absent", "deadlk"}]
      BY DEF Init
    <3>4. lookups \in 0 .. MaxLookups /\ rounds \in 0 .. MaxRounds
      BY <1>1 DEF Init
    <3>5. job = "none" /\ asleep \in BOOLEAN /\ excuse \in SUBSET Threads /\ crashed \in BOOLEAN
      BY DEF Init
    <3> QED
      BY <3>1, <3>2, <3>3, <3>4, <3>5
  <2> QED
    BY <1>6, <2>1, <2>2 DEF Types
<1>8. Owners
  BY <1>2, <1>4, BasesAssumption DEF Owners
<1>9. Ordered
  <2>1. bases # <<>>
    BY <1>1, <1>3
  <2>2. Ascending(bases, place)
    BY <1>3, <1>5 DEF Ascending
  <2>3. \A b \in 1 .. n : place[b] \in 1 .. b
    BY <1>1, <1>5
  <2> QED
    BY <1>2, <1>4, <2>1, <2>2, <2>3 DEF Ordered
<1>10. GroupInList
  BY <1>2, <1>4 DEF GroupInList, Ascending, Init
<1>11. OpenBases /\ PlacesDiffer
  BY <1>2, <1>4, <1>5 DEF OpenBases, PlacesDiffer
<1>12. Links
  <2>1. \A x \in Nodes : prev[x] \in {Root, NULL} \cup 1 .. n
    <3>1. \A x \in Nodes : x = Root \/ x \in 1 .. n \/ (x \in Bases /\ x > n)
      BY <1>1 DEF Nodes, Bases
    <3>2. \A x \in 1 .. n : x - 1 = Root \/ x - 1 \in 1 .. n
      BY <1>1 DEF Root
    <3>3. n \in 1 .. n
      BY <1>1
    <3> QED
      BY <1>6, <3>1, <3>2, <3>3
  <2>2. ASSUME NEW i \in 1 .. n + 1 PROVE prev[Node(bases, i)] = Pred(bases, i)
    <3>1. CASE i = n + 1
      <4>1. Node(bases, i) = Root /\ i # 1
        BY <1>1, <1>3, <3>1 DEF Node
      <4>2. Pred(bases, i) = n
        BY <1>1, <1>3, <3>1, <4>1 DEF Pred
      <4> QED
        BY <1>6, <4>1, <4>2
    <3>2. CASE i \in 1 .. n
      <4>1. Node(bases, i) = i
        BY <1>1, <1>3, <3>2 DEF Node
      <4>2. Pred(bases, i) = i - 1
        BY <1>1, <1>3, <3>2 DEF Pred, Root
      <4> QED
        BY <1>6, <3>2, <4>1, <4>2
    <3> QED
      BY <1>1, <3>1, <3>2
  <2> QED
    BY <1>2, <1>3, <1>4, <1>6, <2>1, <2>2 DEF Links
<1>13. HomeInv
  <2>1. home \in 0 .. n /\ cached = (home # Root /\ home \notin sorted)
    BY DEF Init
  <2>2. home # Root => home \in 1 .. n
    BY <1>1, <2>1 DEF Root
  <2> QED
    BY <1>4, <2>1, <2>2 DEF HomeInv
<1>14. NoSkip
  <2> SUFFICES ASSUME NEW x \in {Root} \cup 1 .. n, NEW z \in 1 .. n,
                      IF x = Root THEN TRUE ELSE place[z] < place[x]
               PROVE  Reaches(prev[x], z)
    BY <1>2, <1>4 DEF NoSkip
  <2>1. CASE x = Root
    <3>1. n \in 1 .. n /\ place[n] >= place[z]
      BY <1>1, <1>5
    <3> QED
      BY <1>2, <1>6, <2>1, <3>1 DEF Reaches
  <2>2. CASE x # Root
    <3>1. x \in 1 .. n /\ z < x
      BY <1>5, <2>2
    <3>2. prev[x] \in 1 .. n /\ prev[x] >= z
      BY <1>1, <1>6, <3>1
    <3> QED
      BY <1>2, <1>5, <3>2 DEF Reaches
  <2> QED
    BY <2>1, <2>2
<1>15. OpenPrev
  <2>1. \A x \in 1 .. n : x - 1 = Root \/ x - 1 \in 1 .. n
    BY <1>1 DEF Root
  <2>2. n \in 1 .. n
    BY <1>1
  <2> QED
    BY <1>2, <1>6, <2>1, <2>2 DEF OpenPrev
<1>16. WalkInv
  <2>1. /\ at = [t \in Threads |-> Root] /\ tries = [t \in Threads |-> 0]
        /\ result = [t \in Threads |-> "none"] /\ since = [t \in Threads |-> 0] /\ rounds = 0
    BY DEF Init
  <2> QED
    BY <1>2, <2>1 DEF WalkInv, WalkOf, OnTrack, Paid, Walking
<1> QED
  BY <1>7, <1>8, <1>9, <1>10, <1>11, <1>12, <1>13, <1>14, <1>15, <1>16 DEF ListInv

(* Every step keeps the invariant. *)
LEMMA NextKeepsList == IInv /\ ListInv /\ WalkInv /\ [Next]_vars => ListInv' /\ WalkInv'
<1> SUFFICES ASSUME IInv, ListInv, WalkInv, [Next]_vars PROVE ListInv' /\ WalkInv'
  OBVIOUS
<1>1. ASSUME NEW t \in Threads, Walk(t) \/ AddBase(t) PROVE ListInv' /\ WalkInv'
  BY <1>1, StepKeepsWalk, HoldKeepsWalk, CheckKeepsWalk, SearchKeepsWalk, ReleaseKeepsWalk,
     LinkBaseKeepsList, AddBaseKeepsList DEF Walk
<1>2. ASSUME NEW t \in Threads, NEW own \in BOOLEAN, Lookup(t, own)
      PROVE  ListInv' /\ WalkInv'
  BY <1>2, LookupKeepsWalk
<1>3. CASE Rewrite
  BY <1>3, RewriteKeepsList
<1>4. CASE StartMerge \/ StartIndexsort \/ StartRemove
  BY <1>4, StartMergeKeepsList, StartIndexsortKeepsList, StartRemoveKeepsList
<1>5. CASE Sort
  BY <1>5, WaitLockedKeepsList, SwapKeepsList, SwapMemoryKeepsList, LinkMergedKeepsList,
     UnlinkMergedKeepsList, CloseKeepsList DEF Sort
<1>6. CASE UNCHANGED vars
  <2>1. /\ UNCHANGED <<bases, prev, born, place, open, sorted, home, cached, mutex, pc, at>>
        /\ UNCHANGED <<tries, result, job, phase, group, todo, asleep, lookups, rounds>>
        /\ UNCHANGED <<excuse, since, crashed>>
    BY <1>6 DEF vars, list, record, walk, sorter, observers
  <2>2. /\ Listed' = Listed /\ Grouped' = Grouped /\ (Swapping' <=> Swapping)
        /\ (Adding' <=> Adding) /\ Replaced' = Replaced /\ Extra' = Extra
    BY <2>1 DEF Listed, Grouped, Swapping, Adding, Replaced, Extra
  <2>3. \A x : Gone(x)' <=> Gone(x)
    BY <2>1, <2>2 DEF Gone
  <2>4. Types'
    BY <2>1 DEF ListInv, Types
  <2>5. Owners' /\ GroupInList' /\ OpenBases' /\ HomeInv'
    BY <2>1, <2>2 DEF ListInv, Owners, GroupInList, OpenBases, HomeInv
  <2>6. Ordered' /\ PlacesDiffer' /\ Links' /\ NoSkip' /\ OpenPrev'
    BY <2>1, <2>2, <2>3, SameListKeeps DEF list
  <2>7. WalkInv'
    BY <2>1, <2>3 DEF WalkInv, WalkOf, OnTrack, Paid, Walking
  <2> QED
    BY <2>4, <2>5, <2>6, <2>7 DEF ListInv
<1> QED
  BY <1>1, <1>2, <1>3, <1>4, <1>5, <1>6 DEF Next

-----------------------------------------------------------------------------
(* The order of the list and the position of the walks, in every reachable *)
(* state of datasort_swap_memory, eblob_add_new_base_ctl and the lookups.  *)
THEOREM ListInvariant == Spec => [](IInv /\ ListInv /\ WalkInv)
<1>1. Init => IInv /\ ListInv /\ WalkInv
  BY InitHolds, InitList
<1>2. (IInv /\ ListInv /\ WalkInv) /\ [Next]_vars => (IInv /\ ListInv /\ WalkInv)'
  BY NextKeeps, NextKeepsList
<1> QED
  BY <1>1, <1>2, PTL DEF Spec

(* Every variable of the lookup, the list and the sorter has its type.     *)
THEOREM LookupTyped == Spec => []TypeOK
<1>1. IInv /\ ListInv => TypeOK
  BY DEF IInv, Shape, ListInv, Types, TypeOK
<1> QED
  BY <1>1, ListInvariant, PTL

(* eblob_disk_index_lookup says -ENOENT only if the key was absent at some *)
(* moment of the lookup or was written again during it: no merge, removal  *)
(* or index sort hides a key from a walk that holds no lock.               *)
THEOREM LookupsTellTheTruth == Spec => []NeverMissed
<1>1. WalkInv => NeverMissed
  BY DEF WalkInv, WalkOf, NeverMissed
<1> QED
  BY <1>1, ListInvariant, PTL

(* A walk starts again only after a round of the sorter that closed a base *)
(* ended during the lookup; max_tries bounds rounds, not bad luck.         *)
THEOREM RestartsArePaid == Spec => []RetriesPaid
<1>1. ListInv /\ WalkInv => RetriesPaid
  <2> SUFFICES ASSUME ListInv, WalkInv, NEW t \in Threads, pc[t] # "idle"
               PROVE  tries[t] <= rounds - since[t]
    BY DEF RetriesPaid
  <2>1. since[t] \in Nat /\ rounds \in Nat
    BY BasesAssumption DEF ListInv, Types
  <2>2. Paid(t)
    BY DEF WalkInv, WalkOf
  <2> QED
    BY <2>1, <2>2 DEF Paid
<1> QED
  BY <1>1, ListInvariant, PTL

(* Outside a list operation the prev pointers of the listed bases are the  *)
(* inverse of the next pointers, whatever list_add_tail, list_replace and  *)
(* list_del did before.                                                    *)
THEOREM PointersAgree == Spec => []LinksAgree
<1>1. IInv /\ ListInv => LinksAgree
  <2> SUFFICES ASSUME IInv, ListInv, ~HashLocked, \A t \in Threads : pc[t] # "add"
               PROVE  /\ prev[Root] = Last(bases)
                      /\ \A i \in DOMAIN bases :
                            prev[bases[i]] = IF i = 1 THEN Root ELSE bases[i - 1]
    BY DEF LinksAgree
  <2>1. Linked(bases, prev)
    BY ListLinked DEF Adding, HashLocked
  <2> DEFINE n == Len(bases)
  <2>2. n \in Nat /\ n >= 1 /\ DOMAIN bases = 1 .. n
    BY ListFacts
  <2>3. \A i \in 1 .. n + 1 : prev[Node(bases, i)] = Pred(bases, i)
    BY <2>1 DEF Linked
  <2>4. \A i : Node(bases, i) = IF i = n + 1 THEN Root ELSE bases[i]
    BY DEF Node
  <2>5. Last(bases) = bases[n]
    BY DEF Last
  <2> HIDE DEF n
  <2>6. prev[Root] = Last(bases)
    <3>1. n + 1 \in 1 .. n + 1 /\ n + 1 # 1 /\ (n + 1) - 1 = n
      BY <2>2
    <3>2. Pred(bases, n + 1) = bases[n]
      BY <3>1 DEF Pred
    <3> QED
      BY <2>3, <2>4, <2>5, <3>1, <3>2
  <2>7. ASSUME NEW i \in 1 .. n PROVE prev[bases[i]] = IF i = 1 THEN Root ELSE bases[i - 1]
    <3>1. i \in 1 .. n + 1 /\ i # n + 1
      BY <2>2
    <3> QED
      BY <2>3, <2>4, <3>1 DEF Pred
  <2> QED
    BY <2>2, <2>6, <2>7
<1> QED
  BY <1>1, ListInvariant, PTL
=============================================================================
