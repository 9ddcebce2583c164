------------------------ MODULE DefragThreadProofs ------------------------
(***************************************************************************)
(* Proofs about runs of eblob_defrag, for any number of bases, any limits, *)
(* and any settings and bases the store may be opened with.                *)
(*                                                                         *)
(* A run reads want_defrag, and the counters of bases that clients write   *)
(* to and remove from, without a lock.  Why it is complete: what is due is *)
(* chosen; what is chosen stays in the list, in order, before the last     *)
(* base, until it is in a group; and every group begins where the one      *)
(* before it ended.  Why groups fit: a base that is not the last one gets  *)
(* no more records, so the sums taken when it joined bound what is there   *)
(* when the group is sorted.                                               *)
(***************************************************************************)
EXTENDS DefragThread, InductionLemmas, FiniteSetTheorems, TLAPS

InRun == {"select", "head", "accumulate", "sort", "done"}
InLoop == {"head", "accumulate", "sort"}

LocRecord == [num : Nat, cursor : Nat, chosen : Seq(BaseIds), current : Nat,
              previous : Nat, totalRecords : Nat, totalSize : Nat, records : Nat,
              size : Nat]
RunRecord == [steady : BOOLEAN, due : SUBSET BaseIds, sorted : SUBSET BaseIds]
States == InRun \cup {"idle", "lock", "reset", "check", "wait", "test", "set", "exited"}

(* Every variable has its type. *)
Types ==
    /\ config \in Config
    /\ base \in [BaseIds -> BaseRecord \cup {NoBase}]
    /\ want \in Levels \cup {"none"} /\ starting \subseteq {"data", "index"}
    /\ exit \in BOOLEAN /\ alive \subseteq {Sync, Thread, Periodic}
    /\ life \in {Sync, Thread, Periodic, "up", "closing", "closed"}
    /\ sleep \in 0 .. MinTimeout \cup {Forever}
    /\ lock \in Runners \cup {Nobody}
    /\ asked \in {"none", "early", "late"}
    /\ pc \in [Runners -> States]
    /\ loc \in LocRecord /\ run \in RunRecord
    /\ events \in Nat

(* No more is removed than there is; data is sorted after its index. *)
Counted == \A b \in InList : /\ base[b].removed <= base[b].total
                             /\ base[b].data => base[b].index

(* b is not the last base, and will not be. *)
Older(b) == \E l \in InList : b < l

(* A run belongs to who has the lock. *)
Locked ==
    /\ \A d \in Runners : pc[d] \in InRun <=> lock = d
    /\ lock = Nobody => loc = Start /\ run = Fresh

At(P) == lock # Nobody /\ pc[lock] \in P

(* What the two loops of a run may rely on. *)
Loop ==
    /\ Len(loc.chosen) <= loc.num
    /\ \A i \in DOMAIN loc.chosen : Older(loc.chosen[i])
    /\ \A i, j \in DOMAIN loc.chosen : i < j => loc.chosen[i] < loc.chosen[j]
    /\ At(InRun) => \A i \in DOMAIN loc.chosen : i > loc.previous => loc.chosen[i] \in InList
    /\ At({"select"}) => /\ Older(loc.cursor) /\ loc.previous = 0 /\ loc.current = 1
                         /\ \A i \in DOMAIN loc.chosen : loc.chosen[i] <= loc.cursor
    /\ At(InLoop) => loc.previous < loc.current /\ loc.current <= Len(loc.chosen)

Pending(b) == Due(b) /\ \E i \in DOMAIN loc.chosen : i > loc.previous /\ loc.chosen[i] = b
Served(b) == b \in run.sorted \/ Live(b) = 0

(* What a run that nothing disturbs has still to do. *)
Steady ==
    /\ \A b \in run.due : Older(b) 
    /\ At(InRun) /\ run.steady =>
         /\ want = "none" => run.due = {}
         /\ want = "index" /\ At(InLoop) => loc.current = loc.previous + 1
         /\ ~At({"done"}) => \A b \in run.due \cap InList : Served(b) \/ Pending(b)
         /\ At({"done"}) /\ ~exit => \A b \in run.due \cap InList : Served(b)

NotEmpty(g) == {b \in g : Live(b) > 0}

(* The sums bound the group, and the group the limits. *)
GroupFits ==
    /\ LiveIn(NotEmpty(Group)) <= loc.totalRecords
    /\ SizeOf(NotEmpty(Group)) <= loc.totalSize
    /\ (\E x, y \in NotEmpty(Group) : x # y) =>
          /\ LiveIn(NotEmpty(Group)) <= RecordsInBlob
          /\ SizeOf(NotEmpty(Group)) <= BlobSize

(* So do the counters of the base that did not fit. *)
NextFits ==
    loc.current < Len(loc.chosen) =>
        LET b == loc.chosen[loc.current + 1] IN
        Live(b) <= loc.records /\ base[b].total <= loc.size

Groups ==
    run.steady /\ want \in {"data", "compact"} =>
        /\ At(InLoop) => GroupFits
        /\ At({"sort"}) => NextFits

Inv == Types /\ Counted /\ Locked /\ Loop /\ Steady /\ Groups

-----------------------------------------------------------------------------
(* Names, and the last base. *)

(* Four names stand for at most four things.                               *)
LEMMA FourAtMost ==
  ASSUME NEW a, NEW b, NEW c, NEW d
  PROVE Cardinality({a, b, c, d}) <= 4
<1>1. IsFiniteSet({a}) /\ Cardinality({a}) = 1
  BY FS_Singleton
<1>2. IsFiniteSet({a} \cup {b}) /\ Cardinality({a} \cup {b}) \in 1 .. 2
  BY <1>1, FS_AddElement
<1>3. IsFiniteSet(({a} \cup {b}) \cup {c}) /\ Cardinality(({a} \cup {b}) \cup {c}) \in 1 .. 3
  BY <1>2, FS_AddElement
<1>4. Cardinality((({a} \cup {b}) \cup {c}) \cup {d}) \in 1 .. 4
  BY <1>3, FS_AddElement
<1>5. (({a} \cup {b}) \cup {c}) \cup {d} = {a, b, c, d}
  OBVIOUS
<1> QED BY <1>4, <1>5

(* The thread, the caller and nobody differ.                               *)
LEMMA Distinct == Thread # Caller /\ Nobody \notin Runners
<1> DEFINE all == {Sync, Thread, Periodic, Caller, Nobody}
<1>1. Cardinality(all) = 5
  BY NamesAssumption
<1>2. ASSUME Thread = Caller PROVE FALSE
  <2>1. all = {Sync, Thread, Periodic, Nobody}
    BY <1>2
  <2>2. Cardinality(all) <= 4
    BY <2>1, FourAtMost
  <2> HIDE DEF all
  <2> QED BY <1>1, <2>2
<1>3. ASSUME Nobody = Thread PROVE FALSE
  <2>1. all = {Sync, Thread, Periodic, Caller}
    BY <1>3
  <2>2. Cardinality(all) <= 4
    BY <2>1, FourAtMost
  <2> HIDE DEF all
  <2> QED BY <1>1, <2>2
<1>4. ASSUME Nobody = Caller PROVE FALSE
  <2>1. all = {Sync, Thread, Periodic, Caller}
    BY <1>4
  <2>2. Cardinality(all) <= 4
    BY <2>1, FourAtMost
  <2> HIDE DEF all
  <2> QED BY <1>1, <2>2
<1> QED BY <1>2, <1>3, <1>4 DEF Runners

(* There are finitely many bases, and their indices are naturals.          *)
LEMMA BasesFinite == IsFiniteSet(BaseIds) /\ BaseIds \subseteq Nat
BY LimitsAssumption, FS_Interval DEF BaseIds

(* The bases of the list are bases.                                        *)
LEMMA ListIs == InList \subseteq BaseIds
BY DEF InList

(* The last base of the list is in it, and none is after it.               *)
LEMMA LastIs ==
  ASSUME InList # {}
  PROVE LastBase \in InList /\ \A b \in InList : b <= LastBase
<1>1. InList \subseteq Nat /\ \A b \in InList : b <= MaxBases
  BY LimitsAssumption DEF InList, BaseIds
<1>2. MaxBases \in Nat
  BY LimitsAssumption
<1> QED BY <1>1, <1>2, MaxOf DEF LastBase

(* The first loop finds, from a cursor before the last base, the next base *)
(* of the list, and passes none.                                           *)
LEMMA NextIs ==
  ASSUME NEW c \in Nat, Older(c)
  PROVE LET b == Min({x \in InList : x > c}) IN
        /\ b \in InList /\ b > c
        /\ \A x \in InList : x > c => b <= x
<1> DEFINE S == {x \in InList : x > c}
<1>1. S \subseteq Nat
  BY LimitsAssumption DEF InList, BaseIds
<1>2. S # {}
  BY <1>1, LimitsAssumption DEF Older, InList, BaseIds
<1> HIDE DEF S
<1>3. Min(S) \in S /\ \A y \in S : Min(S) <= y
  BY <1>1, <1>2, MinOf
<1> QED BY <1>3 DEF S

(* The counters of a base, and the records that are live, are naturals.    *)
LEMMA LiveNat ==
  ASSUME Types, Counted, NEW b \in InList
  PROVE /\ base[b] \in BaseRecord /\ base[b].total \in Nat /\ base[b].removed \in Nat
        /\ Live(b) \in Nat
BY DEF Types, Counted, InList, Live, BaseRecord

-----------------------------------------------------------------------------
(* Steps that leave the bases and the run alone. *)

(* Who is inside eblob_defrag has defrag_lock, and the other way round.    *)
LEMMA AtRun ==
  ASSUME Types, Locked, NEW d \in Runners
  PROVE /\ lock = d => At(InRun)
        /\ pc[d] \in InRun => lock = d /\ lock # Nobody
        /\ \A P \in SUBSET InRun : pc[d] \in P => At(P)
        /\ \A P : At(P) /\ lock = d => pc[d] \in P
BY Distinct DEF Types, Locked, At, Runners

(* What a step that is no part of a run may do to one: disturb it. *)
Apart ==
    /\ UNCHANGED <<base, loc, lock>>
    /\ \A d \in Runners : (pc[d] \in InRun \/ pc'[d] \in InRun) => pc'[d] = pc[d]
    /\ exit => exit'
    /\ \/ run' = run /\ (want' = want \/ lock = Nobody)
       \/ lock # Nobody /\ run' = [run EXCEPT !.steady = FALSE]

(* A step that is no part of a run keeps the invariant: it leaves the      *)
(* bases and the local variables of the run alone, and if it changes       *)
(* want_defrag, the run is disturbed.                                      *)
LEMMA ApartKeeps ==
  ASSUME Inv, Types', Apart
  PROVE Inv'
<1> USE DEF Inv
<1>1. Counted'
  BY DEF Apart, Counted, InList
<1>2. Locked'
  <2>1. \A d \in Runners : pc'[d] \in InRun <=> pc[d] \in InRun
    BY DEF Apart
  <2>2. lock' = Nobody => loc' = Start /\ run' = Fresh
    BY DEF Apart, Locked
  <2> QED BY <2>1, <2>2 DEF Apart, Locked
<1>3. \A P \in SUBSET InRun : At(P)' <=> At(P)
  <2> TAKE P \in SUBSET InRun
  <2>1. CASE lock = Nobody
    BY <2>1 DEF At, Apart
  <2>2. CASE lock # Nobody
    <3>1. lock \in Runners /\ lock' = lock /\ pc[lock] \in InRun
      BY <2>2 DEF Types, Locked, Apart
    <3>2. pc'[lock] = pc[lock]
      BY <3>1 DEF Apart
    <3>3. pc'[lock'] = pc[lock]
      BY <3>1, <3>2
    <3> QED BY <3>1, <3>3 DEF At
  <2> QED BY <2>1, <2>2
<1>4. /\ At(InRun)' <=> At(InRun) 
      /\ At(InLoop)' <=> At(InLoop)
      /\ At({"select"})' <=> At({"select"}) 
      /\ At({"sort"})' <=> At({"sort"})
      /\ At({"done"})' <=> At({"done"})
  <2>1. /\ InRun \in SUBSET InRun /\ InLoop \in SUBSET InRun /\ {"select"} \in SUBSET InRun
        /\ {"sort"} \in SUBSET InRun /\ {"done"} \in SUBSET InRun
    BY DEF InRun, InLoop
  <2> QED BY <1>3, <2>1
<1>5. Loop'
  BY <1>4 DEF Loop, Apart, Older, InList
<1>6. (\A b \in run.due : Older(b))'
  BY DEF Steady, Apart, Older, InList, Types, RunRecord
<1>7. CASE run' = run /\ want' = want
  <2>1. Steady'
    BY <1>4, <1>6, <1>7 DEF Steady, Apart, InList, Served, Pending, Due, WantDefrag, Live
  <2>2. Groups'
    BY <1>4, <1>7 DEF Groups, Apart, GroupFits, NextFits, NotEmpty, LiveIn, SizeOf, Group, Live
  <2> QED BY <1>1, <1>2, <1>5, <2>1, <2>2
<1>8. CASE lock = Nobody
  <2>1. ~At(InRun) /\ ~At(InLoop) /\ ~At({"sort"})
    BY <1>8 DEF At
  <2>2. Steady' /\ Groups'
    BY <1>4, <1>6, <2>1 DEF Steady, Groups
  <2> QED BY <1>1, <1>2, <1>5, <2>2
<1>9. CASE run' = [run EXCEPT !.steady = FALSE]
  <2>1. ~run'.steady
    BY <1>9 DEF Types, RunRecord
  <2>2. Steady' /\ Groups'
    BY <1>6, <2>1 DEF Steady, Groups
  <2> QED BY <1>1, <1>2, <1>5, <2>2
<1> QED BY <1>7, <1>8, <1>9 DEF Apart

(* What Disturbed does to the observer of a run.                           *)
LEMMA DisturbedIs ==
  ASSUME Types, NEW how \in BOOLEAN
  PROVE /\ ~how \/ lock = Nobody => Disturbed(how) = run
        /\ how /\ lock # Nobody => Disturbed(how) = [run EXCEPT !.steady = FALSE]
        /\ Disturbed(how) \in RunRecord
<1>1. run \in RunRecord
  BY DEF Types
<1> QED BY <1>1 DEF Disturbed, RunRecord

(* Somebody who is outside eblob_defrag stays outside.                     *)
LEMMA PcMoves ==
  ASSUME Types, NEW d \in Runners, NEW s \in States, pc' = [pc EXCEPT ![d] = s],
         pc[d] \notin InRun, s \notin InRun
  PROVE /\ pc' \in [Runners -> States]
        /\ \A e \in Runners : (pc[e] \in InRun \/ pc'[e] \in InRun) => pc'[e] = pc[e]
BY DEF Types

(* Requests, and a caller that comes, keep the invariant.                  *)
LEMMA RequestsKeep ==
  ASSUME Inv, (\E l \in {"data", "index"} : StartTest(l) \/ StartSet(l)) \/ Stop \/ Call
  PROVE Inv'
<1> USE DEF Inv
<1>1. CASE \E l \in {"data", "index"} : StartTest(l)
  <2>1. Types'
    BY <1>1 DEF Types, StartTest, threads
  <2>2. Apart
    BY <1>1 DEF StartTest, Apart, threads
  <2> QED BY <2>1, <2>2, ApartKeeps
<1>2. ASSUME NEW l \in {"data", "index"}, StartSet(l) PROVE Inv'
  <2>1. run' = Disturbed(want # l) /\ want' = l
    BY <1>2 DEF StartSet
  <2>2. Types'
    <3>1. run' \in RunRecord
      BY <2>1, DisturbedIs
    <3>2. want' \in Levels \cup {"none"} /\ starting' \subseteq {"data", "index"}
          /\ asked' \in {"none", "early", "late"}
      BY <1>2 DEF StartSet, Types, Levels, Accepted
    <3> QED BY <1>2, <3>1, <3>2 DEF StartSet, Types, threads
  <2>3. Apart
    <3>1. \/ run' = run /\ (want' = want \/ lock = Nobody)
          \/ lock # Nobody /\ run' = [run EXCEPT !.steady = FALSE]
      BY <2>1, DisturbedIs
    <3> QED BY <1>2, <3>1 DEF StartSet, Apart, threads
  <2> QED BY <2>2, <2>3, ApartKeeps
<1>3. CASE Stop
  <2>1. run' = Disturbed(TRUE) /\ want' = "none"
    BY <1>3 DEF Stop
  <2>2. Types'
    <3>1. run' \in RunRecord
      BY <2>1, DisturbedIs
    <3>2. want' \in Levels \cup {"none"} /\ asked' \in {"none", "early", "late"}
      BY <1>3 DEF Stop
    <3>3. events' \in Nat
      BY <1>3 DEF Stop, Types
    <3> QED BY <1>3, <3>1, <3>2, <3>3 DEF Stop, Types, threads
  <2>3. Apart
    <3>1. \/ run' = run /\ (want' = want \/ lock = Nobody)
          \/ lock # Nobody /\ run' = [run EXCEPT !.steady = FALSE]
      BY <2>1, DisturbedIs
    <3> QED BY <1>3, <3>1 DEF Stop, Apart, threads
  <2> QED BY <2>2, <2>3, ApartKeeps
<1>4. CASE Call
  <2>1. /\ pc' \in [Runners -> States]
        /\ \A e \in Runners : (pc[e] \in InRun \/ pc'[e] \in InRun) => pc'[e] = pc[e]
    <3>1. Caller \in Runners /\ "lock" \in States /\ pc[Caller] \notin InRun /\ "lock" \notin InRun
      BY <1>4 DEF Call, Runners, States, InRun
    <3> QED BY <1>4, <3>1, PcMoves DEF Call
  <2>2. Types'
    BY <1>4, <2>1 DEF Call, Types, client, threads
  <2>3. Apart
    BY <1>4, <2>1 DEF Call, Apart, client, threads
  <2> QED BY <2>2, <2>3, ApartKeeps
<1> QED BY <1>1, <1>2, <1>3, <1>4

(* So does the loop of eblob_defrag_thread.                                *)
LEMMA ThreadKeeps ==
  ASSUME Inv, Check \/ Timeout \/ ThreadExits \/ Test \/ Set \/ Reset
  PROVE Inv'
<1> USE DEF Inv
<1>t. Thread \in Runners
  BY DEF Runners
<1>0. ASSUME NEW s \in {"wait", "test", "check", "exited", "set", "lock"},
             pc' = [pc EXCEPT ![Thread] = s], pc[Thread] \notin InRun
      PROVE /\ pc' \in [Runners -> States]
            /\ \A e \in Runners : (pc[e] \in InRun \/ pc'[e] \in InRun) => pc'[e] = pc[e]
  <2>1. s \in States /\ s \notin InRun
    BY DEF States, InRun
  <2> QED BY <1>0, <1>t, <2>1, PcMoves
<1>1. CASE Check
  <2>1. /\ pc' \in [Runners -> States]
        /\ \A e \in Runners : (pc[e] \in InRun \/ pc'[e] \in InRun) => pc'[e] = pc[e]
    <3>1. pc[Thread] \notin InRun
      BY <1>1 DEF Check, InRun
    <3>2. CASE Sleeps
      BY <1>0, <1>1, <3>1, <3>2 DEF Check
    <3>3. CASE ~Sleeps
      BY <1>0, <1>1, <3>1, <3>3 DEF Check
    <3> QED BY <3>2, <3>3
  <2>2. sleep' \in 0 .. MinTimeout \cup {Forever}
    <3>1. CASE sleep \in {0, Forever}
      BY <1>1, <3>1 DEF Check, Types
    <3>2. CASE sleep \notin {0, Forever}
      <4>1. sleep \in 0 .. MinTimeout /\ sleep # 0 /\ sleep' = sleep - 1
        BY <1>1, <3>2 DEF Check, Types
      <4> QED BY <4>1, LimitsAssumption
    <3> QED BY <3>1, <3>2
  <2>3. Types'
    BY <1>1, <2>1, <2>2 DEF Check, Types, client, threads
  <2>4. Apart
    BY <1>1, <2>1 DEF Check, Apart, client, threads
  <2> QED BY <2>3, <2>4, ApartKeeps
<1>2. CASE Timeout
  <2>1. /\ pc' \in [Runners -> States]
        /\ \A e \in Runners : (pc[e] \in InRun \/ pc'[e] \in InRun) => pc'[e] = pc[e]
    <3>1. pc[Thread] \notin InRun
      BY <1>2 DEF Timeout, InRun
    <3> QED BY <1>0, <1>2, <3>1 DEF Timeout
  <2>3. Types'
    BY <1>2, <2>1 DEF Timeout, Types, client, threads
  <2>4. Apart
    BY <1>2, <2>1 DEF Timeout, Apart, client, threads
  <2> QED BY <2>3, <2>4, ApartKeeps
<1>3. CASE ThreadExits
  <2>1. /\ pc' \in [Runners -> States]
        /\ \A e \in Runners : (pc[e] \in InRun \/ pc'[e] \in InRun) => pc'[e] = pc[e]
    <3>1. pc[Thread] \notin InRun
      BY <1>3 DEF ThreadExits, InRun
    <3> QED BY <1>0, <1>3, <3>1 DEF ThreadExits
  <2>3. Types'
    BY <1>3, <2>1 DEF ThreadExits, Types, client
  <2>4. Apart
    BY <1>3, <2>1 DEF ThreadExits, Apart, client
  <2> QED BY <2>3, <2>4, ApartKeeps
<1>4. CASE Test
  <2>1. /\ pc' \in [Runners -> States]
        /\ \A e \in Runners : (pc[e] \in InRun \/ pc'[e] \in InRun) => pc'[e] = pc[e]
    <3>1. pc[Thread] \notin InRun
      BY <1>4 DEF Test, InRun
    <3>2. CASE want = "none"
      BY <1>0, <1>4, <3>1, <3>2 DEF Test
    <3>3. CASE want # "none"
      BY <1>0, <1>4, <3>1, <3>3 DEF Test
    <3> QED BY <3>2, <3>3
  <2>3. Types'
    BY <1>4, <2>1 DEF Test, Types, client, threads
  <2>4. Apart
    BY <1>4, <2>1 DEF Test, Apart, client, threads
  <2> QED BY <2>3, <2>4, ApartKeeps
<1>5. CASE Set
  <2>1. /\ pc' \in [Runners -> States]
        /\ \A e \in Runners : (pc[e] \in InRun \/ pc'[e] \in InRun) => pc'[e] = pc[e]
    <3>1. pc[Thread] \notin InRun
      BY <1>5 DEF Set, InRun
    <3> QED BY <1>0, <1>5, <3>1 DEF Set
  <2>2. run' = Disturbed(want # "compact") /\ want' = "compact"
    BY <1>5 DEF Set
  <2>3. run' \in RunRecord
    BY <2>2, DisturbedIs
  <2>4. \/ run' = run /\ (want' = want \/ lock = Nobody)
        \/ lock # Nobody /\ run' = [run EXCEPT !.steady = FALSE]
    BY <2>2, DisturbedIs
  <2>5. want' \in Levels \cup {"none"}
    BY <2>2 DEF Levels
  <2>6. Types'
    BY <1>5, <2>1, <2>3, <2>5 DEF Set, Types, threads
  <2>7. Apart
    BY <1>5, <2>1, <2>4 DEF Set, Apart, threads
  <2> QED BY <2>6, <2>7, ApartKeeps
<1>6. CASE Reset
  <2>1. /\ pc' \in [Runners -> States]
        /\ \A e \in Runners : (pc[e] \in InRun \/ pc'[e] \in InRun) => pc'[e] = pc[e]
    <3>1. pc[Thread] \notin InRun
      BY <1>6 DEF Reset, InRun
    <3> QED BY <1>0, <1>6, <3>1 DEF Reset
  <2>2. run' = Disturbed(want # "none") /\ want' = "none"
    BY <1>6 DEF Reset, Cleared
  <2>3. run' \in RunRecord
    BY <2>2, DisturbedIs
  <2>4. \/ run' = run /\ (want' = want \/ lock = Nobody)
        \/ lock # Nobody /\ run' = [run EXCEPT !.steady = FALSE]
    BY <2>2, DisturbedIs
  <2>5. want' \in Levels \cup {"none"}
    BY <2>2
  <2>8. sleep' \in 0 .. MinTimeout \cup {Forever}
    BY <1>6, LimitsAssumption DEF Reset, NextDefrag
  <2>6. Types'
    BY <1>6, <2>1, <2>3, <2>5, <2>8 DEF Reset, Types, threads
  <2>7. Apart
    BY <1>6, <2>1, <2>4 DEF Reset, Apart, threads
  <2> QED BY <2>6, <2>7, ApartKeeps
<1> QED BY <1>1, <1>2, <1>3, <1>4, <1>5, <1>6

(* So do the start and the end of the threads.                             *)
LEMMA LifeKeeps ==
  ASSUME Inv, CreateThread \/ CreateFails \/ Cleanup \/ Join \/ TimersExit
  PROVE Inv'
<1> USE DEF Inv
<1>1. CASE CreateThread
  <2>1. life' \in {Sync, Thread, Periodic, "up", "closing", "closed"}
    <3>1. CASE life = Periodic
      BY <1>1, <3>1 DEF CreateThread
    <3>2. CASE life # Periodic
      <4>1. life = Permanent[1] \/ life = Permanent[2]
        BY <1>1, <3>2 DEF CreateThread, Permanent
      <4>2. \E i \in 1 .. 3 : life = Permanent[i]
        BY <4>1
      <4>3. Created \in 1 .. 3 /\ life = Permanent[Created]
        BY <4>2 DEF Created
      <4>4. Created # 3
        BY <4>3, <3>2 DEF Permanent
      <4>5. Created \in {1, 2}
        BY <4>3, <4>4
      <4> QED BY <1>1, <3>2, <4>5 DEF CreateThread, Permanent
    <3> QED BY <3>1, <3>2
  <2>2. alive' \subseteq {Sync, Thread, Periodic}
    BY <1>1 DEF CreateThread, Types
  <2>3. Types'
    BY <1>1, <2>1, <2>2 DEF CreateThread, Types, client
  <2>4. Apart
    BY <1>1 DEF CreateThread, Apart, client
  <2> QED BY <2>3, <2>4, ApartKeeps
<1>2. CASE CreateFails
  <2>1. Types'
    BY <1>2 DEF CreateFails, Types, client
  <2>2. Apart
    BY <1>2 DEF CreateFails, Apart, client
  <2> QED BY <2>1, <2>2, ApartKeeps
<1>3. CASE Cleanup
  <2>1. Types'
    BY <1>3 DEF Cleanup, Types, client
  <2>2. Apart
    BY <1>3 DEF Cleanup, Apart, client
  <2> QED BY <2>1, <2>2, ApartKeeps
<1>4. CASE Join
  <2>1. Types'
    BY <1>4 DEF Join, Types, client
  <2>2. Apart
    BY <1>4 DEF Join, Apart, client
  <2> QED BY <2>1, <2>2, ApartKeeps
<1>5. CASE TimersExit
  <2>1. Types'
    BY <1>5 DEF TimersExit, Types, client
  <2>2. Apart
    BY <1>5 DEF TimersExit, Apart, client
  <2> QED BY <2>1, <2>2, ApartKeeps
<1> QED BY <1>1, <1>2, <1>3, <1>4, <1>5

-----------------------------------------------------------------------------
(* Writers, and those who remove records. *)

LiveNext(b) == base'[b].total - base'[b].removed
OlderNext(b) == \E l \in InList' : b < l

(* A base that is not the last loses records and gets none. *)
Aged(b) ==
    /\ b \in InList'
    /\ base'[b].total = base[b].total /\ base'[b].removed >= base[b].removed
    /\ base'[b].data = base[b].data /\ base'[b].index = base[b].index

(* Records of a base are removed while a run is under way: fewer are live, *)
(* and what was due is still due unless nothing is left.                   *)
LEMMA AgedIs ==
  ASSUME Types, Counted, Types', Counted', NEW b \in InList, Aged(b)
  PROVE /\ Live(b) \in Nat /\ LiveNext(b) \in Nat /\ LiveNext(b) <= Live(b)
        /\ base[b].total \in Nat /\ base'[b].total \in Nat
        /\ want' = want /\ Due(b) => Due(b)' \/ LiveNext(b) = 0
<1>1. base[b] \in BaseRecord /\ base'[b] \in BaseRecord
  BY DEF Types, Aged, InList
<1>2. /\ base[b].total \in Nat /\ base[b].removed \in Nat
      /\ base'[b].total \in Nat /\ base'[b].removed \in Nat
      /\ base[b].removed <= base[b].total /\ base'[b].removed <= base'[b].total
  BY <1>1 DEF Counted, Aged, BaseRecord
<1>3. Live(b) \in Nat /\ LiveNext(b) \in Nat /\ LiveNext(b) <= Live(b)
  BY <1>2 DEF Live, LiveNext, Aged
<1>4. ASSUME want' = want, Due(b), LiveNext(b) # 0
      PROVE Due(b)'
  <2> DEFINE p == base[b].total * DefragPercentage
  <2>1. p = base'[b].total * DefragPercentage
    BY DEF Aged
  <2>2. base'[b].total # base'[b].removed
    BY <1>2, <1>4 DEF LiveNext
  <2>3. p \in Int
    BY <1>2, LimitsAssumption
  <2>4. WantDefrag(b) = "needed" => base[b].removed * 100 >= p
    BY DEF WantDefrag
  <2>5. base'[b].removed * 100 >= p => WantDefrag(b)' = "needed"
    BY <2>1, <2>2 DEF WantDefrag
  <2> HIDE DEF p
  <2>6. base[b].removed * 100 >= p => base'[b].removed * 100 >= p
    BY <1>2, <2>3 DEF Aged
  <2>7. WantDefrag(b) = "needed" => WantDefrag(b)' = "needed"
    BY <2>4, <2>5, <2>6
  <2> QED BY <1>4, <2>7 DEF Due, Aged
<1> QED BY <1>2, <1>3, <1>4

Grown ==
    /\ UNCHANGED <<want, lock, pc, loc, exit, run>>
    /\ InList \subseteq InList'
    /\ \A b \in InList : Older(b) => Aged(b)
    /\ \A b \in InList' : Older(b) => b \in InList

(* The sums of a group do not grow by that.                                *)
LEMMA SumsShrink ==
  ASSUME NEW g \in SUBSET BaseIds, NEW h \in SUBSET g, Types, Counted, Types', Counted',
         \A b \in g : b \in InList /\ Aged(b)
  PROVE /\ SumFunctionOnSet([b \in h |-> LiveNext(b)], h) <= LiveIn(g)
        /\ SumFunctionOnSet([b \in h |-> base'[b].total], h) <= SizeOf(g)
        /\ SumFunctionOnSet([b \in h |-> LiveNext(b)], h) \in Nat
        /\ SumFunctionOnSet([b \in h |-> base'[b].total], h) \in Nat
        /\ LiveIn(g) \in Nat /\ SizeOf(g) \in Nat
<1>0. IsFiniteSet(g) /\ IsFiniteSet(h)
  BY BasesFinite, FS_Subset
<1>1. \A b \in g : /\ Live(b) \in Nat /\ LiveNext(b) \in Nat /\ LiveNext(b) <= Live(b)
                   /\ base[b].total \in Nat /\ base'[b].total \in Nat
                   /\ base'[b].total <= base[b].total
  <2> TAKE b \in g
  <2>1. /\ Live(b) \in Nat /\ LiveNext(b) \in Nat /\ LiveNext(b) <= Live(b)
        /\ base[b].total \in Nat /\ base'[b].total \in Nat
    BY AgedIs
  <2>2. base'[b].total = base[b].total
    BY DEF Aged
  <2> QED BY <2>1, <2>2
<1>2. /\ SumFunctionOnSet([b \in h |-> LiveNext(b)], h) <= LiveIn(g)
      /\ SumFunctionOnSet([b \in h |-> LiveNext(b)], h) \in Nat /\ LiveIn(g) \in Nat
  <2> DEFINE f == [b \in h |-> LiveNext(b)]
             e == [b \in g |-> Live(b)]
  <2>1. \A x \in g : e[x] \in Nat
    BY <1>1
  <2>2. \A x \in h : f[x] \in Nat /\ f[x] <= e[x]
    BY <1>1
  <2> HIDE DEF f, e
  <2>3. SumFunctionOnSet(f, h) <= SumFunctionOnSet(e, g)
    BY <1>0, <2>1, <2>2, SumMonotone
  <2>4. SumFunctionOnSet(f, h) \in Nat /\ SumFunctionOnSet(e, g) \in Nat
    BY <1>0, <2>1, <2>2, SumInNat
  <2> QED BY <2>3, <2>4 DEF f, e, LiveIn
<1>3. /\ SumFunctionOnSet([b \in h |-> base'[b].total], h) <= SizeOf(g)
      /\ SumFunctionOnSet([b \in h |-> base'[b].total], h) \in Nat /\ SizeOf(g) \in Nat
  <2> DEFINE f == [b \in h |-> base'[b].total]
             e == [b \in g |-> base[b].total]
  <2>1. \A x \in g : e[x] \in Nat
    BY <1>1
  <2>2. \A x \in h : f[x] \in Nat /\ f[x] <= e[x]
    BY <1>1
  <2> HIDE DEF f, e
  <2>3. SumFunctionOnSet(f, h) <= SumFunctionOnSet(e, g)
    BY <1>0, <2>1, <2>2, SumMonotone
  <2>4. SumFunctionOnSet(f, h) \in Nat /\ SumFunctionOnSet(e, g) \in Nat
    BY <1>0, <2>1, <2>2, SumInNat
  <2> QED BY <2>3, <2>4 DEF f, e, SizeOf
<1> QED BY <1>2, <1>3

(* The group is a part of the list, before the last base.                  *)
LEMMA GroupIs ==
  ASSUME Inv, At(InLoop)
  PROVE /\ Group \subseteq InList /\ Group \subseteq BaseIds
        /\ \A b \in Group : Older(b)
        /\ \A b \in Group : \E i \in DOMAIN loc.chosen :
              i > loc.previous /\ i <= loc.current /\ b = loc.chosen[i]
        /\ loc.previous + 1 \in DOMAIN loc.chosen
        /\ loc.previous < loc.current /\ loc.current <= Len(loc.chosen)
        /\ loc.chosen \in Seq(BaseIds) /\ loc.previous \in Nat /\ loc.current \in Nat
        /\ At(InRun)
<1>1. /\ loc.chosen \in Seq(BaseIds) /\ loc.previous \in Nat /\ loc.current \in Nat
  BY DEF Inv, Types, LocRecord
<1>2. loc.previous < loc.current /\ loc.current <= Len(loc.chosen)
  BY DEF Inv, Loop
<1>3. At(InRun)
  BY DEF At, InRun, InLoop
<1>4. \A i \in loc.previous + 1 .. loc.current : i \in DOMAIN loc.chosen /\ i > loc.previous
  BY <1>1, <1>2
<1>5. \A i \in DOMAIN loc.chosen : /\ i > loc.previous => loc.chosen[i] \in InList
                                   /\ Older(loc.chosen[i])
  BY <1>3 DEF Inv, Loop
<1>6. loc.previous + 1 \in DOMAIN loc.chosen
  BY <1>1, <1>2
<1>7. \A b \in Group : \E i \in DOMAIN loc.chosen :
              i > loc.previous /\ i <= loc.current /\ b = loc.chosen[i]
  BY <1>1, <1>4 DEF Group
<1> QED BY <1>1, <1>2, <1>3, <1>5, <1>6, <1>7, ListIs

(* Clients that remove records of any base, and write to the last one or a *)
(* new one, keep the invariant: the last base is never in a group.         *)
LEMMA GrownKeeps ==
  ASSUME Inv, Types', Counted', Grown
  PROVE Inv'
<1>0. Types /\ Counted /\ Locked /\ Loop /\ Steady /\ Groups
  BY DEF Inv
<1>1. Locked'
  BY <1>0 DEF Locked, Grown
<1>2. \A P : At(P)' <=> At(P)
  BY DEF At, Grown
<1>3. \A b : Older(b) => OlderNext(b)
  BY DEF Older, OlderNext, Grown
<1>4. Loop'
  <2>1. /\ Len(loc'.chosen) <= loc'.num
        /\ \A i, j \in DOMAIN loc'.chosen : i < j => loc'.chosen[i] < loc'.chosen[j]
        /\ At(InLoop) => loc'.previous < loc'.current /\ loc'.current <= Len(loc'.chosen)
    BY <1>0 DEF Loop, Grown
  <2>2. \A i \in DOMAIN loc'.chosen : OlderNext(loc'.chosen[i])
    BY <1>0, <1>3 DEF Loop, Grown
  <2>3. At(InRun) => \A i \in DOMAIN loc'.chosen : i > loc'.previous => loc'.chosen[i] \in InList'
    BY <1>0 DEF Loop, Grown
  <2>4. At({"select"}) => /\ OlderNext(loc'.cursor) /\ loc'.previous = 0 /\ loc'.current = 1
                          /\ \A i \in DOMAIN loc'.chosen : loc'.chosen[i] <= loc'.cursor
    BY <1>0, <1>3 DEF Loop, Grown
  <2> QED BY <1>2, <2>1, <2>2, <2>3, <2>4 DEF Loop, Older, OlderNext
<1>5. \A b \in run.due \cap InList' : b \in InList /\ Older(b) /\ Aged(b)
  BY <1>0 DEF Grown, Steady
<1>6. ASSUME NEW b \in run.due \cap InList'
      PROVE /\ Served(b) => Served(b)'
            /\ Pending(b) => Served(b)' \/ Pending(b)'
  <2>1. /\ Live(b) \in Nat /\ LiveNext(b) \in Nat /\ LiveNext(b) <= Live(b)
        /\ Due(b) => Due(b)' \/ LiveNext(b) = 0
    BY <1>0, <1>5, AgedIs DEF Grown
  <2>2. Live(b) = 0 => LiveNext(b) = 0
    BY <2>1
  <2>3. LiveNext(b) = 0 => Served(b)'
    BY DEF LiveNext, Served, Live
  <2>4. b \in run.sorted => Served(b)'
    BY DEF Served, Grown
  <2>5. Due(b)' /\ Pending(b) => Pending(b)'
    BY DEF Pending, Grown
  <2> QED BY <2>1, <2>2, <2>3, <2>4, <2>5 DEF Served, Pending
<1>7. Steady'
  <2>1. \A b \in run'.due : Older(b)'
    BY <1>0, <1>3 DEF Steady, Grown, Older, OlderNext
  <2>2. ASSUME At(InRun), run'.steady
        PROVE /\ want' = "none" => run'.due = {}
              /\ want' = "index" /\ At(InLoop) => loc'.current = loc'.previous + 1
              /\ ~At({"done"}) => \A b \in run'.due \cap InList' : Served(b)' \/ Pending(b)'
              /\ At({"done"}) /\ ~exit' => \A b \in run'.due \cap InList' : Served(b)'
    <3>1. run' = run /\ want' = want /\ loc' = loc /\ exit' = exit
      BY DEF Grown
    <3>2. /\ want = "none" => run.due = {}
          /\ want = "index" /\ At(InLoop) => loc.current = loc.previous + 1
          /\ ~At({"done"}) => \A b \in run.due \cap InList : Served(b) \/ Pending(b)
          /\ At({"done"}) /\ ~exit => \A b \in run.due \cap InList : Served(b)
      BY <1>0, <2>2, <3>1 DEF Steady
    <3> QED BY <3>1, <3>2, <1>5, <1>6
  <2> QED BY <1>2, <2>1, <2>2 DEF Steady
<1>8. Groups'
  <2> SUFFICES ASSUME run'.steady, want' \in {"data", "compact"}
               PROVE (At(InLoop)' => GroupFits') /\ (At({"sort"})' => NextFits')
    BY DEF Groups
  <2>0. run' = run /\ want' = want /\ loc' = loc
    BY DEF Grown
  <2>1. ASSUME At(InLoop) PROVE GroupFits'
    <3>1. Group \subseteq InList /\ Group \subseteq BaseIds /\ \A b \in Group : Aged(b)
      BY <2>1, GroupIs DEF Grown
    <3>2. Group' = Group
      BY <2>0 DEF Group
    <3> DEFINE ne == NotEmpty(Group)
               nx == NotEmpty(Group)'
    <3>3. \A b \in Group : Live(b) \in Nat /\ LiveNext(b) \in Nat /\ LiveNext(b) <= Live(b)
      BY <1>0, <3>1, AgedIs
    <3>4. nx \subseteq ne /\ ne \subseteq BaseIds /\ \A b \in ne : b \in InList /\ Aged(b)
      <4>1. nx = {b \in Group : LiveNext(b) > 0}
        BY <3>2 DEF NotEmpty, LiveNext, Live
      <4>2. ne = {b \in Group : Live(b) > 0}
        BY DEF NotEmpty
      <4>3. \A b \in Group : LiveNext(b) > 0 => Live(b) > 0
        BY <3>3
      <4> HIDE DEF ne, nx
      <4> QED BY <4>1, <4>2, <4>3, <3>1
    <3>5. GroupFits
      BY <1>0, <2>0, <2>1 DEF Groups
    <3>6. /\ LiveIn(NotEmpty(Group))' <= LiveIn(ne) /\ SizeOf(NotEmpty(Group))' <= SizeOf(ne)
          /\ LiveIn(NotEmpty(Group))' \in Nat /\ SizeOf(NotEmpty(Group))' \in Nat
          /\ LiveIn(ne) \in Nat /\ SizeOf(ne) \in Nat
      <4>1. /\ SumFunctionOnSet([b \in nx |-> LiveNext(b)], nx) <= LiveIn(ne)
            /\ SumFunctionOnSet([b \in nx |-> base'[b].total], nx) <= SizeOf(ne)
            /\ SumFunctionOnSet([b \in nx |-> LiveNext(b)], nx) \in Nat
            /\ SumFunctionOnSet([b \in nx |-> base'[b].total], nx) \in Nat
            /\ LiveIn(ne) \in Nat /\ SizeOf(ne) \in Nat
        <5> HIDE DEF nx, ne
        <5> QED BY <1>0, <3>4, SumsShrink
      <4>2. LiveIn(NotEmpty(Group))' = SumFunctionOnSet([b \in nx |-> LiveNext(b)], nx)
        BY DEF LiveIn, LiveNext, Live
      <4>3. SizeOf(NotEmpty(Group))' = SumFunctionOnSet([b \in nx |-> base'[b].total], nx)
        BY DEF SizeOf
      <4> QED BY <4>1, <4>2, <4>3
    <3>7. /\ LiveIn(ne) <= loc.totalRecords /\ SizeOf(ne) <= loc.totalSize
          /\ (\E x, y \in ne : x # y) => LiveIn(ne) <= RecordsInBlob /\ SizeOf(ne) <= BlobSize
      BY <3>5 DEF GroupFits
    <3>8. /\ loc.totalRecords \in Nat /\ loc.totalSize \in Nat
          /\ RecordsInBlob \in Nat /\ BlobSize \in Nat
      BY <1>0, LimitsAssumption DEF Types, LocRecord
    <3>9. /\ LiveIn(NotEmpty(Group))' <= loc.totalRecords
          /\ SizeOf(NotEmpty(Group))' <= loc.totalSize
          /\ LiveIn(ne) <= RecordsInBlob => LiveIn(NotEmpty(Group))' <= RecordsInBlob
          /\ SizeOf(ne) <= BlobSize => SizeOf(NotEmpty(Group))' <= BlobSize
      <4> HIDE DEF nx, ne
      <4> QED BY <3>6, <3>7, <3>8
    <3>10. (\E x, y \in nx : x # y) => (\E x, y \in ne : x # y)
      BY <3>4
    <3> QED BY <2>0, <3>7, <3>9, <3>10 DEF GroupFits
  <2>2. ASSUME At({"sort"}) PROVE NextFits'
    <3>1. At(InLoop)
      BY <2>2 DEF At, InLoop
    <3>2. /\ loc.chosen \in Seq(BaseIds) /\ loc.previous \in Nat /\ loc.current \in Nat
          /\ loc.previous < loc.current
      BY <3>1, GroupIs
    <3>3. SUFFICES ASSUME loc.current < Len(loc.chosen)
                   PROVE LET b == loc.chosen[loc.current + 1] IN
                         LiveNext(b) <= loc.records /\ base'[b].total <= loc.size
      BY <2>0 DEF NextFits, LiveNext, Live
    <3> DEFINE b == loc.chosen[loc.current + 1]
    <3>4. b \in InList /\ Older(b) /\ Aged(b)
      <4>1. loc.current + 1 \in DOMAIN loc.chosen /\ loc.current + 1 > loc.previous
        BY <3>2, <3>3
      <4> QED BY <1>0, <3>1, <4>1, GroupIs DEF Loop, Grown
    <3>5. Live(b) <= loc.records /\ base[b].total <= loc.size
      BY <1>0, <2>0, <2>2, <3>3 DEF Groups, NextFits
    <3>6. /\ Live(b) \in Nat /\ LiveNext(b) \in Nat /\ LiveNext(b) <= Live(b)
          /\ base'[b].total = base[b].total
      <4> HIDE DEF b
      <4> QED BY <1>0, <3>4, AgedIs DEF Aged
    <3>7. loc.records \in Nat
      BY <1>0 DEF Types, LocRecord
    <3> HIDE DEF b
    <3> QED BY <3>5, <3>6, <3>7 DEF b
  <2> QED BY <1>2, <2>1, <2>2
<1> QED BY <1>0, <1>1, <1>4, <1>7, <1>8 DEF Inv

(* A remove is such a step.                                                *)
LEMMA RemoveKeeps ==
  ASSUME Inv, NEW b \in BaseIds, Remove(b)
  PROVE Inv'
<1>0. Types /\ Counted
  BY DEF Inv
<1>1. /\ b \in InList /\ Live(b) > 0
      /\ base' = [base EXCEPT ![b].removed = @ + 1]
      /\ UNCHANGED <<config, client, threads, sleep, pc, lock, loc, asked, run>>
      /\ events' = events + 1
  BY DEF Remove
<1>2. /\ base[b] \in BaseRecord /\ base[b].total \in Nat /\ base[b].removed \in Nat
      /\ base \in [BaseIds -> BaseRecord \cup {NoBase}]
  BY <1>0, <1>1, LiveNat DEF Types
<1>3. base'[b] = [base[b] EXCEPT !.removed = @ + 1]
      /\ \A c \in BaseIds : c # b => base'[c] = base[c]
  BY <1>1, <1>2
<1>4. /\ base'[b] \in BaseRecord /\ base'[b].total = base[b].total
      /\ base'[b].removed = base[b].removed + 1
      /\ base'[b].data = base[b].data /\ base'[b].index = base[b].index
  BY <1>2, <1>3 DEF BaseRecord
<1>5. base' \in [BaseIds -> BaseRecord \cup {NoBase}]
  <2>1. [base[b] EXCEPT !.removed = @ + 1] \in BaseRecord
    BY <1>3, <1>4
  <2> QED BY <1>1, <1>2, <2>1
<1>6. InList' = InList
  <2>1. base'[b] # NoBase /\ base[b] # NoBase
    BY <1>4, <1>2, NamesAssumption
  <2> QED BY <2>1, <1>3 DEF InList
<1>7. Types'
  BY <1>0, <1>1, <1>5 DEF Types, client, threads
<1>8. Counted'
  <2> SUFFICES ASSUME NEW c \in InList
               PROVE base'[c].removed <= base'[c].total /\ (base'[c].data => base'[c].index)
    BY <1>6 DEF Counted
  <2>1. CASE c = b
    <3>1. base[b].removed + 1 <= base[b].total
      BY <1>1, <1>2 DEF Live
    <3> QED BY <1>0, <1>1, <1>4, <2>1, <3>1 DEF Counted
  <2>2. CASE c # b
    BY <1>0, <1>3, <2>2, ListIs DEF Counted
  <2> QED BY <2>1, <2>2
<1>9. Grown
  <2>1. \A c \in InList : Aged(c)
    <3> TAKE c \in InList
    <3>1. CASE c = b
      BY <1>2, <1>4, <1>6, <3>1 DEF Aged
    <3>2. CASE c # b
      <4>1. base'[c] = base[c]
        BY <1>3, <3>2, ListIs
      <4>2. base[c].removed \in Nat
        BY <1>0, LiveNat
      <4> QED BY <1>6, <4>1, <4>2 DEF Aged
    <3> QED BY <3>1, <3>2
  <2> QED BY <1>1, <1>6, <2>1 DEF Grown, client, threads
<1> QED BY <1>7, <1>8, <1>9, GrownKeeps

(* A write is one.                                                         *)
LEMMA WriteKeeps ==
  ASSUME Inv, Write
  PROVE Inv'
<1>0. Types /\ Counted
  BY DEF Inv
<1>s. base \in [BaseIds -> BaseRecord \cup {NoBase}] /\ BaseIds \subseteq Nat
  BY <1>0, BasesFinite DEF Types
<1>1. /\ UNCHANGED <<config, want, threads, sleep, pc, lock, loc, asked, run>>
      /\ events' = events + 1
  BY DEF Write
<1>2. starting' \subseteq {"data", "index"}
  <2>1. config.auto \in {"none", "data", "index"}
    BY <1>0 DEF Types, Config
  <2> QED BY <1>0, <2>1 DEF Write, Types, ForceSort
<1>3. ASSUME NEW c \in BaseIds, NEW v \in BaseRecord, base' = [base EXCEPT ![c] = v],
             v.removed <= v.total, v.data => v.index,
             \A l \in InList : l <= c
      PROVE Inv'
  <2>1. base'[c] = v /\ \A x \in BaseIds : x # c => base'[x] = base[x]
    BY <1>3, <1>s
  <2>2. base' \in [BaseIds -> BaseRecord \cup {NoBase}]
    BY <1>3, <1>s
  <2>3. InList' = InList \cup {c}
    <3>1. v # NoBase
      BY NamesAssumption
    <3> QED BY <2>1, <3>1 DEF InList
  <2>4. Types'
    BY <1>0, <1>1, <1>2, <2>2 DEF Types, threads
  <2>5. Counted'
    BY <1>0, <1>3, <2>1, <2>3, ListIs DEF Counted
  <2>6. ~Older(c)
    BY <1>3, <1>s, ListIs DEF Older
  <2>7. \A x \in InList : Older(x) => Aged(x)
    <3> SUFFICES ASSUME NEW x \in InList, Older(x) PROVE Aged(x)
      OBVIOUS
    <3>1. x # c /\ base'[x] = base[x]
      BY <2>1, <2>6, ListIs
    <3>2. base[x].removed \in Nat
      BY <1>0, LiveNat
    <3> QED BY <2>3, <3>1, <3>2 DEF Aged
  <2>8. Grown
    BY <1>1, <2>3, <2>6, <2>7 DEF Grown, threads
  <2> QED BY <2>4, <2>5, <2>8, GrownKeeps
<1>4. CASE Full
  <2>1. NewId \in BaseIds /\ base' = [base EXCEPT ![NewId] = NewBase]
    BY <1>4 DEF Write
  <2>2. /\ NewBase \in BaseRecord /\ NewBase.removed <= NewBase.total
        /\ NewBase.data => NewBase.index
    BY DEF NewBase, BaseRecord
  <2>3. \A l \in InList : l <= NewId
    <3> SUFFICES ASSUME NEW l \in InList PROVE l <= NewId
      OBVIOUS
    <3>1. l <= LastBase /\ LastBase \in Nat /\ l \in Nat
      BY <1>s, LastIs, ListIs
    <3>2. NewId = LastBase + 1
      BY DEF NewId
    <3> QED BY <3>1, <3>2
  <2> QED BY <1>3, <2>1, <2>2, <2>3
<1>5. CASE ~Full
  <2>1. InList # {}
    BY <1>5 DEF Full
  <2>2. LastBase \in InList /\ \A l \in InList : l <= LastBase
    BY <2>1, LastIs
  <2> DEFINE v == [base[LastBase] EXCEPT !.total = @ + 1]
  <2>3. base' = [base EXCEPT ![LastBase] = v]
    BY <1>5 DEF Write
  <2>4. base[LastBase] \in BaseRecord
    BY <1>0, <2>2, LiveNat
  <2>5. v \in BaseRecord /\ v.removed = base[LastBase].removed
        /\ v.total = base[LastBase].total + 1 
        /\ v.data = base[LastBase].data /\ v.index = base[LastBase].index
    BY <2>4 DEF BaseRecord
  <2>6. base[LastBase].removed \in Nat /\ base[LastBase].total \in Nat
        /\ base[LastBase].removed <= base[LastBase].total
        /\ (base[LastBase].data => base[LastBase].index)
    BY <1>0, <2>2, LiveNat DEF Counted
  <2> HIDE DEF v
  <2>7. v.removed <= v.total /\ (v.data => v.index)
    BY <2>5, <2>6
  <2>8. LastBase \in BaseIds
    BY <2>2, ListIs
  <2> QED BY <1>3, <2>2, <2>3, <2>5, <2>7, <2>8
<1> QED BY <1>4, <1>5

-----------------------------------------------------------------------------
(* The steps of a run. *)

(* One runner moves, the other stays where it is.                          *)
LEMMA RunnerMoves ==
  ASSUME Types, Locked, NEW d \in Runners, NEW s \in States, pc' = [pc EXCEPT ![d] = s]
  PROVE /\ pc' \in [Runners -> States]
        /\ pc'[d] = s /\ \A e \in Runners : e # d => pc'[e] = pc[e]
BY DEF Types

(* The runner d of a run goes to another place of it. *)
LEMMA StaysLocked ==
  ASSUME Inv, NEW d \in Runners, NEW s \in InRun, pc[d] \in InRun, lock' = lock,
         pc' = [pc EXCEPT ![d] = s]
  PROVE /\ lock = d /\ lock # Nobody
        /\ pc' \in [Runners -> States]
        /\ Locked'
        /\ \A P \in SUBSET InRun : At(P)' <=> s \in P
        /\ \A P \in SUBSET InRun : At(P) <=> pc[d] \in P
<1>0. Types /\ Locked
  BY DEF Inv
<1>1. lock = d /\ lock # Nobody
  BY <1>0, AtRun
<1>2. /\ pc' \in [Runners -> States]
      /\ pc'[d] = s /\ \A e \in Runners : e # d => pc'[e] = pc[e]
  <2>1. s \in States
    BY DEF States
  <2> QED BY <1>0, <2>1, RunnerMoves
<1>3. Locked'
  BY <1>0, <1>1, <1>2 DEF Locked
<1>4. \A P \in SUBSET InRun : At(P)' <=> s \in P
  BY <1>1, <1>2 DEF At
<1>5. \A P \in SUBSET InRun : At(P) <=> pc[d] \in P
  BY <1>1 DEF At
<1> QED BY <1>1, <1>2, <1>3, <1>4, <1>5

(* A run begins.                                                           *)
LEMMA LockKeeps ==
  ASSUME Inv, NEW d \in Runners, Lock(d)
  PROVE Inv'
<1>0. Types /\ Counted /\ Locked /\ Loop /\ Steady /\ Groups
  BY DEF Inv
<1>1. /\ pc[d] = "lock" /\ lock = Nobody /\ lock' = d
      /\ UNCHANGED <<config, base, client, threads, sleep, events, run>>
  BY DEF Lock
<1>2. loc' = [Start EXCEPT !.num = Cardinality(InList)]
  BY DEF Lock
<1>3. Cardinality(InList) \in Nat
  BY BasesFinite, ListIs, FS_Subset, FS_CardinalityType
<1>4. /\ loc'.num \in Nat /\ loc'.cursor = 0 /\ loc'.chosen = <<>> /\ loc'.current = 1
      /\ loc'.previous = 0 /\ loc' \in LocRecord
  <2> DEFINE n == Cardinality(InList)
  <2>1. loc' = [num |-> n, cursor |-> 0, chosen |-> <<>>, current |-> 1, previous |-> 0,
                totalRecords |-> 0, totalSize |-> 0, records |-> 0, size |-> 0]
    BY <1>2 DEF Start
  <2>2. n \in Nat /\ <<>> \in Seq(BaseIds)
    BY <1>3
  <2> HIDE DEF n
  <2>3. loc' \in LocRecord
    BY <2>1, <2>2 DEF LocRecord
  <2> QED BY <2>1, <2>2, <2>3
<1> DEFINE s == IF InList = {} THEN "done" ELSE "select"
<1>5. pc' = [pc EXCEPT ![d] = s] /\ s \in InRun /\ s \in States
  BY DEF Lock, InRun, States
<1>6. /\ pc' \in [Runners -> States]
      /\ pc'[d] = s /\ \A e \in Runners : e # d => pc'[e] = pc[e]
  <2> HIDE DEF s
  <2> QED BY <1>0, <1>5, RunnerMoves
<1>7. Types'
  <2>1. asked' \in {"none", "early", "late"}
    BY <1>0 DEF Lock, Types
  <2> QED BY <1>0, <1>1, <1>4, <1>6, <2>1 DEF Types, client, threads
<1>8. Counted'
  BY <1>0, <1>1 DEF Counted, InList
<1>9. Locked'
  <2>1. \A e \in Runners : e # d => pc[e] \notin InRun
    BY <1>0, <1>1, Distinct DEF Locked
  <2>2. d # Nobody
    BY Distinct
  <2> HIDE DEF s
  <2> QED BY <1>1, <1>5, <1>6, <2>1, <2>2 DEF Locked
<1>10. \A P : At(P)' => s \in P
  BY <1>1, <1>6 DEF At
<1>11. Loop'
  <2>1. DOMAIN loc'.chosen = {} /\ Len(loc'.chosen) = 0
    BY <1>4
  <2>2. At({"select"})' => Older(0)'
    <3>1. At({"select"})' => InList # {}
      BY <1>10
    <3>2. \A l \in InList : l > 0
      BY LimitsAssumption DEF InList, BaseIds
    <3>3. InList' = InList
      BY <1>1 DEF InList
    <3> QED BY <3>1, <3>2, <3>3 DEF Older
  <2>3. ~At(InLoop)'
    BY <1>10 DEF InLoop
  <2>4. At({"select"})' => OlderNext(loc'.cursor)
    BY <1>4, <2>2 DEF Older, OlderNext
  <2> QED BY <1>4, <2>1, <2>3, <2>4 DEF Loop, Older, OlderNext
<1>12. run' = Fresh
  BY <1>0, <1>1 DEF Locked
<1>13. Steady'
  <2>1. run'.due = {}
    BY <1>12 DEF Fresh
  <2>2. ~At(InLoop)'
    BY <1>10 DEF InLoop
  <2> QED BY <2>1, <2>2 DEF Steady
<1>14. Groups'
  <2>1. ~At(InLoop)' /\ ~At({"sort"})'
    BY <1>10 DEF InLoop
  <2> QED BY <2>1 DEF Groups
<1> QED BY <1>7, <1>8, <1>9, <1>11, <1>13, <1>14 DEF Inv

(* A run ends.                                                             *)
LEMMA DoneKeeps ==
  ASSUME Inv, NEW d \in Runners, Done(d)
  PROVE Inv'
<1>0. Types /\ Counted /\ Locked /\ Loop /\ Steady /\ Groups
  BY DEF Inv
<1>1. /\ pc[d] = "done" /\ lock' = Nobody /\ loc' = Start /\ run' = Fresh
      /\ UNCHANGED <<config, base, client, threads, sleep, events, asked>>
  BY DEF Done
<1> DEFINE s == IF d = Thread THEN "reset" ELSE "idle"
<1>2. pc' = [pc EXCEPT ![d] = s] /\ s \in States /\ s \notin InRun
  BY DEF Done, States, InRun
<1>3. /\ pc' \in [Runners -> States]
      /\ pc'[d] = s /\ \A e \in Runners : e # d => pc'[e] = pc[e]
  <2> HIDE DEF s
  <2> QED BY <1>0, <1>2, RunnerMoves
<1>4. Start \in LocRecord /\ Fresh \in RunRecord
  <2>1. <<>> \in Seq(BaseIds)
    OBVIOUS
  <2> QED BY <2>1 DEF Start, LocRecord, Fresh, RunRecord
<1>5. Types'
  BY <1>0, <1>1, <1>3, <1>4 DEF Types, client, threads
<1>6. Counted'
  BY <1>0, <1>1 DEF Counted, InList
<1>7. lock = d
  BY <1>0, <1>1 DEF Locked, InRun
<1>8. Locked'
  <2>1. \A e \in Runners : e # d => pc[e] \notin InRun
    BY <1>0, <1>7 DEF Locked
  <2> HIDE DEF s
  <2> QED BY <1>1, <1>2, <1>3, <2>1, Distinct DEF Locked
<1>9. \A P : ~At(P)'
  BY <1>1 DEF At
<1>10. Loop'
  <2>1. loc'.chosen = <<>> /\ loc'.num = 0
    BY <1>1 DEF Start
  <2> QED BY <1>9, <2>1 DEF Loop
<1>11. run'.due = {}
  BY <1>1 DEF Fresh
<1>12. Steady' /\ Groups'
  BY <1>9, <1>11 DEF Steady, Groups
<1> QED BY <1>5, <1>6, <1>8, <1>10, <1>12 DEF Inv

(* The condition of the second loop: it ends early only if the level was   *)
(* taken away or the store is closed.                                      *)
LEMMA HeadKeeps ==
  ASSUME Inv, NEW d \in Runners, LoopHead(d)
  PROVE Inv'
<1>0. Types /\ Counted /\ Locked /\ Loop /\ Steady /\ Groups
  BY DEF Inv
<1>1. /\ pc[d] = "head"
      /\ UNCHANGED <<config, base, client, threads, sleep, lock, loc, events, asked, run>>
  BY DEF LoopHead
<1> DEFINE s == IF exit \/ want = "none" THEN "done" ELSE "accumulate"
<1>2. pc' = [pc EXCEPT ![d] = s] /\ s \in InRun /\ pc[d] \in InRun
  BY <1>1 DEF LoopHead, InRun
<1>3. /\ lock = d /\ lock # Nobody
      /\ pc' \in [Runners -> States]
      /\ Locked'
      /\ \A P \in SUBSET InRun : At(P)' <=> s \in P
      /\ \A P \in SUBSET InRun : At(P) <=> pc[d] \in P
  <2> HIDE DEF s
  <2> QED BY <1>1, <1>2, StaysLocked
<1>4. /\ At(InRun) /\ At(InLoop) /\ ~At({"done"}) /\ ~At({"sort"})'
      /\ ~At({"select"})'
      /\ At(InLoop)' => s = "accumulate"
      /\ At({"done"})' => s = "done"
  BY <1>1, <1>3 DEF InRun, InLoop
<1>5. Types'
  BY <1>0, <1>1, <1>3 DEF Types, client, threads
<1>6. Counted'
  BY <1>0, <1>1 DEF Counted, InList
<1>7. Loop'
  BY <1>0, <1>1, <1>4 DEF Loop, Older, InList
<1>8. Steady'
  <2>1. \A b \in run'.due : Older(b)'
    BY <1>0, <1>1 DEF Steady, Older, InList
  <2>2. \A b \in run.due \cap InList : run.steady => Served(b) \/ Pending(b)
    BY <1>0, <1>4 DEF Steady
  <2>3. (\A b \in run.due \cap InList : run.steady => Served(b) \/ Pending(b))'
    BY <2>2, <1>1 DEF InList, Served, Pending, Due, WantDefrag, Live, client
  <2>4. run'.steady => (want' = "none" => run'.due = {})
    BY <1>0, <1>1, <1>4 DEF Steady, client
  <2>5. run'.steady => (want' = "index" => loc'.current = loc'.previous + 1)
    BY <1>0, <1>1, <1>4 DEF Steady, client
  <2>6. s = "done" /\ ~exit' => want' = "none"
    BY <1>1 DEF client, threads
  <2> QED BY <1>4, <2>1, <2>3, <2>4, <2>5, <2>6 DEF Steady
<1>9. Groups'
  <2>1. run.steady /\ want \in {"data", "compact"} => GroupFits
    BY <1>0, <1>4 DEF Groups
  <2>2. (run.steady /\ want \in {"data", "compact"} => GroupFits)'
    BY <2>1, <1>1 DEF GroupFits, NotEmpty, LiveIn, SizeOf, Group, Live, client
  <2> QED BY <1>4, <2>2 DEF Groups
<1> QED BY <1>3, <1>5, <1>6, <1>7, <1>8, <1>9 DEF Inv

(* A group of one base. *)
LEMMA OneFits ==
  ASSUME NEW b, Group' = {b}, LiveNext(b) \in Nat, base'[b].total \in Nat,
         loc'.totalRecords \in Nat, loc'.totalSize \in Nat,
         LiveNext(b) <= loc'.totalRecords, base'[b].total <= loc'.totalSize
  PROVE GroupFits'
<1> DEFINE nx == NotEmpty(Group)'
           f == [x \in nx |-> LiveNext(x)]
           z == [x \in nx |-> base'[x].total]
<1>1. nx = {} \/ nx = {b}
  BY DEF NotEmpty
<1>2. /\ LiveIn(NotEmpty(Group))' = SumFunctionOnSet(f, nx)
      /\ SizeOf(NotEmpty(Group))' = SumFunctionOnSet(z, nx)
  BY DEF LiveIn, SizeOf, LiveNext, Live
<1>3. nx = {b} => f[b] = LiveNext(b) /\ z[b] = base'[b].total
  OBVIOUS
<1>4. ~ \E x, y \in nx : x # y
  BY <1>1
<1>5. SumFunctionOnSet(f, nx) <= loc'.totalRecords /\ SumFunctionOnSet(z, nx) <= loc'.totalSize
  <2> HIDE DEF nx, f, z
  <2>1. CASE nx = {}
    BY <2>1, SumOfNone
  <2>2. CASE nx = {b}
    <3>1. IsFiniteSet({b}) /\ {b} \ {b} = {}
      BY FS_Singleton
    <3>2. SumFunctionOnSet(f, {b}) = f[b] + SumFunctionOnSet(f, {})
      BY <1>3, <2>2, <3>1, SumTake
    <3>3. SumFunctionOnSet(z, {b}) = z[b] + SumFunctionOnSet(z, {})
      BY <1>3, <2>2, <3>1, SumTake
    <3> QED BY <1>3, <2>2, <3>2, <3>3, SumOfNone
  <2> QED BY <1>1, <2>1, <2>2
<1> QED BY <1>2, <1>4, <1>5 DEF GroupFits

(* The end of the first loop: all bases but the last one were looked at,   *)
(* or the run is not complete and the observer says so.                    *)
LEMMA SelectEndKeeps ==
  ASSUME Inv, NEW d \in Runners, SelectEnd(d)
  PROVE Inv'
<1>0. Types /\ Counted /\ Locked /\ Loop /\ Steady /\ Groups
  BY DEF Inv
<1>1. /\ pc[d] = "select"
      /\ UNCHANGED <<config, base, client, threads, sleep, lock, events, asked>>
  BY DEF SelectEnd
<1> DEFINE s == IF loc.chosen = <<>> THEN "done" ELSE "head"
<1>2. pc' = [pc EXCEPT ![d] = s] /\ s \in InRun /\ pc[d] \in InRun
  BY <1>1 DEF SelectEnd, InRun
<1>3. /\ lock = d /\ lock # Nobody
      /\ pc' \in [Runners -> States]
      /\ Locked'
      /\ \A P \in SUBSET InRun : At(P)' <=> s \in P
      /\ \A P \in SUBSET InRun : At(P) <=> pc[d] \in P
  <2> HIDE DEF s
  <2> QED BY <1>1, <1>2, StaysLocked
<1>4. /\ At(InRun) /\ At({"select"}) /\ ~At({"done"}) /\ ~At({"sort"})'
      /\ ~At({"select"})'
      /\ At(InLoop)' => s = "head"
      /\ At({"done"})' => s = "done"
  BY <1>1, <1>3 DEF InRun, InLoop
<1>5. run' \in RunRecord /\ run'.due = run.due /\ run'.sorted = run.sorted
      /\ (run'.steady => run.steady)
  <2>1. \E q \in BOOLEAN : run' = [run EXCEPT !.steady = @ /\ q]
    BY DEF SelectEnd
  <2>2. run \in RunRecord
    BY <1>0 DEF Types
  <2> QED BY <2>1, <2>2 DEF RunRecord
<1>6. loc \in LocRecord /\ loc.chosen \in Seq(BaseIds)
  BY <1>0 DEF Types, LocRecord
<1>7. loc.previous = 0 /\ loc.current = 1
  BY <1>0, <1>4 DEF Loop
<1>8. loc.chosen # <<>> => /\ loc.chosen[1] \in InList /\ Len(loc.chosen) >= 1
                           /\ 1 \in DOMAIN loc.chosen
  BY <1>0, <1>4, <1>6, <1>7 DEF Loop
<1>9. /\ loc' \in LocRecord /\ loc'.chosen = loc.chosen /\ loc'.previous = 0
      /\ loc'.current = 1 /\ loc'.num = loc.num
      /\ loc.chosen # <<>> => /\ loc'.totalRecords = Live(loc.chosen[1])
                              /\ loc'.totalSize = base[loc.chosen[1]].total
  <2>1. CASE loc.chosen = <<>>
    BY <1>6, <1>7, <2>1 DEF SelectEnd
  <2>2. CASE loc.chosen # <<>>
    <3> DEFINE r == Live(loc.chosen[1])
               z == base[loc.chosen[1]].total
    <3>1. r \in Nat /\ z \in Nat
      BY <1>0, <1>8, <2>2, LiveNat
    <3>2. loc' = [loc EXCEPT !.totalRecords = r, !.totalSize = z]
      BY <2>2 DEF SelectEnd
    <3> HIDE DEF r, z
    <3>3. /\ loc' \in LocRecord /\ loc'.chosen = loc.chosen /\ loc'.previous = 0
          /\ loc'.current = 1 /\ loc'.num = loc.num
          /\ loc'.totalRecords = r /\ loc'.totalSize = z
      BY <1>6, <1>7, <3>1, <3>2 DEF LocRecord
    <3> QED BY <3>3 DEF r, z
  <2> QED BY <2>1, <2>2
<1>10. Types'
  BY <1>0, <1>1, <1>3, <1>5, <1>9 DEF Types, client, threads
<1>11. Counted'
  BY <1>0, <1>1 DEF Counted, InList
<1>12. \A b : Older(b)' <=> Older(b)
  BY <1>1 DEF Older, InList
<1>13. InList' = InList
  BY <1>1 DEF InList
<1>14. Loop'
  <2>1. /\ Len(loc'.chosen) <= loc'.num
        /\ \A i \in DOMAIN loc'.chosen : OlderNext(loc'.chosen[i])
        /\ \A i, j \in DOMAIN loc'.chosen : i < j => loc'.chosen[i] < loc'.chosen[j]
        /\ \A i \in DOMAIN loc'.chosen : i > loc'.previous => loc'.chosen[i] \in InList'
    BY <1>0, <1>4, <1>7, <1>9, <1>12, <1>13 DEF Loop, Older, OlderNext
  <2>2. At(InLoop)' => loc'.previous < loc'.current /\ loc'.current <= Len(loc'.chosen)
    BY <1>4, <1>8, <1>9
  <2> QED BY <1>4, <2>1, <2>2 DEF Loop, Older, OlderNext
<1>15. Steady'
  <2>1. \A b \in run'.due : Older(b)'
    BY <1>0, <1>5, <1>12 DEF Steady
  <2>2. ASSUME run'.steady
        PROVE /\ want' = "none" => run'.due = {}
              /\ \A b \in run'.due \cap InList' : Served(b)' \/ Pending(b)'
              /\ loc.chosen = <<>> => \A b \in run'.due \cap InList' : Served(b)'
    <3>1. /\ want = "none" => run.due = {}
          /\ \A b \in run.due \cap InList : Served(b) \/ Pending(b)
      BY <1>0, <1>4, <1>5, <2>2 DEF Steady
    <3>2. \A b : (Served(b) => Served(b)') /\ (Pending(b) => Pending(b)')
      BY <1>1, <1>5, <1>7, <1>9 DEF Served, Pending, Live, Due, WantDefrag, client
    <3>3. loc.chosen = <<>> => \A b : ~Pending(b)
      BY DEF Pending
    <3>4. want' = want
      BY <1>1 DEF client
    <3> QED BY <1>5, <1>13, <3>1, <3>2, <3>3, <3>4
  <2> QED BY <1>4, <1>9, <2>1, <2>2 DEF Steady
<1>16. Groups'
  <2> SUFFICES ASSUME At(InLoop)' PROVE GroupFits'
    BY <1>4 DEF Groups
  <2> DEFINE b == loc.chosen[1]
  <2>1. loc.chosen # <<>>
    BY <1>4
  <2>2. Group' = {b}
    BY <1>9 DEF Group
  <2>3. b \in InList /\ Live(b) \in Nat /\ base[b].total \in Nat
    BY <1>0, <1>8, <2>1, LiveNat
  <2>4. base'[b] = base[b]
    BY <1>1
  <2>5. loc'.totalRecords = Live(b) /\ loc'.totalSize = base[b].total
    BY <1>9, <2>1
  <2>6. LiveNext(b) = Live(b)
    BY <2>4 DEF LiveNext, Live
  <2> HIDE DEF b
  <2> QED BY <2>2, <2>3, <2>4, <2>5, <2>6, OneFits
<1> QED BY <1>3, <1>10, <1>11, <1>14, <1>15, <1>16 DEF Inv

(* What is due is not passed over. *)
LEMMA DueIsChosen ==
  ASSUME Types, Counted, NEW b \in InList, WantDefrag(b) # "remove", Due(b)
  PROVE ~Passed(b)
BY DEF Passed, Skipped, Due, Counted

(* While the last base stays in the list, what is before it stays before   *)
(* it.                                                                     *)
LEMMA OlderStays ==
  ASSUME InList # {}, LastBase \in InList'
  PROVE \A b \in Nat : Older(b) => OlderNext(b)
<1>1. LastBase \in Nat /\ \A l \in InList : l \in Nat /\ l <= LastBase
  BY LastIs, ListIs, BasesFinite
<1> QED BY <1>1 DEF Older, OlderNext

(* One base of the first loop.                                             *)
LEMMA SelectNextKeeps ==
  ASSUME Inv, NEW d \in Runners, SelectNext(d)
  PROVE Inv'
<1>0. Types /\ Counted /\ Locked /\ Loop /\ Steady /\ Groups
  BY DEF Inv
<1>c. loc \in LocRecord /\ loc.chosen \in Seq(BaseIds) /\ loc.cursor \in Nat
      /\ run \in RunRecord
  BY <1>0 DEF Types, LocRecord
<1>1. /\ pc[d] = "select"
      /\ UNCHANGED <<config, client, threads, sleep, pc, lock, events, asked>>
  BY DEF SelectNext
<1>2. /\ At({"select"}) /\ At(InRun) /\ lock = d /\ lock # Nobody
      /\ ~At(InLoop) /\ ~At({"sort"}) /\ ~At({"done"})
  BY <1>0, <1>1, AtRun DEF At, InRun, InLoop
<1>3. \A P : At(P)' <=> At(P)
  BY <1>1 DEF At
<1>4. /\ Older(loc.cursor) /\ loc.previous = 0 /\ loc.current = 1
      /\ \A i \in DOMAIN loc.chosen : /\ loc.chosen[i] <= loc.cursor
                                      /\ loc.chosen[i] \in InList /\ Older(loc.chosen[i])
  BY <1>0, <1>2, <1>c DEF Loop
<1>5. PICK b : /\ b = Min({x \in InList : x > loc.cursor})
               /\ b \in InList /\ b > loc.cursor
               /\ \A x \in InList : x > loc.cursor => b <= x
  BY <1>c, <1>4, NextIs
<1>6. /\ b # LastBase /\ (Passed(b) \/ Room)
      /\ loc' = [loc EXCEPT !.cursor = b,
                            !.chosen = IF Passed(b) THEN @ ELSE Append(@, b)]
      /\ base' = IF WantDefrag(b) = "remove" THEN [base EXCEPT ![b] = NoBase] ELSE base
      /\ run' = IF WantDefrag(b) # "remove" /\ Due(b)
                THEN [run EXCEPT !.due = @ \cup {b}] ELSE run
  BY <1>5 DEF SelectNext
<1>7. b \in Nat /\ b \in BaseIds /\ LastBase \in InList /\ b < LastBase /\ LastBase \in Nat
  BY <1>5, <1>6, LastIs, ListIs, BasesFinite
<1>8. /\ \A x \in BaseIds : x # b => base'[x] = base[x]
      /\ WantDefrag(b) # "remove" => base'[b] = base[b]
      /\ base' \in [BaseIds -> BaseRecord \cup {NoBase}]
  BY <1>0, <1>6 DEF Types
<1>9. /\ InList' \subseteq InList /\ InList \ {b} \subseteq InList'
      /\ WantDefrag(b) # "remove" => InList' = InList
  <2>1. \A x \in BaseIds : x # b => (x \in InList' <=> x \in InList)
    BY <1>8 DEF InList
  <2>2. WantDefrag(b) # "remove" => InList' = InList
    BY <1>6 DEF InList
  <2>3. InList \subseteq BaseIds /\ InList' \subseteq BaseIds
    BY DEF InList
  <2> QED BY <1>5, <2>1, <2>2, <2>3
<1>10. \A x \in Nat : Older(x) => OlderNext(x)
  BY <1>7, <1>9, OlderStays
<1>11. /\ loc' \in LocRecord /\ loc'.cursor = b /\ loc'.previous = 0 /\ loc'.current = 1
       /\ loc'.num = loc.num
       /\ loc'.chosen = IF Passed(b) THEN loc.chosen ELSE Append(loc.chosen, b)
       /\ loc'.chosen \in Seq(BaseIds)
  <2> DEFINE c == IF Passed(b) THEN loc.chosen ELSE Append(loc.chosen, b)
  <2>1. c \in Seq(BaseIds)
    BY <1>c, <1>7
  <2>2. loc' = [loc EXCEPT !.cursor = b, !.chosen = c]
    BY <1>6
  <2> HIDE DEF c
  <2>3. /\ loc' \in LocRecord /\ loc'.cursor = b /\ loc'.previous = 0 /\ loc'.current = 1
        /\ loc'.num = loc.num /\ loc'.chosen = c
    BY <1>c, <1>4, <1>7, <2>1, <2>2 DEF LocRecord
  <2> QED BY <2>1, <2>3 DEF c
<1>12. /\ run' \in RunRecord /\ run'.steady = run.steady /\ run'.sorted = run.sorted
       /\ run'.due = IF WantDefrag(b) # "remove" /\ Due(b) THEN run.due \cup {b} ELSE run.due
  BY <1>c, <1>6, <1>7 DEF RunRecord
<1>13. Types'
  BY <1>0, <1>1, <1>8, <1>11, <1>12 DEF Types, client, threads
<1>14. \A x \in InList' : base'[x] = base[x] /\ x \in InList
  <2>1. WantDefrag(b) = "remove" => b \notin InList'
    BY <1>0, <1>6, <1>7 DEF InList, Types
  <2> QED BY <1>8, <1>9, <2>1, ListIs
<1>15. Counted'
  BY <1>0, <1>14 DEF Counted
<1>16. Locked'
  BY <1>0, <1>1, <1>2 DEF Locked
<1>17. /\ DOMAIN loc.chosen = 1 .. Len(loc.chosen) /\ Len(loc.chosen) \in Nat
       /\ Passed(b) => loc'.chosen = loc.chosen
       /\ ~Passed(b) => /\ Len(loc'.chosen) = Len(loc.chosen) + 1
                        /\ DOMAIN loc'.chosen = 1 .. Len(loc.chosen) + 1
                        /\ loc'.chosen[Len(loc.chosen) + 1] = b
                        /\ \A i \in DOMAIN loc.chosen : loc'.chosen[i] = loc.chosen[i]
  BY <1>c, <1>7, <1>11
<1>18. \A i \in DOMAIN loc'.chosen :
          \/ i \in DOMAIN loc.chosen /\ loc'.chosen[i] = loc.chosen[i]
          \/ i = Len(loc.chosen) + 1 /\ loc'.chosen[i] = b /\ ~Passed(b)
  <2>1. CASE Passed(b)
    BY <1>17, <2>1
  <2>2. CASE ~Passed(b)
    <3> DEFINE n == Len(loc.chosen)
    <3>1. n \in Nat /\ DOMAIN loc'.chosen = 1 .. n + 1 /\ DOMAIN loc.chosen = 1 .. n
      BY <1>17, <2>2
    <3> HIDE DEF n
    <3>2. \A i \in 1 .. n + 1 : i \in 1 .. n \/ i = n + 1
      BY <3>1
    <3> QED BY <1>17, <2>2, <3>1, <3>2 DEF n
  <2> QED BY <2>1, <2>2
<1>19. ~Passed(b) => WantDefrag(b) # "remove"
  BY DEF Passed
<1>20. Loop'
  <2>1. Len(loc'.chosen) <= loc'.num
    <3>1. Len(loc.chosen) <= loc.num /\ loc.num \in Nat
      BY <1>0 DEF Loop, Types, LocRecord
    <3>2. ~Passed(b) => Len(loc.chosen) < loc.num
      BY <1>6 DEF Room
    <3> QED BY <1>11, <1>17, <3>1, <3>2
  <2>2. \A i \in DOMAIN loc'.chosen :
            /\ OlderNext(loc'.chosen[i]) /\ loc'.chosen[i] \in InList'
            /\ loc'.chosen[i] <= loc'.cursor
    <3> TAKE i \in DOMAIN loc'.chosen
    <3>1. CASE i \in DOMAIN loc.chosen /\ loc'.chosen[i] = loc.chosen[i]
      <4>1. /\ loc.chosen[i] \in Nat /\ Older(loc.chosen[i]) /\ loc.chosen[i] <= loc.cursor
            /\ loc.chosen[i] \in InList
        BY <1>4, <3>1, ListIs, BasesFinite
      <4>2. loc.chosen[i] < b
        BY <1>5, <1>7, <1>c, <4>1
      <4> QED BY <1>9, <1>10, <1>11, <3>1, <4>1, <4>2, <1>7
    <3>2. CASE loc'.chosen[i] = b /\ ~Passed(b)
      <4>1. OlderNext(b)
        BY <1>7, <1>10 DEF Older
      <4> QED BY <1>5, <1>7, <1>9, <1>11, <1>19, <3>2, <4>1
    <3> QED BY <1>18, <3>1, <3>2
  <2>3. \A i, j \in DOMAIN loc'.chosen : i < j => loc'.chosen[i] < loc'.chosen[j]
    <3> SUFFICES ASSUME NEW i \in DOMAIN loc'.chosen, NEW j \in DOMAIN loc'.chosen, i < j
                 PROVE loc'.chosen[i] < loc'.chosen[j]
      OBVIOUS
    <3>1. i \in DOMAIN loc.chosen /\ loc'.chosen[i] = loc.chosen[i]
      <4> DEFINE n == Len(loc.chosen)
      <4>1. n \in Nat /\ \A k \in DOMAIN loc'.chosen : k \in Nat /\ k <= n + 1
        BY <1>17
      <4> HIDE DEF n
      <4>2. i # n + 1
        BY <4>1
      <4> QED BY <4>2, <1>18 DEF n
    <3>2. CASE j \in DOMAIN loc.chosen /\ loc'.chosen[j] = loc.chosen[j]
      BY <1>0, <3>1, <3>2 DEF Loop
    <3>3. CASE loc'.chosen[j] = b
      <4>1. loc.chosen[i] \in Nat /\ loc.chosen[i] <= loc.cursor
        BY <1>4, <3>1, ListIs, BasesFinite
      <4> QED BY <1>5, <1>7, <1>c, <3>1, <3>3, <4>1
    <3> QED BY <1>18, <3>2, <3>3
  <2>4. OlderNext(loc'.cursor)
    BY <1>7, <1>10, <1>11 DEF Older
  <2> QED BY <1>2, <1>3, <1>11, <2>1, <2>2, <2>3, <2>4 DEF Loop, Older, OlderNext
<1>21. Steady'
  <2>1. \A x \in run'.due : OlderNext(x)
    <3> SUFFICES ASSUME NEW x \in run'.due PROVE OlderNext(x)
      OBVIOUS
    <3>1. CASE x \in run.due
      <4>1. x \in Nat /\ Older(x)
        BY <1>0, <1>c, <3>1, BasesFinite DEF Steady, RunRecord
      <4> QED BY <1>10, <4>1
    <3>2. CASE x = b
      BY <1>7, <1>10, <3>2 DEF Older
    <3> QED BY <1>12, <3>1, <3>2
  <2>2. ASSUME run.steady
        PROVE /\ want = "none" => run'.due = {}
              /\ \A x \in run'.due \cap InList' : Served(x)' \/ Pending(x)'
    <3>1. /\ want = "none" => run.due = {}
          /\ \A x \in run.due \cap InList : Served(x) \/ Pending(x)
      BY <1>0, <1>2, <2>2 DEF Steady
    <3>2. want = "none" => ~Due(b)
      BY DEF Due
    <3>3. ASSUME NEW x \in run'.due \cap InList' PROVE Served(x)' \/ Pending(x)'
      <4>1. base'[x] = base[x] /\ x \in InList
        BY <1>14
      <4>2. Due(x)' <=> Due(x)
        BY <1>1, <4>1 DEF Due, WantDefrag, Live, client
      <4>3. Served(x) => Served(x)'
        BY <1>12, <4>1 DEF Served, Live
      <4>4. Pending(x) => Pending(x)'
        <5> SUFFICES ASSUME Pending(x) PROVE Pending(x)'
          OBVIOUS
        <5>1. PICK i \in DOMAIN loc.chosen : i > loc.previous /\ loc.chosen[i] = x
          BY DEF Pending
        <5>2. i \in DOMAIN loc'.chosen /\ loc'.chosen[i] = x /\ i > loc'.previous
          BY <1>4, <1>11, <1>17, <5>1
        <5> QED BY <4>2, <5>2 DEF Pending
      <4>5. CASE x \in run.due
        BY <3>1, <4>1, <4>3, <4>4, <4>5
      <4>6. CASE x \notin run.due
        <5>1. x = b /\ WantDefrag(b) # "remove" /\ Due(b)
          BY <1>12, <4>6
        <5>2. ~Passed(b)
          BY <1>0, <4>1, <5>1, DueIsChosen
        <5> DEFINE n == Len(loc.chosen) + 1
        <5>3. n \in DOMAIN loc'.chosen /\ loc'.chosen[n] = b /\ n > 0
          BY <1>17, <5>2
        <5> HIDE DEF n
        <5> QED BY <1>11, <4>2, <5>1, <5>3 DEF Pending
      <4> QED BY <4>5, <4>6
    <3> QED BY <1>12, <3>1, <3>2, <3>3
  <2>3. want' = want
    BY <1>1 DEF client
  <2> QED BY <1>2, <1>3, <1>12, <2>1, <2>2, <2>3 DEF Steady, Older, OlderNext
<1>22. Groups'
  BY <1>2, <1>3 DEF Groups
<1> QED BY <1>13, <1>15, <1>16, <1>20, <1>21, <1>22 DEF Inv

(* One more base in a group. *)
LEMMA SumsGrow ==
  ASSUME Types, Counted, NEW g \in SUBSET InList, NEW b \in InList, b \notin g
  PROVE /\ LiveIn(g) \in Nat /\ SizeOf(g) \in Nat
        /\ LiveIn(g \cup {b}) <= LiveIn(g) + Live(b) /\ LiveIn(g \cup {b}) \in Nat
        /\ SizeOf(g \cup {b}) <= SizeOf(g) + base[b].total /\ SizeOf(g \cup {b}) \in Nat
<1> DEFINE h == g \cup {b}
<1>1. /\ IsFiniteSet(g) /\ IsFiniteSet(h)
      /\ b \in h /\ h \ {b} = g
  <2>1. g \subseteq BaseIds /\ h \subseteq BaseIds
    BY ListIs
  <2> QED BY <2>1, BasesFinite, FS_Subset
<1>2. \A x \in h : Live(x) \in Nat /\ base[x].total \in Nat
  BY LiveNat
<1>3. ASSUME NEW F, NEW G, F = [x \in h |-> G[x]], \A x \in h : G[x] \in Nat
      PROVE /\ SumFunctionOnSet([x \in g |-> G[x]], g) \in Nat
            /\ SumFunctionOnSet(F, h) \in Nat
            /\ SumFunctionOnSet(F, h) <= SumFunctionOnSet([x \in g |-> G[x]], g) + G[b]
  <2> DEFINE E == [x \in g |-> G[x]]
  <2>1. \A x \in g : E[x] \in Nat /\ F[x] = E[x]
    BY <1>3
  <2>2. \A x \in h : F[x] \in Nat
    BY <1>3
  <2>3. F[b] = G[b] /\ G[b] \in Nat
    BY <1>3
  <2> HIDE DEF E, h
  <2>4. SumFunctionOnSet(F, h) = F[b] + SumFunctionOnSet(F, g)
    BY <1>1, <2>2, SumTake
  <2>5. g \subseteq h
    BY <1>1
  <2>6. SumFunctionOnSet(E, g) \in Nat /\ SumFunctionOnSet(F, h) \in Nat
        /\ SumFunctionOnSet(F, g) \in Nat
    BY <1>1, <2>1, <2>2, <2>5, SumInNat
  <2>7. SumFunctionOnSet(F, g) <= SumFunctionOnSet(E, g)
    <3>1. \A x \in g : F[x] \in Nat /\ F[x] <= E[x]
      BY <2>1
    <3> QED BY <1>1, <2>1, <3>1, SumMonotone
  <2>8. SumFunctionOnSet(F, h) <= SumFunctionOnSet(E, g) + G[b]
    BY <2>3, <2>4, <2>6, <2>7
  <2> QED BY <2>6, <2>8 DEF E
<1>4. /\ LiveIn(g) \in Nat /\ LiveIn(h) <= LiveIn(g) + Live(b) /\ LiveIn(h) \in Nat
  <2> DEFINE G == [x \in h |-> Live(x)]
  <2>1. [x \in h |-> Live(x)] = [x \in h |-> G[x]] /\ [x \in g |-> Live(x)] = [x \in g |-> G[x]]
        /\ G[b] = Live(b) /\ \A x \in h : G[x] \in Nat
    BY <1>2
  <2> HIDE DEF G, h
  <2>2. /\ SumFunctionOnSet([x \in g |-> G[x]], g) \in Nat
        /\ SumFunctionOnSet([x \in h |-> G[x]], h) \in Nat
        /\ SumFunctionOnSet([x \in h |-> G[x]], h) <= SumFunctionOnSet([x \in g |-> G[x]], g) + G[b]
    BY <1>3, <2>1
  <2> QED BY <2>1, <2>2 DEF LiveIn
<1>5. /\ SizeOf(g) \in Nat /\ SizeOf(h) <= SizeOf(g) + base[b].total /\ SizeOf(h) \in Nat
  <2> DEFINE G == [x \in h |-> base[x].total]
  <2>1. [x \in h |-> base[x].total] = [x \in h |-> G[x]]
        /\ [x \in g |-> base[x].total] = [x \in g |-> G[x]]
        /\ G[b] = base[b].total /\ \A x \in h : G[x] \in Nat
    BY <1>2
  <2> HIDE DEF G, h
  <2>2. /\ SumFunctionOnSet([x \in g |-> G[x]], g) \in Nat
        /\ SumFunctionOnSet([x \in h |-> G[x]], h) \in Nat
        /\ SumFunctionOnSet([x \in h |-> G[x]], h) <= SumFunctionOnSet([x \in g |-> G[x]], g) + G[b]
    BY <1>3, <2>1
  <2> QED BY <2>1, <2>2 DEF SizeOf
<1> QED BY <1>4, <1>5

(* A base joins the group if the sums stay within the limits, or if it has *)
(* no record.                                                              *)
LEMMA AccumulateKeeps ==
  ASSUME Inv, NEW d \in Runners, Accumulate(d)
  PROVE Inv'
<1>0. Types /\ Counted /\ Locked /\ Loop /\ Steady /\ Groups
  BY DEF Inv
<1>1. /\ pc[d] = "accumulate"
      /\ UNCHANGED <<config, base, client, threads, sleep, lock, events, asked, run>>
  BY DEF Accumulate
<1> DEFINE b == loc.chosen[loc.current + 1]
           more == loc.current < Len(loc.chosen) /\ want \in {"data", "compact"}
           joins == more /\ Fits(Live(b), base[b].total)
           s == IF joins THEN "head" ELSE "sort"
<1>2. pc' = [pc EXCEPT ![d] = s] /\ s \in InRun /\ pc[d] \in InRun
  BY <1>1 DEF Accumulate, InRun
<1>3. /\ lock = d /\ lock # Nobody
      /\ pc' \in [Runners -> States]
      /\ Locked'
      /\ \A P \in SUBSET InRun : At(P)' <=> s \in P
      /\ \A P \in SUBSET InRun : At(P) <=> pc[d] \in P
  <2> HIDE DEF s
  <2> QED BY <1>1, <1>2, StaysLocked
<1>4. /\ At(InRun) /\ At(InLoop) /\ ~At({"done"}) /\ ~At({"done"})' /\ ~At({"select"})'
      /\ At({"sort"})' => ~joins
  BY <1>1, <1>3 DEF InRun, InLoop
<1>5. /\ Group \subseteq InList /\ loc.previous < loc.current /\ loc.current <= Len(loc.chosen)
      /\ loc.chosen \in Seq(BaseIds) /\ loc.previous \in Nat /\ loc.current \in Nat
      /\ loc \in LocRecord
  BY <1>0, <1>4, GroupIs DEF Types
<1>6. more => /\ b \in InList /\ Live(b) \in Nat /\ base[b].total \in Nat
              /\ loc.current + 1 \in DOMAIN loc.chosen
  <2> SUFFICES ASSUME more PROVE /\ b \in InList /\ loc.current + 1 \in DOMAIN loc.chosen
    BY <1>0, LiveNat
  <2>1. loc.current + 1 \in DOMAIN loc.chosen /\ loc.current + 1 > loc.previous
    BY <1>5
  <2> QED BY <1>0, <1>4, <2>1 DEF Loop
<1>7. /\ ~more => loc' = loc
      /\ more => loc' = [loc EXCEPT
                           !.records = Live(b), !.size = base[b].total,
                           !.totalRecords = IF joins THEN @ + Live(b) ELSE @,
                           !.totalSize = IF joins THEN @ + base[b].total ELSE @,
                           !.current = IF joins THEN @ + 1 ELSE @]
  BY DEF Accumulate
<1>8. /\ loc' \in LocRecord /\ loc'.chosen = loc.chosen /\ loc'.previous = loc.previous
      /\ loc'.num = loc.num
      /\ loc'.current = IF joins THEN loc.current + 1 ELSE loc.current
      /\ loc'.totalRecords = IF joins THEN loc.totalRecords + Live(b) ELSE loc.totalRecords
      /\ loc'.totalSize = IF joins THEN loc.totalSize + base[b].total ELSE loc.totalSize
      /\ more => loc'.records = Live(b) /\ loc'.size = base[b].total
  <2>1. CASE ~more
    BY <1>5, <1>7, <2>1
  <2>2. CASE more
    <3> DEFINE r == Live(b)
               z == base[b].total
    <3>1. r \in Nat /\ z \in Nat
      BY <1>6, <2>2
    <3>2. loc' = [loc EXCEPT
                           !.records = r, !.size = z,
                           !.totalRecords = IF joins THEN @ + r ELSE @,
                           !.totalSize = IF joins THEN @ + z ELSE @,
                           !.current = IF joins THEN @ + 1 ELSE @]
      BY <1>7, <2>2
    <3> DEFINE tr == IF joins THEN loc.totalRecords + r ELSE loc.totalRecords
               tz == IF joins THEN loc.totalSize + z ELSE loc.totalSize
               cu == IF joins THEN loc.current + 1 ELSE loc.current
    <3> HIDE DEF r, z, joins
    <3>4. loc.totalRecords \in Nat /\ loc.totalSize \in Nat /\ loc.current \in Nat
      BY <1>5 DEF LocRecord
    <3>5. tr \in Nat /\ tz \in Nat /\ cu \in Nat
      BY <3>1, <3>4
    <3>6. loc' = [loc EXCEPT !.records = r, !.size = z, !.totalRecords = tr,
                             !.totalSize = tz, !.current = cu]
      BY <3>2
    <3> HIDE DEF tr, tz, cu
    <3>7. /\ loc' \in LocRecord /\ loc'.chosen = loc.chosen /\ loc'.previous = loc.previous
          /\ loc'.num = loc.num /\ loc'.current = cu /\ loc'.totalRecords = tr
          /\ loc'.totalSize = tz /\ loc'.records = r /\ loc'.size = z
      BY <1>5, <3>1, <3>5, <3>6 DEF LocRecord
    <3>3. /\ loc' \in LocRecord /\ loc'.chosen = loc.chosen /\ loc'.previous = loc.previous
          /\ loc'.num = loc.num
          /\ loc'.current = IF joins THEN loc.current + 1 ELSE loc.current
          /\ loc'.totalRecords = IF joins THEN loc.totalRecords + r ELSE loc.totalRecords
          /\ loc'.totalSize = IF joins THEN loc.totalSize + z ELSE loc.totalSize
          /\ loc'.records = r /\ loc'.size = z
      BY <3>7 DEF tr, tz, cu
    <3> QED BY <3>3 DEF r, z
  <2> QED BY <2>1, <2>2
<1>9. Types'
  BY <1>0, <1>1, <1>3, <1>8 DEF Types, client, threads
<1>10. Counted'
  BY <1>0, <1>1 DEF Counted, InList
<1>11. Loop'
  <2>1. InList' = InList /\ \A x : OlderNext(x) <=> Older(x)
    BY <1>1 DEF InList, Older, OlderNext
  <2>2. loc'.previous < loc'.current /\ loc'.current <= Len(loc'.chosen)
    <3>1. joins => loc.current < Len(loc.chosen) /\ Len(loc.chosen) \in Nat
      BY <1>5
    <3> HIDE DEF joins
    <3> QED BY <1>5, <1>8, <3>1
  <2>3. /\ Len(loc'.chosen) <= loc'.num
        /\ \A i \in DOMAIN loc'.chosen : OlderNext(loc'.chosen[i])
        /\ \A i, j \in DOMAIN loc'.chosen : i < j => loc'.chosen[i] < loc'.chosen[j]
        /\ \A i \in DOMAIN loc'.chosen : i > loc'.previous => loc'.chosen[i] \in InList'
    BY <1>0, <1>4, <1>8, <2>1 DEF Loop
  <2> QED BY <1>4, <2>2, <2>3 DEF Loop, Older, OlderNext
<1>12. Steady'
  <2>0. run' = run /\ want' = want /\ InList' = InList
    BY <1>1 DEF InList, client
  <2>1. \A x \in run'.due : Older(x)'
    BY <1>0, <1>1 DEF Steady, Older, InList
  <2>2. ASSUME run.steady
        PROVE /\ want = "none" => run.due = {}
              /\ want = "index" => loc'.current = loc'.previous + 1
              /\ \A x \in run.due \cap InList : Served(x)' \/ Pending(x)'
    <3>1. /\ want = "none" => run.due = {}
          /\ want = "index" => loc.current = loc.previous + 1
          /\ \A x \in run.due \cap InList : Served(x) \/ Pending(x)
      BY <1>0, <1>4, <2>2 DEF Steady
    <3>2. \A x : (Served(x) => Served(x)') /\ (Pending(x) => Pending(x)')
      BY <1>1, <1>8 DEF Served, Pending, Live, Due, WantDefrag, client
    <3>3. want = "index" => ~joins
      OBVIOUS
    <3> QED BY <1>8, <3>1, <3>2, <3>3
  <2> QED BY <1>4, <2>0, <2>1, <2>2 DEF Steady
<1>13. ASSUME run.steady, want \in {"data", "compact"} PROVE GroupFits'
  <2>1. GroupFits
    BY <1>0, <1>4, <1>13 DEF Groups
  <2>2. CASE ~joins
    <3>1. Group' = Group /\ loc'.totalRecords = loc.totalRecords
          /\ loc'.totalSize = loc.totalSize
      BY <1>8, <2>2 DEF Group
    <3>2. NotEmpty(Group)' = NotEmpty(Group)
      BY <1>1, <3>1 DEF NotEmpty, Live
    <3> QED BY <1>1, <2>1, <3>1, <3>2 DEF GroupFits, LiveIn, SizeOf, Live
  <2>3. CASE joins
    <3>1. b \in InList /\ Live(b) \in Nat /\ base[b].total \in Nat
          /\ loc.current + 1 \in DOMAIN loc.chosen
      BY <1>6, <2>3
    <3>2. Group' = Group \cup {b}
      <4>1. Group' = {loc.chosen[i] : i \in loc.previous + 1 .. loc.current + 1}
        BY <1>8, <2>3 DEF Group
      <4>2. \A i : i \in loc.previous + 1 .. loc.current + 1 <=>
                     i \in loc.previous + 1 .. loc.current \/ i = loc.current + 1
        BY <1>5
      <4> QED BY <4>1, <4>2 DEF Group
    <3>3. b \notin Group
      <4> SUFFICES ASSUME b \in Group PROVE FALSE
        OBVIOUS
      <4>1. PICK i \in DOMAIN loc.chosen : i <= loc.current /\ b = loc.chosen[i]
        BY <1>4, GroupIs
      <4>2. i < loc.current + 1 /\ i \in Nat
        BY <1>5, <4>1
      <4>3. loc.chosen[i] < loc.chosen[loc.current + 1]
        BY <1>0, <3>1, <4>1, <4>2 DEF Loop
      <4>4. b \in Nat
        BY <3>1, ListIs, BasesFinite
      <4> QED BY <4>1, <4>3, <4>4
    <3> DEFINE ne == NotEmpty(Group)
    <3>4. NotEmpty(Group)' = IF Live(b) > 0 THEN ne \cup {b} ELSE ne
      <4>1. NotEmpty(Group)' = {x \in Group \cup {b} : Live(x) > 0}
        BY <1>1, <3>2 DEF NotEmpty, Live
      <4> HIDE DEF b
      <4> QED BY <4>1 DEF NotEmpty
    <3>5. ne \in SUBSET InList /\ b \notin ne
      BY <1>5, <3>3 DEF NotEmpty
    <3>6. /\ LiveIn(ne) <= loc.totalRecords /\ SizeOf(ne) <= loc.totalSize
          /\ (\E x, y \in ne : x # y) => LiveIn(ne) <= RecordsInBlob /\ SizeOf(ne) <= BlobSize
      BY <2>1 DEF GroupFits
    <3>7. /\ LiveIn(ne) \in Nat /\ SizeOf(ne) \in Nat
          /\ LiveIn(ne \cup {b}) <= LiveIn(ne) + Live(b) /\ LiveIn(ne \cup {b}) \in Nat
          /\ SizeOf(ne \cup {b}) <= SizeOf(ne) + base[b].total /\ SizeOf(ne \cup {b}) \in Nat
      <4> HIDE DEF ne, b
      <4> QED BY <1>0, <3>1, <3>5, SumsGrow
    <3>8. /\ loc.totalRecords \in Nat /\ loc.totalSize \in Nat
          /\ RecordsInBlob \in Nat /\ BlobSize \in Nat
      BY <1>0, LimitsAssumption DEF Types, LocRecord
    <3>9. /\ loc'.totalRecords = loc.totalRecords + Live(b)
          /\ loc'.totalSize = loc.totalSize + base[b].total
      BY <1>8, <2>3
    <3>10. Live(b) > 0 => /\ loc.totalRecords + Live(b) <= RecordsInBlob
                          /\ loc.totalSize + base[b].total <= BlobSize
      <4>1. Fits(Live(b), base[b].total)
        BY <2>3
      <4> HIDE DEF b
      <4> QED BY <3>1, <4>1 DEF Fits
    <3>11. /\ LiveIn(NotEmpty(Group))' = LiveIn(IF Live(b) > 0 THEN ne \cup {b} ELSE ne)
           /\ SizeOf(NotEmpty(Group))' = SizeOf(IF Live(b) > 0 THEN ne \cup {b} ELSE ne)
      BY <1>1, <3>4 DEF LiveIn, SizeOf, Live
    <3>12. CASE Live(b) > 0
      <4>1. /\ LiveIn(NotEmpty(Group))' = LiveIn(ne \cup {b})
            /\ SizeOf(NotEmpty(Group))' = SizeOf(ne \cup {b})
        BY <3>11, <3>12
      <4> HIDE DEF ne, b
      <4>2. /\ LiveIn(ne \cup {b}) <= loc'.totalRecords /\ SizeOf(ne \cup {b}) <= loc'.totalSize
        BY <3>1, <3>6, <3>7, <3>8, <3>9
      <4>3. /\ LiveIn(ne \cup {b}) <= RecordsInBlob /\ SizeOf(ne \cup {b}) <= BlobSize
        BY <3>1, <3>6, <3>7, <3>8, <3>10, <3>12
      <4> QED BY <4>1, <4>2, <4>3 DEF GroupFits
    <3>13. CASE ~(Live(b) > 0)
      <4>1. /\ LiveIn(NotEmpty(Group))' = LiveIn(ne) /\ SizeOf(NotEmpty(Group))' = SizeOf(ne)
            /\ NotEmpty(Group)' = ne
        BY <3>4, <3>11, <3>13
      <4> HIDE DEF ne, b
      <4>2. /\ LiveIn(ne) <= loc'.totalRecords /\ SizeOf(ne) <= loc'.totalSize
        BY <3>1, <3>6, <3>7, <3>8, <3>9
      <4> QED BY <3>6, <4>1, <4>2 DEF GroupFits
    <3> QED BY <3>12, <3>13
  <2> QED BY <2>2, <2>3
<1>14. Groups'
  <2>1. want' = want /\ run' = run
    BY <1>1 DEF client
  <2>2. ASSUME want \in {"data", "compact"}, At({"sort"})' PROVE NextFits'
    <3>1. ~joins /\ loc'.current = loc.current
      BY <1>4, <1>8, <2>2
    <3> SUFFICES ASSUME loc.current < Len(loc.chosen)
                 PROVE LiveNext(b) <= loc'.records /\ base'[b].total <= loc'.size
      BY <1>8, <3>1 DEF NextFits, LiveNext, Live
    <3>2. loc'.records = Live(b) /\ loc'.size = base[b].total
      BY <1>8, <2>2
    <3>3. Live(b) \in Nat /\ base[b].total \in Nat
      BY <1>6, <2>2
    <3>4. LiveNext(b) = Live(b) /\ base'[b].total = base[b].total
      BY <1>1 DEF LiveNext, Live
    <3> HIDE DEF b
    <3> QED BY <3>2, <3>3, <3>4
  <2> QED BY <1>13, <2>1, <2>2 DEF Groups
<1> QED BY <1>3, <1>9, <1>10, <1>11, <1>12, <1>14 DEF Inv

(* The switch sorts bases of the group only, and all of them that are due. *)
LEMMA SortedIs ==
  ASSUME Inv, At(InLoop)
  PROVE /\ Sorted \subseteq Group
        /\ Sorted # {} => want \in {"index", "data", "compact"}
        /\ run.steady => \A b \in Group : Due(b) => b \in Sorted \/ want = "none"
<1>0. Types /\ Counted /\ Locked /\ Loop /\ Steady /\ Groups
  BY DEF Inv
<1> DEFINE first == loc.chosen[loc.previous + 1]
<1>1. /\ loc.previous + 1 \in DOMAIN loc.chosen /\ loc.previous < loc.current
      /\ loc.previous \in Nat /\ loc.current \in Nat /\ At(InRun)
  BY GroupIs
<1>2. first \in Group
  BY <1>1 DEF Group
<1>3. want = "index" => Sorted = IF base[first].index THEN {} ELSE {first}
  BY DEF Sorted
<1>4. want \in {"data", "compact"} =>
        Sorted = IF \/ loc.current - loc.previous # 1
                    \/ WantDefrag(first) = "needed" \/ ~base[first].data
                 THEN Group ELSE {}
  BY DEF Sorted
<1>5. want = "none" => Sorted = {}
  BY DEF Sorted
<1>6. want \in {"index", "data", "compact", "none"}
  BY <1>0 DEF Types, Levels
<1>7. ASSUME loc.current - loc.previous = 1 PROVE Group = {first}
  <2>1. \A i : i \in loc.previous + 1 .. loc.current <=> i = loc.previous + 1
    BY <1>1, <1>7
  <2> QED BY <2>1 DEF Group
<1>8. ASSUME run.steady, NEW b \in Group, Due(b), want # "none" PROVE b \in Sorted
  <2>1. CASE want = "index"
    <3>1. loc.current - loc.previous = 1
      BY <1>0, <1>1, <1>8, <2>1 DEF Steady
    <3>2. b = first
      BY <1>7, <3>1
    <3> QED BY <1>3, <1>8, <2>1, <3>2 DEF Due
  <2>2. CASE want \in {"data", "compact"} /\ loc.current - loc.previous = 1
    <3>1. b = first
      BY <1>7, <2>2
    <3> QED BY <1>4, <1>8, <2>2, <3>1 DEF Due
  <2>3. CASE want \in {"data", "compact"} /\ loc.current - loc.previous # 1
    BY <1>4, <2>3
  <2> QED BY <1>6, <1>8, <2>1, <2>2, <2>3
<1>9. Sorted \subseteq Group
  <2> HIDE DEF first
  <2> QED BY <1>2, <1>3, <1>4, <1>5, <1>6
<1> QED BY <1>5, <1>6, <1>8, <1>9

(* A base that no sort has touched, and one that has been sorted. *)
LEMMA AfterSortIs ==
  ASSUME Types, Counted, NEW g \in SUBSET InList, g # {},
         base' = AfterSort(g)
  PROVE /\ base' \in [BaseIds -> BaseRecord \cup {NoBase}]
        /\ \A b \in BaseIds : b \notin g => base'[b] = base[b]
        /\ \A b \in g : base'[b] # NoBase => /\ base'[b].removed <= base'[b].total
                                             /\ base'[b].data => base'[b].index
<1>0. g \subseteq BaseIds /\ base \in [BaseIds -> BaseRecord \cup {NoBase}]
  BY ListIs DEF Types
<1>1. LiveIn(g) \in Nat
  <2> DEFINE f == [b \in g |-> Live(b)]
  <2>1. IsFiniteSet(g) /\ \A b \in g : f[b] \in Nat
    BY <1>0, BasesFinite, FS_Subset, LiveNat
  <2> HIDE DEF f
  <2>2. SumFunctionOnSet(f, g) \in Nat
    BY <2>1, SumInNat
  <2> QED BY <2>2 DEF f, LiveIn
<1>2. \A b \in g : /\ base[b] \in BaseRecord /\ base[b].removed <= base[b].total
                   /\ base[b].data => base[b].index
  BY LiveNat DEF Counted
<1>3. CASE want = "index"
  <2>1. base' = [b \in BaseIds |-> IF b \in g THEN [base[b] EXCEPT !.index = TRUE] ELSE base[b]]
    BY <1>3 DEF AfterSort
  <2>2. \A b \in g : /\ [base[b] EXCEPT !.index = TRUE] \in BaseRecord
                     /\ [base[b] EXCEPT !.index = TRUE].removed = base[b].removed
                     /\ [base[b] EXCEPT !.index = TRUE].total = base[b].total
                     /\ [base[b] EXCEPT !.index = TRUE].index = TRUE
    BY <1>2 DEF BaseRecord
  <2>3. base' \in [BaseIds -> BaseRecord \cup {NoBase}]
    BY <1>0, <2>1, <2>2
  <2>4. \A b \in g : base'[b] = [base[b] EXCEPT !.index = TRUE]
    BY <1>0, <2>1
  <2>5. \A b \in BaseIds : b \notin g => base'[b] = base[b]
    BY <2>1
  <2> QED BY <1>2, <2>2, <2>3, <2>4, <2>5
<1>4. CASE want # "index" /\ LiveIn(g) = 0
  <2>1. base' = base
    BY <1>4 DEF AfterSort
  <2> QED BY <1>0, <1>2, <2>1
<1>5. CASE want # "index" /\ LiveIn(g) # 0
  <2> DEFINE v == [total |-> LiveIn(g), removed |-> 0, index |-> TRUE, data |-> TRUE]
  <2>1. base' = [b \in BaseIds |-> IF b \notin g THEN base[b]
                                   ELSE IF b # Min(g) THEN NoBase ELSE v]
    BY <1>5 DEF AfterSort
  <2>2. v \in BaseRecord /\ v.removed <= v.total /\ v.index
    <3> DEFINE n == LiveIn(g)
    <3> HIDE DEF n
    <3> QED BY <1>1 DEF BaseRecord, n
  <2> HIDE DEF v
  <2>3. base' \in [BaseIds -> BaseRecord \cup {NoBase}]
    BY <1>0, <2>1, <2>2
  <2>4. \A b \in g : base'[b] # NoBase => base'[b] = v
    BY <1>0, <2>1
  <2>5. \A b \in BaseIds : b \notin g => base'[b] = base[b]
    BY <2>1
  <2> QED BY <2>2, <2>3, <2>4, <2>5
<1> QED BY <1>3, <1>4, <1>5

(* What the end of a turn of the second loop does, whatever g it has sorted. *)
LEMMA AdvanceKeeps ==
  ASSUME Inv, NEW d \in Runners, pc[d] = "sort", Advance(d), lock' = lock,
         NEW g \in SUBSET Group,
         base' \in [BaseIds -> BaseRecord \cup {NoBase}],
         \A b \in BaseIds : b \notin g => base'[b] = base[b],
         \A b \in g : base'[b] # NoBase => /\ base'[b].removed <= base'[b].total
                                           /\ base'[b].data => base'[b].index
  PROVE /\ At(InRun) /\ At(InLoop) /\ At({"sort"}) /\ At(InRun)' /\ lock # Nobody
        /\ At(InLoop)' <=> loc.current + 1 <= Len(loc.chosen)
        /\ At({"done"})' <=> ~(loc.current + 1 <= Len(loc.chosen))
        /\ ~At({"sort"})' /\ ~At({"done"})
        /\ pc' \in [Runners -> States] /\ Locked'
        /\ loc' \in LocRecord /\ loc'.chosen = loc.chosen /\ loc'.previous = loc.current
        /\ loc'.current = loc.current + 1
        /\ loc'.totalRecords = loc.records /\ loc'.totalSize = loc.size
        /\ Counted' /\ Loop'
        /\ InList' \subseteq InList
        /\ \A b \in Nat : Older(b) => OlderNext(b)
        /\ \A b \in InList : b \notin g => b \in InList' /\ base'[b] = base[b]
        /\ \A i \in DOMAIN loc.chosen : i > loc.current => loc.chosen[i] \notin g
<1>0. Types /\ Counted /\ Locked /\ Loop /\ Steady /\ Groups
  BY DEF Inv
<1> DEFINE s == IF AtEnd THEN "done" ELSE "head"
<1>1. pc' = [pc EXCEPT ![d] = s] /\ s \in InRun /\ pc[d] \in InRun
  BY DEF Advance, InRun
<1>2. /\ lock = d /\ lock # Nobody
      /\ pc' \in [Runners -> States]
      /\ Locked'
      /\ \A P \in SUBSET InRun : At(P)' <=> s \in P
      /\ \A P \in SUBSET InRun : At(P) <=> pc[d] \in P
  <2> HIDE DEF s
  <2> QED BY <1>1, StaysLocked
<1>3. /\ At(InRun) /\ At(InLoop) /\ At({"sort"}) /\ At(InRun)' /\ ~At({"sort"})'
      /\ ~At({"done"}) /\ ~At({"select"})'
      /\ At(InLoop)' <=> ~AtEnd
      /\ At({"done"})' <=> AtEnd
  BY <1>2 DEF InRun, InLoop
<1>4. /\ Group \subseteq InList /\ Group \subseteq BaseIds
      /\ \A b \in Group : Older(b)
      /\ \A b \in Group : \E i \in DOMAIN loc.chosen :
              i > loc.previous /\ i <= loc.current /\ b = loc.chosen[i]
      /\ loc.previous < loc.current /\ loc.current <= Len(loc.chosen)
      /\ loc.chosen \in Seq(BaseIds) /\ loc.previous \in Nat /\ loc.current \in Nat
  BY <1>3, GroupIs
<1>5. ~AtEnd <=> loc.current + 1 <= Len(loc.chosen)
  <2>1. Len(loc.chosen) \in Nat
    BY <1>4
  <2> QED BY <1>4, <2>1 DEF AtEnd
<1>6. /\ loc' \in LocRecord /\ loc'.chosen = loc.chosen /\ loc'.previous = loc.current
      /\ loc'.current = loc.current + 1 /\ loc'.num = loc.num
      /\ loc'.totalRecords = loc.records /\ loc'.totalSize = loc.size
  <2>1. loc \in LocRecord
    BY <1>0 DEF Types
  <2> DEFINE n == loc.current + 1
  <2>2. n \in Nat
    BY <1>4
  <2>3. loc' = [loc EXCEPT !.previous = loc.current, !.current = n,
                           !.totalRecords = loc.records, !.totalSize = loc.size]
    BY DEF Advance, Bumped
  <2> HIDE DEF n
  <2>4. loc' \in LocRecord /\ loc'.chosen = loc.chosen /\ loc'.previous = loc.current
        /\ loc'.current = n /\ loc'.num = loc.num
        /\ loc'.totalRecords = loc.records /\ loc'.totalSize = loc.size
    BY <2>1, <2>2, <2>3 DEF LocRecord
  <2> QED BY <2>4 DEF n
<1>7. InList' \subseteq InList /\ \A b \in InList : b \notin g => b \in InList' /\ base'[b] = base[b]
  BY <1>4 DEF InList
<1>8. Counted'
  <2> SUFFICES ASSUME NEW b \in InList'
               PROVE base'[b].removed <= base'[b].total /\ (base'[b].data => base'[b].index)
    BY DEF Counted
  <2>1. CASE b \in g
    BY <2>1 DEF InList
  <2>2. CASE b \notin g
    BY <1>0, <1>7, <2>2 DEF Counted
  <2> QED BY <2>1, <2>2
<1>9. \A i \in DOMAIN loc.chosen : i > loc.current => loc.chosen[i] \notin g
  <2> SUFFICES ASSUME NEW i \in DOMAIN loc.chosen, i > loc.current, loc.chosen[i] \in g
               PROVE FALSE
    OBVIOUS
  <2>1. PICK j \in DOMAIN loc.chosen : j <= loc.current /\ loc.chosen[i] = loc.chosen[j]
    BY <1>4
  <2>2. j < i
    BY <1>4, <2>1
  <2>3. loc.chosen[j] < loc.chosen[i]
    BY <1>0, <2>2 DEF Loop
  <2>4. loc.chosen[i] \in Nat
    BY <1>4, BasesFinite
  <2> QED BY <2>1, <2>3, <2>4
<1>10. InList # {} /\ LastBase \in InList'
  <2>1. PICK b \in Group : TRUE
    BY <1>4 DEF Group
  <2>2. InList # {}
    BY <2>1, <1>4
  <2>3. LastBase \in InList /\ \A l \in InList : l <= LastBase
    BY <2>2, LastIs
  <2>4. LastBase \notin Group
    <3> SUFFICES ASSUME LastBase \in Group PROVE FALSE
      OBVIOUS
    <3>1. PICK l \in InList : LastBase < l
      BY <1>4 DEF Older
    <3>2. l \in Nat /\ LastBase \in Nat
      BY <2>3, ListIs, BasesFinite
    <3> QED BY <2>3, <3>1, <3>2
  <2> QED BY <1>7, <2>2, <2>3, <2>4
<1>11. \A b \in Nat : Older(b) => OlderNext(b)
  BY <1>10, OlderStays
<1>12. Loop'
  <2>1. \A i \in DOMAIN loc'.chosen : OlderNext(loc'.chosen[i])
    <3> SUFFICES ASSUME NEW i \in DOMAIN loc.chosen
                 PROVE OlderNext(loc.chosen[i])
      BY <1>6
    <3>1. loc.chosen[i] \in Nat
      <4>1. loc.chosen \in Seq(BaseIds)
        BY <1>4
      <4>2. loc.chosen[i] \in BaseIds
        BY <4>1
      <4> QED BY <4>2, BasesFinite
    <3>2. Older(loc.chosen[i])
      BY <1>0 DEF Loop
    <3> QED BY <1>11, <3>1, <3>2
  <2>2. \A i \in DOMAIN loc'.chosen : i > loc'.previous => loc'.chosen[i] \in InList'
    <3> SUFFICES ASSUME NEW i \in DOMAIN loc.chosen, i > loc.current
                 PROVE loc.chosen[i] \in InList'
      BY <1>6
    <3>1. i > loc.previous
      BY <1>4
    <3> QED BY <1>0, <1>3, <1>7, <1>9, <3>1 DEF Loop
  <2>3. /\ Len(loc'.chosen) <= loc'.num
        /\ \A i, j \in DOMAIN loc'.chosen : i < j => loc'.chosen[i] < loc'.chosen[j]
    BY <1>0, <1>6 DEF Loop
  <2>4. At(InLoop)' => loc'.previous < loc'.current /\ loc'.current <= Len(loc'.chosen)
    BY <1>3, <1>4, <1>5, <1>6
  <2> QED BY <1>3, <2>1, <2>2, <2>3, <2>4 DEF Loop, Older, OlderNext
<1> HIDE DEF s
<1> QED BY <1>2, <1>3, <1>5, <1>6, <1>7, <1>8, <1>9, <1>11, <1>12

(* A sort that fails: the next group begins behind this one.               *)
LEMMA SortFailsKeeps ==
  ASSUME Inv, NEW d \in Runners, SortFails(d)
  PROVE Inv'
<1>0. Types /\ Counted /\ Locked /\ Loop /\ Steady /\ Groups
  BY DEF Inv
<1>1. /\ pc[d] = "sort" /\ Advance(d) /\ run' = Disturbed(TRUE) /\ events' = events + 1
      /\ UNCHANGED <<config, base, client, threads, sleep, lock, asked>>
  BY DEF SortFails
<1>2. base' \in [BaseIds -> BaseRecord \cup {NoBase}] /\ \A b \in BaseIds : base'[b] = base[b]
  BY <1>0, <1>1 DEF Types
<1>3. /\ lock # Nobody /\ pc' \in [Runners -> States] /\ Locked'
      /\ loc' \in LocRecord /\ Counted' /\ Loop'
      /\ \A b \in Nat : Older(b) => OlderNext(b)
  <2> DEFINE g == {}
  <2>1. g \in SUBSET Group /\ \A b : b \notin g
    OBVIOUS
  <2> HIDE DEF g
  <2> QED BY <1>1, <1>2, <2>1, AdvanceKeeps
<1>4. run' = [run EXCEPT !.steady = FALSE] /\ run \in RunRecord
  BY <1>0, <1>1, <1>3, DisturbedIs DEF Types
<1>5. run' \in RunRecord /\ ~run'.steady /\ run'.due = run.due
  BY <1>4 DEF RunRecord
<1>e. events' \in Nat
  BY <1>0, <1>1 DEF Types
<1>6. Types'
  BY <1>0, <1>1, <1>2, <1>3, <1>5, <1>e DEF Types, client, threads
<1>7. \A b \in run'.due : OlderNext(b)
  BY <1>0, <1>3, <1>4, <1>5, BasesFinite DEF Steady, RunRecord
<1>8. Steady' /\ Groups'
  BY <1>5, <1>7 DEF Steady, Groups, Older, OlderNext
<1> QED BY <1>3, <1>6, <1>8 DEF Inv

(* A sort: what was due in the group has been sorted, what is due behind   *)
(* it is pending still.                                                    *)
LEMMA SortKeeps ==
  ASSUME Inv, NEW d \in Runners, Sort(d)
  PROVE Inv'
<1>0. Types /\ Counted /\ Locked /\ Loop /\ Steady /\ Groups
  BY DEF Inv
<1>1. /\ pc[d] = "sort" /\ Advance(d) /\ run' = [run EXCEPT !.sorted = @ \cup Sorted]
      /\ base' = IF Sorted = {} THEN base ELSE AfterSort(Sorted)
      /\ UNCHANGED <<config, client, threads, sleep, lock, events, asked>>
  BY DEF Sort
<1>2. At(InLoop)
  BY <1>0, <1>1, AtRun DEF At, InLoop, InRun
<1>3. /\ Sorted \subseteq Group /\ Group \subseteq InList /\ Group \subseteq BaseIds
      /\ run.steady => \A b \in Group : Due(b) => b \in Sorted \/ want = "none"
      /\ loc.previous < loc.current /\ loc.current <= Len(loc.chosen)
      /\ loc.chosen \in Seq(BaseIds) /\ loc.previous \in Nat /\ loc.current \in Nat
  BY <1>2, SortedIs, GroupIs
<1>4. /\ base' \in [BaseIds -> BaseRecord \cup {NoBase}]
      /\ \A b \in BaseIds : b \notin Sorted => base'[b] = base[b]
      /\ \A b \in Sorted : base'[b] # NoBase => /\ base'[b].removed <= base'[b].total
                                                /\ base'[b].data => base'[b].index
  <2>1. CASE Sorted = {}
    BY <1>0, <1>1, <2>1 DEF Types
  <2>2. CASE Sorted # {}
    <3> DEFINE g == Sorted
    <3>1. g \in SUBSET InList /\ g # {} /\ base' = AfterSort(g)
      BY <1>1, <1>3, <2>2
    <3> HIDE DEF g
    <3>2. /\ base' \in [BaseIds -> BaseRecord \cup {NoBase}]
          /\ \A b \in BaseIds : b \notin g => base'[b] = base[b]
          /\ \A b \in g : base'[b] # NoBase => /\ base'[b].removed <= base'[b].total
                                               /\ base'[b].data => base'[b].index
      BY <1>0, <3>1, AfterSortIs
    <3> QED BY <3>2 DEF g
  <2> QED BY <2>1, <2>2
<1>5. /\ At(InRun) /\ At({"sort"}) /\ At(InRun)' /\ lock # Nobody
      /\ At(InLoop)' <=> loc.current + 1 <= Len(loc.chosen)
      /\ At({"done"})' <=> ~(loc.current + 1 <= Len(loc.chosen))
      /\ ~At({"sort"})' /\ ~At({"done"})
      /\ pc' \in [Runners -> States] /\ Locked'
      /\ loc' \in LocRecord /\ loc'.chosen = loc.chosen /\ loc'.previous = loc.current
      /\ loc'.current = loc.current + 1
      /\ loc'.totalRecords = loc.records /\ loc'.totalSize = loc.size
      /\ Counted' /\ Loop'
      /\ InList' \subseteq InList
      /\ \A b \in Nat : Older(b) => OlderNext(b)
      /\ \A b \in InList : b \notin Sorted => b \in InList' /\ base'[b] = base[b]
      /\ \A i \in DOMAIN loc.chosen : i > loc.current => loc.chosen[i] \notin Sorted
  <2> DEFINE g == Sorted
  <2>1. /\ g \in SUBSET Group
        /\ \A b \in BaseIds : b \notin g => base'[b] = base[b]
        /\ \A b \in g : base'[b] # NoBase => /\ base'[b].removed <= base'[b].total
                                             /\ base'[b].data => base'[b].index
    BY <1>3, <1>4
  <2>2. lock' = lock
    BY <1>1
  <2> HIDE DEF g
  <2>3. /\ At(InRun) /\ At({"sort"}) /\ At(InRun)' /\ lock # Nobody
        /\ At(InLoop)' <=> loc.current + 1 <= Len(loc.chosen)
        /\ At({"done"})' <=> ~(loc.current + 1 <= Len(loc.chosen))
        /\ ~At({"sort"})' /\ ~At({"done"})
        /\ pc' \in [Runners -> States] /\ Locked'
        /\ loc' \in LocRecord /\ loc'.chosen = loc.chosen /\ loc'.previous = loc.current
        /\ loc'.current = loc.current + 1
        /\ loc'.totalRecords = loc.records /\ loc'.totalSize = loc.size
        /\ Counted' /\ Loop'
        /\ InList' \subseteq InList
        /\ \A b \in Nat : Older(b) => OlderNext(b)
        /\ \A b \in InList : b \notin g => b \in InList' /\ base'[b] = base[b]
        /\ \A i \in DOMAIN loc.chosen : i > loc.current => loc.chosen[i] \notin g
    BY <1>1, <1>4, <2>1, <2>2, AdvanceKeeps
  <2> QED BY <2>3 DEF g
<1>6. run \in RunRecord /\ Sorted \subseteq BaseIds
  BY <1>0, <1>3 DEF Types
<1>7. /\ run' \in RunRecord /\ run'.steady = run.steady /\ run'.due = run.due
      /\ run'.sorted = run.sorted \cup Sorted
  <2> DEFINE g == Sorted
  <2> HIDE DEF g
  <2> QED BY <1>1, <1>6 DEF RunRecord, g
<1>8. Types'
  BY <1>0, <1>1, <1>4, <1>5, <1>7 DEF Types, client, threads
<1>9. want' = want /\ exit' = exit
  BY <1>1 DEF client, threads
<1>10. ASSUME run.steady, NEW b \in run.due \cap InList'
       PROVE \/ Served(b)'
             \/ Pending(b)' /\ loc.current + 1 <= Len(loc.chosen)
  <2>1. b \in InList
    BY <1>5
  <2>2. CASE b \in Sorted
    BY <1>7, <2>2 DEF Served
  <2>3. CASE b \notin Sorted
    <3>1. base'[b] = base[b]
      BY <1>5, <2>1, <2>3
    <3>2. Served(b) => Served(b)'
      BY <1>7, <3>1 DEF Served, Live
    <3>3. Due(b) => Due(b)'
      BY <1>9, <3>1 DEF Due, WantDefrag, Live
    <3>4. ASSUME Pending(b) PROVE Pending(b)' /\ loc.current + 1 <= Len(loc.chosen)
      <4>1. PICK i \in DOMAIN loc.chosen : i > loc.previous /\ loc.chosen[i] = b
        BY <3>4 DEF Pending
      <4>2. Due(b) /\ want # "none"
        BY <3>4 DEF Pending, Due
      <4>3. i > loc.current
        <5> SUFFICES ASSUME ~(i > loc.current) PROVE FALSE
          OBVIOUS
        <5>1. i \in loc.previous + 1 .. loc.current
          BY <1>3, <4>1
        <5>2. b \in Group
          BY <4>1, <5>1 DEF Group
        <5> QED BY <1>3, <1>10, <2>3, <4>2, <5>2
      <4>4. loc.current + 1 <= Len(loc.chosen)
        BY <1>3, <4>1, <4>3
      <4>5. Pending(b)'
        BY <1>5, <3>3, <4>1, <4>2, <4>3 DEF Pending
      <4> QED BY <4>4, <4>5
    <3>5. Served(b) \/ Pending(b)
      BY <1>0, <1>5, <1>10, <2>1 DEF Steady
    <3> QED BY <3>2, <3>4, <3>5
  <2> QED BY <2>2, <2>3
<1>11. Steady'
  <2>1. \A b \in run'.due : OlderNext(b)
    BY <1>0, <1>5, <1>6, <1>7, BasesFinite DEF Steady, RunRecord
  <2>2. run.steady /\ want = "none" => run.due = {}
    BY <1>0, <1>5 DEF Steady
  <2>3. loc'.current = loc'.previous + 1
    BY <1>5
  <2> QED BY <1>5, <1>7, <1>9, <1>10, <2>1, <2>2, <2>3 DEF Steady, Older, OlderNext
<1>12. Groups'
  <2> SUFFICES ASSUME run'.steady, want' \in {"data", "compact"}, At(InLoop)' PROVE GroupFits'
    BY <1>5 DEF Groups
  <2> DEFINE b == loc.chosen[loc.current + 1]
  <2>1. loc.current + 1 <= Len(loc.chosen) /\ loc.current < Len(loc.chosen)
        /\ loc.current + 1 \in DOMAIN loc.chosen /\ loc.current + 1 > loc.previous
        /\ loc.current + 1 > loc.current
    BY <1>3, <1>5
  <2>2. NextFits
    BY <1>0, <1>5, <1>7, <1>9 DEF Groups
  <2>3. b \in InList /\ b \notin Sorted
    BY <1>0, <1>5, <2>1 DEF Loop
  <2>4. base'[b] = base[b] /\ Live(b) \in Nat /\ base[b].total \in Nat
    <3> HIDE DEF b
    <3> QED BY <1>0, <1>5, <2>3, LiveNat
  <2>5. Live(b) <= loc'.totalRecords /\ base[b].total <= loc'.totalSize
        /\ loc'.totalRecords \in Nat /\ loc'.totalSize \in Nat
    BY <1>5, <2>1, <2>2 DEF NextFits, LocRecord
  <2>6. Group' = {b}
    <3>1. Group' = {loc.chosen[i] : i \in loc.current + 1 .. loc.current + 1}
      BY <1>5 DEF Group
    <3>2. \A i : i \in loc.current + 1 .. loc.current + 1 <=> i = loc.current + 1
      BY <1>3
    <3> QED BY <3>1, <3>2
  <2>7. LiveNext(b) = Live(b)
    BY <2>4 DEF LiveNext, Live
  <2> HIDE DEF b
  <2> QED BY <2>4, <2>5, <2>6, <2>7, OneFits
<1> QED BY <1>5, <1>8, <1>11, <1>12 DEF Inv

-----------------------------------------------------------------------------
(* The invariant holds at the beginning, and every step keeps it. *)

(* The invariant holds when eblob_init begins to create the threads.       *)
LEMMA InitHolds ==
  ASSUME Init
  PROVE Inv
<1>1. PICK s \in Setups :
        /\ config = s.config
        /\ base = [b \in BaseIds |-> IF b \in DOMAIN s.bases THEN s.bases[b] ELSE NoBase]
  BY DEF Init
<1>2. /\ s.config \in Config /\ s.bases \in Seq(BaseRecord)
      /\ \A i \in DOMAIN s.bases : /\ s.bases[i].removed <= s.bases[i].total
                                   /\ s.bases[i].data => s.bases[i].index
  BY SetupsAssumption
<1>3. \A i \in DOMAIN s.bases : s.bases[i] \in BaseRecord
  BY <1>2
<1>4. base \in [BaseIds -> BaseRecord \cup {NoBase}]
  BY <1>1, <1>3
<1>5. Counted
  <2> SUFFICES ASSUME NEW b \in InList
               PROVE base[b].removed <= base[b].total /\ (base[b].data => base[b].index)
    BY DEF Counted
  <2>1. b \in DOMAIN s.bases /\ base[b] = s.bases[b]
    BY <1>1 DEF InList
  <2> QED BY <1>2, <2>1
<1>6. /\ lock = Nobody /\ loc = Start /\ run = Fresh /\ events = 0
      /\ pc = [d \in Runners |-> IF d = Thread THEN "check" ELSE "idle"]
      /\ starting = {} /\ exit = FALSE /\ alive = {}
      /\ life = IF config.threads THEN Sync ELSE "up"
      /\ sleep = NextDefrag(config)
      /\ want = IF config.threads /\ config.auto = "data" THEN "data" ELSE "none"
      /\ asked = IF want = "none" THEN "none" ELSE "early"
  BY DEF Init
<1>7. loc \in LocRecord /\ run \in RunRecord
  <2>1. <<>> \in Seq(BaseIds)
    OBVIOUS
  <2> QED BY <1>6, <2>1 DEF Start, Fresh, LocRecord, RunRecord
<1>8. sleep \in 0 .. MinTimeout \cup {Forever}
  BY <1>6, LimitsAssumption DEF NextDefrag
<1>9. pc \in [Runners -> States] /\ \A d \in Runners : pc[d] \notin InRun
  BY <1>6 DEF States, InRun
<1>10. Types
  BY <1>1, <1>2, <1>4, <1>6, <1>7, <1>8, <1>9 DEF Types, Levels
<1>11. Locked
  BY <1>6, <1>9, Distinct DEF Locked
<1>12. \A P : ~At(P)
  BY <1>6 DEF At
<1>13. Loop
  BY <1>6, <1>12 DEF Loop, Start
<1>14. Steady /\ Groups
  BY <1>6, <1>12 DEF Steady, Groups, Fresh
<1> QED BY <1>5, <1>10, <1>11, <1>13, <1>14 DEF Inv

(* Every step keeps the invariant.                                         *)
LEMMA InvStep ==
  ASSUME Inv, [Next]_vars
  PROVE Inv'
<1>1. CASE UNCHANGED vars
  BY <1>1 DEF vars, client, threads, Inv, Types, Counted, Locked, Loop, Steady, Groups,
              InList, Older, At, Pending, Served, Due, WantDefrag, Live, NotEmpty, GroupFits,
              NextFits, LiveIn, SizeOf, Group
<1>2. CASE (\E l \in {"data", "index"} : StartTest(l) \/ StartSet(l)) \/ Stop \/ Call
  BY <1>2, RequestsKeep
<1>3. CASE \E b \in BaseIds : Remove(b)
  BY <1>3, RemoveKeeps
<1>4. CASE Write
  BY <1>4, WriteKeeps
<1>5. ASSUME NEW d \in Runners, Step(d) \/ SortFails(d) PROVE Inv'
  <2>1. CASE Lock(d) BY <2>1, LockKeeps
  <2>2. CASE SelectNext(d) BY <2>2, SelectNextKeeps
  <2>3. CASE SelectEnd(d) BY <2>3, SelectEndKeeps
  <2>4. CASE LoopHead(d) BY <2>4, HeadKeeps
  <2>5. CASE Accumulate(d) BY <2>5, AccumulateKeeps
  <2>6. CASE Sort(d) BY <2>6, SortKeeps
  <2>7. CASE Done(d) BY <2>7, DoneKeeps
  <2>8. CASE SortFails(d) BY <2>8, SortFailsKeeps
  <2> QED BY <1>5, <2>1, <2>2, <2>3, <2>4, <2>5, <2>6, <2>7, <2>8 DEF Step
<1>6. CASE Check \/ Timeout \/ ThreadExits \/ Test \/ Set \/ Reset
  BY <1>6, ThreadKeeps
<1>7. CASE CreateThread \/ CreateFails \/ Cleanup \/ Join \/ TimersExit
  BY <1>7, LifeKeeps
<1> QED BY <1>1, <1>2, <1>3, <1>4, <1>5, <1>6, <1>7 DEF Next

(* Two bases of a merge that are not empty are in a group that fits. *)
LEMMA MergeFits ==
  ASSUME Inv, NEW d \in Runners, pc[d] = "sort", run.steady,
         Cardinality(NotEmpty(Sorted)) > 1
  PROVE LiveIn(NotEmpty(Sorted)) <= RecordsInBlob /\ SizeOf(NotEmpty(Sorted)) <= BlobSize
<1>0. Types /\ Counted /\ Locked /\ Loop /\ Steady /\ Groups
  BY DEF Inv
<1>1. At(InLoop)
  BY <1>0, AtRun DEF InLoop, InRun
<1>2. Sorted \subseteq Group /\ Group \subseteq InList /\ Group \subseteq BaseIds
  BY <1>1, SortedIs, GroupIs
<1> DEFINE F == NotEmpty(Sorted)
           G == NotEmpty(Group)
<1>3. F \subseteq G /\ F \subseteq Sorted /\ G \subseteq InList /\ IsFiniteSet(G) /\ IsFiniteSet(F)
  <2>1. F \subseteq G /\ F \subseteq Sorted /\ G \subseteq InList /\ G \subseteq BaseIds
    BY <1>2 DEF NotEmpty
  <2> HIDE DEF F, G
  <2> QED BY <2>1, BasesFinite, FS_Subset
<1>4. \E x, y \in F : x # y
  <2> SUFFICES ASSUME \A x, y \in F : x = y PROVE FALSE
    OBVIOUS
  <2>1. F # {}
    BY FS_EmptySet
  <2>2. PICK x \in F : TRUE
    BY <2>1
  <2>3. F = {x}
    <3> HIDE DEF F
    <3> QED BY <2>2
  <2>4. Cardinality(F) = 1
    BY <2>3, FS_Singleton
  <2> QED BY <2>4
<1>5. want \in {"data", "compact"}
  <2>1. want # "index"
    <3> SUFFICES ASSUME want = "index" PROVE FALSE
      OBVIOUS
    <3>1. \A x, y \in Sorted : x = y
      BY DEF Sorted
    <3> HIDE DEF F
    <3> QED BY <1>3, <1>4, <3>1
  <2>2. Sorted # {}
    <3> HIDE DEF F
    <3> QED BY <1>3, <1>4
  <2> QED BY <1>1, <2>1, <2>2, SortedIs
<1>6. LiveIn(G) <= RecordsInBlob /\ SizeOf(G) <= BlobSize
  <2>1. GroupFits
    BY <1>0, <1>1, <1>5 DEF Groups
  <2>2. \E x, y \in G : x # y
    <3> HIDE DEF F, G
    <3> QED BY <1>3, <1>4
  <2> QED BY <2>1, <2>2 DEF GroupFits
<1>7. LiveIn(F) <= LiveIn(G) /\ LiveIn(G) \in Nat /\ LiveIn(F) \in Nat
  <2> HIDE DEF F, G
  <2> DEFINE f == [b \in F |-> Live(b)]
             h == [b \in G |-> Live(b)]
  <2>1. /\ \A x \in G : h[x] \in Nat
        /\ \A x \in F : f[x] \in Nat /\ f[x] <= h[x]
    BY <1>0, <1>3, LiveNat
  <2> HIDE DEF f, h
  <2>2. SumFunctionOnSet(f, F) <= SumFunctionOnSet(h, G)
    BY <1>3, <2>1, SumMonotone
  <2>3. SumFunctionOnSet(f, F) \in Nat /\ SumFunctionOnSet(h, G) \in Nat
    BY <1>3, <2>1, SumInNat
  <2> QED BY <2>2, <2>3 DEF LiveIn, f, h
<1>8. SizeOf(F) <= SizeOf(G) /\ SizeOf(G) \in Nat /\ SizeOf(F) \in Nat
  <2> HIDE DEF F, G
  <2> DEFINE f == [b \in F |-> base[b].total]
             h == [b \in G |-> base[b].total]
  <2>1. /\ \A x \in G : h[x] \in Nat
        /\ \A x \in F : f[x] \in Nat /\ f[x] <= h[x]
    BY <1>0, <1>3, LiveNat
  <2> HIDE DEF f, h
  <2>2. SumFunctionOnSet(f, F) <= SumFunctionOnSet(h, G)
    BY <1>3, <2>1, SumMonotone
  <2>3. SumFunctionOnSet(f, F) \in Nat /\ SumFunctionOnSet(h, G) \in Nat
    BY <1>3, <2>1, SumInNat
  <2> QED BY <2>2, <2>3 DEF SizeOf, f, h
<1> HIDE DEF F, G
<1>9. RecordsInBlob \in Nat /\ BlobSize \in Nat
  BY LimitsAssumption
<1>10. LiveIn(F) <= RecordsInBlob /\ SizeOf(F) <= BlobSize
  BY <1>6, <1>7, <1>8, <1>9
<1> QED BY <1>10 DEF F

-----------------------------------------------------------------------------
(* The theorems *)

(* The invariant holds in every state of every behaviour.                  *)
THEOREM DefragInvariant == Spec => []Inv
<1>1. Init => Inv
  BY InitHolds
<1>2. Inv /\ [Next]_vars => Inv'
  BY InvStep
<1> QED BY <1>1, <1>2, PTL DEF Spec

(* Every variable has its type, the counters of a base agree, bctls is     *)
(* never overrun and the second loop stays inside it (eblob_defrag,        *)
(* defrag.c).                                                              *)
THEOREM TypeCorrect == Spec => []TypeOK
<1>1. Inv => TypeOK
  <2> SUFFICES ASSUME Inv PROVE TypeOK
    OBVIOUS
  <2>1. Types /\ Counted /\ Locked /\ Loop
    BY DEF Inv
  <2>2. \A b \in BaseIds : base[b] # NoBase =>
            base[b] \in BaseRecord /\ base[b].removed <= base[b].total
    BY <2>1, LiveNat DEF Counted, InList
  <2>3. \A d \in Runners : pc[d] \in {"head", "accumulate", "sort"} =>
            loc.previous < loc.current /\ loc.current <= Len(loc.chosen)
    BY <2>1, AtRun DEF InLoop, InRun, Loop
  <2>4. run.steady \in BOOLEAN /\ run.due \subseteq BaseIds /\ loc.chosen \in Seq(BaseIds)
    BY <2>1 DEF Types, RunRecord, LocRecord
  <2> QED BY <2>1, <2>2, <2>3, <2>4 DEF TypeOK, Types, Loop
<1> QED BY <1>1, DefragInvariant, PTL

(* A run of eblob_defrag that nothing disturbs has sorted every base its   *)
(* level asks it to, or nothing is left in it, whatever clients write and  *)
(* remove meanwhile.                                                       *)
THEOREM RunsAreComplete == Spec => []RunComplete
<1>1. Inv => RunComplete
  <2> SUFFICES ASSUME Inv, NEW d \in Runners, pc[d] = "done", run.steady, ~exit,
                      NEW b \in run.due \cap InList
               PROVE b \in run.sorted \/ Live(b) = 0
    BY DEF RunComplete
  <2>1. At({"done"}) /\ At(InRun)
    BY AtRun DEF Inv, InRun
  <2> QED BY <2>1 DEF Inv, Steady, Served
<1> QED BY <1>1, DefragInvariant, PTL

(* A group of bases that is merged under an unchanged level stays within   *)
(* records_in_blob and blob_size, as the comment in eblob_defrag says,     *)
(* though records go while the sums are taken.                             *)
THEOREM GroupsAreBounded == Spec => GroupsFit
<1> DEFINE Bounded == \A d \in Runners :
             pc[d] = "sort" /\ run.steady /\ Cardinality(NotEmpty(Sorted)) > 1 =>
               LiveIn(NotEmpty(Sorted)) <= RecordsInBlob /\ SizeOf(NotEmpty(Sorted)) <= BlobSize
           Merges == \A d \in Runners :
             LET g == Sorted
                 full == {b \in g : Live(b) > 0} IN
             Sort(d) /\ run.steady /\ Cardinality(full) > 1 =>
                 /\ LiveIn(full) <= RecordsInBlob
                 /\ SizeOf(full) <= BlobSize
<1>1. Inv => Bounded
  BY MergeFits
<1>2. Bounded => [Merges]_vars
  <2>1. NotEmpty(Sorted) = {b \in Sorted : Live(b) > 0}
    BY DEF NotEmpty
  <2>2. \A d \in Runners : Sort(d) => pc[d] = "sort"
    BY DEF Sort
  <2> QED BY <2>1, <2>2
<1>3. Spec => []Bounded
  BY <1>1, DefragInvariant, PTL
<1> HIDE DEF Bounded
<1>4. []Bounded => [][Merges]_vars
  BY <1>2, PTL
<1> QED BY <1>3, <1>4, PTL DEF GroupsFit
=============================================================================
