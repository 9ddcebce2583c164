------------------------ MODULE BaseIteratorProofs ------------------------
(***************************************************************************)
(* Proofs about BaseIterator: that an iteration is complete, that it       *)
(* passes no record on twice, and that it takes no entry from another key. *)
(*                                                                         *)
(* The inductive invariant says of every key that is there and wanted that *)
(* it is visited, in the batch, or ahead of the offset in the file that is *)
(* read (ToCome); that the offsets of a range enclose its live entries     *)
(* (Placed), which follows from the order of the sorted index (Tidy); that *)
(* nothing visited is ahead (Once); and that a live entry whose record is  *)
(* marked in the data file belongs to a key that was removed (Marks).      *)
(***************************************************************************)
EXTENDS BaseIterator, InductionLemmas, FiniteSetTheorems, TLAPS

Batches == {"read", "hold", "check", "done"}
States == Batches \cup {"idle", "fill", "failed"}

(* Every variable has its type; offsets are inside the index.              *)
Types ==
    /\ ranges \in Seq([lo : Nat, hi : Nat]) /\ readonly \in BOOLEAN
    /\ index \in Seq(Entry)
    /\ sorted # NoFile => sorted \in Seq(Entry) /\ Len(sorted) = Len(index)
    /\ \A b \in DOMAIN blocks :
          /\ blocks[b].start \in Nat /\ blocks[b].start < Size
          /\ blocks[b].end \in Nat /\ blocks[b].end <= Size
          /\ blocks[b].start < blocks[b].end
    /\ pc \in States
    /\ fd \in {"index", "sorted"} /\ (fd = "sorted" => sorted # NoFile)
    /\ current \in Nat /\ current <= Len(ranges)
    /\ current # 0 => \A i \in DOMAIN ranges :
          /\ offsets[i].start \in Nat /\ offsets[i].start <= Size
          /\ offsets[i].end \in Nat
    /\ off \in Nat /\ off <= Size /\ batch \in Nat
    /\ loc.offset \in Nat
    /\ \A p \in DOMAIN loc.dc :
          loc.dc[p] \in Entry /\ p \in Nat /\ loc.offset < p /\ p <= off
    /\ visited \in [Keys -> Nat]
    /\ there \subseteq Keys /\ slipped \in BOOLEAN /\ moved \in BOOLEAN

(* Before the first batch nothing is read, and before the call begins      *)
(* nothing is removed.                                                     *)
Quiet ==
    /\ pc \in {"idle", "fill"} =>
          /\ visited = [k \in Keys |-> 0] /\ off = 0 /\ current = 0 /\ loc.offset = 0
    /\ pc \notin {"hold", "check", "failed"} => DOMAIN loc.dc = {}
    /\ pc = "idle" =>
          /\ index \in Indexes /\ ~slipped /\ ~moved
          /\ often = Many(index)
    /\ ranges = <<>> => DOMAIN loc.dc = loc.offset + 1 .. off /\ loc.offset <= off
    /\ \A i, j \in DOMAIN ranges : i < j => ranges[i].hi < ranges[j].lo
    /\ \A i \in DOMAIN ranges : ranges[i].lo <= ranges[i].hi
    /\ sorted = NoFile => ~slipped /\ ~moved

(* Entries there are anywhere.                                             *)
Contents == Range(index) \cup (IF sorted = NoFile THEN {} ELSE Range(sorted))
            \cup Range(loc.dc)

(* A place of the data file belongs to a key; what is live and marked in    *)
(* the data file has been removed meanwhile.                               *)
Marks ==
    /\ \A x, y \in Contents : x.pos = y.pos => x.key = y.key
    /\ \A x \in Contents : ~x.removed /\ x.pos \in gone => x.key \notin there

(* Live entries of s have different keys.                                  *)
Unique(s) == \A i, j \in DOMAIN s :
    i # j /\ ~s[i].removed /\ ~s[j].removed => s[i].key # s[j].key

(* No key is behind the iterator and before it.                            *)
Once ==
    /\ Unique(index) /\ (sorted # NoFile => Unique(sorted))
    /\ Len(ranges) <= 1 =>
          /\ \A k \in Keys : visited[k] <= 1
          /\ \A p \in DOMAIN loc.dc : ~loc.dc[p].removed => visited[loc.dc[p].key] = 0
          /\ \A p \in DOMAIN File : p > off /\ ~File[p].removed => visited[File[p].key] = 0
          /\ \A p, q \in DOMAIN loc.dc : p # q /\ ~loc.dc[p].removed /\ ~loc.dc[q].removed =>
                loc.dc[p].key # loc.dc[q].key
          /\ \A p \in DOMAIN loc.dc, q \in DOMAIN File :
                q > off /\ ~loc.dc[p].removed /\ ~File[q].removed =>
                    loc.dc[p].key # File[q].key

(* The file that is read is the one in use.                                *)
Same == pc # "idle" /\ ~moved => (fd = "index" <=> sorted = NoFile)

Safe == readonly \/ (ranges = <<>> /\ ~moved)

(* What is in the way of "fixing".                                         *)
Kept ==
    /\ Safe => there \subseteq Live(InUse)
    /\ ranges = <<>> /\ ~moved => \A p \in DOMAIN loc.dc : InUse[p].key = loc.dc[p].key

(* A sorted index: keys ascend, only the last entry of a key is live, and  *)
(* blocks begin and end with the keys they say.                            *)
Tidy(s, B, many) ==
    /\ \A p, q \in DOMAIN s : p < q => s[p].key <= s[q].key
    /\ \A p, q \in DOMAIN s : p < q /\ s[p].key = s[q].key => s[p].removed
    /\ \A p, q, r \in DOMAIN s :
          p < q /\ q < r /\ s[p].key = s[q].key /\ s[q].key = s[r].key => s[p].key \in many
    /\ \A b \in DOMAIN B : B[b].first = s[B[b].start + 1].key /\ B[b].last = s[B[b].end].key

Neat(s) == Tidy(s, blocks, often)

InRange(k, i) == ranges[i].lo <= k /\ k <= ranges[i].hi

(* Where the live entries of a range are.                                  *)
Placed ==
    \A p \in DOMAIN File : \A i \in DOMAIN ranges :
        ~File[p].removed /\ InRange(File[p].key, i) =>
            /\ \A n \in 1 .. i : offsets[n].start < p
            /\ File[p].key \notin often => p <= offsets[i].end + 1

Held(k) == \E p \in DOMAIN loc.dc : loc.dc[p].key = k /\ ~loc.dc[p].removed
Ahead(k) == /\ \E p \in DOMAIN File : p > off /\ File[p].key = k /\ ~File[p].removed
            /\ Wanted(k, current)

(* What is there is visited, or still to come.                             *)
ToCome ==
    /\ pc \in {"idle", "fill"} /\ sorted # NoFile /\ ~slipped => Neat(sorted)
    /\ pc = "idle" => there \subseteq Live(InUse)
    /\ pc = "fill" /\ ~slipped =>
          /\ (fd = "index" <=> sorted = NoFile)
          /\ there \subseteq Live(InUse)
    /\ pc \in Batches /\ ~slipped =>
          /\ current # 0 => Placed
          /\ \A k \in there \ often : Wanted(k, 1) => visited[k] > 0 \/ Held(k) \/ Ahead(k)

Inv == Types /\ Quiet /\ Marks /\ Once /\ Same /\ Kept /\ ToCome

(* An iteration ends behind the index, or behind all of its ranges.        *)
Ended == pc = "done" => off >= Size \/ Exhausted

-----------------------------------------------------------------------------
(* The sort                                                                *)

(* Entries of an index have numbers as keys, and positions from one on.    *)
LEMMA EntryIs ==
  ASSUME NEW s \in Seq(Entry)
  PROVE /\ \A i \in DOMAIN s : /\ s[i] \in Entry /\ s[i].key \in Nat /\ s[i].key \in Keys
                               /\ s[i].removed \in BOOLEAN /\ i \in Nat /\ i >= 1 /\ i <= Len(s)
        /\ DOMAIN s = 1 .. Len(s) /\ Len(s) \in Nat
<1>1. \A i \in DOMAIN s : s[i] \in Entry
  OBVIOUS
<1>2. DOMAIN s = 1 .. Len(s) /\ Len(s) \in Nat
  OBVIOUS
<1>3. \A e \in Entry : e.key \in Keys /\ e.key \in Nat /\ e.removed \in BOOLEAN
  BY KeysAssumption DEF Entry
<1>4. \A i \in DOMAIN s : i \in Nat /\ i >= 1 /\ i <= Len(s)
  BY <1>2
<1> QED BY <1>1, <1>2, <1>3, <1>4

(* The sorted index is a permutation of the index, in order.               *)
LEMMA IndexSortIs ==
  ASSUME NEW s \in Seq(Entry)
  PROVE \E f \in [DOMAIN s -> DOMAIN s] :
          /\ SortedByKey(s) = [p \in DOMAIN s |-> s[f[p]]]
          /\ \A p, q \in DOMAIN s : p < q => Before(s, f[p], f[q])
          /\ \A p, q \in DOMAIN s : p # q => f[p] # f[q]
          /\ \A i \in DOMAIN s : \E p \in DOMAIN s : f[p] = i
<1>1. \A e \in Entry : e.key \in Nat /\ e.removed \in BOOLEAN
  BY KeysAssumption DEF Entry
<1>2. \E f \in [DOMAIN s -> DOMAIN s] : Sorts(s, f)
  BY <1>1, SortIs
<1> QED BY <1>2 DEF Sorts

(* The sorted index has the entries of the index and no others.            *)
LEMMA SortedSame ==
  ASSUME NEW s \in Seq(Entry), NEW t, t = SortedByKey(s)
  PROVE /\ \A i \in DOMAIN t : \E j \in DOMAIN s : s[j] = t[i]
        /\ \A j \in DOMAIN s : \E i \in DOMAIN t : t[i] = s[j]
<1>1. PICK f \in [DOMAIN s -> DOMAIN s] :
          /\ t = [p \in DOMAIN s |-> s[f[p]]]
          /\ \A i \in DOMAIN s : \E p \in DOMAIN s : f[p] = i
  BY IndexSortIs
<1>2. DOMAIN t = DOMAIN s /\ \A p \in DOMAIN s : t[p] = s[f[p]] /\ f[p] \in DOMAIN s
  BY <1>1
<1> QED BY <1>1, <1>2

(* What the order of eblob_disk_control_sort_with_flags gives: keys        *)
(* ascend, the removed entries of a key come before its live one, and      *)
(* three places with one key are three entries of it in the index.         *)
LEMMA SortedFacts ==
  ASSUME NEW s \in Seq(Entry), NEW t, t = SortedByKey(s)
  PROVE /\ t \in Seq(Entry) /\ Len(t) = Len(s) /\ DOMAIN t = DOMAIN s
        /\ Unique(s) => Unique(t)
        /\ \A p, q \in DOMAIN t : p < q => t[p].key <= t[q].key
        /\ Unique(s) => \A p, q \in DOMAIN t : p < q /\ t[p].key = t[q].key => t[p].removed
        /\ \A p, q, r \in DOMAIN t :
              p < q /\ q < r /\ t[p].key = t[q].key /\ t[q].key = t[r].key =>
                \E i, j, l \in DOMAIN s : /\ i # j /\ j # l /\ i # l
                                          /\ s[i].key = t[p].key /\ s[j].key = t[p].key
                                          /\ s[l].key = t[p].key
<1> DEFINE D == DOMAIN s
<1>1. PICK f \in [D -> D] :
          /\ t = [p \in D |-> s[f[p]]]
          /\ \A p, q \in D : p < q => Before(s, f[p], f[q])
          /\ \A p, q \in D : p # q => f[p] # f[q]
          /\ \A i \in D : \E p \in D : f[p] = i
  BY IndexSortIs
<1>2. /\ \A i \in D : s[i] \in Entry /\ s[i].key \in Nat /\ s[i].removed \in BOOLEAN /\ i \in Nat
      /\ D = 1 .. Len(s) /\ Len(s) \in Nat
  BY EntryIs
<1>3. /\ DOMAIN t = D /\ \A p \in D : t[p] = s[f[p]] /\ f[p] \in D
  BY <1>1
<1>4. t \in Seq(Entry) /\ Len(t) = Len(s)
  <2>1. t \in [1 .. Len(s) -> Entry]
    BY <1>1, <1>2
  <2> QED BY <1>2, <2>1
<1>5. \A p, q \in D : p < q =>
        /\ t[p].key <= t[q].key
        /\ t[p].key = t[q].key => t[p].removed \/ ~t[q].removed
  <2> SUFFICES ASSUME NEW p \in D, NEW q \in D, p < q
               PROVE  /\ t[p].key <= t[q].key
                      /\ t[p].key = t[q].key => t[p].removed \/ ~t[q].removed
    OBVIOUS
  <2> DEFINE x == s[f[p]]
             y == s[f[q]]
  <2>1. Before(s, f[p], f[q]) /\ t[p] = x /\ t[q] = y
    BY <1>1, <1>3
  <2>2. x.key \in Nat /\ y.key \in Nat /\ x.removed \in BOOLEAN /\ y.removed \in BOOLEAN
    BY <1>2, <1>3
  <2>3. \/ x.key < y.key
        \/ x.key = y.key /\ x.removed /\ ~y.removed
        \/ x.key = y.key /\ x.removed = y.removed
    BY <2>1 DEF Before
  <2> HIDE DEF x, y
  <2> QED BY <2>1, <2>2, <2>3
<1>6. Unique(s) => Unique(t)
  BY <1>1, <1>3 DEF Unique
<1>7. ASSUME Unique(s), NEW p \in D, NEW q \in D, p < q, t[p].key = t[q].key
      PROVE  t[p].removed
  <2>1. t[p].removed \/ ~t[q].removed
    BY <1>5, <1>7
  <2>2. p # q
    BY <1>2, <1>7
  <2> QED BY <1>3, <1>6, <1>7, <2>1, <2>2 DEF Unique
<1>8. ASSUME NEW p \in D, NEW q \in D, NEW r \in D, p < q, q < r,
             t[p].key = t[q].key, t[q].key = t[r].key
      PROVE  \E i, j, l \in D : /\ i # j /\ j # l /\ i # l
                                /\ s[i].key = t[p].key /\ s[j].key = t[p].key
                                /\ s[l].key = t[p].key
  <2>1. p # q /\ q # r /\ p # r
    BY <1>2, <1>8
  <2>2. f[p] # f[q] /\ f[q] # f[r] /\ f[p] # f[r]
    BY <1>1, <2>1
  <2> QED BY <1>3, <1>8, <2>2
<1> QED BY <1>3, <1>4, <1>5, <1>6, <1>7, <1>8

(* Three entries are more than two.                                        *)
LEMMA Three ==
  ASSUME NEW S, IsFiniteSet(S), NEW i \in S, NEW j \in S, NEW l \in S,
         i # j, j # l, i # l
  PROVE Cardinality(S) > 2
<1>1. IsFiniteSet({i}) /\ Cardinality({i}) = 1
  BY FS_Singleton
<1>2. IsFiniteSet({i} \cup {j}) /\ Cardinality({i} \cup {j}) = 2
  <2>1. j \notin {i}
    OBVIOUS
  <2>2. IsFiniteSet({i} \cup {j}) /\ Cardinality({i} \cup {j}) = Cardinality({i}) + 1
    BY <1>1, <2>1, FS_AddElement
  <2> QED BY <1>1, <2>2
<1>3. IsFiniteSet(({i} \cup {j}) \cup {l}) /\ Cardinality(({i} \cup {j}) \cup {l}) = 3
  <2> DEFINE T == {i} \cup {j}
  <2>1. l \notin T
    OBVIOUS
  <2> HIDE DEF T
  <2>2. IsFiniteSet(T) /\ Cardinality(T) = 2
    BY <1>2 DEF T
  <2>3. IsFiniteSet(T \cup {l}) /\ Cardinality(T \cup {l}) = Cardinality(T) + 1
    BY <2>1, <2>2, FS_AddElement
  <2> QED BY <2>2, <2>3 DEF T
<1>4. ({i} \cup {j}) \cup {l} \in SUBSET S
  OBVIOUS
<1>5. 3 <= Cardinality(S) /\ Cardinality(S) \in Nat
  BY <1>3, <1>4, FS_Subset, FS_CardinalityType
<1> QED BY <1>5

(* Blocks are parts of the index, and none is empty.                       *)
LEMMA BlocksAre ==
  ASSUME NEW s \in Seq(Entry), NEW B, B = BlocksOf(s)
  PROVE \A b \in DOMAIN B :
          /\ B[b].start \in Nat /\ B[b].start < Len(s)
          /\ B[b].end \in Nat /\ B[b].end <= Len(s)
          /\ B[b].start < B[b].end
          /\ B[b].first = s[B[b].start + 1].key
          /\ B[b].last = s[B[b].end].key
<1> SUFFICES ASSUME NEW b \in DOMAIN B
             PROVE  /\ B[b].start \in Nat /\ B[b].start < Len(s)
                    /\ B[b].end \in Nat /\ B[b].end <= Len(s)
                    /\ B[b].start < B[b].end
                    /\ B[b].first = s[B[b].start + 1].key
                    /\ B[b].last = s[B[b].end].key
  OBVIOUS
<1> DEFINE n == Len(s)
           a == (b - 1) * BlockSize
           c == b * BlockSize
           e == Min({c, n})
<1>1. b \in DOMAIN s /\ a < n
  BY DEF BlocksOf
<1>2. b \in Nat /\ b >= 1 /\ n \in Nat /\ BlockSize \in Nat /\ BlockSize # 0
  BY <1>1, EntryIs, BoundsAssumption
<1>3. B[b] = [first |-> s[a + 1].key, last |-> s[e].key, start |-> a, end |-> e]
  <2> DEFINE G(i) == [first |-> s[(i - 1) * BlockSize + 1].key,
                      last |-> s[Min({i * BlockSize, n})].key,
                      start |-> (i - 1) * BlockSize, end |-> Min({i * BlockSize, n})]
             T == {j \in DOMAIN s : (j - 1) * BlockSize < n}
  <2>1. B = [i \in T |-> G(i)]
    BY DEF BlocksOf
  <2>2. b \in T
    BY <2>1
  <2>3. B[b] = G(b)
    <3> HIDE DEF G, T
    <3> QED BY <2>1, <2>2
  <2> QED BY <2>3
<1>4. a \in Nat /\ c \in Nat /\ c = a + BlockSize
  BY <1>2
<1> HIDE DEF n, a, c
<1>5. e \in {c, n} /\ e <= c /\ e <= n
  <2> DEFINE S == {c, n}
  <2>1. S \subseteq Nat /\ S # {}
    BY <1>2, <1>4
  <2>2. Min(S) \in S /\ \A y \in S : Min(S) <= y
    <3> HIDE DEF S
    <3> QED BY <2>1, MinOf
  <2> QED BY <2>2
<1> HIDE DEF e
<1>6. e \in Nat /\ a < e
  BY <1>1, <1>2, <1>4, <1>5
<1> QED BY <1>1, <1>3, <1>4, <1>5, <1>6 DEF n

-----------------------------------------------------------------------------
(* Steps                                                                   *)

(* The file an iterator reads and the file in use are as long as the       *)
(* index.                                                                  *)
LEMMA FileIs ==
  ASSUME Types
  PROVE /\ File \in Seq(Entry) /\ Len(File) = Size /\ DOMAIN File = 1 .. Size /\ Size \in Nat
        /\ InUse \in Seq(Entry) /\ Len(InUse) = Size /\ DOMAIN InUse = 1 .. Size
BY DEF Types, File, InUse, Size

(* The iterator goes from one of its places to the next, and changes       *)
(* nothing else.                                                           *)
LEMMA PcKeeps ==
  ASSUME Inv, pc \in Batches, pc' \in Batches \cup {"failed"},
         pc' \notin {"hold", "check", "failed"} => DOMAIN loc.dc = {},
         UNCHANGED <<call, files, fd, offsets, current, off, batch, loc, visited, removes,
                     observers>>
  PROVE Inv'
<1>0. Types /\ Quiet /\ Marks /\ Once /\ Same /\ Kept /\ ToCome
  BY DEF Inv
<1>1. UNCHANGED <<ranges, readonly, index, sorted, blocks, gone, fd, offsets, current, off,
                  batch, loc, visited, there, often, slipped, moved>>
  BY DEF call, files, observers
<1>2. File' = File /\ InUse' = InUse /\ Size' = Size
  BY <1>1 DEF File, InUse, Size
<1>3. pc \in States /\ pc' \in States /\ pc \notin {"idle", "fill"} /\ pc' \notin {"idle", "fill"}
  BY DEF Batches, States
<1>4. Types'
  BY <1>0, <1>1, <1>2, <1>3 DEF Types
<1>5. Quiet'
  BY <1>0, <1>1, <1>3 DEF Quiet
<1>6. Marks' /\ Kept'
  BY <1>0, <1>1, <1>2 DEF Marks, Contents, Kept, Safe
<1>7. Once' /\ Same'
  BY <1>0, <1>1, <1>2, <1>3 DEF Once, Same
<1>8. Placed' <=> Placed
  BY <1>1, <1>2 DEF Placed, InRange
<1>9. \A k, r : Wanted(k, r)' <=> Wanted(k, r)
  BY <1>1 DEF Wanted
<1>10. \A k : (Held(k)' <=> Held(k)) /\ (Ahead(k)' <=> Ahead(k))
  BY <1>1, <1>2, <1>9 DEF Held, Ahead
<1>11. ToCome'
  BY <1>0, <1>1, <1>3, <1>8, <1>9, <1>10 DEF ToCome
<1> QED BY <1>4, <1>5, <1>6, <1>7, <1>11 DEF Inv

(* eblob_bctl_hold, an error of the callback, eblob_bctl_release and the   *)
(* end of the loop keep the invariant.                                     *)
LEMMA TurnsKeep ==
  ASSUME Inv, Hold \/ CallbackFails \/ Release \/ Finish
  PROVE Inv'
<1>1. CASE Hold
  BY <1>1, PcKeeps DEF Hold, Batches
<1>2. CASE CallbackFails
  BY <1>2, PcKeeps DEF CallbackFails, Batches
<1>3. CASE Release
  BY <1>3, PcKeeps DEF Release, Batches
<1>4. CASE Finish
  <2>1. DOMAIN loc.dc = {}
    BY <1>4 DEF Finish, Inv, Quiet
  <2> QED BY <1>4, <2>1, PcKeeps DEF Finish, Batches
<1> QED BY <1>1, <1>2, <1>3, <1>4

(* The choice of index_fd keeps the invariant.                             *)
LEMMA BeginKeeps ==
  ASSUME Inv, Begin
  PROVE Inv'
<1>0. Types /\ Quiet /\ Marks /\ Once /\ Same /\ Kept /\ ToCome
  BY DEF Inv
<1>1. UNCHANGED <<ranges, readonly, index, sorted, blocks, gone, offsets, current, off,
                  batch, loc, visited, there, often, slipped, moved>>
  BY DEF Begin, call, files, observers
<1>2. pc = "idle" /\ pc' = "fill" /\ fd' = (IF sorted = NoFile THEN "index" ELSE "sorted")
  BY DEF Begin
<1>3. InUse' = InUse /\ Size' = Size /\ File' = InUse
  BY <1>1, <1>2 DEF File, InUse, Size
<1>4. Types'
  BY <1>0, <1>1, <1>2, <1>3 DEF Types, States
<1>5. Quiet'
  BY <1>0, <1>1, <1>2 DEF Quiet
<1>6. Marks' /\ Kept' /\ Same'
  BY <1>0, <1>1, <1>2, <1>3 DEF Marks, Contents, Kept, Safe, Same
<1>7. Once'
  <2>1. DOMAIN loc.dc = {} /\ visited = [k \in Keys |-> 0]
    BY <1>0, <1>2 DEF Quiet
  <2>2. \A p \in DOMAIN InUse : InUse[p].key \in Keys
    BY <1>0, FileIs, EntryIs
  <2> QED BY <1>0, <1>1, <1>3, <2>1, <2>2 DEF Once
<1>8. Neat(sorted)' <=> Neat(sorted)
  BY <1>1 DEF Neat, Tidy
<1>9. ToCome'
  BY <1>0, <1>1, <1>2, <1>3, <1>8 DEF ToCome, Batches
<1> QED BY <1>4, <1>5, <1>6, <1>7, <1>9 DEF Inv

(* An entry is written over.                                               *)
LEMMA PutIs ==
  ASSUME NEW s \in Seq(Entry), NEW i \in DOMAIN s, NEW x \in Entry,
         NEW t, t = [s EXCEPT ![i] = x]
  PROVE /\ t \in Seq(Entry) /\ DOMAIN t = DOMAIN s
        /\ \A j \in DOMAIN s : t[j] = IF j = i THEN x ELSE s[j]
<1>1. s \in [1 .. Len(s) -> Entry] /\ Len(s) \in Nat
  BY EntryIs
<1>2. t \in [1 .. Len(s) -> Entry]
  BY <1>1
<1>3. t \in Seq(Entry)
  BY <1>1, <1>2
<1> QED BY <1>1, <1>2, <1>3

(* A file in which nothing has changed but that entries are removed.       *)
Fewer(s, t) == DOMAIN t = DOMAIN s /\ \A i \in DOMAIN t : ~t[i].removed => t[i] = s[i]

Shrink ==
    /\ sorted' = NoFile <=> sorted = NoFile
    /\ index' \in Seq(Entry) /\ Fewer(index, index')
    /\ sorted # NoFile => sorted' \in Seq(Entry) /\ Fewer(sorted, sorted')

(* A step that only removes entries keeps sizes and the uniqueness of live *)
(* entries.                                                                *)
LEMMA ShrinkIs ==
  ASSUME Types, Shrink, fd' = fd
  PROVE /\ Size' = Size /\ Len(index') = Len(index)
        /\ sorted' # NoFile => sorted' \in Seq(Entry) /\ Len(sorted') = Len(index')
        /\ Fewer(File, File') /\ Fewer(InUse, InUse')
        /\ Unique(index) => Unique(index')
        /\ sorted # NoFile /\ Unique(sorted) => Unique(sorted')
<1>1. index \in Seq(Entry) /\ (sorted # NoFile => sorted \in Seq(Entry) /\ Len(sorted) = Len(index))
      /\ (fd = "sorted" => sorted # NoFile) /\ fd \in {"index", "sorted"}
  BY DEF Types
<1>2. /\ DOMAIN index' = DOMAIN index /\ index' \in Seq(Entry)
      /\ sorted # NoFile => DOMAIN sorted' = DOMAIN sorted /\ sorted' \in Seq(Entry)
  BY DEF Shrink, Fewer
<1>3. Len(index') = Len(index)
  BY <1>1, <1>2
<1>4. sorted # NoFile => Len(sorted') = Len(sorted)
  BY <1>1, <1>2
<1>5. Fewer(File, File') /\ Fewer(InUse, InUse')
  BY <1>1 DEF Shrink, File, InUse
<1>6. Unique(index) => Unique(index')
  BY DEF Shrink, Fewer, Unique
<1>7. sorted # NoFile /\ Unique(sorted) => Unique(sorted')
  BY DEF Shrink, Fewer, Unique
<1> QED BY <1>1, <1>2, <1>3, <1>4, <1>5, <1>6, <1>7 DEF Shrink, Size

(* What a step that only removes entries leaves of where ranges are.       *)
LEMMA PlacedStays ==
  ASSUME Placed, Fewer(File, File'), UNCHANGED <<ranges, offsets, often>>
  PROVE Placed'
<1> SUFFICES ASSUME NEW p \in DOMAIN File', NEW i \in DOMAIN ranges,
                    ~File'[p].removed, InRange(File'[p].key, i)
             PROVE  /\ \A n \in 1 .. i : offsets[n].start < p
                    /\ File'[p].key \notin often => p <= offsets[i].end + 1
  BY DEF Placed, InRange
<1>1. p \in DOMAIN File /\ File'[p] = File[p]
  BY DEF Fewer
<1> QED BY <1>1 DEF Placed, InRange

(* eblob_mark_entry_removed in the index in use keeps the invariant,       *)
(* whatever the iterator has read.                                         *)
LEMMA RemoveKeeps ==
  ASSUME Inv, NEW i, RemoveRecord(i)
  PROVE Inv'
<1>0. Types /\ Quiet /\ Marks /\ Once /\ Same /\ Kept /\ ToCome
  BY DEF Inv
<1> DEFINE e == InUse[i]
<1>1. /\ pc # "idle" /\ i \in DOMAIN InUse /\ ~e.removed
      /\ IF sorted = NoFile
         THEN index' = [index EXCEPT ![i].removed = TRUE] /\ sorted' = sorted
         ELSE sorted' = [sorted EXCEPT ![i].removed = TRUE] /\ index' = index
      /\ gone' = gone \cup {e.pos} /\ there' = there \ {e.key}
  BY DEF RemoveRecord
<1>2. UNCHANGED <<ranges, readonly, blocks, pc, fd, offsets, current, off, batch, loc,
                  visited, often, slipped, moved>>
  BY DEF RemoveRecord, call, iterator
<1>3. InUse \in Seq(Entry) /\ e \in Entry /\ e.key \in Keys /\ index \in Seq(Entry)
      /\ (sorted # NoFile => sorted \in Seq(Entry))
  BY <1>0, <1>1, FileIs, EntryIs DEF Types
<1> DEFINE x == [e EXCEPT !.removed = TRUE]
<1>4. x \in Entry /\ x.removed = TRUE /\ x.key = e.key /\ x.pos = e.pos
  BY <1>3 DEF Entry
<1>5. InUse' = [InUse EXCEPT ![i] = x] /\ (sorted' = NoFile <=> sorted = NoFile)
  <2>1. CASE sorted = NoFile
    BY <1>1, <2>1 DEF InUse
  <2>2. CASE sorted # NoFile
    <3>1. sorted' = [sorted EXCEPT ![i] = x]
      BY <1>1, <2>2 DEF InUse
    <3>2. sorted' \in Seq(Entry)
      <4>1. i \in DOMAIN sorted
        BY <1>1, <2>2 DEF InUse
      <4> HIDE DEF x
      <4> QED BY <1>3, <1>4, <2>2, <3>1, <4>1, PutIs
    <3>3. sorted' # NoFile
      BY <3>2, IndexesAssumption
    <3> QED BY <2>2, <3>1, <3>3 DEF InUse
  <2> QED BY <2>1, <2>2
<1> HIDE DEF x, e
<1>6. InUse' \in Seq(Entry) /\ DOMAIN InUse' = DOMAIN InUse /\ Fewer(InUse, InUse')
      /\ \A j \in DOMAIN InUse : InUse'[j] = IF j = i THEN x ELSE InUse[j]
  <2>1. InUse' \in Seq(Entry) /\ DOMAIN InUse' = DOMAIN InUse
    BY <1>1, <1>3, <1>4, <1>5, PutIs
  <2>2. \A j \in DOMAIN InUse : InUse'[j] = IF j = i THEN x ELSE InUse[j]
    BY <1>1, <1>3, <1>4, <1>5, PutIs
  <2> QED BY <1>4, <2>1, <2>2 DEF Fewer
<1>7. sorted' = NoFile <=> sorted = NoFile
  BY <1>5
<1>8. Shrink
  <2>1. CASE sorted = NoFile
    <3>1. InUse' = index' /\ InUse = index
      BY <1>7, <2>1 DEF InUse
    <3> QED BY <1>6, <1>7, <2>1, <3>1 DEF Shrink
  <2>2. CASE sorted # NoFile
    <3>1. InUse' = sorted' /\ InUse = sorted
      BY <1>7, <2>2 DEF InUse
    <3>2. index' = index /\ Fewer(index, index')
      BY <1>1, <2>2 DEF Fewer
    <3> QED BY <1>3, <1>6, <1>7, <2>2, <3>1, <3>2 DEF Shrink
  <2> QED BY <2>1, <2>2
<1>9. /\ Size' = Size /\ Len(index') = Len(index)
      /\ sorted' # NoFile => sorted' \in Seq(Entry) /\ Len(sorted') = Len(index')
      /\ Fewer(File, File') /\ Fewer(InUse, InUse')
      /\ Unique(index) => Unique(index')
      /\ sorted # NoFile /\ Unique(sorted) => Unique(sorted')
  BY <1>0, <1>2, <1>8, ShrinkIs
<1>10. Types'
  BY <1>0, <1>1, <1>2, <1>7, <1>8, <1>9 DEF Types, Shrink
<1>11. Quiet'
  BY <1>0, <1>1, <1>2, <1>7 DEF Quiet
<1>12. Marks'
  <2>1. ASSUME NEW y \in Contents'
        PROVE  \E z \in Contents : z.pos = y.pos /\ z.key = y.key /\ (y.removed \/ y = z)
    <3>1. \A j \in DOMAIN InUse : InUse[j] \in Contents
      BY DEF Contents, InUse, Range
    <3>2. CASE \E j \in DOMAIN InUse' : y = InUse'[j]
      <4>1. y = x \/ \E j \in DOMAIN InUse : y = InUse[j]
        BY <1>6, <3>2
      <4>2. CASE y = x
        <5>1. e \in Contents
          BY <1>1, <3>1 DEF e
        <5> QED BY <1>4, <4>2, <5>1
      <4>3. CASE \E j \in DOMAIN InUse : y = InUse[j]
        BY <3>1, <4>3
      <4> QED BY <4>1, <4>2, <4>3
    <3>3. CASE y \in Contents
      BY <3>3
    <3>4. (\E j \in DOMAIN InUse' : y = InUse'[j]) \/ y \in Contents
      <4>1. CASE sorted = NoFile
        <5>1. Contents' = Range(InUse') \cup Range(loc.dc)
          BY <1>2, <1>7, <4>1 DEF Contents, InUse
        <5> QED BY <2>1, <5>1 DEF Contents, Range
      <4>2. CASE sorted # NoFile
        <5>1. Contents' = Range(index) \cup Range(InUse') \cup Range(loc.dc)
          BY <1>1, <1>2, <1>7, <4>2 DEF Contents, InUse
        <5> QED BY <2>1, <5>1 DEF Contents, Range
      <4> QED BY <4>1, <4>2
    <3> QED BY <3>2, <3>3, <3>4
  <2>2. e \in Contents
    <3>1. \A j \in DOMAIN InUse : InUse[j] \in Contents
      BY DEF Contents, InUse, Range
    <3> QED BY <1>1, <3>1 DEF e
  <2>3. \A y, z \in Contents' : y.pos = z.pos => y.key = z.key
    BY <1>0, <2>1 DEF Marks
  <2>4. ASSUME NEW y \in Contents', ~y.removed, y.pos \in gone' PROVE y.key \notin there'
    <3>1. y \in Contents
      BY <2>1, <2>4
    <3>2. CASE y.pos \in gone
      BY <1>0, <1>1, <2>4, <3>1, <3>2 DEF Marks
    <3>3. CASE y.pos = e.pos
      BY <1>0, <1>1, <2>2, <3>1, <3>3 DEF Marks
    <3> QED BY <1>1, <2>4, <3>2, <3>3
  <2> QED BY <2>3, <2>4 DEF Marks
<1>13. Once'
  <2>1. DOMAIN File' = DOMAIN File /\ \A p \in DOMAIN File : ~File'[p].removed => File'[p] = File[p]
    BY <1>9 DEF Fewer
  <2> QED BY <1>0, <1>2, <1>7, <1>9, <2>1 DEF Once
<1>14. Same'
  BY <1>0, <1>2, <1>7 DEF Same
<1>15. there \subseteq Live(InUse) => there' \subseteq Live(InUse')
  <2> SUFFICES ASSUME there \subseteq Live(InUse), NEW k \in there' PROVE k \in Live(InUse')
    OBVIOUS
  <2>1. PICK j \in DOMAIN InUse : ~InUse[j].removed /\ k = InUse[j].key
    BY <1>1 DEF Live
  <2>2. j # i
    BY <1>1, <2>1 DEF e
  <2>3. InUse'[j] = InUse[j] /\ j \in DOMAIN InUse'
    BY <1>6, <2>1, <2>2
  <2> QED BY <2>1, <2>3 DEF Live
<1>16. Kept'
  <2>1. Safe' <=> Safe
    BY <1>2 DEF Safe
  <2>2. \A j \in DOMAIN InUse : InUse'[j].key = InUse[j].key
    BY <1>4, <1>6 DEF e
  <2>3. \A p \in DOMAIN loc.dc : p \in DOMAIN InUse
    <3>1. \A p \in DOMAIN loc.dc : p \in 1 .. Size
      BY <1>0, FileIs DEF Types
    <3> QED BY <1>0, <3>1, FileIs
  <2>4. Safe' => there' \subseteq Live(InUse')
    BY <1>0, <1>15, <2>1 DEF Kept
  <2>5. ranges = <<>> /\ ~moved => \A p \in DOMAIN loc.dc : InUse'[p].key = loc.dc[p].key
    BY <1>0, <2>2, <2>3 DEF Kept
  <2> QED BY <1>2, <2>4, <2>5 DEF Kept
<1>17. ToCome'
  <2>1. pc = "fill" /\ sorted' # NoFile /\ ~slipped => Neat(sorted)'
    <3> SUFFICES ASSUME pc = "fill", sorted # NoFile, ~slipped PROVE Neat(sorted)'
      BY <1>7
    <3>1. Neat(sorted)
      BY <1>0 DEF ToCome
    <3>2. sorted' = InUse' /\ sorted = InUse
      BY <1>7 DEF InUse
    <3>3. DOMAIN sorted' = DOMAIN sorted
      BY <1>6, <3>2
    <3>4. \A j \in DOMAIN sorted : sorted'[j].key = sorted[j].key
      BY <1>4, <1>6, <3>2 DEF e
    <3>5. \A j \in DOMAIN sorted : sorted[j].removed => sorted'[j].removed
      BY <1>4, <1>6, <3>2 DEF e
    <3>6. \A b \in DOMAIN blocks : blocks[b].start + 1 \in DOMAIN sorted /\ blocks[b].end \in DOMAIN sorted
      <4>1. DOMAIN sorted = 1 .. Size /\ Size \in Nat
        BY <1>0, <3>2, FileIs
      <4> QED BY <1>0, <4>1 DEF Types
    <3> QED BY <1>2, <3>1, <3>3, <3>4, <3>5, <3>6 DEF Neat, Tidy
  <2>2. ASSUME pc \in Batches, ~slipped, NEW k \in there' \ often, Wanted(k, 1)
        PROVE  visited[k] > 0 \/ Held(k)' \/ Ahead(k)'
    <3>1. k \in there \ often /\ k # e.key
      BY <1>1, <2>2
    <3>2. visited[k] > 0 \/ Held(k) \/ Ahead(k)
      BY <1>0, <2>2, <3>1 DEF ToCome
    <3>3. Held(k) => Held(k)'
      BY <1>2 DEF Held
    <3>4. ASSUME Ahead(k) PROVE Ahead(k)'
      <4>1. PICK p \in DOMAIN File : p > off /\ File[p].key = k /\ ~File[p].removed
        BY <3>4 DEF Ahead
      <4>2. File'[p] = File[p] /\ p \in DOMAIN File'
        <5>1. CASE File = InUse /\ File' = InUse'
          <6>1. p # i
            BY <3>1, <4>1, <5>1 DEF e
          <6> QED BY <1>6, <4>1, <5>1, <6>1
        <5>2. CASE File' = File
          BY <5>2, <4>1
        <5>3. (File = InUse /\ File' = InUse') \/ File' = File
          BY <1>0, <1>1, <1>2, <1>7 DEF File, InUse, Types
        <5> QED BY <5>1, <5>2, <5>3
      <4>3. Wanted(k, current)'
        BY <1>2, <3>4 DEF Ahead, Wanted
      <4> QED BY <1>2, <4>1, <4>2, <4>3 DEF Ahead
    <3> QED BY <3>2, <3>3, <3>4
  <2>3. pc \in Batches /\ ~slipped /\ current # 0 => Placed'
    BY <1>0, <1>2, <1>9, PlacedStays DEF ToCome
  <2>4. pc = "fill" /\ ~slipped => there' \subseteq Live(InUse') /\ (fd = "index" <=> sorted' = NoFile)
    BY <1>0, <1>7, <1>15 DEF ToCome
  <2>5. \A k : Wanted(k, 1)' <=> Wanted(k, 1)
    BY <1>2 DEF Wanted
  <2> QED BY <1>1, <1>2, <2>1, <2>2, <2>3, <2>4, <2>5 DEF ToCome
<1> QED BY <1>10, <1>11, <1>12, <1>13, <1>14, <1>16, <1>17 DEF Inv

(* What CheckDiskOne has before it: the next entry e of the batch, at p,    *)
(* and the place o to which it would write.                                *)
LEMMA CheckFacts ==
  ASSUME Inv, DOMAIN loc.dc # {}, NEW p, p = Min(DOMAIN loc.dc)
  PROVE /\ p \in DOMAIN loc.dc /\ p \in Nat /\ \A q \in DOMAIN loc.dc : q \in Nat /\ p <= q
        /\ loc.dc[p] \in Entry /\ loc.dc[p].key \in Keys /\ loc.dc[p] \in Contents
        /\ loc.dc[p].removed \in BOOLEAN
        /\ loc.offset + 1 \in DOMAIN InUse /\ loc.offset + 1 <= p /\ p <= off
        /\ loc.offset + 1 \in Nat
        /\ ranges = <<>> => p = loc.offset + 1
<1>0. Types /\ Quiet
  BY DEF Inv
<1> DEFINE D == DOMAIN loc.dc
<1>1. D \subseteq Nat /\ D # {}
  BY <1>0 DEF Types
<1>2. Min(D) \in D /\ \A q \in D : Min(D) <= q
  <2> HIDE DEF D
  <2> QED BY <1>1, MinOf
<1>3. p \in D /\ p \in Nat /\ \A q \in D : q \in Nat /\ p <= q
  BY <1>1, <1>2
<1>4. loc.dc[p] \in Entry /\ loc.offset \in Nat /\ loc.offset < p /\ p <= off
      /\ off \in Nat /\ off <= Size
  BY <1>0, <1>3 DEF Types
<1>5. loc.dc[p].key \in Keys /\ loc.dc[p].removed \in BOOLEAN
  BY <1>4 DEF Entry
<1>6. loc.dc[p] \in Contents
  BY <1>3 DEF Contents, Range
<1>7. DOMAIN InUse = 1 .. Size /\ Size \in Nat
  BY <1>0, FileIs
<1>8. loc.offset + 1 \in 1 .. Size /\ loc.offset + 1 <= p /\ loc.offset + 1 \in Nat
  BY <1>3, <1>4, <1>7
<1>9. ASSUME ranges = <<>> PROVE p = loc.offset + 1
  <2>1. D = loc.offset + 1 .. off
    BY <1>0, <1>9 DEF Quiet
  <2>2. loc.offset + 1 \in D
    BY <1>3, <1>4, <1>8, <2>1
  <2> QED BY <1>3, <1>4, <2>2
<1> HIDE DEF D
<1> QED BY <1>3, <1>4, <1>5, <1>6, <1>7, <1>8, <1>9 DEF D

(* What it does to the files.                                              *)
LEMMA CheckWrites ==
  ASSUME Inv, CheckDiskOne, NEW p, p = Min(DOMAIN loc.dc), NEW e, e = loc.dc[p]
  PROVE /\ Shrink
        /\ DOMAIN InUse' = DOMAIN InUse
        /\ \A j \in DOMAIN InUse : j # loc.offset + 1 => InUse'[j] = InUse[j]
        /\ ~Fixes(e) => InUse' = InUse
        /\ (File = InUse /\ File' = InUse') \/ File' = File
        /\ \A y \in Contents' : \E z \in Contents :
              z.pos = y.pos /\ z.key = y.key /\ (y.removed \/ y = z)
<1>0. Types
  BY DEF Inv
<1> DEFINE o == loc.offset + 1
           x == [e EXCEPT !.removed = TRUE]
           dc == Restrict(loc.dc, DOMAIN loc.dc \ {p})
<1>1. DOMAIN loc.dc # {} /\ loc' = [dc |-> dc, offset |-> loc.offset + 1] /\ fd' = fd
  BY DEF CheckDiskOne
<1>2. e \in Entry /\ e \in Contents /\ o \in DOMAIN InUse
  BY <1>1, CheckFacts
<1>3. x \in Entry /\ x.removed = TRUE /\ x.key = e.key /\ x.pos = e.pos
  BY <1>2 DEF Entry
<1>4. Range(loc'.dc) \subseteq Range(loc.dc)
  <2>1. loc'.dc = dc
    BY <1>1
  <2> QED BY <2>1 DEF Range, Restrict
<1>5. index \in Seq(Entry) /\ (sorted # NoFile => sorted \in Seq(Entry))
      /\ (fd = "sorted" => sorted # NoFile) /\ fd \in {"index", "sorted"}
  BY <1>0 DEF Types
<1>6. CASE ~Fixes(e)
  <2>1. index' = index /\ sorted' = sorted
    BY <1>6 DEF CheckDiskOne
  <2>2. InUse' = InUse /\ File' = File
    BY <1>1, <2>1 DEF InUse, File
  <2>3. Shrink
    BY <1>5, <2>1 DEF Shrink, Fewer
  <2>4. Contents' \subseteq Contents
    BY <1>4, <2>1 DEF Contents
  <2> QED BY <1>6, <2>2, <2>3, <2>4
<1>7. CASE Fixes(e) /\ sorted = NoFile
  <2>1. index' = [index EXCEPT ![o] = x] /\ sorted' = sorted
    BY <1>7 DEF CheckDiskOne, Written, Offset
  <2>2. InUse' = index' /\ InUse = index /\ File' = index' /\ File = index
    BY <1>1, <1>5, <1>7, <2>1 DEF InUse, File
  <2> HIDE DEF o, x
  <2>3. /\ index' \in Seq(Entry) /\ DOMAIN index' = DOMAIN index
        /\ \A j \in DOMAIN index : index'[j] = IF j = o THEN x ELSE index[j]
    BY <1>2, <1>3, <1>5, <2>1, <2>2, PutIs
  <2>4. Shrink
    BY <1>3, <1>7, <2>1, <2>3 DEF Shrink, Fewer
  <2>5. Range(index') \subseteq Range(index) \cup {x}
    BY <2>3 DEF Range
  <2>6. Contents' \subseteq Contents \cup {x}
    BY <1>4, <1>7, <2>1, <2>5 DEF Contents
  <2>7. \A y \in Contents' : \E z \in Contents :
              z.pos = y.pos /\ z.key = y.key /\ (y.removed \/ y = z)
    BY <1>2, <1>3, <2>6
  <2> QED BY <1>7, <2>2, <2>3, <2>4, <2>7 DEF o
<1>8. CASE Fixes(e) /\ sorted # NoFile
  <2>1. sorted' = [sorted EXCEPT ![o] = x] /\ index' = index
    BY <1>8 DEF CheckDiskOne, Written, Offset
  <2>2. InUse = sorted
    BY <1>8 DEF InUse
  <2> HIDE DEF o, x
  <2>3. /\ sorted' \in Seq(Entry) /\ DOMAIN sorted' = DOMAIN sorted
        /\ \A j \in DOMAIN sorted : sorted'[j] = IF j = o THEN x ELSE sorted[j]
    BY <1>2, <1>3, <1>5, <1>8, <2>1, <2>2, PutIs
  <2>4. sorted' # NoFile
    BY <2>3, IndexesAssumption
  <2>5. InUse' = sorted'
    BY <2>4 DEF InUse
  <2>6. (File = InUse /\ File' = InUse') \/ File' = File
    BY <1>1, <1>5, <2>1, <2>2, <2>5 DEF File
  <2>7. Shrink
    BY <1>3, <1>5, <1>8, <2>1, <2>3, <2>4 DEF Shrink, Fewer
  <2>8. Range(sorted') \subseteq Range(sorted) \cup {x}
    BY <2>3 DEF Range
  <2>9. Contents' \subseteq Contents \cup {x}
    BY <1>4, <1>8, <2>1, <2>4, <2>8 DEF Contents
  <2>10. \A y \in Contents' : \E z \in Contents :
              z.pos = y.pos /\ z.key = y.key /\ (y.removed \/ y = z)
    BY <1>2, <1>3, <2>9
  <2> QED BY <1>8, <2>2, <2>3, <2>5, <2>6, <2>7, <2>10 DEF o
<1> QED BY <1>6, <1>7, <1>8

(* eblob_check_disk_one keeps the invariant: what it passes on is not      *)
(* passed again, and what it writes over was an entry of a removed key.    *)
LEMMA CheckKeeps ==
  ASSUME Inv, CheckDiskOne
  PROVE Inv'
<1>0. Types /\ Quiet /\ Marks /\ Once /\ Same /\ Kept /\ ToCome
  BY DEF Inv
<1>1. PICK p : p = Min(DOMAIN loc.dc)
  OBVIOUS
<1>2. PICK e : e = loc.dc[p]
  OBVIOUS
<1>3. PICK o : o = loc.offset + 1
  OBVIOUS
<1>4. /\ pc = "check" /\ DOMAIN loc.dc # {}
      /\ visited' = IF Fixes(e) \/ e.removed THEN visited
                    ELSE [visited EXCEPT ![e.key] = @ + 1]
      /\ loc' = [dc |-> Restrict(loc.dc, DOMAIN loc.dc \ {p}), offset |-> o]
  BY <1>1, <1>2, <1>3 DEF CheckDiskOne
<1>5. UNCHANGED <<ranges, readonly, blocks, gone, pc, fd, offsets, current, off, batch,
                  removes, there, often, slipped, moved>>
  BY DEF CheckDiskOne, call, observers
<1>6. /\ DOMAIN loc'.dc = DOMAIN loc.dc \ {p} /\ loc'.offset = o
      /\ \A q \in DOMAIN loc'.dc : loc'.dc[q] = loc.dc[q]
  BY <1>4 DEF Restrict
<1>7. /\ p \in DOMAIN loc.dc /\ p \in Nat /\ \A q \in DOMAIN loc.dc : q \in Nat /\ p <= q
      /\ e \in Entry /\ e.key \in Keys /\ e \in Contents /\ e.removed \in BOOLEAN
      /\ o \in DOMAIN InUse /\ o <= p /\ p <= off /\ o \in Nat
      /\ ranges = <<>> => p = o
  BY <1>1, <1>2, <1>3, <1>4, CheckFacts
<1>8. /\ Shrink
      /\ DOMAIN InUse' = DOMAIN InUse
      /\ \A j \in DOMAIN InUse : j # o => InUse'[j] = InUse[j]
      /\ ~Fixes(e) => InUse' = InUse
      /\ (File = InUse /\ File' = InUse') \/ File' = File
      /\ \A y \in Contents' : \E z \in Contents :
            z.pos = y.pos /\ z.key = y.key /\ (y.removed \/ y = z)
  BY <1>1, <1>2, <1>3, CheckWrites
<1>9. /\ Size' = Size /\ Len(index') = Len(index)
      /\ sorted' # NoFile => sorted' \in Seq(Entry) /\ Len(sorted') = Len(index')
      /\ Fewer(File, File') /\ Fewer(InUse, InUse')
      /\ Unique(index) => Unique(index')
      /\ sorted # NoFile /\ Unique(sorted) => Unique(sorted')
  BY <1>0, <1>5, <1>8, ShrinkIs
<1>10. (sorted' = NoFile <=> sorted = NoFile) /\ index' \in Seq(Entry)
  BY <1>8 DEF Shrink
<1>11. /\ visited \in [Keys -> Nat] /\ visited' \in [Keys -> Nat]
       /\ \A k \in Keys : k # e.key \/ e.removed => visited'[k] = visited[k]
       /\ \A k \in Keys : visited'[k] >= visited[k]
       /\ visited'[e.key] <= visited[e.key] + 1
       /\ ~Fixes(e) /\ ~e.removed => visited'[e.key] > 0
  <2>1. visited \in [Keys -> Nat]
    BY <1>0 DEF Types
  <2>2. CASE Fixes(e) \/ e.removed
    BY <1>4, <1>7, <2>1, <2>2
  <2>3. CASE ~(Fixes(e) \/ e.removed)
    <3>1. visited' = [visited EXCEPT ![e.key] = @ + 1]
      BY <1>4, <2>3
    <3> QED BY <1>7, <2>1, <2>3, <3>1
  <2> QED BY <2>2, <2>3
<1>12. Types'
  <2>1. \A q \in DOMAIN loc'.dc : loc'.dc[q] \in Entry /\ q \in Nat /\ loc'.offset < q /\ q <= off
    BY <1>0, <1>6, <1>7 DEF Types
  <2>2. /\ sorted' # NoFile => sorted' \in Seq(Entry) /\ Len(sorted') = Len(index')
        /\ index' \in Seq(Entry) /\ loc'.offset \in Nat
    BY <1>6, <1>7, <1>9, <1>10
  <2> QED BY <1>0, <1>5, <1>9, <1>10, <1>11, <2>1, <2>2 DEF Types
<1>13. Quiet'
  <2>1. ASSUME ranges = <<>> PROVE DOMAIN loc'.dc = o + 1 .. off /\ o <= off
    <3>1. DOMAIN loc.dc = o .. off /\ off \in Nat
      BY <1>0, <1>3, <2>1 DEF Quiet, Types
    <3> QED BY <1>6, <1>7, <2>1, <3>1
  <2> QED BY <1>0, <1>4, <1>5, <1>6, <1>10, <2>1 DEF Quiet
<1>14. Marks'
  <2>1. \A y, z \in Contents' : y.pos = z.pos => y.key = z.key
    BY <1>0, <1>8 DEF Marks
  <2>2. \A y \in Contents' : ~y.removed /\ y.pos \in gone' => y.key \notin there'
    BY <1>0, <1>5, <1>8 DEF Marks
  <2> QED BY <2>1, <2>2 DEF Marks
<1>15. Once'
  <2>0. DOMAIN File' = DOMAIN File /\ \A q \in DOMAIN File : ~File'[q].removed => File'[q] = File[q]
    BY <1>9 DEF Fewer
  <2>1. \A q \in DOMAIN File : File[q].key \in Keys
    BY <1>0, FileIs, EntryIs
  <2>2. \A q \in DOMAIN loc.dc : loc.dc[q].key \in Keys
    BY <1>0 DEF Types, Entry
  <2>3. Unique(index') /\ (sorted' # NoFile => Unique(sorted'))
    BY <1>0, <1>9, <1>10 DEF Once
  <2>4. ASSUME Len(ranges) <= 1
        PROVE  /\ \A k \in Keys : visited'[k] <= 1
               /\ \A q \in DOMAIN loc'.dc : ~loc'.dc[q].removed => visited'[loc'.dc[q].key] = 0
               /\ \A q \in DOMAIN File' : q > off /\ ~File'[q].removed => visited'[File'[q].key] = 0
               /\ \A q, r \in DOMAIN loc'.dc :
                     q # r /\ ~loc'.dc[q].removed /\ ~loc'.dc[r].removed =>
                         loc'.dc[q].key # loc'.dc[r].key
               /\ \A q \in DOMAIN loc'.dc, r \in DOMAIN File' :
                     r > off /\ ~loc'.dc[q].removed /\ ~File'[r].removed =>
                         loc'.dc[q].key # File'[r].key
    <3>0. /\ \A k \in Keys : visited[k] <= 1
          /\ \A q \in DOMAIN loc.dc : ~loc.dc[q].removed => visited[loc.dc[q].key] = 0
          /\ \A q \in DOMAIN File : q > off /\ ~File[q].removed => visited[File[q].key] = 0
          /\ \A q, r \in DOMAIN loc.dc : q # r /\ ~loc.dc[q].removed /\ ~loc.dc[r].removed =>
                loc.dc[q].key # loc.dc[r].key
          /\ \A q \in DOMAIN loc.dc, r \in DOMAIN File :
                r > off /\ ~loc.dc[q].removed /\ ~File[r].removed =>
                    loc.dc[q].key # File[r].key
      BY <1>0, <2>4 DEF Once
    <3>1. \A k \in Keys : visited'[k] <= 1
      <4>1. ~e.removed => visited[e.key] = 0
        BY <1>2, <1>7, <3>0
      <4> QED BY <1>7, <1>11, <3>0, <4>1
    <3>2. \A q \in DOMAIN loc'.dc : ~loc'.dc[q].removed => visited'[loc'.dc[q].key] = 0
      <4> SUFFICES ASSUME NEW q \in DOMAIN loc'.dc, ~loc'.dc[q].removed
                   PROVE  visited'[loc'.dc[q].key] = 0
        OBVIOUS
      <4>1. q \in DOMAIN loc.dc /\ q # p /\ loc'.dc[q] = loc.dc[q]
        BY <1>6
      <4>2. loc.dc[q].key # e.key \/ e.removed
        BY <1>2, <1>7, <3>0, <4>1
      <4> QED BY <1>11, <2>2, <3>0, <4>1, <4>2
    <3>3. \A q \in DOMAIN File' : q > off /\ ~File'[q].removed => visited'[File'[q].key] = 0
      <4> SUFFICES ASSUME NEW q \in DOMAIN File', q > off, ~File'[q].removed
                   PROVE  visited'[File'[q].key] = 0
        OBVIOUS
      <4>1. q \in DOMAIN File /\ File'[q] = File[q]
        BY <2>0
      <4>2. File[q].key # e.key \/ e.removed
        BY <1>2, <1>7, <3>0, <4>1
      <4> QED BY <1>11, <2>1, <3>0, <4>1, <4>2
    <3>4. \A q, r \in DOMAIN loc'.dc :
                     q # r /\ ~loc'.dc[q].removed /\ ~loc'.dc[r].removed =>
                         loc'.dc[q].key # loc'.dc[r].key
      BY <1>6, <3>0
    <3>5. \A q \in DOMAIN loc'.dc, r \in DOMAIN File' :
                     r > off /\ ~loc'.dc[q].removed /\ ~File'[r].removed =>
                         loc'.dc[q].key # File'[r].key
      BY <1>6, <2>0, <3>0
    <3> QED BY <3>1, <3>2, <3>3, <3>4, <3>5
  <2> QED BY <1>5, <2>3, <2>4 DEF Once
<1>16. Same'
  BY <1>0, <1>5, <1>10 DEF Same
<1>17. Fixes(e) => e.key \notin there
  BY <1>0, <1>7 DEF Fixes, Marks
<1>18. Kept'
  <2>1. Safe' <=> Safe
    BY <1>5 DEF Safe
  <2>2. ASSUME Safe PROVE there \subseteq Live(InUse')
    <3>1. there \subseteq Live(InUse)
      BY <1>0, <2>2 DEF Kept
    <3>2. CASE ~Fixes(e)
      BY <1>8, <3>1, <3>2
    <3>3. CASE Fixes(e)
      <4>1. ranges = <<>> /\ ~moved
        BY <2>2, <3>3 DEF Safe, Fixes
      <4>2. p = o /\ InUse[o].key = e.key
        BY <1>0, <1>2, <1>7, <4>1 DEF Kept
      <4> SUFFICES ASSUME NEW k \in there PROVE k \in Live(InUse')
        OBVIOUS
      <4>3. PICK j \in DOMAIN InUse : ~InUse[j].removed /\ InUse[j].key = k
        BY <3>1 DEF Live
      <4>4. j # o
        BY <1>17, <3>3, <4>2, <4>3
      <4>5. j \in DOMAIN InUse' /\ InUse'[j] = InUse[j]
        BY <1>8, <4>3, <4>4
      <4> QED BY <4>3, <4>5 DEF Live
    <3> QED BY <3>2, <3>3
  <2>3. ASSUME ranges = <<>>, ~moved, NEW q \in DOMAIN loc'.dc
        PROVE  InUse'[q].key = loc'.dc[q].key
    <3>1. q \in DOMAIN loc.dc /\ q # o /\ loc'.dc[q] = loc.dc[q]
      BY <1>6, <1>7, <2>3
    <3>2. q \in 1 .. Size
      BY <1>0, <3>1, FileIs DEF Types
    <3>3. q \in DOMAIN InUse
      BY <1>0, <3>2, FileIs
    <3>4. InUse'[q] = InUse[q]
      BY <1>8, <3>1, <3>3
    <3> QED BY <1>0, <2>3, <3>1, <3>4 DEF Kept
  <2> QED BY <1>5, <2>1, <2>2, <2>3 DEF Kept
<1>19. ToCome'
  <2>1. pc \in Batches /\ pc \notin {"idle", "fill"}
    BY <1>4 DEF Batches
  <2>2. ~slipped /\ current # 0 => Placed'
    BY <1>0, <1>5, <1>9, <2>1, PlacedStays DEF ToCome
  <2>3. ASSUME ~slipped, NEW k \in there \ often, Wanted(k, 1)
        PROVE  visited'[k] > 0 \/ Held(k)' \/ Ahead(k)'
    <3>0. k \in Keys
      BY <1>0 DEF Types
    <3>1. visited[k] > 0 \/ Held(k) \/ Ahead(k)
      BY <1>0, <2>1, <2>3 DEF ToCome
    <3>2. visited[k] > 0 => visited'[k] > 0
      BY <1>11, <3>0
    <3>3. ASSUME Held(k) PROVE visited'[k] > 0 \/ Held(k)'
      <4>1. PICK q \in DOMAIN loc.dc : loc.dc[q].key = k /\ ~loc.dc[q].removed
        BY <3>3 DEF Held
      <4>2. CASE q = p
        BY <1>2, <1>11, <1>17, <2>3, <4>1, <4>2
      <4>3. CASE q # p
        <5>1. q \in DOMAIN loc'.dc /\ loc'.dc[q] = loc.dc[q]
          BY <1>6, <4>1, <4>3
        <5> QED BY <4>1, <5>1 DEF Held
      <4> QED BY <4>2, <4>3
    <3>4. ASSUME Ahead(k) PROVE Ahead(k)'
      <4>1. PICK q \in DOMAIN File : q > off /\ File[q].key = k /\ ~File[q].removed
        BY <3>4 DEF Ahead
      <4>2. q # o /\ q \in DOMAIN InUse
        <5>1. off \in Nat /\ DOMAIN File = 1 .. Size /\ DOMAIN InUse = 1 .. Size /\ Size \in Nat
          BY <1>0, FileIs DEF Types
        <5> QED BY <1>7, <4>1, <5>1
      <4>3. q \in DOMAIN File' /\ File'[q] = File[q]
        BY <1>8, <4>1, <4>2
      <4>4. Wanted(k, current)'
        BY <1>5, <3>4 DEF Ahead, Wanted
      <4> QED BY <1>5, <4>1, <4>3, <4>4 DEF Ahead
    <3> QED BY <3>1, <3>2, <3>3, <3>4
  <2>4. \A k : Wanted(k, 1)' <=> Wanted(k, 1)
    BY <1>5 DEF Wanted
  <2> QED BY <1>5, <2>1, <2>2, <2>3, <2>4 DEF ToCome
<1> QED BY <1>12, <1>13, <1>14, <1>15, <1>16, <1>18, <1>19 DEF Inv

(* The range ReadBatch goes on with, and where it reads.                   *)
LEMMA NextRangeIs ==
  ASSUME Types, ~Exhausted, NEW n, n = NextRange
  PROVE /\ n \in Nat /\ n <= Len(ranges)
        /\ \/ n = current
           \/ /\ current # 0 /\ n \in DOMAIN ranges /\ n > current
              /\ \A i \in DOMAIN ranges : current <= i /\ i < n => off > offsets[i].end
<1>1. current \in Nat /\ Len(ranges) \in Nat /\ current <= Len(ranges)
      /\ DOMAIN ranges = 1 .. Len(ranges) /\ off \in Nat
  BY DEF Types
<1>2. CASE n = current
  BY <1>1, <1>2
<1>3. CASE n # current
  <2>1. current # 0 /\ Passed(current)
    BY <1>3 DEF NextRange
  <2> DEFINE S == {i \in DOMAIN ranges : i > current /\ ~Passed(i)} \cup {Len(ranges) + 1}
  <2>2. n = Min(S)
    BY <1>3, <2>1 DEF NextRange
  <2>3. S \subseteq Nat /\ S # {}
    BY <1>1
  <2>4. n \in S /\ \A i \in S : n <= i
    <3> HIDE DEF S
    <3> QED BY <2>2, <2>3, MinOf
  <2>5. ~(n > Len(ranges))
    BY DEF Exhausted
  <2>6. n \in DOMAIN ranges /\ n > current
    BY <1>1, <2>4, <2>5
  <2>7. ASSUME NEW i \in DOMAIN ranges, current <= i, i < n PROVE off > offsets[i].end
    <3>1. i = current \/ i > current
      BY <1>1, <2>7
    <3>2. Passed(i)
      <4>1. CASE i = current
        BY <2>1, <4>1
      <4>2. CASE i > current /\ ~Passed(i)
        <5>1. i \in S
          BY <4>2
        <5>2. n <= i /\ n \in Nat /\ i \in Nat
          <6> HIDE DEF S
          <6> QED BY <1>1, <2>3, <2>4, <5>1
        <5> QED BY <2>7, <5>2
      <4> QED BY <3>1, <4>1, <4>2
    <3> QED BY <3>2 DEF Passed
  <2> QED BY <1>1, <2>1, <2>6, <2>7
<1> QED BY <1>2, <1>3

(* A batch is inside the index.                                            *)
LEMMA FromIs ==
  ASSUME Types, ~Exhausted
  PROVE /\ From \in Nat /\ From <= Size /\ Batch \in Nat /\ From + Batch <= Size
        /\ NextRange = current => From = off
        /\ NextRange # current => From = offsets[NextRange].start
<1>1. PICK n : n = NextRange
  OBVIOUS
<1>2. /\ n \in Nat /\ n <= Len(ranges)
      /\ n = current \/ (current # 0 /\ n \in DOMAIN ranges)
  BY <1>1, NextRangeIs
<1>3. off \in Nat /\ off <= Size /\ batch \in Nat /\ Size \in Nat
  BY FileIs DEF Types
<1>4. From \in Nat /\ From <= Size
  BY <1>1, <1>2, <1>3 DEF From, Types
<1> DEFINE S == {batch, Size - From}
<1>5. Size - From \in Nat
  BY <1>3, <1>4
<1>6. S \subseteq Nat /\ S # {}
  BY <1>3, <1>5
<1>7. Min(S) \in S /\ \A y \in S : Min(S) <= y
  <2> HIDE DEF S
  <2> QED BY <1>6, MinOf
<1>8. Batch = Min(S)
  BY DEF Batch
<1>9. Batch \in Nat /\ Batch <= Size - From
  BY <1>6, <1>7, <1>8
<1> QED BY <1>3, <1>4, <1>5, <1>9 DEF From

(* One turn of eblob_blob_iterator keeps the invariant: a range that is    *)
(* passed has no live entry ahead, the next one begins before all of its   *)
(* own.                                                                    *)
LEMMA ReadKeeps ==
  ASSUME Inv, ReadBatch
  PROVE Inv'
<1>0. Types /\ Quiet /\ Marks /\ Once /\ Same /\ Kept /\ ToCome
  BY DEF Inv
<1>1. PICK n : n = NextRange
  OBVIOUS
<1>2. PICK a : a = From
  OBVIOUS
<1>3. PICK b : b = Batch
  OBVIOUS
<1>4. PICK kept : kept = {p \in a + 1 .. a + b : Wanted(File[p].key, n)}
  OBVIOUS
<1>5. /\ pc = "read" /\ off < Size /\ ~Exhausted
      /\ current' = n /\ batch' = b /\ off' = a + b
      /\ loc' = [dc |-> [p \in kept |-> File[p]], offset |-> a]
      /\ pc' = IF kept = {} THEN "read" ELSE "hold"
  BY <1>1, <1>2, <1>3, <1>4 DEF ReadBatch, Advanced
<1>6. UNCHANGED <<ranges, readonly, index, sorted, blocks, gone, fd, offsets, visited,
                  removes, there, often, slipped, moved>>
  BY DEF ReadBatch, call, files, observers
<1>7. File' = File /\ InUse' = InUse /\ Size' = Size
  BY <1>6 DEF File, InUse, Size
<1>8. /\ File \in Seq(Entry) /\ DOMAIN File = 1 .. Size /\ Size \in Nat
      /\ \A p \in DOMAIN File : File[p] \in Entry /\ File[p].key \in Keys
  BY <1>0, FileIs, EntryIs
<1>9. /\ n \in Nat /\ n <= Len(ranges)
      /\ \/ n = current
         \/ /\ current # 0 /\ n \in DOMAIN ranges /\ n > current
            /\ \A i \in DOMAIN ranges : current <= i /\ i < n => off > offsets[i].end
  BY <1>0, <1>1, <1>5, NextRangeIs
<1>10. /\ a \in Nat /\ a <= Size /\ b \in Nat /\ a + b <= Size
       /\ n = current => a = off
       /\ n # current => a = offsets[n].start
  BY <1>0, <1>1, <1>2, <1>3, <1>5, FromIs
<1>11. /\ DOMAIN loc'.dc = kept /\ loc'.offset = a
       /\ \A p \in kept : loc'.dc[p] = File[p]
  BY <1>5
<1>12. \A p \in kept : p \in DOMAIN File /\ p \in Nat /\ a < p /\ p <= a + b
                       /\ Wanted(File[p].key, n)
  BY <1>4, <1>8, <1>10
<1>13. DOMAIN loc.dc = {}
  BY <1>0, <1>5 DEF Quiet
<1>14. pc' \in {"read", "hold"} /\ (pc' # "hold" => kept = {})
  BY <1>5
<1>15. Types'
  <2>1. \A p \in DOMAIN loc'.dc :
          loc'.dc[p] \in Entry /\ p \in Nat /\ loc'.offset < p /\ p <= off'
    BY <1>5, <1>8, <1>11, <1>12
  <2>2. current' \in Nat /\ current' <= Len(ranges') /\ (current' # 0 => current # 0)
    BY <1>0, <1>5, <1>6, <1>9
  <2>3. off' \in Nat /\ off' <= Size' /\ batch' \in Nat /\ loc'.offset \in Nat
    BY <1>5, <1>7, <1>10, <1>11
  <2>4. pc' \in States
    BY <1>14 DEF States, Batches
  <2> QED BY <1>0, <1>6, <1>7, <2>1, <2>2, <2>3, <2>4 DEF Types
<1>16. Quiet'
  <2>1. ASSUME ranges = <<>> PROVE kept = a + 1 .. off' /\ a <= off'
    <3>1. \A k : Wanted(k, n)
      BY <2>1 DEF Wanted
    <3>2. kept = a + 1 .. a + b
      BY <1>4, <3>1
    <3> QED BY <1>5, <1>10, <3>2
  <2> QED BY <1>0, <1>6, <1>11, <1>14, <2>1 DEF Quiet
<1>17. Marks'
  <2>1. Range(loc'.dc) \subseteq Range(File)
    BY <1>11, <1>12 DEF Range
  <2>2. Range(File) \subseteq Contents
    BY <1>0 DEF Contents, File, Types
  <2>3. Contents' \subseteq Contents
    BY <1>6, <2>1, <2>2 DEF Contents
  <2> QED BY <1>0, <1>6, <2>3 DEF Marks
<1>18. Once'
  <2>1. Unique(File)
    BY <1>0 DEF Once, File, Types
  <2>2. ASSUME Len(ranges) <= 1
        PROVE  /\ \A k \in Keys : visited[k] <= 1
               /\ \A p \in kept : ~File[p].removed => visited[File[p].key] = 0
               /\ \A p \in DOMAIN File : p > off' /\ ~File[p].removed => visited[File[p].key] = 0
               /\ \A p, q \in kept : p # q /\ ~File[p].removed /\ ~File[q].removed =>
                     File[p].key # File[q].key
               /\ \A p \in kept, q \in DOMAIN File :
                     q > off' /\ ~File[p].removed /\ ~File[q].removed =>
                         File[p].key # File[q].key
    <3>1. n = current
      <4>1. current \in Nat /\ Len(ranges) \in Nat
        BY <1>0 DEF Types
      <4> QED BY <1>9, <2>2, <4>1
    <3>2. a = off /\ off \in Nat
      BY <1>0, <1>10, <3>1 DEF Types
    <3>3. /\ \A k \in Keys : visited[k] <= 1
          /\ \A p \in DOMAIN File : p > off /\ ~File[p].removed => visited[File[p].key] = 0
      BY <1>0, <2>2 DEF Once
    <3>4. \A p \in DOMAIN File : p > off' => p > off
      BY <1>5, <1>8, <1>10, <3>2
    <3>5. \A p \in kept, q \in DOMAIN File : q > off' => p # q
      BY <1>5, <1>8, <1>10, <1>12
    <3>6. \A p \in kept : p \in DOMAIN File /\ p > off
      BY <1>12, <3>2
    <3> QED BY <2>1, <3>3, <3>4, <3>5, <3>6 DEF Unique
  <2> QED BY <1>0, <1>6, <1>7, <1>11, <2>2 DEF Once
<1>19. Same'
  BY <1>0, <1>5, <1>6 DEF Same
<1>20. Kept'
  <2>1. ~moved => File = InUse
    BY <1>0, <1>5 DEF Same, File, InUse, Types
  <2> QED BY <1>0, <1>6, <1>7, <1>11, <2>1 DEF Kept, Safe
<1>21. ToCome'
  <2>1. pc \in Batches /\ pc' \in Batches /\ pc' \notin {"idle", "fill"}
    BY <1>5, <1>14 DEF Batches
  <2>2. Placed' <=> Placed
    BY <1>6, <1>7 DEF Placed, InRange
  <2>3. current' # 0 => current # 0
    BY <1>0, <1>5, <1>9
  <2>4. ASSUME ~slipped, NEW k \in there \ often, Wanted(k, 1)
        PROVE  visited[k] > 0 \/ Held(k)' \/ Ahead(k)'
    <3>1. visited[k] > 0 \/ Ahead(k)
      BY <1>0, <1>13, <2>1, <2>4 DEF ToCome, Held
    <3>2. ASSUME Ahead(k) PROVE Held(k)' \/ Ahead(k)'
      <4>1. PICK p \in DOMAIN File : p > off /\ File[p].key = k /\ ~File[p].removed
        BY <3>2 DEF Ahead
      <4>2. Wanted(k, n) /\ p > a
        <5>1. CASE n = current
          BY <1>10, <3>2, <4>1, <5>1 DEF Ahead
        <5>2. CASE n # current
          <6>1. ranges # <<>>
            BY <1>9, <5>2
          <6>2. PICK i \in DOMAIN ranges : i >= current /\ InRange(k, i)
            BY <3>2, <6>1 DEF Ahead, Wanted, InRange
          <6>3. current # 0 /\ Placed
            BY <1>0, <1>9, <2>1, <2>4, <5>2 DEF ToCome
          <6>4. (\A l \in 1 .. i : offsets[l].start < p) /\ p <= offsets[i].end + 1
            BY <2>4, <4>1, <6>2, <6>3 DEF Placed
          <6>5. i \in Nat /\ offsets[i].end \in Nat /\ off \in Nat /\ current \in Nat /\ p \in Nat
            BY <1>0, <1>8, <6>2, <6>3 DEF Types
          <6>6. i >= n
            BY <1>9, <4>1, <5>2, <6>2, <6>4, <6>5
          <6>7. n \in 1 .. i
            BY <1>9, <5>2, <6>5, <6>6
          <6>8. Wanted(k, n)
            BY <6>2, <6>6 DEF Wanted, InRange
          <6>9. a < p
            BY <1>10, <5>2, <6>4, <6>7
          <6> QED BY <1>10, <6>5, <6>8, <6>9
        <5> QED BY <5>1, <5>2
      <4>3. Wanted(k, n)'
        BY <1>6, <4>2 DEF Wanted
      <4>4. CASE p <= a + b
        <5>1. p \in kept
          BY <1>4, <1>8, <1>10, <4>1, <4>2, <4>4
        <5> QED BY <1>11, <4>1, <5>1 DEF Held
      <4>5. CASE p > a + b
        BY <1>5, <1>7, <4>1, <4>3, <4>5 DEF Ahead, Wanted
      <4>6. p <= a + b \/ p > a + b
        BY <1>8, <1>10, <4>1
      <4> QED BY <4>4, <4>5, <4>6
    <3> QED BY <3>1, <3>2
  <2>5. \A k : Wanted(k, 1)' <=> Wanted(k, 1)
    BY <1>6 DEF Wanted
  <2> QED BY <1>0, <1>6, <2>1, <2>2, <2>3, <2>4, <2>5 DEF ToCome
<1> QED BY <1>15, <1>16, <1>17, <1>18, <1>19, <1>20, <1>21 DEF Inv

(* The sorted index of a base, its blocks and the keys with many entries.  *)
LEMMA NeatIs ==
  ASSUME NEW s \in Indexes, NEW t, t = SortedByKey(s)
  PROVE Tidy(t, BlocksOf(t), Many(s))
<1>1. s \in Seq(Entry) /\ Unique(s)
  BY IndexesAssumption DEF Unique
<1>2. /\ t \in Seq(Entry)
      /\ \A p, q \in DOMAIN t : p < q => t[p].key <= t[q].key
      /\ \A p, q \in DOMAIN t : p < q /\ t[p].key = t[q].key => t[p].removed
      /\ \A p, q, r \in DOMAIN t :
            p < q /\ q < r /\ t[p].key = t[q].key /\ t[q].key = t[r].key =>
              \E i, j, l \in DOMAIN s : /\ i # j /\ j # l /\ i # l
                                        /\ s[i].key = t[p].key /\ s[j].key = t[p].key
                                        /\ s[l].key = t[p].key
  BY <1>1, SortedFacts
<1>3. ASSUME NEW p \in DOMAIN t, NEW q \in DOMAIN t, NEW r \in DOMAIN t,
             p < q, q < r, t[p].key = t[q].key, t[q].key = t[r].key
      PROVE  t[p].key \in Many(s)
  <2> DEFINE k == t[p].key
             S == {i \in DOMAIN s : s[i].key = k}
  <2>1. PICK i, j, l \in DOMAIN s : /\ i # j /\ j # l /\ i # l
                                    /\ s[i].key = k /\ s[j].key = k /\ s[l].key = k
    BY <1>2, <1>3
  <2>2. i \in S /\ j \in S /\ l \in S
    BY <2>1
  <2>3. IsFiniteSet(S)
    <3>1. IsFiniteSet(DOMAIN s)
      BY <1>1, EntryIs, FS_Interval
    <3> QED BY <3>1, FS_Subset
  <2>4. Cardinality(S) > 2
    <3> HIDE DEF S
    <3> QED BY <2>1, <2>2, <2>3, Three
  <2>5. k \in Keys
    BY <1>2, EntryIs
  <2> QED BY <2>4, <2>5 DEF Many
<1>4. \A B : B = BlocksOf(t) => \A b \in DOMAIN B : B[b].first = t[B[b].start + 1].key /\ B[b].last = t[B[b].end].key
  BY <1>2, BlocksAre
<1> QED BY <1>2, <1>3, <1>4 DEF Tidy

(* Sorting keeps what is there.                                            *)
LEMMA LiveSorted ==
  ASSUME NEW s \in Seq(Entry), NEW t, t = SortedByKey(s)
  PROVE Live(t) = Live(s) /\ Range(t) = Range(s)
<1>1. /\ \A i \in DOMAIN t : \E j \in DOMAIN s : s[j] = t[i]
      /\ \A j \in DOMAIN s : \E i \in DOMAIN t : t[i] = s[j]
  BY SortedSame
<1>2. Range(t) = Range(s)
  BY <1>1 DEF Range
<1>3. Live(t) = Live(s)
  BY <1>1 DEF Live
<1> QED BY <1>2, <1>3

(* The sort of the index under an iterator keeps the invariant: its file   *)
(* stays what it was, or it had not chosen one.                            *)
LEMMA SortKeeps ==
  ASSUME Inv, IndexSort
  PROVE Inv'
<1>0. Types /\ Quiet /\ Marks /\ Once /\ Same /\ Kept /\ ToCome
  BY DEF Inv
<1>1. /\ sorted = NoFile /\ pc # "check"
      /\ sorted' = SortedByKey(index) /\ blocks' = BlocksOf(sorted')
      /\ slipped' = (pc = "fill") /\ moved' = (pc # "idle")
  BY DEF IndexSort
<1>2. UNCHANGED <<ranges, readonly, index, gone, pc, fd, offsets, current, off, batch, loc,
                  visited, removes, there, often>>
  BY DEF IndexSort, call, iterator
<1>3. index \in Seq(Entry) /\ fd = "index"
  BY <1>0, <1>1 DEF Types
<1>4. /\ sorted' \in Seq(Entry) /\ Len(sorted') = Len(index)
      /\ Unique(index) => Unique(sorted')
  BY <1>1, <1>3, SortedFacts
<1>5. sorted' # NoFile
  BY <1>4, IndexesAssumption
<1>6. File' = File /\ Size' = Size /\ InUse = index /\ InUse' = sorted'
  BY <1>1, <1>2, <1>3, <1>5 DEF File, Size, InUse
<1>7. Live(InUse') = Live(InUse) /\ Range(sorted') = Range(index)
  BY <1>1, <1>3, <1>6, LiveSorted
<1>8. ~slipped /\ ~moved
  BY <1>0, <1>1 DEF Quiet
<1>9. Types'
  <2>1. \A b \in DOMAIN blocks' :
          /\ blocks'[b].start \in Nat /\ blocks'[b].start < Size
          /\ blocks'[b].end \in Nat /\ blocks'[b].end <= Size
          /\ blocks'[b].start < blocks'[b].end
    <3>1. Len(sorted') = Size
      BY <1>4 DEF Size
    <3> QED BY <1>1, <1>4, <3>1, BlocksAre
  <2>2. slipped' \in BOOLEAN /\ moved' \in BOOLEAN
    BY <1>1
  <2> QED BY <1>0, <1>2, <1>4, <1>5, <1>6, <2>1, <2>2 DEF Types
<1>10. Quiet'
  BY <1>0, <1>1, <1>2, <1>5 DEF Quiet
<1>11. Marks'
  <2>1. Contents' = Contents
    BY <1>1, <1>2, <1>5, <1>7 DEF Contents
  <2> QED BY <1>0, <1>2, <2>1 DEF Marks
<1>12. Once'
  BY <1>0, <1>2, <1>4, <1>6 DEF Once
<1>13. Same'
  BY <1>1, <1>2 DEF Same
<1>14. Kept'
  <2>1. Safe' => Safe
    BY <1>2, <1>8 DEF Safe
  <2>2. ~moved' => DOMAIN loc.dc = {}
    BY <1>0, <1>1 DEF Quiet
  <2> QED BY <1>0, <1>2, <1>7, <2>1, <2>2 DEF Kept
<1>15. ToCome'
  <2>1. ASSUME pc = "idle" PROVE Neat(sorted)'
    <3>1. index \in Indexes /\ often = Many(index)
      BY <1>0, <2>1 DEF Quiet
    <3>2. Tidy(sorted', blocks', often)
      BY <1>1, <3>1, NeatIs
    <3> QED BY <1>2, <3>2 DEF Neat
  <2>2. Placed' <=> Placed
    BY <1>2, <1>6 DEF Placed, InRange
  <2>3. \A k, r : Wanted(k, r)' <=> Wanted(k, r)
    BY <1>2 DEF Wanted
  <2>4. \A k : (Held(k)' <=> Held(k)) /\ (Ahead(k)' <=> Ahead(k))
    BY <1>2, <1>6, <2>3 DEF Held, Ahead
  <2>5. pc = "fill" => slipped'
    BY <1>1
  <2> QED BY <1>0, <1>2, <1>7, <1>8, <2>1, <2>2, <2>3, <2>4, <2>5 DEF ToCome
<1> QED BY <1>9, <1>10, <1>11, <1>12, <1>13, <1>14, <1>15 DEF Inv

(* The offsets of ranges enclose their live entries, whichever block       *)
(* bsearch finds.                                                          *)
LEMMA OffsetsPlaced ==
  ASSUME Types, Quiet, sorted # NoFile, Neat(sorted), NEW F,
         \A i \in DOMAIN ranges : F[i] \in OffsetsOf(ranges[i]),
         NEW p \in DOMAIN sorted, NEW i \in DOMAIN ranges,
         ~sorted[p].removed, InRange(sorted[p].key, i)
  PROVE /\ \A n \in 1 .. i : F[n].start < p
        /\ sorted[p].key \notin often => p <= F[i].end + 1
<1> DEFINE k == sorted[p].key
<1>1. /\ sorted \in Seq(Entry) /\ DOMAIN sorted = 1 .. Size /\ Size \in Nat
      /\ \A q \in DOMAIN sorted : sorted[q].key \in Nat
  BY EntryIs, FileIs DEF Types, Size
<1>2. /\ DOMAIN ranges = 1 .. Len(ranges) /\ Len(ranges) \in Nat
      /\ \A n \in DOMAIN ranges : ranges[n].lo \in Nat /\ ranges[n].hi \in Nat
                                  /\ ranges[n].lo <= ranges[n].hi
      /\ \A n, m \in DOMAIN ranges : n < m => ranges[n].hi < ranges[m].lo
  <2> DEFINE R == [lo : Nat, hi : Nat]
  <2>1. ranges \in Seq(R)
    BY DEF Types
  <2>2. \A n \in DOMAIN ranges : ranges[n] \in R
    <3> HIDE DEF R
    <3> QED BY <2>1
  <2>3. \A n \in DOMAIN ranges : ranges[n].lo \in Nat /\ ranges[n].hi \in Nat
    BY <2>2
  <2>4. DOMAIN ranges = 1 .. Len(ranges) /\ Len(ranges) \in Nat
    <3> HIDE DEF R
    <3> QED BY <2>1
  <2>5. /\ \A n \in DOMAIN ranges : ranges[n].lo <= ranges[n].hi
        /\ \A n, m \in DOMAIN ranges : n < m => ranges[n].hi < ranges[m].lo
    BY DEF Quiet
  <2> QED BY <2>3, <2>4, <2>5
<1>3. p \in Nat /\ p >= 1 /\ p <= Size /\ k \in Nat /\ i \in Nat /\ i >= 1 /\ i <= Len(ranges)
      /\ ranges[i].lo <= k /\ k <= ranges[i].hi
  BY <1>1, <1>2 DEF InRange
<1>4. ASSUME NEW n \in 1 .. i PROVE F[n].start < p
  <2>1. n \in DOMAIN ranges /\ n \in Nat /\ n <= i
    BY <1>2, <1>3
  <2>2. ranges[n].lo <= k /\ ranges[n].lo \in Nat
    <3>1. CASE n = i
      BY <1>2, <1>3, <2>1, <3>1
    <3>2. CASE n < i
      BY <1>2, <1>3, <2>1, <3>2
    <3> QED BY <1>3, <2>1, <3>1, <3>2
  <2>3. F[n].start \in Starts(ranges[n].lo)
    BY <2>1 DEF OffsetsOf
  <2>4. CASE F[n].start = 0
    BY <1>3, <2>4
  <2>5. ASSUME NEW b \in BlocksWith(ranges[n].lo), F[n].start = blocks[b].start
        PROVE  F[n].start < p
    <3> DEFINE s == blocks[b].start
    <3>1. b \in DOMAIN blocks /\ blocks[b].first <= ranges[n].lo
      BY <2>5 DEF BlocksWith, Covers
    <3>2. s \in Nat /\ s < Size /\ blocks[b].first = sorted[s + 1].key
      BY <3>1 DEF Types, Neat, Tidy
    <3>3. s + 1 \in DOMAIN sorted
      BY <1>1, <3>2
    <3> HIDE DEF s
    <3>4. ASSUME ~(s < p) PROVE FALSE
      <4>1. p < s + 1
        BY <1>3, <3>2, <3>4
      <4>2. k <= sorted[s + 1].key /\ sorted[s + 1].key \in Nat
        BY <1>1, <3>3, <4>1 DEF Neat, Tidy
      <4>3. k = sorted[s + 1].key
        BY <1>3, <2>2, <3>1, <3>2, <4>2
      <4> QED BY <3>3, <4>1, <4>3 DEF Neat, Tidy
    <3> QED BY <2>5, <3>4 DEF s
  <2> QED BY <2>3, <2>4, <2>5 DEF Starts
<1>5. ASSUME k \notin often PROVE p <= F[i].end + 1
  <2>1. F[i].end \in Ends(ranges[i].hi)
    BY DEF OffsetsOf
  <2>2. CASE F[i].end = Size
    BY <1>1, <1>3, <2>2
  <2>3. ASSUME NEW b \in BlocksWith(ranges[i].hi), F[i].end = blocks[b].end
        PROVE  p <= F[i].end + 1
    <3> DEFINE s == blocks[b].end
    <3>1. b \in DOMAIN blocks /\ ranges[i].hi <= blocks[b].last
      BY <2>3 DEF BlocksWith, Covers
    <3>2. s \in Nat /\ s <= Size /\ s >= 1 /\ blocks[b].last = sorted[s].key
      <4>1. s \in Nat /\ s <= Size /\ blocks[b].start \in Nat /\ blocks[b].start < s
        BY <3>1 DEF Types
      <4>2. blocks[b].last = sorted[s].key
        BY <3>1 DEF Neat, Tidy
      <4> HIDE DEF s
      <4>3. s >= 1
        BY <4>1
      <4> QED BY <4>1, <4>2, <4>3
    <3> HIDE DEF s
    <3>3. ASSUME ~(p <= s + 1) PROVE FALSE
      <4>1. s < s + 1 /\ s + 1 < p /\ s \in DOMAIN sorted /\ s + 1 \in DOMAIN sorted
        BY <1>1, <1>3, <3>2, <3>3
      <4>2. sorted[s].key <= sorted[s + 1].key /\ sorted[s + 1].key <= k
            /\ sorted[s].key \in Nat /\ sorted[s + 1].key \in Nat
        BY <1>1, <4>1 DEF Neat, Tidy
      <4>3. ranges[i].hi \in Nat
        BY <1>2
      <4>4. sorted[s].key = k /\ sorted[s + 1].key = k
        BY <1>3, <3>1, <3>2, <4>2, <4>3
      <4>5. sorted[s].key \in often
        BY <4>1, <4>4 DEF Neat, Tidy
      <4> QED BY <1>5, <4>4, <4>5
    <3> QED BY <2>3, <3>3 DEF s
  <2> QED BY <2>1, <2>2, <2>3 DEF Ends
<1> QED BY <1>4, <1>5

(* eblob_fill_range_offsets keeps the invariant.                           *)
LEMMA FillKeeps ==
  ASSUME Inv, FillRangeOffsets
  PROVE Inv'
<1>0. Types /\ Quiet /\ Marks /\ Once /\ Same /\ Kept /\ ToCome
  BY DEF Inv
<1>1. pc = "fill" /\ pc' = "read"
  BY DEF FillRangeOffsets
<1>2. UNCHANGED <<ranges, readonly, index, sorted, blocks, gone, fd, batch, loc, visited,
                  removes, there, often, slipped, moved>>
  BY DEF FillRangeOffsets, call, files, observers
<1>3. File' = File /\ InUse' = InUse /\ Size' = Size
  BY <1>2 DEF File, InUse, Size
<1>4. /\ visited = [k \in Keys |-> 0] /\ off = 0 /\ current = 0 /\ loc.offset = 0
      /\ DOMAIN loc.dc = {}
  BY <1>0, <1>1 DEF Quiet
<1>5. /\ DOMAIN File = 1 .. Size /\ Size \in Nat
      /\ \A p \in DOMAIN File : File[p].key \in Keys
  BY <1>0, FileIs, EntryIs
<1>6. \A k, r : Wanted(k, r)' <=> Wanted(k, r)
  BY <1>2 DEF Wanted
<1>7. ~slipped => File = InUse /\ there \subseteq Live(InUse)
  BY <1>0, <1>1 DEF ToCome, File, InUse, Types
<1>8. ASSUME ~slipped, NEW k \in there
      PROVE  \E p \in DOMAIN File : File[p].key = k /\ ~File[p].removed
  BY <1>7, <1>8 DEF Live
<1>9. Marks' /\ Kept' /\ Same'
  BY <1>0, <1>1, <1>2, <1>3 DEF Marks, Contents, Kept, Safe, Same
<1>10. Once'
  BY <1>0, <1>2, <1>3, <1>4, <1>5 DEF Once
<1>11. pc' \in States /\ pc' \in Batches /\ pc' \notin {"idle", "fill", "hold", "check", "failed"}
  BY <1>1 DEF States, Batches
<1>12. CASE sorted = NoFile \/ ranges = <<>>
  <2>1. UNCHANGED <<offsets, current, off>>
    BY <1>12 DEF FillRangeOffsets
  <2>2. Types'
    BY <1>0, <1>2, <1>3, <1>11, <2>1 DEF Types
  <2>3. Quiet'
    BY <1>0, <1>2, <1>4, <1>11, <2>1 DEF Quiet
  <2>4. ASSUME ~slipped, NEW k \in there \ often, Wanted(k, 1) PROVE Ahead(k)'
    <3>1. PICK p \in DOMAIN File : File[p].key = k /\ ~File[p].removed
      BY <1>8, <2>4
    <3>2. p > off'
      BY <1>4, <1>5, <2>1, <3>1
    <3>3. Wanted(k, 0)
      <4>1. \A i \in DOMAIN ranges : i >= 0
        BY <1>0 DEF Types
      <4> QED BY <2>4, <4>1 DEF Wanted
    <3>4. Wanted(k, current)'
      BY <1>2, <1>4, <2>1, <3>3 DEF Wanted
    <3> QED BY <1>3, <3>1, <3>2, <3>4 DEF Ahead
  <2>5. ToCome'
    BY <1>2, <1>4, <1>6, <1>11, <2>1, <2>4 DEF ToCome
  <2> QED BY <1>9, <1>10, <2>2, <2>3, <2>5 DEF Inv
<1>13. CASE sorted # NoFile /\ ranges # <<>>
  <2>1. PICK F : F = offsets'
    OBVIOUS
  <2>2. /\ \A i \in DOMAIN ranges : F[i] \in OffsetsOf(ranges[i])
        /\ current' = 1 /\ off' = F[1].start
    BY <1>13, <2>1 DEF FillRangeOffsets
  <2>3. \A i \in DOMAIN ranges : /\ F[i].start \in Nat /\ F[i].start <= Size
                                 /\ F[i].end \in Nat
    <3> SUFFICES ASSUME NEW i \in DOMAIN ranges
                 PROVE  F[i].start \in Nat /\ F[i].start <= Size /\ F[i].end \in Nat
      OBVIOUS
    <3>1. F[i].start \in Starts(ranges[i].lo) /\ F[i].end \in Ends(ranges[i].hi)
      BY <2>2 DEF OffsetsOf
    <3>2. F[i].start = 0 \/ \E b \in DOMAIN blocks : F[i].start = blocks[b].start
      BY <3>1 DEF Starts, BlocksWith
    <3>3. F[i].end = Size \/ \E b \in DOMAIN blocks : F[i].end = blocks[b].end
      BY <3>1 DEF Ends, BlocksWith
    <3>4. \A b \in DOMAIN blocks : /\ blocks[b].start \in Nat /\ blocks[b].start < Size
                                   /\ blocks[b].end \in Nat
      BY <1>0 DEF Types
    <3>5. F[i].start \in Nat /\ F[i].start <= Size
      BY <1>5, <3>2, <3>4
    <3>6. F[i].end \in Nat
      BY <1>5, <3>3, <3>4
    <3> QED BY <3>5, <3>6
  <2>4. 1 \in DOMAIN ranges /\ 1 <= Len(ranges) /\ DOMAIN ranges = 1 .. Len(ranges)
        /\ Len(ranges) \in Nat
    <3> DEFINE R == [lo : Nat, hi : Nat]
    <3>1. ranges \in Seq(R)
      BY <1>0 DEF Types
    <3> HIDE DEF R
    <3> QED BY <1>13, <3>1
  <2>5. Types'
    <3>1. off' \in Nat /\ off' <= Size' /\ current' \in Nat /\ current' <= Len(ranges')
      BY <1>2, <1>3, <2>2, <2>3, <2>4
    <3>2. \A i \in DOMAIN ranges' : /\ offsets'[i].start \in Nat /\ offsets'[i].start <= Size'
                                    /\ offsets'[i].end \in Nat
      BY <1>2, <1>3, <2>1, <2>3
    <3> QED BY <1>0, <1>2, <1>3, <1>4, <1>11, <3>1, <3>2 DEF Types
  <2>6. Quiet'
    BY <1>0, <1>2, <1>4, <1>11, <1>13 DEF Quiet
  <2>7. ASSUME ~slipped PROVE Placed'
    <3>1. Neat(sorted) /\ File = sorted
      BY <1>0, <1>1, <1>7, <1>13, <2>7 DEF ToCome, InUse
    <3>2. \A p \in DOMAIN sorted : \A i \in DOMAIN ranges :
              ~sorted[p].removed /\ InRange(sorted[p].key, i) =>
                  /\ \A n \in 1 .. i : F[n].start < p
                  /\ sorted[p].key \notin often => p <= F[i].end + 1
      BY <1>0, <1>13, <2>2, <3>1, OffsetsPlaced
    <3> QED BY <1>2, <1>3, <2>1, <3>1, <3>2 DEF Placed, InRange
  <2>8. ASSUME ~slipped, NEW k \in there \ often, Wanted(k, 1) PROVE Ahead(k)'
    <3>1. PICK p \in DOMAIN File : File[p].key = k /\ ~File[p].removed
      BY <1>8, <2>8
    <3>2. PICK i \in DOMAIN ranges : i >= 1 /\ InRange(k, i)
      BY <1>13, <2>8 DEF Wanted, InRange
    <3>3. 1 \in 1 .. i
      BY <2>4, <3>2
    <3>4. InRange(k, i)'
      BY <1>2, <3>2 DEF InRange
    <3>5. offsets'[1].start < p
      <4>1. Placed'
        BY <2>7, <2>8
      <4>2. /\ p \in DOMAIN File' /\ i \in DOMAIN ranges'
            /\ ~File'[p].removed /\ File'[p].key = k
        BY <1>2, <1>3, <3>1, <3>2
      <4> QED BY <3>3, <3>4, <4>1, <4>2 DEF Placed, InRange
    <3>6. p > off'
      BY <1>5, <2>1, <2>2, <2>3, <2>4, <3>1, <3>5
    <3>7. Wanted(k, current)'
      BY <1>2, <2>2, <2>8 DEF Wanted
    <3> QED BY <1>3, <3>1, <3>6, <3>7 DEF Ahead
  <2>9. ToCome'
    BY <1>2, <1>6, <1>11, <2>7, <2>8 DEF ToCome
  <2> QED BY <1>9, <1>10, <2>5, <2>6, <2>9 DEF Inv
<1> QED BY <1>12, <1>13

-----------------------------------------------------------------------------
(* The specification                                                       *)

(* The invariant holds before the call of eblob_iterate.                   *)
LEMMA InitHolds == Init => Inv
<1> SUFFICES ASSUME Init PROVE Inv
  OBVIOUS
<1>1. /\ ranges \in RangeSeqs /\ readonly \in BOOLEAN /\ index \in Indexes
      /\ \/ sorted = NoFile /\ blocks = <<>>
         \/ sorted = SortedByKey(index) /\ blocks = BlocksOf(sorted)
      /\ gone = {index[i].pos : i \in {j \in DOMAIN index : index[j].removed}}
      /\ pc = "idle" /\ fd = "index" /\ current = 0
      /\ off = 0 /\ batch = BatchSize /\ loc = [dc |-> <<>>, offset |-> 0]
      /\ visited = [k \in Keys |-> 0]
      /\ there = Live(index) /\ often = Many(index) /\ slipped = FALSE /\ moved = FALSE
  BY DEF Init
<1>2. index \in Seq(Entry) /\ Unique(index)
  BY <1>1, IndexesAssumption DEF Unique
<1>3. /\ \A i \in DOMAIN index : index[i] \in Entry /\ index[i].key \in Keys
      /\ DOMAIN index = 1 .. Len(index) /\ Len(index) \in Nat
  BY <1>2, EntryIs
<1>4. DOMAIN loc.dc = {} /\ loc.offset = 0 /\ Range(loc.dc) = {}
  <2>1. loc.dc = <<>> /\ loc.offset = 0
    BY <1>1
  <2> QED BY <2>1 DEF Range
<1>5. ASSUME sorted # NoFile
      PROVE  /\ sorted \in Seq(Entry) /\ Len(sorted) = Len(index) /\ Unique(sorted)
             /\ Live(sorted) = Live(index) /\ Range(sorted) = Range(index)
             /\ Neat(sorted)
             /\ \A b \in DOMAIN blocks :
                   /\ blocks[b].start \in Nat /\ blocks[b].start < Size
                   /\ blocks[b].end \in Nat /\ blocks[b].end <= Size
                   /\ blocks[b].start < blocks[b].end
  <2>1. sorted = SortedByKey(index) /\ blocks = BlocksOf(sorted)
    BY <1>1, <1>5
  <2>2. sorted \in Seq(Entry) /\ Len(sorted) = Len(index) /\ Unique(sorted)
    BY <1>2, <2>1, SortedFacts
  <2>3. Live(sorted) = Live(index) /\ Range(sorted) = Range(index)
    BY <1>2, <2>1, LiveSorted
  <2>4. Neat(sorted)
    BY <1>1, <2>1, NeatIs DEF Neat
  <2>5. Len(sorted) = Size
    BY <2>2 DEF Size
  <2> QED BY <2>1, <2>2, <2>3, <2>4, <2>5, BlocksAre
<1>6. sorted = NoFile => DOMAIN blocks = {}
  <2>1. SortedByKey(index) # NoFile
    BY <1>2, IndexesAssumption, SortedFacts
  <2> QED BY <1>1, <2>1
<1>7. InUse = (IF sorted = NoFile THEN index ELSE sorted) /\ Live(InUse) = Live(index)
  BY <1>5 DEF InUse
<1>8. /\ ranges \in Seq([lo : Nat, hi : Nat])
      /\ \A i, j \in DOMAIN ranges : i < j => ranges[i].hi < ranges[j].lo
      /\ \A i \in DOMAIN ranges : ranges[i].lo <= ranges[i].hi
  <2> DEFINE R == [lo : Nat, hi : Nat]
             P == {p \in [lo : Points, hi : Points] : p.lo <= p.hi}
  <2>1. PICK n \in 0 .. MaxRanges : ranges \in [1 .. n -> P]
    BY <1>1 DEF RangeSeqs
  <2>2. \A i, j \in DOMAIN ranges : i < j => ranges[i].hi < ranges[j].lo
    BY <1>1 DEF RangeSeqs
  <2>3. P \subseteq R /\ \A p \in P : p.lo <= p.hi
    BY KeysAssumption
  <2>4. n \in Nat
    BY BoundsAssumption
  <2> HIDE DEF P, R
  <2>5. \A i \in DOMAIN ranges : ranges[i] \in P
    BY <2>1
  <2>6. ranges \in Seq(R)
    BY <2>1, <2>3, <2>4
  <2> QED BY <2>2, <2>3, <2>5, <2>6 DEF R
<1>9. Types
  <2>1. current \in Nat /\ current <= Len(ranges)
    <3> DEFINE R == [lo : Nat, hi : Nat]
    <3>1. ranges \in Seq(R)
      BY <1>8
    <3> HIDE DEF R
    <3>2. Len(ranges) \in Nat
      BY <3>1
    <3> QED BY <1>1, <3>2
  <2>2. off \in Nat /\ off <= Size /\ batch \in Nat
    BY <1>1, <1>3, BoundsAssumption DEF Size
  <2>3. \A b \in DOMAIN blocks :
                   /\ blocks[b].start \in Nat /\ blocks[b].start < Size
                   /\ blocks[b].end \in Nat /\ blocks[b].end <= Size
                   /\ blocks[b].start < blocks[b].end
    BY <1>5, <1>6
  <2>4. visited \in [Keys -> Nat] /\ there \subseteq Keys
    BY <1>1, <1>3 DEF Live
  <2>5. pc \in States
    BY <1>1 DEF States
  <2> QED BY <1>1, <1>2, <1>4, <1>5, <1>8, <2>1, <2>2, <2>3, <2>4, <2>5 DEF Types
<1>10. Quiet
  <2>1. loc.offset + 1 .. off = {} /\ loc.offset <= off
    BY <1>1, <1>4
  <2> QED BY <1>1, <1>4, <1>8, <2>1 DEF Quiet
<1>11. Marks
  <2>1. Contents = Range(index)
    BY <1>4, <1>5 DEF Contents
  <2>2. \A x \in Contents : \E i \in DOMAIN index : x = index[i]
    BY <2>1 DEF Range
  <2>3. \A i, j \in DOMAIN index : index[i].pos = index[j].pos => i = j
    BY <1>1, IndexesAssumption
  <2>4. \A x, y \in Contents : x.pos = y.pos => x.key = y.key
    BY <2>2, <2>3
  <2>5. ASSUME NEW x \in Contents, ~x.removed, x.pos \in gone PROVE FALSE
    <3>1. PICK i \in DOMAIN index : x = index[i]
      BY <2>2
    <3>2. PICK j \in DOMAIN index : index[j].removed /\ x.pos = index[j].pos
      BY <1>1, <2>5
    <3> QED BY <2>3, <2>5, <3>1, <3>2
  <2> QED BY <2>4, <2>5 DEF Marks
<1>12. Once
  <2>1. File = index
    BY <1>1 DEF File
  <2>2. \A k \in Keys : visited[k] = 0
    BY <1>1
  <2> QED BY <1>2, <1>3, <1>4, <1>5, <2>1, <2>2 DEF Once
<1>13. Same
  BY <1>1 DEF Same
<1>14. Kept
  BY <1>1, <1>4, <1>7 DEF Kept
<1>15. ToCome
  BY <1>1, <1>5, <1>7 DEF ToCome, Batches
<1> QED BY <1>9, <1>10, <1>11, <1>12, <1>13, <1>14, <1>15 DEF Inv

(* Each step keeps the invariant.                                          *)
LEMMA InvStep == Inv /\ [Next]_vars => Inv'
<1> SUFFICES ASSUME Inv, [Next]_vars PROVE Inv'
  OBVIOUS
<1>1. CASE Begin
  BY <1>1, BeginKeeps
<1>2. CASE FillRangeOffsets
  BY <1>2, FillKeeps
<1>3. CASE ReadBatch
  BY <1>3, ReadKeeps
<1>4. CASE Hold \/ CallbackFails \/ Release \/ Finish
  BY <1>4, TurnsKeep
<1>5. CASE CheckDiskOne
  BY <1>5, CheckKeeps
<1>6. CASE IndexSort
  BY <1>6, SortKeeps
<1>7. CASE \E i \in DOMAIN index : RemoveRecord(i)
  BY <1>7, RemoveKeeps
<1>8. CASE UNCHANGED vars
  <2>1. UNCHANGED <<ranges, readonly, index, sorted, blocks, gone, pc, fd, offsets, current,
                    off, batch, loc, visited, removes, there, often, slipped, moved>>
    BY <1>8 DEF vars, call, files, iterator, observers
  <2>2. File' = File /\ InUse' = InUse /\ Size' = Size /\ Contents' = Contents
    BY <2>1 DEF File, InUse, Size, Contents
  <2>3. \A k, r : Wanted(k, r)' <=> Wanted(k, r)
    BY <2>1 DEF Wanted
  <2>4. \A k : (Held(k)' <=> Held(k)) /\ (Ahead(k)' <=> Ahead(k))
    BY <2>1, <2>2, <2>3 DEF Held, Ahead
  <2>5. (Placed' <=> Placed) /\ (Neat(sorted)' <=> Neat(sorted))
    BY <2>1, <2>2 DEF Placed, InRange, Neat, Tidy
  <2>6. Types' /\ Quiet' /\ Marks'
    BY <2>1, <2>2 DEF Inv, Types, Quiet, Marks
  <2>7. Once' /\ Same' /\ Kept'
    BY <2>1, <2>2 DEF Inv, Once, Same, Kept, Safe
  <2>8. ToCome'
    BY <2>1, <2>2, <2>3, <2>4, <2>5 DEF Inv, ToCome
  <2> QED BY <2>6, <2>7, <2>8 DEF Inv
<1> QED BY <1>1, <1>2, <1>3, <1>4, <1>5, <1>6, <1>7, <1>8 DEF Next, Step

(* Only the end of the loop of eblob_blob_iterator makes an iteration      *)
(* done, and nothing undoes its reason.                                    *)
LEMMA EndedStep == Inv /\ Ended /\ [Next]_vars => Ended'
<1> SUFFICES ASSUME Inv, Ended, [Next]_vars, pc' = "done"
             PROVE  off' >= Size' \/ Exhausted'
  BY DEF Ended
<1>0. index \in Seq(Entry)
  BY DEF Inv, Types
<1>1. ASSUME UNCHANGED <<ranges, offsets, current, off>>, Len(index') = Len(index),
             off >= Size \/ Exhausted
      PROVE  off' >= Size' \/ Exhausted'
  BY <1>1 DEF Size, Exhausted, NextRange, Passed
<1>2. CASE Finish
  BY <1>1, <1>2 DEF Finish, call, files
<1>3. CASE IndexSort
  BY <1>1, <1>3 DEF IndexSort, call, iterator, Ended
<1>4. CASE \E i \in DOMAIN index : RemoveRecord(i)
  <2>1. PICK i \in DOMAIN index : RemoveRecord(i)
    BY <1>4
  <2>2. UNCHANGED <<ranges, pc, offsets, current, off>>
    BY <2>1 DEF RemoveRecord, call, iterator
  <2>3. index' = index \/ index' = [index EXCEPT ![i].removed = TRUE]
    BY <2>1 DEF RemoveRecord
  <2>4. Len(index') = Len(index)
    BY <1>0, <2>3
  <2> QED BY <1>1, <2>2, <2>4 DEF Ended
<1>5. CASE UNCHANGED vars
  BY <1>1, <1>5 DEF vars, call, files, iterator, Ended
<1>6. CASE Begin \/ FillRangeOffsets \/ ReadBatch \/ Hold \/ CallbackFails \/ Release
  BY <1>6 DEF Begin, FillRangeOffsets, ReadBatch, Hold, CallbackFails, Release
<1>7. CASE CheckDiskOne
  BY <1>7 DEF CheckDiskOne
<1> QED BY <1>2, <1>3, <1>4, <1>5, <1>6, <1>7 DEF Next, Step

(* The inductive invariant holds in every reachable state, for every       *)
(* index, every list of ranges and every size of batches and blocks.       *)
THEOREM IteratorInvariant == Spec => [](Inv /\ Ended)
<1>1. Init => Inv /\ Ended
  BY InitHolds DEF Init, Ended
<1> QED BY <1>1, InvStep, EndedStep, PTL DEF Spec

(* eblob_iterate passes on every record in its ranges that is there from   *)
(* the beginning to the end, though keys are removed and the index is      *)
(* sorted meanwhile; unless the sort comes between index_fd and the        *)
(* offsets of the ranges, or the key has more than two entries in the      *)
(* base.                                                                   *)
THEOREM IterationsAreComplete == Spec => []Complete
<1>1. Inv /\ Ended => Complete
  <2> SUFFICES ASSUME Inv, Ended, pc = "done", ~slipped, NEW k \in there \ often, Wanted(k, 1)
               PROVE  visited[k] > 0
    BY DEF Complete
  <2>0. Types /\ Quiet /\ ToCome
    BY DEF Inv
  <2>1. visited[k] > 0 \/ Ahead(k)
    <3>1. ~Held(k)
      BY <2>0 DEF Quiet, Held
    <3> QED BY <2>0, <3>1 DEF ToCome, Batches
  <2>2. ASSUME Ahead(k) PROVE FALSE
    <3>1. PICK p \in DOMAIN File : p > off /\ File[p].key = k /\ ~File[p].removed
      BY <2>2 DEF Ahead
    <3>2. p \in Nat /\ p <= Size /\ Size \in Nat /\ off \in Nat /\ current \in Nat
          /\ current <= Len(ranges)
      BY <2>0, <3>1, FileIs DEF Types
    <3>3. Exhausted
      BY <3>1, <3>2 DEF Ended
    <3>4. DOMAIN ranges = 1 .. Len(ranges) /\ Len(ranges) \in Nat
      <4> DEFINE R == [lo : Nat, hi : Nat]
      <4>1. ranges \in Seq(R)
        BY <2>0 DEF Types
      <4> HIDE DEF R
      <4> QED BY <4>1
    <3> DEFINE S == {i \in DOMAIN ranges : i > current /\ ~Passed(i)} \cup {Len(ranges) + 1}
    <3>5. current # 0 /\ Passed(current) /\ NextRange = Min(S)
      <4>1. NextRange # current
        BY <3>2, <3>3, <3>4 DEF Exhausted
      <4> QED BY <4>1 DEF NextRange
    <3>6. \A i \in DOMAIN ranges : i >= current => Passed(i)
      <4> SUFFICES ASSUME NEW i \in DOMAIN ranges, i >= current, ~Passed(i) PROVE FALSE
        OBVIOUS
      <4>1. i > current
        BY <3>2, <3>4, <3>5
      <4>2. i \in S
        BY <4>1
      <4>3. S \subseteq Nat /\ S # {}
        BY <3>4
      <4>4. Min(S) <= i
        <5> HIDE DEF S
        <5> QED BY <4>2, <4>3, MinOf
      <4>5. Min(S) > Len(ranges) /\ Min(S) \in Nat
        <5>1. Min(S) > Len(ranges)
          BY <3>3, <3>5 DEF Exhausted
        <5>2. Min(S) \in Nat
          <6> HIDE DEF S
          <6> QED BY <4>3, MinOf
        <5> QED BY <5>1, <5>2
      <4> HIDE DEF S
      <4> QED BY <3>4, <4>4, <4>5
    <3>7. PICK i \in DOMAIN ranges : i >= current /\ InRange(k, i)
      <4>1. ranges # <<>>
        BY <3>2, <3>4, <3>5
      <4> QED BY <2>2, <4>1 DEF Ahead, Wanted, InRange
    <3>8. p <= offsets[i].end + 1
      BY <2>0, <3>1, <3>5, <3>7 DEF ToCome, Placed, Batches
    <3>9. off > offsets[i].end /\ offsets[i].end \in Nat
      BY <2>0, <3>5, <3>6, <3>7 DEF Passed, Types
    <3> QED BY <3>1, <3>2, <3>8, <3>9
  <2> QED BY <2>1, <2>2
<1> QED BY <1>1, IteratorInvariant, PTL

(* Without ranges, or with one, eblob_iterate passes no record on twice.   *)
THEOREM RecordsVisitedOnce == Spec => []VisitedOnce
<1>1. Inv => VisitedOnce
  BY DEF Inv, Once, VisitedOnce
<1> QED BY <1>1, IteratorInvariant, PTL

(* What eblob_check_disk_one writes to an index that is not filtered by    *)
(* ranges, and still in use, takes the entry of no other key away.         *)
THEOREM EntriesAreKept == Spec => []EntriesKept
<1>1. Inv => EntriesKept
  BY DEF Inv, Kept, Safe, EntriesKept
<1> QED BY <1>1, IteratorInvariant, PTL
=============================================================================
