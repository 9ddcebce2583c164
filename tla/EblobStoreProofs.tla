-------------------------- MODULE EblobStoreProofs --------------------------
(***************************************************************************)
(* Proofs about EblobStore, for every set of keys and values and every     *)
(* bound.  Types alone are not inductive: reading the payload of an old    *)
(* record, for instance, gives a payload only if the offset kept since the *)
(* lookup is inside the file.  So types are proved together with           *)
(* LocsInBounds, and that with SortsOldBases, which says why an index that *)
(* was read before other writes may replace the index in use.              *)
(*                                                                         *)
(* The argument: the files of an open base never get shorter (FilesGrow),  *)
(* a closed base is never opened again under the same number, and every    *)
(* location a step hands out is inside the files at that time.             *)
(***************************************************************************)
EXTENDS EblobStore, FiniteSetTheorems, SequenceTheorems, TLAPS

-----------------------------------------------------------------------------
(* Files as functions from bases to sequences. *)

(* A function on 1..n is a sequence of length n.                           *)
LEMMA FunctionIsSeq ==
    ASSUME NEW S, NEW n \in Nat, NEW f \in [1 .. n -> S]
    PROVE  f \in Seq(S) /\ Len(f) = n /\ DOMAIN f = 1 .. n
<1>1. f \in Seq(S)
    BY SeqDef
<1> QED
    BY <1>1, LenProperties

(* Writing one slot of one file (a pwrite of one header) keeps the type    *)
(* and the length of every file and the other slots.                       *)
LEMMA SlotSet ==
    ASSUME NEW S, NEW F \in [Bases -> Seq(S)], NEW b \in Bases, NEW i, NEW e,
           i \in DOMAIN F[b] => e \in S
    PROVE  LET G == [F EXCEPT ![b][i] = e]
           IN /\ G \in [Bases -> Seq(S)]
              /\ \A c \in Bases : DOMAIN G[c] = DOMAIN F[c]
              /\ \A c \in Bases : \A j \in DOMAIN F[c] :
                    G[c][j] = IF c = b /\ j = i THEN e ELSE F[c][j]
<1> DEFINE g == [F[b] EXCEPT ![i] = e]
           G == [F EXCEPT ![b] = g]
<1>1. /\ F[b] \in Seq(S) /\ F[b] \in [1 .. Len(F[b]) -> S]
      /\ DOMAIN F[b] = 1 .. Len(F[b]) /\ Len(F[b]) \in Nat
    BY LenProperties
<1>2. g \in [1 .. Len(F[b]) -> S]
    <2> DEFINE n == Len(F[b])
               f == F[b]
    <2>1. f \in [1 .. n -> S] /\ (i \in 1 .. n => e \in S)
        BY <1>1
    <2> HIDE DEF n, f
    <2>2. [f EXCEPT ![i] = e] \in [1 .. n -> S]
        BY <2>1
    <2> QED
        BY <2>2 DEF n, f
<1>3. g \in Seq(S) /\ DOMAIN g = DOMAIN F[b]
    BY <1>1, <1>2, FunctionIsSeq
<1>4. \A c \in Bases : G[c] = IF c = b THEN g ELSE F[c]
    OBVIOUS
<1>5. G \in [Bases -> Seq(S)]
    BY <1>3
<1>6. \A c \in Bases : DOMAIN G[c] = DOMAIN F[c]
    BY <1>3, <1>4
<1>7. \A c \in Bases : \A j \in DOMAIN F[c] :
         G[c][j] = IF c = b /\ j = i THEN e ELSE F[c][j]
    BY <1>4
<1> QED
    BY <1>5, <1>6, <1>7

(* Appending one slot to one file (a reserved record) keeps the type of    *)
(* all files and the slots they had.                                       *)
LEMMA SlotAppended ==
    ASSUME NEW S, NEW F \in [Bases -> Seq(S)], NEW b \in Bases, NEW e \in S,
           NEW G, G = [F EXCEPT ![b] = Append(@, e)]
    PROVE  /\ G \in [Bases -> Seq(S)]
           /\ \A c \in Bases : DOMAIN F[c] \subseteq DOMAIN G[c]
           /\ \A c \in Bases : \A j \in DOMAIN F[c] : G[c][j] = F[c][j]
           /\ DOMAIN G[b] = 1 .. (Len(F[b]) + 1)
           /\ G[b][Len(F[b]) + 1] = e
           /\ \A c \in Bases \ {b} : G[c] = F[c]
<1> DEFINE g == Append(F[b], e)
<1>1. F[b] \in Seq(S) /\ DOMAIN F[b] = 1 .. Len(F[b]) /\ Len(F[b]) \in Nat
    BY LenProperties
<1>2. /\ g \in Seq(S) /\ Len(g) = Len(F[b]) + 1
      /\ DOMAIN g = 1 .. (Len(F[b]) + 1)
      /\ \A j \in 1 .. Len(F[b]) : g[j] = F[b][j]
      /\ g[Len(F[b]) + 1] = e
    BY <1>1, AppendProperties, LenProperties
<1>3. \A c \in Bases : G[c] = IF c = b THEN g ELSE F[c]
    OBVIOUS
<1>4. G \in [Bases -> Seq(S)]
    BY <1>2
<1> QED
    BY <1>1, <1>2, <1>3, <1>4

(* eblob_mark_index_removed changes no length and no data offset.          *)
LEMMA IndexMarkedKeeps ==
    ASSUME NEW idx \in [Bases -> Seq(Entry)], NEW l \in Loc
    PROVE  /\ IndexMarked(idx, l) \in [Bases -> Seq(Entry)]
           /\ \A c \in Bases : DOMAIN IndexMarked(idx, l)[c] = DOMAIN idx[c]
           /\ \A c \in Bases : \A j \in DOMAIN idx[c] :
                 IndexMarked(idx, l)[c][j].pos = idx[c][j].pos
<1> DEFINE e == [idx[l.base][l.ip] EXCEPT !.flag = "removed"]
<1>1. l.base \in Bases
    BY DEF Loc
<1>2. ASSUME l.ip \in DOMAIN idx[l.base]
      PROVE  e \in Entry /\ e.pos = idx[l.base][l.ip].pos
    <2>1. idx[l.base][l.ip] \in Entry
        BY <1>1, <1>2, LenProperties, ElementOfSeq
    <2> QED
        BY <2>1 DEF Entry, Flags
<1>3. IndexMarked(idx, l) = [idx EXCEPT ![l.base][l.ip] = e]
    BY DEF IndexMarked
<1>4. l.ip \in DOMAIN idx[l.base] => e \in Entry
    BY <1>2
<1> HIDE DEF e
<1> DEFINE G == [idx EXCEPT ![l.base][l.ip] = e]
<1>5. /\ G \in [Bases -> Seq(Entry)]
      /\ \A c \in Bases : DOMAIN G[c] = DOMAIN idx[c]
      /\ \A c \in Bases : \A j \in DOMAIN idx[c] :
            G[c][j] = IF c = l.base /\ j = l.ip THEN e ELSE idx[c][j]
    BY <1>1, <1>4, SlotSet, Zenon
<1> QED
    BY <1>2, <1>3, <1>5

(* Marking a header in the data file changes no length.                    *)
LEMMA DataMarkedKeeps ==
    ASSUME NEW dat \in [Bases -> Seq(Record)], NEW l \in Loc
    PROVE  /\ DataMarked(dat, l) \in [Bases -> Seq(Record)]
           /\ \A c \in Bases : DOMAIN DataMarked(dat, l)[c] = DOMAIN dat[c]
<1> DEFINE e == [dat[l.base][l.dp] EXCEPT !.flag = "removed"]
<1>1. l.base \in Bases
    BY DEF Loc
<1>2. ASSUME l.dp \in DOMAIN dat[l.base]
      PROVE  e \in Record
    <2>1. dat[l.base][l.dp] \in Record
        BY <1>1, <1>2, LenProperties, ElementOfSeq
    <2> QED
        BY <2>1 DEF Record, Flags
<1>3. DataMarked(dat, l) = [dat EXCEPT ![l.base][l.dp] = e]
    BY DEF DataMarked
<1>4. l.dp \in DOMAIN dat[l.base] => e \in Record
    BY <1>2
<1> HIDE DEF e
<1> DEFINE G == [dat EXCEPT ![l.base][l.dp] = e]
<1>5. /\ G \in [Bases -> Seq(Record)]
      /\ \A c \in Bases : DOMAIN G[c] = DOMAIN dat[c]
    BY <1>1, <1>4, SlotSet, Zenon
<1> QED
    BY <1>3, <1>5

(* SlotSet for a slot value that has its type anyway.                      *)
LEMMA SlotCommitted ==
    ASSUME NEW S, NEW F \in [Bases -> Seq(S)], NEW b \in Bases, NEW i, NEW e \in S,
           NEW G, G = [F EXCEPT ![b][i] = e]
    PROVE  /\ G \in [Bases -> Seq(S)]
           /\ \A c \in Bases : DOMAIN G[c] = DOMAIN F[c]
           /\ \A c \in Bases : \A j \in DOMAIN F[c] :
                 G[c][j] = IF c = b /\ j = i THEN e ELSE F[c][j]
BY SlotSet, ZenonT(40)

-----------------------------------------------------------------------------
(* The inductive invariant, in four parts: the files, the locations held,  *)
(* the sort, and the observers.                                            *)

DiskInv ==
    /\ bases \in SUBSET Bases /\ born \in 0 .. MaxBases
    /\ sorted \in SUBSET Bases
    /\ place \in [Bases -> Nat]
    /\ index \in [Bases -> Seq(Entry)]
    /\ data \in [Bases -> Seq(Record)]
    /\ gone \in [Bases -> Nat]
    /\ logging \in SUBSET Bases /\ logged \in [Bases -> SUBSET Keys]
    /\ bases \subseteq 1 .. born
    /\ \A b \in Bases : \A i \in DOMAIN index[b] :
          index[b][i].pos \in DOMAIN data[b]

HeldInv ==
    /\ cache \in [Keys -> Loc \cup {NoLoc}]
    /\ op \in [Keys -> Op]
    /\ \A k \in Keys : /\ cache[k] # NoLoc => Within(cache[k])
                       /\ op[k].old # NoLoc => Within(op[k].old)
                       /\ op[k].new # NoLoc => Within(op[k].new)
                       /\ Holds(op[k])

SortInv ==
    /\ job \in {"none", "indexsort", "datasort"}
    /\ group \in SUBSET Bases /\ left \in SUBSET Bases
    /\ snap \in Seq(Entry)
    /\ chunk \in SUBSET Chunk /\ IsFiniteSet(chunk)
    /\ SortsOldBases

PromiseInv ==
    /\ failures \in 0 .. MaxFailures /\ calls \in 0 .. MaxOps
    /\ shadow \in [Keys -> Payload]
    /\ status \in [Keys -> {"absent", "visible", "hidden", "dirty"}]
    /\ failed \in SUBSET Keys /\ torn \in SUBSET Keys /\ crossed \in BOOLEAN

IndInv == DiskInv /\ HeldInv /\ SortInv /\ PromiseInv

ShortInv == short \in SUBSET Bases

(* With the type of short, on which nothing else depends, the inductive    *)
(* invariant is exactly the three invariants TLC checks.                   *)
LEMMA IndInvMeaning ==
    IndInv /\ ShortInv <=> TypeOK /\ LocsInBounds /\ SortsOldBases
BY DEF IndInv, ShortInv, DiskInv, HeldInv, SortInv, PromiseInv, TypeOK, LocsInBounds

-----------------------------------------------------------------------------
(* Files only grow, as long as they are open. *)

FilesGrow ==
    /\ born <= born'
    /\ \A b \in 1 .. born : b \in bases' =>
          /\ b \in bases
          /\ DOMAIN index[b] \subseteq DOMAIN index'[b]
          /\ DOMAIN data[b] \subseteq DOMAIN data'[b]

WithinNext(l) ==
    /\ l.base <= born'
    /\ l.base \in bases' => /\ l.ip \in DOMAIN index'[l.base]
                            /\ l.dp \in DOMAIN data'[l.base]

(* When files only grow, a location that was inside its base stays inside; *)
(* so only the locations a step hands out need an argument.                *)
LEMMA HeldKeeps ==
    ASSUME DiskInv, HeldInv, DiskInv', FilesGrow,
           cache' \in [Keys -> Loc \cup {NoLoc}], op' \in [Keys -> Op],
           \A k \in Keys :
              /\ cache'[k] \in {cache[k], NoLoc} \/ WithinNext(cache'[k])
              /\ op'[k].old \in {op[k].old, NoLoc} \/ WithinNext(op'[k].old)
              /\ op'[k].new \in {op[k].new, NoLoc} \/ WithinNext(op'[k].new)
              /\ Holds(op'[k])
    PROVE  HeldInv'
<1>1. ASSUME NEW l \in Loc, l.base <= born,
             l.base \in bases => /\ l.ip \in DOMAIN index[l.base]
                                 /\ l.dp \in DOMAIN data[l.base]
      PROVE  WithinNext(l)
    <2>1. l.base \in 1 .. born /\ born \in Nat /\ born' \in Nat
        BY <1>1, BoundsAssumption DEF Loc, Bases, DiskInv
    <2> QED
        BY <1>1, <2>1 DEF FilesGrow, WithinNext
<1>2. ASSUME NEW k \in Keys
      PROVE  /\ cache'[k] # NoLoc => WithinNext(cache'[k])
             /\ op'[k].old # NoLoc => WithinNext(op'[k].old)
             /\ op'[k].new # NoLoc => WithinNext(op'[k].new)
    <2>1. /\ cache[k] \in Loc \cup {NoLoc}
          /\ op[k].old \in Loc \cup {NoLoc} /\ op[k].new \in Loc \cup {NoLoc}
        BY DEF HeldInv, Op
    <2> QED
        BY <1>1, <2>1 DEF HeldInv, Within
<1> QED
    BY <1>2 DEF HeldInv, Within, WithinNext, Holds

(* A step that leaves the sort alone and the lengths of its bases, and     *)
(* that only adds bases, keeps what the sort relies on.                    *)
LEMMA SortKeeps ==
    ASSUME DiskInv, SortInv, DiskInv', UNCHANGED defrag,
           bases \subseteq bases', \A b \in bases : place'[b] = place[b],
           \A b \in group : /\ DOMAIN index'[b] = DOMAIN index[b]
                            /\ DOMAIN data[b] \subseteq DOMAIN data'[b]
    PROVE  SortInv'
<1>1. group \subseteq NotLast'
    BY DEF SortInv, SortsOldBases, NotLast, defrag
<1> QED
    BY <1>1 DEF SortInv, SortsOldBases, defrag

(* What a location inside its base is read to is an entry and a record.    *)
LEMMA LocRead ==
    ASSUME DiskInv, NEW l \in Loc, l.base \in bases,
           l.ip \in DOMAIN index[l.base], l.dp \in DOMAIN data[l.base]
    PROVE  index[l.base][l.ip] \in Entry /\ data[l.base][l.dp] \in Record
<1>1. l.base \in Bases /\ index[l.base] \in Seq(Entry) /\ data[l.base] \in Seq(Record)
    BY DEF Loc, DiskInv
<1> QED
    BY <1>1, LenProperties, ElementOfSeq

(* eblob_cache_lookup returns locations inside their bases, from the hash  *)
(* and from eblob_disk_index_lookup alike.                                 *)
LEMMA FoundWithin ==
    ASSUME DiskInv, HeldInv, NEW k \in Keys, NEW l \in Found(k)
    PROVE  l \in Loc /\ Within(l)
<1>1. CASE cache[k] # NoLoc
    BY <1>1 DEF Found, HeldInv
<1>2. CASE cache[k] = NoLoc
    <2>1. PICK h \in Hits(index, k, bases \cap sorted) : l = LocOf(index, h)
        BY <1>2 DEF Found, DiskLookup
    <2>2. PICK b \in bases : \E i \in DOMAIN index[b] : h = <<b, i>>
        BY <2>1 DEF Hits
    <2>3. PICK i \in DOMAIN index[b] : h = <<b, i>>
        BY <2>2
    <2>4. /\ b \in Bases /\ index[b] \in Seq(Entry) /\ b \in 1 .. born
          /\ index[b][i].pos \in DOMAIN data[b]
        BY DEF DiskInv
    <2>5. DOMAIN index[b] = 1 .. Len(index[b]) /\ Len(index[b]) \in Nat
        BY <2>4, LenProperties
    <2>6. index[b][i] \in Entry /\ i \in Nat
        BY <2>4, <2>5, ElementOfSeq
    <2>7. l = [base |-> b, ip |-> i, dp |-> index[b][i].pos]
        BY <2>1, <2>3 DEF LocOf
    <2> QED
        BY <2>4, <2>6, <2>7, <2>3 DEF Loc, Entry, Within
<1> QED
    BY <1>1, <1>2

-----------------------------------------------------------------------------
(* Reserving a slot at the end of the last base. *)

(* The slot eblob_write_prepare_disk_ll reserves is the first free one of  *)
(* the last base or of a base added for it.                                *)
LEMMA NewLocFree ==
    ASSUME DiskInv, NEW l \in NewLocs
    PROVE  /\ l \in Loc /\ l.base \notin NotLast
           /\ l.ip = Len(index[l.base]) + 1 /\ l.dp = Len(data[l.base]) + 1
           /\ IF NeedsNewBase THEN l.base = born + 1 ELSE l.base \in bases
<1>1. PICK b \in IF NeedsNewBase THEN {born + 1} \cap Bases ELSE bases \ NotLast :
         l = [base |-> b, ip |-> Len(index[b]) + 1, dp |-> Len(data[b]) + 1]
    BY DEF NewLocs
<1>2. b \in Bases /\ b \notin NotLast
    BY <1>1 DEF DiskInv, NotLast
<1>3. Len(index[b]) \in Nat /\ Len(data[b]) \in Nat
    <2>1. index[b] \in Seq(Entry) /\ data[b] \in Seq(Record)
        BY <1>2 DEF DiskInv
    <2> QED
        BY <2>1, LenProperties
<1>4. IF NeedsNewBase THEN b = born + 1 ELSE b \in bases
    BY <1>1
<1> QED
    BY <1>1, <1>2, <1>3, <1>4 DEF Loc

(* The binlog keeps its type when a key is appended.                       *)
LEMMA BinlogAppendType ==
    ASSUME DiskInv, NEW k \in Keys, NEW l \in Loc
    PROVE  BinlogAppend(k, l) \in [Bases -> SUBSET Keys]
BY DEF DiskInv, BinlogAppend, Loc

(* RECORDS_REMOVED stays a natural number when it is incremented.          *)
LEMMA CountMarkedType ==
    ASSUME DiskInv, NEW l \in Loc
    PROVE  CountMarked(l) \in [Bases -> Nat]
<1>1. l.base \in Bases /\ gone \in [Bases -> Nat]
    BY DEF Loc, DiskInv
<1> QED
    BY <1>1 DEF CountMarked

(* eblob_write_prepare_disk_ll keeps the files well-formed, hands out a    *)
(* location inside them, and touches the length of no base but the last.   *)
LEMMA PrepareDiskLLKeeps ==
    ASSUME DiskInv, NEW k \in Keys, NEW l \in NewLocs, NEW old \in Loc \cup {NoLoc},
           NEW f \in Flags, NEW p \in Payload,
           PrepareDiskLL(k, l, old, f, p)
    PROVE  /\ DiskInv' /\ FilesGrow /\ l \in Loc /\ WithinNext(l)
           /\ bases \subseteq bases' /\ \A b \in bases : place'[b] = place[b]
           /\ \A b \in NotLast : /\ DOMAIN index'[b] = DOMAIN index[b]
                                 /\ DOMAIN data[b] \subseteq DOMAIN data'[b]
<1> DEFINE e == [key |-> k, flag |-> f, pos |-> l.dp]
           r == [key |-> k, flag |-> f, val |-> p]
           idx == [index EXCEPT ![l.base] = Append(@, e)]
           dat == [data EXCEPT ![l.base] = Append(@, r)]
<1>1. /\ l \in Loc /\ l.base \notin NotLast /\ l.base \in Bases
      /\ l.ip = Len(index[l.base]) + 1 /\ l.dp = Len(data[l.base]) + 1
      /\ IF NeedsNewBase THEN l.base = born + 1 ELSE l.base \in bases
    BY NewLocFree DEF Loc
<1>2. e \in Entry /\ r \in Record
    BY <1>1 DEF Entry, Record, Loc
<1>3. index \in [Bases -> Seq(Entry)] /\ data \in [Bases -> Seq(Record)]
    BY DEF DiskInv
<1>4. /\ idx \in [Bases -> Seq(Entry)]
      /\ \A c \in Bases : DOMAIN index[c] \subseteq DOMAIN idx[c]
      /\ \A c \in Bases : \A j \in DOMAIN index[c] : idx[c][j] = index[c][j]
      /\ DOMAIN idx[l.base] = 1 .. (Len(index[l.base]) + 1)
      /\ idx[l.base][Len(index[l.base]) + 1] = e
      /\ \A c \in Bases \ {l.base} : idx[c] = index[c]
    BY <1>1, <1>2, <1>3, SlotAppended
<1>5. /\ dat \in [Bases -> Seq(Record)]
      /\ \A c \in Bases : DOMAIN data[c] \subseteq DOMAIN dat[c]
      /\ DOMAIN dat[l.base] = 1 .. (Len(data[l.base]) + 1)
      /\ \A c \in Bases \ {l.base} : dat[c] = data[c]
    BY <1>1, <1>2, <1>3, SlotAppended
<1>6. /\ index' = IF old = NoLoc THEN idx ELSE IndexMarked(idx, old)
      /\ data' = IF old = NoLoc THEN dat ELSE DataMarked(dat, old)
      /\ logged' = IF old = NoLoc THEN logged ELSE BinlogAppend(k, old)
      /\ gone' = IF old = NoLoc THEN gone ELSE CountMarked(old)
      /\ AddNewBase /\ sorted' = sorted /\ logging' = logging
    BY Zenon DEF PrepareDiskLL
<1>7. e.pos = Len(data[l.base]) + 1 /\ Len(data[l.base]) \in Nat
    BY <1>1, <1>3, LenProperties
<1> HIDE DEF idx, dat, e, r
<1>8. /\ index' \in [Bases -> Seq(Entry)]
      /\ \A c \in Bases : DOMAIN index'[c] = DOMAIN idx[c]
      /\ \A c \in Bases : \A j \in DOMAIN idx[c] : index'[c][j].pos = idx[c][j].pos
    BY <1>4, <1>6, IndexMarkedKeeps
<1>9. /\ data' \in [Bases -> Seq(Record)]
      /\ \A c \in Bases : DOMAIN data'[c] = DOMAIN dat[c]
    BY <1>5, <1>6, DataMarkedKeeps
<1>10. logged' \in [Bases -> SUBSET Keys] /\ gone' \in [Bases -> Nat]
    BY <1>6, BinlogAppendType, CountMarkedType DEF DiskInv
<1>11. /\ born' \in 0 .. MaxBases /\ born <= born'
       /\ bases' \in SUBSET Bases /\ bases' \subseteq 1 .. born'
       /\ bases' = bases \cup {l.base} /\ l.base \in 1 .. born'
       /\ place' \in [Bases -> Nat] /\ \A b \in bases : place'[b] = place[b]
       /\ \A b \in bases' : b \in 1 .. born => b \in bases
    <2>1. /\ born \in 0 .. MaxBases /\ bases \in SUBSET (1 .. MaxBases)
          /\ bases \subseteq 1 .. born /\ place \in [Bases -> Nat]
        BY DEF DiskInv, Bases
    <2>2. CASE NeedsNewBase
        <3>1. /\ born' = born + 1 /\ born < MaxBases /\ l.base = born + 1
              /\ bases' = bases \cup {born + 1}
              /\ place' = [place EXCEPT ![born + 1] = born + 1]
            BY <1>1, <1>6, <2>2 DEF AddNewBase
        <3>2. born + 1 \in Nat /\ born + 1 \notin bases /\ bases \subseteq Bases
            BY <2>1 DEF Bases
        <3>3. place' \in [Bases -> Nat] /\ \A b \in bases : place'[b] = place[b]
            BY <3>1, <3>2, <2>1
        <3> QED
            BY <3>1, <3>3, <2>1, BoundsAssumption DEF Bases
    <2>3. CASE ~NeedsNewBase
        <3>1. born' = born /\ bases' = bases /\ place' = place /\ l.base \in bases
            BY <1>1, <1>6, <2>3 DEF AddNewBase
        <3>2. bases = bases \cup {l.base}
            BY <3>1, Zenon
        <3>3. bases \in SUBSET Bases
            BY <2>1 DEF Bases
        <3>4. l.base \in 1 .. born
            BY <3>1, <2>1
        <3>5. born <= born
            BY <2>1, BoundsAssumption
        <3> QED
            BY <3>1, <3>2, <3>3, <3>4, <3>5, <2>1
    <2> QED
        BY <2>2, <2>3
<1>13. \A b \in Bases : \A i \in DOMAIN index'[b] : index'[b][i].pos \in DOMAIN data'[b]
    <2> SUFFICES ASSUME NEW b \in Bases, NEW i \in DOMAIN index'[b]
                 PROVE  index'[b][i].pos \in DOMAIN data'[b]
        OBVIOUS
    <2>1. /\ i \in DOMAIN idx[b] /\ index'[b][i].pos = idx[b][i].pos
          /\ DOMAIN data'[b] = DOMAIN dat[b]
        BY <1>8, <1>9
    <2>2. CASE i \in DOMAIN index[b]
        BY <2>1, <2>2, <1>4, <1>5 DEF DiskInv
    <2>3. CASE i \notin DOMAIN index[b]
        <3>1. b = l.base
            BY <2>1, <2>3, <1>4
        <3>2. DOMAIN index[b] = 1 .. Len(index[b]) /\ Len(index[b]) \in Nat
            BY <1>3, LenProperties
        <3>3. i = Len(index[b]) + 1
            BY <2>1, <2>3, <3>1, <3>2, <1>4
        <3> QED
            BY <2>1, <3>1, <3>3, <1>4, <1>5, <1>7
    <2> QED
        BY <2>2, <2>3
<1>14. DiskInv'
    BY <1>6, <1>8, <1>9, <1>10, <1>11, <1>13 DEF DiskInv
<1>15. FilesGrow
    BY <1>4, <1>5, <1>8, <1>9, <1>11 DEF FilesGrow, DiskInv, Bases
<1>16. WithinNext(l)
    <2>1. DOMAIN index'[l.base] = 1 .. l.ip /\ DOMAIN data'[l.base] = 1 .. l.dp
        BY <1>1, <1>4, <1>5, <1>8, <1>9
    <2>2. l.ip \in 1 .. l.ip /\ l.dp \in 1 .. l.dp
        <3>1. Len(index[l.base]) \in Nat /\ Len(data[l.base]) \in Nat
            BY <1>1, <1>3, LenProperties
        <3> QED
            BY <3>1, <1>1
    <2> QED
        BY <2>1, <2>2, <1>11 DEF WithinNext
<1>17. \A b \in NotLast : /\ DOMAIN index'[b] = DOMAIN index[b]
                          /\ DOMAIN data[b] \subseteq DOMAIN data'[b]
    BY <1>1, <1>4, <1>5, <1>8, <1>9 DEF NotLast, DiskInv
<1> QED
    BY <1>1, <1>11, <1>14, <1>15, <1>16, <1>17

-----------------------------------------------------------------------------
(* What most actions share. *)

(* A step that changes no file length keeps every location and the sort.   *)
LEMMA SameFilesKeep ==
    ASSUME IndInv, DiskInv', UNCHANGED <<bases, place, born>>,
           \A b \in Bases : /\ DOMAIN index'[b] = DOMAIN index[b]
                            /\ DOMAIN data'[b] = DOMAIN data[b]
    PROVE  FilesGrow /\ (UNCHANGED defrag => SortInv')
<1>1. FilesGrow
    BY BoundsAssumption DEF IndInv, DiskInv, FilesGrow, Bases
<1>2. ASSUME UNCHANGED defrag
      PROVE  SortInv'
    <2>1. group \subseteq Bases
        BY DEF IndInv, SortInv
    <2> QED
        BY <1>2, <2>1, SortKeeps DEF IndInv
<1> QED
    BY <1>1, <1>2

(* A step that does not touch the files keeps them.                        *)
LEMMA QuietDisk ==
    ASSUME IndInv, UNCHANGED disk,
           logging' \in SUBSET Bases, logged' \in [Bases -> SUBSET Keys]
    PROVE  DiskInv' /\ FilesGrow /\ (UNCHANGED defrag => SortInv')
<1>1. DiskInv'
    BY DEF IndInv, DiskInv, disk
<1> QED
    BY <1>1, SameFilesKeep DEF disk

(* Unchanged binlogs keep their type.                                      *)
LEMMA BinlogType ==
    ASSUME IndInv, UNCHANGED binlog
    PROVE  logging' \in SUBSET Bases /\ logged' \in [Bases -> SUBSET Keys]
BY DEF IndInv, DiskInv, binlog

(* A client call is counted within its bound.                              *)
LEMMA CallCounts ==
    ASSUME PromiseInv, NEW k \in Keys, Call(k)
    PROVE  calls' \in 0 .. MaxOps
BY BoundsAssumption DEF PromiseInv, Call

(* Full and partial writes leave a payload.                                *)
LEMMA PayloadTypes ==
    /\ Junk \in Payload
    /\ \A p \in Payload, v \in Vals : Patched(p, v) \in Payload
    /\ \A p \in Payload, v \in Vals \cup {Blank}, wr \in Kinds :
          Written(wr, p, v) \in Payload
BY DEF Junk, Payload, Patched, Written, Full, Kinds

(* So does what the client expects them to leave.                          *)
LEMMA ExpectedType ==
    ASSUME PromiseInv, NEW k \in Keys, NEW wr \in Kinds, NEW v \in Vals \cup {Blank}
    PROVE  Expected(k, wr, v) \in Payload
BY PayloadTypes DEF PromiseInv, Expected

(* Recording a promise keeps the types of the observers.                   *)
LEMMA PromiseKeeps ==
    ASSUME PromiseInv, NEW k \in Keys,
           NEW s \in {"absent", "visible", "hidden", "dirty"}, NEW p \in Payload,
           Promise(k, s, p), failures' \in 0 .. MaxFailures, calls' \in 0 .. MaxOps
    PROVE  PromiseInv'
BY DEF PromiseInv, Promise

(* Replacing the operation in flight of one key by one whose locations are *)
(* in place keeps all the locations.                                       *)
LEMMA OpKeeps ==
    ASSUME IndInv, DiskInv', FilesGrow, NEW k \in Keys, NEW o \in Op,
           op' = [op EXCEPT ![k] = o],
           o.old \in {op[k].old, NoLoc} \/ WithinNext(o.old),
           o.new \in {op[k].new, NoLoc} \/ WithinNext(o.new),
           Holds(o), cache' = cache
    PROVE  HeldInv'
<1>1. op \in [Keys -> Op] /\ cache \in [Keys -> Loc \cup {NoLoc}]
    BY DEF IndInv, HeldInv
<1>2. op' \in [Keys -> Op] /\ \A j \in Keys : op'[j] = IF j = k THEN o ELSE op[j]
    BY <1>1
<1>3. \A j \in Keys :
         /\ op'[j].old \in {op[j].old, NoLoc} \/ WithinNext(op'[j].old)
         /\ op'[j].new \in {op[j].new, NoLoc} \/ WithinNext(op'[j].new)
         /\ Holds(op'[j])
    BY <1>2 DEF IndInv, HeldInv
<1> QED
    BY <1>1, <1>2, <1>3, HeldKeeps DEF IndInv

(* No operation in flight is an operation without locations.               *)
LEMMA IdleOp == Idle \in Op /\ Idle.old = NoLoc /\ Idle.new = NoLoc /\ Holds(Idle)
BY DEF Idle, Op, Pcs, Kinds, Holds

-----------------------------------------------------------------------------
(* The client's actions. *)

(* Locations stay inside files that did not change.                        *)
LEMMA WithinSame ==
    ASSUME UNCHANGED disk, NEW l, Within(l)
    PROVE  WithinNext(l)
BY DEF disk, Within, WithinNext

(* eblob_writev_return up to the b->lock of eblob_write_prepare_disk.      *)
LEMMA StartWriteKeeps ==
    ASSUME IndInv, NEW k \in Keys, NEW wr \in Kinds, NEW v \in Vals,
           StartWrite(k, wr, v)
    PROVE  IndInv'
<1> USE DEF IndInv
<1>1. /\ UNCHANGED disk /\ UNCHANGED binlog /\ UNCHANGED defrag
      /\ UNCHANGED promise /\ cache' = cache /\ failures' = failures /\ Call(k)
    BY DEF StartWrite
<1>2. DiskInv' /\ FilesGrow /\ SortInv'
    BY <1>1, QuietDisk, BinlogType
<1>3. PromiseInv'
    BY <1>1, CallCounts DEF PromiseInv, promise
<1>4. HeldInv'
    <2>1. CASE /\ Found(k) = {}
               /\ Begin(k, [Idle EXCEPT !.pc = "prep", !.kind = wr, !.val = v])
        <3> DEFINE o == [Idle EXCEPT !.pc = "prep", !.kind = wr, !.val = v]
        <3>1. o \in Op /\ o.old = NoLoc /\ o.new = NoLoc /\ Holds(o)
            BY DEF Idle, Op, Pcs, Holds
        <3> HIDE DEF o
        <3> QED
            BY <1>1, <1>2, <2>1, <3>1, OpKeeps DEF Begin, o
    <2>2. CASE \E l \in Found(k) :
                 /\ l.base \in bases
                 /\ Begin(k, [Idle EXCEPT !.pc = "prep", !.kind = wr, !.val = v,
                                          !.old = l, !.copy = MustCopy(wr)])
        <3>1. PICK l \in Found(k) :
                 Begin(k, [Idle EXCEPT !.pc = "prep", !.kind = wr, !.val = v,
                                       !.old = l, !.copy = MustCopy(wr)])
            BY <2>2
        <3> DEFINE o == [Idle EXCEPT !.pc = "prep", !.kind = wr, !.val = v,
                                     !.old = l, !.copy = MustCopy(wr)]
        <3>2. l \in Loc /\ WithinNext(l)
            BY <1>1, FoundWithin, WithinSame
        <3>3. o \in Op /\ o.old = l /\ o.new = NoLoc /\ Holds(o)
            BY <3>2 DEF Idle, Op, Pcs, MustCopy, Holds
        <3>4. op' = [op EXCEPT ![k] = o]
            BY <3>1 DEF Begin
        <3> HIDE DEF o
        <3> QED
            BY <1>1, <1>2, <3>2, <3>3, <3>4, OpKeeps
    <2> QED
        BY <2>1, <2>2 DEF StartWrite
<1> QED
    BY <1>2, <1>3, <1>4

(* eblob_write_prepare up to the same lock.                                *)
LEMMA StartPrepareKeeps ==
    ASSUME IndInv, NEW k \in Keys, StartPrepare(k)
    PROVE  IndInv'
<1> USE DEF IndInv
<1>1. /\ UNCHANGED disk /\ UNCHANGED binlog /\ UNCHANGED defrag
      /\ UNCHANGED promise /\ cache' = cache /\ failures' = failures /\ Call(k)
    BY DEF StartPrepare
<1>2. DiskInv' /\ FilesGrow /\ SortInv'
    BY <1>1, QuietDisk, BinlogType
<1>3. PromiseInv'
    BY <1>1, CallCounts DEF PromiseInv, promise
<1>4. HeldInv'
    <2>1. CASE Begin(k, [Idle EXCEPT !.pc = "prep", !.kind = "prepare"])
        <3> DEFINE o == [Idle EXCEPT !.pc = "prep", !.kind = "prepare"]
        <3>1. o \in Op /\ o.old = NoLoc /\ o.new = NoLoc /\ Holds(o)
            BY DEF Idle, Op, Pcs, Kinds, Holds
        <3>2. op' = [op EXCEPT ![k] = o]
            BY <2>1 DEF Begin
        <3> HIDE DEF o
        <3> QED
            BY <1>1, <1>2, <3>1, <3>2, OpKeeps
    <2>2. CASE \E l \in Found(k) :
                 Begin(k, [Idle EXCEPT !.pc = "prep", !.kind = "prepare",
                                       !.old = l, !.copy = TRUE])
        <3>1. PICK l \in Found(k) :
                 Begin(k, [Idle EXCEPT !.pc = "prep", !.kind = "prepare",
                                       !.old = l, !.copy = TRUE])
            BY <2>2
        <3> DEFINE o == [Idle EXCEPT !.pc = "prep", !.kind = "prepare",
                                     !.old = l, !.copy = TRUE]
        <3>2. l \in Loc /\ WithinNext(l)
            BY <1>1, FoundWithin, WithinSame
        <3>3. o \in Op /\ o.old = l /\ o.new = NoLoc /\ Holds(o)
            BY <3>2 DEF Idle, Op, Pcs, Kinds, Holds
        <3>4. op' = [op EXCEPT ![k] = o]
            BY <3>1 DEF Begin
        <3> HIDE DEF o
        <3> QED
            BY <1>1, <1>2, <3>2, <3>3, <3>4, OpKeeps
    <2> QED
        BY <2>1, <2>2 DEF StartPrepare
<1> QED
    BY <1>2, <1>3, <1>4

(* eblob_remove, the lookup.                                               *)
LEMMA RemoveLookupKeeps ==
    ASSUME IndInv, NEW k \in Keys, RemoveLookup(k)
    PROVE  IndInv'
<1> USE DEF IndInv
<1>1. /\ UNCHANGED disk /\ UNCHANGED binlog /\ UNCHANGED defrag
      /\ UNCHANGED promise /\ cache' = cache /\ failures' = failures /\ Call(k)
    BY DEF RemoveLookup
<1>2. DiskInv' /\ FilesGrow /\ SortInv'
    BY <1>1, QuietDisk, BinlogType
<1>3. PromiseInv'
    BY <1>1, CallCounts DEF PromiseInv, promise
<1>4. PICK l \in Found(k) : Begin(k, [Idle EXCEPT !.pc = "remove", !.old = l])
    BY DEF RemoveLookup
<1> DEFINE o == [Idle EXCEPT !.pc = "remove", !.old = l]
<1>5. l \in Loc /\ WithinNext(l)
    BY <1>1, FoundWithin, WithinSame
<1>6. o \in Op /\ o.old = l /\ o.new = NoLoc /\ Holds(o)
    BY <1>5, NoValueAssumption DEF Idle, Op, Pcs, Kinds, Holds
<1>7. op' = [op EXCEPT ![k] = o]
    BY <1>4 DEF Begin
<1> HIDE DEF o
<1>8. HeldInv'
    BY <1>1, <1>2, <1>5, <1>6, <1>7, OpKeeps
<1> QED
    BY <1>2, <1>3, <1>8

(* eblob_write_prepare_disk, no free space.                                *)
LEMMA PrepareErrorKeeps ==
    ASSUME IndInv, NEW k \in Keys, PrepareError(k)
    PROVE  IndInv'
<1> USE DEF IndInv
<1>1. /\ UNCHANGED disk /\ UNCHANGED binlog /\ UNCHANGED defrag
      /\ UNCHANGED promise /\ UNCHANGED spent /\ cache' = cache
      /\ op' = [op EXCEPT ![k] = Idle]
    BY DEF PrepareError, End
<1>2. DiskInv' /\ FilesGrow /\ SortInv'
    BY <1>1, QuietDisk, BinlogType
<1>3. HeldInv'
    BY <1>1, <1>2, IdleOp, OpKeeps
<1>4. PromiseInv'
    BY <1>1 DEF PromiseInv, promise, spent
<1> QED
    BY <1>2, <1>3, <1>4

(* A write that fails after it has its slot.                               *)
LEMMA FailWriteKeeps ==
    ASSUME IndInv, NEW k \in Keys, FailWrite(k)
    PROVE  IndInv'
<1> USE DEF IndInv
<1>1. /\ UNCHANGED disk /\ UNCHANGED binlog /\ UNCHANGED defrag
      /\ cache' = cache /\ op' = [op EXCEPT ![k] = Idle]
    BY DEF FailWrite, End
<1>2. DiskInv' /\ FilesGrow /\ SortInv'
    BY <1>1, QuietDisk, BinlogType
<1>3. HeldInv'
    BY <1>1, <1>2, IdleOp, OpKeeps
<1>4. PromiseInv'
    <2>1. failures' \in 0 .. MaxFailures
        BY BoundsAssumption DEF PromiseInv, FailWrite
    <2> QED
        BY <2>1 DEF PromiseInv, FailWrite
<1> QED
    BY <1>2, <1>3, <1>4

(* eblob_commit_disk writes an entry that points to the record it belongs  *)
(* to.                                                                     *)
LEMMA IndexCommittedKeeps ==
    ASSUME index \in [Bases -> Seq(Entry)], NEW k \in Keys, NEW l \in Loc,
           NEW f \in Flags
    PROVE  /\ IndexCommitted(k, l, f) \in [Bases -> Seq(Entry)]
           /\ \A c \in Bases : DOMAIN IndexCommitted(k, l, f)[c] = DOMAIN index[c]
           /\ \A c \in Bases : \A j \in DOMAIN index[c] :
                 \/ IndexCommitted(k, l, f)[c][j].pos = index[c][j].pos
                 \/ c = l.base /\ IndexCommitted(k, l, f)[c][j].pos = l.dp
<1> DEFINE e == [key |-> k, flag |-> f, pos |-> l.dp]
           G == [index EXCEPT ![l.base][l.ip] = e]
<1>1. l.base \in Bases
    BY DEF Loc
<1>2. e \in Entry /\ e.pos = l.dp
    BY DEF Entry, Loc
<1>3. IndexCommitted(k, l, f) = G
    BY DEF IndexCommitted
<1> HIDE DEF e
<1>4. /\ G \in [Bases -> Seq(Entry)]
      /\ \A c \in Bases : DOMAIN G[c] = DOMAIN index[c]
      /\ \A c \in Bases : \A j \in DOMAIN index[c] :
            G[c][j] = IF c = l.base /\ j = l.ip THEN e ELSE index[c][j]
    BY <1>1, <1>2, SlotSet, Zenon
<1> QED
    BY <1>2, <1>3, <1>4

(* A payload written into a record keeps the data file.                    *)
LEMMA ValSetKeeps ==
    ASSUME NEW dat \in [Bases -> Seq(Record)], NEW l \in Loc, NEW p \in Payload
    PROVE  LET G == [dat EXCEPT ![l.base][l.dp].val = p]
           IN /\ G \in [Bases -> Seq(Record)]
              /\ \A c \in Bases : DOMAIN G[c] = DOMAIN dat[c]
<1> DEFINE r == [dat[l.base][l.dp] EXCEPT !.val = p]
           H == [dat EXCEPT ![l.base][l.dp] = r]
<1>1. l.base \in Bases
    BY DEF Loc
<1>2. l.dp \in DOMAIN dat[l.base] => r \in Record
    <2>1. ASSUME l.dp \in DOMAIN dat[l.base]
          PROVE  dat[l.base][l.dp] \in Record
        BY <1>1, <2>1, LenProperties, ElementOfSeq
    <2> QED
        BY <2>1 DEF Record
<1>3. [dat EXCEPT ![l.base][l.dp].val = p] = H
    OBVIOUS
<1> HIDE DEF r
<1>4. /\ H \in [Bases -> Seq(Record)]
      /\ \A c \in Bases : DOMAIN H[c] = DOMAIN dat[c]
    BY <1>1, <1>2, SlotSet, Zenon
<1> QED
    BY <1>3, <1>4

(* Rewriting the headers and the payload of a record in place keeps the    *)
(* files.                                                                  *)
LEMMA InPlaceKeeps ==
    ASSUME IndInv, NEW k \in Keys, NEW l \in Loc, l.base \in bases, Within(l),
           NEW f \in Flags, NEW p \in Payload,
           index' = index \/ index' = IndexCommitted(k, l, f),
           data' = DataCommitted(k, l, f, p),
           UNCHANGED <<bases, place, born, sorted, gone, binlog>>
    PROVE  DiskInv' /\ FilesGrow /\ (UNCHANGED defrag => SortInv')
<1> DEFINE r == [key |-> k, flag |-> f, val |-> p]
<1>1. /\ index \in [Bases -> Seq(Entry)] /\ data \in [Bases -> Seq(Record)]
      /\ l.base \in Bases /\ l.dp \in DOMAIN data[l.base]
      /\ \A b \in Bases : \A i \in DOMAIN index[b] : index[b][i].pos \in DOMAIN data[b]
    BY DEF IndInv, DiskInv, Loc, Within
<1>2. r \in Record
    BY DEF Record
<1> HIDE DEF r
<1>3. /\ data' \in [Bases -> Seq(Record)]
      /\ \A c \in Bases : DOMAIN data'[c] = DOMAIN data[c]
    <2>1. data' = [data EXCEPT ![l.base][l.dp] = r]
        BY DEF DataCommitted, r
    <2> QED
        BY <1>1, <1>2, <2>1, SlotCommitted
<1>4. /\ index' \in [Bases -> Seq(Entry)]
      /\ \A c \in Bases : DOMAIN index'[c] = DOMAIN index[c]
      /\ \A c \in Bases : \A j \in DOMAIN index[c] :
            \/ index'[c][j].pos = index[c][j].pos
            \/ c = l.base /\ index'[c][j].pos = l.dp
    BY <1>1, IndexCommittedKeeps, SMTT(30)
<1>5. \A b \in Bases : \A i \in DOMAIN index'[b] : index'[b][i].pos \in DOMAIN data'[b]
    BY <1>1, <1>3, <1>4
<1>6. DiskInv'
    BY <1>3, <1>4, <1>5 DEF IndInv, DiskInv, binlog
<1> QED
    BY <1>3, <1>4, <1>6, SameFilesKeep

(* Writing only the payload keeps the files.                               *)
LEMMA PayloadKeeps ==
    ASSUME IndInv, NEW l \in Loc, l.base \in bases, Within(l), NEW p \in Payload,
           data' = [data EXCEPT ![l.base][l.dp].val = p],
           UNCHANGED <<bases, place, born, sorted, index, gone, binlog>>
    PROVE  DiskInv' /\ FilesGrow /\ (UNCHANGED defrag => SortInv')
<1>1. /\ index \in [Bases -> Seq(Entry)] /\ data \in [Bases -> Seq(Record)]
      /\ \A b \in Bases : \A i \in DOMAIN index[b] : index[b][i].pos \in DOMAIN data[b]
    BY DEF IndInv, DiskInv
<1>4. /\ data' \in [Bases -> Seq(Record)]
      /\ \A c \in Bases : DOMAIN data'[c] = DOMAIN data[c]
    BY <1>1, ValSetKeeps
<1>5. DiskInv'
    BY <1>1, <1>4 DEF IndInv, DiskInv, binlog
<1> QED
    BY <1>4, <1>5, SameFilesKeep

(* Putting a location inside its base into the hash, or dropping one,      *)
(* keeps all the locations.                                                *)
LEMMA CacheKeeps ==
    ASSUME IndInv, DiskInv', FilesGrow, NEW k \in Keys, NEW l \in Loc \cup {NoLoc},
           l = NoLoc \/ WithinNext(l),
           cache' = [cache EXCEPT ![k] = l],
           op' = op \/ op' = [op EXCEPT ![k] = Idle]
    PROVE  HeldInv'
<1>1. op \in [Keys -> Op] /\ cache \in [Keys -> Loc \cup {NoLoc}]
    BY DEF IndInv, HeldInv
<1>2. op' \in [Keys -> Op] /\ \A j \in Keys : op'[j] \in {op[j], Idle}
    BY <1>1, IdleOp
<1>3. /\ cache' \in [Keys -> Loc \cup {NoLoc}]
      /\ \A j \in Keys : cache'[j] = IF j = k THEN l ELSE cache[j]
    BY <1>1
<1>4. \A j \in Keys :
         /\ cache'[j] \in {cache[j], NoLoc} \/ WithinNext(cache'[j])
         /\ op'[j].old \in {op[j].old, NoLoc} \/ WithinNext(op'[j].old)
         /\ op'[j].new \in {op[j].new, NoLoc} \/ WithinNext(op'[j].new)
         /\ Holds(op'[j])
    BY <1>2, <1>3, IdleOp DEF IndInv, HeldInv
<1> QED
    BY <1>2, <1>3, <1>4, HeldKeeps DEF IndInv

(* Nothing new is held when hash and operations stay as they are.          *)
LEMMA HeldSame ==
    ASSUME IndInv, DiskInv', FilesGrow, UNCHANGED <<cache, op>>
    PROVE  HeldInv'
BY HeldKeeps DEF IndInv, HeldInv

(* eblob_try_overwritev.                                                   *)
LEMMA OverwriteKeeps ==
    ASSUME IndInv, NEW k \in Keys, NEW wr \in Kinds, NEW v \in Vals,
           Overwrite(k, wr, v)
    PROVE  IndInv'
<1>1. PICK l \in Found(k) :
         /\ l.base \in bases
         /\ index' = IndexCommitted(k, l, "committed")
         /\ data' = DataCommitted(k, l, "committed",
                                  Written(wr, data[l.base][l.dp].val, v))
    BY DEF Overwrite
<1>2. /\ UNCHANGED <<bases, place, born, sorted, gone, binlog>>
      /\ UNCHANGED defrag /\ UNCHANGED <<cache, op>> /\ failures' = failures
      /\ Promise(k, "visible", Expected(k, wr, v)) /\ Call(k)
    BY DEF Overwrite
<1>3. l \in Loc /\ Within(l)
    BY FoundWithin DEF IndInv
<1>4. Written(wr, data[l.base][l.dp].val, v) \in Payload
    <2>1. data[l.base][l.dp] \in Record
        BY <1>1, <1>3, LocRead DEF IndInv, Within
    <2> QED
        BY <2>1, PayloadTypes DEF Record
<1>5. DiskInv' /\ FilesGrow /\ SortInv'
    BY <1>1, <1>2, <1>3, <1>4, InPlaceKeeps DEF Flags
<1>6. HeldInv'
    BY <1>2, <1>5, HeldSame
<1>7. PromiseInv'
    BY <1>2, ExpectedType, CallCounts, PromiseKeeps DEF IndInv, PromiseInv
<1> QED
    BY <1>5, <1>6, <1>7 DEF IndInv

(* The old location eblob_write_prepare_disk uses, looked up again or not, *)
(* is inside its base.                                                     *)
LEMMA OldLocWithin ==
    ASSUME IndInv, NEW k \in Keys, NEW l \in OldLocs(k)
    PROVE  l \in Loc \cup {NoLoc} /\ (l # NoLoc => l \in Loc /\ Within(l))
<1>1. op[k] \in Op /\ (op[k].old # NoLoc => Within(op[k].old))
    BY DEF IndInv, HeldInv
<1>2. CASE l = op[k].old
    BY <1>1, <1>2 DEF Op
<1>3. CASE l \in Found(k)
    BY <1>3, FoundWithin DEF IndInv
<1>4. CASE l = NoLoc
    BY <1>4
<1> QED
    BY <1>2, <1>3, <1>4 DEF OldLocs

(* What is copied from such a location is a payload, its flags are flags.  *)
LEMMA CopiedType ==
    ASSUME IndInv, NEW l \in Loc, Within(l), l.base \in bases
    PROVE  data[l.base][l.dp].val \in Payload /\ index[l.base][l.ip].flag \in Flags
<1>1. index[l.base][l.ip] \in Entry /\ data[l.base][l.dp] \in Record
    BY LocRead DEF IndInv, Within
<1> QED
    BY <1>1 DEF Entry, Record

(* Reserving a slot keeps the sort, because the bases it works on are not  *)
(* the last.                                                               *)
LEMMA SlotKeeps ==
    ASSUME IndInv, NEW k \in Keys, NEW l \in NewLocs, NEW old \in Loc \cup {NoLoc},
           NEW f \in Flags, NEW p \in Payload,
           PrepareDiskLL(k, l, old, f, p), UNCHANGED defrag
    PROVE  DiskInv' /\ FilesGrow /\ SortInv' /\ l \in Loc /\ WithinNext(l)
<1>1. /\ DiskInv' /\ FilesGrow /\ l \in Loc /\ WithinNext(l)
      /\ bases \subseteq bases' /\ \A b \in bases : place'[b] = place[b]
      /\ \A b \in NotLast : /\ DOMAIN index'[b] = DOMAIN index[b]
                            /\ DOMAIN data[b] \subseteq DOMAIN data'[b]
    BY PrepareDiskLLKeeps DEF IndInv
<1>2. group \subseteq NotLast
    BY DEF IndInv, SortInv, SortsOldBases
<1>3. SortInv'
    BY <1>1, <1>2, SortKeeps DEF IndInv
<1> QED
    BY <1>1, <1>3

(* eblob_write_prepare_disk.                                               *)
LEMMA PrepareDiskKeeps ==
    ASSUME IndInv, NEW k \in Keys, PrepareDisk(k)
    PROVE  IndInv'
<1>1. PICK old \in OldLocs(k), l \in NewLocs :
        /\ PrepareDiskLL(k, l, old,
              IF op[k].kind = "prepare" THEN "uncommitted" ELSE "committed",
              Copied(k, old))
        /\ Begin(k, [op[k] EXCEPT !.new = l, !.old = NoLoc, !.moved = FALSE,
                       !.pc = IF op[k].kind = "prepare" THEN "ram" ELSE "payload"])
    BY DEF PrepareDisk
<1>2. /\ cache' = cache /\ UNCHANGED defrag /\ UNCHANGED spent /\ UNCHANGED promise
    BY DEF PrepareDisk
<1> DEFINE f == IF op[k].kind = "prepare" THEN "uncommitted" ELSE "committed"
           p == Copied(k, old)
           o == [op[k] EXCEPT !.new = l, !.old = NoLoc, !.moved = FALSE,
                       !.pc = IF op[k].kind = "prepare" THEN "ram" ELSE "payload"]
<1>3. old \in Loc \cup {NoLoc} /\ (old # NoLoc => old \in Loc /\ Within(old))
    BY OldLocWithin
<1>4. f \in Flags
    BY DEF Flags
<1>5. p \in Payload
    <2>1. old # NoLoc => old.base \in bases
        BY <1>1 DEF PrepareDiskLL
    <2> QED
        BY <1>3, <2>1, CopiedType, PayloadTypes DEF Copied
<1>6. PrepareDiskLL(k, l, old, f, p) /\ op' = [op EXCEPT ![k] = o]
    BY <1>1 DEF Begin
<1> HIDE DEF f, p
<1>7. DiskInv' /\ FilesGrow /\ SortInv' /\ l \in Loc /\ WithinNext(l)
    BY <1>2, <1>3, <1>4, <1>5, <1>6, SlotKeeps
<1>8. o \in Op /\ o.old = NoLoc /\ o.new = l /\ Holds(o)
    <2>1. op[k] \in Op
        BY DEF IndInv, HeldInv
    <2> QED
        BY <2>1, <1>7, NoValueAssumption DEF Op, Pcs, Holds
<1> HIDE DEF o
<1>9. HeldInv'
    BY <1>2, <1>6, <1>7, <1>8, OpKeeps
<1>10. PromiseInv'
    BY <1>2 DEF IndInv, PromiseInv, promise, spent
<1> QED
    BY <1>7, <1>9, <1>10 DEF IndInv

(* An operation past the reservation has a location inside its base.       *)
LEMMA NewLocHeld ==
    ASSUME IndInv, NEW k \in Keys, op[k].pc \in {"payload", "commit", "ram"}
    PROVE  op[k].new \in Loc /\ Within(op[k].new)
BY DEF IndInv, HeldInv, Holds, Op

(* eblob_writev_raw into the reserved slot.                                *)
LEMMA WritePayloadKeeps ==
    ASSUME IndInv, NEW k \in Keys, WritePayload(k)
    PROVE  IndInv'
<1> DEFINE l == op[k].new
           p == Written(op[k].kind, data[l.base][l.dp].val, op[k].val)
           o == [op[k] EXCEPT !.pc = "commit"]
<1>1. /\ op[k].pc = "payload" /\ l.base \in bases
      /\ data' = [data EXCEPT ![l.base][l.dp].val = p]
      /\ op' = [op EXCEPT ![k] = o]
      /\ UNCHANGED <<bases, place, born, sorted, index, gone, binlog>>
      /\ cache' = cache /\ UNCHANGED defrag /\ UNCHANGED spent /\ UNCHANGED promise
    BY DEF WritePayload, Begin
<1>2. op[k] \in Op /\ l \in Loc /\ Within(l)
    BY <1>1, NewLocHeld DEF IndInv, HeldInv
<1>3. p \in Payload
    BY <1>1, <1>2, CopiedType, PayloadTypes DEF Op
<1>4. o \in Op /\ o.old = op[k].old /\ o.new = op[k].new /\ Holds(o)
    BY <1>2, NoValueAssumption DEF Op, Pcs, Holds
<1> HIDE DEF l, p, o
<1>5. DiskInv' /\ FilesGrow /\ SortInv'
    BY <1>1, <1>2, <1>3, PayloadKeeps
<1>6. HeldInv'
    BY <1>1, <1>4, <1>5, OpKeeps
<1>7. PromiseInv'
    BY <1>1 DEF IndInv, PromiseInv, promise, spent
<1> QED
    BY <1>5, <1>6, <1>7 DEF IndInv

(* A location stays inside files that grow.                                *)
LEMMA WithinGrows ==
    ASSUME IndInv, DiskInv', FilesGrow, NEW l \in Loc, Within(l)
    PROVE  WithinNext(l)
<1>1. l.base \in 1 .. born /\ born \in Nat /\ born' \in Nat
    BY BoundsAssumption DEF Loc, Bases, IndInv, DiskInv, Within
<1> QED
    BY <1>1 DEF FilesGrow, WithinNext, Within

(* eblob_write_commit_nolock.                                              *)
LEMMA CommitWriteKeeps ==
    ASSUME IndInv, NEW k \in Keys, CommitWrite(k)
    PROVE  IndInv'
<1> DEFINE l == op[k].new
           p == data[l.base][l.dp].val
<1>1. /\ op[k].pc = "commit" /\ l.base \in bases
      /\ index' = index \/ index' = IndexCommitted(k, l, "committed")
      /\ data' = DataCommitted(k, l, "committed", p)
      /\ cache' = [cache EXCEPT ![k] = l] /\ op' = [op EXCEPT ![k] = Idle]
      /\ Promise(k, "visible", Expected(k, op[k].kind, op[k].val))
      /\ UNCHANGED <<bases, place, born, sorted, gone, binlog>>
      /\ UNCHANGED defrag /\ UNCHANGED spent
    BY DEF CommitWrite, End
<1>2. op[k] \in Op /\ l \in Loc /\ Within(l)
    BY <1>1, NewLocHeld DEF IndInv, HeldInv
<1>3. p \in Payload
    BY <1>1, <1>2, CopiedType
<1> HIDE DEF l, p
<1>4. DiskInv' /\ FilesGrow /\ SortInv'
    BY <1>1, <1>2, <1>3, InPlaceKeeps DEF Flags
<1>5. WithinNext(l)
    BY <1>2, <1>4, WithinGrows
<1>6. HeldInv'
    BY <1>1, <1>2, <1>4, <1>5, CacheKeeps
<1>7. PromiseInv'
    <2>1. op[k].kind \in Kinds /\ op[k].val \in Vals \cup {Blank}
        BY <1>2 DEF Op
    <2> QED
        BY <1>1, <2>1, ExpectedType, PromiseKeeps DEF IndInv, PromiseInv, spent
<1> QED
    BY <1>4, <1>6, <1>7 DEF IndInv

(* eblob_commit_ram.                                                       *)
LEMMA CommitRamKeeps ==
    ASSUME IndInv, NEW k \in Keys, CommitRam(k)
    PROVE  IndInv'
<1> DEFINE l == op[k].new
           p == IF status[k] = "absent" THEN Junk ELSE shadow[k]
<1>1. /\ op[k].pc = "ram" /\ l.base \in bases
      /\ cache' = [cache EXCEPT ![k] = l] /\ op' = [op EXCEPT ![k] = Idle]
      /\ Promise(k, "hidden", p)
      /\ UNCHANGED disk /\ UNCHANGED binlog /\ UNCHANGED defrag /\ UNCHANGED spent
    BY DEF CommitRam, End
<1>2. l \in Loc /\ Within(l)
    BY <1>1, NewLocHeld
<1>3. p \in Payload
    BY PayloadTypes DEF IndInv, PromiseInv
<1> HIDE DEF l, p
<1>4. DiskInv' /\ FilesGrow /\ SortInv'
    BY <1>1, QuietDisk, BinlogType
<1>5. WithinNext(l)
    BY <1>2, <1>4, WithinGrows
<1>6. HeldInv'
    BY <1>1, <1>2, <1>4, <1>5, CacheKeeps
<1>7. PromiseInv'
    BY <1>1, <1>3, PromiseKeeps DEF IndInv, PromiseInv, spent
<1> QED
    BY <1>4, <1>6, <1>7 DEF IndInv

(* eblob_plain_writev.                                                     *)
LEMMA PlainWriteKeeps ==
    ASSUME IndInv, NEW k \in Keys, NEW v \in Vals, PlainWrite(k, v)
    PROVE  IndInv'
<1>1. PICK l \in Found(k) :
        /\ l.base \in bases
        /\ \/ /\ data' = [data EXCEPT ![l.base][l.dp].val = Patched(@, v)]
              /\ UNCHANGED <<bases, place, born, sorted, index, gone, binlog, cache>>
           \/ \E new \in NewLocs :
                 /\ PrepareDiskLL(k, new, l, "committed",
                                  Patched(data[l.base][l.dp].val, v))
                 /\ cache' = [cache EXCEPT ![k] = new]
    BY DEF PlainWrite
<1>2. /\ op' = op /\ UNCHANGED defrag /\ failures' = failures /\ Call(k)
      /\ Promise(k, IF status[k] = "visible" THEN "dirty" ELSE status[k],
                    Patched(shadow[k], v))
    BY DEF PlainWrite
<1> DEFINE p == Patched(data[l.base][l.dp].val, v)
<1>3. l \in Loc /\ Within(l)
    BY FoundWithin DEF IndInv
<1>4. p \in Payload
    BY <1>1, <1>3, CopiedType, PayloadTypes
<1>5. DiskInv' /\ FilesGrow /\ SortInv' /\ HeldInv'
    <2>1. CASE /\ data' = [data EXCEPT ![l.base][l.dp].val = p]
               /\ UNCHANGED <<bases, place, born, sorted, index, gone, binlog, cache>>
        <3> HIDE DEF p
        <3>1. DiskInv' /\ FilesGrow /\ SortInv'
            BY <1>1, <1>2, <1>3, <1>4, <2>1, PayloadKeeps
        <3> QED
            BY <1>2, <2>1, <3>1, HeldSame
    <2>2. CASE \E new \in NewLocs : /\ PrepareDiskLL(k, new, l, "committed", p)
                                    /\ cache' = [cache EXCEPT ![k] = new]
        <3>1. PICK new \in NewLocs : /\ PrepareDiskLL(k, new, l, "committed", p)
                                     /\ cache' = [cache EXCEPT ![k] = new]
            BY <2>2
        <3> HIDE DEF p
        <3>2. DiskInv' /\ FilesGrow /\ SortInv' /\ new \in Loc /\ WithinNext(new)
            BY <1>2, <1>3, <1>4, <3>1, SlotKeeps DEF Flags
        <3> QED
            BY <1>2, <3>1, <3>2, CacheKeeps
    <2> QED
        BY <1>1, <2>1, <2>2
<1>6. PromiseInv'
    <2>1. /\ Patched(shadow[k], v) \in Payload
          /\ status[k] \in {"absent", "visible", "hidden", "dirty"}
        BY PayloadTypes DEF IndInv, PromiseInv
    <2>2. (IF status[k] = "visible" THEN "dirty" ELSE status[k])
             \in {"absent", "visible", "hidden", "dirty"}
        BY <2>1
    <2> QED
        BY <1>2, <2>1, <2>2, CallCounts, PromiseKeeps DEF IndInv, PromiseInv
<1> QED
    BY <1>5, <1>6 DEF IndInv

(* eblob_write_commit.                                                     *)
LEMMA CommitKeeps ==
    ASSUME IndInv, NEW k \in Keys, NEW keep \in BOOLEAN, Commit(k, keep)
    PROVE  IndInv'
<1> DEFINE f(l) == IF keep /\ index[l.base][l.ip].flag = "uncommitted"
                   THEN "uncommitted" ELSE "committed"
           p(l) == data[l.base][l.dp].val
<1>1. PICK l \in Found(k) :
        /\ l.base \in bases
        /\ \/ /\ index' = IndexCommitted(k, l, f(l))
              /\ data' = DataCommitted(k, l, f(l), p(l))
              /\ UNCHANGED <<bases, place, born, sorted, gone, binlog, cache>>
           \/ \E new \in NewLocs : /\ PrepareDiskLL(k, new, l, f(l), p(l))
                                   /\ cache' = [cache EXCEPT ![k] = new]
    BY DEF Commit
<1>2. /\ op' = op /\ UNCHANGED defrag /\ failures' = failures /\ Call(k)
      /\ Promise(k, IF keep /\ status[k] = "hidden" THEN "hidden" ELSE "visible",
                    shadow[k])
    BY DEF Commit
<1>3. l \in Loc /\ Within(l)
    BY FoundWithin DEF IndInv
<1>4. f(l) \in Flags /\ p(l) \in Payload
    BY <1>1, <1>3, CopiedType DEF Flags
<1> HIDE DEF f, p
<1>5. DiskInv' /\ FilesGrow /\ SortInv' /\ HeldInv'
    <2>1. CASE /\ index' = IndexCommitted(k, l, f(l))
               /\ data' = DataCommitted(k, l, f(l), p(l))
               /\ UNCHANGED <<bases, place, born, sorted, gone, binlog, cache>>
        <3>1. DiskInv' /\ FilesGrow /\ SortInv'
            BY <1>1, <1>2, <1>3, <1>4, <2>1, InPlaceKeeps
        <3> QED
            BY <1>2, <2>1, <3>1, HeldSame
    <2>2. CASE \E new \in NewLocs : /\ PrepareDiskLL(k, new, l, f(l), p(l))
                                    /\ cache' = [cache EXCEPT ![k] = new]
        <3>1. PICK new \in NewLocs : /\ PrepareDiskLL(k, new, l, f(l), p(l))
                                     /\ cache' = [cache EXCEPT ![k] = new]
            BY <2>2
        <3>2. DiskInv' /\ FilesGrow /\ SortInv' /\ new \in Loc /\ WithinNext(new)
            BY <1>2, <1>3, <1>4, <3>1, SlotKeeps
        <3> QED
            BY <1>2, <3>1, <3>2, CacheKeeps
    <2> QED
        BY <1>1, <2>1, <2>2
<1>6. PromiseInv'
    <2>1. shadow[k] \in Payload
        BY DEF IndInv, PromiseInv
    <2>2. (IF keep /\ status[k] = "hidden" THEN "hidden" ELSE "visible")
             \in {"absent", "visible", "hidden", "dirty"}
        OBVIOUS
    <2> QED
        BY <1>2, <2>1, <2>2, CallCounts, PromiseKeeps DEF IndInv, PromiseInv
<1> QED
    BY <1>5, <1>6 DEF IndInv

(* eblob_remove, the marking.                                              *)
LEMMA RemoveMarkKeeps ==
    ASSUME IndInv, NEW k \in Keys, RemoveMark(k)
    PROVE  IndInv'
<1> DEFINE l == op[k].old
<1>1. /\ op[k].pc = "remove" /\ op' = [op EXCEPT ![k] = Idle]
      /\ UNCHANGED <<bases, place, born, sorted, logging>>
      /\ UNCHANGED defrag /\ UNCHANGED spent
    BY DEF RemoveMark, End
<1>2. l \in Loc /\ Within(l)
    BY <1>1 DEF IndInv, HeldInv, Holds, Op
<1>3. CASE /\ logged' = BinlogAppend(k, l) /\ index' = IndexMarked(index, l)
           /\ data' = DataMarked(data, l) /\ gone' = CountMarked(l)
           /\ cache' = [cache EXCEPT ![k] = NoLoc] /\ Promise(k, "absent", Junk)
    <2> HIDE DEF l
    <2>1. /\ logged' \in [Bases -> SUBSET Keys] /\ gone' \in [Bases -> Nat]
        BY <1>2, <1>3, BinlogAppendType, CountMarkedType DEF IndInv
    <2>2. index \in [Bases -> Seq(Entry)] /\ data \in [Bases -> Seq(Record)]
        BY DEF IndInv, DiskInv
    <2>3. /\ index' \in [Bases -> Seq(Entry)]
          /\ \A c \in Bases : DOMAIN index'[c] = DOMAIN index[c]
          /\ \A c \in Bases : \A j \in DOMAIN index[c] :
                index'[c][j].pos = index[c][j].pos
        BY <1>2, <1>3, <2>2, IndexMarkedKeeps
    <2>4. /\ data' \in [Bases -> Seq(Record)]
          /\ \A c \in Bases : DOMAIN data'[c] = DOMAIN data[c]
        BY <1>2, <1>3, <2>2, DataMarkedKeeps
    <2>5. DiskInv'
        BY <1>1, <2>1, <2>3, <2>4 DEF IndInv, DiskInv
    <2>6. FilesGrow /\ SortInv'
        BY <1>1, <2>3, <2>4, <2>5, SameFilesKeep
    <2>7. HeldInv'
        BY <1>1, <1>3, <2>5, <2>6, CacheKeeps
    <2>8. PromiseInv'
        BY <1>1, <1>3, PayloadTypes, PromiseKeeps DEF IndInv, PromiseInv, spent
    <2> QED
        BY <2>5, <2>6, <2>7, <2>8 DEF IndInv
<1>4. CASE UNCHANGED <<logged, index, data, gone, cache, promise>>
    <2>1. DiskInv' /\ FilesGrow /\ SortInv'
        BY <1>1, <1>4, QuietDisk DEF disk, IndInv, DiskInv
    <2>2. HeldInv'
        BY <1>1, <1>4, <2>1, IdleOp, OpKeeps
    <2>3. PromiseInv'
        BY <1>1, <1>4 DEF IndInv, PromiseInv, promise, spent
    <2> QED
        BY <2>1, <2>2, <2>3 DEF IndInv
<1> QED
    BY <1>3, <1>4 DEF RemoveMark

-----------------------------------------------------------------------------
(* The defragmentation thread. *)

(* A sort that is over leaves nothing behind.                              *)
LEMMA NoJobKeeps ==
    ASSUME NoJob
    PROVE  SortInv'
<1>1. <<>> \in Seq(Entry) /\ IsFiniteSet({})
    BY EmptySeq, FS_EmptySet
<1> QED
    BY <1>1 DEF NoJob, SortInv, SortsOldBases

(* Stopping binlogs keeps their type.                                      *)
LEMMA StopBinlogType ==
    ASSUME IndInv, NEW bs, StopBinlog(bs)
    PROVE  logging' \in SUBSET Bases /\ logged' \in [Bases -> SUBSET Keys]
BY DEF StopBinlog, IndInv, DiskInv

(* Without a sort there is no group.                                       *)
LEMMA NoJobSorting ==
    ASSUME IndInv, job = "none"
    PROVE  group = {} /\ left = {}
BY DEF IndInv, SortInv, SortsOldBases

(* A sorted copy of an index has its length, and only its entries.         *)
LEMMA IndexSortedIsPermutation ==
    ASSUME NEW s \in Seq(Entry), NEW r \in IndexSorted(s)
    PROVE  /\ r \in Seq(Entry) /\ DOMAIN r = DOMAIN s
           /\ \A i \in DOMAIN s : \E j \in DOMAIN s : r[i] = s[j]
<1>1. PICK p \in Bijection(DOMAIN s, DOMAIN s) : r = [i \in DOMAIN s |-> s[p[i]]]
    BY DEF IndexSorted
<1>2. p \in [DOMAIN s -> DOMAIN s]
    BY DEF Bijection, Injection
<1>3. DOMAIN s = 1 .. Len(s) /\ Len(s) \in Nat /\ s \in [1 .. Len(s) -> Entry]
    BY LenProperties
<1>4. r \in [1 .. Len(s) -> Entry]
    BY <1>1, <1>2, <1>3
<1>5. r \in Seq(Entry) /\ DOMAIN r = 1 .. Len(s)
    BY <1>3, <1>4, FunctionIsSeq
<1> QED
    BY <1>1, <1>2, <1>3, <1>5

(* eblob_generate_sorted_index, reading and sorting.                       *)
LEMMA IndexsortStartKeeps ==
    ASSUME IndInv, NEW b \in Bases, IndexsortStart(b)
    PROVE  IndInv'
<1>1. /\ job = "none" /\ b \in NotLast /\ job' = "indexsort" /\ group' = {b}
      /\ logging' = logging \cup {b} /\ logged' = [logged EXCEPT ![b] = {}]
      /\ snap' \in IndexSorted(index[b])
      /\ UNCHANGED disk /\ UNCHANGED <<cache, op, left, chunk>>
      /\ UNCHANGED spent /\ UNCHANGED promise
    BY DEF IndexsortStart, Sortable
<1>2. DiskInv' /\ FilesGrow
    <2>1. logging' \in SUBSET Bases /\ logged' \in [Bases -> SUBSET Keys]
        BY <1>1 DEF IndInv, DiskInv
    <2> QED
        BY <1>1, <2>1, QuietDisk
<1>3. HeldInv'
    BY <1>1, <1>2, HeldSame
<1>4. SortInv'
    <2>1. /\ index[b] \in Seq(Entry)
          /\ \A i \in DOMAIN index[b] : index[b][i].pos \in DOMAIN data[b]
        BY DEF IndInv, DiskInv
    <2>2. /\ snap' \in Seq(Entry) /\ DOMAIN snap' = DOMAIN index[b]
          /\ \A i \in DOMAIN snap' : \E j \in DOMAIN index[b] : snap'[i] = index[b][j]
        BY <1>1, <2>1, IndexSortedIsPermutation
    <2>3. \A i \in DOMAIN snap' : snap'[i].pos \in DOMAIN data[b]
        BY <2>1, <2>2
    <2>4. left = {} /\ NotLast' = NotLast
        BY <1>1, NoJobSorting DEF disk, NotLast
    <2>5. index' = index /\ data' = data
        BY <1>1 DEF disk
    <2> QED
        BY <1>1, <2>2, <2>3, <2>4, <2>5 DEF IndInv, SortInv, SortsOldBases
<1>5. PromiseInv'
    BY <1>1 DEF IndInv, PromiseInv, spent, promise
<1> QED
    BY <1>2, <1>3, <1>4, <1>5 DEF IndInv

(* The number of removed entries of an index is a natural number.          *)
LEMMA CountRemovedType ==
    ASSUME NEW S, NEW s \in Seq(S)
    PROVE  CountRemoved(s) \in Nat
<1>1. DOMAIN s = 1 .. Len(s) /\ Len(s) \in Int /\ 1 \in Int
    BY LenProperties
<1>2. IsFiniteSet(DOMAIN s)
    BY <1>1, FS_Interval
<1>3. IsFiniteSet({i \in DOMAIN s : ~Live(s[i])})
    BY <1>2, FS_Subset
<1> QED
    BY <1>3, FS_CardinalityType DEF CountRemoved

(* Flushing the hash and bumping the generation hands out no location.     *)
LEMMA BumpedKeeps ==
    ASSUME IndInv, DiskInv', FilesGrow, NEW s, cache' = Flushed(s),
           op' = GenerationBumped
    PROVE  HeldInv'
<1>1. op \in [Keys -> Op] /\ cache \in [Keys -> Loc \cup {NoLoc}]
    BY DEF IndInv, HeldInv
<1>2. /\ cache' \in [Keys -> Loc \cup {NoLoc}]
      /\ \A k \in Keys : cache'[k] \in {cache[k], NoLoc}
    BY <1>1 DEF Flushed
<1>3. ASSUME NEW k \in Keys
      PROVE  /\ op'[k] \in Op /\ op'[k].old = op[k].old /\ op'[k].new = op[k].new
             /\ op'[k].pc = op[k].pc
    <2>1. op'[k] = [op[k] EXCEPT !.moved = (op[k].pc = "prep")] /\ op[k] \in Op
        BY <1>1 DEF GenerationBumped
    <2>2. (op[k].pc = "prep") \in BOOLEAN
        OBVIOUS
    <2> QED
        BY <2>1, <2>2 DEF Op
<1>4. op' \in [Keys -> Op]
    <2>1. op' = [k \in Keys |-> op'[k]]
        BY DEF GenerationBumped
    <2> QED
        BY <1>3, <2>1
<1>5. \A k \in Keys : Holds(op'[k])
    BY <1>3 DEF IndInv, HeldInv, Holds
<1> QED
    BY <1>2, <1>3, <1>4, <1>5, HeldKeeps DEF IndInv

(* A header marked removed is a header at the same place.                  *)
LEMMA RemovedTypes ==
    /\ \A e \in Entry : Removed(e) \in Entry /\ Removed(e).pos = e.pos
    /\ \A r \in Record : Removed(r) \in Record
BY DEF Removed, Entry, Record, Flags

(* eblob_generate_sorted_index, the swap.                                  *)
LEMMA IndexsortSwapKeeps ==
    ASSUME IndInv, IndexsortSwap
    PROVE  IndInv'
<1> DEFINE idx(hit) == [i \in DOMAIN snap |->
                          IF IndexsortHit(snap, hit, i) THEN Removed(snap[i])
                                                        ELSE snap[i]]
           dead(hit) == {snap[i].pos : i \in {j \in DOMAIN snap :
                                              IndexsortHit(snap, hit, j)}}
           dat(hit, b) == [p \in DOMAIN data[b] |->
                             IF p \in dead(hit) THEN Removed(data[b][p])
                                                ELSE data[b][p]]
           swapped(b, hit) ==
             /\ index' = [index EXCEPT ![b] = idx(hit)]
             /\ data' = [data EXCEPT ![b] = dat(hit, b)]
             /\ gone' = [gone EXCEPT ![b] = CountRemoved(idx(hit))]
             /\ cache' = Flushed(idx(hit))
             /\ crossed' = (crossed \/ Overtaken(b, idx(hit)))
<1>0. PICK b \in group : \E hit : swapped(b, hit)
    BY DEF IndexsortSwap
<1>1. PICK hit : b \in group /\ swapped(b, hit)
    BY <1>0
<1>2. /\ job = "indexsort" /\ sorted' = sorted \cup group /\ op' = GenerationBumped
      /\ StopBinlog(group) /\ NoJob
      /\ UNCHANGED <<bases, place, born, shadow, status, failed, torn>>
      /\ UNCHANGED spent
    BY DEF IndexsortSwap
<1>3. /\ b \in Bases /\ DOMAIN snap = DOMAIN index[b] /\ snap \in Seq(Entry)
      /\ \A i \in DOMAIN snap : snap[i].pos \in DOMAIN data[b]
      /\ group \subseteq Bases
    BY <1>1, <1>2 DEF IndInv, SortInv, SortsOldBases
<1>4. /\ index \in [Bases -> Seq(Entry)] /\ data \in [Bases -> Seq(Record)]
      /\ gone \in [Bases -> Nat] /\ sorted \in SUBSET Bases
      /\ \A c \in Bases : \A i \in DOMAIN index[c] : index[c][i].pos \in DOMAIN data[c]
    BY DEF IndInv, DiskInv
<1>5. /\ idx(hit) \in Seq(Entry) /\ DOMAIN idx(hit) = DOMAIN snap
      /\ \A i \in DOMAIN snap : idx(hit)[i].pos = snap[i].pos
    <2>1. DOMAIN snap = 1 .. Len(snap) /\ Len(snap) \in Nat
        BY <1>3, LenProperties
    <2>2. \A i \in DOMAIN snap : snap[i] \in Entry
        BY <1>3, <2>1, ElementOfSeq
    <2>3. /\ idx(hit) \in [1 .. Len(snap) -> Entry]
          /\ \A i \in DOMAIN snap : idx(hit)[i].pos = snap[i].pos
        BY <2>1, <2>2, RemovedTypes
    <2> QED
        BY <2>1, <2>3, FunctionIsSeq
<1>6. dat(hit, b) \in Seq(Record) /\ DOMAIN dat(hit, b) = DOMAIN data[b]
    <2>1. data[b] \in Seq(Record)
        BY <1>3, <1>4
    <2>2. DOMAIN data[b] = 1 .. Len(data[b]) /\ Len(data[b]) \in Nat
        BY <2>1, LenProperties
    <2>3. \A i \in DOMAIN data[b] : data[b][i] \in Record
        BY <2>1, <2>2, ElementOfSeq
    <2>4. dat(hit, b) \in [1 .. Len(data[b]) -> Record]
        BY <2>2, <2>3, RemovedTypes
    <2> QED
        BY <2>2, <2>4, FunctionIsSeq
<1>7. CountRemoved(idx(hit)) \in Nat
    BY <1>5, CountRemovedType
<1> HIDE DEF idx, dat, dead
<1>8. /\ index' \in [Bases -> Seq(Entry)] /\ data' \in [Bases -> Seq(Record)]
      /\ gone' \in [Bases -> Nat]
      /\ \A c \in Bases : /\ DOMAIN index'[c] = DOMAIN index[c]
                          /\ DOMAIN data'[c] = DOMAIN data[c]
    BY <1>1, <1>3, <1>4, <1>5, <1>6, <1>7
<1>9. \A c \in Bases : \A i \in DOMAIN index'[c] : index'[c][i].pos \in DOMAIN data'[c]
    <2> SUFFICES ASSUME NEW c \in Bases, NEW i \in DOMAIN index'[c]
                 PROVE  index'[c][i].pos \in DOMAIN data'[c]
        OBVIOUS
    <2>1. CASE c = b
        BY <1>1, <1>3, <1>4, <1>5, <1>8, <2>1
    <2>2. CASE c # b
        BY <1>1, <1>4, <1>8, <2>2
    <2> QED
        BY <2>1, <2>2
<1>10. DiskInv'
    <2>1. logging' \in SUBSET Bases /\ logged' \in [Bases -> SUBSET Keys]
        BY <1>2, StopBinlogType
    <2>2. sorted' \in SUBSET Bases
        BY <1>2, <1>3, <1>4
    <2> QED
        BY <1>2, <1>8, <1>9, <2>1, <2>2 DEF IndInv, DiskInv
<1>11. FilesGrow
    BY <1>2, <1>8, <1>10, SameFilesKeep
<1>12. HeldInv'
    BY <1>1, <1>2, <1>10, <1>11, BumpedKeeps
<1>13. SortInv'
    BY <1>2, NoJobKeeps
<1>14. PromiseInv'
    <2>1. crossed' \in BOOLEAN
        BY <1>1
    <2> QED
        BY <1>2, <2>1 DEF IndInv, PromiseInv, spent
<1> QED
    BY <1>10, <1>12, <1>13, <1>14 DEF IndInv

(* Its error paths.                                                        *)
LEMMA IndexsortFailKeeps ==
    ASSUME IndInv, IndexsortFail
    PROVE  IndInv'
<1>1. /\ UNCHANGED disk /\ UNCHANGED <<cache, op>> /\ UNCHANGED promise
      /\ calls' = calls /\ failures < MaxFailures /\ failures' = failures + 1
      /\ StopBinlog(group) \/ UNCHANGED binlog
      /\ NoJob
    BY DEF IndexsortFail
<1>2. DiskInv' /\ FilesGrow
    BY <1>1, QuietDisk, BinlogType, StopBinlogType
<1>3. HeldInv'
    BY <1>1, <1>2, HeldSame
<1>4. SortInv'
    BY <1>1, NoJobKeeps
<1>5. PromiseInv'
    BY <1>1, BoundsAssumption DEF IndInv, PromiseInv, promise
<1> QED
    BY <1>2, <1>3, <1>4, <1>5 DEF IndInv

(* eblob_generate_sorted_data, starting the binlogs.                       *)
LEMMA DatasortStartKeeps ==
    ASSUME IndInv, DatasortStart
    PROVE  IndInv'
<1>1. PICK g \in Candidates :
        /\ group' = g /\ left' = g /\ logging' = logging \cup g
        /\ logged' = [b \in Bases |-> IF b \in g THEN {} ELSE logged[b]]
    BY DEF DatasortStart
<1>2. /\ job' = "datasort" /\ UNCHANGED disk /\ UNCHANGED <<cache, op, snap, chunk>>
      /\ UNCHANGED spent /\ UNCHANGED promise
    BY DEF DatasortStart
<1>3. g \subseteq NotLast /\ NotLast \subseteq Bases /\ NotLast' = NotLast
    BY <1>2 DEF Candidates, NotLast, IndInv, DiskInv, disk
<1>4. DiskInv' /\ FilesGrow
    <2>1. logging' \in SUBSET Bases /\ logged' \in [Bases -> SUBSET Keys]
        BY <1>1, <1>3 DEF IndInv, DiskInv
    <2> QED
        BY <1>2, <2>1, QuietDisk
<1>5. HeldInv'
    BY <1>2, <1>4, HeldSame
<1>6. SortInv'
    BY <1>1, <1>2, <1>3 DEF IndInv, SortInv, SortsOldBases
<1>7. PromiseInv'
    BY <1>2 DEF IndInv, PromiseInv, spent, promise
<1> QED
    BY <1>4, <1>5, <1>6, <1>7 DEF IndInv

(* The same when one of them is on already.                                *)
LEMMA DatasortBusyKeeps ==
    ASSUME IndInv, DatasortBusy
    PROVE  IndInv'
<1> DEFINE before(g) == {b \in g : \A c \in g \cap logging : place[b] < place[c]}
<1>1. PICK g \in Candidates :
        /\ logging' = logging \cup before(g)
        /\ logged' = [b \in Bases |-> IF b \in before(g) THEN {} ELSE logged[b]]
    BY DEF DatasortBusy
<1>2. /\ UNCHANGED disk /\ UNCHANGED <<cache, op>> /\ UNCHANGED defrag
      /\ UNCHANGED spent /\ UNCHANGED promise
    BY DEF DatasortBusy
<1>3. before(g) \subseteq Bases
    BY <1>1 DEF Candidates, NotLast, IndInv, DiskInv
<1> HIDE DEF before
<1>4. DiskInv' /\ FilesGrow /\ SortInv'
    <2>1. logging' \in SUBSET Bases /\ logged' \in [Bases -> SUBSET Keys]
        BY <1>1, <1>3 DEF IndInv, DiskInv
    <2> QED
        BY <1>2, <2>1, QuietDisk
<1>5. HeldInv'
    BY <1>2, <1>4, HeldSame
<1>6. PromiseInv'
    BY <1>2 DEF IndInv, PromiseInv, spent, promise
<1> QED
    BY <1>4, <1>5, <1>6 DEF IndInv

(* Its error paths.                                                        *)
LEMMA DatasortAbortKeeps ==
    ASSUME IndInv, DatasortAbort
    PROVE  IndInv'
<1>1. /\ UNCHANGED disk /\ UNCHANGED <<cache, op>> /\ UNCHANGED promise
      /\ UNCHANGED spent /\ StopBinlog(group) /\ NoJob
    BY DEF DatasortAbort
<1>2. DiskInv' /\ FilesGrow
    BY <1>1, QuietDisk, StopBinlogType
<1>3. HeldInv'
    BY <1>1, <1>2, HeldSame
<1>4. SortInv'
    BY <1>1, NoJobKeeps
<1>5. PromiseInv'
    BY <1>1 DEF IndInv, PromiseInv, spent, promise
<1> QED
    BY <1>2, <1>3, <1>4, <1>5 DEF IndInv

(* datasort_split.                                                         *)
LEMMA DatasortSplitKeeps ==
    ASSUME IndInv, DatasortSplit
    PROVE  IndInv'
<1> DEFINE rec(b, i) == [base |-> b, ip |-> i, key |-> index[b][i].key,
                         flag |-> index[b][i].flag,
                         val |-> data[b][index[b][i].pos].val]
           live(b) == {j \in DOMAIN index[b] : Live(index[b][j])}
           copied(b) == {rec(b, i) : i \in live(b)}
<1>1. PICK b \in left :
        /\ left' = left \ {b}
        /\ chunk' = chunk \cup copied(b)
        /\ torn' = torn \cup {k \in Keys : op[k].pc \in {"payload", "commit"}
                                           /\ op[k].new.base = b}
    BY DEF DatasortSplit
<1>2. /\ UNCHANGED disk /\ UNCHANGED binlog /\ UNCHANGED spent
      /\ UNCHANGED <<cache, op, job, group, snap, shadow, status, failed, crossed>>
      /\ job = "datasort"
    BY DEF DatasortSplit
<1>3. /\ b \in Bases /\ index[b] \in Seq(Entry) /\ data[b] \in Seq(Record)
      /\ \A i \in DOMAIN index[b] : index[b][i].pos \in DOMAIN data[b]
    BY <1>1 DEF IndInv, DiskInv, SortInv
<1>4. /\ DOMAIN index[b] = 1 .. Len(index[b]) /\ Len(index[b]) \in Nat
      /\ DOMAIN data[b] = 1 .. Len(data[b])
    BY <1>3, LenProperties
<1>5. copied(b) \subseteq Chunk
    <2> SUFFICES ASSUME NEW i \in DOMAIN index[b]
                 PROVE  rec(b, i) \in Chunk
        OBVIOUS
    <2>1. index[b][i] \in Entry /\ data[b][index[b][i].pos] \in Record /\ i \in Nat
        BY <1>3, <1>4, ElementOfSeq
    <2> QED
        BY <1>3, <2>1 DEF Chunk, Entry, Record
<1>6. IsFiniteSet(copied(b))
    <2>1. IsFiniteSet(DOMAIN index[b])
        BY <1>4, FS_Interval
    <2>2. IsFiniteSet(live(b))
        BY <2>1, FS_Subset
    <2> DEFINE f == [i \in live(b) |-> rec(b, i)]
    <2>3. f \in Surjection(live(b), copied(b))
        <3> HIDE DEF rec, live
        <3> QED
            BY DEF Surjection
    <2> HIDE DEF f, live, copied
    <2> QED
        BY <2>2, <2>3, FS_Surjection
<1> HIDE DEF rec, live, copied
<1>7. DiskInv' /\ FilesGrow
    BY <1>2, QuietDisk, BinlogType
<1>8. HeldInv'
    BY <1>2, <1>7, HeldSame
<1>9. SortInv'
    <2>1. chunk' \in SUBSET Chunk /\ IsFiniteSet(chunk')
        BY <1>1, <1>5, <1>6, FS_Union DEF IndInv, SortInv
    <2>2. NotLast' = NotLast
        BY <1>2 DEF NotLast, disk
    <2> QED
        BY <1>1, <1>2, <2>1, <2>2 DEF IndInv, SortInv, SortsOldBases
<1>10. PromiseInv'
    BY <1>1, <1>2 DEF IndInv, PromiseInv, spent
<1> QED
    BY <1>7, <1>8, <1>9, <1>10 DEF IndInv

(* With no sort running, files may be closed and reloaded.                 *)
LEMMA IdleSortKeeps ==
    ASSUME IndInv, job = "none", UNCHANGED defrag
    PROVE  SortInv'
BY NoJobSorting DEF IndInv, SortInv, SortsOldBases, defrag

(* Emptying the files of some bases keeps the type of all.                 *)
LEMMA ClosedType ==
    ASSUME NEW S, NEW F \in [Bases -> S], NEW bs, NEW none \in S
    PROVE  /\ Closed(F, bs, none) \in [Bases -> S]
           /\ \A b \in Bases : Closed(F, bs, none)[b] = IF b \in bs THEN none ELSE F[b]
BY DEF Closed

(* eblob_base_remove of a base eblob_defrag found empty.                   *)
LEMMA RemoveBaseKeeps ==
    ASSUME IndInv, NEW b \in Bases, RemoveBase(b)
    PROVE  IndInv'
<1>1. /\ job = "none" /\ bases' = bases \ {b} /\ sorted' = sorted \ {b}
      /\ place' = Closed(place, {b}, 0)
      /\ index' = Closed(index, {b}, <<>>) /\ data' = Closed(data, {b}, <<>>)
      /\ gone' = Closed(gone, {b}, 0)
      /\ born' = born /\ UNCHANGED binlog /\ UNCHANGED <<cache, op>>
      /\ UNCHANGED defrag /\ UNCHANGED spent /\ UNCHANGED promise
    BY DEF RemoveBase
<1>2. <<>> \in Seq(Entry) /\ <<>> \in Seq(Record) /\ 0 \in Nat /\ DOMAIN <<>> = {}
    BY EmptySeq
<1>3. /\ place' \in [Bases -> Nat] /\ gone' \in [Bases -> Nat]
      /\ index' \in [Bases -> Seq(Entry)] /\ data' \in [Bases -> Seq(Record)]
      /\ \A c \in Bases : index'[c] = IF c = b THEN <<>> ELSE index[c]
      /\ \A c \in Bases : data'[c] = IF c = b THEN <<>> ELSE data[c]
    <2>1. /\ place \in [Bases -> Nat] /\ gone \in [Bases -> Nat]
          /\ index \in [Bases -> Seq(Entry)] /\ data \in [Bases -> Seq(Record)]
        BY DEF IndInv, DiskInv
    <2>2. place' \in [Bases -> Nat] /\ gone' \in [Bases -> Nat]
        BY <1>1, <1>2, <2>1, ClosedType
    <2>3. /\ index' \in [Bases -> Seq(Entry)]
          /\ \A c \in Bases : index'[c] = IF c \in {b} THEN <<>> ELSE index[c]
        BY <1>1, <1>2, <2>1 DEF Closed
    <2>4. /\ data' \in [Bases -> Seq(Record)]
          /\ \A c \in Bases : data'[c] = IF c \in {b} THEN <<>> ELSE data[c]
        BY <1>1, <1>2, <2>1 DEF Closed
    <2> QED
        BY <2>2, <2>3, <2>4
<1>4. \A c \in Bases : \A i \in DOMAIN index'[c] : index'[c][i].pos \in DOMAIN data'[c]
    BY <1>2, <1>3 DEF IndInv, DiskInv
<1>5. DiskInv'
    BY <1>1, <1>3, <1>4 DEF IndInv, DiskInv, binlog
<1>6. FilesGrow
    <2>1. bases \subseteq Bases /\ born <= born
        BY BoundsAssumption DEF IndInv, DiskInv
    <2>2. \A c \in bases' : /\ c \in bases
                            /\ index'[c] = index[c] /\ data'[c] = data[c]
        BY <1>1, <1>3, <2>1
    <2> QED
        BY <1>1, <2>1, <2>2 DEF FilesGrow
<1>7. HeldInv'
    BY <1>1, <1>5, <1>6, HeldSame
<1>8. SortInv'
    BY <1>1, IdleSortKeeps
<1>9. PromiseInv'
    BY <1>1 DEF IndInv, PromiseInv, spent, promise
<1> QED
    BY <1>5, <1>7, <1>8, <1>9 DEF IndInv

(* The merged chunks are a sequence of chunk records.                      *)
LEMMA ChunkOrder ==
    ASSUME IndInv, NEW s \in Merged
    PROVE  \E n \in Nat : s \in [1 .. n -> Chunk]
<1>1. Cardinality(chunk) \in Nat
    BY FS_CardinalityType DEF IndInv, SortInv
<1>2. s \in [1 .. Cardinality(chunk) -> chunk] /\ chunk \subseteq Chunk
    BY DEF Merged, SetToSeqs, IndInv, SortInv
<1>3. s \in [1 .. Cardinality(chunk) -> Chunk]
    BY <1>2
<1> QED
    BY <1>1, <1>3

(* datasort_swap_memory: the merged base is added, the group closed.       *)
LEMMA DatasortSwapKeeps ==
    ASSUME IndInv, DatasortSwap
    PROVE  IndInv'
<1> DEFINE flag(s, hit, i) == IF DatasortHit(s, hit, i) THEN "removed" ELSE s[i].flag
           idx(s, hit) == [i \in DOMAIN s |->
                             [key |-> s[i].key, flag |-> flag(s, hit, i), pos |-> i]]
           dat(s, hit) == [i \in DOMAIN s |->
                             [key |-> s[i].key, flag |-> flag(s, hit, i), val |-> s[i].val]]
           new == born + 1
           swapped(s, hit) ==
             /\ index' = [Closed(index, group, <<>>) EXCEPT ![new] = idx(s, hit)]
             /\ data' = [Closed(data, group, <<>>) EXCEPT ![new] = dat(s, hit)]
             /\ gone' = [Closed(gone, group, 0) EXCEPT ![new] =
                           CountRemoved(idx(s, hit))]
             /\ cache' = Flushed(idx(s, hit))
<1>0. PICK s \in Merged : \E hit : swapped(s, hit)
    BY DEF DatasortSwap
<1>1. PICK hit : s \in Merged /\ swapped(s, hit)
    BY <1>0
<1>2. PICK b \in group : place' = [Closed(place, group, 0) EXCEPT ![new] = place[b]]
    BY DEF DatasortSwap
<1>3. /\ born < MaxBases /\ born' = new /\ bases' = (bases \ group) \cup {new}
      /\ sorted' = (sorted \ group) \cup {new} /\ op' = GenerationBumped
      /\ StopBinlog(group) /\ NoJob /\ UNCHANGED spent /\ UNCHANGED promise
    BY DEF DatasortSwap
<1>4. PICK n \in Nat : s \in [1 .. n -> Chunk]
    BY <1>1, ChunkOrder
<1>5. DOMAIN s = 1 .. n /\ \A i \in 1 .. n : s[i] \in Chunk /\ i \in Nat
    BY <1>4
<1>6. /\ idx(s, hit) \in Seq(Entry) /\ DOMAIN idx(s, hit) = 1 .. n
      /\ \A i \in 1 .. n : idx(s, hit)[i].pos = i
    <2>1. \A i \in 1 .. n :
             [key |-> s[i].key, flag |-> flag(s, hit, i), pos |-> i] \in Entry
        BY <1>5 DEF Chunk, Entry, Flags
    <2>2. idx(s, hit) \in [1 .. n -> Entry]
        BY <1>5, <2>1
    <2> QED
        BY <1>5, <2>2, FunctionIsSeq
<1>7. dat(s, hit) \in Seq(Record) /\ DOMAIN dat(s, hit) = 1 .. n
    <2>1. \A i \in 1 .. n :
             [key |-> s[i].key, flag |-> flag(s, hit, i), val |-> s[i].val] \in Record
        BY <1>5 DEF Chunk, Record, Flags
    <2>2. dat(s, hit) \in [1 .. n -> Record]
        BY <1>5, <2>1
    <2> QED
        BY <1>5, <2>2, FunctionIsSeq
<1>8. CountRemoved(idx(s, hit)) \in Nat
    BY <1>6, CountRemovedType
<1> HIDE DEF idx, dat, flag
<1>9. /\ new \in Bases /\ new \in Nat /\ bases \subseteq Bases
      /\ born \in Nat /\ bases \subseteq 1 .. born /\ new \notin 1 .. born
    BY <1>3, BoundsAssumption DEF IndInv, DiskInv, Bases
<1>10. /\ place \in [Bases -> Nat] /\ gone \in [Bases -> Nat]
       /\ index \in [Bases -> Seq(Entry)] /\ data \in [Bases -> Seq(Record)]
       /\ \A c \in Bases : \A i \in DOMAIN index[c] : index[c][i].pos \in DOMAIN data[c]
    BY DEF IndInv, DiskInv
<1>11. <<>> \in Seq(Entry) /\ <<>> \in Seq(Record) /\ DOMAIN <<>> = {}
    BY EmptySeq
<1> HIDE DEF new
<1>12. /\ index' \in [Bases -> Seq(Entry)]
       /\ \A c \in Bases : index'[c] = IF c = new THEN idx(s, hit)
                                       ELSE IF c \in group THEN <<>> ELSE index[c]
    BY <1>1, <1>6, <1>9, <1>10, <1>11 DEF Closed
<1>13. /\ data' \in [Bases -> Seq(Record)]
       /\ \A c \in Bases : data'[c] = IF c = new THEN dat(s, hit)
                                      ELSE IF c \in group THEN <<>> ELSE data[c]
    BY <1>1, <1>7, <1>9, <1>10, <1>11 DEF Closed
<1>14. gone' \in [Bases -> Nat]
    BY <1>1, <1>8, <1>9, <1>10 DEF Closed
<1>15. place' \in [Bases -> Nat]
    <2>1. b \in Bases
        BY DEF IndInv, SortInv
    <2> QED
        BY <1>2, <1>9, <1>10, <2>1 DEF Closed
<1>16. \A c \in Bases : \A i \in DOMAIN index'[c] : index'[c][i].pos \in DOMAIN data'[c]
    BY <1>6, <1>7, <1>10, <1>11, <1>12, <1>13, ZenonT(40)
<1>17. /\ born' \in 0 .. MaxBases /\ bases' \in SUBSET Bases /\ sorted' \in SUBSET Bases
       /\ bases' \subseteq 1 .. born' /\ born <= born'
       /\ \A c \in 1 .. born : c \in bases' => c \in bases \ group /\ c # new
    <2>1. sorted \in SUBSET Bases
        BY DEF IndInv, DiskInv
    <2>2. new = born + 1 /\ born' = born + 1 /\ born < MaxBases
        BY <1>3 DEF new
    <2>3. born' \in 0 .. MaxBases /\ born <= born'
        BY <1>9, <2>2, BoundsAssumption
    <2>4. bases' \subseteq 1 .. born'
        <3>1. new \in 1 .. born' /\ \A c \in 1 .. born : c \in 1 .. born'
            BY <1>9, <2>2
        <3> QED
            BY <1>3, <1>9, <3>1
    <2>5. bases' \in SUBSET Bases /\ sorted' \in SUBSET Bases
        BY <1>3, <1>9, <2>1
    <2>6. \A c \in 1 .. born : c \in bases' => c \in bases \ group /\ c # new
        BY <1>3, <1>9
    <2> QED
        BY <2>3, <2>4, <2>5, <2>6
<1>18. DiskInv'
    <2>1. logging' \in SUBSET Bases /\ logged' \in [Bases -> SUBSET Keys]
        BY <1>3, StopBinlogType
    <2> QED
        BY <1>12, <1>13, <1>14, <1>15, <1>16, <1>17, <2>1 DEF DiskInv
<1>19. FilesGrow
    BY <1>9, <1>12, <1>13, <1>17 DEF FilesGrow
<1>20. HeldInv'
    BY <1>1, <1>3, <1>18, <1>19, BumpedKeeps
<1>21. SortInv'
    BY <1>3, NoJobKeeps
<1>22. PromiseInv'
    BY <1>3 DEF IndInv, PromiseInv, spent, promise
<1> QED
    BY <1>18, <1>20, <1>21, <1>22 DEF IndInv

(* eblob_cleanup and eblob_init.                                           *)
LEMMA RestartKeeps ==
    ASSUME IndInv, Restart
    PROVE  IndInv'
<1> DEFINE unsorted == SortedOnLoad
           empty == EmptyOnLoad
<1>1. PICK idx \in [unsorted -> UNION {IndexSorted(index[b]) : b \in unsorted}] :
         /\ \A b \in unsorted : idx[b] \in IndexSorted(index[b])
         /\ index' = [b \in Bases |-> IF b \in empty THEN <<>>
                                      ELSE IF b \in unsorted THEN idx[b]
                                      ELSE index[b]]
    BY DEF Restart
<1>2. /\ job = "none" /\ data' = Closed(data, empty, <<>>)
      /\ place' = Closed(place, empty, 0)
      /\ gone' = [b \in Bases |-> CountRemoved(index'[b])]
      /\ bases' = bases \ empty /\ sorted' = (sorted \cup unsorted) \ empty
      /\ StopBinlog(Bases) /\ born' = born /\ op' = op
      /\ UNCHANGED defrag /\ UNCHANGED spent /\ UNCHANGED promise
    BY DEF Restart
<1>3. /\ cache' \in [Keys -> UNION {LoadedLocs(index', k, bases' \ sorted') : k \in Keys}]
      /\ \A k \in Keys : cache'[k] \in LoadedLocs(index', k, bases' \ sorted')
    BY DEF Restart
<1>4. unsorted \subseteq bases /\ bases \subseteq Bases
    BY DEF SortedOnLoad, IndInv, DiskInv
<1> HIDE DEF unsorted, empty
<1>5. /\ place \in [Bases -> Nat] /\ gone \in [Bases -> Nat]
      /\ index \in [Bases -> Seq(Entry)] /\ data \in [Bases -> Seq(Record)]
      /\ \A c \in Bases : \A i \in DOMAIN index[c] : index[c][i].pos \in DOMAIN data[c]
    BY DEF IndInv, DiskInv
<1>6. <<>> \in Seq(Entry) /\ <<>> \in Seq(Record) /\ DOMAIN <<>> = {}
    BY EmptySeq
<1>7. \A b \in unsorted : /\ idx[b] \in Seq(Entry) /\ DOMAIN idx[b] = DOMAIN index[b]
                          /\ \A i \in DOMAIN index[b] :
                                \E j \in DOMAIN index[b] : idx[b][i] = index[b][j]
    BY <1>1, <1>4, <1>5, IndexSortedIsPermutation, ZenonT(30)
<1>8. /\ index' \in [Bases -> Seq(Entry)]
      /\ \A c \in Bases \ empty : DOMAIN index'[c] = DOMAIN index[c]
      /\ \A c \in Bases \ empty : \A i \in DOMAIN index[c] :
            \E j \in DOMAIN index[c] : index'[c][i] = index[c][j]
      /\ \A c \in Bases \cap empty : index'[c] = <<>>
    BY <1>1, <1>4, <1>5, <1>6, <1>7
<1>9. /\ data' \in [Bases -> Seq(Record)]
      /\ \A c \in Bases \ empty : data'[c] = data[c]
      /\ place' \in [Bases -> Nat]
    BY <1>2, <1>5, <1>6 DEF Closed
<1>10. gone' \in [Bases -> Nat]
    <2>1. \A c \in Bases : CountRemoved(index'[c]) \in Nat
        BY <1>8, CountRemovedType
    <2> QED
        BY <1>2, <2>1
<1>11. \A c \in Bases : \A i \in DOMAIN index'[c] : index'[c][i].pos \in DOMAIN data'[c]
    <2> SUFFICES ASSUME NEW c \in Bases, NEW i \in DOMAIN index'[c]
                 PROVE  index'[c][i].pos \in DOMAIN data'[c]
        OBVIOUS
    <2>1. CASE c \in empty
        BY <1>6, <1>8, <2>1
    <2>2. CASE c \notin empty
        <3>1. PICK j \in DOMAIN index[c] : index'[c][i] = index[c][j]
            BY <1>8, <2>2
        <3> QED
            BY <1>5, <1>9, <2>2, <3>1
    <2> QED
        BY <2>1, <2>2
<1>12. DiskInv'
    <2>1. logging' \in SUBSET Bases /\ logged' \in [Bases -> SUBSET Keys]
        BY <1>2, StopBinlogType
    <2>2. sorted' \in SUBSET Bases
        BY <1>2, <1>4 DEF IndInv, DiskInv
    <2> QED
        BY <1>2, <1>8, <1>9, <1>10, <1>11, <2>1, <2>2 DEF IndInv, DiskInv
<1>13. FilesGrow
    <2>1. born <= born
        BY BoundsAssumption DEF IndInv, DiskInv
    <2>2. \A c \in bases' : /\ c \in bases /\ DOMAIN index'[c] = DOMAIN index[c]
                            /\ DOMAIN data'[c] = DOMAIN data[c]
        BY <1>2, <1>4, <1>8, <1>9
    <2> QED
        BY <1>2, <2>1, <2>2 DEF FilesGrow
<1>14. ASSUME NEW k \in Keys
       PROVE  cache'[k] \in Loc \cup {NoLoc} /\ (cache'[k] # NoLoc => WithinNext(cache'[k]))
    <2> DEFINE bs == bases' \ sorted'
    <2>1. CASE cache'[k] = NoLoc
        BY <2>1
    <2>2. CASE \E h \in Hits(index', k, bs) : cache'[k] = LocOf(index', h)
        <3>1. PICK h \in Hits(index', k, bs) : cache'[k] = LocOf(index', h)
            BY <2>2
        <3>2. PICK c \in bs : \E i \in DOMAIN index'[c] : h = <<c, i>>
            BY <3>1 DEF Hits
        <3>3. PICK i \in DOMAIN index'[c] : h = <<c, i>>
            BY <3>2
        <3>4. /\ c \in Bases /\ c \in 1 .. born' /\ index'[c] \in Seq(Entry)
              /\ index'[c][i].pos \in DOMAIN data'[c]
            BY <3>2, <1>12 DEF DiskInv
        <3>5. DOMAIN index'[c] = 1 .. Len(index'[c]) /\ Len(index'[c]) \in Nat
            BY <3>4, LenProperties
        <3>6. index'[c][i] \in Entry /\ i \in Nat
            BY <3>4, <3>5, ElementOfSeq
        <3>7. cache'[k] = [base |-> c, ip |-> i, dp |-> index'[c][i].pos]
            BY <3>1, <3>3 DEF LocOf
        <3> QED
            BY <3>4, <3>6, <3>7 DEF Loc, Entry, WithinNext
    <2> QED
        BY <1>3, <2>1, <2>2 DEF LoadedLocs
<1>15. HeldInv'
    <2>1. cache' \in [Keys -> Loc \cup {NoLoc}]
        BY <1>3, <1>14
    <2>2. op' \in [Keys -> Op]
        BY <1>2 DEF IndInv, HeldInv
    <2>3. \A k \in Keys : Holds(op'[k])
        BY <1>2 DEF IndInv, HeldInv
    <2> QED
        BY <1>2, <1>12, <1>13, <1>14, <2>1, <2>2, <2>3, HeldKeeps DEF IndInv
<1>16. SortInv'
    BY <1>2, IdleSortKeeps
<1>17. PromiseInv'
    BY <1>2 DEF IndInv, PromiseInv, spent, promise
<1> QED
    BY <1>12, <1>15, <1>16, <1>17 DEF IndInv

-----------------------------------------------------------------------------
(* The empty store satisfies the invariant.                                *)
LEMMA InitHolds == Init => IndInv
<1> SUFFICES ASSUME Init PROVE IndInv
    OBVIOUS
<1>1. <<>> \in Seq(Entry) /\ <<>> \in Seq(Record) /\ DOMAIN <<>> = {} /\ IsFiniteSet({})
    BY EmptySeq, FS_EmptySet
<1>2. DiskInv
    <2>1. 0 \in 0 .. MaxBases /\ 0 \in Nat
        BY BoundsAssumption
    <2>2. \A b \in Bases : index[b] = <<>> /\ data[b] = <<>>
        BY DEF Init
    <2>3. \A b \in Bases : \A i \in DOMAIN index[b] : index[b][i].pos \in DOMAIN data[b]
        BY <1>1, <2>2
    <2> QED
        BY <1>1, <2>1, <2>3 DEF Init, DiskInv
<1>3. HeldInv
    BY IdleOp DEF Init, HeldInv
<1>4. SortInv
    BY <1>1 DEF Init, SortInv, SortsOldBases
<1>5. PromiseInv
    <2>1. 0 \in 0 .. MaxFailures /\ 0 \in 0 .. MaxOps /\ Junk \in Payload
        BY PayloadTypes, BoundsAssumption
    <2> HIDE DEF Junk
    <2> QED
        BY <2>1 DEF Init, PromiseInv
<1> QED
    BY <1>2, <1>3, <1>4, <1>5 DEF IndInv

(* A step of nobody keeps the invariant.                                   *)
LEMMA StutterKeeps ==
    ASSUME IndInv, UNCHANGED vars
    PROVE  IndInv'
<1>1. /\ UNCHANGED disk /\ UNCHANGED binlog /\ UNCHANGED <<cache, op>>
      /\ UNCHANGED defrag /\ UNCHANGED spent /\ UNCHANGED promise
    BY DEF vars
<1>2. DiskInv' /\ FilesGrow /\ SortInv'
    BY <1>1, QuietDisk, BinlogType
<1>3. HeldInv'
    BY <1>1, <1>2, HeldSame
<1>4. PromiseInv'
    BY <1>1 DEF IndInv, PromiseInv, spent, promise
<1> QED
    BY <1>2, <1>3, <1>4 DEF IndInv

(* Every step keeps the invariant.                                         *)
LEMMA StepKeeps == IndInv /\ [Next]_vars => IndInv'
<1> SUFFICES ASSUME IndInv, [Next]_vars PROVE IndInv'
    OBVIOUS
<1>1. ASSUME NEW k \in Keys, Client(k)
      PROVE  IndInv'
    <2>1. {"write", "patch"} \cap Workload \subseteq Kinds
        BY DEF Kinds
    <2>2. CASE \E v \in Vals, wr \in {"write", "patch"} \cap Workload :
                  Overwrite(k, wr, v) \/ StartWrite(k, wr, v)
        BY <2>1, <2>2, OverwriteKeeps, StartWriteKeeps
    <2>3. CASE StartPrepare(k)
        BY <2>3, StartPrepareKeeps
    <2>4. CASE PrepareDisk(k) \/ PrepareError(k)
        BY <2>4, PrepareDiskKeeps, PrepareErrorKeeps
    <2>5. CASE WritePayload(k) \/ CommitWrite(k)
        BY <2>5, WritePayloadKeeps, CommitWriteKeeps
    <2>6. CASE CommitRam(k) \/ FailWrite(k)
        BY <2>6, CommitRamKeeps, FailWriteKeeps
    <2>7. CASE \E v \in Vals : PlainWrite(k, v)
        BY <2>7, PlainWriteKeeps
    <2>8. CASE \E keep \in BOOLEAN : Commit(k, keep)
        BY <2>8, CommitKeeps
    <2>9. CASE RemoveLookup(k) \/ RemoveMark(k)
        BY <2>9, RemoveLookupKeeps, RemoveMarkKeeps
    <2> QED
        BY <1>1, <2>2, <2>3, <2>4, <2>5, <2>6, <2>7, <2>8, <2>9 DEF Client, Write
<1>2. CASE Indexsort
    BY <1>2, IndexsortStartKeeps, IndexsortSwapKeeps, IndexsortFailKeeps DEF Indexsort
<1>3. CASE Datasort
    BY <1>3, DatasortStartKeeps, DatasortBusyKeeps, DatasortSplitKeeps,
       DatasortSwapKeeps, DatasortAbortKeeps DEF Datasort
<1>4. CASE \E b \in Bases : RemoveBase(b)
    BY <1>4, RemoveBaseKeeps
<1>5. CASE Restart
    BY <1>5, RestartKeeps
<1>6. CASE UNCHANGED vars
    BY <1>6, StutterKeeps
<1> QED
    BY <1>1, <1>2, <1>3, <1>4, <1>5, <1>6 DEF Next

(* The inductive invariant holds in every reachable state.                 *)
THEOREM Inductive == Spec => []IndInv
BY InitHolds, StepKeeps, PTL DEF Spec

(* Only bases are ever short of their last record.                         *)
LEMMA ShortKeeps == IndInv /\ ShortInv /\ [Next]_vars => ShortInv'
<1> SUFFICES ASSUME IndInv, short \in SUBSET Bases, [Next]_vars
             PROVE  short' \in SUBSET Bases
    BY DEF ShortInv
<1>1. ASSUME NEW l \in NewLocs, NEW allocated \in BOOLEAN, short' = Reserved(l, allocated)
      PROVE  short' \in SUBSET Bases
    <2>1. l \in Loc
        BY NewLocFree DEF IndInv
    <2>2. l.base \in Bases
        BY <2>1 DEF Loc
    <2> QED
        BY <1>1, <2>2 DEF Reserved
<1>2. ASSUME NEW l, short' = Footed(l)
      PROVE  short' \in SUBSET Bases
    BY <1>2 DEF Footed
<1>3. ASSUME NEW k \in Keys, Client(k)
      PROVE  short' \in SUBSET Bases
    <2>1. CASE \E v \in Vals, wr \in {"write", "patch"} \cap Workload :
                  Overwrite(k, wr, v) \/ StartWrite(k, wr, v)
        BY <2>1, <1>2 DEF Overwrite, StartWrite
    <2>2. CASE StartPrepare(k) \/ PrepareError(k) \/ WritePayload(k) \/ CommitRam(k)
        BY <2>2 DEF StartPrepare, PrepareError, WritePayload, CommitRam
    <2>3. CASE PrepareDisk(k)
        BY <2>3, <1>1, BoundsAssumption DEF PrepareDisk, IndInv, HeldInv, Op
    <2>4. CASE CommitWrite(k) \/ FailWrite(k)
        BY <2>4, <1>2 DEF CommitWrite, FailWrite
    <2>5. CASE \E v \in Vals : PlainWrite(k, v)
        BY <2>5, <1>1 DEF PlainWrite
    <2>6. CASE \E keep \in BOOLEAN : Commit(k, keep)
        BY <2>6, <1>1, <1>2 DEF Commit
    <2>7. CASE RemoveLookup(k) \/ RemoveMark(k)
        BY <2>7 DEF RemoveLookup, RemoveMark
    <2> QED
        BY <1>3, <2>1, <2>2, <2>3, <2>4, <2>5, <2>6, <2>7 DEF Client, Write
<1>4. CASE Indexsort
    BY <1>4 DEF Indexsort, IndexsortStart, IndexsortSwap, IndexsortFail
<1>5. CASE Datasort
    BY <1>5 DEF Datasort, DatasortStart, DatasortBusy, DatasortSplit, DatasortSwap,
                DatasortAbort
<1>6. CASE (\E b \in Bases : RemoveBase(b)) \/ Restart
    BY <1>6 DEF RemoveBase, Restart
<1>7. CASE UNCHANGED vars
    BY <1>7 DEF vars
<1> QED
    BY <1>3, <1>4, <1>5, <1>6, <1>7 DEF Next

LEMMA InductiveAndShort == Spec => [](IndInv /\ ShortInv)
<1>1. Init => ShortInv
    BY DEF Init, ShortInv
<1> QED
    BY <1>1, InitHolds, StepKeeps, ShortKeeps, PTL DEF Spec

(* Every variable has its type, whatever the keys, values and bounds. *)
THEOREM TypeCorrect == Spec => []TypeOK
BY InductiveAndShort, IndInvMeaning, PTL

(* No offset kept across an unlock - in the hash, in an index entry, in an *)
(* operation in flight - ever points outside the files of an open base.    *)
THEOREM OffsetsInBounds == Spec => []LocsInBounds
BY InductiveAndShort, IndInvMeaning, PTL

(* The bases a sort works on take no records while it works, so the index *)
(* it swaps in has an entry for every entry of the one it replaces.        *)
THEOREM SortedBasesAreOld == Spec => []SortsOldBases
BY InductiveAndShort, IndInvMeaning, PTL

-----------------------------------------------------------------------------
(***************************************************************************)
(* What the records of EblobStore promise, for every set of keys and       *)
(* values and every bound: no key has two live records, the hash leads to  *)
(* the live one, headers and index entries agree, the counters are exact,  *)
(* and what was acknowledged is what is read.                              *)
(*                                                                         *)
(* The argument rests on where records may be added: only to the last      *)
(* base, while a sort works only on bases before it.  So while its binlog  *)
(* is on a base only loses records, a key in the binlog has none left      *)
(* there, and a sorted copy with the binlog applied has exactly the        *)
(* entries of the index it replaces, in another order.  Whoever holds a    *)
(* location then holds the live record of its key, except for those an     *)
(* index sort has overtaken (crossed), for which nothing is claimed.       *)
(*                                                                         *)
(* A key whose write failed is used again only if no I/O failures are      *)
(* injected (RetryAssumed): after an injected failure the hash may lead to *)
(* a removed record, and nothing is claimed for a client that goes on.     *)
(***************************************************************************)

RetryAssumed == Retry => MaxFailures = 0

(* Keys given up by their client: nothing is claimed about their place in  *)
(* the hash.                                                               *)
Abandoned == IF Retry THEN {} ELSE failed

LiveEntry(k, b, i) ==
    /\ b \in bases /\ i \in DOMAIN index[b]
    /\ index[b][i].key = k /\ Live(index[b][i])

NoRecord(k) == \A b \in bases : \A i \in DOMAIN index[b] : ~LiveEntry(k, b, i)

ValueAt(b, i) == data[b][index[b][i].pos].val

-----------------------------------------------------------------------------
(* The inductive invariant, part by part. *)
(* The list of bases: there is a last one, no two have the same place, a   *)
(* closed one has no files, and binlogs are on only before the last.       *)
Layout ==
    /\ bases = {} \/ \E c \in bases : \A b \in bases : place[b] <= place[c]
    /\ \A b \in Bases \ bases : index[b] = <<>> /\ data[b] = <<>> /\ gone[b] = 0
    /\ logging \subseteq 1 .. born
    /\ sorted \subseteq bases
    /\ \A b \in bases : place[b] \in 1 .. born
    /\ \A b, c \in bases : place[b] = place[c] => b = c
    /\ logging \cap bases \subseteq NotLast
    /\ group \subseteq logging

(* The index of a base and its data file. *)
FilesAgree ==
    \A b \in bases :
        /\ \A i, j \in DOMAIN index[b] : index[b][i].pos = index[b][j].pos => i = j
        /\ \A i \in DOMAIN index[b] :
              /\ data[b][index[b][i].pos].key = index[b][i].key
              /\ Live(data[b][index[b][i].pos]) <=> Live(index[b][i])

(* One live record of a key. *)
Once ==
    \A k \in Keys : \A b, c \in bases : \A i \in DOMAIN index[b], j \in DOMAIN index[c] :
        LiveEntry(k, b, i) /\ LiveEntry(k, c, j) => b = c /\ i = j

Exact == \A b \in bases : gone[b] = CountRemoved(index[b])

(* What the binlogs say. *)
LoggedGone ==
    /\ \A b \in logging \cap bases : \A k \in logged[b] : \A i \in DOMAIN index[b] :
          ~LiveEntry(k, b, i)
    /\ \A b, c \in group : \A k \in logged[b] : \A i \in DOMAIN index[c] :
          ~LiveEntry(k, c, i)

(* r has the entries of s, but those that were marked meanwhile.  ks are   *)
(* the keys in the binlog.                                                 *)
SameBut(r, s, ks) ==
    /\ DOMAIN r = DOMAIN s
    /\ \A i, j \in DOMAIN r : r[i].pos = r[j].pos => i = j
    /\ \A i \in DOMAIN r : \E j \in DOMAIN s :
          /\ r[i].key = s[j].key /\ r[i].pos = s[j].pos
          /\ r[i].key \notin ks => r[i] = s[j]
    /\ \A j \in DOMAIN s : \E i \in DOMAIN r :
          /\ r[i].key = s[j].key /\ r[i].pos = s[j].pos
          /\ r[i].key \notin ks => r[i] = s[j]

(* The copy an index sort works on. *)
SnapGood ==
    job = "indexsort" => \E b \in Bases :
        /\ group = {b}
        /\ SameBut(snap, index[b], logged[b])
        /\ RemovedFirst(snap)
        /\ \A i, j \in DOMAIN snap :
              Live(snap[i]) /\ Live(snap[j]) /\ snap[i].key = snap[j].key => i = j

(* The records a datasort has copied. *)
ChunkGood ==
    /\ job # "datasort" => chunk = {} /\ left = {}
    /\ \A c \in chunk :
          /\ c.base \in group \ left /\ c.ip \in DOMAIN index[c.base]
          /\ c.key = index[c.base][c.ip].key /\ Live(c)
          /\ c.key \notin logged[c.base] => index[c.base][c.ip].flag = c.flag
          /\ c.key \notin Suspect \cup logged[c.base] => ValueAt(c.base, c.ip) = c.val
    /\ \A c, d \in chunk : c.key = d.key => c = d
    /\ \A b \in group \ left : \A i \in DOMAIN index[b] :
          job = "datasort" /\ Live(index[b][i]) => \E c \in chunk : c.base = b /\ c.ip = i
    /\ \A k \in Keys : job = "datasort" /\ op[k].pc = "payload"
                       /\ op[k].new.base \in group \ left => k \in torn

(* The hash leads to the live record of the key, and knows those the       *)
(* sorted indexes do not.                                                  *)
CacheGood(k) ==
    /\ cache[k] # NoLoc => LiveAt(k, cache[k])
    /\ \A b \in bases \ sorted : \A i \in DOMAIN index[b] :
          LiveEntry(k, b, i) => cache[k] = [base |-> b, ip |-> i, dp |-> index[b][i].pos]

Writing(k) == op[k].pc \in {"payload", "commit", "ram"}

(* What an operation in flight holds. *)
HeldGood(k) ==
    /\ ~Writing(k) => CacheGood(k)
    /\ op[k].pc = "prep" /\ ~op[k].moved =>
          IF op[k].old = NoLoc THEN NoRecord(k) ELSE LiveAt(k, op[k].old)
    /\ op[k].pc = "remove" /\ op[k].old.base \in bases => LiveAt(k, op[k].old)
    /\ Writing(k) =>
          IF op[k].new.base \in bases
          THEN /\ LiveAt(k, op[k].new)
               /\ op[k].pc # "ram" =>
                     index[op[k].new.base][op[k].new.ip].flag = "committed"
          ELSE /\ cache[k] = NoLoc
               /\ \A b \in bases \ sorted : \A i \in DOMAIN index[b] : ~LiveEntry(k, b, i)

(* What the record of a key contains. *)
Former(k) == IF status[k] = "absent" THEN Junk ELSE shadow[k]

NewValue(k) == data[op[k].new.base][op[k].new.dp].val

ValueGood(k) ==
    /\ ~Writing(k) =>
          /\ NoRecord(k) <=> status[k] = "absent"
          /\ \A b \in bases : \A i \in DOMAIN index[b] : LiveEntry(k, b, i) =>
                /\ ValueAt(b, i) = shadow[k]
                /\ status[k] # "hidden" => index[b][i].flag = "committed"
    /\ op[k].pc = "prep" /\ op[k].kind # "write" => (op[k].copy <=> status[k] # "absent")
    /\ op[k].pc = "prep" /\ op[k].kind = "write" => ~op[k].copy
    /\ Writing(k) /\ op[k].new.base \in bases =>
          /\ op[k].pc = "payload" /\ op[k].kind # "write" => NewValue(k) = Former(k)
          /\ op[k].pc = "commit" => NewValue(k) = Expected(k, op[k].kind, op[k].val)
          /\ op[k].pc = "ram" => NewValue(k) = Former(k)

RecInv ==
    /\ Layout /\ FilesAgree /\ Once /\ Exact /\ LoggedGone /\ SnapGood /\ ChunkGood
    /\ \A k \in Keys : /\ k \in Abandoned => op[k] = Idle
                       /\ k \notin Abandoned => HeldGood(k)
                       /\ k \notin Suspect => ValueGood(k)

-----------------------------------------------------------------------------
(* Reading the files. *)

(* What an index has is an entry, and what it points to is a record.       *)
LEMMA EntryFacts ==
    ASSUME DiskInv, NEW b \in bases, NEW i \in DOMAIN index[b]
    PROVE  /\ b \in Bases /\ i \in Nat /\ index[b][i] \in Entry
           /\ index[b][i].pos \in DOMAIN data[b]
           /\ data[b][index[b][i].pos] \in Record
           /\ [base |-> b, ip |-> i, dp |-> index[b][i].pos] \in Loc
<1>1. /\ b \in Bases /\ index[b] \in Seq(Entry) /\ data[b] \in Seq(Record)
      /\ index[b][i].pos \in DOMAIN data[b]
    BY DEF DiskInv
<1>2. index[b][i] \in Entry /\ i \in Nat
    <2>1. DOMAIN index[b] = 1 .. Len(index[b]) /\ Len(index[b]) \in Nat
        BY <1>1, LenProperties
    <2> QED
        BY <1>1, <2>1, ElementOfSeq
<1>3. data[b][index[b][i].pos] \in Record
    BY <1>1, LenProperties, ElementOfSeq
<1>4. index[b][i].pos \in Nat
    BY <1>2 DEF Entry
<1> QED
    BY <1>1, <1>2, <1>3, <1>4 DEF Loc

(* A location of a live record is an entry of its base.                    *)
LEMMA LiveAtEntry ==
    ASSUME NEW k, NEW l, LiveAt(k, l)
    PROVE  /\ LiveEntry(k, l.base, l.ip)
           /\ l.base \in bases /\ l.ip \in DOMAIN index[l.base]
           /\ index[l.base][l.ip].pos = l.dp
BY DEF LiveAt, LiveEntry

(* Two locations of live records of one key are the same.                  *)
LEMMA OneLocation ==
    ASSUME Once, NEW k \in Keys, NEW l \in Loc, NEW b \in bases,
           NEW i \in DOMAIN index[b], LiveAt(k, l), LiveEntry(k, b, i)
    PROVE  /\ l.base = b /\ l.ip = i /\ l.dp = index[b][i].pos
           /\ l = [base |-> b, ip |-> i, dp |-> index[b][i].pos]
<1>1. l.base = b /\ l.ip = i /\ l.dp = index[b][i].pos
    BY LiveAtEntry DEF Once
<1>2. l = [base |-> l.base, ip |-> l.ip, dp |-> l.dp]
    BY DEF Loc
<1> QED
    BY <1>1, <1>2

(* The members of Hits are the live entries.                               *)
LEMMA HitsAreLive ==
    ASSUME NEW k \in Keys, NEW bs, bs \subseteq bases
    PROVE  /\ \A h \in Hits(index, k, bs) :
                 \E b \in bs : \E i \in DOMAIN index[b] :
                    h = <<b, i>> /\ LiveEntry(k, b, i)
           /\ \A b \in bs : \A i \in DOMAIN index[b] :
                 LiveEntry(k, b, i) => <<b, i>> \in Hits(index, k, bs)
<1>1. ASSUME NEW h \in Hits(index, k, bs)
      PROVE  \E b \in bs : \E i \in DOMAIN index[b] :
                h = <<b, i>> /\ LiveEntry(k, b, i)
    BY <1>1 DEF Hits, LiveEntry
<1>2. ASSUME NEW b \in bs, NEW i \in DOMAIN index[b], LiveEntry(k, b, i)
      PROVE  <<b, i>> \in Hits(index, k, bs)
    BY <1>2 DEF Hits, LiveEntry
<1> QED
    BY <1>1, <1>2

(* eblob_cache_lookup of a key whose place in the hash is right: what it   *)
(* returns is the live record of the key, and -ENOENT means there is none. *)
LEMMA FoundFacts ==
    ASSUME IndInv, Once, Layout, NEW k \in Keys, CacheGood(k)
    PROVE  /\ \A l \in Found(k) : l \in Loc /\ LiveAt(k, l) /\ ~NoRecord(k)
           /\ Found(k) = {} => NoRecord(k)
<1>1. CASE cache[k] # NoLoc
    <2>1. Found(k) = {cache[k]} /\ LiveAt(k, cache[k]) /\ cache[k] \in Loc
        BY <1>1 DEF Found, CacheGood, IndInv, HeldInv
    <2> QED
        BY <2>1, LiveAtEntry DEF NoRecord
<1>2. CASE cache[k] = NoLoc
    <2> DEFINE hits == Hits(index, k, bases \cap sorted)
    <2>1. Found(k) = {LocOf(index, h) : h \in
             {g \in hits : \A f \in hits : place[f[1]] <= place[g[1]]}}
        BY <1>2 DEF Found, DiskLookup
    <2>2. /\ \A h \in hits : \E b \in bases : \E i \in DOMAIN index[b] :
                h = <<b, i>> /\ LiveEntry(k, b, i)
          /\ \A b \in bases \cap sorted : \A i \in DOMAIN index[b] :
                LiveEntry(k, b, i) => <<b, i>> \in hits
        BY HitsAreLive
    <2> HIDE DEF hits
    <2>3. ASSUME NEW l \in Found(k)
          PROVE  l \in Loc /\ LiveAt(k, l) /\ ~NoRecord(k)
        <3>1. PICK h \in hits : l = LocOf(index, h)
            BY <2>1
        <3>2. PICK b \in bases : \E i \in DOMAIN index[b] :
                 h = <<b, i>> /\ LiveEntry(k, b, i)
            BY <2>2
        <3>3. PICK i \in DOMAIN index[b] : h = <<b, i>> /\ LiveEntry(k, b, i)
            BY <3>2
        <3>4. l = [base |-> b, ip |-> i, dp |-> index[b][i].pos]
            BY <3>1, <3>3 DEF LocOf
        <3>5. l \in Loc
            BY <3>4, EntryFacts DEF IndInv
        <3> QED
            BY <3>3, <3>4, <3>5 DEF LiveAt, LiveEntry, NoRecord
    <2>4. ASSUME Found(k) = {}
          PROVE  NoRecord(k)
        <3> SUFFICES ASSUME NEW b \in bases, NEW i \in DOMAIN index[b],
                            LiveEntry(k, b, i)
                     PROVE  FALSE
            BY DEF NoRecord
        <3>1. b \in sorted
            <4>1. [base |-> b, ip |-> i, dp |-> index[b][i].pos] \in Loc
                BY EntryFacts DEF IndInv
            <4> QED
                BY <1>2, <4>1, NoValueAssumption DEF CacheGood
        <3>2. <<b, i>> \in hits
            BY <2>2, <3>1
        <3>3. \A h \in hits : h = <<b, i>>
            BY <2>2 DEF Once
        <3>4. place[b] <= place[b]
            <4>1. place[b] \in Nat
                BY DEF IndInv, DiskInv
            <4> QED
                BY <4>1
        <3>5. \A f \in hits : place[f[1]] <= place[<<b, i>>[1]]
            BY <3>3, <3>4
        <3> QED
            BY <2>1, <2>4, <3>2, <3>5
    <2> QED
        BY <2>3, <2>4
<1> QED
    BY <1>1, <1>2

-----------------------------------------------------------------------------
(* What the invariant says, in the terms of the runs. *)

(* What a write or a remove works on under its lock is the live record.    *)
LEMMA OldLocsLive ==
    ASSUME IndInv, RecInv, NEW k \in Keys \ Abandoned, op[k].pc = "prep",
           NEW l \in OldLocs(k)
    PROVE  IF l = NoLoc THEN NoRecord(k) ELSE l \in Loc /\ LiveAt(k, l)
<1>1. HeldGood(k) /\ CacheGood(k)
    BY DEF RecInv, HeldGood, Writing
<1>2. CASE ~op[k].moved
    <2>1. l = op[k].old
        BY <1>2 DEF OldLocs
    <2>2. l = NoLoc \/ l \in Loc
        BY <2>1 DEF IndInv, HeldInv, Op
    <2> QED
        BY <1>1, <1>2, <2>1, <2>2 DEF HeldGood
<1>3. CASE op[k].moved
    <2>1. Found(k) = {} => l = NoLoc
        BY <1>3 DEF OldLocs
    <2>2. Found(k) # {} => l \in Found(k)
        BY <1>3 DEF OldLocs
    <2>3. /\ \A m \in Found(k) : m \in Loc /\ LiveAt(k, m) /\ ~NoRecord(k)
          /\ Found(k) = {} => NoRecord(k)
        BY <1>1, FoundFacts DEF RecInv
    <2> QED
        BY <2>1, <2>2, <2>3, NoValueAssumption
<1> QED
    BY <1>2, <1>3

(* Once the index says there is no record, there are no hits.              *)
LEMMA NoRecordNoHits ==
    ASSUME NEW k \in Keys, NoRecord(k)
    PROVE  Hits(index, k, bases) = {}
BY HitsAreLive DEF NoRecord

(* The record a key has is what is read, or nothing is.                    *)
LEMMA ReadFacts ==
    ASSUME IndInv, RecInv, NEW k \in Keys \ Suspect, op[k] = Idle
    PROVE  /\ status[k] = "visible" => Read(k) = shadow[k]
           /\ status[k] = "absent" => Read(k) = Absent
<1>1. k \notin Abandoned /\ ~Writing(k)
    BY DEF Suspect, Abandoned, Writing, Idle
<1>2. HeldGood(k) /\ CacheGood(k) /\ ValueGood(k)
    BY <1>1 DEF RecInv, HeldGood
<1>3. /\ \A l \in Found(k) : l \in Loc /\ LiveAt(k, l) /\ ~NoRecord(k)
      /\ Found(k) = {} => NoRecord(k)
    BY <1>2, FoundFacts DEF RecInv
<1>4. ASSUME status[k] = "absent"
      PROVE  Read(k) = Absent
    <2>1. Found(k) = {}
        BY <1>1, <1>2, <1>3, <1>4 DEF ValueGood
    <2> QED
        BY <2>1 DEF Read
<1>5. ASSUME status[k] = "visible"
      PROVE  Read(k) = shadow[k]
    <2> DEFINE l == CHOOSE l \in Found(k) : TRUE
    <2>1. Found(k) # {} /\ l \in Found(k)
        BY <1>1, <1>2, <1>3, <1>5 DEF ValueGood
    <2>2. LiveAt(k, l)
        BY <1>3, <2>1
    <2> HIDE DEF l
    <2>3. l.base \in bases /\ l.ip \in DOMAIN index[l.base] /\ LiveEntry(k, l.base, l.ip)
        BY <2>2, LiveAtEntry
    <2>4. index[l.base][l.ip].flag = "committed" /\ ValueAt(l.base, l.ip) = shadow[k]
        BY <1>1, <1>2, <1>5, <2>3 DEF ValueGood
    <2>5. data[l.base][l.dp].val = shadow[k]
        BY <2>2, <2>4 DEF LiveAt, ValueAt
    <2> QED
        BY <2>1, <2>3, <2>4, <2>5 DEF Read, l
<1> QED
    BY <1>4, <1>5

(* The invariant implies the properties TLC checks.                        *)
LEMMA RecInvMeans ==
    ASSUME IndInv, RecInv
    PROVE  /\ AckedReadable /\ OneLive /\ CacheMatchesDisk
           /\ HeaderMatchesIndex /\ OldValid /\ FrozenWhileSorting /\ CountExact
<1>1. AckedReadable
    BY ReadFacts DEF AckedReadable
<1>2. OneLive
    <2> SUFFICES ASSUME NEW k \in Keys
                 PROVE  Cardinality(Hits(index, k, bases)) <= 1
        BY DEF OneLive
    <2> DEFINE hits == Hits(index, k, bases)
    <2>1. \A g, h \in hits : g = h
        <3>1. \A h \in hits : \E b \in bases : \E i \in DOMAIN index[b] :
                 h = <<b, i>> /\ LiveEntry(k, b, i)
            BY HitsAreLive
        <3> HIDE DEF hits
        <3> QED
            BY <3>1 DEF RecInv, Once
    <2> HIDE DEF hits
    <2>2. CASE hits = {}
        BY <2>2, FS_EmptySet DEF hits
    <2>3. CASE hits # {}
        <3>1. PICK h : hits = {h}
            BY <2>1, <2>3
        <3>2. Cardinality({h}) = 1
            BY FS_Singleton
        <3> QED
            BY <3>1, <3>2 DEF hits
    <2> QED
        BY <2>2, <2>3
<1>3. CacheMatchesDisk
    <2> SUFFICES ASSUME NEW k \in Keys \ Suspect, op[k].pc \in {"idle", "prep", "remove"}
                 PROVE  /\ cache[k] # NoLoc => LiveAt(k, cache[k])
                        /\ \A h \in Hits(index, k, bases \ sorted) :
                              cache[k] = LocOf(index, h)
        BY DEF CacheMatchesDisk
    <2>1. CacheGood(k)
        BY DEF RecInv, HeldGood, Writing, Suspect, Abandoned
    <2>2. ASSUME NEW h \in Hits(index, k, bases \ sorted)
          PROVE  cache[k] = LocOf(index, h)
        <3>1. PICK b \in bases \ sorted : \E i \in DOMAIN index[b] :
                 h = <<b, i>> /\ LiveEntry(k, b, i)
            BY <2>2, HitsAreLive
        <3>2. PICK i \in DOMAIN index[b] : h = <<b, i>> /\ LiveEntry(k, b, i)
            BY <3>1
        <3> QED
            BY <2>1, <3>2 DEF CacheGood, LocOf
    <2> QED
        BY <2>1, <2>2 DEF CacheGood
<1>4. HeaderMatchesIndex
    BY EntryFacts DEF HeaderMatchesIndex, RecInv, FilesAgree, IndInv
<1>5. OldValid
    <2> SUFFICES ASSUME NEW k \in Keys \ Suspect
                 PROVE  /\ op[k].pc = "prep" => \A l \in OldLocs(k) :
                              IF l = NoLoc THEN Hits(index, k, bases) = {}
                                           ELSE LiveAt(k, l)
                        /\ op[k].pc = "remove" /\ op[k].old.base \in bases =>
                              LiveAt(k, op[k].old)
        BY DEF OldValid
    <2>1. k \notin Abandoned /\ HeldGood(k)
        BY DEF RecInv, Suspect, Abandoned
    <2>2. ASSUME op[k].pc = "prep", NEW l \in OldLocs(k)
          PROVE  IF l = NoLoc THEN Hits(index, k, bases) = {} ELSE LiveAt(k, l)
        <3>1. IF l = NoLoc THEN NoRecord(k) ELSE l \in Loc /\ LiveAt(k, l)
            BY <2>1, <2>2, OldLocsLive
        <3> QED
            BY <3>1, NoRecordNoHits
    <2> QED
        BY <2>1, <2>2 DEF HeldGood
<1>6. FrozenWhileSorting
    <2>1. ASSUME job = "indexsort", NEW b \in group
          PROVE  {e \in Range(snap) : e.key \notin logged[b]}
                   = {e \in Range(index[b]) : e.key \notin logged[b]}
        <3>1. SameBut(snap, index[b], logged[b])
            BY <2>1 DEF RecInv, SnapGood
        <3> QED
            BY <3>1 DEF SameBut, Range
    <2>2. ASSUME NEW c \in chunk, c.key \notin Suspect \cup logged[c.base]
          PROVE  /\ Live(index[c.base][c.ip])
                 /\ index[c.base][c.ip].key = c.key
                 /\ data[c.base][index[c.base][c.ip].pos].val = c.val
        BY <2>2 DEF RecInv, ChunkGood, ValueAt, Live
    <2> QED
        BY <2>1, <2>2 DEF FrozenWhileSorting
<1>7. CountExact
    BY DEF CountExact, RecInv, Exact
<1> QED
    BY <1>1, <1>2, <1>3, <1>4, <1>5, <1>6, <1>7

-----------------------------------------------------------------------------
(* The empty store satisfies the invariant.                                *)
LEMMA RecInit == Init => RecInv
<1> SUFFICES ASSUME Init PROVE RecInv
    OBVIOUS
<1>1. bases = {} /\ sorted = {} /\ logging = {} /\ group = {} /\ left = {} /\ chunk = {}
    BY DEF Init
<1>2. job = "none" /\ failed = {} /\ torn = {} /\ \A k \in Keys : op[k] = Idle
    BY DEF Init
<1>3. \A k \in Keys : cache[k] = NoLoc /\ status[k] = "absent"
    BY DEF Init
<1>4. \A b \in Bases : index[b] = <<>> /\ data[b] = <<>> /\ gone[b] = 0
    BY DEF Init
<1>5. Idle.pc = "idle"
    BY DEF Idle
<1>6. Layout /\ FilesAgree /\ Once /\ Exact /\ LoggedGone
    BY <1>1, <1>4 DEF Layout, FilesAgree, Once, Exact, LoggedGone
<1>7. SnapGood /\ ChunkGood
    BY <1>1, <1>2, <1>5 DEF SnapGood, ChunkGood
<1>8. \A k \in Keys : k \notin Abandoned /\ HeldGood(k) /\ ValueGood(k)
    BY <1>1, <1>2, <1>3, <1>5
       DEF Abandoned, HeldGood, CacheGood, Writing, ValueGood, NoRecord
<1> QED
    BY <1>6, <1>7, <1>8 DEF RecInv

-----------------------------------------------------------------------------
(* Steps of one client, seen from the other keys. *)

(* Nothing about key j changes: neither its operation nor its live record. *)
KeySame(j) ==
    /\ op'[j] = op[j] /\ cache'[j] = cache[j]
    /\ status'[j] = status[j] /\ shadow'[j] = shadow[j]

RecordsSame(j) ==
    /\ sorted' = sorted /\ bases \subseteq bases' /\ bases' \subseteq bases \cup {born + 1}
    /\ \A b \in bases' : \A i \in DOMAIN index'[b] :
          LiveEntry(j, b, i)' => b \in bases /\ i \in DOMAIN index[b] /\ LiveEntry(j, b, i)
    /\ \A b \in bases : \A i \in DOMAIN index[b] : LiveEntry(j, b, i) =>
          /\ i \in DOMAIN index'[b] /\ LiveEntry(j, b, i)'
          /\ index'[b][i] = index[b][i]
          /\ ValueAt(b, i)' = ValueAt(b, i)

(* LiveAt in the next state.                                               *)
LiveNext(k, l) ==
    /\ l.base \in bases' /\ l.ip \in DOMAIN index'[l.base]
    /\ index'[l.base][l.ip].key = k /\ index'[l.base][l.ip].pos = l.dp
    /\ Live(index'[l.base][l.ip])

(* A location of a live record of key j still is one.                      *)
LEMMA LiveAtSame ==
    ASSUME NEW j, NEW l, RecordsSame(j), LiveAt(j, l)
    PROVE  /\ LiveNext(j, l) /\ index'[l.base][l.ip] = index[l.base][l.ip]
           /\ data'[l.base][l.dp].val = data[l.base][l.dp].val
<1>1. /\ l.ip \in DOMAIN index'[l.base] /\ LiveEntry(j, l.base, l.ip)'
      /\ index'[l.base][l.ip] = index[l.base][l.ip]
      /\ ValueAt(l.base, l.ip)' = ValueAt(l.base, l.ip)
    BY LiveAtEntry DEF RecordsSame
<1> QED
    BY <1>1 DEF LiveAt, LiveNext, ValueAt, LiveEntry

(* A location names an open base afterwards only if it did before: new     *)
(* bases get new numbers.                                                  *)
LEMMA OldBaseSame ==
    ASSUME IndInv, NEW j, RecordsSame(j), NEW l \in Loc, Within(l)
    PROVE  l.base \in bases' <=> l.base \in bases
<1>1. l.base # born + 1
    BY DEF IndInv, DiskInv, Loc, Bases, Within
<1> QED
    BY <1>1 DEF RecordsSame

(* A key of which nothing changed keeps its place in the hash ...          *)
LEMMA CacheSame ==
    ASSUME NEW j, KeySame(j), RecordsSame(j), CacheGood(j)
    PROVE  CacheGood(j)'
<1>1. cache'[j] # NoLoc => LiveNext(j, cache'[j])
    BY LiveAtSame DEF KeySame, CacheGood
<1>2. \A b \in (bases \ sorted)' : \A i \in DOMAIN index'[b] : LiveEntry(j, b, i)' =>
         cache'[j] = [base |-> b, ip |-> i, dp |-> index'[b][i].pos]
    BY DEF KeySame, RecordsSame, CacheGood
<1> QED
    BY <1>1, <1>2 DEF CacheGood, LiveAt, LiveNext

LEMMA NoRecordSame ==
    ASSUME NEW j, RecordsSame(j)
    PROVE  NoRecord(j)' <=> NoRecord(j)
BY DEF RecordsSame, NoRecord

(* ... what its operation holds ...                                        *)
LEMMA HeldSameKey ==
    ASSUME IndInv, NEW j \in Keys, KeySame(j), RecordsSame(j), HeldGood(j)
    PROVE  HeldGood(j)'
<1>1. (Writing(j)' <=> Writing(j)) /\ op'[j] = op[j] /\ cache'[j] = cache[j]
    BY DEF KeySame, Writing
<1>2. ~Writing(j) => CacheGood(j)'
    BY CacheSame DEF HeldGood
<1>3. op[j].pc = "prep" /\ ~op[j].moved =>
         (IF op[j].old = NoLoc THEN NoRecord(j)' ELSE LiveNext(j, op[j].old))
    BY LiveAtSame, NoRecordSame DEF HeldGood
<1>4. op[j].pc = "remove" /\ op[j].old.base \in bases' => LiveNext(j, op[j].old)
    <2>1. op[j].pc = "remove" => op[j].old \in Loc /\ Within(op[j].old)
        BY DEF IndInv, HeldInv, Holds, Op
    <2> QED
        BY <2>1, OldBaseSame, LiveAtSame DEF HeldGood
<1>5. ASSUME Writing(j)
      PROVE  IF op[j].new.base \in bases'
             THEN /\ LiveNext(j, op[j].new)
                  /\ op[j].pc # "ram" =>
                        index'[op[j].new.base][op[j].new.ip].flag = "committed"
             ELSE /\ cache[j] = NoLoc
                  /\ \A b \in (bases \ sorted)' : \A i \in DOMAIN index'[b] :
                        ~LiveEntry(j, b, i)'
    <2>1. op[j].new \in Loc /\ Within(op[j].new)
        BY <1>5, NewLocHeld DEF Writing
    <2>2. op[j].new.base \in bases' <=> op[j].new.base \in bases
        BY <2>1, OldBaseSame
    <2>3. CASE op[j].new.base \in bases
        BY <1>5, <2>2, <2>3, LiveAtSame DEF HeldGood
    <2>4. CASE op[j].new.base \notin bases
        BY <1>5, <2>2, <2>4 DEF HeldGood, RecordsSame
    <2> QED
        BY <2>3, <2>4
<1> QED
    BY <1>1, <1>2, <1>3, <1>4, <1>5 DEF HeldGood, LiveAt, LiveNext

(* ... and its contents.                                                   *)
LEMMA ValueSameKey ==
    ASSUME IndInv, NEW j \in Keys, KeySame(j), RecordsSame(j), HeldGood(j), ValueGood(j)
    PROVE  ValueGood(j)'
<1>1. /\ Writing(j)' <=> Writing(j)
      /\ op'[j] = op[j] /\ status'[j] = status[j] /\ shadow'[j] = shadow[j]
    BY DEF KeySame, Writing
<1>2. /\ NoRecord(j)' <=> NoRecord(j)
      /\ \A b \in bases' : \A i \in DOMAIN index'[b] : LiveEntry(j, b, i)' =>
            /\ b \in bases /\ i \in DOMAIN index[b] /\ LiveEntry(j, b, i)
            /\ ValueAt(b, i)' = ValueAt(b, i) /\ index'[b][i] = index[b][i]
    BY NoRecordSame DEF RecordsSame
<1>3. Former(j)' = Former(j)
    BY <1>1 DEF Former
<1>4. Expected(j, op[j].kind, op[j].val)' = Expected(j, op[j].kind, op[j].val)
    BY <1>1 DEF Expected
<1>5. Writing(j) /\ op[j].new.base \in bases' =>
         op[j].new.base \in bases /\ NewValue(j)' = NewValue(j)
    <2>1. ASSUME Writing(j), op[j].new.base \in bases'
          PROVE  op[j].new.base \in bases /\ NewValue(j)' = NewValue(j)
        <3>1. op[j].new.base \in bases
            BY <2>1, NewLocHeld, OldBaseSame DEF Writing
        <3>2. LiveAt(j, op[j].new)
            BY <2>1, <3>1 DEF HeldGood
        <3> QED
            BY <1>1, <3>1, <3>2, LiveAtSame DEF NewValue
    <2> QED
        BY <2>1
<1>6. (~Writing(j))' =>
          /\ NoRecord(j)' <=> status'[j] = "absent"
          /\ \A b \in bases' : \A i \in DOMAIN index'[b] : LiveEntry(j, b, i)' =>
                /\ ValueAt(b, i)' = shadow'[j]
                /\ status'[j] # "hidden" => index'[b][i].flag = "committed"
    BY <1>1, <1>2 DEF ValueGood
<1>7. /\ op'[j].pc = "prep" /\ op'[j].kind # "write" =>
            (op'[j].copy <=> status'[j] # "absent")
      /\ op'[j].pc = "prep" /\ op'[j].kind = "write" => ~op'[j].copy
    BY <1>1 DEF ValueGood
<1>8. Writing(j)' /\ op'[j].new.base \in bases' =>
          /\ op'[j].pc = "payload" /\ op'[j].kind # "write" => NewValue(j)' = Former(j)'
          /\ op'[j].pc = "commit" => NewValue(j)' = Expected(j, op[j].kind, op[j].val)'
          /\ op'[j].pc = "ram" => NewValue(j)' = Former(j)'
    BY <1>1, <1>3, <1>4, <1>5 DEF ValueGood
<1> QED
    BY <1>6, <1>7, <1>8 DEF ValueGood

(* What the invariant claims of one key, and of all the files.             *)
KeyInv(k) ==
    /\ k \in Abandoned => op[k] = Idle
    /\ k \notin Abandoned => HeldGood(k)
    /\ k \notin Suspect => ValueGood(k)

FilesInv ==
    Layout /\ FilesAgree /\ Once /\ Exact /\ LoggedGone /\ SnapGood /\ ChunkGood

LEMMA RecInvParts ==
    /\ RecInv <=> FilesInv /\ \A k \in Keys : KeyInv(k)
    /\ RecInv' <=> FilesInv' /\ \A k \in Keys : KeyInv(k)'
BY DEF RecInv, FilesInv, KeyInv

(* A step of key k leaves the claims about the other keys alone.           *)
LEMMA OthersKeep ==
    ASSUME IndInv, RecInv, NEW k \in Keys,
           \A j \in Keys \ {k} : KeySame(j) /\ RecordsSame(j),
           failed' = failed \/ failed' = failed \cup {k}, torn' = torn
    PROVE  \A j \in Keys \ {k} : KeyInv(j)'
<1> SUFFICES ASSUME NEW j \in Keys \ {k} PROVE KeyInv(j)'
    OBVIOUS
<1>1. (j \in Abandoned' <=> j \in Abandoned) /\ (j \in Suspect' <=> j \in Suspect)
    BY DEF Abandoned, Suspect
<1>2. KeySame(j) /\ RecordsSame(j) /\ KeyInv(j) /\ op'[j] = op[j]
    BY RecInvParts DEF KeySame
<1>3. j \notin Suspect => j \notin Abandoned
    BY DEF Suspect, Abandoned
<1>4. j \notin Abandoned' => HeldGood(j)'
    BY <1>1, <1>2, HeldSameKey DEF KeyInv
<1>5. j \notin Suspect' => ValueGood(j)'
    BY <1>1, <1>2, <1>3, ValueSameKey DEF KeyInv
<1> QED
    BY <1>1, <1>2, <1>4, <1>5 DEF KeyInv

(* A client that calls, or is in the middle of an operation, has not given *)
(* its key up.                                                             *)
LEMMA CallerGood ==
    ASSUME IndInv, RecInv, NEW k \in Keys, Call(k) \/ op[k].pc # "idle"
    PROVE  k \notin Abandoned /\ HeldGood(k) /\ (k \notin Suspect => ValueGood(k))
<1>1. k \notin Abandoned
    BY RecInvParts DEF KeyInv, Abandoned, Call, Idle
<1> QED
    BY <1>1, RecInvParts DEF KeyInv

(* Without a change of the files nothing about them changes.               *)
LEMMA QuietFiles ==
    ASSUME IndInv, FilesInv, UNCHANGED disk, UNCHANGED binlog, UNCHANGED defrag,
           torn' = torn, failed \subseteq failed',
           \A j \in Keys : op'[j].pc = "payload" => op'[j] = op[j]
    PROVE  FilesInv' /\ \A j : RecordsSame(j)
<1> USE DEF disk, binlog, defrag
<1>1. \A j : RecordsSame(j)
    <2>1. \A k, b, i : LiveEntry(k, b, i)' <=> LiveEntry(k, b, i)
        BY DEF LiveEntry
    <2>2. \A b, i : ValueAt(b, i)' = ValueAt(b, i)
        BY DEF ValueAt
    <2> QED
        BY <2>1, <2>2 DEF RecordsSame
<1>2. Layout' /\ FilesAgree' /\ Once' /\ Exact' /\ LoggedGone'
    BY DEF FilesInv, Layout, NotLast, FilesAgree, Once, Exact, LoggedGone, LiveEntry
<1>3. SnapGood'
    BY DEF FilesInv, SnapGood
<1>4. ChunkGood'
    <2>1. Suspect \subseteq Suspect'
        BY DEF Suspect
    <2>2. \A b, i : ValueAt(b, i)' = ValueAt(b, i)
        BY DEF ValueAt
    <2> QED
        BY <2>1, <2>2 DEF FilesInv, ChunkGood
<1> QED
    BY <1>1, <1>2, <1>3, <1>4 DEF FilesInv

-----------------------------------------------------------------------------
(* Steps that change no file. *)

(* Replacing the operation of k leaves those of the others.                *)
LEMMA OtherOps ==
    ASSUME IndInv, NEW k \in Keys, NEW o, op' = [op EXCEPT ![k] = o],
           \A j \in Keys \ {k} : cache'[j] = cache[j] /\ status'[j] = status[j]
                                 /\ shadow'[j] = shadow[j]
    PROVE  op'[k] = o /\ \A j \in Keys \ {k} : op'[j] = op[j] /\ KeySame(j)
BY DEF IndInv, HeldInv, KeySame

(* A location just looked up, or none, is what the operation relies on.    *)
LEMMA StartKeeps ==
    ASSUME IndInv, RecInv, NEW k \in Keys, Call(k), NEW o \in Op,
           op' = [op EXCEPT ![k] = o], o.pc \in {"prep", "remove"},
           IF Found(k) = {} THEN o.old = NoLoc ELSE o.old \in Found(k),
           o.pc = "remove" => o.old # NoLoc,
           o.pc = "prep" => /\ o.kind # "write" => (o.copy <=> o.old # NoLoc)
                            /\ o.kind = "write" => ~o.copy,
           UNCHANGED disk, UNCHANGED binlog, cache' = cache, UNCHANGED defrag,
           UNCHANGED promise
    PROVE  RecInv'
<1> USE DEF promise
<1>1. op'[k] = o /\ \A j \in Keys \ {k} : op'[j] = op[j] /\ KeySame(j)
    BY OtherOps
<1>2. FilesInv' /\ \A j : RecordsSame(j)
    BY <1>1, QuietFiles, RecInvParts
<1>3. \A j \in Keys \ {k} : KeyInv(j)'
    BY <1>1, <1>2, OthersKeep
<1>4. k \notin Abandoned /\ HeldGood(k) /\ (k \notin Suspect => ValueGood(k))
    BY CallerGood
<1>5. ~Writing(k) /\ CacheGood(k)
    BY <1>4 DEF HeldGood, Call, Idle, Writing
<1>6. /\ \A l \in Found(k) : l \in Loc /\ LiveAt(k, l) /\ ~NoRecord(k)
      /\ Found(k) = {} => NoRecord(k)
    BY <1>5, FoundFacts DEF RecInv
<1>7. IF o.old = NoLoc THEN NoRecord(k) ELSE LiveAt(k, o.old) /\ ~NoRecord(k)
    BY <1>6, NoValueAssumption
<1>8. ~Writing(k)' /\ (k \in Abandoned' <=> k \in Abandoned)
      /\ (k \in Suspect' <=> k \in Suspect)
    BY <1>1 DEF Writing, Abandoned, Suspect
<1>9. HeldGood(k)'
    <2>1. IF o.old = NoLoc THEN NoRecord(k)' ELSE LiveNext(k, o.old)
        BY <1>2, <1>7, LiveAtSame, NoRecordSame
    <2>2. CacheGood(k)'
        BY <1>5 DEF CacheGood, LiveAt, LiveEntry, disk
    <2> QED
        BY <1>1, <1>8, <2>1, <2>2 DEF HeldGood, LiveAt, LiveNext
<1>10. k \notin Suspect => ValueGood(k)'
    <2> SUFFICES ASSUME k \notin Suspect PROVE ValueGood(k)'
        OBVIOUS
    <2>1. NoRecord(k)' <=> NoRecord(k)
        BY <1>2, NoRecordSame
    <2>2. NoRecord(k) <=> status[k] = "absent"
        BY <1>4, <1>5 DEF ValueGood
    <2>3. \A b \in bases' : \A i \in DOMAIN index'[b] : LiveEntry(k, b, i)' =>
             /\ ValueAt(b, i)' = shadow[k]
             /\ status[k] # "hidden" => index'[b][i].flag = "committed"
        BY <1>2, <1>4, <1>5, SMTT(30) DEF ValueGood, RecordsSame
    <2>4. o.old # NoLoc <=> status[k] # "absent"
        BY <1>7, <2>2
    <2> QED
        BY <1>1, <1>8, <2>1, <2>2, <2>3, <2>4 DEF ValueGood
<1>11. KeyInv(k)'
    BY <1>4, <1>8, <1>9, <1>10 DEF KeyInv
<1> QED
    BY <1>2, <1>3, <1>11, RecInvParts

(* eblob_writev_return up to the b->lock of eblob_write_prepare_disk.      *)
LEMMA StartWriteRec ==
    ASSUME IndInv, RecInv, NEW k \in Keys, NEW wr \in {"write", "patch"}, NEW v \in Vals,
           StartWrite(k, wr, v)
    PROVE  RecInv'
<1>1. /\ UNCHANGED disk /\ UNCHANGED binlog /\ cache' = cache /\ UNCHANGED defrag
      /\ UNCHANGED promise /\ Call(k)
    BY DEF StartWrite
<1>2. CASE /\ Found(k) = {}
           /\ Begin(k, [Idle EXCEPT !.pc = "prep", !.kind = wr, !.val = v])
    <2> DEFINE o == [Idle EXCEPT !.pc = "prep", !.kind = wr, !.val = v]
    <2>1. /\ o \in Op /\ o.pc = "prep" /\ o.old = NoLoc /\ o.copy = FALSE
          /\ op' = [op EXCEPT ![k] = o]
        BY <1>2, IdleOp DEF Idle, Op, Pcs, Kinds, Begin
    <2> HIDE DEF o
    <2> QED
        BY <1>1, <1>2, <2>1, StartKeeps
<1>3. CASE \E l \in Found(k) :
              Begin(k, [Idle EXCEPT !.pc = "prep", !.kind = wr, !.val = v,
                                    !.old = l, !.copy = MustCopy(wr)])
    <2>1. PICK l \in Found(k) :
             Begin(k, [Idle EXCEPT !.pc = "prep", !.kind = wr, !.val = v,
                                   !.old = l, !.copy = MustCopy(wr)])
        BY <1>3
    <2> DEFINE o == [Idle EXCEPT !.pc = "prep", !.kind = wr, !.val = v,
                                 !.old = l, !.copy = MustCopy(wr)]
    <2>2. l \in Loc /\ l # NoLoc
        BY FoundWithin, NoValueAssumption DEF IndInv
    <2>3. /\ o \in Op /\ o.pc = "prep" /\ o.old = l /\ o.kind = wr
          /\ o.copy = (wr = "patch") /\ op' = [op EXCEPT ![k] = o]
        BY <2>1, <2>2, IdleOp DEF Idle, Op, Pcs, Kinds, Begin, MustCopy
    <2> HIDE DEF o
    <2> QED
        BY <1>1, <2>1, <2>2, <2>3, StartKeeps
<1> QED
    BY <1>2, <1>3 DEF StartWrite

(* eblob_write_prepare up to the same lock.                                *)
LEMMA StartPrepareRec ==
    ASSUME IndInv, RecInv, NEW k \in Keys, StartPrepare(k)
    PROVE  RecInv'
<1>1. /\ UNCHANGED disk /\ UNCHANGED binlog /\ cache' = cache /\ UNCHANGED defrag
      /\ UNCHANGED promise /\ Call(k)
    BY DEF StartPrepare
<1>2. CASE /\ Found(k) = {}
           /\ Begin(k, [Idle EXCEPT !.pc = "prep", !.kind = "prepare"])
    <2> DEFINE o == [Idle EXCEPT !.pc = "prep", !.kind = "prepare"]
    <2>1. /\ o \in Op /\ o.pc = "prep" /\ o.old = NoLoc /\ o.copy = FALSE
          /\ op' = [op EXCEPT ![k] = o]
        BY <1>2, IdleOp DEF Idle, Op, Pcs, Kinds, Begin
    <2> HIDE DEF o
    <2> QED
        BY <1>1, <1>2, <2>1, StartKeeps
<1>3. CASE \E l \in Found(k) :
              Begin(k, [Idle EXCEPT !.pc = "prep", !.kind = "prepare",
                                    !.old = l, !.copy = TRUE])
    <2>1. PICK l \in Found(k) :
             Begin(k, [Idle EXCEPT !.pc = "prep", !.kind = "prepare",
                                   !.old = l, !.copy = TRUE])
        BY <1>3
    <2> DEFINE o == [Idle EXCEPT !.pc = "prep", !.kind = "prepare",
                                 !.old = l, !.copy = TRUE]
    <2>2. l \in Loc /\ l # NoLoc
        BY FoundWithin, NoValueAssumption DEF IndInv
    <2>3. /\ o \in Op /\ o.pc = "prep" /\ o.old = l /\ o.kind = "prepare"
          /\ o.copy = TRUE /\ op' = [op EXCEPT ![k] = o]
        BY <2>1, <2>2, IdleOp DEF Idle, Op, Pcs, Kinds, Begin
    <2> HIDE DEF o
    <2> QED
        BY <1>1, <2>1, <2>2, <2>3, StartKeeps
<1> QED
    BY <1>2, <1>3 DEF StartPrepare

(* eblob_remove, the lookup.                                               *)
LEMMA RemoveLookupRec ==
    ASSUME IndInv, RecInv, NEW k \in Keys, RemoveLookup(k)
    PROVE  RecInv'
<1>1. /\ UNCHANGED disk /\ UNCHANGED binlog /\ cache' = cache /\ UNCHANGED defrag
      /\ UNCHANGED promise /\ Call(k)
    BY DEF RemoveLookup
<1>2. PICK l \in Found(k) : Begin(k, [Idle EXCEPT !.pc = "remove", !.old = l])
    BY DEF RemoveLookup
<1> DEFINE o == [Idle EXCEPT !.pc = "remove", !.old = l]
<1>3. l \in Loc /\ l # NoLoc
    BY FoundWithin, NoValueAssumption DEF IndInv
<1>4. o \in Op /\ o.pc = "remove" /\ o.old = l /\ op' = [op EXCEPT ![k] = o]
    BY <1>2, <1>3, IdleOp DEF Idle, Op, Pcs, Begin
<1> HIDE DEF o
<1> QED
    BY <1>1, <1>2, <1>3, <1>4, StartKeeps

(* An operation that ends without having changed anything.                 *)
LEMMA EndKeeps ==
    ASSUME IndInv, RecInv, NEW k \in Keys, op[k].pc \in {"prep", "remove"},
           op' = [op EXCEPT ![k] = Idle],
           UNCHANGED disk, UNCHANGED binlog, cache' = cache, UNCHANGED defrag,
           UNCHANGED promise
    PROVE  RecInv'
<1> USE DEF promise
<1>1. op'[k] = Idle /\ \A j \in Keys \ {k} : op'[j] = op[j] /\ KeySame(j)
    BY OtherOps
<1>2. Idle.pc = "idle"
    BY DEF Idle
<1>3. FilesInv' /\ \A j : RecordsSame(j)
    BY <1>1, <1>2, QuietFiles, RecInvParts
<1>4. \A j \in Keys \ {k} : KeyInv(j)'
    BY <1>1, <1>3, OthersKeep
<1>5. k \notin Abandoned /\ HeldGood(k) /\ (k \notin Suspect => ValueGood(k))
    BY CallerGood
<1>6. ~Writing(k) /\ CacheGood(k) /\ ~Writing(k)'
    BY <1>1, <1>2, <1>5 DEF HeldGood, Writing
<1>7. CacheGood(k)'
    BY <1>6 DEF CacheGood, LiveAt, LiveEntry, disk
<1>8. HeldGood(k)'
    BY <1>1, <1>2, <1>6, <1>7 DEF HeldGood
<1>9. k \notin Suspect => ValueGood(k)'
    <2> SUFFICES ASSUME k \notin Suspect PROVE ValueGood(k)'
        OBVIOUS
    <2>1. (NoRecord(k)' <=> NoRecord(k)) /\ (NoRecord(k) <=> status[k] = "absent")
        BY <1>3, <1>5, <1>6, NoRecordSame DEF ValueGood
    <2>2. \A b \in bases' : \A i \in DOMAIN index'[b] : LiveEntry(k, b, i)' =>
             /\ ValueAt(b, i)' = shadow[k]
             /\ status[k] # "hidden" => index'[b][i].flag = "committed"
        BY <1>3, <1>5, <1>6 DEF ValueGood, RecordsSame
    <2> QED
        BY <1>1, <1>2, <1>6, <2>1, <2>2 DEF ValueGood
<1>10. KeyInv(k)'
    BY <1>1, <1>8, <1>9 DEF KeyInv, Abandoned, Suspect
<1> QED
    BY <1>3, <1>4, <1>10, RecInvParts

(* eblob_check_free_space says no.                                         *)
LEMMA PrepareErrorRec ==
    ASSUME IndInv, RecInv, NEW k \in Keys, PrepareError(k)
    PROVE  RecInv'
BY EndKeeps DEF PrepareError, End

(* A key has one record, at l, where the hash says it is.                  *)
LEMMA CacheFromRecord ==
    ASSUME IndInv', Once', NEW k \in Keys, NEW l \in Loc, LiveNext(k, l),
           cache'[k] = l
    PROVE  CacheGood(k)'
<1>1. l.base \in bases' /\ l.ip \in DOMAIN index'[l.base] /\ LiveEntry(k, l.base, l.ip)'
    BY DEF LiveNext, LiveEntry
<1>2. l = [base |-> l.base, ip |-> l.ip, dp |-> index'[l.base][l.ip].pos]
    BY DEF Loc, LiveNext
<1>3. \A b \in bases' : \A i \in DOMAIN index'[b] :
         LiveEntry(k, b, i)' => b = l.base /\ i = l.ip
    BY <1>1 DEF Once
<1> QED
    BY <1>2, <1>3 DEF CacheGood, LiveAt, LiveNext

(* An idle key with one record: what is claimed of its contents.           *)
LEMMA ValueFromRecord ==
    ASSUME Once', NEW k \in Keys, NEW l, LiveNext(k, l), op'[k].pc = "idle",
           status'[k] # "absent", data'[l.base][l.dp].val = shadow'[k],
           status'[k] # "hidden" => index'[l.base][l.ip].flag = "committed"
    PROVE  ValueGood(k)'
<1>1. l.base \in bases' /\ l.ip \in DOMAIN index'[l.base] /\ LiveEntry(k, l.base, l.ip)'
    BY DEF LiveNext, LiveEntry
<1>2. \A b \in bases' : \A i \in DOMAIN index'[b] :
         LiveEntry(k, b, i)' => b = l.base /\ i = l.ip
    BY <1>1 DEF Once
<1>3. ~NoRecord(k)' /\ ~Writing(k)' /\ ValueAt(l.base, l.ip)' = shadow'[k]
    BY <1>1 DEF NoRecord, Writing, ValueAt, LiveNext
<1> QED
    BY <1>2, <1>3 DEF ValueGood

(* eblob_commit_ram.                                                       *)
LEMMA CommitRamRec ==
    ASSUME IndInv, RecInv, IndInv', NEW k \in Keys, CommitRam(k)
    PROVE  RecInv'
<1> DEFINE l == op[k].new
<1>1. /\ op[k].pc = "ram" /\ l.base \in bases
      /\ cache' = [cache EXCEPT ![k] = l] /\ op' = [op EXCEPT ![k] = Idle]
      /\ status' = [status EXCEPT ![k] = "hidden"]
      /\ shadow' = [shadow EXCEPT ![k] = Former(k)]
      /\ UNCHANGED <<failed, torn, crossed>>
      /\ UNCHANGED disk /\ UNCHANGED binlog /\ UNCHANGED defrag
    BY DEF CommitRam, End, Promise, Former
<1>2. cache'[k] = l /\ status'[k] = "hidden" /\ shadow'[k] = Former(k)
    BY <1>1 DEF IndInv, HeldInv, PromiseInv
<1>3. op'[k] = Idle /\ \A j \in Keys \ {k} : op'[j] = op[j] /\ KeySame(j)
    <2>1. \A j \in Keys \ {k} : cache'[j] = cache[j] /\ status'[j] = status[j]
                                /\ shadow'[j] = shadow[j]
        BY <1>1 DEF IndInv, HeldInv, PromiseInv
    <2> QED
        BY <1>1, <2>1, OtherOps
<1>4. Idle.pc = "idle"
    BY DEF Idle
<1>5. FilesInv' /\ \A j : RecordsSame(j)
    BY <1>1, <1>3, <1>4, QuietFiles, RecInvParts
<1>6. \A j \in Keys \ {k} : KeyInv(j)'
    BY <1>1, <1>3, <1>5, OthersKeep
<1>7. HeldGood(k) /\ (k \notin Suspect => ValueGood(k)) /\ Writing(k) /\ l \in Loc
    BY <1>1, CallerGood, NewLocHeld DEF Writing
<1>8. LiveAt(k, l)
    BY <1>1, <1>7 DEF HeldGood
<1>9. LiveNext(k, l) /\ data'[l.base][l.dp].val = data[l.base][l.dp].val /\ Once'
    BY <1>5, <1>8, LiveAtSame DEF FilesInv
<1>10. HeldGood(k)'
    <2>1. CacheGood(k)'
        BY <1>2, <1>7, <1>9, CacheFromRecord
    <2> QED
        BY <1>3, <1>4, <2>1 DEF HeldGood, Writing
<1>11. k \notin Suspect => ValueGood(k)'
    <2> SUFFICES ASSUME k \notin Suspect PROVE ValueGood(k)'
        OBVIOUS
    <2>1. data[l.base][l.dp].val = Former(k)
        BY <1>1, <1>7 DEF ValueGood, NewValue
    <2> QED
        BY <1>2, <1>3, <1>4, <1>9, <2>1, ValueFromRecord
<1>12. KeyInv(k)'
    BY <1>1, <1>3, <1>10, <1>11 DEF KeyInv, Suspect
<1> QED
    BY <1>5, <1>6, <1>12, RecInvParts

(* A write that fails after it had its slot: the key is given up, or its   *)
(* base was closed by a merge, whose flush took the key out of the hash.   *)
LEMMA FailWriteRec ==
    ASSUME RetryAssumed, IndInv, RecInv, NEW k \in Keys, FailWrite(k)
    PROVE  RecInv'
<1>1. /\ Writing(k) /\ op' = [op EXCEPT ![k] = Idle] /\ cache' = cache
      /\ failed' = failed \cup {k} /\ shadow' = shadow /\ torn' = torn
      /\ status' = [status EXCEPT ![k] = "dirty"]
      /\ UNCHANGED disk /\ UNCHANGED binlog /\ UNCHANGED defrag
    BY DEF FailWrite, End, Writing
<1>2. op'[k] = Idle /\ \A j \in Keys \ {k} : op'[j] = op[j] /\ KeySame(j)
    <2>1. \A j \in Keys \ {k} : cache'[j] = cache[j] /\ status'[j] = status[j]
                                /\ shadow'[j] = shadow[j]
        BY <1>1 DEF IndInv, PromiseInv
    <2> QED
        BY <1>1, <2>1, OtherOps
<1>3. Idle.pc = "idle"
    BY DEF Idle
<1>4. FilesInv' /\ \A j : RecordsSame(j)
    BY <1>1, <1>2, <1>3, QuietFiles, RecInvParts
<1>5. \A j \in Keys \ {k} : KeyInv(j)'
    BY <1>1, <1>2, <1>4, OthersKeep
<1>6. k \in Suspect'
    BY <1>1 DEF Suspect
<1>7. CASE ~Retry
    <2>1. k \in Abandoned'
        BY <1>1, <1>7 DEF Abandoned
    <2> QED
        BY <1>2, <1>4, <1>5, <1>6, <2>1, RecInvParts DEF KeyInv
<1>8. CASE Retry
    <2>1. ~(failures < MaxFailures)
        BY <1>8, BoundsAssumption DEF RetryAssumed, IndInv, PromiseInv
    <2>2. op[k].new.base \notin bases
        BY <2>1 DEF FailWrite
    <2>3. HeldGood(k)
        BY <1>1, CallerGood DEF Writing
    <2>4. /\ cache[k] = NoLoc
          /\ \A b \in bases \ sorted : \A i \in DOMAIN index[b] : ~LiveEntry(k, b, i)
        BY <1>1, <2>2, <2>3 DEF HeldGood
    <2>5. CacheGood(k)'
        BY <1>1, <2>4 DEF CacheGood, LiveEntry, disk
    <2>6. HeldGood(k)'
        BY <1>2, <1>3, <2>5 DEF HeldGood, Writing
    <2> QED
        BY <1>2, <1>4, <1>5, <1>6, <2>6, RecInvParts DEF KeyInv
<1> QED
    BY <1>7, <1>8, BoundsAssumption

-----------------------------------------------------------------------------
(* Writing a record in its place. *)

(* The record of k at l gets other flags or another payload; it stays the  *)
(* live record of k.                                                       *)
Rewritten(k, l) ==
    /\ l \in Loc /\ LiveAt(k, l) /\ UNCHANGED <<bases, place, born, sorted, gone, binlog>>
    /\ \A b \in Bases \ bases : index'[b] = index[b] /\ data'[b] = data[b]
    /\ \A b \in bases : DOMAIN index'[b] = DOMAIN index[b]
    /\ \A b \in bases : \A i \in DOMAIN index[b] :
          b # l.base \/ i # l.ip => index'[b][i] = index[b][i]
    /\ \A b \in bases : \A p \in DOMAIN data[b] :
          b # l.base \/ p # l.dp => data'[b][p] = data[b][p]
    /\ index'[l.base][l.ip].key = k /\ index'[l.base][l.ip].pos = l.dp
    /\ Live(index'[l.base][l.ip])
    /\ data'[l.base][l.dp].key = k /\ Live(data'[l.base][l.dp])

(* Sorts are not disturbed: the base is not being sorted, or nothing of    *)
(* what a sort has copied changes.                                         *)
Undisturbed(k, l) ==
    l.base \in group =>
        /\ index'[l.base][l.ip] = index[l.base][l.ip]
        /\ \/ data'[l.base][l.dp].val = data[l.base][l.dp].val
           \/ k \in torn \/ l.base \in left \/ job # "datasort"

(* The copy of an index stays good when entries are marked whose keys go   *)
(* to the binlog.                                                          *)
LEMMA SameButMarked ==
    ASSUME NEW r, NEW s, NEW t, NEW ks, NEW ls, SameBut(r, s, ks), ks \subseteq ls,
           DOMAIN t = DOMAIN s,
           \A j \in DOMAIN s : /\ t[j].key = s[j].key /\ t[j].pos = s[j].pos
                               /\ s[j].key \notin ls => t[j] = s[j]
    PROVE  SameBut(r, t, ls)
<1>1. \A i \in DOMAIN r : \E j \in DOMAIN t :
          /\ r[i].key = t[j].key /\ r[i].pos = t[j].pos
          /\ r[i].key \notin ls => r[i] = t[j]
    <2> SUFFICES ASSUME NEW i \in DOMAIN r
                 PROVE  \E j \in DOMAIN t :
                           /\ r[i].key = t[j].key /\ r[i].pos = t[j].pos
                           /\ r[i].key \notin ls => r[i] = t[j]
        OBVIOUS
    <2>1. PICK j \in DOMAIN s : /\ r[i].key = s[j].key /\ r[i].pos = s[j].pos
                                /\ r[i].key \notin ks => r[i] = s[j]
        BY DEF SameBut
    <2> QED
        BY <2>1
<1>2. \A j \in DOMAIN t : \E i \in DOMAIN r :
          /\ r[i].key = t[j].key /\ r[i].pos = t[j].pos
          /\ r[i].key \notin ls => r[i] = t[j]
    <2> SUFFICES ASSUME NEW j \in DOMAIN s
                 PROVE  \E i \in DOMAIN r :
                           /\ r[i].key = t[j].key /\ r[i].pos = t[j].pos
                           /\ r[i].key \notin ls => r[i] = t[j]
        OBVIOUS
    <2>1. PICK i \in DOMAIN r : /\ r[i].key = s[j].key /\ r[i].pos = s[j].pos
                                /\ r[i].key \notin ks => r[i] = s[j]
        BY DEF SameBut
    <2> QED
        BY <2>1
<1> QED
    BY <1>1, <1>2 DEF SameBut

LEMMA RewrittenShape ==
    ASSUME IndInv, FilesInv, NEW k \in Keys, NEW l, Rewritten(k, l)
    PROVE  /\ \A b \in bases : \A i \in DOMAIN index[b] :
                 /\ index'[b][i].key = index[b][i].key
                 /\ index'[b][i].pos = index[b][i].pos
                 /\ Live(index'[b][i]) <=> Live(index[b][i])
           /\ \A j, b, i : LiveEntry(j, b, i)' <=> LiveEntry(j, b, i)
           /\ LiveNext(k, l)
<1>1. \A b \in bases : \A i \in DOMAIN index[b] :
         /\ index'[b][i].key = index[b][i].key
         /\ index'[b][i].pos = index[b][i].pos
         /\ Live(index'[b][i]) <=> Live(index[b][i])
    <2> SUFFICES ASSUME NEW b \in bases, NEW i \in DOMAIN index[b]
                 PROVE  /\ index'[b][i].key = index[b][i].key
                        /\ index'[b][i].pos = index[b][i].pos
                        /\ Live(index'[b][i]) <=> Live(index[b][i])
        OBVIOUS
    <2>1. CASE b = l.base /\ i = l.ip
        BY <2>1 DEF Rewritten, LiveAt
    <2>2. CASE b # l.base \/ i # l.ip
        BY <2>2 DEF Rewritten
    <2> QED
        BY <2>1, <2>2
<1>2. \A j, b, i : LiveEntry(j, b, i)' <=> LiveEntry(j, b, i)
    BY <1>1 DEF LiveEntry, Rewritten
<1>3. LiveNext(k, l)
    BY DEF Rewritten, LiveNext, LiveAt
<1> QED
    BY <1>1, <1>2, <1>3

LEMMA RewrittenOthers ==
    ASSUME IndInv, FilesInv, NEW k \in Keys, NEW l, Rewritten(k, l), NEW j, j # k
    PROVE  RecordsSame(j)
<1>1. \A b, i : LiveEntry(j, b, i)' <=> LiveEntry(j, b, i)
    BY RewrittenShape
<1>2. ASSUME NEW b \in bases, NEW i \in DOMAIN index[b], LiveEntry(j, b, i)
      PROVE  index'[b][i] = index[b][i] /\ ValueAt(b, i)' = ValueAt(b, i)
    <2>1. LiveEntry(k, l.base, l.ip) /\ l.base \in bases /\ l.ip \in DOMAIN index[l.base]
          /\ index[l.base][l.ip].pos = l.dp
        BY LiveAtEntry DEF Rewritten
    <2>2. b # l.base \/ i # l.ip
        BY <1>2, <2>1 DEF LiveEntry
    <2>3. index'[b][i] = index[b][i]
        BY <2>2 DEF Rewritten
    <2>4. b # l.base \/ index[b][i].pos # l.dp
        BY <2>1, <2>2 DEF FilesInv, FilesAgree
    <2>5. index[b][i].pos \in DOMAIN data[b]
        BY EntryFacts DEF IndInv
    <2>6. data'[b][index[b][i].pos] = data[b][index[b][i].pos]
        BY <2>4, <2>5 DEF Rewritten
    <2> QED
        BY <2>3, <2>6 DEF ValueAt
<1> QED
    BY <1>1, <1>2 DEF RecordsSame, Rewritten, LiveEntry

LEMMA RewrittenFiles ==
    ASSUME IndInv, FilesInv, NEW k \in Keys, NEW l, Rewritten(k, l), Undisturbed(k, l),
           UNCHANGED defrag, torn' = torn, failed' = failed,
           \A j \in Keys : op'[j].pc = "payload" => op'[j] = op[j]
    PROVE  FilesInv'
<1> USE DEF binlog, defrag
<1>0. /\ UNCHANGED <<bases, place, born, sorted, gone, binlog>>
      /\ \A b \in bases : DOMAIN index'[b] = DOMAIN index[b]
      /\ l.base \in bases /\ l.ip \in DOMAIN index[l.base]
      /\ index[l.base][l.ip].pos = l.dp /\ index[l.base][l.ip].key = k
      /\ Live(index[l.base][l.ip])
    BY DEF Rewritten, LiveAt
<1>1. /\ \A b \in bases : \A i \in DOMAIN index[b] :
            /\ index'[b][i].key = index[b][i].key
            /\ index'[b][i].pos = index[b][i].pos
            /\ Live(index'[b][i]) <=> Live(index[b][i])
      /\ \A j, b, i : LiveEntry(j, b, i)' <=> LiveEntry(j, b, i)
    BY RewrittenShape
<1>2. Layout'
    BY <1>0 DEF FilesInv, Layout, NotLast, Rewritten
<1>3. FilesAgree'
    <2>1. ASSUME NEW b \in bases, NEW i \in DOMAIN index[b]
          PROVE  /\ data'[b][index'[b][i].pos].key = index'[b][i].key
                 /\ Live(data'[b][index'[b][i].pos]) <=> Live(index'[b][i])
        <3>1. CASE b = l.base /\ i = l.ip
            BY <3>1 DEF Rewritten
        <3>2. CASE b # l.base \/ i # l.ip
            <4>1. b # l.base \/ index[b][i].pos # l.dp
                BY <1>0, <3>2 DEF FilesInv, FilesAgree
            <4>2. index[b][i].pos \in DOMAIN data[b]
                BY EntryFacts DEF IndInv
            <4>3. data'[b][index[b][i].pos] = data[b][index[b][i].pos]
                BY <4>1, <4>2 DEF Rewritten
            <4> QED
                BY <1>1, <4>3 DEF FilesInv, FilesAgree
        <3> QED
            BY <3>1, <3>2
    <2> QED
        BY <1>0, <1>1, <2>1 DEF FilesInv, FilesAgree
<1>4. Once'
    BY <1>0, <1>1 DEF FilesInv, Once
<1>5. Exact'
    <2>1. \A b \in bases : {i \in DOMAIN index'[b] : ~Live(index'[b][i])}
                             = {i \in DOMAIN index[b] : ~Live(index[b][i])}
        BY <1>0, <1>1
    <2>2. \A b \in bases : CountRemoved(index'[b]) = CountRemoved(index[b])
        BY <2>1 DEF CountRemoved
    <2> QED
        BY <1>0, <2>2 DEF FilesInv, Exact
<1>6. LoggedGone'
    <2>1. group \subseteq bases
        BY DEF IndInv, SortInv, SortsOldBases, NotLast
    <2> QED
        BY <1>0, <1>1, <2>1 DEF FilesInv, LoggedGone
<1>7. \A b \in group : \A i \in DOMAIN index[b] : index'[b][i] = index[b][i]
    <2>1. group \subseteq bases
        BY DEF IndInv, SortInv, SortsOldBases, NotLast
    <2> QED
        BY <2>1 DEF Rewritten, Undisturbed
<1>8. group \subseteq bases
    BY DEF IndInv, SortInv, SortsOldBases, NotLast
<1>9. SnapGood'
    <2>1. ASSUME NEW b \in group, SameBut(snap, index[b], logged[b])
          PROVE  SameBut(snap, index'[b], logged[b])
        BY <1>0, <1>7, <1>8, <2>1, SameButMarked
    <2> QED
        BY <1>0, <2>1 DEF FilesInv, SnapGood
<1>10. job = "datasort" => \A b \in group \ left : \A i \in DOMAIN index[b] :
          index[b][i].key \notin Suspect => ValueAt(b, i)' = ValueAt(b, i)
    <2> SUFFICES ASSUME job = "datasort", NEW b \in group \ left, NEW i \in DOMAIN index[b],
                        index[b][i].key \notin Suspect
                 PROVE  data'[b][index[b][i].pos].val = data[b][index[b][i].pos].val
        BY <1>7 DEF ValueAt
    <2>1. index[b][i].pos \in DOMAIN data[b]
        BY <1>8, EntryFacts DEF IndInv
    <2>2. CASE b = l.base /\ i = l.ip
        BY <1>0, <2>2 DEF Undisturbed, Suspect
    <2>3. CASE b # l.base \/ i # l.ip
        <3>1. b # l.base \/ index[b][i].pos # l.dp
            BY <1>0, <1>8, <2>3 DEF FilesInv, FilesAgree
        <3> QED
            BY <1>8, <2>1, <3>1 DEF Rewritten
    <2> QED
        BY <2>2, <2>3
<1>11. ChunkGood'
    <2>1. Suspect' = Suspect
        BY DEF Suspect
    <2>2. \A c \in chunk :
             /\ c.base \in group \ left /\ c.ip \in DOMAIN index[c.base]
             /\ c.key = index[c.base][c.ip].key /\ Live(c)
             /\ c.key \notin logged[c.base] => index[c.base][c.ip].flag = c.flag
             /\ c.key \notin Suspect \cup logged[c.base] => ValueAt(c.base, c.ip) = c.val
        BY DEF FilesInv, ChunkGood
    <2>3. \A c \in chunk :
             /\ c.base \in group \ left /\ c.ip \in DOMAIN index'[c.base]
             /\ c.key = index'[c.base][c.ip].key /\ Live(c)
             /\ c.key \notin logged'[c.base] => index'[c.base][c.ip].flag = c.flag
             /\ c.key \notin Suspect \cup logged'[c.base] => ValueAt(c.base, c.ip)' = c.val
        <3> SUFFICES ASSUME NEW c \in chunk
                     PROVE  /\ c.base \in group \ left /\ c.ip \in DOMAIN index'[c.base]
                            /\ c.key = index'[c.base][c.ip].key /\ Live(c)
                            /\ c.key \notin logged'[c.base] =>
                                  index'[c.base][c.ip].flag = c.flag
                            /\ c.key \notin Suspect \cup logged'[c.base] =>
                                  ValueAt(c.base, c.ip)' = c.val
            OBVIOUS
        <3>1. index'[c.base][c.ip] = index[c.base][c.ip]
            BY <1>7, <2>2
        <3>2. DOMAIN index'[c.base] = DOMAIN index[c.base] /\ logged' = logged
            BY <1>0, <1>8, <2>2
        <3>3. c.key \notin Suspect => ValueAt(c.base, c.ip)' = ValueAt(c.base, c.ip)
            BY <1>10, <2>2 DEF FilesInv, ChunkGood
        <3> QED
            BY <2>2, <3>1, <3>2, <3>3
    <2>4. \A b \in group \ left : \A i \in DOMAIN index'[b] :
             job = "datasort" /\ Live(index'[b][i]) => \E c \in chunk : c.base = b /\ c.ip = i
        BY <1>0, <1>1, <1>8 DEF FilesInv, ChunkGood
    <2> QED
        BY <1>0, <2>1, <2>3, <2>4 DEF FilesInv, ChunkGood
<1> QED
    BY <1>2, <1>3, <1>4, <1>5, <1>6, <1>9, <1>11 DEF FilesInv

(* eblob_commit_disk rewrites the record.                                  *)
LEMMA CommittedRewrites ==
    ASSUME IndInv, FilesInv, NEW k \in Keys, NEW l \in Loc, LiveAt(k, l),
           NEW f \in {"committed", "uncommitted"}, NEW p \in Payload,
           index' = index \/ index' = IndexCommitted(k, l, f),
           data' = DataCommitted(k, l, f, p),
           UNCHANGED <<bases, place, born, sorted, gone, binlog>>
    PROVE  /\ Rewritten(k, l) /\ data'[l.base][l.dp].val = p
           /\ index' = IndexCommitted(k, l, f) =>
                 index'[l.base][l.ip] = [key |-> k, flag |-> f, pos |-> l.dp]
<1> DEFINE e == [key |-> k, flag |-> f, pos |-> l.dp]
           r == [key |-> k, flag |-> f, val |-> p]
<1>1. /\ index \in [Bases -> Seq(Entry)] /\ data \in [Bases -> Seq(Record)]
      /\ l.base \in Bases /\ e \in Entry /\ r \in Record /\ bases \subseteq Bases
    BY DEF IndInv, DiskInv, Loc, Entry, Record, Flags
<1>2. /\ index[l.base][l.ip].key = k /\ index[l.base][l.ip].pos = l.dp
      /\ Live(index[l.base][l.ip]) /\ l.base \in bases /\ l.ip \in DOMAIN index[l.base]
    BY DEF LiveAt
<1>3. l.dp \in DOMAIN data[l.base]
    BY <1>2, EntryFacts DEF IndInv
<1>4. e.key = k /\ e.pos = l.dp /\ Live(e) /\ r.key = k /\ Live(r) /\ r.val = p
    BY DEF Live
<1>5. DataCommitted(k, l, f, p) = [data EXCEPT ![l.base][l.dp] = r]
    BY DEF DataCommitted
<1>6. IndexCommitted(k, l, f) = [index EXCEPT ![l.base][l.ip] = e]
    BY DEF IndexCommitted
<1> HIDE DEF e, r
<1>7. /\ \A c \in Bases : DOMAIN data'[c] = DOMAIN data[c]
      /\ \A c \in Bases : \A j \in DOMAIN data[c] :
            data'[c][j] = IF c = l.base /\ j = l.dp THEN r ELSE data[c][j]
      /\ \A c \in Bases \ {l.base} : data'[c] = data[c]
    <2>1. data' = [data EXCEPT ![l.base][l.dp] = r]
        BY <1>5
    <2>2. \A c \in Bases \ {l.base} : data'[c] = data[c]
        BY <1>1, <2>1
    <2> QED
        BY <1>1, <2>1, <2>2, SlotCommitted
<1>8. CASE index' = IndexCommitted(k, l, f)
    <2>1. /\ \A c \in Bases : DOMAIN index'[c] = DOMAIN index[c]
          /\ \A c \in Bases : \A j \in DOMAIN index[c] :
                index'[c][j] = IF c = l.base /\ j = l.ip THEN e ELSE index[c][j]
          /\ \A c \in Bases \ {l.base} : index'[c] = index[c]
        <3>1. index' = [index EXCEPT ![l.base][l.ip] = e]
            BY <1>6, <1>8
        <3>2. \A c \in Bases \ {l.base} : index'[c] = index[c]
            BY <1>1, <3>1
        <3> QED
            BY <1>1, <3>1, <3>2, SlotCommitted
    <2>2. index'[l.base][l.ip] = e
        BY <1>1, <1>2, <2>1
    <2> QED
        BY <1>1, <1>2, <1>3, <1>4, <1>7, <2>1, <2>2 DEF Rewritten, e
<1>9. CASE index' = index
    <2>1. Rewritten(k, l) /\ data'[l.base][l.dp].val = p
        BY <1>1, <1>2, <1>3, <1>4, <1>7, <1>9 DEF Rewritten
    <2> QED
        BY <1>8, <2>1
<1> QED
    BY <1>8, <1>9

(* A payload written into the slot of a record rewrites it.                *)
LEMMA PayloadRewrites ==
    ASSUME IndInv, FilesInv, NEW k \in Keys, NEW l \in Loc, LiveAt(k, l),
           NEW p \in Payload, data' = [data EXCEPT ![l.base][l.dp].val = p],
           UNCHANGED <<bases, place, born, sorted, index, gone, binlog>>
    PROVE  Rewritten(k, l) /\ data'[l.base][l.dp].val = p
<1> DEFINE r == [data[l.base][l.dp] EXCEPT !.val = p]
<1>1. /\ index \in [Bases -> Seq(Entry)] /\ data \in [Bases -> Seq(Record)]
      /\ l.base \in Bases /\ bases \subseteq Bases
    BY DEF IndInv, DiskInv, Loc
<1>2. /\ index[l.base][l.ip].key = k /\ index[l.base][l.ip].pos = l.dp
      /\ Live(index[l.base][l.ip]) /\ l.base \in bases /\ l.ip \in DOMAIN index[l.base]
    BY DEF LiveAt
<1>3. l.dp \in DOMAIN data[l.base] /\ data[l.base][l.dp] \in Record
    BY <1>2, EntryFacts DEF IndInv
<1>4. data[l.base][l.dp].key = k /\ Live(data[l.base][l.dp])
    BY <1>2 DEF FilesInv, FilesAgree
<1>5. r \in Record /\ r.key = k /\ Live(r) /\ r.val = p
    BY <1>3, <1>4 DEF Record, Live
<1>6. data' = [data EXCEPT ![l.base][l.dp] = r]
    OBVIOUS
<1> HIDE DEF r
<1>7. /\ \A c \in Bases : \A j \in DOMAIN data[c] :
            data'[c][j] = IF c = l.base /\ j = l.dp THEN r ELSE data[c][j]
      /\ \A c \in Bases \ {l.base} : data'[c] = data[c]
    <2>1. \A c \in Bases \ {l.base} : data'[c] = data[c]
        BY <1>1, <1>6
    <2>2. r \in Record
        BY <1>5
    <2> DEFINE G == [data EXCEPT ![l.base][l.dp] = r]
    <2>3. \A c \in Bases : \A j \in DOMAIN data[c] :
             G[c][j] = IF c = l.base /\ j = l.dp THEN r ELSE data[c][j]
        BY <1>1, <2>2, SlotCommitted
    <2>4. data' = G
        BY <1>6
    <2> HIDE DEF G
    <2>5. \A c \in Bases : \A j \in DOMAIN data[c] :
             data'[c][j] = IF c = l.base /\ j = l.dp THEN r ELSE data[c][j]
        <3> SUFFICES ASSUME NEW c \in Bases, NEW j \in DOMAIN data[c]
                     PROVE  data'[c][j] = IF c = l.base /\ j = l.dp THEN r ELSE data[c][j]
            OBVIOUS
        <3>1. G[c][j] = IF c = l.base /\ j = l.dp THEN r ELSE data[c][j]
            BY <2>3
        <3>2. data'[c][j] = G[c][j]
            BY <2>4
        <3> QED
            BY <3>1, <3>2
    <2> QED
        BY <2>1, <2>5, Zenon
<1> QED
    BY <1>1, <1>2, <1>3, <1>5, <1>7 DEF Rewritten

(* What rewriting a record of k leaves to show: the claims about k.        *)
LEMMA RewriteKeeps ==
    ASSUME IndInv, RecInv, NEW k \in Keys, NEW l, Rewritten(k, l), Undisturbed(k, l),
           UNCHANGED defrag, UNCHANGED <<failed, torn>>,
           \A j \in Keys \ {k} : KeySame(j),
           op'[k].pc # "payload",
           LiveNext(k, l) /\ Once' => KeyInv(k)'
    PROVE  RecInv'
<1>1. \A j \in Keys \ {k} : KeySame(j) /\ RecordsSame(j)
    BY RewrittenOthers, RecInvParts
<1>2. \A j \in Keys : op'[j].pc = "payload" => op'[j] = op[j]
    BY DEF KeySame
<1>3. FilesInv'
    BY <1>2, RewrittenFiles, RecInvParts
<1>4. \A j \in Keys \ {k} : KeyInv(j)'
    BY <1>1, OthersKeep
<1>5. LiveNext(k, l) /\ Once'
    BY <1>3, RewrittenShape, RecInvParts DEF FilesInv
<1> QED
    BY <1>3, <1>4, <1>5, RecInvParts

(* A promise about k leaves those about the others.                        *)
LEMMA PromiseOthers ==
    ASSUME IndInv, NEW k \in Keys, NEW s, NEW p, Promise(k, s, p)
    PROVE  /\ status'[k] = s /\ shadow'[k] = p /\ UNCHANGED <<failed, torn>>
           /\ \A j \in Keys \ {k} : status'[j] = status[j] /\ shadow'[j] = shadow[j]
BY DEF Promise, IndInv, PromiseInv

(* A key with a record that can be looked up is idle and not absent.       *)
LEMMA CalledRecord ==
    ASSUME IndInv, RecInv, NEW k \in Keys, Call(k), NEW l \in Found(k)
    PROVE  /\ k \notin Abandoned /\ op[k] = Idle /\ op[k].pc = "idle" /\ CacheGood(k)
           /\ l \in Loc /\ LiveAt(k, l) /\ data[l.base][l.dp].val \in Payload
           /\ index[l.base][l.ip].flag \in {"committed", "uncommitted"}
           /\ k \notin Suspect =>
                 /\ status[k] # "absent" /\ data[l.base][l.dp].val = shadow[k]
                 /\ status[k] # "hidden" => index[l.base][l.ip].flag = "committed"
<1>1. k \notin Abandoned /\ HeldGood(k) /\ (k \notin Suspect => ValueGood(k))
    BY CallerGood
<1>2. op[k] = Idle /\ op[k].pc = "idle" /\ ~Writing(k)
    BY DEF Call, Idle, Writing
<1>3. CacheGood(k)
    BY <1>1, <1>2 DEF HeldGood
<1>4. l \in Loc /\ LiveAt(k, l) /\ ~NoRecord(k)
    BY <1>3, FoundFacts DEF RecInv
<1>5. /\ l.base \in bases /\ l.ip \in DOMAIN index[l.base] /\ LiveEntry(k, l.base, l.ip)
      /\ index[l.base][l.ip].pos = l.dp
    BY <1>4, LiveAtEntry
<1>6. index[l.base][l.ip] \in Entry /\ data[l.base][l.dp] \in Record
    BY <1>5, EntryFacts DEF IndInv
<1>7. /\ data[l.base][l.dp].val \in Payload
      /\ index[l.base][l.ip].flag \in {"committed", "uncommitted"}
    BY <1>5, <1>6 DEF Entry, Record, Flags, Live, LiveEntry
<1>8. k \notin Suspect =>
         /\ status[k] # "absent" /\ data[l.base][l.dp].val = shadow[k]
         /\ status[k] # "hidden" => index[l.base][l.ip].flag = "committed"
    BY <1>1, <1>2, <1>4, <1>5 DEF ValueGood, ValueAt
<1> QED
    BY <1>1, <1>2, <1>3, <1>4, <1>7, <1>8

(* The claims about an idle key whose record, at l, was written in place   *)
(* and whose place in the hash did not change.                             *)
LEMMA IdleRewritten ==
    ASSUME IndInv, RecInv, NEW k \in Keys, NEW l, Rewritten(k, l), LiveNext(k, l),
           Once', CacheGood(k), cache' = cache, op'[k] = Idle, failed' = failed,
           torn' = torn,
           k \notin Suspect =>
              /\ status'[k] # "absent" /\ data'[l.base][l.dp].val = shadow'[k]
              /\ status'[k] # "hidden" => index'[l.base][l.ip].flag = "committed"
    PROVE  k \notin Abandoned => KeyInv(k)'
<1>1. Idle.pc = "idle"
    BY DEF Idle
<1>2. /\ \A b \in bases : \A i \in DOMAIN index[b] : index'[b][i].pos = index[b][i].pos
      /\ \A j, b, i : LiveEntry(j, b, i)' <=> LiveEntry(j, b, i)
    BY RewrittenShape, RecInvParts
<1>3. bases' = bases /\ sorted' = sorted /\ \A b \in bases : DOMAIN index'[b] = DOMAIN index[b]
    BY DEF Rewritten
<1>4. cache[k] # NoLoc => LiveNext(k, cache[k])
    <2>1. cache[k] # NoLoc =>
             /\ LiveEntry(k, cache[k].base, cache[k].ip) /\ cache[k].base \in bases
             /\ cache[k].ip \in DOMAIN index[cache[k].base]
             /\ index[cache[k].base][cache[k].ip].pos = cache[k].dp
        BY LiveAtEntry DEF CacheGood
    <2>2. cache[k] # NoLoc => LiveEntry(k, cache[k].base, cache[k].ip)'
        <3>1. \A b, i : LiveEntry(k, b, i) =>
                 b \in bases' /\ i \in DOMAIN index'[b] /\ index'[b][i].key = k
                 /\ Live(index'[b][i])
            BY <1>2 DEF LiveEntry
        <3> QED
            BY <2>1, <3>1, <1>2
    <2> QED
        BY <1>2, <1>3, <2>1, <2>2 DEF LiveNext, LiveEntry
<1>5. CacheGood(k)'
    BY <1>2, <1>3, <1>4 DEF CacheGood, LiveAt, LiveNext
<1>6. HeldGood(k)'
    BY <1>1, <1>5 DEF HeldGood, Writing
<1>7. k \notin Suspect => ValueGood(k)'
    BY <1>1, ValueFromRecord
<1> QED
    BY <1>6, <1>7 DEF KeyInv, Abandoned, Suspect

(* eblob_try_overwritev.                                                   *)
LEMMA OverwriteRec ==
    ASSUME IndInv, RecInv, NEW k \in Keys, NEW wr \in {"write", "patch"}, NEW v \in Vals,
           Overwrite(k, wr, v)
    PROVE  RecInv'
<1>1. PICK l \in Found(k) :
        /\ l.base \notin logging
        /\ index' = IndexCommitted(k, l, "committed")
        /\ data' = DataCommitted(k, l, "committed", Written(wr, data[l.base][l.dp].val, v))
    BY DEF Overwrite, InPlace
<1>2. /\ Call(k) /\ Promise(k, "visible", Expected(k, wr, v))
      /\ UNCHANGED <<bases, place, born, sorted, gone, binlog>>
      /\ cache' = cache /\ op' = op /\ UNCHANGED defrag
    BY DEF Overwrite
<1> DEFINE p == Written(wr, data[l.base][l.dp].val, v)
<1>3. /\ k \notin Abandoned /\ op[k] = Idle /\ op[k].pc = "idle" /\ CacheGood(k)
      /\ l \in Loc /\ LiveAt(k, l) /\ data[l.base][l.dp].val \in Payload
      /\ k \notin Suspect =>
            status[k] # "absent" /\ data[l.base][l.dp].val = shadow[k]
    BY <1>2, CalledRecord
<1>4. p \in Payload
    BY <1>3, PayloadTypes DEF Kinds
<1>5. k \notin Suspect => p = Expected(k, wr, v)
    BY <1>3 DEF Expected
<1>6. /\ status'[k] = "visible" /\ shadow'[k] = Expected(k, wr, v)
      /\ UNCHANGED <<failed, torn>>
      /\ \A j \in Keys \ {k} : status'[j] = status[j] /\ shadow'[j] = shadow[j]
    BY <1>2, PromiseOthers
<1> HIDE DEF p
<1>7. /\ Rewritten(k, l) /\ data'[l.base][l.dp].val = p
      /\ index'[l.base][l.ip] = [key |-> k, flag |-> "committed", pos |-> l.dp]
    BY <1>1, <1>2, <1>3, <1>4, CommittedRewrites, RecInvParts DEF p
<1>8. Undisturbed(k, l)
    BY <1>1 DEF Undisturbed, RecInv, Layout
<1>9. LiveNext(k, l) /\ Once' => KeyInv(k)'
    BY <1>2, <1>3, <1>5, <1>6, <1>7, IdleRewritten
<1>10. \A j \in Keys \ {k} : KeySame(j)
    BY <1>2, <1>6 DEF KeySame
<1> QED
    BY <1>2, <1>3, <1>6, <1>7, <1>8, <1>9, <1>10, RewriteKeeps

(* eblob_writev_raw into the reserved slot.                                *)
LEMMA WritePayloadRec ==
    ASSUME IndInv, RecInv, NEW k \in Keys, WritePayload(k)
    PROVE  RecInv'
<1> DEFINE l == op[k].new
           p == Written(op[k].kind, data[l.base][l.dp].val, op[k].val)
           o == [op[k] EXCEPT !.pc = "commit"]
<1>1. /\ op[k].pc = "payload" /\ l.base \in bases
      /\ data' = [data EXCEPT ![l.base][l.dp].val = p]
      /\ op' = [op EXCEPT ![k] = o]
      /\ UNCHANGED <<bases, place, born, sorted, index, gone, binlog>>
      /\ cache' = cache /\ UNCHANGED defrag /\ UNCHANGED promise
    BY DEF WritePayload, Begin
<1>2. op[k] \in Op /\ op[k].kind \in Kinds /\ op[k].val \in Vals \cup {Blank}
    BY DEF IndInv, HeldInv, Op
<1>3. o.pc = "commit" /\ o.new = l /\ o.kind = op[k].kind /\ o.val = op[k].val
    BY <1>2 DEF Op
<1> HIDE DEF o
<1>4. op'[k] = o /\ \A j \in Keys \ {k} : op'[j] = op[j] /\ KeySame(j)
    BY <1>1, OtherOps DEF promise
<1>5. k \notin Abandoned /\ HeldGood(k) /\ (k \notin Suspect => ValueGood(k)) /\ Writing(k)
    BY <1>1, CallerGood DEF Writing
<1>6. LiveAt(k, l) /\ index[l.base][l.ip].flag = "committed"
    BY <1>1, <1>5 DEF HeldGood
<1>7. l \in Loc /\ data[l.base][l.dp].val \in Payload
    <2>1. l \in Loc /\ Within(l)
        BY <1>1, NewLocHeld
    <2> QED
        BY <1>1, <2>1, CopiedType
<1>8. p \in Payload
    BY <1>2, <1>7, PayloadTypes
<1>9. k \notin Suspect => p = Expected(k, op[k].kind, op[k].val)
    <2> SUFFICES ASSUME k \notin Suspect
                 PROVE  p = Expected(k, op[k].kind, op[k].val)
        OBVIOUS
    <2>1. op[k].kind # "write" => data[l.base][l.dp].val = Former(k)
        BY <1>1, <1>5 DEF ValueGood, NewValue
    <2> QED
        BY <2>1 DEF Expected, Former, Written
<1> HIDE DEF p
<1>10. Rewritten(k, l) /\ data'[l.base][l.dp].val = p
    BY <1>1, <1>6, <1>7, <1>8, PayloadRewrites, RecInvParts
<1>11. Undisturbed(k, l)
    <2>1. job = "datasort" /\ l.base \in group \ left => k \in torn
        BY <1>1 DEF RecInv, ChunkGood
    <2>2. job = "indexsort" \/ job = "datasort" \/ group = {}
        BY DEF IndInv, SortInv, SortsOldBases
    <2>3. CASE job = "datasort" \/ group = {}
        BY <1>1, <2>1, <2>3 DEF Undisturbed
    <2> QED
        BY <1>1, <2>2, <2>3 DEF Undisturbed
<1>12. ASSUME LiveNext(k, l), Once'
       PROVE  KeyInv(k)'
    <2>1. Writing(k)' /\ op'[k].new = l /\ l.base \in bases' /\ op'[k].pc = "commit"
          /\ k \notin Abandoned' /\ Suspect' = Suspect
        BY <1>1, <1>3, <1>4, <1>5 DEF Writing, Abandoned, Suspect, promise
    <2>2. HeldGood(k)'
        BY <1>1, <1>6, <1>12, <2>1 DEF HeldGood, LiveAt, LiveNext
    <2>3. k \notin Suspect => ValueGood(k)'
        <3> SUFFICES ASSUME k \notin Suspect PROVE ValueGood(k)'
            OBVIOUS
        <3>1. NewValue(k)' = p
            BY <1>10, <2>1 DEF NewValue
        <3>2. Expected(k, op[k].kind, op[k].val)' = Expected(k, op[k].kind, op[k].val)
            BY <1>1, <1>3, <1>4 DEF Expected, promise
        <3> QED
            BY <1>9, <2>1, <3>1, <3>2 DEF ValueGood
    <2> QED
        BY <2>1, <2>2, <2>3 DEF KeyInv
<1> QED
    BY <1>1, <1>3, <1>4, <1>10, <1>11, <1>12, RewriteKeeps DEF promise

(* eblob_write_commit_nolock: the header is what it was since the slot was *)
(* reserved, so it does not matter which index file it goes to.            *)
LEMMA CommitWriteRec ==
    ASSUME IndInv, RecInv, IndInv', NEW k \in Keys, CommitWrite(k)
    PROVE  RecInv'
<1> DEFINE l == op[k].new
           p == data[l.base][l.dp].val
<1>1. /\ op[k].pc = "commit" /\ l.base \in bases
      /\ index' = index \/ index' = IndexCommitted(k, l, "committed")
      /\ data' = DataCommitted(k, l, "committed", p)
      /\ cache' = [cache EXCEPT ![k] = l] /\ op' = [op EXCEPT ![k] = Idle]
      /\ Promise(k, "visible", Expected(k, op[k].kind, op[k].val))
      /\ UNCHANGED <<bases, place, born, sorted, gone, binlog>> /\ UNCHANGED defrag
    BY DEF CommitWrite, End
<1>2. /\ status'[k] = "visible" /\ shadow'[k] = Expected(k, op[k].kind, op[k].val)
      /\ UNCHANGED <<failed, torn>>
      /\ \A j \in Keys \ {k} : status'[j] = status[j] /\ shadow'[j] = shadow[j]
    BY <1>1, PromiseOthers
<1>3. cache'[k] = l /\ \A j \in Keys \ {k} : cache'[j] = cache[j]
    BY <1>1 DEF IndInv, HeldInv
<1>4. op'[k] = Idle /\ \A j \in Keys \ {k} : op'[j] = op[j] /\ KeySame(j)
    BY <1>1, <1>2, <1>3, OtherOps
<1>5. Idle.pc = "idle"
    BY DEF Idle
<1>6. k \notin Abandoned /\ HeldGood(k) /\ (k \notin Suspect => ValueGood(k)) /\ Writing(k)
    BY <1>1, CallerGood DEF Writing
<1>7. LiveAt(k, l) /\ index[l.base][l.ip].flag = "committed"
    BY <1>1, <1>6 DEF HeldGood
<1>8. l \in Loc /\ p \in Payload
    <2>1. l \in Loc /\ Within(l)
        BY <1>1, NewLocHeld
    <2> QED
        BY <1>1, <2>1, CopiedType
<1>9. k \notin Suspect => p = Expected(k, op[k].kind, op[k].val)
    BY <1>1, <1>6 DEF ValueGood, NewValue
<1> HIDE DEF p
<1>10. /\ Rewritten(k, l) /\ data'[l.base][l.dp].val = p
       /\ index' = IndexCommitted(k, l, "committed") =>
             index'[l.base][l.ip] = [key |-> k, flag |-> "committed", pos |-> l.dp]
    BY <1>1, <1>7, <1>8, CommittedRewrites, RecInvParts DEF p
<1>11. index'[l.base][l.ip] = index[l.base][l.ip]
    <2>1. index[l.base][l.ip] \in Entry
        BY <1>7, EntryFacts DEF IndInv, LiveAt
    <2>2. index[l.base][l.ip] = [key |-> k, flag |-> "committed", pos |-> l.dp]
        BY <1>7, <2>1 DEF LiveAt, Entry
    <2> QED
        BY <1>1, <1>10, <2>2
<1>12. Undisturbed(k, l)
    BY <1>10, <1>11 DEF Undisturbed, p
<1>13. ASSUME LiveNext(k, l), Once'
       PROVE  KeyInv(k)'
    <2>1. CacheGood(k)'
        BY <1>3, <1>8, <1>13, CacheFromRecord
    <2>2. HeldGood(k)'
        BY <1>4, <1>5, <2>1 DEF HeldGood, Writing
    <2>3. k \notin Suspect => ValueGood(k)'
        BY <1>2, <1>4, <1>5, <1>7, <1>9, <1>10, <1>11, <1>13, ValueFromRecord
    <2> QED
        BY <1>2, <1>4, <2>2, <2>3 DEF KeyInv, Suspect
<1> QED
    BY <1>1, <1>2, <1>4, <1>5, <1>10, <1>12, <1>13, RewriteKeeps

-----------------------------------------------------------------------------
(* Marking a record removed, and reserving a slot for its successor. *)

AtSlot(l, b, i) == l # NoLoc /\ b = l.base /\ i = l.ip
AtHead(l, b, p) == l # NoLoc /\ b = l.base /\ p = l.dp

(* The record of k at old is marked removed (there is none when old is     *)
(* NoLoc), and a new one is added at new (or none, when new is NoLoc).     *)
Moved(k, new, old, f, v) ==
    /\ new \in Loc \cup {NoLoc} /\ old \in Loc \cup {NoLoc}
    /\ IF old = NoLoc THEN NoRecord(k) ELSE LiveAt(k, old)
    /\ sorted' = sorted /\ logging' = logging
    /\ IF new # NoLoc /\ new.base \notin bases
       THEN /\ new.base = born + 1 /\ born' = born + 1 /\ bases' = bases \cup {born + 1}
            /\ place'[born + 1] = born + 1
       ELSE bases' = bases /\ born' = born
    /\ \A b \in bases : place'[b] = place[b]
    /\ logged' = IF old = NoLoc THEN logged ELSE BinlogAppend(k, old)
    /\ gone' = IF old = NoLoc THEN gone ELSE CountMarked(old)
    /\ \A b \in Bases \ bases' : index'[b] = index[b] /\ data'[b] = data[b]
    \* the entries and records there were
    /\ \A b \in bases : \A i \in DOMAIN index[b] :
          /\ i \in DOMAIN index'[b]
          /\ AtSlot(old, b, i) => index'[b][i] = Removed(index[b][i])
          /\ ~AtSlot(old, b, i) => index'[b][i] = index[b][i]
    /\ \A b \in bases : \A p \in DOMAIN data[b] :
          /\ AtHead(old, b, p) => data'[b][p] = Removed(data[b][p])
          /\ ~AtHead(old, b, p) => data'[b][p] = data[b][p]
    \* the new one
    /\ \A b \in bases' : \A i \in DOMAIN index'[b] :
          AtSlot(new, b, i) \/ (b \in bases /\ i \in DOMAIN index[b])
    /\ new # NoLoc =>
          /\ new.base \notin NotLast /\ f \in {"committed", "uncommitted"}
          /\ new.ip \in DOMAIN index'[new.base]
          /\ index'[new.base][new.ip] = [key |-> k, flag |-> f, pos |-> new.dp]
          /\ data'[new.base][new.dp] = [key |-> k, flag |-> f, val |-> v]
          /\ new.base \in bases => /\ new.ip \notin DOMAIN index[new.base]
                                   /\ new.dp \notin DOMAIN data[new.base]

(* The live records afterwards: those of the other keys, unchanged, and    *)
(* the new one.                                                            *)
LEMMA MovedLive ==
    ASSUME IndInv, FilesInv, NEW k \in Keys, NEW new, NEW old, NEW f, NEW v,
           Moved(k, new, old, f, v)
    PROVE  /\ \A b \in bases' : \A i \in DOMAIN index'[b] :
                 LiveEntry(k, b, i)' <=> AtSlot(new, b, i)
           /\ \A j \in Keys \ {k} : RecordsSame(j)
           /\ new # NoLoc => LiveNext(k, new) /\ data'[new.base][new.dp].val = v
<1>1. old # NoLoc => /\ old.base \in bases /\ old.ip \in DOMAIN index[old.base]
                     /\ index[old.base][old.ip].key = k
                     /\ index[old.base][old.ip].pos = old.dp
                     /\ LiveEntry(k, old.base, old.ip)
    BY LiveAtEntry DEF Moved, LiveAt
<1>2. bases \subseteq bases' /\ bases' \subseteq bases \cup {born + 1} /\ sorted' = sorted
    BY DEF Moved
<1>3. \A b \in bases : \A i \in DOMAIN index[b] :
         LiveEntry(k, b, i) => AtSlot(old, b, i)
    <2>1. CASE old = NoLoc
        BY <2>1 DEF Moved, NoRecord
    <2>2. CASE old # NoLoc
        BY <1>1, <2>2 DEF FilesInv, Once, AtSlot
    <2> QED
        BY <2>1, <2>2
<1>4. \A b \in bases : \A i \in DOMAIN index[b] : AtSlot(old, b, i) =>
         index[b][i].key = k /\ ~Live(index'[b][i])
    <2> SUFFICES ASSUME NEW b \in bases, NEW i \in DOMAIN index[b], AtSlot(old, b, i)
                 PROVE  index[b][i].key = k /\ ~Live(index'[b][i])
        OBVIOUS
    <2>1. index[b][i].key = k
        BY <1>1 DEF AtSlot
    <2>2. index'[b][i] = Removed(index[b][i])
        BY DEF Moved
    <2>3. index[b][i] \in Entry
        BY EntryFacts DEF IndInv
    <2> QED
        BY <2>1, <2>2, <2>3 DEF Removed, Entry, Live
<1>5. new # NoLoc => /\ new.base \in bases' /\ LiveNext(k, new)
                     /\ data'[new.base][new.dp].val = v
    BY DEF Moved, LiveNext, Live
<1>6. ASSUME NEW b \in bases', NEW i \in DOMAIN index'[b]
      PROVE  LiveEntry(k, b, i)' <=> AtSlot(new, b, i)
    <2>1. CASE AtSlot(new, b, i)
        BY <1>5, <2>1 DEF AtSlot, LiveEntry, LiveNext
    <2>2. CASE ~AtSlot(new, b, i)
        <3>1. b \in bases /\ i \in DOMAIN index[b]
            BY <2>2 DEF Moved
        <3>2. CASE AtSlot(old, b, i)
            BY <1>4, <2>2, <3>1, <3>2 DEF LiveEntry
        <3>3. CASE ~AtSlot(old, b, i)
            <4>1. index'[b][i] = index[b][i]
                BY <3>1, <3>3 DEF Moved
            <4> QED
                BY <1>3, <2>2, <3>1, <3>3, <4>1 DEF LiveEntry
        <3> QED
            BY <3>2, <3>3
    <2> QED
        BY <2>1, <2>2
<1>7. ASSUME NEW j \in Keys \ {k}
      PROVE  RecordsSame(j)
    <2>1. ASSUME NEW b \in bases', NEW i \in DOMAIN index'[b], LiveEntry(j, b, i)'
          PROVE  b \in bases /\ i \in DOMAIN index[b] /\ LiveEntry(j, b, i)
        <3>1. ~AtSlot(new, b, i)
            BY <1>5, <2>1 DEF AtSlot, LiveEntry, LiveNext
        <3>2. b \in bases /\ i \in DOMAIN index[b]
            BY <3>1 DEF Moved
        <3>3. ~AtSlot(old, b, i)
            BY <1>4, <2>1, <3>2 DEF LiveEntry
        <3>4. index'[b][i] = index[b][i]
            BY <3>2, <3>3 DEF Moved
        <3> QED
            BY <2>1, <3>2, <3>4 DEF LiveEntry
    <2>2. ASSUME NEW b \in bases, NEW i \in DOMAIN index[b], LiveEntry(j, b, i)
          PROVE  /\ i \in DOMAIN index'[b] /\ LiveEntry(j, b, i)'
                 /\ index'[b][i] = index[b][i]
                 /\ ValueAt(b, i)' = ValueAt(b, i)
        <3>1. ~AtSlot(old, b, i)
            BY <1>4, <2>2 DEF LiveEntry
        <3>2. i \in DOMAIN index'[b] /\ index'[b][i] = index[b][i]
            BY <3>1 DEF Moved
        <3>3. index[b][i].pos \in DOMAIN data[b]
            BY EntryFacts DEF IndInv
        <3>4. ~AtHead(old, b, index[b][i].pos)
            BY <1>1, <3>1 DEF FilesInv, FilesAgree, AtHead, AtSlot
        <3>5. data'[b][index[b][i].pos] = data[b][index[b][i].pos]
            BY <3>3, <3>4 DEF Moved
        <3> QED
            BY <1>2, <2>2, <3>2, <3>5 DEF LiveEntry, ValueAt
    <2> QED
        BY <1>2, <2>1, <2>2 DEF RecordsSame
<1> QED
    BY <1>5, <1>6, <1>7

(* The entries there were keep their key and their offset.                 *)
LEMMA MovedEntries ==
    ASSUME IndInv, FilesInv, NEW k \in Keys, NEW new, NEW old, NEW f, NEW v,
           Moved(k, new, old, f, v), NEW b \in bases, NEW i \in DOMAIN index[b]
    PROVE  /\ i \in DOMAIN index'[b]
           /\ index'[b][i].key = index[b][i].key /\ index'[b][i].pos = index[b][i].pos
           /\ Live(index'[b][i]) <=> Live(index[b][i]) /\ ~AtSlot(old, b, i)
           /\ AtSlot(old, b, i) => index[b][i].key = k
           /\ index[b][i].key # k => index'[b][i] = index[b][i]
           /\ ~AtSlot(old, b, i) => index'[b][i] = index[b][i]
           /\ data'[b][index[b][i].pos].val = data[b][index[b][i].pos].val
           /\ data'[b][index[b][i].pos].key = data[b][index[b][i].pos].key
           /\ Live(data'[b][index[b][i].pos]) <=>
                 Live(data[b][index[b][i].pos]) /\ ~AtSlot(old, b, i)
<1>1. /\ index[b][i] \in Entry /\ data[b][index[b][i].pos] \in Record
      /\ index[b][i].pos \in DOMAIN data[b]
    BY EntryFacts DEF IndInv
<1>2. old # NoLoc => /\ old.base \in bases /\ old.ip \in DOMAIN index[old.base]
                     /\ index[old.base][old.ip].key = k
                     /\ index[old.base][old.ip].pos = old.dp
    BY DEF Moved, LiveAt
<1>3. AtSlot(old, b, i) <=> AtHead(old, b, index[b][i].pos)
    BY <1>2 DEF AtSlot, AtHead, FilesInv, FilesAgree
<1>4. /\ i \in DOMAIN index'[b]
      /\ AtSlot(old, b, i) => index'[b][i] = Removed(index[b][i])
      /\ ~AtSlot(old, b, i) => index'[b][i] = index[b][i]
      /\ AtSlot(old, b, i) => data'[b][index[b][i].pos] = Removed(data[b][index[b][i].pos])
      /\ ~AtSlot(old, b, i) => data'[b][index[b][i].pos] = data[b][index[b][i].pos]
    BY <1>1, <1>3 DEF Moved
<1>5. AtSlot(old, b, i) => index[b][i].key = k
    BY <1>2 DEF AtSlot
<1>6. CASE AtSlot(old, b, i)
    <2>1. /\ Removed(index[b][i]).key = index[b][i].key
          /\ Removed(index[b][i]).pos = index[b][i].pos /\ ~Live(Removed(index[b][i]))
        BY <1>1 DEF Removed, Entry, Live
    <2> DEFINE r == data[b][index[b][i].pos]
    <2>2. Removed(r).key = r.key /\ Removed(r).val = r.val /\ ~Live(Removed(r))
        BY <1>1 DEF Removed, Record, Live
    <2> QED
        BY <1>4, <1>5, <1>6, <2>1, <2>2
<1>7. CASE ~AtSlot(old, b, i)
    BY <1>4, <1>5, <1>7
<1> QED
    BY <1>6, <1>7

LEMMA MovedLayout ==
    ASSUME IndInv, FilesInv, NEW k \in Keys, NEW new, NEW old, NEW f, NEW v,
           Moved(k, new, old, f, v), group' = group
    PROVE  /\ Layout' /\ bases \subseteq bases' /\ NotLast \subseteq NotLast'
           /\ \A b \in logging \cap bases' : b \in bases /\ b \in NotLast
<1>1. /\ born \in Nat /\ bases \subseteq 1 .. born /\ born + 1 \notin bases
      /\ logging \subseteq 1 .. born /\ born + 1 \notin logging
      /\ \A b \in bases : place[b] \in 1 .. born
      /\ born' \in Nat /\ born <= born' /\ gone \in [Bases -> Nat]
    BY BoundsAssumption DEF IndInv, DiskInv, FilesInv, Layout, Moved
<1>2. bases \subseteq bases' /\ (bases' = bases \/ bases' = bases \cup {born + 1})
    BY DEF Moved
<1>3. \A b \in bases : place'[b] = place[b]
    BY DEF Moved
<1>4. NotLast \subseteq NotLast'
    BY <1>2, <1>3 DEF NotLast
<1>5. \A b \in logging \cap bases' : b \in bases /\ b \in NotLast
    BY <1>1, <1>2 DEF FilesInv, Layout
<1>6. /\ logging' = logging /\ sorted' \subseteq bases'
      /\ logging' \subseteq 1 .. born' /\ group' \subseteq logging'
      /\ logging' \cap bases' \subseteq NotLast'
    BY <1>1, <1>2, <1>4, <1>5 DEF Moved, FilesInv, Layout
<1>7. \A b \in Bases \ bases' : index'[b] = <<>> /\ data'[b] = <<>> /\ gone'[b] = 0
    <2>1. \A b \in Bases \ bases' : index'[b] = index[b] /\ data'[b] = data[b]
                                    /\ index[b] = <<>> /\ data[b] = <<>> /\ gone[b] = 0
        BY <1>2 DEF Moved, FilesInv, Layout
    <2>2. old # NoLoc => old.base \in bases
        BY DEF Moved, LiveAt
    <2>3. \A b \in Bases \ bases' : gone'[b] = gone[b]
        BY <1>1, <1>2, <2>2 DEF Moved, CountMarked
    <2> QED
        BY <2>1, <2>3
<1>8. CASE bases' = bases
    <2>1. bases' = {} \/ \E c \in bases' : \A b \in bases' : place'[b] <= place'[c]
        BY <1>3, <1>8 DEF FilesInv, Layout
    <2>2. /\ \A b \in bases' : place'[b] \in 1 .. born'
          /\ \A b, c \in bases' : place'[b] = place'[c] => b = c
        BY <1>1, <1>3, <1>8 DEF FilesInv, Layout
    <2> QED
        BY <1>2, <1>4, <1>5, <1>6, <1>7, <2>1, <2>2 DEF Layout
<1>9. CASE bases' # bases
    <2>1. bases' = bases \cup {born + 1} /\ born' = born + 1 /\ place'[born + 1] = born + 1
        BY <1>9 DEF Moved
    <2>2. /\ \A b \in bases : place'[b] \in 1 .. born /\ place'[b] <= born + 1
                              /\ place'[b] # born + 1
          /\ place'[born + 1] \in 1 .. born' /\ born + 1 <= born + 1
        BY <1>1, <1>3, <2>1
    <2>3. \E c \in bases' : \A b \in bases' : place'[b] <= place'[c]
        <3>1. born + 1 \in bases' /\ \A b \in bases' : place'[b] <= place'[born + 1]
            BY <2>1, <2>2
        <3> QED
            BY <3>1
    <2>4. \A b \in bases' : place'[b] \in 1 .. born'
        BY <1>1, <2>1, <2>2
    <2>5. \A b, c \in bases' : place'[b] = place'[c] => b = c
        BY <1>3, <2>1, <2>2 DEF FilesInv, Layout
    <2> QED
        BY <1>2, <1>4, <1>5, <1>6, <1>7, <2>3, <2>4, <2>5 DEF Layout
<1> QED
    BY <1>8, <1>9

LEMMA MovedExact ==
    ASSUME IndInv, FilesInv, NEW k \in Keys, NEW new, NEW old, NEW f, NEW v,
           Moved(k, new, old, f, v)
    PROVE  Exact'
<1> SUFFICES ASSUME NEW b \in bases' PROVE gone'[b] = CountRemoved(index'[b])
    BY DEF Exact
<1> DEFINE rem == {i \in DOMAIN index[b] : ~Live(index[b][i])}
           remNext == {i \in DOMAIN index'[b] : ~Live(index'[b][i])}
<1>1. CountRemoved(index'[b]) = Cardinality(remNext)
      /\ CountRemoved(index[b]) = Cardinality(rem)
    BY DEF CountRemoved
<1>2. gone \in [Bases -> Nat] /\ bases \subseteq Bases
    BY DEF IndInv, DiskInv
<1>3. old # NoLoc => old.base \in bases
    BY DEF Moved, LiveAt
<1>4. AtSlot(new, b, new.ip) => Live(index'[b][new.ip])
    BY DEF Moved, AtSlot, Live
<1>5. CASE b \notin bases
    <2>1. \A i \in DOMAIN index'[b] : AtSlot(new, b, i)
        BY <1>5 DEF Moved
    <2>2. remNext = {}
        BY <1>4, <2>1 DEF AtSlot
    <2>3. b \in Bases
        BY <1>5, <2>1 DEF Moved, Loc
    <2>4. gone'[b] = 0
        <3>1. gone[b] = 0
            BY <1>5, <2>3 DEF FilesInv, Layout
        <3> QED
            BY <1>2, <1>3, <1>5, <2>3, <3>1 DEF Moved, CountMarked
    <2> QED
        BY <1>1, <2>2, <2>4, FS_EmptySet
<1>6. CASE b \in bases
    <2>1. \A i \in DOMAIN index'[b] : AtSlot(new, b, i) \/ i \in DOMAIN index[b]
        BY DEF Moved
    <2>2. \A i \in DOMAIN index[b] :
             /\ i \in DOMAIN index'[b]
             /\ Live(index'[b][i]) <=> Live(index[b][i]) /\ ~AtSlot(old, b, i)
        BY <1>6, MovedEntries
    <2>3. gone[b] = Cardinality(rem) /\ gone[b] \in Nat
        BY <1>1, <1>2, <1>6 DEF FilesInv, Exact
    <2>4. IsFiniteSet(rem)
        <3>1. index[b] \in Seq(Entry)
            BY <1>2, <1>6 DEF IndInv, DiskInv
        <3>2. DOMAIN index[b] = 1 .. Len(index[b]) /\ Len(index[b]) \in Nat
            BY <3>1, LenProperties
        <3>3. IsFiniteSet(1 .. Len(index[b]))
            BY <3>2, FS_Interval
        <3> QED
            BY <3>2, <3>3, FS_Subset
    <2>5. CASE old # NoLoc /\ b = old.base
        <3>1. old.ip \in DOMAIN index[b] /\ Live(index[b][old.ip])
            BY <2>5 DEF Moved, LiveAt
        <3>2. remNext = rem \cup {old.ip} /\ old.ip \notin rem
            BY <1>4, <2>1, <2>2, <2>5, <3>1 DEF AtSlot
        <3>3. Cardinality(rem \cup {old.ip}) = Cardinality(rem) + 1
            BY <2>4, <3>2, FS_AddElement
        <3>4. gone'[b] = gone[b] + 1
            BY <1>2, <1>6, <2>5 DEF Moved, CountMarked
        <3> QED
            BY <1>1, <2>3, <3>2, <3>3, <3>4
    <2>6. CASE old = NoLoc \/ b # old.base
        <3>1. remNext = rem
            BY <1>4, <2>1, <2>2, <2>6 DEF AtSlot
        <3>2. gone'[b] = gone[b]
            BY <1>2, <1>3, <1>6, <2>6 DEF Moved, CountMarked
        <3> QED
            BY <1>1, <2>3, <3>1, <3>2
    <2> QED
        BY <2>5, <2>6
<1> QED
    BY <1>5, <1>6

(* Moving a record keeps all that is claimed of the files.                 *)
LEMMA MovedFiles ==
    ASSUME IndInv, FilesInv, NEW k \in Keys, NEW new, NEW old, NEW f, NEW v,
           Moved(k, new, old, f, v), UNCHANGED defrag, torn' = torn, failed' = failed,
           \A j \in Keys : op'[j].pc = "payload" =>
              op'[j] = op[j] \/ (new # NoLoc /\ op'[j].new = new)
    PROVE  FilesInv'
<1> USE DEF defrag
<1>1. /\ Layout' /\ bases \subseteq bases' /\ logging' = logging
      /\ \A b \in logging \cap bases' : b \in bases /\ b \in NotLast
    <2>1. logging' = logging
        BY DEF Moved
    <2> QED
        BY <2>1, MovedLayout
<1>2. Exact'
    BY MovedExact
<1>3. \A b \in bases' : \A i \in DOMAIN index'[b] : LiveEntry(k, b, i)' <=> AtSlot(new, b, i)
    BY MovedLive
<1>4. \A j \in Keys \ {k} : RecordsSame(j)
    BY MovedLive
<1>5. group \subseteq bases /\ group \subseteq NotLast /\ group \subseteq logging
    BY DEF IndInv, SortInv, SortsOldBases, NotLast, FilesInv, Layout
<1>6. FilesAgree'
    <2> SUFFICES ASSUME NEW b \in bases'
                 PROVE  /\ \A i, j \in DOMAIN index'[b] :
                              index'[b][i].pos = index'[b][j].pos => i = j
                        /\ \A i \in DOMAIN index'[b] :
                              /\ data'[b][index'[b][i].pos].key = index'[b][i].key
                              /\ Live(data'[b][index'[b][i].pos]) <=> Live(index'[b][i])
        BY DEF FilesAgree
    <2>1. \A i \in DOMAIN index'[b] : AtSlot(new, b, i) \/ (b \in bases /\ i \in DOMAIN index[b])
        BY DEF Moved
    <2>2. ASSUME NEW i \in DOMAIN index'[b], AtSlot(new, b, i)
          PROVE  /\ index'[b][i].pos = new.dp /\ data'[b][index'[b][i].pos].key = index'[b][i].key
                 /\ Live(data'[b][index'[b][i].pos]) <=> Live(index'[b][i])
                 /\ b \in bases => new.dp \notin DOMAIN data[b]
        BY <2>2 DEF Moved, AtSlot, Live
    <2>3. ASSUME b \in bases, NEW i \in DOMAIN index[b]
          PROVE  /\ index'[b][i].pos = index[b][i].pos /\ index[b][i].pos \in DOMAIN data[b]
                 /\ data'[b][index'[b][i].pos].key = index'[b][i].key
                 /\ Live(data'[b][index'[b][i].pos]) <=> Live(index'[b][i])
        <3>1. index[b][i].pos \in DOMAIN data[b]
            BY <2>3, EntryFacts DEF IndInv
        <3>2. /\ data[b][index[b][i].pos].key = index[b][i].key
              /\ Live(data[b][index[b][i].pos]) <=> Live(index[b][i])
            BY <2>3 DEF FilesInv, FilesAgree
        <3> QED
            BY <2>3, <3>1, <3>2, MovedEntries, SMTT(40)
    <2>4. ASSUME NEW i \in DOMAIN index'[b], NEW j \in DOMAIN index'[b],
                 index'[b][i].pos = index'[b][j].pos
          PROVE  i = j
        <3>1. CASE AtSlot(new, b, i) /\ AtSlot(new, b, j)
            BY <3>1 DEF AtSlot
        <3>2. CASE AtSlot(new, b, i) /\ b \in bases /\ j \in DOMAIN index[b]
            BY <2>2, <2>3, <2>4, <3>2
        <3>3. CASE AtSlot(new, b, j) /\ b \in bases /\ i \in DOMAIN index[b]
            BY <2>2, <2>3, <2>4, <3>3
        <3>4. CASE b \in bases /\ i \in DOMAIN index[b] /\ j \in DOMAIN index[b]
            BY <2>3, <2>4, <3>4 DEF FilesInv, FilesAgree
        <3> QED
            BY <2>1, <3>1, <3>2, <3>3, <3>4
    <2> QED
        BY <2>1, <2>2, <2>3, <2>4
<1>7. Once'
    <2> SUFFICES ASSUME NEW j \in Keys, NEW b \in bases', NEW c \in bases',
                        NEW i \in DOMAIN index'[b], NEW m \in DOMAIN index'[c],
                        LiveEntry(j, b, i)', LiveEntry(j, c, m)'
                 PROVE  b = c /\ i = m
        BY DEF Once
    <2>1. CASE j = k
        BY <1>3, <2>1 DEF AtSlot
    <2>2. CASE j # k
        <3>1. /\ b \in bases /\ i \in DOMAIN index[b] /\ LiveEntry(j, b, i)
              /\ c \in bases /\ m \in DOMAIN index[c] /\ LiveEntry(j, c, m)
            BY <1>4, <2>2 DEF RecordsSame
        <3> QED
            BY <3>1 DEF FilesInv, Once
    <2> QED
        BY <2>1, <2>2
<1>8. ASSUME NEW b \in NotLast, NEW i \in DOMAIN index'[b]
      PROVE  b \in bases /\ i \in DOMAIN index[b] /\ ~AtSlot(new, b, i)
    BY <1>1 DEF NotLast, Moved, AtSlot
<1>9. \A b \in logging : \A j \in logged'[b] : j \in logged[b] \/ j = k
    <2>1. logged \in [Bases -> SUBSET Keys]
        BY DEF IndInv, DiskInv
    <2> QED
        BY <2>1 DEF Moved, BinlogAppend, IndInv, DiskInv
<1>10. logged' \in [Bases -> SUBSET Keys] /\ logged \in [Bases -> SUBSET Keys]
       /\ logging \subseteq Bases
    <2>1. old # NoLoc => old \in Loc
        BY DEF Moved
    <2> QED
        BY <2>1, BinlogAppendType DEF Moved, IndInv, DiskInv
<1>11. LoggedGone'
    <2>1. ASSUME NEW b \in logging, NEW c \in bases', c \in NotLast, NEW j \in logged'[b],
                 NEW i \in DOMAIN index'[c], LiveEntry(j, c, i)'
          PROVE  /\ j \in logged[b] /\ c \in bases /\ i \in DOMAIN index[c]
                 /\ LiveEntry(j, c, i)
        <3>1. ~AtSlot(new, c, i)
            BY <1>8, <2>1
        <3>2. j # k
            BY <1>3, <2>1, <3>1
        <3>3. j \in Keys
            BY <1>10
        <3> QED
            BY <1>4, <1>9, <2>1, <3>2, <3>3 DEF RecordsSame
    <2>2. \A b \in logging \cap bases' : \A j \in logged'[b] : \A i \in DOMAIN index'[b] :
             ~LiveEntry(j, b, i)'
        <3> SUFFICES ASSUME NEW b \in logging \cap bases', NEW j \in logged'[b],
                            NEW i \in DOMAIN index'[b], LiveEntry(j, b, i)'
                     PROVE  FALSE
            OBVIOUS
        <3>1. b \in bases /\ b \in NotLast
            BY <1>1
        <3> QED
            BY <2>1, <3>1 DEF FilesInv, LoggedGone
    <2>3. \A b, c \in group : \A j \in logged'[b] : \A i \in DOMAIN index'[c] :
             ~LiveEntry(j, c, i)'
        <3> SUFFICES ASSUME NEW b \in group, NEW c \in group, NEW j \in logged'[b],
                            NEW i \in DOMAIN index'[c], LiveEntry(j, c, i)'
                     PROVE  FALSE
            OBVIOUS
        <3> QED
            BY <1>1, <1>5, <2>1 DEF FilesInv, LoggedGone
    <2> QED
        BY <1>1, <2>2, <2>3 DEF LoggedGone
<1>12. \A b \in group : DOMAIN index'[b] = DOMAIN index[b]
    BY <1>5, <1>8, MovedEntries
<1>13. \A b \in group : /\ logged[b] \subseteq logged'[b]
                        /\ \A i \in DOMAIN index[b] : AtSlot(old, b, i) => k \in logged'[b]
    BY <1>5, <1>10 DEF Moved, BinlogAppend, AtSlot
<1>14. \A b \in group : \A i \in DOMAIN index[b] :
          /\ index'[b][i].key = index[b][i].key /\ index'[b][i].pos = index[b][i].pos
          /\ index[b][i].key \notin logged'[b] => index'[b][i] = index[b][i]
          /\ ValueAt(b, i)' = ValueAt(b, i)
          /\ Live(index'[b][i]) => Live(index[b][i])
    BY <1>5, <1>13, MovedEntries DEF ValueAt
<1>15. SnapGood'
    <2>1. ASSUME NEW b \in group, SameBut(snap, index[b], logged[b])
          PROVE  SameBut(snap, index'[b], logged'[b])
        BY <1>12, <1>13, <1>14, <2>1, SameButMarked
    <2> QED
        BY <2>1 DEF FilesInv, SnapGood
<1>16. ChunkGood'
    <2>1. Suspect' = Suspect
        BY DEF Suspect
    <2>2. ASSUME NEW c \in chunk
          PROVE  /\ c.base \in group \ left /\ c.ip \in DOMAIN index'[c.base]
                 /\ c.key = index'[c.base][c.ip].key /\ Live(c)
                 /\ c.key \notin logged'[c.base] => index'[c.base][c.ip].flag = c.flag
                 /\ c.key \notin Suspect \cup logged'[c.base] =>
                       ValueAt(c.base, c.ip)' = c.val
        <3>1. /\ c.base \in group \ left /\ c.ip \in DOMAIN index[c.base]
              /\ c.key = index[c.base][c.ip].key /\ Live(c)
              /\ c.key \notin logged[c.base] => index[c.base][c.ip].flag = c.flag
              /\ c.key \notin Suspect \cup logged[c.base] => ValueAt(c.base, c.ip) = c.val
            BY DEF FilesInv, ChunkGood
        <3> QED
            BY <1>12, <1>13, <1>14, <3>1
    <2>3. \A b \in group \ left : \A i \in DOMAIN index'[b] :
             job = "datasort" /\ Live(index'[b][i]) => \E c \in chunk : c.base = b /\ c.ip = i
        BY <1>12, <1>14 DEF FilesInv, ChunkGood
    <2>4. \A j \in Keys : job = "datasort" /\ op'[j].pc = "payload"
                          /\ op'[j].new.base \in group \ left => j \in torn
        BY <1>5 DEF FilesInv, ChunkGood, Moved
    <2> QED
        BY <2>1, <2>2, <2>3, <2>4 DEF FilesInv, ChunkGood
<1> QED
    BY <1>1, <1>2, <1>6, <1>7, <1>11, <1>15, <1>16 DEF FilesInv

(* eblob_mark_entry_removed, without a new record.                         *)
LEMMA MarkMoves ==
    ASSUME IndInv, NEW k \in Keys, NEW l \in Loc, LiveAt(k, l),
           index' = IndexMarked(index, l), data' = DataMarked(data, l),
           logged' = BinlogAppend(k, l), gone' = CountMarked(l),
           UNCHANGED <<bases, place, born, sorted, logging>>
    PROVE  Moved(k, NoLoc, l, "committed", Junk)
<1> DEFINE e == Removed(index[l.base][l.ip])
           r == Removed(data[l.base][l.dp])
<1>1. /\ index \in [Bases -> Seq(Entry)] /\ data \in [Bases -> Seq(Record)]
      /\ l.base \in Bases /\ bases \subseteq Bases /\ l # NoLoc
    BY NoValueAssumption DEF IndInv, DiskInv, Loc
<1>2. /\ l.base \in bases /\ l.ip \in DOMAIN index[l.base]
      /\ l.dp \in DOMAIN data[l.base] /\ e \in Entry /\ r \in Record
    <2>1. /\ l.base \in bases /\ l.ip \in DOMAIN index[l.base]
          /\ index[l.base][l.ip].pos = l.dp
        BY DEF LiveAt
    <2>2. /\ index[l.base][l.ip] \in Entry /\ l.dp \in DOMAIN data[l.base]
          /\ data[l.base][l.dp] \in Record
        BY <2>1, EntryFacts DEF IndInv
    <2> QED
        BY <2>1, <2>2, RemovedTypes
<1>3. index' = [index EXCEPT ![l.base][l.ip] = e]
    BY DEF IndexMarked, Removed
<1>4. data' = [data EXCEPT ![l.base][l.dp] = r]
    BY DEF DataMarked, Removed
<1> HIDE DEF e, r
<1>5. /\ \A c \in Bases : DOMAIN index'[c] = DOMAIN index[c]
      /\ \A c \in Bases : \A j \in DOMAIN index[c] :
            index'[c][j] = IF c = l.base /\ j = l.ip THEN e ELSE index[c][j]
      /\ \A c \in Bases \ {l.base} : index'[c] = index[c]
    <2>1. \A c \in Bases \ {l.base} : index'[c] = index[c]
        BY <1>1, <1>3
    <2> QED
        BY <1>1, <1>2, <1>3, <2>1, SlotCommitted
<1>6. /\ \A c \in Bases : \A j \in DOMAIN data[c] :
            data'[c][j] = IF c = l.base /\ j = l.dp THEN r ELSE data[c][j]
      /\ \A c \in Bases \ {l.base} : data'[c] = data[c]
    <2>1. \A c \in Bases \ {l.base} : data'[c] = data[c]
        BY <1>1, <1>4
    <2> QED
        BY <1>1, <1>2, <1>4, <2>1, SlotCommitted
<1>7. /\ \A b \in bases : \A i \in DOMAIN index[b] :
            /\ i \in DOMAIN index'[b]
            /\ AtSlot(l, b, i) => index'[b][i] = Removed(index[b][i])
            /\ ~AtSlot(l, b, i) => index'[b][i] = index[b][i]
      /\ \A b \in bases : \A p \in DOMAIN data[b] :
            /\ AtHead(l, b, p) => data'[b][p] = Removed(data[b][p])
            /\ ~AtHead(l, b, p) => data'[b][p] = data[b][p]
    BY <1>1, <1>5, <1>6 DEF AtSlot, AtHead, e, r
<1>8. /\ \A b \in Bases \ bases' : index'[b] = index[b] /\ data'[b] = data[b]
      /\ \A b \in bases' : \A i \in DOMAIN index'[b] : b \in bases /\ i \in DOMAIN index[b]
    BY <1>1, <1>2, <1>5, <1>6
<1> QED
    BY <1>1, <1>7, <1>8 DEF Moved

(* One slot appended to one file.                                          *)
LEMMA AppendedSlot ==
    ASSUME NEW S, NEW F \in [Bases -> Seq(S)], NEW b \in Bases, NEW e \in S,
           NEW G, G = [F EXCEPT ![b] = Append(@, e)], NEW n, n = Len(F[b]) + 1
    PROVE  /\ G \in [Bases -> Seq(S)]
           /\ \A c \in Bases : \A j \in DOMAIN F[c] :
                 j \in DOMAIN G[c] /\ G[c][j] = F[c][j]
           /\ \A c \in Bases : \A j \in DOMAIN G[c] :
                 j \in DOMAIN F[c] \/ (c = b /\ j = n)
           /\ n \in DOMAIN G[b] /\ n \notin DOMAIN F[b] /\ G[b][n] = e
           /\ \A c \in Bases \ {b} : G[c] = F[c]
<1>1. /\ G \in [Bases -> Seq(S)]
      /\ \A c \in Bases : DOMAIN F[c] \subseteq DOMAIN G[c]
      /\ \A c \in Bases : \A j \in DOMAIN F[c] : G[c][j] = F[c][j]
      /\ DOMAIN G[b] = 1 .. (Len(F[b]) + 1)
      /\ G[b][Len(F[b]) + 1] = e
      /\ \A c \in Bases \ {b} : G[c] = F[c]
    BY SlotAppended
<1>2. DOMAIN F[b] = 1 .. Len(F[b]) /\ Len(F[b]) \in Nat
    BY LenProperties
<1>3. \A j \in 1 .. (Len(F[b]) + 1) : j \in 1 .. Len(F[b]) \/ j = n
    BY <1>2
<1>4. n \in 1 .. (Len(F[b]) + 1) /\ n \notin 1 .. Len(F[b])
    BY <1>2
<1>5. \A j \in DOMAIN G[b] : j \in DOMAIN F[b] \/ j = n
    BY <1>1, <1>2, <1>3
<1>6. \A c \in Bases : \A j \in DOMAIN G[c] : j \in DOMAIN F[c] \/ (c = b /\ j = n)
    <2> SUFFICES ASSUME NEW c \in Bases, NEW j \in DOMAIN G[c]
                 PROVE  j \in DOMAIN F[c] \/ (c = b /\ j = n)
        OBVIOUS
    <2>1. CASE c = b
        BY <1>5, <2>1, Zenon
    <2>2. CASE c # b
        BY <1>1, <2>2, Zenon
    <2> QED
        BY <2>1, <2>2
<1> QED
    BY <1>1, <1>2, <1>4, <1>6

(* One slot of one of the files rewritten as removed.                      *)
LEMMA MarkedSlot ==
    ASSUME NEW S, NEW F \in [Bases -> Seq(S)], NEW b \in Bases, NEW i \in DOMAIN F[b],
           NEW e \in S, e = Removed(F[b][i]), NEW G, G = [F EXCEPT ![b][i] = e]
    PROVE  /\ \A c \in Bases : DOMAIN G[c] = DOMAIN F[c]
           /\ \A c \in Bases : \A j \in DOMAIN F[c] :
                 /\ c = b /\ j = i => G[c][j] = Removed(F[c][j])
                 /\ c # b \/ j # i => G[c][j] = F[c][j]
           /\ \A c \in Bases \ {b} : G[c] = F[c]
<1>1. \A c \in Bases \ {b} : G[c] = F[c]
    OBVIOUS
<1>2. /\ \A c \in Bases : DOMAIN G[c] = DOMAIN F[c]
      /\ \A c \in Bases : \A j \in DOMAIN F[c] :
            G[c][j] = IF c = b /\ j = i THEN e ELSE F[c][j]
    BY SlotCommitted, Zenon
<1> QED
    BY <1>1, <1>2

(* eblob_write_prepare_disk_ll moves the record.                           *)
LEMMA PrepareMoves ==
    ASSUME IndInv, FilesInv, NEW k \in Keys, NEW l \in NewLocs, NEW old \in Loc \cup {NoLoc},
           NEW f \in {"committed", "uncommitted"}, NEW p \in Payload,
           IF old = NoLoc THEN NoRecord(k) ELSE LiveAt(k, old),
           PrepareDiskLL(k, l, old, f, p)
    PROVE  Moved(k, l, old, f, p) /\ l \in Loc /\ l # NoLoc
<1> DEFINE e == [key |-> k, flag |-> f, pos |-> l.dp]
           r == [key |-> k, flag |-> f, val |-> p]
           idx == [index EXCEPT ![l.base] = Append(@, e)]
           dat == [data EXCEPT ![l.base] = Append(@, r)]
<1>1. /\ AddNewBase
      /\ index' = IF old = NoLoc THEN idx ELSE IndexMarked(idx, old)
      /\ data' = IF old = NoLoc THEN dat ELSE DataMarked(dat, old)
      /\ logged' = IF old = NoLoc THEN logged ELSE BinlogAppend(k, old)
      /\ gone' = IF old = NoLoc THEN gone ELSE CountMarked(old)
      /\ sorted' = sorted /\ logging' = logging
    BY DEF PrepareDiskLL
<1>2. /\ l \in Loc /\ l.base \notin NotLast
      /\ l.ip = Len(index[l.base]) + 1 /\ l.dp = Len(data[l.base]) + 1
      /\ IF NeedsNewBase THEN l.base = born + 1 ELSE l.base \in bases
    BY NewLocFree DEF IndInv
<1>3. /\ index \in [Bases -> Seq(Entry)] /\ data \in [Bases -> Seq(Record)]
      /\ l.base \in Bases /\ e \in Entry /\ r \in Record /\ l # NoLoc
      /\ bases \subseteq Bases /\ place \in [Bases -> Nat] /\ born + 1 \notin bases
    <2>1. /\ index \in [Bases -> Seq(Entry)] /\ data \in [Bases -> Seq(Record)]
          /\ bases \subseteq Bases /\ place \in [Bases -> Nat] /\ born + 1 \notin bases
        BY BoundsAssumption DEF IndInv, DiskInv
    <2>2. l.base \in Bases /\ l.dp \in Nat /\ l # NoLoc
        BY <1>2, NoValueAssumption DEF Loc
    <2>3. e \in Entry /\ r \in Record
        BY <2>2 DEF Entry, Record, Flags
    <2> QED
        BY <2>1, <2>2, <2>3
<1>4. /\ IF l.base \notin bases
         THEN /\ l.base = born + 1 /\ born' = born + 1 /\ bases' = bases \cup {born + 1}
              /\ place'[born + 1] = born + 1
         ELSE bases' = bases /\ born' = born
      /\ \A b \in bases : place'[b] = place[b]
    <2>1. CASE NeedsNewBase
        <3>1. l.base = born + 1 /\ l.base \notin bases
            BY <1>2, <1>3, <2>1
        <3>2. /\ born' = born + 1 /\ bases' = bases \cup {born + 1}
              /\ place' = [place EXCEPT ![born + 1] = born + 1]
            BY <1>1, <2>1 DEF AddNewBase
        <3>3. place'[born + 1] = born + 1 /\ \A b \in bases : place'[b] = place[b]
            BY <1>3, <3>1, <3>2
        <3> QED
            BY <3>1, <3>2, <3>3
    <2>2. CASE ~NeedsNewBase
        BY <1>1, <1>2, <2>2 DEF AddNewBase
    <2> QED
        BY <2>1, <2>2
<1> HIDE DEF e, r
<1>5. /\ idx \in [Bases -> Seq(Entry)]
      /\ \A c \in Bases : \A j \in DOMAIN index[c] :
            j \in DOMAIN idx[c] /\ idx[c][j] = index[c][j]
      /\ \A c \in Bases : \A j \in DOMAIN idx[c] :
            j \in DOMAIN index[c] \/ (c = l.base /\ j = l.ip)
      /\ l.ip \in DOMAIN idx[l.base] /\ l.ip \notin DOMAIN index[l.base]
      /\ idx[l.base][l.ip] = e
      /\ \A c \in Bases \ {l.base} : idx[c] = index[c]
    <2> HIDE DEF idx
    <2>1. idx = [index EXCEPT ![l.base] = Append(@, e)]
        BY DEF idx
    <2> QED
        BY <1>2, <1>3, <2>1, AppendedSlot
<1>6. /\ dat \in [Bases -> Seq(Record)]
      /\ \A c \in Bases : \A j \in DOMAIN data[c] :
            j \in DOMAIN dat[c] /\ dat[c][j] = data[c][j]
      /\ l.dp \in DOMAIN dat[l.base] /\ l.dp \notin DOMAIN data[l.base]
      /\ dat[l.base][l.dp] = r
      /\ \A c \in Bases \ {l.base} : dat[c] = data[c]
    <2> HIDE DEF dat
    <2>1. dat = [data EXCEPT ![l.base] = Append(@, r)]
        BY DEF dat
    <2> QED
        BY <1>2, <1>3, <2>1, AppendedSlot
<1> HIDE DEF idx, dat
<1>7. old # NoLoc => /\ old.base \in bases /\ old.ip \in DOMAIN index[old.base]
                     /\ old.dp \in DOMAIN data[old.base]
                     /\ index[old.base][old.ip] \in Entry
                     /\ data[old.base][old.dp] \in Record
    <2>1. old # NoLoc => /\ old.base \in bases /\ old.ip \in DOMAIN index[old.base]
                         /\ index[old.base][old.ip].pos = old.dp
        BY DEF LiveAt
    <2> QED
        BY <2>1, EntryFacts DEF IndInv
<1>8. /\ \A c \in Bases : DOMAIN index'[c] = DOMAIN idx[c]
      /\ \A c \in Bases : \A j \in DOMAIN idx[c] :
            /\ AtSlot(old, c, j) => index'[c][j] = Removed(idx[c][j])
            /\ ~AtSlot(old, c, j) => index'[c][j] = idx[c][j]
      /\ old # NoLoc => \A c \in Bases \ {old.base} : index'[c] = idx[c]
    <2>1. CASE old = NoLoc
        BY <1>1, <2>1 DEF AtSlot
    <2>2. CASE old # NoLoc
        <3>1. index' = [idx EXCEPT ![old.base][old.ip] = Removed(idx[old.base][old.ip])]
            BY <1>1, <2>2 DEF IndexMarked, Removed
        <3>2. /\ old.base \in Bases /\ old.ip \in DOMAIN idx[old.base]
              /\ Removed(idx[old.base][old.ip]) \in Entry
            BY <1>3, <1>5, <1>7, <2>2, RemovedTypes
        <3>3. /\ \A c \in Bases : DOMAIN index'[c] = DOMAIN idx[c]
              /\ \A c \in Bases : \A j \in DOMAIN idx[c] :
                    /\ c = old.base /\ j = old.ip => index'[c][j] = Removed(idx[c][j])
                    /\ c # old.base \/ j # old.ip => index'[c][j] = idx[c][j]
              /\ \A c \in Bases \ {old.base} : index'[c] = idx[c]
            BY <1>5, <3>1, <3>2, MarkedSlot
        <3> QED
            BY <2>2, <3>3 DEF AtSlot
    <2> QED
        BY <2>1, <2>2
<1>9. /\ \A c \in Bases : \A j \in DOMAIN dat[c] :
            /\ AtHead(old, c, j) => data'[c][j] = Removed(dat[c][j])
            /\ ~AtHead(old, c, j) => data'[c][j] = dat[c][j]
      /\ old # NoLoc => \A c \in Bases \ {old.base} : data'[c] = dat[c]
    <2>1. CASE old = NoLoc
        BY <1>1, <2>1 DEF AtHead
    <2>2. CASE old # NoLoc
        <3>1. data' = [dat EXCEPT ![old.base][old.dp] = Removed(dat[old.base][old.dp])]
            BY <1>1, <2>2 DEF DataMarked, Removed
        <3>2. /\ old.base \in Bases /\ old.dp \in DOMAIN dat[old.base]
              /\ Removed(dat[old.base][old.dp]) \in Record
            BY <1>3, <1>6, <1>7, <2>2, RemovedTypes
        <3>3. /\ \A c \in Bases : \A j \in DOMAIN dat[c] :
                    /\ c = old.base /\ j = old.dp => data'[c][j] = Removed(dat[c][j])
                    /\ c # old.base \/ j # old.dp => data'[c][j] = dat[c][j]
              /\ \A c \in Bases \ {old.base} : data'[c] = dat[c]
            BY <1>6, <3>1, <3>2, MarkedSlot
        <3> QED
            BY <2>2, <3>3 DEF AtHead
    <2> QED
        BY <2>1, <2>2
<1>10. ~AtSlot(old, l.base, l.ip) /\ ~AtHead(old, l.base, l.dp)
    BY <1>5, <1>6, <1>7 DEF AtSlot, AtHead
<1>11. /\ index'[l.base][l.ip] = e /\ data'[l.base][l.dp] = r
       /\ l.ip \in DOMAIN index'[l.base]
    BY <1>3, <1>5, <1>6, <1>8, <1>9, <1>10
<1>12. \A b \in bases : \A i \in DOMAIN index[b] :
          /\ i \in DOMAIN index'[b]
          /\ AtSlot(old, b, i) => index'[b][i] = Removed(index[b][i])
          /\ ~AtSlot(old, b, i) => index'[b][i] = index[b][i]
    BY <1>3, <1>5, <1>8
<1>13. \A b \in bases : \A q \in DOMAIN data[b] :
          /\ AtHead(old, b, q) => data'[b][q] = Removed(data[b][q])
          /\ ~AtHead(old, b, q) => data'[b][q] = data[b][q]
    BY <1>3, <1>6, <1>9
<1>14. \A b \in bases' : \A i \in DOMAIN index'[b] :
          AtSlot(l, b, i) \/ (b \in bases /\ i \in DOMAIN index[b])
    <2> SUFFICES ASSUME NEW b \in bases', NEW i \in DOMAIN index'[b]
                 PROVE  AtSlot(l, b, i) \/ (b \in bases /\ i \in DOMAIN index[b])
        OBVIOUS
    <2>1. b \in bases \/ b = l.base
        BY <1>4
    <2>2. b \in Bases /\ (i \in DOMAIN index[b] \/ (b = l.base /\ i = l.ip))
        BY <1>3, <1>5, <1>8, <2>1
    <2>3. b \notin bases => DOMAIN index[b] = {}
        <3>1. b \notin bases => index[b] = <<>>
            BY <2>2 DEF FilesInv, Layout
        <3> QED
            BY <3>1, EmptySeq
    <2>4. CASE b \in bases
        BY <1>3, <2>2, <2>4, Zenon DEF AtSlot
    <2>5. CASE b \notin bases
        <3>1. b = l.base /\ i = l.ip
            BY <2>2, <2>3, <2>5
        <3> QED
            BY <1>3, <3>1, Zenon DEF AtSlot
    <2> QED
        BY <2>4, <2>5
<1>15. \A b \in Bases \ bases' : index'[b] = index[b] /\ data'[b] = data[b]
    <2>1. l.base \in bases' /\ bases \subseteq bases'
        BY <1>4
    <2> QED
        BY <1>1, <1>5, <1>6, <1>7, <1>8, <1>9, <2>1
<1> QED
    BY <1>1, <1>2, <1>3, <1>4, <1>5, <1>6, <1>11, <1>12, <1>13, <1>14, <1>15
       DEF Moved, e, r

(* What moving a record of k leaves to show: the claims about k.           *)
LEMMA MovedKeeps ==
    ASSUME IndInv, RecInv, NEW k \in Keys, NEW new, NEW old, NEW f, NEW v,
           Moved(k, new, old, f, v), UNCHANGED defrag, UNCHANGED <<failed, torn>>,
           \A j \in Keys \ {k} : KeySame(j),
           op'[k].pc = "payload" => new # NoLoc /\ op'[k].new = new,
           Once' => KeyInv(k)'
    PROVE  RecInv'
<1>1. \A j \in Keys \ {k} : KeySame(j) /\ RecordsSame(j)
    BY MovedLive, RecInvParts
<1>2. \A j \in Keys : op'[j].pc = "payload" =>
         op'[j] = op[j] \/ (new # NoLoc /\ op'[j].new = new)
    BY DEF KeySame
<1>3. FilesInv'
    BY <1>2, MovedFiles, RecInvParts
<1>4. \A j \in Keys \ {k} : KeyInv(j)'
    BY <1>1, OthersKeep
<1>5. Once'
    BY <1>3 DEF FilesInv
<1> QED
    BY <1>3, <1>4, <1>5, RecInvParts

(* eblob_write_prepare_disk: the operation holds the slot it reserved.     *)
LEMMA PrepareDiskRec ==
    ASSUME IndInv, RecInv, IndInv', NEW k \in Keys, PrepareDisk(k)
    PROVE  RecInv'
<1> DEFINE f == IF op[k].kind = "prepare" THEN "uncommitted" ELSE "committed"
           pc == IF op[k].kind = "prepare" THEN "ram" ELSE "payload"
<1>1. PICK old \in OldLocs(k), l \in NewLocs :
         /\ PrepareDiskLL(k, l, old, f, Copied(k, old))
         /\ op' = [op EXCEPT ![k] = [op[k] EXCEPT !.new = l, !.old = NoLoc,
                                                  !.moved = FALSE, !.pc = pc]]
    BY DEF PrepareDisk, Begin
<1> DEFINE p == Copied(k, old)
           o == [op[k] EXCEPT !.new = l, !.old = NoLoc, !.moved = FALSE, !.pc = pc]
<1>2. op[k].pc = "prep" /\ cache' = cache /\ UNCHANGED defrag /\ UNCHANGED promise
    BY DEF PrepareDisk
<1>3. op[k] \in Op
    BY DEF IndInv, HeldInv
<1>4. o.pc = pc /\ o.new = l /\ o.kind = op[k].kind /\ o.val = op[k].val
    BY <1>3 DEF Op
<1>5. k \notin Abandoned /\ HeldGood(k) /\ (k \notin Suspect => ValueGood(k))
      /\ ~Writing(k)
    BY <1>2, CallerGood DEF Writing
<1>6. IF old = NoLoc THEN NoRecord(k) ELSE old \in Loc /\ LiveAt(k, old)
    BY <1>2, <1>5, OldLocsLive
<1>7. old # NoLoc => /\ data[old.base][old.dp].val \in Payload
                     /\ old.base \in bases /\ old.ip \in DOMAIN index[old.base]
                     /\ LiveEntry(k, old.base, old.ip)
                     /\ ValueAt(old.base, old.ip) = data[old.base][old.dp].val
    <2>1. old # NoLoc => old.base \in bases /\ LiveEntry(k, old.base, old.ip)
             /\ old.ip \in DOMAIN index[old.base]
             /\ index[old.base][old.ip].pos = old.dp
        BY <1>6, LiveAtEntry
    <2>2. old # NoLoc => data[old.base][old.dp] \in Record
        BY <2>1, EntryFacts DEF IndInv
    <2> QED
        BY <2>1, <2>2 DEF Record, ValueAt
<1>8. p \in Payload
    BY <1>7, PayloadTypes DEF Copied
<1>9. k \notin Suspect /\ op[k].kind # "write" => p = Former(k)
    <2> SUFFICES ASSUME k \notin Suspect, op[k].kind # "write"
                 PROVE  p = Former(k)
        OBVIOUS
    <2>1. op[k].copy <=> status[k] # "absent"
        BY <1>2, <1>5 DEF ValueGood
    <2>2. NoRecord(k) <=> status[k] = "absent"
        BY <1>5 DEF ValueGood
    <2>3. CASE old = NoLoc
        BY <1>6, <2>2, <2>3 DEF Former, Copied
    <2>4. CASE old # NoLoc
        <3>1. ~NoRecord(k) /\ ValueAt(old.base, old.ip) = shadow[k]
            BY <1>5, <1>7, <2>4 DEF NoRecord, ValueGood
        <3> QED
            BY <1>7, <2>1, <2>2, <2>4, <3>1 DEF Former, Copied
    <2> QED
        BY <2>3, <2>4
<1> HIDE DEF p, o
<1>10. f \in {"committed", "uncommitted"} /\ old \in Loc \cup {NoLoc}
    BY <1>6
<1>11. Moved(k, l, old, f, p) /\ l \in Loc /\ l # NoLoc
    <2> HIDE DEF f
    <2>1. PrepareDiskLL(k, l, old, f, p)
        BY <1>1 DEF p
    <2> QED
        BY <1>6, <1>8, <1>10, <2>1, PrepareMoves, RecInvParts
<1>12. op'[k] = o /\ \A j \in Keys \ {k} : op'[j] = op[j] /\ KeySame(j)
    <2>1. op' = [op EXCEPT ![k] = o]
        BY <1>1 DEF o
    <2> QED
        BY <1>2, <2>1, OtherOps DEF promise
<1>13. LiveNext(k, l) /\ data'[l.base][l.dp].val = p
    BY <1>11, MovedLive, RecInvParts
<1>14. index'[l.base][l.ip].flag = f
    BY <1>11 DEF Moved
<1>15. KeyInv(k)'
    <2>1. /\ Writing(k)' /\ op'[k].new = l /\ l.base \in bases' /\ op'[k].pc = pc
          /\ k \notin Abandoned' /\ Suspect' = Suspect /\ op'[k].kind = op[k].kind
        BY <1>2, <1>4, <1>5, <1>12, <1>13 DEF Writing, Abandoned, Suspect, promise, LiveNext
    <2>2. HeldGood(k)'
        BY <1>13, <1>14, <2>1 DEF HeldGood, LiveAt, LiveNext, Writing
    <2>3. k \notin Suspect => ValueGood(k)'
        <3> SUFFICES ASSUME k \notin Suspect PROVE ValueGood(k)'
            OBVIOUS
        <3>1. NewValue(k)' = p
            BY <1>13, <2>1 DEF NewValue
        <3>2. Former(k)' = Former(k)
            BY <1>2 DEF Former, promise
        <3> QED
            BY <1>9, <2>1, <3>1, <3>2 DEF ValueGood, Writing
    <2> QED
        BY <2>1, <2>2, <2>3 DEF KeyInv
<1>16. op'[k].pc = "payload" => l # NoLoc /\ op'[k].new = l
    BY <1>4, <1>11, <1>12
<1>17. UNCHANGED <<failed, torn>>
    BY <1>2 DEF promise
<1> QED
    BY <1>2, <1>11, <1>12, <1>15, <1>16, <1>17, MovedKeeps

(* The claims about an idle key whose record has moved to new.             *)
LEMMA IdleMoved ==
    ASSUME IndInv, RecInv, IndInv', NEW k \in Keys, NEW new \in Loc, NEW old, NEW f, NEW v,
           Moved(k, new, old, f, v), new # NoLoc, Once', k \notin Abandoned,
           cache'[k] = new, op'[k] = Idle, failed' = failed, torn' = torn,
           k \notin Suspect =>
              /\ status'[k] # "absent" /\ v = shadow'[k]
              /\ status'[k] # "hidden" => f = "committed"
    PROVE  KeyInv(k)'
<1>1. Idle.pc = "idle"
    BY DEF Idle
<1>2. LiveNext(k, new) /\ data'[new.base][new.dp].val = v
    BY MovedLive, RecInvParts
<1>3. index'[new.base][new.ip].flag = f
    BY DEF Moved
<1>4. CacheGood(k)'
    BY <1>2, CacheFromRecord
<1>5. HeldGood(k)'
    BY <1>1, <1>4 DEF HeldGood, Writing
<1>6. k \notin Suspect => ValueGood(k)'
    BY <1>1, <1>2, <1>3, ValueFromRecord
<1> QED
    BY <1>5, <1>6 DEF KeyInv, Abandoned, Suspect

(* eblob_plain_writev, in place or, during a sort, at the end of the last  *)
(* base.                                                                   *)
LEMMA PlainWriteRec ==
    ASSUME IndInv, RecInv, IndInv', NEW k \in Keys, NEW v \in Vals, PlainWrite(k, v)
    PROVE  RecInv'
<1> DEFINE s == IF status[k] = "visible" THEN "dirty" ELSE status[k]
<1>1. /\ Call(k) /\ Promise(k, s, Patched(shadow[k], v)) /\ op' = op /\ UNCHANGED defrag
    BY DEF PlainWrite
<1>2. PICK l \in Found(k) :
        \/ /\ InPlace(l)
           /\ data' = [data EXCEPT ![l.base][l.dp].val =
                                Patched(data[l.base][l.dp].val, v)]
           /\ UNCHANGED <<bases, place, born, sorted, index, gone, binlog>>
           /\ cache' = cache
        \/ \E new \in NewLocs :
              /\ PrepareDiskLL(k, new, l, "committed", Patched(data[l.base][l.dp].val, v))
              /\ cache' = [cache EXCEPT ![k] = new]
    BY DEF PlainWrite
<1> DEFINE p == Patched(data[l.base][l.dp].val, v)
<1>3. /\ k \notin Abandoned /\ op[k] = Idle /\ op[k].pc = "idle" /\ CacheGood(k)
      /\ l \in Loc /\ LiveAt(k, l) /\ data[l.base][l.dp].val \in Payload
      /\ k \notin Suspect =>
            /\ status[k] # "absent" /\ data[l.base][l.dp].val = shadow[k]
            /\ status[k] # "hidden" => index[l.base][l.ip].flag = "committed"
    BY <1>1, CalledRecord
<1>4. p \in Payload
    BY <1>3, PayloadTypes
<1>5. /\ status'[k] = s /\ shadow'[k] = Patched(shadow[k], v)
      /\ UNCHANGED <<failed, torn>>
      /\ \A j \in Keys \ {k} : status'[j] = status[j] /\ shadow'[j] = shadow[j]
    BY <1>1, PromiseOthers
<1>6. k \notin Suspect => /\ status'[k] # "absent" /\ p = shadow'[k]
                          /\ status'[k] # "hidden" => status[k] # "hidden"
    BY <1>3, <1>5
<1>7. op'[k] = Idle /\ op'[k].pc # "payload"
    BY <1>1, <1>3
<1> HIDE DEF p, s
<1>8. CASE /\ InPlace(l)
           /\ data' = [data EXCEPT ![l.base][l.dp].val = p]
           /\ UNCHANGED <<bases, place, born, sorted, index, gone, binlog>>
           /\ cache' = cache
    <2>1. Rewritten(k, l) /\ data'[l.base][l.dp].val = p
        BY <1>3, <1>4, <1>8, PayloadRewrites, RecInvParts
    <2>2. Undisturbed(k, l)
        BY <1>8 DEF Undisturbed, RecInv, Layout, InPlace
    <2>3. LiveNext(k, l) /\ Once' => KeyInv(k)'
        BY <1>3, <1>5, <1>6, <1>7, <1>8, <2>1, IdleRewritten
    <2>4. \A j \in Keys \ {k} : KeySame(j)
        BY <1>1, <1>5, <1>8 DEF KeySame
    <2> QED
        BY <1>1, <1>5, <1>7, <2>1, <2>2, <2>3, <2>4, RewriteKeeps
<1>9. ASSUME NEW new \in NewLocs, PrepareDiskLL(k, new, l, "committed", p),
             cache' = [cache EXCEPT ![k] = new]
      PROVE  RecInv'
    <2>1. l # NoLoc
        BY <1>3, NoValueAssumption
    <2>2. Moved(k, new, l, "committed", p) /\ new \in Loc /\ new # NoLoc
        BY <1>3, <1>4, <1>9, <2>1, PrepareMoves, RecInvParts
    <2>3. cache'[k] = new /\ \A j \in Keys \ {k} : cache'[j] = cache[j]
        BY <1>9 DEF IndInv, HeldInv
    <2>4. Once' => KeyInv(k)'
        BY <1>3, <1>5, <1>6, <1>7, <2>2, <2>3, IdleMoved
    <2>5. \A j \in Keys \ {k} : KeySame(j)
        BY <1>1, <1>5, <2>3 DEF KeySame
    <2> QED
        BY <1>1, <1>5, <1>7, <2>2, <2>4, <2>5, MovedKeeps
<1> QED
    BY <1>2, <1>8, <1>9 DEF p

(* eblob_write_commit, in place or moved in the same way.                  *)
LEMMA CommitRec ==
    ASSUME IndInv, RecInv, IndInv', NEW k \in Keys, NEW keep \in BOOLEAN, Commit(k, keep)
    PROVE  RecInv'
<1> DEFINE s == IF keep /\ status[k] = "hidden" THEN "hidden" ELSE "visible"
           F(l) == IF keep /\ index[l.base][l.ip].flag = "uncommitted"
                   THEN "uncommitted" ELSE "committed"
<1>1. /\ Call(k) /\ Promise(k, s, shadow[k]) /\ op' = op /\ UNCHANGED defrag
    BY DEF Commit
<1>2. PICK l \in Found(k) :
        \/ /\ InPlace(l)
           /\ index' = IndexCommitted(k, l, F(l))
           /\ data' = DataCommitted(k, l, F(l), data[l.base][l.dp].val)
           /\ UNCHANGED <<bases, place, born, sorted, gone, binlog>>
           /\ cache' = cache
        \/ \E new \in NewLocs :
              /\ PrepareDiskLL(k, new, l, F(l), data[l.base][l.dp].val)
              /\ cache' = [cache EXCEPT ![k] = new]
    BY DEF Commit
<1> DEFINE p == data[l.base][l.dp].val
           f == F(l)
<1>3. /\ k \notin Abandoned /\ op[k] = Idle /\ op[k].pc = "idle" /\ CacheGood(k)
      /\ l \in Loc /\ LiveAt(k, l) /\ p \in Payload
      /\ k \notin Suspect =>
            /\ status[k] # "absent" /\ p = shadow[k]
            /\ status[k] # "hidden" => index[l.base][l.ip].flag = "committed"
    BY <1>1, CalledRecord
<1>4. f \in {"committed", "uncommitted"}
    OBVIOUS
<1>5. /\ status'[k] = s /\ shadow'[k] = shadow[k]
      /\ UNCHANGED <<failed, torn>>
      /\ \A j \in Keys \ {k} : status'[j] = status[j] /\ shadow'[j] = shadow[j]
    BY <1>1, PromiseOthers
<1>6. k \notin Suspect => /\ status'[k] # "absent" /\ p = shadow'[k]
                          /\ status'[k] # "hidden" => f = "committed"
    BY <1>3, <1>5
<1>7. op'[k] = Idle /\ op'[k].pc # "payload"
    BY <1>1, <1>3
<1> HIDE DEF p, s, f, F
<1>8. CASE /\ InPlace(l)
           /\ index' = IndexCommitted(k, l, f) /\ data' = DataCommitted(k, l, f, p)
           /\ UNCHANGED <<bases, place, born, sorted, gone, binlog>>
           /\ cache' = cache
    <2>1. /\ Rewritten(k, l) /\ data'[l.base][l.dp].val = p
          /\ index'[l.base][l.ip] = [key |-> k, flag |-> f, pos |-> l.dp]
        BY <1>3, <1>4, <1>8, CommittedRewrites, RecInvParts
    <2>2. Undisturbed(k, l)
        BY <1>8 DEF Undisturbed, RecInv, Layout, InPlace
    <2>3. index'[l.base][l.ip].flag = f
        BY <2>1
    <2>4. LiveNext(k, l) /\ Once' => KeyInv(k)'
        BY <1>3, <1>5, <1>6, <1>7, <1>8, <2>1, <2>3, IdleRewritten
    <2>5. \A j \in Keys \ {k} : KeySame(j)
        BY <1>1, <1>5, <1>8 DEF KeySame
    <2> QED
        BY <1>1, <1>5, <1>7, <2>1, <2>2, <2>4, <2>5, RewriteKeeps
<1>9. ASSUME NEW new \in NewLocs, PrepareDiskLL(k, new, l, f, p),
             cache' = [cache EXCEPT ![k] = new]
      PROVE  RecInv'
    <2>1. l # NoLoc
        BY <1>3, NoValueAssumption
    <2>2. Moved(k, new, l, f, p) /\ new \in Loc /\ new # NoLoc
        BY <1>3, <1>4, <1>9, <2>1, PrepareMoves, RecInvParts
    <2>3. cache'[k] = new /\ \A j \in Keys \ {k} : cache'[j] = cache[j]
        BY <1>9 DEF IndInv, HeldInv
    <2>4. Once' => KeyInv(k)'
        BY <1>3, <1>5, <1>6, <1>7, <2>2, <2>3, IdleMoved
    <2>5. \A j \in Keys \ {k} : KeySame(j)
        BY <1>1, <1>5, <2>3 DEF KeySame
    <2> QED
        BY <1>1, <1>5, <1>7, <2>2, <2>4, <2>5, MovedKeeps
<1> QED
    BY <1>2, <1>8, <1>9 DEF p, f

(* eblob_mark_entry_removed_purge.                                         *)
LEMMA RemoveMarkRec ==
    ASSUME IndInv, RecInv, NEW k \in Keys, RemoveMark(k)
    PROVE  RecInv'
<1> DEFINE l == op[k].old
<1>1. op[k].pc = "remove" /\ op' = [op EXCEPT ![k] = Idle] /\ UNCHANGED defrag
      /\ UNCHANGED <<bases, place, born, sorted, logging>>
    BY DEF RemoveMark, End
<1>2. CASE /\ l.base \notin bases
           /\ UNCHANGED <<logged, index, data, gone, cache, promise>>
    <2>1. UNCHANGED disk /\ UNCHANGED binlog /\ cache' = cache /\ UNCHANGED promise
        BY <1>1, <1>2 DEF disk, binlog
    <2> QED
        BY <1>1, <2>1, EndKeeps
<1>3. CASE /\ l.base \in bases
           /\ logged' = BinlogAppend(k, l)
           /\ index' = IndexMarked(index, l)
           /\ data' = DataMarked(data, l)
           /\ gone' = CountMarked(l)
           /\ cache' = [cache EXCEPT ![k] = NoLoc]
           /\ Promise(k, "absent", Junk)
    <2>1. k \notin Abandoned /\ HeldGood(k)
        BY <1>1, CallerGood
    <2>2. l \in Loc /\ LiveAt(k, l)
        BY <1>1, <1>3, <2>1 DEF HeldGood, IndInv, HeldInv, Op, Holds
    <2>3. Moved(k, NoLoc, l, "committed", Junk)
        BY <1>1, <1>3, <2>2, MarkMoves
    <2>4. /\ status'[k] = "absent" /\ shadow'[k] = Junk /\ UNCHANGED <<failed, torn>>
          /\ \A j \in Keys \ {k} : status'[j] = status[j] /\ shadow'[j] = shadow[j]
        BY <1>3, PromiseOthers
    <2>5. cache'[k] = NoLoc /\ \A j \in Keys \ {k} : cache'[j] = cache[j]
        BY <1>3 DEF IndInv, HeldInv
    <2>6. op'[k] = Idle /\ \A j \in Keys \ {k} : op'[j] = op[j] /\ KeySame(j)
        BY <1>1, <2>4, <2>5, OtherOps
    <2>7. Idle.pc = "idle"
        BY DEF Idle
    <2>8. \A b \in bases' : \A i \in DOMAIN index'[b] : ~LiveEntry(k, b, i)'
        BY <2>3, MovedLive, RecInvParts DEF AtSlot
    <2>9. HeldGood(k)'
        <3>1. CacheGood(k)'
            BY <2>5, <2>8 DEF CacheGood
        <3> QED
            BY <2>6, <2>7, <3>1 DEF HeldGood, Writing
    <2>10. ValueGood(k)'
        BY <2>4, <2>6, <2>7, <2>8 DEF ValueGood, NoRecord, Writing
    <2>11. KeyInv(k)'
        BY <2>1, <2>4, <2>9, <2>10 DEF KeyInv, Abandoned
    <2>12. op'[k].pc # "payload"
        BY <2>6, <2>7
    <2> QED
        BY <1>1, <2>3, <2>4, <2>6, <2>11, <2>12, MovedKeeps
<1> QED
    BY <1>2, <1>3 DEF RemoveMark

-----------------------------------------------------------------------------
(* Sorts that begin, and sorts that come to nothing. *)

(* No key notices a step that changes no file and none of its variables.   *)
LEMMA AllKeep ==
    ASSUME IndInv, RecInv, UNCHANGED disk, cache' = cache, op' = op,
           UNCHANGED <<shadow, status, failed>>, torn \subseteq torn'
    PROVE  \A j \in Keys : KeyInv(j)'
<1> USE DEF disk
<1> SUFFICES ASSUME NEW j \in Keys PROVE KeyInv(j)'
    OBVIOUS
<1>1. RecordsSame(j)
    BY DEF RecordsSame, LiveEntry, ValueAt
<1>2. KeySame(j) /\ KeyInv(j)
    BY RecInvParts DEF KeySame
<1>3. (j \in Abandoned' <=> j \in Abandoned) /\ (j \in Suspect => j \in Suspect')
    BY DEF Abandoned, Suspect
<1>4. j \notin Suspect => j \notin Abandoned
    BY DEF Suspect, Abandoned
<1>5. j \notin Abandoned' => HeldGood(j)'
    BY <1>1, <1>2, <1>3, HeldSameKey DEF KeyInv
<1>6. j \notin Suspect' => ValueGood(j)'
    BY <1>1, <1>2, <1>3, <1>4, ValueSameKey DEF KeyInv
<1> QED
    BY <1>2, <1>3, <1>5, <1>6 DEF KeyInv

(* Turning binlogs on or off before the last base.                         *)
LEMMA LogsKeep ==
    ASSUME IndInv, FilesInv, UNCHANGED disk,
           logging' \subseteq logging \cup NotLast, group' \subseteq logging'
    PROVE  Layout' /\ FilesAgree' /\ Once' /\ Exact'
<1> USE DEF disk
<1>1. NotLast' = NotLast /\ NotLast \subseteq bases
    BY DEF NotLast
<1>2. NotLast \subseteq 1 .. born
    BY <1>1 DEF IndInv, DiskInv
<1>3. Layout'
    BY <1>1, <1>2 DEF FilesInv, Layout
<1>4. FilesAgree' /\ Once' /\ Exact'
    BY DEF FilesInv, FilesAgree, Once, Exact, LiveEntry
<1> QED
    BY <1>3, <1>4

(* A sort that ends without a swap.                                        *)
LEMMA NoJobRec ==
    ASSUME IndInv, RecInv, UNCHANGED disk, cache' = cache, op' = op,
           UNCHANGED promise, NoJob,
           StopBinlog(group) \/ UNCHANGED binlog
    PROVE  RecInv'
<1>1. job' = "none" /\ group' = {} /\ left' = {} /\ chunk' = {}
    BY DEF NoJob
<1>2. logging' \subseteq logging /\ \A b \in logging' : logged'[b] = logged[b]
    BY DEF StopBinlog, binlog, IndInv, DiskInv
<1>3. Layout' /\ FilesAgree' /\ Once' /\ Exact'
    BY <1>1, <1>2, LogsKeep, RecInvParts
<1>4. LoggedGone'
    BY <1>1, <1>2 DEF RecInv, LoggedGone, LiveEntry, disk
<1>5. SnapGood' /\ ChunkGood'
    BY <1>1 DEF SnapGood, ChunkGood
<1>6. \A j \in Keys : KeyInv(j)'
    BY AllKeep DEF promise
<1> QED
    BY <1>3, <1>4, <1>5, <1>6, RecInvParts DEF FilesInv

LEMMA IndexsortFailRec ==
    ASSUME IndInv, RecInv, IndexsortFail
    PROVE  RecInv'
BY NoJobRec DEF IndexsortFail

LEMMA DatasortAbortRec ==
    ASSUME IndInv, RecInv, DatasortAbort
    PROVE  RecInv'
BY NoJobRec DEF DatasortAbort

(* eblob_generate_sorted_data that finds a binlog on.                      *)
LEMMA DatasortBusyRec ==
    ASSUME IndInv, RecInv, DatasortBusy
    PROVE  RecInv'
<1>1. PICK bs \in SUBSET NotLast :
         /\ logging' = logging \cup bs
         /\ logged' = [b \in Bases |-> IF b \in bs THEN {} ELSE logged[b]]
    BY DEF DatasortBusy, Candidates
<1>2. /\ job = "none" /\ UNCHANGED disk /\ cache' = cache /\ op' = op
      /\ UNCHANGED defrag /\ UNCHANGED promise
    BY DEF DatasortBusy
<1>3. job' = "none" /\ group' = {} /\ left' = {} /\ chunk' = {}
    BY <1>2, NoJobSorting DEF RecInv, ChunkGood, defrag
<1>4. Layout' /\ FilesAgree' /\ Once' /\ Exact'
    BY <1>1, <1>2, <1>3, LogsKeep, RecInvParts
<1>5. LoggedGone'
    <2> SUFFICES ASSUME NEW b \in (logging \cap bases)', NEW k \in logged'[b],
                        NEW i \in DOMAIN index'[b]
                 PROVE  ~LiveEntry(k, b, i)'
        BY <1>3 DEF LoggedGone
    <2>1. b \in Bases /\ b \in bases
        BY <1>2 DEF disk, IndInv, DiskInv
    <2>2. b \notin bs /\ k \in logged[b]
        BY <1>1, <2>1
    <2>3. b \in logging
        BY <1>1, <2>2
    <2> QED
        BY <1>2, <2>1, <2>2, <2>3 DEF RecInv, LoggedGone, LiveEntry, disk
<1>6. SnapGood' /\ ChunkGood'
    BY <1>3 DEF SnapGood, ChunkGood
<1>7. \A j \in Keys : KeyInv(j)'
    BY <1>2, AllKeep DEF promise
<1> QED
    BY <1>4, <1>5, <1>6, <1>7, RecInvParts DEF FilesInv

(* eblob_generate_sorted_data, binlogs on.                                 *)
LEMMA DatasortStartRec ==
    ASSUME IndInv, RecInv, DatasortStart
    PROVE  RecInv'
<1>1. PICK g \in SUBSET NotLast :
         /\ group' = g /\ left' = g /\ logging' = logging \cup g
         /\ logged' = [b \in Bases |-> IF b \in g THEN {} ELSE logged[b]]
    BY DEF DatasortStart, Candidates
<1>2. /\ job = "none" /\ job' = "datasort" /\ UNCHANGED disk /\ cache' = cache
      /\ op' = op /\ snap' = snap /\ chunk' = chunk /\ UNCHANGED promise
    BY DEF DatasortStart
<1>3. chunk' = {}
    BY <1>2 DEF RecInv, ChunkGood
<1>4. Layout' /\ FilesAgree' /\ Once' /\ Exact'
    BY <1>1, <1>2, LogsKeep, RecInvParts
<1>5. g \subseteq Bases
    BY DEF IndInv, DiskInv, NotLast
<1>6. LoggedGone'
    <2>1. ASSUME NEW b \in (logging \cap bases)', NEW k \in logged'[b],
                        NEW i \in DOMAIN index'[b]
          PROVE  ~LiveEntry(k, b, i)'
        <3>1. b \in Bases /\ b \in bases
            BY <1>2 DEF disk, IndInv, DiskInv
        <3>2. b \notin g /\ k \in logged[b]
            BY <1>1, <2>1, <3>1
        <3>3. b \in logging
            BY <1>1, <3>2
        <3> QED
            BY <1>2, <3>1, <3>2, <3>3 DEF RecInv, LoggedGone, LiveEntry, disk
    <2>2. \A b \in group' : logged'[b] = {}
        BY <1>1, <1>5
    <2> QED
        BY <2>1, <2>2 DEF LoggedGone
<1>7. SnapGood' /\ ChunkGood'
    BY <1>1, <1>2, <1>3 DEF SnapGood, ChunkGood
<1>8. \A j \in Keys : KeyInv(j)'
    BY <1>2, AllKeep DEF promise
<1> QED
    BY <1>4, <1>6, <1>7, <1>8, RecInvParts DEF FilesInv

(* What qsort returns has the entries of s, each once, in another order.   *)
LEMMA SortedIsPermutation ==
    ASSUME NEW s, NEW r \in IndexSorted(s)
    PROVE  /\ DOMAIN r = DOMAIN s /\ RemovedFirst(r)
           /\ \E p \in [DOMAIN s -> DOMAIN s] :
                 /\ \A i \in DOMAIN s : r[i] = s[p[i]]
                 /\ \A i, j \in DOMAIN s : p[i] = p[j] => i = j
                 /\ \A j \in DOMAIN s : \E i \in DOMAIN s : p[i] = j
<1>1. PICK p \in Bijection(DOMAIN s, DOMAIN s) : r = [i \in DOMAIN s |-> s[p[i]]]
    BY DEF IndexSorted
<1>2. RemovedFirst(r)
    BY DEF IndexSorted
<1>3. /\ p \in [DOMAIN s -> DOMAIN s]
      /\ \A i, j \in DOMAIN s : p[i] = p[j] => i = j
      /\ \A j \in DOMAIN s : \E i \in DOMAIN s : p[i] = j
    BY <1>1 DEF Bijection, Injection, Surjection, IsInjective
<1> QED
    BY <1>1, <1>2, <1>3

(* No two live entries have the same key.                                  *)
LiveOnce(s) ==
    \A i, j \in DOMAIN s : Live(s[i]) /\ Live(s[j]) /\ s[i].key = s[j].key => i = j

(* Entries in another order are still each other's only ones.              *)
LEMMA ReorderedSame ==
    ASSUME NEW s, NEW r, DOMAIN r = DOMAIN s, NEW p \in [DOMAIN s -> DOMAIN s],
           \A i \in DOMAIN s : r[i] = s[p[i]],
           \A i, j \in DOMAIN s : p[i] = p[j] => i = j,
           \A j \in DOMAIN s : \E i \in DOMAIN s : p[i] = j
    PROVE  /\ (\A i, j \in DOMAIN s : s[i].pos = s[j].pos => i = j) => SameBut(r, s, {})
           /\ LiveOnce(s) => LiveOnce(r)
<1> DEFINE D == DOMAIN s
<1>1. /\ DOMAIN r = D /\ p \in [D -> D] /\ \A i \in D : p[i] \in D /\ r[i] = s[p[i]]
      /\ \A i, j \in D : p[i] = p[j] => i = j
      /\ \A j \in D : \E i \in D : p[i] = j
    OBVIOUS
<1>2. ASSUME \A i, j \in D : s[i].pos = s[j].pos => i = j
      PROVE  SameBut(r, s, {})
    <2>1. \A i, j \in D : r[i].pos = r[j].pos => i = j
        <3> HIDE DEF D
        <3> QED
            BY <1>1, <1>2
    <2>2. \A i \in D : \E j \in D : r[i] = s[j]
        BY <1>1, Zenon
    <2>3. ASSUME NEW j \in D
          PROVE  \E i \in D : r[i] = s[j]
        <3>1. PICK i \in D : p[i] = j
            BY <1>1
        <3> QED
            BY <1>1, <3>1
    <2> QED
        BY <1>1, <2>1, <2>2, <2>3 DEF SameBut
<1>3. ASSUME LiveOnce(s)
      PROVE  LiveOnce(r)
    <2> SUFFICES ASSUME NEW i \in D, NEW j \in D, Live(r[i]), Live(r[j]),
                        r[i].key = r[j].key
                 PROVE  i = j
        BY <1>1 DEF LiveOnce
    <2>1. p[i] = p[j]
        BY <1>1, <1>3 DEF LiveOnce
    <2> QED
        BY <1>1, <2>1
<1> QED
    BY <1>2, <1>3

(* eblob_generate_sorted_index: the copy it sorts is the index.            *)
LEMMA IndexsortStartRec ==
    ASSUME IndInv, RecInv, NEW b \in Bases, IndexsortStart(b)
    PROVE  RecInv'
<1>1. /\ job = "none" /\ job' = "indexsort" /\ group' = {b} /\ b \in NotLast
      /\ logging' = logging \cup {b} /\ logged' = [logged EXCEPT ![b] = {}]
      /\ snap' \in IndexSorted(index[b]) /\ UNCHANGED disk /\ cache' = cache
      /\ op' = op /\ left' = left /\ chunk' = chunk /\ UNCHANGED promise
    BY DEF IndexsortStart, Sortable
<1>2. chunk' = {} /\ left' = {}
    BY <1>1 DEF RecInv, ChunkGood
<1>3. Layout' /\ FilesAgree' /\ Once' /\ Exact'
    BY <1>1, LogsKeep, RecInvParts
<1>4. b \in bases /\ logged'[b] = {} /\ \A c \in Bases \ {b} : logged'[c] = logged[c]
    BY <1>1 DEF NotLast, IndInv, DiskInv
<1>5. LoggedGone'
    <2>1. ASSUME NEW c \in (logging \cap bases)', NEW k \in logged'[c],
                 NEW i \in DOMAIN index'[c]
          PROVE  ~LiveEntry(k, c, i)'
        <3>1. c \in Bases /\ c \in bases
            BY <1>1 DEF disk, IndInv, DiskInv
        <3>2. c # b /\ k \in logged[c]
            BY <1>4, <2>1, <3>1
        <3>3. c \in logging
            BY <1>1, <3>2
        <3> QED
            BY <1>1, <3>1, <3>2, <3>3 DEF RecInv, LoggedGone, LiveEntry, disk
    <2> QED
        BY <1>1, <1>4, <2>1 DEF LoggedGone
<1>6. SnapGood'
    <2> DEFINE s == index[b]
               r == snap'
    <2>1. /\ DOMAIN r = DOMAIN s /\ RemovedFirst(r)
          /\ \E p \in [DOMAIN s -> DOMAIN s] :
                /\ \A i \in DOMAIN s : r[i] = s[p[i]]
                /\ \A i, j \in DOMAIN s : p[i] = p[j] => i = j
                /\ \A j \in DOMAIN s : \E i \in DOMAIN s : p[i] = j
        BY <1>1, SortedIsPermutation
    <2>2. PICK p \in [DOMAIN s -> DOMAIN s] :
             /\ \A i \in DOMAIN s : r[i] = s[p[i]]
             /\ \A i, j \in DOMAIN s : p[i] = p[j] => i = j
             /\ \A j \in DOMAIN s : \E i \in DOMAIN s : p[i] = j
        BY <2>1
    <2>3. \A i, j \in DOMAIN s : s[i].pos = s[j].pos => i = j
        BY <1>4 DEF RecInv, FilesAgree
    <2>4. LiveOnce(s)
        <3> SUFFICES ASSUME NEW i \in DOMAIN s, NEW j \in DOMAIN s,
                            Live(s[i]), Live(s[j]), s[i].key = s[j].key
                     PROVE  i = j
            BY DEF LiveOnce
        <3>1. s[i].key \in Keys
            BY <1>4, EntryFacts DEF IndInv, Entry
        <3> QED
            BY <1>4, <3>1 DEF RecInv, Once, LiveEntry
    <2> HIDE DEF s, r
    <2>6. SameBut(r, s, {})
        BY <2>1, <2>2, <2>3, ReorderedSame, Zenon
    <2>7. LiveOnce(r)
        BY <2>1, <2>2, <2>4, ReorderedSame, Zenon
    <2>8. index'[b] = s /\ snap' = r
        BY <1>1 DEF disk, s, r
    <2> QED
        <3>1. SameBut(snap', index'[b], logged'[b]) /\ RemovedFirst(snap')
            BY <1>4, <2>1, <2>6, <2>8
        <3>2. \A i, j \in DOMAIN snap' :
                 Live(snap'[i]) /\ Live(snap'[j]) /\ snap'[i].key = snap'[j].key => i = j
            BY <2>7, <2>8 DEF LiveOnce
        <3>3. group' = {b}
            BY <1>1
        <3> HIDE DEF SameBut, RemovedFirst, Live
        <3> QED
            BY <3>1, <3>2, <3>3 DEF SnapGood
<1>7. ChunkGood'
    BY <1>1, <1>2 DEF ChunkGood
<1>8. \A j \in Keys : KeyInv(j)'
    BY <1>1, AllKeep DEF promise
<1> QED
    BY <1>3, <1>5, <1>6, <1>7, <1>8, RecInvParts DEF FilesInv

-----------------------------------------------------------------------------
(* Indexes in another order, and bases without live records dropped. *)

(* Every live record is kept in its base, perhaps in another slot of the   *)
(* index; only bases without one leave the list; no sort is on afterwards. *)
Kept ==
    /\ bases' \subseteq bases /\ born' = born
    /\ \A b \in bases \ bases' : b \in NotLast /\ \A i \in DOMAIN index[b] : ~Live(index[b][i])
    /\ \A b \in bases' :
          /\ place'[b] = place[b] /\ SameBut(index'[b], index[b], {})
          /\ \A p \in DOMAIN data[b] : data'[b][p] = data[b][p]
          /\ gone'[b] = CountRemoved(index'[b])
    /\ \A b \in Bases \ bases' : index'[b] = <<>> /\ data'[b] = <<>> /\ gone'[b] = 0
    /\ sorted' \subseteq bases'
    /\ logging' \subseteq logging /\ \A b \in logging' : logged'[b] = logged[b]
    /\ job' = "none" /\ group' = {} /\ left' = {} /\ chunk' = {}

(* Where the live records are afterwards, and with which contents.         *)
LEMMA KeptLive ==
    ASSUME IndInv, FilesInv, Kept, NEW k
    PROVE  /\ \A b \in bases' : \A i \in DOMAIN index'[b] : \E j \in DOMAIN index[b] :
                 /\ index'[b][i] = index[b][j] /\ ValueAt(b, i)' = ValueAt(b, j)
                 /\ LiveEntry(k, b, i)' <=> LiveEntry(k, b, j)
           /\ \A b \in bases : \A j \in DOMAIN index[b] : LiveEntry(k, b, j) =>
                 /\ b \in bases'
                 /\ \E i \in DOMAIN index'[b] :
                       /\ index'[b][i] = index[b][j] /\ ValueAt(b, i)' = ValueAt(b, j)
                       /\ LiveEntry(k, b, i)'
           /\ NoRecord(k)' <=> NoRecord(k)
<1>1. ASSUME NEW b \in bases', NEW i \in DOMAIN index'[b], NEW j \in DOMAIN index[b],
             index'[b][i] = index[b][j]
      PROVE  /\ ValueAt(b, i)' = ValueAt(b, j)
             /\ LiveEntry(k, b, i)' <=> LiveEntry(k, b, j)
    <2>1. b \in bases
        BY DEF Kept
    <2>2. index[b][j].pos \in DOMAIN data[b]
        BY <2>1, EntryFacts DEF IndInv
    <2>3. data'[b][index[b][j].pos] = data[b][index[b][j].pos]
        BY <2>2 DEF Kept
    <2> QED
        BY <1>1, <2>1, <2>3 DEF ValueAt, LiveEntry
<1>2. ASSUME NEW b \in bases', NEW i \in DOMAIN index'[b]
      PROVE  \E j \in DOMAIN index[b] :
                 /\ index'[b][i] = index[b][j] /\ ValueAt(b, i)' = ValueAt(b, j)
                 /\ LiveEntry(k, b, i)' <=> LiveEntry(k, b, j)
    <2>1. PICK j \in DOMAIN index[b] : index'[b][i] = index[b][j]
        BY DEF Kept, SameBut
    <2> QED
        BY <1>1, <2>1
<1>3. ASSUME NEW b \in bases, NEW j \in DOMAIN index[b], LiveEntry(k, b, j)
      PROVE  /\ b \in bases'
             /\ \E i \in DOMAIN index'[b] :
                   /\ index'[b][i] = index[b][j] /\ ValueAt(b, i)' = ValueAt(b, j)
                   /\ LiveEntry(k, b, i)'
    <2>1. b \in bases'
        BY <1>3 DEF Kept, LiveEntry
    <2>2. PICK i \in DOMAIN index'[b] : index'[b][i] = index[b][j]
        BY <2>1 DEF Kept, SameBut
    <2> QED
        BY <1>1, <1>3, <2>1, <2>2
<1>4. NoRecord(k)' <=> NoRecord(k)
    <2>1. ASSUME NoRecord(k), NEW b \in bases', NEW i \in DOMAIN index'[b]
          PROVE  ~LiveEntry(k, b, i)'
        BY <1>2, <2>1 DEF NoRecord, Kept
    <2>2. ASSUME NoRecord(k)', NEW b \in bases, NEW j \in DOMAIN index[b]
          PROVE  ~LiveEntry(k, b, j)
        BY <1>3, <2>2 DEF NoRecord
    <2> QED
        BY <2>1, <2>2 DEF NoRecord
<1> QED
    BY <1>2, <1>3, <1>4

(* The claims about the files.                                             *)
LEMMA KeptFiles ==
    ASSUME IndInv, FilesInv, Kept
    PROVE  FilesInv'
<1>1. \A b \in bases' : \A i \in DOMAIN index'[b] : \E j \in DOMAIN index[b] :
         index'[b][i] = index[b][j]
    BY DEF Kept, SameBut
<1>2. Layout'
    <2>1. CASE bases = {}
        BY <2>1 DEF Kept, Layout, FilesInv
    <2>2. CASE bases # {}
        <3>1. PICK c \in bases : \A b \in bases : place[b] <= place[c]
            BY <2>2 DEF FilesInv, Layout
        <3>2. \A b \in bases : place[b] \in Nat
            BY DEF IndInv, DiskInv
        <3>3. c \in bases'
            <4>1. c \notin NotLast
                BY <3>1, <3>2 DEF NotLast
            <4> QED
                BY <4>1 DEF Kept
        <3>4. \A b \in bases' : b \in bases /\ place'[b] = place[b]
            BY DEF Kept
        <3>5. logging' \cap bases' \subseteq NotLast'
            <4> SUFFICES ASSUME NEW b \in logging', b \in bases'
                         PROVE  b \in NotLast'
                OBVIOUS
            <4>1. b \in NotLast
                BY <3>4 DEF Kept, FilesInv, Layout
            <4>2. PICK d \in bases : place[b] < place[d]
                BY <4>1 DEF NotLast
            <4>3. place[b] < place[c]
                <5>1. place[d] <= place[c]
                    BY <3>1
                <5>2. place[b] \in Nat /\ place[c] \in Nat /\ place[d] \in Nat
                    BY <3>2, <3>4
                <5> QED
                    BY <4>2, <5>1, <5>2
            <4> QED
                BY <3>3, <3>4, <4>3 DEF NotLast
        <3>6. \E d \in bases' : \A b \in bases' : place'[b] <= place'[d]
            BY <3>1, <3>3, <3>4
        <3>7. /\ \A b \in bases' : place'[b] \in 1 .. born'
              /\ \A b, d \in bases' : place'[b] = place'[d] => b = d
            BY <3>4 DEF FilesInv, Layout, Kept
        <3>8. /\ \A b \in Bases \ bases' : index'[b] = <<>> /\ data'[b] = <<>> /\ gone'[b] = 0
              /\ logging' \subseteq 1 .. born' /\ sorted' \subseteq bases'
              /\ group' \subseteq logging'
            BY DEF Kept, FilesInv, Layout
        <3> QED
            BY <3>5, <3>6, <3>7, <3>8 DEF Layout
    <2> QED
        BY <2>1, <2>2
<1>3. FilesAgree'
    <2> SUFFICES ASSUME NEW b \in bases'
                 PROVE  /\ \A i, j \in DOMAIN index'[b] :
                              index'[b][i].pos = index'[b][j].pos => i = j
                        /\ \A i \in DOMAIN index'[b] :
                              /\ data'[b][index'[b][i].pos].key = index'[b][i].key
                              /\ Live(data'[b][index'[b][i].pos]) <=> Live(index'[b][i])
        BY DEF FilesAgree
    <2>1. \A i, j \in DOMAIN index'[b] : index'[b][i].pos = index'[b][j].pos => i = j
        BY DEF Kept, SameBut
    <2>2. ASSUME NEW i \in DOMAIN index'[b]
          PROVE  /\ data'[b][index'[b][i].pos].key = index'[b][i].key
                 /\ Live(data'[b][index'[b][i].pos]) <=> Live(index'[b][i])
        <3>1. PICK j \in DOMAIN index[b] : index'[b][i] = index[b][j]
            BY <1>1
        <3>2. b \in bases
            BY DEF Kept
        <3>3. index[b][j].pos \in DOMAIN data[b]
            BY <3>2, EntryFacts DEF IndInv
        <3>4. data'[b][index[b][j].pos] = data[b][index[b][j].pos]
            BY <3>3 DEF Kept
        <3> QED
            BY <3>1, <3>2, <3>4 DEF FilesInv, FilesAgree
    <2> QED
        BY <2>1, <2>2
<1>4. Once'
    <2> SUFFICES ASSUME NEW k \in Keys, NEW b \in bases', NEW c \in bases',
                        NEW i \in DOMAIN index'[b], NEW j \in DOMAIN index'[c],
                        LiveEntry(k, b, i)', LiveEntry(k, c, j)'
                 PROVE  b = c /\ i = j
        BY DEF Once
    <2>1. PICK m \in DOMAIN index[b] : index'[b][i] = index[b][m] /\ LiveEntry(k, b, m)
        BY KeptLive
    <2>2. PICK n \in DOMAIN index[c] : index'[c][j] = index[c][n] /\ LiveEntry(k, c, n)
        BY KeptLive
    <2>3. b \in bases /\ c \in bases
        BY DEF Kept
    <2>4. b = c /\ m = n
        BY <2>1, <2>2, <2>3 DEF FilesInv, Once
    <2>5. index'[b][i].pos = index'[b][j].pos
        BY <2>1, <2>2, <2>4
    <2> QED
        BY <2>4, <2>5 DEF Kept, SameBut
<1>5. Exact'
    BY DEF Exact, Kept
<1>6. LoggedGone'
    <2>1. ASSUME NEW b \in (logging \cap bases)', NEW k \in logged'[b],
                 NEW i \in DOMAIN index'[b], LiveEntry(k, b, i)'
          PROVE  FALSE
        <3>1. PICK j \in DOMAIN index[b] : LiveEntry(k, b, j)
            BY <2>1, KeptLive
        <3>2. b \in logging \cap bases /\ k \in logged[b]
            BY DEF Kept
        <3> QED
            BY <3>1, <3>2 DEF FilesInv, LoggedGone
    <2> QED
        BY <2>1 DEF LoggedGone, Kept
<1>7. SnapGood' /\ ChunkGood'
    BY DEF Kept, SnapGood, ChunkGood
<1> QED
    BY <1>2, <1>3, <1>4, <1>5, <1>6, <1>7 DEF FilesInv

(* What an operation wrote is still there, and records have their values.  *)
LEMMA KeptValue ==
    ASSUME IndInv, FilesInv, Kept, NEW k \in Keys, ValueGood(k),
           status' = status, shadow' = shadow,
           /\ op'[k].pc = op[k].pc /\ op'[k].kind = op[k].kind /\ op'[k].val = op[k].val
           /\ op'[k].copy = op[k].copy /\ op'[k].new = op[k].new
    PROVE  ValueGood(k)'
<1>1. (Writing(k)' <=> Writing(k)) /\ Former(k)' = Former(k)
      /\ Expected(k, op[k].kind, op[k].val)' = Expected(k, op[k].kind, op[k].val)
    BY DEF Writing, Former, Expected
<1>2. NoRecord(k)' <=> NoRecord(k)
    BY KeptLive
<1>3. ASSUME ~Writing(k), NEW b \in bases', NEW i \in DOMAIN index'[b], LiveEntry(k, b, i)'
      PROVE  /\ ValueAt(b, i)' = shadow[k]
             /\ status[k] # "hidden" => index'[b][i].flag = "committed"
    <2>1. PICK j \in DOMAIN index[b] :
             /\ index'[b][i] = index[b][j] /\ ValueAt(b, i)' = ValueAt(b, j)
             /\ LiveEntry(k, b, j)
        BY <1>3, KeptLive
    <2>2. b \in bases
        BY DEF Kept
    <2> QED
        BY <1>3, <2>1, <2>2 DEF ValueGood
<1>4. Writing(k) /\ op[k].new.base \in bases' =>
         op[k].new.base \in bases /\ NewValue(k)' = NewValue(k)
    <2> SUFFICES ASSUME Writing(k), op[k].new.base \in bases'
                 PROVE  op[k].new.base \in bases /\ NewValue(k)' = NewValue(k)
        OBVIOUS
    <2>1. op[k].new.base \in bases
        BY DEF Kept
    <2>2. op[k].new.dp \in DOMAIN data[op[k].new.base]
        BY <2>1, NewLocHeld DEF Writing, Within
    <2> QED
        BY <2>1, <2>2 DEF Kept, NewValue
<1> QED
    BY <1>1, <1>2, <1>3, <1>4 DEF ValueGood

(* A location whose index is as it was still is what it was.               *)
LEMMA KeptLoc ==
    ASSUME IndInv, FilesInv, Kept, NEW k, NEW l, LiveAt(k, l),
           index'[l.base] = index[l.base]
    PROVE  LiveNext(k, l)
<1>1. LiveEntry(k, l.base, l.ip) /\ l.base \in bases /\ l.ip \in DOMAIN index[l.base]
    BY LiveAtEntry
<1>2. l.base \in bases'
    BY <1>1, KeptLive
<1> QED
    BY <1>2 DEF LiveAt, LiveNext

LEMMA SameSelf ==
    ASSUME IndInv, FilesInv, NEW b \in bases
    PROVE  SameBut(index[b], index[b], {})
BY DEF SameBut, FilesInv, FilesAgree

(* The statistics say that all records are removed: they are.              *)
LEMMA AllRemovedDead ==
    ASSUME IndInv, FilesInv, NEW b \in bases, AllRemoved(b)
    PROVE  \A i \in DOMAIN index[b] : ~Live(index[b][i])
<1> DEFINE s == index[b]
           n == Len(s)
           dead == {i \in DOMAIN s : ~Live(s[i])}
<1>1. b \in Bases /\ s \in Seq(Entry)
    BY DEF IndInv, DiskInv
<1>2. DOMAIN s = 1 .. n /\ n \in Nat
    BY <1>1, LenProperties
<1>3. Cardinality(dead) = n
    BY DEF FilesInv, Exact, CountRemoved, AllRemoved
<1> HIDE DEF n
<1>4. IsFiniteSet(1 .. n) /\ Cardinality(1 .. n) = n
    BY <1>2, FS_Interval
<1>5. dead \in SUBSET (1 .. n)
    BY <1>2
<1> HIDE DEF dead
<1>6. dead = 1 .. n
    BY <1>3, <1>4, <1>5, FS_Subset
<1> QED
    BY <1>2, <1>6 DEF dead

(* EBLOB_REMOVE_NEEDED: the base that is unlinked has no live record.      *)
LEMMA RemoveBaseKept ==
    ASSUME IndInv, RecInv, NEW b \in Bases, RemoveBase(b)
    PROVE  Kept
<1>1. /\ job = "none" /\ b \in NotLast /\ AllRemoved(b) /\ bases' = bases \ {b}
      /\ sorted' = sorted \ {b} /\ place' = Closed(place, {b}, 0)
      /\ index' = Closed(index, {b}, <<>>) /\ data' = Closed(data, {b}, <<>>)
      /\ gone' = Closed(gone, {b}, 0) /\ born' = born /\ UNCHANGED binlog
      /\ cache' = cache /\ op' = op /\ UNCHANGED defrag /\ UNCHANGED promise
    BY DEF RemoveBase
<1>2. b \in bases /\ bases \subseteq Bases
    BY <1>1 DEF NotLast, IndInv, DiskInv
<1>3. \A i \in DOMAIN index[b] : ~Live(index[b][i])
    BY <1>1, <1>2, AllRemovedDead, RecInvParts
<1>4. /\ \A c \in Bases \ {b} : /\ index'[c] = index[c] /\ data'[c] = data[c]
                                /\ gone'[c] = gone[c] /\ place'[c] = place[c]
      /\ index'[b] = <<>> /\ data'[b] = <<>> /\ gone'[b] = 0
    BY <1>1 DEF Closed
<1>5. job' = "none" /\ group' = {} /\ left' = {} /\ chunk' = {}
    BY <1>1, NoJobSorting DEF RecInv, ChunkGood, defrag
<1>6. Kept
    <2>1. \A c \in bases' : /\ place'[c] = place[c] /\ SameBut(index'[c], index[c], {})
                            /\ \A p \in DOMAIN data[c] : data'[c][p] = data[c][p]
                            /\ gone'[c] = CountRemoved(index'[c])
        <3> SUFFICES ASSUME NEW c \in bases \ {b}
                     PROVE  /\ place'[c] = place[c] /\ SameBut(index'[c], index[c], {})
                            /\ \A p \in DOMAIN data[c] : data'[c][p] = data[c][p]
                            /\ gone'[c] = CountRemoved(index'[c])
            BY <1>1
        <3>1. c \in Bases \ {b} /\ c \in bases
            BY <1>2
        <3>2. /\ index'[c] = index[c] /\ data'[c] = data[c]
              /\ gone'[c] = gone[c] /\ place'[c] = place[c]
            BY <1>4, <3>1
        <3>3. SameBut(index[c], index[c], {})
            BY <3>1, SameSelf, RecInvParts
        <3>4. gone[c] = CountRemoved(index[c])
            BY <3>1 DEF RecInv, Exact
        <3> QED
            BY <3>2, <3>3, <3>4
    <2>2. \A c \in Bases \ bases' : index'[c] = <<>> /\ data'[c] = <<>> /\ gone'[c] = 0
        BY <1>1, <1>4 DEF RecInv, Layout
    <2>3. sorted' \subseteq bases'
        BY <1>1 DEF RecInv, Layout
    <2> QED
        BY <1>1, <1>3, <1>5, <2>1, <2>2, <2>3 DEF Kept, binlog
<1> QED
    BY <1>6

(* Nobody who looked a record up is in the base that is unlinked.          *)
LEMMA RemoveBaseRec ==
    ASSUME IndInv, RecInv, NEW b \in Bases, RemoveBase(b)
    PROVE  RecInv'
<1>1. /\ job = "none" /\ b \in NotLast /\ AllRemoved(b) /\ bases' = bases \ {b}
      /\ sorted' = sorted \ {b} /\ place' = Closed(place, {b}, 0)
      /\ index' = Closed(index, {b}, <<>>) /\ data' = Closed(data, {b}, <<>>)
      /\ gone' = Closed(gone, {b}, 0) /\ born' = born /\ UNCHANGED binlog
      /\ cache' = cache /\ op' = op /\ UNCHANGED defrag /\ UNCHANGED promise
    BY DEF RemoveBase
<1>2. b \in bases /\ bases \subseteq Bases
    BY <1>1 DEF NotLast, IndInv, DiskInv
<1>3. \A i \in DOMAIN index[b] : ~Live(index[b][i])
    BY <1>1, <1>2, AllRemovedDead, RecInvParts
<1>4. /\ \A c \in Bases \ {b} : /\ index'[c] = index[c] /\ data'[c] = data[c]
                                /\ gone'[c] = gone[c] /\ place'[c] = place[c]
      /\ index'[b] = <<>> /\ data'[b] = <<>> /\ gone'[b] = 0
    BY <1>1 DEF Closed
<1>6. Kept
    BY RemoveBaseKept
<1>7. FilesInv'
    BY <1>6, KeptFiles, RecInvParts
<1>8. ASSUME NEW k \in Keys PROVE KeyInv(k)'
    <2>1. KeyInv(k) /\ FilesInv /\ Abandoned' = Abandoned /\ Suspect' = Suspect
        BY <1>1, RecInvParts DEF promise, Abandoned, Suspect
    <2>2. \A l : LiveAt(k, l) => LiveNext(k, l) /\ l.base \in bases'
        <3> SUFFICES ASSUME NEW l, LiveAt(k, l) PROVE LiveNext(k, l) /\ l.base \in bases'
            OBVIOUS
        <3>1. l.base \in bases /\ l.base # b
            BY <1>3 DEF LiveAt
        <3>2. index'[l.base] = index[l.base]
            BY <1>2, <1>4, <3>1
        <3> QED
            BY <1>6, <2>1, <3>2, KeptLoc DEF LiveNext
    <2>3. \A c \in bases' : /\ c \in bases /\ index'[c] = index[c]
                            /\ c \in sorted' <=> c \in sorted
                            /\ \A i : LiveEntry(k, c, i)' <=> LiveEntry(k, c, i)
        BY <1>1, <1>2, <1>4 DEF LiveEntry
    <2>4. NoRecord(k)' <=> NoRecord(k)
        BY <1>6, <2>1, KeptLive
    <2>5. (Writing(k)' <=> Writing(k)) /\ op'[k] = op[k] /\ cache'[k] = cache[k]
        BY <1>1 DEF Writing
    <2>6. CacheGood(k) => CacheGood(k)'
        <3>1. CacheGood(k) /\ cache[k] # NoLoc => LiveNext(k, cache[k])
            BY <2>2 DEF CacheGood
        <3> QED
            BY <2>3, <2>5, <3>1 DEF CacheGood, LiveAt, LiveNext
    <2>7. ASSUME HeldGood(k) PROVE HeldGood(k)'
        <3>1. op[k].pc = "prep" /\ ~op[k].moved =>
                 (IF op[k].old = NoLoc THEN NoRecord(k)' ELSE LiveNext(k, op[k].old))
            BY <2>2, <2>4, <2>7 DEF HeldGood
        <3>2. op[k].pc = "remove" /\ op[k].old.base \in bases' => LiveNext(k, op[k].old)
            BY <1>1, <2>2, <2>7 DEF HeldGood
        <3>3. ASSUME Writing(k)
              PROVE  IF op[k].new.base \in bases'
                     THEN /\ LiveNext(k, op[k].new)
                          /\ op[k].pc # "ram" =>
                                index'[op[k].new.base][op[k].new.ip].flag = "committed"
                     ELSE /\ cache[k] = NoLoc
                          /\ \A c \in (bases \ sorted)' : \A i \in DOMAIN index'[c] :
                                ~LiveEntry(k, c, i)'
            <4>1. CASE op[k].new.base \in bases
                BY <2>2, <2>3, <2>7, <3>3, <4>1 DEF HeldGood
            <4>2. CASE op[k].new.base \notin bases
                BY <2>3, <2>7, <3>3, <4>2 DEF HeldGood
            <4> QED
                BY <4>1, <4>2
        <3> QED
            BY <2>5, <2>6, <2>7, <3>1, <3>2, <3>3 DEF HeldGood, LiveAt, LiveNext
    <2>8. ValueGood(k) => ValueGood(k)'
        BY <1>1, <1>6, <2>1, KeptValue DEF promise
    <2> QED
        BY <2>1, <2>5, <2>7, <2>8 DEF KeyInv
<1> QED
    BY <1>7, <1>8, RecInvParts

(* An index with its binlog applied: the sorted copy r of the index s, in  *)
(* which the keys of the binlog have no live entry any more, gets exactly  *)
(* the entries of s.  bsearch may hit any entry of a key; the live one is  *)
(* the last.                                                               *)
Applied(r, hit) ==
    [i \in DOMAIN r |-> IF IndexsortHit(r, hit, i) THEN Removed(r[i]) ELSE r[i]]

LEMMA BinlogApplied ==
    ASSUME NEW s \in Seq(Entry), NEW r \in Seq(Entry), NEW ks, SameBut(r, s, ks),
           RemovedFirst(r), LiveOnce(r),
           \A j \in DOMAIN s : s[j].key \in ks => ~Live(s[j]),
           NEW hit \in BsearchHits(r, ks)
    PROVE  /\ SameBut(Applied(r, hit), s, {})
           /\ \A i \in DOMAIN r : IndexsortHit(r, hit, i) => ~Live(Applied(r, hit)[i])
           /\ \A i \in DOMAIN r : Applied(r, hit)[i].pos = r[i].pos
<1> DEFINE q == Applied(r, hit)
<1>0. q = [i \in DOMAIN r |-> IF IndexsortHit(r, hit, i) THEN Removed(r[i]) ELSE r[i]]
    BY DEF Applied
<1> HIDE DEF q
<1>1. /\ \A i \in DOMAIN r : r[i] \in Entry /\ i \in Nat
      /\ \A j \in DOMAIN s : s[j] \in Entry
    BY ElementOfSeq, LenProperties
<1>2. DOMAIN hit = ks /\ \A k \in ks : hit[k] \in DOMAIN r \cup {0}
    BY DEF BsearchHits
<1>3. \A i \in DOMAIN r : r[i].key \in ks =>
         hit[r[i].key] \in DOMAIN r /\ r[hit[r[i].key]].key = r[i].key
    BY <1>2 DEF BsearchHits
<1>4. DOMAIN q = DOMAIN r
    BY <1>0
<1>5. ASSUME NEW i \in DOMAIN r, r[i].key \in ks
      PROVE  q[i] = Removed(r[i])
    <2>1. CASE IndexsortHit(r, hit, i)
        BY <1>0, <2>1
    <2>2. CASE ~IndexsortHit(r, hit, i)
        <3> DEFINE h == hit[r[i].key]
        <3>1. h \in DOMAIN r /\ r[h].key = r[i].key
            BY <1>3, <1>5
        <3>2. ~(i >= h)
            BY <1>2, <1>5, <2>2 DEF IndexsortHit
        <3>3. h \in Nat /\ i \in Nat
            BY <1>1, <3>1
        <3> HIDE DEF h
        <3>4. i < h
            BY <3>2, <3>3
        <3>5. ~Live(r[i])
            <4>1. CASE Live(r[h])
                <5>1. i # h
                    BY <3>3, <3>4
                <5> QED
                    BY <3>1, <4>1, <5>1 DEF LiveOnce
            <4>2. CASE ~Live(r[h])
                BY <3>1, <3>4, <4>2 DEF RemovedFirst
            <4> QED
                BY <4>1, <4>2
        <3>6. r[i].flag = "removed" /\ r[i] \in Entry
            BY <1>1, <3>5 DEF Live
        <3>7. Removed(r[i]) = r[i]
            BY <3>6 DEF Removed, Entry
        <3> QED
            BY <1>0, <2>2, <3>7
    <2> QED
        BY <2>1, <2>2
<1>6. ASSUME NEW i \in DOMAIN r, r[i].key \notin ks
      PROVE  q[i] = r[i] /\ ~IndexsortHit(r, hit, i)
    BY <1>0, <1>2, <1>6 DEF IndexsortHit
<1>7. ASSUME NEW i \in DOMAIN r, NEW j \in DOMAIN s,
             /\ r[i].key = s[j].key /\ r[i].pos = s[j].pos
             /\ r[i].key \notin ks => r[i] = s[j]
      PROVE  q[i] = s[j]
    <2>1. CASE r[i].key \in ks
        <3>1. q[i] = Removed(r[i])
            BY <1>5, <2>1
        <3>2. s[j].flag = "removed"
            BY <1>7, <2>1 DEF Live
        <3>3. r[i] \in Entry /\ s[j] \in Entry
            BY <1>1
        <3> QED
            BY <1>7, <3>1, <3>2, <3>3 DEF Removed, Entry
    <2>2. CASE r[i].key \notin ks
        BY <1>6, <1>7, <2>2
    <2> QED
        BY <2>1, <2>2
<1>8. \A i \in DOMAIN r : q[i].pos = r[i].pos
    <2> SUFFICES ASSUME NEW i \in DOMAIN r PROVE q[i].pos = r[i].pos
        OBVIOUS
    <2>1. PICK j \in DOMAIN s : /\ r[i].key = s[j].key /\ r[i].pos = s[j].pos
                                /\ r[i].key \notin ks => r[i] = s[j]
        BY DEF SameBut
    <2> QED
        BY <1>7, <2>1
<1>9. \A i \in DOMAIN r : IndexsortHit(r, hit, i) => ~Live(q[i])
    BY <1>0, <1>1 DEF Removed, Live, Entry
<1>10. SameBut(q, s, {})
    <2>1. \A i, j \in DOMAIN q : q[i].pos = q[j].pos => i = j
        BY <1>4, <1>8 DEF SameBut
    <2>2. \A i \in DOMAIN q : \E j \in DOMAIN s :
             /\ q[i].key = s[j].key /\ q[i].pos = s[j].pos
             /\ q[i].key \notin {} => q[i] = s[j]
        <3> SUFFICES ASSUME NEW i \in DOMAIN r PROVE \E j \in DOMAIN s : q[i] = s[j]
            BY <1>4, Zenon
        <3>1. PICK j \in DOMAIN s : /\ r[i].key = s[j].key /\ r[i].pos = s[j].pos
                                    /\ r[i].key \notin ks => r[i] = s[j]
            BY DEF SameBut
        <3> QED
            BY <1>7, <3>1
    <2>3. \A j \in DOMAIN s : \E i \in DOMAIN q :
             /\ q[i].key = s[j].key /\ q[i].pos = s[j].pos
             /\ q[i].key \notin {} => q[i] = s[j]
        <3> SUFFICES ASSUME NEW j \in DOMAIN s PROVE \E i \in DOMAIN r : q[i] = s[j]
            BY <1>4, Zenon
        <3>1. PICK i \in DOMAIN r : /\ r[i].key = s[j].key /\ r[i].pos = s[j].pos
                                    /\ r[i].key \notin ks => r[i] = s[j]
            BY DEF SameBut
        <3> QED
            BY <1>7, <3>1
    <2>4. DOMAIN q = DOMAIN s
        BY <1>4 DEF SameBut
    <2> QED
        BY <2>1, <2>2, <2>3, <2>4, Zenon DEF SameBut
<1> QED
    BY <1>8, <1>9, <1>10 DEF q

(* The step of an index sort that puts the sorted index into use keeps all *)
(* records where they are.                                                 *)
LEMMA IndexsortSwapKept ==
    ASSUME IndInv, RecInv, IndexsortSwap
    PROVE  \E b \in bases :
              /\ Kept /\ bases' = bases /\ sorted' = sorted \cup {b}
              /\ \A c \in Bases \ {b} : index'[c] = index[c]
              /\ cache' = Flushed(index'[b]) /\ op' = GenerationBumped
              /\ crossed' = (crossed \/ Overtaken(b, index'[b]))
              /\ UNCHANGED <<shadow, status, failed, torn>>
<1>1. PICK b \in group : \E hit \in BsearchHits(snap, logged[b]) :
         LET idx == [i \in DOMAIN snap |->
                       IF IndexsortHit(snap, hit, i) THEN Removed(snap[i])
                                                     ELSE snap[i]]
             dead == {snap[i].pos : i \in {j \in DOMAIN snap :
                                           IndexsortHit(snap, hit, j)}}
         IN /\ index' = [index EXCEPT ![b] = idx]
            /\ data' = [data EXCEPT ![b] =
                          [p \in DOMAIN @ |-> IF p \in dead THEN Removed(@[p])
                                                            ELSE @[p]]]
            /\ gone' = [gone EXCEPT ![b] = CountRemoved(idx)]
            /\ cache' = Flushed(idx)
            /\ crossed' = (crossed \/ Overtaken(b, idx))
    BY DEF IndexsortSwap
<1>2. PICK hit \in BsearchHits(snap, logged[b]) :
         LET idx == [i \in DOMAIN snap |->
                       IF IndexsortHit(snap, hit, i) THEN Removed(snap[i])
                                                     ELSE snap[i]]
             dead == {snap[i].pos : i \in {j \in DOMAIN snap :
                                           IndexsortHit(snap, hit, j)}}
         IN /\ index' = [index EXCEPT ![b] = idx]
            /\ data' = [data EXCEPT ![b] =
                          [p \in DOMAIN @ |-> IF p \in dead THEN Removed(@[p])
                                                            ELSE @[p]]]
            /\ gone' = [gone EXCEPT ![b] = CountRemoved(idx)]
            /\ cache' = Flushed(idx)
            /\ crossed' = (crossed \/ Overtaken(b, idx))
    BY <1>1
<1> DEFINE idx == [i \in DOMAIN snap |->
                     IF IndexsortHit(snap, hit, i) THEN Removed(snap[i]) ELSE snap[i]]
           dead == {snap[i].pos : i \in {j \in DOMAIN snap : IndexsortHit(snap, hit, j)}}
           dat == [p \in DOMAIN data[b] |-> IF p \in dead THEN Removed(data[b][p])
                                                          ELSE data[b][p]]
<1>3. /\ index' = [index EXCEPT ![b] = idx] /\ data' = [data EXCEPT ![b] = dat]
      /\ gone' = [gone EXCEPT ![b] = CountRemoved(idx)] /\ cache' = Flushed(idx)
      /\ crossed' = (crossed \/ Overtaken(b, idx))
    BY <1>2, Zenon
<1>4. /\ job = "indexsort" /\ sorted' = sorted \cup group /\ op' = GenerationBumped
      /\ StopBinlog(group) /\ NoJob /\ bases' = bases /\ place' = place /\ born' = born
      /\ UNCHANGED <<shadow, status, failed, torn>>
    BY DEF IndexsortSwap
<1>5. /\ group = {b} /\ b \in Bases /\ SameBut(snap, index[b], logged[b])
      /\ RemovedFirst(snap) /\ LiveOnce(snap)
    <2>1. PICK c \in Bases :
             /\ group = {c} /\ SameBut(snap, index[c], logged[c]) /\ RemovedFirst(snap)
             /\ LiveOnce(snap)
        BY <1>4 DEF RecInv, SnapGood, LiveOnce
    <2>2. b = c
        BY <2>1
    <2> QED
        BY <2>1, <2>2
<1>6. b \in bases /\ b \in logging /\ bases \subseteq Bases
    <2>1. b \in NotLast /\ b \in logging
        BY DEF IndInv, SortInv, SortsOldBases, RecInv, Layout
    <2> QED
        BY <2>1 DEF NotLast, IndInv, DiskInv
<1>7. /\ index[b] \in Seq(Entry) /\ snap \in Seq(Entry)
      /\ index \in [Bases -> Seq(Entry)] /\ data \in [Bases -> Seq(Record)]
      /\ gone \in [Bases -> Nat]
    BY <1>5 DEF IndInv, DiskInv, SortInv
<1>8. \A j \in DOMAIN index[b] : index[b][j].key \in logged[b] => ~Live(index[b][j])
    BY <1>6 DEF RecInv, LoggedGone, LiveEntry
<1>9. /\ SameBut(idx, index[b], {})
      /\ \A i \in DOMAIN snap : IndexsortHit(snap, hit, i) => ~Live(idx[i])
      /\ \A i \in DOMAIN snap : idx[i].pos = snap[i].pos
    <2>1. idx = Applied(snap, hit)
        BY DEF Applied
    <2> HIDE DEF idx
    <2>2. /\ SameBut(Applied(snap, hit), index[b], {})
          /\ \A i \in DOMAIN snap : IndexsortHit(snap, hit, i) => ~Live(Applied(snap, hit)[i])
          /\ \A i \in DOMAIN snap : Applied(snap, hit)[i].pos = snap[i].pos
        <3> DEFINE s == index[b]
                   ks == logged[b]
        <3>1. /\ s \in Seq(Entry) /\ snap \in Seq(Entry) /\ SameBut(snap, s, ks)
              /\ RemovedFirst(snap) /\ LiveOnce(snap)
              /\ \A j \in DOMAIN s : s[j].key \in ks => ~Live(s[j])
              /\ hit \in BsearchHits(snap, ks)
            BY <1>5, <1>7, <1>8
        <3> HIDE DEF s, ks
        <3>2. SameBut(Applied(snap, hit), s, {})
            BY <3>1, BinlogApplied, Zenon
        <3>3. \A i \in DOMAIN snap : IndexsortHit(snap, hit, i) => ~Live(Applied(snap, hit)[i])
            BY <3>1, BinlogApplied, Zenon
        <3>4. \A i \in DOMAIN snap : Applied(snap, hit)[i].pos = snap[i].pos
            BY <3>1, BinlogApplied, SMT
        <3> QED
            BY <3>2, <3>3, <3>4 DEF s
    <2> QED
        BY <2>1, <2>2
<1>10. DOMAIN idx = DOMAIN snap
    OBVIOUS
<1> HIDE DEF idx
<1>11. ASSUME NEW p \in DOMAIN data[b]
       PROVE  dat[p] = data[b][p]
    <2>1. CASE p \notin dead
        BY <2>1
    <2>2. CASE p \in dead
        <3>1. PICK i \in DOMAIN snap : IndexsortHit(snap, hit, i) /\ snap[i].pos = p
            BY <2>2
        <3>2. PICK j \in DOMAIN index[b] : idx[i] = index[b][j]
            BY <1>9, <1>10 DEF SameBut
        <3>3. index[b][j].pos = p /\ ~Live(index[b][j])
            BY <1>9, <3>1, <3>2
        <3>4. ~Live(data[b][p]) /\ data[b][p] \in Record
            <4>1. data[b][index[b][j].pos] \in Record
                BY <1>6, EntryFacts DEF IndInv
            <4> QED
                BY <1>6, <3>3, <4>1 DEF RecInv, FilesAgree
        <3>5. Removed(data[b][p]) = data[b][p]
            BY <3>4 DEF Removed, Record, Live
        <3> QED
            BY <3>5
    <2> QED
        BY <2>1, <2>2
<1> HIDE DEF dat
<1>12. /\ index'[b] = idx /\ data'[b] = dat /\ gone'[b] = CountRemoved(idx)
       /\ \A c \in Bases \ {b} : /\ index'[c] = index[c] /\ data'[c] = data[c]
                                 /\ gone'[c] = gone[c]
    BY <1>3, <1>5, <1>7
<1>13. Kept
    <2>1. \A c \in bases' : /\ place'[c] = place[c] /\ SameBut(index'[c], index[c], {})
                            /\ \A p \in DOMAIN data[c] : data'[c][p] = data[c][p]
                            /\ gone'[c] = CountRemoved(index'[c])
        <3> SUFFICES ASSUME NEW c \in bases
                     PROVE  /\ place'[c] = place[c] /\ SameBut(index'[c], index[c], {})
                            /\ \A p \in DOMAIN data[c] : data'[c][p] = data[c][p]
                            /\ gone'[c] = CountRemoved(index'[c])
            BY <1>4
        <3>1. CASE c = b
            BY <1>4, <1>9, <1>11, <1>12, <3>1
        <3>2. CASE c # b
            <4>1. /\ index'[c] = index[c] /\ data'[c] = data[c] /\ gone'[c] = gone[c]
                BY <1>6, <1>12, <3>2
            <4>2. SameBut(index[c], index[c], {})
                BY SameSelf, RecInvParts
            <4>3. gone[c] = CountRemoved(index[c])
                BY DEF RecInv, Exact
            <4> QED
                BY <1>4, <4>1, <4>2, <4>3
        <3> QED
            BY <3>1, <3>2
    <2>2. \A c \in Bases \ bases' : index'[c] = <<>> /\ data'[c] = <<>> /\ gone'[c] = 0
        BY <1>4, <1>6, <1>12 DEF RecInv, Layout
    <2>3. sorted' \subseteq bases'
        BY <1>4, <1>5, <1>6 DEF RecInv, Layout
    <2>4. logging' \subseteq logging /\ \A c \in logging' : logged'[c] = logged[c]
        BY <1>4 DEF StopBinlog, IndInv, DiskInv
    <2>5. job' = "none" /\ group' = {} /\ left' = {} /\ chunk' = {}
        BY <1>4 DEF NoJob
    <2> QED
        BY <1>4, <2>1, <2>2, <2>3, <2>4, <2>5 DEF Kept
<1> QED
    BY <1>3, <1>4, <1>5, <1>6, <1>9, <1>12, <1>13

(* The generation moves: only what was looked up before is doubtful.       *)
LEMMA BumpedOp ==
    ASSUME IndInv, op' = GenerationBumped, NEW k \in Keys
    PROVE  /\ op'[k].pc = op[k].pc /\ op'[k].kind = op[k].kind /\ op'[k].val = op[k].val
           /\ op'[k].copy = op[k].copy /\ op'[k].new = op[k].new /\ op'[k].old = op[k].old
           /\ op'[k].moved = (op[k].pc = "prep")
           /\ op[k] = Idle => op'[k] = Idle
<1>1. op[k] \in Op
    BY DEF IndInv, HeldInv
<1>2. op'[k] = [op[k] EXCEPT !.moved = (op[k].pc = "prep")]
    BY DEF GenerationBumped
<1>3. /\ op'[k].pc = op[k].pc /\ op'[k].kind = op[k].kind /\ op'[k].val = op[k].val
      /\ op'[k].copy = op[k].copy /\ op'[k].new = op[k].new /\ op'[k].old = op[k].old
      /\ op'[k].moved = (op[k].pc = "prep")
    BY <1>1, <1>2 DEF Op
<1>4. op[k] = Idle => op'[k] = Idle
    <2>0. Idle.pc = "idle" /\ Idle.moved = FALSE /\ Idle \in Op
        BY IdleOp DEF Idle
    <2>1. Idle.pc = "idle" /\ [Idle EXCEPT !.moved = FALSE] = Idle
        BY <2>0 DEF Op
    <2>2. op[k] = Idle => (op[k].pc = "prep") = FALSE
        BY <2>1
    <2> QED
        BY <1>2, <2>1, <2>2
<1> QED
    BY <1>3, <1>4

(* indexsort: the records stay, the entries move, and nobody who holds the *)
(* offset of one that moved goes on unnoticed.                             *)
LEMMA IndexsortSwapRec ==
    ASSUME IndInv, RecInv, IndexsortSwap
    PROVE  crossed' \/ RecInv'
<1> SUFFICES ASSUME ~crossed' PROVE RecInv'
    OBVIOUS
<1>1. PICK b \in bases :
         /\ Kept /\ bases' = bases /\ sorted' = sorted \cup {b}
         /\ \A c \in Bases \ {b} : index'[c] = index[c]
         /\ cache' = Flushed(index'[b]) /\ op' = GenerationBumped
         /\ crossed' = (crossed \/ Overtaken(b, index'[b]))
         /\ UNCHANGED <<shadow, status, failed, torn>>
    BY IndexsortSwapKept
<1>2. ~Overtaken(b, index'[b]) /\ FilesInv /\ bases \subseteq Bases
    BY <1>1, RecInvParts DEF IndInv, DiskInv
<1>3. FilesInv'
    BY <1>1, <1>2, KeptFiles
<1>4. ASSUME NEW k \in Keys PROVE KeyInv(k)'
    <2>1. KeyInv(k) /\ Abandoned' = Abandoned /\ Suspect' = Suspect
        BY <1>1, RecInvParts DEF Abandoned, Suspect
    <2>2. /\ op'[k].pc = op[k].pc /\ op'[k].kind = op[k].kind /\ op'[k].val = op[k].val
          /\ op'[k].copy = op[k].copy /\ op'[k].new = op[k].new /\ op'[k].old = op[k].old
          /\ op'[k].moved = (op[k].pc = "prep")
          /\ op[k] = Idle => op'[k] = Idle
        BY <1>1, BumpedOp
    <2>3. ValueGood(k) => ValueGood(k)'
        BY <1>1, <1>2, <2>2, KeptValue
    <2>4. Writing(k)' <=> Writing(k)
        BY <2>2 DEF Writing
    <2>5. /\ \A j \in DOMAIN index[b] : LiveEntry(k, b, j) =>
                \E i \in DOMAIN index'[b] : index'[b][i].key = k /\ Live(index'[b][i])
          /\ \A i \in DOMAIN index'[b] : index'[b][i].key = k /\ Live(index'[b][i]) =>
                \E j \in DOMAIN index[b] : LiveEntry(k, b, j)
        <3>1. \A i \in DOMAIN index'[b] :
                 LiveEntry(k, b, i)' <=> index'[b][i].key = k /\ Live(index'[b][i])
            BY <1>1 DEF LiveEntry
        <3>2. ASSUME NEW j \in DOMAIN index[b], LiveEntry(k, b, j)
              PROVE  \E i \in DOMAIN index'[b] : LiveEntry(k, b, i)'
            BY <1>1, <1>2, <3>2, KeptLive
        <3>3. ASSUME NEW i \in DOMAIN index'[b], LiveEntry(k, b, i)'
              PROVE  \E j \in DOMAIN index[b] : LiveEntry(k, b, j)
            BY <1>1, <1>2, <3>3, KeptLive
        <3> QED
            BY <3>1, <3>2, <3>3
    <2>6. /\ cache'[k] = IF \E j \in DOMAIN index[b] : LiveEntry(k, b, j) THEN NoLoc
                                                                         ELSE cache[k]
        BY <1>1, <2>5 DEF Flushed
    <2>7. \A c \in bases' \ sorted' : /\ c \in bases \ sorted /\ c # b
                                      /\ index'[c] = index[c]
                                      /\ \A i : LiveEntry(k, c, i)' <=> LiveEntry(k, c, i)
        BY <1>1, <1>2 DEF LiveEntry
    <2>8. ASSUME CacheGood(k) PROVE CacheGood(k)'
        <3>1. ASSUME cache'[k] # NoLoc PROVE LiveNext(k, cache'[k])
            <4>1. cache'[k] = cache[k] /\ ~\E j \in DOMAIN index[b] : LiveEntry(k, b, j)
                BY <2>6, <3>1
            <4>2. LiveAt(k, cache[k])
                BY <2>8, <3>1, <4>1 DEF CacheGood
            <4>3. cache[k].base \in bases /\ cache[k].base # b
                BY <4>1, <4>2, LiveAtEntry
            <4>4. index'[cache[k].base] = index[cache[k].base]
                BY <1>1, <1>2, <4>3
            <4> QED
                BY <1>1, <1>2, <4>1, <4>2, <4>4, KeptLoc
        <3>2. ASSUME NEW c \in bases' \ sorted', NEW i \in DOMAIN index'[c],
                     LiveEntry(k, c, i)'
              PROVE  cache'[k] = [base |-> c, ip |-> i, dp |-> index'[c][i].pos]
            <4>1. /\ c \in bases \ sorted /\ c # b /\ index'[c] = index[c]
                  /\ i \in DOMAIN index[c] /\ LiveEntry(k, c, i)
                BY <2>7, <3>2
            <4>2. ~\E j \in DOMAIN index[b] : LiveEntry(k, b, j)
                BY <1>2, <4>1 DEF FilesInv, Once
            <4>3. cache[k] = [base |-> c, ip |-> i, dp |-> index[c][i].pos]
                BY <2>8, <4>1 DEF CacheGood
            <4> QED
                BY <2>6, <4>1, <4>2, <4>3
        <3> QED
            BY <3>1, <3>2 DEF CacheGood, LiveAt, LiveNext
    \* A held location of this base: its entry did not move.
    <2>9. ASSUME NEW l, LiveAt(k, l),
                 l.base = b => l.ip \in DOMAIN index'[b] /\ index'[b][l.ip].pos = l.dp
          PROVE  LiveNext(k, l) /\ index'[l.base][l.ip] = index[l.base][l.ip]
        <3>1. CASE l.base # b
            <4>1. index'[l.base] = index[l.base]
                BY <1>1, <1>2, <2>9, <3>1 DEF LiveAt
            <4> QED
                BY <1>1, <1>2, <2>9, <4>1, KeptLoc
        <3>2. CASE l.base = b
            <4>1. PICK j \in DOMAIN index[b] : index'[b][l.ip] = index[b][j]
                BY <1>1, <2>9, <3>2 DEF Kept, SameBut
            <4>2. j = l.ip
                BY <1>2, <2>9, <3>2, <4>1 DEF LiveAt, FilesInv, FilesAgree
            <4> QED
                BY <1>1, <2>9, <3>2, <4>1, <4>2 DEF LiveAt, LiveNext
        <3> QED
            BY <3>1, <3>2
    <2>10. ASSUME HeldGood(k) PROVE HeldGood(k)'
        <3>1. ASSUME op[k].pc = "remove", op[k].old.base \in bases
              PROVE  LiveNext(k, op[k].old)
            <4>1. LiveAt(k, op[k].old)
                BY <2>10, <3>1 DEF HeldGood
            <4>2. op[k].old.base = b =>
                     op[k].old.ip \in DOMAIN index'[b]
                     /\ index'[b][op[k].old.ip].pos = op[k].old.dp
                BY <1>2, <3>1 DEF Overtaken
            <4> QED
                BY <2>9, <4>1, <4>2
        <3>2. ASSUME Writing(k), op[k].new.base \in bases
              PROVE  /\ LiveNext(k, op[k].new)
                     /\ op[k].pc # "ram" =>
                           index'[op[k].new.base][op[k].new.ip].flag = "committed"
            <4>1. /\ LiveAt(k, op[k].new)
                  /\ op[k].pc # "ram" =>
                        index[op[k].new.base][op[k].new.ip].flag = "committed"
                BY <2>10, <3>2 DEF HeldGood
            <4>2. op[k].new.base = b =>
                     op[k].new.ip \in DOMAIN index'[b]
                     /\ index'[b][op[k].new.ip].pos = op[k].new.dp
                BY <1>2, <3>2 DEF Overtaken, Writing
            <4> QED
                BY <2>9, <4>1, <4>2
        <3>3. ASSUME Writing(k), op[k].new.base \notin bases
              PROVE  /\ cache'[k] = NoLoc
                     /\ \A c \in bases' \ sorted' : \A i \in DOMAIN index'[c] :
                           ~LiveEntry(k, c, i)'
            BY <2>6, <2>7, <2>10, <3>3 DEF HeldGood
        <3>4. ~Writing(k) => CacheGood(k)'
            BY <2>8, <2>10 DEF HeldGood
        <3> QED
            BY <1>1, <2>2, <2>4, <3>1, <3>2, <3>3, <3>4 DEF HeldGood, LiveAt, LiveNext
    <2> QED
        BY <2>1, <2>2, <2>3, <2>10 DEF KeyInv
<1> QED
    BY <1>3, <1>4, RecInvParts

-----------------------------------------------------------------------------
(* Copying the records of a base out, and merging the copies. *)

(* datasort_split: what is copied is live, so it is in no other copy.      *)
LEMMA DatasortSplitRec ==
    ASSUME IndInv, RecInv, DatasortSplit
    PROVE  RecInv'
<1>1. PICK b \in left :
         /\ left' = left \ {b}
         /\ chunk' = chunk \cup
              {[base |-> b, ip |-> i, key |-> index[b][i].key,
                flag |-> index[b][i].flag,
                val |-> data[b][index[b][i].pos].val] :
                  i \in {j \in DOMAIN index[b] : Live(index[b][j])}}
         /\ torn' = torn \cup {k \in Keys : op[k].pc \in {"payload", "commit"}
                                            /\ op[k].new.base = b}
    BY DEF DatasortSplit
<1>2. /\ job = "datasort" /\ job' = job /\ group' = group /\ UNCHANGED disk
      /\ logging' = logging /\ logged' = logged /\ cache' = cache /\ op' = op
      /\ UNCHANGED <<shadow, status, failed>> /\ torn \subseteq torn'
    BY <1>1 DEF DatasortSplit, binlog
<1>3. b \in group /\ b \in bases /\ group \subseteq bases
    BY DEF IndInv, SortInv, SortsOldBases, NotLast
<1>4. Layout' /\ FilesAgree' /\ Once' /\ Exact'
    <2>1. group' \subseteq logging'
        BY <1>2 DEF RecInv, Layout
    <2> QED
        BY <1>2, <2>1, LogsKeep, RecInvParts
<1>5. /\ index' = index /\ data' = data /\ bases' = bases
      /\ \A k, c, i : LiveEntry(k, c, i)' <=> LiveEntry(k, c, i)
      /\ \A c, i : ValueAt(c, i)' = ValueAt(c, i)
    BY <1>2 DEF disk, LiveEntry, ValueAt
<1>6. LoggedGone' /\ SnapGood'
    BY <1>2, <1>5 DEF RecInv, LoggedGone, SnapGood
<1>7. Suspect \subseteq Suspect'
    BY <1>2 DEF Suspect
<1> DEFINE copy(i) == [base |-> b, ip |-> i, key |-> index[b][i].key,
                       flag |-> index[b][i].flag,
                       val |-> data[b][index[b][i].pos].val]
           live == {j \in DOMAIN index[b] : Live(index[b][j])}
<1>8. /\ \A c \in chunk' : c \in chunk \/ \E i \in live : c = copy(i)
      /\ chunk \subseteq chunk' /\ \A i \in live : copy(i) \in chunk'
    BY <1>1
<1>9. \A i \in live : /\ copy(i).base = b /\ copy(i).ip = i
                      /\ copy(i).key = index[b][i].key /\ copy(i).flag = index[b][i].flag
                      /\ copy(i).val = ValueAt(b, i) /\ i \in DOMAIN index[b]
                      /\ Live(copy(i)) /\ copy(i).key \in Keys
                      /\ LiveEntry(copy(i).key, b, i)
    <2> SUFFICES ASSUME NEW i \in live
                 PROVE  /\ copy(i).base = b /\ copy(i).ip = i
                        /\ copy(i).key = index[b][i].key /\ copy(i).flag = index[b][i].flag
                        /\ copy(i).val = ValueAt(b, i) /\ i \in DOMAIN index[b]
                        /\ Live(copy(i)) /\ copy(i).key \in Keys
                        /\ LiveEntry(copy(i).key, b, i)
        OBVIOUS
    <2>1. index[b][i] \in Entry
        BY <1>3, EntryFacts DEF IndInv
    <2> QED
        BY <1>3, <2>1 DEF Live, LiveEntry, ValueAt, Entry
<1> HIDE DEF copy, live
<1>10. \A i, j \in live : copy(i).key = copy(j).key => i = j
    <2> SUFFICES ASSUME NEW i \in live, NEW j \in live, copy(i).key = copy(j).key
                 PROVE  i = j
        OBVIOUS
    <2>1. /\ LiveEntry(copy(i).key, b, i) /\ LiveEntry(copy(i).key, b, j)
          /\ i \in DOMAIN index[b] /\ j \in DOMAIN index[b] /\ copy(i).key \in Keys
        BY <1>9
    <2> QED
        BY <1>3, <2>1 DEF RecInv, Once
<1>11. ASSUME NEW i \in live, NEW d \in chunk, d.key = copy(i).key
       PROVE  FALSE
    <2>1. /\ d.base \in group \ left /\ d.ip \in DOMAIN index[d.base]
          /\ d.key = index[d.base][d.ip].key /\ Live(d)
          /\ d.key \notin logged[d.base] => index[d.base][d.ip].flag = d.flag
        BY DEF RecInv, ChunkGood
    <2>2. CASE d.key \in logged[d.base]
        BY <1>3, <1>9, <1>11, <2>1, <2>2 DEF RecInv, LoggedGone
    <2>3. CASE d.key \notin logged[d.base]
        <3>1. LiveEntry(d.key, d.base, d.ip) /\ d.base \in bases
            BY <1>3, <2>1, <2>3 DEF LiveEntry, Live
        <3>2. d.base = b
            BY <1>3, <1>9, <1>11, <2>1, <3>1 DEF RecInv, Once
        <3> QED
            BY <2>1, <3>2
    <2> QED
        BY <2>2, <2>3
<1>12. ChunkGood'
    <2>1. \A c \in chunk' :
             /\ c.base \in group' \ left' /\ c.ip \in DOMAIN index'[c.base]
             /\ c.key = index'[c.base][c.ip].key /\ Live(c)
             /\ c.key \notin logged'[c.base] => index'[c.base][c.ip].flag = c.flag
             /\ c.key \notin Suspect' \cup logged'[c.base] =>
                   ValueAt(c.base, c.ip)' = c.val
        <3> SUFFICES ASSUME NEW c \in chunk'
                     PROVE
             /\ c.base \in group \ left' /\ c.ip \in DOMAIN index[c.base]
             /\ c.key = index[c.base][c.ip].key /\ Live(c)
             /\ c.key \notin logged[c.base] => index[c.base][c.ip].flag = c.flag
             /\ c.key \notin Suspect' \cup logged[c.base] => ValueAt(c.base, c.ip) = c.val
            BY <1>2, <1>5
        <3>1. CASE c \in chunk
            BY <1>1, <1>7, <3>1 DEF RecInv, ChunkGood
        <3>2. CASE \E i \in live : c = copy(i)
            <4>1. PICK i \in live : c = copy(i)
                BY <3>2
            <4> QED
                BY <1>1, <1>3, <1>9, <4>1
        <3> QED
            BY <1>8, <3>1, <3>2
    <2>2. \A c, d \in chunk' : c.key = d.key => c = d
        <3> SUFFICES ASSUME NEW c \in chunk', NEW d \in chunk', c.key = d.key
                     PROVE  c = d
            OBVIOUS
        <3>1. CASE c \in chunk /\ d \in chunk
            BY <3>1 DEF RecInv, ChunkGood
        <3>2. CASE c \in chunk /\ \E i \in live : d = copy(i)
            BY <1>11, <3>2
        <3>3. CASE d \in chunk /\ \E i \in live : c = copy(i)
            BY <1>11, <3>3
        <3>4. CASE (\E i \in live : d = copy(i)) /\ \E i \in live : c = copy(i)
            BY <1>10, <3>4
        <3> QED
            BY <1>8, <3>1, <3>2, <3>3, <3>4
    <2>3. ASSUME NEW c \in group' \ left', NEW i \in DOMAIN index'[c], Live(index'[c][i])
          PROVE  \E d \in chunk' : d.base = c /\ d.ip = i
        <3>1. CASE c = b
            <4>1. i \in live
                BY <1>5, <2>3, <3>1 DEF live
            <4> QED
                BY <1>8, <1>9, <3>1, <4>1
        <3>2. CASE c # b
            <4>1. \E d \in chunk : d.base = c /\ d.ip = i
                BY <1>1, <1>2, <1>5, <2>3, <3>2 DEF RecInv, ChunkGood
            <4> QED
                BY <1>8, <4>1
        <3> QED
            BY <3>1, <3>2
    <2>4. ASSUME NEW k \in Keys, op[k].pc = "payload", op[k].new.base \in group \ left'
          PROVE  k \in torn'
        BY <1>1, <1>2, <2>4 DEF RecInv, ChunkGood
    <2> QED
        BY <1>2, <2>1, <2>2, <2>3, <2>4 DEF ChunkGood
<1>13. \A j \in Keys : KeyInv(j)'
    BY <1>2, AllKeep
<1> QED
    BY <1>4, <1>6, <1>12, <1>13, RecInvParts DEF FilesInv

(* datasort_merge and datasort_binlog_apply: every copied record has its   *)
(* place in the merged base, alone of its key, so that the bsearch of a    *)
(* key in a binlog hits all there is of it.                                *)
LEMMA MergedOrder ==
    ASSUME IndInv, ChunkGood, NEW s \in Merged, NEW ks, NEW hit \in BsearchHits(s, ks)
    PROVE  /\ DOMAIN s = 1 .. Cardinality(chunk) /\ Cardinality(chunk) \in Nat
           /\ \A i \in DOMAIN s : s[i] \in chunk
           /\ \A c \in chunk : \E i \in DOMAIN s : s[i] = c
           /\ \A i, j \in DOMAIN s : s[i].key = s[j].key => i = j
           /\ \A i \in DOMAIN s : DatasortHit(s, hit, i) <=> s[i].key \in ks
<1> DEFINE n == Cardinality(chunk)
           D == 1 .. n
<1>1. n \in Nat /\ IsFiniteSet(chunk)
    BY FS_CardinalityType DEF IndInv, SortInv
<1>2. s \in [D -> chunk] /\ \A i, j \in D : i # j => s[i] # s[j]
    BY DEF Merged, SetToSeqs
<1>3. DOMAIN s = D /\ \A i \in D : s[i] \in chunk
    BY <1>2
<1>4. \A c \in chunk : \E i \in D : s[i] = c
    <2> HIDE DEF n
    <2>1. IsFiniteSet(D) /\ Cardinality(D) = n
        BY <1>1, FS_Interval
    <2> HIDE DEF D
    <2>2. s \in Injection(D, chunk)
        BY <1>2 DEF Injection, IsInjective
    <2>3. s \in Surjection(D, chunk)
        BY <1>1, <2>1, <2>2, FS_Injection DEF n
    <2> QED
        BY <2>3 DEF Surjection
<1>5. \A i, j \in D : s[i].key = s[j].key => i = j
    BY <1>2, <1>3 DEF ChunkGood
<1> HIDE DEF D
<1>6. ASSUME NEW i \in D
      PROVE  DatasortHit(s, hit, i) <=> s[i].key \in ks
    <2>1. DOMAIN hit = ks
        BY DEF BsearchHits
    <2>2. ASSUME s[i].key \in ks
          PROVE  i = hit[s[i].key]
        <3> DEFINE h == hit[s[i].key]
        <3>1. h \in DOMAIN s \cup {0} /\ h # 0 /\ s[h].key = s[i].key
            BY <1>3, <2>2 DEF BsearchHits
        <3>2. h \in D
            BY <1>3, <3>1
        <3> HIDE DEF h
        <3>3. i = h
            BY <1>5, <3>1, <3>2
        <3> QED
            BY <3>3 DEF h
    <2> QED
        BY <2>1, <2>2 DEF DatasortHit
<1> QED
    BY <1>1, <1>3, <1>4, <1>5, <1>6 DEF D, n

(* The group is replaced by one new base with its live records, at the     *)
(* place of its first; the other bases stay as they were.                  *)
Replaced(nb) ==
    /\ nb = born + 1 /\ nb \in Bases /\ born' = nb
    /\ bases' = (bases \ group) \cup {nb} /\ sorted' = (sorted \ group) \cup {nb}
    /\ \A c \in Bases \ {nb} :
          /\ index'[c] = (IF c \in group THEN <<>> ELSE index[c])
          /\ data'[c] = (IF c \in group THEN <<>> ELSE data[c])
          /\ gone'[c] = (IF c \in group THEN 0 ELSE gone[c])
          /\ place'[c] = (IF c \in group THEN 0 ELSE place[c])
    /\ \E b \in group : place'[nb] = place[b]
    /\ logging' = logging \ group
    /\ \A c \in Bases \ group : logged'[c] = logged[c]
    /\ cache' = Flushed(index'[nb]) /\ op' = GenerationBumped
    /\ job' = "none" /\ group' = {} /\ left' = {} /\ chunk' = {}
    /\ UNCHANGED promise

(* What the new base has: each key once, live if it was live in the group. *)
Gathered(nb) ==
    /\ \A i \in DOMAIN index'[nb] :
          /\ index'[nb][i].pos = i /\ index'[nb][i].key \in Keys
          /\ data'[nb][i].key = index'[nb][i].key
          /\ data'[nb][i].flag = index'[nb][i].flag
    /\ \A i, j \in DOMAIN index'[nb] : index'[nb][i].key = index'[nb][j].key => i = j
    /\ gone'[nb] = CountRemoved(index'[nb])
    /\ \A k \in Keys : \A b \in group : \A j \in DOMAIN index[b] : LiveEntry(k, b, j) =>
          \E i \in DOMAIN index'[nb] :
             /\ index'[nb][i].key = k /\ index'[nb][i].flag = index[b][j].flag
             /\ k \notin Suspect => data'[nb][i].val = ValueAt(b, j)
    /\ \A i \in DOMAIN index'[nb] : Live(index'[nb][i]) =>
          \E b \in group : \E j \in DOMAIN index[b] :
             /\ LiveEntry(index'[nb][i].key, b, j)
             /\ index'[nb][i].flag = index[b][j].flag
             /\ index'[nb][i].key \notin Suspect => data'[nb][i].val = ValueAt(b, j)

(* datasort_swap_memory: the copies have outlived nothing that is still    *)
(* there, and what was removed meanwhile is in a binlog of the group.      *)
LEMMA DatasortSwapGathers ==
    ASSUME IndInv, RecInv, DatasortSwap
    PROVE  Replaced(born + 1) /\ Gathered(born + 1)
<1> DEFINE flag(s, hit, i) == IF DatasortHit(s, hit, i) THEN "removed" ELSE s[i].flag
           idx(s, hit) == [i \in DOMAIN s |->
                             [key |-> s[i].key, flag |-> flag(s, hit, i), pos |-> i]]
           dat(s, hit) == [i \in DOMAIN s |->
                             [key |-> s[i].key, flag |-> flag(s, hit, i), val |-> s[i].val]]
           nb == born + 1
           ks == UNION {logged[b] : b \in group}
           swapped(s, hit) ==
             /\ index' = [Closed(index, group, <<>>) EXCEPT ![nb] = idx(s, hit)]
             /\ data' = [Closed(data, group, <<>>) EXCEPT ![nb] = dat(s, hit)]
             /\ gone' = [Closed(gone, group, 0) EXCEPT ![nb] = CountRemoved(idx(s, hit))]
             /\ cache' = Flushed(idx(s, hit))
<1>1. PICK s \in Merged : \E hit \in BsearchHits(s, ks) : swapped(s, hit)
    BY DEF DatasortSwap
<1>2. PICK hit \in BsearchHits(s, ks) : swapped(s, hit)
    BY <1>1
<1>3. PICK b0 \in group : place' = [Closed(place, group, 0) EXCEPT ![nb] = place[b0]]
    BY DEF DatasortSwap
<1>4. /\ job = "datasort" /\ left = {}
      /\ born < MaxBases /\ born' = nb /\ bases' = (bases \ group) \cup {nb}
      /\ sorted' = (sorted \ group) \cup {nb} /\ op' = GenerationBumped
      /\ StopBinlog(group) /\ NoJob /\ UNCHANGED promise
    BY DEF DatasortSwap
<1>5. /\ DOMAIN s = 1 .. Cardinality(chunk) /\ Cardinality(chunk) \in Nat
      /\ \A i \in DOMAIN s : s[i] \in chunk
      /\ \A c \in chunk : \E i \in DOMAIN s : s[i] = c
      /\ \A i, j \in DOMAIN s : s[i].key = s[j].key => i = j
      /\ \A i \in DOMAIN s : DatasortHit(s, hit, i) <=> s[i].key \in ks
    <2>1. ChunkGood
        BY DEF RecInv
    <2> HIDE DEF ks
    <2>2. hit \in BsearchHits(s, ks)
        OBVIOUS
    <2> QED
        BY <2>1, <2>2, MergedOrder
<1>6. /\ DOMAIN idx(s, hit) = DOMAIN s /\ DOMAIN dat(s, hit) = DOMAIN s
      /\ \A i \in DOMAIN s :
            /\ idx(s, hit)[i].key = s[i].key /\ idx(s, hit)[i].pos = i
            /\ idx(s, hit)[i].flag = (IF s[i].key \in ks THEN "removed" ELSE s[i].flag)
            /\ dat(s, hit)[i].key = s[i].key /\ dat(s, hit)[i].val = s[i].val
            /\ dat(s, hit)[i].flag = idx(s, hit)[i].flag
    BY <1>5
<1> HIDE DEF idx, dat, flag
<1>7. nb \in Bases /\ group \subseteq bases /\ bases \subseteq Bases
    BY <1>4, BoundsAssumption DEF IndInv, DiskInv, Bases, SortInv, SortsOldBases, NotLast
<1> HIDE DEF nb
<1>8. /\ index'[nb] = idx(s, hit) /\ data'[nb] = dat(s, hit)
      /\ gone'[nb] = CountRemoved(idx(s, hit)) /\ place'[nb] = place[b0]
      /\ cache' = Flushed(idx(s, hit))
      /\ \A c \in Bases \ {nb} :
            /\ index'[c] = (IF c \in group THEN <<>> ELSE index[c])
            /\ data'[c] = (IF c \in group THEN <<>> ELSE data[c])
            /\ gone'[c] = (IF c \in group THEN 0 ELSE gone[c])
            /\ place'[c] = (IF c \in group THEN 0 ELSE place[c])
    BY <1>2, <1>3, <1>7 DEF Closed
<1>9. Replaced(nb)
    <2>1. /\ logging' = logging \ group
          /\ \A c \in Bases \ group : logged'[c] = logged[c]
          /\ job' = "none" /\ group' = {} /\ left' = {} /\ chunk' = {}
        BY <1>4 DEF StopBinlog, NoJob
    <2>2. nb = born + 1
        BY DEF nb
    <2>3. cache' = Flushed(index'[nb]) /\ place'[nb] = place[b0]
        BY <1>8
    <2> QED
        BY <1>4, <1>7, <1>8, <2>1, <2>2, <2>3 DEF Replaced
<1>10. \A c \in chunk :
          /\ c.base \in group /\ c.ip \in DOMAIN index[c.base] /\ c.key \in Keys
          /\ c.key = index[c.base][c.ip].key /\ Live(c)
          /\ c.key \notin ks => index[c.base][c.ip].flag = c.flag
          /\ c.key \notin Suspect \cup ks => ValueAt(c.base, c.ip) = c.val
    BY <1>4 DEF RecInv, ChunkGood, IndInv, SortInv, Chunk
<1>11. ASSUME NEW k \in Keys, NEW b \in group, NEW j \in DOMAIN index[b], LiveEntry(k, b, j)
       PROVE  k \notin ks
    <2>1. \A c \in group : k \notin logged[c]
        BY <1>11 DEF RecInv, LoggedGone
    <2> QED
        BY <2>1
<1> HIDE DEF ks
<1>12. ASSUME NEW k \in Keys, NEW b \in group, NEW j \in DOMAIN index[b], LiveEntry(k, b, j)
       PROVE  \E i \in DOMAIN index'[nb] :
                 /\ index'[nb][i].key = k /\ index'[nb][i].flag = index[b][j].flag
                 /\ k \notin Suspect => data'[nb][i].val = ValueAt(b, j)
    <2>1. index[b][j].key = k /\ Live(index[b][j])
        BY <1>12 DEF LiveEntry
    <2>2. PICK c \in chunk : c.base = b /\ c.ip = j
        BY <1>4, <2>1 DEF RecInv, ChunkGood
    <2>3. PICK i \in DOMAIN s : s[i] = c
        BY <1>5
    <2>4. c.key = k /\ k \notin ks
        BY <1>10, <1>11, <1>12, <2>1, <2>2
    <2>5. index'[nb][i].key = k /\ index'[nb][i].flag = c.flag /\ data'[nb][i].val = c.val
        BY <1>6, <1>8, <2>3, <2>4
    <2>6. index[b][j].flag = c.flag /\ (k \notin Suspect => ValueAt(b, j) = c.val)
        BY <1>10, <2>2, <2>4
    <2>7. i \in DOMAIN index'[nb]
        BY <1>6, <1>8
    <2> QED
        BY <2>5, <2>6, <2>7
<1>13. ASSUME NEW i \in DOMAIN index'[nb], Live(index'[nb][i])
       PROVE  \E b \in group : \E j \in DOMAIN index[b] :
                 /\ LiveEntry(index'[nb][i].key, b, j)
                 /\ index'[nb][i].flag = index[b][j].flag
                 /\ index'[nb][i].key \notin Suspect => data'[nb][i].val = ValueAt(b, j)
    <2> DEFINE c == s[i]
    <2>1. i \in DOMAIN s /\ c \in chunk
        BY <1>5, <1>6, <1>8
    <2>2. /\ index'[nb][i].key = c.key /\ data'[nb][i].val = c.val
          /\ index'[nb][i].flag = (IF c.key \in ks THEN "removed" ELSE c.flag)
        BY <1>6, <1>8, <2>1
    <2> HIDE DEF c
    <2>3. c.key \notin ks /\ index'[nb][i].flag = c.flag
        BY <1>13, <2>2 DEF Live
    <2>4. /\ c.base \in group /\ c.ip \in DOMAIN index[c.base]
          /\ c.key = index[c.base][c.ip].key /\ index[c.base][c.ip].flag = c.flag
          /\ c.key \notin Suspect => ValueAt(c.base, c.ip) = c.val
        BY <1>10, <2>1, <2>3
    <2>5. LiveEntry(c.key, c.base, c.ip)
        BY <1>7, <1>13, <2>3, <2>4 DEF LiveEntry, Live
    <2> QED
        BY <2>2, <2>3, <2>4, <2>5
<1>14. /\ \A i \in DOMAIN index'[nb] :
             /\ index'[nb][i].pos = i /\ index'[nb][i].key \in Keys
             /\ data'[nb][i].key = index'[nb][i].key
             /\ data'[nb][i].flag = index'[nb][i].flag
       /\ \A i, j \in DOMAIN index'[nb] : index'[nb][i].key = index'[nb][j].key => i = j
       /\ gone'[nb] = CountRemoved(index'[nb])
    BY <1>5, <1>6, <1>8, <1>10
<1>15. Gathered(nb)
    BY <1>12, <1>13, <1>14 DEF Gathered
<1> QED
    BY <1>9, <1>15 DEF nb

(* Where the live records of a key are after the merge.                    *)
LEMMA ReplacedLive ==
    ASSUME IndInv, NEW nb, Replaced(nb), Gathered(nb), NEW k \in Keys
    PROVE  /\ \A b \in bases' : \A i \in DOMAIN index'[b] : LiveEntry(k, b, i)' =>
                 \/ /\ b \in bases \ group /\ i \in DOMAIN index[b] /\ LiveEntry(k, b, i)
                    /\ index'[b] = index[b] /\ ValueAt(b, i)' = ValueAt(b, i)
                 \/ /\ b = nb
                    /\ \E c \in group : \E j \in DOMAIN index[c] :
                          /\ LiveEntry(k, c, j) /\ index'[nb][i].flag = index[c][j].flag
                          /\ k \notin Suspect => ValueAt(nb, i)' = ValueAt(c, j)
           /\ \A b \in bases \ group : \A j \in DOMAIN index[b] : LiveEntry(k, b, j) =>
                 b \in bases' /\ j \in DOMAIN index'[b] /\ LiveEntry(k, b, j)'
           /\ \A b \in group : \A j \in DOMAIN index[b] : LiveEntry(k, b, j) =>
                 \E i \in DOMAIN index'[nb] : LiveEntry(k, nb, i)'
           /\ NoRecord(k)' <=> NoRecord(k)
<1>1. /\ nb \notin bases /\ nb \in bases' /\ bases \subseteq Bases /\ group \subseteq bases
      /\ \A b \in bases \ group : /\ b \in bases' /\ index'[b] = index[b]
                                  /\ data'[b] = data[b]
      /\ \A b \in bases' : b = nb \/ b \in bases \ group
    <2>1. born \in Nat /\ bases \subseteq 1 .. born /\ bases \subseteq Bases
        BY BoundsAssumption DEF IndInv, DiskInv
    <2>2. nb \notin bases
        BY <2>1 DEF Replaced
    <2>3. group \subseteq bases
        BY DEF IndInv, SortInv, SortsOldBases, NotLast
    <2> QED
        BY <2>1, <2>2, <2>3 DEF Replaced
<1>2. ASSUME NEW b \in bases', NEW i \in DOMAIN index'[b], LiveEntry(k, b, i)'
      PROVE  \/ /\ b \in bases \ group /\ i \in DOMAIN index[b] /\ LiveEntry(k, b, i)
                /\ index'[b] = index[b] /\ ValueAt(b, i)' = ValueAt(b, i)
             \/ /\ b = nb
                /\ \E c \in group : \E j \in DOMAIN index[c] :
                      /\ LiveEntry(k, c, j) /\ index'[nb][i].flag = index[c][j].flag
                      /\ k \notin Suspect => ValueAt(nb, i)' = ValueAt(c, j)
    <2>1. CASE b = nb
        <3>1. index'[nb][i].key = k /\ Live(index'[nb][i]) /\ index'[nb][i].pos = i
            BY <1>2, <2>1 DEF LiveEntry, Gathered
        <3>2. PICK c \in group : \E j \in DOMAIN index[c] :
                 /\ LiveEntry(k, c, j) /\ index'[nb][i].flag = index[c][j].flag
                 /\ k \notin Suspect => data'[nb][i].val = ValueAt(c, j)
            BY <2>1, <3>1 DEF Gathered
        <3>3. ValueAt(nb, i)' = data'[nb][i].val
            BY <3>1 DEF ValueAt
        <3> QED
            BY <2>1, <3>2, <3>3
    <2>2. CASE b # nb
        BY <1>1, <1>2, <2>2 DEF LiveEntry, ValueAt
    <2> QED
        BY <2>1, <2>2
<1>3. ASSUME NEW b \in bases \ group, NEW j \in DOMAIN index[b], LiveEntry(k, b, j)
      PROVE  b \in bases' /\ j \in DOMAIN index'[b] /\ LiveEntry(k, b, j)'
    BY <1>1, <1>3 DEF LiveEntry
<1>4. ASSUME NEW b \in group, NEW j \in DOMAIN index[b], LiveEntry(k, b, j)
      PROVE  \E i \in DOMAIN index'[nb] : LiveEntry(k, nb, i)'
    <2>1. PICK i \in DOMAIN index'[nb] :
             index'[nb][i].key = k /\ index'[nb][i].flag = index[b][j].flag
        BY <1>4 DEF Gathered
    <2>2. index[b][j].flag # "removed"
        BY <1>4 DEF LiveEntry, Live
    <2> QED
        BY <1>1, <2>1, <2>2 DEF LiveEntry, Live
<1>5. NoRecord(k)' <=> NoRecord(k)
    <2>1. ASSUME NoRecord(k), NEW b \in bases', NEW i \in DOMAIN index'[b], LiveEntry(k, b, i)'
          PROVE  FALSE
        BY <1>1, <1>2, <2>1 DEF NoRecord
    <2>2. ASSUME NoRecord(k)', NEW b \in bases, NEW j \in DOMAIN index[b], LiveEntry(k, b, j)
          PROVE  FALSE
        BY <1>1, <1>3, <1>4, <2>2 DEF NoRecord
    <2> QED
        BY <2>1, <2>2 DEF NoRecord
<1> QED
    BY <1>2, <1>3, <1>4, <1>5

(* The claims about the files.                                             *)
LEMMA ReplacedFiles ==
    ASSUME IndInv, FilesInv, NEW nb, Replaced(nb), Gathered(nb)
    PROVE  FilesInv'
<1>1. /\ born \in Nat /\ bases \subseteq 1 .. born /\ bases \subseteq Bases
      /\ nb = born + 1 /\ nb \notin bases /\ nb \notin 1 .. born /\ group \subseteq bases
      /\ group \subseteq NotLast
    <2>1. born \in Nat /\ bases \subseteq 1 .. born /\ bases \subseteq Bases
        BY BoundsAssumption DEF IndInv, DiskInv
    <2>2. nb = born + 1 /\ nb \notin 1 .. born /\ nb \notin bases
        BY <2>1 DEF Replaced
    <2> QED
        BY <2>1, <2>2 DEF IndInv, SortInv, SortsOldBases, NotLast
<1>2. /\ bases' = (bases \ group) \cup {nb} /\ nb \in bases'
      /\ \A b \in bases \ group : /\ b \in bases' /\ index'[b] = index[b]
                                  /\ data'[b] = data[b] /\ gone'[b] = gone[b]
                                  /\ place'[b] = place[b]
    BY <1>1 DEF Replaced
<1>3. Layout'
    <2>1. PICK b0 \in group : place'[nb] = place[b0]
        BY DEF Replaced
    <2>2. PICK c \in bases : \A b \in bases : place[b] <= place[c]
        BY <1>1, <2>1 DEF FilesInv, Layout
    <2>3. \A b \in bases : place[b] \in Nat
        BY DEF IndInv, DiskInv
    <2>4. c \in bases \ group /\ c \in bases'
        <3>1. c \notin NotLast
            BY <2>2, <2>3 DEF NotLast
        <3> QED
            BY <1>1, <1>2, <3>1
    <2>5. \E d \in bases' : \A b \in bases' : place'[b] <= place'[d]
        BY <1>1, <1>2, <2>1, <2>2, <2>4
    <2>6. ASSUME NEW b \in Bases \ bases'
          PROVE  index'[b] = <<>> /\ data'[b] = <<>> /\ gone'[b] = 0
        <3>1. b # nb
            BY <1>2
        <3>2. b \in group \/ (b \notin group /\ b \notin bases)
            BY <1>2
        <3> QED
            BY <3>1, <3>2 DEF Replaced, FilesInv, Layout
    <2>7. logging' \subseteq 1 .. born' /\ sorted' \subseteq bases' /\ group' \subseteq logging'
        <3>1. logging' \subseteq 1 .. born /\ born' = born + 1
            BY DEF Replaced, FilesInv, Layout
        <3>2. 1 .. born \subseteq 1 .. born'
            BY <1>1, <3>1
        <3>3. sorted' \subseteq bases' /\ group' \subseteq logging'
            BY <1>2 DEF Replaced, FilesInv, Layout
        <3> QED
            BY <3>1, <3>2, <3>3
    <2>8. \A b \in bases' : place'[b] \in 1 .. born'
        <3>1. \A b \in bases : place[b] \in 1 .. born
            BY DEF FilesInv, Layout
        <3>2. \A b \in bases' : place'[b] \in 1 .. born
            BY <1>1, <1>2, <2>1, <3>1
        <3>3. 1 .. born \subseteq 1 .. born'
            BY <1>1 DEF Replaced
        <3> QED
            BY <3>2, <3>3
    <2>9. \A b, d \in bases' : place'[b] = place'[d] => b = d
        <3>1. \A b, d \in bases : place[b] = place[d] => b = d
            BY DEF FilesInv, Layout
        <3> QED
            BY <1>1, <1>2, <2>1, <3>1
    <2>10. logging' \cap bases' \subseteq NotLast'
        <3> SUFFICES ASSUME NEW b \in logging', b \in bases'
                     PROVE  b \in NotLast'
            OBVIOUS
        <3>1. b \in logging /\ b \in 1 .. born
            BY DEF Replaced, FilesInv, Layout
        <3>2. b \in bases \ group
            BY <1>1, <1>2, <3>1
        <3>3. b \in NotLast
            BY <3>1, <3>2 DEF FilesInv, Layout
        <3>4. PICK d \in bases : place[b] < place[d]
            BY <3>3 DEF NotLast
        <3>5. place[b] < place[c]
            <4>1. place[d] <= place[c]
                BY <2>2
            <4>2. place[b] \in Nat /\ place[c] \in Nat /\ place[d] \in Nat
                BY <2>3, <3>2
            <4> QED
                BY <3>4, <4>1, <4>2
        <3> QED
            BY <1>2, <2>4, <3>2, <3>5 DEF NotLast
    <2> QED
        BY <2>5, <2>6, <2>7, <2>8, <2>9, <2>10 DEF Layout
<1>4. FilesAgree'
    <2> SUFFICES ASSUME NEW b \in bases'
                 PROVE  /\ \A i, j \in DOMAIN index'[b] :
                              index'[b][i].pos = index'[b][j].pos => i = j
                        /\ \A i \in DOMAIN index'[b] :
                              /\ data'[b][index'[b][i].pos].key = index'[b][i].key
                              /\ Live(data'[b][index'[b][i].pos]) <=> Live(index'[b][i])
        BY DEF FilesAgree
    <2>1. CASE b = nb
        BY <2>1 DEF Gathered, Live
    <2>2. CASE b # nb
        BY <1>2, <2>2 DEF FilesInv, FilesAgree
    <2> QED
        BY <2>1, <2>2
<1>5. Once'
    <2> SUFFICES ASSUME NEW k \in Keys, NEW b \in bases', NEW c \in bases',
                        NEW i \in DOMAIN index'[b], NEW j \in DOMAIN index'[c],
                        LiveEntry(k, b, i)', LiveEntry(k, c, j)'
                 PROVE  b = c /\ i = j
        BY DEF Once
    <2>1. CASE b # nb /\ c # nb
        <3>1. /\ b \in bases /\ i \in DOMAIN index[b] /\ LiveEntry(k, b, i)
              /\ c \in bases /\ j \in DOMAIN index[c] /\ LiveEntry(k, c, j)
            BY <2>1, ReplacedLive
        <3> QED
            BY <3>1 DEF FilesInv, Once
    <2>2. CASE b = nb /\ c = nb
        BY <2>2 DEF LiveEntry, Gathered
    <2>3. ASSUME NEW d \in bases', NEW m \in DOMAIN index'[d], LiveEntry(k, d, m)', d # nb,
                 NEW n \in DOMAIN index'[nb], LiveEntry(k, nb, n)'
          PROVE  FALSE
        <3>1. d \in bases \ group /\ m \in DOMAIN index[d] /\ LiveEntry(k, d, m)
            BY <2>3, ReplacedLive
        <3>2. PICK e \in group : \E q \in DOMAIN index[e] : LiveEntry(k, e, q)
            BY <1>1, <1>2, <2>3, ReplacedLive
        <3> QED
            BY <1>1, <3>1, <3>2 DEF FilesInv, Once
    <2> QED
        BY <2>1, <2>2, <2>3
<1>6. Exact'
    <2> SUFFICES ASSUME NEW b \in bases' PROVE gone'[b] = CountRemoved(index'[b])
        BY DEF Exact, CountRemoved
    <2>1. CASE b = nb
        BY <2>1 DEF Gathered
    <2>2. CASE b # nb
        BY <1>2, <2>2 DEF FilesInv, Exact
    <2> QED
        BY <2>1, <2>2
<1>7. LoggedGone'
    <2>1. ASSUME NEW b \in (logging \cap bases)', NEW k \in logged'[b],
                 NEW i \in DOMAIN index'[b], LiveEntry(k, b, i)'
          PROVE  FALSE
        <3>1. b \in logging /\ b \in 1 .. born
            BY DEF Replaced, FilesInv, Layout
        <3>2. b \in bases \ group
            BY <1>1, <1>2, <3>1
        <3>3. k \in logged[b]
            BY <1>1, <3>2 DEF Replaced
        <3>4. i \in DOMAIN index[b] /\ LiveEntry(k, b, i)
            BY <1>2, <2>1, <3>2 DEF LiveEntry
        <3> QED
            BY <3>1, <3>2, <3>3, <3>4 DEF FilesInv, LoggedGone
    <2> QED
        BY <2>1 DEF LoggedGone, Replaced
<1>8. SnapGood' /\ ChunkGood'
    BY DEF Replaced, SnapGood, ChunkGood
<1> QED
    BY <1>3, <1>4, <1>5, <1>6, <1>7, <1>8 DEF FilesInv

(* Datasort: the records move, and whoever had looked one up before looks  *)
(* again or finds its base closed.                                         *)
LEMMA DatasortSwapRec ==
    ASSUME IndInv, RecInv, DatasortSwap
    PROVE  RecInv'
<1>1. PICK nb : nb = born + 1 /\ Replaced(nb) /\ Gathered(nb) /\ FilesInv
    BY DatasortSwapGathers, RecInvParts
<1>2. FilesInv'
    BY <1>1, ReplacedFiles
<1>3. /\ born \in Nat /\ bases \subseteq 1 .. born /\ bases \subseteq Bases
      /\ nb \notin 1 .. born /\ nb \notin bases /\ group \subseteq bases
    BY <1>1, BoundsAssumption DEF IndInv, DiskInv, SortInv, SortsOldBases, NotLast
<1>4. /\ bases' = (bases \ group) \cup {nb} /\ sorted' = (sorted \ group) \cup {nb}
      /\ cache' = Flushed(index'[nb]) /\ op' = GenerationBumped /\ UNCHANGED promise
      /\ \A b \in bases \ group : /\ b \in bases' /\ index'[b] = index[b]
                                  /\ data'[b] = data[b]
    BY <1>1, <1>3 DEF Replaced
<1>5. ASSUME NEW k \in Keys PROVE KeyInv(k)'
    <2>1. KeyInv(k) /\ Abandoned' = Abandoned /\ Suspect' = Suspect
        BY <1>4, RecInvParts DEF promise, Abandoned, Suspect
    <2>2. /\ op'[k].pc = op[k].pc /\ op'[k].kind = op[k].kind /\ op'[k].val = op[k].val
          /\ op'[k].copy = op[k].copy /\ op'[k].new = op[k].new /\ op'[k].old = op[k].old
          /\ op'[k].moved = (op[k].pc = "prep")
          /\ op[k] = Idle => op'[k] = Idle
        BY <1>4, BumpedOp
    <2>3. Writing(k)' <=> Writing(k)
        BY <2>2 DEF Writing
    <2> DEFINE InGroup == \E b \in group : \E j \in DOMAIN index[b] : LiveEntry(k, b, j)
    <2>4. InGroup <=> \E i \in DOMAIN index'[nb] : LiveEntry(k, nb, i)'
        <3>1. ASSUME InGroup PROVE \E i \in DOMAIN index'[nb] : LiveEntry(k, nb, i)'
            BY <1>1, <3>1, ReplacedLive
        <3>2. ASSUME NEW i \in DOMAIN index'[nb], LiveEntry(k, nb, i)' PROVE InGroup
            BY <1>1, <1>3, <1>4, <3>2, ReplacedLive
        <3> QED
            BY <3>1, <3>2
    <2> HIDE DEF InGroup
    <2>5. cache'[k] = IF InGroup THEN NoLoc ELSE cache[k]
        <3>1. \A i \in DOMAIN index'[nb] :
                 LiveEntry(k, nb, i)' <=> index'[nb][i].key = k /\ Live(index'[nb][i])
            BY <1>4 DEF LiveEntry
        <3> QED
            BY <1>4, <2>4, <3>1 DEF Flushed
    <2>6. \A c \in bases' \ sorted' : /\ c \in bases \ group /\ c \notin sorted
                                      /\ index'[c] = index[c]
                                      /\ \A i : LiveEntry(k, c, i)' <=> LiveEntry(k, c, i)
        BY <1>3, <1>4 DEF LiveEntry
    <2>7. ASSUME NEW c \in bases \ group, NEW i \in DOMAIN index[c], LiveEntry(k, c, i)
          PROVE  ~InGroup
        BY <1>1, <1>3, <2>7 DEF InGroup, FilesInv, Once
    <2>8. ASSUME NEW l, LiveAt(k, l), l.base \notin group
          PROVE  LiveNext(k, l) /\ index'[l.base] = index[l.base]
        BY <1>4, <2>8 DEF LiveAt, LiveNext
    <2>9. ASSUME NEW l, LiveAt(k, l), l.base \in group
          PROVE  InGroup
        BY <2>9, LiveAtEntry DEF InGroup
    <2>10. \A l \in Loc : Within(l) => (l.base \in bases' <=> l.base \in bases \ group)
        <3> SUFFICES ASSUME NEW l \in Loc, Within(l)
                     PROVE  l.base # nb
            BY <1>4
        <3>1. l.base \in 1 .. born
            BY <1>3 DEF Within, Loc, Bases
        <3> QED
            BY <1>3, <3>1
    <2>11. ASSUME CacheGood(k) PROVE CacheGood(k)'
        <3>1. ASSUME cache'[k] # NoLoc PROVE LiveNext(k, cache'[k])
            <4>1. cache'[k] = cache[k] /\ ~InGroup
                BY <2>5, <3>1
            <4>2. LiveAt(k, cache[k])
                BY <2>11, <3>1, <4>1 DEF CacheGood
            <4> QED
                BY <2>8, <2>9, <4>1, <4>2
        <3>2. ASSUME NEW c \in bases' \ sorted', NEW i \in DOMAIN index'[c],
                     LiveEntry(k, c, i)'
              PROVE  cache'[k] = [base |-> c, ip |-> i, dp |-> index'[c][i].pos]
            <4>1. /\ c \in bases \ group /\ c \notin sorted /\ index'[c] = index[c]
                  /\ i \in DOMAIN index[c] /\ LiveEntry(k, c, i)
                BY <2>6, <3>2
            <4>2. ~InGroup
                BY <2>7, <4>1
            <4>3. cache[k] = [base |-> c, ip |-> i, dp |-> index[c][i].pos]
                BY <2>11, <4>1 DEF CacheGood
            <4> QED
                BY <2>5, <4>1, <4>2, <4>3
        <3> QED
            BY <3>1, <3>2 DEF CacheGood, LiveAt, LiveNext
    <2>12. ASSUME HeldGood(k) PROVE HeldGood(k)'
        <3>1. ASSUME op[k].pc = "remove", op[k].old.base \in bases'
              PROVE  LiveNext(k, op[k].old)
            <4>1. op[k].old \in Loc /\ Within(op[k].old)
                BY <3>1 DEF IndInv, HeldInv, Holds, Op
            <4>2. op[k].old.base \in bases \ group
                BY <2>10, <3>1, <4>1
            <4>3. LiveAt(k, op[k].old)
                BY <2>12, <3>1, <4>2 DEF HeldGood
            <4> QED
                BY <2>8, <4>2, <4>3
        <3>2. ASSUME Writing(k) PROVE op[k].new \in Loc /\ Within(op[k].new)
            BY <3>2, NewLocHeld DEF Writing
        <3>3. ASSUME Writing(k), op[k].new.base \in bases'
              PROVE  /\ LiveNext(k, op[k].new)
                     /\ op[k].pc # "ram" =>
                           index'[op[k].new.base][op[k].new.ip].flag = "committed"
            <4>1. op[k].new.base \in bases \ group
                BY <2>10, <3>2, <3>3
            <4>2. /\ LiveAt(k, op[k].new)
                  /\ op[k].pc # "ram" =>
                        index[op[k].new.base][op[k].new.ip].flag = "committed"
                BY <2>12, <3>3, <4>1 DEF HeldGood
            <4> QED
                BY <2>8, <4>1, <4>2
        <3>4. ASSUME Writing(k), op[k].new.base \notin bases'
              PROVE  /\ cache'[k] = NoLoc
                     /\ \A c \in bases' \ sorted' : \A i \in DOMAIN index'[c] :
                           ~LiveEntry(k, c, i)'
            <4>1. CASE op[k].new.base \in bases
                <5>1. op[k].new.base \in group
                    BY <2>10, <3>2, <3>4, <4>1
                <5>2. LiveAt(k, op[k].new)
                    BY <2>12, <3>4, <4>1 DEF HeldGood
                <5>3. InGroup
                    BY <2>9, <5>1, <5>2
                <5> QED
                    BY <2>5, <2>6, <2>7, <5>3
            <4>2. CASE op[k].new.base \notin bases
                BY <2>5, <2>6, <2>12, <3>4, <4>2 DEF HeldGood
            <4> QED
                BY <4>1, <4>2
        <3>5. ~Writing(k) => CacheGood(k)'
            BY <2>11, <2>12 DEF HeldGood
        <3> QED
            BY <2>2, <2>3, <3>1, <3>3, <3>4, <3>5 DEF HeldGood, LiveAt, LiveNext
    <2>13. ASSUME ValueGood(k), k \notin Suspect, HeldGood(k) PROVE ValueGood(k)'
        <3>1. Former(k)' = Former(k) /\ status' = status /\ shadow' = shadow
              /\ Expected(k, op[k].kind, op[k].val)' = Expected(k, op[k].kind, op[k].val)
            BY <1>4, <2>2 DEF promise, Former, Expected
        <3>2. NoRecord(k)' <=> NoRecord(k)
            BY <1>1, ReplacedLive
        <3>3. ASSUME ~Writing(k), NEW b \in bases', NEW i \in DOMAIN index'[b],
                     LiveEntry(k, b, i)'
              PROVE  /\ ValueAt(b, i)' = shadow[k]
                     /\ status[k] # "hidden" => index'[b][i].flag = "committed"
            <4>1. CASE b # nb
                <5>1. /\ b \in bases /\ i \in DOMAIN index[b] /\ LiveEntry(k, b, i)
                      /\ index'[b] = index[b] /\ ValueAt(b, i)' = ValueAt(b, i)
                    BY <1>1, <3>3, <4>1, ReplacedLive
                <5> QED
                    BY <2>13, <3>3, <5>1 DEF ValueGood
            <4>2. CASE b = nb
                <5>1. PICK c \in group : \E j \in DOMAIN index[c] :
                         /\ LiveEntry(k, c, j) /\ index'[nb][i].flag = index[c][j].flag
                         /\ ValueAt(nb, i)' = ValueAt(c, j)
                    BY <1>1, <1>3, <2>13, <3>3, <4>2, ReplacedLive
                <5> QED
                    BY <1>3, <2>13, <3>3, <4>2, <5>1 DEF ValueGood
            <4> QED
                BY <4>1, <4>2
        <3>4. Writing(k) /\ op[k].new.base \in bases' =>
                 op[k].new.base \in bases /\ NewValue(k)' = NewValue(k)
            <4> SUFFICES ASSUME Writing(k), op[k].new.base \in bases'
                         PROVE  op[k].new.base \in bases /\ NewValue(k)' = NewValue(k)
                OBVIOUS
            <4>1. op[k].new.base \in bases \ group
                BY <2>10, NewLocHeld DEF Writing
            <4> QED
                BY <1>4, <2>2, <4>1 DEF NewValue
        <3> QED
            BY <2>2, <2>3, <2>13, <3>1, <3>2, <3>3, <3>4 DEF ValueGood
    <2>14. k \notin Suspect => k \notin Abandoned
        BY DEF Suspect, Abandoned
    <2> QED
        BY <2>1, <2>2, <2>12, <2>13, <2>14 DEF KeyInv
<1> QED
    BY <1>2, <1>5, RecInvParts

-----------------------------------------------------------------------------
(* Starting again. *)

(* eblob_init: indexes are sorted and empty bases dropped.                 *)
LEMMA RestartKept ==
    ASSUME IndInv, RecInv, Restart
    PROVE  Kept
<1> DEFINE unsorted == SortedOnLoad
           empty == EmptyOnLoad
<1>1. PICK idx \in [unsorted -> UNION {IndexSorted(index[b]) : b \in unsorted}] :
         /\ \A b \in unsorted : idx[b] \in IndexSorted(index[b])
         /\ index' = [b \in Bases |-> IF b \in empty THEN <<>>
                                      ELSE IF b \in unsorted THEN idx[b]
                                      ELSE index[b]]
    BY DEF Restart
<1>2. /\ job = "none" /\ data' = Closed(data, empty, <<>>)
      /\ place' = Closed(place, empty, 0)
      /\ gone' = [b \in Bases |-> CountRemoved(index'[b])]
      /\ bases' = bases \ empty /\ sorted' = (sorted \cup unsorted) \ empty
      /\ StopBinlog(Bases) /\ born' = born /\ UNCHANGED defrag
    BY DEF Restart
<1>3. unsorted \subseteq bases /\ bases \subseteq Bases /\ empty \subseteq NotLast
    BY DEF SortedOnLoad, EmptyOnLoad, IndInv, DiskInv
<1>4. \A b \in empty : b \in NotLast /\ \A i \in DOMAIN index[b] : ~Live(index[b][i])
    BY DEF EmptyOnLoad
<1> HIDE DEF unsorted, empty
<1>5. ASSUME NEW b \in bases'
      PROVE  /\ place'[b] = place[b] /\ SameBut(index'[b], index[b], {})
             /\ \A p \in DOMAIN data[b] : data'[b][p] = data[b][p]
             /\ gone'[b] = CountRemoved(index'[b])
    <2>1. b \in bases /\ b \in Bases /\ b \notin empty
        BY <1>2, <1>3
    <2>2. place'[b] = place[b] /\ data'[b] = data[b] /\ gone'[b] = CountRemoved(index'[b])
        BY <1>2, <2>1 DEF Closed
    <2>3. SameBut(index[b], index[b], {})
        BY <2>1, SameSelf, RecInvParts
    <2>4. CASE b \notin unsorted
        BY <1>1, <2>1, <2>2, <2>3, <2>4
    <2>5. CASE b \in unsorted
        <3> DEFINE s == index[b]
                   r == idx[b]
        <3>1. index'[b] = r /\ r \in IndexSorted(s)
            BY <1>1, <2>1, <2>5
        <3>2. \A i, j \in DOMAIN s : s[i].pos = s[j].pos => i = j
            BY <2>1 DEF RecInv, FilesAgree
        <3> HIDE DEF s, r
        <3>3. /\ DOMAIN r = DOMAIN s
              /\ \E p \in [DOMAIN s -> DOMAIN s] :
                    /\ \A i \in DOMAIN s : r[i] = s[p[i]]
                    /\ \A i, j \in DOMAIN s : p[i] = p[j] => i = j
                    /\ \A j \in DOMAIN s : \E i \in DOMAIN s : p[i] = j
            BY <3>1, SortedIsPermutation
        <3>4. PICK p \in [DOMAIN s -> DOMAIN s] :
                 /\ \A i \in DOMAIN s : r[i] = s[p[i]]
                 /\ \A i, j \in DOMAIN s : p[i] = p[j] => i = j
                 /\ \A j \in DOMAIN s : \E i \in DOMAIN s : p[i] = j
            BY <3>3
        <3>5. SameBut(r, s, {})
            BY <3>2, <3>3, <3>4, ReorderedSame, Zenon
        <3> QED
            BY <2>2, <3>1, <3>5 DEF s
    <2> QED
        BY <2>4, <2>5
<1>6. ASSUME NEW b \in Bases \ bases'
      PROVE  index'[b] = <<>> /\ data'[b] = <<>> /\ gone'[b] = 0
    <2>1. index'[b] = <<>> /\ data'[b] = <<>>
        <3>1. CASE b \in empty
            BY <1>1, <1>2, <3>1 DEF Closed
        <3>2. CASE b \notin empty
            <4>1. b \notin bases /\ b \notin unsorted
                BY <1>2, <1>3, <3>2
            <4>2. index'[b] = index[b] /\ data'[b] = data[b]
                BY <1>1, <1>2, <3>2, <4>1 DEF Closed
            <4> QED
                BY <4>1, <4>2 DEF RecInv, Layout
        <3> QED
            BY <3>1, <3>2
    <2>2. CountRemoved(<<>>) = 0
        <3>1. {i \in DOMAIN <<>> : ~Live((<<>>)[i])} = {}
            BY EmptySeq
        <3> QED
            BY <3>1, FS_EmptySet, Zenon DEF CountRemoved
    <2> QED
        BY <1>2, <2>1, <2>2
<1>7. sorted' \subseteq bases'
    BY <1>2, <1>3 DEF RecInv, Layout
<1>8. logging' = {}
    BY <1>2 DEF StopBinlog, IndInv, DiskInv
<1>9. job' = "none" /\ group' = {} /\ left' = {} /\ chunk' = {}
    BY <1>2, NoJobSorting DEF RecInv, ChunkGood, defrag
<1> QED
    BY <1>2, <1>4, <1>5, <1>6, <1>7, <1>8, <1>9 DEF Kept

(* eblob_cleanup and eblob_init: what is loaded into the hash is the live  *)
(* record of its key.                                                      *)
LEMMA RestartRec ==
    ASSUME IndInv, RecInv, IndInv', Restart
    PROVE  RecInv'
<1>1. Kept /\ FilesInv
    BY RestartKept, RecInvParts
<1>2. FilesInv'
    BY <1>1, KeptFiles
<1>3. /\ \A k \in Keys : op[k] = Idle
      /\ op' = op /\ UNCHANGED promise
    BY DEF Restart
<1>4. \A k \in Keys : cache'[k] \in LoadedLocs(index', k, bases' \ sorted')
    BY DEF Restart
<1>5. ASSUME NEW k \in Keys PROVE KeyInv(k)'
    <2>1. KeyInv(k) /\ Abandoned' = Abandoned /\ Suspect' = Suspect /\ op'[k] = Idle
        BY <1>3, RecInvParts DEF promise, Abandoned, Suspect
    <2> DEFINE bs == bases' \ sorted'
               hits == Hits(index', k, bs)
    <2>2. /\ \A h \in hits : \E b \in bs : \E i \in DOMAIN index'[b] :
                h = <<b, i>> /\ LiveEntry(k, b, i)'
          /\ \A b \in bs : \A i \in DOMAIN index'[b] :
                LiveEntry(k, b, i)' => <<b, i>> \in hits
        <3>1. ASSUME NEW h \in hits
              PROVE  \E b \in bs : \E i \in DOMAIN index'[b] :
                        h = <<b, i>> /\ LiveEntry(k, b, i)'
            BY <3>1 DEF Hits, LiveEntry
        <3>2. ASSUME NEW b \in bs, NEW i \in DOMAIN index'[b], LiveEntry(k, b, i)'
              PROVE  <<b, i>> \in hits
            BY <3>2 DEF Hits, LiveEntry
        <3> QED
            BY <3>1, <3>2
    <2>3. \/ hits = {} /\ cache'[k] = NoLoc
          \/ \E h \in hits : cache'[k] = LocOf(index', h)
        BY <1>4 DEF LoadedLocs
    <2> HIDE DEF hits
    <2>4. ASSUME hits = {}, cache'[k] = NoLoc PROVE CacheGood(k)'
        BY <2>2, <2>4 DEF CacheGood
    <2>5. ASSUME \E h \in hits : cache'[k] = LocOf(index', h) PROVE CacheGood(k)'
        <3>1. PICK h \in hits : cache'[k] = LocOf(index', h)
            BY <2>5
        <3>2. PICK b \in bs : \E i \in DOMAIN index'[b] : h = <<b, i>> /\ LiveEntry(k, b, i)'
            BY <2>2
        <3>3. PICK i \in DOMAIN index'[b] : h = <<b, i>> /\ LiveEntry(k, b, i)'
            BY <3>2
        <3>4. cache'[k] = [base |-> b, ip |-> i, dp |-> index'[b][i].pos]
            BY <3>1, <3>3 DEF LocOf
        <3>5. LiveNext(k, cache'[k])
            BY <3>3, <3>4 DEF LiveNext, LiveEntry
        <3>6. \A c \in bases' \ sorted' : \A j \in DOMAIN index'[c] : LiveEntry(k, c, j)' =>
                 cache'[k] = [base |-> c, ip |-> j, dp |-> index'[c][j].pos]
            BY <1>2, <3>3, <3>4 DEF FilesInv, Once
        <3> QED
            BY <3>5, <3>6 DEF CacheGood, LiveAt, LiveNext
    <2>6. CacheGood(k)'
        BY <2>3, <2>4, <2>5
    <2>7. HeldGood(k)'
        BY <2>1, <2>6 DEF HeldGood, Idle, Writing
    <2>8. ValueGood(k) => ValueGood(k)'
        BY <1>1, <1>3, KeptValue DEF promise
    <2> QED
        BY <2>1, <2>7, <2>8 DEF KeyInv
<1> QED
    BY <1>2, <1>5, RecInvParts

-----------------------------------------------------------------------------
(* The theorems. *)

LEMMA StutterRec ==
    ASSUME IndInv, RecInv, UNCHANGED vars
    PROVE  RecInv'
<1>1. /\ UNCHANGED disk /\ UNCHANGED binlog /\ cache' = cache /\ op' = op
      /\ UNCHANGED defrag /\ UNCHANGED promise
    BY DEF vars
<1>2. FilesInv'
    BY <1>1, QuietFiles, RecInvParts DEF promise
<1>3. \A j \in Keys : KeyInv(j)'
    BY <1>1, AllKeep DEF promise
<1> QED
    BY <1>2, <1>3, RecInvParts

(* What an index sort has crossed stays crossed.                           *)
LEMMA CrossedStays ==
    ASSUME [Next]_vars, crossed
    PROVE  crossed'
<1>1. ASSUME NEW k \in Keys, Client(k) PROVE crossed'
    <2>1. \A s, p : Promise(k, s, p) => crossed'
        BY DEF Promise
    <2>2. UNCHANGED promise => crossed'
        BY DEF promise
    <2>3. CASE \E v \in Vals, wr \in {"write", "patch"} \cap Workload :
                  Overwrite(k, wr, v) \/ StartWrite(k, wr, v)
        BY <2>1, <2>2, <2>3 DEF Overwrite, StartWrite
    <2>4. CASE StartPrepare(k) \/ PrepareDisk(k) \/ PrepareError(k) \/ WritePayload(k)
        BY <2>2, <2>4 DEF StartPrepare, PrepareDisk, PrepareError, WritePayload
    <2>5. CASE CommitWrite(k) \/ CommitRam(k) \/ FailWrite(k)
        BY <2>1, <2>5 DEF CommitWrite, CommitRam, FailWrite
    <2>6. CASE \E v \in Vals : PlainWrite(k, v)
        BY <2>1, <2>6 DEF PlainWrite
    <2>7. CASE \E keep \in BOOLEAN : Commit(k, keep)
        BY <2>1, <2>7 DEF Commit
    <2>8. CASE RemoveLookup(k) \/ RemoveMark(k)
        BY <2>1, <2>2, <2>8 DEF RemoveLookup, RemoveMark
    <2> QED
        BY <1>1, <2>3, <2>4, <2>5, <2>6, <2>7, <2>8 DEF Client, Write
<1>2. CASE Indexsort
    BY <1>2 DEF Indexsort, IndexsortStart, IndexsortSwap, IndexsortFail, promise
<1>3. CASE Datasort
    BY <1>3 DEF Datasort, DatasortStart, DatasortBusy, DatasortSplit, DatasortSwap,
                DatasortAbort, promise
<1>4. CASE \E b \in Bases : RemoveBase(b)
    BY <1>4 DEF RemoveBase, promise
<1>5. CASE Restart
    BY <1>5 DEF Restart, promise
<1>6. CASE UNCHANGED vars
    BY <1>6 DEF vars, promise
<1> QED
    BY <1>1, <1>2, <1>3, <1>4, <1>5, <1>6 DEF Next

(* Every step keeps the invariant, or an index sort overtakes somebody.    *)
LEMMA RecStep ==
    ASSUME RetryAssumed, IndInv, IndInv', crossed \/ RecInv, [Next]_vars
    PROVE  crossed' \/ RecInv'
<1>0. CASE crossed
    BY <1>0, CrossedStays
<1> SUFFICES ASSUME RecInv PROVE crossed' \/ RecInv'
    BY <1>0
<1>1. ASSUME NEW k \in Keys, Client(k)
      PROVE  RecInv'
    <2>2. CASE \E v \in Vals, wr \in {"write", "patch"} \cap Workload :
                  Overwrite(k, wr, v) \/ StartWrite(k, wr, v)
        BY <2>2, OverwriteRec, StartWriteRec
    <2>3. CASE StartPrepare(k)
        BY <2>3, StartPrepareRec
    <2>4. CASE PrepareDisk(k) \/ PrepareError(k)
        BY <2>4, PrepareDiskRec, PrepareErrorRec
    <2>5. CASE WritePayload(k) \/ CommitWrite(k)
        BY <2>5, WritePayloadRec, CommitWriteRec
    <2>6. CASE CommitRam(k) \/ FailWrite(k)
        BY <2>6, CommitRamRec, FailWriteRec
    <2>7. CASE \E v \in Vals : PlainWrite(k, v)
        BY <2>7, PlainWriteRec
    <2>8. CASE \E keep \in BOOLEAN : Commit(k, keep)
        BY <2>8, CommitRec
    <2>9. CASE RemoveLookup(k) \/ RemoveMark(k)
        BY <2>9, RemoveLookupRec, RemoveMarkRec
    <2> QED
        BY <1>1, <2>2, <2>3, <2>4, <2>5, <2>6, <2>7, <2>8, <2>9 DEF Client, Write
<1>2. CASE Indexsort
    BY <1>2, IndexsortStartRec, IndexsortSwapRec, IndexsortFailRec DEF Indexsort
<1>3. CASE Datasort
    BY <1>3, DatasortStartRec, DatasortBusyRec, DatasortSplitRec, DatasortSwapRec,
       DatasortAbortRec DEF Datasort
<1>4. CASE \E b \in Bases : RemoveBase(b)
    BY <1>4, RemoveBaseRec
<1>5. CASE Restart
    BY <1>5, RestartRec
<1>6. CASE UNCHANGED vars
    BY <1>6, StutterRec
<1> QED
    BY <1>1, <1>2, <1>3, <1>4, <1>5, <1>6 DEF Next

(* Until an index sort overtakes an operation that holds an index offset,  *)
(* the records invariant holds in every reachable state.  Here and below a *)
(* restart is that of a store whose every record is inside its data file;  *)
(* after a failed append the theorems of RecoveryRecordProofs take over.   *)
THEOREM RecordsHold ==
    ASSUME RetryAssumed
    PROVE  Spec => [](IndInv /\ (crossed \/ RecInv))
<1>1. Init => crossed \/ RecInv
    BY RecInit
<1>2. IndInv /\ IndInv' /\ (crossed \/ RecInv) /\ [Next]_vars => (crossed \/ RecInv)'
    BY RecStep
<1> QED
    BY <1>1, <1>2, Inductive, PTL DEF Spec

(* What the invariant says, in a state nobody was overtaken in.            *)
LEMMA RecordsMean ==
    ASSUME IndInv, crossed \/ RecInv
    PROVE  /\ AckedReadable /\ OneLive /\ CacheMatchesDisk
           /\ HeaderMatchesIndex /\ OldValid /\ FrozenWhileSorting /\ CountExact
<1>1. CASE crossed
    BY <1>1 DEF AckedReadable, OneLive, CacheMatchesDisk, HeaderMatchesIndex, OldValid,
                FrozenWhileSorting, CountExact
<1>2. CASE RecInv
    BY <1>2, RecInvMeans
<1> QED
    BY <1>1, <1>2

(* eblob_read returns what was last acknowledged, and nothing for a record *)
(* that was removed, until a restart that has to repair a base.            *)
THEOREM AckedIsRead ==
    ASSUME RetryAssumed
    PROVE  Spec => []AckedReadable
BY RecordsHold, RecordsMean, PTL

(* No key ever has two live records.                                       *)
THEOREM NoTwoLive ==
    ASSUME RetryAssumed
    PROVE  Spec => []OneLive
BY RecordsHold, RecordsMean, PTL

(* The hash leads to live records, and to all those that the sorted        *)
(* indexes do not know; the restarts that fill it anew had nothing to      *)
(* repair.                                                                 *)
THEOREM CacheIsRight ==
    ASSUME RetryAssumed
    PROVE  Spec => []CacheMatchesDisk
BY RecordsHold, RecordsMean, PTL

(* An index entry and the header it points to agree.                       *)
THEOREM HeadersAgree ==
    ASSUME RetryAssumed
    PROVE  Spec => []HeaderMatchesIndex
BY RecordsHold, RecordsMean, PTL

(* The location a write or a remove uses is the live record of its key.    *)
THEOREM OldLocationsValid ==
    ASSUME RetryAssumed
    PROVE  Spec => []OldValid
BY RecordsHold, RecordsMean, PTL

(* What a sort has copied stays true of the base, but for what the binlog  *)
(* says.                                                                   *)
THEOREM SortedBasesFrozen ==
    ASSUME RetryAssumed
    PROVE  Spec => []FrozenWhileSorting
BY RecordsHold, RecordsMean, PTL

(* The statistics by which a base is found empty are exact.                *)
THEOREM CountersExact ==
    ASSUME RetryAssumed
    PROVE  Spec => []CountExact
BY RecordsHold, RecordsMean, PTL

-----------------------------------------------------------------------------
(* What the steps of the defragmentation thread never do. *)

(* The contents of a key are the values of its live records.               *)
LEMMA ContentsAre ==
    ASSUME NEW k \in Keys
    PROVE  /\ \A x : x \in Contents(k) <=>
                 \E b \in bases : \E i \in DOMAIN index[b] :
                    LiveEntry(k, b, i) /\ x = ValueAt(b, i)
           /\ \A x : x \in Contents(k)' <=>
                 \E b \in bases' : \E i \in DOMAIN index'[b] :
                    LiveEntry(k, b, i)' /\ x = ValueAt(b, i)'
<1>1. ASSUME NEW x
      PROVE  x \in Contents(k) <=> \E b \in bases : \E i \in DOMAIN index[b] :
                LiveEntry(k, b, i) /\ x = ValueAt(b, i)
    <2>1. ASSUME NEW h \in Hits(index, k, bases), x = data[h[1]][index[h[1]][h[2]].pos].val
          PROVE  \E b \in bases : \E i \in DOMAIN index[b] :
                    LiveEntry(k, b, i) /\ x = ValueAt(b, i)
        BY <2>1 DEF Hits, LiveEntry, ValueAt
    <2>2. ASSUME NEW b \in bases, NEW i \in DOMAIN index[b], LiveEntry(k, b, i),
                 x = ValueAt(b, i)
          PROVE  x \in Contents(k)
        <3>1. <<b, i>> \in Hits(index, k, bases)
            BY <2>2 DEF Hits, LiveEntry
        <3>2. x = data[<<b, i>>[1]][index[<<b, i>>[1]][<<b, i>>[2]].pos].val
            BY <2>2 DEF ValueAt
        <3> QED
            BY <3>1, <3>2 DEF Contents
    <2> QED
        BY <2>1, <2>2 DEF Contents
<1>2. ASSUME NEW x
      PROVE  x \in Contents(k)' <=> \E b \in bases' : \E i \in DOMAIN index'[b] :
                LiveEntry(k, b, i)' /\ x = ValueAt(b, i)'
    <2>1. ASSUME NEW h \in Hits(index', k, bases'), x = data'[h[1]][index'[h[1]][h[2]].pos].val
          PROVE  \E b \in bases' : \E i \in DOMAIN index'[b] :
                    LiveEntry(k, b, i)' /\ x = ValueAt(b, i)'
        BY <2>1 DEF Hits, LiveEntry, ValueAt
    <2>2. ASSUME NEW b \in bases', NEW i \in DOMAIN index'[b], LiveEntry(k, b, i)',
                 x = ValueAt(b, i)'
          PROVE  x \in Contents(k)'
        <3>1. <<b, i>> \in Hits(index', k, bases')
            BY <2>2 DEF Hits, LiveEntry
        <3>2. x = data'[<<b, i>>[1]][index'[<<b, i>>[1]][<<b, i>>[2]].pos].val
            BY <2>2 DEF ValueAt
        <3> QED
            BY <3>1, <3>2 DEF Contents
    <2> QED
        BY <2>1, <2>2 DEF Contents
<1> QED
    BY <1>1, <1>2

(* Indexes in another order, empty bases gone: every key has what it had.  *)
LEMMA KeptContents ==
    ASSUME IndInv, FilesInv, Kept, NEW k \in Keys
    PROVE  Contents(k)' = Contents(k)
<1>1. ASSUME NEW b \in bases', NEW i \in DOMAIN index'[b], LiveEntry(k, b, i)'
      PROVE  ValueAt(b, i)' \in Contents(k)
    <2>1. PICK j \in DOMAIN index[b] : LiveEntry(k, b, j) /\ ValueAt(b, i)' = ValueAt(b, j)
        BY <1>1, KeptLive
    <2>2. b \in bases
        BY DEF Kept
    <2> QED
        BY <2>1, <2>2, ContentsAre
<1>2. ASSUME NEW b \in bases, NEW j \in DOMAIN index[b], LiveEntry(k, b, j)
      PROVE  ValueAt(b, j) \in Contents(k)'
    <2>1. b \in bases' /\ \E i \in DOMAIN index'[b] :
             ValueAt(b, i)' = ValueAt(b, j) /\ LiveEntry(k, b, i)'
        BY <1>2, KeptLive
    <2> QED
        BY <2>1, ContentsAre
<1>3. \A x : x \in Contents(k)' <=> x \in Contents(k)
    BY <1>1, <1>2, ContentsAre
<1> QED
    BY <1>3

(* Records merged into a new base: the same.                               *)
LEMMA ReplacedContents ==
    ASSUME IndInv, FilesInv, NEW nb, Replaced(nb), Gathered(nb),
           NEW k \in Keys \ Suspect
    PROVE  Contents(k)' = Contents(k)
<1>0. group \subseteq bases /\ nb \in bases'
    BY DEF IndInv, SortInv, SortsOldBases, NotLast, Replaced
<1>1. ASSUME NEW b \in bases', NEW i \in DOMAIN index'[b], LiveEntry(k, b, i)'
      PROVE  ValueAt(b, i)' \in Contents(k)
    <2>1. CASE b \in bases /\ i \in DOMAIN index[b] /\ LiveEntry(k, b, i)
               /\ ValueAt(b, i)' = ValueAt(b, i)
        BY <2>1, ContentsAre
    <2>2. CASE b = nb /\ \E c \in group : \E j \in DOMAIN index[c] :
                  LiveEntry(k, c, j) /\ ValueAt(nb, i)' = ValueAt(c, j)
        <3>1. PICK c \in group : \E j \in DOMAIN index[c] :
                 LiveEntry(k, c, j) /\ ValueAt(nb, i)' = ValueAt(c, j)
            BY <2>2
        <3>2. c \in bases
            BY <1>0
        <3> QED
            BY <2>2, <3>1, <3>2, ContentsAre
    <2> QED
        BY <1>1, <2>1, <2>2, ReplacedLive
<1>2. ASSUME NEW b \in bases, NEW j \in DOMAIN index[b], LiveEntry(k, b, j)
      PROVE  ValueAt(b, j) \in Contents(k)'
    <2>1. CASE b \notin group
        <3>1. /\ b \in bases' /\ j \in DOMAIN index'[b] /\ LiveEntry(k, b, j)'
            BY <1>2, <2>1, ReplacedLive
        <3>2. index'[b] = index[b] /\ data'[b] = data[b]
            <4>1. b \in Bases \ {nb}
                <5>1. b \in 1 .. born /\ b \in Bases /\ born \in Nat /\ nb = born + 1
                    BY BoundsAssumption DEF Replaced, IndInv, DiskInv
                <5> QED
                    BY <5>1
            <4> QED
                BY <2>1, <4>1 DEF Replaced
        <3>3. ValueAt(b, j)' = ValueAt(b, j)
            BY <3>2 DEF ValueAt
        <3> QED
            BY <3>1, <3>3, ContentsAre
    <2>2. CASE b \in group
        <3>1. PICK i \in DOMAIN index'[nb] :
                 /\ index'[nb][i].key = k /\ index'[nb][i].flag = index[b][j].flag
                 /\ data'[nb][i].val = ValueAt(b, j)
            BY <1>2, <2>2 DEF Gathered
        <3>2. index[b][j].flag # "removed" /\ index'[nb][i].pos = i
            BY <1>2 DEF LiveEntry, Live, Gathered
        <3>3. LiveEntry(k, nb, i)' /\ ValueAt(nb, i)' = ValueAt(b, j)
            BY <1>0, <3>1, <3>2 DEF LiveEntry, Live, ValueAt
        <3> QED
            BY <1>0, <3>3, ContentsAre
    <2> QED
        BY <2>1, <2>2
<1>3. \A x : x \in Contents(k)' <=> x \in Contents(k)
    BY <1>1, <1>2, ContentsAre
<1> QED
    BY <1>3

(* A step of a client is a call, or moves its operation on.                *)
LEMMA ClientMoves ==
    ASSUME IndInv, NEW k \in Keys, Client(k)
    PROVE  calls' # calls \/ op'[k].pc # op[k].pc
<1>1. CASE Call(k)
    BY <1>1, BoundsAssumption DEF Call, IndInv, PromiseInv
<1>2. CASE op[k].pc # "idle" /\ End(k)
    BY <1>2 DEF End, Idle, IndInv, HeldInv
<1>3. ASSUME PrepareDisk(k) PROVE op'[k].pc # op[k].pc
    <2>1. PICK l \in NewLocs :
             op' = [op EXCEPT ![k] = [op[k] EXCEPT !.new = l, !.old = NoLoc, !.moved = FALSE,
                       !.pc = IF op[k].kind = "prepare" THEN "ram" ELSE "payload"]]
        BY <1>3 DEF PrepareDisk, Begin
    <2>2. op[k].pc = "prep" /\ op \in [Keys -> Op]
        BY <1>3 DEF PrepareDisk, IndInv, HeldInv
    <2> QED
        BY <2>1, <2>2 DEF Op
<1>4. ASSUME WritePayload(k) PROVE op'[k].pc # op[k].pc
    <2>1. op' = [op EXCEPT ![k] = [op[k] EXCEPT !.pc = "commit"]] /\ op[k].pc = "payload"
        BY <1>4 DEF WritePayload, Begin
    <2>2. op \in [Keys -> Op]
        BY DEF IndInv, HeldInv
    <2> QED
        BY <2>1, <2>2 DEF Op
<1>5. Call(k) \/ (op[k].pc # "idle" /\ End(k)) \/ PrepareDisk(k) \/ WritePayload(k)
    BY DEF Client, Write, Overwrite, StartWrite, StartPrepare, PrepareError, CommitWrite,
           CommitRam, FailWrite, PlainWrite, Commit, RemoveLookup, RemoveMark
<1> QED
    BY <1>1, <1>2, <1>3, <1>4, <1>5

(* A step that changes no file changes no contents.                        *)
LEMMA QuietContents ==
    ASSUME UNCHANGED disk, NEW k
    PROVE  Contents(k)' = Contents(k)
BY DEF disk, Contents, Hits

(* A step that is no client's leaves every key what it had.                *)
LEMMA SortsKeep ==
    ASSUME IndInv, RecInv, [Next]_vars, calls' = calls,
           \A k \in Keys : op'[k].pc = op[k].pc, NEW k \in Keys \ Suspect'
    PROVE  Contents(k)' = Contents(k)
<1>0. FilesInv
    BY RecInvParts
<1>1. ~\E j \in Keys : Client(j)
    BY ClientMoves
<1>2. CASE Indexsort
    <2>1. CASE \E b \in Bases : IndexsortStart(b)
        BY <2>1, QuietContents DEF IndexsortStart
    <2>2. CASE IndexsortSwap
        BY <1>0, <2>2, IndexsortSwapKept, KeptContents
    <2>3. CASE IndexsortFail
        BY <2>3, QuietContents DEF IndexsortFail
    <2> QED
        BY <1>2, <2>1, <2>2, <2>3 DEF Indexsort
<1>3. CASE Datasort
    <2>1. CASE DatasortSwap
        <3>1. k \in Keys \ Suspect
            BY <2>1 DEF DatasortSwap, promise, Suspect
        <3>2. PICK nb : Replaced(nb) /\ Gathered(nb)
            BY <2>1, DatasortSwapGathers
        <3> QED
            BY <1>0, <3>1, <3>2, ReplacedContents
    <2>2. CASE DatasortStart \/ DatasortBusy \/ DatasortSplit \/ DatasortAbort
        BY <2>2, QuietContents DEF DatasortStart, DatasortBusy, DatasortSplit, DatasortAbort
    <2> QED
        BY <1>3, <2>1, <2>2 DEF Datasort
<1>4. CASE \E b \in Bases : RemoveBase(b)
    BY <1>0, <1>4, RemoveBaseKept, KeptContents
<1>5. CASE Restart
    BY <1>0, <1>5, RestartKept, KeptContents
<1>6. CASE UNCHANGED vars
    BY <1>6, QuietContents DEF vars
<1> QED
    BY <1>1, <1>2, <1>3, <1>4, <1>5, <1>6 DEF Next

(* The defragmentation thread, and a restart that has nothing to repair,   *)
(* neither lose, resurrect nor change a record.                            *)
THEOREM SortsPreserveContents ==
    ASSUME RetryAssumed
    PROVE  Spec => SortsPreserve
<1>1. IndInv /\ (crossed \/ RecInv) /\ [Next]_vars =>
         [/\ calls' = calls
          /\ \A k \in Keys : op'[k].pc = op[k].pc
          /\ ~crossed'
          => \A k \in Keys \ Suspect' : Contents(k)' = Contents(k)]_vars
    BY SortsKeep, CrossedStays
<1> QED
    BY <1>1, RecordsHold, PTL DEF Spec, SortsPreserve

(* A client takes no base off the list.                                    *)
LEMMA ClientKeepsBases ==
    ASSUME NEW k \in Keys, Client(k)
    PROVE  bases \subseteq bases'
<1>1. \A l, old, f, p : PrepareDiskLL(k, l, old, f, p) => bases \subseteq bases'
    BY DEF PrepareDiskLL, AddNewBase
<1>2. CASE \E v \in Vals, wr \in {"write", "patch"} \cap Workload :
              Overwrite(k, wr, v) \/ StartWrite(k, wr, v)
    BY <1>2 DEF Overwrite, StartWrite, disk
<1>3. CASE StartPrepare(k) \/ PrepareError(k) \/ CommitRam(k) \/ FailWrite(k)
    BY <1>3 DEF StartPrepare, PrepareError, CommitRam, FailWrite, disk
<1>4. CASE PrepareDisk(k)
    BY <1>1, <1>4 DEF PrepareDisk
<1>5. CASE WritePayload(k) \/ CommitWrite(k) \/ RemoveLookup(k) \/ RemoveMark(k)
    BY <1>5 DEF WritePayload, CommitWrite, RemoveLookup, RemoveMark, disk
<1>6. CASE \E v \in Vals : PlainWrite(k, v)
    BY <1>1, <1>6 DEF PlainWrite
<1>7. CASE \E keep \in BOOLEAN : Commit(k, keep)
    BY <1>1, <1>7 DEF Commit
<1> QED
    BY <1>2, <1>3, <1>4, <1>5, <1>6, <1>7 DEF Client, Write

(* A base that leaves the list other than in a merge has no live record.   *)
LEMMA DropsAreEmpty ==
    ASSUME IndInv, RecInv, [Next]_vars, job = "none", NEW b \in bases \ bases',
           NEW i \in DOMAIN index[b]
    PROVE  ~Live(index[b][i])
<1>1. CASE Kept
    BY <1>1 DEF Kept
<1>2. CASE \E k \in Keys : Client(k)
    BY <1>2, ClientKeepsBases
<1>3. CASE Indexsort \/ Datasort
    BY <1>3 DEF Indexsort, IndexsortStart, IndexsortSwap, IndexsortFail, Datasort,
       DatasortStart, DatasortBusy, DatasortSplit, DatasortSwap, DatasortAbort, disk
<1>4. CASE (\E c \in Bases : RemoveBase(c)) \/ Restart
    BY <1>1, <1>4, RemoveBaseKept, RestartKept
<1>5. CASE UNCHANGED vars
    BY <1>5 DEF vars, disk
<1> QED
    BY <1>2, <1>3, <1>4, <1>5 DEF Next

(* A base is unlinked without being merged only when it has nothing left.  *)
THEOREM DroppedBasesAreEmpty ==
    ASSUME RetryAssumed
    PROVE  Spec => DroppedBasesEmpty
<1>1. IndInv /\ (crossed \/ RecInv) /\ [Next]_vars =>
         [~crossed /\ job = "none" => \A b \in bases \ bases' :
             \A i \in DOMAIN index[b] :
                 Live(index[b][i]) => index[b][i].key \in Suspect]_vars
    BY DropsAreEmpty
<1> QED
    BY <1>1, RecordsHold, PTL DEF Spec, DroppedBasesEmpty
=============================================================================
