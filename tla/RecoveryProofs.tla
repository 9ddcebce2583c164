--------------------------- MODULE RecoveryProofs ---------------------------
(***************************************************************************)
(* Proofs about Recovery, for any number of keys, bases, records in a blob *)
(* and crashes: every location and offset is inside its file's type        *)
(* (TypeCorrect), a new base never meets files of a removed one            *)
(* (FreshNames), a sorted index is as long as its .index whenever both are *)
(* there (SortedMatches), and eblob_init fails only after a crash in one   *)
(* of two windows (StartsAfterCrash).                                      *)
(*                                                                         *)
(* SortedMatches needs most of the invariant.  A removed flag that is      *)
(* written beyond the end of a sorted index would make it longer than its  *)
(* .index.  It never is: a location of the hash is inside what is settled  *)
(* of its index (LocIs), and the index of every base but the last is that  *)
(* long (Unsorteds).  The last one may be shorter after a repair, until    *)
(* the next write fills the gap with zeros (Cut).                          *)
(*                                                                         *)
(* A location must not outlive its base either.  A merge and a removal     *)
(* take the locations of the live entries out of the hash; the one whose   *)
(* entry a repair has cut off is of no live entry (Strays).  But then its  *)
(* index has a hole, a zero-filled entry that is not marked removed, and a *)
(* base with such an entry is neither merged nor removed (StraysAre).      *)
(*                                                                         *)
(* The rest follows the sorter through its system calls: which files of    *)
(* its group are gone and which have the new name (Dropping, Moving).      *)
(*                                                                         *)
(* StartsAfterCrash has an invariant of its own, Unhurt: no entry is       *)
(* outside its data file but those of writes in flight and those that a    *)
(* failed reservation has left behind the settled ones (Growing), and a    *)
(* base that the sorter may take has neither (OldHale).                    *)
(***************************************************************************)
EXTENDS Recovery, InductionLemmas, FiniteSetTheorems, TLAPS

(* An entry of a record is not the zero-filled one, and knows its slot.    *)
SoundEntry == {e \in Entry : e.key # 0 => e.pos # 0}
Ops == [pc : {"idle", "index", "header", "mark", "markdata", "payload"}, ver : Nat,
        base : 0 .. MaxBases, at : Nat, pos : Nat, old : Location \cup {NoLoc}]
Calls == {"unlink data", "unlink index", "unlink sorted",
          "rename data", "rename index", "link"}
Chunks == [cells : Seq(Cell), entries : Seq(SoundEntry)]

Types ==
    /\ data \in [Bases -> Seq(Cell) \cup {NoFile}]
    /\ whole \in [Bases -> BOOLEAN]
    /\ index \in [Bases -> Seq(SoundEntry) \cup {NoFile, Linked}]
    /\ sorted \in [Bases -> Seq(SoundEntry) \cup {NoFile}]
    /\ chunk \in Chunks \cup {NoFile}
    /\ phase \in {"up", "down", "scanned", "failed"}
    /\ open \in SUBSET Bases /\ sortFd \in SUBSET open
    /\ cache \in [Keys -> Location \cup {NoLoc}]
    /\ dataOffset \in [Bases -> Nat] /\ indexSize \in [Bases -> Nat]
    /\ op \in [Keys -> Ops]
    /\ mutex \in Keys \cup {Nobody, Sorter}
    /\ job \in [group : SUBSET Bases, left : SUBSET Bases, todo : Seq(Calls \X Bases)]
    /\ ops \in Nat /\ faults \in Nat
    /\ acked \in [Keys -> Nat] /\ unsure \in SUBSET Keys /\ damaged \in BOOLEAN

-----------------------------------------------------------------------------
(* The files: a linked .index has a sorted one; nothing has a higher name  *)
(* than the data files; only the last record of a file is incomplete.      *)
LinkedIs ==
    \A b \in Bases : (index[b] = Linked => sorted[b] # NoFile) /\ sorted[b] # <<>>
Named == \A b \in Bases : index[b] # NoFile \/ sorted[b] # NoFile => \E c \in Found : b <= c
Whole ==
    /\ \A b \in Bases : data[b] = <<>> => whole[b]
    /\ \A b \in Bases : ~whole[b] => \E c \in Found : b <= c

Serving == phase \in {"up", "scanned"}
OpenFiles ==
    Serving =>
      /\ Found \subseteq open \cup job.group
      /\ \A b \in open \ job.group :
            /\ data[b] # NoFile
            /\ b \in sortFd => sorted[b] \notin {NoFile, <<>>} /\ index[b] # NoFile
            /\ b \notin sortFd => sorted[b] = NoFile /\ index[b] \notin {NoFile, Linked}

Resting ==
    phase # "up" =>
      /\ op = [k \in Keys |-> Idle] /\ mutex = Nobody /\ job = NoJob
      /\ cache = [k \in Keys |-> NoLoc]
      /\ phase = "down" => open = {}
      /\ phase = "scanned" =>
            /\ chunk = NoFile
            /\ \A b \in Unsorted : /\ Len(index[b]) < RecordsInBlob
                                   /\ b # LastBase => index[b] = <<>>

-----------------------------------------------------------------------------
(* The sorter's job *)
Gone(b) == data[b] = NoFile /\ index[b] = NoFile /\ sorted[b] = NoFile

(* What is left of three calls.                                            *)
Rests(s) == {s, Tail(s), Tail(Tail(s))}

Dropping(c) ==
    /\ job.todo \in Rests(UnlinkCalls(c))
    /\ job.todo[1][1] # "unlink data" => data[c] = NoFile
    /\ job.todo[1][1] = "unlink sorted" => index[c] = NoFile
Moving(c) ==
    /\ job.todo \in Rests(RenameCalls(c))
    /\ index[c] = NoFile
    /\ job.todo[1][1] = "rename data" => Gone(c)
    /\ job.todo[1][1] = "rename index" => sorted[c] = NoFile
    /\ job.todo[1][1] # "rename data" => data[c] # NoFile
    /\ job.todo[1][1] = "link" => sorted[c] \notin {NoFile, <<>>}
Merging(first) ==
    /\ chunk # NoFile /\ chunk.cells # <<>> /\ chunk.entries # <<>>
    /\ first \in sortFd /\ first \notin job.left
    /\ open \cap job.group = {first}
    /\ \/ \E c \in job.group \ job.left :
            /\ Dropping(c)
            /\ c # first => Gone(first)
            /\ \A d \in job.group \ job.left : d # c => data[d] = NoFile
       \/ job.left = {} /\ Moving(first) /\ \A d \in job.group : d # first => data[d] = NoFile
Removing ==
    /\ chunk = NoFile /\ job.left = {}
    /\ \E c \in Bases : job.group = {c} /\ c \notin open /\ Dropping(c)

JobIs ==
    /\ job.todo = <<>> <=> job = NoJob
    /\ mutex = Sorter <=> job.todo # <<>>
    /\ job.todo # <<>> =>
          /\ open # {} /\ job.group # {} /\ job.left \subseteq job.group
          /\ \A b \in job.group : b < LastBase
          /\ (\E first \in {Min(job.group)} : Merging(first)) \/ Removing
    /\ phase = "up" /\ chunk # NoFile => job.todo # <<>>

(* Operations: what the one that holds b->lock reserved is not settled.    *)
Holding(b) == \E k \in Keys : mutex = k /\ op[k].base = b
Settled(b) == IF Holding(b) THEN indexSize[b] - 1 ELSE indexSize[b]

LocIs(l) ==
    /\ l.base \in open \ job.group
    /\ l.base \in sortFd => l.at <= Len(sorted[l.base])
    /\ l.base \notin sortFd => l.at <= Settled(l.base)

Mine(k, e) == e.key = k /\ ~e.removed

OpIs(k, o) ==
    /\ o.pc = "idle" => o = Idle
    /\ o.pc \in {"index", "header"} => mutex = k
    /\ o.pc \in {"mark", "markdata"} => (mutex = k <=> o.base # 0)
    /\ o.pc = "payload" => o.base # 0
    /\ o.pc = "markdata" => o.old # NoLoc
    /\ o.pc # "idle" /\ o.base = 0 => o.old # NoLoc
    /\ mutex = k =>
          /\ o.pc \in {"index", "header", "mark", "markdata"}
          /\ o.base # 0 /\ o.base = LastBase /\ o.at = indexSize[o.base] /\ o.pos = dataOffset[o.base]
    /\ o.base # 0 =>
          /\ o.base \in open \ (sortFd \cup job.group)
          /\ o.at # 0 /\ o.pos # 0
          /\ mutex # k => o.at <= Settled(o.base)
          /\ o.pc # "index" => o.at <= Len(index[o.base]) /\ Mine(k, index[o.base][o.at])
          /\ o.pc \notin {"index", "header"} => o.pos <= Len(data[o.base])
    /\ o.old # NoLoc => LocIs(o.old)

OpsAre == \A k \in Keys : \A o \in {op[k]} : OpIs(k, o)

CacheIs ==
    \A k \in Keys : \A l \in {cache[k]} :
        l # NoLoc => IF op[k] = Idle THEN LocIs(l) ELSE l = op[k].old

(* Unsorted bases; Cut is the last one after a repair.                     *)
Cut(b) == /\ b = LastBase /\ Len(index[b]) < Settled(b) /\ Settled(b) < RecordsInBlob
Unsorteds ==
    phase = "up" =>
    \A b \in open \ (sortFd \cup job.group) :
        /\ indexSize[b] <= RecordsInBlob /\ Len(index[b]) <= RecordsInBlob
        /\ Len(index[b]) >= Settled(b) \/ Cut(b)
        /\ b # LastBase => Len(index[b]) = indexSize[b]

(* The location the next removed flag of k goes to; it is a stray when the *)
(* entry there is not k's.                                                 *)
Pending(k) ==
    IF op[k] = Idle THEN cache[k]
    ELSE IF op[k].pc \in {"index", "header", "mark"} THEN op[k].old ELSE NoLoc
Good(k, l) ==
    IF l.base \in sortFd THEN cache[k] = NoLoc /\ sorted[l.base][l.at].key = k
    ELSE l.at \in DOMAIN index[l.base] /\ Mine(k, index[l.base][l.at])
Stray(k, l, b) == l # NoLoc /\ l.base = b /\ ~Good(k, l)
Strays(b) == {k \in Keys : \E l \in {Pending(k)} : Stray(k, l, b)}
HasHole(b) ==
    \E p \in DOMAIN IndexFd(b) : /\ IndexFd(b)[p].key = 0 /\ ~IndexFd(b)[p].removed
                                 /\ b \notin sortFd => p <= Settled(b)
StraysAre ==
    \A b \in open : \A k \in Keys : \A l \in {Pending(k)} : Stray(k, l, b) =>
        /\ \A j \in Strays(b) : j = k
        /\ (b \notin sortFd /\ Cut(b) /\ l.at < Settled(b)) \/ HasHole(b)
        /\ b \notin sortFd /\ l.at \in DOMAIN index[b] => index[b][l.at].key = 0

(* The sizes of bases that are not there yet.                              *)
Fresh ==
    \A b \in Bases : (open = {} \/ b > LastBase) => indexSize[b] = 0 /\ dataOffset[b] = 0

Inv ==
    /\ Types /\ LinkedIs /\ Named /\ Whole /\ SortedMatchesIndex
    /\ OpenFiles /\ Resting /\ JobIs /\ OpsAre /\ CacheIs /\ Unsorteds /\ StraysAre
    /\ Fresh

-----------------------------------------------------------------------------
(* Entries and files *)

(* What the fields of an entry are.                                        *)
LEMMA EntryIs ==
  /\ \A e \in SoundEntry : /\ e.key \in Nat /\ e.key \in Keys \cup {0} /\ e.pos \in Nat
                           /\ e.removed \in BOOLEAN /\ (e.key # 0 => e.pos # 0)
                           /\ [e EXCEPT !.removed = TRUE] \in SoundEntry
  /\ \A k \in Keys : \A p \in Nat \ {0} :
        [key |-> k, pos |-> p, removed |-> FALSE] \in SoundEntry
  /\ Hole \in SoundEntry /\ [Hole EXCEPT !.removed = TRUE] \in SoundEntry
  /\ SoundEntry \subseteq Entry
<1>1. \A e \in Entry : /\ e.key \in Keys \cup {0} /\ e.pos \in Nat /\ e.removed \in BOOLEAN
                       /\ [e EXCEPT !.removed = TRUE] \in Entry
                       /\ [e EXCEPT !.removed = TRUE].key = e.key
                       /\ [e EXCEPT !.removed = TRUE].pos = e.pos
  BY DEF Entry
<1>2. \A k \in Keys : \A p \in Nat \ {0} :
         /\ [key |-> k, pos |-> p, removed |-> FALSE] \in Entry
         /\ [key |-> k, pos |-> p, removed |-> FALSE].pos # 0
  BY DEF Entry
<1>3. Hole \in Entry /\ Hole.key = 0
  BY DEF Hole, Entry
<1>4. Keys \cup {0} \subseteq Nat
  BY KeysAssumption
<1> QED BY <1>1, <1>2, <1>3, <1>4 DEF SoundEntry

(* A file of entries is one, and nothing else.                             *)
LEMMA FilesDiffer ==
  /\ \A s \in Seq(SoundEntry) : s # NoFile /\ s # Linked
  /\ \A s \in Seq(Cell) : s # NoFile
  /\ NoFile # Linked /\ <<>> # NoFile
  /\ \A c \in Chunks : c # NoFile
<1>1. Seq(SoundEntry) \subseteq Seq(Entry)
  <2>1. SoundEntry \subseteq Entry
    BY EntryIs
  <2> QED BY <2>1
<1>2. Chunks \subseteq [cells : Seq(Cell), entries : Seq(Entry)]
  BY <1>1 DEF Chunks
<1>3. <<>> # NoFile
  <2>1. <<>> \in Seq(Cell)
    OBVIOUS
  <2> QED BY <2>1, NamesAssumption
<1> QED BY <1>1, <1>2, <1>3, NamesAssumption

(* Sequences, with the set of their members left abstract.                 *)
LEMMA SeqIs ==
  ASSUME NEW S, NEW s \in Seq(S)
  PROVE /\ Len(s) \in Nat /\ DOMAIN s = 1 .. Len(s)
        /\ \A i \in 1 .. Len(s) : s[i] \in S
        /\ s = <<>> <=> Len(s) = 0
OBVIOUS

(* The larger of two lengths.                                              *)
LEMMA MaxOfTwo ==
  ASSUME NEW m \in Nat, NEW n \in Nat
  PROVE Max({m, n}) = IF m >= n THEN m ELSE n
<1>1. {m, n} \subseteq Nat /\ {m, n} # {} /\ m + n \in Nat /\ \A y \in {m, n} : y <= m + n
  OBVIOUS
<1>2. Max({m, n}) \in {m, n} /\ \A y \in {m, n} : y <= Max({m, n})
  BY <1>1, MaxOf
<1> QED BY <1>2

(* t is s with x at i, the gap filled with z.                              *)
Written(t, s, i, x, z) ==
    /\ Len(t) = IF Len(s) >= i THEN Len(s) ELSE i
    /\ t[i] = x
    /\ \A j \in 1 .. Len(s) : j # i => t[j] = s[j]
    /\ \A j \in 1 .. i - 1 : j > Len(s) => t[j] = z

(* pwrite at a slot: the file grows up to the slot, and nothing else in it *)
(* changes.                                                                *)
LEMMA WriteAtIs ==
  ASSUME NEW S, NEW s \in Seq(S), NEW i \in Nat \ {0}, NEW x \in S, NEW z \in S,
         NEW t, t = WriteAt(s, i, x, z)
  PROVE t \in Seq(S) /\ Written(t, s, i, x, z)
<1> DEFINE n == IF Len(s) >= i THEN Len(s) ELSE i
<1>1. Len(s) \in Nat /\ i \in Nat /\ i >= 1 /\ \A j \in 1 .. Len(s) : s[j] \in S
  BY SeqIs
<1>2. Max({Len(s), i}) = n
  BY <1>1, MaxOfTwo
<1>3. n \in Nat /\ i <= n /\ Len(s) <= n
  BY <1>1
<1> HIDE DEF n
<1>4. t = [j \in 1 .. n |-> IF j = i THEN x ELSE IF j <= Len(s) THEN s[j] ELSE z]
  BY <1>2 DEF WriteAt
<1>5. \A j \in 1 .. n : t[j] = (IF j = i THEN x ELSE IF j <= Len(s) THEN s[j] ELSE z)
  BY <1>4
<1>6. \A j \in 1 .. n : t[j] \in S
  BY <1>1, <1>3, <1>5
<1>7. t \in [1 .. n -> S]
  BY <1>4, <1>6
<1>8. t \in Seq(S) /\ Len(t) = n
  BY <1>3, <1>7
<1>9. t[i] = x
  BY <1>1, <1>3, <1>5
<1>10. \A j \in 1 .. Len(s) : j # i => t[j] = s[j]
  BY <1>1, <1>3, <1>5
<1>11. \A j \in 1 .. i - 1 : j > Len(s) => t[j] = z
  BY <1>1, <1>3, <1>5
<1> QED BY <1>8, <1>9, <1>10, <1>11 DEF n, Written

(* A mark changes the flag of one entry; beyond the end of the file it     *)
(* makes the file longer, by entries without a key.                        *)
LEMMA MarkedIs ==
  ASSUME NEW s \in Seq(SoundEntry), NEW i \in Nat \ {0}, NEW t, t = Marked(s, i)
  PROVE /\ t \in Seq(SoundEntry)
        /\ Len(t) = IF Len(s) >= i THEN Len(s) ELSE i
        /\ \A j \in 1 .. Len(s) : /\ t[j].key = s[j].key /\ t[j].pos = s[j].pos
                                  /\ j # i => t[j] = s[j]
        /\ \A j \in 1 .. Len(t) : j > Len(s) => t[j].key = 0
        /\ t[i].removed
<1>1. Len(s) \in Nat /\ DOMAIN s = 1 .. Len(s) /\ \A j \in 1 .. Len(s) : s[j] \in SoundEntry
  BY SeqIs
<1>2. CASE i <= Len(s)
  <2>1. t = [s EXCEPT ![i] = [s[i] EXCEPT !.removed = TRUE]]
    BY <1>2 DEF Marked
  <2>2. i \in 1 .. Len(s)
    BY <1>1, <1>2
  <2>3. s[i] \in SoundEntry /\ [s[i] EXCEPT !.removed = TRUE] \in SoundEntry
    BY <1>1, <2>2, EntryIs
  <2>4. s \in [1 .. Len(s) -> SoundEntry]
    BY <1>1
  <2>5. t \in [1 .. Len(s) -> SoundEntry]
    BY <2>1, <2>3, <2>4
  <2>6. t \in Seq(SoundEntry) /\ Len(t) = Len(s)
    BY <1>1, <2>5
  <2>7. \A j \in 1 .. Len(s) : j # i => t[j] = s[j]
    BY <1>1, <2>1
  <2>8. t[i] = [s[i] EXCEPT !.removed = TRUE]
    BY <1>1, <2>1, <2>2
  <2>9. t[i].key = s[i].key /\ t[i].pos = s[i].pos /\ t[i].removed
    BY <2>3, <2>8 DEF SoundEntry, Entry
  <2> QED BY <1>1, <1>2, <2>6, <2>7, <2>9
<1>3. CASE ~(i <= Len(s))
  <2> DEFINE h == [Hole EXCEPT !.removed = TRUE]
  <2>1. t = WriteAt(s, i, h, Hole)
    BY <1>3 DEF Marked
  <2>2. h \in SoundEntry /\ Hole \in SoundEntry
    BY EntryIs
  <2>3. h.key = 0 /\ h.removed /\ Hole.key = 0
    BY DEF Hole
  <2> HIDE DEF h
  <2>4. /\ t \in Seq(SoundEntry)
        /\ Len(t) = IF Len(s) >= i THEN Len(s) ELSE i
        /\ t[i] = h
        /\ \A j \in 1 .. Len(s) : j # i => t[j] = s[j]
        /\ \A j \in 1 .. i - 1 : j > Len(s) => t[j] = Hole
    <3>1. t \in Seq(SoundEntry) /\ Written(t, s, i, h, Hole)
      BY <2>1, <2>2, WriteAtIs
    <3> QED BY <3>1 DEF Written
  <2>5. ~(Len(s) >= i) /\ Len(t) = i /\ i \in Nat
    BY <1>1, <1>3, <2>4
  <2>6. \A j \in 1 .. Len(s) : j # i
    BY <1>1, <2>5
  <2>7. \A j \in 1 .. Len(t) : j > Len(s) => t[j].key = 0
    <3> SUFFICES ASSUME NEW j \in 1 .. Len(t), j > Len(s) PROVE t[j].key = 0
      OBVIOUS
    <3>1. j = i \/ j \in 1 .. i - 1
      BY <2>5
    <3> QED BY <2>3, <2>4, <3>1
  <2> QED BY <2>3, <2>4, <2>5, <2>6, <2>7
<1> QED BY <1>2, <1>3

(* The first n items.                                                      *)
LEMMA PrefixIs ==
  ASSUME NEW S, NEW s \in Seq(S), NEW n \in Nat, n <= Len(s), NEW t, t = SubSeq(s, 1, n)
  PROVE t \in Seq(S) /\ Len(t) = n /\ \A j \in 1 .. n : t[j] = s[j]
OBVIOUS

(* The entries that are read are the first ones.                           *)
LEMMA CompleteIs ==
  ASSUME NEW s \in Seq(SoundEntry), NEW t, t = Complete(s)
  PROVE /\ t \in Seq(SoundEntry) /\ Len(t) <= Len(s)
        /\ \A j \in 1 .. Len(t) : t[j] = s[j]
        /\ \A j \in 1 .. Len(s) : j > Len(t) => s[j].key = 0 /\ s[j].removed
        /\ Len(t) = Len(s) \/ Len(t) = Len(s) - 1
<1>1. Len(s) \in Nat /\ \A j \in 1 .. Len(s) : s[j] \in SoundEntry
  BY SeqIs
<1>2. CASE s # <<>> /\ s[Len(s)] = [Hole EXCEPT !.removed = TRUE]
  <2>1. t = SubSeq(s, 1, Len(s) - 1) /\ Len(s) >= 1
    BY <1>1, <1>2 DEF Complete
  <2>2. t \in Seq(SoundEntry) /\ Len(t) = Len(s) - 1 /\ \A j \in 1 .. Len(s) - 1 : t[j] = s[j]
    <3> DEFINE m == Len(s) - 1
    <3>1. m \in Nat /\ m <= Len(s) /\ t = SubSeq(s, 1, m)
      BY <1>1, <2>1
    <3> HIDE DEF m
    <3>2. t \in Seq(SoundEntry) /\ Len(t) = m /\ \A j \in 1 .. m : t[j] = s[j]
      BY <3>1, PrefixIs
    <3> QED BY <3>2 DEF m
  <2>3. s[Len(s)].key = 0 /\ s[Len(s)].removed
    BY <1>2 DEF Hole
  <2> QED BY <1>1, <2>1, <2>2, <2>3
<1>3. CASE ~(s # <<>> /\ s[Len(s)] = [Hole EXCEPT !.removed = TRUE])
  <2>1. t = s
    BY <1>3 DEF Complete
  <2> QED BY <1>1, <2>1
<1> QED BY <1>2, <1>3

(* A sorted index has as many entries as the index, and the same ones.     *)
SameEntries(t, s) ==
    /\ Len(t) = Len(s)
    /\ \A i \in 1 .. Len(t) : \E j \in 1 .. Len(s) : t[i] = s[j]
    /\ \A j \in 1 .. Len(s) : \E i \in 1 .. Len(t) : t[i] = s[j]

(* A sorted index has the entries of the index it was made from.           *)
LEMMA SortedIs ==
  ASSUME NEW s \in Seq(SoundEntry), NEW t, t = SortedByKey(s)
  PROVE t \in Seq(SoundEntry) /\ SameEntries(t, s)
<1>1. \A e \in SoundEntry : e.key \in Nat /\ e.removed \in BOOLEAN
  BY EntryIs
<1>2. PICK f \in [DOMAIN s -> DOMAIN s] : Sorts(s, f)
  BY <1>1, SortIs
<1>3. /\ t = [p \in DOMAIN s |-> s[f[p]]]
      /\ \A i \in DOMAIN s : \E p \in DOMAIN s : f[p] = i
  BY <1>2 DEF Sorts
<1>4. Len(s) \in Nat /\ DOMAIN s = 1 .. Len(s) /\ \A j \in 1 .. Len(s) : s[j] \in SoundEntry
  BY SeqIs
<1>5. \A p \in 1 .. Len(s) : t[p] = s[f[p]] /\ f[p] \in 1 .. Len(s)
  BY <1>3, <1>4
<1>6. t \in [1 .. Len(s) -> SoundEntry]
  BY <1>3, <1>4, <1>5
<1>7. t \in Seq(SoundEntry) /\ Len(t) = Len(s)
  BY <1>4, <1>6
<1>8. \A i \in 1 .. Len(s) : \E p \in 1 .. Len(s) : f[p] = i
  BY <1>3, <1>4
<1>9. ASSUME NEW j \in 1 .. Len(s) PROVE \E i \in 1 .. Len(s) : t[i] = s[j]
  <2>1. PICK p \in 1 .. Len(s) : f[p] = j
    BY <1>8
  <2>2. t[p] = s[j]
    BY <1>5, <2>1
  <2> QED BY <2>2
<1>10. ASSUME NEW i \in 1 .. Len(s) PROVE \E j \in 1 .. Len(s) : t[i] = s[j]
  BY <1>5
<1> QED BY <1>7, <1>9, <1>10 DEF SameEntries

(* The last base is one of those that are open, and the last.              *)
LEMMA LastBaseIs ==
  ASSUME open \in SUBSET Bases, open # {}
  PROVE LastBase \in open /\ LastBase \in Bases /\ \A b \in open : b <= LastBase
<1>1. open \subseteq Nat /\ MaxBases \in Nat /\ \A b \in open : b <= MaxBases
  BY BoundsAssumption DEF Bases
<1>2. Max(open) \in open /\ \A b \in open : b <= Max(open)
  BY <1>1, MaxOf
<1> QED BY <1>2 DEF LastBase

(* The first base of a group is one of it.                                 *)
LEMMA FirstIs ==
  ASSUME NEW g \in SUBSET Bases, g # {}
  PROVE Min(g) \in g /\ Min(g) \in Bases /\ \A b \in g : Min(g) <= b
<1>1. g \subseteq Nat
  BY BoundsAssumption DEF Bases
<1> QED BY <1>1, MinOf

-----------------------------------------------------------------------------
(* What the invariant says of one state *)

(* The types of the files of a base.                                       *)
LEMMA FileIs ==
  ASSUME Types, NEW b \in Bases
  PROVE /\ data[b] # NoFile => data[b] \in Seq(Cell)
        /\ index[b] # NoFile /\ index[b] # Linked => index[b] \in Seq(SoundEntry)
        /\ sorted[b] # NoFile => sorted[b] \in Seq(SoundEntry)
        /\ indexSize[b] \in Nat /\ dataOffset[b] \in Nat /\ whole[b] \in BOOLEAN
BY DEF Types

(* The fields of an operation and of a location.                           *)
LEMMA OpFields ==
  ASSUME Types, NEW k \in Keys
  PROVE /\ op[k] \in Ops
        /\ op[k].pc \in {"idle", "index", "header", "mark", "markdata", "payload"}
        /\ op[k].ver \in Nat /\ op[k].base \in 0 .. MaxBases /\ op[k].at \in Nat
        /\ op[k].pos \in Nat /\ op[k].old \in Location \cup {NoLoc}
        /\ cache[k] \in Location \cup {NoLoc}
<1>1. op[k] \in Ops /\ cache[k] \in Location \cup {NoLoc}
  BY DEF Types
<1> QED BY <1>1 DEF Ops

(* The fields of a location.                                               *)
LEMMA LocFields ==
  ASSUME NEW l \in Location
  PROVE /\ l.base \in Bases /\ l.at \in Nat \ {0} /\ l.pos \in Nat \ {0} /\ l # NoLoc
        /\ l = [base |-> l.base, at |-> l.at, pos |-> l.pos]
BY NamesAssumption DEF Location

(* The fields of an operation that is not there.                           *)
LEMMA IdleFields ==
  /\ Idle.pc = "idle" /\ Idle.base = 0 /\ Idle.old = NoLoc /\ Idle.at = 0
  /\ Idle \in Ops
BY BoundsAssumption DEF Idle, Ops

(* A base is a number from one on.                                         *)
LEMMA BaseIs ==
  /\ MaxBases \in Nat
  /\ \A b \in Bases : b \in Nat /\ b # 0 /\ b \in 0 .. MaxBases /\ b <= MaxBases
BY BoundsAssumption DEF Bases

(* What a lookup finds is the location of the hash or, without one, an     *)
(* entry of the key in a sorted index.                                     *)
LEMMA LocationsAre ==
  ASSUME Types, OpenFiles, phase = "up", NEW k \in Keys, NEW l \in Locations(k)
  PROVE /\ l \in Location
        /\ \/ l = cache[k]
           \/ /\ cache[k] = NoLoc /\ l.base \in sortFd \ job.group
              /\ l.at \in 1 .. Len(sorted[l.base]) /\ sorted[l.base][l.at].key = k
<1>1. CASE cache[k] # NoLoc
  <2>1. l = cache[k]
    BY <1>1 DEF Locations
  <2> QED BY <1>1, <2>1, OpFields
<1>2. CASE cache[k] = NoLoc
  <2> DEFINE b == Max(OnDisk(k))
  <2>1. OnDisk(k) # {} /\ \E i \in Live(sorted[b], k) :
            l = [base |-> b, at |-> i, pos |-> sorted[b][i].pos]
    BY <1>2 DEF Locations
  <2>2. OnDisk(k) \subseteq sortFd \ job.group /\ sortFd \subseteq open /\ open \subseteq Bases
    BY DEF OnDisk, Types
  <2>3. b \in OnDisk(k)
    <3>1. OnDisk(k) \subseteq Nat /\ MaxBases \in Nat /\ \A c \in OnDisk(k) : c <= MaxBases
      <4>1. OnDisk(k) \subseteq Bases
        BY <2>2
      <4> QED BY <4>1, BaseIs
    <3> QED BY <2>1, <3>1, MaxOf
  <2> HIDE DEF b
  <2>4. PICK i \in Live(sorted[b], k) : l = [base |-> b, at |-> i, pos |-> sorted[b][i].pos]
    BY <2>1
  <2>5. b \in Bases /\ b \in sortFd \ job.group /\ b \in open
    BY <2>2, <2>3
  <2>6. sorted[b] \in Seq(SoundEntry)
    <3>1. sorted[b] # NoFile
      BY <2>5 DEF OpenFiles, Serving
    <3> QED BY <2>5, <3>1, FileIs
  <2>7. i \in DOMAIN sorted[b] /\ sorted[b][i].key = k
    BY <2>4 DEF Live
  <2>8. i \in 1 .. Len(sorted[b]) /\ i \in Nat \ {0} /\ sorted[b][i] \in SoundEntry
    BY <2>6, <2>7, SeqIs
  <2>9. sorted[b][i].pos \in Nat \ {0}
    <3>1. k # 0
      BY KeysAssumption
    <3> QED BY <2>7, <2>8, <3>1, EntryIs
  <2>10. l \in Location
    BY <2>4, <2>5, <2>8, <2>9 DEF Location
  <2>11. l.base = b /\ l.at = i
    BY <2>4
  <2> QED BY <1>2, <2>5, <2>7, <2>8, <2>10, <2>11
<1> QED BY <1>1, <1>2

(* The number of entries that are not being written.                       *)
LEMMA SettledIs ==
  ASSUME Types, OpsAre, NEW b \in Bases
  PROVE /\ Settled(b) \in Nat
        /\ mutex \notin Keys => Settled(b) = indexSize[b]
        /\ \A k \in Keys : mutex = k /\ op[k].base = b =>
              Settled(b) = indexSize[b] - 1 /\ op[k].at = Settled(b) + 1
        /\ \A k \in Keys : mutex = k /\ op[k].base # b => Settled(b) = indexSize[b]
<1>1. indexSize[b] \in Nat
  BY FileIs
<1>2. ASSUME NEW k \in Keys, mutex = k, op[k].base = b
      PROVE Settled(b) = indexSize[b] - 1 /\ op[k].at = indexSize[b] /\ op[k].at # 0
  <2>1. Settled(b) = indexSize[b] - 1
    BY <1>2 DEF Settled, Holding
  <2>2. OpIs(k, op[k]) /\ b # 0
    BY BaseIs DEF OpsAre
  <2> QED BY <1>2, <2>1, <2>2 DEF OpIs
<1>3. ASSUME NEW k \in Keys, mutex = k, op[k].base # b
      PROVE Settled(b) = indexSize[b]
  BY <1>3 DEF Settled, Holding
<1>4. mutex \notin Keys => Settled(b) = indexSize[b]
  BY DEF Settled, Holding
<1>5. Settled(b) \in Nat
  <2>1. CASE mutex \in Keys
    BY <1>1, <1>2, <1>3, <2>1
  <2>2. CASE mutex \notin Keys
    BY <1>1, <1>4, <2>2
  <2> QED BY <2>1, <2>2
<1>6. ASSUME NEW k \in Keys, mutex = k, op[k].base = b
      PROVE Settled(b) = indexSize[b] - 1 /\ op[k].at = Settled(b) + 1
  BY <1>1, <1>2, <1>6
<1> QED BY <1>3, <1>4, <1>5, <1>6

-----------------------------------------------------------------------------
(* Steps of an operation *)

(* What a step of the operation on k leaves alone of the index of a base:  *)
(* entries of other keys, unless they were left behind, and missing ones.  *)
EntriesStay(k, b) ==
    /\ index'[b] \in Seq(SoundEntry) /\ Len(index'[b]) >= Len(index[b])
    /\ \A i \in 1 .. Len(index[b]) :
          (i <= Settled(b) \/ mutex # k) /\ index[b][i].key \notin {0, k} =>
              index'[b][i] = index[b][i]
    /\ \A i \in 1 .. Len(index'[b]) :
          i <= Settled(b) /\ (i > Len(index[b]) \/ index[b][i].key = 0) =>
              index'[b][i].key = 0

KeysStay(b) ==
    /\ sorted'[b] \in Seq(SoundEntry) /\ Len(sorted'[b]) = Len(sorted[b])
    /\ \A i \in 1 .. Len(sorted[b]) : sorted'[b][i].key = sorted[b][i].key
    /\ index'[b] = index[b]

(* The bases an operation can see.                                         *)
Visible == open \ job.group

Client(k) ==
    /\ phase = "up" /\ phase' = "up" /\ sortFd' = sortFd /\ job' = job /\ chunk' = chunk
    /\ open \subseteq open' /\ (open' # open => mutex = Nobody)
    /\ \A j \in Keys : j # k => op'[j] = op[j] /\ cache'[j] = cache[j]
                                /\ (mutex' = j <=> mutex = j)
    /\ mutex' = Sorter <=> mutex = Sorter
    /\ \A j \in Keys : j # k /\ mutex = j =>
          open' = open /\ indexSize' = indexSize /\ dataOffset' = dataOffset
    /\ \A b \in Visible : Settled(b)' >= Settled(b)
    /\ \A b \in job.group : data'[b] = data[b] /\ index'[b] = index[b] /\ sorted'[b] = sorted[b]
    /\ \A b \in Visible : data'[b] \in Seq(Cell) /\ Len(data'[b]) >= Len(data[b])
    /\ \A b \in Visible \cap sortFd : KeysStay(b)
    /\ \A b \in Visible \ sortFd : sorted'[b] = NoFile /\ EntriesStay(k, b)
    /\ \A b \in open' \ open : /\ data'[b] \in Seq(Cell) /\ index'[b] \in Seq(SoundEntry)
                               /\ sorted'[b] = NoFile
    /\ \A b \in Bases \ open' : data'[b] = data[b] /\ index'[b] = index[b]
                                /\ sorted'[b] = sorted[b]

(* The state in which a step is taken.                                     *)
LEMMA VisibleIs ==
  ASSUME Types, OpenFiles, phase = "up", NEW b \in Visible
  PROVE /\ b \in Bases /\ b \in open /\ data[b] \in Seq(Cell)
        /\ b \in sortFd => sorted[b] \in Seq(SoundEntry) /\ sorted[b] # <<>> /\ index[b] # NoFile
        /\ b \notin sortFd => index[b] \in Seq(SoundEntry) /\ sorted[b] = NoFile
<1>1. b \in Bases /\ b \in open /\ b \in open \ job.group
  BY DEF Visible, Types
<1>2. /\ data[b] # NoFile
      /\ b \in sortFd => sorted[b] # NoFile /\ sorted[b] # <<>> /\ index[b] # NoFile
      /\ b \notin sortFd => sorted[b] = NoFile /\ index[b] # NoFile /\ index[b] # Linked
  BY <1>1 DEF OpenFiles, Serving
<1> QED BY <1>1, <1>2, FileIs

(* A location stays one.                                                   *)
LEMMA LocStays ==
  ASSUME Types, OpenFiles, OpsAre, NEW k \in Keys, Client(k),
         \A b \in Visible : Settled(b)' \in Nat,
         NEW l \in Location, LocIs(l)
  PROVE LocIs(l)' /\ l.base \in Visible
<1>1. l.base \in Visible /\ l.base \in open \ job.group /\ l.at \in Nat
  BY LocFields DEF LocIs, Visible
<1>2. l.base \in open' \ job'.group /\ sortFd' = sortFd
  BY <1>1 DEF Client
<1>3. l.base \in sortFd => l.at <= Len(sorted'[l.base])
  BY <1>1 DEF LocIs, Client, KeysStay
<1>4. l.base \notin sortFd => l.at <= Settled(l.base)'
  <2>1. Settled(l.base)' >= Settled(l.base)
    BY <1>1 DEF Client
  <2>2. Settled(l.base) \in Nat /\ Settled(l.base)' \in Nat
    BY <1>1, SettledIs, VisibleIs DEF Client
  <2> HIDE DEF Settled
  <2> QED BY <1>1, <2>1, <2>2 DEF LocIs
<1> QED BY <1>1, <1>2, <1>3, <1>4 DEF LocIs

(* Other operations are where they were.                                   *)
LEMMA OthersStay ==
  ASSUME Types, OpenFiles, OpsAre, NEW k \in Keys, Client(k),
         \A b \in Visible : Settled(b)' \in Nat,
         NEW j \in Keys, j # k
  PROVE (\A o \in {op[j]} : OpIs(j, o))'
<1>0. PICK o : o = op[j]
  OBVIOUS
<1> DEFINE b == o.base
<1>1. OpIs(j, o) /\ op'[j] = o /\ (mutex' = j <=> mutex = j)
  BY <1>0 DEF OpsAre, Client
<1>2. o.pc \in {"idle", "index", "header", "mark", "markdata", "payload"} /\ o.at \in Nat
      /\ o.pos \in Nat /\ o.old \in Location \cup {NoLoc} /\ j # 0
  BY <1>0, OpFields, KeysAssumption
<1>3. /\ o.pc = "idle" => o = Idle
      /\ o.pc \in {"index", "header"} => mutex' = j
      /\ o.pc \in {"mark", "markdata"} => (mutex' = j <=> b # 0)
      /\ o.pc = "payload" => b # 0
      /\ o.pc = "markdata" => o.old # NoLoc
      /\ o.pc # "idle" /\ b = 0 => o.old # NoLoc
  BY <1>1 DEF OpIs
<1>4. mutex' = j =>
          /\ o.pc \in {"index", "header", "mark", "markdata"}
          /\ b # 0 /\ b = LastBase' /\ o.at = indexSize'[b] /\ o.pos = dataOffset'[b]
  <2>1. mutex = j => open' = open /\ indexSize' = indexSize /\ dataOffset' = dataOffset
    BY DEF Client
  <2>2. open' = open => LastBase' = LastBase
    BY DEF LastBase
  <2> QED BY <1>1, <2>1, <2>2 DEF OpIs
<1>5. b # 0 =>
          /\ b \in open' \ (sortFd' \cup job'.group)
          /\ o.at # 0 /\ o.pos # 0
          /\ mutex' # j => o.at <= Settled(b)'
          /\ o.pc # "index" => o.at <= Len(index'[b]) /\ Mine(j, index'[b][o.at])
          /\ o.pc \notin {"index", "header"} => o.pos <= Len(data'[b])
  <2> SUFFICES ASSUME b # 0
               PROVE  /\ b \in open' \ (sortFd' \cup job'.group)
                      /\ o.at # 0 /\ o.pos # 0
                      /\ mutex' # j => o.at <= Settled(b)'
                      /\ o.pc # "index" => o.at <= Len(index'[b]) /\ Mine(j, index'[b][o.at])
                      /\ o.pc \notin {"index", "header"} => o.pos <= Len(data'[b])
    OBVIOUS
  <2>1. /\ b \in open \ (sortFd \cup job.group)
        /\ o.at # 0 /\ o.pos # 0
        /\ mutex # j => o.at <= Settled(b)
        /\ o.pc # "index" => o.at <= Len(index[b]) /\ Mine(j, index[b][o.at])
        /\ o.pc \notin {"index", "header"} => o.pos <= Len(data[b])
    BY <1>1 DEF OpIs
  <2>2. b \in Visible \ sortFd /\ b \in Visible
    BY <2>1 DEF Visible
  <2> HIDE DEF b
  <2>3. b \in open' \ (sortFd' \cup job'.group)
    BY <2>1 DEF Client
  <2>4. /\ Settled(b)' >= Settled(b) /\ Settled(b) \in Nat /\ Settled(b)' \in Nat
        /\ Len(index[b]) \in Nat /\ Len(data[b]) \in Nat /\ Len(data'[b]) \in Nat
        /\ Len(index'[b]) \in Nat
        /\ Len(data'[b]) >= Len(data[b]) /\ EntriesStay(k, b)
    <3>1. /\ Settled(b)' >= Settled(b) /\ data'[b] \in Seq(Cell)
          /\ Len(data'[b]) >= Len(data[b]) /\ EntriesStay(k, b)
      BY <2>2 DEF Client
    <3>2. index[b] \in Seq(SoundEntry) /\ data[b] \in Seq(Cell) /\ b \in Bases
      BY <2>2, VisibleIs DEF Client
    <3>3. Settled(b) \in Nat /\ Settled(b)' \in Nat
      BY <2>2, <3>2, SettledIs
    <3>4. index'[b] \in Seq(SoundEntry)
      BY <3>1 DEF EntriesStay
    <3> QED BY <3>1, <3>2, <3>3, <3>4, SeqIs
  <2>5. mutex' # j => o.at <= Settled(b)'
    BY <1>1, <1>2, <2>1, <2>4
  <2>6. ASSUME o.pc # "index"
        PROVE  o.at <= Len(index'[b]) /\ Mine(j, index'[b][o.at])
    <3>1. o.at \in 1 .. Len(index[b]) /\ Mine(j, index[b][o.at])
      BY <1>2, <2>1, <2>4, <2>6
    <3>2. index[b][o.at].key \notin {0, k}
      BY <1>2, <3>1 DEF Mine
    <3>3. o.at <= Settled(b) \/ mutex # k
      BY <2>1
    <3>4. index'[b][o.at] = index[b][o.at] /\ Len(index'[b]) >= Len(index[b])
      BY <2>4, <3>1, <3>2, <3>3 DEF EntriesStay
    <3> QED BY <2>4, <3>1, <3>4
  <2>7. o.pc \notin {"index", "header"} => o.pos <= Len(data'[b])
    BY <1>2, <2>1, <2>4
  <2> QED BY <2>1, <2>3, <2>5, <2>6, <2>7
<1>6. o.old # NoLoc => LocIs(o.old)'
  <2>1. o.old # NoLoc => LocIs(o.old)
    BY <1>1 DEF OpIs
  <2> QED BY <1>2, <2>1, LocStays
<1>7. OpIs(j, o)'
  BY <1>3, <1>4, <1>5, <1>6 DEF OpIs
<1> QED BY <1>1, <1>7

(* Where a mark will go is the location of a record.                       *)
LEMMA PendingIs ==
  ASSUME Types, OpsAre, CacheIs, NEW k \in Keys, NEW l, l = Pending(k), l # NoLoc
  PROVE l \in Location /\ LocIs(l)
<1>1. CASE op[k] = Idle
  <2>1. l = cache[k]
    BY <1>1 DEF Pending
  <2> QED BY <1>1, <2>1, OpFields DEF CacheIs
<1>2. CASE op[k] # Idle
  <2>1. l = op[k].old
    BY <1>2 DEF Pending
  <2>2. OpIs(k, op[k])
    BY DEF OpsAre
  <2> QED BY <2>1, <2>2, OpFields DEF OpIs
<1> QED BY <1>1, <1>2

(* The location of another operation is as good as it was.                 *)
LEMMA OtherStray ==
  ASSUME Types, OpenFiles, OpsAre, CacheIs, StraysAre, NEW k \in Keys, Client(k),
         \A b \in Visible : Settled(b)' \in Nat,
         NEW j \in Keys, j # k, NEW l, l = Pending(j), l # NoLoc
  PROVE l = Pending(j)' /\ (Good(j, l)' <=> Good(j, l))
<1>1. l = Pending(j)' /\ cache'[j] = cache[j]
  BY DEF Pending, Client
<1>2. PICK b : b = l.base
  OBVIOUS
<1>3. l \in Location /\ LocIs(l)
  BY PendingIs
<1>4. b \in Visible /\ l.at \in Nat \ {0} /\ j # 0 /\ b \in Bases
  BY <1>2, <1>3, LocFields, KeysAssumption DEF LocIs, Visible
<1>5. sortFd' = sortFd /\ phase = "up"
  BY DEF Client
<1>6. CASE b \in sortFd
  <2>1. l.at \in 1 .. Len(sorted[b])
    <3>1. l.at <= Len(sorted[b])
      BY <1>2, <1>3, <1>6 DEF LocIs
    <3>2. Len(sorted[b]) \in Nat
      BY <1>4, <1>5, <1>6, VisibleIs, SeqIs
    <3> QED BY <1>4, <3>1, <3>2
  <2>2. sorted'[b][l.at].key = sorted[b][l.at].key
    BY <1>4, <1>6, <2>1 DEF Client, KeysStay
  <2> QED BY <1>1, <1>2, <1>5, <1>6, <2>2 DEF Good
<1>7. CASE b \notin sortFd
  <2>1. index[b] \in Seq(SoundEntry) /\ EntriesStay(k, b) /\ index'[b] \in Seq(SoundEntry)
    BY <1>4, <1>5, <1>7, VisibleIs DEF Client, EntriesStay
  <2>2. /\ DOMAIN index[b] = 1 .. Len(index[b]) /\ DOMAIN index'[b] = 1 .. Len(index'[b])
        /\ Len(index[b]) \in Nat /\ Len(index'[b]) \in Nat
    BY <2>1, SeqIs
  <2>3. l.at <= Settled(b)
    BY <1>2, <1>3, <1>7 DEF LocIs
  <2>4. Good(j, l) <=> l.at \in 1 .. Len(index[b]) /\ Mine(j, index[b][l.at])
    BY <1>2, <1>7, <2>2 DEF Good
  <2>5. Good(j, l)' <=> l.at \in 1 .. Len(index'[b]) /\ Mine(j, index'[b][l.at])
    BY <1>2, <1>5, <1>7, <2>2 DEF Good
  <2>6. CASE l.at \in 1 .. Len(index[b]) /\ Mine(j, index[b][l.at])
    <3>1. index[b][l.at].key \notin {0, k}
      BY <1>4, <2>6 DEF Mine
    <3>2. index'[b][l.at] = index[b][l.at] /\ Len(index'[b]) >= Len(index[b])
      BY <2>1, <2>3, <2>6, <3>1 DEF EntriesStay
    <3>3. l.at \in 1 .. Len(index'[b])
      BY <2>2, <2>6, <3>2
    <3> QED BY <1>1, <2>4, <2>5, <2>6, <3>2, <3>3
  <2>7. CASE ~(l.at \in 1 .. Len(index[b]) /\ Mine(j, index[b][l.at]))
    <3>1. Stray(j, l, b) /\ b \in open
      BY <1>2, <1>4, <2>4, <2>7 DEF Stray, Visible
    <3>2. l.at \in 1 .. Len(index[b]) => index[b][l.at].key = 0
      BY <1>7, <2>2, <3>1 DEF StraysAre
    <3>3. l.at > Len(index[b]) \/ index[b][l.at].key = 0
      BY <1>4, <2>2, <3>2
    <3>4. l.at \in 1 .. Len(index'[b]) => index'[b][l.at].key = 0
      BY <2>1, <2>3, <3>3 DEF EntriesStay
    <3>5. ~Good(j, l)'
      BY <1>4, <2>5, <3>4 DEF Mine
    <3> QED BY <1>1, <2>4, <2>7, <3>5
  <2> QED BY <2>6, <2>7
<1> QED BY <1>6, <1>7

(* What an operation has to show about locations whose entry is gone.      *)
LEMMA StraysStay ==
  ASSUME Types, OpenFiles, OpsAre, CacheIs, StraysAre, NEW k \in Keys, Client(k),
         \A b \in Visible : Settled(b)' \in Nat,
         \A l, b : l = Pending(k)' /\ Stray(k, l, b)' => l = Pending(k) /\ Stray(k, l, b),
         \A b \in Visible \ sortFd : Strays(b)' # {} /\ Cut(b) =>
            (Cut(b)' /\ Settled(b)' = Settled(b)) \/ HasHole(b)',
         \A b \in Visible : Strays(b)' # {} /\ HasHole(b) => HasHole(b)'
  PROVE StraysAre'
<1>1. ASSUME NEW j \in Keys, NEW l, NEW b, l = Pending(j)', Stray(j, l, b)'
      PROVE  l = Pending(j) /\ Stray(j, l, b)
  <2>1. CASE j = k
    BY <1>1, <2>1
  <2>2. CASE j # k
    <3>1. Pending(j)' = Pending(j) /\ l # NoLoc /\ l.base = b /\ ~Good(j, l)'
      BY <1>1, <2>2 DEF Pending, Client, Stray
    <3>2. Good(j, l)' <=> Good(j, l)
      BY <1>1, <2>2, <3>1, OtherStray
    <3> QED BY <1>1, <3>1, <3>2 DEF Stray
  <2> QED BY <2>1, <2>2
<1>2. \A b : Strays(b)' \subseteq Strays(b)
  BY <1>1 DEF Strays
<1>3. SUFFICES ASSUME NEW b \in open', NEW j \in Keys, NEW l, l = Pending(j)', Stray(j, l, b)'
               PROVE  /\ \A i \in Strays(b)' : i = j
                      /\ (b \notin sortFd' /\ Cut(b)' /\ l.at < Settled(b)') \/ HasHole(b)'
                      /\ b \notin sortFd' /\ l.at \in DOMAIN index'[b] => index'[b][l.at].key = 0
  BY DEF StraysAre
<1>4. l = Pending(j) /\ Stray(j, l, b) /\ l # NoLoc /\ l.base = b
  BY <1>1, <1>3 DEF Stray
<1>5. l \in Location /\ LocIs(l)
  BY <1>4, PendingIs
<1>6. b \in Visible /\ b \in open /\ l.at \in Nat \ {0}
  BY <1>4, <1>5, LocFields DEF LocIs, Visible
<1>7. /\ \A i \in Strays(b) : i = j
      /\ (b \notin sortFd /\ Cut(b) /\ l.at < Settled(b)) \/ HasHole(b)
      /\ b \notin sortFd /\ l.at \in DOMAIN index[b] => index[b][l.at].key = 0
  BY <1>4, <1>6 DEF StraysAre
<1>8. sortFd' = sortFd /\ phase = "up"
  BY DEF Client
<1>9. Strays(b)' # {}
  BY <1>3 DEF Strays
<1>10. b \notin sortFd /\ l.at \in DOMAIN index'[b] => index'[b][l.at].key = 0
  <2> SUFFICES ASSUME b \notin sortFd, l.at \in DOMAIN index'[b] PROVE index'[b][l.at].key = 0
    OBVIOUS
  <2>1. index[b] \in Seq(SoundEntry) /\ EntriesStay(k, b) /\ index'[b] \in Seq(SoundEntry)
    BY <1>6, <1>8, VisibleIs DEF Client, EntriesStay
  <2>2. /\ DOMAIN index[b] = 1 .. Len(index[b]) /\ DOMAIN index'[b] = 1 .. Len(index'[b])
        /\ Len(index[b]) \in Nat /\ Len(index'[b]) \in Nat
    BY <2>1, SeqIs
  <2>3. l.at <= Settled(b)
    BY <1>4, <1>5 DEF LocIs
  <2>4. l.at > Len(index[b]) \/ index[b][l.at].key = 0
    BY <1>6, <1>7, <2>2
  <2> QED BY <2>1, <2>2, <2>3, <2>4 DEF EntriesStay
<1> QED BY <1>2, <1>6, <1>7, <1>8, <1>9, <1>10

(* The files of the sorter's group are left alone, and the job with them.  *)
LEMMA JobStays ==
  ASSUME Types, JobIs, NEW k \in Keys, Client(k), open' \in SUBSET Bases
  PROVE JobIs'
<1>1. /\ job' = job /\ chunk' = chunk /\ sortFd' = sortFd /\ open \subseteq open'
      /\ mutex' = Sorter <=> mutex = Sorter
      /\ phase' = phase
      /\ open' # open => mutex = Nobody
      /\ \A b \in job.group :
            data'[b] = data[b] /\ index'[b] = index[b] /\ sorted'[b] = sorted[b]
  BY DEF Client
<1>2. /\ job'.todo = <<>> <=> job' = NoJob
      /\ mutex' = Sorter <=> job'.todo # <<>>
      /\ phase' = "up" /\ chunk' # NoFile => job'.todo # <<>>
  BY <1>1 DEF JobIs
<1>3. ASSUME job.todo # <<>>
      PROVE  /\ open' # {} /\ job'.group # {} /\ job'.left \subseteq job'.group
             /\ \A b \in job'.group : b < LastBase'
             /\ (\E first \in {Min(job'.group)} : Merging(first)') \/ Removing'
  <2>1. open' = open
    BY <1>1, <1>3, NamesAssumption DEF JobIs
  <2>2. LastBase' = LastBase
    BY <2>1 DEF LastBase
  <2>3. /\ open # {} /\ job.group # {} /\ job.left \subseteq job.group
        /\ \A b \in job.group : b < LastBase
        /\ (\E first \in {Min(job.group)} : Merging(first)) \/ Removing
    BY <1>3 DEF JobIs
  <2>4. \A c \in job.group : (Dropping(c) => Dropping(c)') /\ (Gone(c) => Gone(c)')
                             /\ (Moving(c) => Moving(c)')
    BY <1>1 DEF Dropping, Gone, Moving
  <2>5. ASSUME NEW first, first = Min(job.group), Merging(first)
        PROVE  Merging(first)'
    <3>1. first \in job.group
      <4>1. job.group \in SUBSET Bases
        BY DEF Types
      <4> QED BY <2>3, <2>5, <4>1, FirstIs
    <3> QED BY <1>1, <2>1, <2>4, <2>5, <3>1 DEF Merging
  <2>6. Removing => Removing'
    BY <1>1, <2>1, <2>4 DEF Removing
  <2> QED BY <1>1, <2>1, <2>2, <2>3, <2>5, <2>6
<1> QED BY <1>1, <1>2, <1>3 DEF JobIs

(* So are all files that a lookup sees.                                    *)
LEMMA OpenStays ==
  ASSUME Types, OpenFiles, NEW k \in Keys, Client(k), open' \in SUBSET Bases
  PROVE OpenFiles'
<1>1. /\ job' = job /\ sortFd' = sortFd /\ open \subseteq open' /\ phase = "up"
  BY DEF Client
<1>2. Found' \subseteq open' \cup job'.group
  <2>1. SUFFICES ASSUME NEW b \in Bases, data'[b] # NoFile, b \notin open' PROVE b \in job.group
    BY <1>1 DEF Found
  <2>2. data'[b] = data[b]
    BY <2>1 DEF Client
  <2>3. b \in Found /\ b \notin open
    BY <1>1, <2>1, <2>2 DEF Found
  <2> QED BY <1>1, <2>3 DEF OpenFiles, Serving
<1>3. ASSUME NEW b \in open' \ job'.group
      PROVE  /\ data'[b] # NoFile
             /\ b \in sortFd' => sorted'[b] \notin {NoFile, <<>>} /\ index'[b] # NoFile
             /\ b \notin sortFd' => sorted'[b] = NoFile /\ index'[b] \notin {NoFile, Linked}
  <2>1. CASE b \in open
    <3>1. b \in Visible /\ data'[b] \in Seq(Cell)
      BY <1>1, <1>3, <2>1 DEF Visible, Client
    <3>2. CASE b \in sortFd
      <4>1. KeysStay(b)
        BY <3>1, <3>2 DEF Client
      <4>2. sorted[b] \in Seq(SoundEntry) /\ sorted[b] # <<>> /\ index[b] # NoFile
        BY <1>1, <3>1, <3>2, VisibleIs
      <4>3. sorted'[b] \in Seq(SoundEntry) /\ Len(sorted'[b]) = Len(sorted[b])
        BY <4>1 DEF KeysStay
      <4>4. sorted'[b] # <<>>
        BY <4>2, <4>3, SeqIs
      <4> QED BY <1>1, <3>1, <3>2, <4>1, <4>2, <4>3, <4>4, FilesDiffer DEF KeysStay
    <3>3. CASE b \notin sortFd
      <4>1. sorted'[b] = NoFile /\ index'[b] \in Seq(SoundEntry)
        BY <3>1, <3>3 DEF Client, EntriesStay
      <4> QED BY <1>1, <3>1, <3>3, <4>1, FilesDiffer
    <3> QED BY <3>2, <3>3
  <2>2. CASE b \notin open
    <3>1. data'[b] \in Seq(Cell) /\ index'[b] \in Seq(SoundEntry) /\ sorted'[b] = NoFile
      BY <1>3, <2>2 DEF Client
    <3>2. b \notin sortFd
      BY <2>2 DEF Types
    <3> QED BY <1>1, <3>1, <3>2, FilesDiffer
  <2> QED BY <2>1, <2>2
<1> QED BY <1>2, <1>3 DEF OpenFiles

(* What the names of the files and their lengths promise.                  *)
LEMMA FilesStay ==
  ASSUME Types, OpenFiles, LinkedIs, Named, SortedMatchesIndex, NEW k \in Keys, Client(k),
         open' \in SUBSET Bases
  PROVE LinkedIs' /\ Named' /\ SortedMatchesIndex'
<1>1. /\ job' = job /\ sortFd' = sortFd /\ open \subseteq open' /\ phase = "up"
  BY DEF Client
<1>2. ASSUME NEW b \in Bases
      PROVE \/ data'[b] = data[b] /\ index'[b] = index[b] /\ sorted'[b] = sorted[b]
            \/ /\ b \in Visible \cap sortFd /\ data'[b] \in Seq(Cell) /\ data[b] # NoFile
               /\ KeysStay(b) /\ sorted[b] # NoFile /\ index[b] # NoFile
            \/ data'[b] \in Seq(Cell) /\ index'[b] \in Seq(SoundEntry) /\ sorted'[b] = NoFile
  <2>1. CASE b \notin open' \/ b \in job.group
    BY <2>1 DEF Client
  <2>2. CASE b \in open' \ open
    BY <2>2 DEF Client
  <2>3. CASE b \in Visible \cap sortFd
    <3>1. b \in Visible
      BY <2>3
    <3>2. data[b] \in Seq(Cell) /\ sorted[b] \in Seq(SoundEntry) /\ index[b] # NoFile
      BY <1>1, <2>3, <3>1, VisibleIs
    <3>3. KeysStay(b) /\ data'[b] \in Seq(Cell)
      BY <2>3, <3>1 DEF Client
    <3> QED BY <2>3, <3>2, <3>3, FilesDiffer
  <2>4. CASE b \in Visible \ sortFd
    BY <2>4 DEF Client, EntriesStay
  <2> QED BY <2>1, <2>2, <2>3, <2>4 DEF Visible
<1>3. LinkedIs'
  <2>1. \A b \in Bases : (index[b] = Linked => sorted[b] # NoFile) /\ sorted[b] # <<>>
    BY DEF LinkedIs
  <2>2. ASSUME NEW b \in Bases, index'[b] = Linked PROVE sorted'[b] # NoFile
    BY <1>2, <2>1, <2>2, FilesDiffer DEF KeysStay
  <2>3. ASSUME NEW b \in Bases PROVE sorted'[b] # <<>>
    <3>1. CASE KeysStay(b) /\ b \in Visible \cap sortFd
      <4>1. sorted[b] \in Seq(SoundEntry)
        BY <1>1, <3>1, VisibleIs
      <4>2. Len(sorted[b]) # 0 /\ sorted'[b] \in Seq(SoundEntry) /\ Len(sorted'[b]) = Len(sorted[b])
        BY <2>1, <3>1, <4>1, SeqIs DEF KeysStay
      <4> QED BY <4>2, SeqIs
    <3> QED BY <1>2, <2>1, <3>1, FilesDiffer
  <2> QED BY <2>2, <2>3 DEF LinkedIs
<1>4. Named'
  <2>1. SUFFICES ASSUME NEW b \in Bases, index'[b] # NoFile \/ sorted'[b] # NoFile
                 PROVE  \E c \in Found' : b <= c
    BY DEF Named
  <2>2. Found \subseteq Found'
    BY <1>2, FilesDiffer DEF Found
  <2>3. CASE data'[b] \in Seq(Cell)
    <3>1. b \in Found' /\ b <= b
      BY <2>3, FilesDiffer, BaseIs DEF Found
    <3> QED BY <3>1
  <2>4. CASE index'[b] = index[b] /\ sorted'[b] = sorted[b]
    BY <2>1, <2>2, <2>4 DEF Named
  <2> QED BY <1>2, <2>3, <2>4
<1>5. SortedMatchesIndex'
  <2>1. SUFFICES ASSUME NEW b \in Bases, data'[b] # NoFile, sorted'[b] # NoFile,
                        index'[b] # NoFile
                 PROVE  Len(sorted'[b]) = Len(IndexFile(b)')
    BY DEF SortedMatchesIndex
  <2>2. data[b] # NoFile /\ sorted[b] # NoFile /\ index[b] # NoFile =>
            Len(sorted[b]) = Len(IndexFile(b))
    BY DEF SortedMatchesIndex
  <2>3. CASE data'[b] = data[b] /\ index'[b] = index[b] /\ sorted'[b] = sorted[b]
    BY <2>1, <2>2, <2>3 DEF IndexFile
  <2>4. CASE /\ data[b] # NoFile /\ KeysStay(b) /\ sorted[b] # NoFile /\ index[b] # NoFile
    BY <2>2, <2>4 DEF IndexFile, KeysStay
  <2> QED BY <1>2, <2>1, <2>3, <2>4
<1> QED BY <1>3, <1>4, <1>5

(* What is left to be shown of a step of the operation on k.               *)
Left(k) ==
    /\ Types' /\ Whole' /\ Unsorteds' /\ Fresh'
    /\ \A b \in Visible : Settled(b)' \in Nat
    /\ (\A o \in {op[k]} : OpIs(k, o))'
    /\ (\A l \in {cache[k]} : l # NoLoc => IF op[k] = Idle THEN LocIs(l) ELSE l = op[k].old)'
    /\ \A l, b : l = Pending(k)' /\ Stray(k, l, b)' => l = Pending(k) /\ Stray(k, l, b)
    /\ \A b \in Visible \ sortFd : Strays(b)' # {} /\ Cut(b) =>
          (Cut(b)' /\ Settled(b)' = Settled(b)) \/ HasHole(b)'
    /\ \A b \in Visible : Strays(b)' # {} /\ HasHole(b) => HasHole(b)'

(* A step of a client that keeps what its operation relies on keeps the    *)
(* invariant.                                                              *)
LEMMA ClientKeeps ==
  ASSUME Inv, NEW k \in Keys, Client(k), Left(k)
  PROVE Inv'
<1>1. /\ Types /\ LinkedIs /\ Named /\ SortedMatchesIndex /\ OpenFiles /\ JobIs /\ OpsAre
      /\ CacheIs /\ StraysAre
  BY DEF Inv
<1>2. Types' /\ Whole' /\ Unsorteds' /\ Fresh' /\ \A b \in Visible : Settled(b)' \in Nat
  BY DEF Left
<1>3. open' \in SUBSET Bases
  BY <1>2 DEF Types
<1>4. LinkedIs' /\ Named' /\ SortedMatchesIndex' /\ OpenFiles' /\ JobIs'
  BY <1>1, <1>3, FilesStay, OpenStays, JobStays
<1>5. Resting'
  BY DEF Resting, Client
<1>6. OpsAre'
  <2>1. ASSUME NEW j \in Keys, j # k PROVE (\A o \in {op[j]} : OpIs(j, o))'
    BY <1>1, <1>2, <2>1, OthersStay
  <2>2. (\A o \in {op[k]} : OpIs(k, o))'
    BY DEF Left
  <2> QED BY <2>1, <2>2 DEF OpsAre
<1>7. CacheIs'
  <2>1. ASSUME NEW j \in Keys, j # k, NEW l, l = cache'[j], l # NoLoc
        PROVE  IF op'[j] = Idle THEN LocIs(l)' ELSE l = op'[j].old
    <3>1. l = cache[j] /\ op'[j] = op[j]
      BY <2>1 DEF Client
    <3>2. IF op[j] = Idle THEN LocIs(l) ELSE l = op[j].old
      BY <1>1, <2>1, <3>1 DEF CacheIs
    <3>3. l \in Location
      BY <1>1, <2>1, <3>1, OpFields
    <3>4. LocIs(l) => LocIs(l)'
      BY <1>1, <1>2, <3>3, LocStays
    <3> QED BY <3>1, <3>2, <3>4
  <2>2. (\A l \in {cache[k]} : l # NoLoc => IF op[k] = Idle THEN LocIs(l) ELSE l = op[k].old)'
    BY DEF Left
  <2>3. ASSUME NEW j \in Keys, NEW l, l = cache'[j], l # NoLoc
        PROVE  IF op'[j] = Idle THEN LocIs(l)' ELSE l = op'[j].old
    <3>1. CASE j = k
      BY <2>2, <2>3, <3>1
    <3>2. CASE j # k
      BY <2>1, <2>3, <3>2
    <3> QED BY <3>1, <3>2
  <2> QED BY <2>3 DEF CacheIs
<1>8. StraysAre'
  BY <1>1, <1>2, StraysStay DEF Left
<1> QED BY <1>2, <1>4, <1>5, <1>6, <1>7, <1>8 DEF Inv

(* Nothing changes for the sizes while b->lock stays with the same write.  *)
LEMMA SettledSame ==
  ASSUME NEW b, mutex' = mutex, indexSize' = indexSize,
         \A j \in Keys : mutex = j => op'[j].base = op[j].base
  PROVE Settled(b)' = Settled(b)
BY DEF Settled, Holding

(* A base whose index and sizes are the same.                              *)
LEMMA HolesSame ==
  ASSUME NEW b, open' = open, sortFd' = sortFd, index'[b] = index[b], sorted'[b] = sorted[b],
         Settled(b)' = Settled(b)
  PROVE (Cut(b)' <=> Cut(b)) /\ (HasHole(b)' <=> HasHole(b))
<1>1. LastBase' = LastBase
  BY DEF LastBase
<1>2. IndexFd(b)' = IndexFd(b)
  BY DEF IndexFd, IndexFile
<1> HIDE DEF Settled
<1>3. Cut(b)' <=> Cut(b)
  BY <1>1 DEF Cut
<1>4. HasHole(b)' <=> HasHole(b)
  BY <1>2 DEF HasHole
<1> QED BY <1>3, <1>4

(* The entries of a base that nobody has written to.                       *)
LEMMA EntriesSame ==
  ASSUME Types, OpenFiles, phase = "up", NEW k, NEW b \in Visible,
         index'[b] = index[b], sorted'[b] = sorted[b]
  PROVE /\ b \in sortFd => KeysStay(b)
        /\ b \notin sortFd => sorted'[b] = NoFile /\ EntriesStay(k, b)
<1>1. /\ b \in sortFd => sorted[b] \in Seq(SoundEntry)
      /\ b \notin sortFd => index[b] \in Seq(SoundEntry) /\ sorted[b] = NoFile
  BY VisibleIs
<1>2. b \in sortFd => Len(sorted[b]) \in Nat
  BY <1>1, SeqIs
<1>3. b \notin sortFd => Len(index[b]) \in Nat
  BY <1>1, SeqIs
<1>4. b \in sortFd => KeysStay(b)
  BY <1>1, <1>2 DEF KeysStay
<1>5. b \notin sortFd => EntriesStay(k, b)
  BY <1>1, <1>3 DEF EntriesStay
<1> QED BY <1>1, <1>4, <1>5

(* A step that writes to no file.                                          *)
Quiet(k) ==
    /\ phase = "up" /\ phase' = phase /\ open' = open /\ sortFd' = sortFd /\ job' = job
    /\ data' = data /\ whole' = whole /\ index' = index /\ sorted' = sorted /\ chunk' = chunk
    /\ \A j \in Keys : j # k => op'[j] = op[j] /\ cache'[j] = cache[j]
                                /\ (mutex' = j <=> mutex = j)
    /\ mutex' = Sorter <=> mutex = Sorter
    /\ \A j \in Keys : j # k /\ mutex = j => indexSize' = indexSize /\ dataOffset' = dataOffset
    /\ \A b \in Visible : Settled(b)' \in Nat /\ Settled(b)' >= Settled(b)

(* A step that writes no file disturbs none.                               *)
LEMMA QuietIs ==
  ASSUME Inv, NEW k \in Keys, Quiet(k)
  PROVE Client(k) /\ Whole' /\ \A b \in Visible : Settled(b)' \in Nat
<1>1. Types /\ OpenFiles /\ phase = "up"
  BY DEF Inv, Quiet
<1>2. Whole'
  BY DEF Inv, Whole, Quiet, Found
<1>3. \A b \in Visible : /\ b \in sortFd => KeysStay(b)
                         /\ b \notin sortFd => sorted'[b] = NoFile /\ EntriesStay(k, b)
  <2> SUFFICES ASSUME NEW b \in Visible
               PROVE  /\ b \in sortFd => KeysStay(b)
                      /\ b \notin sortFd => sorted'[b] = NoFile /\ EntriesStay(k, b)
    OBVIOUS
  <2> QED BY <1>1, EntriesSame DEF Quiet
<1>4. \A b \in Visible : data'[b] \in Seq(Cell) /\ Len(data'[b]) >= Len(data[b])
  <2> SUFFICES ASSUME NEW b \in Visible
               PROVE  data'[b] \in Seq(Cell) /\ Len(data'[b]) >= Len(data[b])
    OBVIOUS
  <2>1. data[b] \in Seq(Cell)
    BY <1>1, VisibleIs
  <2>2. Len(data[b]) \in Nat
    BY <2>1, SeqIs
  <2> QED BY <2>1, <2>2 DEF Quiet
<1>5. Client(k)
  BY <1>3, <1>4 DEF Client, Quiet
<1> QED BY <1>2, <1>5 DEF Quiet

(* Sizes of bases that are not there yet.                                  *)
LEMMA FreshStays ==
  ASSUME Types, Fresh, open' = open,
         \A b \in Bases : b \notin open =>
            indexSize'[b] = indexSize[b] /\ dataOffset'[b] = dataOffset[b]
  PROVE Fresh'
<1>1. SUFFICES ASSUME NEW b \in Bases, open' = {} \/ b > LastBase'
               PROVE  indexSize'[b] = 0 /\ dataOffset'[b] = 0
  BY DEF Fresh
<1>2. LastBase' = LastBase
  BY DEF LastBase
<1>3. indexSize[b] = 0 /\ dataOffset[b] = 0
  BY <1>1, <1>2 DEF Fresh
<1>4. b \notin open
  <2>1. open # {} => b > LastBase /\ b \in Nat /\ LastBase \in Nat
    BY <1>1, <1>2, BaseIs, LastBaseIs DEF Types
  <2>2. \A c \in open : c <= LastBase
    BY LastBaseIs DEF Types
  <2> QED BY <2>1, <2>2
<1> QED BY <1>3, <1>4

(* eblob_remove: the location it found is that of the hash, or of a sorted *)
(* index.                                                                  *)
LEMMA FoundIs ==
  ASSUME Inv, phase = "up", NEW k \in Keys, op[k] = Idle, NEW l \in Locations(k)
  PROVE /\ l \in Location /\ LocIs(l) /\ l # NoLoc
        /\ l # cache[k] => cache[k] = NoLoc /\ Good(k, l)
        /\ l = cache[k] => Pending(k) = l
<1>1. Types /\ OpenFiles /\ CacheIs
  BY DEF Inv
<1>2. /\ l \in Location
      /\ \/ l = cache[k]
         \/ /\ cache[k] = NoLoc /\ l.base \in sortFd \ job.group
            /\ l.at \in 1 .. Len(sorted[l.base]) /\ sorted[l.base][l.at].key = k
  BY <1>1, LocationsAre
<1>3. l # NoLoc
  BY <1>2, LocFields
<1>4. CASE l = cache[k]
  BY <1>1, <1>2, <1>3, <1>4 DEF CacheIs, Pending
<1>5. CASE l # cache[k]
  <2>1. /\ cache[k] = NoLoc /\ l.base \in sortFd \ job.group
        /\ l.at \in 1 .. Len(sorted[l.base]) /\ sorted[l.base][l.at].key = k
    BY <1>2, <1>5
  <2>2. l.base \in open /\ l.base \in Visible
    BY <1>1, <2>1 DEF Types, Visible
  <2>3. Len(sorted[l.base]) \in Nat
    BY <1>1, <2>1, <2>2, VisibleIs, SeqIs
  <2>4. LocIs(l)
    BY <2>1, <2>2, <2>3 DEF LocIs
  <2> QED BY <1>2, <1>3, <1>5, <2>1, <2>4 DEF Good
<1> QED BY <1>4, <1>5

(* eblob_remove: a lookup changes no file.                                 *)
LEMMA RemoveBeginKeeps ==
  ASSUME Inv, NEW k \in Keys, RemoveBegin(k)
  PROVE Inv'
<1>1. /\ Types /\ OpenFiles /\ OpsAre /\ CacheIs /\ StraysAre /\ Unsorteds /\ Fresh
  BY DEF Inv
<1>2. PICK l \in Locations(k) :
          op' = [op EXCEPT ![k] = [Idle EXCEPT !.pc = "mark", !.old = l]]
  BY DEF RemoveBegin
<1>3. /\ phase = "up" /\ op[k] = Idle /\ ops' = ops + 1
      /\ UNCHANGED <<files, phase, open, sortFd, cache, dataOffset, indexSize, mutex,
                     job, faults, observers>>
  BY DEF RemoveBegin
<1>4. /\ l \in Location /\ LocIs(l) /\ l # NoLoc
      /\ l # cache[k] => cache[k] = NoLoc /\ Good(k, l)
      /\ l = cache[k] => Pending(k) = l
  BY <1>3, FoundIs
<1>5. PICK o : o = [Idle EXCEPT !.pc = "mark", !.old = l]
  OBVIOUS
<1>6. o.pc = "mark" /\ o.base = 0 /\ o.old = l /\ o \in Ops
  <2>1. o = [pc |-> "mark", ver |-> 0, base |-> 0, at |-> 0, pos |-> 0, old |-> l]
    BY <1>5 DEF Idle
  <2>2. 0 \in 0 .. MaxBases
    BY BoundsAssumption
  <2> QED BY <1>4, <2>1, <2>2 DEF Ops
<1>7. op \in [Keys -> Ops] /\ op'[k] = o /\ \A j \in Keys : j # k => op'[j] = op[j]
  BY <1>1, <1>2, <1>5 DEF Types
<1>8. mutex # k
  <2>1. OpIs(k, op[k])
    BY <1>1 DEF OpsAre
  <2> QED BY <1>3, <2>1, IdleFields DEF OpIs
<1>9. \A b : Settled(b)' = Settled(b)
  <2>1. \A j \in Keys : mutex = j => op'[j].base = op[j].base
    BY <1>7, <1>8
  <2> QED BY <1>3, <2>1, SettledSame
<1>10. Quiet(k)
  <2>1. \A b \in Visible : Settled(b) \in Nat
    BY <1>1, SettledIs DEF Visible, Types
  <2>2. \A b \in Visible : Settled(b)' \in Nat /\ Settled(b)' >= Settled(b)
    <3> HIDE DEF Settled
    <3> QED BY <1>9, <2>1
  <2> QED BY <1>3, <1>7, <2>2 DEF Quiet, files
<1>11. Client(k) /\ Whole' /\ \A b \in Visible : Settled(b)' \in Nat
  BY <1>10, QuietIs
<1>12. Types'
  <2>1. op' \in [Keys -> Ops]
    BY <1>1, <1>2, <1>5, <1>6 DEF Types
  <2>2. ops' \in Nat
    BY <1>1, <1>3 DEF Types
  <2> QED BY <1>1, <1>3, <2>1, <2>2 DEF Types, files, observers
<1>13. OpIs(k, o)'
  <2>1. LocIs(l)'
    BY <1>1, <1>4, <1>11, LocStays
  <2>2. mutex' # k
    BY <1>3, <1>8
  <2> QED BY <1>4, <1>6, <2>1, <2>2 DEF OpIs
<1>14. \A m \in {cache'[k]} : m # NoLoc => m = l /\ op'[k] # Idle
  BY <1>3, <1>4, <1>6, <1>7, IdleFields
<1>15. Pending(k)' = l
  BY <1>6, <1>7, IdleFields DEF Pending
<1>16. ASSUME NEW m, NEW b, m = Pending(k)', Stray(k, m, b)'
       PROVE  m = Pending(k) /\ Stray(k, m, b)
  <2>1. m = l /\ m # NoLoc /\ m.base = b /\ ~Good(k, m)'
    BY <1>15, <1>16 DEF Stray
  <2>2. Good(k, m)' <=> Good(k, m)
    BY <1>3 DEF Good, files
  <2> QED BY <1>4, <2>1, <2>2 DEF Stray
<1>17. \A b : (Cut(b)' <=> Cut(b)) /\ (HasHole(b)' <=> HasHole(b))
  <2> SUFFICES ASSUME NEW b PROVE (Cut(b)' <=> Cut(b)) /\ (HasHole(b)' <=> HasHole(b))
    OBVIOUS
  <2> QED BY <1>3, <1>9, HolesSame DEF files
<1>18. Unsorteds'
  <2>1. LastBase' = LastBase
    BY <1>3 DEF LastBase
  <2> HIDE DEF Settled, Cut
  <2> QED BY <1>1, <1>3, <1>9, <1>17, <2>1 DEF Unsorteds, files
<1>19. Fresh'
  BY <1>1, <1>3, FreshStays
<1>20. Left(k)
  <2> HIDE DEF Settled, Cut, HasHole, Strays, Stray, Pending, OpIs
  <2> QED BY <1>6, <1>7, <1>9, <1>11, <1>12, <1>13, <1>14, <1>16, <1>17, <1>18, <1>19 DEF Left
<1> QED BY <1>11, <1>20, ClientKeeps

(* An operation in flight.                                                 *)
LEMMA InHand ==
  ASSUME Inv, NEW k \in Keys, NEW o, o = op[k], o.pc # "idle"
  PROVE /\ phase = "up" /\ OpIs(k, o) /\ o # Idle /\ o \in Ops
        /\ mutex = k => o.base \in Visible \ sortFd /\ o.base \in Visible
        /\ cache[k] # NoLoc => cache[k] = o.old
<1>1. Types /\ OpsAre /\ Resting /\ CacheIs
  BY DEF Inv
<1>2. OpIs(k, o) /\ o # Idle /\ o \in Ops
  BY <1>1, IdleFields, OpFields DEF OpsAre
<1>3. phase = "up"
  BY <1>1, <1>2 DEF Resting
<1>4. mutex = k => o.base \in open \ (sortFd \cup job.group)
  <2>1. o.base # 0 => o.base \in open \ (sortFd \cup job.group)
    BY <1>2 DEF OpIs
  <2>2. mutex = k => o.base # 0
    BY <1>2 DEF OpIs
  <2> QED BY <2>1, <2>2
<1>5. cache[k] # NoLoc => cache[k] = o.old
  BY <1>1, <1>2 DEF CacheIs
<1> QED BY <1>2, <1>3, <1>4, <1>5 DEF Visible

(* No size changes, and no index.                                          *)
LEMMA UnsortedsSame ==
  ASSUME Unsorteds, phase' = phase, open' = open, sortFd' = sortFd, job' = job,
         index' = index, indexSize' = indexSize, \A b : Settled(b)' = Settled(b)
  PROVE Unsorteds'
<1>1. LastBase' = LastBase
  BY DEF LastBase
<1> HIDE DEF Settled
<1>2. \A b : Cut(b)' <=> Cut(b)
  BY <1>1 DEF Cut
<1> HIDE DEF Cut
<1> QED BY <1>1, <1>2 DEF Unsorteds

(* A write gives b->lock up: its entry is one of the index now.            *)
Released(k) ==
    /\ mutex = k /\ op[k].pc \in {"mark", "markdata"} /\ mutex' = Nobody
    /\ phase' = phase /\ open' = open /\ sortFd' = sortFd /\ job' = job
    /\ index' = index /\ sorted' = sorted /\ indexSize' = indexSize

(* When b->lock is given up, what the write reserved counts as settled.    *)
LEMMA ReleasedIs ==
  ASSUME Inv, NEW k \in Keys, Released(k)
  PROVE /\ Unsorteds'
        /\ \A b \in Visible : Settled(b)' \in Nat /\ Settled(b)' >= Settled(b)
        /\ \A b \in Visible \ sortFd : Cut(b) => Cut(b)' /\ Settled(b)' = Settled(b)
        /\ \A b \in Visible : HasHole(b) => HasHole(b)'
        /\ \A b : b = op[k].base => op[k].at <= Settled(b)'
<1>1. Types /\ OpsAre /\ OpenFiles /\ Unsorteds
  BY DEF Inv
<1>2. PICK o : o = op[k]
  OBVIOUS
<1>3. /\ phase = "up" /\ OpIs(k, o) /\ o.base \in Visible \ sortFd /\ o.base \in Visible
  BY <1>2, InHand DEF Released
<1>4. \A b \in Bases : Settled(b)' = indexSize[b]
  BY NamesAssumption DEF Settled, Holding, Released
<1>5. PICK c : c = o.base
  OBVIOUS
<1>6. /\ c \in Bases /\ index[c] \in Seq(SoundEntry) /\ o.at = indexSize[c] /\ c = LastBase
      /\ o.at <= Len(index[c]) /\ Settled(c) = indexSize[c] - 1
  <2>1. c \in Bases /\ index[c] \in Seq(SoundEntry)
    BY <1>1, <1>3, <1>5, VisibleIs
  <2>2. o.at = indexSize[c] /\ c = LastBase /\ o.at <= Len(index[c])
    BY <1>2, <1>3, <1>5 DEF OpIs, Released
  <2>3. Settled(c) = indexSize[c] - 1
    BY <1>1, <1>2, <1>5, <2>1, SettledIs DEF Released
  <2> QED BY <2>1, <2>2, <2>3
<1>7. \A b \in Bases : b # c => Settled(b) = indexSize[b]
  BY <1>1, <1>2, <1>5, SettledIs DEF Released
<1>8. \A b \in Bases : indexSize[b] \in Nat /\ Settled(b) \in Nat
  BY <1>1, FileIs, SettledIs
<1>9. Len(index[c]) \in Nat
  BY <1>6, SeqIs
<1>10. Visible \subseteq Bases /\ LastBase' = LastBase /\ \A b \in Visible : IndexFd(b)' = IndexFd(b)
  BY <1>1 DEF Types, Visible, Released, LastBase, IndexFd, IndexFile
<1> HIDE DEF Settled
<1>11. \A b \in Visible : Settled(b)' \in Nat /\ Settled(b)' >= Settled(b)
  BY <1>4, <1>6, <1>7, <1>8, <1>10
<1>12. ~Cut(c)
  BY <1>6, <1>8, <1>9 DEF Cut
<1>13. ASSUME NEW b \in Visible, Cut(b)
       PROVE  Cut(b)' /\ Settled(b)' = Settled(b)
  <2>1. b # c /\ b \in Bases
    BY <1>10, <1>12, <1>13
  <2>2. Settled(b)' = Settled(b)
    BY <1>4, <1>7, <2>1
  <2> QED BY <1>10, <1>13, <2>2 DEF Cut, Released
<1>14. ASSUME NEW b \in Visible, HasHole(b)
       PROVE  HasHole(b)'
  <2>1. PICK p \in DOMAIN IndexFd(b) : /\ IndexFd(b)[p].key = 0 /\ ~IndexFd(b)[p].removed
                                       /\ b \notin sortFd => p <= Settled(b)
    BY <1>14 DEF HasHole
  <2>2. b \notin sortFd => p <= Settled(b)'
    <3> SUFFICES ASSUME b \notin sortFd PROVE p <= Settled(b)'
      OBVIOUS
    <3>1. p \in Nat
      <4>1. index[b] \in Seq(SoundEntry) /\ sorted[b] = NoFile
        BY <1>1, <1>3, VisibleIs
      <4>2. IndexFd(b) = index[b]
        BY <4>1, FilesDiffer DEF IndexFd, IndexFile
      <4> QED BY <2>1, <4>1, <4>2, SeqIs
    <3>2. Settled(b) \in Nat /\ Settled(b)' \in Nat /\ Settled(b)' >= Settled(b)
      BY <1>8, <1>10, <1>11
    <3> QED BY <2>1, <3>1, <3>2
  <2> QED BY <1>10, <2>1, <2>2 DEF HasHole, Released
<1>15. Unsorteds'
  <2>1. SUFFICES ASSUME NEW b \in open \ (sortFd \cup job.group)
        PROVE /\ indexSize[b] <= RecordsInBlob /\ Len(index[b]) <= RecordsInBlob
              /\ Len(index[b]) >= Settled(b)' \/ Cut(b)'
              /\ b # LastBase' => Len(index[b]) = indexSize[b]
    BY DEF Unsorteds, Released
  <2>2. /\ indexSize[b] <= RecordsInBlob /\ Len(index[b]) <= RecordsInBlob
        /\ Len(index[b]) >= Settled(b) \/ Cut(b)
        /\ b # LastBase => Len(index[b]) = indexSize[b]
    BY <1>1, <1>3, <2>1 DEF Unsorteds
  <2>3. b \in Visible /\ b \in Bases
    BY <1>10, <2>1 DEF Visible
  <2>4. Len(index[b]) >= Settled(b)' \/ Cut(b)'
    <3>1. CASE b = c
      BY <1>4, <1>6, <2>3, <3>1
    <3>2. CASE b # c
      BY <1>4, <1>7, <1>13, <2>2, <2>3, <3>2
    <3> QED BY <3>1, <3>2
  <2> QED BY <1>10, <2>2, <2>4
<1>16. \A b : b = op[k].base => op[k].at <= Settled(b)'
  <2> SUFFICES ASSUME NEW b, b = op[k].base PROVE op[k].at <= Settled(b)'
    OBVIOUS
  <2>1. b = c /\ b \in Bases
    BY <1>2, <1>5, <1>6
  <2>2. Settled(b)' = indexSize[b] /\ op[k].at = indexSize[b] /\ indexSize[b] \in Nat
    BY <1>2, <1>4, <1>6, <1>8, <2>1
  <2> QED BY <2>2
<1> QED BY <1>11, <1>13, <1>14, <1>15, <1>16

(* err_out_rollback: the entry it leaves lies beyond what is settled.      *)
LEMMA RollbackKeeps ==
  ASSUME Inv, NEW k \in Keys, Rollback(k)
  PROVE Inv'
<1>1. Types /\ OpenFiles /\ OpsAre /\ CacheIs /\ StraysAre /\ Unsorteds /\ Fresh
  BY DEF Inv
<1>2. PICK o : o = op[k]
  OBVIOUS
<1>3. PICK c : c = o.base
  OBVIOUS
<1>4. /\ mutex = k /\ o.pc \in {"index", "header", "mark"} /\ faults' = faults + 1
      /\ dataOffset' = [dataOffset EXCEPT ![c] = @ - 1]
      /\ indexSize' = [indexSize EXCEPT ![c] = @ - 1]
      /\ op' = [op EXCEPT ![k] = Idle] /\ mutex' = Nobody
      /\ UNCHANGED <<files, phase, open, sortFd, cache, job, ops, observers>>
  BY <1>2, <1>3 DEF Rollback
<1>5. /\ phase = "up" /\ OpIs(k, o) /\ o # Idle /\ c \in Visible
      /\ cache[k] # NoLoc => cache[k] = o.old
  BY <1>2, <1>3, <1>4, InHand
<1>6. /\ c \in Bases /\ c \in open /\ c # 0 /\ c = LastBase
      /\ o.at = indexSize[c] /\ o.pos = dataOffset[c] /\ o.at # 0 /\ o.pos # 0
      /\ indexSize[c] \in Nat /\ dataOffset[c] \in Nat
  BY <1>1, <1>3, <1>4, <1>5, VisibleIs, FileIs DEF OpIs
<1>7. op \in [Keys -> Ops] /\ op'[k] = Idle /\ \A j \in Keys : j # k => op'[j] = op[j]
  BY <1>1, <1>4 DEF Types
<1>8. /\ indexSize'[c] = indexSize[c] - 1
      /\ \A b \in Bases : b # c => indexSize'[b] = indexSize[b] /\ dataOffset'[b] = dataOffset[b]
  BY <1>1, <1>4, <1>6 DEF Types
<1>9. \A b \in Bases : Settled(b)' = Settled(b) /\ Settled(b) \in Nat
  <2> SUFFICES ASSUME NEW b \in Bases PROVE Settled(b)' = Settled(b) /\ Settled(b) \in Nat
    OBVIOUS
  <2>1. Settled(b)' = indexSize'[b]
    BY <1>4, NamesAssumption DEF Settled, Holding
  <2>2. /\ Settled(b) \in Nat
        /\ b = c => Settled(b) = indexSize[b] - 1
        /\ b # c => Settled(b) = indexSize[b]
    BY <1>1, <1>2, <1>3, <1>4, SettledIs
  <2> HIDE DEF Settled
  <2> QED BY <1>8, <2>1, <2>2
<1>10. Visible \subseteq Bases /\ LastBase' = LastBase
  BY <1>1, <1>4 DEF Visible, Types, LastBase
<1>11. Quiet(k)
  <2>1. \A b \in Visible : Settled(b)' \in Nat /\ Settled(b)' >= Settled(b)
    <3> HIDE DEF Settled
    <3> QED BY <1>9, <1>10
  <2>2. /\ \A j \in Keys : j # k => (mutex' = j <=> mutex = j)
        /\ mutex' = Sorter <=> mutex = Sorter
    BY <1>4, NamesAssumption
  <2> QED BY <1>4, <1>5, <1>7, <2>1, <2>2 DEF Quiet, files
<1>12. Client(k) /\ Whole' /\ \A b \in Visible : Settled(b)' \in Nat
  BY <1>11, QuietIs
<1>13. Types'
  <2>1. op' \in [Keys -> Ops]
    BY <1>1, <1>4, IdleFields DEF Types
  <2>2. indexSize' \in [Bases -> Nat] /\ dataOffset' \in [Bases -> Nat]
    BY <1>1, <1>4, <1>6 DEF Types
  <2>3. faults' \in Nat
    BY <1>1, <1>4 DEF Types
  <2> QED BY <1>1, <1>4, <2>1, <2>2, <2>3 DEF Types, files, observers
<1>14. OpIs(k, Idle)'
  BY <1>4, IdleFields, NamesAssumption DEF OpIs
<1>15. \A m \in {cache'[k]} : m # NoLoc => LocIs(m)'
  <2> SUFFICES ASSUME NEW m, m = cache[k], m # NoLoc PROVE LocIs(m)'
    BY <1>4
  <2>1. m = o.old /\ m \in Location
    BY <1>1, <1>5, OpFields
  <2>2. LocIs(m)
    BY <1>5, <2>1 DEF OpIs
  <2> QED BY <1>1, <1>12, <2>1, <2>2, LocStays
<1>16. ASSUME NEW m, NEW b, m = Pending(k)', Stray(k, m, b)'
       PROVE  m = Pending(k) /\ Stray(k, m, b)
  <2>1. m = cache[k] /\ m # NoLoc /\ m.base = b /\ ~Good(k, m)'
    BY <1>4, <1>7, <1>16 DEF Stray, Pending
  <2>2. m = Pending(k)
    BY <1>2, <1>4, <1>5, <2>1 DEF Pending
  <2>3. Good(k, m)' <=> Good(k, m)
    BY <1>4 DEF Good, files
  <2> QED BY <2>1, <2>2, <2>3 DEF Stray
<1>17. \A b \in Bases : (Cut(b)' <=> Cut(b)) /\ (HasHole(b)' <=> HasHole(b))
  <2> SUFFICES ASSUME NEW b \in Bases PROVE (Cut(b)' <=> Cut(b)) /\ (HasHole(b)' <=> HasHole(b))
    OBVIOUS
  <2>1. Settled(b)' = Settled(b)
    BY <1>9
  <2> QED BY <1>4, <2>1, HolesSame DEF files
<1>18. Unsorteds'
  <2> HIDE DEF Settled, Cut
  <2>1. SUFFICES ASSUME NEW b \in open \ (sortFd \cup job.group)
        PROVE /\ indexSize'[b] <= RecordsInBlob /\ Len(index[b]) <= RecordsInBlob
              /\ Len(index[b]) >= Settled(b)' \/ Cut(b)'
              /\ b # LastBase' => Len(index[b]) = indexSize'[b]
    BY <1>4 DEF Unsorteds, files
  <2>2. /\ indexSize[b] <= RecordsInBlob /\ Len(index[b]) <= RecordsInBlob
        /\ Len(index[b]) >= Settled(b) \/ Cut(b)
        /\ b # LastBase => Len(index[b]) = indexSize[b]
    BY <1>1, <1>5, <2>1 DEF Unsorteds
  <2>3. b \in Bases /\ indexSize[b] \in Nat /\ RecordsInBlob \in Nat
    BY <1>1, <2>1, FileIs, BoundsAssumption DEF Types
  <2>4. indexSize'[b] <= RecordsInBlob
    BY <1>6, <1>8, <2>2, <2>3
  <2>5. b # LastBase' => Len(index[b]) = indexSize'[b]
    BY <1>6, <1>8, <1>10, <2>2, <2>3
  <2> QED BY <1>9, <1>17, <2>2, <2>3, <2>4, <2>5
<1>19. Fresh'
  <2>1. \A b \in Bases : b \notin open =>
            indexSize'[b] = indexSize[b] /\ dataOffset'[b] = dataOffset[b]
    BY <1>6, <1>8
  <2> QED BY <1>1, <1>4, <2>1, FreshStays
<1>20. Left(k)
  <2> HIDE DEF Settled, Cut, HasHole, Strays, Stray, Pending, OpIs
  <2> QED BY <1>7, <1>9, <1>10, <1>12, <1>13, <1>14, <1>15, <1>16, <1>17, <1>18, <1>19 DEF Left
<1> QED BY <1>12, <1>20, ClientKeeps

(* A write of a new key goes on without b->lock.                           *)
LEMMA NothingToMarkKeeps ==
  ASSUME Inv, NEW k \in Keys, NothingToMark(k)
  PROVE Inv'
<1>1. Types /\ OpenFiles /\ OpsAre /\ CacheIs /\ StraysAre /\ Unsorteds /\ Fresh
  BY DEF Inv
<1>2. PICK o : o = op[k]
  OBVIOUS
<1>3. PICK q : q = [o EXCEPT !.pc = "payload"]
  OBVIOUS
<1>4. /\ o.pc = "mark" /\ o.old = NoLoc /\ op' = [op EXCEPT ![k] = q] /\ mutex' = Nobody
      /\ UNCHANGED <<files, phase, open, sortFd, cache, dataOffset, indexSize, job,
                     ops, faults, observers>>
  BY <1>2, <1>3 DEF NothingToMark
<1>5. /\ phase = "up" /\ OpIs(k, o) /\ o # Idle /\ o \in Ops
      /\ cache[k] # NoLoc => cache[k] = o.old
  BY <1>2, <1>4, InHand
<1>6. mutex = k /\ o.base # 0
  BY <1>4, <1>5 DEF OpIs
<1>7. /\ q \in Ops /\ q.pc = "payload" /\ q.base = o.base /\ q.at = o.at /\ q.pos = o.pos
      /\ q.old = NoLoc
  BY <1>3, <1>4, <1>5 DEF Ops
<1>8. op \in [Keys -> Ops] /\ op'[k] = q /\ \A j \in Keys : j # k => op'[j] = op[j]
  BY <1>1, <1>4 DEF Types
<1>9. Released(k)
  BY <1>2, <1>4, <1>6 DEF Released, files
<1>10. /\ Unsorteds'
       /\ \A b \in Visible : Settled(b)' \in Nat /\ Settled(b)' >= Settled(b)
       /\ \A b \in Visible \ sortFd : Cut(b) => Cut(b)' /\ Settled(b)' = Settled(b)
       /\ \A b \in Visible : HasHole(b) => HasHole(b)'
       /\ \A b : b = o.base => o.at <= Settled(b)'
  BY <1>2, <1>9, ReleasedIs
<1>11. Quiet(k)
  <2>1. /\ \A j \in Keys : j # k => (mutex' = j <=> mutex = j)
        /\ mutex' = Sorter <=> mutex = Sorter
    BY <1>4, <1>6, NamesAssumption
  <2> QED BY <1>4, <1>5, <1>8, <1>10, <2>1 DEF Quiet, files
<1>12. Client(k) /\ Whole' /\ \A b \in Visible : Settled(b)' \in Nat
  BY <1>11, QuietIs
<1>13. Types'
  <2>1. op' \in [Keys -> Ops]
    BY <1>1, <1>4, <1>7 DEF Types
  <2> QED BY <1>1, <1>4, <2>1 DEF Types, files, observers
<1>14. OpIs(k, q)'
  <2>1. mutex' # k
    BY <1>4, NamesAssumption
  <2>2. q.at <= Settled(q.base)'
    BY <1>7, <1>10
  <2>3. /\ q.base \in open' \ (sortFd' \cup job'.group) /\ q.at # 0 /\ q.pos # 0
        /\ q.at <= Len(index'[q.base]) /\ Mine(k, index'[q.base][q.at])
        /\ q.pos <= Len(data'[q.base])
    BY <1>4, <1>5, <1>6, <1>7 DEF OpIs, files
  <2> HIDE DEF Settled, Mine
  <2> QED BY <1>6, <1>7, <2>1, <2>2, <2>3 DEF OpIs
<1>15. cache'[k] = NoLoc
  BY <1>4, <1>5
<1>16. Pending(k)' = NoLoc
  BY <1>7, <1>8, IdleFields DEF Pending
<1>17. \A m, b : m = Pending(k)' => ~Stray(k, m, b)'
  BY <1>16 DEF Stray
<1>18. Fresh'
  BY <1>1, <1>4, FreshStays
<1>19. Left(k)
  <2> HIDE DEF Settled, Cut, HasHole, Strays, Stray, Pending, OpIs
  <2> QED BY <1>8, <1>10, <1>12, <1>13, <1>14, <1>15, <1>17, <1>18 DEF Left
<1> QED BY <1>12, <1>19, ClientKeeps

(* A step that writes to the data file of one base.                        *)
DataStep(k, c) ==
    /\ phase = "up" /\ phase' = phase /\ open' = open /\ sortFd' = sortFd /\ job' = job
    /\ index' = index /\ sorted' = sorted /\ chunk' = chunk
    /\ c \in Visible /\ data'[c] \in Seq(Cell) /\ Len(data'[c]) >= Len(data[c])
    /\ \A b \in Bases : b # c => data'[b] = data[b] /\ whole'[b] = whole[b]
    /\ data'[c] = <<>> => whole'[c]
    /\ \A j \in Keys : j # k => op'[j] = op[j] /\ cache'[j] = cache[j]
                                /\ (mutex' = j <=> mutex = j)
    /\ mutex' = Sorter <=> mutex = Sorter
    /\ indexSize' = indexSize /\ dataOffset' = dataOffset
    /\ \A b \in Visible : Settled(b)' \in Nat /\ Settled(b)' >= Settled(b)

(* A step that writes only to the data file of base c.                     *)
LEMMA DataStepIs ==
  ASSUME Inv, NEW k \in Keys, NEW c, DataStep(k, c)
  PROVE Client(k) /\ Whole' /\ Fresh' /\ \A b \in Visible : Settled(b)' \in Nat
<1>1. Types /\ OpenFiles /\ phase = "up" /\ Fresh /\ Whole
  BY DEF Inv, DataStep
<1>2. c \in Bases /\ c \in open /\ c \notin job.group /\ data[c] \in Seq(Cell) /\ c \in Found
  <2>1. c \in Bases /\ c \in open /\ data[c] \in Seq(Cell)
    BY <1>1, VisibleIs DEF DataStep
  <2> QED BY <2>1, FilesDiffer DEF Found, DataStep, Visible
<1>3. Found' = Found
  <2>1. \A b \in Bases : data'[b] # NoFile <=> data[b] # NoFile
    BY <1>2, FilesDiffer DEF DataStep
  <2> QED BY <2>1 DEF Found
<1>4. Whole'
  <2>1. ASSUME NEW b \in Bases PROVE data'[b] = <<>> => whole'[b]
    BY <1>1 DEF Whole, DataStep
  <2>2. ASSUME NEW b \in Bases, ~whole'[b] PROVE \E x \in Found' : b <= x
    <3>1. CASE b = c
      BY <1>2, <1>3, <3>1, BaseIs
    <3>2. CASE b # c
      BY <1>1, <1>3, <2>2, <3>2 DEF Whole, DataStep
    <3> QED BY <3>1, <3>2
  <2> QED BY <2>1, <2>2 DEF Whole
<1>5. \A b \in Visible : /\ b \in sortFd => KeysStay(b)
                         /\ b \notin sortFd => sorted'[b] = NoFile /\ EntriesStay(k, b)
  <2> SUFFICES ASSUME NEW b \in Visible
               PROVE  /\ b \in sortFd => KeysStay(b)
                      /\ b \notin sortFd => sorted'[b] = NoFile /\ EntriesStay(k, b)
    OBVIOUS
  <2> QED BY <1>1, EntriesSame DEF DataStep
<1>6. \A b \in Visible : data'[b] \in Seq(Cell) /\ Len(data'[b]) >= Len(data[b])
  <2> SUFFICES ASSUME NEW b \in Visible
               PROVE  data'[b] \in Seq(Cell) /\ Len(data'[b]) >= Len(data[b])
    OBVIOUS
  <2>1. data[b] \in Seq(Cell) /\ b \in Bases
    BY <1>1, VisibleIs
  <2>2. Len(data[b]) \in Nat
    BY <2>1, SeqIs
  <2> QED BY <2>1, <2>2 DEF DataStep
<1>7. job.group \subseteq Bases
  BY <1>1 DEF Types
<1>8. Client(k)
  BY <1>2, <1>5, <1>6, <1>7 DEF Client, DataStep
<1>9. Fresh'
  BY <1>1, FreshStays DEF DataStep
<1> QED BY <1>4, <1>8, <1>9 DEF DataStep

(* Cells, and those a header is written to.                                *)
LEMMA CellIs ==
  /\ Blank \in Cell /\ \A k \in Keys : [key |-> k, ver |-> Unwritten, removed |-> FALSE] \in Cell
  /\ \A k \in Keys : \A v \in Nat : [key |-> k, ver |-> v, removed |-> FALSE] \in Cell
  /\ \A x \in Cell : [x EXCEPT !.removed = TRUE] \in Cell
BY DEF Blank, Cell, Unwritten

(* The header of a new record.                                             *)
LEMMA WriteHeaderKeeps ==
  ASSUME Inv, NEW k \in Keys, WriteHeader(k)
  PROVE Inv'
<1>1. Types /\ OpenFiles /\ OpsAre /\ CacheIs /\ StraysAre /\ Unsorteds /\ Fresh
  BY DEF Inv
<1>2. PICK o : o = op[k]
  OBVIOUS
<1>3. PICK c : c = o.base
  OBVIOUS
<1>4. PICK q : q = [o EXCEPT !.pc = "mark"]
  OBVIOUS
<1>5. PICK x : x = [key |-> k, ver |-> Unwritten, removed |-> FALSE]
  OBVIOUS
<1>6. PICK d : d = WriteAt(data[c], o.pos, x, Blank)
  OBVIOUS
<1>7. /\ o.pc = "header" /\ op' = [op EXCEPT ![k] = q]
      /\ data' = [data EXCEPT ![c] = d]
      /\ whole' = [whole EXCEPT ![c] = @ /\ o.pos <= Len(data[c])]
      /\ UNCHANGED <<index, sorted, chunk, phase, open, sortFd, cache, dataOffset,
                     indexSize, mutex, job, ops, faults, observers>>
  BY <1>2, <1>3, <1>4, <1>5, <1>6 DEF WriteHeader
<1>8. /\ phase = "up" /\ OpIs(k, o) /\ o # Idle /\ o \in Ops
      /\ cache[k] # NoLoc => cache[k] = o.old
  BY <1>2, <1>7, InHand
<1>9. mutex = k
  BY <1>7, <1>8 DEF OpIs
<1>10. c \in Visible /\ c \in Visible \ sortFd
  BY <1>2, <1>3, <1>7, <1>9, InHand
<1>11. /\ c \in Bases /\ data[c] \in Seq(Cell) /\ o.pos \in Nat \ {0}
  BY <1>1, <1>2, <1>3, <1>8, <1>9, <1>10, VisibleIs, OpFields DEF OpIs
<1>12. d \in Seq(Cell) /\ Written(d, data[c], o.pos, x, Blank)
  BY <1>5, <1>6, <1>11, CellIs, WriteAtIs
<1>13. Len(d) >= Len(data[c]) /\ o.pos <= Len(d) /\ d # <<>> /\ Len(d) \in Nat
  BY <1>11, <1>12, SeqIs DEF Written
<1>14. /\ q \in Ops /\ q.pc = "mark" /\ q.base = c /\ q.at = o.at /\ q.pos = o.pos
       /\ q.old = o.old
  BY <1>3, <1>4, <1>8 DEF Ops
<1>15. op \in [Keys -> Ops] /\ op'[k] = q /\ \A j \in Keys : j # k => op'[j] = op[j]
  BY <1>1, <1>7 DEF Types
<1>16. \A b : Settled(b)' = Settled(b)
  <2>1. \A j \in Keys : mutex = j => op'[j].base = op[j].base
    BY <1>2, <1>3, <1>9, <1>14, <1>15
  <2> QED BY <1>7, <2>1, SettledSame
<1>17. data'[c] = d /\ \A b \in Bases : b # c => data'[b] = data[b] /\ whole'[b] = whole[b]
  BY <1>1, <1>7, <1>11 DEF Types
<1>18. DataStep(k, c)
  <2>1. \A b \in Visible : Settled(b) \in Nat
    BY <1>1, SettledIs DEF Visible, Types
  <2>2. \A b \in Visible : Settled(b)' \in Nat /\ Settled(b)' >= Settled(b)
    <3> HIDE DEF Settled
    <3> QED BY <1>16, <2>1
  <2> QED BY <1>7, <1>8, <1>10, <1>12, <1>13, <1>15, <1>17, <2>2 DEF DataStep
<1>19. Client(k) /\ Whole' /\ Fresh' /\ \A b \in Visible : Settled(b)' \in Nat
  BY <1>18, DataStepIs
<1>20. Types'
  <2>1. op' \in [Keys -> Ops]
    BY <1>1, <1>7, <1>14 DEF Types
  <2>2. data' \in [Bases -> Seq(Cell) \cup {NoFile}]
    BY <1>1, <1>7, <1>12 DEF Types
  <2>3. whole' \in [Bases -> BOOLEAN]
    BY <1>1, <1>7 DEF Types
  <2> QED BY <1>1, <1>7, <2>1, <2>2, <2>3 DEF Types, observers
<1>21. OpIs(k, q)'
  <2>1. o.old # NoLoc => LocIs(o.old)'
    <3>1. o.old # NoLoc => o.old \in Location /\ LocIs(o.old)
      BY <1>1, <1>2, <1>8, OpFields DEF OpIs
    <3> QED BY <1>1, <1>19, <3>1, LocStays
  <2>2. LastBase' = LastBase /\ mutex' = k
    BY <1>7, <1>9 DEF LastBase
  <2>3. /\ c # 0 /\ c = LastBase /\ o.at = indexSize[c] /\ o.pos = dataOffset[c]
        /\ c \in open \ (sortFd \cup job.group) /\ o.at # 0 /\ o.pos # 0
        /\ o.at <= Len(index[c]) /\ Mine(k, index[c][o.at])
    BY <1>3, <1>7, <1>8, <1>9 DEF OpIs
  <2> HIDE DEF Settled, Mine, LocIs, LastBase
  <2> QED BY <1>7, <1>13, <1>14, <1>17, <2>1, <2>2, <2>3 DEF OpIs
<1>22. \A m \in {cache'[k]} : m # NoLoc => m = op'[k].old /\ op'[k] # Idle
  BY <1>7, <1>8, <1>14, <1>15, IdleFields
<1>23. Pending(k)' = o.old /\ Pending(k) = o.old
  BY <1>2, <1>7, <1>8, <1>14, <1>15, IdleFields DEF Pending
<1>24. ASSUME NEW m, NEW b, m = Pending(k)', Stray(k, m, b)'
       PROVE  m = Pending(k) /\ Stray(k, m, b)
  <2>1. m # NoLoc /\ m.base = b /\ ~Good(k, m)'
    BY <1>24 DEF Stray
  <2>2. Good(k, m)' <=> Good(k, m)
    BY <1>7 DEF Good
  <2> QED BY <1>23, <1>24, <2>1, <2>2 DEF Stray
<1>25. \A b : (Cut(b)' <=> Cut(b)) /\ (HasHole(b)' <=> HasHole(b))
  <2> SUFFICES ASSUME NEW b PROVE (Cut(b)' <=> Cut(b)) /\ (HasHole(b)' <=> HasHole(b))
    OBVIOUS
  <2> QED BY <1>7, <1>16, HolesSame
<1>26. Unsorteds'
  BY <1>1, <1>7, <1>16, UnsortedsSame
<1>27. Left(k)
  <2> HIDE DEF Settled, Cut, HasHole, Strays, Stray, Pending, OpIs
  <2> QED BY <1>15, <1>16, <1>19, <1>20, <1>21, <1>22, <1>24, <1>25, <1>26 DEF Left
<1> QED BY <1>19, <1>27, ClientKeeps

(* The removed flag in the header of an old record.                        *)
LEMMA MarkDataKeeps ==
  ASSUME Inv, NEW k \in Keys, MarkData(k)
  PROVE Inv'
<1>1. Types /\ OpenFiles /\ OpsAre /\ CacheIs /\ StraysAre /\ Unsorteds /\ Fresh /\ Whole
  BY DEF Inv
<1>2. PICK o : o = op[k]
  OBVIOUS
<1>3. PICK l : l = o.old
  OBVIOUS
<1>4. PICK q : q = IF mutex = k THEN [o EXCEPT !.pc = "payload"] ELSE Idle
  OBVIOUS
<1>5. PICK c : c = l.base
  OBVIOUS
<1>6. PICK d : d = IF l.pos \in DOMAIN data[c]
                   THEN [data[c] EXCEPT ![l.pos] = [data[c][l.pos] EXCEPT !.removed = TRUE]]
                   ELSE data[c]
  OBVIOUS
<1>7. /\ o.pc = "markdata" /\ op' = [op EXCEPT ![k] = q]
      /\ data' = IF l.pos \in DOMAIN data[c]
                 THEN [data EXCEPT ![c] = [data[c] EXCEPT ![l.pos] =
                                            [data[c][l.pos] EXCEPT !.removed = TRUE]]]
                 ELSE data
      /\ mutex = k => mutex' = Nobody /\ cache' = cache /\ acked' = acked
      /\ mutex # k => /\ mutex' = mutex /\ cache' = [cache EXCEPT ![k] = NoLoc]
                      /\ acked' = [acked EXCEPT ![k] = 0]
      /\ UNCHANGED <<whole, index, sorted, chunk, phase, open, sortFd, dataOffset,
                     indexSize, job, ops, faults, unsure, damaged>>
  BY <1>2, <1>3, <1>4, <1>5 DEF MarkData
<1>8. /\ phase = "up" /\ OpIs(k, o) /\ o # Idle /\ o \in Ops
      /\ cache[k] # NoLoc => cache[k] = l
  BY <1>2, <1>3, <1>7, InHand
<1>9. l \in Location /\ LocIs(l)
  BY <1>1, <1>2, <1>3, <1>7, <1>8, OpFields DEF OpIs
<1>10. c \in Visible
  BY <1>5, <1>9 DEF LocIs, Visible
<1>11. c \in Bases /\ data[c] \in Seq(Cell)
  BY <1>1, <1>8, <1>10, VisibleIs
<1>12. d \in Seq(Cell) /\ Len(d) = Len(data[c])
  <2>1. CASE l.pos \in DOMAIN data[c]
    <3>1. [data[c][l.pos] EXCEPT !.removed = TRUE] \in Cell
      BY <1>11, <2>1, CellIs, SeqIs
    <3> QED BY <1>6, <1>11, <2>1, <3>1
  <2>2. CASE l.pos \notin DOMAIN data[c]
    BY <1>6, <1>11, <2>2
  <2> QED BY <2>1, <2>2
<1>13. data' \in [Bases -> Seq(Cell) \cup {NoFile}] /\ data'[c] = d
       /\ \A b \in Bases : b # c => data'[b] = data[b]
  <2>1. data' = [data EXCEPT ![c] = d]
    BY <1>1, <1>6, <1>7, <1>11 DEF Types
  <2> QED BY <1>1, <1>11, <1>12, <2>1 DEF Types
<1>14. /\ q \in Ops
       /\ mutex # k => q = Idle
       /\ mutex = k => /\ q.pc = "payload" /\ q.base = o.base /\ q.at = o.at
                       /\ q.pos = o.pos /\ q.old = l
  BY <1>3, <1>4, <1>8, IdleFields DEF Ops
<1>15. op \in [Keys -> Ops] /\ op'[k] = q /\ \A j \in Keys : j # k => op'[j] = op[j]
  BY <1>1, <1>7 DEF Types
<1>16. mutex = k => Released(k)
  BY <1>2, <1>7 DEF Released
<1>17. mutex # k => \A b : Settled(b)' = Settled(b)
  <2> SUFFICES ASSUME mutex # k, NEW b PROVE Settled(b)' = Settled(b)
    OBVIOUS
  <2>1. \A j \in Keys : mutex = j => op'[j].base = op[j].base
    BY <1>15
  <2> QED BY <1>7, <2>1, SettledSame
<1>18. /\ Unsorteds'
       /\ \A b \in Visible : Settled(b)' \in Nat /\ Settled(b)' >= Settled(b)
       /\ \A b \in Visible \ sortFd : Cut(b) => Cut(b)' /\ Settled(b)' = Settled(b)
       /\ \A b \in Visible : HasHole(b) => HasHole(b)'
       /\ mutex = k => \A b : b = o.base => o.at <= Settled(b)'
  <2>1. CASE mutex = k
    BY <1>2, <1>16, <2>1, ReleasedIs
  <2>2. CASE mutex # k
    <3>1. \A b : Settled(b)' = Settled(b)
      BY <1>17, <2>2
    <3>2. \A b \in Visible : Settled(b) \in Nat
      BY <1>1, SettledIs DEF Visible, Types
    <3>3. \A b : (Cut(b)' <=> Cut(b)) /\ (HasHole(b)' <=> HasHole(b))
      <4> SUFFICES ASSUME NEW b PROVE (Cut(b)' <=> Cut(b)) /\ (HasHole(b)' <=> HasHole(b))
        OBVIOUS
      <4> QED BY <1>7, <3>1, HolesSame
    <3>4. Unsorteds'
      BY <1>1, <1>7, <3>1, UnsortedsSame
    <3> HIDE DEF Settled, Cut, HasHole
    <3> QED BY <2>2, <3>1, <3>2, <3>3, <3>4
  <2> QED BY <2>1, <2>2
<1>19. DataStep(k, c)
  <2>1. /\ \A j \in Keys : j # k => (mutex' = j <=> mutex = j)
        /\ mutex' = Sorter <=> mutex = Sorter
    BY <1>7, NamesAssumption
  <2>2. Len(d) >= Len(data[c]) /\ (d = <<>> => data[c] = <<>>)
    BY <1>11, <1>12, SeqIs
  <2>3. d = <<>> => whole'[c]
    BY <1>1, <1>7, <1>11, <2>2 DEF Whole
  <2>4. \A j \in Keys : j # k => cache'[j] = cache[j]
    BY <1>1, <1>7 DEF Types
  <2> HIDE DEF Settled
  <2> QED BY <1>7, <1>8, <1>10, <1>12, <1>13, <1>15, <1>18, <2>1, <2>2, <2>3, <2>4 DEF DataStep
<1>20. Client(k) /\ Whole' /\ Fresh' /\ \A b \in Visible : Settled(b)' \in Nat
  BY <1>19, DataStepIs
<1>21. Types'
  <2>1. op' \in [Keys -> Ops]
    BY <1>1, <1>7, <1>14 DEF Types
  <2>2. /\ cache' \in [Keys -> Location \cup {NoLoc}] /\ acked' \in [Keys -> Nat]
        /\ mutex' \in Keys \cup {Nobody, Sorter}
    <3>1. CASE mutex = k
      BY <1>1, <1>7, <3>1 DEF Types
    <3>2. CASE mutex # k
      <4>1. /\ mutex' = mutex /\ cache' = [cache EXCEPT ![k] = NoLoc]
            /\ acked' = [acked EXCEPT ![k] = 0]
        BY <1>7, <3>2
      <4>2. /\ cache \in [Keys -> Location \cup {NoLoc}] /\ acked \in [Keys -> Nat]
            /\ mutex \in Keys \cup {Nobody, Sorter}
        BY <1>1 DEF Types
      <4>3. cache' \in [Keys -> Location \cup {NoLoc}]
        BY <4>1, <4>2
      <4> QED BY <4>1, <4>2, <4>3
    <3> QED BY <3>1, <3>2
  <2> QED BY <1>1, <1>7, <1>13, <2>1, <2>2 DEF Types
<1>22. OpIs(k, q)'
  <2>1. CASE mutex = k
    <3>1. LocIs(l)'
      BY <1>1, <1>9, <1>20, LocStays
    <3>2. mutex' # k
      BY <1>7, <2>1, NamesAssumption
    <3>3. q.at <= Settled(q.base)'
      BY <1>14, <1>18, <2>1
    <3>4. o.base # 0
      BY <1>8, <2>1 DEF OpIs
    <3>5. /\ q.base # 0 /\ q.base \in open' \ (sortFd' \cup job'.group) /\ q.at # 0 /\ q.pos # 0
          /\ q.at <= Len(index'[q.base]) /\ Mine(k, index'[q.base][q.at])
          /\ q.pos <= Len(data[q.base])
      BY <1>7, <1>8, <1>14, <2>1, <3>4 DEF OpIs
    <3>6. q.base \in Bases
      BY <1>1, <1>7, <3>5 DEF Types
    <3>7. q.pos <= Len(data'[q.base])
      BY <1>12, <1>13, <3>5, <3>6
    <3> HIDE DEF Settled, Mine, LocIs
    <3> QED BY <1>14, <2>1, <3>1, <3>2, <3>3, <3>5, <3>7 DEF OpIs
  <2>2. CASE mutex # k
    BY <1>7, <1>14, <2>2, IdleFields DEF OpIs
  <2> QED BY <2>1, <2>2
<1>23. \A m \in {cache'[k]} : m # NoLoc => m = op'[k].old /\ op'[k] # Idle
  <2>1. CASE mutex = k
    BY <1>7, <1>8, <1>14, <1>15, <2>1, IdleFields
  <2>2. CASE mutex # k
    BY <1>1, <1>7, <2>2 DEF Types
  <2> QED BY <2>1, <2>2
<1>24. Pending(k)' = NoLoc
  <2>1. CASE mutex = k
    BY <1>14, <1>15, <2>1, IdleFields DEF Pending
  <2>2. CASE mutex # k
    BY <1>1, <1>7, <1>14, <1>15, <2>2 DEF Pending, Types
  <2> QED BY <2>1, <2>2
<1>25. \A m, b : m = Pending(k)' => ~Stray(k, m, b)'
  BY <1>24 DEF Stray
<1>26. Left(k)
  <2> HIDE DEF Settled, Cut, HasHole, Strays, Stray, Pending, OpIs
  <2> QED BY <1>15, <1>18, <1>20, <1>21, <1>22, <1>23, <1>25 DEF Left
<1> QED BY <1>20, <1>26, ClientKeeps

(* A step that writes to the index of one base, and maybe to its data.     *)
FileStep(k, c) ==
    /\ phase = "up" /\ phase' = phase /\ open' = open /\ sortFd' = sortFd /\ job' = job
    /\ chunk' = chunk /\ mutex' = mutex
    /\ c \in Visible /\ data'[c] \in Seq(Cell) /\ Len(data'[c]) >= Len(data[c])
    /\ \A b \in Bases : b # c => /\ data'[b] = data[b] /\ whole'[b] = whole[b]
                                 /\ index'[b] = index[b] /\ sorted'[b] = sorted[b]
    /\ data'[c] = <<>> => whole'[c]
    /\ c \in sortFd => KeysStay(c)
    /\ c \notin sortFd => sorted'[c] = NoFile /\ EntriesStay(k, c)
    /\ \A j \in Keys : j # k => op'[j] = op[j] /\ cache'[j] = cache[j]
    /\ indexSize' = indexSize /\ dataOffset' = dataOffset
    /\ mutex = k => op'[k].base = op[k].base

(* A step that writes to the index and the data file of base c.            *)
LEMMA FileStepIs ==
  ASSUME Inv, NEW k \in Keys, NEW c, FileStep(k, c)
  PROVE /\ Client(k) /\ Whole' /\ Fresh' /\ (\A b \in Visible : Settled(b)' \in Nat)
        /\ \A b : Settled(b)' = Settled(b)
        /\ \A b \in Visible : b # c => (Cut(b)' <=> Cut(b)) /\ (HasHole(b)' <=> HasHole(b))
<1>1. Types /\ OpenFiles /\ phase = "up" /\ Fresh /\ Whole /\ OpsAre
  BY DEF Inv, FileStep
<1>2. c \in Bases /\ c \in open /\ c \notin job.group /\ data[c] \in Seq(Cell) /\ c \in Found
  <2>1. c \in Bases /\ c \in open /\ data[c] \in Seq(Cell)
    BY <1>1, VisibleIs DEF FileStep
  <2> QED BY <2>1, FilesDiffer DEF Found, FileStep, Visible
<1>3. Found' = Found
  <2>1. \A b \in Bases : data'[b] # NoFile <=> data[b] # NoFile
    BY <1>2, FilesDiffer DEF FileStep
  <2> QED BY <2>1 DEF Found
<1>4. Whole'
  <2>1. ASSUME NEW b \in Bases PROVE data'[b] = <<>> => whole'[b]
    BY <1>1 DEF Whole, FileStep
  <2>2. ASSUME NEW b \in Bases, ~whole'[b] PROVE \E x \in Found' : b <= x
    <3>1. CASE b = c
      BY <1>2, <1>3, <3>1, BaseIs
    <3>2. CASE b # c
      BY <1>1, <1>3, <2>2, <3>2 DEF Whole, FileStep
    <3> QED BY <3>1, <3>2
  <2> QED BY <2>1, <2>2 DEF Whole
<1>5. \A b \in Visible : /\ b \in sortFd => KeysStay(b)
                         /\ b \notin sortFd => sorted'[b] = NoFile /\ EntriesStay(k, b)
  <2> SUFFICES ASSUME NEW b \in Visible
               PROVE  /\ b \in sortFd => KeysStay(b)
                      /\ b \notin sortFd => sorted'[b] = NoFile /\ EntriesStay(k, b)
    OBVIOUS
  <2>1. CASE b = c
    BY <2>1 DEF FileStep
  <2>2. CASE b # c
    <3>1. b \in Bases
      BY <1>1, VisibleIs
    <3>2. index'[b] = index[b] /\ sorted'[b] = sorted[b]
      BY <2>2, <3>1 DEF FileStep
    <3> QED BY <1>1, <3>2, EntriesSame
  <2> QED BY <2>1, <2>2
<1>6. \A b \in Visible : data'[b] \in Seq(Cell) /\ Len(data'[b]) >= Len(data[b])
  <2> SUFFICES ASSUME NEW b \in Visible
               PROVE  data'[b] \in Seq(Cell) /\ Len(data'[b]) >= Len(data[b])
    OBVIOUS
  <2>1. data[b] \in Seq(Cell) /\ b \in Bases
    BY <1>1, VisibleIs
  <2>2. Len(data[b]) \in Nat
    BY <2>1, SeqIs
  <2> QED BY <2>1, <2>2 DEF FileStep
<1>7. job.group \subseteq Bases /\ Visible \subseteq Bases
  BY <1>1 DEF Types, Visible
<1>8. \A b : Settled(b)' = Settled(b)
  <2>1. \A j \in Keys : mutex = j => op'[j].base = op[j].base
    BY DEF FileStep
  <2> QED BY <2>1, SettledSame DEF FileStep
<1>9. \A b \in Visible : Settled(b) \in Nat
  BY <1>1, <1>7, SettledIs
<1>10. Client(k)
  <2> HIDE DEF Settled
  <2>1. \A b \in Visible : Settled(b)' >= Settled(b)
    BY <1>8, <1>9
  <2> QED BY <1>2, <1>5, <1>6, <1>7, <2>1 DEF Client, FileStep
<1>11. Fresh'
  BY <1>1, FreshStays DEF FileStep
<1>12. \A b \in Visible : b # c => (Cut(b)' <=> Cut(b)) /\ (HasHole(b)' <=> HasHole(b))
  <2> SUFFICES ASSUME NEW b \in Visible, b # c
               PROVE  (Cut(b)' <=> Cut(b)) /\ (HasHole(b)' <=> HasHole(b))
    OBVIOUS
  <2>1. index'[b] = index[b] /\ sorted'[b] = sorted[b]
    BY <1>7 DEF FileStep
  <2> QED BY <1>8, <2>1, HolesSame DEF FileStep
<1> HIDE DEF Settled
<1> QED BY <1>4, <1>8, <1>9, <1>10, <1>11, <1>12

(* The index in use of a base without a sorted one.                        *)
LEMMA IndexFdIs ==
  ASSUME Types, OpenFiles, phase = "up", NEW b \in Visible
  PROVE /\ b \notin sortFd => IndexFd(b) = index[b] /\ index[b] \in Seq(SoundEntry)
        /\ b \in sortFd => IndexFd(b) = sorted[b] /\ sorted[b] \in Seq(SoundEntry)
<1>1. /\ b \notin sortFd => index[b] \in Seq(SoundEntry)
      /\ b \in sortFd => sorted[b] \in Seq(SoundEntry)
  BY VisibleIs
<1> QED BY <1>1, FilesDiffer DEF IndexFd, IndexFile

(* A hole among the entries of such a base.                                *)
LEMMA HoleIs ==
  ASSUME Types, OpenFiles, phase = "up", NEW b \in Visible, b \notin sortFd
  PROVE HasHole(b) <=> \E p \in 1 .. Len(index[b]) :
            index[b][p].key = 0 /\ ~index[b][p].removed /\ p <= Settled(b)
<1>1. IndexFd(b) = index[b] /\ DOMAIN index[b] = 1 .. Len(index[b])
  BY IndexFdIs, SeqIs
<1> QED BY <1>1 DEF HasHole

(* The index entry of a new record.                                        *)
LEMMA WriteIndexKeeps ==
  ASSUME Inv, NEW k \in Keys, WriteIndex(k)
  PROVE Inv'
<1>1. Types /\ OpenFiles /\ OpsAre /\ CacheIs /\ StraysAre /\ Unsorteds /\ Fresh /\ Whole
  BY DEF Inv
<1>2. PICK o : o = op[k]
  OBVIOUS
<1>3. PICK c : c = o.base
  OBVIOUS
<1>4. PICK q : q = [o EXCEPT !.pc = "header"]
  OBVIOUS
<1>5. PICK x : x = [key |-> k, pos |-> o.pos, removed |-> FALSE]
  OBVIOUS
<1>6. PICK t : t = WriteAt(index[c], o.at, x, Hole)
  OBVIOUS
<1>7. /\ o.pc = "index" /\ op' = [op EXCEPT ![k] = q]
      /\ index' = [index EXCEPT ![c] = t]
      /\ UNCHANGED <<data, whole, sorted, chunk, phase, open, sortFd, cache,
                     dataOffset, indexSize, mutex, job, ops, faults, observers>>
  BY <1>2, <1>3, <1>4, <1>5, <1>6 DEF WriteIndex
<1>8. /\ phase = "up" /\ OpIs(k, o) /\ o # Idle /\ o \in Ops
      /\ cache[k] # NoLoc => cache[k] = o.old
  BY <1>2, <1>7, InHand
<1>9. mutex = k
  BY <1>7, <1>8 DEF OpIs
<1>10. c \in Visible /\ c \notin sortFd
  BY <1>2, <1>3, <1>7, <1>9, InHand
<1>11. /\ c \in Bases /\ data[c] \in Seq(Cell) /\ index[c] \in Seq(SoundEntry) /\ sorted[c] = NoFile
       /\ o.pos \in Nat \ {0} /\ o.at \in Nat \ {0} /\ Len(index[c]) \in Nat
       /\ Len(data[c]) \in Nat /\ DOMAIN index[c] = 1 .. Len(index[c]) /\ c # 0
  <2>1. /\ c \in Bases /\ data[c] \in Seq(Cell) /\ index[c] \in Seq(SoundEntry) /\ sorted[c] = NoFile
    BY <1>1, <1>8, <1>10, VisibleIs
  <2>2. o.pos \in Nat \ {0} /\ o.at \in Nat \ {0} /\ c # 0
    BY <1>1, <1>2, <1>3, <1>8, <1>9, <2>1, OpFields DEF OpIs
  <2> QED BY <2>1, <2>2, SeqIs
<1>12. t \in Seq(SoundEntry) /\ Written(t, index[c], o.at, x, Hole)
  <2>1. x \in SoundEntry /\ Hole \in SoundEntry
    BY <1>5, <1>11, EntryIs
  <2> QED BY <1>6, <1>11, <2>1, WriteAtIs
<1>13. /\ Len(t) \in Nat /\ DOMAIN t = 1 .. Len(t)
       /\ Len(t) = IF Len(index[c]) >= o.at THEN Len(index[c]) ELSE o.at
       /\ t[o.at] = x /\ x.key = k /\ ~x.removed
       /\ \A j \in 1 .. Len(index[c]) : j # o.at => t[j] = index[c][j]
       /\ \A j \in 1 .. o.at - 1 : j > Len(index[c]) => t[j] = Hole
  BY <1>5, <1>12, SeqIs DEF Written
<1>14. /\ q \in Ops /\ q.pc = "header" /\ q.base = c /\ q.at = o.at /\ q.pos = o.pos
       /\ q.old = o.old
  BY <1>3, <1>4, <1>8 DEF Ops
<1>15. op \in [Keys -> Ops] /\ op'[k] = q /\ \A j \in Keys : j # k => op'[j] = op[j]
  BY <1>1, <1>7 DEF Types
<1>16. index'[c] = t /\ \A b \in Bases : b # c => index'[b] = index[b]
  BY <1>1, <1>7, <1>11 DEF Types
<1>17. Settled(c) = indexSize[c] - 1 /\ o.at = Settled(c) + 1 /\ Settled(c) \in Nat
       /\ o.at = indexSize[c] /\ c = LastBase
  BY <1>1, <1>2, <1>3, <1>8, <1>9, <1>11, SettledIs DEF OpIs
<1> HIDE DEF Settled, Cut, HasHole
<1>18. EntriesStay(k, c)
  <2>1. Hole.key = 0
    BY DEF Hole
  <2>2. t \in Seq(SoundEntry) /\ Len(t) >= Len(index[c])
    BY <1>11, <1>12, <1>13
  <2>3. ASSUME NEW i \in 1 .. Len(index[c]), i <= Settled(c) PROVE t[i] = index[c][i]
    BY <1>13, <1>17, <2>3
  <2>4. ASSUME NEW i \in 1 .. Len(t), i <= Settled(c), i > Len(index[c]) \/ index[c][i].key = 0
        PROVE  t[i].key = 0
    <3>1. CASE i > Len(index[c])
      BY <1>11, <1>13, <1>17, <2>1, <2>4, <3>1
    <3>2. CASE ~(i > Len(index[c]))
      BY <1>11, <2>3, <2>4, <3>2
    <3> QED BY <3>1, <3>2
  <2> QED BY <1>9, <1>16, <2>2, <2>3, <2>4 DEF EntriesStay
<1>19. FileStep(k, c)
  <2>1. data[c] = <<>> => whole[c]
    BY <1>1, <1>11 DEF Whole
  <2> QED BY <1>2, <1>3, <1>7, <1>8, <1>10, <1>11, <1>14, <1>15, <1>16, <1>18, <2>1 DEF FileStep
<1>20. /\ Client(k) /\ Whole' /\ Fresh' /\ (\A b \in Visible : Settled(b)' \in Nat)
       /\ \A b : Settled(b)' = Settled(b)
       /\ \A b \in Visible : b # c => (Cut(b)' <=> Cut(b)) /\ (HasHole(b)' <=> HasHole(b))
  BY <1>19, FileStepIs
<1>21. Types'
  <2>1. op' \in [Keys -> Ops]
    BY <1>1, <1>7, <1>14 DEF Types
  <2>2. index' \in [Bases -> Seq(SoundEntry) \cup {NoFile, Linked}]
    BY <1>1, <1>7, <1>12 DEF Types
  <2> QED BY <1>1, <1>7, <2>1, <2>2 DEF Types, observers
<1>22. OpIs(k, q)'
  <2>1. o.old # NoLoc => LocIs(o.old)'
    <3>1. o.old # NoLoc => o.old \in Location /\ LocIs(o.old)
      BY <1>1, <1>2, <1>8, OpFields DEF OpIs
    <3> QED BY <1>1, <1>20, <3>1, LocStays
  <2>2. LastBase' = LastBase /\ mutex' = k
    BY <1>7, <1>9 DEF LastBase
  <2>3. /\ c # 0 /\ c = LastBase /\ o.at = indexSize[c] /\ o.pos = dataOffset[c]
        /\ c \in open \ (sortFd \cup job.group) /\ o.at # 0 /\ o.pos # 0
    BY <1>3, <1>7, <1>8, <1>9 DEF OpIs
  <2>4. o.at <= Len(t) /\ Mine(k, t[o.at])
    BY <1>11, <1>13 DEF Mine
  <2> HIDE DEF Settled, Mine, LocIs, LastBase
  <2> QED BY <1>7, <1>14, <1>16, <2>1, <2>2, <2>3, <2>4 DEF OpIs
<1>23. \A m \in {cache'[k]} : m # NoLoc => m = op'[k].old /\ op'[k] # Idle
  BY <1>7, <1>8, <1>14, <1>15, IdleFields
<1>24. Pending(k)' = o.old /\ Pending(k) = o.old
  BY <1>2, <1>7, <1>8, <1>14, <1>15, IdleFields DEF Pending
<1>25. ASSUME NEW m, NEW b, m = Pending(k)', Stray(k, m, b)'
       PROVE  m = Pending(k) /\ Stray(k, m, b)
  <2>1. m # NoLoc /\ m.base = b /\ ~Good(k, m)' /\ m = Pending(k)
    BY <1>24, <1>25 DEF Stray
  <2>2. m \in Location /\ LocIs(m)
    BY <1>1, <2>1, PendingIs
  <2>3. Good(k, m) => Good(k, m)'
    <3>1. CASE b \in sortFd
      BY <1>7, <2>1, <3>1 DEF Good
    <3>2. CASE b # c /\ b \notin sortFd
      <4>1. index'[b] = index[b]
        BY <1>16, <2>1, <2>2, <3>2, LocFields
      <4> QED BY <1>7, <2>1, <3>2, <4>1 DEF Good
    <3>3. CASE b = c
      <4>1. m.at \in Nat \ {0} /\ m.at <= Settled(c)
        BY <1>10, <2>1, <2>2, <3>3, LocFields DEF LocIs
      <4>2. SUFFICES ASSUME m.at \in DOMAIN index[c], Mine(k, index[c][m.at])
                     PROVE  m.at \in DOMAIN t /\ Mine(k, t[m.at])
        BY <1>7, <1>10, <1>16, <2>1, <3>3 DEF Good
      <4>3. t[m.at] = index[c][m.at] /\ m.at \in 1 .. Len(t)
        <5>1. PICK i : i = m.at
          OBVIOUS
        <5>2. i \in 1 .. Len(index[c]) /\ i # o.at
          BY <1>11, <1>17, <4>1, <4>2, <5>1
        <5>3. t[i] = index[c][i] /\ i \in 1 .. Len(t)
          BY <1>11, <1>13, <5>2
        <5> QED BY <5>1, <5>3
      <4> QED BY <1>13, <4>2, <4>3
    <3> QED BY <3>1, <3>2, <3>3
  <2> QED BY <2>1, <2>3 DEF Stray
<1>26. Cut(c) => HasHole(c)'
  <2>1. SUFFICES ASSUME Cut(c) PROVE HasHole(c)'
    OBVIOUS
  <2>2. Len(index[c]) < Settled(c)
    BY <2>1 DEF Cut
  <2>3. PICK p : p = Settled(c)
    OBVIOUS
  <2>6. t[p] = Hole /\ p \in 1 .. Len(t) /\ p <= p
    BY <1>11, <1>13, <1>17, <2>2, <2>3
  <2>7. t[p].key = 0 /\ ~t[p].removed
    BY <2>6 DEF Hole
  <2>4. IndexFd(c)' = t
    BY <1>7, <1>10, <1>12, <1>16, FilesDiffer DEF IndexFd, IndexFile
  <2>5. Settled(c)' = Settled(c)
    BY <1>20
  <2> QED BY <1>13, <2>3, <2>4, <2>5, <2>6, <2>7 DEF HasHole
<1>27. HasHole(c) => HasHole(c)'
  <2>1. SUFFICES ASSUME HasHole(c) PROVE HasHole(c)'
    OBVIOUS
  <2>2. PICK p \in 1 .. Len(index[c]) : index[c][p].key = 0 /\ ~index[c][p].removed /\ p <= Settled(c)
    BY <1>1, <1>8, <1>10, <2>1, HoleIs
  <2>3. t[p] = index[c][p] /\ p \in 1 .. Len(t)
    BY <1>11, <1>13, <1>17, <2>2
  <2>4. IndexFd(c)' = t
    BY <1>7, <1>10, <1>12, <1>16, FilesDiffer DEF IndexFd, IndexFile
  <2>5. Settled(c)' = Settled(c)
    BY <1>20
  <2> QED BY <1>7, <1>13, <1>17, <2>2, <2>3, <2>4, <2>5 DEF HasHole
<1>28. Unsorteds'
  <2>1. SUFFICES ASSUME NEW b \in open \ (sortFd \cup job.group)
        PROVE /\ indexSize[b] <= RecordsInBlob /\ Len(index'[b]) <= RecordsInBlob
              /\ Len(index'[b]) >= Settled(b)' \/ Cut(b)'
              /\ b # LastBase' => Len(index'[b]) = indexSize[b]
    BY <1>7 DEF Unsorteds
  <2>2. /\ indexSize[b] <= RecordsInBlob /\ Len(index[b]) <= RecordsInBlob
        /\ Len(index[b]) >= Settled(b) \/ Cut(b)
        /\ b # LastBase => Len(index[b]) = indexSize[b]
    BY <1>1, <1>8, <2>1 DEF Unsorteds
  <2>3. b \in Visible /\ b \in Bases /\ LastBase' = LastBase /\ Settled(b)' = Settled(b)
    BY <1>1, <1>7, <1>20, <2>1 DEF Visible, Types, LastBase
  <2>4. CASE b = c
    BY <1>11, <1>13, <1>16, <1>17, <2>2, <2>3, <2>4
  <2>5. CASE b # c
    BY <1>16, <1>20, <2>2, <2>3, <2>5
  <2> QED BY <2>4, <2>5
<1>29. Left(k)
  <2> HIDE DEF Strays, Stray, Pending, OpIs
  <2> QED BY <1>15, <1>20, <1>21, <1>22, <1>23, <1>25, <1>26, <1>27, <1>28 DEF Left
<1> QED BY <1>20, <1>29, ClientKeeps

(* The end of a write: the hash learns an entry that is settled.           *)
LEMMA WriteCommitKeeps ==
  ASSUME Inv, NEW k \in Keys, WriteCommit(k)
  PROVE Inv'
<1>1. Types /\ OpenFiles /\ OpsAre /\ CacheIs /\ StraysAre /\ Unsorteds /\ Fresh /\ Whole
  BY DEF Inv
<1>2. PICK o : o = op[k]
  OBVIOUS
<1>3. PICK c : c = o.base
  OBVIOUS
<1>4. PICK x : x = [key |-> k, pos |-> o.pos, removed |-> FALSE]
  OBVIOUS
<1>5. PICK y : y = [key |-> k, ver |-> o.ver, removed |-> FALSE]
  OBVIOUS
<1>6. PICK l : l = [base |-> c, at |-> o.at, pos |-> o.pos]
  OBVIOUS
<1>7. PICK t : t = [index[c] EXCEPT ![o.at] = x]
  OBVIOUS
<1>8. PICK d : d = [data[c] EXCEPT ![o.pos] = y]
  OBVIOUS
<1>9. /\ o.pc = "payload" /\ op' = [op EXCEPT ![k] = Idle]
      /\ data' = [data EXCEPT ![c] = d] /\ index' = [index EXCEPT ![c] = t]
      /\ whole' = [whole EXCEPT ![c] = @ \/ o.pos = Len(data[c])]
      /\ cache' = [cache EXCEPT ![k] = l] /\ acked' = [acked EXCEPT ![k] = o.ver]
      /\ UNCHANGED <<sorted, chunk, phase, open, sortFd, dataOffset, indexSize, mutex,
                     job, ops, faults, unsure, damaged>>
  <2>1. data' = [data EXCEPT ![c] = [data[c] EXCEPT ![o.pos] = y]]
    BY <1>2, <1>3, <1>5 DEF WriteCommit
  <2>2. index' = [index EXCEPT ![c] = [index[c] EXCEPT ![o.at] = x]]
    BY <1>2, <1>3, <1>4 DEF WriteCommit
  <2> QED BY <1>2, <1>3, <1>6, <1>7, <1>8, <2>1, <2>2 DEF WriteCommit
<1>10. phase = "up" /\ OpIs(k, o) /\ o # Idle /\ o \in Ops
  BY <1>2, <1>9, InHand
<1>11. /\ mutex # k /\ c # 0 /\ c \in open \ (sortFd \cup job.group) /\ o.at # 0 /\ o.pos # 0
       /\ o.at <= Settled(c) /\ o.at <= Len(index[c]) /\ Mine(k, index[c][o.at])
       /\ o.pos <= Len(data[c])
  BY <1>3, <1>9, <1>10 DEF OpIs
<1>12. c \in Visible /\ c \notin sortFd
  BY <1>11 DEF Visible
<1>13. /\ c \in Bases /\ data[c] \in Seq(Cell) /\ index[c] \in Seq(SoundEntry) /\ sorted[c] = NoFile
       /\ o.pos \in Nat \ {0} /\ o.at \in Nat \ {0} /\ Len(index[c]) \in Nat /\ o.ver \in Nat
       /\ Len(data[c]) \in Nat /\ DOMAIN index[c] = 1 .. Len(index[c])
  <2>1. /\ c \in Bases /\ data[c] \in Seq(Cell) /\ index[c] \in Seq(SoundEntry) /\ sorted[c] = NoFile
    BY <1>1, <1>10, <1>12, VisibleIs
  <2>2. o.pos \in Nat \ {0} /\ o.at \in Nat \ {0} /\ o.ver \in Nat
    BY <1>1, <1>2, <1>11, OpFields
  <2> QED BY <2>1, <2>2, SeqIs
<1>14. x \in SoundEntry /\ y \in Cell /\ l \in Location /\ x.key = k /\ ~x.removed /\ k # 0
  <2>1. x \in SoundEntry /\ y \in Cell
    BY <1>4, <1>5, <1>13, EntryIs, CellIs
  <2>2. l \in Location
    BY <1>6, <1>13 DEF Location
  <2> QED BY <1>4, <2>1, <2>2, KeysAssumption
<1>15. /\ t \in Seq(SoundEntry) /\ Len(t) = Len(index[c]) /\ t[o.at] = x
       /\ \A i \in 1 .. Len(index[c]) : i # o.at => t[i] = index[c][i]
  BY <1>7, <1>11, <1>13, <1>14
<1>16. d \in Seq(Cell) /\ Len(d) = Len(data[c]) /\ d # <<>>
  BY <1>8, <1>11, <1>13, <1>14
<1>17. op \in [Keys -> Ops] /\ op'[k] = Idle /\ \A j \in Keys : j # k => op'[j] = op[j]
  BY <1>1, <1>9 DEF Types
<1>18. /\ cache'[k] = l /\ \A j \in Keys : j # k => cache'[j] = cache[j]
  BY <1>1, <1>9 DEF Types
<1>19. /\ index'[c] = t /\ data'[c] = d
       /\ \A b \in Bases : b # c => /\ index'[b] = index[b] /\ data'[b] = data[b]
                                    /\ whole'[b] = whole[b]
  BY <1>1, <1>9, <1>13 DEF Types
<1>20. index[c][o.at].key = k /\ o.at \in 1 .. Len(index[c])
  BY <1>11, <1>13 DEF Mine
<1> HIDE DEF Settled, Cut, HasHole
<1>21. EntriesStay(k, c)
  <2>1. \A i \in 1 .. Len(index[c]) : index[c][i].key \notin {0, k} => t[i] = index[c][i]
    BY <1>15, <1>20
  <2>2. \A i \in 1 .. Len(t) : (i > Len(index[c]) \/ index[c][i].key = 0) => t[i].key = 0
    BY <1>13, <1>14, <1>15, <1>20
  <2>3. Len(t) >= Len(index[c])
    BY <1>13, <1>15
  <2> QED BY <1>15, <1>19, <2>1, <2>2, <2>3 DEF EntriesStay
<1>22. FileStep(k, c)
  <2>1. Len(d) >= Len(data[c])
    BY <1>13, <1>16
  <2> QED BY <1>9, <1>10, <1>11, <1>12, <1>13, <1>16, <1>17, <1>18, <1>19, <1>21, <2>1 DEF FileStep
<1>23. /\ Client(k) /\ Whole' /\ Fresh' /\ (\A b \in Visible : Settled(b)' \in Nat)
       /\ \A b : Settled(b)' = Settled(b)
       /\ \A b \in Visible : b # c => (Cut(b)' <=> Cut(b)) /\ (HasHole(b)' <=> HasHole(b))
  BY <1>22, FileStepIs
<1>24. Types'
  <2>1. op' \in [Keys -> Ops]
    BY <1>1, <1>9, IdleFields DEF Types
  <2>2. /\ index' \in [Bases -> Seq(SoundEntry) \cup {NoFile, Linked}]
        /\ data' \in [Bases -> Seq(Cell) \cup {NoFile}]
    BY <1>1, <1>9, <1>15, <1>16 DEF Types
  <2>3. whole' \in [Bases -> BOOLEAN]
    BY <1>1, <1>9 DEF Types
  <2>4. cache' \in [Keys -> Location \cup {NoLoc}] /\ acked' \in [Keys -> Nat]
    BY <1>1, <1>9, <1>13, <1>14 DEF Types
  <2> QED BY <1>1, <1>9, <2>1, <2>2, <2>3, <2>4 DEF Types
<1>25. OpIs(k, Idle)'
  BY <1>9, <1>11, IdleFields DEF OpIs
<1>26. LocIs(l)'
  <2>1. l.base = c /\ l.at = o.at
    BY <1>6
  <2>2. Settled(c)' = Settled(c)
    BY <1>23
  <2> QED BY <1>9, <1>11, <2>1, <2>2 DEF LocIs
<1>27. \A m, b : m = Pending(k)' => ~Stray(k, m, b)'
  <2>1. Pending(k)' = l
    BY <1>17, <1>18 DEF Pending
  <2>2. l.base = c /\ l.at = o.at
    BY <1>6
  <2>3. o.at \in DOMAIN t /\ Mine(k, t[o.at])
    <3>1. DOMAIN t = 1 .. Len(t)
      BY <1>15, SeqIs
    <3> QED BY <1>14, <1>15, <1>20, <3>1 DEF Mine
  <2>4. Good(k, l)'
    BY <1>9, <1>12, <1>19, <2>2, <2>3 DEF Good
  <2> QED BY <2>1, <2>4 DEF Stray
<1>28. Cut(c) => Cut(c)'
  <2>1. Settled(c)' = Settled(c) /\ LastBase' = LastBase
    BY <1>9, <1>23 DEF LastBase
  <2> QED BY <1>15, <1>19, <2>1 DEF Cut
<1>29. HasHole(c) => HasHole(c)'
  <2>1. SUFFICES ASSUME HasHole(c) PROVE HasHole(c)'
    OBVIOUS
  <2>2. PICK p \in 1 .. Len(index[c]) : index[c][p].key = 0 /\ ~index[c][p].removed /\ p <= Settled(c)
    BY <1>1, <1>10, <1>12, <2>1, HoleIs
  <2>3. t[p] = index[c][p] /\ p \in DOMAIN t
    <3>1. DOMAIN t = 1 .. Len(t)
      BY <1>15, SeqIs
    <3> QED BY <1>14, <1>15, <1>20, <2>2, <3>1
  <2>4. IndexFd(c)' = t
    BY <1>9, <1>12, <1>15, <1>19, FilesDiffer DEF IndexFd, IndexFile
  <2>5. Settled(c)' = Settled(c)
    BY <1>23
  <2> QED BY <2>2, <2>3, <2>4, <2>5 DEF HasHole
<1>30. Unsorteds'
  <2>1. SUFFICES ASSUME NEW b \in open \ (sortFd \cup job.group)
        PROVE /\ indexSize[b] <= RecordsInBlob /\ Len(index'[b]) <= RecordsInBlob
              /\ Len(index'[b]) >= Settled(b)' \/ Cut(b)'
              /\ b # LastBase' => Len(index'[b]) = indexSize[b]
    BY <1>9 DEF Unsorteds
  <2>2. /\ indexSize[b] <= RecordsInBlob /\ Len(index[b]) <= RecordsInBlob
        /\ Len(index[b]) >= Settled(b) \/ Cut(b)
        /\ b # LastBase => Len(index[b]) = indexSize[b]
    BY <1>1, <1>10, <2>1 DEF Unsorteds
  <2>3. b \in Visible /\ b \in Bases /\ LastBase' = LastBase /\ Settled(b)' = Settled(b)
    BY <1>1, <1>9, <1>23, <2>1 DEF Visible, Types, LastBase
  <2>4. CASE b = c
    BY <1>15, <1>19, <1>28, <2>2, <2>3, <2>4
  <2>5. CASE b # c
    BY <1>19, <1>23, <2>2, <2>3, <2>5
  <2> QED BY <2>4, <2>5
<1>31. Left(k)
  <2> HIDE DEF Strays, Stray, Pending, OpIs, LocIs
  <2> QED BY <1>17, <1>18, <1>23, <1>24, <1>25, <1>26, <1>27, <1>28, <1>29, <1>30 DEF Left
<1> QED BY <1>23, <1>31, ClientKeeps

(* The removed flag in the index, or beyond its end, where it leaves a     *)
(* hole.                                                                   *)
LEMMA MarkIndexKeeps ==
  ASSUME Inv, NEW k \in Keys, MarkIndex(k)
  PROVE Inv'
<1>1. Types /\ OpenFiles /\ OpsAre /\ CacheIs /\ StraysAre /\ Unsorteds /\ Fresh /\ Whole
  BY DEF Inv
<1>2. PICK o : o = op[k]
  OBVIOUS
<1>3. PICK l : l = o.old
  OBVIOUS
<1>4. PICK c : c = l.base
  OBVIOUS
<1>5. PICK q : q = [o EXCEPT !.pc = "markdata"]
  OBVIOUS
<1>6. PICK s : s = IndexFd(c)
  OBVIOUS
<1>7. PICK t : t = Marked(s, l.at)
  OBVIOUS
<1>8. /\ o.pc = "mark" /\ l # NoLoc /\ op' = [op EXCEPT ![k] = q]
      /\ UNCHANGED <<data, whole, chunk, phase, open, sortFd, cache, dataOffset,
                     indexSize, mutex, job, ops, faults, acked, damaged>>
  BY <1>2, <1>3, <1>5 DEF MarkIndex
<1>9. /\ phase = "up" /\ OpIs(k, o) /\ o # Idle /\ o \in Ops
      /\ cache[k] # NoLoc => cache[k] = o.old
  BY <1>2, <1>8, InHand
<1>10. l \in Location /\ LocIs(l) /\ Pending(k) = l
  BY <1>1, <1>2, <1>3, <1>8, <1>9, OpFields DEF OpIs, Pending
<1>11. c \in Visible /\ c \in Bases /\ c \in open /\ l.at \in Nat \ {0}
  BY <1>1, <1>4, <1>10, LocFields DEF LocIs, Visible
<1>12. /\ s \in Seq(SoundEntry) /\ data[c] \in Seq(Cell)
       /\ c \in sortFd => s = sorted[c]
       /\ c \notin sortFd => s = index[c] /\ sorted[c] = NoFile
  BY <1>1, <1>6, <1>9, <1>11, IndexFdIs, VisibleIs
<1>13. /\ c \in sortFd => sorted' = [sorted EXCEPT ![c] = t] /\ index' = index
       /\ c \notin sortFd => index' = [index EXCEPT ![c] = t] /\ sorted' = sorted
  BY <1>1, <1>2, <1>3, <1>4, <1>7, <1>11, <1>12 DEF MarkIndex, Types
<1>14. /\ t \in Seq(SoundEntry)
       /\ Len(t) = IF Len(s) >= l.at THEN Len(s) ELSE l.at
       /\ \A j \in 1 .. Len(s) : t[j].key = s[j].key /\ (j # l.at => t[j] = s[j])
       /\ \A j \in 1 .. Len(t) : j > Len(s) => t[j].key = 0
  BY <1>7, <1>11, <1>12, MarkedIs
<1>15. /\ Len(s) \in Nat /\ DOMAIN s = 1 .. Len(s) /\ Len(t) \in Nat /\ DOMAIN t = 1 .. Len(t)
       /\ Len(data[c]) \in Nat
  BY <1>12, <1>14, SeqIs
<1>16. /\ \A b \in Bases : b # c => index'[b] = index[b] /\ sorted'[b] = sorted[b]
       /\ c \in sortFd => sorted'[c] = t /\ index'[c] = index[c]
       /\ c \notin sortFd => index'[c] = t /\ sorted'[c] = NoFile
  BY <1>1, <1>11, <1>12, <1>13 DEF Types
<1>17. /\ c \in sortFd => l.at <= Len(s)
       /\ c \notin sortFd => l.at <= Settled(c)
  BY <1>4, <1>10, <1>12 DEF LocIs
<1>18. /\ q \in Ops /\ q.pc = "markdata" /\ q.base = o.base /\ q.at = o.at /\ q.pos = o.pos
       /\ q.old = l
  BY <1>3, <1>5, <1>9 DEF Ops
<1>19. op \in [Keys -> Ops] /\ op'[k] = q /\ \A j \in Keys : j # k => op'[j] = op[j]
  BY <1>1, <1>8 DEF Types
<1>20. k # 0
  BY KeysAssumption
<1> HIDE DEF Settled, Cut, HasHole
<1>21. Good(k, l) => l.at \in 1 .. Len(s) /\ s[l.at].key = k
  <2>1. CASE c \in sortFd
    BY <1>4, <1>11, <1>12, <1>15, <1>17, <2>1 DEF Good
  <2>2. CASE c \notin sortFd
    BY <1>4, <1>12, <1>15, <2>2 DEF Good, Mine
  <2> QED BY <2>1, <2>2
<1>22. c \notin sortFd /\ l.at \in 1 .. Len(s) => s[l.at].key \in {0, k}
  <2>1. CASE Good(k, l)
    BY <1>21, <2>1
  <2>2. CASE ~Good(k, l)
    <3>1. Stray(k, l, c)
      BY <1>4, <1>8, <2>2 DEF Stray
    <3>2. c \notin sortFd /\ l.at \in DOMAIN index[c] => index[c][l.at].key = 0
      BY <1>1, <1>10, <1>11, <3>1 DEF StraysAre
    <3> QED BY <1>12, <1>15, <3>2
  <2> QED BY <2>1, <2>2
<1>23. Settled(c) \in Nat
  BY <1>1, <1>11, SettledIs
<1>24. c \notin sortFd => EntriesStay(k, c)
  <2> SUFFICES ASSUME c \notin sortFd PROVE EntriesStay(k, c)
    OBVIOUS
  <2>1. \A i \in 1 .. Len(s) : s[i].key \notin {0, k} => t[i] = s[i]
    BY <1>14, <1>22
  <2>2. \A i \in 1 .. Len(t) : (i > Len(s) \/ s[i].key = 0) => t[i].key = 0
    BY <1>14, <1>15
  <2>3. Len(t) >= Len(s)
    BY <1>11, <1>14, <1>15
  <2> QED BY <1>12, <1>14, <1>16, <2>1, <2>2, <2>3 DEF EntriesStay
<1>25. c \in sortFd => KeysStay(c)
  BY <1>12, <1>14, <1>15, <1>16, <1>17 DEF KeysStay
<1>26. FileStep(k, c)
  <2>1. data[c] = <<>> => whole[c]
    BY <1>1, <1>11 DEF Whole
  <2>2. Len(data[c]) >= Len(data[c])
    BY <1>15
  <2> QED BY <1>2, <1>8, <1>9, <1>11, <1>12, <1>16, <1>18, <1>19, <1>24, <1>25, <2>1, <2>2
          DEF FileStep
<1>27. /\ Client(k) /\ Whole' /\ Fresh' /\ (\A b \in Visible : Settled(b)' \in Nat)
       /\ \A b : Settled(b)' = Settled(b)
       /\ \A b \in Visible : b # c => (Cut(b)' <=> Cut(b)) /\ (HasHole(b)' <=> HasHole(b))
  BY <1>26, FileStepIs
<1>28. Types'
  <2>1. op' \in [Keys -> Ops]
    BY <1>1, <1>8, <1>18 DEF Types
  <2>2. /\ index' \in [Bases -> Seq(SoundEntry) \cup {NoFile, Linked}]
        /\ sorted' \in [Bases -> Seq(SoundEntry) \cup {NoFile}]
    <3>1. CASE c \in sortFd
      BY <1>1, <1>13, <1>14, <3>1 DEF Types
    <3>2. CASE c \notin sortFd
      <4>1. /\ index' = [index EXCEPT ![c] = t] /\ sorted' = sorted
            /\ t \in Seq(SoundEntry)
        BY <1>13, <1>14, <3>2
      <4>2. index \in [Bases -> Seq(SoundEntry) \cup {NoFile, Linked}]
            /\ sorted \in [Bases -> Seq(SoundEntry) \cup {NoFile}]
        BY <1>1 DEF Types
      <4> QED BY ONLY <4>1, <4>2
    <3> QED BY <3>1, <3>2
  <2>3. unsure' \in SUBSET Keys
    <3>1. unsure' = unsure \cup ((IF l.at \in DOMAIN s THEN {s[l.at].key} ELSE {}) \ {0, k})
      BY <1>2, <1>3, <1>4, <1>6 DEF MarkIndex
    <3>2. l.at \in DOMAIN s => s[l.at].key \in Keys \cup {0}
      <4>1. l.at \in DOMAIN s => s[l.at] \in SoundEntry
        BY <1>12, SeqIs
      <4> QED BY <4>1, EntryIs
    <3> QED BY <1>1, <3>1, <3>2 DEF Types
  <2> QED BY <1>1, <1>8, <2>1, <2>2, <2>3 DEF Types
<1>29. OpIs(k, q)'
  <2>1. LocIs(l)'
    BY <1>1, <1>10, <1>27, LocStays
  <2>2. LastBase' = LastBase /\ mutex' = mutex
    BY <1>8 DEF LastBase
  <2>3. mutex = k <=> o.base # 0
    BY <1>8, <1>9 DEF OpIs
  <2>4. mutex = k =>
        /\ o.base = LastBase /\ o.at = indexSize[o.base] /\ o.pos = dataOffset[o.base]
        /\ o.base \in open \ (sortFd \cup job.group) /\ o.at # 0 /\ o.pos # 0
        /\ o.at <= Len(index[o.base]) /\ Mine(k, index[o.base][o.at])
        /\ o.pos <= Len(data[o.base])
    BY <1>8, <1>9, <2>3 DEF OpIs
  <2>5. mutex = k => o.at <= Len(index'[o.base]) /\ Mine(k, index'[o.base][o.at])
    <3>1. SUFFICES ASSUME mutex = k
                   PROVE  o.at <= Len(index'[o.base]) /\ Mine(k, index'[o.base][o.at])
      OBVIOUS
    <3>2. CASE o.base = c
      <4>1. o.at = Settled(c) + 1 /\ c \notin sortFd /\ o.at \in Nat \ {0}
        BY <1>1, <1>2, <1>11, <2>4, <3>1, <3>2, SettledIs, OpFields
      <4>2. o.at # l.at /\ o.at \in 1 .. Len(s) /\ Mine(k, s[o.at])
        BY <1>11, <1>12, <1>15, <1>17, <1>23, <2>4, <3>1, <3>2, <4>1
      <4>3. t[o.at] = s[o.at] /\ o.at <= Len(t)
        BY <1>14, <1>15, <1>11, <4>2
      <4> QED BY <1>16, <3>2, <4>1, <4>2, <4>3
    <3>3. CASE o.base # c
      <4>1. o.base \in Bases
        BY <1>1, <2>4, <3>1 DEF Types
      <4> QED BY <1>16, <2>4, <3>1, <3>3, <4>1
    <3> QED BY <3>2, <3>3
  <2> HIDE DEF Mine, LocIs, LastBase
  <2> QED BY <1>8, <1>18, <2>1, <2>2, <2>3, <2>4, <2>5 DEF OpIs
<1>30. \A m \in {cache'[k]} : m # NoLoc => m = op'[k].old /\ op'[k] # Idle
  BY <1>3, <1>8, <1>9, <1>18, <1>19, IdleFields
<1>31. Pending(k)' = NoLoc
  BY <1>18, <1>19, IdleFields DEF Pending
<1>32. \A m, b : m = Pending(k)' => ~Stray(k, m, b)'
  BY <1>31 DEF Stray
<1>33. ~Good(k, l) => Strays(c)' = {}
  <2>1. SUFFICES ASSUME ~Good(k, l), NEW j \in Keys, NEW m, m = Pending(j)', Stray(j, m, c)'
                 PROVE  FALSE
    BY DEF Strays
  <2>2. j # k
    BY <1>32, <2>1
  <2>3. m = Pending(j) /\ m # NoLoc /\ m.base = c /\ ~Good(j, m)'
    BY <1>8, <1>19, <2>1, <2>2 DEF Pending, Stray
  <2>4. Good(j, m)' <=> Good(j, m)
    BY <1>1, <1>27, <2>2, <2>3, OtherStray
  <2>5. j \in Strays(c) /\ Stray(k, l, c)
    BY <1>4, <1>8, <2>1, <2>3, <2>4 DEF Strays, Stray
  <2>6. \A i \in Strays(c) : i = k
    BY <1>1, <1>10, <1>11, <2>5 DEF StraysAre
  <2> QED BY <2>2, <2>5, <2>6
<1>34. IndexFd(c)' = t
  BY <1>8, <1>14, <1>16, FilesDiffer DEF IndexFd, IndexFile
<1>35. Strays(c)' # {} /\ HasHole(c) => HasHole(c)'
  <2>1. SUFFICES ASSUME Good(k, l), HasHole(c) PROVE HasHole(c)'
    BY <1>33
  <2>2. PICK p \in DOMAIN s : s[p].key = 0 /\ ~s[p].removed /\ (c \notin sortFd => p <= Settled(c))
    BY <1>6, <2>1 DEF HasHole
  <2>3. p \in DOMAIN t /\ t[p] = s[p]
    BY <1>14, <1>15, <1>20, <1>21, <2>1, <2>2
  <2>4. Settled(c)' = Settled(c)
    BY <1>27
  <2> QED BY <1>8, <1>34, <2>2, <2>3, <2>4 DEF HasHole
<1>36. c \notin sortFd /\ Cut(c) /\ Good(k, l) => Cut(c)'
  <2>1. SUFFICES ASSUME c \notin sortFd, Cut(c), Good(k, l) PROVE Cut(c)'
    OBVIOUS
  <2>2. Len(t) = Len(s)
    BY <1>14, <1>15, <1>21, <2>1
  <2>3. Settled(c)' = Settled(c) /\ LastBase' = LastBase
    BY <1>8, <1>27 DEF LastBase
  <2> QED BY <1>12, <1>16, <2>1, <2>2, <2>3 DEF Cut
<1>37. Unsorteds'
  <2>1. SUFFICES ASSUME NEW b \in open \ (sortFd \cup job.group)
        PROVE /\ indexSize[b] <= RecordsInBlob /\ Len(index'[b]) <= RecordsInBlob
              /\ Len(index'[b]) >= Settled(b)' \/ Cut(b)'
              /\ b # LastBase' => Len(index'[b]) = indexSize[b]
    BY <1>8 DEF Unsorteds
  <2>2. /\ indexSize[b] <= RecordsInBlob /\ Len(index[b]) <= RecordsInBlob
        /\ Len(index[b]) >= Settled(b) \/ Cut(b)
        /\ b # LastBase => Len(index[b]) = indexSize[b]
    BY <1>1, <1>9, <2>1 DEF Unsorteds
  <2>3. b \in Visible /\ b \in Bases /\ LastBase' = LastBase /\ Settled(b)' = Settled(b)
    BY <1>1, <1>8, <1>27, <2>1 DEF Visible, Types, LastBase
  <2>4. CASE b = c
    <3>1. s = index[c] /\ index'[c] = t /\ l.at <= Settled(c) /\ c \notin sortFd
      BY <1>12, <1>16, <1>17, <2>1, <2>4
    <3>2. indexSize[c] \in Nat /\ Settled(c) <= indexSize[c] /\ RecordsInBlob \in Nat
      <4>1. indexSize[c] \in Nat
        BY <1>1, <1>11, FileIs
      <4>2. Settled(c) = indexSize[c] \/ Settled(c) = indexSize[c] - 1
        BY DEF Settled
      <4> QED BY <4>1, <4>2, BoundsAssumption
    <3>3. Len(t) <= RecordsInBlob
      BY <1>11, <1>14, <1>15, <1>23, <2>2, <2>4, <3>1, <3>2
    <3>4. CASE Len(s) >= Settled(c)
      BY <1>11, <1>14, <1>15, <1>16, <1>23, <2>2, <2>3, <2>4, <3>1, <3>3, <3>4
    <3>5. CASE ~(Len(s) >= Settled(c))
      <4>1. c = LastBase /\ Settled(c) < RecordsInBlob
        BY <2>2, <2>4, <3>1, <3>5 DEF Cut
      <4>2. Len(t) >= Settled(c)' \/ Cut(c)'
        <5>1. Len(t) >= Settled(c) \/ Len(t) < Settled(c)
          BY <1>15, <1>23
        <5> QED BY <2>3, <2>4, <3>1, <4>1, <5>1 DEF Cut
      <4> QED BY <2>2, <2>3, <2>4, <3>1, <3>3, <4>1, <4>2
    <3> QED BY <3>4, <3>5
  <2>5. CASE b # c
    BY <1>16, <1>27, <2>2, <2>3, <2>5
  <2> QED BY <2>4, <2>5
<1>38. \A b \in Visible \ sortFd : Strays(b)' # {} /\ Cut(b) => Cut(b)'
  <2> HIDE DEF Strays
  <2> QED BY <1>27, <1>33, <1>36
<1>39. \A b \in Visible : Strays(b)' # {} /\ HasHole(b) => HasHole(b)'
  <2> HIDE DEF Strays
  <2> QED BY <1>27, <1>35
<1>40. Left(k)
  <2> HIDE DEF Strays, Stray, Pending, OpIs, LocIs
  <2> QED BY <1>19, <1>27, <1>28, <1>29, <1>30, <1>32, <1>37, <1>38, <1>39 DEF Left
<1> QED BY <1>27, <1>40, ClientKeeps

(* Without the sorter there is no group.                                   *)
LEMMA NoSorter ==
  ASSUME Inv, mutex # Sorter
  PROVE job = NoJob /\ job.todo = <<>> /\ job.group = {} /\ Visible = open
<1>1. job = NoJob /\ job.todo = <<>>
  BY DEF Inv, JobIs
<1> QED BY <1>1 DEF NoJob, Visible

(* The base a write goes to: the last one, or one without files.           *)
Target(b, fresh) ==
    /\ b \in Bases /\ b \notin sortFd /\ indexSize[b] < RecordsInBlob
    /\ \A x \in open : x <= b
    /\ fresh => /\ b \notin open /\ data[b] = NoFile /\ index[b] = NoFile /\ sorted[b] = NoFile
                /\ indexSize[b] = 0 /\ whole[b] /\ \A x \in open : x # b
                /\ open # {} => Full(LastBase)
    /\ ~fresh => /\ b \in open /\ b = LastBase /\ data[b] \in Seq(Cell)
                 /\ index[b] \in Seq(SoundEntry)

(* The base a write appends to has no sorted index, and no merge is about  *)
(* to take it.                                                             *)
LEMMA TargetIs ==
  ASSUME Inv, phase = "up", mutex = Nobody, NEW b \in Bases,
         b = IF NeedBase THEN NewBase ELSE LastBase
  PROVE Target(b, NeedBase)
<1>1. Types /\ OpenFiles /\ Named /\ Whole /\ Fresh /\ Unsorteds
  BY DEF Inv
<1>2. job.group = {} /\ Visible = open
  BY NoSorter, NamesAssumption
<1>3. open # {} => LastBase \in open /\ LastBase \in Bases /\ \A x \in open : x <= LastBase
  BY <1>1, LastBaseIs DEF Types
<1>4. \A x \in Bases : x \in Nat
  BY BaseIs
<1>5. open \subseteq Bases /\ sortFd \subseteq open /\ Found \subseteq open
  BY <1>1, <1>2 DEF Types, OpenFiles, Serving
<1>6. CASE NeedBase
  <2>1. (open = {} /\ b = 1) \/ (open # {} /\ b = LastBase + 1 /\ Full(LastBase))
    BY <1>6 DEF NeedBase, NewBase
  <2>2. \A x \in open : x < b
    BY <1>3, <1>4, <1>5, <2>1
  <2>3. b \notin open /\ b \notin Found /\ b \notin sortFd /\ \A x \in open : x <= b /\ x # b
    BY <1>4, <1>5, <2>2
  <2>4. \A x \in Found : ~(b <= x)
    BY <1>4, <1>5, <2>2
  <2>5. data[b] = NoFile /\ index[b] = NoFile /\ sorted[b] = NoFile /\ whole[b]
    BY <1>1, <2>3, <2>4 DEF Found, Named, Whole
  <2>6. indexSize[b] = 0
    BY <1>1, <1>3, <1>4, <2>1 DEF Fresh
  <2> QED BY <1>6, <2>1, <2>3, <2>5, <2>6, BoundsAssumption DEF Target
<1>7. CASE ~NeedBase
  <2>1. open # {} /\ ~Full(LastBase) /\ b = LastBase
    BY <1>7 DEF NeedBase
  <2>2. b \in open /\ b \notin sortFd /\ ~(indexSize[b] >= RecordsInBlob)
    BY <1>3, <2>1 DEF Full
  <2>3. indexSize[b] < RecordsInBlob
    BY <1>1, <2>2, FileIs, BoundsAssumption
  <2>4. data[b] \in Seq(Cell) /\ index[b] \in Seq(SoundEntry)
    BY <1>1, <1>2, <2>2, VisibleIs
  <2> QED BY <1>3, <1>7, <2>1, <2>2, <2>3, <2>4 DEF Target
<1> QED BY <1>6, <1>7

(* The beginning of a write, with a new base or without.                   *)
LEMMA WriteBeginKeeps ==
  ASSUME Inv, NEW k \in Keys, WriteBegin(k)
  PROVE Inv'
<1>1. Types /\ OpenFiles /\ OpsAre /\ CacheIs /\ StraysAre /\ Unsorteds /\ Fresh /\ Whole
  BY DEF Inv
<1>2. PICK b : b = IF NeedBase THEN NewBase ELSE LastBase
  OBVIOUS
<1>3. PICK fresh \in BOOLEAN : fresh = NeedBase
  BY DEF NeedBase
<1>4. PICK l : /\ l \in (IF Locations(k) = {} THEN {NoLoc} ELSE Locations(k))
               /\ op' = [op EXCEPT ![k] = [pc |-> "index", ver |-> ops', base |-> b,
                            at |-> indexSize'[b], pos |-> dataOffset'[b], old |-> l]]
  BY <1>2 DEF WriteBegin
<1>5. /\ phase = "up" /\ op[k] = Idle /\ mutex = Nobody /\ b \in Bases /\ ops' = ops + 1
      /\ open' = open \cup {b}
      /\ data' = [data EXCEPT ![b] = Created(data[b])]
      /\ index' = [index EXCEPT ![b] = Created(index[b])]
      /\ indexSize' = [indexSize EXCEPT ![b] = indexSize[b] + 1]
      /\ dataOffset' = [dataOffset EXCEPT ![b] = dataOffset[b] + 1]
      /\ mutex' = k
      /\ UNCHANGED <<whole, sorted, chunk, phase, sortFd, cache, job, faults, observers>>
  BY <1>2 DEF WriteBegin
<1>6. Target(b, fresh)
  BY <1>2, <1>3, <1>5, TargetIs
<1>7. job = NoJob /\ job.todo = <<>> /\ job.group = {} /\ Visible = open
  BY <1>5, NoSorter, NamesAssumption
<1>8. /\ \A x \in Bases : x # b => /\ data'[x] = data[x] /\ index'[x] = index[x]
                                   /\ indexSize'[x] = indexSize[x]
                                   /\ dataOffset'[x] = dataOffset[x]
      /\ indexSize'[b] = indexSize[b] + 1 /\ dataOffset'[b] = dataOffset[b] + 1
      /\ data'[b] = Created(data[b]) /\ index'[b] = Created(index[b])
  BY <1>1, <1>5 DEF Types
<1>9. /\ fresh => data'[b] = <<>> /\ index'[b] = <<>> /\ sorted'[b] = NoFile
      /\ ~fresh => data'[b] = data[b] /\ index'[b] = index[b] /\ open' = open
  <2>1. fresh => data'[b] = <<>> /\ index'[b] = <<>> /\ sorted'[b] = NoFile
    BY <1>5, <1>6, <1>8 DEF Target, Created
  <2>2. ~fresh => data'[b] = data[b] /\ index'[b] = index[b] /\ open' = open
    BY <1>5, <1>6, <1>8, FilesDiffer DEF Target, Created
  <2> QED BY <2>1, <2>2
<1>10. \A x \in open : x \in Bases /\ data'[x] = data[x] /\ index'[x] = index[x]
  BY <1>1, <1>6, <1>8, <1>9 DEF Target, Types
<1>11. indexSize[b] \in Nat /\ dataOffset[b] \in Nat /\ ops \in Nat /\ RecordsInBlob \in Nat
  BY <1>1, <1>5, FileIs, BoundsAssumption DEF Types
<1>12. PICK q : q = [pc |-> "index", ver |-> ops + 1, base |-> b,
                     at |-> indexSize[b] + 1, pos |-> dataOffset[b] + 1, old |-> l]
  OBVIOUS
<1>13. /\ q.pc = "index" /\ q.base = b /\ q.at = indexSize[b] + 1 /\ q.pos = dataOffset[b] + 1
       /\ q.old = l /\ q # Idle
  BY <1>12, IdleFields
<1>14. op \in [Keys -> Ops] /\ op' = [op EXCEPT ![k] = q] /\ op'[k] = q
       /\ \A j \in Keys : j # k => op'[j] = op[j]
  BY <1>1, <1>4, <1>5, <1>8, <1>12 DEF Types
<1>15. l # NoLoc => /\ l \in Location /\ LocIs(l)
                    /\ l # cache[k] => cache[k] = NoLoc /\ Good(k, l)
                    /\ l = cache[k] => Pending(k) = l
  <2> SUFFICES ASSUME l # NoLoc PROVE l \in Locations(k)
    BY <1>5, FoundIs
  <2> QED BY <1>4
<1>16. cache[k] # NoLoc => l = cache[k]
  <2> SUFFICES ASSUME cache[k] # NoLoc PROVE l = cache[k]
    OBVIOUS
  <2>1. Locations(k) = {cache[k]}
    BY DEF Locations
  <2> QED BY <1>4, <2>1
<1>17. \A x \in Bases : Settled(x)' = indexSize[x] /\ Settled(x) = indexSize[x] /\ indexSize[x] \in Nat
  <2> SUFFICES ASSUME NEW x \in Bases
               PROVE  Settled(x)' = indexSize[x] /\ Settled(x) = indexSize[x] /\ indexSize[x] \in Nat
    OBVIOUS
  <2>1. indexSize[x] \in Nat /\ Settled(x) = indexSize[x]
    BY <1>1, <1>5, FileIs, SettledIs, NamesAssumption
  <2>2. Holding(x)' <=> x = b
    BY <1>5, <1>13, <1>14 DEF Holding
  <2>3. Settled(x)' = indexSize[x]
    BY <1>8, <2>1, <2>2 DEF Settled
  <2> QED BY <2>1, <2>3
<1> HIDE DEF Settled, Cut, HasHole
<1>18. LastBase' = b /\ open' \in SUBSET Bases
  <2>1. open' \in SUBSET Bases /\ open' # {} /\ b \in open' /\ \A x \in open' : x <= b /\ x \in Nat
    BY <1>1, <1>5, <1>6, BaseIs DEF Types, Target
  <2>2. LastBase' \in open' /\ \A x \in open' : x <= LastBase'
    <3>1. open' \subseteq Nat /\ MaxBases \in Nat /\ \A x \in open' : x <= MaxBases
      BY <2>1, BaseIs
    <3>2. Max(open') \in open' /\ \A x \in open' : x <= Max(open')
      BY <2>1, <3>1, MaxOf
    <3> QED BY <3>2 DEF LastBase
  <2>3. LastBase' <= b /\ b <= LastBase' /\ LastBase' \in Nat /\ b \in Nat
    BY <2>1, <2>2
  <2> QED BY <2>1, <2>3
<1>19. Client(k)
  <2>1. /\ \A j \in Keys : j # k => (mutex' = j <=> mutex = j)
        /\ mutex' = Sorter <=> mutex = Sorter
        /\ \A j \in Keys : mutex # j
    BY <1>5, NamesAssumption
  <2>2. \A x \in Visible : Settled(x)' >= Settled(x)
    BY <1>7, <1>10, <1>17
  <2>3. \A x \in Visible : /\ x \in sortFd => KeysStay(x)
                           /\ x \notin sortFd => sorted'[x] = NoFile /\ EntriesStay(k, x)
    <3> SUFFICES ASSUME NEW x \in Visible
                 PROVE  /\ x \in sortFd => KeysStay(x)
                        /\ x \notin sortFd => sorted'[x] = NoFile /\ EntriesStay(k, x)
      OBVIOUS
    <3>1. index'[x] = index[x] /\ sorted'[x] = sorted[x]
      BY <1>5, <1>7, <1>10
    <3> QED BY <1>1, <1>5, <3>1, EntriesSame
  <2>4. \A x \in Visible : data'[x] \in Seq(Cell) /\ Len(data'[x]) >= Len(data[x])
    <3> SUFFICES ASSUME NEW x \in Visible
                 PROVE  data'[x] \in Seq(Cell) /\ Len(data'[x]) >= Len(data[x])
      OBVIOUS
    <3>1. data[x] \in Seq(Cell) /\ data'[x] = data[x]
      BY <1>1, <1>5, <1>7, <1>10, VisibleIs
    <3>2. Len(data[x]) \in Nat
      BY <3>1, SeqIs
    <3> QED BY <3>1, <3>2
  <2>5. \A x \in open' \ open : /\ data'[x] \in Seq(Cell) /\ index'[x] \in Seq(SoundEntry)
                                /\ sorted'[x] = NoFile
    <3> SUFFICES ASSUME NEW x \in open' \ open
                 PROVE  /\ data'[x] \in Seq(Cell) /\ index'[x] \in Seq(SoundEntry)
                        /\ sorted'[x] = NoFile
      OBVIOUS
    <3>1. x = b /\ fresh
      BY <1>5, <1>9
    <3>2. <<>> \in Seq(Cell) /\ <<>> \in Seq(SoundEntry)
      OBVIOUS
    <3> QED BY <1>9, <3>1, <3>2
  <2>6. \A x \in Bases \ open' : /\ data'[x] = data[x] /\ index'[x] = index[x]
                                 /\ sorted'[x] = sorted[x]
    BY <1>5, <1>8
  <2> QED BY <1>5, <1>7, <1>14, <2>1, <2>2, <2>3, <2>4, <2>5, <2>6 DEF Client
<1>20. \A x \in Visible : Settled(x)' \in Nat
  BY <1>7, <1>10, <1>17
<1>21. Whole'
  <2>1. Found \subseteq Found'
    <3> SUFFICES ASSUME NEW x \in Bases, data[x] # NoFile PROVE data'[x] # NoFile
      BY DEF Found
    <3>1. x = b => ~fresh
      BY <1>6 DEF Target
    <3> QED BY <1>8, <1>9, <3>1
  <2>2. ASSUME NEW x \in Bases, data'[x] = <<>> PROVE whole'[x]
    <3>1. CASE x = b /\ fresh
      BY <1>5, <1>6, <3>1 DEF Target
    <3>2. CASE ~(x = b /\ fresh)
      <4>1. data[x] = <<>>
        BY <1>8, <1>9, <2>2, <3>2
      <4> QED BY <1>1, <1>5, <4>1 DEF Whole
    <3> QED BY <3>1, <3>2
  <2>3. ASSUME NEW x \in Bases, ~whole'[x] PROVE \E c \in Found' : x <= c
    BY <1>1, <1>5, <2>1, <2>3 DEF Whole
  <2> QED BY <2>2, <2>3 DEF Whole
<1>22. Types'
  <2>1. q \in Ops
    <3>1. b \in 0 .. MaxBases /\ l \in Location \cup {NoLoc}
      BY <1>5, <1>15, BaseIs
    <3> QED BY <1>11, <1>12, <3>1 DEF Ops
  <2>2. op' \in [Keys -> Ops]
    BY <1>14, <2>1
  <2>3. data' \in [Bases -> Seq(Cell) \cup {NoFile}]
    <3>1. Created(data[b]) \in Seq(Cell) \cup {NoFile}
      BY <1>1, <1>5 DEF Types, Created
    <3> QED BY <1>1, <1>5, <3>1 DEF Types
  <2>4. index' \in [Bases -> Seq(SoundEntry) \cup {NoFile, Linked}]
    <3>1. Created(index[b]) \in Seq(SoundEntry) \cup {NoFile, Linked}
      BY <1>1, <1>5 DEF Types, Created
    <3> QED BY <1>1, <1>5, <3>1 DEF Types
  <2>5. indexSize' \in [Bases -> Nat] /\ dataOffset' \in [Bases -> Nat] /\ ops' \in Nat
    BY <1>1, <1>5, <1>11 DEF Types
  <2>6. sortFd' \in SUBSET open' /\ mutex' \in Keys \cup {Nobody, Sorter}
    BY <1>1, <1>5 DEF Types
  <2> QED BY <1>1, <1>5, <1>18, <2>2, <2>3, <2>4, <2>5, <2>6 DEF Types, observers
<1>23. OpIs(k, q)'
  <2>1. l # NoLoc => LocIs(l)'
    BY <1>1, <1>15, <1>19, <1>20, LocStays
  <2>2. b # 0 /\ b \in open' \ (sortFd' \cup job'.group)
    BY <1>5, <1>6, <1>7, BaseIs DEF Target
  <2>3. q.at = indexSize'[b] /\ q.pos = dataOffset'[b] /\ q.at # 0 /\ q.pos # 0
    BY <1>8, <1>11, <1>13
  <2> HIDE DEF Mine, LocIs, LastBase
  <2> QED BY <1>5, <1>13, <1>18, <2>1, <2>2, <2>3 DEF OpIs
<1>24. \A m \in {cache'[k]} : m # NoLoc => m = op'[k].old /\ op'[k] # Idle
  BY <1>5, <1>13, <1>14, <1>16
<1>25. ASSUME NEW m, NEW x, m = Pending(k)', Stray(k, m, x)'
       PROVE  m = Pending(k) /\ Stray(k, m, x)
  <2>1. m = l /\ m # NoLoc /\ m.base = x /\ ~Good(k, m)'
    BY <1>13, <1>14, <1>25 DEF Stray, Pending
  <2>2. x \in open
    BY <1>15, <2>1 DEF LocIs
  <2>3. index'[x] = index[x] /\ sorted' = sorted /\ cache' = cache /\ sortFd' = sortFd
    BY <1>5, <1>10, <2>2
  <2>4. Good(k, m)' <=> Good(k, m)
    BY <2>1, <2>3 DEF Good
  <2> QED BY <1>15, <2>1, <2>4 DEF Stray
<1>26. ASSUME NEW x \in Visible, x \notin sortFd, Cut(x)
       PROVE  Cut(x)' /\ Settled(x)' = Settled(x)
  <2>1. /\ x = LastBase /\ Len(index[x]) < Settled(x) /\ Settled(x) < RecordsInBlob /\ x \in open
        /\ x \in Bases
    BY <1>7, <1>10, <1>26 DEF Cut
  <2>2. indexSize[x] < RecordsInBlob /\ indexSize[x] \in Nat /\ Settled(x)' = Settled(x)
    BY <1>17, <2>1
  <2>3. ~Full(LastBase)
    BY <1>11, <1>26, <2>1, <2>2 DEF Full
  <2>4. ~fresh
    BY <1>6, <2>1, <2>3 DEF Target
  <2>5. b = LastBase
    BY <1>6, <2>4 DEF Target
  <2> QED BY <1>10, <1>18, <2>1, <2>2, <2>5 DEF Cut
<1>27. ASSUME NEW x \in Visible, HasHole(x)
       PROVE  HasHole(x)'
  <2>1. index'[x] = index[x] /\ sorted' = sorted /\ sortFd' = sortFd
    BY <1>5, <1>7, <1>10
  <2>2. IndexFd(x)' = IndexFd(x)
    BY <2>1 DEF IndexFd, IndexFile
  <2>3. Settled(x)' = Settled(x)
    BY <1>7, <1>10, <1>17
  <2> QED BY <1>27, <2>1, <2>2, <2>3 DEF HasHole
<1>28. Unsorteds'
  <2>1. SUFFICES ASSUME NEW x \in open', x \notin sortFd
        PROVE /\ indexSize'[x] <= RecordsInBlob /\ Len(index'[x]) <= RecordsInBlob
              /\ Len(index'[x]) >= Settled(x)' \/ Cut(x)'
              /\ x # LastBase' => Len(index'[x]) = indexSize'[x]
    BY <1>5, <1>7 DEF Unsorteds
  <2>2. CASE x = b /\ fresh
    <3>1. Len(index'[x]) = 0 /\ indexSize[x] = 0 /\ Settled(x)' = 0 /\ indexSize'[x] = 1
      BY <1>5, <1>6, <1>8, <1>9, <1>17, <2>2 DEF Target
    <3> QED BY <1>18, <2>2, <3>1, BoundsAssumption
  <2>3. CASE ~(x = b /\ fresh)
    <3>1. x \in open
      BY <1>5, <1>9, <2>1, <2>3
    <3>2. /\ indexSize[x] <= RecordsInBlob /\ Len(index[x]) <= RecordsInBlob
          /\ Len(index[x]) >= Settled(x) \/ Cut(x)
          /\ x # LastBase => Len(index[x]) = indexSize[x]
      BY <1>1, <1>5, <1>7, <2>1, <3>1 DEF Unsorteds
    <3>3. /\ x \in Bases /\ x \in Visible /\ index'[x] = index[x] /\ Settled(x)' = Settled(x)
          /\ Settled(x) = indexSize[x] /\ indexSize[x] \in Nat
      BY <1>7, <1>10, <1>17, <3>1
    <3>4. Len(index'[x]) >= Settled(x)' \/ Cut(x)'
      BY <1>26, <2>1, <3>2, <3>3
    <3>5. indexSize'[x] <= RecordsInBlob
      <4>1. CASE x = b
        BY <1>6, <1>8, <1>11, <4>1 DEF Target
      <4>2. CASE x # b
        BY <1>8, <3>2, <3>3, <4>2
      <4> QED BY <4>1, <4>2
    <3>6. x # LastBase' => Len(index'[x]) = indexSize'[x]
      <4>1. SUFFICES ASSUME x # b PROVE Len(index[x]) = indexSize[x]
        BY <1>8, <1>18, <3>3
      <4>2. CASE x # LastBase
        BY <3>2, <4>2
      <4>3. CASE x = LastBase
        <5>1. fresh
          BY <1>6, <4>1, <4>3 DEF Target
        <5>2. Full(x)
          BY <1>6, <3>1, <4>3, <5>1 DEF Target
        <5>3. indexSize[x] >= RecordsInBlob
          BY <2>1, <5>2 DEF Full
        <5>4. ~Cut(x)
          BY <1>11, <3>3, <5>3 DEF Cut
        <5>5. Len(index[x]) \in Nat
          <6>1. index[x] \in Seq(SoundEntry)
            BY <1>1, <1>5, <2>1, <3>3, VisibleIs
          <6> QED BY <6>1, SeqIs
        <5> QED BY <1>11, <3>2, <3>3, <5>3, <5>4, <5>5
      <4> QED BY <4>2, <4>3
    <3> QED BY <3>2, <3>3, <3>4, <3>5, <3>6
  <2> QED BY <2>2, <2>3
<1>29. Fresh'
  <2>1. SUFFICES ASSUME NEW x \in Bases, x > b PROVE indexSize'[x] = 0 /\ dataOffset'[x] = 0
    BY <1>5, <1>18 DEF Fresh
  <2>2. x # b /\ (open # {} => x > LastBase)
    <3>1. x \in Nat /\ b \in Nat
      BY <1>5, BaseIs
    <3>2. open # {} => LastBase \in open /\ LastBase \in Nat
      BY <1>1, LastBaseIs, BaseIs DEF Types
    <3> QED BY <1>6, <2>1, <3>1, <3>2 DEF Target
  <2> QED BY <1>1, <1>8, <2>2 DEF Fresh
<1>30. Left(k)
  <2> HIDE DEF Strays, Stray, Pending, OpIs, LocIs
  <2> QED BY <1>14, <1>20, <1>21, <1>22, <1>23, <1>24, <1>25, <1>26, <1>27, <1>28, <1>29 DEF Left
<1> QED BY <1>19, <1>30, ClientKeeps

-----------------------------------------------------------------------------
(* The sorter *)

(* Nothing is in flight on a base that the sorter takes.                   *)
LEMMA OldIs ==
  ASSUME Inv, SorterFree, open # {}, NEW b \in Old
  PROVE /\ phase = "up" /\ mutex = Nobody /\ job = NoJob /\ job.group = {} /\ Visible = open
        /\ b \in open /\ b \in Bases /\ b # LastBase /\ b < LastBase
        /\ LastBase \in open /\ LastBase \in Bases
        /\ IndexFd(b) # <<>> /\ IndexFd(b) \in Seq(SoundEntry)
        /\ b \in sortFd => IndexFd(b) = sorted[b]
        /\ b \notin sortFd => IndexFd(b) = index[b]
        /\ \A k \in Keys : op[k].base # b /\ (op[k].old # NoLoc => op[k].old.base # b)
<1>1. Types /\ OpenFiles
  BY DEF Inv
<1>2. phase = "up" /\ mutex = Nobody /\ job = NoJob /\ job.group = {} /\ Visible = open
  BY NoSorter, NamesAssumption DEF SorterFree
<1>3. b \in open /\ b # LastBase /\ Len(IndexFd(b)) > 0 /\ ~InFlight(b)
  BY DEF Old
<1>4. b \in Bases /\ b \in Nat /\ LastBase \in Nat /\ b <= LastBase
      /\ LastBase \in open /\ LastBase \in Bases
  BY <1>1, <1>3, LastBaseIs, BaseIs DEF Types
<1>5. /\ IndexFd(b) \in Seq(SoundEntry)
      /\ b \in sortFd => IndexFd(b) = sorted[b]
      /\ b \notin sortFd => IndexFd(b) = index[b]
  BY <1>1, <1>2, <1>3, IndexFdIs
<1>6. IndexFd(b) # <<>>
  BY <1>3, <1>5, SeqIs
<1>7. ASSUME NEW k \in Keys
      PROVE  op[k].base # b /\ (op[k].old # NoLoc => op[k].old.base # b)
  <2>1. op[k] = Idle => op[k].base = 0 /\ op[k].old = NoLoc
    BY IdleFields
  <2>2. b # 0
    BY <1>4, BaseIs
  <2> QED BY <1>3, <2>1, <2>2 DEF InFlight
<1> QED BY <1>2, <1>3, <1>4, <1>5, <1>6, <1>7

(* A location of the hash in such a base: its entry is live, or the index  *)
(* has a hole.                                                             *)
LEMMA HashedIs ==
  ASSUME Inv, SorterFree, open # {}, NEW b \in Old, NEW k \in Keys, op[k] = Idle,
         NEW l, l = cache[k], l # NoLoc, l.base = b
  PROVE /\ Pending(k) = l
        /\ \/ l.at \in DOMAIN IndexFd(b) /\ Mine(k, IndexFd(b)[l.at])
           \/ \E p \in DOMAIN IndexFd(b) : IndexFd(b)[p].key = 0 /\ ~IndexFd(b)[p].removed
        /\ ~Good(k, l) => Stray(k, l, b) /\ HasHole(b) /\ \A j \in Strays(b) : j = k
<1>1. b \in open /\ b # LastBase /\ (b \notin sortFd => IndexFd(b) = index[b])
  BY OldIs
<1>2. Pending(k) = l
  BY DEF Pending
<1>3. Good(k, l) => l.at \in DOMAIN IndexFd(b) /\ Mine(k, IndexFd(b)[l.at])
  BY <1>1 DEF Good
<1>4. ~Good(k, l) => Stray(k, l, b) /\ HasHole(b) /\ \A j \in Strays(b) : j = k
  <2> SUFFICES ASSUME ~Good(k, l)
               PROVE  Stray(k, l, b) /\ HasHole(b) /\ \A j \in Strays(b) : j = k
    OBVIOUS
  <2>1. Stray(k, l, b)
    BY DEF Stray
  <2>2. /\ \A j \in Strays(b) : j = k
        /\ (b \notin sortFd /\ Cut(b) /\ l.at < Settled(b)) \/ HasHole(b)
    BY <1>1, <1>2, <2>1 DEF Inv, StraysAre
  <2>3. ~Cut(b)
    BY <1>1 DEF Cut
  <2> QED BY <2>1, <2>2, <2>3
<1>5. HasHole(b) => \E p \in DOMAIN IndexFd(b) : IndexFd(b)[p].key = 0 /\ ~IndexFd(b)[p].removed
  BY DEF HasHole
<1> QED BY <1>2, <1>3, <1>4, <1>5

(* The calls of the sorter, one after the other.                           *)
LEMMA Tails ==
  ASSUME NEW x, NEW y, NEW z
  PROVE /\ Tail(<<x, y, z>>) = <<y, z>> /\ Tail(<<y, z>>) = <<z>>
        /\ Len(<<x, y, z>>) = 3 /\ Len(<<y, z>>) = 2 /\ Len(<<z>>) = 1
        /\ <<x, y, z>>[1] = x /\ <<y, z>>[1] = y /\ <<z>>[1] = z
        /\ <<x, y, z>> # <<>> /\ <<y, z>> # <<>> /\ <<z>> # <<>>
<1>1. Tail(<<x, y, z>>) = <<y, z>>
  OBVIOUS
<1>2. Tail(<<y, z>>) = <<z>>
  OBVIOUS
<1>3. Len(<<x, y, z>>) = 3 /\ Len(<<y, z>>) = 2 /\ Len(<<z>>) = 1
  OBVIOUS
<1>4. <<x, y, z>>[1] = x /\ <<y, z>>[1] = y /\ <<z>>[1] = z
  OBVIOUS
<1> QED BY <1>1, <1>2, <1>3, <1>4

Follows(t, R, c, u, v, w) ==
    /\ t \in Seq(Calls \X Bases) /\ t # <<>> /\ t[1][2] = c
    /\ \/ t[1][1] = u /\ Len(t) = 3 /\ Tail(t) \in R /\ Tail(t)[1][1] = v
       \/ t[1][1] = v /\ Len(t) = 2 /\ Tail(t) \in R /\ Tail(t)[1][1] = w
       \/ t[1][1] = w /\ Len(t) = 1

Three(s, c, u, v, w) ==
    /\ s \in Rests(s) /\ s[1][1] = u
    /\ \A t \in Rests(s) : Follows(t, Rests(s), c, u, v, w)

(* What is left of three calls, one after the other.                       *)
LEMMA RestsAre ==
  ASSUME NEW c \in Bases, NEW u \in Calls, NEW v \in Calls, NEW w \in Calls
  PROVE Three(<<<<u, c>>, <<v, c>>, <<w, c>>>>, c, u, v, w)
<1> DEFINE s == <<<<u, c>>, <<v, c>>, <<w, c>>>>
<1>1. PICK x \in Calls \X Bases : x = <<u, c>>
  OBVIOUS
<1>2. PICK y \in Calls \X Bases : y = <<v, c>>
  OBVIOUS
<1>3. PICK z \in Calls \X Bases : z = <<w, c>>
  OBVIOUS
<1>4. s = <<x, y, z>>
  BY <1>1, <1>2, <1>3
<1>5. /\ x[1] = u /\ y[1] = v /\ z[1] = w /\ x[2] = c /\ y[2] = c /\ z[2] = c
  BY <1>1, <1>2, <1>3
<1>6. Rests(s) = {<<x, y, z>>, <<y, z>>, <<z>>}
  BY <1>4, Tails DEF Rests
<1>7. Follows(<<x, y, z>>, Rests(s), c, u, v, w)
  <2>1. <<x, y, z>> \in Seq(Calls \X Bases)
    OBVIOUS
  <2> QED BY <1>5, <1>6, <2>1, Tails DEF Follows
<1>8. Follows(<<y, z>>, Rests(s), c, u, v, w)
  <2>1. <<y, z>> \in Seq(Calls \X Bases)
    OBVIOUS
  <2> QED BY <1>5, <1>6, <2>1, Tails DEF Follows
<1>9. Follows(<<z>>, Rests(s), c, u, v, w)
  <2>1. <<z>> \in Seq(Calls \X Bases)
    OBVIOUS
  <2> QED BY <1>5, <1>6, <2>1, Tails DEF Follows
<1>10. s[1][1] = u
  BY <1>4, <1>5, Tails
<1> HIDE DEF Follows
<1>11. Three(s, c, u, v, w)
  <2> HIDE DEF s
  <2> QED BY <1>4, <1>6, <1>7, <1>8, <1>9, <1>10 DEF Three
<1> QED BY <1>11

(* The calls of eblob_base_remove and of datasort_swap_disk, in their      *)
(* order.                                                                  *)
LEMMA CallsAre ==
  ASSUME NEW c \in Bases
  PROVE /\ UnlinkCalls(c) \in Rests(UnlinkCalls(c)) /\ UnlinkCalls(c)[1][1] = "unlink data"
        /\ RenameCalls(c) \in Rests(RenameCalls(c)) /\ RenameCalls(c)[1][1] = "rename data"
        /\ \A t \in Rests(UnlinkCalls(c)) : Follows(t, Rests(UnlinkCalls(c)), c,
                "unlink data", "unlink index", "unlink sorted")
        /\ \A t \in Rests(RenameCalls(c)) : Follows(t, Rests(RenameCalls(c)), c,
                "rename data", "rename index", "link")
<1>1. /\ "unlink data" \in Calls /\ "unlink index" \in Calls /\ "unlink sorted" \in Calls
      /\ "rename data" \in Calls /\ "rename index" \in Calls /\ "link" \in Calls
  BY DEF Calls
<1> HIDE DEF Follows, Rests, Calls, Three
<1>2. Three(UnlinkCalls(c), c, "unlink data", "unlink index", "unlink sorted")
  BY <1>1, RestsAre DEF UnlinkCalls
<1>3. Three(RenameCalls(c), c, "rename data", "rename index", "link")
  BY <1>1, RestsAre DEF RenameCalls
<1> QED BY <1>2, <1>3 DEF Three

(* eblob_generate_sorted_index.                                            *)
LEMMA IndexSortKeeps ==
  ASSUME Inv, NEW b \in Bases, IndexSort(b)
  PROVE Inv'
<1>1. /\ Types /\ LinkedIs /\ Named /\ Whole /\ SortedMatchesIndex /\ OpenFiles /\ JobIs
      /\ OpsAre /\ CacheIs /\ Unsorteds /\ StraysAre /\ Fresh
  BY DEF Inv
<1>2. PICK t : t = SortedByKey(IndexFile(b))
  OBVIOUS
<1>3. /\ SorterFree /\ open # {} /\ b \in Old /\ b \notin sortFd
      /\ sorted' = [sorted EXCEPT ![b] = t] /\ sortFd' = sortFd \cup {b}
      /\ cache' = [k \in Keys |-> IF k \in LiveKeys(IndexFile(b)) THEN NoLoc ELSE cache[k]]
      /\ UNCHANGED <<data, whole, index, chunk, phase, open, dataOffset, indexSize,
                     op, mutex, job, ops, faults, observers>>
  BY <1>2 DEF IndexSort, Flushed
<1>4. /\ phase = "up" /\ mutex = Nobody /\ job = NoJob /\ job.group = {} /\ Visible = open
      /\ b \in open /\ b # LastBase /\ index[b] # <<>> /\ index[b] \in Seq(SoundEntry)
      /\ IndexFd(b) = index[b]
      /\ \A k \in Keys : op[k].base # b /\ (op[k].old # NoLoc => op[k].old.base # b)
  BY <1>3, OldIs
<1>5. IndexFile(b) = index[b] /\ data[b] # NoFile /\ sorted[b] = NoFile
  BY <1>1, <1>4, <1>3, VisibleIs, FilesDiffer DEF IndexFile
<1>6. /\ t \in Seq(SoundEntry) /\ Len(t) = Len(index[b])
      /\ \A j \in 1 .. Len(index[b]) : \E i \in 1 .. Len(t) : t[i] = index[b][j]
  <2>1. PICK s \in Seq(SoundEntry) : s = index[b]
    BY <1>4
  <2>2. t = SortedByKey(s)
    BY <1>2, <1>5, <2>1
  <2>3. t \in Seq(SoundEntry) /\ SameEntries(t, s)
    BY <2>2, SortedIs
  <2> QED BY <2>1, <2>3 DEF SameEntries
<1>7. /\ Len(index[b]) \in Nat /\ DOMAIN index[b] = 1 .. Len(index[b]) /\ DOMAIN t = 1 .. Len(t)
      /\ t # <<>>
  BY <1>4, <1>6, SeqIs
<1>8. sorted'[b] = t /\ \A x \in Bases : x # b => sorted'[x] = sorted[x]
  BY <1>1, <1>3 DEF Types
<1>9. \A k \in Keys : /\ cache'[k] \in {cache[k], NoLoc}
                      /\ k \in LiveKeys(index[b]) => cache'[k] = NoLoc
  BY <1>3, <1>5
<1>10. t # NoFile /\ index[b] # Linked /\ index[b] # NoFile
  BY <1>4, <1>6, FilesDiffer
<1>11. \A x : Settled(x)' = Settled(x)
  BY <1>3 DEF Settled, Holding
<1>12. LastBase' = LastBase
  BY <1>3 DEF LastBase
<1> HIDE DEF Settled
<1>13. Types'
  <2>1. sorted' \in [Bases -> Seq(SoundEntry) \cup {NoFile}]
    BY <1>1, <1>3, <1>6 DEF Types
  <2>2. sortFd' \in SUBSET open'
    BY <1>1, <1>3, <1>4 DEF Types
  <2>3. cache' \in [Keys -> Location \cup {NoLoc}]
    BY <1>1, <1>3 DEF Types
  <2> QED BY <1>1, <1>3, <2>1, <2>2, <2>3 DEF Types, observers
<1>14. LinkedIs' /\ Named' /\ Whole'
  <2>1. Found' = Found /\ b \in Found /\ b <= b
    BY <1>3, <1>5, BaseIs DEF Found
  <2>2. LinkedIs'
    BY <1>1, <1>3, <1>7, <1>8, <1>10 DEF LinkedIs
  <2>3. Named'
    BY <1>1, <1>3, <1>8, <2>1 DEF Named
  <2>4. Whole'
    BY <1>1, <1>3, <2>1 DEF Whole
  <2> QED BY <2>2, <2>3, <2>4
<1>15. SortedMatchesIndex'
  <2> SUFFICES ASSUME NEW x \in Bases, data'[x] # NoFile, sorted'[x] # NoFile, index'[x] # NoFile
               PROVE  Len(sorted'[x]) = Len(IndexFile(x)')
    BY DEF SortedMatchesIndex
  <2>1. CASE x = b
    <3>1. IndexFile(b)' = index[b]
      BY <1>3, <1>10 DEF IndexFile
    <3> QED BY <1>6, <1>8, <2>1, <3>1
  <2>2. CASE x # b
    BY <1>1, <1>3, <1>8, <2>2 DEF SortedMatchesIndex, IndexFile
  <2> QED BY <2>1, <2>2
<1>16. OpenFiles'
  <2>1. Found' = Found
    BY <1>3 DEF Found
  <2> QED BY <1>1, <1>3, <1>4, <1>5, <1>7, <1>8, <1>10, <2>1 DEF OpenFiles, Serving, Types
<1>17. Resting'
  BY <1>3, <1>4 DEF Resting
<1>18. JobIs'
  BY <1>1, <1>3, <1>4, <1>12 DEF JobIs, SorterFree
<1>19. ASSUME NEW l \in Location, LocIs(l)
       PROVE  LocIs(l)'
  <2>1. l.base \in open /\ l.base \in Bases /\ l.at \in Nat
    BY <1>19, LocFields DEF LocIs
  <2>2. CASE l.base # b
    BY <1>3, <1>8, <1>11, <1>19, <2>1, <2>2 DEF LocIs
  <2>3. CASE l.base = b
    <3>1. l.at <= Settled(b) /\ Settled(b) = indexSize[b] /\ indexSize[b] \in Nat
      BY <1>1, <1>3, <1>4, <1>19, <2>3, SettledIs, FileIs, NamesAssumption DEF LocIs
    <3>2. Len(index[b]) = indexSize[b]
      BY <1>1, <1>3, <1>4 DEF Unsorteds
    <3>3. l.at <= Len(sorted'[b])
      BY <1>6, <1>8, <3>1, <3>2
    <3> QED BY <1>3, <1>4, <2>1, <2>3, <3>3 DEF LocIs
  <2> QED BY <2>2, <2>3
<1>20. OpsAre'
  <2>1. SUFFICES ASSUME NEW k \in Keys, NEW o, o = op[k] PROVE OpIs(k, o)'
    BY <1>3 DEF OpsAre
  <2>2. OpIs(k, o) /\ o.base # b /\ o.old \in Location \cup {NoLoc}
    BY <1>1, <1>4, <2>1, OpFields DEF OpsAre
  <2>3. o.old # NoLoc => LocIs(o.old)'
    BY <1>19, <2>2 DEF OpIs
  <2> HIDE DEF LocIs, Mine, LastBase
  <2> QED BY <1>3, <1>11, <1>12, <2>2, <2>3 DEF OpIs
<1>21. CacheIs'
  <2>1. SUFFICES ASSUME NEW k \in Keys, NEW l, l = cache'[k], l # NoLoc
                 PROVE  IF op'[k] = Idle THEN LocIs(l)' ELSE l = op'[k].old
    BY DEF CacheIs
  <2>2. l = cache[k] /\ l \in Location /\ op'[k] = op[k]
    BY <1>1, <1>3, <1>9, <2>1, OpFields
  <2>3. IF op[k] = Idle THEN LocIs(l) ELSE l = op[k].old
    BY <1>1, <2>1, <2>2 DEF CacheIs
  <2> QED BY <1>19, <2>2, <2>3
<1>22. Unsorteds'
  <2>1. \A x : Cut(x)' <=> Cut(x)
    BY <1>3, <1>11, <1>12 DEF Cut
  <2> HIDE DEF Cut
  <2> QED BY <1>1, <1>3, <1>11, <1>12, <2>1 DEF Unsorteds
<1>23. Fresh'
  BY <1>1, <1>3, FreshStays
<1>24. ASSUME NEW k \in Keys, NEW l, NEW x, l = Pending(k)', Stray(k, l, x)'
       PROVE  l = Pending(k) /\ Stray(k, l, x) /\ (x = b => HasHole(b))
  <2>1. l # NoLoc /\ l.base = x /\ ~Good(k, l)' /\ op'[k] = op[k]
    BY <1>3, <1>24 DEF Stray
  <2>2. l = Pending(k) /\ (op[k] = Idle => l = cache[k] /\ l = cache'[k])
    BY <1>9, <1>24, <2>1 DEF Pending
  <2>3. l \in Location /\ x \in Bases
    BY <1>1, <2>1, <2>2, PendingIs, LocFields
  <2>4. CASE x # b
    <3>1. Good(k, l) => Good(k, l)'
      BY <1>3, <1>8, <1>9, <2>1, <2>3, <2>4 DEF Good
    <3> QED BY <2>1, <2>2, <2>4, <3>1 DEF Stray
  <2>5. CASE x = b
    <3>1. op[k] = Idle
      BY <1>4, <2>1, <2>2, <2>5 DEF Pending
    <3>2. ~Good(k, l)
      <4>1. SUFFICES ASSUME Good(k, l) PROVE FALSE
        OBVIOUS
      <4>2. l.at \in DOMAIN index[b] /\ Mine(k, index[b][l.at])
        BY <1>3, <2>1, <2>5, <4>1 DEF Good
      <4>3. k \in LiveKeys(index[b])
        BY <4>2 DEF LiveKeys, Live, Mine
      <4> QED BY <1>9, <2>1, <2>2, <3>1, <4>3
    <3>3. Stray(k, l, b) /\ HasHole(b)
      BY <1>3, <2>1, <2>2, <2>5, <3>1, <3>2, HashedIs
    <3> QED BY <2>2, <2>5, <3>3
  <2> QED BY <2>4, <2>5
<1>25. \A x : Strays(x)' \subseteq Strays(x)
  BY <1>24 DEF Strays
<1>26. StraysAre'
  <2>1. SUFFICES ASSUME NEW x \in open, NEW k \in Keys, NEW l, l = Pending(k)', Stray(k, l, x)'
                 PROVE  /\ \A j \in Strays(x)' : j = k
                        /\ (x \notin sortFd' /\ Cut(x)' /\ l.at < Settled(x)') \/ HasHole(x)'
                        /\ x \notin sortFd' /\ l.at \in DOMAIN index'[x] => index'[x][l.at].key = 0
    BY <1>3 DEF StraysAre
  <2>2. l = Pending(k) /\ Stray(k, l, x) /\ (x = b => HasHole(b))
    BY <1>24, <2>1
  <2>3. /\ \A j \in Strays(x) : j = k
        /\ (x \notin sortFd /\ Cut(x) /\ l.at < Settled(x)) \/ HasHole(x)
        /\ x \notin sortFd /\ l.at \in DOMAIN index[x] => index[x][l.at].key = 0
    BY <1>1, <2>1, <2>2 DEF StraysAre
  <2>4. CASE x = b
    <3>1. PICK p \in DOMAIN index[b] : index[b][p].key = 0 /\ ~index[b][p].removed
      BY <1>4, <2>2, <2>4 DEF HasHole
    <3>2. PICK i \in 1 .. Len(t) : t[i] = index[b][p]
      BY <1>6, <1>7, <3>1
    <3>3. IndexFd(b)' = t
      BY <1>3, <1>8 DEF IndexFd
    <3>4. HasHole(b)'
      BY <1>3, <1>7, <3>1, <3>2, <3>3 DEF HasHole
    <3> QED BY <1>3, <1>25, <2>3, <2>4, <3>4
  <2>5. CASE x # b
    <3>1. Cut(x)' <=> Cut(x)
      BY <1>3, <1>11, <1>12 DEF Cut
    <3>2. IndexFd(x)' = IndexFd(x)
      <4>1. x \in Bases
        BY <1>1, <2>1 DEF Types
      <4> QED BY <1>3, <1>8, <2>5, <4>1 DEF IndexFd, IndexFile
    <3>3. HasHole(x) => HasHole(x)'
      BY <1>3, <1>11, <2>5, <3>2 DEF HasHole
    <3> HIDE DEF Cut, HasHole, Strays
    <3> QED BY <1>3, <1>11, <1>25, <2>3, <2>5, <3>1, <3>3
  <2> QED BY <2>4, <2>5
<1> QED BY <1>13, <1>14, <1>15, <1>16, <1>17, <1>18, <1>20, <1>21, <1>22, <1>23, <1>26 DEF Inv

(* The sorter takes a group of bases away from the operations.             *)
Takes(g) ==
    /\ SorterFree /\ open # {} /\ g \subseteq Old
    /\ open \ g \subseteq open' /\ open' \subseteq open /\ sortFd' \ g = sortFd \ g
    /\ job'.group = g /\ mutex' = Sorter /\ phase' = phase /\ op' = op
    /\ data' = data /\ whole' = whole /\ index' = index /\ sorted' = sorted
    /\ \A b \in Bases : b \notin g => indexSize'[b] = indexSize[b] /\ dataOffset'[b] = dataOffset[b]
Taken(g) ==
    /\ Takes(g)
    /\ \A k \in Keys : cache'[k] \in {cache[k], NoLoc}
    /\ \A k \in Keys : cache'[k] # NoLoc /\ op[k] = Idle => cache'[k].base \notin g

(* The sorter takes a group of bases over: no operation and no location of *)
(* the hash refers to them.                                                *)
LEMMA TakenIs ==
  ASSUME Inv, NEW g, Taken(g), Types', JobIs'
  PROVE Inv'
<1>1. /\ Types /\ LinkedIs /\ Named /\ Whole /\ SortedMatchesIndex /\ OpenFiles
      /\ OpsAre /\ CacheIs /\ Unsorteds /\ StraysAre /\ Fresh
  BY DEF Inv
<1>2. phase = "up" /\ mutex = Nobody /\ job = NoJob /\ job.group = {} /\ Visible = open
  BY NoSorter, NamesAssumption DEF SorterFree, Taken, Takes
<1>3. LastBase \in open /\ LastBase \in Bases /\ LastBase \notin g /\ g \subseteq open
      /\ open \subseteq Bases /\ \A x \in open : x <= LastBase
  BY <1>1, LastBaseIs DEF Taken, Takes, Old, Types
<1>4. \A k \in Keys : op[k].base \notin g /\ (op[k].old # NoLoc => op[k].old.base \notin g)
  <2> SUFFICES ASSUME NEW k \in Keys, NEW b \in g
               PROVE  op[k].base # b /\ (op[k].old # NoLoc => op[k].old.base # b)
    OBVIOUS
  <2>1. b \in Old /\ SorterFree /\ open # {}
    BY DEF Taken, Takes
  <2> QED BY <2>1, OldIs
<1>5. LastBase' = LastBase
  <2>1. LastBase \in open' /\ open' \subseteq open
    BY <1>3 DEF Taken, Takes
  <2>2. open' \in SUBSET Bases /\ open' # {} /\ \A x \in Bases : x \in Nat
    BY <1>3, <2>1, BaseIs
  <2>3. LastBase' \in open' /\ \A x \in open' : x <= LastBase'
    <3>1. open' \subseteq Nat /\ MaxBases \in Nat /\ \A x \in open' : x <= MaxBases
      BY <2>2, BaseIs
    <3>2. Max(open') \in open' /\ \A x \in open' : x <= Max(open')
      BY <2>2, <3>1, MaxOf
    <3> QED BY <3>2 DEF LastBase
  <2>4. LastBase' <= LastBase /\ LastBase <= LastBase' /\ LastBase \in Nat /\ LastBase' \in Nat
    BY <1>3, <2>1, <2>2, <2>3
  <2> QED BY <2>4
<1>6. \A k \in Keys : mutex' # k
  BY NamesAssumption DEF Taken, Takes
<1>7. \A x \in Bases : x \notin g => Settled(x)' = Settled(x) /\ Settled(x) \in Nat
  <2> SUFFICES ASSUME NEW x \in Bases, x \notin g
               PROVE Settled(x)' = Settled(x) /\ Settled(x) \in Nat
    OBVIOUS
  <2>1. Settled(x) = indexSize[x] /\ Settled(x) \in Nat
    BY <1>1, <1>2, SettledIs, NamesAssumption
  <2>2. Settled(x)' = indexSize'[x]
    BY <1>6 DEF Settled, Holding
  <2> HIDE DEF Settled
  <2> QED BY <2>1, <2>2 DEF Taken, Takes
<1> HIDE DEF Settled
<1>8. Found' = Found
  BY DEF Found, Taken, Takes
<1>9. LinkedIs' /\ Named' /\ Whole' /\ SortedMatchesIndex' /\ Resting'
  BY <1>1, <1>2, <1>8 DEF LinkedIs, Named, Whole, SortedMatchesIndex, IndexFile, Resting, Taken, Takes
<1>10. OpenFiles'
  <2>1. Found' \subseteq open' \cup job'.group
    BY <1>1, <1>2, <1>8 DEF OpenFiles, Serving, Taken, Takes
  <2>2. ASSUME NEW x \in open' \ job'.group
        PROVE  /\ data'[x] # NoFile
               /\ x \in sortFd' => sorted'[x] \notin {NoFile, <<>>} /\ index'[x] # NoFile
               /\ x \notin sortFd' => sorted'[x] = NoFile /\ index'[x] \notin {NoFile, Linked}
    <3>1. x \in open \ job.group /\ (x \in sortFd' <=> x \in sortFd)
      BY <1>2, <2>2 DEF Taken, Takes
    <3> QED BY <1>1, <1>2, <3>1 DEF OpenFiles, Serving, Taken, Takes
  <2> QED BY <2>1, <2>2 DEF OpenFiles
<1>11. ASSUME NEW l \in Location, LocIs(l), l.base \notin g
       PROVE  LocIs(l)'
  <2>1. l.base \in open /\ l.base \in Bases
    BY <1>11, LocFields DEF LocIs
  <2>2. l.base \in open' \ job'.group /\ (l.base \in sortFd' <=> l.base \in sortFd)
    BY <1>11, <2>1 DEF Taken, Takes
  <2>3. l.base \notin sortFd => l.at <= Settled(l.base)'
    <3>1. PICK x \in Bases : x = l.base
      BY <2>1
    <3>2. Settled(x)' = Settled(x)
      BY <1>7, <1>11, <3>1
    <3> QED BY <1>11, <3>1, <3>2 DEF LocIs
  <2> QED BY <1>11, <2>2, <2>3 DEF LocIs, Taken, Takes
<1>12. OpsAre'
  <2>1. SUFFICES ASSUME NEW k \in Keys, NEW o, o = op[k] PROVE OpIs(k, o)'
    BY DEF OpsAre, Taken, Takes
  <2>2. OpIs(k, o) /\ o.base \notin g /\ o.old \in Location \cup {NoLoc} /\ mutex # k /\ mutex' # k
    BY <1>1, <1>2, <1>4, <1>6, <2>1, OpFields, NamesAssumption DEF OpsAre
  <2>3. o.old # NoLoc => LocIs(o.old)'
    BY <1>4, <1>11, <2>1, <2>2 DEF OpIs
  <2>4. o.base # 0 =>
          /\ o.base \in open' \ (sortFd' \cup job'.group)
          /\ o.at <= Settled(o.base)'
    <3> SUFFICES ASSUME o.base # 0
                 PROVE  /\ o.base \in open' \ (sortFd' \cup job'.group)
                        /\ o.at <= Settled(o.base)'
      OBVIOUS
    <3>1. o.base \in open \ (sortFd \cup job.group) /\ o.at <= Settled(o.base)
      BY <2>2 DEF OpIs
    <3>2. PICK x \in Bases : x = o.base
      BY <1>3, <3>1
    <3>3. Settled(x)' = Settled(x)
      BY <1>7, <2>2, <3>2
    <3> QED BY <2>2, <3>1, <3>2, <3>3 DEF Taken, Takes
  <2> HIDE DEF LocIs, Mine, LastBase
  <2> QED BY <2>2, <2>3, <2>4 DEF OpIs, Taken, Takes
<1>13. CacheIs'
  <2>1. SUFFICES ASSUME NEW k \in Keys, NEW l, l = cache'[k], l # NoLoc
                 PROVE  IF op'[k] = Idle THEN LocIs(l)' ELSE l = op'[k].old
    BY DEF CacheIs
  <2>2. l = cache[k] /\ l \in Location /\ op'[k] = op[k] /\ (op[k] = Idle => l.base \notin g)
    BY <1>1, <2>1, OpFields DEF Taken, Takes
  <2>3. IF op[k] = Idle THEN LocIs(l) ELSE l = op[k].old
    BY <1>1, <2>1, <2>2 DEF CacheIs
  <2> QED BY <1>11, <2>2, <2>3
<1>14. \A x \in Bases : x \notin g => (Cut(x)' <=> Cut(x))
  BY <1>5, <1>7 DEF Cut, Taken, Takes
<1>15. Unsorteds'
  <2>1. SUFFICES ASSUME NEW x \in open' \ (sortFd' \cup job'.group)
        PROVE /\ indexSize'[x] <= RecordsInBlob /\ Len(index'[x]) <= RecordsInBlob
              /\ Len(index'[x]) >= Settled(x)' \/ Cut(x)'
              /\ x # LastBase' => Len(index'[x]) = indexSize'[x]
    BY DEF Unsorteds
  <2>2. x \in open \ (sortFd \cup job.group) /\ x \in Bases /\ x \notin g
    BY <1>2, <1>3, <2>1 DEF Taken, Takes
  <2>3. /\ indexSize[x] <= RecordsInBlob /\ Len(index[x]) <= RecordsInBlob
        /\ Len(index[x]) >= Settled(x) \/ Cut(x)
        /\ x # LastBase => Len(index[x]) = indexSize[x]
    BY <1>1, <1>2, <2>2 DEF Unsorteds
  <2>4. /\ indexSize'[x] = indexSize[x] /\ index'[x] = index[x] /\ Settled(x)' = Settled(x)
        /\ (Cut(x)' <=> Cut(x))
    BY <1>7, <1>14, <2>2 DEF Taken, Takes
  <2> HIDE DEF Cut
  <2> QED BY <1>5, <2>3, <2>4
<1>16. Fresh'
  <2>1. SUFFICES ASSUME NEW x \in Bases, x > LastBase
                 PROVE  indexSize'[x] = 0 /\ dataOffset'[x] = 0
    BY <1>3, <1>5 DEF Fresh, Taken, Takes
  <2>2. x \notin g
    BY <1>3, <2>1, BaseIs
  <2>3. indexSize[x] = 0 /\ dataOffset[x] = 0
    BY <1>1, <2>1 DEF Fresh
  <2> QED BY <2>2, <2>3 DEF Taken, Takes
<1>17. ASSUME NEW k \in Keys, NEW l, NEW x, l = Pending(k)', Stray(k, l, x)'
       PROVE  l = Pending(k) /\ Stray(k, l, x) /\ x \notin g /\ x \in Bases
  <2>1. l # NoLoc /\ l.base = x /\ ~Good(k, l)' /\ op'[k] = op[k]
    BY <1>17 DEF Stray, Taken, Takes
  <2>2. l = Pending(k) /\ (op[k] = Idle => l = cache[k] /\ l = cache'[k])
    BY <1>17, <2>1 DEF Pending, Taken, Takes
  <2>3. l \in Location /\ x \in Bases
    BY <1>1, <2>1, <2>2, PendingIs, LocFields
  <2>4. x \notin g
    <3>1. CASE op[k] = Idle
      BY <2>1, <2>2, <3>1 DEF Taken, Takes
    <3>2. CASE op[k] # Idle
      BY <1>4, <2>1, <2>2, <3>2 DEF Pending
    <3> QED BY <3>1, <3>2
  <2>5. x \in sortFd' <=> x \in sortFd
    BY <2>4 DEF Taken, Takes
  <2>6. Good(k, l) => Good(k, l)'
    BY <2>1, <2>5 DEF Good, Taken, Takes
  <2> QED BY <2>1, <2>2, <2>3, <2>4, <2>6 DEF Stray
<1>18. \A x : Strays(x)' \subseteq Strays(x)
  BY <1>17 DEF Strays
<1>19. StraysAre'
  <2>1. SUFFICES ASSUME NEW x \in open', NEW k \in Keys, NEW l, l = Pending(k)', Stray(k, l, x)'
                 PROVE  /\ \A j \in Strays(x)' : j = k
                        /\ (x \notin sortFd' /\ Cut(x)' /\ l.at < Settled(x)') \/ HasHole(x)'
                        /\ x \notin sortFd' /\ l.at \in DOMAIN index'[x] => index'[x][l.at].key = 0
    BY DEF StraysAre
  <2>2. l = Pending(k) /\ Stray(k, l, x) /\ x \notin g /\ x \in Bases /\ x \in open
    BY <1>17, <2>1 DEF Taken, Takes
  <2>3. /\ \A j \in Strays(x) : j = k
        /\ (x \notin sortFd /\ Cut(x) /\ l.at < Settled(x)) \/ HasHole(x)
        /\ x \notin sortFd /\ l.at \in DOMAIN index[x] => index[x][l.at].key = 0
    BY <1>1, <2>2 DEF StraysAre
  <2>4. /\ (x \in sortFd' <=> x \in sortFd) /\ index' = index /\ (Cut(x)' <=> Cut(x))
        /\ Settled(x)' = Settled(x)
    BY <1>7, <1>14, <2>2 DEF Taken, Takes
  <2>5. IndexFd(x)' = IndexFd(x)
    BY <2>4 DEF IndexFd, IndexFile, Taken, Takes
  <2>6. HasHole(x) => HasHole(x)'
    BY <2>4, <2>5 DEF HasHole
  <2> HIDE DEF Cut, HasHole, Strays
  <2> QED BY <1>18, <2>3, <2>4, <2>6
<1> QED BY <1>9, <1>10, <1>12, <1>13, <1>15, <1>16, <1>19 DEF Inv

(* eblob_base_remove begins.                                               *)
LEMMA RemoveBaseKeeps ==
  ASSUME Inv, NEW b \in Bases, RemoveBase(b)
  PROVE Inv'
<1>1. Types /\ JobIs
  BY DEF Inv
<1>2. /\ SorterFree /\ open # {} /\ b \in Old /\ AllRemoved(b)
      /\ open' = open \ {b} /\ sortFd' = sortFd \ {b}
      /\ job' = [group |-> {b}, left |-> {}, todo |-> UnlinkCalls(b)] /\ mutex' = Sorter
      /\ UNCHANGED <<files, phase, cache, dataOffset, indexSize, op, ops, faults, observers>>
  BY DEF RemoveBase, Removable
<1>3. /\ phase = "up" /\ job = NoJob /\ b \in open /\ b # LastBase /\ b < LastBase
      /\ LastBase \in open /\ LastBase \in Bases
  BY <1>2, OldIs
<1>4. Taken({b})
  <2>1. ASSUME NEW k \in Keys, cache[k] # NoLoc, op[k] = Idle, cache[k].base = b
        PROVE  FALSE
    <3>1. PICK l : l = cache[k]
      OBVIOUS
    <3>2. \/ l.at \in DOMAIN IndexFd(b) /\ Mine(k, IndexFd(b)[l.at])
          \/ \E p \in DOMAIN IndexFd(b) : IndexFd(b)[p].key = 0 /\ ~IndexFd(b)[p].removed
      BY <1>2, <2>1, <3>1, HashedIs
    <3> QED BY <1>2, <3>2 DEF AllRemoved, Mine
  <2>2. cache' = cache /\ job'.group = {b} /\ open' \subseteq open
    BY <1>2
  <2> QED BY <1>2, <2>1, <2>2 DEF Taken, Takes, files
<1>5. /\ UnlinkCalls(b) \in Rests(UnlinkCalls(b)) /\ UnlinkCalls(b)[1][1] = "unlink data"
      /\ UnlinkCalls(b) \in Seq(Calls \X Bases) /\ UnlinkCalls(b) # <<>>
  BY CallsAre DEF Follows
<1>6. Types'
  <2>1. job' \in [group : SUBSET Bases, left : SUBSET Bases, todo : Seq(Calls \X Bases)]
    BY <1>2, <1>5
  <2>2. open' \in SUBSET Bases /\ sortFd' \in SUBSET open' /\ mutex' \in Keys \cup {Nobody, Sorter}
    BY <1>1, <1>2 DEF Types
  <2> QED BY <1>1, <1>2, <2>1, <2>2 DEF Types, files, observers
<1>7. JobIs'
  <2>1. /\ job'.group = {b} /\ job'.left = {} /\ job'.todo = UnlinkCalls(b) /\ job'.todo # <<>>
        /\ job' # NoJob
    BY <1>2, <1>5 DEF NoJob
  <2>2. chunk' = NoFile
    BY <1>1, <1>2, <1>3 DEF JobIs, files, SorterFree
  <2>3. LastBase' = LastBase /\ open' # {}
    <3>1. open \in SUBSET Bases /\ open' \in SUBSET Bases /\ LastBase \in open' /\ open' \subseteq open
      BY <1>1, <1>2, <1>3 DEF Types
    <3>2. \A x \in open : x <= LastBase
      BY <3>1, <1>2, LastBaseIs
    <3>3. open' \subseteq Nat /\ MaxBases \in Nat /\ \A x \in open' : x <= MaxBases
      BY <3>1, BaseIs
    <3>4. Max(open') \in open' /\ \A x \in open' : x <= Max(open')
      BY <3>1, <3>3, MaxOf
    <3>5. Max(open') <= LastBase /\ LastBase <= Max(open') /\ Max(open') \in Nat /\ LastBase \in Nat
      BY <3>1, <3>2, <3>3, <3>4, BaseIs
    <3> QED BY <3>1, <3>5 DEF LastBase
  <2>4. Removing'
    <3>1. job'.todo \in Rests(UnlinkCalls(b))
      BY <1>5, <2>1
    <3>2. job'.todo[1][1] = "unlink data"
      BY <1>5, <2>1
    <3>3. Dropping(b)'
      BY <3>1, <3>2 DEF Dropping
    <3> QED BY <1>2, <2>1, <2>2, <3>3 DEF Removing
  <2> QED BY <1>2, <1>3, <2>1, <2>2, <2>3, <2>4 DEF JobIs
<1> QED BY <1>4, <1>6, <1>7, TakenIs


(* What a data sort copies.                                                *)
LEMMA CopiedIs ==
  ASSUME Inv, SorterFree, open # {}, NEW g \in SUBSET Bases, g \subseteq Old
  PROVE /\ IsFiniteSet(Copied(g))
        /\ \A c \in Copied(g) : /\ c[1] \in g /\ c[2] \in DOMAIN IndexFd(c[1])
                                /\ ~IndexFd(c[1])[c[2]].removed /\ c = <<c[1], c[2]>>
                                /\ IndexFd(c[1])[c[2]] \in SoundEntry
                                /\ c[1] \in Nat /\ c[2] \in Nat /\ KeyAt(c) \in Nat
        /\ \A b \in g : \A i \in DOMAIN IndexFd(b) : ~IndexFd(b)[i].removed => <<b, i>> \in Copied(g)
<1> DEFINE C(b) == {<<b, i>> : i \in {j \in DOMAIN IndexFd(b) : ~IndexFd(b)[j].removed}}
           f == [b \in g |-> C(b)]
<1>1. Copied(g) = UNION {C(b) : b \in g}
  BY DEF Copied
<1>2. \A b \in g : IndexFd(b) \in Seq(SoundEntry) /\ b \in Nat
  BY OldIs, BaseIs
<1>3. ASSUME NEW b \in g PROVE IsFiniteSet(C(b))
  <2>1. PICK n \in Nat : DOMAIN IndexFd(b) = 1 .. n
    BY <1>2, SeqIs
  <2>2. IsFiniteSet({b})
    BY FS_Singleton
  <2>5. 1 \in Int /\ n \in Int
    OBVIOUS
  <2>6. IsFiniteSet(1 .. n)
    BY <2>5, FS_Interval
  <2>3. IsFiniteSet({b} \X (1 .. n))
    BY <2>2, <2>6, FS_Product
  <2>4. C(b) \in SUBSET ({b} \X (1 .. n))
    BY <2>1
  <2> HIDE DEF C
  <2> QED BY <2>3, <2>4, FS_Subset
<1>4. IsFiniteSet(g)
  <2>1. IsFiniteSet(1 .. MaxBases)
    BY BoundsAssumption, FS_Interval
  <2> QED BY <2>1, FS_Subset DEF Bases
<1>5. IsFiniteSet({C(b) : b \in g})
  <2> DEFINE T == {C(b) : b \in g}
  <2> HIDE DEF C
  <2>1. f \in Surjection(g, T)
    BY DEF Surjection
  <2> HIDE DEF T, f
  <2>2. IsFiniteSet(T)
    BY <1>4, <2>1, FS_Surjection
  <2> QED BY <2>2 DEF T
<1>6. IsFiniteSet(Copied(g))
  <2> DEFINE T == {C(b) : b \in g}
  <2>1. \A S \in T : IsFiniteSet(S)
    BY <1>3
  <2>2. IsFiniteSet(T) /\ Copied(g) = UNION T
    BY <1>1, <1>5
  <2> HIDE DEF T
  <2> QED BY <2>1, <2>2, FS_UNION
<1>7. ASSUME NEW c \in Copied(g)
      PROVE  /\ c[1] \in g /\ c[2] \in DOMAIN IndexFd(c[1])
             /\ ~IndexFd(c[1])[c[2]].removed /\ c = <<c[1], c[2]>>
             /\ IndexFd(c[1])[c[2]] \in SoundEntry
             /\ c[1] \in Nat /\ c[2] \in Nat /\ KeyAt(c) \in Nat
  <2>1. PICK b \in g : c \in C(b)
    BY <1>1
  <2>2. PICK i \in DOMAIN IndexFd(b) : ~IndexFd(b)[i].removed /\ c = <<b, i>>
    BY <2>1
  <2>3. IndexFd(b)[i] \in SoundEntry /\ i \in Nat /\ b \in Nat
    BY <1>2, <2>2, SeqIs
  <2>4. IndexFd(b)[i].key \in Nat
    BY <2>3, EntryIs
  <2>5. c[1] = b /\ c[2] = i
    BY <2>2
  <2> QED BY <2>2, <2>3, <2>4, <2>5 DEF KeyAt
<1>8. ASSUME NEW b \in g, NEW i \in DOMAIN IndexFd(b), ~IndexFd(b)[i].removed
      PROVE  <<b, i>> \in Copied(g)
  <2>1. <<b, i>> \in C(b)
    BY <1>8
  <2> QED BY <1>1, <2>1
<1> QED BY <1>6, <1>7, <1>8

(* They are copied in an order.                                            *)
LEMMA CopyOrderIs ==
  ASSUME Inv, SorterFree, open # {}, NEW g \in SUBSET Bases, g \subseteq Old
  PROVE StrictOrder(Copied(g), CopyOrder(g))
<1> DEFINE D == Copied(g)
           Less(x, y) == \/ KeyAt(x) < KeyAt(y)
                         \/ KeyAt(x) = KeyAt(y) /\ x[1] < y[1]
                         \/ KeyAt(x) = KeyAt(y) /\ x[1] = y[1] /\ x[2] < y[2]
<1>1. \A x \in D : x = <<x[1], x[2]>> /\ x[1] \in Nat /\ x[2] \in Nat /\ KeyAt(x) \in Nat
  BY CopiedIs
<1>2. \A x, y \in D : <<x, y>> \in CopyOrder(g) <=> Less(x, y)
  BY DEF CopyOrder
<1> HIDE DEF D, KeyAt
<1>3. \A x \in D : ~Less(x, x)
  BY <1>1
<1>4. ASSUME NEW x \in D, NEW y \in D, x # y PROVE Less(x, y) \/ Less(y, x)
  <2>1. x[1] # y[1] \/ x[2] # y[2]
    BY <1>1, <1>4
  <2>2. /\ x[1] \in Nat /\ x[2] \in Nat /\ KeyAt(x) \in Nat
        /\ y[1] \in Nat /\ y[2] \in Nat /\ KeyAt(y) \in Nat
    BY <1>1
  <2> QED BY <2>1, <2>2
<1>5. ASSUME NEW x \in D, NEW y \in D, NEW z \in D, Less(x, y), Less(y, z) PROVE Less(x, z)
  <2>1. /\ x[1] \in Nat /\ x[2] \in Nat /\ KeyAt(x) \in Nat
        /\ y[1] \in Nat /\ y[2] \in Nat /\ KeyAt(y) \in Nat
        /\ z[1] \in Nat /\ z[2] \in Nat /\ KeyAt(z) \in Nat
    BY <1>1
  <2> QED BY <1>5, <2>1
<1> HIDE DEF Less
<1>6. StrictOrder(D, CopyOrder(g))
  BY <1>2, <1>3, <1>4, <1>5 DEF StrictOrder
<1> QED BY <1>6 DEF D

(* The result has a live entry for the key of each record, and no hole.    *)
LEMMA ChunkIs ==
  ASSUME Inv, SorterFree, open # {}, NEW g \in SUBSET Bases, g \subseteq Old, Copyable(g),
         NEW ch, ch = Chunk(g)
  PROVE /\ ch \in Chunks /\ ch.cells # <<>> /\ ch.entries # <<>>
        /\ Cardinality(Copied(g)) \in Nat /\ Len(ch.cells) = Len(ch.entries)
        /\ \A i \in DOMAIN ch.entries : ch.entries[i].key # 0 /\ ch.entries[i].pos <= Len(ch.entries)
        /\ \A c \in Copied(g) : KeyAt(c) \in LiveKeys(ch.entries)
<1> DEFINE order == InOrder(Copied(g), CopyOrder(g))
           n == Cardinality(Copied(g))
           From(i) == IndexFd(order[i][1])[order[i][2]]
           cell(i) == [key |-> From(i).key, ver |-> data[order[i][1]][From(i).pos].ver,
                       removed |-> FALSE]
           entry(i) == [key |-> From(i).key, pos |-> i, removed |-> FALSE]
<1>1. IsFiniteSet(Copied(g)) /\ Copied(g) # {} /\ n \in Nat /\ n # 0
  <2>1. IsFiniteSet(Copied(g)) /\ Copied(g) # {}
    BY CopiedIs DEF Copyable
  <2> QED BY <2>1, FS_CardinalityType, FS_EmptySet
<1>2. /\ order \in [1 .. n -> Copied(g)]
      /\ \A c \in Copied(g) : \E i \in 1 .. n : order[i] = c
  <2>1. StrictOrder(Copied(g), CopyOrder(g))
    BY CopyOrderIs
  <2> QED BY <1>1, <2>1, InOrderIs
<1>3. /\ ch = [cells |-> [i \in DOMAIN order |-> cell(i)],
               entries |-> [i \in DOMAIN order |-> entry(i)]]
  BY DEF Chunk
<1>4. DOMAIN order = 1 .. n
  BY <1>2
<1>5. ASSUME NEW i \in 1 .. n
      PROVE  /\ From(i).key \in Keys /\ From(i).key = KeyAt(order[i])
             /\ data[order[i][1]][From(i).pos] \in Cell
  <2>1. PICK c \in Copied(g) : c = order[i]
    BY <1>2
  <2>2. PICK e : e = IndexFd(c[1])[c[2]]
    OBVIOUS
  <2>3. PICK b : b = c[1]
    OBVIOUS
  <2>4. b \in g /\ e \in SoundEntry /\ c[2] \in DOMAIN IndexFd(b)
    BY <2>2, <2>3, CopiedIs
  <2>5. e.key # 0 /\ Within(b, e)
    BY <2>2, <2>3, <2>4 DEF Copyable
  <2>6. e.key \in Keys /\ e.pos \in Nat /\ e.pos # 0
    BY <2>4, <2>5, EntryIs
  <2>7. data[b] \in Seq(Cell)
    <3>1. Types /\ OpenFiles /\ phase = "up" /\ b \in Visible
      BY <2>4, OldIs DEF Inv
    <3> QED BY <3>1, VisibleIs
  <2>8. e.pos \in 1 .. Len(data[b])
    <3>1. Len(data[b]) \in Nat
      BY <2>7, SeqIs
    <3> QED BY <2>5, <2>6, <3>1 DEF Within
  <2>9. data[b][e.pos] \in Cell
    BY <2>7, <2>8, SeqIs
  <2>10. From(i) = e /\ order[i][1] = b /\ KeyAt(order[i]) = e.key
    BY <2>1, <2>2, <2>3 DEF KeyAt
  <2> HIDE DEF order
  <2> QED BY <2>6, <2>9, <2>10
<1> HIDE DEF order, n
<1>6. ASSUME NEW i \in 1 .. n PROVE cell(i) \in Cell /\ entry(i) \in SoundEntry
  <2>1. From(i).key \in Keys /\ data[order[i][1]][From(i).pos] \in Cell
    BY <1>5
  <2>2. \A x \in Cell : x.ver \in Nat \cup {Unwritten}
    BY DEF Cell
  <2>3. i \in Nat \ {0}
    BY <1>1
  <2>4. cell(i) \in Cell
    BY <2>1, <2>2 DEF Cell
  <2>5. entry(i) \in SoundEntry
    BY <2>1, <2>3, EntryIs
  <2> QED BY <2>4, <2>5
<1>7. PICK s : s = [i \in 1 .. n |-> cell(i)]
  OBVIOUS
<1>8. PICK t : t = [i \in 1 .. n |-> entry(i)]
  OBVIOUS
<1>9. ch = [cells |-> s, entries |-> t]
  BY <1>3, <1>4, <1>7, <1>8
<1>10. s \in Seq(Cell) /\ t \in Seq(SoundEntry) /\ Len(s) = n /\ Len(t) = n
  <2> HIDE DEF cell, entry
  <2>1. s \in [1 .. n -> Cell] /\ t \in [1 .. n -> SoundEntry]
    BY <1>6, <1>7, <1>8
  <2> QED BY <1>1, <2>1
<1>11. s # <<>> /\ t # <<>> /\ DOMAIN t = 1 .. n
  BY <1>1, <1>10, SeqIs
<1>12. ch \in Chunks /\ ch.cells = s /\ ch.entries = t
  BY <1>9, <1>10 DEF Chunks
<1>13. \A i \in 1 .. n : t[i].key = KeyAt(order[i]) /\ ~t[i].removed /\ t[i].key \in Keys /\ t[i].pos <= n
  <2> SUFFICES ASSUME NEW i \in 1 .. n
               PROVE t[i].key = KeyAt(order[i]) /\ ~t[i].removed /\ t[i].key \in Keys /\ t[i].pos <= n
    OBVIOUS
  <2>1. t[i] = entry(i)
    BY <1>8
  <2>2. t[i].key = From(i).key /\ ~t[i].removed /\ t[i].pos = i
    BY <2>1
  <2> QED BY <1>1, <1>5, <2>2
<1>14. ASSUME NEW c \in Copied(g) PROVE KeyAt(c) \in LiveKeys(t)
  <2>1. PICK i \in 1 .. n : order[i] = c
    BY <1>2 DEF n
  <2>2. i \in DOMAIN t /\ t[i].key = KeyAt(c) /\ ~t[i].removed /\ KeyAt(c) \in Keys
    BY <1>11, <1>13, <2>1
  <2> QED BY <2>2 DEF LiveKeys, Live
<1>15. \A i \in DOMAIN t : t[i].key # 0 /\ t[i].pos <= Len(t)
  BY <1>10, <1>11, <1>13, KeysAssumption
<1> QED BY <1>1, <1>10, <1>11, <1>12, <1>14, <1>15 DEF n

(* datasort_swap_memory.                                                   *)
LEMMA SwapBeginKeeps ==
  ASSUME Inv, NEW g \in SUBSET Bases, SwapBegin(g)
  PROVE Inv'
<1>1. Types /\ JobIs
  BY DEF Inv
<1>2. PICK first : first = Min(g)
  OBVIOUS
<1>3. PICK ch : ch = Chunk(g)
  OBVIOUS
<1>4. PICK n : n = Cardinality(Copied(g))
  OBVIOUS
<1>5. /\ SorterFree /\ open # {} /\ g \subseteq Old /\ g # {} /\ Copyable(g) /\ chunk' = ch
      /\ open' = open \ (g \ {first}) /\ sortFd' = (sortFd \ g) \cup {first}
      /\ cache' = [k \in Keys |-> IF k \in LiveKeys(ch.entries) THEN NoLoc ELSE cache[k]]
      /\ indexSize' = [indexSize EXCEPT ![first] = n]
      /\ dataOffset' = [dataOffset EXCEPT ![first] = n]
      /\ job' = [group |-> g, left |-> g \ {first}, todo |-> UnlinkCalls(first)]
      /\ mutex' = Sorter
      /\ UNCHANGED <<data, whole, index, sorted, phase, op, ops, faults, observers>>
  BY <1>2, <1>3, <1>4 DEF SwapBegin, Flushed
<1>6. first \in g /\ first \in Bases
  BY <1>2, <1>5, FirstIs
<1>7. \A b \in g : b \in open /\ b \in Bases /\ b < LastBase /\ b # LastBase
  BY <1>5, OldIs
<1>8. phase = "up" /\ job = NoJob /\ LastBase \in open /\ LastBase \in Bases
  BY <1>5, <1>6, OldIs
<1>9. /\ ch \in Chunks /\ ch.cells # <<>> /\ ch.entries # <<>> /\ n \in Nat
      /\ \A c \in Copied(g) : KeyAt(c) \in LiveKeys(ch.entries)
  BY <1>3, <1>4, <1>5, ChunkIs
<1>10. Taken(g)
  <2>1. ASSUME NEW k \in Keys, cache'[k] # NoLoc, op[k] = Idle, cache'[k].base \in g
        PROVE  FALSE
    <3>1. PICK l : l = cache[k]
      OBVIOUS
    <3>2. PICK b \in g : b = l.base
      BY <1>5, <2>1, <3>1
    <3>3. k \notin LiveKeys(ch.entries) /\ l # NoLoc
      BY <1>5, <2>1, <3>1
    <3>4. \/ l.at \in DOMAIN IndexFd(b) /\ Mine(k, IndexFd(b)[l.at])
          \/ \E p \in DOMAIN IndexFd(b) : IndexFd(b)[p].key = 0 /\ ~IndexFd(b)[p].removed
      BY <1>5, <2>1, <3>1, <3>2, <3>3, HashedIs
    <3>5. CASE l.at \in DOMAIN IndexFd(b) /\ Mine(k, IndexFd(b)[l.at])
      <4>1. PICK c : c = <<b, l.at>>
        OBVIOUS
      <4>2. c \in Copied(g)
        BY <1>5, <3>5, <4>1, CopiedIs DEF Mine
      <4>3. KeyAt(c) = k
        BY <3>5, <4>1 DEF KeyAt, Mine
      <4> QED BY <1>9, <3>3, <4>2, <4>3
    <3>6. CASE \E p \in DOMAIN IndexFd(b) : IndexFd(b)[p].key = 0 /\ ~IndexFd(b)[p].removed
      <4>1. PICK p \in DOMAIN IndexFd(b) : IndexFd(b)[p].key = 0 /\ ~IndexFd(b)[p].removed
        BY <3>6
      <4>2. PICK c : c = <<b, p>>
        OBVIOUS
      <4>3. c \in Copied(g) /\ c[1] = b /\ c[2] = p
        BY <1>5, <4>1, <4>2, CopiedIs
      <4> QED BY <1>5, <4>1, <4>3 DEF Copyable
    <3> QED BY <3>4, <3>5, <3>6
  <2>2. \A k \in Keys : cache'[k] \in {cache[k], NoLoc}
    BY <1>5
  <2>3. /\ job'.group = g /\ open' \subseteq open /\ open \ g \subseteq open'
        /\ sortFd' \ g = sortFd \ g
    BY <1>5, <1>6
  <2>4. \A b \in Bases : b \notin g => indexSize'[b] = indexSize[b] /\ dataOffset'[b] = dataOffset[b]
    BY <1>1, <1>5, <1>6 DEF Types
  <2> QED BY <1>5, <2>1, <2>2, <2>3, <2>4 DEF Taken, Takes
<1>11. /\ UnlinkCalls(first) \in Rests(UnlinkCalls(first))
       /\ UnlinkCalls(first)[1][1] = "unlink data"
       /\ UnlinkCalls(first) \in Seq(Calls \X Bases) /\ UnlinkCalls(first) # <<>>
  BY <1>6, CallsAre DEF Follows
<1>12. Types'
  <2>1. job' \in [group : SUBSET Bases, left : SUBSET Bases, todo : Seq(Calls \X Bases)]
    BY <1>5, <1>11
  <2>2. open' \in SUBSET Bases /\ sortFd' \in SUBSET open' /\ mutex' \in Keys \cup {Nobody, Sorter}
    BY <1>1, <1>5, <1>6, <1>7 DEF Types
  <2>3. cache' \in [Keys -> Location \cup {NoLoc}]
    BY <1>1, <1>5 DEF Types
  <2>4. indexSize' \in [Bases -> Nat] /\ dataOffset' \in [Bases -> Nat]
    BY <1>1, <1>5, <1>9 DEF Types
  <2> QED BY <1>1, <1>5, <1>9, <2>1, <2>2, <2>3, <2>4 DEF Types, observers
<1>13. JobIs'
  <2>1. /\ job'.group = g /\ job'.left = g \ {first} /\ job'.todo = UnlinkCalls(first)
        /\ job'.todo # <<>> /\ job' # NoJob
    BY <1>5, <1>11 DEF NoJob
  <2>2. chunk' # NoFile
    BY <1>5, <1>9, FilesDiffer
  <2>3. LastBase' = LastBase /\ open' # {}
    <3>1. open \in SUBSET Bases /\ open' \in SUBSET Bases /\ LastBase \in open' /\ open' \subseteq open
      BY <1>1, <1>5, <1>7, <1>8 DEF Types
    <3>2. \A x \in open : x <= LastBase
      BY <3>1, <1>5, LastBaseIs
    <3>3. open' \subseteq Nat /\ MaxBases \in Nat /\ \A x \in open' : x <= MaxBases
      BY <3>1, BaseIs
    <3>4. Max(open') \in open' /\ \A x \in open' : x <= Max(open')
      BY <3>1, <3>3, MaxOf
    <3>5. Max(open') <= LastBase /\ LastBase <= Max(open') /\ Max(open') \in Nat /\ LastBase \in Nat
      BY <3>1, <3>2, <3>3, <3>4, BaseIs
    <3> QED BY <3>1, <3>5 DEF LastBase
  <2>4. Merging(first)'
    <3>1. job'.todo \in Rests(UnlinkCalls(first)) /\ job'.todo[1][1] = "unlink data"
      BY <1>11, <2>1
    <3>2. Dropping(first)'
      BY <3>1 DEF Dropping
    <3>3. open' \cap g = {first} /\ first \in sortFd' /\ first \notin job'.left
          /\ job'.group \ job'.left = {first}
      BY <1>5, <1>6, <1>7, <2>1
    <3> QED BY <1>5, <1>9, <2>1, <2>2, <3>2, <3>3 DEF Merging
  <2>5. first = Min(job'.group)
    BY <1>2, <2>1
  <2> QED BY <1>5, <1>7, <1>8, <2>1, <2>2, <2>3, <2>4, <2>5 DEF JobIs
<1> QED BY <1>10, <1>12, <1>13, TakenIs


(* What the last call leaves of the group: the first base, complete, or    *)
(* nothing.                                                                *)
Ended ==
    \A b \in job.group :
        /\ b \in open => /\ b \in sortFd /\ data'[b] # NoFile
                         /\ sorted'[b] \notin {NoFile, <<>>} /\ index'[b] # NoFile
        /\ b \notin open => data'[b] = NoFile

(* One system call of the sorter, and what it has to leave behind when it  *)
(* was the last one.                                                       *)
Stepped(c) ==
    /\ phase = "up" /\ phase' = phase /\ mutex = Sorter /\ mutex' \in {Sorter, Nobody}
    /\ open' = open /\ sortFd' = sortFd /\ cache' = cache /\ op' = op
    /\ indexSize' = indexSize /\ dataOffset' = dataOffset
    /\ c \in job.group
    /\ \A b \in Bases : b # c => /\ data'[b] = data[b] /\ whole'[b] = whole[b]
                                 /\ index'[b] = index[b] /\ sorted'[b] = sorted[b]
    /\ data'[c] = <<>> => whole'[c]
    /\ index'[c] = Linked => sorted'[c] # NoFile
    /\ sorted'[c] # <<>>
    /\ data'[c] # NoFile /\ sorted'[c] # NoFile /\ index'[c] # NoFile => index'[c] = Linked
    /\ \/ job'.group = job.group
       \/ job'.group = {} /\ Ended

(* A system call of the sorter concerns only the files of its group.       *)
LEMMA SteppedIs ==
  ASSUME Inv, NEW c, Stepped(c), Types', JobIs'
  PROVE Inv'
<1>1. /\ Types /\ LinkedIs /\ Named /\ Whole /\ SortedMatchesIndex /\ OpenFiles /\ JobIs
      /\ OpsAre /\ CacheIs /\ Unsorteds /\ StraysAre /\ Fresh
  BY DEF Inv
<1>2. phase = "up" /\ mutex = Sorter /\ job.todo # <<>>
  BY <1>1 DEF Stepped, JobIs
<1>3. open # {} /\ (\A b \in job.group : b < LastBase) /\ job.group \subseteq Bases
  BY <1>1, <1>2 DEF JobIs, Types
<1>4. LastBase \in open /\ LastBase \in Bases /\ LastBase \notin job.group /\ c \in Bases
      /\ c # LastBase /\ (\A b \in Bases : b \in Nat) /\ open \subseteq Bases
  <2>1. open \subseteq Bases /\ (\A b \in Bases : b \in Nat) /\ c \in Bases /\ c \in job.group
    BY <1>1, <1>3, BaseIs DEF Types, Stepped
  <2>2. LastBase \in open
    BY <1>3, <2>1, LastBaseIs
  <2> QED BY <1>3, <2>1, <2>2
<1>5. LastBase' = LastBase
  BY DEF LastBase, Stepped
<1>6. LastBase \in Found /\ LastBase \in Found'
  <2>1. data[LastBase] # NoFile
    BY <1>1, <1>2, <1>4 DEF OpenFiles, Serving
  <2>2. data'[LastBase] = data[LastBase]
    BY <1>4 DEF Stepped
  <2> HIDE DEF LastBase
  <2> QED BY <1>4, <2>1, <2>2 DEF Found
<1>7. \A b \in job.group : b <= LastBase /\ b # LastBase
  BY <1>3, <1>4
<1>8. ASSUME NEW b \in Bases, NEW d \in Found, b <= d PROVE \E x \in Found' : b <= x
  <2>1. CASE d = c
    <3>1. d <= LastBase /\ d \in Bases
      BY <1>7, <2>1 DEF Stepped, Found
    <3>2. b <= LastBase
      BY <1>4, <1>8, <3>1
    <3> QED BY <1>6, <3>2
  <2>2. CASE d # c
    BY <1>8, <2>2 DEF Found, Stepped
  <2> QED BY <2>1, <2>2
<1>9. LinkedIs'
  BY <1>1 DEF LinkedIs, Stepped
<1>10. Named'
  <2> SUFFICES ASSUME NEW b \in Bases, index'[b] # NoFile \/ sorted'[b] # NoFile
               PROVE  \E x \in Found' : b <= x
    BY DEF Named
  <2>1. CASE b = c
    BY <1>6, <1>7, <2>1 DEF Stepped
  <2>2. CASE b # c
    <3>1. PICK d \in Found : b <= d
      BY <1>1, <2>2 DEF Named, Stepped
    <3> QED BY <1>8, <3>1
  <2> QED BY <2>1, <2>2
<1>11. Whole'
  <2>1. \A b \in Bases : data'[b] = <<>> => whole'[b]
    BY <1>1 DEF Whole, Stepped
  <2>2. ASSUME NEW b \in Bases, ~whole'[b] PROVE \E x \in Found' : b <= x
    <3>1. CASE b = c
      BY <1>6, <1>7, <3>1 DEF Stepped
    <3>2. CASE b # c
      <4>1. PICK d \in Found : b <= d
        BY <1>1, <2>2, <3>2 DEF Whole, Stepped
      <4> QED BY <1>8, <4>1
    <3> QED BY <3>1, <3>2
  <2> QED BY <2>1, <2>2 DEF Whole
<1>12. SortedMatchesIndex'
  <2> SUFFICES ASSUME NEW b \in Bases, data'[b] # NoFile, sorted'[b] # NoFile, index'[b] # NoFile
               PROVE  Len(sorted'[b]) = Len(IndexFile(b)')
    BY DEF SortedMatchesIndex
  <2>1. CASE b = c
    BY <2>1 DEF IndexFile, Stepped
  <2>2. CASE b # c
    <3>1. /\ sorted'[b] = sorted[b] /\ data'[b] = data[b] /\ index'[b] = index[b]
          /\ IndexFile(b)' = IndexFile(b)
      BY <2>2 DEF IndexFile, Stepped
    <3> QED BY <1>1, <3>1 DEF SortedMatchesIndex
  <2> QED BY <2>1, <2>2
<1>13. Resting'
  BY <1>2 DEF Resting, Stepped
<1>14. OpenFiles'
  <2>1. ASSUME NEW b \in Found' PROVE b \in open' \cup job'.group
    <3>1. CASE b \in open
      BY <3>1 DEF Stepped
    <3>2. CASE b \notin open
      <4>1. b \in job.group
        BY <1>1, <1>2, <2>1, <3>2 DEF OpenFiles, Serving, Found, Stepped
      <4> QED BY <2>1, <3>2, <4>1 DEF Stepped, Found, Ended
    <3> QED BY <3>1, <3>2
  <2>2. ASSUME NEW x \in open' \ job'.group
        PROVE  /\ data'[x] # NoFile
               /\ x \in sortFd' => sorted'[x] \notin {NoFile, <<>>} /\ index'[x] # NoFile
               /\ x \notin sortFd' => sorted'[x] = NoFile /\ index'[x] \notin {NoFile, Linked}
    <3>1. CASE x \in job.group
      BY <2>2, <3>1 DEF Stepped, Ended
    <3>2. CASE x \notin job.group
      <4>1. x \in open \ job.group /\ x \in Bases /\ x # c
        BY <1>4, <2>2, <3>2 DEF Stepped
      <4> QED BY <1>1, <1>2, <4>1 DEF OpenFiles, Serving, Stepped
    <3> QED BY <3>1, <3>2
  <2> QED BY <2>1, <2>2 DEF OpenFiles
<1>15. \A b \in Bases : Settled(b)' = Settled(b)
  <2>1. \A k \in Keys : mutex # k /\ mutex' # k
    BY NamesAssumption DEF Stepped
  <2> QED BY <2>1 DEF Settled, Holding, Stepped
<1>16. \A b \in open : b \in job.group => b \in sortFd
  <2>1. (\E first \in {Min(job.group)} : Merging(first)) \/ Removing
    BY <1>1, <1>2 DEF JobIs
  <2>2. ASSUME NEW first, Merging(first) PROVE \A b \in open : b \in job.group => b \in sortFd
    BY <2>2 DEF Merging
  <2>3. CASE Removing
    BY <2>3 DEF Removing
  <2> QED BY <2>1, <2>2, <2>3
<1> HIDE DEF Settled, LastBase
<1>17. ASSUME NEW l \in Location, LocIs(l) PROVE LocIs(l)' /\ l.base \in Visible /\ l.base \in Bases
  <2>1. PICK b : b = l.base
    OBVIOUS
  <2>2. b \in open \ job.group /\ b \in Bases /\ b # c
    BY <1>4, <1>17, <2>1 DEF LocIs, Stepped
  <2>3. Settled(b)' = Settled(b) /\ sorted'[b] = sorted[b] /\ b \in open' \ job'.group /\ sortFd' = sortFd
    BY <1>15, <2>2 DEF Stepped
  <2> QED BY <1>17, <2>1, <2>2, <2>3 DEF LocIs, Visible
<1>18. OpsAre'
  <2>1. SUFFICES ASSUME NEW k \in Keys, NEW o, o = op[k] PROVE OpIs(k, o)'
    BY DEF OpsAre, Stepped
  <2>2. OpIs(k, o) /\ o.old \in Location \cup {NoLoc} /\ mutex # k /\ mutex' # k
    BY <1>1, <2>1, OpFields, NamesAssumption DEF OpsAre, Stepped
  <2>3. o.old # NoLoc => LocIs(o.old)'
    BY <1>17, <2>2 DEF OpIs
  <2>4. PICK b : b = o.base
    OBVIOUS
  <2>5. ASSUME b # 0
        PROVE  /\ b \in open' \ (sortFd' \cup job'.group)
               /\ Settled(b)' = Settled(b) /\ index'[b] = index[b] /\ data'[b] = data[b]
    <3>1. b \in open \ (sortFd \cup job.group) /\ b \in Bases /\ b # c
      BY <1>4, <2>2, <2>4, <2>5 DEF OpIs, Stepped
    <3> QED BY <1>15, <3>1 DEF Stepped
  <2> HIDE DEF LocIs, Mine
  <2> QED BY <2>2, <2>3, <2>4, <2>5 DEF OpIs
<1>19. CacheIs'
  <2>1. SUFFICES ASSUME NEW k \in Keys, NEW l, l = cache'[k], l # NoLoc
                 PROVE  IF op'[k] = Idle THEN LocIs(l)' ELSE l = op'[k].old
    BY DEF CacheIs
  <2>2. l = cache[k] /\ l \in Location /\ op'[k] = op[k]
    BY <1>1, <2>1, OpFields DEF Stepped
  <2>3. IF op[k] = Idle THEN LocIs(l) ELSE l = op[k].old
    BY <1>1, <2>1, <2>2 DEF CacheIs
  <2> QED BY <1>17, <2>2, <2>3
<1>20. \A x \in Visible : (Cut(x)' <=> Cut(x)) /\ x \in Bases /\ x # c
  BY <1>4, <1>5, <1>15 DEF Cut, Stepped, Visible
<1>21. Unsorteds'
  <2>1. SUFFICES ASSUME NEW x \in open' \ (sortFd' \cup job'.group)
        PROVE /\ indexSize'[x] <= RecordsInBlob /\ Len(index'[x]) <= RecordsInBlob
              /\ Len(index'[x]) >= Settled(x)' \/ Cut(x)'
              /\ x # LastBase' => Len(index'[x]) = indexSize'[x]
    BY DEF Unsorteds
  <2>2. x \in open \ (sortFd \cup job.group) /\ x \in Bases /\ x # c /\ x \in Visible
    BY <1>4, <1>16, <2>1 DEF Stepped, Visible
  <2>3. /\ indexSize[x] <= RecordsInBlob /\ Len(index[x]) <= RecordsInBlob
        /\ Len(index[x]) >= Settled(x) \/ Cut(x)
        /\ x # LastBase => Len(index[x]) = indexSize[x]
    BY <1>1, <1>2, <2>2 DEF Unsorteds
  <2>4. /\ indexSize'[x] = indexSize[x] /\ index'[x] = index[x] /\ Settled(x)' = Settled(x)
        /\ (Cut(x)' <=> Cut(x))
    BY <1>15, <1>20, <2>2 DEF Stepped
  <2> HIDE DEF Cut
  <2> QED BY <1>5, <2>3, <2>4
<1>22. Fresh'
  BY <1>1, <1>5 DEF Fresh, Stepped
<1>23. \A k \in Keys : Pending(k)' = Pending(k)
  BY DEF Pending, Stepped
<1>24. ASSUME NEW k \in Keys, NEW l, l = Pending(k), NEW x, l # NoLoc, l.base = x
       PROVE  x \in Visible /\ (Good(k, l)' <=> Good(k, l))
  <2>1. l \in Location /\ LocIs(l)
    BY <1>1, <1>24, PendingIs
  <2>2. x \in Visible /\ x \in Bases /\ x # c
    BY <1>17, <1>20, <1>24, <2>1
  <2> QED BY <1>24, <2>2 DEF Good, Stepped
<1>25. \A x : Strays(x)' = Strays(x)
  BY <1>23, <1>24 DEF Strays, Stray
<1>26. StraysAre'
  <2>1. SUFFICES ASSUME NEW x \in open', NEW k \in Keys, NEW l, l = Pending(k)', Stray(k, l, x)'
                 PROVE  /\ \A j \in Strays(x)' : j = k
                        /\ (x \notin sortFd' /\ Cut(x)' /\ l.at < Settled(x)') \/ HasHole(x)'
                        /\ x \notin sortFd' /\ l.at \in DOMAIN index'[x] => index'[x][l.at].key = 0
    BY DEF StraysAre
  <2>2. l = Pending(k) /\ Stray(k, l, x) /\ x \in Visible /\ x \in Bases /\ x \in open
    BY <1>20, <1>23, <1>24, <2>1 DEF Stray, Stepped
  <2>3. /\ \A j \in Strays(x) : j = k
        /\ (x \notin sortFd /\ Cut(x) /\ l.at < Settled(x)) \/ HasHole(x)
        /\ x \notin sortFd /\ l.at \in DOMAIN index[x] => index[x][l.at].key = 0
    BY <1>1, <2>2 DEF StraysAre
  <2>4. /\ sortFd' = sortFd /\ index'[x] = index[x] /\ sorted'[x] = sorted[x] /\ open' = open
        /\ Settled(x)' = Settled(x) /\ (Cut(x)' <=> Cut(x))
    BY <1>15, <1>20, <2>2 DEF Stepped
  <2>5. HasHole(x) => HasHole(x)'
    BY <2>4, HolesSame
  <2> HIDE DEF Cut, HasHole, Strays
  <2> QED BY <1>25, <2>3, <2>4, <2>5
<1> QED BY <1>9, <1>10, <1>11, <1>12, <1>13, <1>14, <1>18, <1>19, <1>21, <1>22, <1>26 DEF Inv


(* What a call does to the files of its base.                              *)
Call(u, c) ==
    /\ \A b \in Bases : b # c => /\ data'[b] = data[b] /\ whole'[b] = whole[b]
                                 /\ index'[b] = index[b] /\ sorted'[b] = sorted[b]
    /\ data'[c] = CASE u = "unlink data" -> NoFile
                    [] u = "rename data" -> chunk.cells
                    [] OTHER -> data[c]
    /\ whole'[c] = IF u = "rename data" THEN TRUE ELSE whole[c]
    /\ index'[c] = CASE u = "unlink index" -> NoFile
                     [] u = "link" -> Linked
                     [] OTHER -> index[c]
    /\ sorted'[c] = CASE u = "unlink sorted" -> NoFile
                      [] u = "rename index" -> chunk.entries
                      [] OTHER -> sorted[c]
    /\ chunk' = IF u = "link" THEN NoFile ELSE chunk

(* What each of the six calls does to the files.                           *)
LEMMA CallIs ==
  ASSUME Inv, DiskStep, NEW u \in Calls, NEW c \in Bases, job.todo[1][1] = u, job.todo[1][2] = c,
         u \in {"rename data", "rename index"} => chunk # NoFile
  PROVE /\ Call(u, c)
        /\ data' \in [Bases -> Seq(Cell) \cup {NoFile}] /\ whole' \in [Bases -> BOOLEAN]
        /\ index' \in [Bases -> Seq(SoundEntry) \cup {NoFile, Linked}]
        /\ sorted' \in [Bases -> Seq(SoundEntry) \cup {NoFile}]
        /\ chunk' \in Chunks \cup {NoFile}
        /\ UNCHANGED <<phase, open, sortFd, cache, dataOffset, indexSize, op, ops, faults>>
        /\ UNCHANGED <<acked, unsure, damaged>>
        /\ job' = NextJob /\ mutex' = IF job' = NoJob THEN Nobody ELSE mutex
<1>1. /\ data' = CASE u = "unlink data" -> [data EXCEPT ![c] = NoFile]
                   [] u = "rename data" -> [data EXCEPT ![c] = chunk.cells]
                   [] OTHER -> data
      /\ whole' = IF u = "rename data" THEN [whole EXCEPT ![c] = TRUE] ELSE whole
      /\ index' = CASE u = "unlink index" -> [index EXCEPT ![c] = NoFile]
                    [] u = "link" -> [index EXCEPT ![c] = Linked]
                    [] OTHER -> index
      /\ sorted' = CASE u = "unlink sorted" -> [sorted EXCEPT ![c] = NoFile]
                     [] u = "rename index" -> [sorted EXCEPT ![c] = chunk.entries]
                     [] OTHER -> sorted
      /\ chunk' = IF u = "link" THEN NoFile ELSE chunk
      /\ UNCHANGED <<phase, open, sortFd, cache, dataOffset, indexSize, op, ops, faults, observers>>
      /\ job' = NextJob /\ mutex' = IF job' = NoJob THEN Nobody ELSE mutex
  BY DEF DiskStep
<1>2. /\ data \in [Bases -> Seq(Cell) \cup {NoFile}] /\ whole \in [Bases -> BOOLEAN]
      /\ index \in [Bases -> Seq(SoundEntry) \cup {NoFile, Linked}]
      /\ sorted \in [Bases -> Seq(SoundEntry) \cup {NoFile}] /\ chunk \in Chunks \cup {NoFile}
  BY DEF Inv, Types
<1>3. u \in {"rename data", "rename index"} =>
         chunk.cells \in Seq(Cell) /\ chunk.entries \in Seq(SoundEntry)
  BY <1>2 DEF Chunks
<1>4. CASE u = "unlink data"
  BY <1>1, <1>2, <1>4 DEF Call, observers
<1>5. CASE u = "unlink index"
  BY <1>1, <1>2, <1>5 DEF Call, observers
<1>6. CASE u = "unlink sorted"
  BY <1>1, <1>2, <1>6 DEF Call, observers
<1>7. CASE u = "rename data"
  BY <1>1, <1>2, <1>3, <1>7 DEF Call, observers
<1>8. CASE u = "rename index"
  BY <1>1, <1>2, <1>3, <1>8 DEF Call, observers
<1>9. CASE u = "link"
  BY <1>1, <1>2, <1>9 DEF Call, observers
<1> QED BY <1>4, <1>5, <1>6, <1>7, <1>8, <1>9 DEF Calls

(* The step of the sorter, once the call and the next job are known.       *)
LEMMA StepKeeps ==
  ASSUME Inv, DiskStep, NEW u \in Calls, NEW c \in job.group, job.todo[1][1] = u,
         job.todo[1][2] = c,
         u \in {"rename data", "rename index"} => chunk # NoFile /\ chunk.entries # <<>>,
         u = "link" => sorted[c] # NoFile,
         u \in {"unlink index", "unlink sorted"} => data[c] = NoFile,
         u = "unlink sorted" => index[c] = NoFile,
         u \in {"rename data", "rename index"} => index[c] = NoFile,
         NEW jb, job' = jb,
         jb \in [group : SUBSET Bases, left : SUBSET Bases, todo : Seq(Calls \X Bases)],
         jb = NoJob \/ (jb.todo # <<>> /\ jb.group = job.group),
         jb = NoJob => chunk' = NoFile /\ Ended,
         jb # NoJob => /\ jb.left \subseteq jb.group
                       /\ ((\E first \in {Min(job.group)} : Merging(first)) \/ Removing)'
  PROVE Inv'
<1>1. Types /\ JobIs /\ Resting /\ LinkedIs /\ Whole /\ SortedMatchesIndex
  BY DEF Inv
<1>2. job.todo # <<>> /\ mutex = Sorter
  BY <1>1 DEF DiskStep, JobIs
<1>3. phase = "up"
  BY <1>1, <1>2 DEF Resting, JobIs
<1>4. c \in Bases
  BY <1>1 DEF Types
<1>5. /\ Call(u, c)
      /\ data' \in [Bases -> Seq(Cell) \cup {NoFile}] /\ whole' \in [Bases -> BOOLEAN]
      /\ index' \in [Bases -> Seq(SoundEntry) \cup {NoFile, Linked}]
      /\ sorted' \in [Bases -> Seq(SoundEntry) \cup {NoFile}]
      /\ chunk' \in Chunks \cup {NoFile}
      /\ UNCHANGED <<phase, open, sortFd, cache, dataOffset, indexSize, op, ops, faults>>
      /\ UNCHANGED <<acked, unsure, damaged>>
      /\ mutex' = IF job' = NoJob THEN Nobody ELSE mutex
  BY <1>4, CallIs
<1>6. NoJob.group = {} /\ NoJob.todo = <<>> /\ Nobody # Sorter
  BY NamesAssumption DEF NoJob
<1>7. Types'
  <2>1. mutex' \in Keys \cup {Nobody, Sorter}
    BY <1>2, <1>5
  <2> QED BY <1>1, <1>5, <2>1 DEF Types
<1>8. JobIs'
  <2>1. LastBase' = LastBase
    BY <1>5 DEF LastBase
  <2>2. /\ open # {} /\ job.group # {} /\ \A b \in job.group : b < LastBase
    BY <1>1, <1>2 DEF JobIs
  <2>3. /\ job'.todo = <<>> <=> job' = NoJob
        /\ mutex' = Sorter <=> job'.todo # <<>>
        /\ phase' = "up" /\ chunk' # NoFile => job'.todo # <<>>
    BY <1>2, <1>5, <1>6
  <2>4. ASSUME job'.todo # <<>>
        PROVE  /\ open' # {} /\ job'.group # {} /\ job'.left \subseteq job'.group
               /\ \A b \in job'.group : b < LastBase'
               /\ ((\E first \in {Min(job.group)} : Merging(first)) \/ Removing)'
    BY <1>5, <1>6, <2>1, <2>2, <2>4
  <2> QED BY <2>3, <2>4 DEF JobIs
<1>9. Stepped(c)
  <2>1. Linked # NoFile
    BY FilesDiffer
  <2>2. data'[c] = <<>> => whole'[c]
    <3>1. <<>> # NoFile
      BY FilesDiffer
    <3>2. data[c] = <<>> => whole[c]
      BY <1>1, <1>4 DEF Whole
    <3> QED BY <1>5, <3>1, <3>2 DEF Call
  <2>3. index'[c] = Linked => sorted'[c] # NoFile
    <3>1. chunk # NoFile => chunk.entries \in Seq(SoundEntry)
      BY <1>1 DEF Types, Chunks
    <3>2. u = "rename index" => sorted'[c] # NoFile
      BY <1>5, <3>1, FilesDiffer DEF Call
    <3>3. index[c] = Linked => sorted[c] # NoFile
      BY <1>1, <1>4 DEF LinkedIs
    <3> QED BY <1>5, <2>1, <3>2, <3>3 DEF Call
  <2>4. data'[c] # NoFile /\ sorted'[c] # NoFile /\ index'[c] # NoFile => index'[c] = Linked
    BY <1>5 DEF Call, Calls
  <2>5. \A b \in Bases : b # c => /\ data'[b] = data[b] /\ whole'[b] = whole[b]
                                  /\ index'[b] = index[b] /\ sorted'[b] = sorted[b]
    BY <1>5 DEF Call
  <2>6. \/ job'.group = job.group
        \/ job'.group = {} /\ Ended
    BY <1>6
  <2>7. mutex' \in {Sorter, Nobody}
    BY <1>2, <1>5
  <2>8. sorted'[c] # <<>>
    <3>1. sorted[c] # <<>>
      BY <1>1, <1>4 DEF LinkedIs
    <3> QED BY <1>5, <3>1, FilesDiffer DEF Call
  <2> QED BY <1>2, <1>3, <1>5, <2>2, <2>3, <2>4, <2>5, <2>6, <2>7, <2>8 DEF Stepped
<1> QED BY <1>7, <1>8, <1>9, SteppedIs


(* The calls that are left of a base.                                      *)
LEMMA RestIs ==
  ASSUME NEW c \in Bases, NEW t
  PROVE /\ t \in Rests(UnlinkCalls(c)) =>
              Follows(t, Rests(UnlinkCalls(c)), c, "unlink data", "unlink index", "unlink sorted")
        /\ t \in Rests(RenameCalls(c)) =>
              Follows(t, Rests(RenameCalls(c)), c, "rename data", "rename index", "link")
        /\ UnlinkCalls(c) \in Rests(UnlinkCalls(c)) /\ UnlinkCalls(c)[1][1] = "unlink data"
        /\ RenameCalls(c) \in Rests(RenameCalls(c)) /\ RenameCalls(c)[1][1] = "rename data"
        /\ UnlinkCalls(c) \in Seq(Calls \X Bases) /\ UnlinkCalls(c) # <<>>
        /\ RenameCalls(c) \in Seq(Calls \X Bases) /\ RenameCalls(c) # <<>>
<1>1. /\ UnlinkCalls(c) \in Rests(UnlinkCalls(c)) /\ UnlinkCalls(c)[1][1] = "unlink data"
      /\ RenameCalls(c) \in Rests(RenameCalls(c)) /\ RenameCalls(c)[1][1] = "rename data"
      /\ \A x \in Rests(UnlinkCalls(c)) : Follows(x, Rests(UnlinkCalls(c)), c,
              "unlink data", "unlink index", "unlink sorted")
      /\ \A x \in Rests(RenameCalls(c)) : Follows(x, Rests(RenameCalls(c)), c,
              "rename data", "rename index", "link")
  BY CallsAre
<1>2. /\ UnlinkCalls(c) \in Seq(Calls \X Bases) /\ UnlinkCalls(c) # <<>>
      /\ RenameCalls(c) \in Seq(Calls \X Bases) /\ RenameCalls(c) # <<>>
  BY <1>1 DEF Follows
<1> QED BY <1>1, <1>2

(* A call that is not the last of its base.                                *)
LEMMA NextCall ==
  ASSUME Types, DiskStep, Len(job.todo) > 1, NEW R, NEW c \in Bases, NEW u, NEW v, NEW w,
         Tail(job.todo) \in R, Follows(Tail(job.todo), R, c, u, v, w)
  PROVE /\ job' = [job EXCEPT !.todo = Tail(job.todo)] /\ job' # NoJob
        /\ job' \in [group : SUBSET Bases, left : SUBSET Bases, todo : Seq(Calls \X Bases)]
        /\ job'.todo = Tail(job.todo) /\ job'.group = job.group /\ job'.left = job.left
        /\ job'.todo # <<>>
<1>1. PICK t : t = Tail(job.todo)
  OBVIOUS
<1>2. t \in Seq(Calls \X Bases) /\ t # <<>>
  BY <1>1 DEF Follows
<1>3. job' = [job EXCEPT !.todo = t]
  BY <1>1 DEF DiskStep, NextJob
<1>4. job \in [group : SUBSET Bases, left : SUBSET Bases, todo : Seq(Calls \X Bases)]
  BY DEF Types
<1>5. /\ job' \in [group : SUBSET Bases, left : SUBSET Bases, todo : Seq(Calls \X Bases)]
      /\ job'.todo = t /\ job'.group = job.group /\ job'.left = job.left
  BY <1>2, <1>3, <1>4
<1>6. job' # NoJob
  BY <1>2, <1>5 DEF NoJob
<1> QED BY <1>1, <1>2, <1>3, <1>5, <1>6

(* A base all of whose records are removed.                                *)
LEMMA RemovingKeeps ==
  ASSUME Inv, DiskStep, Removing
  PROVE Inv'
<1>1. Types /\ JobIs /\ job.todo # <<>>
  BY DEF Inv, DiskStep
<1>2. PICK c \in Bases : job.group = {c} /\ c \notin open /\ Dropping(c)
  BY DEF Removing
<1>3. PICK u : u = job.todo[1][1]
  OBVIOUS
<1>4. PICK R : R = Rests(UnlinkCalls(c))
  OBVIOUS
<1>5. /\ job.todo \in R /\ (u # "unlink data" => data[c] = NoFile)
      /\ u = "unlink sorted" => index[c] = NoFile
  BY <1>2, <1>3, <1>4 DEF Dropping
<1>6. Follows(job.todo, R, c, "unlink data", "unlink index", "unlink sorted")
  BY <1>4, <1>5, RestIs
<1>7. /\ job.todo[1][2] = c /\ u \in {"unlink data", "unlink index", "unlink sorted"} /\ u \in Calls
      /\ chunk = NoFile /\ job.left = {} /\ c \in job.group
  BY <1>2, <1>3, <1>6 DEF Follows, Calls, Removing
<1>8. Call(u, c) /\ open' = open /\ job' = NextJob
  BY <1>3, <1>7, CallIs
<1>9. CASE u # "unlink sorted"
  <2>1. Len(job.todo) > 1 /\ Tail(job.todo) \in R
        /\ (u = "unlink data" => Tail(job.todo)[1][1] = "unlink index")
        /\ (u = "unlink index" => Tail(job.todo)[1][1] = "unlink sorted")
    <3>1. PICK t : t = job.todo
      OBVIOUS
    <3>2. PICK r : r = Tail(t)
      OBVIOUS
    <3>3. /\ t[1][1] = u
          /\ \/ u = "unlink data" /\ Len(t) = 3 /\ r \in R /\ r[1][1] = "unlink index"
             \/ u = "unlink index" /\ Len(t) = 2 /\ r \in R /\ r[1][1] = "unlink sorted"
      BY <1>3, <1>6, <1>9, <3>1, <3>2 DEF Follows
    <3>7. Len(t) = 3 \/ Len(t) = 2
      BY <3>3
    <3>8. r \in R
      BY <3>3
    <3>4. Len(t) > 1 /\ r \in R
      BY <3>7, <3>8
    <3>5. u = "unlink data" => r[1][1] = "unlink index"
      BY <3>3
    <3>6. u = "unlink index" => r[1][1] = "unlink sorted"
      BY <3>3
    <3> QED BY <3>1, <3>2, <3>4, <3>5, <3>6
  <2>2. Follows(Tail(job.todo), R, c, "unlink data", "unlink index", "unlink sorted")
    BY <1>4, <2>1, RestIs
  <2>3. /\ job' # NoJob /\ job'.todo # <<>>
        /\ job' \in [group : SUBSET Bases, left : SUBSET Bases, todo : Seq(Calls \X Bases)]
        /\ job'.todo = Tail(job.todo) /\ job'.group = job.group /\ job'.left = job.left
    BY <1>1, <2>1, <2>2, NextCall
  <2>4. Dropping(c)'
    <3>1. data'[c] = NoFile /\ (u = "unlink index" => index'[c] = NoFile) /\ chunk' = NoFile
      BY <1>5, <1>7, <1>8, <1>9 DEF Call
    <3>2. job'.todo[1][1] = "unlink sorted" => u = "unlink index"
      BY <1>7, <1>9, <2>1, <2>3
    <3> QED BY <1>4, <2>1, <2>3, <3>1, <3>2 DEF Dropping
  <2>5. Removing'
    BY <1>2, <1>7, <1>8, <2>3, <2>4 DEF Removing, Call
  <2> HIDE DEF Removing
  <2> QED BY <1>3, <1>5, <1>7, <2>3, <2>5, StepKeeps
<1>10. CASE u = "unlink sorted"
  <2>1. ~(Len(job.todo) > 1)
    <3>1. Len(job.todo) = 1
      BY <1>3, <1>6, <1>10 DEF Follows
    <3> QED BY <3>1
  <2>2. job' = NoJob
    BY <1>7, <1>8, <2>1 DEF NextJob
  <2>3. NoJob \in [group : SUBSET Bases, left : SUBSET Bases, todo : Seq(Calls \X Bases)]
    BY DEF NoJob
  <2>4. chunk' = NoFile /\ data'[c] = NoFile
    BY <1>5, <1>7, <1>8, <1>10 DEF Call
  <2>5. Ended
    BY <1>2, <2>4 DEF Ended
  <2> QED BY <1>3, <1>5, <1>7, <1>10, <2>2, <2>3, <2>4, <2>5, StepKeeps
<1> QED BY <1>9, <1>10


(* Where the sorter is among the three calls of a base.                    *)
At(x, t, R, c, u, v, w) ==
    /\ x \in {u, v, w} /\ t[1][2] = c
    /\ x # w => Len(t) > 1 /\ Tail(t) \in R
    /\ x = u => Tail(t)[1][1] = v
    /\ x = v => Tail(t)[1][1] = w
    /\ x = w => ~(Len(t) > 1)

(* Where in its three calls the sorter is.                                 *)
LEMMA Place3 ==
  ASSUME NEW t, NEW R, NEW c, NEW u, NEW v, NEW w, u # v, u # w, v # w,
         Follows(t, R, c, u, v, w), NEW x, x = t[1][1]
  PROVE At(x, t, R, c, u, v, w)
<1>1. PICK r : r = Tail(t)
  OBVIOUS
<1>2. /\ t[1][2] = c
      /\ \/ x = u /\ Len(t) = 3 /\ r \in R /\ r[1][1] = v
         \/ x = v /\ Len(t) = 2 /\ r \in R /\ r[1][1] = w
         \/ x = w /\ Len(t) = 1
  BY <1>1 DEF Follows
<1>3. /\ x \in {u, v, w} /\ (x # w => r \in R) /\ (x = u => r[1][1] = v) /\ (x = v => r[1][1] = w)
      /\ x # w => Len(t) = 3 \/ Len(t) = 2
      /\ x = w => Len(t) = 1
  BY <1>2
<1>4. ASSUME x # w PROVE Len(t) > 1
  <2>1. Len(t) = 3 \/ Len(t) = 2
    BY <1>3, <1>4
  <2> QED BY <2>1
<1>5. ASSUME x = w PROVE ~(Len(t) > 1)
  <2>1. Len(t) = 1
    BY <1>3, <1>5
  <2> QED BY <2>1
<1> QED BY <1>1, <1>2, <1>3, <1>4, <1>5 DEF At

(* The bases of a data sort are unlinked, one after the other.             *)
LEMMA DroppingKeeps ==
  ASSUME Inv, DiskStep, NEW first, first = Min(job.group), Merging(first),
         NEW c \in job.group \ job.left, Dropping(c), c # first => Gone(first),
         \A d \in job.group \ job.left : d # c => data[d] = NoFile
  PROVE Inv'
<1>1. Types /\ JobIs /\ job.todo # <<>>
  BY DEF Inv, DiskStep
<1>2. job.group \in SUBSET Bases /\ job.left \in SUBSET Bases /\ c \in Bases
      /\ job.left \subseteq job.group /\ job.group # {}
  BY <1>1 DEF JobIs, Types
<1>3. PICK u : u = job.todo[1][1]
  OBVIOUS
<1>4. PICK R : R = Rests(UnlinkCalls(c))
  OBVIOUS
<1>5. /\ job.todo \in R /\ (u # "unlink data" => data[c] = NoFile)
      /\ u = "unlink sorted" => index[c] = NoFile
  BY <1>3, <1>4 DEF Dropping
<1>6. Follows(job.todo, R, c, "unlink data", "unlink index", "unlink sorted")
  BY <1>2, <1>4, <1>5, RestIs
<1>7. /\ u \in {"unlink data", "unlink index", "unlink sorted"} /\ job.todo[1][2] = c
      /\ u # "unlink sorted" => Len(job.todo) > 1 /\ Tail(job.todo) \in R
      /\ u = "unlink data" => Tail(job.todo)[1][1] = "unlink index"
      /\ u = "unlink index" => Tail(job.todo)[1][1] = "unlink sorted"
      /\ u = "unlink sorted" => ~(Len(job.todo) > 1)
  <2>1. "unlink data" # "unlink index" /\ "unlink data" # "unlink sorted"
        /\ "unlink index" # "unlink sorted"
    OBVIOUS
  <2>2. PICK t : t = job.todo
    OBVIOUS
  <2>3. Follows(t, R, c, "unlink data", "unlink index", "unlink sorted") /\ u = t[1][1]
    BY <1>3, <1>6, <2>2
  <2>4. At(u, t, R, c, "unlink data", "unlink index", "unlink sorted")
    BY <2>1, <2>3, Place3
  <2> QED BY <2>2, <2>4 DEF At
<1>8. u \in Calls
  BY <1>7 DEF Calls
<1>9. /\ chunk # NoFile /\ chunk.cells # <<>> /\ chunk.entries # <<>>
      /\ first \in sortFd /\ first \notin job.left /\ open \cap job.group = {first}
  BY DEF Merging
<1>10. first \in job.group /\ first \in Bases
  BY <1>2, FirstIs
<1>11. Call(u, c) /\ open' = open /\ sortFd' = sortFd /\ job' = NextJob
  BY <1>2, <1>3, <1>7, <1>8, <1>9, CallIs
<1>12. /\ chunk' = chunk /\ data'[c] = NoFile
       /\ u = "unlink index" => index'[c] = NoFile
       /\ u = "unlink sorted" => index'[c] = NoFile /\ sorted'[c] = NoFile
       /\ \A b \in Bases : b # c => /\ data'[b] = data[b] /\ index'[b] = index[b]
                                    /\ sorted'[b] = sorted[b]
  BY <1>5, <1>7, <1>11 DEF Call
<1>13. \A d \in job.group \ job.left : data'[d] = NoFile
  BY <1>2, <1>12
<1>14. c # first => Gone(first)'
  BY <1>10, <1>12 DEF Gone
<1>15. CASE u # "unlink sorted"
  <2>1. Follows(Tail(job.todo), R, c, "unlink data", "unlink index", "unlink sorted")
    BY <1>2, <1>4, <1>7, <1>15, RestIs
  <2>2. /\ job' # NoJob /\ job'.todo # <<>>
        /\ job' \in [group : SUBSET Bases, left : SUBSET Bases, todo : Seq(Calls \X Bases)]
        /\ job'.todo = Tail(job.todo) /\ job'.group = job.group /\ job'.left = job.left
    BY <1>1, <1>2, <1>7, <1>15, <2>1, NextCall
  <2>3. Dropping(c)'
    <3>1. job'.todo[1][1] = "unlink sorted" => u = "unlink index"
      BY <1>7, <1>15, <2>2
    <3> QED BY <1>4, <1>7, <1>12, <1>15, <2>2, <3>1 DEF Dropping
  <2>4. Merging(first)'
    BY <1>9, <1>11, <1>12, <1>13, <1>14, <2>2, <2>3 DEF Merging
  <2> HIDE DEF Merging, Removing
  <2> QED BY <1>2, <1>3, <1>5, <1>7, <1>8, <1>9, <2>2, <2>4, StepKeeps
<1>16. CASE u = "unlink sorted"
  <2>1. Gone(first)'
    BY <1>12, <1>14, <1>16 DEF Gone
  <2>2. CASE job.left # {}
    <3>1. PICK m : m = Min(job.left)
      OBVIOUS
    <3>2. m \in job.left /\ m \in Bases
      BY <1>2, <2>2, <3>1, FirstIs
    <3>3. job' = [job EXCEPT !.left = @ \ {m}, !.todo = UnlinkCalls(m)]
      BY <1>7, <1>11, <1>16, <2>2, <3>1 DEF NextJob
    <3>4. UnlinkCalls(m) \in Rests(UnlinkCalls(m)) /\ UnlinkCalls(m)[1][1] = "unlink data"
          /\ UnlinkCalls(m) \in Seq(Calls \X Bases) /\ UnlinkCalls(m) # <<>>
      BY <3>2, RestIs
    <3>5. /\ job' \in [group : SUBSET Bases, left : SUBSET Bases, todo : Seq(Calls \X Bases)]
          /\ job'.todo = UnlinkCalls(m) /\ job'.group = job.group /\ job'.left = job.left \ {m}
      BY <1>1, <1>2, <3>3, <3>4 DEF Types
    <3>6. job' # NoJob /\ job'.left \subseteq job'.group
      <4>1. NoJob.todo = <<>>
        BY DEF NoJob
      <4>2. job' # NoJob
        BY <3>4, <3>5, <4>1
      <4>3. job'.left \subseteq job'.group
        BY <1>2, <3>5
      <4> QED BY <4>2, <4>3
    <3>7. Dropping(m)'
      BY <3>4, <3>5 DEF Dropping
    <3>8. m \in job'.group \ job'.left /\ \A d \in job'.group \ job'.left : d # m => data'[d] = NoFile
      BY <1>2, <1>13, <3>2, <3>5
    <3>9. Merging(first)'
      BY <1>9, <1>11, <1>12, <2>1, <3>5, <3>7, <3>8 DEF Merging
    <3> HIDE DEF Merging, Removing
    <3>10. /\ job'.todo # <<>> /\ (\E f \in {Min(job.group)} : Merging(f))'
      BY <1>11, <3>4, <3>5, <3>9
    <3>11. c \in job.group /\ job.todo[1][2] = c /\ job.todo[1][1] = u /\ data[c] = NoFile
           /\ index[c] = NoFile
      BY <1>3, <1>5, <1>7, <1>16
    <3> QED BY <1>8, <1>16, <3>5, <3>6, <3>10, <3>11, StepKeeps
  <2>3. CASE job.left = {}
    <3>1. job' = [job EXCEPT !.todo = RenameCalls(first)]
      BY <1>3, <1>7, <1>9, <1>11, <1>16, <2>3 DEF NextJob
    <3>2. RenameCalls(first) \in Rests(RenameCalls(first)) /\ RenameCalls(first)[1][1] = "rename data"
          /\ RenameCalls(first) \in Seq(Calls \X Bases) /\ RenameCalls(first) # <<>>
      BY <1>10, RestIs
    <3>3. /\ job' \in [group : SUBSET Bases, left : SUBSET Bases, todo : Seq(Calls \X Bases)]
          /\ job'.todo = RenameCalls(first) /\ job'.group = job.group /\ job'.left = {}
      BY <1>1, <1>2, <2>3, <3>1, <3>2 DEF Types
    <3>4. job' # NoJob
      <4>1. NoJob.todo = <<>>
        BY DEF NoJob
      <4> QED BY <3>2, <3>3, <4>1
    <3>5. Moving(first)'
      BY <2>1, <3>2, <3>3 DEF Moving, Gone
    <3>6. Merging(first)'
      BY <1>9, <1>11, <1>12, <1>13, <2>3, <3>3, <3>5 DEF Merging
    <3> HIDE DEF Merging, Removing
    <3> QED BY <1>2, <1>3, <1>5, <1>7, <1>8, <1>9, <1>16, <3>2, <3>3, <3>4, <3>6, StepKeeps
  <2> QED BY <2>2, <2>3
<1> QED BY <1>15, <1>16

(* The result of the sort gets the names of the first base.                *)
LEMMA MovingKeeps ==
  ASSUME Inv, DiskStep, NEW first, first = Min(job.group), Merging(first), job.left = {},
         Moving(first), \A d \in job.group : d # first => data[d] = NoFile
  PROVE Inv'
<1>1. Types /\ JobIs /\ job.todo # <<>>
  BY DEF Inv, DiskStep
<1>2. job.group \in SUBSET Bases /\ job.group # {}
  BY <1>1 DEF JobIs, Types
<1>3. PICK u : u = job.todo[1][1]
  OBVIOUS
<1>4. PICK R : R = Rests(RenameCalls(first))
  OBVIOUS
<1>5. /\ job.todo \in R /\ index[first] = NoFile
      /\ u = "rename data" => Gone(first)
      /\ u = "rename index" => sorted[first] = NoFile
      /\ u # "rename data" => data[first] # NoFile
      /\ u = "link" => sorted[first] \notin {NoFile, <<>>}
  BY <1>3, <1>4 DEF Moving
<1>6. first \in job.group /\ first \in Bases
  BY <1>2, FirstIs
<1>7. Follows(job.todo, R, first, "rename data", "rename index", "link")
  BY <1>4, <1>5, <1>6, RestIs
<1>8. /\ u \in {"rename data", "rename index", "link"} /\ job.todo[1][2] = first
      /\ u # "link" => Len(job.todo) > 1 /\ Tail(job.todo) \in R
      /\ u = "rename data" => Tail(job.todo)[1][1] = "rename index"
      /\ u = "rename index" => Tail(job.todo)[1][1] = "link"
      /\ u = "link" => ~(Len(job.todo) > 1)
  <2>1. "rename data" # "rename index" /\ "rename data" # "link" /\ "rename index" # "link"
    OBVIOUS
  <2>2. PICK t : t = job.todo
    OBVIOUS
  <2>3. Follows(t, R, first, "rename data", "rename index", "link") /\ u = t[1][1]
    BY <1>3, <1>7, <2>2
  <2>4. At(u, t, R, first, "rename data", "rename index", "link")
    BY <2>1, <2>3, Place3
  <2> QED BY <2>2, <2>4 DEF At
<1>9. u \in Calls
  BY <1>8 DEF Calls
<1>10. /\ chunk # NoFile /\ chunk.cells # <<>> /\ chunk.entries # <<>>
       /\ first \in sortFd /\ first \notin job.left /\ open \cap job.group = {first}
  BY DEF Merging
<1>11. Call(u, first) /\ open' = open /\ sortFd' = sortFd /\ job' = NextJob
  BY <1>3, <1>6, <1>8, <1>9, <1>10, CallIs
<1>12. chunk.cells # NoFile /\ chunk.entries # NoFile
  <2>1. chunk.cells \in Seq(Cell) /\ chunk.entries \in Seq(SoundEntry)
    BY <1>1, <1>10 DEF Types, Chunks
  <2> QED BY <2>1, FilesDiffer
<1>13. \A d \in job.group : d # first => data'[d] = NoFile
  BY <1>2, <1>11 DEF Call
<1>14. CASE u # "link"
  <2>1. Follows(Tail(job.todo), R, first, "rename data", "rename index", "link")
    BY <1>4, <1>6, <1>8, <1>14, RestIs
  <2>2. /\ job' # NoJob /\ job'.todo # <<>>
        /\ job' \in [group : SUBSET Bases, left : SUBSET Bases, todo : Seq(Calls \X Bases)]
        /\ job'.todo = Tail(job.todo) /\ job'.group = job.group /\ job'.left = job.left
    BY <1>1, <1>6, <1>8, <1>14, <2>1, NextCall
  <2>3. Moving(first)'
    <3>1. job'.todo[1][1] \in {"rename index", "link"}
          /\ (job'.todo[1][1] = "link" => u = "rename index")
          /\ (job'.todo[1][1] = "rename index" => u = "rename data")
      BY <1>8, <1>14, <2>2
    <3>2. index'[first] = NoFile /\ data'[first] # NoFile /\ job'.todo \in R
      BY <1>5, <1>8, <1>11, <1>12, <1>14, <2>2 DEF Call
    <3>3. u = "rename data" => sorted'[first] = NoFile
      BY <1>5, <1>11 DEF Call, Gone
    <3>4. u = "rename index" => sorted'[first] \notin {NoFile, <<>>}
      BY <1>10, <1>11, <1>12 DEF Call
    <3> QED BY <1>4, <3>1, <3>2, <3>3, <3>4 DEF Moving
  <2>4. chunk' = chunk
    BY <1>11, <1>14 DEF Call
  <2>5. Merging(first)'
    BY <1>10, <1>11, <1>13, <2>2, <2>3, <2>4 DEF Merging
  <2> HIDE DEF Merging, Removing
  <2>6. /\ job'.left \subseteq job'.group
        /\ ((\E x \in {Min(job.group)} : Merging(x)) \/ Removing)'
    BY <2>2, <2>5
  <2>7. /\ u \in {"rename data", "rename index"} /\ u \notin {"unlink index", "unlink sorted"}
        /\ u # "link" /\ u # "unlink sorted" /\ index[first] = NoFile /\ chunk # NoFile
        /\ chunk.entries # <<>>
    BY <1>5, <1>8, <1>10, <1>14
  <2> QED BY <1>3, <1>6, <1>8, <1>9, <2>2, <2>6, <2>7, StepKeeps
<1>15. CASE u = "link"
  <2>1. job' = NoJob
    BY <1>3, <1>8, <1>11, <1>15 DEF NextJob
  <2>2. NoJob \in [group : SUBSET Bases, left : SUBSET Bases, todo : Seq(Calls \X Bases)]
    BY DEF NoJob
  <2>3. chunk' = NoFile /\ index'[first] = Linked /\ data'[first] = data[first]
        /\ sorted'[first] = sorted[first]
    BY <1>11, <1>15 DEF Call
  <2>4. Ended
    BY <1>5, <1>10, <1>13, <1>15, <2>3, FilesDiffer DEF Ended
  <2> QED BY <1>3, <1>5, <1>6, <1>8, <1>9, <1>10, <1>15, <2>1, <2>2, <2>3, <2>4, StepKeeps
<1> QED BY <1>14, <1>15

(* Each system call of the sorter keeps the invariant.                     *)
LEMMA DiskStepKeeps ==
  ASSUME Inv, DiskStep
  PROVE Inv'
<1>1. (\E first \in {Min(job.group)} : Merging(first)) \/ Removing
  BY DEF Inv, JobIs, DiskStep
<1>2. ASSUME NEW first, first = Min(job.group), Merging(first) PROVE Inv'
  <2>1. \/ \E c \in job.group \ job.left :
             /\ Dropping(c)
             /\ c # first => Gone(first)
             /\ \A d \in job.group \ job.left : d # c => data[d] = NoFile
        \/ /\ job.left = {} /\ Moving(first)
           /\ \A d \in job.group : d # first => data[d] = NoFile
    BY <1>2 DEF Merging
  <2>2. ASSUME NEW c \in job.group \ job.left, Dropping(c), c # first => Gone(first),
               \A d \in job.group \ job.left : d # c => data[d] = NoFile
        PROVE  Inv'
    BY <1>2, <2>2, DroppingKeeps
  <2>3. ASSUME job.left = {}, Moving(first), \A d \in job.group : d # first => data[d] = NoFile
        PROVE  Inv'
    BY <1>2, <2>3, MovingKeeps
  <2> QED BY <2>1, <2>2, <2>3
<1>3. CASE Removing
  BY <1>3, RemovingKeeps
<1> HIDE DEF Merging, Removing
<1> QED BY <1>1, <1>2, <1>3


-----------------------------------------------------------------------------
(* Crash and restart *)

(* No operation and no sorter is under way.                                *)
Quiesced ==
    /\ op = [k \in Keys |-> Idle] /\ mutex = Nobody /\ job = NoJob

(* Then nothing is to be shown of operations and of the sorter.            *)
LEMMA QuiescedIs ==
  ASSUME Quiesced
  PROVE /\ OpsAre /\ (\A k \in Keys : Pending(k) = cache[k]) /\ (\A b : Settled(b) = indexSize[b])
        /\ phase # "up" \/ chunk = NoFile => JobIs
        /\ job.group = {}
<1>1. /\ \A k \in Keys : op[k] = Idle /\ mutex # k
      /\ mutex # Sorter /\ job.group = {} /\ job.todo = <<>>
  BY NamesAssumption DEF Quiesced, NoJob
<1>2. OpsAre
  <2> SUFFICES ASSUME NEW k \in Keys PROVE OpIs(k, Idle)
    BY <1>1 DEF OpsAre
  <2>1. Idle.pc = "idle" /\ Idle.base = 0 /\ Idle.old = NoLoc /\ mutex # k
    BY <1>1, IdleFields
  <2> HIDE DEF LocIs, Settled, Mine, Idle
  <2> QED BY <2>1 DEF OpIs
<1>3. \A k \in Keys : Pending(k) = cache[k]
  BY <1>1 DEF Pending
<1>4. \A b : Settled(b) = indexSize[b]
  BY <1>1 DEF Settled, Holding
<1>5. phase # "up" \/ chunk = NoFile => JobIs
  BY <1>1 DEF JobIs, Quiesced
<1> QED BY <1>1, <1>2, <1>3, <1>4, <1>5

(* Without locations in the hash there is nothing to be shown of them.     *)
LEMMA ForgottenIs ==
  ASSUME Quiesced, cache = [k \in Keys |-> NoLoc]
  PROVE CacheIs /\ StraysAre
<1>1. \A k \in Keys : Pending(k) = NoLoc /\ cache[k] = NoLoc
  BY QuiescedIs
<1> QED BY <1>1 DEF CacheIs, StraysAre, Stray

(* An empty store satisfies the invariant.                                 *)
LEMMA InitIs ==
  ASSUME Init
  PROVE Inv
<1>1. /\ Quiesced /\ cache = [k \in Keys |-> NoLoc] /\ open = {} /\ sortFd = {} /\ phase = "up"
      /\ \A b \in Bases : /\ data[b] = NoFile /\ index[b] = NoFile /\ sorted[b] = NoFile
                          /\ whole[b] /\ indexSize[b] = 0 /\ dataOffset[b] = 0
      /\ chunk = NoFile
  BY DEF Init, Quiesced
<1>2. OpsAre /\ JobIs /\ CacheIs /\ StraysAre /\ job.group = {}
  BY <1>1, QuiescedIs, ForgottenIs
<1>3. Types
  <2>1. /\ op \in [Keys -> Ops]
        /\ job \in [group : SUBSET Bases, left : SUBSET Bases, todo : Seq(Calls \X Bases)]
    BY IdleFields DEF Init, NoJob
  <2> QED BY <2>1 DEF Init, Types
<1>4. Found = {}
  BY <1>1 DEF Found
<1>5. LinkedIs /\ Named /\ Whole /\ SortedMatchesIndex /\ OpenFiles /\ Resting
  BY <1>1, <1>2, <1>4, FilesDiffer
  DEF LinkedIs, Named, Whole, SortedMatchesIndex, OpenFiles, Resting
<1>6. Unsorteds /\ Fresh
  BY <1>1 DEF Unsorteds, Fresh
<1> QED BY <1>2, <1>3, <1>5, <1>6 DEF Inv

(* The index file of a base, under whatever name.                          *)
LEMMA IndexFileIs ==
  ASSUME Types, LinkedIs, NEW b \in Bases, index[b] # NoFile
  PROVE IndexFile(b) \in Seq(SoundEntry)
BY FilesDiffer DEF Types, LinkedIs, IndexFile

(* The keys a crash exposes are keys.                                      *)
LEMMA ExposedIs ==
  ASSUME Types, LinkedIs
  PROVE Exposed \subseteq Keys \cup {0}
<1>1. \A s : LiveKeys(s) \subseteq Keys
  BY DEF LiveKeys
<1>2. ASSUME NEW b \in Torns PROVE Neighbours(b) \subseteq Keys \cup {0}
  <2>1. PICK s : s = IndexFile(b)
    OBVIOUS
  <2>2. b \in Bases /\ index[b] # NoFile /\ Torn(b) # {}
    BY DEF Torns, Types
  <2>3. s \in Seq(SoundEntry)
    BY <2>1, <2>2, IndexFileIs
  <2>4. Torn(b) \subseteq 1 .. Len(s) /\ Len(s) \in Nat
    BY <2>1, <2>3, SeqIs DEF Torn
  <2>5. PICK m : m = Min(Torn(b))
    OBVIOUS
  <2>6. m \in Torn(b)
    <3>1. Torn(b) \subseteq Nat
      BY <2>4
    <3> QED BY <2>2, <2>5, <3>1, MinOf
  <2>7. m # 1 => s[m - 1] \in SoundEntry
    <3>1. m # 1 => m - 1 \in 1 .. Len(s)
      BY <2>4, <2>6
    <3> QED BY <2>3, <3>1, SeqIs
  <2>8. m # 1 => s[m - 1].key \in Keys \cup {0}
    BY <2>7, EntryIs
  <2> QED BY <1>1, <2>1, <2>5, <2>8 DEF Neighbours
<1>3. ASSUME NEW b \in open, index[b] # NoFile PROVE LeftBehind(b) \subseteq Keys \cup {0}
  <2>1. b \in Bases
    BY DEF Types
  <2>2. PICK s \in Seq(SoundEntry) : s = IndexFile(b)
    BY <1>3, <2>1, IndexFileIs
  <2>3. \A i \in DOMAIN s : s[i].key \in Keys \cup {0}
    BY SeqIs, EntryIs
  <2> QED BY <2>2, <2>3 DEF LeftBehind
<1>4. UNION {Neighbours(b) : b \in Torns} \subseteq Keys \cup {0}
  BY <1>2
<1>5. UNION {LeftBehind(b) : b \in {c \in open \ sortFd : index[c] # NoFile}} \subseteq Keys \cup {0}
  BY <1>3
<1> DEFINE A == UNION {Neighbours(b) : b \in Torns}
           B == UNION {LeftBehind(b) : b \in {c \in open \ sortFd : index[c] # NoFile}}
           C == IF job.todo # <<>> /\ chunk # NoFile
                   /\ job.todo[1] # <<"unlink data", Min(job.group)>>
                THEN LiveKeys(chunk.entries) ELSE {}
<1>6. Exposed = A \cup B \cup C
  BY DEF Exposed
<1>7. C \subseteq Keys
  BY <1>1
<1> HIDE DEF A, B, C
<1>8. A \subseteq Keys \cup {0} /\ B \subseteq Keys \cup {0}
  BY <1>4, <1>5 DEF A, B
<1> QED BY <1>6, <1>7, <1>8

(* A crash leaves the files and forgets the rest.                          *)
LEMMA CrashKeeps ==
  ASSUME Inv, Crash
  PROVE Inv'
<1>1. Types /\ LinkedIs /\ Named /\ Whole /\ SortedMatchesIndex
  BY DEF Inv
<1>2. /\ Quiesced' /\ cache' = [k \in Keys |-> NoLoc] /\ open' = {} /\ sortFd' = {}
      /\ phase' = "down" /\ UNCHANGED <<data, whole, index, sorted, chunk, ops, acked>>
      /\ dataOffset' = [b \in Bases |-> 0] /\ indexSize' = [b \in Bases |-> 0]
      /\ faults' = faults + 1
  BY DEF Crash, Reset, Quiesced, files
<1>3. OpsAre' /\ JobIs' /\ CacheIs' /\ StraysAre'
  <2>1. (Quiesced => OpsAre /\ (phase # "up" \/ chunk = NoFile => JobIs))'
    BY QuiescedIs, PTL
  <2>2. (Quiesced /\ cache = [k \in Keys |-> NoLoc] => CacheIs /\ StraysAre)'
    BY ForgottenIs, PTL
  <2> QED BY <1>2, <2>1, <2>2
<1>4. Types'
  <2>1. /\ op' \in [Keys -> Ops] /\ mutex' \in Keys \cup {Nobody, Sorter}
        /\ job' \in [group : SUBSET Bases, left : SUBSET Bases, todo : Seq(Calls \X Bases)]
    BY <1>2, IdleFields DEF NoJob, Quiesced
  <2>2. unsure' \in SUBSET Keys
    <3>1. Exposed \subseteq Keys \cup {0}
      BY <1>1, ExposedIs
    <3> HIDE DEF Exposed
    <3> QED BY <1>1, <3>1 DEF Crash, Types
  <2>3. damaged' \in BOOLEAN
    BY DEF Crash
  <2> QED BY <1>1, <1>2, <2>1, <2>2, <2>3 DEF Types
<1>5. LinkedIs' /\ Named' /\ Whole' /\ SortedMatchesIndex'
  <2>1. Found' = Found /\ \A b : IndexFile(b)' = IndexFile(b)
    BY <1>2 DEF Found, IndexFile
  <2> QED BY <1>1, <1>2, <2>1 DEF LinkedIs, Named, Whole, SortedMatchesIndex
<1>6. OpenFiles' /\ Resting' /\ Unsorteds' /\ Fresh'
  BY <1>2 DEF OpenFiles, Serving, Resting, Unsorteds, Fresh, Quiesced
<1> QED BY <1>3, <1>4, <1>5, <1>6 DEF Inv


(* The files of the bases a start finds.                                   *)
LEMMA FoundFiles ==
  ASSUME Inv, NEW b \in Found
  PROVE /\ b \in Bases /\ data[b] \in Seq(Cell)
        /\ index[b] = Linked => Kept(b)
        /\ Kept(b) => sorted[b] \in Seq(SoundEntry) /\ sorted[b] # <<>> /\ index[b] # NoFile
        /\ ~Kept(b) => Created(index[b]) \in Seq(SoundEntry)
        /\ Created(index[b]) # NoFile
        /\ index[b] # NoFile => Created(index[b]) = index[b]
        /\ index[b] # Linked => Created(index[b]) # Linked
<1>1. Types /\ LinkedIs
  BY DEF Inv
<1>2. b \in Bases /\ data[b] # NoFile
  BY DEF Found
<1>3. index[b] = Linked => Kept(b)
  BY <1>1, <1>2, FilesDiffer DEF Kept, LinkedIs, IndexFile
<1>4. <<>> \in Seq(SoundEntry)
  OBVIOUS
<1>5. index[b] # Linked => Created(index[b]) \in Seq(SoundEntry)
  BY <1>1, <1>2, <1>4, FileIs DEF Created
<1>6. Kept(b) => sorted[b] \in Seq(SoundEntry) /\ sorted[b] # <<>> /\ index[b] # NoFile
  BY <1>1, <1>2, FileIs DEF Kept, LinkedIs
<1>7. Created(index[b]) # NoFile /\ (index[b] # NoFile => Created(index[b]) = index[b])
  BY FilesDiffer DEF Created
<1> QED BY <1>1, <1>2, <1>3, <1>5, <1>6, <1>7, FileIs, FilesDiffer

(* eblob_scan_base: what it opens is consistent, or it fails.              *)
LEMMA ScanKeeps ==
  ASSUME Inv, Scan
  PROVE Inv'
<1>1. Types /\ LinkedIs /\ Named /\ Whole /\ SortedMatchesIndex /\ Resting /\ Fresh
  BY DEF Inv
<1>2. /\ phase = "down" /\ chunk' = NoFile
      /\ UNCHANGED <<data, whole, cache, dataOffset, op, mutex, job, ops, faults,
                     acked, unsure, damaged>>
  BY DEF Scan, observers
<1>3. Quiesced' /\ cache' = [k \in Keys |-> NoLoc] /\ cache = [k \in Keys |-> NoLoc] /\ open = {}
  BY <1>1, <1>2 DEF Resting, Quiesced
<1>4. phase' # "up"
  BY DEF Scan
<1>5. OpsAre' /\ JobIs' /\ CacheIs' /\ StraysAre' /\ job'.group = {}
  <2>1. (Quiesced => OpsAre /\ (phase # "up" \/ chunk = NoFile => JobIs) /\ job.group = {})'
    BY QuiescedIs, PTL
  <2>2. (Quiesced /\ cache = [k \in Keys |-> NoLoc] => CacheIs /\ StraysAre)'
    BY ForgottenIs, PTL
  <2> QED BY <1>3, <1>4, <2>1, <2>2
<1>6. Found' = Found
  BY <1>2 DEF Found
<1>7. Whole' /\ Unsorteds'
  BY <1>1, <1>2, <1>4, <1>6 DEF Whole, Unsorteds
<1>8. \A b \in Bases : indexSize[b] = 0 /\ dataOffset'[b] = 0
  BY <1>1, <1>2, <1>3 DEF Fresh
<1>9. CASE ~(\A b \in Found : Openable(b))
  <2>1. phase' = "failed" /\ UNCHANGED <<open, sortFd, index, sorted, indexSize>>
    BY <1>9 DEF Scan
  <2>2. \A b : IndexFile(b)' = IndexFile(b)
    BY <2>1 DEF IndexFile
  <2>3. Types'
    BY <1>1, <1>2, <2>1 DEF Types
  <2>4. LinkedIs' /\ Named' /\ SortedMatchesIndex'
    BY <1>1, <1>2, <1>6, <2>1, <2>2 DEF LinkedIs, Named, SortedMatchesIndex
  <2>5. OpenFiles' /\ Resting' /\ Fresh'
    BY <1>2, <1>3, <1>8, <2>1 DEF OpenFiles, Serving, Resting, Quiesced, Fresh
  <2> QED BY <1>5, <1>7, <2>3, <2>4, <2>5 DEF Inv
<1>10. CASE \A b \in Found : Openable(b)
  <2>1. /\ phase' = "scanned" /\ open' = Found
        /\ sortFd' = {b \in Found : Kept(b) \/ ToSort(b)}
        /\ index' = [b \in Bases |-> IF b \in Found THEN Created(index[b]) ELSE index[b]]
        /\ sorted' = [b \in Bases |->
                        IF b \notin Found \/ Kept(b) THEN sorted[b]
                        ELSE IF ToSort(b) THEN SortedByKey(Created(index[b])) ELSE NoFile]
        /\ indexSize' = [b \in Bases |-> IF b \in Found THEN Len(IndexFile(b)') ELSE 0]
    BY <1>10 DEF Scan
  <2>2. \A b \in Bases : b \notin Found => index'[b] = index[b] /\ sorted'[b] = sorted[b]
                                           /\ indexSize'[b] = 0
    BY <2>1
  <2>3. ASSUME NEW b \in Found, Kept(b)
        PROVE  /\ b \in Bases /\ index'[b] = index[b] /\ sorted'[b] = sorted[b] /\ index[b] # NoFile
               /\ sorted[b] \in Seq(SoundEntry) /\ sorted[b] # <<>>
               /\ IndexFile(b)' = IndexFile(b) /\ IndexFile(b)' \in Seq(SoundEntry)
               /\ Len(sorted'[b]) = Len(IndexFile(b)') /\ b \in sortFd'
    <3>1. b \in Bases /\ index[b] # NoFile /\ sorted[b] \in Seq(SoundEntry) /\ sorted[b] # <<>>
      BY <2>3, FoundFiles
    <3>2. index'[b] = index[b] /\ sorted'[b] = sorted[b]
      BY <2>1, <2>3, <3>1 DEF Created
    <3>3. IndexFile(b)' = IndexFile(b)
      BY <3>2 DEF IndexFile
    <3>4. IndexFile(b) \in Seq(SoundEntry)
      BY <1>1, <3>1, IndexFileIs
    <3> QED BY <2>1, <2>3, <3>1, <3>2, <3>3, <3>4 DEF Kept
  <2>4. ASSUME NEW b \in Found, ~Kept(b)
        PROVE  /\ b \in Bases /\ index'[b] \in Seq(SoundEntry) /\ index'[b] = Created(index[b])
               /\ IndexFile(b)' = index'[b]
               /\ ToSort(b) => /\ sorted'[b] \in Seq(SoundEntry) /\ sorted'[b] # <<>>
                               /\ Len(sorted'[b]) = Len(index'[b]) /\ b \in sortFd'
               /\ ~ToSort(b) => sorted'[b] = NoFile /\ b \notin sortFd'
    <3>1. b \in Bases /\ Created(index[b]) \in Seq(SoundEntry)
      BY <2>4, FoundFiles
    <3>2. PICK s \in Seq(SoundEntry) : s = Created(index[b])
      BY <3>1
    <3>3. index'[b] = s
      BY <2>1, <3>1, <3>2
    <3>4. IndexFile(b)' = index'[b]
      BY <3>3, FilesDiffer DEF IndexFile
    <3>5. PICK t : t = SortedByKey(s)
      OBVIOUS
    <3>6. t \in Seq(SoundEntry) /\ Len(t) = Len(s)
      BY <3>5, SortedIs DEF SameEntries
    <3>7. ASSUME ToSort(b) PROVE sorted'[b] = t /\ t # <<>> /\ b \in sortFd'
      <4>1. s # <<>>
        BY <3>2, <3>7 DEF ToSort
      <4>2. t # <<>>
        BY <3>6, <4>1, SeqIs
      <4> QED BY <2>1, <2>4, <3>1, <3>2, <3>5, <3>7, <4>2
    <3>8. ~ToSort(b) => sorted'[b] = NoFile /\ b \notin sortFd'
      BY <2>1, <2>4, <3>1
    <3> QED BY <3>1, <3>2, <3>3, <3>4, <3>6, <3>7, <3>8
  <2>5. LinkedIs'
    <3> SUFFICES ASSUME NEW b \in Bases
                 PROVE  (index'[b] = Linked => sorted'[b] # NoFile) /\ sorted'[b] # <<>>
      BY DEF LinkedIs
    <3>1. CASE b \notin Found
      BY <1>1, <2>2, <3>1 DEF LinkedIs
    <3>2. CASE b \in Found /\ Kept(b)
      BY <2>3, <3>2, FilesDiffer
    <3>3. CASE b \in Found /\ ~Kept(b)
      BY <2>4, <3>3, FilesDiffer
    <3> QED BY <3>1, <3>2, <3>3
  <2>6. Named'
    <3> SUFFICES ASSUME NEW b \in Bases, index'[b] # NoFile \/ sorted'[b] # NoFile
                 PROVE  \E c \in Found : b <= c
      BY <1>6 DEF Named
    <3>1. CASE b \notin Found
      BY <1>1, <2>2, <3>1 DEF Named
    <3>2. CASE b \in Found
      BY <3>2, BaseIs
    <3> QED BY <3>1, <3>2
  <2>7. SortedMatchesIndex'
    <3> SUFFICES ASSUME NEW b \in Bases, data'[b] # NoFile, sorted'[b] # NoFile, index'[b] # NoFile
                 PROVE  Len(sorted'[b]) = Len(IndexFile(b)')
      BY DEF SortedMatchesIndex
    <3>1. b \in Found
      BY <1>2 DEF Found
    <3> QED BY <2>3, <2>4, <3>1
  <2>8. ASSUME NEW b \in Found
        PROVE  /\ index'[b] \in Seq(SoundEntry) \cup {NoFile, Linked}
               /\ sorted'[b] \in Seq(SoundEntry) \cup {NoFile} /\ Len(IndexFile(b)') \in Nat
    <3>1. CASE Kept(b)
      <4>1. /\ index'[b] = index[b] /\ sorted'[b] \in Seq(SoundEntry) /\ b \in Bases
            /\ IndexFile(b)' \in Seq(SoundEntry)
        BY <2>3, <3>1
      <4>2. Len(IndexFile(b)') \in Nat
        BY <4>1, SeqIs
      <4> QED BY <1>1, <4>1, <4>2 DEF Types
    <3>2. CASE ~Kept(b)
      <4>1. /\ index'[b] \in Seq(SoundEntry) /\ sorted'[b] \in Seq(SoundEntry) \cup {NoFile}
            /\ IndexFile(b)' \in Seq(SoundEntry)
        BY <2>4, <3>2
      <4>2. Len(IndexFile(b)') \in Nat
        BY <4>1, SeqIs
      <4> QED BY <4>1, <4>2
    <3> QED BY <3>1, <3>2
  <2>9. Types'
    <3>1. \A b \in Bases : /\ index'[b] \in Seq(SoundEntry) \cup {NoFile, Linked}
                           /\ sorted'[b] \in Seq(SoundEntry) \cup {NoFile}
                           /\ indexSize'[b] \in Nat
      <4> SUFFICES ASSUME NEW b \in Bases
                   PROVE  /\ index'[b] \in Seq(SoundEntry) \cup {NoFile, Linked}
                          /\ sorted'[b] \in Seq(SoundEntry) \cup {NoFile}
                          /\ indexSize'[b] \in Nat
        OBVIOUS
      <4>1. CASE b \notin Found
        BY <1>1, <2>2, <4>1 DEF Types
      <4>2. CASE b \in Found
        BY <2>1, <2>8, <4>2
      <4> QED BY <4>1, <4>2
    <3>2. /\ index' \in [Bases -> Seq(SoundEntry) \cup {NoFile, Linked}]
          /\ sorted' \in [Bases -> Seq(SoundEntry) \cup {NoFile}]
          /\ indexSize' \in [Bases -> Nat]
      <4>1. DOMAIN index' = Bases /\ DOMAIN sorted' = Bases /\ DOMAIN indexSize' = Bases
        BY <2>1
      <4>2. /\ index' = [b \in Bases |-> index'[b]] /\ sorted' = [b \in Bases |-> sorted'[b]]
            /\ indexSize' = [b \in Bases |-> indexSize'[b]]
        BY <2>1
      <4> QED BY <3>1, <4>2
    <3>3. open' \in SUBSET Bases /\ sortFd' \in SUBSET open'
      BY <2>1 DEF Found
    <3> QED BY <1>1, <1>2, <2>1, <3>2, <3>3 DEF Types
  <2>10. OpenFiles'
    <3>1. Found' \subseteq open' \cup job'.group
      BY <1>6, <2>1
    <3>2. ASSUME NEW b \in open'
          PROVE  /\ data'[b] # NoFile
                 /\ b \in sortFd' => sorted'[b] \notin {NoFile, <<>>} /\ index'[b] # NoFile
                 /\ b \notin sortFd' => sorted'[b] = NoFile /\ index'[b] \notin {NoFile, Linked}
      <4>1. b \in Found /\ data'[b] # NoFile
        BY <1>2, <2>1, <3>2 DEF Found
      <4>2. CASE Kept(b)
        BY <2>3, <4>1, <4>2, FilesDiffer
      <4>3. CASE ~Kept(b)
        BY <2>4, <4>1, <4>3, FilesDiffer
      <4> QED BY <4>2, <4>3
    <3> QED BY <3>1, <3>2 DEF OpenFiles
  <2>11. Resting'
    <3>1. LastBase' = Max(Found)
      BY <2>1 DEF LastBase
    <3>2. ASSUME NEW b \in Unsorted'
          PROVE  Len(index'[b]) < RecordsInBlob /\ (b # LastBase' => index'[b] = <<>>)
      <4>1. b \in Found /\ ~Kept(b) /\ ~ToSort(b)
        BY <2>1, <3>2 DEF Unsorted
      <4>2. index'[b] \in Seq(SoundEntry) /\ index'[b] = Created(index[b])
        BY <2>4, <4>1
      <4>3. Len(index'[b]) \in Nat /\ (index'[b] = <<>> => Len(index'[b]) = 0)
        BY <4>2, SeqIs
      <4> QED BY <3>1, <4>1, <4>2, <4>3, BoundsAssumption DEF ToSort
    <3> QED BY <1>2, <1>3, <2>1, <3>2 DEF Resting, Quiesced
  <2>12. Fresh'
    <3> SUFFICES ASSUME NEW b \in Bases, open' = {} \/ b > LastBase'
                 PROVE  indexSize'[b] = 0 /\ dataOffset'[b] = 0
      BY DEF Fresh
    <3>1. b \notin Found
      <4>1. SUFFICES ASSUME b \in Found PROVE FALSE
        OBVIOUS
      <4>2. Found \subseteq Nat /\ MaxBases \in Nat /\ (\A x \in Found : x <= MaxBases) /\ Found # {}
        BY <4>1, BaseIs DEF Found
      <4>3. Max(Found) \in Found /\ \A x \in Found : x <= Max(Found)
        BY <4>2, MaxOf
      <4>4. b > Max(Found) /\ b <= Max(Found) /\ b \in Nat /\ Max(Found) \in Nat
        BY <2>1, <4>1, <4>2, <4>3 DEF LastBase
      <4> QED BY <4>4
    <3> QED BY <1>8, <2>2, <3>1
  <2> QED BY <1>5, <1>7, <2>5, <2>6, <2>7, <2>9, <2>10, <2>11, <2>12 DEF Inv
<1> QED BY <1>9, <1>10


(* What the load reads of a base, and what it makes of its index.          *)
Read(b, s, n) ==
    /\ s \in Seq(SoundEntry) /\ Len(s) <= Len(index[b]) /\ n \in Nat /\ n <= Len(s)
    /\ IndexFile(b) = index[b] /\ s = Complete(index[b]) /\ n = Parsed(b)
    /\ \A j \in 1 .. Len(s) : s[j] = index[b][j]
    /\ n < Len(s) => n # 0
    /\ Len(s) < RecordsInBlob /\ (b # LastBase => Len(s) = 0)
    /\ data[b] \in Seq(Cell) /\ index[b] \in Seq(SoundEntry) /\ sorted[b] = NoFile

(* What the load makes of an index: a prefix that ends at the first        *)
(* invalid entry.                                                          *)
LEMMA ReadIs ==
  ASSUME Inv, phase = "scanned", NEW b \in Unsorted, Loadable(b), NEW s, s = Complete(index[b])
  PROVE b \in Bases /\ Read(b, s, Parsed(b))
<1>1. Types /\ OpenFiles /\ Resting
  BY DEF Inv
<1>2. b \in open \ sortFd /\ b \in Bases /\ job.group = {}
  BY <1>1 DEF Unsorted, Types, Resting, NoJob
<1>3. data[b] # NoFile /\ sorted[b] = NoFile /\ index[b] \notin {NoFile, Linked}
  BY <1>1, <1>2 DEF OpenFiles, Serving
<1>4. data[b] \in Seq(Cell) /\ index[b] \in Seq(SoundEntry) /\ IndexFile(b) = index[b]
  BY <1>1, <1>2, <1>3, FileIs DEF IndexFile
<1>5. PICK x \in Seq(SoundEntry) : x = index[b]
  BY <1>4
<1>6. s \in Seq(SoundEntry) /\ Len(s) <= Len(x) /\ \A j \in 1 .. Len(s) : s[j] = x[j]
  BY <1>5, CompleteIs
<1>13. Len(s) = Len(x) \/ Len(s) = Len(x) - 1
  BY <1>5, CompleteIs
<1>7. Len(s) \in Nat /\ Len(x) \in Nat /\ DOMAIN x = 1 .. Len(x) /\ (s = <<>> <=> Len(s) = 0)
      /\ (x = <<>> => Len(x) = 0)
  BY <1>6, SeqIs
<1>8. Len(x) < RecordsInBlob /\ (b # LastBase => x = <<>>)
  BY <1>1, <1>5 DEF Resting
<1>9. PICK n : n = Parsed(b)
  OBVIOUS
<1>10. n \in Nat /\ n <= Len(s)
  <2>1. CASE Torn(b) = {}
    BY <1>4, <1>7, <1>9, <2>1 DEF Parsed
  <2>2. CASE Torn(b) # {}
    <3>1. Torn(b) \subseteq 1 .. Len(x)
      BY <1>4, <1>5, <1>7 DEF Torn
    <3>2. PICK m : m = Min(Torn(b))
      OBVIOUS
    <3>3. m \in 1 .. Len(x)
      <4>1. Torn(b) \subseteq Nat
        BY <1>7, <3>1
      <4> QED BY <2>2, <3>1, <3>2, <4>1, MinOf
    <3>4. n = m - 1
      BY <1>9, <2>2, <3>2 DEF Parsed
    <3>5. PICK p \in Nat, q \in Nat : p = Len(s) /\ q = Len(x)
      BY <1>7
    <3>6. (p = q \/ p = q - 1) /\ m \in 1 .. q
      BY <1>13, <3>3, <3>5
    <3>7. n \in Nat /\ n <= p
      BY <3>4, <3>6
    <3> QED BY <3>5, <3>7
  <2> QED BY <2>1, <2>2
<1>11. n < Len(s) => n # 0
  <2>1. s = <<>> \/ n > 0
    BY <1>4, <1>9 DEF Loadable
  <2> QED BY <1>7, <1>10, <2>1
<1>12. Len(s) < RecordsInBlob /\ (b # LastBase => Len(s) = 0)
  <2>1. PICK p \in Nat, q \in Nat : p = Len(s) /\ q = Len(x)
    BY <1>7
  <2>2. p <= q /\ q < RecordsInBlob /\ RecordsInBlob \in Nat
    BY <1>6, <1>8, <2>1, BoundsAssumption
  <2>3. b # LastBase => q = 0
    BY <1>7, <1>8, <2>1
  <2>4. p < RecordsInBlob /\ (b # LastBase => p = 0)
    BY <2>2, <2>3
  <2> QED BY <2>1, <2>4
<1> QED BY <1>2, <1>3, <1>4, <1>5, <1>6, <1>9, <1>10, <1>11, <1>12 DEF Read

(* What the load leaves in the hash.                                       *)
LEMMA LoadedIs ==
  ASSUME Inv, phase = "scanned", \A b \in Unsorted : Loadable(b), NEW k \in Keys,
         NEW l, l = Loaded(k), l # NoLoc
  PROVE /\ l \in Location /\ l.base \in Unsorted
        /\ \A b : b = l.base => /\ l.at \in 1 .. Parsed(b) /\ l.at \in DOMAIN index[b]
                                /\ Mine(k, index[b][l.at])
<1> DEFINE at == [b \in Unsorted |-> {i \in Live(IndexFile(b), k) : i <= Parsed(b)}]
           bs == {b \in Unsorted : at[b] # {}}
<1>1. bs # {} /\ l = LET b == Max(bs) IN
                     [base |-> b, at |-> Max(at[b]), pos |-> IndexFile(b)[Max(at[b])].pos]
  BY DEF Loaded
<1>2. PICK b : b = Max(bs)
  OBVIOUS
<1>3. PICK i : i = Max(at[b])
  OBVIOUS
<1>4. l = [base |-> b, at |-> i, pos |-> IndexFile(b)[i].pos]
  BY <1>1, <1>2, <1>3
<1>5. b \in bs
  <2>1. bs \subseteq Nat /\ MaxBases \in Nat /\ \A x \in bs : x <= MaxBases
    BY BaseIs DEF Inv, Types, Unsorted
  <2> HIDE DEF bs
  <2> QED BY <1>1, <1>2, <2>1, MaxOf
<1>6. b \in Unsorted /\ at[b] # {} /\ Loadable(b)
  BY <1>5
<1>7. PICK s : s = Complete(index[b])
  OBVIOUS
<1>8. PICK n : n = Parsed(b)
  OBVIOUS
<1>9. b \in Bases /\ Read(b, s, n)
  BY <1>6, <1>7, <1>8, ReadIs
<1>10. /\ n \in Nat /\ IndexFile(b) = index[b] /\ index[b] \in Seq(SoundEntry)
       /\ n <= Len(s) /\ Len(s) <= Len(index[b]) /\ s \in Seq(SoundEntry)
  BY <1>9 DEF Read
<1>11. /\ DOMAIN index[b] = 1 .. Len(index[b]) /\ Len(index[b]) \in Nat /\ Len(s) \in Nat
  BY <1>10, SeqIs
<1>12. at[b] = {j \in DOMAIN index[b] : (index[b][j].key = k /\ ~index[b][j].removed) /\ j <= n}
  BY <1>6, <1>8, <1>10 DEF Live
<1>13. i \in at[b]
  <2>1. at[b] \subseteq Nat /\ \A x \in at[b] : x <= n
    BY <1>11, <1>12
  <2> HIDE DEF at
  <2> QED BY <1>3, <1>6, <1>10, <2>1, MaxOf
<1>14. i \in DOMAIN index[b] /\ Mine(k, index[b][i]) /\ i <= n /\ i \in 1 .. n
  <2>1. i \in DOMAIN index[b] /\ index[b][i].key = k /\ ~index[b][i].removed /\ i <= n
    BY <1>12, <1>13
  <2>2. i \in 1 .. n
    BY <1>10, <1>11, <2>1
  <2> QED BY <2>1, <2>2 DEF Mine
<1>15. index[b][i] \in SoundEntry
  BY <1>10, <1>11, <1>14, SeqIs
<1>16. index[b][i].pos \in Nat \ {0}
  BY <1>14, <1>15, EntryIs, KeysAssumption DEF Mine
<1>17. l.base = b /\ l.at = i /\ l \in Location
  BY <1>4, <1>9, <1>10, <1>11, <1>14, <1>16 DEF Location
<1> HIDE DEF at, bs
<1> QED BY <1>6, <1>8, <1>14, <1>17


(* The load fills the hash with locations of live entries, except that a   *)
(* repair cuts the last one off.                                           *)
LEMMA LoadKeeps ==
  ASSUME Inv, Load
  PROVE Inv'
<1>1. /\ Types /\ LinkedIs /\ Named /\ Whole /\ SortedMatchesIndex /\ OpenFiles /\ Resting /\ JobIs
      /\ OpsAre /\ CacheIs /\ StraysAre /\ Fresh
  BY DEF Inv
<1>2. /\ phase = "scanned"
      /\ UNCHANGED <<data, whole, sorted, chunk, open, sortFd, op, mutex, job, ops, faults,
                     acked, unsure, damaged>>
  BY DEF Load, observers
<1>3. /\ Quiesced' /\ cache = [k \in Keys |-> NoLoc] /\ chunk' = NoFile /\ job.group = {}
      /\ job'.group = {}
  BY <1>1, <1>2 DEF Resting, Quiesced, NoJob
<1>4. /\ OpsAre' /\ JobIs' /\ (\A k \in Keys : Pending(k)' = cache'[k])
      /\ \A b : Settled(b)' = indexSize'[b]
  <2>1. (Quiesced => /\ OpsAre /\ (phase # "up" \/ chunk = NoFile => JobIs)
                     /\ (\A k \in Keys : Pending(k) = cache[k])
                     /\ \A b : Settled(b) = indexSize[b])'
    BY QuiescedIs, PTL
  <2> QED BY <1>3, <2>1
<1>5. Found' = Found /\ LastBase' = LastBase /\ Whole'
  BY <1>1, <1>2 DEF Found, LastBase, Whole
<1>6. CASE ~(\A b \in Unsorted : Loadable(b))
  <2>1. phase' = "failed" /\ UNCHANGED <<cache, index, indexSize, dataOffset>>
    BY <1>6 DEF Load
  <2>2. \A b : IndexFile(b)' = IndexFile(b)
    BY <1>2, <2>1 DEF IndexFile
  <2>3. Types'
    BY <1>1, <1>2, <2>1 DEF Types
  <2>4. LinkedIs' /\ Named' /\ SortedMatchesIndex'
    BY <1>1, <1>2, <1>5, <2>1, <2>2 DEF LinkedIs, Named, SortedMatchesIndex
  <2>5. OpenFiles' /\ Resting' /\ Fresh' /\ Unsorteds'
    BY <1>1, <1>2, <1>3, <1>5, <2>1
    DEF OpenFiles, Serving, Resting, Quiesced, Fresh, Unsorteds
  <2>6. CacheIs' /\ StraysAre'
    <3>1. (Quiesced /\ cache = [k \in Keys |-> NoLoc] => CacheIs /\ StraysAre)'
      BY ForgottenIs, PTL
    <3> QED BY <1>3, <2>1, <3>1
  <2> QED BY <1>4, <1>5, <2>3, <2>4, <2>5, <2>6 DEF Inv
<1>7. CASE \A b \in Unsorted : Loadable(b)
  <2>1. /\ phase' = "up" /\ cache' = [k \in Keys |-> Loaded(k)]
        /\ index' = [b \in Bases |-> IF b \in Unsorted THEN RepairedIndex(b) ELSE index[b]]
        /\ indexSize' = [b \in Bases |->
                           IF b \in Unsorted THEN Len(Complete(IndexFile(b))) ELSE indexSize[b]]
        /\ dataOffset' = [b \in Bases |->
                            IF b \in Unsorted
                            THEN IF Parsed(b) < Len(Complete(IndexFile(b)))
                                 THEN RepairedOffset(b) ELSE Len(data[b])
                            ELSE 0]
    BY <1>7 DEF Load
  <2>2. \A b \in Bases : b \notin Unsorted =>
            index'[b] = index[b] /\ indexSize'[b] = indexSize[b] /\ dataOffset'[b] = 0
    BY <2>1
  <2>3. ASSUME NEW b \in Unsorted, NEW s, s = Complete(index[b]), NEW n, n = Parsed(b)
        PROVE  /\ b \in Bases /\ b \in open /\ b \notin sortFd /\ sorted'[b] = NoFile
               /\ index'[b] \in Seq(SoundEntry)
               /\ indexSize'[b] = Len(s) /\ Len(s) \in Nat /\ dataOffset'[b] \in Nat
               /\ n \in Nat /\ n <= Len(s)
               /\ n = Len(s) => index'[b] = s
               /\ n # Len(s) => Len(index'[b]) = n - 1 /\ n < Len(s) /\ n # 0
               /\ \A j \in 1 .. Len(index'[b]) : index'[b][j] = index[b][j]
               /\ Len(s) < RecordsInBlob /\ (b # LastBase => Len(s) = 0)
    <3>1. b \in Bases /\ Read(b, s, n) /\ b \in open /\ b \notin sortFd
      BY <1>2, <1>7, <2>3, ReadIs DEF Unsorted
    <3>2. /\ s \in Seq(SoundEntry) /\ n \in Nat /\ n <= Len(s) /\ IndexFile(b) = index[b]
          /\ Len(s) <= Len(index[b]) /\ index[b] \in Seq(SoundEntry) /\ data[b] \in Seq(Cell)
          /\ n < Len(s) => n # 0
          /\ \A j \in 1 .. Len(s) : s[j] = index[b][j]
          /\ Len(s) < RecordsInBlob /\ (b # LastBase => Len(s) = 0) /\ sorted[b] = NoFile
      BY <3>1 DEF Read
    <3>3. Len(s) \in Nat /\ Len(index[b]) \in Nat /\ Len(data[b]) \in Nat
      BY <3>2, SeqIs
    <3>4. indexSize'[b] = Len(s)
      BY <2>1, <2>3, <3>1, <3>2
    <3>5. n # Len(s) => n < Len(s) /\ n # 0
      BY <3>2, <3>3
    <3>6. index'[b] = IF n = Len(s) THEN s ELSE SubSeq(s, 1, n - 1)
      BY <2>1, <2>3, <3>1, <3>2 DEF RepairedIndex
    <3>7. /\ index'[b] \in Seq(SoundEntry) /\ (n # Len(s) => Len(index'[b]) = n - 1)
          /\ \A j \in 1 .. Len(index'[b]) : index'[b][j] = index[b][j]
      <4>1. CASE n = Len(s)
        BY <3>2, <3>6, <4>1
      <4>2. CASE n # Len(s)
        <5>1. PICK m \in Nat : m = n - 1 /\ m <= Len(s)
          BY <3>2, <3>3, <3>5, <4>2
        <5>2. PICK t : t = SubSeq(s, 1, m)
          OBVIOUS
        <5>3. t \in Seq(SoundEntry) /\ Len(t) = m /\ \A j \in 1 .. m : t[j] = s[j]
          BY <3>2, <5>1, <5>2, PrefixIs
        <5>4. index'[b] = t
          BY <3>6, <4>2, <5>1, <5>2
        <5>5. \A j \in 1 .. m : j \in 1 .. Len(s)
          BY <3>3, <5>1
        <5> QED BY <3>2, <5>1, <5>3, <5>4, <5>5
      <4> QED BY <4>1, <4>2
    <3>8. dataOffset'[b] \in Nat
      <4>1. dataOffset'[b] = IF n < Len(s) THEN RepairedOffset(b) ELSE Len(data[b])
        BY <2>1, <2>3, <3>1, <3>2
      <4>2. ASSUME n < Len(s) PROVE RepairedOffset(b) \in Nat
        <5>1. n \in 1 .. Len(index[b])
          BY <3>2, <3>3, <3>5, <4>2
        <5>2. index[b][n] \in SoundEntry
          BY <3>2, <5>1, SeqIs
        <5>3. index[b][n].pos \in Nat
          BY <5>2, EntryIs
        <5> QED BY <2>3, <3>2, <5>3 DEF RepairedOffset
      <4> QED BY <3>3, <4>1, <4>2
    <3> QED BY <1>2, <3>1, <3>2, <3>3, <3>4, <3>5, <3>6, <3>7, <3>8
  <2>4. \A b \in Unsorted : /\ b \in Bases /\ b \in open /\ sorted'[b] = NoFile
                            /\ index'[b] \in Seq(SoundEntry)
                            /\ indexSize'[b] \in Nat /\ dataOffset'[b] \in Nat
    BY <2>3
  <2>5. ASSUME NEW k \in Keys, NEW l, l = cache'[k], l # NoLoc
        PROVE  /\ l = Loaded(k) /\ l \in Location /\ l.base \in Unsorted
               /\ \A b : b = l.base => /\ l.at \in 1 .. Parsed(b) /\ l.at \in DOMAIN index[b]
                                       /\ Mine(k, index[b][l.at])
    <3>1. l = Loaded(k)
      BY <2>1, <2>5
    <3> QED BY <1>2, <1>7, <2>5, <3>1, LoadedIs
  <2>6. Types'
    <3>1. \A b \in Bases : /\ index'[b] \in Seq(SoundEntry) \cup {NoFile, Linked}
                           /\ indexSize'[b] \in Nat /\ dataOffset'[b] \in Nat
      BY <1>1, <2>2, <2>4 DEF Types
    <3>2. /\ index' \in [Bases -> Seq(SoundEntry) \cup {NoFile, Linked}]
          /\ indexSize' \in [Bases -> Nat] /\ dataOffset' \in [Bases -> Nat]
      <4>1. /\ index' = [b \in Bases |-> index'[b]] /\ dataOffset' = [b \in Bases |-> dataOffset'[b]]
            /\ indexSize' = [b \in Bases |-> indexSize'[b]]
        BY <2>1
      <4> QED BY <3>1, <4>1
    <3>3. cache' \in [Keys -> Location \cup {NoLoc}]
      <4>1. \A k \in Keys : cache'[k] \in Location \cup {NoLoc}
        BY <2>5
      <4>2. cache' = [k \in Keys |-> cache'[k]]
        BY <2>1
      <4> QED BY <4>1, <4>2
    <3> QED BY <1>1, <1>2, <2>1, <3>2, <3>3 DEF Types
  <2>7. LinkedIs' /\ Named'
    <3>1. \A b \in Unsorted : b \in Found /\ b <= b
      BY <1>1, <1>2, <1>3, <2>4, BaseIs DEF OpenFiles, Serving, Found
    <3>2. LinkedIs'
      BY <1>1, <1>2, <2>2, <2>4, FilesDiffer DEF LinkedIs
    <3>3. Named'
      BY <1>1, <1>2, <1>5, <2>2, <3>1 DEF Named
    <3> QED BY <3>2, <3>3
  <2>8. SortedMatchesIndex'
    <3> SUFFICES ASSUME NEW b \in Bases, data'[b] # NoFile, sorted'[b] # NoFile, index'[b] # NoFile
                 PROVE  Len(sorted'[b]) = Len(IndexFile(b)')
      BY DEF SortedMatchesIndex
    <3>1. b \notin Unsorted
      BY <2>4
    <3>2. index'[b] = index[b] /\ IndexFile(b)' = IndexFile(b) /\ sorted'[b] = sorted[b] /\ data'[b] = data[b]
      BY <1>2, <2>2, <3>1 DEF IndexFile
    <3> QED BY <1>1, <3>2 DEF SortedMatchesIndex
  <2>9. OpenFiles'
    <3>1. Found' \subseteq open'
      BY <1>1, <1>2, <1>3, <1>5 DEF OpenFiles, Serving
    <3>2. ASSUME NEW b \in open'
          PROVE  /\ data'[b] # NoFile
                 /\ b \in sortFd' => sorted'[b] \notin {NoFile, <<>>} /\ index'[b] # NoFile
                 /\ b \notin sortFd' => sorted'[b] = NoFile /\ index'[b] \notin {NoFile, Linked}
      <4>1. b \in open \ job.group /\ b \in Bases
        BY <1>1, <1>2, <1>3, <3>2 DEF Types
      <4>2. CASE b \in Unsorted
        BY <1>1, <1>2, <2>4, <4>1, <4>2, FilesDiffer DEF OpenFiles, Serving, Unsorted
      <4>3. CASE b \notin Unsorted
        BY <1>1, <1>2, <2>2, <4>1, <4>3 DEF OpenFiles, Serving, Unsorted
      <4> QED BY <4>2, <4>3
    <3> QED BY <3>1, <3>2 DEF OpenFiles
  <2>10. Resting'
    BY <2>1 DEF Resting
  <2>11. CacheIs'
    <3> SUFFICES ASSUME NEW k \in Keys, NEW l, l = cache'[k], l # NoLoc
                 PROVE  LocIs(l)'
      BY <1>3 DEF CacheIs, Quiesced
    <3>1. PICK b : b = l.base
      OBVIOUS
    <3>2. b \in Unsorted /\ l \in Location /\ l.at \in 1 .. Parsed(b)
      BY <2>5, <3>1
    <3>3. PICK s : s = Complete(index[b])
      OBVIOUS
    <3>4. /\ b \in open /\ b \notin sortFd /\ indexSize'[b] = Len(s) /\ Len(s) \in Nat
          /\ Parsed(b) \in Nat /\ Parsed(b) <= Len(s)
      BY <2>3, <3>2, <3>3
    <3>5. l.at <= Settled(b)'
      BY <1>4, <3>2, <3>4
    <3> QED BY <1>2, <1>3, <3>1, <3>4, <3>5 DEF LocIs
  <2>12. Unsorteds'
    <3> SUFFICES ASSUME NEW b \in Unsorted
                 PROVE  /\ indexSize'[b] <= RecordsInBlob /\ Len(index'[b]) <= RecordsInBlob
                        /\ Len(index'[b]) >= Settled(b)' \/ Cut(b)'
                        /\ b # LastBase' => Len(index'[b]) = indexSize'[b]
      BY <1>2, <1>3 DEF Unsorteds, Unsorted
    <3>1. PICK s : s = Complete(index[b])
      OBVIOUS
    <3>2. PICK n : n = Parsed(b)
      OBVIOUS
    <3>3. /\ indexSize'[b] = Len(s) /\ Len(s) \in Nat /\ n \in Nat /\ n <= Len(s)
          /\ n = Len(s) => index'[b] = s
          /\ n # Len(s) => Len(index'[b]) = n - 1 /\ n < Len(s) /\ n # 0
          /\ Len(s) < RecordsInBlob /\ (b # LastBase => Len(s) = 0)
      BY <2>3, <3>1, <3>2
    <3>4. Settled(b)' = Len(s)
      BY <1>4, <3>3
    <3>5. CASE n = Len(s)
      BY <3>3, <3>4, <3>5, BoundsAssumption
    <3>6. CASE n # Len(s)
      <4>1. Len(index'[b]) < Len(s) /\ b = LastBase /\ Len(index'[b]) <= RecordsInBlob
        BY <3>3, <3>6, BoundsAssumption
      <4>2. Cut(b)'
        BY <1>5, <3>3, <3>4, <4>1 DEF Cut
      <4> QED BY <1>5, <3>3, <4>1, <4>2, BoundsAssumption
    <3> QED BY <3>5, <3>6
  <2>13. Fresh'
    <3>1. \A b \in Bases : (open = {} \/ b > LastBase) => b \notin Unsorted
      <4> SUFFICES ASSUME NEW b \in Unsorted, open = {} \/ b > LastBase PROVE FALSE
        OBVIOUS
      <4>1. b \in open /\ b \in Bases /\ open \in SUBSET Bases
        BY <1>1, <2>4 DEF Types
      <4>2. b <= LastBase /\ LastBase \in Bases
        BY <4>1, LastBaseIs
      <4> QED BY <4>1, <4>2, BaseIs
    <3> QED BY <1>1, <1>2, <1>5, <2>2, <3>1 DEF Fresh
  <2>14. ASSUME NEW k \in Keys, NEW l, NEW b, l = Pending(k)', Stray(k, l, b)'
         PROVE  /\ b \in Unsorted /\ l.at = Parsed(b) /\ Parsed(b) < indexSize'[b]
                /\ Len(index'[b]) = Parsed(b) - 1 /\ Parsed(b) \in Nat
                /\ Mine(k, index[b][Parsed(b)])
    <3>1. l # NoLoc /\ l.base = b /\ ~Good(k, l)' /\ l = cache'[k]
      BY <1>4, <2>14 DEF Stray
    <3>2. /\ b \in Unsorted /\ l.at \in 1 .. Parsed(b) /\ l.at \in DOMAIN index[b]
          /\ Mine(k, index[b][l.at])
      BY <2>5, <3>1
    <3>3. PICK s : s = Complete(index[b])
      OBVIOUS
    <3>4. PICK n : n = Parsed(b)
      OBVIOUS
    <3>5. /\ b \notin sortFd /\ index'[b] \in Seq(SoundEntry)
          /\ indexSize'[b] = Len(s) /\ Len(s) \in Nat /\ n \in Nat /\ n <= Len(s)
          /\ n = Len(s) => index'[b] = s
          /\ n # Len(s) => Len(index'[b]) = n - 1 /\ n < Len(s) /\ n # 0
          /\ \A j \in 1 .. Len(index'[b]) : index'[b][j] = index[b][j]
      BY <2>3, <3>2, <3>3, <3>4
    <3>6. ~(l.at \in DOMAIN index'[b] /\ Mine(k, index'[b][l.at]))
      BY <1>2, <3>1, <3>5 DEF Good
    <3>7. DOMAIN index'[b] = 1 .. Len(index'[b])
      BY <3>5, SeqIs
    <3>8. l.at \notin 1 .. Len(index'[b])
      BY <3>2, <3>5, <3>6, <3>7
    <3>9. n # Len(s)
      BY <3>2, <3>4, <3>5, <3>8
    <3>10. l.at = n
      BY <3>2, <3>4, <3>5, <3>8, <3>9
    <3> QED BY <3>2, <3>4, <3>5, <3>9, <3>10
  <2>15. StraysAre'
    <3>1. SUFFICES ASSUME NEW b \in open', NEW k \in Keys, NEW l, l = Pending(k)', Stray(k, l, b)'
                   PROVE  /\ \A j \in Strays(b)' : j = k
                          /\ (b \notin sortFd' /\ Cut(b)' /\ l.at < Settled(b)') \/ HasHole(b)'
                          /\ b \notin sortFd' /\ l.at \in DOMAIN index'[b] => index'[b][l.at].key = 0
      BY DEF StraysAre
    <3>2. PICK n : n = Parsed(b)
      OBVIOUS
    <3>3. /\ b \in Unsorted /\ l.at = n /\ n < indexSize'[b] /\ Len(index'[b]) = n - 1 /\ n \in Nat
          /\ Mine(k, index[b][n])
      BY <2>14, <3>1, <3>2
    <3>4. \A j \in Strays(b)' : j = k
      <4> SUFFICES ASSUME NEW j \in Keys, NEW x, x = Pending(j)', Stray(j, x, b)' PROVE j = k
        BY DEF Strays
      <4>1. Mine(j, index[b][n])
        BY <2>14, <3>2
      <4> QED BY <3>3, <4>1 DEF Mine
    <3>5. PICK s : s = Complete(index[b])
      OBVIOUS
    <3>6. /\ indexSize'[b] = Len(s) /\ Len(s) \in Nat /\ Len(s) < RecordsInBlob
          /\ (b # LastBase => Len(s) = 0) /\ b \notin sortFd /\ index'[b] \in Seq(SoundEntry)
      BY <2>3, <3>3, <3>5
    <3>7. Settled(b)' = Len(s)
      BY <1>4, <3>6
    <3>8. Cut(b)' /\ l.at < Settled(b)'
      BY <1>5, <3>3, <3>6, <3>7 DEF Cut
    <3>9. l.at \notin DOMAIN index'[b]
      BY <3>3, <3>6, SeqIs
    <3> HIDE DEF Cut, HasHole, Strays
    <3> QED BY <1>2, <3>4, <3>6, <3>8, <3>9
  <2> QED BY <1>4, <1>5, <2>6, <2>7, <2>8, <2>9, <2>10, <2>11, <2>12, <2>13, <2>15 DEF Inv
<1> QED BY <1>6, <1>7

(* A stuttering step.                                                      *)
LEMMA StutterKeeps ==
  ASSUME Inv, UNCHANGED vars
  PROVE Inv'
<1>1. /\ data' = data /\ whole' = whole /\ index' = index /\ sorted' = sorted /\ chunk' = chunk
      /\ phase' = phase /\ open' = open /\ sortFd' = sortFd /\ cache' = cache
      /\ dataOffset' = dataOffset /\ indexSize' = indexSize /\ op' = op /\ mutex' = mutex
      /\ job' = job /\ ops' = ops /\ faults' = faults
      /\ acked' = acked /\ unsure' = unsure /\ damaged' = damaged
  BY DEF vars, files, memory, observers
<1>2. Types'
  BY <1>1 DEF Inv, Types
<1>3. /\ Found' = Found /\ LastBase' = LastBase /\ (\A b : IndexFile(b)' = IndexFile(b))
      /\ (\A b : IndexFd(b)' = IndexFd(b)) /\ (\A b : Settled(b)' = Settled(b))
      /\ \A k : Pending(k)' = Pending(k)
  BY <1>1 DEF Found, LastBase, IndexFile, IndexFd, Settled, Holding, Pending
<1>4. /\ \A b : Cut(b)' <=> Cut(b)
      /\ \A b : HasHole(b)' <=> HasHole(b)
      /\ \A l : LocIs(l)' <=> LocIs(l)
      /\ \A k, l, b : Stray(k, l, b)' <=> Stray(k, l, b)
      /\ \A b : Strays(b)' = Strays(b)
  BY <1>1, <1>3 DEF Cut, HasHole, LocIs, Stray, Strays, Good
<1>5. LinkedIs' /\ Named' /\ Whole' /\ SortedMatchesIndex' /\ Fresh'
  BY <1>1, <1>3 DEF Inv, LinkedIs, Named, Whole, SortedMatchesIndex, Fresh
<1>6. OpenFiles' /\ Resting'
  BY <1>1, <1>3 DEF Inv, OpenFiles, Serving, Resting, Unsorted
<1>7. JobIs'
  <2>1. /\ \A c : Dropping(c)' <=> Dropping(c)
        /\ \A c : Moving(c)' <=> Moving(c)
        /\ \A c : Gone(c)' <=> Gone(c)
    BY <1>1 DEF Dropping, Moving, Gone
  <2>2. /\ \A c : Merging(c)' <=> Merging(c)
        /\ Removing' <=> Removing
    BY <1>1, <2>1 DEF Merging, Removing
  <2> HIDE DEF Merging, Removing
  <2> QED BY <1>1, <1>3, <2>2 DEF Inv, JobIs
<1>8. OpsAre' /\ CacheIs'
  <2>1. \A k, o : OpIs(k, o)' <=> OpIs(k, o)
    BY <1>1, <1>3, <1>4 DEF OpIs
  <2> QED BY <1>1, <1>4, <2>1 DEF Inv, OpsAre, CacheIs
<1>9. Unsorteds' /\ StraysAre'
  BY <1>1, <1>3, <1>4 DEF Inv, Unsorteds, StraysAre
<1> QED BY <1>2, <1>5, <1>6, <1>7, <1>8, <1>9 DEF Inv

(* Every step keeps the invariant.                                         *)
LEMMA NextKeeps ==
  ASSUME Inv, [Next]_vars
  PROVE Inv'
<1>1. CASE \E k \in Keys : WriteBegin(k)
  BY <1>1, WriteBeginKeeps
<1>2. CASE \E k \in Keys : WriteIndex(k)
  BY <1>2, WriteIndexKeeps
<1>3. CASE \E k \in Keys : WriteHeader(k)
  BY <1>3, WriteHeaderKeeps
<1>4. CASE \E k \in Keys : Rollback(k)
  BY <1>4, RollbackKeeps
<1>5. CASE \E k \in Keys : RemoveBegin(k)
  BY <1>5, RemoveBeginKeeps
<1>6. CASE \E k \in Keys : MarkIndex(k)
  BY <1>6, MarkIndexKeeps
<1>7. CASE \E k \in Keys : MarkData(k)
  BY <1>7, MarkDataKeeps
<1>8. CASE \E k \in Keys : NothingToMark(k)
  BY <1>8, NothingToMarkKeeps
<1>9. CASE \E k \in Keys : WriteCommit(k)
  BY <1>9, WriteCommitKeeps
<1>10. CASE \E b \in Bases : IndexSort(b)
  BY <1>10, IndexSortKeeps
<1>11. CASE \E g \in SUBSET Bases : SwapBegin(g)
  BY <1>11, SwapBeginKeeps
<1>12. CASE \E b \in Bases : RemoveBase(b)
  BY <1>12, RemoveBaseKeeps
<1>13. CASE DiskStep
  BY <1>13, DiskStepKeeps
<1>14. CASE Crash
  BY <1>14, CrashKeeps
<1>15. CASE Scan
  BY <1>15, ScanKeeps
<1>16. CASE Load
  BY <1>16, LoadKeeps
<1>17. CASE UNCHANGED vars
  BY <1>17, StutterKeeps
<1> QED BY <1>1, <1>2, <1>3, <1>4, <1>5, <1>6, <1>7, <1>8, <1>9, <1>10, <1>11, <1>12,
           <1>13, <1>14, <1>15, <1>16, <1>17 DEF Next

(* The inductive invariant.                                                *)
LEMMA InvHolds == Spec => []Inv
<1>1. Init => Inv
  BY InitIs
<1>2. Inv /\ [Next]_vars => Inv'
  BY NextKeeps
<1> QED BY <1>1, <1>2, PTL DEF Spec

(* Files, sizes, locations, operations and the job of the sorter have      *)
(* their types, whatever the calls, crashes and repairs; what a write, a   *)
(* lookup or a load puts into the hash is a position in a file.            *)
THEOREM TypeCorrect == Spec => []TypeOK
<1>1. Inv => TypeOK
  <2> SUFFICES ASSUME Inv PROVE TypeOK
    OBVIOUS
  <2>1. Types /\ OpsAre
    BY DEF Inv
  <2>2. Seq(SoundEntry) \subseteq Seq(Entry)
    <3>1. SoundEntry \subseteq Entry
      BY EntryIs
    <3> QED BY <3>1
  <2>3. chunk = NoFile \/ chunk \in [cells : Seq(Cell), entries : Seq(Entry)]
    BY <2>1, <2>2 DEF Types, Chunks
  <2>4. /\ index \in [Bases -> Seq(Entry) \cup {NoFile, Linked}]
        /\ sorted \in [Bases -> Seq(Entry) \cup {NoFile}]
    BY <2>1, <2>2 DEF Types
  <2>5. ASSUME NEW k \in Keys
        PROVE  /\ op[k].pc \in {"idle", "index", "header", "mark", "markdata", "payload"}
               /\ op[k].old \in Location \cup {NoLoc}
               /\ op[k].pc \in {"index", "header", "payload"} =>
                     [base |-> op[k].base, at |-> op[k].at, pos |-> op[k].pos] \in Location
    <3>1. PICK o : o = op[k]
      OBVIOUS
    <3>2. /\ OpIs(k, o) /\ o.old \in Location \cup {NoLoc} /\ o.at \in Nat /\ o.pos \in Nat
          /\ o.pc \in {"idle", "index", "header", "mark", "markdata", "payload"}
      BY <2>1, <3>1, OpFields DEF OpsAre
    <3>3. ASSUME o.pc \in {"index", "header", "payload"}
          PROVE  [base |-> o.base, at |-> o.at, pos |-> o.pos] \in Location
      <4>1. o.base # 0
        BY <3>2, <3>3 DEF OpIs
      <4>2. o.base \in open /\ o.at # 0 /\ o.pos # 0
        BY <3>2, <4>1 DEF OpIs
      <4>3. o.base \in Bases
        BY <2>1, <4>2 DEF Types
      <4> QED BY <3>2, <4>2, <4>3 DEF Location
    <3> QED BY <3>1, <3>2, <3>3
  <2> QED BY <2>1, <2>3, <2>4, <2>5 DEF Types, TypeOK
<1> QED BY <1>1, InvHolds, PTL


(* A new base finds no file of an earlier one under its name: the index    *)
(* after the last open base is free, also after bases were merged, removed *)
(* and found again by a start.                                             *)
THEOREM FreshNames == Spec => []NamesFresh
<1>1. Inv => NamesFresh
  <2> SUFFICES ASSUME Inv, phase = "up", NEW b \in Bases, open = {} \/ b > LastBase
               PROVE  data[b] = NoFile /\ index[b] = NoFile /\ sorted[b] = NoFile
    BY DEF NamesFresh
  <2>1. Types /\ Named /\ OpenFiles /\ JobIs
    BY DEF Inv
  <2>2. \A c \in Found : c < b
    <3> SUFFICES ASSUME NEW c \in Found PROVE c < b
      OBVIOUS
    <3>1. c \in open \cup job.group /\ c \in Bases /\ open \in SUBSET Bases
      BY <2>1 DEF OpenFiles, Serving, Types, Found
    <3>2. open # {} /\ c <= LastBase
      <4>1. CASE c \in open
        BY <3>1, <4>1, LastBaseIs
      <4>2. CASE c \in job.group
        <5>1. job.todo # <<>>
          BY <2>1, <4>2 DEF JobIs, NoJob
        <5>2. open # {} /\ c < LastBase
          BY <2>1, <4>2, <5>1 DEF JobIs
        <5>3. LastBase \in Bases
          BY <3>1, <5>2, LastBaseIs
        <5> QED BY <3>1, <5>2, <5>3, BaseIs
      <4> QED BY <3>1, <4>1, <4>2
    <3>3. LastBase \in Bases
      BY <3>1, <3>2, LastBaseIs
    <3> QED BY <3>1, <3>2, <3>3, BaseIs
  <2>3. b \notin Found /\ ~(\E c \in Found : b <= c)
    <3>1. \A c \in Found : c \in Nat
      BY BaseIs DEF Found
    <3> QED BY <2>2, <3>1, BaseIs
  <2> QED BY <2>1, <2>3 DEF Named, Found
<1> QED BY <1>1, InvHolds, PTL

(* The sorted index of a base has as many entries as its index, through    *)
(* sorts, merges, marks beyond the end and crashes between any two calls.  *)
THEOREM SortedMatches == Spec => []SortedMatchesIndex
<1>1. Inv => SortedMatchesIndex
  BY DEF Inv
<1> QED BY <1>1, InvHolds, PTL


-----------------------------------------------------------------------------
(* Starting after a crash *)

NoHoles(s) == \A i \in DOMAIN s : s[i].key # 0
AllWithin(b, s) == \A i \in DOMAIN s : Within(b, s[i])

(* What is never written again, and what still grows: there an entry whose *)
(* record may not be complete is one of an operation in flight, or one     *)
(* that a failed reservation left behind.                                  *)
Sound(b) ==
    /\ index[b] # NoFile => NoHoles(IndexFile(b))
    /\ sorted[b] # NoFile => NoHoles(sorted[b]) /\ AllWithin(b, sorted[b])
Frozen(b) == index[b] # NoFile => AllWithin(b, IndexFile(b))
Busy(b, i) == \E k \in Keys : op[k].base = b /\ op[k].at = i
Growing(b) ==
    /\ Len(index[b]) >= Settled(b)
    /\ \A i \in DOMAIN index[b] : i <= Settled(b) /\ ~Busy(b, i) => Within(b, index[b][i])

Hale(b) ==
    /\ Sound(b)
    /\ phase # "up" \/ b \in sortFd \cup job.group => Frozen(b)
    /\ phase = "up" /\ b \notin sortFd \cup job.group => Growing(b)
    /\ sorted[b] # NoFile /\ index[b] = NoFile =>
          job.todo # <<>> /\ job.todo[1][1] = "link" /\ job.todo[1][2] = b

(* The result of a data sort is complete, and so is its data file once it  *)
(* has its name.                                                           *)
ChunkSound ==
    chunk # NoFile =>
      /\ Len(chunk.cells) = Len(chunk.entries)
      /\ \A i \in DOMAIN chunk.entries :
            chunk.entries[i].key # 0 /\ chunk.entries[i].pos <= Len(chunk.entries)
      /\ \A b \in Bases :
            job.todo # <<>> /\ job.todo[1][1] = "rename index" /\ job.todo[1][2] = b =>
                Len(data[b]) = Len(chunk.cells) /\ whole[b]

Unhurt ==
    ~damaged => phase # "failed" /\ ChunkSound /\ \A b \in Found : Hale(b)


(* The same keys at the same places.                                       *)
SameShape(t, s) ==
    /\ Len(t) = Len(s)
    /\ \A i \in 1 .. Len(s) : t[i].key = s[i].key /\ t[i].pos = s[i].pos

(* Records stay within the data file.                                      *)
Longer(b) == \A e \in SoundEntry : Within(b, e) => Within(b, e)'

(* Such a file has no hole, and its records are where they were.           *)
LEMMA ShapeIs ==
  ASSUME NEW s \in Seq(SoundEntry), NEW t \in Seq(SoundEntry), SameShape(t, s), NEW b
  PROVE /\ NoHoles(s) => NoHoles(t)
        /\ Longer(b) /\ AllWithin(b, s) => AllWithin(b, t)'
        /\ \A i \in DOMAIN s : i \in DOMAIN t /\ (Longer(b) /\ Within(b, s[i]) => Within(b, t[i])')
<1>1. DOMAIN s = 1 .. Len(s) /\ DOMAIN t = 1 .. Len(s)
  BY SeqIs DEF SameShape
<1>2. NoHoles(s) => NoHoles(t)
  BY <1>1 DEF NoHoles, SameShape
<1>3. ASSUME NEW i \in DOMAIN s, Longer(b), Within(b, s[i]) PROVE Within(b, t[i])'
  <2>1. s[i] \in SoundEntry /\ t[i].pos = s[i].pos
    BY <1>1, <1>3, SeqIs DEF SameShape
  <2>2. PICK e \in SoundEntry : e = s[i]
    BY <2>1
  <2>3. PICK d : d = t[i]
    OBVIOUS
  <2>4. Within(b, e)'
    BY <1>3, <2>2 DEF Longer
  <2>5. d.pos = e.pos
    BY <2>1, <2>2, <2>3
  <2>6. Within(b, d)'
    BY <2>4, <2>5 DEF Within
  <2> QED BY <2>3, <2>6
<1>4. Longer(b) /\ AllWithin(b, s) => AllWithin(b, t)'
  BY <1>1, <1>3 DEF AllWithin
<1> QED BY <1>1, <1>2, <1>3, <1>4

(* A file by the name it has in the next state.                            *)
LEMMA Renamed ==
  ASSUME NEW b, NEW s, AllWithin(b, s)'
  PROVE /\ s = index'[b] => AllWithin(b, index[b])'
        /\ s = sorted'[b] => AllWithin(b, sorted[b])'
        /\ s = IndexFile(b)' => AllWithin(b, IndexFile(b))'
BY DEF AllWithin, Within

(* A base that no start finds is left as it is; the others are open.       *)
LEMMA GrowingFiles ==
  ASSUME Inv, phase = "up", NEW b \in Found, b \notin sortFd \cup job.group
  PROVE /\ b \in Visible /\ b \in Bases /\ index[b] \in Seq(SoundEntry) /\ sorted[b] = NoFile
        /\ IndexFile(b) = index[b] /\ Settled(b) \in Nat /\ Len(index[b]) \in Nat
        /\ DOMAIN index[b] = 1 .. Len(index[b]) /\ index[b] # NoFile
<1>1. Types /\ OpenFiles /\ OpsAre
  BY DEF Inv
<1>2. b \in Visible /\ b \in Bases
  BY <1>1 DEF OpenFiles, Serving, Visible, Found
<1>3. index[b] \in Seq(SoundEntry) /\ sorted[b] = NoFile
  BY <1>1, <1>2, VisibleIs
<1>4. index[b] # Linked /\ index[b] # NoFile
  BY <1>3, FilesDiffer
<1>5. Settled(b) \in Nat
  BY <1>1, <1>2, SettledIs
<1>6. Len(index[b]) \in Nat /\ DOMAIN index[b] = 1 .. Len(index[b])
  BY <1>3, SeqIs
<1> QED BY <1>2, <1>3, <1>4, <1>5, <1>6 DEF IndexFile

(* The index of a base that grows, when no entry of it loses its record.   *)
LEMMA GrowingStays ==
  ASSUME NEW b, index[b] \in Seq(SoundEntry), index'[b] \in Seq(SoundEntry),
         SameShape(index'[b], index[b]), Longer(b), Growing(b),
         Len(index[b]) >= Settled(b)',
         \A i \in DOMAIN index[b] :
             i <= Settled(b)' /\ ~Busy(b, i)' => i <= Settled(b) /\ ~Busy(b, i)
  PROVE Growing(b)'
<1>1. PICK s \in Seq(SoundEntry) : s = index[b]
  OBVIOUS
<1>2. PICK t \in Seq(SoundEntry) : t = index'[b]
  OBVIOUS
<1>3. SameShape(t, s) /\ Len(t) = Len(s) /\ DOMAIN t = DOMAIN s
  <2>1. SameShape(t, s)
    BY <1>1, <1>2
  <2>2. Len(t) = Len(s)
    BY <2>1 DEF SameShape
  <2> QED BY <2>1, <2>2, SeqIs
<1> HIDE DEF Settled, Busy
<1>4. ASSUME NEW i \in DOMAIN t, i <= Settled(b)', ~Busy(b, i)' PROVE Within(b, t[i])'
  <2>1. i \in DOMAIN s /\ i <= Settled(b) /\ ~Busy(b, i)
    BY <1>1, <1>3, <1>4
  <2>2. Within(b, s[i])
    BY <1>1, <2>1 DEF Growing
  <2> QED BY <1>3, <2>1, <2>2, ShapeIs
<1> QED BY <1>1, <1>2, <1>3, <1>4 DEF Growing

(* A base that a step of an operation leaves intact.                       *)
LEMMA HaleKept ==
  ASSUME Inv, Inv', NEW b \in Found, b \in Found', Hale(b), phase = "up", phase' = "up",
         sortFd' = sortFd, job' = job, Longer(b),
         sorted'[b] = sorted[b] \/ (b \in Visible \cap sortFd /\ SameShape(sorted'[b], sorted[b])),
         b \in sortFd \cup job.group => index'[b] = index[b],
         b \notin sortFd \cup job.group => NoHoles(index'[b]) /\ Growing(b)'
  PROVE Hale(b)'
<1>1. b \in Bases
  BY DEF Found
<1>2. CASE b \notin sortFd \cup job.group
  <2>1. b \in open' /\ b \notin job'.group /\ b \notin sortFd' /\ OpenFiles'
    BY <1>2 DEF Inv, OpenFiles, Serving
  <2>2. sorted'[b] = NoFile /\ IndexFile(b)' = index'[b]
    BY <2>1 DEF OpenFiles, Serving, IndexFile
  <2> HIDE DEF Growing
  <2> QED BY <1>2, <2>2 DEF Hale, Sound
<1>3. CASE b \in sortFd \cup job.group
  <2>1. index'[b] = index[b] /\ Sound(b) /\ Frozen(b)
    BY <1>3 DEF Hale
  <2>2. ASSUME NEW s, s = sorted[b], NEW t, t = sorted'[b], s # NoFile
        PROVE  t # NoFile /\ NoHoles(t) /\ AllWithin(b, t)'
    <3>1. s \in Seq(SoundEntry) /\ NoHoles(s) /\ AllWithin(b, s)
      BY <1>1, <2>1, <2>2, FileIs DEF Sound, Inv
    <3>2. t \in Seq(SoundEntry) /\ SameShape(t, s)
      <4>1. CASE t = s
        BY <3>1, <4>1 DEF SameShape
      <4>2. CASE t # s
        <5>1. b \in Visible \cap sortFd /\ SameShape(t, s)
          BY <2>2, <4>2
        <5>2. b \in open' \ job'.group /\ b \in sortFd' /\ Types' /\ OpenFiles'
          BY <5>1 DEF Visible, Inv, Types
        <5>3. t # NoFile /\ t \in Seq(SoundEntry) \cup {NoFile}
          BY <1>1, <2>2, <5>2 DEF OpenFiles, Serving, Types
        <5> QED BY <5>1, <5>3
      <4> QED BY <4>1, <4>2
    <3> QED BY <3>1, <3>2, ShapeIs, FilesDiffer
  <2>3. sorted[b] = NoFile => sorted'[b] = NoFile
    <3>1. b \in Visible \cap sortFd => sorted[b] # NoFile
      BY VisibleIs, FilesDiffer DEF Inv
    <3> QED BY <3>1
  <2>4. ASSUME index[b] # NoFile, index[b] # Linked
        PROVE  NoHoles(index'[b]) /\ AllWithin(b, index[b])'
    <3>1. PICK s \in Seq(SoundEntry) : s = index[b]
      BY <1>1, <2>4, FileIs DEF Inv
    <3>2. NoHoles(s) /\ AllWithin(b, s) /\ SameShape(s, s)
      BY <2>1, <2>4, <3>1 DEF Sound, Frozen, IndexFile, SameShape
    <3>3. AllWithin(b, s)'
      BY <3>2, ShapeIs
    <3>4. index'[b] = s
      BY <2>1, <3>1
    <3> QED BY <3>2, <3>3, <3>4, Renamed
  <2>5. Sound(b)' /\ Frozen(b)'
    <3>1. sorted'[b] # NoFile => NoHoles(sorted'[b]) /\ AllWithin(b, sorted[b])'
      <4>1. PICK t : t = sorted'[b]
        OBVIOUS
      <4>2. t # NoFile => NoHoles(t) /\ AllWithin(b, t)'
        BY <2>2, <2>3, <4>1
      <4> QED BY <4>1, <4>2, Renamed
    <3>2. index'[b] = Linked => sorted'[b] # NoFile
      BY <1>1 DEF Inv, LinkedIs
    <3>3. index'[b] # NoFile => NoHoles(IndexFile(b)') /\ AllWithin(b, IndexFile(b))'
      <4>1. CASE index'[b] = Linked
        <5>1. IndexFile(b)' = sorted'[b]
          BY <4>1 DEF IndexFile
        <5> QED BY <3>1, <3>2, <4>1, <5>1 DEF AllWithin, Within
      <4>2. CASE index'[b] # Linked
        <5>1. IndexFile(b)' = index'[b]
          BY <4>2 DEF IndexFile
        <5> QED BY <2>1, <2>4, <4>2, <5>1 DEF AllWithin, Within
      <4> QED BY <4>1, <4>2
    <3> QED BY <3>1, <3>3 DEF Sound, Frozen
  <2>6. sorted'[b] # NoFile /\ index'[b] = NoFile => job'.todo # <<>> /\ job'.todo[1][1] = "link"
                                                  /\ job'.todo[1][2] = b
    BY <2>1, <2>3 DEF Hale
  <2> HIDE DEF Growing, Sound, Frozen
  <2> QED BY <1>3, <2>5, <2>6 DEF Hale
<1> QED BY <1>2, <1>3


(* A base whose files and operations a step leaves alone.                  *)
LEMMA AloneHale ==
  ASSUME NEW b, Hale(b), phase = "up", phase' = "up",
         data'[b] = data[b], whole'[b] = whole[b], index'[b] = index[b], sorted'[b] = sorted[b],
         b \in sortFd' \cup job'.group <=> b \in sortFd \cup job.group,
         b \notin sortFd \cup job.group =>
            Settled(b)' = Settled(b) /\ \A i : Busy(b, i) => Busy(b, i)',
         sorted[b] # NoFile /\ index[b] = NoFile =>
            job'.todo # <<>> /\ job'.todo[1][1] = "link" /\ job'.todo[1][2] = b
  PROVE Hale(b)'
<1>1. \A e : Within(b, e)' <=> Within(b, e)
  BY DEF Within
<1>2. IndexFile(b)' = IndexFile(b)
  BY DEF IndexFile
<1>3. Sound(b)' <=> Sound(b)
  BY <1>1, <1>2 DEF Sound, NoHoles, AllWithin, Within
<1>4. Frozen(b)' <=> Frozen(b)
  BY <1>1, <1>2 DEF Frozen, AllWithin, Within
<1>5. b \notin sortFd \cup job.group /\ Growing(b) => Growing(b)'
  <2> HIDE DEF Settled, Busy
  <2> QED BY <1>1 DEF Growing, Within
<1> HIDE DEF Sound, Frozen, Growing
<1> QED BY <1>3, <1>4, <1>5 DEF Hale

(* The sorter's next call is about a base of its group.                    *)
LEMMA InJob ==
  ASSUME Inv, job.todo # <<>>
  PROVE job.todo[1][2] \in job.group
<1>1. JobIs /\ Types
  BY DEF Inv
<1>2. job.group \subseteq Bases /\ job.group # {} /\ job.left \subseteq job.group
  BY <1>1 DEF JobIs, Types
<1>3. ASSUME NEW c \in job.group, Dropping(c) \/ Moving(c) PROVE job.todo[1][2] = c
  <2>1. PICK t : t = job.todo
    OBVIOUS
  <2>2. t \in Rests(UnlinkCalls(c)) \/ t \in Rests(RenameCalls(c))
    BY <1>3, <2>1 DEF Dropping, Moving
  <2>3. t[1][2] = c
    BY <1>2, <2>2, RestIs DEF Follows
  <2> QED BY <2>1, <2>3
<1>4. CASE Removing
  <2>1. PICK c \in Bases : job.group = {c} /\ Dropping(c)
    BY <1>4 DEF Removing
  <2> QED BY <1>3, <2>1
<1>5. ASSUME NEW first, first = Min(job.group), Merging(first) PROVE job.todo[1][2] \in job.group
  <2>1. first \in job.group
    BY <1>2, <1>5, FirstIs
  <2>2. (\E c \in job.group : Dropping(c)) \/ Moving(first)
    BY <1>5 DEF Merging
  <2> HIDE DEF Dropping, Moving
  <2> QED BY <1>3, <2>1, <2>2
<1> QED BY <1>1, <1>4, <1>5 DEF JobIs

(* A step of an operation, which touches the bases in C.                   *)
Touches(C) ==
    /\ C \cap job.group = {} /\ phase = "up" /\ phase' = "up"
    /\ sortFd' = sortFd /\ job' = job /\ chunk' = chunk /\ damaged' = damaged
    /\ \A b \in Bases : b \notin C =>
          /\ data'[b] = data[b] /\ whole'[b] = whole[b]
          /\ index'[b] = index[b] /\ sorted'[b] = sorted[b]
          /\ Settled(b)' = Settled(b) /\ \A i : Busy(b, i) => Busy(b, i)'
    /\ ~damaged => \A b \in C : b \in Found' => Hale(b)'

(* It is enough to look at those bases.                                    *)
LEMMA ClientHale ==
  ASSUME Inv, Unhurt, NEW C, Touches(C)
  PROVE Unhurt'
<1>0. /\ C \cap job.group = {} /\ phase = "up" /\ phase' = "up"
      /\ sortFd' = sortFd /\ job' = job /\ chunk' = chunk /\ damaged' = damaged
      /\ \A b \in Bases : b \notin C =>
            /\ data'[b] = data[b] /\ whole'[b] = whole[b]
            /\ index'[b] = index[b] /\ sorted'[b] = sorted[b]
            /\ Settled(b)' = Settled(b) /\ \A i : Busy(b, i) => Busy(b, i)'
      /\ ~damaged => \A b \in C : b \in Found' => Hale(b)'
  <2> HIDE DEF Settled, Busy, Hale
  <2> QED BY DEF Touches
<1> SUFFICES ASSUME ~damaged PROVE ChunkSound' /\ \A b \in Found' : Hale(b)'
  BY <1>0 DEF Unhurt
<1>1. ChunkSound /\ \A b \in Found : Hale(b)
  BY DEF Unhurt
<1>2. ChunkSound'
  <2>1. ASSUME NEW b \in Bases, job.todo # <<>>, job.todo[1][1] = "rename index",
               job.todo[1][2] = b
        PROVE  data'[b] = data[b] /\ whole'[b] = whole[b]
    <3>1. b \in job.group
      BY <2>1, InJob
    <3> QED BY <1>0, <2>1, <3>1
  <2> QED BY <1>0, <1>1, <2>1 DEF ChunkSound
<1>3. ASSUME NEW b \in Found', b \notin C PROVE Hale(b)'
  <2>1. b \in Bases /\ b \in Found
    BY <1>0, <1>3 DEF Found
  <2>2. Hale(b)
    BY <1>1, <2>1
  <2>3. /\ data'[b] = data[b] /\ whole'[b] = whole[b]
        /\ index'[b] = index[b] /\ sorted'[b] = sorted[b]
        /\ Settled(b)' = Settled(b) /\ \A i : Busy(b, i) => Busy(b, i)'
    BY <1>0, <1>3, <2>1
  <2>4. sorted[b] # NoFile /\ index[b] = NoFile =>
           job'.todo # <<>> /\ job'.todo[1][1] = "link" /\ job'.todo[1][2] = b
    <3> HIDE DEF Sound, Growing, Frozen
    <3> QED BY <1>0, <2>2 DEF Hale
  <2> HIDE DEF Hale, Settled, Busy
  <2> QED BY <1>0, <2>2, <2>3, <2>4, AloneHale
<1> HIDE DEF Hale
<1> QED BY <1>0, <1>2, <1>3

(* What a step may make of the entries of an unsorted index.               *)
Advances(b) ==
    /\ Len(index[b]) >= Settled(b)'
    /\ \A i \in DOMAIN index[b] :
          i <= Settled(b)' /\ ~Busy(b, i)' => i <= Settled(b) /\ ~Busy(b, i)

(* A base whose entries keep their keys and places.                        *)
LEMMA VisibleHale ==
  ASSUME Inv, Inv', NEW b \in Visible, Unhurt, ~damaged, phase = "up", phase' = "up",
         sortFd' = sortFd, job' = job, Longer(b),
         b \in sortFd => /\ SameShape(sorted'[b], sorted[b])
                         /\ index'[b] = index[b],
         b \notin sortFd => /\ SameShape(index'[b], index[b])
                            /\ Advances(b)
  PROVE b \in Found' => Hale(b)'
<1> SUFFICES ASSUME b \in Found' PROVE Hale(b)'
  OBVIOUS
<1>1. Types /\ OpenFiles /\ Types' /\ OpenFiles'
  BY DEF Inv
<1>2. b \in Bases /\ b \in open /\ data[b] \in Seq(Cell) /\ b \notin job.group
  BY <1>1, VisibleIs DEF Visible
<1>3. b \in Found /\ Hale(b)
  BY <1>2, FilesDiffer DEF Found, Unhurt
<1>4. CASE b \in sortFd
  <2> HIDE DEF Hale, Growing, SameShape
  <2> QED BY <1>2, <1>3, <1>4, HaleKept
<1>5. CASE b \notin sortFd
  <2>1. index[b] \in Seq(SoundEntry) /\ sorted[b] = NoFile
    BY <1>1, <1>5, VisibleIs
  <2>2. b \in open' /\ sorted'[b] = NoFile /\ index'[b] \in Seq(SoundEntry)
    <3>1. b \in open' /\ b \notin job'.group /\ b \notin sortFd'
      BY <1>1, <1>2, <1>5 DEF OpenFiles, Serving
    <3>2. sorted'[b] = NoFile /\ index'[b] \notin {NoFile, Linked}
      BY <1>1, <3>1 DEF OpenFiles, Serving
    <3> QED BY <1>1, <1>2, <3>1, <3>2 DEF Types
  <2>3. Growing(b) /\ NoHoles(index[b])
    <3>1. IndexFile(b) = index[b] /\ index[b] # NoFile
      BY <2>1, FilesDiffer DEF IndexFile
    <3> QED BY <1>2, <1>3, <1>5, <3>1 DEF Hale, Sound
  <2>4. NoHoles(index'[b])
    BY <1>5, <2>1, <2>2, <2>3, ShapeIs
  <2>5. Growing(b)'
    <3> HIDE DEF Settled, Busy, SameShape, Growing
    <3> QED BY <1>5, <2>1, <2>2, <2>3, GrowingStays DEF Advances
  <2> HIDE DEF Hale, Growing, SameShape
  <2> QED BY <1>2, <1>3, <1>5, <2>1, <2>2, <2>4, <2>5, HaleKept
<1> QED BY <1>4, <1>5


(* Operations that stay where they are.                                    *)
LEMMA BusyStays ==
  ASSUME NEW b, \A j \in Keys : op[j].base = b => op'[j].base = b /\ op'[j].at = op[j].at
  PROVE \A i : Busy(b, i) => Busy(b, i)'
BY DEF Busy

(* A data file that does not become shorter.                               *)
LEMMA LongerIs ==
  ASSUME NEW b, Len(data[b]) \in Nat, Len(data'[b]) \in Nat, Len(data'[b]) >= Len(data[b]),
         Len(data'[b]) = Len(data[b]) /\ whole[b] => whole'[b]
  PROVE Longer(b)
<1> SUFFICES ASSUME NEW e \in SoundEntry, Within(b, e) PROVE Within(b, e)'
  BY DEF Longer
<1>1. e.pos \in Nat
  BY EntryIs
<1> QED BY <1>1 DEF Within

(* An index that is written to: it has all its entries, and no hole.       *)
LEMMA GrowingIs ==
  ASSUME Inv, Unhurt, ~damaged, phase = "up", NEW b \in Visible
  PROVE /\ b \in Bases /\ b \in open /\ b \notin job.group /\ data[b] \in Seq(Cell)
        /\ Len(data[b]) \in Nat /\ b \in Found /\ Hale(b) /\ Settled(b) \in Nat
        /\ b \notin sortFd => /\ index[b] \in Seq(SoundEntry) /\ Growing(b) /\ NoHoles(index[b])
                              /\ Len(index[b]) \in Nat /\ DOMAIN index[b] = 1 .. Len(index[b])
                              /\ Len(index[b]) >= Settled(b) /\ sorted[b] = NoFile
<1>1. Types /\ OpenFiles /\ OpsAre
  BY DEF Inv
<1>2. /\ b \in Bases /\ b \in open /\ b \notin job.group /\ data[b] \in Seq(Cell)
      /\ b \notin sortFd => index[b] \in Seq(SoundEntry) /\ sorted[b] = NoFile
  BY <1>1, VisibleIs DEF Visible
<1>3. b \in Found /\ Hale(b)
  BY <1>2, FilesDiffer DEF Found, Unhurt
<1>4. Settled(b) \in Nat /\ Len(data[b]) \in Nat
  BY <1>1, <1>2, SettledIs, SeqIs
<1>5. ASSUME b \notin sortFd
      PROVE  /\ Growing(b) /\ NoHoles(index[b]) /\ Len(index[b]) \in Nat
             /\ DOMAIN index[b] = 1 .. Len(index[b])
  <2>1. IndexFile(b) = index[b] /\ index[b] # NoFile
    BY <1>2, <1>5, FilesDiffer DEF IndexFile
  <2>2. Growing(b) /\ NoHoles(index[b])
    BY <1>2, <1>3, <1>5, <2>1 DEF Hale, Sound
  <2> QED BY <1>2, <1>5, <2>2, SeqIs
<1>6. b \notin sortFd => Len(index[b]) >= Settled(b)
  BY <1>5 DEF Growing
<1> HIDE DEF Settled, Growing, Hale
<1> QED BY <1>2, <1>3, <1>4, <1>5, <1>6

(* eblob_remove looks its record up.                                       *)
LEMMA RemoveBeginHale ==
  ASSUME Inv, Unhurt, NEW k \in Keys, RemoveBegin(k)
  PROVE Unhurt'
<1>1. Types /\ OpsAre
  BY DEF Inv
<1>2. PICK l : op' = [op EXCEPT ![k] = [Idle EXCEPT !.pc = "mark", !.old = l]]
  BY DEF RemoveBegin
<1>3. /\ phase = "up" /\ op[k] = Idle
      /\ UNCHANGED <<files, phase, open, sortFd, cache, dataOffset, indexSize, mutex,
                     job, faults, observers>>
  BY DEF RemoveBegin
<1>4. op[k].base = 0 /\ \A j \in Keys : j # k => op'[j] = op[j]
  BY <1>1, <1>2, <1>3, IdleFields DEF Types
<1>5. mutex # k
  <2>1. OpIs(k, op[k])
    BY <1>1 DEF OpsAre
  <2> QED BY <1>3, <2>1, IdleFields DEF OpIs
<1>6. ASSUME NEW b \in Bases PROVE Settled(b)' = Settled(b) /\ \A i : Busy(b, i) => Busy(b, i)'
  <2>1. \A j \in Keys : mutex = j => op'[j].base = op[j].base
    BY <1>4, <1>5
  <2>2. \A j \in Keys : op[j].base = b => op'[j].base = b /\ op'[j].at = op[j].at
    BY <1>4, BaseIs
  <2>3. Settled(b)' = Settled(b)
    BY <1>3, <2>1, SettledSame
  <2>4. \A i : Busy(b, i) => Busy(b, i)'
    BY <2>2, BusyStays
  <2> QED BY <2>3, <2>4
<1>7. /\ phase' = "up" /\ sortFd' = sortFd /\ job' = job /\ chunk' = chunk /\ damaged' = damaged
      /\ data' = data /\ whole' = whole /\ index' = index /\ sorted' = sorted
  BY <1>3 DEF files, observers
<1> HIDE DEF Settled, Busy, Unhurt, Hale
<1>8. Touches({})
  BY <1>3, <1>6, <1>7 DEF Touches
<1> QED BY <1>8, ClientHale

(* err_out_rollback: what it leaves behind is not settled.                 *)
LEMMA RollbackHale ==
  ASSUME Inv, Inv', Unhurt, NEW k \in Keys, Rollback(k)
  PROVE Unhurt'
<1>1. Types /\ OpsAre /\ OpenFiles
  BY DEF Inv
<1>2. PICK o : o = op[k]
  OBVIOUS
<1>3. PICK c : c = o.base
  OBVIOUS
<1>4. /\ mutex = k /\ o.pc \in {"index", "header", "mark"}
      /\ indexSize' = [indexSize EXCEPT ![c] = @ - 1]
      /\ op' = [op EXCEPT ![k] = Idle] /\ mutex' = Nobody
      /\ UNCHANGED <<files, phase, open, sortFd, cache, job, ops, observers>>
  BY <1>2, <1>3 DEF Rollback
<1>5. phase = "up" /\ c \in Visible /\ c \notin sortFd /\ c \in Bases /\ c \notin job.group
  BY <1>1, <1>2, <1>3, <1>4, InHand, VisibleIs DEF Visible
<1>6. \A j \in Keys : j # k => op'[j] = op[j]
  BY <1>1, <1>4 DEF Types
<1>7. /\ indexSize'[c] = indexSize[c] - 1
      /\ \A b \in Bases : b # c => indexSize'[b] = indexSize[b]
  BY <1>1, <1>4, <1>5 DEF Types
<1>8. /\ \A b \in Bases : Settled(b)' = Settled(b) /\ Settled(b) \in Nat
      /\ o.at = Settled(c) + 1
  <2>1. ASSUME NEW b \in Bases PROVE Settled(b)' = Settled(b) /\ Settled(b) \in Nat
    <3>1. Settled(b)' = indexSize'[b]
      BY <1>4, NamesAssumption DEF Settled, Holding
    <3>2. /\ Settled(b) \in Nat
          /\ b = c => Settled(b) = indexSize[b] - 1
          /\ b # c => Settled(b) = indexSize[b]
      BY <1>1, <1>2, <1>3, <1>4, SettledIs
    <3> HIDE DEF Settled
    <3> QED BY <1>7, <3>1, <3>2
  <2>2. o.at = Settled(c) + 1
    BY <1>1, <1>2, <1>3, <1>4, <1>5, SettledIs
  <2> QED BY <2>1, <2>2
<1>9. /\ phase' = "up" /\ sortFd' = sortFd /\ job' = job /\ chunk' = chunk /\ damaged' = damaged
      /\ data' = data /\ whole' = whole /\ index' = index /\ sorted' = sorted
  BY <1>4, <1>5 DEF files, observers
<1>10. ASSUME NEW b \in Bases, b # c PROVE \A i : Busy(b, i) => Busy(b, i)'
  <2>1. \A j \in Keys : op[j].base = b => op'[j].base = b /\ op'[j].at = op[j].at
    BY <1>2, <1>3, <1>6, <1>10
  <2> QED BY <2>1, BusyStays
<1>11. \A i : i # o.at /\ Busy(c, i) => Busy(c, i)'
  BY <1>2, <1>6 DEF Busy
<1> HIDE DEF Settled, Busy
<1>12. ASSUME ~damaged PROVE c \in Found' => Hale(c)'
  <2>1. /\ Len(index[c]) >= Settled(c) /\ DOMAIN index[c] = 1 .. Len(index[c])
        /\ Len(index[c]) \in Nat /\ Len(data[c]) \in Nat
    BY <1>5, <1>12, GrowingIs
  <2>2. Longer(c)
    BY <1>9, <2>1, LongerIs
  <2>3. Advances(c)
    <3>1. \A i \in DOMAIN index[c] : i <= Settled(c) => i # o.at
      BY <1>5, <1>8, <2>1
    <3> QED BY <1>5, <1>8, <1>11, <2>1, <3>1 DEF Advances
  <2>4. SameShape(index'[c], index[c])
    BY <1>9 DEF SameShape
  <2> HIDE DEF Longer, Advances, SameShape, Unhurt, Hale
  <2> QED BY <1>5, <1>9, <1>12, <2>2, <2>3, <2>4, VisibleHale
<1> HIDE DEF Unhurt, Hale
<1>13. Touches({c})
  BY <1>5, <1>8, <1>9, <1>10, <1>12 DEF Touches
<1> QED BY <1>13, ClientHale


(* b->lock is given up: the entry of the write is settled, and the write   *)
(* still in flight.                                                        *)
LEMMA ReleasedAdvances ==
  ASSUME Inv, Unhurt, ~damaged, phase = "up", NEW k \in Keys, Released(k), NEW c, c = op[k].base,
         c \in Visible, c \notin sortFd,
         \A j \in Keys : op'[j].base = op[j].base /\ op'[j].at = op[j].at
  PROVE Advances(c)
<1>1. Types /\ OpsAre
  BY DEF Inv
<1>2. PICK o : o = op[k]
  OBVIOUS
<1>3. OpIs(k, o)
  BY <1>1, <1>2 DEF OpsAre
<1>4. mutex = k /\ o.pc \in {"mark", "markdata"} /\ mutex' = Nobody /\ indexSize' = indexSize
  BY <1>2 DEF Released
<1>5. c \in Bases /\ c # 0
  BY <1>1, VisibleIs, BaseIs DEF Inv
<1>6. o.at <= Len(index[c]) /\ o.at \in Nat
  BY <1>1, <1>2, <1>3, <1>4, <1>5, OpFields DEF OpIs
<1>7. Settled(c)' = indexSize[c] /\ indexSize[c] \in Nat
  BY <1>1, <1>4, <1>5, NamesAssumption DEF Settled, Holding, Types
<1>8. Settled(c) = indexSize[c] - 1 /\ o.at = Settled(c) + 1
  BY <1>1, <1>2, <1>4, <1>5, SettledIs
<1>9. \A i : Busy(c, i)' <=> Busy(c, i)
  BY DEF Busy
<1>10. Busy(c, o.at)
  BY <1>2 DEF Busy
<1>11. DOMAIN index[c] = 1 .. Len(index[c]) /\ Len(index[c]) \in Nat
  BY GrowingIs
<1> HIDE DEF Settled, Busy
<1>12. Len(index[c]) >= Settled(c)'
  BY <1>6, <1>7, <1>8, <1>11
<1>13. ASSUME NEW i \in DOMAIN index[c], i <= Settled(c)', ~Busy(c, i)'
       PROVE  i <= Settled(c) /\ ~Busy(c, i)
  <2>1. ~Busy(c, i) /\ i # o.at
    BY <1>9, <1>10, <1>13
  <2> QED BY <1>7, <1>8, <1>11, <1>13, <2>1
<1> QED BY <1>12, <1>13 DEF Advances

(* An operation goes on without b->lock.                                   *)
LEMMA NothingToMarkHale ==
  ASSUME Inv, Inv', Unhurt, NEW k \in Keys, NothingToMark(k)
  PROVE Unhurt'
<1>1. Types /\ OpsAre /\ OpenFiles
  BY DEF Inv
<1>2. PICK o : o = op[k]
  OBVIOUS
<1>3. PICK c : c = o.base
  OBVIOUS
<1>4. PICK q : q = [o EXCEPT !.pc = "payload"]
  OBVIOUS
<1>5. /\ o.pc = "mark" /\ o.old = NoLoc /\ op' = [op EXCEPT ![k] = q] /\ mutex' = Nobody
      /\ UNCHANGED <<files, phase, open, sortFd, cache, dataOffset, indexSize, job,
                     ops, faults, observers>>
  BY <1>2, <1>4 DEF NothingToMark
<1>6. phase = "up" /\ OpIs(k, o) /\ o \in Ops
  BY <1>2, <1>5, InHand
<1>7. mutex = k
  BY <1>5, <1>6 DEF OpIs
<1>8. c \in Visible /\ c \notin sortFd /\ c \in Bases /\ c \notin job.group
  BY <1>1, <1>2, <1>3, <1>5, <1>7, InHand, VisibleIs DEF Visible
<1>9. q.base = o.base /\ q.at = o.at
  BY <1>4, <1>6 DEF Ops
<1>10. \A j \in Keys : op'[j].base = op[j].base /\ op'[j].at = op[j].at
  BY <1>1, <1>2, <1>5, <1>9 DEF Types
<1>11. /\ phase' = "up" /\ sortFd' = sortFd /\ job' = job /\ chunk' = chunk /\ damaged' = damaged
       /\ data' = data /\ whole' = whole /\ index' = index /\ sorted' = sorted /\ open' = open
       /\ indexSize' = indexSize
  BY <1>5, <1>6 DEF files, observers
<1>12. Released(k)
  BY <1>2, <1>5, <1>6, <1>7, <1>11 DEF Released
<1>13. ASSUME NEW b \in Bases, b # c PROVE Settled(b)' = Settled(b)
  <2>1. Settled(b)' = indexSize[b]
    BY <1>5, <1>11, NamesAssumption DEF Settled, Holding
  <2>2. Settled(b) = indexSize[b]
    BY <1>1, <1>2, <1>3, <1>7, <1>13, SettledIs
  <2> QED BY <2>1, <2>2
<1>14. \A b, i : Busy(b, i) => Busy(b, i)'
  BY <1>10 DEF Busy
<1> HIDE DEF Settled, Busy
<1>15. ASSUME ~damaged PROVE c \in Found' => Hale(c)'
  <2>1. Len(data[c]) \in Nat
    BY <1>6, <1>8, <1>15, GrowingIs
  <2>2. Longer(c)
    BY <1>11, <2>1, LongerIs
  <2>3. Advances(c)
    <3> HIDE DEF Advances, Released, Unhurt
    <3> QED BY <1>2, <1>3, <1>6, <1>8, <1>10, <1>12, <1>15, ReleasedAdvances
  <2>4. SameShape(index'[c], index[c])
    BY <1>11 DEF SameShape
  <2> HIDE DEF Longer, Advances, SameShape, Unhurt, Hale
  <2> QED BY <1>6, <1>8, <1>11, <1>15, <2>2, <2>3, <2>4, VisibleHale
<1> HIDE DEF Unhurt, Hale
<1>16. Touches({c})
  BY <1>6, <1>8, <1>11, <1>13, <1>14, <1>15 DEF Touches
<1> QED BY <1>16, ClientHale

(* An operation whose sizes and places stay the same.                      *)
LEMMA AdvancesSame ==
  ASSUME Inv, Unhurt, ~damaged, phase = "up", NEW b \in Visible, b \notin sortFd,
         Settled(b)' = Settled(b), \A i : Busy(b, i) => Busy(b, i)'
  PROVE Advances(b)
<1>1. Len(index[b]) >= Settled(b)
  BY GrowingIs
<1> HIDE DEF Settled, Busy
<1> QED BY <1>1 DEF Advances

(* The header of a new record makes the data file longer, if anything.     *)
LEMMA WriteHeaderHale ==
  ASSUME Inv, Inv', Unhurt, NEW k \in Keys, WriteHeader(k)
  PROVE Unhurt'
<1>1. Types /\ OpenFiles /\ OpsAre
  BY DEF Inv
<1>2. PICK o : o = op[k]
  OBVIOUS
<1>3. PICK c : c = o.base
  OBVIOUS
<1>4. PICK q : q = [o EXCEPT !.pc = "mark"]
  OBVIOUS
<1>5. PICK x : x = [key |-> k, ver |-> Unwritten, removed |-> FALSE]
  OBVIOUS
<1>6. PICK d : d = WriteAt(data[c], o.pos, x, Blank)
  OBVIOUS
<1>7. /\ o.pc = "header" /\ op' = [op EXCEPT ![k] = q]
      /\ data' = [data EXCEPT ![c] = d]
      /\ whole' = [whole EXCEPT ![c] = @ /\ o.pos <= Len(data[c])]
      /\ UNCHANGED <<index, sorted, chunk, phase, open, sortFd, cache, dataOffset,
                     indexSize, mutex, job, ops, faults, observers>>
  BY <1>2, <1>3, <1>4, <1>5, <1>6 DEF WriteHeader
<1>8. phase = "up" /\ OpIs(k, o) /\ o \in Ops
  BY <1>2, <1>7, InHand
<1>9. mutex = k
  BY <1>7, <1>8 DEF OpIs
<1>10. c \in Visible /\ c \notin sortFd /\ c \notin job.group
  BY <1>2, <1>3, <1>7, <1>9, InHand DEF Visible
<1>11. /\ c \in Bases /\ data[c] \in Seq(Cell) /\ o.pos \in Nat \ {0}
  BY <1>1, <1>2, <1>3, <1>8, <1>9, <1>10, VisibleIs, OpFields DEF OpIs
<1>12. d \in Seq(Cell) /\ Written(d, data[c], o.pos, x, Blank)
  BY <1>5, <1>6, <1>11, CellIs, WriteAtIs
<1>13. /\ Len(d) = IF Len(data[c]) >= o.pos THEN Len(data[c]) ELSE o.pos
       /\ Len(data[c]) \in Nat /\ Len(d) \in Nat
  BY <1>11, <1>12, SeqIs DEF Written
<1>14. q.base = o.base /\ q.at = o.at
  BY <1>4, <1>8 DEF Ops
<1>15. \A j \in Keys : op'[j].base = op[j].base /\ op'[j].at = op[j].at
  BY <1>1, <1>2, <1>7, <1>14 DEF Types
<1>16. \A b : Settled(b)' = Settled(b)
  BY <1>7, <1>15, SettledSame
<1>17. \A b, i : Busy(b, i) => Busy(b, i)'
  BY <1>15 DEF Busy
<1>18. /\ data'[c] = d /\ \A b \in Bases : b # c => data'[b] = data[b] /\ whole'[b] = whole[b]
       /\ whole'[c] = (whole[c] /\ o.pos <= Len(data[c]))
  BY <1>1, <1>7, <1>11 DEF Types
<1>19. Longer(c)
  <2>1. o.pos \in Nat /\ Len(d) >= Len(data[c]) /\ (Len(d) = Len(data[c]) => o.pos <= Len(data[c]))
    BY <1>11, <1>13
  <2>2. whole[c] /\ o.pos <= Len(data[c]) => whole'[c]
    BY <1>18, Zenon
  <2>3. Len(data'[c]) = Len(d)
    BY <1>18
  <2> QED BY <1>13, <2>1, <2>2, <2>3, LongerIs
<1>20. /\ phase' = "up" /\ sortFd' = sortFd /\ job' = job /\ chunk' = chunk /\ damaged' = damaged
       /\ index' = index /\ sorted' = sorted
  BY <1>7, <1>8 DEF observers
<1> HIDE DEF Settled, Busy
<1>21. ASSUME ~damaged PROVE c \in Found' => Hale(c)'
  <2>1. Advances(c)
    BY <1>8, <1>10, <1>16, <1>17, <1>21, AdvancesSame
  <2>2. SameShape(index'[c], index[c])
    BY <1>20 DEF SameShape
  <2> HIDE DEF Longer, Advances, SameShape, Unhurt, Hale
  <2> QED BY <1>8, <1>10, <1>19, <1>20, <1>21, <2>1, <2>2, VisibleHale
<1> HIDE DEF Unhurt, Hale
<1>22. Touches({c})
  BY <1>8, <1>10, <1>16, <1>17, <1>18, <1>20, <1>21 DEF Touches
<1> QED BY <1>22, ClientHale


(* The removed flag in a header changes no length.                         *)
LEMMA MarkDataHale ==
  ASSUME Inv, Inv', Unhurt, NEW k \in Keys, MarkData(k)
  PROVE Unhurt'
<1>1. Types /\ OpenFiles /\ OpsAre
  BY DEF Inv
<1>2. PICK o : o = op[k]
  OBVIOUS
<1>3. PICK l : l = o.old
  OBVIOUS
<1>4. PICK q : q = IF mutex = k THEN [o EXCEPT !.pc = "payload"] ELSE Idle
  OBVIOUS
<1>5. PICK c : c = l.base
  OBVIOUS
<1>6. PICK d : d = IF l.pos \in DOMAIN data[c]
                   THEN [data[c] EXCEPT ![l.pos] = [data[c][l.pos] EXCEPT !.removed = TRUE]]
                   ELSE data[c]
  OBVIOUS
<1>7. /\ o.pc = "markdata" /\ op' = [op EXCEPT ![k] = q]
      /\ data' = IF l.pos \in DOMAIN data[c]
                 THEN [data EXCEPT ![c] = [data[c] EXCEPT ![l.pos] =
                                            [data[c][l.pos] EXCEPT !.removed = TRUE]]]
                 ELSE data
      /\ mutex = k => mutex' = Nobody
      /\ mutex # k => mutex' = mutex
      /\ UNCHANGED <<whole, index, sorted, chunk, phase, open, sortFd, dataOffset,
                     indexSize, job, ops, faults, unsure, damaged>>
  BY <1>2, <1>3, <1>4, <1>5 DEF MarkData
<1>8. phase = "up" /\ OpIs(k, o) /\ o \in Ops
  BY <1>2, <1>7, InHand
<1>9. l \in Location /\ LocIs(l)
  BY <1>1, <1>2, <1>3, <1>7, <1>8, OpFields DEF OpIs
<1>10. c \in Visible /\ c \notin job.group
  BY <1>5, <1>9 DEF LocIs, Visible
<1>11. c \in Bases /\ data[c] \in Seq(Cell) /\ Len(data[c]) \in Nat
  BY <1>1, <1>8, <1>10, VisibleIs, SeqIs
<1>12. Len(d) = Len(data[c])
  BY <1>6, <1>11
<1>13. data'[c] = d /\ \A b \in Bases : b # c => data'[b] = data[b]
  <2>1. data' = [data EXCEPT ![c] = d]
    BY <1>1, <1>6, <1>7, <1>11 DEF Types
  <2> QED BY <1>1, <1>11, <2>1 DEF Types
<1>14. \A b \in Visible : Longer(b)
  <2> SUFFICES ASSUME NEW b \in Visible PROVE Longer(b)
    OBVIOUS
  <2>1. b \in Bases /\ data[b] \in Seq(Cell)
    BY <1>1, <1>8, VisibleIs
  <2>2. Len(data[b]) \in Nat /\ Len(data'[b]) = Len(data[b]) /\ whole'[b] = whole[b]
    BY <1>7, <1>12, <1>13, <2>1, SeqIs
  <2> QED BY <2>2, LongerIs
<1>15. /\ phase' = "up" /\ sortFd' = sortFd /\ job' = job /\ chunk' = chunk /\ damaged' = damaged
       /\ whole' = whole /\ index' = index /\ sorted' = sorted /\ open' = open
       /\ indexSize' = indexSize
  BY <1>7, <1>8
<1>16. op \in [Keys -> Ops] /\ op'[k] = q /\ \A j \in Keys : j # k => op'[j] = op[j]
  BY <1>1, <1>7 DEF Types
<1>17. CASE mutex = k
  <2>1. PICK a : a = o.base
    OBVIOUS
  <2>2. a \in Visible /\ a \notin sortFd /\ a \notin job.group
    BY <1>2, <1>7, <1>17, <2>1, InHand DEF Visible
  <2>3. \A j \in Keys : op'[j].base = op[j].base /\ op'[j].at = op[j].at
    <3>1. q.base = o.base /\ q.at = o.at
      BY <1>4, <1>8, <1>17 DEF Ops
    <3> QED BY <1>2, <1>16, <3>1
  <2>4. Released(k)
    BY <1>2, <1>7, <1>8, <1>15, <1>17 DEF Released
  <2>5. ASSUME NEW b \in Bases, b # a PROVE Settled(b)' = Settled(b)
    <3>1. Settled(b)' = indexSize[b]
      BY <1>7, <1>15, <1>17, NamesAssumption DEF Settled, Holding
    <3>2. Settled(b) = indexSize[b]
      BY <1>1, <1>2, <1>17, <2>1, <2>5, SettledIs
    <3> QED BY <3>1, <3>2
  <2>6. \A b, i : Busy(b, i) => Busy(b, i)'
    BY <2>3 DEF Busy
  <2> HIDE DEF Settled, Busy
  <2>7. ASSUME ~damaged, NEW b \in {a, c} PROVE b \in Found' => Hale(b)'
    <3>1. b \in Visible /\ b \in Bases
      BY <1>1, <1>8, <1>10, <2>2, <2>7, VisibleIs
    <3>2. b \notin sortFd => Advances(b)
      <4> HIDE DEF Advances, Released, Unhurt
      <4>1. CASE b = a
        BY <1>2, <1>8, <2>1, <2>2, <2>3, <2>4, <2>7, <4>1, ReleasedAdvances
      <4>2. CASE b # a
        BY <1>8, <2>5, <2>6, <2>7, <3>1, <4>2, AdvancesSame
      <4> QED BY <4>1, <4>2
    <3>3. SameShape(index'[b], index[b]) /\ SameShape(sorted'[b], sorted[b]) /\ index'[b] = index[b]
      BY <1>15 DEF SameShape
    <3>4. Longer(b)
      BY <1>14, <3>1
    <3> HIDE DEF Longer, Advances, SameShape, Unhurt, Hale
    <3> QED BY <1>8, <1>15, <2>7, <3>1, <3>2, <3>3, <3>4, VisibleHale
  <2> HIDE DEF Unhurt, Hale
  <2>8. Touches({a, c})
    BY <1>8, <1>10, <1>13, <1>15, <2>2, <2>5, <2>6, <2>7 DEF Touches
  <2> QED BY <2>8, ClientHale
<1>18. CASE mutex # k
  <2>1. o.base = 0 /\ q = Idle
    BY <1>4, <1>7, <1>8, <1>18 DEF OpIs
  <2>2. ASSUME NEW b \in Bases PROVE \A i : Busy(b, i) => Busy(b, i)'
    <3>1. \A j \in Keys : op[j].base = b => op'[j].base = b /\ op'[j].at = op[j].at
      BY <1>2, <1>16, <2>1, BaseIs
    <3> QED BY <3>1, BusyStays
  <2>3. \A b : Settled(b)' = Settled(b)
    <3>1. \A j \in Keys : mutex = j => op'[j].base = op[j].base
      BY <1>16, <1>18
    <3> QED BY <1>7, <1>15, <1>18, <3>1, SettledSame
  <2> HIDE DEF Settled, Busy
  <2>4. ASSUME ~damaged PROVE c \in Found' => Hale(c)'
    <3>1. c \notin sortFd => Advances(c)
      BY <1>8, <1>10, <1>11, <2>2, <2>3, <2>4, AdvancesSame
    <3>2. SameShape(index'[c], index[c]) /\ SameShape(sorted'[c], sorted[c]) /\ index'[c] = index[c]
      BY <1>15 DEF SameShape
    <3>3. Longer(c)
      BY <1>10, <1>14
    <3> HIDE DEF Longer, Advances, SameShape, Unhurt, Hale
    <3> QED BY <1>8, <1>10, <1>15, <2>4, <3>1, <3>2, <3>3, VisibleHale
  <2> HIDE DEF Unhurt, Hale
  <2>5. Touches({c})
    BY <1>8, <1>10, <1>13, <1>15, <2>2, <2>3, <2>4 DEF Touches
  <2> QED BY <2>5, ClientHale
<1> QED BY <1>17, <1>18

(* The removed flag of an entry that is there.                             *)
LEMMA MarkIndexHale ==
  ASSUME Inv, Inv', Unhurt, NEW k \in Keys, MarkIndex(k)
  PROVE Unhurt'
<1>1. Types /\ OpenFiles /\ OpsAre
  BY DEF Inv
<1>2. PICK o : o = op[k]
  OBVIOUS
<1>3. PICK l : l = o.old
  OBVIOUS
<1>4. PICK c : c = l.base
  OBVIOUS
<1>5. PICK q : q = [o EXCEPT !.pc = "markdata"]
  OBVIOUS
<1>6. PICK s : s = IndexFd(c)
  OBVIOUS
<1>7. PICK t : t = Marked(s, l.at)
  OBVIOUS
<1>8. /\ o.pc = "mark" /\ l # NoLoc /\ op' = [op EXCEPT ![k] = q]
      /\ UNCHANGED <<data, whole, chunk, phase, open, sortFd, cache, dataOffset,
                     indexSize, mutex, job, ops, faults, acked, damaged>>
  BY <1>2, <1>3, <1>5 DEF MarkIndex
<1>9. phase = "up" /\ OpIs(k, o) /\ o \in Ops
  BY <1>2, <1>8, InHand
<1>10. l \in Location /\ LocIs(l)
  BY <1>1, <1>2, <1>3, <1>8, <1>9, OpFields DEF OpIs
<1>11. c \in Visible /\ c \in Bases /\ c \in open /\ c \notin job.group /\ l.at \in Nat \ {0}
  BY <1>1, <1>4, <1>10, LocFields DEF LocIs, Visible
<1>12. /\ s \in Seq(SoundEntry) /\ data[c] \in Seq(Cell) /\ Len(data[c]) \in Nat /\ Len(s) \in Nat
       /\ c \in sortFd => s = sorted[c]
       /\ c \notin sortFd => s = index[c] /\ sorted[c] = NoFile
  BY <1>1, <1>6, <1>9, <1>11, IndexFdIs, VisibleIs, SeqIs
<1>13. /\ c \in sortFd => sorted' = [sorted EXCEPT ![c] = t] /\ index' = index
       /\ c \notin sortFd => index' = [index EXCEPT ![c] = t] /\ sorted' = sorted
  BY <1>1, <1>2, <1>3, <1>4, <1>7, <1>11, <1>12 DEF MarkIndex, Types
<1>14. /\ \A b \in Bases : b # c => index'[b] = index[b] /\ sorted'[b] = sorted[b]
       /\ c \in sortFd => sorted'[c] = t /\ index'[c] = index[c]
       /\ c \notin sortFd => index'[c] = t
  BY <1>1, <1>11, <1>12, <1>13 DEF Types
<1>15. l.at <= Len(s) => SameShape(t, s)
  BY <1>7, <1>11, <1>12, MarkedIs DEF SameShape
<1>16. \A j \in Keys : op'[j].base = op[j].base /\ op'[j].at = op[j].at
  <2>1. q.base = o.base /\ q.at = o.at
    BY <1>5, <1>9 DEF Ops
  <2> QED BY <1>1, <1>2, <1>8, <2>1 DEF Types
<1>17. \A b : Settled(b)' = Settled(b)
  BY <1>8, <1>16, SettledSame
<1>18. \A b, i : Busy(b, i) => Busy(b, i)'
  BY <1>16 DEF Busy
<1>19. Longer(c)
  BY <1>8, <1>12, LongerIs
<1>20. /\ c \in sortFd => l.at <= Len(s)
       /\ c \notin sortFd => l.at <= Settled(c)
  BY <1>4, <1>10, <1>12 DEF LocIs
<1>21. phase' = "up" /\ sortFd' = sortFd /\ job' = job /\ chunk' = chunk /\ damaged' = damaged
  BY <1>8, <1>9
<1> HIDE DEF Settled, Busy
<1>22. ASSUME ~damaged PROVE c \in Found' => Hale(c)'
  <2>1. c \notin sortFd => Advances(c)
    BY <1>9, <1>11, <1>17, <1>18, <1>22, AdvancesSame
  <2>2. l.at <= Len(s)
    <3>1. c \notin sortFd => Len(index[c]) >= Settled(c) /\ Settled(c) \in Nat
      BY <1>9, <1>11, <1>22, GrowingIs
    <3> QED BY <1>11, <1>12, <1>20, <3>1
  <2>3. /\ c \in sortFd => SameShape(sorted'[c], sorted[c]) /\ index'[c] = index[c]
        /\ c \notin sortFd => SameShape(index'[c], index[c])
    <3> HIDE DEF SameShape
    <3> QED BY <1>12, <1>14, <1>15, <2>2
  <2> HIDE DEF Longer, Advances, SameShape, Unhurt, Hale
  <2> QED BY <1>9, <1>11, <1>19, <1>21, <1>22, <2>1, <2>3, VisibleHale
<1> HIDE DEF Unhurt, Hale
<1>23. Touches({c})
  BY <1>8, <1>9, <1>11, <1>14, <1>17, <1>18, <1>21, <1>22 DEF Touches
<1> QED BY <1>23, ClientHale


(* The entry of a new record comes right behind the settled ones.          *)
LEMMA WriteIndexHale ==
  ASSUME Inv, Inv', Unhurt, NEW k \in Keys, WriteIndex(k)
  PROVE Unhurt'
<1>1. Types /\ OpenFiles /\ OpsAre
  BY DEF Inv
<1>2. PICK o : o = op[k]
  OBVIOUS
<1>3. PICK c : c = o.base
  OBVIOUS
<1>4. PICK q : q = [o EXCEPT !.pc = "header"]
  OBVIOUS
<1>5. PICK x : x = [key |-> k, pos |-> o.pos, removed |-> FALSE]
  OBVIOUS
<1>6. PICK t : t = WriteAt(index[c], o.at, x, Hole)
  OBVIOUS
<1>7. /\ o.pc = "index" /\ op' = [op EXCEPT ![k] = q]
      /\ index' = [index EXCEPT ![c] = t]
      /\ UNCHANGED <<data, whole, sorted, chunk, phase, open, sortFd, cache,
                     dataOffset, indexSize, mutex, job, ops, faults, observers>>
  BY <1>2, <1>3, <1>4, <1>5, <1>6 DEF WriteIndex
<1>8. phase = "up" /\ OpIs(k, o) /\ o \in Ops
  BY <1>2, <1>7, InHand
<1>9. mutex = k
  BY <1>7, <1>8 DEF OpIs
<1>10. c \in Visible /\ c \notin sortFd /\ c \notin job.group
  BY <1>2, <1>3, <1>7, <1>9, InHand DEF Visible
<1>11. /\ c \in Bases /\ data[c] \in Seq(Cell) /\ index[c] \in Seq(SoundEntry) /\ sorted[c] = NoFile
       /\ o.pos \in Nat \ {0} /\ o.at \in Nat \ {0}
  <2>1. /\ c \in Bases /\ data[c] \in Seq(Cell) /\ index[c] \in Seq(SoundEntry) /\ sorted[c] = NoFile
    BY <1>1, <1>8, <1>10, VisibleIs
  <2>2. o.pos \in Nat \ {0} /\ o.at \in Nat \ {0}
    BY <1>1, <1>2, <1>3, <1>8, <1>9, <2>1, OpFields DEF OpIs
  <2> QED BY <2>1, <2>2
<1>12. t \in Seq(SoundEntry) /\ Written(t, index[c], o.at, x, Hole)
  <2>1. x \in SoundEntry /\ Hole \in SoundEntry
    BY <1>5, <1>11, EntryIs
  <2> QED BY <1>6, <1>11, <2>1, WriteAtIs
<1>13. PICK n \in Nat : n = Len(index[c])
  BY <1>11, SeqIs
<1>14. PICK a \in Nat \ {0} : a = o.at
  BY <1>11
<1>15. /\ Len(t) \in Nat /\ DOMAIN t = 1 .. Len(t) /\ DOMAIN index[c] = 1 .. n
       /\ Len(t) = IF n >= a THEN n ELSE a
       /\ t[a] = x /\ x.key = k
       /\ \A j \in 1 .. n : j # a => t[j] = index[c][j]
  BY <1>5, <1>11, <1>12, <1>13, <1>14, SeqIs DEF Written
<1>16. q.base = o.base /\ q.at = o.at
  BY <1>4, <1>8 DEF Ops
<1>17. \A j \in Keys : op'[j].base = op[j].base /\ op'[j].at = op[j].at
  BY <1>1, <1>2, <1>7, <1>16 DEF Types
<1>18. \A b : Settled(b)' = Settled(b)
  BY <1>7, <1>17, SettledSame
<1>19. \A b, i : Busy(b, i)' <=> Busy(b, i)
  BY <1>17 DEF Busy
<1>20. index'[c] = t /\ \A b \in Bases : b # c => index'[b] = index[b]
  BY <1>1, <1>7, <1>11 DEF Types
<1>21. /\ phase' = "up" /\ sortFd' = sortFd /\ job' = job /\ chunk' = chunk /\ damaged' = damaged
       /\ data' = data /\ whole' = whole /\ sorted' = sorted
  BY <1>7, <1>8 DEF observers
<1>22. a = Settled(c) + 1 /\ Settled(c) \in Nat
  BY <1>1, <1>2, <1>3, <1>8, <1>9, <1>11, <1>14, SettledIs DEF OpIs
<1> HIDE DEF Settled, Busy
<1>23. ASSUME ~damaged PROVE c \in Found' => Hale(c)'
  <2> SUFFICES ASSUME c \in Found' PROVE Hale(c)'
    OBVIOUS
  <2>1. c \in Found /\ Hale(c) /\ Growing(c) /\ NoHoles(index[c]) /\ n >= Settled(c)
    BY <1>8, <1>10, <1>13, <1>23, GrowingIs
  <2>2. PICK m \in Nat : m = Settled(c)
    BY <1>22
  <2>3. \A i \in DOMAIN t : i = a \/ (i \in 1 .. n /\ i # a)
    BY <1>13, <1>14, <1>15, <1>22, <2>1, <2>2
  <2>4. NoHoles(t)
    <3>1. k # 0
      BY KeysAssumption
    <3> QED BY <1>15, <2>1, <2>3, <3>1 DEF NoHoles
  <2>5. Growing(c)'
    <3>1. Len(t) >= m
      BY <1>13, <1>14, <1>15, <2>1, <2>2
    <3>2. ASSUME NEW i \in DOMAIN t, i <= m, ~Busy(c, i) PROVE Within(c, t[i])'
      <4>1. i # a
        BY <1>14, <1>15, <1>22, <2>2, <3>2
      <4>2. i \in DOMAIN index[c] /\ t[i] = index[c][i]
        BY <1>15, <2>3, <4>1
      <4>3. Within(c, index[c][i])
        BY <2>1, <2>2, <3>2, <4>2 DEF Growing
      <4>4. Within(c, t[i])
        BY <4>2, <4>3
      <4> QED BY <1>21, <4>4 DEF Within
    <3> QED BY <1>18, <1>19, <1>20, <2>2, <3>1, <3>2 DEF Growing, Within
  <2>6. Longer(c)
    BY <1>21 DEF Longer, Within
  <2> HIDE DEF Longer, Growing, NoHoles, Unhurt, Hale
  <2> QED BY <1>8, <1>10, <1>20, <1>21, <2>1, <2>4, <2>5, <2>6, HaleKept
<1> HIDE DEF Unhurt, Hale
<1>24. Touches({c})
  BY <1>8, <1>10, <1>18, <1>19, <1>20, <1>21, <1>23 DEF Touches
<1> QED BY <1>24, ClientHale


(* The footer: from now on the record is complete.                         *)
LEMMA WriteCommitHale ==
  ASSUME Inv, Inv', Unhurt, NEW k \in Keys, WriteCommit(k)
  PROVE Unhurt'
<1>1. Types /\ OpenFiles /\ OpsAre
  BY DEF Inv
<1>2. PICK o : o = op[k]
  OBVIOUS
<1>3. PICK c : c = o.base
  OBVIOUS
<1>4. PICK x : x = [key |-> k, pos |-> o.pos, removed |-> FALSE]
  OBVIOUS
<1>5. PICK y : y = [key |-> k, ver |-> o.ver, removed |-> FALSE]
  OBVIOUS
<1>6. PICK t : t = [index[c] EXCEPT ![o.at] = x]
  OBVIOUS
<1>7. PICK d : d = [data[c] EXCEPT ![o.pos] = y]
  OBVIOUS
<1>8. /\ o.pc = "payload" /\ op' = [op EXCEPT ![k] = Idle]
      /\ data' = [data EXCEPT ![c] = d] /\ index' = [index EXCEPT ![c] = t]
      /\ whole' = [whole EXCEPT ![c] = @ \/ o.pos = Len(data[c])]
      /\ UNCHANGED <<sorted, chunk, phase, open, sortFd, dataOffset, indexSize, mutex,
                     job, ops, faults, unsure, damaged>>
  <2>1. data' = [data EXCEPT ![c] = [data[c] EXCEPT ![o.pos] = y]]
    BY <1>2, <1>3, <1>5 DEF WriteCommit
  <2>2. index' = [index EXCEPT ![c] = [index[c] EXCEPT ![o.at] = x]]
    BY <1>2, <1>3, <1>4 DEF WriteCommit
  <2> QED BY <1>2, <1>3, <1>6, <1>7, <2>1, <2>2 DEF WriteCommit
<1>9. phase = "up" /\ OpIs(k, o) /\ o \in Ops
  BY <1>2, <1>8, InHand
<1>10. /\ mutex # k /\ c \in open \ (sortFd \cup job.group) /\ o.at # 0 /\ o.pos # 0
       /\ o.at <= Len(index[c]) /\ o.pos <= Len(data[c])
  BY <1>3, <1>8, <1>9 DEF OpIs
<1>11. c \in Visible /\ c \notin sortFd /\ c \notin job.group
  BY <1>10 DEF Visible
<1>12. /\ c \in Bases /\ data[c] \in Seq(Cell) /\ index[c] \in Seq(SoundEntry) /\ sorted[c] = NoFile
       /\ o.pos \in Nat \ {0} /\ o.at \in Nat \ {0}
  <2>1. /\ c \in Bases /\ data[c] \in Seq(Cell) /\ index[c] \in Seq(SoundEntry) /\ sorted[c] = NoFile
    BY <1>1, <1>9, <1>11, VisibleIs
  <2>2. o.pos \in Nat \ {0} /\ o.at \in Nat \ {0}
    BY <1>1, <1>2, <1>10, OpFields
  <2> QED BY <2>1, <2>2
<1>13. PICK n \in Nat : n = Len(index[c])
  BY <1>12, SeqIs
<1>14. PICK m \in Nat : m = Len(data[c])
  BY <1>12, SeqIs
<1>15. DOMAIN index[c] = 1 .. n /\ o.at \in 1 .. n /\ o.pos <= m
  BY <1>10, <1>12, <1>13, <1>14, SeqIs
<1>16. /\ DOMAIN t = DOMAIN index[c] /\ t[o.at] = x /\ x.key = k /\ x.pos = o.pos
       /\ \A i \in 1 .. n : i # o.at => t[i] = index[c][i]
  BY <1>4, <1>6, <1>12, <1>15
<1>17. Len(t) = n /\ Len(d) = m
  BY <1>6, <1>7, <1>12, <1>13, <1>14
<1>18. op'[k] = Idle /\ \A j \in Keys : j # k => op'[j] = op[j]
  BY <1>1, <1>8 DEF Types
<1>19. /\ index'[c] = t /\ data'[c] = d
       /\ \A b \in Bases : b # c => /\ index'[b] = index[b] /\ data'[b] = data[b]
                                    /\ whole'[b] = whole[b]
       /\ whole'[c] = (whole[c] \/ o.pos = Len(data[c]))
  BY <1>1, <1>8, <1>12 DEF Types
<1>20. /\ whole[c] => whole'[c]
       /\ o.pos = m => whole'[c]
  BY <1>14, <1>19, Zenon
<1>21. \A b : Settled(b)' = Settled(b)
  <2>1. \A j \in Keys : mutex = j => op'[j].base = op[j].base
    BY <1>10, <1>18
  <2> QED BY <1>8, <2>1, SettledSame
<1>22. ASSUME NEW b \in Bases, b # c PROVE \A i : Busy(b, i) => Busy(b, i)'
  <2>1. \A j \in Keys : op[j].base = b => op'[j].base = b /\ op'[j].at = op[j].at
    BY <1>2, <1>3, <1>18, <1>22
  <2> QED BY <2>1, BusyStays
<1>23. \A i : i # o.at /\ Busy(c, i) => Busy(c, i)'
  BY <1>2, <1>18 DEF Busy
<1>24. /\ phase' = "up" /\ sortFd' = sortFd /\ job' = job /\ chunk' = chunk /\ damaged' = damaged
       /\ sorted' = sorted
  BY <1>8, <1>9
<1>25. Longer(c)
  <2>1. Len(data'[c]) = m /\ Len(data[c]) = m
    BY <1>14, <1>17, <1>19
  <2> QED BY <1>14, <1>20, <2>1, LongerIs
<1> HIDE DEF Settled, Busy
<1>26. ASSUME ~damaged PROVE c \in Found' => Hale(c)'
  <2> SUFFICES ASSUME c \in Found' PROVE Hale(c)'
    OBVIOUS
  <2>1. c \in Found /\ Hale(c) /\ Growing(c) /\ NoHoles(index[c]) /\ n >= Settled(c)
    BY <1>9, <1>11, <1>13, <1>26, GrowingIs
  <2>2. NoHoles(t)
    <3>1. k # 0
      BY KeysAssumption
    <3> QED BY <1>15, <1>16, <2>1, <3>1 DEF NoHoles
  <2>3. Growing(c)'
    <3>1. ASSUME NEW i \in DOMAIN t, i <= Settled(c), ~Busy(c, i)' PROVE Within(c, t[i])'
      <4>1. CASE i = o.at
        <5>1. t[i].pos = o.pos /\ Len(data'[c]) = m
          BY <1>16, <1>17, <1>19, <4>1
        <5>2. PICK e : e = t[i]
          OBVIOUS
        <5>3. Within(c, e)'
          BY <1>12, <1>14, <1>15, <1>20, <5>1, <5>2 DEF Within
        <5> QED BY <5>2, <5>3
      <4>2. CASE i # o.at
        <5>1. i \in DOMAIN index[c] /\ t[i] = index[c][i] /\ t[i] \in SoundEntry
          BY <1>12, <1>15, <1>16, <4>2, SeqIs
        <5>2. PICK e \in SoundEntry : e = t[i]
          BY <5>1
        <5>3. Within(c, e)
          BY <1>23, <2>1, <3>1, <4>2, <5>1, <5>2 DEF Growing
        <5>4. Within(c, e)'
          BY <1>25, <5>3 DEF Longer
        <5> QED BY <5>2, <5>4
      <4> QED BY <4>1, <4>2
    <3> QED BY <1>17, <1>19, <1>21, <2>1, <3>1 DEF Growing, Within
  <2> HIDE DEF Longer, Growing, NoHoles, Unhurt, Hale
  <2> QED BY <1>9, <1>11, <1>19, <1>24, <1>25, <2>1, <2>2, <2>3, HaleKept
<1> HIDE DEF Unhurt, Hale
<1>27. Touches({c})
  BY <1>8, <1>9, <1>11, <1>19, <1>21, <1>22, <1>24, <1>26 DEF Touches
<1> QED BY <1>27, ClientHale

(* eblob_write_prepare_disk_ll: a new base is empty, and what is behind    *)
(* the settled entries of the last one belongs to nobody.                  *)
LEMMA WriteBeginHale ==
  ASSUME Inv, Inv', Unhurt, NEW k \in Keys, WriteBegin(k)
  PROVE Unhurt'
<1>1. Types /\ OpenFiles /\ OpsAre
  BY DEF Inv
<1>2. PICK b : b = IF NeedBase THEN NewBase ELSE LastBase
  OBVIOUS
<1>3. PICK fresh \in BOOLEAN : fresh = NeedBase
  BY DEF NeedBase
<1>4. PICK l : op' = [op EXCEPT ![k] = [pc |-> "index", ver |-> ops', base |-> b,
                            at |-> indexSize'[b], pos |-> dataOffset'[b], old |-> l]]
  BY <1>2 DEF WriteBegin
<1>5. /\ phase = "up" /\ op[k] = Idle /\ mutex = Nobody /\ b \in Bases
      /\ data' = [data EXCEPT ![b] = Created(data[b])]
      /\ index' = [index EXCEPT ![b] = Created(index[b])]
      /\ indexSize' = [indexSize EXCEPT ![b] = indexSize[b] + 1]
      /\ mutex' = k /\ open' = open \cup {b}
      /\ UNCHANGED <<whole, sorted, chunk, phase, sortFd, cache, job, faults, observers>>
  BY <1>2 DEF WriteBegin
<1>6. Target(b, fresh)
  BY <1>2, <1>3, <1>5, TargetIs
<1>7. job.group = {} /\ Visible = open
  BY <1>5, NoSorter, NamesAssumption
<1>8. /\ \A x \in Bases : x # b => /\ data'[x] = data[x] /\ index'[x] = index[x]
                                   /\ indexSize'[x] = indexSize[x]
      /\ indexSize'[b] = indexSize[b] + 1
      /\ data'[b] = Created(data[b]) /\ index'[b] = Created(index[b])
  BY <1>1, <1>5 DEF Types
<1>9. op'[k].base = b /\ op[k].base = 0 /\ \A j \in Keys : j # k => op'[j] = op[j]
  BY <1>1, <1>4, <1>5, IdleFields DEF Types
<1>10. \A x \in Bases : Settled(x)' = indexSize[x] /\ Settled(x) = indexSize[x]
  <2> SUFFICES ASSUME NEW x \in Bases
               PROVE  Settled(x)' = indexSize[x] /\ Settled(x) = indexSize[x]
    OBVIOUS
  <2>1. indexSize[x] \in Nat /\ Settled(x) = indexSize[x]
    BY <1>1, <1>5, FileIs, SettledIs, NamesAssumption
  <2>2. Holding(x)' <=> x = b
    BY <1>5, <1>9 DEF Holding
  <2>3. Settled(x)' = indexSize[x]
    BY <1>8, <2>1, <2>2 DEF Settled
  <2> QED BY <2>1, <2>3
<1>11. \A x \in Bases : \A i : Busy(x, i) => Busy(x, i)'
  <2> SUFFICES ASSUME NEW x \in Bases PROVE \A i : Busy(x, i) => Busy(x, i)'
    OBVIOUS
  <2>1. \A j \in Keys : op[j].base = x => op'[j].base = x /\ op'[j].at = op[j].at
    BY <1>9, BaseIs
  <2> QED BY <2>1, BusyStays
<1>12. /\ phase' = "up" /\ sortFd' = sortFd /\ job' = job /\ chunk' = chunk /\ damaged' = damaged
       /\ sorted' = sorted /\ whole' = whole
  BY <1>5 DEF observers
<1> HIDE DEF Settled, Busy
<1>13. ASSUME ~damaged PROVE b \in Found' => Hale(b)'
  <2>1. CASE fresh
    <3>1. index'[b] = <<>> /\ sorted'[b] = NoFile /\ b \notin sortFd /\ indexSize[b] = 0
      BY <1>1, <1>5, <1>6, <1>8, <2>1 DEF Target, Created, Types
    <3>2. IndexFile(b)' = <<>>
      <4>1. <<>> \in Seq(SoundEntry)
        OBVIOUS
      <4> QED BY <3>1, <4>1, FilesDiffer DEF IndexFile
    <3>3. Sound(b)'
      BY <3>1, <3>2 DEF Sound, NoHoles
    <3>4. Growing(b)'
      BY <1>5, <1>10, <3>1 DEF Growing
    <3> HIDE DEF Sound, Growing, Frozen
    <3> QED BY <1>7, <1>12, <3>1, <3>3, <3>4 DEF Hale
  <2>2. CASE ~fresh
    <3>1. data'[b] = data[b] /\ index'[b] = index[b] /\ b \in Visible /\ b \notin sortFd
      BY <1>5, <1>6, <1>7, <1>8, <2>2, FilesDiffer DEF Target, Created
    <3>2. Longer(b) /\ SameShape(index'[b], index[b])
      BY <1>12, <3>1 DEF Longer, Within, SameShape
    <3>3. Advances(b)
      BY <1>5, <1>10, <1>11, <1>13, <3>1, AdvancesSame
    <3> HIDE DEF Longer, Advances, SameShape, Unhurt, Hale
    <3> QED BY <1>5, <1>12, <1>13, <3>1, <3>2, <3>3, VisibleHale
  <2> QED BY <2>1, <2>2
<1> HIDE DEF Unhurt, Hale
<1>14. Touches({b})
  BY <1>5, <1>7, <1>8, <1>10, <1>11, <1>12, <1>13 DEF Touches
<1> QED BY <1>14, ClientHale


(* A base that the sorter may take has no operation in flight: all its     *)
(* records are complete.                                                   *)
LEMMA OldHale ==
  ASSUME Inv, Unhurt, ~damaged, SorterFree, open # {}, NEW b \in Old
  PROVE b \in Found /\ Sound(b) /\ Frozen(b) /\ index[b] # NoFile
<1>1. Types /\ OpenFiles /\ OpsAre /\ Unsorteds
  BY DEF Inv
<1>2. /\ phase = "up" /\ mutex = Nobody /\ job.group = {} /\ Visible = open
      /\ b \in open /\ b # LastBase
      /\ \A k \in Keys : op[k].base # b
  BY OldIs
<1>3. b \in Found /\ b \in Bases /\ Hale(b) /\ Sound(b)
  BY <1>2, GrowingIs DEF Hale
<1>4. index[b] # NoFile
  BY <1>1, <1>2 DEF OpenFiles, Serving
<1>5. Frozen(b)
  <2>1. CASE b \in sortFd
    BY <1>3, <2>1 DEF Hale
  <2>2. CASE b \notin sortFd
    <3>1. /\ Growing(b) /\ index[b] \in Seq(SoundEntry) /\ Len(index[b]) \in Nat
          /\ DOMAIN index[b] = 1 .. Len(index[b])
      BY <1>2, <2>2, GrowingIs
    <3>2. Settled(b) = Len(index[b])
      <4>1. Settled(b) = indexSize[b]
        BY <1>1, <1>2, <1>3, SettledIs, NamesAssumption
      <4>2. Len(index[b]) = indexSize[b]
        BY <1>1, <1>2, <2>2 DEF Unsorteds
      <4> QED BY <4>1, <4>2
    <3>3. IndexFile(b) = index[b]
      BY <3>1, FilesDiffer DEF IndexFile
    <3>4. \A i : ~Busy(b, i)
      BY <1>2 DEF Busy
    <3> HIDE DEF Settled, Busy
    <3>5. \A i \in DOMAIN index[b] : Within(b, index[b][i])
      BY <3>1, <3>2, <3>4 DEF Growing
    <3> QED BY <3>3, <3>5 DEF Frozen, AllWithin
  <2> QED BY <2>1, <2>2
<1> QED BY <1>3, <1>4, <1>5

(* The sorter takes a group of bases.                                      *)
LEMMA TakenHale ==
  ASSUME Inv, Unhurt, NEW g, Takes(g), damaged' = damaged, ~damaged => ChunkSound'
  PROVE Unhurt'
<1> SUFFICES ASSUME ~damaged PROVE phase' # "failed" /\ \A b \in Found' : Hale(b)'
  BY DEF Unhurt
<1>1. Types /\ OpenFiles /\ OpsAre
  BY DEF Inv
<1>2. /\ SorterFree /\ open # {} /\ g \subseteq Old /\ sortFd' \ g = sortFd \ g
      /\ job'.group = g /\ mutex' = Sorter /\ phase' = phase /\ op' = op
      /\ data' = data /\ whole' = whole /\ index' = index /\ sorted' = sorted
      /\ \A b \in Bases : b \notin g => indexSize'[b] = indexSize[b]
  BY DEF Takes
<1>3. phase = "up" /\ phase' = "up" /\ mutex = Nobody /\ job.todo = <<>> /\ job.group = {}
  <2>1. job.group = {}
    BY <1>2, NoSorter, NamesAssumption DEF SorterFree
  <2> QED BY <1>2, <2>1 DEF SorterFree
<1>4. Found' = Found /\ \A b \in Found : b \in Bases /\ Hale(b)
  BY <1>2 DEF Found, Unhurt
<1>5. ASSUME NEW b \in Found, b \in g PROVE Hale(b)'
  <2>1. Sound(b) /\ Frozen(b) /\ index[b] # NoFile
    BY <1>2, <1>5, OldHale
  <2>2. Sound(b)' /\ Frozen(b)'
    BY <1>2, <2>1 DEF Sound, Frozen, AllWithin, Within, IndexFile, NoHoles
  <2> HIDE DEF Sound, Frozen, Growing
  <2> QED BY <1>2, <1>3, <1>5, <2>1, <2>2 DEF Hale
<1>6. ASSUME NEW b \in Found, b \notin g PROVE Hale(b)'
  <2>1. Settled(b)' = Settled(b)
    <3>1. Settled(b)' = indexSize'[b] /\ Settled(b) = indexSize[b]
      BY <1>2, <1>3, NamesAssumption DEF Settled, Holding
    <3> QED BY <1>2, <1>4, <1>6, <3>1
  <2>2. \A i : Busy(b, i) => Busy(b, i)'
    BY <1>2 DEF Busy
  <2>3. ~(sorted[b] # NoFile /\ index[b] = NoFile)
    BY <1>3, <1>4 DEF Hale
  <2>4. b \in sortFd' \cup job'.group <=> b \in sortFd \cup job.group
    BY <1>2, <1>3, <1>6
  <2> HIDE DEF Settled, Busy, Hale
  <2> QED BY <1>2, <1>3, <1>4, <2>1, <2>2, <2>3, <2>4, AloneHale
<1> QED BY <1>3, <1>4, <1>5, <1>6

(* eblob_base_remove begins.                                               *)
LEMMA RemoveBaseHale ==
  ASSUME Inv, Unhurt, NEW b \in Bases, RemoveBase(b)
  PROVE Unhurt'
<1>1. damaged' = damaged /\ chunk' = chunk /\ SorterFree
  BY DEF RemoveBase, observers, files
<1>2. chunk = NoFile
  BY <1>1 DEF Inv, JobIs, SorterFree
<1>3. ChunkSound'
  BY <1>1, <1>2 DEF ChunkSound
<1>4. Takes({b})
  <2>1. job'.group = {b} /\ open' = open \ {b} /\ sortFd' = sortFd \ {b}
    BY DEF RemoveBase
  <2> QED BY <2>1 DEF RemoveBase, Removable, Takes, files
<1> HIDE DEF Takes, Unhurt
<1> QED BY <1>1, <1>3, <1>4, TakenHale

(* A data sort has made its result.                                        *)
LEMMA SwapBeginHale ==
  ASSUME Inv, Unhurt, NEW g \in SUBSET Bases, SwapBegin(g)
  PROVE Unhurt'
<1>1. PICK ch : ch = Chunk(g)
  OBVIOUS
<1>2. PICK u : u = UnlinkCalls(Min(g))
  OBVIOUS
<1>3. /\ damaged' = damaged /\ chunk' = ch /\ SorterFree /\ open # {} /\ g \subseteq Old
      /\ Copyable(g) /\ job' = [group |-> g, left |-> g \ {Min(g)}, todo |-> u]
  BY <1>1, <1>2 DEF SwapBegin, observers
<1>4. /\ Len(ch.cells) = Len(ch.entries)
      /\ \A i \in DOMAIN ch.entries : ch.entries[i].key # 0 /\ ch.entries[i].pos <= Len(ch.entries)
  BY <1>1, <1>3, ChunkIs
<1>5. job'.todo[1][1] = "unlink data"
  BY <1>2, <1>3 DEF UnlinkCalls
<1>6. ChunkSound'
  BY <1>3, <1>4, <1>5 DEF ChunkSound
<1>7. Takes(g)
  <2>1. PICK first : first = Min(g)
    OBVIOUS
  <2>2. PICK n : n = Cardinality(Copied(g))
    OBVIOUS
  <2>3. /\ open' = open \ (g \ {first}) /\ sortFd' = (sortFd \ g) \cup {first}
        /\ indexSize' = [indexSize EXCEPT ![first] = n]
        /\ dataOffset' = [dataOffset EXCEPT ![first] = n]
        /\ mutex' = Sorter /\ g # {}
        /\ UNCHANGED <<data, whole, index, sorted, phase, op>>
    BY <2>1, <2>2 DEF SwapBegin
  <2>4. first \in g
    BY <2>1, <2>3, FirstIs
  <2>5. indexSize \in [Bases -> Nat] /\ dataOffset \in [Bases -> Nat] /\ job'.group = g
    BY <1>3 DEF Inv, Types
  <2> QED BY <1>3, <2>3, <2>4, <2>5 DEF Takes
<1> HIDE DEF Takes, Unhurt
<1> QED BY <1>3, <1>6, <1>7, TakenHale

(* eblob_generate_sorted_index.                                            *)
LEMMA IndexSortHale ==
  ASSUME Inv, Unhurt, NEW b \in Bases, IndexSort(b)
  PROVE Unhurt'
<1>1. Types /\ OpenFiles /\ OpsAre
  BY DEF Inv
<1>2. PICK t : t = SortedByKey(IndexFile(b))
  OBVIOUS
<1>3. /\ SorterFree /\ open # {} /\ b \in Old /\ b \notin sortFd
      /\ sorted' = [sorted EXCEPT ![b] = t] /\ sortFd' = sortFd \cup {b}
      /\ UNCHANGED <<data, whole, index, chunk, phase, open, dataOffset, indexSize,
                     op, mutex, job, ops, faults, observers>>
  BY <1>2 DEF IndexSort
<1>4. /\ phase = "up" /\ job.todo = <<>> /\ job.group = {} /\ Visible = open
      /\ b \in open /\ index[b] \in Seq(SoundEntry)
  BY <1>3, OldIs DEF SorterFree
<1>5. IndexFile(b) = index[b] /\ index[b] # NoFile /\ index[b] # Linked
  BY <1>4, FilesDiffer DEF IndexFile
<1>6. /\ t \in Seq(SoundEntry) /\ Len(t) = Len(index[b])
      /\ \A i \in 1 .. Len(t) : \E j \in 1 .. Len(index[b]) : t[i] = index[b][j]
  <2>1. PICK s \in Seq(SoundEntry) : s = index[b]
    BY <1>4
  <2>2. t = SortedByKey(s)
    BY <1>2, <1>5, <2>1
  <2>3. t \in Seq(SoundEntry) /\ SameEntries(t, s)
    BY <2>2, SortedIs
  <2> QED BY <2>1, <2>3 DEF SameEntries
<1>7. sorted'[b] = t /\ \A x \in Bases : x # b => sorted'[x] = sorted[x]
  BY <1>1, <1>3 DEF Types
<1>8. phase' = "up" /\ damaged' = damaged /\ job' = job
  BY <1>3, <1>4 DEF observers
<1>9. DOMAIN t = 1 .. Len(t) /\ DOMAIN index[b] = 1 .. Len(index[b])
  BY <1>4, <1>6, SeqIs
<1> SUFFICES ASSUME ~damaged PROVE ChunkSound' /\ \A x \in Found' : Hale(x)'
  BY <1>8 DEF Unhurt
<1>10. ChunkSound'
  <2>1. chunk = NoFile
    BY <1>4 DEF Inv, JobIs
  <2> QED BY <1>3, <2>1 DEF ChunkSound
<1>11. Found' = Found /\ \A x \in Found : x \in Bases /\ Hale(x)
  BY <1>3 DEF Found, Unhurt
<1>12. Hale(b)'
  <2>1. NoHoles(index[b]) /\ AllWithin(b, index[b])
    BY <1>3, <1>5, OldHale DEF Sound, Frozen
  <2>2. NoHoles(t) /\ AllWithin(b, t)
    BY <1>6, <1>9, <2>1 DEF NoHoles, AllWithin
  <2>3. IndexFile(b)' = index[b]
    BY <1>3, <1>5 DEF IndexFile
  <2>4. Sound(b)' /\ Frozen(b)'
    BY <1>3, <1>7, <2>1, <2>2, <2>3 DEF Sound, Frozen, NoHoles, AllWithin, Within
  <2>5. b \in sortFd' /\ index'[b] # NoFile
    BY <1>3, <1>5
  <2> HIDE DEF Sound, Frozen, Growing
  <2> QED BY <1>8, <2>4, <2>5 DEF Hale
<1>13. ASSUME NEW x \in Found, x # b PROVE Hale(x)'
  <2>1. Settled(x)' = Settled(x) /\ \A i : Busy(x, i) => Busy(x, i)'
    BY <1>3 DEF Settled, Holding, Busy
  <2>2. ~(sorted[x] # NoFile /\ index[x] = NoFile)
    BY <1>4, <1>11 DEF Hale
  <2>3. x \in sortFd' \cup job'.group <=> x \in sortFd \cup job.group
    BY <1>3, <1>13
  <2> HIDE DEF Settled, Busy, Hale
  <2> QED BY <1>3, <1>4, <1>7, <1>8, <1>11, <1>13, <2>1, <2>2, <2>3, AloneHale
<1> HIDE DEF Hale
<1> QED BY <1>10, <1>11, <1>12, <1>13


(* A system call of the sorter, in its place among the others.             *)
Calling(u, c) ==
    /\ Call(u, c) /\ u \in Calls /\ c \in job.group /\ c \in Bases
    /\ job.todo # <<>> /\ job.todo[1][1] = u /\ job.todo[1][2] = c
    /\ u \in {"unlink data", "unlink index", "unlink sorted"} => data'[c] = NoFile
    /\ u \in {"rename data", "rename index", "link"} => index[c] = NoFile /\ chunk # NoFile
    /\ u = "rename data" => sorted[c] = NoFile
    /\ u = "rename index" =>
          job'.todo # <<>> /\ job'.todo[1][1] = "link" /\ job'.todo[1][2] = c
    /\ u = "link" => sorted[c] # NoFile
    /\ job'.todo # <<>> /\ job'.todo[1][1] = "rename index" =>
          u = "rename data" /\ job'.todo[1][2] = c

(* The files of the sorter's group stay its own until all of them are in   *)
(* their last place.                                                       *)
LEMMA GroupStays ==
  ASSUME Inv, Inv', DiskStep
  PROVE \A b \in Found' : b \in sortFd' \cup job'.group <=> b \in sortFd \cup job.group
<1> SUFFICES ASSUME NEW b \in Found'
             PROVE  b \in sortFd' \cup job'.group <=> b \in sortFd \cup job.group
  OBVIOUS
<1>1. job.todo # <<>> /\ sortFd' = sortFd /\ open' = open /\ job' = NextJob /\ phase' = phase
  BY DEF DiskStep
<1>2. phase = "up" /\ ((\E first \in {Min(job.group)} : Merging(first)) \/ Removing)
  BY <1>1 DEF Inv, JobIs, Resting, NoJob
<1>3. job'.group = job.group \/ job' = NoJob
  BY <1>1 DEF NextJob, Inv, Types
<1>4. ASSUME job' = NoJob, b \in job.group PROVE b \in sortFd
  <2>1. b \in open
    BY <1>1, <1>2, <1>4 DEF Inv, OpenFiles, Serving, NoJob
  <2>2. CASE Removing
    BY <1>4, <2>1, <2>2 DEF Removing
  <2>3. CASE \E first \in {Min(job.group)} : Merging(first)
    BY <1>4, <2>1, <2>3 DEF Merging
  <2> QED BY <1>2, <2>2, <2>3
<1> QED BY <1>1, <1>3, <1>4 DEF NoJob

(* What one system call of the sorter leaves.                              *)
LEMMA CallingHale ==
  ASSUME Inv, Inv', Unhurt, DiskStep, NEW u, NEW c, Calling(u, c)
  PROVE Unhurt'
<1>1. /\ phase' = phase /\ sortFd' = sortFd /\ op' = op /\ indexSize' = indexSize
      /\ damaged' = damaged /\ mutex' \in {mutex, Nobody} /\ job.todo # <<>>
  BY DEF DiskStep, observers
<1>2. phase = "up" /\ phase' = "up" /\ mutex = Sorter
  BY <1>1 DEF Inv, JobIs, Resting, NoJob
<1>3. /\ Call(u, c) /\ u \in Calls /\ c \in job.group /\ c \in Bases
      /\ job.todo[1][1] = u /\ job.todo[1][2] = c
  BY DEF Calling
<1> SUFFICES ASSUME ~damaged PROVE ChunkSound' /\ \A b \in Found' : Hale(b)'
  BY <1>1, <1>2 DEF Unhurt
<1>4. ChunkSound /\ \A b \in Found : Hale(b)
  BY DEF Unhurt
<1>5. \A b \in Found' : b \in sortFd' \cup job'.group <=> b \in sortFd \cup job.group
  BY GroupStays
<1>6. ChunkSound'
  <2> SUFFICES ASSUME chunk' # NoFile PROVE ChunkSound'
    BY DEF ChunkSound
  <2>1. chunk' = chunk
    BY <1>3 DEF Call
  <2>2. /\ Len(chunk.cells) = Len(chunk.entries)
        /\ \A i \in DOMAIN chunk.entries :
              chunk.entries[i].key # 0 /\ chunk.entries[i].pos <= Len(chunk.entries)
    BY <1>4, <2>1 DEF ChunkSound
  <2>3. ASSUME NEW b \in Bases, job'.todo # <<>>, job'.todo[1][1] = "rename index",
               job'.todo[1][2] = b
        PROVE  Len(data'[b]) = Len(chunk.cells) /\ whole'[b]
    <3>1. u = "rename data" /\ b = c
      BY <2>3 DEF Calling
    <3> QED BY <1>3, <3>1 DEF Call
  <2> QED BY <2>1, <2>2, <2>3 DEF ChunkSound
<1>7. ASSUME NEW b \in Found', b # c PROVE Hale(b)'
  <2>1. b \in Found /\ b \in Bases /\ data'[b] = data[b] /\ whole'[b] = whole[b]
        /\ index'[b] = index[b] /\ sorted'[b] = sorted[b]
    BY <1>3, <1>7 DEF Call, Found
  <2>2. Settled(b)' = Settled(b) /\ \A i : Busy(b, i) => Busy(b, i)'
    BY <1>1, <1>2, NamesAssumption DEF Settled, Holding, Busy
  <2>3. ~(sorted[b] # NoFile /\ index[b] = NoFile)
    BY <1>3, <1>4, <1>7, <2>1 DEF Hale
  <2> HIDE DEF Settled, Busy, Hale
  <2> QED BY <1>2, <1>4, <1>5, <2>1, <2>2, <2>3, AloneHale
<1>8. ASSUME c \in Found' PROVE Hale(c)'
  <2>1. c \in sortFd' \cup job'.group /\ data'[c] # NoFile
    BY <1>3, <1>5, <1>8 DEF Found
  <2>2. u \in {"rename data", "rename index", "link"} /\ index[c] = NoFile /\ chunk # NoFile
    BY <1>3, <2>1 DEF Calling, Calls
  <2> HIDE DEF Growing
  <2>3. CASE u = "rename data"
    <3>1. index'[c] = NoFile /\ sorted'[c] = NoFile
      BY <1>3, <2>2, <2>3 DEF Calling, Call
    <3> QED BY <1>2, <2>1, <3>1 DEF Hale, Sound, Frozen
  <2>4. CASE u = "rename index"
    <3>1. PICK s : s = chunk.entries
      OBVIOUS
    <3>2. index'[c] = NoFile /\ sorted'[c] = s /\ data'[c] = data[c] /\ whole'[c] = whole[c]
      BY <1>3, <2>2, <2>4, <3>1 DEF Call
    <3>3. /\ Len(data[c]) = Len(s) /\ whole[c]
          /\ \A i \in DOMAIN s : s[i].key # 0 /\ s[i].pos <= Len(s)
      BY <1>1, <1>3, <1>4, <2>2, <2>4, <3>1 DEF ChunkSound
    <3>4. s \in Seq(SoundEntry) /\ Len(s) \in Nat /\ \A i \in DOMAIN s : s[i].pos \in Nat
      <4>1. s \in Seq(SoundEntry)
        BY <2>2, <3>1 DEF Inv, Types, Chunks
      <4> QED BY <4>1, SeqIs, EntryIs
    <3>5. NoHoles(s)
      BY <3>3 DEF NoHoles
    <3>6. \A i \in DOMAIN s : Within(c, s[i])
      <4> SUFFICES ASSUME NEW i \in DOMAIN s PROVE Within(c, s[i])
        OBVIOUS
      <4>1. PICK n \in Nat : n = s[i].pos
        BY <3>4
      <4>2. n <= Len(s)
        BY <3>3, <4>1
      <4>3. n < Len(data[c]) \/ n = Len(data[c])
        BY <3>3, <3>4, <4>2
      <4> QED BY <3>3, <4>1, <4>3 DEF Within
    <3>7. AllWithin(c, sorted[c])'
      BY <3>2, <3>6 DEF AllWithin, Within
    <3>8. job'.todo # <<>> /\ job'.todo[1][1] = "link" /\ job'.todo[1][2] = c
      BY <2>4 DEF Calling
    <3> HIDE DEF AllWithin, NoHoles
    <3>9. Sound(c)' /\ Frozen(c)'
      BY <3>2, <3>5, <3>7 DEF Sound, Frozen
    <3> HIDE DEF Sound, Frozen
    <3> QED BY <1>2, <2>1, <3>8, <3>9 DEF Hale
  <2>5. CASE u = "link"
    <3>1. PICK s : s = sorted[c]
      OBVIOUS
    <3>2. /\ index'[c] = Linked /\ sorted'[c] = s /\ data'[c] = data[c] /\ whole'[c] = whole[c]
          /\ s # NoFile
      BY <1>3, <2>5, <3>1 DEF Calling, Call
    <3>3. c \in Found /\ Hale(c)
      BY <1>3, <1>4, <2>1, <3>2 DEF Found
    <3>4. NoHoles(s) /\ AllWithin(c, s)
      BY <3>1, <3>2, <3>3 DEF Hale, Sound
    <3>5. IndexFile(c)' = s
      BY <3>2 DEF IndexFile
    <3>6. AllWithin(c, s)'
      BY <3>2, <3>4 DEF AllWithin, Within
    <3>7. AllWithin(c, sorted[c])' /\ AllWithin(c, IndexFile(c))'
      BY <3>2, <3>5, <3>6, Renamed
    <3> HIDE DEF AllWithin, NoHoles
    <3>8. Sound(c)' /\ Frozen(c)'
      BY <3>2, <3>4, <3>5, <3>7 DEF Sound, Frozen
    <3> HIDE DEF Sound, Frozen
    <3> QED BY <1>2, <2>1, <3>2, <3>8, FilesDiffer DEF Hale
  <2> QED BY <2>2, <2>3, <2>4, <2>5
<1> HIDE DEF Hale
<1> QED BY <1>6, <1>7, <1>8


(* The calls that unlink a base.                                           *)
LEMMA DroppingCalls ==
  ASSUME Inv, DiskStep, NEW c \in job.group, Dropping(c), NEW u, u = job.todo[1][1]
  PROVE Calling(u, c)
<1>1. Types /\ JobIs /\ job.todo # <<>>
  BY DEF Inv, DiskStep
<1>2. c \in Bases /\ job.group \subseteq Bases /\ job.left \in SUBSET Bases /\ job.group # {}
  BY <1>1 DEF Types
<1>3. PICK R : R = Rests(UnlinkCalls(c))
  OBVIOUS
<1>4. PICK t : t = job.todo
  OBVIOUS
<1>5. /\ t \in R /\ (u # "unlink data" => data[c] = NoFile)
      /\ u = "unlink sorted" => index[c] = NoFile
  BY <1>3, <1>4 DEF Dropping
<1>6. Follows(t, R, c, "unlink data", "unlink index", "unlink sorted") /\ u = t[1][1]
  BY <1>2, <1>3, <1>4, <1>5, RestIs
<1>7. /\ u \in {"unlink data", "unlink index", "unlink sorted"} /\ t[1][2] = c
      /\ u # "unlink sorted" => Len(t) > 1 /\ Tail(t) \in R
      /\ u = "unlink data" => Tail(t)[1][1] = "unlink index"
      /\ u = "unlink index" => Tail(t)[1][1] = "unlink sorted"
      /\ u = "unlink sorted" => ~(Len(t) > 1)
  <2>1. "unlink data" # "unlink index" /\ "unlink data" # "unlink sorted"
        /\ "unlink index" # "unlink sorted"
    OBVIOUS
  <2>2. At(u, t, R, c, "unlink data", "unlink index", "unlink sorted")
    BY <1>6, <2>1, Place3
  <2> QED BY <2>2 DEF At
<1>8. u \in Calls /\ u \notin {"rename data", "rename index", "link"}
  BY <1>7 DEF Calls
<1>9. Call(u, c) /\ job' = NextJob
  BY <1>2, <1>4, <1>7, <1>8, CallIs
<1>10. data'[c] = NoFile
  BY <1>5, <1>7, <1>9 DEF Call
<1>11. job'.todo # <<>> => job'.todo[1][1] # "rename index"
  <2>1. CASE Len(t) > 1
    <3>1. PICK r : r = Tail(t)
      OBVIOUS
    <3>2. job' = [job EXCEPT !.todo = r]
      BY <1>4, <1>9, <2>1, <3>1 DEF NextJob
    <3>3. job'.todo = r
      BY <1>1, <3>2 DEF Types
    <3>4. r[1][1] \in {"unlink index", "unlink sorted"}
      BY <1>7, <2>1, <3>1
    <3> QED BY <3>3, <3>4
  <2>2. CASE ~(Len(t) > 1) /\ job.left # {}
    <3>1. PICK m : m = Min(job.left)
      OBVIOUS
    <3>2. m \in Bases
      BY <1>2, <2>2, <3>1, FirstIs
    <3>3. PICK r : r = UnlinkCalls(m)
      OBVIOUS
    <3>4. job' = [job EXCEPT !.left = @ \ {m}, !.todo = r]
      BY <1>4, <1>9, <2>2, <3>1, <3>3 DEF NextJob
    <3>5. job'.todo = r
      BY <1>1, <3>4 DEF Types
    <3>6. r[1][1] = "unlink data"
      BY <3>2, <3>3, RestIs
    <3> QED BY <3>5, <3>6
  <2>3. CASE ~(Len(t) > 1) /\ job.left = {}
    <3>1. PICK m : m = Min(job.group)
      OBVIOUS
    <3>2. m \in Bases
      BY <1>2, <3>1, FirstIs
    <3>3. PICK r : r = RenameCalls(m)
      OBVIOUS
    <3>4. job' = [job EXCEPT !.todo = r] \/ job' = NoJob
      BY <1>4, <1>9, <2>3, <3>1, <3>3 DEF NextJob
    <3>5. job'.todo = r \/ job'.todo = <<>>
      BY <1>1, <3>4 DEF Types, NoJob
    <3>6. r[1][1] = "rename data"
      BY <3>2, <3>3, RestIs
    <3> QED BY <3>5, <3>6
  <2> QED BY <2>1, <2>2, <2>3
<1> HIDE DEF Call
<1> QED BY <1>1, <1>2, <1>4, <1>7, <1>8, <1>9, <1>10, <1>11 DEF Calling

(* The calls that give a data sort's result its names.                     *)
LEMMA MovingCalls ==
  ASSUME Inv, DiskStep, NEW c \in job.group, Moving(c), chunk # NoFile, NEW u, u = job.todo[1][1],
         c = Min(job.group), job.left = {}
  PROVE Calling(u, c)
<1>1. Types /\ JobIs /\ job.todo # <<>>
  BY DEF Inv, DiskStep
<1>2. c \in Bases
  BY <1>1 DEF Types
<1>3. PICK R : R = Rests(RenameCalls(c))
  OBVIOUS
<1>4. PICK t : t = job.todo
  OBVIOUS
<1>5. /\ t \in R /\ index[c] = NoFile
      /\ u = "rename data" => sorted[c] = NoFile
      /\ u = "link" => sorted[c] # NoFile
  BY <1>3, <1>4 DEF Moving, Gone
<1>6. Follows(t, R, c, "rename data", "rename index", "link") /\ u = t[1][1]
  BY <1>2, <1>3, <1>4, <1>5, RestIs
<1>7. /\ u \in {"rename data", "rename index", "link"} /\ t[1][2] = c
      /\ u # "link" => Len(t) > 1 /\ Tail(t) \in R
      /\ u = "rename data" => Tail(t)[1][1] = "rename index"
      /\ u = "rename index" => Tail(t)[1][1] = "link"
      /\ u = "link" => ~(Len(t) > 1)
  <2>1. "rename data" # "rename index" /\ "rename data" # "link" /\ "rename index" # "link"
    OBVIOUS
  <2>2. At(u, t, R, c, "rename data", "rename index", "link")
    BY <1>6, <2>1, Place3
  <2> QED BY <2>2 DEF At
<1>8. u \in Calls /\ u \notin {"unlink data", "unlink index", "unlink sorted"}
  BY <1>7 DEF Calls
<1>9. Call(u, c) /\ job' = NextJob
  BY <1>2, <1>4, <1>7, <1>8, CallIs
<1>10. CASE u # "link"
  <2>1. PICK r : r = Tail(t)
    OBVIOUS
  <2>2. job' = [job EXCEPT !.todo = r]
    BY <1>4, <1>7, <1>9, <1>10, <2>1 DEF NextJob
  <2>3. job'.todo = r
    BY <1>1, <2>2 DEF Types
  <2>4. Follows(r, R, c, "rename data", "rename index", "link")
    BY <1>2, <1>3, <1>7, <1>10, <2>1, RestIs
  <2>5. r # <<>> /\ r[1][2] = c
    BY <2>4 DEF Follows
  <2>6. /\ u = "rename data" => r[1][1] = "rename index"
        /\ u = "rename index" => r[1][1] = "link"
    BY <1>7, <2>1
  <2> HIDE DEF Call
  <2> QED BY <1>1, <1>2, <1>4, <1>5, <1>7, <1>8, <1>9, <1>10, <2>3, <2>5, <2>6 DEF Calling
<1>11. CASE u = "link"
  <2>1. job' = NoJob
    BY <1>4, <1>7, <1>9, <1>11 DEF NextJob
  <2>2. job'.todo = <<>>
    BY <2>1 DEF NoJob
  <2> HIDE DEF Call
  <2> QED BY <1>1, <1>2, <1>4, <1>5, <1>7, <1>8, <1>9, <1>11, <2>2 DEF Calling
<1> QED BY <1>10, <1>11

(* Each system call of the sorter leaves files that a start can open.      *)
LEMMA DiskStepHale ==
  ASSUME Inv, Inv', Unhurt, DiskStep
  PROVE Unhurt'
<1>1. PICK u : u = job.todo[1][1]
  OBVIOUS
<1>2. (\E first \in {Min(job.group)} : Merging(first)) \/ Removing
  BY DEF Inv, JobIs, DiskStep
<1>3. job.group \in SUBSET Bases /\ job.group # {}
  BY DEF Inv, JobIs, DiskStep, Types
<1>4. \E c : Calling(u, c)
  <2>1. CASE Removing
    BY <1>1, <2>1, DroppingCalls DEF Removing
  <2>2. ASSUME NEW first, first = Min(job.group), Merging(first) PROVE \E c : Calling(u, c)
    <3>1. first \in job.group /\ chunk # NoFile
      BY <1>3, <2>2, FirstIs DEF Merging
    <3>2. (\E c \in job.group : Dropping(c)) \/ (job.left = {} /\ Moving(first))
      BY <2>2 DEF Merging
    <3> HIDE DEF Calling, Dropping, Moving
    <3> QED BY <1>1, <2>2, <3>1, <3>2, DroppingCalls, MovingCalls
  <2> HIDE DEF Merging, Removing, Calling
  <2> QED BY <1>2, <2>1, <2>2
<1> HIDE DEF Calling, Unhurt
<1> QED BY <1>4, CallingHale


(* A crash leaves only complete records, or is in a window that the code   *)
(* does not survive.                                                       *)
LEMMA CrashHale ==
  ASSUME Inv, Unhurt, Crash
  PROVE Unhurt'
<1>1. Types /\ JobIs
  BY DEF Inv
<1>2. /\ phase = "up" /\ phase' = "down" /\ job' = NoJob
      /\ damaged' = (damaged \/ Torns # {} \/ Unlinked)
      /\ data' = data /\ whole' = whole /\ index' = index /\ sorted' = sorted /\ chunk' = chunk
  BY DEF Crash, Reset, files
<1> SUFFICES ASSUME ~damaged' PROVE ChunkSound' /\ \A b \in Found' : Hale(b)'
  BY <1>2 DEF Unhurt
<1>3. ~damaged /\ Torns = {} /\ ~Unlinked
  BY <1>2, Zenon
<1>4. ChunkSound /\ \A b \in Found : Hale(b) /\ b \in Bases
  BY <1>3 DEF Unhurt, Found
<1>5. ChunkSound'
  BY <1>2, <1>4 DEF ChunkSound, NoJob
<1>6. Found' = Found
  BY <1>2 DEF Found
<1>7. ASSUME job.todo # <<>>, job.todo[1][1] = "link" PROVE FALSE
  <2>1. chunk = NoFile
    BY <1>3, <1>7 DEF Unlinked
  <2>2. Removing
    BY <1>1, <1>7, <2>1 DEF JobIs, Merging
  <2>3. PICK c \in Bases : Dropping(c)
    BY <2>2 DEF Removing
  <2>4. PICK t : t = job.todo
    OBVIOUS
  <2>5. PICK R : R = Rests(UnlinkCalls(c))
    OBVIOUS
  <2>6. t \in R
    BY <2>3, <2>4, <2>5 DEF Dropping
  <2>7. Follows(t, R, c, "unlink data", "unlink index", "unlink sorted")
    BY <2>5, <2>6, RestIs
  <2>8. t[1][1] \in {"unlink data", "unlink index", "unlink sorted"}
    BY <2>7 DEF Follows
  <2> QED BY <1>7, <2>4, <2>8
<1>8. ASSUME NEW b \in Found PROVE Hale(b)'
  <2>1. Hale(b) /\ b \in Bases /\ Sound(b)
    BY <1>4 DEF Hale
  <2>2. Frozen(b)
    <3>1. CASE b \in sortFd \cup job.group
      BY <2>1, <3>1 DEF Hale
    <3>2. CASE b \notin sortFd \cup job.group
      <4>1. b \in open /\ data[b] # NoFile /\ index[b] # NoFile
        BY <1>2, <3>2, GrowingFiles DEF Visible, Found
      <4>2. Torn(b) = {}
        BY <1>3, <4>1 DEF Torns
      <4> QED BY <4>2 DEF Torn, Frozen, AllWithin
    <3> QED BY <3>1, <3>2
  <2>3. ~(sorted[b] # NoFile /\ index[b] = NoFile)
    BY <1>7, <2>1 DEF Hale
  <2>4. Sound(b)' /\ Frozen(b)'
    BY <1>2, <2>1, <2>2 DEF Sound, Frozen, AllWithin, Within, IndexFile, NoHoles
  <2> HIDE DEF Sound, Frozen, Growing
  <2> QED BY <1>2, <2>3, <2>4 DEF Hale
<1> HIDE DEF Hale
<1> QED BY <1>5, <1>6, <1>8

(* An index whose entries are all inside the data file has no block that   *)
(* eblob_index_blocks_fill gives up on.                                    *)
LEMMA BlocksOfSound ==
  ASSUME NEW b, NEW s, \A i \in DOMAIN s : Within(b, s[i])
  PROVE  BlocksFill(b, s)
<1>1. {i \in DOMAIN s : ~Within(b, s[i])} = {}
  OBVIOUS
<1>2. Cardinality({}) <= CorruptMax + 1
  BY FS_EmptySet, BoundsAssumption
<1> QED BY <1>1, <1>2 DEF BlocksFill

(* What a start finds after such a crash, it opens.                        *)
LEMMA SoundOpens ==
  ASSUME Inv, Unhurt, ~damaged, phase = "down", NEW b \in Found
  PROVE /\ Openable(b) /\ b \in Bases /\ Sound(b) /\ Frozen(b)
        /\ sorted[b] # NoFile => index[b] # NoFile
        /\ ~Kept(b) /\ index[b] # NoFile => /\ index[b] \in Seq(SoundEntry) /\ NoHoles(index[b])
                                            /\ AllWithin(b, index[b])
<1>1. Types /\ LinkedIs /\ Resting
  BY DEF Inv
<1>2. b \in Bases /\ Hale(b)
  BY DEF Found, Unhurt
<1>3. job.todo = <<>>
  BY <1>1 DEF Resting, NoJob
<1>4. Sound(b) /\ Frozen(b) /\ (sorted[b] # NoFile => index[b] # NoFile)
  BY <1>2, <1>3 DEF Hale
<1>5. ASSUME sorted[b] # NoFile PROVE BlocksFill(b, sorted[b])
  <2>1. \A i \in DOMAIN sorted[b] : Within(b, sorted[b][i])
    BY <1>4, <1>5 DEF Sound, AllWithin
  <2> QED BY <2>1, BlocksOfSound
<1>6. ASSUME ~Kept(b), index[b] # NoFile
      PROVE  /\ index[b] \in Seq(SoundEntry) /\ NoHoles(index[b]) /\ AllWithin(b, index[b])
             /\ Created(index[b]) = index[b]
  <2>1. index[b] # Linked /\ Created(index[b]) = index[b] /\ Created(index[b]) \in Seq(SoundEntry)
    BY <1>6, FoundFiles
  <2>2. IndexFile(b) = index[b]
    BY <2>1 DEF IndexFile
  <2> QED BY <1>4, <1>6, <2>1, <2>2 DEF Sound, Frozen
<1>7. ASSUME ToSort(b) PROVE BlocksFill(b, SortedByKey(Created(index[b])))
  <2>1. ~Kept(b) /\ Created(index[b]) # <<>>
    BY <1>7 DEF ToSort
  <2>2. index[b] # NoFile
    BY <2>1 DEF Created
  <2>3. PICK s \in Seq(SoundEntry) : s = index[b] /\ AllWithin(b, s) /\ s # <<>> /\ Created(index[b]) = s
    BY <1>6, <2>1, <2>2
  <2>4. PICK t : t = SortedByKey(s)
    OBVIOUS
  <2>5. t \in Seq(SoundEntry) /\ SameEntries(t, s)
    BY <2>4, SortedIs
  <2>6. Len(s) \in Nat \ {0} /\ DOMAIN s = 1 .. Len(s) /\ Len(t) = Len(s)
    BY <2>3, <2>5, SeqIs DEF SameEntries
  <2>7. ASSUME NEW i \in DOMAIN t PROVE Within(b, t[i])
    <3>1. DOMAIN t = 1 .. Len(t)
      BY <2>5, SeqIs
    <3>2. PICK j \in DOMAIN s : t[i] = s[j]
      BY <2>5, <2>6, <3>1 DEF SameEntries
    <3> QED BY <2>3, <3>2 DEF AllWithin
  <2>8. BlocksFill(b, t)
    BY <2>7, BlocksOfSound
  <2> QED BY <2>3, <2>4, <2>8
<1> QED BY <1>2, <1>4, <1>5, <1>6, <1>7 DEF Openable

(* eblob_scan_base.                                                        *)
LEMMA ScanHale ==
  ASSUME Inv, Unhurt, Scan
  PROVE Unhurt'
<1>1. /\ phase = "down" /\ chunk' = NoFile /\ damaged' = damaged
      /\ data' = data /\ whole' = whole
  BY DEF Scan, observers
<1> SUFFICES ASSUME ~damaged
             PROVE  phase' = "scanned" /\ \A b \in Found' : Hale(b)'
  BY <1>1 DEF Unhurt, ChunkSound
<1>2. \A b \in Found : Openable(b)
  BY <1>1, SoundOpens
<1>3. /\ phase' = "scanned"
      /\ index' = [b \in Bases |-> IF b \in Found THEN Created(index[b]) ELSE index[b]]
      /\ sorted' = [b \in Bases |->
                      IF b \notin Found \/ Kept(b) THEN sorted[b]
                      ELSE IF ToSort(b) THEN SortedByKey(Created(index[b])) ELSE NoFile]
  BY <1>2 DEF Scan
<1>4. Found' = Found /\ \A b, e : Within(b, e)' <=> Within(b, e)
  BY <1>1 DEF Found, Within
<1>5. ASSUME NEW b \in Found PROVE Hale(b)'
  <2>1. /\ b \in Bases /\ Sound(b) /\ Frozen(b) /\ (sorted[b] # NoFile => index[b] # NoFile)
        /\ ~Kept(b) /\ index[b] # NoFile => /\ index[b] \in Seq(SoundEntry) /\ NoHoles(index[b])
                                            /\ AllWithin(b, index[b])
    BY <1>1, SoundOpens
  <2>2. /\ index'[b] = Created(index[b]) /\ index'[b] # NoFile
        /\ index[b] # NoFile => index'[b] = index[b]
        /\ index[b] = Linked => Kept(b)
    BY <1>3, <2>1, FoundFiles
  <2>3. Sound(b)' /\ Frozen(b)'
    <3>1. CASE Kept(b)
      <4>1. index'[b] = index[b] /\ sorted'[b] = sorted[b]
        BY <1>3, <2>1, <2>2, <3>1 DEF Kept
      <4>2. IndexFile(b)' = IndexFile(b)
        BY <4>1 DEF IndexFile
      <4> QED BY <1>1, <2>1, <4>1, <4>2 DEF Sound, Frozen, AllWithin, Within, NoHoles
    <3>2. CASE ~Kept(b)
      <4>1. PICK s \in Seq(SoundEntry) : s = index'[b] /\ s # Linked
        BY <2>2, <3>2, FoundFiles, FilesDiffer
      <4>2. NoHoles(s) /\ AllWithin(b, s)
        <5>1. CASE index[b] # NoFile
          BY <2>1, <2>2, <3>2, <4>1, <5>1
        <5>2. CASE index[b] = NoFile
          <6>1. s = <<>>
            BY <2>2, <4>1, <5>2 DEF Created
          <6> QED BY <6>1 DEF NoHoles, AllWithin
        <5> QED BY <5>1, <5>2
      <4>3. IndexFile(b)' = s
        BY <4>1 DEF IndexFile
      <4>4. AllWithin(b, s)'
        BY <1>1, <4>2 DEF AllWithin, Within
      <4>5. sorted'[b] # NoFile => NoHoles(sorted'[b]) /\ AllWithin(b, sorted[b])'
        <5> SUFFICES ASSUME sorted'[b] # NoFile
                     PROVE  NoHoles(sorted'[b]) /\ AllWithin(b, sorted[b])'
          OBVIOUS
        <5>1. PICK t : t = SortedByKey(s)
          OBVIOUS
        <5>2. sorted'[b] = t
          BY <1>3, <2>1, <2>2, <3>2, <4>1, <5>1
        <5>3. t \in Seq(SoundEntry) /\ SameEntries(t, s)
          BY <5>1, SortedIs
        <5>4. DOMAIN t = 1 .. Len(t) /\ DOMAIN s = 1 .. Len(s)
          BY <5>3, SeqIs
        <5>5. NoHoles(t) /\ AllWithin(b, t)
          <6>1. \A i \in 1 .. Len(t) : \E j \in 1 .. Len(s) : t[i] = s[j]
            BY <5>3 DEF SameEntries
          <6>2. \A i \in DOMAIN t : \E j \in DOMAIN s : t[i] = s[j]
            BY <5>4, <6>1
          <6>3. \A j \in DOMAIN s : s[j].key # 0 /\ Within(b, s[j])
            BY <4>2 DEF NoHoles, AllWithin
          <6> HIDE DEF Within
          <6>4. \A i \in DOMAIN t : t[i].key # 0 /\ Within(b, t[i])
            <7> SUFFICES ASSUME NEW i \in DOMAIN t PROVE t[i].key # 0 /\ Within(b, t[i])
              OBVIOUS
            <7>1. PICK j \in DOMAIN s : t[i] = s[j]
              BY <6>2
            <7> QED BY <6>3, <7>1
          <6> QED BY <6>4 DEF NoHoles, AllWithin
        <5>6. AllWithin(b, t)'
          BY <1>1, <5>5 DEF AllWithin, Within
        <5> QED BY <5>2, <5>5, <5>6, Renamed
      <4>6. AllWithin(b, IndexFile(b))'
        BY <4>3, <4>4, Renamed
      <4> HIDE DEF NoHoles, AllWithin
      <4> QED BY <4>2, <4>3, <4>5, <4>6 DEF Sound, Frozen
    <3> QED BY <3>1, <3>2
  <2> HIDE DEF Sound, Frozen, Growing
  <2> QED BY <1>3, <2>2, <2>3 DEF Hale
<1> HIDE DEF Hale
<1> QED BY <1>3, <1>4, <1>5


(* An index all of whose entries are complete is read to its end, and      *)
(* nothing of it is cut off.                                               *)
LEMMA SoundLoads ==
  ASSUME Inv, Unhurt, ~damaged, phase = "scanned", NEW b \in Unsorted
  PROVE /\ b \in Bases /\ b \notin sortFd /\ b \in Found /\ index[b] \in Seq(SoundEntry)
        /\ NoHoles(index[b]) /\ AllWithin(b, index[b])
        /\ Complete(IndexFile(b)) = index[b] /\ Parsed(b) = Len(index[b]) /\ Loadable(b)
<1>1. Types /\ OpenFiles /\ Resting
  BY DEF Inv
<1>2. b \in open /\ b \notin sortFd /\ b \in Bases /\ job.group = {}
  BY <1>1 DEF Unsorted, Types, Resting, NoJob
<1>3. data[b] # NoFile /\ index[b] \notin {NoFile, Linked}
  BY <1>1, <1>2 DEF OpenFiles, Serving
<1>4. index[b] \in Seq(SoundEntry) /\ IndexFile(b) = index[b] /\ data[b] \in Seq(Cell)
  BY <1>1, <1>2, <1>3, FileIs DEF IndexFile
<1>5. b \in Found /\ Hale(b)
  BY <1>2, <1>3 DEF Found, Unhurt
<1>6. NoHoles(index[b]) /\ AllWithin(b, index[b])
  BY <1>3, <1>4, <1>5 DEF Hale, Sound, Frozen
<1>7. PICK s \in Seq(SoundEntry) : s = index[b]
  BY <1>4
<1>8. Len(s) \in Nat /\ DOMAIN s = 1 .. Len(s)
  BY SeqIs
<1>9. Complete(s) = s
  <2>1. s # <<>> => s[Len(s)] # [Hole EXCEPT !.removed = TRUE]
    <3> SUFFICES ASSUME s # <<>> PROVE s[Len(s)] # [Hole EXCEPT !.removed = TRUE]
      OBVIOUS
    <3>1. Len(s) \in DOMAIN s
      BY <1>8
    <3>2. s[Len(s)].key # 0
      BY <1>6, <1>7, <3>1 DEF NoHoles
    <3> QED BY <3>2 DEF Hole
  <2> QED BY <2>1 DEF Complete
<1>10. Torn(b) = {}
  BY <1>4, <1>6 DEF Torn, AllWithin
<1>11. Parsed(b) = Len(s)
  BY <1>4, <1>7, <1>9, <1>10 DEF Parsed
<1>12. Loadable(b)
  <2>1. CASE s = <<>>
    BY <1>4, <1>7, <1>9, <2>1 DEF Loadable
  <2>2. CASE s # <<>>
    <3>1. 1 \in DOMAIN s /\ Len(s) > 0
      BY <1>8, <2>2
    <3>2. PICK e \in SoundEntry : e = s[1]
      BY <3>1, SeqIs
    <3>3. Within(b, e) /\ e.key # 0
      BY <1>6, <1>7, <3>1, <3>2 DEF AllWithin, NoHoles
    <3>4. e.pos \in Nat \ {0}
      BY <3>3, EntryIs
    <3>5. data[b] # <<>>
      <4>1. Len(data[b]) \in Nat /\ (e.pos < Len(data[b]) \/ e.pos = Len(data[b]))
        BY <1>4, <3>3, SeqIs DEF Within
      <4>2. Len(data[b]) # 0
        BY <3>4, <4>1
      <4> QED BY <1>4, <4>2
    <3> QED BY <1>11, <3>1, <3>5 DEF Loadable
  <2> QED BY <2>1, <2>2
<1> QED BY <1>2, <1>4, <1>5, <1>6, <1>7, <1>9, <1>11, <1>12

(* The load.                                                               *)
LEMMA LoadHale ==
  ASSUME Inv, Unhurt, Load
  PROVE Unhurt'
<1>1. Types /\ OpenFiles /\ Resting
  BY DEF Inv
<1>2. /\ phase = "scanned" /\ damaged' = damaged
      /\ UNCHANGED <<data, whole, sorted, chunk, open, sortFd, op, mutex, job>>
  BY DEF Load, observers
<1>3. chunk = NoFile /\ mutex = Nobody /\ job = NoJob
  BY <1>1, <1>2 DEF Resting
<1> SUFFICES ASSUME ~damaged
             PROVE  phase' = "up" /\ \A b \in Found' : Hale(b)'
  BY <1>2, <1>3 DEF Unhurt, ChunkSound
<1>4. \A b \in Unsorted : Loadable(b)
  BY <1>2, SoundLoads
<1>5. /\ phase' = "up"
      /\ index' = [b \in Bases |-> IF b \in Unsorted THEN RepairedIndex(b) ELSE index[b]]
      /\ indexSize' = [b \in Bases |->
                         IF b \in Unsorted THEN Len(Complete(IndexFile(b))) ELSE indexSize[b]]
  BY <1>4 DEF Load
<1>6. Found' = Found /\ Found \subseteq open /\ job.group = {} /\ job'.group = {} /\ job.todo = <<>>
  BY <1>1, <1>2, <1>3 DEF Found, OpenFiles, Serving, NoJob
<1>7. ASSUME NEW b \in Found PROVE Hale(b)'
  <2>1. b \in Bases /\ Hale(b) /\ Sound(b) /\ Frozen(b)
    BY <1>2, <1>7 DEF Found, Unhurt, Hale
  <2>2. index'[b] = index[b] /\ sorted'[b] = sorted[b]
    <3>1. CASE b \in Unsorted
      <4>1. Complete(IndexFile(b)) = index[b] /\ Parsed(b) = Len(index[b])
        BY <1>2, <3>1, SoundLoads
      <4> QED BY <1>2, <1>5, <2>1, <3>1, <4>1 DEF RepairedIndex
    <3>2. CASE b \notin Unsorted
      BY <1>2, <1>5, <2>1, <3>2
    <3> QED BY <3>1, <3>2
  <2>3. IndexFile(b)' = IndexFile(b) /\ \A e : Within(b, e)' <=> Within(b, e)
    BY <1>2, <2>2 DEF IndexFile, Within
  <2>4. Sound(b)' /\ Frozen(b)'
    BY <1>2, <2>1, <2>2, <2>3 DEF Sound, Frozen, AllWithin, Within, NoHoles
  <2>5. ~(sorted[b] # NoFile /\ index[b] = NoFile)
    BY <1>6, <2>1 DEF Hale
  <2>6. b \notin sortFd => Growing(b)'
    <3> SUFFICES ASSUME b \notin sortFd PROVE Growing(b)'
      OBVIOUS
    <3>1. b \in Unsorted
      BY <1>6 DEF Unsorted
    <3>2. /\ index[b] \in Seq(SoundEntry) /\ AllWithin(b, index[b])
          /\ Complete(IndexFile(b)) = index[b]
      BY <1>2, <3>1, SoundLoads
    <3>3. indexSize'[b] = Len(index[b]) /\ Len(index[b]) \in Nat
      BY <1>5, <2>1, <3>1, <3>2, SeqIs
    <3>4. Settled(b)' = Len(index[b])
      BY <1>2, <1>3, <3>3, NamesAssumption DEF Settled, Holding
    <3>5. \A i \in DOMAIN index[b] : Within(b, index[b][i])
      BY <3>2 DEF AllWithin
    <3> HIDE DEF Settled, Busy
    <3>6. Len(index'[b]) >= Settled(b)'
      BY <2>2, <3>3, <3>4
    <3>7. \A i \in DOMAIN index'[b] : Within(b, index[b][i])'
      BY <1>2, <2>2, <3>5 DEF Within
    <3> QED BY <3>6, <3>7 DEF Growing
  <2> HIDE DEF Sound, Frozen, Growing
  <2> QED BY <1>2, <1>5, <1>6, <2>2, <2>4, <2>5, <2>6 DEF Hale
<1> HIDE DEF Hale
<1> QED BY <1>5, <1>6, <1>7

(* A stuttering step.                                                      *)
LEMMA StutterHale ==
  ASSUME Unhurt, UNCHANGED vars
  PROVE Unhurt'
<1>1. /\ UNCHANGED <<data, whole, index, sorted, chunk, phase, sortFd, indexSize, op, mutex, job>>
      /\ damaged' = damaged
  BY DEF vars, files, memory, observers
<1>2. Found' = Found /\ (\A b : IndexFile(b)' = IndexFile(b) /\ Settled(b)' = Settled(b))
      /\ (\A b, i : Busy(b, i)' <=> Busy(b, i)) /\ (\A b, e : Within(b, e)' <=> Within(b, e))
  BY <1>1 DEF Found, IndexFile, Settled, Holding, Busy, Within
<1>3. ChunkSound => ChunkSound'
  BY <1>1 DEF ChunkSound
<1>4. ASSUME NEW b, Hale(b) PROVE Hale(b)'
  <2>1. Sound(b)' <=> Sound(b)
    BY <1>1, <1>2 DEF Sound, NoHoles, AllWithin, Within
  <2>2. Frozen(b)' <=> Frozen(b)
    BY <1>1, <1>2 DEF Frozen, AllWithin, Within
  <2>3. Growing(b)' <=> Growing(b)
    <3> HIDE DEF Settled, Busy
    <3> QED BY <1>1, <1>2 DEF Growing, Within
  <2> HIDE DEF Sound, Frozen, Growing
  <2> QED BY <1>1, <1>4, <2>1, <2>2, <2>3 DEF Hale
<1> HIDE DEF Hale, ChunkSound
<1> QED BY <1>1, <1>2, <1>3, <1>4 DEF Unhurt


(* Every step of the specification leaves files that a start can open, or  *)
(* is a crash in a window that the code does not survive.                  *)
LEMMA NextHale ==
  ASSUME Inv, Inv', Unhurt, [Next]_vars
  PROVE Unhurt'
<1> HIDE DEF Inv, Unhurt
<1>1. CASE \E k \in Keys : WriteBegin(k)
  BY <1>1, WriteBeginHale
<1>2. CASE \E k \in Keys : WriteIndex(k)
  BY <1>2, WriteIndexHale
<1>3. CASE \E k \in Keys : WriteHeader(k)
  BY <1>3, WriteHeaderHale
<1>4. CASE \E k \in Keys : Rollback(k)
  BY <1>4, RollbackHale
<1>5. CASE \E k \in Keys : RemoveBegin(k)
  BY <1>5, RemoveBeginHale
<1>6. CASE \E k \in Keys : MarkIndex(k)
  BY <1>6, MarkIndexHale
<1>7. CASE \E k \in Keys : MarkData(k)
  BY <1>7, MarkDataHale
<1>8. CASE \E k \in Keys : NothingToMark(k)
  BY <1>8, NothingToMarkHale
<1>9. CASE \E k \in Keys : WriteCommit(k)
  BY <1>9, WriteCommitHale
<1>10. CASE \E b \in Bases : IndexSort(b)
  BY <1>10, IndexSortHale
<1>11. CASE \E g \in SUBSET Bases : SwapBegin(g)
  BY <1>11, SwapBeginHale
<1>12. CASE \E b \in Bases : RemoveBase(b)
  BY <1>12, RemoveBaseHale
<1>13. CASE DiskStep
  BY <1>13, DiskStepHale
<1>14. CASE Crash
  BY <1>14, CrashHale
<1>15. CASE Scan
  BY <1>15, ScanHale
<1>16. CASE Load
  BY <1>16, LoadHale
<1>17. CASE UNCHANGED vars
  BY <1>17, StutterHale
<1> QED BY <1>1, <1>2, <1>3, <1>4, <1>5, <1>6, <1>7, <1>8, <1>9, <1>10, <1>11, <1>12,
           <1>13, <1>14, <1>15, <1>16, <1>17 DEF Next

(* In every state a start would find complete records only, unless a crash *)
(* has struck between an index entry and its record, or before a link.     *)
LEMMA UnhurtHolds == Spec => []Unhurt
<1>1. Init => Unhurt
  <2> SUFFICES ASSUME Init PROVE Unhurt
    OBVIOUS
  <2>1. phase = "up" /\ chunk = NoFile /\ data = [b \in Bases |-> NoFile]
    BY DEF Init
  <2>2. Found = {}
    BY <2>1 DEF Found
  <2> QED BY <2>1, <2>2 DEF Unhurt, ChunkSound
<1>2. Inv /\ Inv' /\ Unhurt /\ [Next]_vars => Unhurt'
  BY NextHale
<1> QED BY <1>1, <1>2, InvHolds, PTL DEF Spec

(* eblob_init fails only after a crash between the index entry of a record *)
(* and its footer, or between the rename and the link of a data sort: the  *)
(* iterator of the load and eblob_index_blocks_fill find every entry they  *)
(* check within its data file after every other crash, however many there  *)
(* were, and whatever was written, removed, sorted, merged or rolled back  *)
(* before them.                                                            *)
THEOREM StartsAfterCrash == Spec => []OpensAfterCrash
<1>1. Inv /\ Unhurt => OpensAfterCrash
  BY DEF Unhurt, OpensAfterCrash
<1> QED BY <1>1, InvHolds, UnhurtHolds, PTL
=============================================================================
