---------------------------- MODULE BaseIterator ----------------------------
(***************************************************************************)
(* eblob_iterate over one base, with key ranges or without, while keys are *)
(* removed and the index of the base is sorted.                            *)
(*                                                                         *)
(* The iterator takes bctl->lock for each batch it reads and counts itself *)
(* in critness for each batch it passes on; in between, and from before it *)
(* has computed the offsets of its ranges, it holds nothing.  It is called *)
(* with EBLOB_ITERATE_FLAGS_ALL, as clients and datasort_split call it; the *)
(* load of a base is in Recovery.  Offsets count entries.                  *)
(***************************************************************************)
EXTENDS Integers, Sequences, FiniteSets, FiniteSetsExt, Functions, IndexOrder

CONSTANTS
    Keys,           \* numbers
    Points,         \* the ends ranges may have
    MaxRanges,      \* bound: how many ranges a call has
    Indexes,        \* .index files to begin with
    BatchSize,      \* batch_size, how many entries are read at a time
    BlockSize,      \* cfg.index_block_size
    MaxRemoves,     \* bound: how many records are removed meanwhile
    NoFile

(* struct eblob_disk_control; pos is that of its record in the data file    *)
Entry == [key : Keys, pos : Nat, removed : BOOLEAN]

ASSUME KeysAssumption == Keys \subseteq Nat /\ Points \subseteq Nat /\ IsFiniteSet(Points)
ASSUME BoundsAssumption ==
    /\ BatchSize \in Nat \ {0} /\ BlockSize \in Nat \ {0}
    /\ MaxRanges \in Nat /\ MaxRemoves \in Nat
(* Records have places of their own in the data file, and a key has at     *)
(* most one that is live.                                                  *)
ASSUME IndexesAssumption ==
    /\ Indexes \subseteq Seq(Entry) /\ NoFile \notin Seq(Entry)
    /\ \A s \in Indexes : \A i, j \in DOMAIN s : i # j =>
          /\ s[i].pos # s[j].pos
          /\ s[i].key = s[j].key => s[i].removed \/ s[j].removed

VARIABLES
    ranges,   \* ctl->range as the caller gave it, ascending
    readonly, \* EBLOB_ITERATE_FLAGS_READONLY
    index, sorted,   \* the files; sorted is there as soon as sort.fd is
    blocks,   \* bctl->index_blocks
    gone,     \* positions whose header in the data file is marked removed
    pc, fd,   \* of the iterator; index_fd
    offsets,  \* start_offset and end_offset of the ranges
    current,  \* current_range_index, from one; zero: none
    off,      \* ctl->index_offset
    batch,    \* batch_size
    loc,      \* struct eblob_iterate_local; dc: what is left of the batch
    visited,  \* how often the callback was called for a key
    removes,  \* how many records have been removed
    there,    \* observer: keys that are there and have been from the beginning
    often,    \* observer: keys with more than two entries
    slipped,  \* observer: a sort came between index_fd and the offsets
    moved     \* observer: a sort came after index_fd

files == <<index, sorted, blocks, gone>>
call == <<ranges, readonly>>
observers == <<there, often, slipped, moved>>
iterator == <<pc, fd, offsets, current, off, batch, loc>>
vars == <<call, files, iterator, visited, removes, observers>>

Size == Len(index)
InUse == IF sorted = NoFile THEN index ELSE sorted    \* eblob_get_index_fd
Live(s) == {s[i].key : i \in {j \in DOMAIN s : ~s[j].removed}}
Many(s) == {k \in Keys : Cardinality({i \in DOMAIN s : s[i].key = k}) > 2}
File == IF fd = "index" THEN index ELSE sorted

-----------------------------------------------------------------------------
(* The base *)

(* eblob_index_blocks_fill                                                 *)
BlocksOf(s) ==
    [i \in {j \in DOMAIN s : (j - 1) * BlockSize < Len(s)} |->
        LET end == Min({i * BlockSize, Len(s)}) IN
        [first |-> s[(i - 1) * BlockSize + 1].key, last |-> s[end].key,
         start |-> (i - 1) * BlockSize, end |-> end]]

(* eblob_mark_entry_removed under bctl->lock, of a record found in the      *)
(* index that is in use.                                                   *)
RemoveRecord(i) ==
    /\ pc # "idle" /\ removes < MaxRemoves
    /\ i \in DOMAIN InUse /\ ~InUse[i].removed
    /\ IF sorted = NoFile
       THEN index' = [index EXCEPT ![i].removed = TRUE] /\ UNCHANGED sorted
       ELSE sorted' = [sorted EXCEPT ![i].removed = TRUE] /\ UNCHANGED index
    /\ gone' = gone \cup {InUse[i].pos}
    /\ removes' = removes + 1
    /\ there' = there \ {InUse[i].key}
    /\ UNCHANGED <<call, blocks, iterator, visited, often, slipped, moved>>

(* eblob_generate_sorted_index sets sort.fd when nobody is inside a batch.  *)
IndexSort ==
    /\ sorted = NoFile /\ pc # "check"
    /\ sorted' = SortedByKey(index)
    /\ blocks' = BlocksOf(sorted')
    /\ slipped' = (pc = "fill")
    /\ moved' = (pc # "idle")
    /\ UNCHANGED <<call, index, gone, iterator, visited, removes, there, often>>

-----------------------------------------------------------------------------
(* eblob_blob_iterate, eblob_blob_iterator *)

Begin ==
    /\ pc = "idle"
    /\ fd' = IF sorted = NoFile THEN "index" ELSE "sorted"
    /\ pc' = "fill"
    /\ UNCHANGED <<call, files, offsets, current, off, batch, loc, visited, removes,
                   observers>>

(* eblob_key_range_cmp                                                     *)
Covers(b, k) == b.first <= k /\ k <= b.last

(* bsearch among the blocks finds any one that holds the key.              *)
BlocksWith(k) == {i \in DOMAIN blocks : Covers(blocks[i], k)}

Starts(k) == IF BlocksWith(k) = {} THEN {0}
             ELSE {blocks[i].start : i \in BlocksWith(k)}

(* Mutant: a range whose end is in no block ends where it begins.          *)
EndsNone(k) == IF BlocksWith(k) = {} THEN {0}
               ELSE {blocks[i].end : i \in BlocksWith(k)}
Ends(k) == IF BlocksWith(k) = {} THEN {Size}
           ELSE {blocks[i].end : i \in BlocksWith(k)}

OffsetsOf(r) == [start : Starts(r.lo), end : Ends(r.hi)]

(* eblob_fill_range_offsets, under bctl->lock                              *)
FillRangeOffsets ==
    /\ pc = "fill"
    /\ pc' = "read"
    /\ IF sorted = NoFile \/ ranges = <<>> THEN UNCHANGED <<offsets, current, off>>
       ELSE /\ offsets' \in [DOMAIN ranges -> UNION {OffsetsOf(ranges[i]) : i \in DOMAIN ranges}]
            /\ \A i \in DOMAIN ranges : offsets'[i] \in OffsetsOf(ranges[i])
            /\ current' = 1
            /\ off' = offsets'[1].start
    /\ UNCHANGED <<call, files, fd, batch, loc, visited, removes, observers>>

Passed(i) == off > offsets[i].end

(* The range to go on with: the current one until it is passed, then the   *)
(* next that is not.                                                       *)
NextRange ==
    IF current = 0 \/ ~Passed(current) THEN current
    ELSE Min({i \in DOMAIN ranges : i > current /\ ~Passed(i)} \cup {Len(ranges) + 1})

Exhausted == NextRange > Len(ranges)
From == IF NextRange = current THEN off ELSE offsets[NextRange].start
Batch == Min({batch, Size - From})

(* eblob_local_ranges_check: bsearch among the ranges from the current on.  *)
Wanted(k, r) ==
    \/ ranges = <<>>
    \/ \E i \in DOMAIN ranges : i >= r /\ ranges[i].lo <= k /\ k <= ranges[i].hi

(* Mutants: the next batch begins with the last entry of this one; the     *)
(* offset is moved after the "continue" for a batch without wanted keys.   *)
AdvancedShort(o, n, kept) == IF n > 1 THEN o + n - 1 ELSE o + n
AdvancedLate(o, n, kept) == IF kept = {} THEN o ELSE o + n
Advanced(o, n, kept) == o + n

(* One turn of the loop up to the filtered batch.                          *)
ReadBatch ==
    LET kept == {p \in From + 1 .. From + Batch : Wanted(File[p].key, NextRange)} IN
    /\ pc = "read" /\ off < Size /\ ~Exhausted
    /\ current' = NextRange
    /\ batch' = Batch
    /\ off' = Advanced(From, Batch, kept)
    /\ loc' = [dc |-> [p \in kept |-> File[p]], offset |-> From]
    /\ pc' = IF kept = {} THEN "read" ELSE "hold"
    /\ UNCHANGED <<call, files, fd, offsets, visited, removes, observers>>

(* eblob_bctl_hold                                                         *)
Hold ==
    /\ pc = "hold"
    /\ pc' = "check"
    /\ UNCHANGED <<call, files, fd, offsets, current, off, batch, loc, visited, removes,
                   observers>>

(* Where the entry is that "key removed in blob, but not in index, fixing"  *)
(* writes to, and which the callback is told.  Mutant: one too far.        *)
OffsetAfter == loc.offset + 1
Offset == loc.offset

Written(s, e) == [s EXCEPT ![Offset + 1] = [e EXCEPT !.removed = TRUE]]

(* eblob_check_disk_one: the header is read again, unless READONLY.        *)
Fixes(e) == ~readonly /\ ~e.removed /\ e.pos \in gone

CheckDiskOne ==
    LET p == Min(DOMAIN loc.dc)
        e == loc.dc[p] IN
    /\ pc = "check" /\ DOMAIN loc.dc # {}
    /\ IF ~Fixes(e) THEN UNCHANGED <<index, sorted>>
       ELSE IF sorted = NoFile THEN index' = Written(index, e) /\ UNCHANGED sorted
       ELSE sorted' = Written(sorted, e) /\ UNCHANGED index
    /\ visited' = IF Fixes(e) \/ e.removed THEN visited
                  ELSE [visited EXCEPT ![e.key] = @ + 1]
    /\ loc' = [dc |-> Restrict(loc.dc, DOMAIN loc.dc \ {p}), offset |-> loc.offset + 1]
    /\ UNCHANGED <<call, blocks, gone, pc, fd, offsets, current, off, batch, removes,
                   observers>>

(* The callback returns an error, with which the iteration ends.           *)
CallbackFails ==
    /\ pc = "check" /\ DOMAIN loc.dc # {}
    /\ LET e == loc.dc[Min(DOMAIN loc.dc)] IN ~Fixes(e) /\ ~e.removed
    /\ pc' = "failed"
    /\ UNCHANGED <<call, files, fd, offsets, current, off, batch, loc, visited, removes,
                   observers>>

(* eblob_bctl_release                                                      *)
Release ==
    /\ pc = "check" /\ DOMAIN loc.dc = {}
    /\ pc' = "read"
    /\ UNCHANGED <<call, files, fd, offsets, current, off, batch, loc, visited, removes,
                   observers>>

Finish ==
    /\ pc = "read" /\ (off >= Size \/ Exhausted)
    /\ pc' = "done"
    /\ UNCHANGED <<call, files, fd, offsets, current, off, batch, loc, visited, removes,
                   observers>>

-----------------------------------------------------------------------------
(* The specification *)

(* Disjoint ranges in ascending order, as qsort leaves them.               *)
RangeSeqs ==
    {r \in UNION {[1 .. n -> {p \in [lo : Points, hi : Points] : p.lo <= p.hi}] :
                    n \in 0 .. MaxRanges} :
        \A i, j \in DOMAIN r : i < j => r[i].hi < r[j].lo}

Init ==
    /\ ranges \in RangeSeqs /\ readonly \in BOOLEAN
    /\ index \in Indexes
    /\ \/ sorted = NoFile /\ blocks = <<>>
       \/ sorted = SortedByKey(index) /\ blocks = BlocksOf(sorted)
    /\ gone = {index[i].pos : i \in {j \in DOMAIN index : index[j].removed}}
    /\ pc = "idle" /\ fd = "index" /\ offsets = <<>> /\ current = 0
    /\ off = 0 /\ batch = BatchSize /\ loc = [dc |-> <<>>, offset |-> 0]
    /\ visited = [k \in Keys |-> 0] /\ removes = 0
    /\ there = Live(index)
    /\ often = Many(index)
    /\ slipped = FALSE /\ moved = FALSE

Step == \/ Begin \/ FillRangeOffsets \/ ReadBatch \/ Hold \/ CheckDiskOne
        \/ CallbackFails \/ Release \/ Finish

Next == Step \/ IndexSort \/ \E i \in DOMAIN index : RemoveRecord(i)

(* A thread that iterates goes on: no mutex it needs is kept for ever.     *)
Spec == Init /\ [][Next]_vars /\ WF_vars(Step)

-----------------------------------------------------------------------------
(* Properties *)

(* Every record that is there from the beginning to the end of an          *)
(* iteration, and in its ranges, is passed to the callback, though batches *)
(* overlap blocks and ranges, and the index is sorted meanwhile; unless    *)
(* that comes between the choice of the file and that of the offsets, or   *)
(* the key has so many entries, of which the last is live, that they go on *)
(* behind the block a range was found to end with.                         *)
Complete ==
    pc = "done" /\ ~slipped =>
        \A k \in there \ often : Wanted(k, 1) => visited[k] > 0

(* Without ranges, as datasort_split iterates, or with one, no record is   *)
(* passed twice.                                                           *)
VisitedOnce ==
    Len(ranges) <= 1 => \A k \in Keys : visited[k] <= 1

(* What "fixing" writes over is an entry of the same key, so that no other *)
(* key loses its own: if the batch is not filtered by ranges, and its      *)
(* index is still the one in use.                                          *)
EntriesKept ==
    readonly \/ (ranges = <<>> /\ ~moved) => there \subseteq Live(InUse)

(* The iteration ends, although it may go back to the start of a range.    *)
Terminates == <>(pc \in {"done", "failed"})
=============================================================================
