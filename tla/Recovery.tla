------------------------------ MODULE Recovery ------------------------------
(***************************************************************************)
(* The files of the bases, written one system call at a time, a crash of   *)
(* the process between any two of them, and what the next eblob_init makes *)
(* of what it finds.                                                       *)
(*                                                                         *)
(* A file keeps what was written to it before the crash: the process dies, *)
(* the system does not.  A record is one slot of the data file.  What the  *)
(* module adds to EblobStore is the order of the calls; what it leaves out *)
(* are the races EblobStore is about: a sort takes only bases no operation *)
(* is in flight on, and operations on one key are serialised.              *)
(***************************************************************************)
EXTENDS Integers, Sequences, FiniteSets, FiniteSetsExt, IndexOrder

CONSTANTS
    Keys,           \* positive numbers; 0 is the key of a zero-filled entry
    RecordsInBlob,  \* cfg.records_in_blob
    IndexBlockSize, \* cfg.index_block_size
    CorruptMax,     \* EBLOB_BLOB_INDEX_CORRUPT_MAX
    Workload,       \* which operations there are
    MaxBases,       \* bound: how many bases are ever created
    MaxEvents,      \* bound: how many calls, failing reservations and crashes
    NoFile, Linked, NoLoc, Nobody, Sorter

Bases == 1 .. MaxBases
Unwritten == -1     \* a slot whose payload is not there

Entry == [key : Keys \cup {0}, pos : Nat, removed : BOOLEAN]
Cell == [key : Keys \cup {0}, ver : Nat \cup {Unwritten}, removed : BOOLEAN]
Location == [base : Bases, at : Nat \ {0}, pos : Nat \ {0}]

ASSUME KeysAssumption == Keys \subseteq Nat \ {0} /\ IsFiniteSet(Keys)
ASSUME BoundsAssumption ==
    /\ RecordsInBlob \in Nat \ {0} /\ MaxBases \in Nat \ {0}
    /\ IndexBlockSize \in Nat \ {0} /\ CorruptMax \in Nat
    /\ MaxEvents \in Nat
ASSUME NamesAssumption ==
    /\ Nobody \notin Keys \cup {Sorter} /\ Sorter \notin Keys
    /\ NoLoc \notin Location
    /\ Linked \notin Seq(Entry) \cup {NoFile}
    /\ NoFile \notin Seq(Entry) \cup Seq(Cell) \cup [cells : Seq(Cell), entries : Seq(Entry)]

VARIABLES
    \* files
    data,     \* the data file of each base, a sequence of slots, or NoFile
    whole,    \* does it reach the end of its last slot?
    index,    \* .index: a sequence of entries, NoFile, or Linked
    sorted,   \* .index.sorted, or NoFile
    chunk,    \* the result of a data sort, in its own directory
    \* memory
    phase, open, sortFd, cache, dataOffset, indexSize, op, mutex, job,
    \* bounds and observers
    ops, faults,
    acked,    \* what the last acknowledged operation of a key left
    unsure,   \* keys nothing is claimed about any more
    damaged   \* a crash has struck in a window that the code does not survive

files == <<data, whole, index, sorted, chunk>>
memory == <<phase, open, sortFd, cache, dataOffset, indexSize, op, mutex, job>>
observers == <<acked, unsure, damaged>>
vars == <<files, memory, ops, faults, observers>>

MoreEvents == ops + faults < MaxEvents

Hole == [key |-> 0, pos |-> 0, removed |-> FALSE]
Blank == [key |-> 0, ver |-> Unwritten, removed |-> FALSE]
Idle == [pc |-> "idle", ver |-> 0, base |-> 0, at |-> 0, pos |-> 0, old |-> NoLoc]

(* What the sorter does to the files of a group of bases: the calls that   *)
(* are left of the base in hand, and the bases that are left.              *)
NoJob == [group |-> {}, left |-> {}, todo |-> <<>>]

-----------------------------------------------------------------------------
(* Files *)

(* pwrite of the i-th item: a gap before it reads as zeros.                *)
WriteAt(s, i, x, zeros) ==
    [j \in 1 .. Max({Len(s), i}) |->
        IF j = i THEN x ELSE IF j <= Len(s) THEN s[j] ELSE zeros]

(* eblob_mark_index_removed; beyond the end of the file the flags alone are *)
(* an incomplete entry.                                                    *)
Marked(s, i) ==
    IF i <= Len(s) THEN [s EXCEPT ![i].removed = TRUE]
    ELSE WriteAt(s, i, [Hole EXCEPT !.removed = TRUE], Hole)

(* An incomplete entry at the end is not read.                             *)
Complete(s) ==
    IF s # <<>> /\ s[Len(s)] = [Hole EXCEPT !.removed = TRUE]
    THEN SubSeq(s, 1, Len(s) - 1) ELSE s

IndexFile(b) == IF index[b] = Linked THEN sorted[b] ELSE index[b]

(* eblob_check_record against the size of the data file; a zero-filled     *)
(* entry passes.                                                           *)
Within(b, e) == e.pos < Len(data[b]) \/ (e.pos = Len(data[b]) /\ whole[b])

Live(s, k) == {i \in DOMAIN s : s[i].key = k /\ ~s[i].removed}
LiveKeys(s) == {k \in Keys : Live(s, k) # {}}

-----------------------------------------------------------------------------
(* Lookup *)

LastBase == Max(open)
IndexFd(b) == IF b \in sortFd THEN sorted[b] ELSE IndexFile(b)

(* The bloom filter of a sorted base knows the valid records.  Bases the   *)
(* sorter keeps locked are not searched.                                   *)
OnDisk(k) ==
    {b \in sortFd \ job.group : \E i \in Live(sorted[b], k) : Within(b, sorted[b][i])}

(* eblob_cache_lookup: the hash, then the sorted bases, the newest first;  *)
(* of several live entries of a key bsearch finds any.                     *)
Locations(k) ==
    IF cache[k] # NoLoc THEN {cache[k]}
    ELSE IF OnDisk(k) = {} THEN {}
    ELSE LET b == Max(OnDisk(k)) IN
         {[base |-> b, at |-> i, pos |-> sorted[b][i].pos] :
             i \in Live(sorted[b], k)}

Slot(l) ==
    IF l.pos \in DOMAIN data[l.base] THEN data[l.base][l.pos] ELSE Blank

(* What reads of a key may return; 0 is -ENOENT.                           *)
Reads(k) ==
    IF Locations(k) = {} THEN {0} ELSE {Slot(l).ver : l \in Locations(k)}

-----------------------------------------------------------------------------
(* Write *)

Full(b) == b \in sortFd \/ indexSize[b] >= RecordsInBlob
NeedBase == open = {} \/ Full(LastBase)
Created(f) == IF f = NoFile THEN <<>> ELSE f

(* eblob_add_new_base: the index after the highest one in use.             *)
NewBase == IF open = {} THEN 1 ELSE LastBase + 1

(* Lookup, b->lock, a new base if the last one is full, and the sizes of   *)
(* eblob_write_prepare_disk_ll.                                            *)
WriteBegin(k) ==
    LET b == IF NeedBase THEN NewBase ELSE LastBase
        olds == IF Locations(k) = {} THEN {NoLoc} ELSE Locations(k) IN
    /\ phase = "up" /\ "write" \in Workload
    /\ op[k] = Idle /\ mutex = Nobody
    /\ MoreEvents /\ b \in Bases
    /\ ops' = ops + 1
    /\ open' = open \cup {b}
    /\ data' = [data EXCEPT ![b] = Created(@)]
    /\ index' = [index EXCEPT ![b] = Created(@)]
    /\ indexSize' = [indexSize EXCEPT ![b] = @ + 1]
    /\ dataOffset' = [dataOffset EXCEPT ![b] = @ + 1]
    /\ mutex' = k
    /\ \E old \in olds :
           op' = [op EXCEPT ![k] =
                    [pc |-> "index", ver |-> ops', base |-> b,
                     at |-> indexSize'[b], pos |-> dataOffset'[b], old |-> old]]
    /\ UNCHANGED <<whole, sorted, chunk, phase, sortFd, cache, job, faults, observers>>

(* eblob_commit_disk, first call: the index entry.                         *)
WriteIndex(k) ==
    LET o == op[k] IN
    /\ o.pc = "index"
    /\ index' = [index EXCEPT ![o.base] =
                    WriteAt(@, o.at, [key |-> k, pos |-> o.pos, removed |-> FALSE],
                            Hole)]
    /\ op' = [op EXCEPT ![k].pc = "header"]
    /\ UNCHANGED <<data, whole, sorted, chunk, phase, open, sortFd, cache,
                   dataOffset, indexSize, mutex, job, ops, faults,
                   observers>>

(* eblob_commit_disk, second call: the header in the data file, which now  *)
(* ends in the middle of the slot if that is the last one.                 *)
WriteHeader(k) ==
    LET o == op[k] IN
    /\ o.pc = "header"
    /\ data' = [data EXCEPT ![o.base] =
                    WriteAt(@, o.pos,
                            [key |-> k, ver |-> Unwritten, removed |-> FALSE], Blank)]
    /\ whole' = [whole EXCEPT ![o.base] = @ /\ o.pos <= Len(data[o.base])]
    /\ op' = [op EXCEPT ![k].pc = "mark"]
    /\ UNCHANGED <<index, sorted, chunk, phase, open, sortFd, cache, dataOffset,
                   indexSize, mutex, job, ops, faults, observers>>

(* err_out_rollback: the sizes are taken back, the files are not.  The     *)
(* copying of the old record fails, or one of the two calls before.        *)
Rollback(k) ==
    LET o == op[k] IN
    /\ mutex = k /\ o.pc \in {"index", "header", "mark"}
    /\ MoreEvents
    /\ faults' = faults + 1
    /\ dataOffset' = [dataOffset EXCEPT ![o.base] = @ - 1]
    /\ indexSize' = [indexSize EXCEPT ![o.base] = @ - 1]
    /\ op' = [op EXCEPT ![k] = Idle]
    /\ mutex' = Nobody
    /\ UNCHANGED <<files, phase, open, sortFd, cache, job, ops, observers>>

-----------------------------------------------------------------------------
(* Remove, and the old record of a write *)

(* eblob_remove: the lookup, which does not come past a locked base, then  *)
(* the lock of the base.                                                   *)
RemoveBegin(k) ==
    /\ phase = "up" /\ "remove" \in Workload
    /\ op[k] = Idle /\ MoreEvents
    /\ ops' = ops + 1
    /\ \E l \in Locations(k) :
           /\ l.base \notin job.group
           /\ cache[k] = NoLoc => \A b \in job.group : b < l.base
           /\ op' = [op EXCEPT ![k] = [Idle EXCEPT !.pc = "mark", !.old = l]]
    /\ UNCHANGED <<files, phase, open, sortFd, cache, dataOffset, indexSize, mutex,
                   job, faults, observers>>

(* eblob_mark_entry_removed, first call: the index in use.  A location of  *)
(* the hash whose entry a repair has cut off can meet the entry of another *)
(* key, once the index is sorted.                                          *)
MarkIndex(k) ==
    LET old == op[k].old
        meets == IF old.at \in DOMAIN IndexFd(old.base)
                 THEN {IndexFd(old.base)[old.at].key} ELSE {} IN
    /\ op[k].pc = "mark" /\ old # NoLoc
    /\ IF old.base \in sortFd
       THEN /\ sorted' = [sorted EXCEPT ![old.base] = Marked(@, old.at)]
            /\ UNCHANGED index
       ELSE /\ index' = [index EXCEPT ![old.base] = Marked(@, old.at)]
            /\ UNCHANGED sorted
    /\ op' = [op EXCEPT ![k].pc = "markdata"]
    /\ unsure' = unsure \cup (meets \ {0, k})
    /\ UNCHANGED <<data, whole, chunk, phase, open, sortFd, cache, dataOffset,
                   indexSize, mutex, job, ops, faults, acked, damaged>>

(* Second call: the header in the data file.  A write then gives b->lock   *)
(* up; a remove takes the key out of the hash and is done.                 *)
MarkData(k) ==
    LET old == op[k].old IN
    /\ op[k].pc = "markdata"
    /\ data' = IF old.pos \in DOMAIN data[old.base]
               THEN [data EXCEPT ![old.base][old.pos].removed = TRUE] ELSE data
    /\ IF mutex = k
       THEN /\ op' = [op EXCEPT ![k].pc = "payload"]
            /\ mutex' = Nobody
            /\ UNCHANGED <<cache, acked>>
       ELSE /\ op' = [op EXCEPT ![k] = Idle]
            /\ cache' = [cache EXCEPT ![k] = NoLoc]
            /\ acked' = [acked EXCEPT ![k] = 0]
            /\ UNCHANGED mutex
    /\ UNCHANGED <<whole, index, sorted, chunk, phase, open, sortFd, dataOffset,
                   indexSize, job, ops, faults, unsure, damaged>>

NothingToMark(k) ==
    /\ op[k].pc = "mark" /\ op[k].old = NoLoc
    /\ op' = [op EXCEPT ![k].pc = "payload"]
    /\ mutex' = Nobody
    /\ UNCHANGED <<files, phase, open, sortFd, cache, dataOffset, indexSize, job,
                   ops, faults, observers>>

(* The rest of the write, without b->lock: payload, footer, the header and *)
(* the index entry once more, the hash.  To other keys a crash among these *)
(* calls is a crash before the footer or one after it.                     *)
WriteCommit(k) ==
    LET o == op[k] IN
    /\ o.pc = "payload"
    /\ data' = [data EXCEPT ![o.base][o.pos] =
                    [key |-> k, ver |-> o.ver, removed |-> FALSE]]
    /\ whole' = [whole EXCEPT ![o.base] = @ \/ o.pos = Len(data[o.base])]
    /\ index' = [index EXCEPT ![o.base][o.at] =
                    [key |-> k, pos |-> o.pos, removed |-> FALSE]]
    /\ cache' = [cache EXCEPT ![k] = [base |-> o.base, at |-> o.at, pos |-> o.pos]]
    /\ op' = [op EXCEPT ![k] = Idle]
    /\ acked' = [acked EXCEPT ![k] = o.ver]
    /\ UNCHANGED <<sorted, chunk, phase, open, sortFd, dataOffset, indexSize, mutex,
                   job, ops, faults, unsure, damaged>>

-----------------------------------------------------------------------------
(* The sorter *)

InFlight(b) ==
    \E k \in Keys : /\ op[k] # Idle
                    /\ op[k].base = b \/ (op[k].old # NoLoc /\ op[k].old.base = b)

(* All bases but the last, with entries.                                   *)
Old == {b \in open \ {LastBase} : Len(IndexFd(b)) > 0 /\ ~InFlight(b)}
SorterFree == phase = "up" /\ mutex = Nobody /\ job.todo = <<>>

Flushed(ks) == [k \in Keys |-> IF k \in ks THEN NoLoc ELSE cache[k]]

(* eblob_generate_sorted_index: what it writes to .index.tmp nobody reads, *)
(* so that the renaming is its only step.                                  *)
IndexSort(b) ==
    /\ SorterFree /\ open # {} /\ b \in Old \ sortFd
    /\ sorted' = [sorted EXCEPT ![b] = SortedByKey(IndexFile(b))]
    /\ sortFd' = sortFd \cup {b}
    /\ cache' = Flushed(LiveKeys(IndexFile(b)))
    /\ UNCHANGED <<data, whole, index, chunk, phase, open, dataOffset, indexSize,
                   op, mutex, job, ops, faults, observers>>

(* Mutant: the data file is unlinked last.                                 *)
UnlinkCallsDataLast(b) == <<<<"unlink index", b>>, <<"unlink sorted", b>>,
                            <<"unlink data", b>>>>

(* The system calls of eblob_base_remove and datasort_swap_disk.           *)
UnlinkCalls(b) == <<<<"unlink data", b>>, <<"unlink index", b>>,
                    <<"unlink sorted", b>>>>
RenameCalls(b) == <<<<"rename data", b>>, <<"rename index", b>>, <<"link", b>>>>

(* What datasort_split copies: the iterator stops at an invalid record,    *)
(* and the sort fails.                                                     *)
Copied(g) == UNION {{<<b, i>> : i \in {j \in DOMAIN IndexFd(b) :
                                        ~IndexFd(b)[j].removed}} : b \in g}
Copyable(g) == /\ Copied(g) # {}
               /\ \A b \in g : \A i \in DOMAIN IndexFd(b) : Within(b, IndexFd(b)[i])
               /\ \A c \in Copied(g) : IndexFd(c[1])[c[2]].key # 0

KeyAt(c) == IndexFd(c[1])[c[2]].key
CopyOrder(g) ==
    {p \in Copied(g) \X Copied(g) :
        LET x == p[1]
            y == p[2] IN
        \/ KeyAt(x) < KeyAt(y)
        \/ KeyAt(x) = KeyAt(y) /\ x[1] < y[1]
        \/ KeyAt(x) = KeyAt(y) /\ x[1] = y[1] /\ x[2] < y[2]}

(* The records are copied in the order of their keys.                      *)
Chunk(g) ==
    LET order == InOrder(Copied(g), CopyOrder(g))
        From(i) == IndexFd(order[i][1])[order[i][2]] IN
    [cells |-> [i \in DOMAIN order |->
                  [key |-> From(i).key, ver |-> data[order[i][1]][From(i).pos].ver,
                   removed |-> FALSE]],
     entries |-> [i \in DOMAIN order |->
                    [key |-> From(i).key, pos |-> i, removed |-> FALSE]]]

(* datasort_swap_memory, and the beginning of datasort_swap_disk.          *)
SwapBegin(g) ==
    LET first == Min(g)
        records == Cardinality(Copied(g)) IN
    /\ SorterFree /\ open # {} /\ g \subseteq Old /\ g # {}
    /\ Copyable(g)
    /\ chunk' = Chunk(g)
    /\ open' = open \ (g \ {first})
    /\ sortFd' = (sortFd \ g) \cup {first}
    /\ cache' = Flushed(LiveKeys(chunk'.entries))
    /\ indexSize' = [indexSize EXCEPT ![first] = records]
    /\ dataOffset' = [dataOffset EXCEPT ![first] = records]
    /\ job' = [group |-> g, left |-> g \ {first}, todo |-> UnlinkCalls(first)]
    /\ mutex' = Sorter
    /\ UNCHANGED <<data, whole, index, sorted, phase, op, ops, faults,
                   observers>>

(* A base all of whose records are removed: eblob_defrag, or the load.     *)
AllRemoved(b) == \A i \in DOMAIN IndexFd(b) : IndexFd(b)[i].removed

(* Mutant: the last base too.                                              *)
RemovableLast ==
    {b \in open : ~InFlight(b) /\ AllRemoved(b) /\ indexSize[b] = Len(IndexFd(b))}

Removable == {b \in Old : AllRemoved(b) /\ indexSize[b] = Len(IndexFd(b))}

RemoveBase(b) ==
    /\ SorterFree /\ open # {} /\ b \in Removable
    /\ open' = open \ {b}
    /\ sortFd' = sortFd \ {b}
    /\ job' = [group |-> {b}, left |-> {}, todo |-> UnlinkCalls(b)]
    /\ mutex' = Sorter
    /\ UNCHANGED <<files, phase, cache, dataOffset, indexSize, op, ops, faults, observers>>

(* What comes after the next system call: all bases of the group are       *)
(* unlinked, in order, before the files of a data sort get the name of the *)
(* first one.                                                              *)
NextJob ==
    IF Len(job.todo) > 1 THEN [job EXCEPT !.todo = Tail(@)]
    ELSE IF job.left # {}
    THEN [job EXCEPT !.left = @ \ {Min(@)}, !.todo = UnlinkCalls(Min(job.left))]
    ELSE IF chunk # NoFile /\ job.todo[1][1] # "link"
    THEN [job EXCEPT !.todo = RenameCalls(Min(job.group))]
    ELSE NoJob

(* The next system call.                                                   *)
DiskStep ==
    LET call == job.todo[1][1]
        b == job.todo[1][2] IN
    /\ job.todo # <<>>
    /\ data' = CASE call = "unlink data" -> [data EXCEPT ![b] = NoFile]
                 [] call = "rename data" -> [data EXCEPT ![b] = chunk.cells]
                 [] OTHER -> data
    /\ whole' = IF call = "rename data" THEN [whole EXCEPT ![b] = TRUE] ELSE whole
    /\ index' = CASE call = "unlink index" -> [index EXCEPT ![b] = NoFile]
                  [] call = "link" -> [index EXCEPT ![b] = Linked]
                  [] OTHER -> index
    /\ sorted' = CASE call = "unlink sorted" -> [sorted EXCEPT ![b] = NoFile]
                   [] call = "rename index" -> [sorted EXCEPT ![b] = chunk.entries]
                   [] OTHER -> sorted
    /\ chunk' = IF call = "link" THEN NoFile ELSE chunk
    /\ job' = NextJob
    /\ mutex' = IF NextJob = NoJob THEN Nobody ELSE mutex
    /\ UNCHANGED <<phase, open, sortFd, cache, dataOffset, indexSize, op, ops,
                   faults, observers>>

-----------------------------------------------------------------------------
(* Crash *)

(* Entries whose record the data file does not hold to its end.            *)
Torn(b) == {i \in DOMAIN IndexFile(b) : ~Within(b, IndexFile(b)[i])}
Torns == {b \in open : data[b] # NoFile /\ index[b] # NoFile /\ Torn(b) # {}}

(* Repair cuts the index before the last valid entry, if the base is still *)
(* written to; and if that is a hole, loses the end of the data.           *)
Neighbours(b) ==
    LET s == IndexFile(b)
        last == s[Min(Torn(b)) - 1] IN
    IF Len(s) >= RecordsInBlob \/ Min(Torn(b)) = 1 THEN {}
    ELSE IF last.key # 0 THEN {last.key} ELSE LiveKeys(s)

(* An entry that a failed reservation left behind, and no other has been   *)
(* written over yet.                                                       *)
LeftBehind(b) ==
    {IndexFile(b)[i].key : i \in {j \in DOMAIN IndexFile(b) :
        j > indexSize[b] \/ \E k \in Keys : op[k].pc = "index" /\ op[k].base = b
                                             /\ op[k].at = j}}

(* Between the rename of the merged index and its link.                    *)
Unlinked == chunk # NoFile /\ job.todo # <<>> /\ job.todo[1][1] = "link"

Exposed ==
    (UNION {Neighbours(b) : b \in Torns})
    \cup (UNION {LeftBehind(b) : b \in {c \in open \ sortFd : index[c] # NoFile}})
    \cup (IF job.todo # <<>> /\ chunk # NoFile
             /\ job.todo[1] # <<"unlink data", Min(job.group)>>
          THEN LiveKeys(chunk.entries) ELSE {})

(* What every restart begins with.                                         *)
Reset ==
    /\ open' = {} /\ sortFd' = {}
    /\ cache' = [k \in Keys |-> NoLoc]
    /\ dataOffset' = [b \in Bases |-> 0]
    /\ indexSize' = [b \in Bases |-> 0]
    /\ op' = [k \in Keys |-> Idle]
    /\ mutex' = Nobody
    /\ job' = NoJob

(* The process dies.  With nothing in flight this is also a clean exit.    *)
Crash ==
    /\ phase = "up" /\ MoreEvents
    /\ faults' = faults + 1
    /\ phase' = "down"
    /\ Reset
    /\ unsure' = unsure \cup {k \in Keys : op[k] # Idle} \cup (Exposed \ {0})
    /\ damaged' = (damaged \/ Torns # {} \/ Unlinked)
    /\ UNCHANGED <<files, ops, acked>>

-----------------------------------------------------------------------------
(* eblob_init *)

Found == {b \in Bases : data[b] # NoFile}

(* eblob_base_ctl_open: a sorted index of another size than .index is      *)
(* thrown away.                                                            *)
Kept(b) == sorted[b] # NoFile /\ index[b] # NoFile
           /\ Len(sorted[b]) = Len(IndexFile(b))

(* The sorted index is made for a full base, by eblob_base_ctl_open, and   *)
(* for all but the last one, by eblob_scan_base.                           *)
ToSort(b) ==
    /\ ~Kept(b) /\ Created(index[b]) # <<>>
    /\ Len(Created(index[b])) >= RecordsInBlob \/ b # Max(Found)

(* eblob_index_blocks_fill gives up on an invalid first or last entry of a *)
(* block, and on too many invalid ones.                                    *)
BlocksFill(b, s) ==
    LET invalid == {i \in DOMAIN s : ~Within(b, s[i])} IN
    /\ \A i \in invalid : (i - 1) % IndexBlockSize \notin {0, IndexBlockSize - 1}
    /\ Cardinality(invalid) <= CorruptMax + 1

Openable(b) ==
    /\ sorted[b] # NoFile => BlocksFill(b, sorted[b]) /\ index[b] # NoFile
    /\ ToSort(b) => BlocksFill(b, SortedByKey(Created(index[b])))

(* eblob_scan_base; a stale directory of a data sort is removed.           *)
Scan ==
    /\ phase = "down"
    /\ chunk' = NoFile
    /\ IF \A b \in Found : Openable(b)
       THEN /\ phase' = "scanned"
            /\ open' = Found
            /\ sortFd' = {b \in Found : Kept(b) \/ ToSort(b)}
            /\ index' = [b \in Bases |-> IF b \in Found THEN Created(index[b])
                                         ELSE index[b]]
            /\ sorted' = [b \in Bases |->
                            IF b \notin Found \/ Kept(b) THEN sorted[b]
                            ELSE IF ToSort(b) THEN SortedByKey(Created(index[b]))
                            ELSE NoFile]
            /\ indexSize' = [b \in Bases |->
                               IF b \in Found THEN Len(IndexFile(b)') ELSE 0]
       ELSE /\ phase' = "failed"
            /\ UNCHANGED <<open, sortFd, index, sorted, indexSize>>
    /\ UNCHANGED <<data, whole, cache, dataOffset, op, mutex, job, ops, faults, observers>>

(* The iterator of the load stops at the first invalid entry.              *)
Parsed(b) ==
    LET s == Complete(IndexFile(b)) IN
    IF Torn(b) = {} THEN Len(s) ELSE Min(Torn(b)) - 1

Unsorted == open \ sortFd

(* Nothing parsed, nothing to truncate to: eblob_init fails.               *)
Loadable(b) ==
    \/ Complete(IndexFile(b)) = <<>>
    \/ Parsed(b) > 0 /\ data[b] # <<>>

(* The end of the last parsed record, by the size its header has; for a    *)
(* hole that is the header of the first slot.                              *)
RepairedOffset(b) ==
    LET e == IndexFile(b)[Parsed(b)] IN IF e.key = 0 THEN 1 ELSE e.pos

RepairedIndex(b) ==
    LET s == Complete(IndexFile(b)) IN
    IF Parsed(b) = Len(s) THEN s ELSE SubSeq(s, 1, Parsed(b) - 1)

(* Mutants: the flag of an entry is not looked at; offsets from zero.      *)
LoadedRemoved(k) ==
    LET at == [b \in Unsorted |-> {i \in 1 .. Parsed(b) : IndexFile(b)[i].key = k}]
        bs == {b \in Unsorted : at[b] # {}} IN
    IF bs = {} THEN NoLoc
    ELSE LET b == Max(bs) IN
         [base |-> b, at |-> Max(at[b]), pos |-> IndexFile(b)[Max(at[b])].pos]
LoadedFromZero(k) ==
    LET at == [b \in Unsorted |-> {i \in Live(IndexFile(b), k) : i <= Parsed(b)}]
        bs == {b \in Unsorted : at[b] # {}} IN
    IF bs = {} THEN NoLoc
    ELSE LET b == Max(bs) IN
         [base |-> b, at |-> Max(at[b]) - 1, pos |-> IndexFile(b)[Max(at[b])].pos]

(* eblob_blob_iter: the last live entry of a key stays in the hash.        *)
Loaded(k) ==
    LET at == [b \in Unsorted |-> {i \in Live(IndexFile(b), k) : i <= Parsed(b)}]
        bs == {b \in Unsorted : at[b] # {}} IN
    IF bs = {} THEN NoLoc
    ELSE LET b == Max(bs) IN
         [base |-> b, at |-> Max(at[b]), pos |-> IndexFile(b)[Max(at[b])].pos]

(* eblob_iterate_existing over the bases without a sorted index.           *)
Load ==
    /\ phase = "scanned"
    /\ IF \A b \in Unsorted : Loadable(b)
       THEN /\ phase' = "up"
            /\ cache' = [k \in Keys |-> Loaded(k)]
            /\ index' = [b \in Bases |-> IF b \in Unsorted THEN RepairedIndex(b)
                                         ELSE index[b]]
            /\ indexSize' = [b \in Bases |->
                               IF b \in Unsorted THEN Len(Complete(IndexFile(b)))
                               ELSE indexSize[b]]
            /\ dataOffset' = [b \in Bases |->
                                IF b \in Unsorted
                                THEN IF Parsed(b) < Len(Complete(IndexFile(b)))
                                     THEN RepairedOffset(b) ELSE Len(data[b])
                                ELSE 0]
       ELSE /\ phase' = "failed"
            /\ UNCHANGED <<cache, index, indexSize, dataOffset>>
    /\ UNCHANGED <<data, whole, sorted, chunk, open, sortFd, op, mutex, job, ops,
                   faults, observers>>

-----------------------------------------------------------------------------
(* The specification *)

Init ==
    /\ data = [b \in Bases |-> NoFile] /\ whole = [b \in Bases |-> TRUE]
    /\ index = [b \in Bases |-> NoFile] /\ sorted = [b \in Bases |-> NoFile]
    /\ chunk = NoFile
    /\ phase = "up" /\ open = {} /\ sortFd = {}
    /\ cache = [k \in Keys |-> NoLoc]
    /\ dataOffset = [b \in Bases |-> 0] /\ indexSize = [b \in Bases |-> 0]
    /\ op = [k \in Keys |-> Idle] /\ mutex = Nobody
    /\ job = NoJob
    /\ ops = 0 /\ faults = 0
    /\ acked = [k \in Keys |-> 0] /\ unsure = {} /\ damaged = FALSE

Next ==
    \/ \E k \in Keys : WriteBegin(k)
    \/ \E k \in Keys : WriteIndex(k)
    \/ \E k \in Keys : WriteHeader(k)
    \/ \E k \in Keys : Rollback(k)
    \/ \E k \in Keys : RemoveBegin(k)
    \/ \E k \in Keys : MarkIndex(k)
    \/ \E k \in Keys : MarkData(k)
    \/ \E k \in Keys : NothingToMark(k)
    \/ \E k \in Keys : WriteCommit(k)
    \/ \E b \in Bases : IndexSort(b)
    \/ \E g \in SUBSET Bases : SwapBegin(g)
    \/ \E b \in Bases : RemoveBase(b)
    \/ DiskStep
    \/ Crash
    \/ Scan
    \/ Load

Spec == Init /\ [][Next]_vars

-----------------------------------------------------------------------------
(* Properties *)

(* Every variable has its type; locations are positions in files.          *)
TypeOK ==
    /\ data \in [Bases -> Seq(Cell) \cup {NoFile}]
    /\ whole \in [Bases -> BOOLEAN]
    /\ index \in [Bases -> Seq(Entry) \cup {NoFile, Linked}]
    /\ sorted \in [Bases -> Seq(Entry) \cup {NoFile}]
    /\ chunk = NoFile \/ chunk \in [cells : Seq(Cell), entries : Seq(Entry)]
    /\ phase \in {"up", "down", "scanned", "failed"}
    /\ open \subseteq Bases /\ sortFd \subseteq open
    /\ cache \in [Keys -> Location \cup {NoLoc}]
    /\ dataOffset \in [Bases -> Nat] /\ indexSize \in [Bases -> Nat]
    /\ \A k \in Keys :
          /\ op[k].pc \in {"idle", "index", "header", "mark", "markdata", "payload"}
          /\ op[k].old \in Location \cup {NoLoc}
          /\ op[k].pc \in {"index", "header", "payload"} =>
                 [base |-> op[k].base, at |-> op[k].at, pos |-> op[k].pos] \in Location
    /\ mutex \in Keys \cup {Nobody, Sorter}
    /\ job.group \subseteq Bases
    /\ acked \in [Keys -> Nat] /\ unsure \subseteq Keys /\ damaged \in BOOLEAN

(* A key none of whose operations a crash cut short, and whose record was  *)
(* not in a window the code does not survive, reads as its last            *)
(* acknowledged operation left it: through sorts, merges, removed bases,   *)
(* failed reservations, repairs and any number of crashes.                 *)
SettledSurvive ==
    phase = "up" /\ job.todo = <<>> =>
        \A k \in Keys \ unsure : op[k] = Idle => Reads(k) = {acked[k]}

(* eblob_init fails only after a crash between the index entry of a record *)
(* and its footer, or between the rename and the link of a data sort.      *)
OpensAfterCrash == phase = "failed" => damaged

(* Repair "truncat[es] to the last parsed entry": what is appended next    *)
(* comes after every record that lookups can reach, and overwrites none.   *)
AppendsBehindRecords ==
    phase = "up" =>
        \A k \in Keys : cache[k] # NoLoc /\ cache[k].base \notin sortFd =>
            cache[k].pos <= dataOffset[cache[k].base]

(* Whenever both are there, .index and .index.sorted have the same number  *)
(* of entries: the sorted index is never made again from an .index that    *)
(* has missed the removals.                                                *)
SortedMatchesIndex ==
    \A b \in Bases : data[b] # NoFile /\ sorted[b] # NoFile /\ index[b] # NoFile
        => Len(sorted[b]) = Len(IndexFile(b))

(* A new base does not find files of a removed one under its name.         *)
NamesFresh ==
    phase = "up" =>
        \A b \in Bases : (open = {} \/ b > LastBase) =>
            data[b] = NoFile /\ index[b] = NoFile /\ sorted[b] = NoFile
=============================================================================
