----------------------------- MODULE EblobStore -----------------------------
(***************************************************************************)
(* The core of eblob: bases (blob files) with their on-disk indexes, the   *)
(* in-memory cache of unsorted bases, the write / prepare / plain-write /  *)
(* commit / remove operations, and the defragmentation thread that sorts   *)
(* indexes and data under them with the help of a binlog of removed keys.  *)
(*                                                                         *)
(* Granularity: one action per section of code that runs under b->lock or  *)
(* bctl->lock, or between two such sections.  All operations on one key    *)
(* are issued by one thread at a time (as the stress test does), so the    *)
(* in-flight operation of key k is op[k]; operations on different keys and *)
(* the defragmentation thread interleave freely.                           *)
(***************************************************************************)
EXTENDS Integers, Sequences, FiniteSets, SequencesExt, Functions

CONSTANTS
    Keys,           \* record keys; numbers, because sorted indexes order them
    Vals,           \* what one write puts into one half of a record
    RecordsInBlob,  \* cfg.records_in_blob: a base with that many records is full
    Workload,       \* the operations the clients call
    Retry,          \* do clients use a key again after a write of it failed?
    NoFooter,       \* EBLOB_NO_FOOTER: records have no footer, room is preallocated
    MaxBases,       \* bound: how many eblob_base_ctl objects are ever created
    MaxOps,         \* bound: how many client calls
    MaxFailures,    \* bound: how many injected I/O failures
    Blank,          \* what a half holds that nothing was written to
    NoLoc, Absent, Broken

Bases == 1 .. MaxBases

(***************************************************************************)
(* A payload is a pair: a full write sets both halves, a partial write (an *)
(* offset write or an append) only the tail, keeping the head it finds.    *)
(***************************************************************************)
Payload == (Vals \cup {Blank}) \X (Vals \cup {Blank})
Junk == <<Blank, Blank>>
Full(v) == <<v, v>>
Patched(p, v) == <<p[1], v>>

(* The flag word of a disk control: REMOVE replaces all the other flags.   *)
Flags == {"committed", "uncommitted", "removed"}
Entry == [key : Keys, flag : Flags, pos : Nat]        \* index file
Record == [key : Keys, flag : Flags, val : Payload]   \* data file
(* A ram control: the base, the index offset and the data offset.          *)
Loc == [base : Bases, ip : Nat, dp : Nat]

ASSUME KeysAssumption == Keys \subseteq Nat /\ IsFiniteSet(Keys)
ASSUME ValsAssumption == Blank \notin Vals
ASSUME BoundsAssumption ==
    /\ RecordsInBlob \in Nat \ {0}
    /\ MaxBases \in Nat
    /\ MaxOps \in Nat
    /\ MaxFailures \in Nat
    /\ Retry \in BOOLEAN
    /\ NoFooter \in BOOLEAN
ASSUME NoValueAssumption ==
    /\ NoLoc \notin Loc
    /\ Absent \notin Payload /\ Broken \notin Payload /\ Absent # Broken

VARIABLES
    bases,    \* members of the list b->bases; the others are closed
    place,    \* bctl->index: the list is kept in this order
    born,     \* number of base objects created so far (they are never freed)
    sorted,   \* bases with a sorted index (sort.fd >= 0)
    logging,  \* bases whose binlog is enabled
    logged,   \* keys in the binlog of each base
    index,    \* the index file in use of each base (sorted or not)
    data,     \* the data file of each base
    short,    \* bases whose data file ends before its last record does
    gone,     \* statistics: RECORDS_REMOVED of each base
    cache,    \* the in-memory hash: where each cached key lives
    op,       \* the operation in flight on each key
    job,      \* what the defragmentation thread is doing
    group,    \* the bases it is working on
    left,     \* those of them datasort has still to split
    snap,     \* indexsort's in-memory copy of the index, sorted
    chunk,    \* records datasort has copied out
    failures, \* injected failures so far
    calls,    \* client calls so far
    \* observers: what the client may rely on
    shadow,   \* the content the client has given each key
    status,   \* what it was promised about it
    failed,   \* keys with a write that failed after it had its slot
    torn,     \* keys datasort copied before their payload and footer were written
    crossed   \* an index sort has moved an entry somebody holds the offset of

disk == <<bases, place, born, sorted, index, data, gone>>
binlog == <<logging, logged>>
defrag == <<job, group, left, snap, chunk>>
spent == <<failures, calls>>
promise == <<shadow, status, failed, torn, crossed>>
vars == <<disk, short, binlog, cache, op, defrag, spent, promise>>

-----------------------------------------------------------------------------
(* Lookup *)

Pcs == {"idle", "prep", "payload", "commit", "ram", "remove"}
Kinds == {"write", "patch", "prepare"}

Op == [pc : Pcs, kind : Kinds, val : Vals \cup {Blank}, copy : BOOLEAN,
       moved : BOOLEAN, old : Loc \cup {NoLoc}, new : Loc \cup {NoLoc}]

Idle == [pc |-> "idle", kind |-> "write", val |-> Blank, copy |-> FALSE,
         moved |-> FALSE, old |-> NoLoc, new |-> NoLoc]

Live(e) == e.flag # "removed"

(* Live entries of k in the indexes idx of the bases bs, as <<base, slot>>. *)
Hits(idx, k, bs) ==
    UNION {{<<b, i>> : i \in {j \in DOMAIN idx[b] :
                                 idx[b][j].key = k /\ Live(idx[b][j])}} : b \in bs}

LocOf(idx, h) == [base |-> h[1], ip |-> h[2], dp |-> idx[h[1]][h[2]].pos]

(* eblob_disk_index_lookup: only sorted bases, newest first.  Two live     *)
(* entries of one key in the same base could both be met.                  *)
DiskLookup(k) ==
    LET hits == Hits(index, k, bases \cap sorted)
    IN {LocOf(index, h) :
          h \in {g \in hits : \A f \in hits : place[f[1]] <= place[g[1]]}}

(* eblob_cache_lookup: the hash first, then the disk; {} is -ENOENT.       *)
Found(k) == IF cache[k] # NoLoc THEN {cache[k]} ELSE DiskLookup(k)

(* What eblob_read returns: flags from the index entry, data at the        *)
(* location; Broken stands for the error of a closed descriptor.           *)
Read(k) ==
    IF Found(k) = {} THEN Absent
    ELSE LET l == CHOOSE l \in Found(k) : TRUE
         IN IF l.base \notin bases THEN Broken
            ELSE IF index[l.base][l.ip].flag = "uncommitted" THEN Absent
            ELSE data[l.base][l.dp].val

-----------------------------------------------------------------------------
(* Writing to the last base *)

NotLast == {b \in bases : \E c \in bases : place[b] < place[c]}

(* There is no base, or the last one takes no more records: it has as many *)
(* as records_in_blob, or its index is already sorted.                     *)
NeedsNewBase ==
    \A b \in bases \ NotLast :
        Len(index[b]) >= RecordsInBlob \/ b \in sorted

(* eblob_add_new_base: a number no base has had, so the end of the list.   *)
AddNewBase ==
    IF NeedsNewBase
    THEN /\ born < MaxBases
         /\ born' = born + 1
         /\ bases' = bases \cup {born + 1}
         /\ place' = [place EXCEPT ![born + 1] = born + 1]
    ELSE UNCHANGED <<born, bases, place>>

(* Where the next record goes: the first free slot of the last base.       *)
NewLocs ==
    {[base |-> b, ip |-> Len(index[b]) + 1, dp |-> Len(data[b]) + 1] :
        b \in IF NeedsNewBase THEN {born + 1} \cap Bases ELSE bases \ NotLast}

(* eblob_mark_entry_removed: binlog first, then the index entry, then the  *)
(* header in the data file, then the statistics.                           *)
BinlogAppendForgotten(k, l) == logged
BinlogAppend(k, l) ==
    IF l.base \in logging
    THEN [logged EXCEPT ![l.base] = @ \cup {k}]
    ELSE logged

CountMarkedDown(l) == [gone EXCEPT ![l.base] = @ - 1]
CountMarkedForgotten(l) == gone
CountMarked(l) == [gone EXCEPT ![l.base] = @ + 1]
IndexMarked(idx, l) == [idx EXCEPT ![l.base][l.ip].flag = "removed"]
DataMarked(dat, l) == [dat EXCEPT ![l.base][l.dp].flag = "removed"]

(* eblob_write_prepare_disk_ll: reserve slot l at the end of the last base, *)
(* commit the header at once, and mark the old record removed.  f and p    *)
(* are the flags and the payload the caller leaves there before it lets    *)
(* go of b->lock.                                                          *)
PrepareDiskLL(k, l, old, f, p) ==
    LET idx == [index EXCEPT ![l.base] =
                    Append(@, [key |-> k, flag |-> f, pos |-> l.dp])]
        dat == [data EXCEPT ![l.base] =
                    Append(@, [key |-> k, flag |-> f, val |-> p])]
    IN /\ old # NoLoc => old.base \in bases
       /\ AddNewBase
       /\ index' = IF old = NoLoc THEN idx ELSE IndexMarked(idx, old)
       /\ data' = IF old = NoLoc THEN dat ELSE DataMarked(dat, old)
       /\ logged' = IF old = NoLoc THEN logged ELSE BinlogAppend(k, old)
       /\ gone' = IF old = NoLoc THEN gone ELSE CountMarked(old)
       /\ UNCHANGED <<sorted, logging>>

(* eblob_commit_disk: the same header goes to the index and the data file. *)
IndexCommitted(k, l, f) ==
    [index EXCEPT ![l.base][l.ip] = [key |-> k, flag |-> f, pos |-> l.dp]]
DataCommitted(k, l, f, p) ==
    [data EXCEPT ![l.base][l.dp] = [key |-> k, flag |-> f, val |-> p]]

(* The file ends with the header of its last record until the footer is    *)
(* written behind the payload, unless the room was preallocated (for a     *)
(* copy, or for want of a footer) or another record follows.               *)
Reserved(l, allocated) == IF allocated THEN short \ {l.base} ELSE short \cup {l.base}
Footed(l) == IF l.dp = Len(data[l.base]) THEN short \ {l.base} ELSE short

(* In place is forbidden while a sort is copying the base.                 *)
InPlaceAlways(l) == TRUE
InPlace(l) == l.base \notin logging

(* A client calls: no other call on the same key is in progress.           *)
Call(k) ==
    /\ op[k] = Idle
    /\ Retry \/ k \notin failed
    /\ calls < MaxOps
    /\ calls' = calls + 1

Begin(k, o) == op' = [op EXCEPT ![k] = o]
End(k) == op' = [op EXCEPT ![k] = Idle]
Promise(k, s, p) ==
    /\ status' = [status EXCEPT ![k] = s]
    /\ shadow' = [shadow EXCEPT ![k] = p]
    /\ UNCHANGED <<failed, torn, crossed>>

(* What a write of kind wr leaves in a record that held p.                 *)
Written(wr, p, v) == IF wr = "write" THEN Full(v) ELSE Patched(p, v)

(* What the client expects a write to leave: an absent record has no head. *)
Expected(k, wr, v) ==
    Written(wr, IF status[k] = "absent" THEN Junk ELSE shadow[k], v)

-----------------------------------------------------------------------------
(* eblob_writev_return *)

(* eblob_try_overwritev succeeds: the record exists, the new data fits and *)
(* no sort works on its base.  Payload, footer, headers and hash change in *)
(* one b->lock section (the hash entry, if any, stays as it was).          *)
Overwrite(k, wr, v) ==
    /\ Call(k)
    /\ \E l \in Found(k) :
        /\ l.base \in bases
        /\ InPlace(l)
        /\ index' = IndexCommitted(k, l, "committed")
        /\ data' = DataCommitted(k, l, "committed",
                                 Written(wr, data[l.base][l.dp].val, v))
        /\ short' = Footed(l)
    /\ Promise(k, "visible", Expected(k, wr, v))
    /\ UNCHANGED <<bases, place, born, sorted, gone, binlog, cache, op, defrag,
                   failures>>

(* A write that keeps any part of the old record has to copy it.           *)
MustCopyNever(wr) == FALSE
MustCopy(wr) == wr = "patch"

(* It does not: no record, no room (-E2BIG) or a sort is on (-EROFS).  The *)
(* old location is kept for the next section, with the defrag generation.  *)
StartWrite(k, wr, v) ==
    /\ Call(k)
    /\ \/ /\ Found(k) = {}
          /\ Begin(k, [Idle EXCEPT !.pc = "prep", !.kind = wr, !.val = v])
       \/ \E l \in Found(k) :
            /\ l.base \in bases
            /\ Begin(k, [Idle EXCEPT !.pc = "prep", !.kind = wr, !.val = v,
                                     !.old = l, !.copy = MustCopy(wr)])
    /\ UNCHANGED <<disk, short, binlog, cache, defrag, failures, promise>>

(* eblob_write_prepare without a reusable record: same, then copies.       *)
StartPrepare(k) ==
    /\ Call(k)
    /\ \/ /\ Found(k) = {}
          /\ Begin(k, [Idle EXCEPT !.pc = "prep", !.kind = "prepare"])
       \/ \E l \in Found(k) :
            /\ l.base \in bases
            /\ Begin(k, [Idle EXCEPT !.pc = "prep", !.kind = "prepare",
                                     !.old = l, !.copy = TRUE])
    /\ UNCHANGED <<disk, short, binlog, cache, defrag, failures, promise>>

(* A location looked up before the lock is looked up again if a sort has   *)
(* bumped defrag_generation since.                                         *)
OldLocs(k) ==
    IF ~op[k].moved THEN {op[k].old}
    ELSE IF Found(k) = {} THEN {NoLoc} ELSE Found(k)

(* eblob_splice_data or eblob_copy_data: the old payload moves along, if   *)
(* there is one to copy.                                                   *)
Copied(k, old) ==
    IF op[k].copy /\ old # NoLoc THEN data[old.base][old.dp].val ELSE Junk

(* eblob_write_prepare_disk, one b->lock section.                          *)
PrepareDisk(k) ==
    /\ op[k].pc = "prep"
    /\ \E old \in OldLocs(k), l \in NewLocs :
        /\ PrepareDiskLL(k, l, old,
              IF op[k].kind = "prepare" THEN "uncommitted" ELSE "committed",
              Copied(k, old))
        /\ short' = Reserved(l, NoFooter \/ op[k].copy \/ op[k].kind = "prepare")
        /\ Begin(k, [op[k] EXCEPT !.new = l, !.old = NoLoc, !.moved = FALSE,
                       !.pc = IF op[k].kind = "prepare" THEN "ram" ELSE "payload"])
    /\ UNCHANGED <<cache, defrag, spent, promise>>

(* The same section when eblob_check_free_space says no.  (The -EAGAIN of  *)
(* a closed old base is never met: see OldValid.)                          *)
PrepareError(k) ==
    /\ op[k].pc = "prep"
    /\ End(k)
    /\ UNCHANGED <<disk, short, binlog, cache, defrag, spent, promise>>

(* eblob_writev_raw into the reserved slot, without any lock.              *)
WritePayload(k) ==
    LET l == op[k].new IN
    /\ op[k].pc = "payload"
    /\ l.base \in bases
    /\ data' = [data EXCEPT ![l.base][l.dp].val =
                    Written(op[k].kind, @, op[k].val)]
    /\ Begin(k, [op[k] EXCEPT !.pc = "commit"])
    /\ UNCHANGED <<bases, place, born, sorted, index, gone, short, binlog, cache,
                   defrag, spent, promise>>

(* eblob_write_commit_nolock: footer, headers, hash, without b->lock.  The *)
(* index written is wc->index_fd, the unsorted one even if a sorted one is *)
(* in use by now.                                                          *)
CommitWrite(k) ==
    LET l == op[k].new IN
    /\ op[k].pc = "commit"
    /\ l.base \in bases
    /\ index' = IF l.base \in sorted THEN index
                                     ELSE IndexCommitted(k, l, "committed")
    /\ data' = DataCommitted(k, l, "committed", data[l.base][l.dp].val)
    /\ short' = Footed(l)
    /\ cache' = [cache EXCEPT ![k] = l]
    /\ End(k)
    /\ Promise(k, "visible", Expected(k, op[k].kind, op[k].val))
    /\ UNCHANGED <<bases, place, born, sorted, gone, binlog, defrag, spent>>

(* eblob_commit_ram, the last step of eblob_write_prepare.                 *)
CommitRam(k) ==
    LET l == op[k].new IN
    /\ op[k].pc = "ram"
    /\ l.base \in bases
    /\ cache' = [cache EXCEPT ![k] = l]
    /\ End(k)
    /\ Promise(k, "hidden", IF status[k] = "absent" THEN Junk ELSE shadow[k])
    /\ UNCHANGED <<disk, short, binlog, defrag, spent>>

(* One of the unlocked steps fails: an injected I/O error, or the          *)
(* descriptors were closed by datasort (-EBADF, or -EAGAIN from            *)
(* eblob_cache_insert).  A commit may fail before or after its footer.     *)
FailWrite(k) ==
    /\ op[k].pc \in {"payload", "commit", "ram"}
    /\ \/ /\ op[k].new.base \notin bases
          /\ UNCHANGED failures
       \/ /\ op[k].new.base \in bases
          /\ failures < MaxFailures
          /\ failures' = failures + 1
    /\ End(k)
    /\ status' = [status EXCEPT ![k] = "dirty"]
    /\ failed' = failed \cup {k}
    /\ \/ UNCHANGED short
       \/ op[k].pc = "commit" /\ op[k].new.base \in bases /\ short' = Footed(op[k].new)
    /\ UNCHANGED <<disk, binlog, cache, defrag, calls, shadow, torn, crossed>>

-----------------------------------------------------------------------------
(* eblob_plain_writev: payload only; the header and the footer wait for a  *)
(* commit.  During a sort the record moves to the last base, and the flags *)
(* of its new header are 0.                                                *)
PlainWrite(k, v) ==
    /\ Call(k)
    /\ \E l \in Found(k) :
        /\ l.base \in bases
        /\ \/ /\ InPlace(l)
              /\ data' = [data EXCEPT ![l.base][l.dp].val = Patched(@, v)]
              /\ UNCHANGED <<bases, place, born, sorted, index, gone, short, binlog,
                             cache>>
           \/ /\ ~InPlace(l)
              /\ \E new \in NewLocs :
                    /\ PrepareDiskLL(k, new, l, "committed",
                                     Patched(data[l.base][l.dp].val, v))
                    /\ short' = Reserved(new, TRUE)
                    /\ cache' = [cache EXCEPT ![k] = new]
    /\ Promise(k, IF status[k] = "visible" THEN "dirty" ELSE status[k],
                  Patched(shadow[k], v))
    /\ UNCHANGED <<op, defrag, failures>>

(* eblob_write_commit, all under b->lock; keep is flags == ~0.             *)
Commit(k, keep) ==
    /\ Call(k)
    /\ \E l \in Found(k) :
        LET f == IF keep /\ index[l.base][l.ip].flag = "uncommitted"
                 THEN "uncommitted" ELSE "committed"
            p == data[l.base][l.dp].val
        IN
        /\ l.base \in bases
        /\ \/ /\ InPlace(l)
              /\ index' = IndexCommitted(k, l, f)
              /\ data' = DataCommitted(k, l, f, p)
              /\ short' = Footed(l)
              /\ UNCHANGED <<bases, place, born, sorted, gone, binlog, cache>>
           \/ /\ ~InPlace(l)
              /\ \E new \in NewLocs :
                    /\ PrepareDiskLL(k, new, l, f, p)
                    /\ short' = Reserved(new, TRUE)
                    /\ cache' = [cache EXCEPT ![k] = new]
    /\ Promise(k, IF keep /\ status[k] = "hidden" THEN "hidden" ELSE "visible",
                  shadow[k])
    /\ UNCHANGED <<op, defrag, failures>>

(* eblob_remove: look up without a lock ...                                *)
RemoveLookup(k) ==
    /\ Call(k)
    /\ \E l \in Found(k) : Begin(k, [Idle EXCEPT !.pc = "remove", !.old = l])
    /\ UNCHANGED <<disk, short, binlog, cache, defrag, failures, promise>>

(* ... then eblob_mark_entry_removed_purge under bctl->lock, which fails   *)
(* with -EBADF if the base was closed in between.                          *)
RemoveMark(k) ==
    LET l == op[k].old IN
    /\ op[k].pc = "remove"
    /\ \/ /\ l.base \in bases
          /\ logged' = BinlogAppend(k, l)
          /\ index' = IndexMarked(index, l)
          /\ data' = DataMarked(data, l)
          /\ gone' = CountMarked(l)
          /\ cache' = [cache EXCEPT ![k] = NoLoc]
          /\ Promise(k, "absent", Junk)
       \/ /\ l.base \notin bases
          /\ UNCHANGED <<logged, index, data, gone, cache, promise>>
    /\ End(k)
    /\ UNCHANGED <<bases, place, born, sorted, short, logging, defrag, spent>>

-----------------------------------------------------------------------------
(* Sorting *)

KeyOrdered(s) ==
    \A i, j \in DOMAIN s : i < j => s[i].key <= s[j].key

(* eblob_disk_control_sort_with_flags: removed entries of a key go first.  *)
RemovedFirst(s) ==
    \A i, j \in DOMAIN s :
        i < j /\ s[i].key = s[j].key /\ ~Live(s[j]) => ~Live(s[i])

(* What qsort may return: equal entries in any order.                      *)
IndexSorted(s) ==
    {r \in {[i \in DOMAIN s |-> s[p[i]]] : p \in Bijection(DOMAIN s, DOMAIN s)} :
        KeyOrdered(r) /\ RemovedFirst(r)}

(* sorted_index_bsearch_raw for each key of a binlog: some entry of that   *)
(* key, not necessarily its first; 0 if there is none.                     *)
BsearchHits(s, ks) ==
    {f \in [ks -> DOMAIN s \cup {0}] :
        \A k \in ks : IF \E i \in DOMAIN s : s[i].key = k
                      THEN f[k] # 0 /\ s[f[k]].key = k
                      ELSE f[k] = 0}

Removed(e) == [e EXCEPT !.flag = "removed"]

(* indexsort_binlog_apply removes from the hit on to the end of the key's  *)
(* entries, datasort_binlog_apply only the hit itself.                     *)
IndexsortHitNone(s, hit, i) == FALSE
IndexsortHitAfter(s, hit, i) == s[i].key \in DOMAIN hit /\ i > hit[s[i].key]
DatasortHitNone(s, hit, i) == FALSE
IndexsortHit(s, hit, i) == s[i].key \in DOMAIN hit /\ i >= hit[s[i].key]
DatasortHit(s, hit, i) == s[i].key \in DOMAIN hit /\ i = hit[s[i].key]

(* The cache without the keys that live in the new sorted index s.         *)
FlushedNothing(s) == cache
Flushed(s) ==
    [k \in Keys |-> IF \E i \in DOMAIN s : s[i].key = k /\ Live(s[i])
                   THEN NoLoc ELSE cache[k]]

CountRemoved(s) == Cardinality({i \in DOMAIN s : ~Live(s[i])})

(* The generation counter moved: locations found before it are doubtful.   *)
GenerationKept == op
GenerationBumped ==
    [k \in Keys |-> [op[k] EXCEPT !.moved = (op[k].pc = "prep")]]

StopBinlog(bs) ==
    /\ logging' = logging \ bs
    /\ logged' = [b \in Bases |-> IF b \in bs THEN {} ELSE logged[b]]

NoJob ==
    /\ job' = "none"
    /\ group' = {}
    /\ left' = {}
    /\ snap' = <<>>
    /\ chunk' = {}

(* What eblob_defrag index-sorts: a base before the last one, not sorted.  *)
SortableLast(b) == b \in bases \ sorted
Sortable(b) == b \in NotLast \ sorted

(* eblob_generate_sorted_index: binlog on, index read and sorted in memory. *)
IndexsortStart(b) ==
    /\ job = "none"
    /\ Sortable(b)
    /\ b \notin logging
    /\ index[b] # <<>>
    /\ job' = "indexsort"
    /\ group' = {b}
    /\ logging' = logging \cup {b}
    /\ logged' = [logged EXCEPT ![b] = {}]
    /\ snap' \in IndexSorted(index[b])
    /\ UNCHANGED <<disk, short, cache, op, left, chunk, spent, promise>>

(* Who holds an index offset of base b that index idx no longer honours.   *)
Overtaken(b, idx) ==
    \E k \in Keys :
        LET o == op[k]
            l == IF o.pc = "remove" THEN o.old ELSE o.new
        IN /\ o.pc \in {"payload", "commit", "ram", "remove"}
           /\ l.base = b
           /\ l.ip \in DOMAIN idx => idx[l.ip].pos # l.dp

(* ... and, under b->lock, bctl->lock and the hash lock, put into use.     *)
IndexsortSwap ==
    /\ job = "indexsort"
    /\ \E b \in group :
        \E hit \in BsearchHits(snap, logged[b]) :
            LET idx == [i \in DOMAIN snap |->
                          IF IndexsortHit(snap, hit, i) THEN Removed(snap[i])
                                                        ELSE snap[i]]
                dead == {snap[i].pos : i \in {j \in DOMAIN snap :
                                              IndexsortHit(snap, hit, j)}}
            IN /\ index' = [index EXCEPT ![b] = idx]
               /\ data' = [data EXCEPT ![b] =
                             [p \in DOMAIN @ |-> IF p \in dead THEN Removed(@[p])
                                                               ELSE @[p]]]
               /\ gone' = [gone EXCEPT ![b] = CountRemoved(idx)]
               /\ cache' = Flushed(idx)
               /\ crossed' = (crossed \/ Overtaken(b, idx))
    /\ sorted' = sorted \cup group
    /\ op' = GenerationBumped
    /\ StopBinlog(group)
    /\ NoJob
    /\ UNCHANGED <<bases, place, born, short, spent, shadow, status, failed, torn>>

(* An I/O error on the way.  The paths that fail to read the index or to   *)
(* write it the second time stop the binlog; the one that fails to write   *)
(* it the first time leaves it on.                                         *)
IndexsortFail ==
    /\ job = "indexsort"
    /\ failures < MaxFailures
    /\ failures' = failures + 1
    /\ \/ StopBinlog(group)
       \/ UNCHANGED binlog
    /\ NoJob
    /\ UNCHANGED <<disk, short, cache, op, promise, calls>>

(* eblob_defrag merges bases while their live records fit into one blob;   *)
(* empty ones are always merged.                                           *)
Fits(g) ==
    \/ MapThenSumSet(LAMBDA b : Len(index[b]) - gone[b], g) <= RecordsInBlob
    \/ \E b \in g : \A c \in g \ {b} : Len(index[c]) = gone[c]

Candidates == {g \in SUBSET NotLast : g # {} /\ Fits(g)}

(* eblob_generate_sorted_data: binlogs on for the whole group.             *)
DatasortStart ==
    /\ job = "none"
    /\ \E g \in Candidates :
        /\ g \cap logging = {}
        /\ group' = g
        /\ left' = g
        /\ logging' = logging \cup g
        /\ logged' = [b \in Bases |-> IF b \in g THEN {} ELSE logged[b]]
    /\ job' = "datasort"
    /\ UNCHANGED <<disk, short, cache, op, snap, chunk, spent, promise>>

(* One of them is on already (-EBUSY): those before it are left on.  (When *)
(* it is the first, nothing happens.)                                      *)
DatasortBusy ==
    /\ job = "none"
    /\ \E g \in Candidates :
        LET before == {b \in g : \A c \in g \cap logging : place[b] < place[c]}
        IN /\ g \cap logging # {} /\ before # {}
           /\ logging' = logging \cup before
           /\ logged' = [b \in Bases |-> IF b \in before THEN {} ELSE logged[b]]
    /\ UNCHANGED <<disk, short, cache, op, defrag, spent, promise>>

(* datasort_split of the next base: every record not removed is copied.    *)
(* Writers that have reserved their slot are not waited for; but a copy    *)
(* that runs into the end of the file fails (DatasortAbort).               *)
Copyable(b) ==
    b \in short => \A i \in DOMAIN index[b] :
                      Live(index[b][i]) => index[b][i].pos # Len(data[b])

DatasortSplit ==
    /\ job = "datasort"
    /\ \E b \in left :
        /\ \A c \in left : place[b] <= place[c]
        /\ Copyable(b)
        /\ left' = left \ {b}
        /\ chunk' = chunk \cup
             {[base |-> b, ip |-> i, key |-> index[b][i].key,
               flag |-> index[b][i].flag,
               val |-> data[b][index[b][i].pos].val] :
                 i \in {j \in DOMAIN index[b] : Live(index[b][j])}}
        /\ torn' = torn \cup {k \in Keys : op[k].pc \in {"payload", "commit"}
                                           /\ op[k].new.base = b}
    /\ UNCHANGED <<disk, short, binlog, cache, op, job, group, snap, spent,
                   shadow, status, failed, crossed>>

(* Bases bs leave the list and their descriptors are closed.               *)
Closed(f, bs, none) == [b \in Bases |-> IF b \in bs THEN none ELSE f[b]]

(* datasort_merge: the smallest key of all chunks first, over and over.    *)
Merged == {s \in SetToSeqs(chunk) : KeyOrdered(s)}

(* Sort, merge, and under all the locks: binlogs applied, the new base     *)
(* takes the place of the first of the group, the group is closed.         *)
DatasortSwap ==
    /\ job = "datasort" /\ left = {} /\ chunk # {}
    /\ born < MaxBases
    /\ \E s \in Merged :
        \E hit \in BsearchHits(s, UNION {logged[b] : b \in group}) :
            LET flag(i) == IF DatasortHit(s, hit, i) THEN "removed" ELSE s[i].flag
                idx == [i \in DOMAIN s |->
                          [key |-> s[i].key, flag |-> flag(i), pos |-> i]]
                dat == [i \in DOMAIN s |->
                          [key |-> s[i].key, flag |-> flag(i), val |-> s[i].val]]
            IN /\ index' = [Closed(index, group, <<>>) EXCEPT ![born + 1] = idx]
               /\ data' = [Closed(data, group, <<>>) EXCEPT ![born + 1] = dat]
               /\ gone' = [Closed(gone, group, 0) EXCEPT ![born + 1] =
                             CountRemoved(idx)]
               /\ cache' = Flushed(idx)
    /\ born' = born + 1
    /\ bases' = (bases \ group) \cup {born + 1}
    /\ \E b \in group :
        /\ \A c \in group : place[b] <= place[c]
        /\ place' = [Closed(place, group, 0) EXCEPT ![born + 1] = place[b]]
    /\ sorted' = (sorted \ group) \cup {born + 1}
    /\ short' = short \ group
    /\ op' = GenerationBumped
    /\ StopBinlog(group)
    /\ NoJob
    /\ UNCHANGED <<spent, promise>>

(* Nothing to sort (-ENOENT), or any error before the swap.                *)
DatasortAbort ==
    /\ job = "datasort"
    /\ StopBinlog(group)
    /\ NoJob
    /\ UNCHANGED <<disk, short, cache, op, spent, promise>>

(* eblob_want_defrag: total == removed, and the index has that many.       *)
AlmostAllRemoved(b) == gone[b] + 1 >= Len(index[b])
AllRemoved(b) == gone[b] = Len(index[b])

(* EBLOB_REMOVE_NEEDED: as many records removed as there are.  The files   *)
(* are unlinked and closed; the generation counter stays.                  *)
RemoveBase(b) ==
    /\ job = "none"
    /\ b \in NotLast
    /\ AllRemoved(b)
    /\ bases' = bases \ {b}
    /\ sorted' = sorted \ {b}
    /\ place' = Closed(place, {b}, 0)
    /\ index' = Closed(index, {b}, <<>>)
    /\ data' = Closed(data, {b}, <<>>)
    /\ gone' = Closed(gone, {b}, 0)
    /\ short' = short \ {b}
    /\ UNCHANGED <<born, binlog, cache, op, defrag, spent, promise>>

-----------------------------------------------------------------------------
(* eblob_cleanup and eblob_init: all operations returned, the defrag       *)
(* thread is joined.  Opening sorts the index of every full base and of    *)
(* every base but the last, drops the bases with nothing live, and caches  *)
(* the records of the unsorted one, a later entry replacing an earlier.    *)
(* That is what happens when every record is inside its data file.  When   *)
(* one is not, because a write failed before its footer, eblob_init fails  *)
(* or repairs the base, and another key may pay for it: this store is not  *)
(* restarted then, see Recovery.                                           *)
LoadedLocs(idx, k, bs) ==
    LET hits == Hits(idx, k, bs)
        later(g, h) == \/ place[g[1]] < place[h[1]]
                       \/ g[1] = h[1] /\ g[2] <= h[2]
    IN IF hits = {} THEN {NoLoc}
       ELSE {LocOf(idx, h) : h \in {x \in hits : \A g \in hits : later(g, x)}}

SortedOnLoad ==
    {b \in bases \ sorted : /\ index[b] # <<>>
                            /\ \/ b \in NotLast
                               \/ Len(index[b]) >= RecordsInBlob}

EmptyOnLoad ==
    {b \in NotLast : \A i \in DOMAIN index[b] : ~Live(index[b][i])}

Restart ==
    LET unsorted == SortedOnLoad
        empty == EmptyOnLoad
    IN /\ job = "none"
       /\ \A k \in Keys : op[k] = Idle
       /\ bases # {}
       /\ short = {}
       /\ \E idx \in [unsorted -> UNION {IndexSorted(index[b]) : b \in unsorted}] :
            /\ \A b \in unsorted : idx[b] \in IndexSorted(index[b])
            /\ index' = [b \in Bases |-> IF b \in empty THEN <<>>
                                         ELSE IF b \in unsorted THEN idx[b]
                                         ELSE index[b]]
       /\ data' = Closed(data, empty, <<>>)
       /\ place' = Closed(place, empty, 0)
       /\ gone' = [b \in Bases |-> CountRemoved(index'[b])]
       /\ bases' = bases \ empty
       /\ sorted' = (sorted \cup unsorted) \ empty
       /\ cache' \in {c \in [Keys -> UNION {LoadedLocs(index', k, bases' \ sorted') :
                                              k \in Keys}] :
                        \A k \in Keys : c[k] \in LoadedLocs(index', k, bases' \ sorted')}
       /\ StopBinlog(Bases)
       /\ UNCHANGED <<born, short, op, defrag, spent, promise>>

-----------------------------------------------------------------------------
Init ==
    /\ bases = {} /\ born = 0 /\ sorted = {}
    /\ place = [b \in Bases |-> 0]
    /\ index = [b \in Bases |-> <<>>]
    /\ data = [b \in Bases |-> <<>>]
    /\ gone = [b \in Bases |-> 0]
    /\ short = {}
    /\ logging = {} /\ logged = [b \in Bases |-> {}]
    /\ cache = [k \in Keys |-> NoLoc]
    /\ op = [k \in Keys |-> Idle]
    /\ job = "none" /\ group = {} /\ left = {} /\ snap = <<>> /\ chunk = {}
    /\ failures = 0 /\ calls = 0
    /\ shadow = [k \in Keys |-> Junk]
    /\ status = [k \in Keys |-> "absent"]
    /\ failed = {} /\ torn = {} /\ crossed = FALSE

Write(k) ==
    \/ \E v \in Vals, wr \in {"write", "patch"} \cap Workload :
         Overwrite(k, wr, v) \/ StartWrite(k, wr, v)
    \/ "prepare" \in Workload /\ StartPrepare(k)
    \/ PrepareDisk(k) \/ PrepareError(k)
    \/ WritePayload(k) \/ CommitWrite(k) \/ CommitRam(k) \/ FailWrite(k)

Client(k) ==
    \/ Write(k)
    \/ "plain" \in Workload /\ \E v \in Vals : PlainWrite(k, v)
    \/ "commit" \in Workload /\ \E keep \in BOOLEAN : Commit(k, keep)
    \/ "remove" \in Workload /\ RemoveLookup(k)
    \/ RemoveMark(k)

Indexsort == (\E b \in Bases : IndexsortStart(b)) \/ IndexsortSwap \/ IndexsortFail

Datasort ==
    \/ DatasortStart \/ DatasortBusy \/ DatasortSplit \/ DatasortSwap
    \/ DatasortAbort

Next ==
    \/ \E k \in Keys : Client(k)
    \/ Indexsort
    \/ Datasort
    \/ \E b \in Bases : RemoveBase(b)
    \/ Restart

Spec == Init /\ [][Next]_vars

-----------------------------------------------------------------------------
Chunk == [base : Bases, ip : Nat, key : Keys, flag : Flags, val : Payload]

(* Every variable has its type. *)
TypeOK ==
    /\ bases \in SUBSET Bases /\ born \in 0 .. MaxBases
    /\ sorted \in SUBSET Bases
    /\ place \in [Bases -> Nat]
    /\ index \in [Bases -> Seq(Entry)]
    /\ data \in [Bases -> Seq(Record)]
    /\ gone \in [Bases -> Nat]
    /\ short \in SUBSET Bases
    /\ logging \in SUBSET Bases /\ logged \in [Bases -> SUBSET Keys]
    /\ cache \in [Keys -> Loc \cup {NoLoc}]
    /\ op \in [Keys -> Op]
    /\ job \in {"none", "indexsort", "datasort"}
    /\ group \in SUBSET Bases /\ left \in SUBSET Bases
    /\ snap \in Seq(Entry)
    /\ chunk \in SUBSET Chunk /\ IsFiniteSet(chunk)
    /\ failures \in 0 .. MaxFailures /\ calls \in 0 .. MaxOps
    /\ shadow \in [Keys -> Payload]
    /\ status \in [Keys -> {"absent", "visible", "hidden", "dirty"}]
    /\ failed \in SUBSET Keys /\ torn \in SUBSET Keys /\ crossed \in BOOLEAN

(* A location names a base that exists or has existed and, as long as the  *)
(* base is open, slots its two files have.                                 *)
Within(l) ==
    /\ l.base <= born
    /\ l.base \in bases => /\ l.ip \in DOMAIN index[l.base]
                           /\ l.dp \in DOMAIN data[l.base]

(* An operation past its lookup or its reservation has what it asked for.  *)
Holds(o) ==
    /\ o.pc \in {"payload", "commit", "ram"} => o.new # NoLoc
    /\ o.pc = "remove" => o.old # NoLoc

(* Whoever keeps an offset across an unlock - the hash, an index entry, an *)
(* operation in flight - keeps one inside the files of its base, though    *)
(* sorts replace indexes, merges replace bases and restarts reload them.   *)
(* This holds with failures and for overtaken writes, too.                 *)
LocsInBounds ==
    /\ bases \subseteq 1 .. born
    /\ \A k \in Keys : /\ cache[k] # NoLoc => Within(cache[k])
                       /\ op[k].old # NoLoc => Within(op[k].old)
                       /\ op[k].new # NoLoc => Within(op[k].new)
                       /\ Holds(op[k])
    /\ \A b \in Bases : \A i \in DOMAIN index[b] :
          index[b][i].pos \in DOMAIN data[b]

(* A sort works on bases that take no more records, to its end: the sorted *)
(* copy of an index has an entry for every entry of the index it replaces. *)
SortsOldBases ==
    /\ job = "none" => group = {}
    /\ group \subseteq NotLast /\ left \subseteq group
    /\ job = "indexsort" => \A b \in group :
          /\ DOMAIN snap = DOMAIN index[b]
          /\ \A i \in DOMAIN snap : snap[i].pos \in DOMAIN data[b]

Suspect == failed \cup torn

(* An acknowledged write is what a reader gets, and a removed record is    *)
(* not there, whatever sorts, merges, base removals and restarts happened  *)
(* in between (restarts that have nothing to repair); except for keys a    *)
(* failed or an overtaken write left doubtful.                             *)
AckedReadable ==
    ~crossed => \A k \in Keys \ Suspect : op[k] = Idle =>
        /\ status[k] = "visible" => Read(k) = shadow[k]
        /\ status[k] = "absent" => Read(k) = Absent

(* No key has two live records: a write marks the old record in the same   *)
(* b->lock section that commits the header of the new one, and no sort     *)
(* brings a removed one back.                                              *)
OneLive ==
    ~crossed => \A k \in Keys \ Suspect :
        Cardinality(Hits(index, k, bases)) <= 1

LiveAt(k, l) ==
    /\ l.base \in bases /\ l.ip \in DOMAIN index[l.base]
    /\ index[l.base][l.ip].key = k /\ index[l.base][l.ip].pos = l.dp
    /\ Live(index[l.base][l.ip])

(* A cached location is a live record of its key, in spite of the entries  *)
(* the sorts move; and a base without a sorted index has all its keys in   *)
(* the cache, which is why eblob_disk_index_lookup may skip it.            *)
CacheMatchesDisk ==
    ~crossed => \A k \in Keys \ Suspect : op[k].pc \in {"idle", "prep", "remove"} =>
        /\ cache[k] # NoLoc => LiveAt(k, cache[k])
        /\ \A h \in Hits(index, k, bases \ sorted) : cache[k] = LocOf(index, h)

(* An index entry and the header it points to name the same key and agree  *)
(* on whether the record is removed, although a sort swaps in an index     *)
(* that was read long before.                                              *)
HeaderMatchesIndex ==
    ~crossed => \A b \in bases : \A i \in DOMAIN index[b] :
        LET e == index[b][i] IN
        /\ e.pos \in DOMAIN data[b]
        /\ data[b][e.pos].key = e.key
        /\ Live(e) <=> Live(data[b][e.pos])

(* The location a write uses under b->lock, looked up again when the       *)
(* defrag generation has moved, is the live record of the key; and when it *)
(* uses none, there is none.  What a remove found without a lock is still  *)
(* the record of its key when it is marked, or its base was closed.        *)
OldValid ==
    ~crossed => \A k \in Keys \ Suspect :
        /\ op[k].pc = "prep" => \A l \in OldLocs(k) :
              IF l = NoLoc THEN Hits(index, k, bases) = {} ELSE LiveAt(k, l)
        /\ op[k].pc = "remove" /\ op[k].old.base \in bases =>
              LiveAt(k, op[k].old)

(* While its binlog is on a base only loses records, and those it loses    *)
(* are in the binlog: what indexsort and datasort have copied stays true.  *)
FrozenWhileSorting ==
    ~crossed =>
        /\ job = "indexsort" => \A b \in group :
              {e \in Range(snap) : e.key \notin logged[b]}
                = {e \in Range(index[b]) : e.key \notin logged[b]}
        /\ \A c \in chunk :
              \/ c.key \in Suspect \cup logged[c.base]
              \/ /\ Live(index[c.base][c.ip])
                 /\ index[c.base][c.ip].key = c.key
                 /\ data[c.base][index[c.base][c.ip].pos].val = c.val

(* RECORDS_REMOVED, by which eblob_defrag decides that a base can be       *)
(* unlinked, is the number of removed entries.                             *)
CountExact ==
    ~crossed => \A b \in bases : gone[b] = CountRemoved(index[b])

Contents(k) ==
    {data[h[1]][index[h[1]][h[2]].pos].val : h \in Hits(index, k, bases)}

(* The defragmentation thread, and a restart that has nothing to repair,   *)
(* neither lose, resurrect nor change a record: a step that is no client's *)
(* leaves every key what it had.                                           *)
SortsPreserve ==
    [][/\ calls' = calls
       /\ \A k \in Keys : op'[k].pc = op[k].pc
       /\ ~crossed'
       => \A k \in Keys \ Suspect' : Contents(k)' = Contents(k)]_vars

(* A base is unlinked without being sorted into another one only when all  *)
(* its records are removed, or left over from a write that failed.         *)
DroppedBasesEmpty ==
    [][~crossed /\ job = "none" => \A b \in bases \ bases' :
          \A i \in DOMAIN index[b] :
              Live(index[b][i]) => index[b][i].key \in Suspect]_vars

-----------------------------------------------------------------------------
(* What comments and tests of the repository say and the code does not do. *)

(* Datasort waits for pending writes, so an acknowledged write that did    *)
(* not fail is never lost to it.                                           *)
PendingWritesWaited ==
    ~crossed => \A k \in Keys \ failed :
        op[k] = Idle /\ status[k] = "visible" => Read(k) = shadow[k]

(* No old offset is used with a new sorted index.                          *)
NoOldOffsets ==
    \A k \in Keys \ Suspect :
        op[k] = Idle /\ cache[k] # NoLoc => LiveAt(k, cache[k])

=============================================================================
