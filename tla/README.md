# eblob: specifications, model checking and proofs

eblob is a log-structured key/value store in C.  Records are appended to
*bases* (a data file plus an index file of disk controls); an in-memory hash
locates the records of bases whose index is not sorted; a background thread sorts
indexes, merges bases and drops empty ones **while clients keep writing**.  Almost
every line that is hard to get right is about that last part: an offset found
under one lock is used under another, and a background copy of a base must not
lose, resurrect or stale-copy what happened to it meanwhile.

This directory models that core, checks it with TLC on small instances and
proves most of its safety properties with TLAPS for every instance.

## 1. Inventory

| Component | State | Operations | Talks to | Hard part | What makes it correct |
|---|---|---|---|---|---|
| Bases and their list (`mobjects.c`, `list.h`) | `b->bases`, per base: fds, `sort.fd`, `index`, `critness`, lock, binlog | add at the tail, replace, unlink, close, `_eblob_base_ctl_cleanup` | all | list pointers are read without a lock; a base is closed while it is used | nobody searches a closed base, nobody misses a key |
| Write path (`blob.c`) | `eblob_write_control` on the stack, files, hash | `eblob_writev_return`, `eblob_write_prepare`, `eblob_plain_writev`, `eblob_write_commit` | hash, bases, binlog | several lock sections with unlocked I/O between them | what was acknowledged is read back |
| Remove (`blob.c`) | index entry, data header, statistics, hash | `eblob_remove`, `eblob_mark_entry_removed[_purge]` | binlog, hash, statistics | lookup without lock, marking under `bctl->lock` | only the key's own record is marked, once |
| Read and lookup (`blob.c`, `index.c`) | none | `eblob_cache_lookup`, `eblob_disk_index_lookup`, `eblob_read_ll` | hash, list, `critness` | backwards walk of a changing list | finds the key if it is there; returns |
| In-memory hash (`hash.c`, `rbtree.c`) | key to ram control, `root_lock` | insert, lookup, remove | writers, sorters | offsets go stale when an index is sorted | a cached offset is a live record of its key |
| Level two hash (`l2hash.c`) | a tree of short hashes without keys, a tree of colliding keys | upsert, remove, lookup, destroy | takes the place of the hash; reads keys from the index files | collisions; an index that changes under it | behaves as the map it replaces |
| Binlog (`datasort.h`) | per base: enabled flag, list of removed keys | start, append, stop, apply | writers, sorters | must be on exactly as long as a copy is being made | nothing removed meanwhile comes back |
| Index sort (`index.c`) | in-memory copy of an index | `eblob_generate_sorted_index` | hash, binlog | old offsets; error paths | same set of live records |
| Data sort (`datasort.c`) | chunks, merged base | `eblob_generate_sorted_data` | binlog, list, hash | long copy concurrent with writes; atomic swap | same set of live records |
| Defragmentation thread (`defrag.c`) | `want_defrag`, a timer, statistics | start, stop and status calls; choose, group, sort, merge, remove bases | all of the above | one unlocked field is test, request and progress at once; decides from counters | an accepted request is served; a run sorts what it should, in groups that fit; only empty bases are dropped |
| Startup and shutdown (`blob.c`, `mobjects.c`) | all | `eblob_init`, `eblob_load_data`, `eblob_cleanup` | all | leftovers of earlier errors and crashes; joining threads that are busy | same content after as before; returns |
| Iterator (`blob.c`) | position in an index, offsets of the key ranges | `eblob_iterate` | `critness`, index blocks, user callbacks | holds nothing between batches; ranges, blocks and batches do not line up | every live record of the ranges; ends |
| Key ranges (`range.c`) | none | `eblob_read_range` | hash, sorted indexes | | |
| Sync, periodic thread, events (`blob.c`) | timers, `exit_event` | `fsync`, statistics file | shutdown | start and end only | end when they are told |
| Statistics (`stat.c`, `json_stat.cpp`) | counters | add, subtract, set | defrag decides by `RECORDS_REMOVED` and `RECORDS_TOTAL` | counted twice or not at all | equals what it counts |
| Checksums, logging, bindings, tools | | | | | |

The hazards that follow from it, each at its line of code, are the `hazards` of
`PROJECT.json`, with the properties that would catch them.

## 2. Modules

| Module | Role |
|---|---|
| `EblobStore` | the store: files, hash, client operations, index sort, data sort, base removal, restart; its properties |
| `MCEblobStore` | instances of it (`Store*.cfg`) |
| `EblobStoreProofs` | theorems about `EblobStore`: types, offsets, which bases a sort takes, and, in its second part, records: what is read, the hash, the files, the counters |
| `BaseLookup` | the walk over the list of bases without `b->lock`, against writers and the sorter; its properties |
| `MCBaseLookup` | instances of it (`Lookup*.cfg`) |
| `BaseListProofs` | theorems about `BaseLookup`: `critness` and the locks of bases, the list, and what a walk concludes |
| `KeyMap` | abstract specification of the in-memory hash: a map and its counter (`hash.c` is this map; `EblobStore` uses it as `cache`) |
| `L2Hash` | the level two hash, stated to implement `KeyMap` |
| `MCL2Hash` | the instance of it (`L2Map.cfg`) |
| `L2HashProofs` | the proof that it does, and of its types |
| `Recovery` | the files of the bases, written call by call, crashes between any two calls, and `eblob_init`; its properties |
| `MCRecovery` | instances of it (`Recovery*.cfg`) |
| `RecoveryProofs` | theorems about `Recovery`: types, file names, sorted indexes, and that it starts after a crash |
| `RecoveryRecordProofs` | the theorem about its records: what was acknowledged survives |
| `IndexOrder` | the order of a sorted index, for `Recovery` and `BaseIterator` |
| `DefragThread` | `want_defrag`, the defragmentation thread, `eblob_defrag`, start and end of the permanent threads; its properties |
| `MCDefragThread` | the instance of it (`DefragThread.cfg`) |
| `DefragThreadProofs` | theorems about runs of `eblob_defrag` |
| `BaseIterator` | `eblob_iterate` over one base with key ranges, against removes and an index sort; its properties |
| `MCBaseIterator` | the instance of it (`BaseIterator.cfg`) |
| `BaseIteratorProofs` | theorems about `BaseIterator` |
| `InductionLemmas` | induction over naturals and finite sets, and what follows about `Min`, `Max`, sums and sorting |

The first two models cut the system along its two kinds of concurrency.  `EblobStore`
takes a lookup as one step (what it returns) and interleaves the *lock sections*
of the operations.  `BaseLookup` is about that one step: it takes it apart into
single pointer reads, uses of `critness` and list stores, and shows (`HeldOpen`,
`NeverMissed`) that the result is one `EblobStore` can have.  `L2Hash` is about another
step both take as atomic, as it is under `root_lock`: an operation on the hash.
Three more modules take apart what `EblobStore` leaves whole or to chance: `Recovery` its
restart and the order of the system calls under it, `DefragThread` *when* a sort is made
and of which bases (`EblobStore` allows any), `BaseIterator` the reading of an index that a
sort replaces meanwhile.

### EblobStore: state

| Variable | Code |
|---|---|
| `bases`, `place` | membership in `b->bases`, and `bctl->index`, by which the list is ordered |
| `born` | `eblob_base_ctl` objects allocated (they are never freed while running) |
| `sorted` | `bctl->sort.fd >= 0` |
| `logging`, `logged` | `bctl->binlog`: enabled, and the keys appended |
| `index`, `data` | the index in use and the data file, as sequences of entries and records; an offset is a position |
| `gone` | `EBLOB_LST_RECORDS_REMOVED` of a base |
| `short` | bases whose data file ends before its last record does: the header is there, the footer (or the preallocation, `blob.c:1636`) is not |
| `cache` | the hash |
| `op[k]` | the `eblob_write_control` (or remove) in flight on key `k`: `old` is the record it found, `new` the slot it reserved, `moved` says that `defrag_generation` differs from the one it saw |
| `job`, `group`, `left`, `snap`, `chunk` | the defragmentation thread: which sort, of which bases, what it has copied |
| `failures`, `calls` | bounds |
| `shadow`, `status`, `failed`, `torn`, `crossed` | observers, which no action depends on (but for `failed` in `Call`, see `Retry`): what the client wrote and was told, which keys had a failing write, which keys a data sort copied before their payload and footer were there, whether an index sort has overtaken somebody's offset |

A record has a key, a flag (`committed`, `uncommitted`, `removed`) and a payload
of two halves: a full write sets both, a partial write or an append only the
second one, so that *losing the old part* is visible.

### EblobStore: actions

| Action | Code |
|---|---|
| `Overwrite` | `eblob_try_overwritev` succeeds, all in one `b->lock` section |
| `StartWrite`, `StartPrepare` | the lookup half of `eblob_writev_return`, `eblob_write_prepare` |
| `PrepareDisk`, `PrepareError` | `eblob_write_prepare_disk` under `b->lock`: second lookup when the generation moved, new base when the last is full, header committed, old record marked, old data copied |
| `WritePayload`, `CommitWrite`, `CommitRam`, `FailWrite` | the unlocked tail: `eblob_writev_raw`, `eblob_write_commit_nolock`, `eblob_commit_ram`; their errors |
| `PlainWrite`, `Commit` | `eblob_plain_writev`, `eblob_write_commit` |
| `RemoveLookup`, `RemoveMark` | `eblob_remove` |
| `IndexsortStart`, `IndexsortSwap`, `IndexsortFail` | `eblob_generate_sorted_index`: up to the sort in memory, then the section under all locks, and the error paths |
| `DatasortStart`, `DatasortBusy`, `DatasortSplit`, `DatasortSwap`, `DatasortAbort` | `eblob_generate_sorted_data` |
| `RemoveBase` | `EBLOB_REMOVE_NEEDED` in `eblob_defrag` |
| `Restart` | `eblob_cleanup`, then `eblob_init` on the same files, all of whose records are inside their data file (`short = {}`) |

What is *not* deterministic in the code is not in the model either: `qsort` may
order equal entries in any way (`IndexSorted`), `bsearch` may return any of several
entries with the key (`BsearchHits`), or any of several blocks (`BlocksWith` of `BaseIterator`).  The sort of
`IndexOrder` leaves equal entries in order, as the merge sort behind glibc's `qsort` does.

### BaseLookup: state and actions

One key is followed; `home` is the base of its live record.  `bases` is the list by
its `next` pointers, which only owners of `b->lock` follow; `prev` are the pointers
lookups follow, written **one store at a time** in the order of `list.h`.  `Lookup`,
`Step`, `Hold`, `Check`, `Search`, `Release` are the walk of
`eblob_disk_index_lookup`, with and without `b->lock`; `AddBase`, `LinkBase` are
`list_add_tail`; `Rewrite` is a write of the key; `StartMerge`, `StartIndexsort`,
`StartRemove`, `WaitLocked`, `SwapMemory`, `LinkMerged`, `UnlinkMerged`, ... are the
sorter.  A base created earlier than its `prev` pointer is set has `prev = NULL`,
as `calloc` leaves it.  `place` is `bctl->index`, by which the list is ordered: a new base gets the
next number, a merged one that of the first of its group.

### KeyMap and L2Hash: state and actions

`root` is the tree of short hashes: nothing, a location, or the collision flag;
`collisions` is the second tree; `keyAt` is what `__eblob_l2hash_index_hdr` reads at a
location, the key of the index entry or an error; `cached` is `EBLOB_GST_CACHED`.
`_eblob_l2hash_insert` is taken apart into its outcomes: `Insert` (free short hash),
`Update` (the same key), `Collide` (another key, which moves to the second tree),
`CollideNoMemory` (the same, but the second `calloc` fails) and `UpsertCollision`.
`Remove` and `Destroy` are the functions of that name.  `Reindex` stands for the files:
an entry is written, moved by a sort or closed.  The refinement mapping is the lookup
itself, `map <- [k \in Keys |-> Resolve(k)]`.

### Recovery: state and actions

`data`, `index`, `sorted` and `chunk` are the files `blob-0.N`, `.index`, `.index.sorted` and the
result in the directory of a data sort; `whole` says whether the data file reaches the end of its
last record.  `index = Linked` is the hard link to the sorted index.  A write is `WriteBegin`
(the reservation under `b->lock`), `WriteIndex` and `WriteHeader` (the two calls of
`eblob_commit_disk`), `MarkIndex` and `MarkData` (those of `eblob_mark_entry_removed`) and
`WriteCommit`; `Rollback` is `err_out_rollback`.  `SwapBegin` and `RemoveBase` queue the unlink, rename
and link calls of `datasort_swap_disk` and `eblob_base_remove`, and `DiskStep` makes the next one.
`Crash` may come before any of these.  `Scan` and `Load` are `eblob_scan_base` (with its sorting
of indexes) and `eblob_iterate_existing` with the repair at the end of
`eblob_blob_iterator`.  Each is one step: both can be cut short and begun again with the same result.

`unsure` and `damaged` are observers: what the crash hit.  They name the windows the code does
not survive, and so the properties say that there are *no others*:

* a record between its index entry and its footer makes the index end in an entry without its record.
  If it is the only entry, or the data file is still empty, `eblob_init` fails (`blob.c:448`); if sorting a full
  base puts it first or last in an index block, or there are too many of them, too (`index.c:284`); otherwise repair drops it **and the
  entry before it** (`blob.c:861`; the hash has that one until the next restart);
* from the first `unlink` of a data sort to its last `rename` the records are in the temporary directory only,
  which the next start removes (`datasort_cleanup_stale`); between the last `rename` and the `link`,
  `eblob_init` fails (`mobjects.c:290`);
* the entry of a reservation that was rolled back is read again by the next start, if no other has
  been written over it;
* the location of that entry before the torn one stays in the hash, and what is appended after the repair leaves
  a zero-filled entry there.  Once such an index is sorted at run time, the location means the entry of some
  other key, since only keys that are *in* the index leave the hash (`index.c:623`); a remove or a write of the
  first key then marks that other entry removed (`blob.c:942` looks at no key).  `MarkIndex` puts the other key into
  `unsure`.

### DefragThread: state and actions

`want` is `b->want_defrag`, `starting` the calls of `eblob_start_defrag_level` that have tested it and
not yet set it; `exit` is the exit event; `life` and `alive` are the progress of `eblob_init` and
`eblob_cleanup` and the threads that run.  `loc` are the local variables of `eblob_defrag`, whose loops
are taken apart into `Lock`, `SelectNext`, `SelectEnd`, `LoopHead`, `Accumulate` and `Sort`, since `want`
is read again at each.  A direct caller of `eblob_defrag` runs the same steps.  The thread is
`Check`, `Timeout`, `Test`, `Set`, `Reset` and `ThreadExits`.  A base is its counters and
two flags; `Write`, `Remove` and `AfterSort` change them.  Observers: `asked` (a request that was
accepted, before a run or during one) and `run` (whether anything has disturbed the run in progress, what it
should sort and what it has).

What is not claimed, because the code does not do it: a request that is accepted *during* a run, after
a stop, is forgotten when the run ends (`defrag.c:353`; `asked = "late"`); a run whose level
changes in the middle sorts the group it has collected by the new level, and groups may
exceed the limits (`run.steady`); and a direct `eblob_defrag` without permanent threads only
removes empty bases, since its second loop ends at once while `want_defrag` is zero.

### BaseIterator: state and actions

`Begin` takes `index_fd`, `FillRangeOffsets` computes the offsets of the ranges from the index
blocks under `bctl->lock`, `ReadBatch` is one turn of the loop (choice of the range, shrinking of the batch,
reading under the lock, filtering), `Hold`, `CheckDiskOne`, `CallbackFails`, `Release` pass the batch on.
`RemoveRecord` and `IndexSort` may come in between, the latter not while the iterator is in `critness`.
`slipped` and `moved` observe when the sort came, `often` which keys have more than two entries.  Three
things are exempted, and TLC shows each
when the condition is dropped: an index sort between `Begin` and `FillRangeOffsets` makes the iterator
read the unsorted file with offsets of the sorted one and miss keys (`blob.c:701`), and the "fixing" of an
entry (`blob.c:485`) writes to the offset of another entry when the batch was filtered by ranges, or when the
index in use is no longer the one that was read; and a key whose entries, all but the last of them removed by
overwrites, go on behind the block that `bsearch` finds for the end of a range, is passed over
when the batch ends there (`blob.c:602`: "the end of the requested range" need not be in the block found; it
takes three entries of a key with the blocks of two here, many more with the blocks of 40 and batches of 1024 of the
code).  The proof attempt of `IterationsAreComplete` found the third, since entries of one key were at
most two in the instances before.  With several ranges, records between two of them can be passed
twice: the iterator goes back to the block in which the next range begins (`blob.c:746`).

## 3. Modelling decisions

* **Operations on one key are serialised.**  The library does not promise
  anything else: two concurrent removes of one key both mark it.  The stress test
  locks the item around each operation (`tests/stress/stress.c:498`).
  Operations on different keys, and the defragmentation thread, interleave freely.
* **Sizes** are abstracted: whether new data fits into the old record (`-E2BIG`) and
  whether there is space left is a free choice; a base is full by
  `records_in_blob` alone.
* **Left out of the data**: extended headers, checksums, compression,
  bloom filters and index blocks (they speed a search up, the result is the same).  Of footers
  `EblobStore` keeps what they do: until its footer is written a record may end outside the file (`short`), and a copy
  taken before has none (`torn`).
* **A restart after a failed append is not in `EblobStore`.**  A write that fails after `eblob_commit_disk`
  (`blob.c:1623`) leaves its header and its index entry.  When nothing follows it in the data file, and nothing was preallocated,
  the record ends outside the file.  A data sort of such a base fails at the end of the file, which is modelled
  (`Copyable`); but the next `eblob_init` does not accept the entry (`-ESPIPE`, `blob.c:423`), and either fails or repairs the base,
  and the repair takes **another key's** valid entry away with it (`blob.c:840`, `blob.c:861`).  So "a failure harms only its own
  key" holds *until* the store is restarted with such a record, and `Restart` has the guard `short = {}`: the properties
  and theorems of `EblobStore` say nothing of the restart that follows.  That restart is in `Recovery`, where a
  crash before the footer leaves the same files, and both keys are among those nothing is claimed about, while all
  others survive (`SettledSurvive`) or the store does not open (`OpensAfterCrash`).  Sorts of such a base
  between the failure and the restart are in neither: `Recovery` does not sort a base with an operation in flight.
* **Steps that are one in the model and several in the code.**  The lookup of `eblob_write_prepare` and its reading of the
  index (`blob.c:1828`), and the start of the binlog and the reading of the index in an index sort (`index.c:712`), where the
  binlog comes first; header, copy and mark of `eblob_write_prepare_disk_ll`, which are one section of `b->lock` in `EblobStore` and
  single calls in `Recovery`; the two reads of `want_defrag` in `eblob_defrag`'s first loop (`defrag.c:201`, `205`); and
  in `BaseLookup.Rewrite` the mark of the old record and `eblob_commit_ram`.  A lookup that runs wholly between those two
  gets `-ENOENT` in the code, although the key is being overwritten and was never removed; `Rewrite` also waits while the sorter
  has `b->lock`, which `eblob_commit_ram` does not need.
* **Not modelled**: allocation failures (but those of `L2Hash`), also the one in `eblob_local_ranges_check` after which
  the iterator silently goes on without a batch (`blob.c:792`); I/O errors *inside* `eblob_write_prepare_disk_ll` in
  `EblobStore` (the rollback of `blob.c:1741` is in `Recovery`), a failing `eblob_mark_entry_removed` there, which is not rolled back
  and leaves two live records (`blob.c:1718`; in neither module), and a base that was added before `-EAGAIN` (`blob.c:1543`); in
  `DefragThread.WantDefrag` the `-EINVAL` of negative counters and the index of another size than its counter
  (`defrag.c:74-83`, `101-108`), since counters are exact in the model, as `CountExact` shows of one of them; an I/O error in an in-place
  overwrite; a failing `eblob_index_blocks_fill` at run time, after which a mutex is unlocked twice;
  descriptors as numbers that are reused; a base that is closed under an iterator;
  `eblob_read_range` (`range.c`), whose disk half reads an index entry over a pointer variable
  (`range.c:64`), so that what follows is undefined, and which nothing calls.
* **Restarts are clean in `EblobStore`**, crashes are in `Recovery`.  The crash there is that of the
  process: files keep what was written to them.  A crash of the system, which may lose what
  was not yet `fsync`ed, is not modelled.  `Recovery` in turn leaves out the races of
  `EblobStore` (a sort takes only bases without an operation in flight), in-place overwrites,
  `EBLOB_NO_FOOTER`, the preallocation of records that are copied (so that a copy that was rolled back is torn there
  more often than in the code) and the mark file of sorted bases.  An index entry is written by one `pwrite` and
  is there or not; a part of one is not modelled.
* **`crashed` of `BaseLookup`** is reachable: a reader can step over the null `prev` of a base that is just being linked, as in
  the code (hazard at `list.h:57`).  No property forbids it; the others are about what happens otherwise.
* In `DefragThread` records have the size one, and `size` of a base is the number of its records; groups are still
  bounded by two different limits.
* In `BaseIterator` the ranges of a call are disjoint: `bsearch` among overlapping ones may miss keys,
  and nothing checks it (`blob.c:662`).
* A prepare that can reuse the record it finds changes nothing and is a stuttering step.
  So is a data sort whose *first* base is already being logged (`-EBUSY`).
* Closing a base empties its files in the model: nobody can read them any more.
* **What `L2Hash` assumes of the store** is the guard of `Reindex`: no key of the hash
  has the location whose index entry changes.  The code does it by flushing the
  keys of a base from the hash before `sort.fd` is set (`index.c:779`).  There is a window
  in which it does not hold, a key whose old record is marked and whose new location is not yet in
  the hash (listed as a hazard at `index.c:623`); it goes with the overtaken
  offsets of `crossed`, below.  Only `eblob_l2hash_upsert` is modelled: nothing calls
  the insert and update flavours.
* `eblob_base_wait_locked` waits for `critness`, which counts disk lookups and
  iterator batches and **not writers**; so `DatasortSplit` has no guard on them.
* **`crossed`.**  An index sort may replace an index while a write or a remove holds an
  offset into the old one (run `StoreOldOffset`).  From then on the offset means another
  record, and little can be claimed of the store: not even `FrozenWhileSorting` holds, as a
  remove that was overtaken marks the entry of another key in a base that is being copied, while its binlog gets
  its own key.  All properties but `TypeOK`, `LocsInBounds` and `SortsOldBases` are stated for behaviours
  where this has not happened, and the runs stop there (`CONSTRAINT NotCrossed`).  Likewise
  `Suspect` keys - a write of the key failed, or a data sort copied its record before
  its payload was written (`StoreLostWrite`) - are exempted key by key.

## 4. Properties and runs

`TypeOK` of each module apart, the properties are:

| Property | Says |
|---|---|
| `AckedReadable` | an acknowledged write reads back, a removed record does not, through any sorts, merges, removals and restarts (those of a store without unfinished records) |
| `OneLive` | a key has at most one live record |
| `CacheMatchesDisk` | a cached location is a live record of its key, and all records of unsorted bases are cached |
| `HeaderMatchesIndex` | index entries and data headers agree on key and removal |
| `OldValid` | the record a write or a remove is about to mark, found before or after a sort, is still the live one of its key, or its base is closed |
| `FrozenWhileSorting` | while the binlog is on, a base changes only by losing keys that are in the binlog |
| `CountExact` | `RECORDS_REMOVED` is the number of removed entries |
| `LocsInBounds` | every offset kept across an unlock lies in the files of its base |
| `SortsOldBases` | sorts work on bases that take no records |
| `SortsPreserve` | a step of the sorter, or a restart, changes no key's content |
| `DroppedBasesEmpty` | a base that is unlinked has no live record |
| `HeldOpen` | a lookup searches no closed base |
| `NeverMissed` | a lookup that says *absent* is right: the key was absent or rewritten while it ran |
| `RetriesPaid` | a lookup restarts its walk only as often as the sorter has finished something |
| `LinksAgree` | with `b->lock` free, `next` and `prev` describe the same list |
| `TreesDisjoint` | an entry of the first tree names a key of its short hash, none of which is in the second one; the keys there are where the index has them |
| `ImplementsKeyMap` | the level two hash implements `KeyMap`: no operation on one key changes what another resolves to |
| `CachedExact` | `EBLOB_GST_CACHED` is the number of keys that resolve |
| `LookupsReturn`, `SorterFinishes` | every lookup returns; the sorter gets every base it waits for |
| `SettledSurvive` | a key whose operations no crash cut short, and whose record was in none of the windows above, reads as it was acknowledged, after any number of crashes, sorts, rollbacks and repairs |
| `OpensAfterCrash` | `eblob_init` fails only after a crash in one of two of those windows |
| `SortedMatchesIndex` | `.index` and `.index.sorted` of a base have as many entries, so that the sorted index is never made again from an index that has missed removals |
| `NamesFresh` | a new base finds no files of a removed one under its name |
| `RunComplete` | an undisturbed run has sorted every base its level asks for |
| `GroupsFit` | the bases an undisturbed run merges fit into one, empty ones apart |
| `RequestsServed` | a request that is accepted while no run is in progress is followed by one, or taken back |
| `CleanupReturns` | shutdown, and a failing `eblob_init`, return |
| `Complete` | an iteration passes on every record of its ranges that is there from its beginning to its end, its key having at most two entries |
| `VisitedOnce` | none twice, with at most one range |
| `EntriesKept` | the fixing of an entry overwrites no other key's entry |
| `Terminates` | an iteration ends |

| Run | Instance | Shows |
|---|---|---|
| `StoreWrites` | 2 keys, 2 values, write/remove, 2 records per base, 3 bases, 5 calls | all content and counting properties without I/O failures |
| `StoreFailures` | 2 keys, all six operations, 1 failure, failed keys not reused, 3 bases, 4 calls | piecewise writes; a failure harms only its own key, short of a restart with a record at the end of its data file that it has left unfinished |
| `StoreMerge` | 1 record per base, 4 bases, 1 failure, `EBLOB_NO_FOOTER` | merges of several bases |
| `LookupSafe` | 2 threads, 3 bases (5 ever), 1 lookup, 3 sorter rounds | safety of the walk; no deadlock |
| `LookupLive` | 2 threads, 3 bases (4 ever), 2 lookups, 1 round, fairness | liveness of two lookups at once |
| `L2Map` | 3 keys, 2 of which collide, 4 locations | the level two hash is a map, by refinement |
| `Recovery` | 2 keys, 3 records per base and index block, 3 bases, 8 calls, crashes and failures | what survives a crash |
| `DefragThread` | 6 configurations of settings and bases, 5 bases, 3 calls or failures, fairness | requests, runs, groups, shutdown |
| `BaseIterator` | 5 keys in 4 indexes of up to 6 entries, up to 3 ranges, batches of 3, blocks of 2, 1 remove, fairness | completeness and end of an iteration |

Runs that expect a **violation** show where a comment of the
repository disagrees with the code (details in `findings`):

| Run | Statement refuted | What happens |
|---|---|---|
| `StoreLostWrite` | datasort waits for pending writes | the slot is copied before the payload is in it, which takes another record behind it (else the copy meets the end of the file and the sort gives up) or a preallocated file; the acknowledged write is lost |
| `StoreOldOffset` | old offsets are not used with a new index | a write in flight puts an offset of the unsorted index into the hash |
| `RecoveryHoles` | repair truncates to the last parsed entry | a hole that an earlier repair left is taken for that entry, and later writes overwrite records |

One more error path disagrees with its comment: when the first write of a sorted index fails
(`index.c:733`), `eblob_generate_sorted_index` goes past `err_out_stop_binlog`, and the
binlog, "used only [...] for the duration of data-sort" (`datasort.h:118`), stays on.
`IndexsortFail` has this path, so that `StoreFailures` and `StoreMerge` show what a
binlog left on does *not* break.

What a failed write leaves behind matters when its key is used again: with `Retry = TRUE` the
location left in the hash is marked, and counted, a second time, so that a base
with a live record looks empty and is dropped (`DroppedBasesEmpty`), and after a restart or a sort the
leftover record, not the retried one, may be read.  And a plain write during a sort moves a
prepared record with flags 0 (`blob.c:2177`), so that it can be read before its commit.  The retry is listed
as a hazard (`blob.c:1623`); the properties make no promise about either.

**Why these bounds.**  Two keys make collisions of slots possible (one key's offset
meaning the other's record).  Two
records per base let an index sort exchange two entries; one record per base lets a
data sort merge two bases with three alive.  Three bases suffice for *old, last,
merged*; a fourth for two merges in a row or a record that moves away from a merged
base.  Five calls are: fill a base (2), open another (1), then change something while
the first is sorted (2).  In `BaseLookup`, `MaxTries = 0` makes the `-EDEADLK` exit
reachable (the code has 10), and five bases ever - three, one added, one merged - are
the least for merging two that are not neighbours.  Lookups meet each other only in
`critness` and `b->lock`, so `LookupSafe` spends its states on one lookup and three
rounds of the sorter, `LookupLive` on two lookups and one round.  In `StoreFailures` one
value is enough, since a half can also be blank.  In `L2Map` a fourth location lets each key
have one while one is being written; nothing is bounded but the sets.  In `Recovery`
three records per base leave room for a torn entry with a valid one before it and a rollback, three bases
for a data sort of two; eight events are enough to fill a base, crash, write behind a repair and
crash again.  `RecoveryHoles` needs three keys in one base of six and no removes.  In `DefragThread`
the configurations are chosen so that groups are bounded by records and by size, bases are removed, skipped, merged
and kept, and the timer, the automatic start and missing threads occur; three calls are the least for start, stop
and start again within a run.  In `BaseIterator` a batch ends inside a block, keys have gaps between blocks, and
one index has a key at the border of two blocks; three ranges let one be passed over by a batch.
Deadlock is not checked for the runs of `EblobStore` and `Recovery`, since all their bounds can be used up
with nothing left to do, nor for those of `DefragThread` and `BaseIterator`, which end with the store closed or the
iteration done; it is for `LookupSafe`, where the only state
without a step is the one with everything idle (`Quiet`).
Each property is shown to depend on the code: for each there is a mutant in
`PROJECT.json`, a definition changed as a bug would change it, under which TLC finds
it violated.  The mutated forms stand next to the definitions they replace.

**Fairness** (`LookupLive`): weak fairness of each step of a lookup that has begun and
of the steps of a sort that has begun.  The code justifies it: these are plain threads,
and every mutex a step needs is held for a bounded section, except that of a base the
sorter waits for, which is what is checked.  There is no fairness of *starting*
anything.  The number of lookups is bounded, and that matters: with an unending
supply of overlapping lookups `critness` need never be zero, and the code gives
the sorter no priority.  The run begins with the key on disk in the
first base, the longest walk.

`DefragThread`: weak fairness of the second half of a start call, of each step of a run, of the thread, of
the creation, the exit and the joining of threads; none of calls, which nobody has to make.  `eblob_event_wait` times
out after a second, and a sort ends.  `BaseIterator`: weak fairness of the thread that iterates; `bctl->lock` is
never kept.

## 5. Theorems

TLAPS proves, with no bound on keys, values, bases, operations, failures, threads, ranges or sizes:

| Module | Theorems (and the property each states for all constants) |
|---|---|
| `EblobStoreProofs` | `Inductive`; `TypeCorrect` (`TypeOK`), `OffsetsInBounds` (`LocsInBounds`), `SortedBasesAreOld` (`SortsOldBases`); `RecordsHold`; `AckedIsRead` (`AckedReadable`), `NoTwoLive` (`OneLive`), `CacheIsRight` (`CacheMatchesDisk`), `HeadersAgree` (`HeaderMatchesIndex`), `OldLocationsValid` (`OldValid`), `SortedBasesFrozen` (`FrozenWhileSorting`), `CountersExact` (`CountExact`), and the action properties `SortsPreserveContents` (`SortsPreserve`), `DroppedBasesAreEmpty` (`DroppedBasesEmpty`) |
| `BaseListProofs` | `CritnessInvariant`; `SearchesOpenBases` (`HeldOpen`); `ListInvariant`; `LookupTyped` (`TypeOK`), `LookupsTellTheTruth` (`NeverMissed`), `RestartsArePaid` (`RetriesPaid`), `PointersAgree` (`LinksAgree`) |
| `L2HashProofs` | `Implements` (`ImplementsKeyMap`), `TreesStayDisjoint` (`TreesDisjoint`), `Counts` (`CachedExact`), `HashTyped` (`TypeOK`), for every hash function |
| `RecoveryProofs` | `TypeCorrect` (`TypeOK`), `FreshNames` (`NamesFresh`), `SortedMatches` (`SortedMatchesIndex`), `StartsAfterCrash` (`OpensAfterCrash`) |
| `RecoveryRecordProofs` | `RecordsSurvive` (`SettledSurvive`) |
| `DefragThreadProofs` | `DefragInvariant`; `TypeCorrect` (`TypeOK`), `RunsAreComplete` (`RunComplete`), `GroupsAreBounded` (`GroupsFit`) |
| `BaseIteratorProofs` | `IteratorInvariant`; `IterationsAreComplete` (`Complete`), `RecordsVisitedOnce` (`VisitedOnce`), `EntriesAreKept` (`EntriesKept`) |

**Assumptions.**  Those the modules state for their constants, which TLC evaluates in every run.  Three say
more than that a constant is a number or a set.  `SetupsAssumption` (`DefragThread`): a base whose data is sorted has a
sorted index, in any state the store is opened in; `datasort_swap_disk` leaves the mark of sorted data last
(`datasort.c:1200-1218`) and `eblob_base_remove` removes it before the sorted index (`mobjects.c:981-990`).
`IndexesAssumption` (`BaseIterator`): entries of an index point to different records and a key has one live entry;
this is `FilesAgree` and `NoTwoLive` of `EblobStoreProofs`.  And the theorems of `EblobStoreProofs` about records have the
hypothesis `RetryAssumed`: a client goes on with a key whose operation failed only in a store without I/O failures
(where an operation fails because its base was merged away under it).  With both it is false, see *Runs*.  Also, a `Restart` of
`EblobStore` is one with every record inside its data file: what the record theorems (`RecordsHold`, `AckedIsRead`, `CacheIsRight`,
`SortsPreserveContents`, ...) say of restarts, they say of those; after a write that failed at the end of a data file it is
`RecordsSurvive` of `RecoveryRecordProofs` that tells what is left.
The theorems about offsets need no such hypothesis: they hold **with** failures and retries, and after `crossed`.

**The store: offsets.**  `LocsInBounds` alone is not inductive.  A cached offset stays inside an
index only if a sort replaces it by one at least as long; that the sorted copy `snap` still
has the length of the index when it is swapped in needs that nobody appended to the
base in between; and that needs that a sorted base is not the last one, and stays so:
`SortsOldBases`.  So `IndInv` is `DiskInv` (files and list) /\ `HeldInv` (hash and
operations in flight) /\ `SortInv` (the sort in progress) /\ `PromiseInv` (types of
the observers).  There is one lemma per action; what most of them share - files that only
grow, one slot overwritten, a slot appended, an entry marked - are lemmas of their own
(`HeldKeeps`, `SlotSet`, `PrepareDiskLLKeeps`, `InPlaceKeeps`, ...).

**The store: records.**  None of the content properties is inductive, and none can be proved without the
others: `AckedReadable` needs that the hash leads to the live record, that needs that there is one, and both need that
a sort puts back what it took.  `RecInv` says it of the files (`Layout`, `FilesAgree`, `Once`, `Exact`), of the sort in
progress (`LoggedGone`, `SnapGood`, `ChunkGood`) and of each key (`HeldGood`, `ValueGood`).  The heart is
`SameBut`: the copy an index sort works on has the entries of the index but for keys *in the binlog*, so that
applying the binlog under the locks makes it a permutation of the index as it is then; `ChunkGood` says the same of the
copied records of a data sort.  That a key of the binlog has no live record left in the base (`LoggedGone`) is
what makes it harmless that `bsearch` may mark another entry of the key.  What holds of keys outside an operation's own is
carried over by lemmas about steps that leave a key alone (`KeySame`, `Undisturbed`).

**The walk.**  `HeldOpen` needs that `critness[b]` *is* the number of lookups inside `b`
(`Counted`, a cardinality), that the sorter keeps a base's lock only while that is zero
(`LockedUnused`), and that whatever it is about to close is locked (`GroupLocked`).
`NeverMissed` is about stale pointers: a walk may stand on a base that left the list long ago.  The invariant orders
bases by `bctl->index`; a merged base inherits the number of the first of its group, so a record only ever moves in
the direction of the walk; and no `prev` pointer, of a listed or a forgotten base, skips a listed base, unless it leads to
one that is closed, or will be before anybody can hold it, where the walk starts again (`NoSkip`).

**The level two hash.**  `TreesDisjoint` with `TypeOK` is inductive, and it is what the
simulation needs: for each action there is a lemma that says what it does to `Resolve` of every
key, and from that the action is a `Replace`, a `Remove`, a `Destroy` or no step of
`KeyMap`.  `Collide` is the case that needs it most, since it moves one key between the
trees and adds another.  `CachedExact` then is a fact of `KeyMap` steps and cardinalities.

**The defragmentation run.**  `Inv` is `Types` /\ `Counted` /\ `Locked` (a run belongs to who has the lock) /\ `Loop`
(what is chosen is in order and before the last base; `previous < current <= Len(chosen)`, so that `bctls` is never
read beyond its end) /\ `Steady` (what is due and not sorted is still to come) /\ `Groups`.  The last is why groups
fit: the sums of a group are taken base by base while clients remove records, so they only *bound* what is there when the
group is sorted, and that they do needs that nobody appends to a base that is not the last (`Older`).

**The iteration.**  `Inv` follows every key that is there: it is visited, or in the batch, or ahead of the offset in
the file that is read, and wanted by the current range or a later one (`ToCome`).  A range may be skipped only when
all its entries are behind: the offsets of a range enclose its live entries (`Placed`), which rests on the order of the
sorted index, in which the removed entries of a key come first (`Tidy`).  `Once` says that no key that was visited is ahead;
`Marks`, that a live entry whose header in the data file is marked belongs to a key removed meanwhile, so that "fixing"
it hides nothing.

**Crashes and restarts.**  `SortedMatchesIndex` keeps a restart from throwing a sorted index away and making it
again from an `.index` that has missed the removals.  It could only fail by a removed flag written beyond the end of a
sorted index, so `Inv` has to bound every location the hash or an operation holds (`LocIs`): by the length of the sorted
index, or by what is *settled* of an unsorted one, `index_size` less the reservation of the writer that has `b->lock`.
An index may be shorter than that, but only the last base's and only between a repair and the next write (`Cut`); every
older one has exactly that length (`Unsorteds`), so that sorting it keeps the bound.  A location must not outlive its
base either: a merge takes the keys it copied out of the hash, and the location whose entry a repair cut off (`Strays`) is
not among them.  What saves it is the hole: the index of such a base has a zero-filled entry that is not marked
removed, or will have with the next write, and such a base is neither merged (`datasort_split` fails on it) nor empty
(`StraysAre`, with at most one stray per base).  `NamesFresh` rests on `Named`: no file has a higher number than
the data files, in every state of a removal or a merge (`Dropping`, `Moving`), since the sorter never takes the last base.
`OpensAfterCrash` has an invariant of its own on top of `Inv`, `Unhurt`, about the states before any of the two damaging
crashes.  No entry is outside its data file but those of the writes in flight (`Busy`) and those that a failed reservation
left behind the settled ones (`Growing`), and an index has all its settled entries and no hole.  A base the sorter may
take has neither kind, so what it sorts or merges stays as it was read (`Frozen`) and the result of a data sort is complete
(`ChunkSound`); a base has a sorted index and no `.index` only right before the `link`.  After a crash outside the two
windows everything that the load and the index blocks check is therefore within its data file.

**What survives a crash.**  `SettledSurvive` is about keys, not files, and it has to hold after the damaging crashes
too, where `Unhurt` no longer helps.  Its invariant is `Safe`, on top of `Inv`.  Of each key that is not `unsure` it
says that one live entry in all files answers for it, or none if it was removed (`Recorded`, `Absent`), and of that entry
(`Holds`) that its slot has the acknowledged record, that *all entries before it are within the data file*, and that all
behind it have later slots.  The last two make the repair of the last base harmless: it stops at the first entry
it does not accept, and the next append begins behind the last slot it kept; the one entry it may still cut is
another key's (`Spared`).  They are properties of other keys' entries, those of writes in flight included, so these
have to be ordered as well: slots ascend with entries, and what comes before an entry is within the data file or will be
together with its record (`InLine`).  The hash and the operations that look the key up lead to that entry (`Known`).
While a merge removes the bases of its group file by file, its result has the record of every key that they
still had live (`Taking`, `Carried`), and the result takes the first name of the group only once the old files of that name
are gone (`Landing`): from there on no file of the group answers for the key but that one.

**Induction and sums.**  The library's induction theorems are about operators, which the provers cannot supply.
`InductionLemmas` derives induction from the fact that `<` is well founded on the naturals, which the library states of
sets, and from it what the fold of the community modules computes for a sum.  The models write sorting and
grouping with sets, counting and sums (`Rank` of `IndexOrder`, `LiveIn` of `DefragThread`) rather than with
`SortSeq` and `SelectSeq`, which the prover cannot look into.

**Only model-checked**: liveness (`LookupsReturn`, `SorterFinishes`, `RequestsServed`, `CleanupReturns`,
`Terminates`), which is outside the prover's reach.  Every safety property that a passing run checks is a theorem.

## 6. Plan

In this order:

1. *(done)* `EblobStore`, its runs, `EblobStoreProofs`.
2. *(done)* `BaseLookup`, its runs, `BaseListProofs`.
3. `KeyValue`, the abstract specification of the store (a map, atomic operations, a
   failed operation leaving its key undetermined), and `EblobStore` shown to implement it by
   `INSTANCE ... WITH`.
4. *(done)* `L2Hash` implements `KeyMap`; left: composing it with `EblobStore`, which has
   to discharge the guard of `Reindex` outside the window above.
5. *(done)* `Recovery`.
6. *(done)* `DefragThread`.
7. *(done)* `BaseIterator`; left: callbacks that call back into the store, in `BaseLookup`, and
   bases that are closed between two batches.
8. *(done)* Theorems: all safety properties of the runs that pass.

## 7. Running it

    tlc -config StoreWrites.cfg MCEblobStore
    tlc -config LookupSafe.cfg MCBaseLookup
    tlapm EblobStoreProofs.tla
    tlc -config L2Map.cfg MCL2Hash
    tlc -config Recovery.cfg MCRecovery
    tlc -config DefragThread.cfg MCDefragThread
    tlc -config BaseIterator.cfg MCBaseIterator
    tlapm RecoveryProofs.tla
    tlapm RecoveryRecordProofs.tla
    tlapm L2HashProofs.tla
    tlapm BaseListProofs.tla
    tlapm DefragThreadProofs.tla
    tlapm BaseIteratorProofs.tla

Each run needs at most three minutes on two cores, each proof between one minute and
fifteen (`EblobStoreProofs` and `RecoveryRecordProofs`).
