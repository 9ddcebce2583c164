----------------------------- MODULE BaseLookup -----------------------------
(***************************************************************************)
(* The lookup of a key that walks the list of bases without b->lock, while *)
(* the defragmentation thread replaces, unlinks and closes the very bases  *)
(* it walks over and writers append new ones.                              *)
(*                                                                         *)
(* A lookup protects one base at a time by its use counter critness; the   *)
(* sorter waits until that is zero and keeps the base locked from then on. *)
(* The list is modelled by its two directions: bases is what the next      *)
(* pointers say, which only the owners of b->lock follow, and prev are the *)
(* pointers the lookups follow, written one store at a time.  The module   *)
(* follows one key, whose live record is in the base home; what records    *)
(* contain is the subject of EblobStore.                                   *)
(***************************************************************************)
EXTENDS Integers, Sequences, FiniteSets, SequencesExt

CONSTANTS
    Threads,      \* the callers of eblob_cache_lookup
    FirstBases,   \* how many bases the list has in the beginning
    MaxTries,     \* max_tries of eblob_disk_index_lookup
    MaxBases,     \* bound: how many eblob_base_ctl objects are ever created
    MaxLookups,   \* bound: how many lookups
    MaxRounds,    \* bound: how many bases or groups the sorter works on
    NULL, Nobody, Sorter

Root == 0                   \* the list head b->bases itself
Bases == 1 .. MaxBases
Nodes == {Root} \cup Bases

ASSUME ThreadsAssumption ==
    IsFiniteSet(Threads) /\ Nobody \notin Threads /\ Sorter \notin Threads
ASSUME BasesAssumption ==
    /\ MaxBases \in Nat /\ FirstBases \in 1 .. MaxBases
    /\ MaxTries \in Nat /\ MaxLookups \in Nat /\ MaxRounds \in Nat
    /\ NULL \notin Nodes /\ Nobody # Sorter

VARIABLES
    bases,    \* the list by its next pointers
    prev,     \* base_entry.prev of every base and of the head
    born,     \* number of base objects created so far
    place,    \* bctl->index, by which the list is ordered
    open,     \* bases with index_fd >= 0
    sorted,   \* bases with sort.fd >= 0
    home,     \* the base with the live record of the key; Root: there is none
    cached,   \* is the key in the hash?
    critness, \* number of users of each base
    locked,   \* bases whose lock the sorter keeps
    mutex,    \* the owner of b->lock
    pc, at, tries, result,   \* the lookup of each thread
    job, phase, group, todo, \* what the sorter does, and to which bases
    asleep,   \* it waits on the condition variable of Head(todo)
    lookups, rounds,
    \* observers
    excuse,   \* lookups during which the key was absent or rewritten
    since,    \* rounds when the lookup of each thread began
    crashed   \* a lookup has followed a null pointer

list == <<bases, prev, born, place>>
record == <<open, sorted, home, cached>>
walk == <<pc, at, tries, result>>
sorter == <<job, phase, group, todo, asleep>>
observers == <<excuse, since, crashed>>
vars == <<list, record, critness, locked, mutex, walk, sorter, lookups, rounds,
          observers>>

-----------------------------------------------------------------------------
(* The list *)

Position(b) == CHOOSE i \in DOMAIN bases : bases[i] = b

(* base_entry.next of a base in the list.                                  *)
NextOf(b) ==
    IF Position(b) = Len(bases) THEN Root ELSE bases[Position(b) + 1]

(* __list_del: the neighbours are linked, the pointers of b itself stay.   *)
UnlinkedNot(b) == prev
Unlinked(b) == [prev EXCEPT ![NextOf(b)] = prev[b]]

Unlink(b) ==
    \E i \in DOMAIN bases :
        /\ bases[i] = b
        /\ prev' = Unlinked(b)
        /\ bases' = RemoveAt(bases, i)

(* Bases the sorter may take: all but the last, which is written to.       *)
Old == Range(Front(bases))

(* root_lock is held for writing while the hash is flushed and the list of *)
(* bases changed.                                                          *)
HashLocked == phase \in {"link", "unlink"}

-----------------------------------------------------------------------------
(* eblob_cache_lookup and eblob_disk_index_lookup *)

Return(t, res) ==
    /\ pc' = [pc EXCEPT ![t] = "idle"]
    /\ at' = [at EXCEPT ![t] = Root]
    /\ tries' = [tries EXCEPT ![t] = 0]
    /\ result' = [result EXCEPT ![t] = res]
    /\ mutex' = IF mutex = t THEN Nobody ELSE mutex

(* The hash, with root_lock held for reading; then the disk.  Some callers *)
(* hold b->lock (own), eblob_read and eblob_remove do not.                 *)
Lookup(t, own) ==
    /\ pc[t] = "idle" /\ lookups < MaxLookups
    /\ own => mutex = Nobody
    /\ ~HashLocked
    /\ lookups' = lookups + 1
    /\ IF cached THEN Return(t, "found")
       ELSE /\ pc' = [pc EXCEPT ![t] = "step"]
            /\ result' = [result EXCEPT ![t] = "none"]
            /\ mutex' = IF own THEN t ELSE mutex
            /\ UNCHANGED <<at, tries>>
    /\ excuse' = IF home = Root THEN excuse \cup {t} ELSE excuse \ {t}
    /\ since' = [since EXCEPT ![t] = rounds]
    /\ UNCHANGED <<list, record, critness, locked, sorter, rounds, crashed>>

(* list_for_each_entry_reverse: the next base is what prev says.           *)
Step(t) ==
    LET p == prev[at[t]] IN
    /\ pc[t] = "step"
    /\ \/ /\ p = NULL
          /\ crashed' = TRUE
          /\ UNCHANGED <<walk, mutex>>
       \/ /\ p = Root
          /\ Return(t, "absent")
          /\ UNCHANGED crashed
       \/ /\ p \in Bases
          /\ at' = [at EXCEPT ![t] = p]
          /\ pc' = [pc EXCEPT ![t] = "enter"]
          /\ UNCHANGED <<tries, result, mutex, crashed>>
    /\ UNCHANGED <<list, record, critness, locked, sorter, lookups, rounds,
                   excuse, since>>

(* eblob_bctl_hold *)
Hold(t) ==
    /\ pc[t] = "enter" /\ at[t] \notin locked
    /\ critness' = [critness EXCEPT ![at[t]] = @ + 1]
    /\ pc' = [pc EXCEPT ![t] = "check"]
    /\ UNCHANGED <<list, record, locked, mutex, at, tries, result, sorter, lookups,
                   rounds, observers>>

(* A base closed before it was held starts the walk again; one without a   *)
(* sorted index is skipped, its keys are in the hash.                      *)
CheckNot(t) == IF at[t] \notin sorted THEN "skip" ELSE "search"
CheckOf(t) ==
    IF at[t] \notin open THEN "again"
    ELSE IF at[t] \notin sorted THEN "skip" ELSE "search"

Check(t) ==
    /\ pc[t] = "check"
    /\ pc' = [pc EXCEPT ![t] = CheckOf(t)]
    /\ UNCHANGED <<list, record, critness, locked, mutex, at, tries, result, sorter,
                   lookups, rounds, observers>>

(* eblob_find_on_disk *)
Search(t) ==
    /\ pc[t] = "search"
    /\ pc' = [pc EXCEPT ![t] = IF home = at[t] THEN "found" ELSE "skip"]
    /\ UNCHANGED <<list, record, critness, locked, mutex, at, tries, result, sorter,
                   lookups, rounds, observers>>

(* eblob_bctl_release wakes who waits for the base.                        *)
WokenNever(b, count) == asleep
Woken(b, count) == asleep /\ ~(count = 0 /\ b = Head(todo))

Release(t) ==
    LET b == at[t] IN
    /\ pc[t] \in {"again", "skip", "found"} /\ b \notin locked
    /\ critness' = [critness EXCEPT ![b] = @ - 1]
    /\ asleep' = Woken(b, critness[b] - 1)
    /\ \/ pc[t] = "found" /\ Return(t, "found")
       \/ /\ pc[t] = "skip"
          /\ pc' = [pc EXCEPT ![t] = "step"]
          /\ UNCHANGED <<at, tries, result, mutex>>
       \/ pc[t] = "again" /\ tries[t] > MaxTries /\ Return(t, "deadlk")
       \/ /\ pc[t] = "again" /\ tries[t] <= MaxTries
          /\ tries' = [tries EXCEPT ![t] = @ + 1]
          /\ at' = [at EXCEPT ![t] = Root]
          /\ pc' = [pc EXCEPT ![t] = "step"]
          /\ UNCHANGED <<result, mutex>>
    /\ UNCHANGED <<list, record, locked, job, phase, group, todo, lookups, rounds,
                   observers>>

-----------------------------------------------------------------------------
(* Writers, under b->lock *)

(* eblob_add_new_base_ctl: list_add_tail publishes the base in the head's  *)
(* prev pointer; its index is greater than any before ...                  *)
AddBase(t) ==
    /\ pc[t] = "idle" /\ mutex = Nobody /\ born < MaxBases
    /\ mutex' = t
    /\ born' = born + 1
    /\ place' = [place EXCEPT ![born + 1] = born + 1]
    /\ open' = open \cup {born + 1}
    /\ prev' = [prev EXCEPT ![Root] = born + 1]
    /\ pc' = [pc EXCEPT ![t] = "add"]
    /\ UNCHANGED <<bases, sorted, home, cached, critness, locked, at, tries, result,
                   sorter, lookups, rounds, observers>>

(* ... before it sets the prev pointer of the base.                        *)
LinkBase(t) ==
    /\ pc[t] = "add"
    /\ prev' = [prev EXCEPT ![born] = Last(bases)]
    /\ bases' = Append(bases, born)
    /\ pc' = [pc EXCEPT ![t] = "idle"]
    /\ mutex' = Nobody
    /\ UNCHANGED <<born, place, record, critness, locked, at, tries, result, sorter,
                   lookups, rounds, observers>>

(* A write moves the key to the last base and into the hash.               *)
Rewrite ==
    /\ mutex = Nobody
    /\ home # Last(bases)
    /\ home' = Last(bases)
    /\ cached' = TRUE
    /\ excuse' = excuse \cup {t \in Threads : pc[t] # "idle"}
    /\ UNCHANGED <<list, open, sorted, critness, locked, mutex, walk, sorter,
                   lookups, rounds, since, crashed>>

-----------------------------------------------------------------------------
(* The defragmentation thread *)

Start(j, g) ==
    /\ mutex' = Sorter
    /\ job' = j
    /\ phase' = "lock"
    /\ group' = g /\ todo' = g
    /\ UNCHANGED <<record, critness, locked, walk, asleep, lookups, rounds,
                   observers>>

CanStart == phase = "idle" /\ mutex = Nobody /\ rounds < MaxRounds

(* eblob_generate_sorted_data and eblob_generate_sorted_index take b->lock *)
(* for the swap (and, before, to start the binlog).                        *)
StartMerge ==
    /\ CanStart /\ born < MaxBases
    /\ \E n \in 1 .. Len(bases) - 1 : \E g \in [1 .. n -> Old] :
        /\ \A i, j \in 1 .. n : i < j => Position(g[i]) < Position(g[j])
        /\ Start("merge", g)
    /\ UNCHANGED list

StartIndexsort ==
    /\ CanStart
    /\ \E b \in Old \ sorted : Start("indexsort", <<b>>)
    /\ UNCHANGED list

(* EBLOB_REMOVE_NEEDED: unlinked first, then waited for.                   *)
StartRemove ==
    /\ CanStart
    /\ \E b \in Old \ {home} : Start("remove", <<b>>) /\ Unlink(b)
    /\ UNCHANGED <<born, place>>

(* eblob_base_wait_locked of one base after the other: sleep while it is   *)
(* in use; once it is not, keep its lock.                                  *)
UnusedAlways(b) == TRUE
Unused(b) == critness[b] = 0

WaitLocked ==
    /\ phase = "lock" /\ ~asleep
    /\ IF Unused(Head(todo))
       THEN /\ locked' = locked \cup {Head(todo)}
            /\ todo' = Tail(todo)
            /\ phase' = IF Len(todo) = 1 THEN "swap" ELSE "lock"
            /\ UNCHANGED asleep
       ELSE asleep' = TRUE /\ UNCHANGED <<locked, todo, phase>>
    /\ UNCHANGED <<list, record, critness, mutex, walk, job, group, lookups, rounds,
                   observers>>

Finish ==
    /\ phase' = "idle" /\ job' = "none"
    /\ group' = <<>> /\ todo' = <<>>
    /\ locked' = {}
    /\ mutex' = Nobody
    /\ rounds' = rounds + 1
    /\ UNCHANGED <<critness, walk, asleep, lookups, observers>>

(* An error, or the locks were only taken to start the binlog.             *)
GiveUp ==
    /\ phase = "swap" /\ job # "remove"
    /\ Finish
    /\ UNCHANGED <<list, record>>

(* The sorted index is put into use and its keys leave the hash.           *)
IndexsortSwap ==
    /\ phase = "swap" /\ job = "indexsort"
    /\ sorted' = sorted \cup Range(group)
    /\ cached' = (cached /\ home \notin Range(group))
    /\ Finish
    /\ UNCHANGED <<list, open, home>>

(* datasort_swap_memory, hash locked: the merged base has all the records, *)
(* they leave the hash, and list_replace makes the successor of the first  *)
(* base of the group, whose index it has, point to it ...                  *)
Replaced == group[1]

SwapMemory ==
    /\ phase = "swap" /\ job = "merge" /\ born < MaxBases
    /\ born' = born + 1
    /\ place' = [place EXCEPT ![born + 1] = place[Replaced]]
    /\ open' = open \cup {born + 1}
    /\ sorted' = sorted \cup {born + 1}
    /\ home' = IF home \in Range(group) THEN born + 1 ELSE home
    /\ cached' = (cached /\ home \notin Range(group))
    /\ prev' = [prev EXCEPT ![NextOf(Replaced)] = born + 1]
    /\ phase' = "link"
    /\ UNCHANGED <<bases, critness, locked, mutex, walk, job, group, todo, asleep,
                   lookups, rounds, observers>>

(* ... before its own prev pointer is set;                                 *)
LinkMerged ==
    /\ phase = "link"
    /\ prev' = [prev EXCEPT ![born] = prev[Replaced]]
    /\ bases' = ReplaceAll(bases, Replaced, born)
    /\ todo' = Tail(group)
    /\ phase' = IF Len(group) = 1 THEN "close" ELSE "unlink"
    /\ UNCHANGED <<born, place, record, critness, locked, mutex, walk, job, group,
                   asleep, lookups, rounds, observers>>

(* then the others are unlinked one by one.                                *)
UnlinkMerged ==
    /\ phase = "unlink"
    /\ Unlink(Head(todo))
    /\ todo' = Tail(todo)
    /\ phase' = IF Len(todo) = 1 THEN "close" ELSE "unlink"
    /\ UNCHANGED <<born, place, record, critness, locked, mutex, walk, job, group,
                   asleep, lookups, rounds, observers>>

(* _eblob_base_ctl_cleanup resets sort.fd together with index_fd.          *)
SortKept == sorted
SortReset == sorted \ Range(group)

(* The bases of the group are closed, then all the locks are released.     *)
Close ==
    /\ \/ phase = "close"
       \/ phase = "swap" /\ job = "remove"
    /\ open' = open \ Range(group)
    /\ sorted' = SortReset
    /\ Finish
    /\ UNCHANGED <<list, home, cached>>

-----------------------------------------------------------------------------
(* A list of sorted and unsorted bases, the last one unsorted.             *)
Init ==
    /\ bases = [i \in 1 .. FirstBases |-> i]
    /\ prev = [x \in Nodes |-> IF x = Root THEN FirstBases
                               ELSE IF x <= FirstBases THEN x - 1 ELSE NULL]
    /\ born = FirstBases
    /\ place = [b \in Bases |-> IF b <= FirstBases THEN b ELSE 0]
    /\ open = 1 .. FirstBases
    /\ sorted \in SUBSET (1 .. FirstBases - 1)
    /\ home \in 0 .. FirstBases
    /\ cached = (home # Root /\ home \notin sorted)
    /\ critness = [b \in Bases |-> 0]
    /\ locked = {} /\ mutex = Nobody
    /\ pc = [t \in Threads |-> "idle"]
    /\ at = [t \in Threads |-> Root]
    /\ tries = [t \in Threads |-> 0]
    /\ result = [t \in Threads |-> "none"]
    /\ job = "none" /\ phase = "idle" /\ group = <<>> /\ todo = <<>>
    /\ asleep = FALSE
    /\ lookups = 0 /\ rounds = 0
    /\ excuse = {} /\ since = [t \in Threads |-> 0] /\ crashed = FALSE

Walk(t) == Step(t) \/ Hold(t) \/ Check(t) \/ Search(t) \/ Release(t) \/ LinkBase(t)

Sort ==
    \/ WaitLocked \/ GiveUp \/ IndexsortSwap \/ SwapMemory \/ LinkMerged
    \/ UnlinkMerged \/ Close

Next ==
    /\ ~crashed
    /\ \/ \E t \in Threads :
            Walk(t) \/ AddBase(t) \/ \E own \in BOOLEAN : Lookup(t, own)
       \/ Rewrite
       \/ StartMerge \/ StartIndexsort \/ StartRemove
       \/ Sort

(* Everybody goes on with what it has begun; nobody has to begin anything. *)
Fairness ==
    /\ \A t \in Threads : WF_vars(~crashed /\ Walk(t))
    /\ WF_vars(~crashed /\ Sort)

Spec == Init /\ [][Next]_vars /\ Fairness

-----------------------------------------------------------------------------
Pcs == {"idle", "step", "enter", "check", "search", "again", "skip", "found", "add"}

(* Every variable has its type. *)
TypeOK ==
    /\ bases \in Seq(Bases) /\ born \in FirstBases .. MaxBases
    /\ prev \in [Nodes -> Nodes \cup {NULL}] /\ place \in [Bases -> 0 .. MaxBases]
    /\ open \in SUBSET Bases /\ sorted \in SUBSET open
    /\ home \in Nodes /\ cached \in BOOLEAN
    /\ critness \in [Bases -> Nat]
    /\ locked \in SUBSET Bases
    /\ mutex \in Threads \cup {Nobody, Sorter}
    /\ pc \in [Threads -> Pcs] /\ at \in [Threads -> Nodes]
    /\ tries \in [Threads -> Nat]
    /\ result \in [Threads -> {"none", "found", "absent", "deadlk"}]
    /\ job \in {"none", "merge", "indexsort", "remove"}
    /\ phase \in {"idle", "lock", "swap", "link", "unlink", "close"}
    /\ group \in Seq(Bases) /\ todo \in Seq(Bases) /\ asleep \in BOOLEAN
    /\ lookups \in 0 .. MaxLookups /\ rounds \in 0 .. MaxRounds
    /\ excuse \in SUBSET Threads /\ since \in [Threads -> 0 .. MaxRounds]
    /\ crashed \in BOOLEAN

(* A lookup never searches the index of a base that has been closed under  *)
(* it, although it holds no lock while it searches.                        *)
HeldOpen == \A t \in Threads : pc[t] = "search" => at[t] \in open

(* A lookup that says -ENOENT tells the truth: the key was absent at some  *)
(* moment of it, or was rewritten meanwhile.  Merges, removals and index   *)
(* sorts alone, however they overtake the walk, never hide a key.          *)
NeverMissed == \A t \in Threads : result[t] = "absent" => t \in excuse

(* Each restart of the walk is paid for by a round of the sorter, so       *)
(* -EDEADLK needs more than max_tries of them during one lookup.           *)
RetriesPaid == \A t \in Threads : pc[t] # "idle" => tries[t] <= rounds - since[t]

(* Outside the list operations, the prev pointers of the listed bases are  *)
(* the inverse of the next pointers, in spite of the separate stores.      *)
LinksAgree ==
    ~HashLocked /\ (\A t \in Threads : pc[t] # "add") =>
        /\ prev[Root] = Last(bases)
        /\ \A i \in DOMAIN bases :
              prev[bases[i]] = IF i = 1 THEN Root ELSE bases[i - 1]

(* Every lookup returns, in spite of the locks the sorter keeps.           *)
LookupsReturn ==
    \A t \in Threads : pc[t] # "idle" ~> pc[t] = "idle" \/ crashed

(* The sorter gets hold of every base it waits for and releases all locks. *)
SorterFinishes == phase # "idle" ~> phase = "idle" \/ crashed

=============================================================================
