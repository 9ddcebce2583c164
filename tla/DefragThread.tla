---------------------------- MODULE DefragThread ----------------------------
(***************************************************************************)
(* When eblob_defrag runs, on which bases, in which groups, and how the    *)
(* permanent threads end.                                                  *)
(*                                                                         *)
(* b->want_defrag is a plain field: callers of eblob_start_defrag and      *)
(* eblob_stop_defrag, writers that have opened a new base, and the thread  *)
(* itself test it and set it without a lock, while a run reads it again    *)
(* for every base.  Every such access is a step.  What a sort does to      *)
(* records is in EblobStore; here a base is what eblob_defrag sees of it:  *)
(* counters and two flags.  Records have the size one.                     *)
(***************************************************************************)
EXTENDS Integers, Sequences, FiniteSets, FiniteSetsExt

CONSTANTS
    RecordsInBlob, BlobSize,  \* cfg.records_in_blob, cfg.blob_size
    DefragPercentage,         \* cfg.defrag_percentage
    MergeSize,                \* a tenth of cfg.blob_size
    MinTimeout,               \* EBLOB_DEFAULT_DEFRAG_MIN_TIMEOUT
    Setups,                   \* settings, and bases there are at the beginning
    MaxBases, MaxEvents,      \* bounds: bases; calls and failures
    NoBase, Nobody, Forever,
    Sync, Thread, Periodic,   \* the permanent threads
    Caller                    \* somebody who calls eblob_defrag

Levels == {"data", "index", "compact"}   \* enum eblob_defrag_state, and "none"
Permanent == <<Sync, Thread, Periodic>>
Runners == {Thread, Caller}
BaseIds == 1 .. MaxBases

(* EBLOB_DISABLE_THREADS is not set; EBLOB_TIMED_DATASORT or                *)
(* EBLOB_SCHEDULED_DATASORT is; EBLOB_AUTO_DATASORT or EBLOB_AUTO_INDEXSORT *)
Config == [threads : BOOLEAN, timed : BOOLEAN, auto : {"none", "data", "index"}]

(* RECORDS_TOTAL, RECORDS_REMOVED, sort.fd >= 0, sorted                     *)
BaseRecord == [total : Nat, removed : Nat, index : BOOLEAN, data : BOOLEAN]

ASSUME LimitsAssumption ==
    /\ RecordsInBlob \in Nat \ {0} /\ BlobSize \in Nat \ {0}
    /\ DefragPercentage \in 1 .. 100 /\ MergeSize \in Nat
    /\ MinTimeout \in Nat \ {0}
    /\ MaxBases \in Nat \ {0} /\ MaxEvents \in Nat
(* datasort_swap_disk leaves the mark of sorted data last, and              *)
(* eblob_base_remove removes it before the sorted index.                   *)
ASSUME SetupsAssumption ==
    \A s \in Setups :
        /\ s.config \in Config
        /\ s.bases \in Seq(BaseRecord) /\ Len(s.bases) <= MaxBases
        /\ \A i \in DOMAIN s.bases :
              /\ s.bases[i].removed <= s.bases[i].total
              /\ s.bases[i].data => s.bases[i].index
ASSUME NamesAssumption ==
    /\ Cardinality({Sync, Thread, Periodic, Caller, Nobody}) = 5
    /\ NoBase \notin BaseRecord
    /\ Forever \notin Nat

VARIABLES
    config,   \* b->cfg
    base,     \* the bases of b->bases, by index: counters, sort.fd >= 0, sorted
    want,     \* b->want_defrag
    starting, \* calls that have tested want_defrag and not yet set it
    exit,     \* b->exit_event
    life,     \* how far eblob_init or eblob_cleanup has come
    alive,    \* permanent threads that run
    sleep,    \* sleep_time of the thread
    pc,       \* of the thread, and of a caller of eblob_defrag
    lock,     \* b->defrag_lock
    loc,      \* local variables of eblob_defrag
    events,
    asked,    \* observer: an accepted request, made before a run or during one
    run       \* observer: of the run in progress

client == <<want, starting>>
threads == <<exit, life, alive>>
vars == <<config, base, client, threads, sleep, pc, lock, loc, events, asked, run>>

InList == {b \in BaseIds : base[b] # NoBase}
LastBase == Max(InList)
Live(b) == base[b].total - base[b].removed

Start == [num |-> 0, cursor |-> 0, chosen |-> <<>>, current |-> 1, previous |-> 0,
          totalRecords |-> 0, totalSize |-> 0, records |-> 0, size |-> 0]
Fresh == [steady |-> TRUE, due |-> {}, sorted |-> {}]

(* A run in progress sees the level change, or a sort fail.                *)
Disturbed(how) == [run EXCEPT !.steady = @ /\ ~(how /\ lock # Nobody)]

MoreEvents == events < MaxEvents

-----------------------------------------------------------------------------
(* Requests *)

(* eblob_start_defrag_level tests, then sets.                              *)
CanStart == config.threads /\ want = "none"

StartTest(level) ==
    /\ life = "up" /\ MoreEvents
    /\ CanStart /\ level \notin starting
    /\ starting' = starting \cup {level}
    /\ events' = events + 1
    /\ UNCHANGED <<config, base, want, threads, sleep, pc, lock, loc, asked, run>>

(* A run that has begun may never see it.                                  *)
Running == {"select", "head", "accumulate", "sort", "done", "reset"}
Accepted == IF pc[Thread] \in Running THEN "late" ELSE "early"

StartSet(level) ==
    /\ level \in starting
    /\ starting' = starting \ {level}
    /\ want' = level
    /\ asked' = IF asked = "early" THEN asked ELSE Accepted
    /\ run' = Disturbed(want # level)
    /\ UNCHANGED <<config, base, threads, sleep, pc, lock, loc, events>>

(* eblob_stop_defrag *)
Stop ==
    /\ life = "up" /\ MoreEvents
    /\ config.threads /\ want # "none"
    /\ want' = "none"
    /\ asked' = "none"
    /\ run' = Disturbed(TRUE)
    /\ events' = events + 1
    /\ UNCHANGED <<config, base, starting, threads, sleep, pc, lock, loc>>

(* Removes, and overwrites: a record of any base is counted as removed.    *)
Remove(b) ==
    /\ life = "up" /\ MoreEvents
    /\ b \in InList /\ Live(b) > 0
    /\ base' = [base EXCEPT ![b].removed = @ + 1]
    /\ events' = events + 1
    /\ UNCHANGED <<config, client, threads, sleep, pc, lock, loc, asked, run>>

(* A write of a record: into the last base, or, if that is full, into a    *)
(* new one; then datasort_force_sort.                                      *)
Full == \/ InList = {}
        \/ base[LastBase].total >= BlobSize
        \/ base[LastBase].total >= RecordsInBlob
        \/ base[LastBase].index
NewId == IF InList = {} THEN 1 ELSE LastBase + 1
NewBase == [total |-> 1, removed |-> 0, index |-> FALSE, data |-> FALSE]

ForceSort ==
    InList # {} /\ ~base[LastBase].index /\ config.auto # "none" /\ CanStart

Write ==
    /\ life = "up" /\ MoreEvents
    /\ IF ~Full
       THEN /\ base' = [base EXCEPT ![LastBase].total = @ + 1]
            /\ UNCHANGED starting
       ELSE /\ NewId \in BaseIds
            /\ base' = [base EXCEPT ![NewId] = NewBase]
            /\ starting' = IF ForceSort THEN starting \cup {config.auto}
                           ELSE starting
    /\ events' = events + 1
    /\ UNCHANGED <<config, want, threads, sleep, pc, lock, loc, asked, run>>

-----------------------------------------------------------------------------
(* eblob_defrag *)

(* eblob_want_defrag *)
WantDefrag(b) ==
    IF base[b].total = base[b].removed THEN "remove"
    ELSE IF base[b].removed * 100 >= base[b].total * DefragPercentage THEN "needed"
    ELSE IF Live(b) < MergeSize THEN "merge"
    ELSE "not needed"

(* The caller waits for the lock, then counts the bases.                   *)
Call ==
    /\ life = "up" /\ MoreEvents
    /\ pc[Caller] = "idle"
    /\ pc' = [pc EXCEPT ![Caller] = "lock"]
    /\ events' = events + 1
    /\ UNCHANGED <<config, base, client, threads, sleep, lock, loc, asked, run>>

Lock(d) ==
    /\ pc[d] = "lock" /\ lock = Nobody
    /\ lock' = d
    /\ loc' = [Start EXCEPT !.num = Cardinality(InList)]
    /\ pc' = [pc EXCEPT ![d] = IF InList = {} THEN "done" ELSE "select"]
    /\ asked' = IF d = Thread THEN "none" ELSE asked
    /\ UNCHANGED <<config, base, client, threads, sleep, events, run>>

(* What the level asks of a base that stays in the list.                   *)
Due(b) == \/ want = "index" /\ ~base[b].index
          \/ want = "data" /\ (~base[b].data \/ WantDefrag(b) = "needed")
          \/ want = "compact" /\ WantDefrag(b) = "needed"

Skipped(b) ==
    \/ WantDefrag(b) = "not needed" /\ (want = "compact" \/ base[b].data)
    \/ want = "index" /\ base[b].index

Passed(b) == WantDefrag(b) = "remove" \/ Skipped(b)

(* "check that we still within bctls allocated space"                      *)
RoomAlways == TRUE   \* mutant
Room == Len(loc.chosen) < loc.num

(* One base of the first loop: removed, skipped or chosen.                 *)
SelectNext(d) ==
    LET b == Min({x \in InList : x > loc.cursor}) IN
    /\ pc[d] = "select" /\ b # LastBase
    /\ Passed(b) \/ Room
    /\ loc' = [loc EXCEPT !.cursor = b,
                          !.chosen = IF Passed(b) THEN @ ELSE Append(@, b)]
    /\ base' = IF WantDefrag(b) = "remove" THEN [base EXCEPT ![b] = NoBase] ELSE base
    /\ run' = IF WantDefrag(b) # "remove" /\ Due(b)
              THEN [run EXCEPT !.due = @ \cup {b}] ELSE run
    /\ UNCHANGED <<config, client, threads, sleep, pc, lock, events, asked>>

(* The last base, or no place in bctls any more.                           *)
SelectEnd(d) ==
    LET b == Min({x \in InList : x > loc.cursor}) IN
    /\ pc[d] = "select"
    /\ b = LastBase \/ (~Passed(b) /\ ~Room)
    /\ run' = [run EXCEPT !.steady = @ /\ b = LastBase]
    /\ IF loc.chosen = <<>>
       THEN /\ pc' = [pc EXCEPT ![d] = "done"]
            /\ UNCHANGED loc
       ELSE /\ pc' = [pc EXCEPT ![d] = "head"]
            /\ loc' = [loc EXCEPT !.totalRecords = Live(loc.chosen[1]),
                                  !.totalSize = base[loc.chosen[1]].total]
    /\ UNCHANGED <<config, base, client, threads, sleep, lock, events, asked>>

(* The condition of the second loop.                                       *)
LoopHead(d) ==
    /\ pc[d] = "head"
    /\ pc' = [pc EXCEPT ![d] = IF exit \/ want = "none" THEN "done" ELSE "accumulate"]
    /\ UNCHANGED <<config, base, client, threads, sleep, lock, loc, events, asked, run>>

Fits(records, size) ==
    \/ /\ loc.totalRecords + records <= RecordsInBlob
       /\ loc.totalSize + size <= BlobSize
    \/ records = 0

(* May the next base join the group?                                       *)
Accumulate(d) ==
    LET b == loc.chosen[loc.current + 1]
        records == Live(b)
        size == base[b].total IN
    /\ pc[d] = "accumulate"
    /\ IF loc.current < Len(loc.chosen) /\ want \in {"data", "compact"}
       THEN /\ loc' = [loc EXCEPT
                         !.records = records, !.size = size,
                         !.totalRecords = IF Fits(records, size) THEN @ + records ELSE @,
                         !.totalSize = IF Fits(records, size) THEN @ + size ELSE @,
                         !.current = IF Fits(records, size) THEN @ + 1 ELSE @]
            /\ pc' = [pc EXCEPT ![d] = IF Fits(records, size) THEN "head" ELSE "sort"]
       ELSE /\ pc' = [pc EXCEPT ![d] = "sort"]
            /\ UNCHANGED loc
    /\ UNCHANGED <<config, base, client, threads, sleep, lock, events, asked, run>>

(* The bases between previous and current.                                 *)
Group == {loc.chosen[i] : i \in loc.previous + 1 .. loc.current}

(* Which bases the switch sorts: a single sorted one only if it needs it.  *)
Sorted ==
    LET first == loc.chosen[loc.previous + 1] IN
    CASE want = "index" -> IF base[first].index THEN {} ELSE {first}
      [] want \in {"data", "compact"} ->
           IF \/ loc.current - loc.previous # 1
              \/ WantDefrag(first) = "needed" \/ ~base[first].data
           THEN Group ELSE {}
      [] OTHER -> {}

(* eblob_generate_sorted_data merges into the first base; with nothing to  *)
(* copy it is -ENOENT.                                                     *)
LiveIn(g) == SumFunctionOnSet([b \in g |-> Live(b)], g)
SizeOf(g) == SumFunctionOnSet([b \in g |-> base[b].total], g)

AfterSort(g) ==
    IF want = "index"
    THEN [b \in BaseIds |-> IF b \in g THEN [base[b] EXCEPT !.index = TRUE] ELSE base[b]]
    ELSE IF LiveIn(g) = 0 THEN base
    ELSE [b \in BaseIds |->
            IF b \notin g THEN base[b]
            ELSE IF b # Min(g) THEN NoBase
            ELSE [total |-> LiveIn(g), removed |-> 0, index |-> TRUE, data |-> TRUE]]

(* The base that did not fit is the first of the next group.  Mutant: the  *)
(* sums begin with nothing.                                                *)
BumpedEmpty == [loc EXCEPT !.previous = loc.current, !.current = @ + 1,
                           !.totalRecords = 0, !.totalSize = 0]
Bumped == [loc EXCEPT !.previous = loc.current, !.current = @ + 1,
                      !.totalRecords = loc.records, !.totalSize = loc.size]

(* ++current > bctl_cnt                                                    *)
AtEndEarly == loc.current + 1 >= Len(loc.chosen)   \* mutant
AtEnd == loc.current + 1 > Len(loc.chosen)

Advance(d) ==
    /\ loc' = Bumped
    /\ pc' = [pc EXCEPT ![d] = IF AtEnd THEN "done" ELSE "head"]

Sort(d) ==
    /\ pc[d] = "sort"
    /\ base' = IF Sorted = {} THEN base ELSE AfterSort(Sorted)
    /\ run' = [run EXCEPT !.sorted = @ \cup Sorted]
    /\ Advance(d)
    /\ UNCHANGED <<config, client, threads, sleep, lock, events, asked>>

(* The error is logged, and the next group is tried.                       *)
SortFails(d) ==
    /\ pc[d] = "sort" /\ Sorted # {} /\ MoreEvents
    /\ events' = events + 1
    /\ run' = Disturbed(TRUE)
    /\ Advance(d)
    /\ UNCHANGED <<config, base, client, threads, sleep, lock, asked>>

Done(d) ==
    /\ pc[d] = "done"
    /\ lock' = Nobody
    /\ loc' = Start /\ run' = Fresh
    /\ pc' = [pc EXCEPT ![d] = IF d = Thread THEN "reset" ELSE "idle"]
    /\ UNCHANGED <<config, base, client, threads, sleep, events, asked>>

-----------------------------------------------------------------------------
(* eblob_defrag_thread *)

(* datasort_next_defrag, in rounds of the loop.                            *)
NextDefrag(c) == IF c.timed THEN MinTimeout ELSE Forever

(* sleep_time-- != 0 && want_defrag == NOT_STARTED                         *)
SleepsDeaf == sleep # 0   \* mutant
Sleeps == sleep # 0 /\ want = "none"

Check ==
    /\ Thread \in alive /\ pc[Thread] = "check"
    /\ sleep' = IF sleep \in {0, Forever} THEN sleep ELSE sleep - 1
    /\ pc' = [pc EXCEPT ![Thread] = IF Sleeps THEN "wait" ELSE "test"]
    /\ UNCHANGED <<config, base, client, threads, lock, loc, events, asked, run>>

(* eblob_event_wait, for one second.                                       *)
Timeout ==
    /\ pc[Thread] = "wait" /\ ~exit
    /\ pc' = [pc EXCEPT ![Thread] = "check"]
    /\ UNCHANGED <<config, base, client, threads, sleep, lock, loc, events, asked, run>>

ThreadExits ==
    /\ pc[Thread] = "wait" /\ exit
    /\ pc' = [pc EXCEPT ![Thread] = "exited"]
    /\ alive' = alive \ {Thread}
    /\ UNCHANGED <<config, base, client, exit, life, sleep, lock, loc, events, asked,
                   run>>

(* The timer has run out, or there is a request: that is tested first ...  *)
Test ==
    /\ pc[Thread] = "test"
    /\ pc' = [pc EXCEPT ![Thread] = IF want = "none" THEN "set" ELSE "lock"]
    /\ UNCHANGED <<config, base, client, threads, sleep, lock, loc, events, asked, run>>

(* ... and what came in between is overwritten.                            *)
Set ==
    /\ pc[Thread] = "set"
    /\ want' = "compact"
    /\ run' = Disturbed(want # "compact")
    /\ pc' = [pc EXCEPT ![Thread] = "lock"]
    /\ UNCHANGED <<config, base, starting, threads, sleep, lock, loc, events, asked>>

(* The run is over.  Mutant: it is not.                                    *)
ClearedNot == want
Cleared == "none"

Reset ==
    /\ pc[Thread] = "reset"
    /\ want' = Cleared
    /\ run' = Disturbed(want # "none")
    /\ sleep' = NextDefrag(config)
    /\ pc' = [pc EXCEPT ![Thread] = "check"]
    /\ UNCHANGED <<config, base, starting, threads, lock, loc, events, asked>>

-----------------------------------------------------------------------------
(* The end of eblob_init, eblob_cleanup and the other two threads *)

(* pthread_create, one thread after the other.                             *)
Created == CHOOSE i \in 1 .. 3 : life = Permanent[i]

CreateThread ==
    /\ life \in {Sync, Thread, Periodic}
    /\ alive' = alive \cup {life}
    /\ life' = IF life = Periodic THEN "up" ELSE Permanent[Created + 1]
    /\ UNCHANGED <<config, base, client, exit, sleep, pc, lock, loc, events, asked, run>>

(* Those that run are told to end, and joined.                             *)
CreateFails ==
    /\ life \in {Sync, Thread, Periodic} /\ MoreEvents
    /\ life' = "closing"
    /\ exit' = TRUE
    /\ asked' = "none"
    /\ events' = events + 1
    /\ UNCHANGED <<config, base, client, alive, sleep, pc, lock, loc, run>>

Cleanup ==
    /\ life = "up" /\ starting = {} /\ pc[Caller] = "idle"
    /\ life' = "closing"
    /\ exit' = TRUE
    /\ asked' = "none"
    /\ UNCHANGED <<config, base, client, alive, sleep, pc, lock, loc, events, run>>

Joined == alive = {}

Join ==
    /\ life = "closing" /\ Joined
    /\ life' = "closed"
    /\ UNCHANGED <<config, base, client, exit, alive, sleep, pc, lock, loc, events,
                   asked, run>>

(* eblob_sync_thread and eblob_periodic_thread leave their loops, in an    *)
(* order nobody sees.                                                      *)
TimersExit ==
    /\ exit /\ alive \cap {Sync, Periodic} # {}
    /\ alive' = alive \ {Sync, Periodic}
    /\ UNCHANGED <<config, base, client, exit, life, sleep, pc, lock, loc, events,
                   asked, run>>

-----------------------------------------------------------------------------
(* The specification *)

Init ==
    /\ \E s \in Setups :
          /\ config = s.config
          /\ base = [b \in BaseIds |-> IF b \in DOMAIN s.bases THEN s.bases[b] ELSE NoBase]
    /\ want = IF config.threads /\ config.auto = "data" THEN "data" ELSE "none"
    /\ asked = IF want = "none" THEN "none" ELSE "early"
    /\ starting = {} /\ exit = FALSE /\ alive = {}
    /\ life = IF config.threads THEN Sync ELSE "up"
    /\ sleep = NextDefrag(config)
    /\ pc = [d \in Runners |-> IF d = Thread THEN "check" ELSE "idle"]
    /\ lock = Nobody /\ loc = Start /\ run = Fresh /\ events = 0

Step(d) ==
    Lock(d) \/ SelectNext(d) \/ SelectEnd(d) \/ LoopHead(d) \/ Accumulate(d)
    \/ Sort(d) \/ Done(d)

Next ==
    \/ \E l \in {"data", "index"} : StartTest(l) \/ StartSet(l)
    \/ Stop
    \/ \E b \in BaseIds : Remove(b)
    \/ Write
    \/ Call
    \/ \E d \in Runners : Step(d) \/ SortFails(d)
    \/ Check \/ Timeout \/ ThreadExits \/ Test \/ Set \/ Reset
    \/ CreateThread \/ CreateFails \/ Cleanup \/ Join
    \/ TimersExit

(* A thread that can go on does.  Nobody has to call anything.             *)
Fairness ==
    /\ \A l \in {"data", "index"} : WF_vars(StartSet(l))
    /\ \A d \in Runners : WF_vars(Step(d))
    /\ WF_vars(Check \/ Timeout \/ ThreadExits \/ Test \/ Set \/ Reset)
    /\ WF_vars(CreateThread) /\ WF_vars(Join)
    /\ WF_vars(TimersExit)

Spec == Init /\ [][Next]_vars /\ Fairness

-----------------------------------------------------------------------------
(* Properties *)

(* Every variable has its type; what is removed is at most what there is;  *)
(* bctls has room for what is chosen, and the loop stays inside it.        *)
TypeOK ==
    /\ config \in Config
    /\ \A b \in BaseIds : base[b] # NoBase =>
           base[b] \in BaseRecord /\ base[b].removed <= base[b].total
    /\ want \in Levels \cup {"none"} /\ starting \subseteq {"data", "index"}
    /\ exit \in BOOLEAN /\ alive \subseteq {Sync, Thread, Periodic}
    /\ life \in {Sync, Thread, Periodic, "up", "closing", "closed"}
    /\ sleep \in 0 .. MinTimeout \cup {Forever}
    /\ lock \in Runners \cup {Nobody}
    /\ asked \in {"none", "early", "late"}
    /\ loc.chosen \in Seq(BaseIds) /\ Len(loc.chosen) <= loc.num
    /\ \A d \in Runners : pc[d] \in {"head", "accumulate", "sort"} =>
           loc.previous < loc.current /\ loc.current <= Len(loc.chosen)
    /\ run.steady \in BOOLEAN /\ run.due \subseteq BaseIds

(* "sum of group sizes and record counts is within blob_size /             *)
(* records_in_blob limits", for every group that is merged while the level *)
(* stays what it was when the run began; empty bases are always merged.    *)
GroupsFit ==
    [][\A d \in Runners :
        LET g == Sorted
            full == {b \in g : Live(b) > 0} IN
        Sort(d) /\ run.steady /\ Cardinality(full) > 1 =>
            /\ LiveIn(full) <= RecordsInBlob
            /\ SizeOf(full) <= BlobSize]_vars

(* A run that nothing disturbs sorts every base that its level asks it to: *)
(* none falls between two groups, or is forgotten at the end.              *)
RunComplete ==
    \A d \in Runners : pc[d] = "done" /\ run.steady /\ ~exit =>
        \A b \in run.due \cap InList : b \in run.sorted \/ Live(b) = 0

(* eblob_start_defrag "forces defragmentation thread to run": a request    *)
(* that was accepted before the thread has begun a run is followed by one, *)
(* unless it is taken back.                                                *)
RequestsServed == asked = "early" ~> asked = "none"

(* eblob_cleanup, and an eblob_init that fails, return.                    *)
CleanupReturns == life = "closing" ~> life = "closed"
=============================================================================
