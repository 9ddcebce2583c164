---------------------------- MODULE MCBaseLookup ----------------------------
(* BaseLookup for model checking.                                          *)
EXTENDS BaseLookup, TLC

(* Threads are interchangeable; used for the safety runs only.             *)
ThreadSymmetry == Permutations(Threads)

(* The bounds are exhausted, everybody is idle: the one way to stop.       *)
Quiet ==
    /\ phase = "idle" /\ mutex = Nobody /\ \A t \in Threads : pc[t] = "idle"
    /\ UNCHANGED vars

(* A crashed process does nothing any more.                                *)
Dead == crashed /\ UNCHANGED vars

BoundedNext == Next \/ Quiet \/ Dead

SafetySpec == Init /\ [][BoundedNext]_vars

(* Liveness is checked for the lookups that walk furthest: the key is on   *)
(* disk only, in the first base.                                           *)
LongestWalk == Init /\ home = 1 /\ ~cached

LiveSpec == LongestWalk /\ [][BoundedNext]_vars /\ Fairness
=============================================================================
