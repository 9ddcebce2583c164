------------------------------- MODULE KeyMap -------------------------------
(***************************************************************************)
(* The in-memory hash as its callers see it: a map from keys to locations, *)
(* and the statistics counter that goes with it.  The red-black tree of    *)
(* hash.c is this map, node by node.                                       *)
(***************************************************************************)
EXTENDS Naturals

CONSTANTS Keys, Locs, None

VARIABLES
    map,      \* the location of each key; None: not in the hash
    cached    \* EBLOB_GST_CACHED, in entries

Init ==
    /\ map = [k \in Keys |-> None]
    /\ cached = 0

(* eblob_cache_insert: add or replace, and count what was added.           *)
Replace(k, l) ==
    /\ map' = [map EXCEPT ![k] = l]
    /\ cached' = IF map[k] = None THEN cached + 1 ELSE cached

(* eblob_cache_remove *)
Remove(k) ==
    /\ map[k] # None
    /\ map' = [map EXCEPT ![k] = None]
    /\ cached' = cached - 1

(* eblob_hash_destroy; the statistics go with the backend.                 *)
Destroy ==
    /\ map' = [k \in Keys |-> None]
    /\ cached' = 0

Next ==
    \/ \E k \in Keys, l \in Locs : Replace(k, l)
    \/ \E k \in Keys : Remove(k)
    \/ Destroy

Spec == Init /\ [][Next]_<<map, cached>>
=============================================================================
