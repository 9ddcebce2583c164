------------------------------- MODULE L2Hash -------------------------------
(***************************************************************************)
(* The level two hash, which can take the place of the plain one: a tree   *)
(* of short hashes of keys that does not store the keys themselves, and a  *)
(* second tree, with full keys, for those whose short hashes collide.      *)
(* Whether an entry of the first tree is the one of a given key is read    *)
(* from the index on disk at the location the entry holds.                 *)
(*                                                                         *)
(* All of it runs under root_lock, so every operation is one step.  The    *)
(* module states, and L2HashProofs proves, that it implements KeyMap as    *)
(* long as an index entry is given another content only after its location *)
(* has left the hash.                                                      *)
(***************************************************************************)
EXTENDS Naturals, FiniteSets

CONSTANTS
    Keys,
    L2Keys,         \* the range of the short hash
    L2Key,          \* eblob_l2hash_key: any function will do
    Locs,           \* places for ram controls to point to
    None,           \* no entry
    Collided,       \* an entry with its collision flag set
    NoKey           \* the index cannot be read there: the base is closed

ASSUME L2KeyAssumption == L2Key \in [Keys -> L2Keys] /\ IsFiniteSet(Keys)
ASSUME NoLocAssumption ==
    /\ None \notin Locs /\ Collided \notin Locs /\ NoKey \notin Locs
    /\ None # Collided /\ None # NoKey /\ Collided # NoKey
    /\ NoKey \notin Keys

VARIABLES
    root,       \* per short hash: None, Collided or the location of its one key
    collisions, \* the location of each key in the collision tree, or None
    keyAt,      \* the key in the index entry at each location
    cached      \* EBLOB_GST_CACHED, in entries

vars == <<root, collisions, keyAt, cached>>

Slot(k) == root[L2Key[k]]

(* eblob_l2hash_compare_index *)
BelongsAlways(k, l) == keyAt[l] # NoKey
Belongs(k, l) == keyAt[l] = k

(* eblob_l2hash_lookup; NoKey stands for the error of reading the index.   *)
Resolve(k) ==
    IF Slot(k) = None THEN None
    ELSE IF Slot(k) = Collided THEN collisions[k]
    ELSE IF keyAt[Slot(k)] = NoKey THEN NoKey
    ELSE IF Belongs(k, Slot(k)) THEN Slot(k) ELSE None

Init ==
    /\ root = [h \in L2Keys |-> None]
    /\ collisions = [k \in Keys |-> None]
    /\ keyAt \in [Locs -> Keys \cup {NoKey}]
    /\ cached = 0

-----------------------------------------------------------------------------
(* eblob_l2hash_upsert.  The index entry at l is that of k already.        *)

(* Nobody has the short hash.                                              *)
Insert(k, l) ==
    /\ keyAt[l] = k
    /\ Slot(k) = None
    /\ root' = [root EXCEPT ![L2Key[k]] = l]
    /\ cached' = cached + 1
    /\ UNCHANGED <<collisions, keyAt>>

(* k has it.                                                               *)
Update(k, l) ==
    /\ keyAt[l] = k
    /\ Slot(k) \in Locs /\ Belongs(k, Slot(k))
    /\ root' = [root EXCEPT ![L2Key[k]] = l]
    /\ UNCHANGED <<collisions, keyAt, cached>>

(* Another key has it: its entry moves to the collision tree ...           *)
Collides(k) ==
    /\ Slot(k) \in Locs
    /\ keyAt[Slot(k)] # NoKey /\ ~Belongs(k, Slot(k))
    /\ collisions[keyAt[Slot(k)]] = None

Moved(k) == [collisions EXCEPT ![keyAt[Slot(k)]] = Slot(k)]

(* ... and that of k is added there,                                       *)
Collide(k, l) ==
    /\ keyAt[l] = k
    /\ Collides(k) /\ collisions[k] = None
    /\ root' = [root EXCEPT ![L2Key[k]] = Collided]
    /\ collisions' = [Moved(k) EXCEPT ![k] = l]
    /\ cached' = cached + 1
    /\ UNCHANGED keyAt

(* unless there is no memory for it.  (The other allocations fail before   *)
(* anything has changed.)                                                  *)
CollideNoMemory(k) ==
    /\ Collides(k)
    /\ root' = [root EXCEPT ![L2Key[k]] = Collided]
    /\ collisions' = Moved(k)
    /\ UNCHANGED <<keyAt, cached>>

(* replaced stays 0 when the key was not in the collision tree.            *)
AddedAlways(k) == 1
AddedNever(k) == 0
Added(k) == IF collisions[k] = None THEN 1 ELSE 0

(* Some keys have collided here before.                                    *)
UpsertCollision(k, l) ==
    /\ keyAt[l] = k
    /\ Slot(k) = Collided
    /\ collisions' = [collisions EXCEPT ![k] = l]
    /\ cached' = cached + Added(k)
    /\ UNCHANGED <<root, keyAt>>

(* eblob_l2hash_remove: a collision flag is never taken back.              *)
EntryErased(k) == [root EXCEPT ![L2Key[k]] = None]
EntryRemoved(k) ==
    IF Slot(k) = Collided THEN root ELSE [root EXCEPT ![L2Key[k]] = None]

Remove(k) ==
    /\ Resolve(k) \notin {None, NoKey}
    /\ root' = EntryRemoved(k)
    /\ collisions' = [collisions EXCEPT ![k] = None]
    /\ cached' = cached - 1
    /\ UNCHANGED keyAt

(* eblob_l2hash_destroy, eblob_l2hash_init *)
Destroy ==
    /\ root' = [h \in L2Keys |-> None]
    /\ collisions' = [k \in Keys |-> None]
    /\ cached' = 0
    /\ UNCHANGED keyAt

(* The files under it: an index entry is written, replaced by a sort or    *)
(* closed with its base, but first the keys there are flushed.             *)
Reindex(l, x) ==
    /\ \A k \in Keys : Resolve(k) # l
    /\ keyAt' = [keyAt EXCEPT ![l] = x]
    /\ UNCHANGED <<root, collisions, cached>>

Next ==
    \/ \E k \in Keys, l \in Locs :
          Insert(k, l) \/ Update(k, l) \/ Collide(k, l) \/ UpsertCollision(k, l)
    \/ \E k \in Keys : CollideNoMemory(k) \/ Remove(k)
    \/ \E l \in Locs, x \in Keys \cup {NoKey} : Reindex(l, x)
    \/ Destroy

Spec == Init /\ [][Next]_vars

-----------------------------------------------------------------------------
(* Every variable has its type. *)
TypeOK ==
    /\ root \in [L2Keys -> Locs \cup {None, Collided}]
    /\ collisions \in [Keys -> Locs \cup {None}]
    /\ keyAt \in [Locs -> Keys \cup {NoKey}]
    /\ cached \in Nat

(* Two trees, one map: an entry without the collision flag names, through  *)
(* the index, a key of its own short hash, none of which is in the         *)
(* collision tree; and the keys there are in the index where it says.  So  *)
(* __eblob_l2hash_collision_insert never meets the key it is to insert,    *)
(* and no lookup fails because of another key's closed base.               *)
TreesDisjoint ==
    /\ \A h \in L2Keys : root[h] \in Locs =>
          /\ keyAt[root[h]] \in Keys
          /\ L2Key[keyAt[root[h]]] = h
    /\ \A k \in Keys : collisions[k] # None =>
          /\ Slot(k) = Collided
          /\ keyAt[collisions[k]] = k

H == INSTANCE KeyMap WITH map <- [k \in Keys |-> Resolve(k)]

(* Colliding or not, keys are mapped to locations exactly as by the plain  *)
(* hash, and counted alike: no step of one key changes what another key    *)
(* resolves to, also when memory runs out in the middle of a collision.    *)
ImplementsKeyMap == H!Spec

(* EBLOB_GST_CACHED is the number of keys that resolve, in spite of keys   *)
(* moving from tree to tree.                                               *)
CachedExact == cached = Cardinality({k \in Keys : Resolve(k) # None})
=============================================================================
