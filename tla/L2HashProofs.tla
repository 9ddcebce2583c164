---------------------------- MODULE L2HashProofs ----------------------------
(***************************************************************************)
(* The level two hash implements the map of KeyMap, for every short hash   *)
(* function and any number of keys and locations.                          *)
(***************************************************************************)
EXTENDS L2Hash, FiniteSetTheorems, TLAPS

(* The inductive invariant needs no strengthening.                         *)
IInv == TypeOK /\ TreesDisjoint

(* A key that resolves does so to an index entry of its own.               *)
LEMMA ResolvesToOwn ==
    ASSUME IInv, NEW k \in Keys
    PROVE  /\ Resolve(k) \in Locs \cup {None}
           /\ Resolve(k) # None => keyAt[Resolve(k)] = k
BY L2KeyAssumption, NoLocAssumption
   DEF IInv, TypeOK, TreesDisjoint, Resolve, Slot, Belongs

(* A step that changes what one key resolves to, and counts it, is a step  *)
(* of the map.                                                             *)
LEMMA MapReplaced ==
    ASSUME NEW k \in Keys, NEW l \in Locs,
           \A j \in Keys : Resolve(j)' = IF j = k THEN l ELSE Resolve(j),
           cached' = IF Resolve(k) = None THEN cached + 1 ELSE cached
    PROVE  H!Replace(k, l)
<1>1. [j \in Keys |-> Resolve(j)]' = [j \in Keys |-> Resolve(j)']
  OBVIOUS
<1>2. [j \in Keys |-> Resolve(j)'] = [[j \in Keys |-> Resolve(j)] EXCEPT ![k] = l]
  OBVIOUS
<1>. QED
  BY <1>1, <1>2 DEF H!Replace

LEMMA MapRemoved ==
    ASSUME NEW k \in Keys, Resolve(k) # None,
           \A j \in Keys : Resolve(j)' = IF j = k THEN None ELSE Resolve(j),
           cached' = cached - 1
    PROVE  H!Remove(k)
<1>1. [j \in Keys |-> Resolve(j)'] = [[j \in Keys |-> Resolve(j)] EXCEPT ![k] = None]
  OBVIOUS
<1>. QED
  BY <1>1 DEF H!Remove

(* A step that changes nothing of it is a stuttering step of the map.      *)
MapKept == \A j \in Keys : Resolve(j)' = Resolve(j)

LEMMA MapStutters ==
    ASSUME MapKept, cached' = cached
    PROVE  UNCHANGED <<[j \in Keys |-> Resolve(j)], cached>>
BY DEF MapKept

LEMMA InsertMaps ==
    ASSUME IInv, NEW k \in Keys, NEW l \in Locs, Insert(k, l)
    PROVE  IInv' /\ H!Replace(k, l)
<1>1. TypeOK'
  BY L2KeyAssumption DEF IInv, TypeOK, Insert
<1>2. TreesDisjoint'
  BY L2KeyAssumption, NoLocAssumption
     DEF IInv, TypeOK, TreesDisjoint, Insert, Slot
<1>3. \A j \in Keys : Resolve(j)' = IF j = k THEN l ELSE Resolve(j)
  BY L2KeyAssumption, NoLocAssumption
     DEF IInv, TypeOK, TreesDisjoint, Insert, Resolve, Slot, Belongs
<1>4. Resolve(k) = None
  BY DEF Insert, Resolve
<1>. QED
  BY <1>1, <1>2, <1>3, <1>4, MapReplaced DEF IInv, Insert

LEMMA UpdateMaps ==
    ASSUME IInv, NEW k \in Keys, NEW l \in Locs, Update(k, l)
    PROVE  IInv' /\ H!Replace(k, l)
<1>1. TypeOK'
  BY L2KeyAssumption DEF IInv, TypeOK, Update
<1>2. TreesDisjoint'
  BY L2KeyAssumption, NoLocAssumption
     DEF IInv, TypeOK, TreesDisjoint, Update, Slot, Belongs
<1>3. \A j \in Keys : Resolve(j)' = IF j = k THEN l ELSE Resolve(j)
  BY L2KeyAssumption, NoLocAssumption
     DEF IInv, TypeOK, TreesDisjoint, Update, Resolve, Slot, Belongs
<1>4. Resolve(k) # None
  BY NoLocAssumption DEF Update, Resolve, Belongs
<1>. QED
  BY <1>1, <1>2, <1>3, <1>4, MapReplaced DEF IInv, Update

(* Keys of a short hash without the collision flag are in no collision     *)
(* tree, and at most one of them resolves.                                 *)
LEMMA CollidingAlone ==
    ASSUME IInv, NEW k \in Keys, Collides(k)
    PROVE  /\ keyAt[Slot(k)] \in Keys \ {k}
           /\ L2Key[keyAt[Slot(k)]] = L2Key[k]
           /\ Slot(k) \in Locs
           /\ Resolve(k) = None
           /\ \A j \in Keys : L2Key[j] = L2Key[k] =>
                 /\ collisions[j] = None
                 /\ Resolve(j) = IF j = keyAt[Slot(k)] THEN Slot(k) ELSE None
<1>1. /\ Slot(k) \in Locs
      /\ keyAt[Slot(k)] \in Keys \ {k}
      /\ L2Key[keyAt[Slot(k)]] = L2Key[k]
  BY L2KeyAssumption DEF IInv, TypeOK, TreesDisjoint, Collides, Slot, Belongs
<1>2. Slot(k) # None /\ Slot(k) # Collided
  BY <1>1, NoLocAssumption
<1>3. \A j \in Keys : L2Key[j] = L2Key[k] => collisions[j] = None
  BY <1>2 DEF IInv, TreesDisjoint, Slot
<1>4. \A j \in Keys : L2Key[j] = L2Key[k] =>
         Resolve(j) = IF j = keyAt[Slot(k)] THEN Slot(k) ELSE None
  BY <1>1, <1>2, NoLocAssumption DEF Resolve, Slot, Belongs
<1>. QED
  BY <1>1, <1>3, <1>4

LEMMA CollideMaps ==
    ASSUME IInv, NEW k \in Keys, NEW l \in Locs, Collide(k, l)
    PROVE  IInv' /\ H!Replace(k, l)
<1> DEFINE o == keyAt[Slot(k)]
<1>1. /\ Collides(k)
      /\ o \in Keys \ {k} /\ L2Key[o] = L2Key[k] /\ Slot(k) \in Locs
      /\ Resolve(k) = None
      /\ \A j \in Keys : L2Key[j] = L2Key[k] =>
            /\ collisions[j] = None
            /\ Resolve(j) = IF j = o THEN Slot(k) ELSE None
  BY CollidingAlone DEF Collide
<1>2. \A j \in Keys : collisions'[j] = IF j = k THEN l
                                       ELSE IF j = o THEN Slot(k)
                                       ELSE collisions[j]
  BY <1>1 DEF Collide, Moved, IInv, TypeOK
<1>3. \A h \in L2Keys : root'[h] = IF h = L2Key[k] THEN Collided ELSE root[h]
  BY L2KeyAssumption DEF Collide, IInv, TypeOK
<1>4. keyAt' = keyAt /\ keyAt[l] = k
  BY DEF Collide
<1>5. TypeOK'
  <2>1. Moved(k) \in [Keys -> Locs \cup {None}]
    BY <1>1 DEF IInv, TypeOK, Moved
  <2>2. collisions' \in [Keys -> Locs \cup {None}]
    BY <2>1 DEF Collide
  <2>. QED
    BY <2>2, L2KeyAssumption DEF IInv, TypeOK, Collide
<1>6. TreesDisjoint'
  BY <1>1, <1>2, <1>3, <1>4, L2KeyAssumption, NoLocAssumption
     DEF IInv, TypeOK, TreesDisjoint, Slot
<1>7. ASSUME NEW j \in Keys
      PROVE  Resolve(j)' = IF j = k THEN l ELSE Resolve(j)
  <2>1. CASE L2Key[j] = L2Key[k]
    <3>1. Resolve(j)' = collisions'[j]
      BY <2>1, <1>3, L2KeyAssumption, NoLocAssumption DEF Resolve, Slot
    <3>. QED
      BY <3>1, <2>1, <1>1, <1>2
  <2>2. CASE L2Key[j] # L2Key[k]
    <3>1. Slot(j)' = Slot(j) /\ collisions'[j] = collisions[j]
      BY <2>2, <1>1, <1>2, <1>3, L2KeyAssumption DEF Slot
    <3>. QED
      BY <3>1, <1>4, <2>2 DEF Resolve, Belongs
  <2>. QED
    BY <2>1, <2>2
<1>. QED
  BY <1>1, <1>5, <1>6, <1>7, MapReplaced DEF IInv, Collide

LEMMA CollideNoMemoryMaps ==
    ASSUME IInv, NEW k \in Keys, CollideNoMemory(k)
    PROVE  IInv' /\ MapKept /\ cached' = cached
<1> DEFINE o == keyAt[Slot(k)]
<1>1. /\ Collides(k)
      /\ o \in Keys \ {k} /\ L2Key[o] = L2Key[k] /\ Slot(k) \in Locs
      /\ \A j \in Keys : L2Key[j] = L2Key[k] =>
            /\ collisions[j] = None
            /\ Resolve(j) = IF j = o THEN Slot(k) ELSE None
  BY CollidingAlone DEF CollideNoMemory
<1>2. \A j \in Keys : collisions'[j] = IF j = o THEN Slot(k) ELSE collisions[j]
  BY <1>1 DEF CollideNoMemory, Moved, IInv, TypeOK
<1>3. \A h \in L2Keys : root'[h] = IF h = L2Key[k] THEN Collided ELSE root[h]
  BY L2KeyAssumption DEF CollideNoMemory, IInv, TypeOK
<1>4. keyAt' = keyAt /\ cached' = cached
  BY DEF CollideNoMemory
<1>5. TypeOK'
  BY <1>1, L2KeyAssumption DEF IInv, TypeOK, CollideNoMemory, Moved
<1>6. TreesDisjoint'
  BY <1>1, <1>2, <1>3, <1>4, L2KeyAssumption, NoLocAssumption
     DEF IInv, TypeOK, TreesDisjoint, Slot
<1>7. ASSUME NEW j \in Keys
      PROVE  Resolve(j)' = Resolve(j)
  <2>1. CASE L2Key[j] = L2Key[k]
    <3>1. Resolve(j)' = collisions'[j]
      BY <2>1, <1>3, L2KeyAssumption, NoLocAssumption DEF Resolve, Slot
    <3>. QED
      BY <3>1, <2>1, <1>1, <1>2
  <2>2. CASE L2Key[j] # L2Key[k]
    <3>1. Slot(j)' = Slot(j) /\ collisions'[j] = collisions[j]
      BY <2>2, <1>1, <1>2, <1>3, L2KeyAssumption DEF Slot
    <3>. QED
      BY <3>1, <1>4, <2>2 DEF Resolve, Belongs
  <2>. QED
    BY <2>1, <2>2
<1>. QED
  BY <1>4, <1>5, <1>6, <1>7 DEF IInv, MapKept

LEMMA UpsertCollisionMaps ==
    ASSUME IInv, NEW k \in Keys, NEW l \in Locs, UpsertCollision(k, l)
    PROVE  IInv' /\ H!Replace(k, l)
<1>1. TypeOK'
  BY DEF IInv, TypeOK, UpsertCollision, Added
<1>2. TreesDisjoint'
  BY L2KeyAssumption, NoLocAssumption
     DEF IInv, TypeOK, TreesDisjoint, UpsertCollision, Slot
<1>3. \A j \in Keys : Resolve(j)' = IF j = k THEN l ELSE Resolve(j)
  BY L2KeyAssumption, NoLocAssumption
     DEF IInv, TypeOK, TreesDisjoint, UpsertCollision, Resolve, Slot, Belongs
<1>4. cached' = IF Resolve(k) = None THEN cached + 1 ELSE cached
  BY NoLocAssumption DEF UpsertCollision, Resolve, Added, IInv, TypeOK
<1>. QED
  BY <1>1, <1>2, <1>3, <1>4, MapReplaced DEF IInv

LEMMA DestroyMaps ==
    ASSUME Destroy, IInv
    PROVE  IInv' /\ H!Destroy
<1>1. IInv'
  BY L2KeyAssumption, NoLocAssumption DEF Destroy, IInv, TypeOK, TreesDisjoint, Slot
<1>2. \A j \in Keys : Resolve(j)' = None
  BY L2KeyAssumption DEF Destroy, Resolve, Slot
<1>3. [j \in Keys |-> Resolve(j)'] = [j \in Keys |-> None]
  BY <1>2
<1>. QED
  BY <1>1, <1>3 DEF H!Destroy, Destroy

LEMMA ReindexMaps ==
    ASSUME IInv, NEW l \in Locs, NEW x \in Keys \cup {NoKey}, Reindex(l, x)
    PROVE  IInv' /\ MapKept /\ cached' = cached
<1>1. TypeOK'
  BY DEF IInv, TypeOK, Reindex
<1>2. \A h \in L2Keys : root[h] # l
  BY L2KeyAssumption, NoLocAssumption
     DEF IInv, TypeOK, TreesDisjoint, Reindex, Resolve, Slot, Belongs
<1>3. \A k \in Keys : collisions[k] # l
  BY L2KeyAssumption, NoLocAssumption
     DEF IInv, TypeOK, TreesDisjoint, Reindex, Resolve, Slot
<1>4. TreesDisjoint'
  BY <1>2, <1>3, L2KeyAssumption, NoLocAssumption
     DEF IInv, TypeOK, TreesDisjoint, Reindex, Slot
<1>5. MapKept
  BY <1>2, L2KeyAssumption, NoLocAssumption
     DEF IInv, TypeOK, Reindex, Resolve, Slot, Belongs, MapKept
<1>. QED
  BY <1>1, <1>4, <1>5 DEF IInv, Reindex

LEMMA RemoveMaps ==
    ASSUME IInv, NEW k \in Keys, Remove(k), cached > 0
    PROVE  IInv' /\ H!Remove(k)
<1>1. /\ \A j \in Keys : collisions'[j] = IF j = k THEN None ELSE collisions[j]
      /\ collisions' \in [Keys -> Locs \cup {None}]
      /\ keyAt' = keyAt /\ cached' = cached - 1
      /\ Resolve(k) # None /\ Resolve(k) # NoKey
  BY DEF Remove, IInv, TypeOK
<1>2. CASE Slot(k) = Collided
  <2>1. root' = root
    BY <1>2 DEF Remove, EntryRemoved
  <2>2. IInv'
    BY <1>1, <2>1 DEF IInv, TypeOK, TreesDisjoint, Slot
  <2>3. \A j \in Keys : Resolve(j)' = IF j = k THEN None ELSE Resolve(j)
    BY <1>1, <1>2, <2>1, NoLocAssumption
       DEF IInv, TypeOK, TreesDisjoint, Resolve, Slot, Belongs
  <2>. QED
    BY <1>1, <2>2, <2>3, MapRemoved
<1>3. CASE Slot(k) # Collided
  <2>1. /\ root' \in [L2Keys -> Locs \cup {None, Collided}]
        /\ \A h \in L2Keys : root'[h] = IF h = L2Key[k] THEN None ELSE root[h]
    BY <1>3, L2KeyAssumption DEF Remove, EntryRemoved, IInv, TypeOK
  <2>2. Slot(k) \in Locs /\ keyAt[Slot(k)] = k
    BY <1>1, <1>3, L2KeyAssumption, NoLocAssumption
       DEF Resolve, Slot, Belongs, IInv, TypeOK
  <2>3. IInv'
    BY <1>1, <2>1, <2>2, L2KeyAssumption, NoLocAssumption
       DEF IInv, TypeOK, TreesDisjoint, Slot
  <2>4. \A j \in Keys : Resolve(j)' = IF j = k THEN None ELSE Resolve(j)
    BY <1>1, <2>1, <2>2, L2KeyAssumption, NoLocAssumption
       DEF IInv, TypeOK, TreesDisjoint, Resolve, Slot, Belongs
  <2>. QED
    BY <1>1, <2>3, <2>4, MapRemoved
<1>. QED
  BY <1>2, <1>3

(* The counter of the map is exact and so never goes below zero.           *)
Mapped == {k \in Keys : Resolve(k) # None}

LEMMA MappedFinite == IsFiniteSet(Mapped) /\ Cardinality(Mapped) \in Nat
BY L2KeyAssumption, FS_Subset, FS_CardinalityType DEF Mapped

LEMMA CountMeaning == CachedExact <=> cached = Cardinality(Mapped)
BY DEF CachedExact, Mapped

LEMMA CountedIsPositive ==
    ASSUME CachedExact, NEW k \in Keys, Remove(k)
    PROVE  cached > 0
<1>1. k \in Mapped
  BY DEF Remove, Mapped
<1>2. Cardinality(Mapped) # 0
  BY <1>1, MappedFinite, FS_EmptySet
<1>. QED
  BY <1>2, MappedFinite, CountMeaning

LEMMA ReplaceCounts ==
    ASSUME CachedExact, NEW k \in Keys, NEW l \in Locs, H!Replace(k, l)
    PROVE  CachedExact'
<1>1. \A j \in Keys : Resolve(j)' = IF j = k THEN l ELSE Resolve(j)
  <2>1. [j \in Keys |-> Resolve(j)'] = [[j \in Keys |-> Resolve(j)] EXCEPT ![k] = l]
    BY DEF H!Replace
  <2>. QED
    BY <2>1
<1>2. cached' = IF Resolve(k) = None THEN cached + 1 ELSE cached
  BY DEF H!Replace
<1>3. Mapped' = Mapped \cup {k}
  BY <1>1, NoLocAssumption DEF Mapped
<1>4. k \in Mapped <=> Resolve(k) # None
  BY DEF Mapped
<1>5. cached' = Cardinality(Mapped')
  BY <1>2, <1>3, <1>4, MappedFinite, FS_AddElement, CountMeaning
<1>6. (CachedExact <=> cached = Cardinality(Mapped))'
  BY CountMeaning, PTL
<1>. QED
  BY <1>5, <1>6

LEMMA RemoveCounts ==
    ASSUME CachedExact, NEW k \in Keys, H!Remove(k)
    PROVE  CachedExact'
<1>1. \A j \in Keys : Resolve(j)' = IF j = k THEN None ELSE Resolve(j)
  <2>1. [j \in Keys |-> Resolve(j)'] = [[j \in Keys |-> Resolve(j)] EXCEPT ![k] = None]
    BY DEF H!Remove
  <2>. QED
    BY <2>1
<1>2. cached' = cached - 1 /\ k \in Mapped
  BY DEF H!Remove, Mapped
<1>3. Mapped' = Mapped \ {k}
  BY <1>1 DEF Mapped
<1>4. cached' = Cardinality(Mapped')
  BY <1>2, <1>3, MappedFinite, FS_RemoveElement, CountMeaning
<1>5. (CachedExact <=> cached = Cardinality(Mapped))'
  BY CountMeaning, PTL
<1>. QED
  BY <1>4, <1>5

LEMMA KeepCounts ==
    ASSUME CachedExact, MapKept, cached' = cached
    PROVE  CachedExact'
<1>1. Mapped' = Mapped
  BY DEF MapKept, Mapped
<1>2. cached' = Cardinality(Mapped')
  BY <1>1, CountMeaning
<1>3. (CachedExact <=> cached = Cardinality(Mapped))'
  BY CountMeaning, PTL
<1>. QED
  BY <1>2, <1>3

LEMMA DestroyCounts ==
    ASSUME H!Destroy
    PROVE  CachedExact'
<1>1. Mapped' = {} /\ cached' = 0
  <2>1. [j \in Keys |-> Resolve(j)'] = [j \in Keys |-> None]
    BY DEF H!Destroy
  <2>2. \A j \in Keys : Resolve(j)' = None
    BY <2>1
  <2>. QED
    BY <2>2 DEF Mapped, H!Destroy
<1>2. cached' = Cardinality(Mapped')
  BY <1>1, FS_EmptySet
<1>3. (CachedExact <=> cached = Cardinality(Mapped))'
  BY CountMeaning, PTL
<1>. QED
  BY <1>2, <1>3

-----------------------------------------------------------------------------
FullInv == IInv /\ CachedExact

LEMMA InitHolds == Init => FullInv /\ H!Init
<1> SUFFICES ASSUME Init PROVE FullInv /\ H!Init
  OBVIOUS
<1>1. IInv
  BY L2KeyAssumption, NoLocAssumption DEF Init, IInv, TypeOK, TreesDisjoint
<1>2. \A k \in Keys : Resolve(k) = None
  BY L2KeyAssumption DEF Init, Resolve, Slot
<1>3. Mapped = {} /\ H!Init
  BY <1>2 DEF Mapped, H!Init, Init
<1>4. CachedExact
  BY <1>3, FS_EmptySet, CountMeaning DEF Init
<1>. QED
  BY <1>1, <1>3, <1>4 DEF FullInv

(* Every step keeps the invariant and is a step of the map, or stutters.   *)
LEMMA StepMaps ==
    ASSUME FullInv, [Next]_vars
    PROVE  FullInv' /\ [H!Next]_<<[k \in Keys |-> Resolve(k)], cached>>
<1>1. ASSUME NEW k \in Keys, NEW l \in Locs, IInv' /\ H!Replace(k, l)
      PROVE  FullInv' /\ H!Next
  BY <1>1, ReplaceCounts DEF FullInv, H!Next
<1>2. ASSUME IInv', MapKept, cached' = cached
      PROVE  FullInv' /\ UNCHANGED <<[k \in Keys |-> Resolve(k)], cached>>
  BY <1>2, KeepCounts, MapStutters DEF FullInv
<1>3. ASSUME NEW k \in Keys, NEW l \in Locs,
             Insert(k, l) \/ Update(k, l) \/ Collide(k, l) \/ UpsertCollision(k, l)
      PROVE  FullInv' /\ H!Next
  BY <1>1, <1>3, InsertMaps, UpdateMaps, CollideMaps, UpsertCollisionMaps DEF FullInv
<1>4. ASSUME NEW k \in Keys, CollideNoMemory(k)
      PROVE  FullInv' /\ UNCHANGED <<[j \in Keys |-> Resolve(j)], cached>>
  BY <1>2, <1>4, CollideNoMemoryMaps DEF FullInv
<1>5. ASSUME NEW k \in Keys, Remove(k)
      PROVE  FullInv' /\ H!Next
  <2>1. IInv' /\ H!Remove(k)
    BY <1>5, CountedIsPositive, RemoveMaps DEF FullInv
  <2>. QED
    BY <2>1, RemoveCounts DEF FullInv, H!Next
<1>6. ASSUME NEW l \in Locs, NEW x \in Keys \cup {NoKey}, Reindex(l, x)
      PROVE  FullInv' /\ UNCHANGED <<[k \in Keys |-> Resolve(k)], cached>>
  BY <1>2, <1>6, ReindexMaps DEF FullInv
<1>7. ASSUME Destroy
      PROVE  FullInv' /\ H!Next
  BY <1>7, DestroyMaps, DestroyCounts DEF FullInv, H!Next
<1>8. ASSUME UNCHANGED vars
      PROVE  FullInv' /\ UNCHANGED <<[k \in Keys |-> Resolve(k)], cached>>
  <2>1. IInv'
    BY <1>8 DEF FullInv, IInv, TypeOK, TreesDisjoint, Slot, vars
  <2>2. MapKept /\ cached' = cached
    BY <1>8 DEF MapKept, Resolve, Slot, Belongs, vars
  <2>. QED
    BY <1>2, <2>1, <2>2
<1>. QED
  BY <1>3, <1>4, <1>5, <1>6, <1>7, <1>8 DEF Next

(* The two trees stay disjoint and every entry owned by a key: what        *)
(* _eblob_l2hash_insert relies on when it moves an entry between them.     *)
THEOREM TreesStayDisjoint == Spec => []TreesDisjoint
<1>1. FullInv => TreesDisjoint
  BY DEF FullInv, IInv
<1>. QED
  BY <1>1, InitHolds, StepMaps, PTL DEF Spec

(* The level two hash implements the plain one: eblob_cache_insert,        *)
(* eblob_cache_remove and eblob_cache_lookup cannot tell which is used.    *)
THEOREM Implements == Spec => ImplementsKeyMap
<1>. QED
  BY InitHolds, StepMaps, PTL DEF Spec, ImplementsKeyMap, H!Spec

(* The statistics counter eblob_cache_insert and eblob_cache_remove keep   *)
(* is the number of keys in the hash.                                      *)
THEOREM Counts == Spec => []CachedExact
<1>1. FullInv => CachedExact
  BY DEF FullInv
<1>. QED
  BY <1>1, InitHolds, StepMaps, PTL DEF Spec

(* Neither eblob_l2hash_insert nor eblob_l2hash_remove puts anything but   *)
(* locations and collision trees into the hash, and the count never goes   *)
(* below zero.                                                             *)
THEOREM HashTyped == Spec => []TypeOK
<1>1. FullInv => TypeOK
  BY DEF FullInv, IInv
<1>. QED
  BY <1>1, InitHolds, StepMaps, PTL DEF Spec
=============================================================================
