--------------------------- MODULE MCBaseIterator ---------------------------
EXTENDS BaseIterator

(* The index that writes of these keys leave, one after the other: an      *)
(* earlier record of a key is removed.                                     *)
AfterWrites(ks) ==
    [i \in DOMAIN ks |->
        [key |-> ks[i], pos |-> i,
         removed |-> \E j \in DOMAIN ks : j > i /\ ks[j] = ks[i]]]

(* Keys with gaps between the blocks they form when sorted, and twice the  *)
(* same key at the border of two blocks.                                   *)
SmallIndexes ==
    {AfterWrites(<<7, 2, 1, 5, 4>>), AfterWrites(<<4, 1, 2, 5, 2, 7>>),
     AfterWrites(<<1, 2, 2, 2>>), AfterWrites(<<1, 2>>)}
=============================================================================
