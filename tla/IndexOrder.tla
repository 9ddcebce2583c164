----------------------------- MODULE IndexOrder -----------------------------
(***************************************************************************)
(* The qsort of the entries of an index, which EblobStore has as a choice: *)
(* here as what the result is, place by place.                             *)
(***************************************************************************)
EXTENDS Integers, Sequences, FiniteSets

(* The members of a finite set in the order that a relation, a set of      *)
(* pairs, puts them in.                                                    *)
Rank(D, R, x) == Cardinality({y \in D : <<y, x>> \in R}) + 1
InOrder(D, R) == [n \in 1 .. Cardinality(D) |-> CHOOSE x \in D : Rank(D, R, x) = n]

(* eblob_disk_control_sort_with_flags.  The qsort of glibc merges, so that  *)
(* equal entries stay in order.                                            *)
Before(s, i, j) ==
    \/ s[i].key < s[j].key
    \/ s[i].key = s[j].key /\ s[i].removed /\ ~s[j].removed
    \/ s[i].key = s[j].key /\ s[i].removed = s[j].removed /\ i < j

KeyOrder(s) == {p \in (DOMAIN s) \X (DOMAIN s) : Before(s, p[1], p[2])}

(* Mutant: removed entries are not taken over.                             *)
SortedByKeyLive(s) ==
    LET live == {i \in DOMAIN s : ~s[i].removed}
        order == InOrder(live, KeyOrder(s)) IN [n \in DOMAIN order |-> s[order[n]]]

SortedByKey(s) ==
    LET order == InOrder(DOMAIN s, KeyOrder(s)) IN [n \in DOMAIN s |-> s[order[n]]]
=============================================================================
