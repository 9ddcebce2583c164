---------------------------- MODULE MCEblobStore ----------------------------
(***************************************************************************)
(* Instances of EblobStore for TLC.  The constants are given by the        *)
(* configurations; the bounds are MaxBases, MaxOps and MaxFailures.        *)
(***************************************************************************)
EXTENDS EblobStore

(* Nothing is claimed after an index sort has overtaken an operation that  *)
(* holds an index offset, so those behaviours are cut there.               *)
NotCrossed == ~crossed

(* Values are only compared with each other.                               *)
ValSymmetry == Permutations(Vals)

=============================================================================
