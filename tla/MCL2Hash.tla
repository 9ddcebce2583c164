------------------------------ MODULE MCL2Hash ------------------------------
(* L2Hash for model checking: two of three keys collide.                   *)
EXTENDS L2Hash

CONSTANTS k1, k2, k3, h1, h2

MCL2Key == [k \in Keys |-> IF k = k3 THEN h2 ELSE h1]
=============================================================================
