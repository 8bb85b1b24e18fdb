----------------------------- MODULE MCGrBuffer -----------------------------
(* Instances of GrBuffer for TLC. *)
EXTENDS GrBuffer

CONSTANTS r1, r2

\* r2's block has a history of two items, r1's has none.
MCPreload == [r \in Readers |-> IF r = r2 THEN 1 ELSE 0]
=============================================================================
