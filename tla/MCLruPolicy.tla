----------------------------- MODULE MCLruPolicy -----------------------------
(* Instances of LruPolicy for TLC. *)
EXTENDS LruPolicy, TLC

CONSTANTS b1, b2, b3

MCIds == {b1, b2, b3}
IdSymmetry == Permutations(MCIds)
=============================================================================
