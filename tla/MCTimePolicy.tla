---------------------------- MODULE MCTimePolicy -----------------------------
(* Instances of TimePolicy for TLC. *)
EXTENDS TimePolicy, TLC

CONSTANTS b1, b2, b3

MCIds == {b1, b2, b3}
IdSymmetry == Permutations(MCIds)
=============================================================================
