----------------------------- MODULE MCLimiter -----------------------------
(* ScoringPatchLimiter for TLC.                                             *)
EXTENDS ScoringPatchLimiter, TLC

MCSymmetry == Permutations(CellId)
=============================================================================
