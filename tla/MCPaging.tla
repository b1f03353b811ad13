------------------------------ MODULE MCPaging ------------------------------
(* Paging for TLC.                                                          *)
EXTENDS Paging

MCSymmetry == Permutations(CellId)
=============================================================================
