--------------------------- MODULE MCConnection ---------------------------
(***************************************************************************)
(* Connection for TLC: one client with time in some detail, or two that    *)
(* are alike with time as coarse as can be.                                *)
(***************************************************************************)
EXTENDS Connection, TLC

Symmetry == Permutations(Clients)
=============================================================================
