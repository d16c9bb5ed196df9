---------------------------- MODULE MCReference ----------------------------
(***************************************************************************)
(* Reference for TLC: grids and processings are interchangeable.           *)
(***************************************************************************)
EXTENDS Reference, TLC

CONSTANTS g1, g2, p1, p2

Interchangeable == Permutations(Grids) \cup Permutations(Procs)
=============================================================================
