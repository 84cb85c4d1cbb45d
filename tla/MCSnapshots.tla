----------------------------- MODULE MCSnapshots -----------------------------
(* Constants for checking Snapshots with TLC.                               *)
EXTENDS Snapshots, TLC

Symmetry == Permutations(Files)
=============================================================================
