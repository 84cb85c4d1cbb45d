----------------------------- MODULE MCScheduler -----------------------------
(* Constants for checking Scheduler with TLC.                               *)
EXTENDS Scheduler, TLC

CONSTANTS p1, p2, u1, u2

BothWantOne == (u1 :> p1) @@ (u2 :> p1)
Symmetry    == Permutations(Sandboxes)
=============================================================================
