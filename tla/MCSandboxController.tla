-------------------------- MODULE MCSandboxController --------------------------
(* Constants for checking SandboxController with TLC.                       *)
EXTENDS SandboxController, TLC

CONSTANTS p1

OneProfile  == [i \in SlotIds |-> p1]
AllWantOne  == [u \in Sandboxes |-> p1]
Symmetry    == Permutations(Sandboxes)
=============================================================================
