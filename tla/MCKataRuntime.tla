---------------------------- MODULE MCKataRuntime ----------------------------
\* A lineage of three and an unrelated Sandbox on two Slots; or two forks of
\* one snapshot, side by side.
EXTENDS KataRuntime

CONSTANTS p, c, g, q

ChainFrom  == [n \in Sandboxes |-> IF n = c THEN p ELSE IF n = g THEN c ELSE Null]
ChainSlots == [n \in Sandboxes |-> IF n \in {p, c} THEN 1 ELSE 2]

ForkFrom   == [n \in Sandboxes |-> IF n \in {c, g} THEN p ELSE Null]
ForkSlots  == [n \in Sandboxes |-> IF n = g THEN 2 ELSE 1]
=============================================================================
