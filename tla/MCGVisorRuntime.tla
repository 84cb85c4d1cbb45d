--------------------------- MODULE MCGVisorRuntime ---------------------------
\* Three Sandboxes on two Slots, one of them forked from another.
EXTENDS GVisorRuntime

CONSTANTS a, b, c

ForkFrom == [n \in Sandboxes |-> IF n = c THEN a ELSE Null]
TwoSlots == [n \in Sandboxes |-> IF n = a THEN 1 ELSE 2]
=============================================================================
