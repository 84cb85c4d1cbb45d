--------------------------- MODULE MCPoolController ---------------------------
(* Constants for checking PoolController with TLC.                          *)
EXTENDS PoolController

SpecOf(n1, n2, replicas) ==
  [order |-> IF n2 = 0 THEN <<1>> ELSE <<1, 2>>,
   counts |-> [p \in IF n2 = 0 THEN {1} ELSE {1, 2} |-> IF p = 1 THEN n1 ELSE n2],
   replicas |-> replicas]

UnitSize == [p \in Profiles |-> 1]

Small    == SpecOf(1, 0, 1)
Large    == SpecOf(2, 0, 2)   \* fits into the Pods of Small
TooLarge == SpecOf(4, 0, 1)   \* does not
Moved    == SpecOf(0, 1, 1)   \* gives the ID of Small's Slot to another profile
PoolSpecs == {Small, Large, TooLarge, Moved}
PoolEdits == {<<Small, Large>>, <<Large, Small>>, <<Small, TooLarge>>, <<Small, Moved>>}

SwapSpecs == {SpecOf(2, 1, 1), SpecOf(1, 2, 1)}
SwapEdits == SwapSpecs \X SwapSpecs
=============================================================================
