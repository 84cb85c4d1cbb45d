---------------------------- MODULE MCSlotManager ----------------------------
(* Model values and boot topologies for checking SlotManager with TLC.      *)
EXTENDS SlotManager, TLC

CONSTANTS p1, p2, s1, s2

\* cmd/worker: topology starts empty.
BootEmpty == [id \in SlotIds |-> Null]
\* NewSlotManager with Config.Slots filled in, as the manager tests do.
BootFull  == [id \in SlotIds |-> p1]

AllDeployments == [selfManaged: BOOLEAN, boot: {BootEmpty, BootFull}]
BootedEmpty    == [selfManaged: BOOLEAN, boot: {BootEmpty}]

Symmetry == Permutations(RuntimeIds) \cup Permutations(Threads)
=============================================================================
