--------------------------- MODULE RuntimeContract ---------------------------
(***************************************************************************)
(* What the Slot manager relies on when it calls a runtime or a snapshotter *)
(* (the interfaces in internal/runtime/runtime.go and                       *)
(* internal/snapshotter/snapshotter.go): a Sandbox is on the Worker or it   *)
(* is not.  A boot that fails leaves nothing behind, one that succeeds      *)
(* leaves a runtime, only a call for a Sandbox or the death of its runtime  *)
(* changes that, every call returns, and nothing a Sandbox holds of its     *)
(* Slot is left when the next one boots there.                              *)
(***************************************************************************)
CONSTANTS Sandboxes, SlotOf

VARIABLE phase  \* Sandbox |-> what there is of it on the Worker

\* dead: referred to by its Slot, but its processes are gone or paused.
Phases == {"absent", "booting", "present", "saving", "dead"}

Init == phase = [n \in Sandboxes |-> "absent"]

Becomes(n, p) == phase' = [phase EXCEPT ![n] = p]

Boot(n) ==
  /\ phase[n] = "absent"
  /\ \A m \in Sandboxes \ {n} : SlotOf[m] = SlotOf[n] => phase[m] = "absent"
  /\ Becomes(n, "booting")

Save(n)   == phase[n] \in {"present", "dead"} /\ Becomes(n, "saving")
Return(n) == phase[n] \in {"booting", "saving"} /\ \E p \in {"absent", "present", "dead"} : Becomes(n, p)
Delete(n) == phase[n] \in {"present", "dead"} /\ Becomes(n, "absent")
Die(n)    == phase[n] = "present" /\ Becomes(n, "dead")

Next == \E n \in Sandboxes : Boot(n) \/ Save(n) \/ Return(n) \/ Delete(n) \/ Die(n)

Safety == Init /\ [][Next]_phase

Spec == Safety /\ \A n \in Sandboxes : WF_phase(Return(n))
=============================================================================
