---------------------------- MODULE WorkerContract ----------------------------
(***************************************************************************)
(* What the controllers rely on a Worker for (internal/worker/client as     *)
(* they call it): its table of Slots, and the only ways it changes.  A call *)
(* changes the Slot it names and no other, for the Sandbox it names, and    *)
(* only as WorkerCalls says; a topology push adds Free Slots and removes    *)
(* Slots, but leaves those that stay as they were; a Worker that comes up   *)
(* has no Slots.  SlotManager implements it.                                *)
(***************************************************************************)
EXTENDS WorkerCalls

CONSTANTS SlotIds, Profiles, Sandboxes

VARIABLE table  \* Slot ID |-> Slot or Null; Null while the Worker is away

NoSlots == [i \in SlotIds |-> Null]

Init == table \in {Null, NoSlots}

Serve(op, i, u) ==
  /\ table # Null
  /\ \E info \in Effects(op, table[i], u) : table' = [table EXCEPT ![i] = info]

Save(i) ==
  /\ table # Null /\ table[i] # Null /\ table[i].state = "Running"
  /\ table' = [table EXCEPT ![i] = SavedAway(@)]

\* An accepted push: cfg has the profile of every Slot there is to be.
Push(cfg) ==
  /\ table # Null
  /\ \A i \in SlotIds : table[i] # Null /\ cfg[i] # Null => table[i].profile = cfg[i]
  /\ table' = [i \in SlotIds |->
                 IF cfg[i] = Null THEN Null
                 ELSE IF table[i] = Null THEN [state |-> "Free", uid |-> Null, profile |-> cfg[i]]
                 ELSE table[i]]

Leave  == table # Null /\ table' = Null
ComeUp == table = Null /\ table' = NoSlots

Next ==
  \/ \E op \in Calls, i \in SlotIds, u \in Sandboxes : Serve(op, i, u)
  \/ \E i \in SlotIds : Save(i)
  \/ \E cfg \in [SlotIds -> Profiles \cup {Null}] : Push(cfg)
  \/ Leave \/ ComeUp

Spec == Init /\ [][Next]_table
=============================================================================
