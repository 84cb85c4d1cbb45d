---------------------------- MODULE TopologyPlanner ----------------------------
(***************************************************************************)
(* PlanTopology (internal/slot/config.go) as a state machine: one step per  *)
(* profile that keeps or drops Slots, one step per Slot added.  The inputs  *)
(* are arbitrary; what the planner promises is stated for every one.        *)
(***************************************************************************)
EXTENDS TopologyPlan

CONSTANTS
  Profiles,   \* profile names, as numbers in the order of the names
  MaxId,      \* bound on the IDs the template's Slots have at the start
  MaxCount    \* bound on the Slots a profile may ask for

ASSUME PlannerConstants ==
  /\ Profiles \subseteq Nat /\ IsFiniteSet(Profiles)
  /\ MaxId \in Nat
  /\ MaxCount \in Nat

VARIABLES
  current,   \* the template's Slots so far (Status.AppliedSlots)
  counts,    \* profile |-> Slots asked for, for the profiles of the template
  order,     \* the profiles of the template, in its order
  known,     \* profiles the Pool defines
  busy,      \* IDs that are not Free on some Worker
  todo,      \* profiles not visited yet, in order
  missing,   \* Slots still to be added for the profile at the head of todo
  plan       \* the plan so far

inputs == <<current, counts, order, known, busy>>
vars   == <<inputs, todo, missing, plan>>

Config == [id: Nat, profile: Profiles]
Plan   == [slots: SUBSET Config, used: SUBSET Nat, maxID: Int, reasons: SUBSET [id: Int, profile: Profiles]]

TypeOK ==
  /\ current \in SUBSET Config /\ known \in SUBSET Profiles /\ busy \in SUBSET Nat
  /\ plan \in Plan /\ missing \in Nat

Existing == OfProfile(current, Head(todo))
Want     == Desired(counts, Head(todo))

-----------------------------------------------------------------------------
\* The loop starts for a Slot list with distinct IDs and any counts.  It visits
\* the template's profiles in its order, then the others the Slots have, sorted.
Init ==
  /\ current \in SUBSET [id: 0 .. MaxId, profile: Profiles] /\ UniqueIds(current)
  /\ \E named \in SUBSET Profiles : counts \in [named -> 0 .. MaxCount]
  /\ order \in SetToSeqs(DOMAIN counts)
  /\ known \in SUBSET Profiles
  /\ busy \in SUBSET (0 .. MaxId)
  /\ todo = OrderedProfiles(order, current)
  /\ missing = 0 /\ plan = StartPlan(current)

Visiting == todo # <<>> /\ missing = 0

VisitUnknown ==
  /\ Visiting
  /\ Head(todo) \notin known /\ Want > 0
  /\ plan' = KeepUnknown(plan, Head(todo), Existing)
  /\ todo' = Tail(todo)
  /\ UNCHANGED <<inputs, missing>>

VisitShrink ==
  /\ Visiting
  /\ Head(todo) \in known \/ Want = 0
  /\ Cardinality(Existing) > Want
  /\ plan' = DropSurplus(plan, Existing, Want, busy)
  /\ todo' = Tail(todo)
  /\ UNCHANGED <<inputs, missing>>

VisitGrow ==
  /\ Visiting
  /\ Head(todo) \in known \/ Want = 0
  /\ Cardinality(Existing) <= Want
  /\ plan' = KeepExisting(plan, Existing)
  /\ missing' = Want - Cardinality(Existing)
  /\ todo' = IF missing' = 0 THEN Tail(todo) ELSE todo
  /\ UNCHANGED inputs

AddMissing ==
  /\ missing > 0
  /\ plan' = AddSlot(plan, Head(todo))
  /\ missing' = missing - 1
  /\ todo' = IF missing' = 0 THEN Tail(todo) ELSE todo
  /\ UNCHANGED inputs

Next == VisitUnknown \/ VisitShrink \/ VisitGrow \/ AddMissing

Spec == Init /\ [][Next]_vars

-----------------------------------------------------------------------------
Done == todo = <<>>

\* The planner never gives one ID to two Slots, whatever holes earlier
\* profiles left: Workers refuse a list that does.  (nextFreeID, usedIDs)
PlanUniqueIds == UniqueIds(plan.slots)

\* "skip busy ones" (PlanTopology's comment): a Slot that is occupied on some
\* Worker is in the plan with its profile, and no new Slot takes its ID.
PlanKeepsBusy == Done => Busy(current, busy) \subseteq plan.slots

\* A plan that is not blocked has exactly the Slots that were asked for.
PlanMeetsCounts ==
  Done /\ ~Blocked(plan) => \A p \in Profiles : Cardinality(OfProfile(plan.slots, p)) = Desired(counts, p)

\* "drop highest IDs of that profile first": a Slot is dropped only if every
\* higher one of its profile is dropped too or occupied.
DropsHighestFirst ==
  Done => \A c \in current \ plan.slots, d \in plan.slots \cap current :
            d.profile = c.profile /\ d.id > c.id => d.id \in busy

\* The controller plans on every reconcile, from the Slots the last plan gave
\* (Status.AppliedSlots): with the same counts and occupied Slots, planning
\* again from a finished plan neither adds nor drops a Slot, so that no Worker
\* is pushed a new list and no free Slot is taken away and given back.
PlanIsStable ==
  Done => PlanTopology(plan.slots, counts, known, busy, OrderedProfiles(order, plan.slots)).slots = plan.slots
=============================================================================
