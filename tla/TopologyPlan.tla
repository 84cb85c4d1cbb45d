----------------------------- MODULE TopologyPlan -----------------------------
(***************************************************************************)
(* The topology planner (internal/slot/config.go): from the Slots a        *)
(* template has, the Slot counts its specification asks for and the IDs    *)
(* that are occupied on some Worker, the Slots the template gets next.     *)
(*                                                                         *)
(* PlanTopology is a loop over profiles that carries the plan so far, the  *)
(* IDs in use and the highest ID ever seen; a pass over one profile either *)
(* drops Slots or adds them one at a time.  The operators below are that   *)
(* loop's steps; the loops themselves are the recursive functions Plans    *)
(* and Additions, the plan after each pass.  TopologyPlanner runs the same *)
(* steps as a state machine.                                               *)
(*                                                                         *)
(* Slot lists are sets of [id, profile]: every list the code builds is     *)
(* sorted by ID before it is used.  Profiles are numbers in the order of    *)
(* their names, resources one quantity per profile.                        *)
(***************************************************************************)
EXTENDS Integers, FiniteSets, Sequences, SequencesExt

IdsOf(configs)        == {c.id : c \in configs}
OfProfile(configs, p) == {c \in configs : c.profile = p}

\* A list of Slots names no ID twice: what every Worker accepted.
UniqueIds(configs) == \A c, d \in configs : c.id = d.id => c = d

\* Mutant: the highest IDs stay.
MutHighest(configs, n) == {c \in configs : Cardinality({d \in configs : d.id > c.id}) < n}

\* Mutant: one Slot too many stays.
MutLowestOneMore(configs, n) == {c \in configs : Cardinality({d \in configs : d.id < c.id}) <= n}

Lowest(configs, n) == {c \in configs : Cardinality({d \in configs : d.id < c.id}) < n}
Busy(configs, busy) == {c \in configs : c.id \in busy}

\* The plan under construction before the first profile: every ID of the
\* current Slots is in use.
StartPlan(current) ==
  [slots |-> {}, used |-> IdsOf(current), maxID |-> IF current = {} THEN -1 ELSE Max(IdsOf(current)),
   reasons |-> {}]

\* An unknown profile that is still asked for keeps what it has.  A reason is
\* an occupied Slot, or an unknown profile under an ID no Slot has.
KeepUnknown(plan, p, existing) ==
  [plan EXCEPT !.slots = @ \cup existing, !.reasons = @ \cup {[id |-> -1, profile |-> p]}]

\* Mutant: the surplus goes, occupied or not.
MutDropBusy(plan, existing, desired, busy) ==
  [plan EXCEPT !.slots = @ \cup Lowest(existing, desired),
               !.used  = @ \ IdsOf(existing \ Lowest(existing, desired))]

\* Mutant: an occupied Slot stays without a reason.
MutDropSilently(plan, existing, desired, busy) ==
  LET surplus == existing \ Lowest(existing, desired)
  IN  [plan EXCEPT !.slots = @ \cup Lowest(existing, desired) \cup Busy(surplus, busy),
                   !.used  = @ \ IdsOf(surplus \ Busy(surplus, busy))]

\* Mutant: one Slot too many goes, and comes back with the next plan.
MutDropOneMore(plan, existing, desired, busy) ==
  LET surplus == existing \ Lowest(existing, desired - 1)
      stuck   == Busy(surplus, busy)
  IN  [plan EXCEPT !.slots   = @ \cup Lowest(existing, desired - 1) \cup stuck,
                   !.used    = @ \ IdsOf(surplus \ stuck),
                   !.reasons = @ \cup stuck]

\* Too many Slots: the lowest IDs stay, and the occupied ones of the rest.
DropSurplus(plan, existing, desired, busy) ==
  LET surplus == existing \ Lowest(existing, desired)
      stuck   == Busy(surplus, busy)
  IN  [plan EXCEPT !.slots   = @ \cup Lowest(existing, desired) \cup stuck,
                   !.used    = @ \ IdsOf(surplus \ stuck),
                   !.reasons = @ \cup stuck]

KeepExisting(plan, existing) == [plan EXCEPT !.slots = @ \cup existing]

\* The lowest hole below the highest ID, or one more than the highest ID.
NextFreeID(used, maxID) ==
  LET holes == (0 .. maxID) \ used
  IN  IF holes # {} THEN CHOOSE i \in holes : \A j \in holes : i <= j ELSE maxID + 1

\* Mutant: a hole that was filled counts as a hole again.
MutAddForgetsUsed(plan, p) ==
  LET id == NextFreeID(plan.used, plan.maxID)
  IN  [plan EXCEPT !.slots = @ \cup {[id |-> id, profile |-> p]},
                   !.maxID = IF id > @ THEN id ELSE @]

AddSlot(plan, p) ==
  LET id == NextFreeID(plan.used, plan.maxID)
  IN  [plan EXCEPT !.slots = @ \cup {[id |-> id, profile |-> p]},
                   !.used  = @ \cup {id},
                   !.maxID = IF id > @ THEN id ELSE @]

-----------------------------------------------------------------------------
Increasing(s) == \A i, j \in DOMAIN s : i < j => s[i] < s[j]
Sorted(S)     == CHOOSE s \in SetToSeqs(S) : Increasing(s)

\* The profiles in the order the loop visits them: the template's order, then
\* the profiles that only the current Slots still have, sorted.  A template
\* names no profile twice and its counts name only profiles of its order.
OrderedProfiles(order, current) == order \o Sorted({c.profile : c \in current} \ ToSet(order))

Desired(counts, p) == IF p \in DOMAIN counts THEN counts[p] ELSE 0

\* The plan after each of the n Slots of profile p that are added to it.
Additions(plan, p, n) ==
  LET added[k \in 0 .. n] == IF k = 0 THEN plan ELSE AddSlot(added[k - 1], p)
  IN  added

\* One pass of the loop over profiles.
PlanProfile(plan, p, current, counts, known, busy) ==
  LET existing == OfProfile(current, p)
      desired  == Desired(counts, p)
      missing  == desired - Cardinality(existing)
  IN  IF p \notin known /\ desired > 0 THEN KeepUnknown(plan, p, existing)
      ELSE IF missing < 0 THEN DropSurplus(plan, existing, desired, busy)
      ELSE Additions(KeepExisting(plan, existing), p, missing)[missing]

Blocked(plan) == plan.reasons # {}

\* The plan after each pass over the profiles names[1], names[2], ...
Plans(current, counts, known, busy, names) ==
  LET plans[k \in 0 .. Len(names)] ==
        IF k = 0 THEN StartPlan(current)
        ELSE PlanProfile(plans[k - 1], names[k], current, counts, known, busy)
  IN  plans

PlanTopology(current, counts, known, busy, names) ==
  Plans(current, counts, known, busy, names)[Len(names)]

-----------------------------------------------------------------------------
\* Headroom.  SumOf is the total over the Slots of what size gives a profile.
CountNewSlots(current, proposed)     == Cardinality({c \in proposed : c.id \notin IdsOf(current)})
KeepExistingSlots(current, proposed) == {c \in proposed : c.id \in IdsOf(current)}
SumResources(configs, size)          == FoldSet(LAMBDA c, n : n + size[c.profile], 0, configs)
ResourcesEnough(have, need)          == have >= need
=============================================================================
