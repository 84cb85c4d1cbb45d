------------------------- MODULE PoolController_proofs -------------------------
(***************************************************************************)
(* "pool topology matches the desired replicas and slot counts": a status   *)
(* without a pending reason has the Slots that the specification it         *)
(* observed asks for, for any number of Workers, specifications, edits,     *)
(* faults and occupied Slots.                                               *)
(*                                                                         *)
(* The property joins two fields that one status write sets from locals of  *)
(* a long reconcile, so it is not inductive.  What carries it is that the   *)
(* plan in hand has the counts of the specification of the COPY the         *)
(* reconcile began with unless a reason says otherwise (PlanCounted), that  *)
(* the copy takes over the plan only when every push succeeded              *)
(* (RecordCounted), and that the write publishes the copy's specification   *)
(* with it, whatever the user has written since.                            *)
(*                                                                         *)
(* What PlanTopology computes is proved of the operator (PlannerPromise,    *)
(* from PlanTopologyPromise in TopologyPlan_proofs).                        *)
(***************************************************************************)
EXTENDS PoolController, TopologyPlan_proofs

\* Lists of Slots as Workers accept them: finite, no ID twice.
SlotLists ==
  {list \in SUBSET Config : IsFiniteSet(list) /\ \A c, d \in list : c.id = d.id => c = d}

PlanFor(applied, spec, occupied) ==
  PlanTopology(applied, spec.counts, Profiles, occupied, OrderedProfiles(spec.order, applied))

\* What the planner promises this controller, for the Slots a template has, the
\* specifications there are and any occupied IDs: a list of Slots, and without a
\* reason one with the counts asked for.
LEMMA PlannerPromise ==
  ASSUME NEW applied \in SlotLists, NEW spec \in Specs, NEW occupied \in SUBSET Nat
  PROVE  LET plan == PlanFor(applied, spec, occupied)
         IN  /\ plan.slots \in SlotLists
             /\ plan.reasons \in SUBSET [id: Int, profile: Profiles]
             /\ plan.reasons = {} => CountsMet(plan.slots, spec)
<1> DEFINE plan == PlanFor(applied, spec, occupied)
<1>1. /\ applied \in SUBSET SlotsOver(Profiles) /\ IsFiniteSet(applied) /\ UniqueIds(applied)
  BY DEF SlotLists, SlotsOver, Config, UniqueIds
<1>2. /\ Profiles \in SUBSET Nat /\ spec.order \in Seq(Profiles) /\ IsInjective(spec.order)
      /\ DOMAIN spec.counts = ToSet(spec.order) /\ \A p \in DOMAIN spec.counts : spec.counts[p] \in Nat
  BY PoolConstants
<1>3. /\ plan.slots \in SUBSET SlotsOver(Profiles) /\ IsFiniteSet(plan.slots)
      /\ plan.reasons \in SUBSET [id: Int, profile: Profiles]
      /\ UniqueIds(plan.slots)
      /\ ~Blocked(plan) =>
           \A p \in Profiles : Cardinality(OfProfile(plan.slots, p)) = Desired(spec.counts, p)
  BY <1>1, <1>2, PlanTopologyPromise DEF PlanFor
<1> HIDE DEF plan
<1>4. plan.slots \in SlotLists
  BY <1>3 DEF SlotLists, SlotsOver, Config, UniqueIds
<1>5. plan.reasons = {} => CountsMet(plan.slots, spec)
  BY <1>3 DEF Blocked, CountsMet
<1> QED
  BY <1>3, <1>4, <1>5 DEF plan

-----------------------------------------------------------------------------
(* The inductive invariant.                                                 *)

IsPod(pod) ==
  /\ pod = [ready |-> pod.ready, budget |-> pod.budget, slots |-> pod.slots, busy |-> pod.busy]
  /\ pod.slots \in SUBSET Config /\ pod.busy \in SUBSET Nat

PodsOK ==
  /\ pods = [w \in Workers |-> pods[w]]
  /\ \A w \in Workers : pods[w] = Null \/ IsPod(pods[w])

ObjectsOK == pool \in Pool /\ cache \in Pool /\ fresh \in BOOLEAN

RecOK == rec \in Reconcile /\ (rec.pc # "idle" => rec.obj \in Pool)

ListsOK ==
  /\ pool.applied \in SlotLists /\ cache.applied \in SlotLists /\ rec.next \in SlotLists
  /\ rec.pc # "idle" => rec.obj.applied \in SlotLists

NoReason == rec.pending.blocked = {} /\ rec.pending.headroom = FALSE

PlanCounted == rec.pc \in {"push", "drain"} /\ NoReason => CountsMet(rec.next, rec.obj.spec)

RecordCounted ==
  rec.pc \in {"drain", "status"} /\ NoReason /\ rec.pending.push = {} =>
    CountsMet(rec.obj.applied, rec.obj.spec)

StatusInv ==
  /\ PodsOK /\ ObjectsOK /\ RecOK /\ ListsOK
  /\ PlanCounted /\ RecordCounted /\ SettledStatusIsTrue

-----------------------------------------------------------------------------
(* The steps.                                                               *)

\* A subset of a list of Slots is one.
LEMMA SubList ==
  ASSUME NEW list \in SlotLists, NEW part \in SUBSET list
  PROVE  part \in SlotLists
<1>1. list \in SUBSET Config /\ IsFiniteSet(list) /\ \A c, d \in list : c.id = d.id => c = d
  BY DEF SlotLists
<1>2. IsFiniteSet(part)
  BY <1>1, FS_Subset
<1> QED
  BY <1>1, <1>2 DEF SlotLists

LEMMA NoSlots == {} \in SlotLists
BY FS_EmptySet DEF SlotLists

LEMMA InitStatus == Init => StatusInv
<1> SUFFICES ASSUME Init PROVE StatusInv
  OBVIOUS
<1>1. PICK s \in Specs : pool = [spec |-> s, applied |-> {}, observed |-> Null, pending |-> Settled]
  BY PoolConstants DEF Init
<1>2. Settled \in Pending
  BY DEF Settled, Pending
<1>3. pool \in Pool
  BY <1>1, <1>2 DEF Pool
<1>4. ObjectsOK
  BY <1>3 DEF ObjectsOK, Init
<1>5. PodsOK
  BY DEF PodsOK, Init
<1>6. rec = Idle
  BY DEF Init
<1>7. rec \in Reconcile /\ rec.pc = "idle" /\ rec.next = {}
  BY <1>2, <1>6 DEF Idle, Reconcile
<1>8. RecOK /\ PlanCounted /\ RecordCounted
  BY <1>7 DEF RecOK, PlanCounted, RecordCounted
<1>9. ListsOK
  BY <1>1, <1>7, NoSlots DEF ListsOK, Init
<1>10. SettledStatusIsTrue
  BY <1>1 DEF SettledStatusIsTrue
<1> QED
  BY <1>4, <1>5, <1>8, <1>9, <1>10 DEF StatusInv

\* Steps of Kubernetes and of the Sandboxes, and those of the reconciler that
\* change nothing the status is made from.
LEMMA Elsewhere ==
  ASSUME StatusInv, UNCHANGED <<pool, cache, fresh, rec>>, PodsOK'
  PROVE  StatusInv'
BY DEF StatusInv, ObjectsOK, RecOK, ListsOK, NoReason, PlanCounted, RecordCounted, SettledStatusIsTrue

\* A reconcile that ends, or gives up, leaves the objects as they are.
LEMMA GivesUp ==
  ASSUME StatusInv, UNCHANGED <<pool, cache, fresh, pods>>, rec' = Idle
  PROVE  StatusInv'
<1>1. rec' \in Reconcile /\ rec'.pc = "idle" /\ rec'.next = {}
  BY DEF Idle, Reconcile, Settled, Pending
<1>2. RecOK' /\ PlanCounted' /\ RecordCounted'
  BY <1>1 DEF RecOK, PlanCounted, RecordCounted
<1> QED
  BY <1>1, <1>2, NoSlots DEF StatusInv, PodsOK, ObjectsOK, ListsOK, SettledStatusIsTrue

\* A step within a reconcile that keeps copy, plan and reasons.
LEMMA Continues ==
  ASSUME StatusInv, UNCHANGED <<pool, cache, fresh>>, PodsOK', rec' \in Reconcile, rec.pc # "idle",
         rec'.pc = rec.pc, rec'.obj = rec.obj, rec'.next = rec.next,
         rec'.pending.blocked = rec.pending.blocked, rec'.pending.headroom = rec.pending.headroom,
         rec.pending.push \subseteq rec'.pending.push
  PROVE  StatusInv'
<1>1. ObjectsOK' /\ RecOK' /\ ListsOK' /\ PlanCounted' /\ SettledStatusIsTrue'
  BY DEF StatusInv, ObjectsOK, RecOK, ListsOK, NoReason, PlanCounted, SettledStatusIsTrue
<1>2. RecordCounted'
  BY DEF StatusInv, NoReason, RecordCounted
<1> QED
  BY <1>1, <1>2 DEF StatusInv

LEMMA BeginStatus ==
  ASSUME StatusInv, Begin
  PROVE  StatusInv'
<1>1. /\ rec' = [Idle EXCEPT !.pc = "occupied", !.obj = cache, !.current = fresh, !.todo = Listed]
      /\ UNCHANGED <<pool, cache, fresh, pods>>
  BY DEF Begin
<1>2. Listed \in SUBSET Workers /\ cache \in Pool /\ fresh \in BOOLEAN /\ cache.applied \in SlotLists
  BY DEF Listed, StatusInv, ObjectsOK, ListsOK
<1>3. /\ rec' \in Reconcile /\ rec'.pc = "occupied" /\ rec'.obj = cache /\ rec'.next = {}
  <2> HIDE DEF Listed
  <2> QED
    BY <1>1, <1>2 DEF Idle, Reconcile, Settled, Pending
<1>4. RecOK' /\ PlanCounted' /\ RecordCounted'
  BY <1>2, <1>3 DEF RecOK, PlanCounted, RecordCounted
<1> QED
  BY <1>1, <1>2, <1>3, <1>4, NoSlots DEF StatusInv, PodsOK, ObjectsOK, ListsOK, SettledStatusIsTrue

LEMMA ReadOccupiedStatus ==
  ASSUME StatusInv, NEW w \in Workers, ReadOccupied(w)
  PROVE  StatusInv'
<1>1. /\ rec.pc = "occupied" /\ UNCHANGED <<pool, cache, fresh, pods>> /\ PodsOK' /\ rec \in Reconcile
  BY DEF ReadOccupied, Visit, StatusInv, PodsOK, RecOK
<1>2. CASE CallAnswers(w) /\ rec' = [rec EXCEPT !.todo = @ \ {w}, !.occupied = @ \cup pods[w].busy]
  <2>1. pods[w].busy \in SUBSET Nat
    BY <1>2 DEF CallAnswers, Exists, StatusInv, PodsOK, IsPod
  <2>2. rec' \in Reconcile /\ rec'.pc = rec.pc /\ rec'.obj = rec.obj /\ rec'.next = rec.next /\ rec'.pending = rec.pending
    BY <1>1, <1>2, <2>1 DEF Reconcile
  <2> QED
    BY <1>1, <2>2, Continues
<1>3. CASE rec' = [rec EXCEPT !.todo = @ \ {w}]
  <2>2. rec' \in Reconcile /\ rec'.pc = rec.pc /\ rec'.obj = rec.obj /\ rec'.next = rec.next /\ rec'.pending = rec.pending
    BY <1>1, <1>3 DEF Reconcile
  <2> QED
    BY <1>1, <2>2, Continues
<1> QED
  BY <1>2, <1>3 DEF ReadOccupied

\* The plan in hand has the counts the copy asks for, unless it says why not.
LEMMA MakePlanStatus ==
  ASSUME StatusInv, MakePlan
  PROVE  StatusInv'
<1> DEFINE applied == rec.obj.applied
           plan    == PlanFor(applied, rec.obj.spec, rec.occupied)
           fits    == CountNewSlots(applied, plan.slots) > 0 => WorkersCanFit(plan.slots)
           next    == IF fits THEN plan.slots ELSE KeepExistingSlots(applied, plan.slots)
<1>1. /\ rec.pc = "occupied" /\ UNCHANGED <<pool, cache, fresh, pods>>
      /\ rec' = [rec EXCEPT !.pc = "push", !.todo = Ready, !.occupied = {}, !.next = next,
                            !.pending.blocked = plan.reasons, !.pending.headroom = ~fits]
  BY DEF MakePlan, PlanFor, SlotCounts, Spec_
<1>2. /\ rec \in Reconcile /\ rec.obj \in Pool /\ applied \in SlotLists
      /\ rec.obj.spec \in Specs /\ rec.occupied \in SUBSET Nat
  BY <1>1 DEF StatusInv, RecOK, ListsOK, Reconcile, Pool
<1>3. /\ plan.slots \in SlotLists /\ plan.reasons \in SUBSET [id: Int, profile: Profiles]
      /\ plan.reasons = {} => CountsMet(plan.slots, rec.obj.spec)
  BY <1>2, PlannerPromise
<1> HIDE DEF plan
<1>4. KeepExistingSlots(applied, plan.slots) \in SUBSET plan.slots
  BY DEF KeepExistingSlots
<1>5. fits \in BOOLEAN /\ next \in SlotLists /\ (fits => next = plan.slots)
  BY <1>3, <1>4, SubList
<1>6. Ready \in SUBSET Workers /\ next \in SUBSET Config
  BY <1>5 DEF Ready, Listed, SlotLists
<1> HIDE DEF fits, next
<1>7. /\ rec' \in Reconcile /\ rec'.pc = "push" /\ rec'.obj = rec.obj /\ rec'.next = next
      /\ rec'.pending.blocked = plan.reasons /\ rec'.pending.headroom = ~fits
  <2>1. rec.pending \in Pending
    BY <1>2 DEF Reconcile
  <2> DEFINE why == [[rec.pending EXCEPT !.blocked = plan.reasons] EXCEPT !.headroom = ~fits]
  <2>2. why \in Pending /\ why.blocked = plan.reasons /\ why.headroom = ~fits
    BY <2>1, <1>3, <1>5 DEF Pending
  <2>3. rec' = [rec EXCEPT !.pc = "push", !.todo = Ready, !.occupied = {}, !.next = next, !.pending = why]
    BY <1>1, <1>2 DEF Reconcile
  <2> HIDE DEF why
  <2> QED
    BY <2>2, <2>3, <1>2, <1>6 DEF Reconcile
<1>8. RecOK' /\ RecordCounted'
  BY <1>2, <1>7 DEF RecOK, RecordCounted
<1>9. PlanCounted'
  BY <1>3, <1>5, <1>7 DEF PlanCounted, NoReason
<1> QED
  BY <1>1, <1>2, <1>5, <1>7, <1>8, <1>9 DEF StatusInv, PodsOK, ObjectsOK, ListsOK, SettledStatusIsTrue

\* A push changes a Pod's Slots and adds at most a reason.
LEMMA PushStatus ==
  ASSUME StatusInv, NEW w \in Workers, Push(w)
  PROVE  StatusInv'
<1> DEFINE failed == [rec EXCEPT !.todo = @ \ {w}, !.pending.push = @ \cup {w}]
           done   == [rec EXCEPT !.todo = @ \ {w}]
<1>1. /\ rec.pc = "push" /\ UNCHANGED <<pool, cache, fresh>> /\ rec \in Reconcile
      /\ rec.next \in SUBSET Config
  BY DEF Push, Visit, StatusInv, RecOK, Reconcile
<1>2. rec' = failed \/ rec' = done
  BY DEF Push
<1>3. UNCHANGED pods \/ (Exists(w) /\ ApplySlots(w, rec.next))
  BY DEF Push
<1>4. PodsOK'
  <2>1. CASE UNCHANGED pods
    BY <2>1 DEF StatusInv, PodsOK
  <2>2. CASE Exists(w) /\ ApplySlots(w, rec.next)
    <3>1. pods' = [pods EXCEPT ![w] = [pods[w] EXCEPT !.slots = rec.next]] /\ IsPod(pods[w])
      BY <2>2 DEF ApplySlots, Exists, StatusInv, PodsOK
    <3>2. IsPod([pods[w] EXCEPT !.slots = rec.next])
      BY <3>1, <1>1 DEF IsPod
    <3> QED
      BY <3>1, <3>2 DEF StatusInv, PodsOK
  <2> QED
    BY <1>3, <2>1, <2>2
<1>5. rec.pending \in Pending
  BY <1>1 DEF Reconcile
<1>6. /\ rec' \in Reconcile /\ rec'.pc = rec.pc /\ rec'.obj = rec.obj /\ rec'.next = rec.next
      /\ rec'.pending.blocked = rec.pending.blocked /\ rec'.pending.headroom = rec.pending.headroom
      /\ rec.pending.push \subseteq rec'.pending.push
  <2>1. CASE rec' = done
    BY <2>1, <1>1 DEF Reconcile
  <2>2. CASE rec' = failed
    <3> DEFINE why == [rec.pending EXCEPT !.push = @ \cup {w}]
    <3>1. /\ why \in Pending /\ why.blocked = rec.pending.blocked /\ why.headroom = rec.pending.headroom
          /\ rec.pending.push \subseteq why.push
      BY <1>5 DEF Pending
    <3>2. rec' = [rec EXCEPT !.todo = @ \ {w}, !.pending = why]
      BY <2>2
    <3> HIDE DEF why
    <3> QED
      BY <3>1, <3>2, <1>1 DEF Reconcile
  <2> QED
    BY <1>2, <2>1, <2>2
<1> QED
  BY <1>1, <1>4, <1>6, Continues

\* The copy takes the plan over when no push failed.
LEMMA SyncWorkersStatus ==
  ASSUME StatusInv, SyncWorkers
  PROVE  StatusInv'
<1> DEFINE obj == SetAppliedSlots(rec.obj)
<1>1. /\ rec.pc = "push" /\ UNCHANGED <<pool, cache, fresh, pods>> /\ rec \in Reconcile
      /\ rec.obj \in Pool /\ rec.next \in SlotLists /\ rec.next \in SUBSET Config
      /\ rec.obj.applied \in SlotLists
  BY DEF SyncWorkers, StatusInv, RecOK, ListsOK, SlotLists
<1>2. /\ obj \in Pool /\ obj.spec = rec.obj.spec /\ obj.applied \in SlotLists
      /\ (rec.pending.push = {} => obj.applied = rec.next)
  BY <1>1 DEF SetAppliedSlots, Pool
<1> HIDE DEF obj
<1>3. CASE rec' = Idle
  BY <1>1, <1>3, GivesUp
<1>4. CASE /\ rec'.pc \in {"status", "drain"} /\ rec' \in Reconcile /\ rec'.obj = obj
           /\ rec'.pending = rec.pending
           /\ (rec'.pc = "status" => rec'.next = {}) /\ (rec'.pc = "drain" => rec'.next = rec.next)
  <2>1. RecOK' /\ ListsOK'
    BY <1>1, <1>2, <1>4, NoSlots DEF RecOK, ListsOK, StatusInv
  <2>2. PlanCounted'
    BY <1>1, <1>2, <1>4 DEF PlanCounted, NoReason, StatusInv
  <2>3. RecordCounted'
    BY <1>1, <1>2, <1>4 DEF PlanCounted, RecordCounted, NoReason, StatusInv
  <2> QED
    BY <1>1, <2>1, <2>2, <2>3 DEF StatusInv, PodsOK, ObjectsOK, SettledStatusIsTrue
<1>5. Listed \in SUBSET Workers
  BY DEF Listed
<1>6. CASE rec' = [rec EXCEPT !.pc = "status", !.obj = obj, !.todo = Listed, !.seen = Listed, !.next = {}]
  <2>1. /\ rec'.pc = "status" /\ rec' \in Reconcile /\ rec'.obj = obj
        /\ rec'.pending = rec.pending /\ rec'.next = {}
    <3> HIDE DEF Listed
    <3> QED
      BY <1>1, <1>2, <1>5, <1>6 DEF Reconcile
  <2> QED
    BY <2>1, <1>4
<1>7. CASE rec' = [rec EXCEPT !.pc = "drain", !.obj = obj,
                              !.todo = {w \in Workers : Spec_.replicas <= w /\ w < sts.replicas}]
  <2> DEFINE going == {w \in Workers : Spec_.replicas <= w /\ w < sts.replicas}
  <2>1. going \in SUBSET Workers
    OBVIOUS
  <2>2. /\ rec'.pc = "drain" /\ rec' \in Reconcile /\ rec'.obj = obj
        /\ rec'.pending = rec.pending /\ rec'.next = rec.next
    <3> HIDE DEF going
    <3>1. rec' = [rec EXCEPT !.pc = "drain", !.obj = obj, !.todo = going]
      BY <1>7 DEF going
    <3> QED
      BY <3>1, <1>1, <1>2, <2>1 DEF Reconcile
  <2> QED
    BY <2>2, <1>4
<1> QED
  BY <1>3, <1>6, <1>7 DEF SyncWorkers, obj

LEMMA CheckDrainedStatus ==
  ASSUME StatusInv, NEW w \in Workers, CheckDrained(w)
  PROVE  StatusInv'
<1>1. /\ rec.pc = "drain" /\ UNCHANGED <<pool, cache, fresh, pods>> /\ PodsOK' /\ rec \in Reconcile
      /\ rec.pending \in Pending
  BY DEF CheckDrained, Visit, StatusInv, PodsOK, RecOK, Reconcile
<1>2. \/ rec' = [rec EXCEPT !.todo = @ \ {w}]
      \/ \E todo \in SUBSET Workers, b \in BOOLEAN : rec' = [rec EXCEPT !.todo = todo, !.pending.workers = b]
  <2>1. CASE ~Exists(w) /\ rec' = [rec EXCEPT !.todo = @ \ {w}]
    BY <2>1
  <2>2. CASE rec' = [rec EXCEPT !.todo = IF pods[w].busy # {} THEN {} ELSE @ \ {w},
                                !.pending.workers = pods[w].busy # {}]
    <3> DEFINE t == IF pods[w].busy # {} THEN {} ELSE rec.todo \ {w}
               b == pods[w].busy # {}
    <3>1. t \in SUBSET Workers /\ b \in BOOLEAN
      BY <1>1 DEF Reconcile
    <3>2. rec' = [rec EXCEPT !.todo = t, !.pending.workers = b]
      BY <2>2
    <3> HIDE DEF t, b
    <3> QED
      BY <3>1, <3>2
  <2>3. CASE rec' = [rec EXCEPT !.todo = {}, !.pending.workers = TRUE]
    <3>1. {} \in SUBSET Workers /\ TRUE \in BOOLEAN
      OBVIOUS
    <3> QED
      BY <2>3, <3>1
  <2> QED
    BY <2>1, <2>2, <2>3 DEF CheckDrained
<1> DEFINE Carries == /\ rec' \in Reconcile /\ rec'.pc = rec.pc /\ rec'.obj = rec.obj /\ rec'.next = rec.next
                      /\ rec'.pending.blocked = rec.pending.blocked
                      /\ rec'.pending.headroom = rec.pending.headroom
                      /\ rec.pending.push \subseteq rec'.pending.push
<1>3. Carries
  <2>1. CASE rec' = [rec EXCEPT !.todo = @ \ {w}]
    BY <2>1, <1>1 DEF Reconcile
  <2>2. ASSUME NEW todo \in SUBSET Workers, NEW b \in BOOLEAN,
               rec' = [rec EXCEPT !.todo = todo, !.pending.workers = b]
        PROVE  Carries
    <3> DEFINE why == [rec.pending EXCEPT !.workers = b]
    <3>1. /\ why \in Pending /\ why.blocked = rec.pending.blocked /\ why.headroom = rec.pending.headroom
          /\ why.push = rec.pending.push
      BY <1>1 DEF Pending
    <3>2. rec' = [rec EXCEPT !.todo = todo, !.pending = why]
      BY <2>2
    <3> HIDE DEF why
    <3> QED
      BY <3>1, <3>2, <1>1 DEF Reconcile
  <2> HIDE DEF Carries
  <2> QED
    BY <1>2, <2>1, <2>2
<1> QED
  BY <1>1, <1>3, Continues

LEMMA UpdateStatefulSetStatus ==
  ASSUME StatusInv, UpdateStatefulSet
  PROVE  StatusInv'
<1>1. /\ rec.pc = "drain" /\ UNCHANGED <<pool, cache, fresh, pods>> /\ rec \in Reconcile
      /\ rec.obj \in Pool /\ rec.obj.applied \in SlotLists
  BY DEF UpdateStatefulSet, StatusInv, RecOK, ListsOK
<1>2. Listed \in SUBSET Workers
  BY DEF Listed
<1>3. CASE rec' = [rec EXCEPT !.pc = "status", !.todo = Listed, !.seen = Listed, !.next = {}]
  <2>1. /\ rec' \in Reconcile /\ rec'.pc = "status" /\ rec'.obj = rec.obj /\ rec'.next = {}
        /\ rec'.pending = rec.pending
    <3> HIDE DEF Listed
    <3> QED
      BY <1>1, <1>2, <1>3 DEF Reconcile
  <2>2. RecOK' /\ ListsOK' /\ PlanCounted'
    BY <1>1, <2>1, NoSlots DEF RecOK, ListsOK, PlanCounted, StatusInv
  <2>3. RecordCounted'
    BY <1>1, <2>1 DEF RecordCounted, NoReason, StatusInv
  <2> QED
    BY <1>1, <2>2, <2>3 DEF StatusInv, PodsOK, ObjectsOK, SettledStatusIsTrue
<1>4. CASE rec' = Idle
  BY <1>1, <1>4, GivesUp
<1> QED
  BY <1>3, <1>4 DEF UpdateStatefulSet

LEMMA PollWorkerStatus ==
  ASSUME StatusInv, NEW w \in Workers, PollWorker(w)
  PROVE  StatusInv'
<1>1. /\ rec.pc = "status" /\ UNCHANGED <<pool, cache, fresh, pods>> /\ PodsOK' /\ rec \in Reconcile
      /\ rec' = [rec EXCEPT !.todo = @ \ {w}]
  BY DEF PollWorker, Visit, StatusInv, PodsOK, RecOK
<1>2. rec' \in Reconcile /\ rec'.pc = rec.pc /\ rec'.obj = rec.obj /\ rec'.next = rec.next /\ rec'.pending = rec.pending
  BY <1>1 DEF Reconcile
<1> QED
  BY <1>1, <1>2, Continues

\* The write publishes the copy's Slots with the copy's specification.
LEMMA WriteStatusStatus ==
  ASSUME StatusInv, WriteStatus
  PROVE  StatusInv'
<1> DEFINE written == [pool EXCEPT !.applied = rec.obj.applied, !.observed = Spec_, !.pending = rec.pending]
<1>1. /\ rec.pc = "status" /\ rec' = Idle /\ UNCHANGED <<cache, pods>>
      /\ rec \in Reconcile /\ rec.obj \in Pool /\ rec.obj.applied \in SlotLists /\ pool \in Pool
  BY DEF WriteStatus, StatusInv, RecOK, ListsOK, ObjectsOK
<1>2. CASE UNCHANGED <<pool, fresh>>
  BY <1>1, <1>2, GivesUp
<1>3. CASE pool' = written /\ fresh' = FALSE
  <2>1. /\ pool' \in Pool /\ pool'.applied = rec.obj.applied /\ pool'.observed = rec.obj.spec
        /\ pool'.pending = rec.pending
    BY <1>1, <1>3 DEF Pool, Reconcile, Spec_
  <2>2. rec' \in Reconcile /\ rec'.pc = "idle" /\ rec'.next = {}
    BY <1>1 DEF Idle, Reconcile, Settled, Pending
  <2>3. RecOK' /\ PlanCounted' /\ RecordCounted'
    BY <2>2 DEF RecOK, PlanCounted, RecordCounted
  <2>4. PodsOK' /\ ObjectsOK' /\ ListsOK'
    BY <1>1, <1>3, <2>1, <2>2, NoSlots DEF StatusInv, PodsOK, ObjectsOK, ListsOK
  <2>5. SettledStatusIsTrue'
    <3> SUFFICES ASSUME rec.pending = Settled
                 PROVE  CountsMet(rec.obj.applied, rec.obj.spec)
      BY <2>1 DEF SettledStatusIsTrue, CountsMet
    <3>1. NoReason /\ rec.pending.push = {}
      BY DEF NoReason, Settled
    <3> QED
      BY <3>1, <1>1 DEF StatusInv, RecordCounted
  <2> QED
    BY <2>3, <2>4, <2>5 DEF StatusInv
<1> QED
  BY <1>2, <1>3 DEF WriteStatus

LEMMA EditSpecStatus ==
  ASSUME StatusInv, NEW s \in Specs, EditSpec(s)
  PROVE  StatusInv'
<1>1. /\ pool' = [pool EXCEPT !.spec = s] /\ fresh' = FALSE /\ rec' = [rec EXCEPT !.current = FALSE]
      /\ UNCHANGED <<cache, pods>> /\ pool \in Pool /\ rec \in Reconcile
  BY DEF EditSpec, StatusInv, ObjectsOK, RecOK
<1>2. /\ pool' \in Pool /\ pool'.applied = pool.applied /\ pool'.observed = pool.observed
      /\ pool'.pending = pool.pending
  BY <1>1 DEF Pool
<1>3. /\ rec' \in Reconcile /\ rec'.pc = rec.pc /\ rec'.obj = rec.obj /\ rec'.next = rec.next
      /\ rec'.pending = rec.pending
  BY <1>1 DEF Reconcile
<1>4. PodsOK' /\ ObjectsOK' /\ RecOK' /\ ListsOK'
  BY <1>1, <1>2, <1>3 DEF StatusInv, PodsOK, ObjectsOK, RecOK, ListsOK
<1>5. PlanCounted' /\ RecordCounted' /\ SettledStatusIsTrue'
  BY <1>2, <1>3 DEF StatusInv, NoReason, PlanCounted, RecordCounted, SettledStatusIsTrue, CountsMet
<1> QED
  BY <1>4, <1>5 DEF StatusInv

LEMMA CacheStatus ==
  ASSUME StatusInv, CacheCatchesUp
  PROVE  StatusInv'
BY DEF CacheCatchesUp, StatusInv, PodsOK, ObjectsOK, RecOK, ListsOK, NoReason, PlanCounted, RecordCounted,
   SettledStatusIsTrue

LEMMA ReadyPod ==
  ASSUME NEW pod, IsPod(pod), NEW b
  PROVE  IsPod([pod EXCEPT !.ready = b])
BY DEF IsPod

\* Pods come, go, and have their Slots taken and left.
LEMMA PodsStatus ==
  ASSUME StatusInv, NEW w \in Workers,
         \/ CreatePod(w) \/ PodReady(w) \/ RemovePod(w) \/ Disrupt(w) \/ Vacate(w)
         \/ Exists(w) /\ \E c \in pods[w].slots : Occupy(w, c)
  PROVE  StatusInv'
<1>1. UNCHANGED <<pool, cache, fresh, rec>>
  BY DEF CreatePod, PodReady, RemovePod, Disrupt, Vacate, Occupy
<1>2. PodsOK /\ (Exists(w) => IsPod(pods[w]))
  BY DEF StatusInv, PodsOK, Exists
<1>3. ASSUME NEW pod, pods' = [pods EXCEPT ![w] = pod], pod = Null \/ IsPod(pod)
      PROVE  PodsOK'
  BY <1>2, <1>3 DEF PodsOK
<1>4. PodsOK'
  <2>1. CASE CreatePod(w)
    <3> DEFINE pod == [ready |-> FALSE, budget |-> sts.budget, slots |-> {}, busy |-> {}]
    <3>1. pods' = [pods EXCEPT ![w] = pod]
      BY <2>1 DEF CreatePod
    <3>2. IsPod(pod)
      BY DEF IsPod
    <3> HIDE DEF pod
    <3> QED
      BY <3>1, <3>2, <1>3
  <2>2. CASE PodReady(w)
    <3>1. pods' = [pods EXCEPT ![w] = [pods[w] EXCEPT !.ready = TRUE]] /\ IsPod(pods[w])
      BY <2>2, <1>2 DEF PodReady
    <3>2. IsPod([pods[w] EXCEPT !.ready = TRUE])
      BY <3>1, ReadyPod
    <3> QED
      BY <3>1, <3>2, <1>3
  <2>3. CASE pods' = [pods EXCEPT ![w] = Null]
    BY <2>3, <1>3
  <2>4. CASE Exists(w) /\ pods' = [pods EXCEPT ![w].ready = FALSE]
    <3>1. pods' = [pods EXCEPT ![w] = [pods[w] EXCEPT !.ready = FALSE]] /\ IsPod(pods[w])
      BY <2>4, <1>2
    <3>2. IsPod([pods[w] EXCEPT !.ready = FALSE])
      BY <3>1, ReadyPod
    <3> QED
      BY <3>1, <3>2, <1>3
  <2>5. CASE Vacate(w)
    <3>1. PICK i \in pods[w].busy : pods' = [pods EXCEPT ![w] = [pods[w] EXCEPT !.busy = @ \ {i}]]
      BY <2>5 DEF Vacate
    <3>2. IsPod(pods[w])
      BY <2>5, <1>2 DEF Vacate
    <3>3. IsPod([pods[w] EXCEPT !.busy = @ \ {i}])
      BY <3>2 DEF IsPod
    <3> QED
      BY <3>1, <3>3, <1>3
  <2>6. ASSUME Exists(w), NEW c \in pods[w].slots, Occupy(w, c)
        PROVE  PodsOK'
    <3>1. pods' = [pods EXCEPT ![w] = [pods[w] EXCEPT !.busy = @ \cup {c.id}]] /\ IsPod(pods[w])
      BY <2>6, <1>2 DEF Occupy
    <3>2. c.id \in Nat
      BY <3>1 DEF IsPod, Config
    <3>3. IsPod([pods[w] EXCEPT !.busy = @ \cup {c.id}])
      BY <3>1, <3>2 DEF IsPod
    <3> QED
      BY <3>1, <3>3, <1>3
  <2> QED
    BY <2>1, <2>2, <2>3, <2>4, <2>5, <2>6 DEF RemovePod, Disrupt
<1> QED
  BY <1>1, <1>4, Elsewhere

LEMMA StatusStep ==
  ASSUME StatusInv, [Next]_vars
  PROVE  StatusInv'
<1>1. CASE Begin \/ MakePlan \/ SyncWorkers \/ UpdateStatefulSet \/ WriteStatus
  BY <1>1, BeginStatus, MakePlanStatus, SyncWorkersStatus, UpdateStatefulSetStatus, WriteStatusStatus
<1>2. ASSUME NEW w \in Workers, ReadOccupied(w) \/ Push(w) \/ CheckDrained(w) \/ PollWorker(w)
      PROVE  StatusInv'
  BY <1>2, ReadOccupiedStatus, PushStatus, CheckDrainedStatus, PollWorkerStatus
<1>3. CASE CacheCatchesUp
  BY <1>3, CacheStatus
<1>4. ASSUME NEW s \in Specs, EditSpec(s) PROVE StatusInv'
  BY <1>4, EditSpecStatus
<1>5. ASSUME NEW w \in Workers,
             \/ CreatePod(w) \/ PodReady(w) \/ RemovePod(w) \/ Disrupt(w) \/ Vacate(w)
             \/ Exists(w) /\ \E c \in pods[w].slots : Occupy(w, c)
      PROVE  StatusInv'
  BY <1>5, PodsStatus
<1>6. CASE UNCHANGED vars
  <2>1. UNCHANGED <<pool, cache, fresh, rec, pods>>
    BY <1>6 DEF vars
  <2> QED
    BY <2>1, Elsewhere DEF StatusInv, PodsOK
<1> QED
  BY <1>1, <1>2, <1>3, <1>4, <1>5, <1>6 DEF Next, ReconcileStep, PodStep, Leave

-----------------------------------------------------------------------------
\* Updating=False is true: a status without a pending reason has, for every
\* profile, the Slots that the specification it observed asks for, through
\* failed pushes, lost answers, refused writes, stale copies and edits of the
\* specification while a reconcile runs.
THEOREM SettledStatusesAreTrue == Spec => []SettledStatusIsTrue
<1>1. StatusInv /\ [Next]_vars => StatusInv'
  BY StatusStep
<1>2. StatusInv => SettledStatusIsTrue
  BY DEF StatusInv
<1> QED
  BY <1>1, <1>2, InitStatus, PTL DEF Spec
=============================================================================
