---------------------------- MODULE PoolController ----------------------------
(***************************************************************************)
(* The Pool reconciler (internal/controller/pool_controller.go) with what   *)
(* it drives: the SandboxPool object, its StatefulSet, the Worker Pods, the *)
(* topology push and the Scheduler's list of Workers.  One Pool with one    *)
(* Worker template; templates are reconciled one after the other and share  *)
(* no state but the status.                                                 *)
(*                                                                         *)
(* A reconcile is a chain of calls to Workers, each of which can fail       *)
(* before or after it took effect, and other actors come between any two:   *)
(* the user edits the specification, Kubernetes creates and removes Pods,   *)
(* Sandboxes take and leave Slots.  The reconciler works on a copy from the *)
(* informer cache and its status write fails unless that copy is current.   *)
(*                                                                         *)
(* A Slot here is Free or busy; SlotManager has its states.  A Worker       *)
(* accepts a push or refuses it as a whole.  Resources are one quantity.    *)
(* Abstracted: the Service, conditions other than Updating, statistics.     *)
(***************************************************************************)
EXTENDS TopologyPlan

CONSTANTS
  Null,
  Profiles,      \* profile names, as numbers in the order of the names
  Size,          \* profile |-> the resources of one of its Slots
  Cri,           \* whether the Pool's backend is CRI (Pods get extra memory)
  Allowance,     \* the fixed extra for a CRI Worker ("2Gi")
  Specs,         \* the specifications the user may write
  Edits,         \* the changes between two of them that the user may make
  MaxWorkers,    \* bound on replicas
  MaxEdits,      \* bound on changes of the specification
  MaxFaults,     \* bound on failing calls and on Pods lost or unready
  MaxOccupied    \* bound on Slots taken by Sandboxes

Workers == 0 .. MaxWorkers - 1

ASSUME PoolConstants ==
  /\ Profiles \subseteq Nat /\ Size \in [Profiles -> Nat]
  /\ Cri \in BOOLEAN /\ Allowance \in Nat
  /\ Edits \subseteq Specs \X Specs
  /\ \A s \in Specs :
       /\ s.replicas \in 0 .. MaxWorkers
       /\ s.order \in Seq(Profiles) /\ IsInjective(s.order)
       /\ DOMAIN s.counts = ToSet(s.order) /\ \A p \in DOMAIN s.counts : s.counts[p] \in Nat
  /\ MaxWorkers \in Nat /\ MaxEdits \in Nat /\ MaxFaults \in Nat /\ MaxOccupied \in Nat

VARIABLES
  pool,    \* the SandboxPool: specification and status
  cache,   \* the informer's copy of it
  fresh,   \* whether that copy has the latest resource version
  sts,     \* the StatefulSet: replicas and the resources of new Pods; Null at first
  pods,    \* Worker |-> its Pod, or Null
  sched,   \* Worker |-> the Free Slots the Scheduler has for it, or Null
  rec,     \* the Reconcile call in progress
  spent   \* how much of each bound is used up

vars == <<pool, cache, fresh, sts, pods, sched, rec, spent>>

-----------------------------------------------------------------------------
Config  == [id: Nat, profile: Profiles]
Pending == [blocked: SUBSET [id: Int, profile: Profiles], headroom: BOOLEAN, push: SUBSET Workers, workers: BOOLEAN]
Settled == [blocked |-> {}, headroom |-> FALSE, push |-> {}, workers |-> FALSE]
Pool    == [spec: Specs, applied: SUBSET Config, observed: Specs \cup {Null}, pending: Pending]
Pod     == [ready: BOOLEAN, budget: Nat, slots: SUBSET Config, busy: SUBSET Nat]

\* todo: the Pods the current loop has yet to visit.  occupied, next, pending:
\* syncTemplate's locals.  held: whether scale-down was found to be unsafe.
Reconcile == [pc: {"idle", "occupied", "push", "drain", "status"},
              obj: Pool \cup {Null}, current: BOOLEAN, todo: SUBSET Workers, occupied: SUBSET Nat,
              next: SUBSET Config, pending: Pending, seen: SUBSET Workers]
Idle == [pc |-> "idle", obj |-> Null, current |-> FALSE, todo |-> {}, occupied |-> {}, next |-> {},
         pending |-> Settled, seen |-> {}]

TypeOK ==
  /\ pool \in Pool /\ cache \in Pool /\ fresh \in BOOLEAN
  /\ sts \in [replicas: 0 .. MaxWorkers, budget: Nat] \cup {Null}
  /\ pods \in [Workers -> Pod \cup {Null}]
  /\ sched \in [Workers -> SUBSET Config \cup {Null}]
  /\ rec \in Reconcile
  /\ spent \in [edits: 0 .. MaxEdits, faults: 0 .. MaxFaults, occupied: 0 .. MaxOccupied]

Init ==
  /\ \E e \in Edits : pool = [spec |-> e[1], applied |-> {}, observed |-> Null, pending |-> Settled]
  /\ cache = pool /\ fresh = TRUE
  /\ sts = Null
  /\ pods = [w \in Workers |-> Null]
  /\ sched = [w \in Workers |-> Null]
  /\ rec = Idle
  /\ spent = [edits |-> 0, faults |-> 0, occupied |-> 0]

Exists(w) == pods[w] # Null
Listed    == {w \in Workers : Exists(w)}
Ready     == {w \in Listed : pods[w].ready}

-----------------------------------------------------------------------------
(* Calls to Workers.  A Pod that is gone or not answering fails them.       *)

Spend(kind, bound) == spent[kind] < bound /\ spent' = [spent EXCEPT ![kind] = @ + 1]
Fault              == Spend("faults", MaxFaults)
CallAnswers(w)     == Exists(w) /\ UNCHANGED spent
CallFails(w)       == IF Exists(w) THEN Fault ELSE UNCHANGED spent

\* Mutant: a Worker gives up no Slot, occupied or not.
MutAcceptsNoShrink(pod, configs) ==
  /\ \A c \in pod.slots, d \in configs : c.id = d.id => c.profile = d.profile
  /\ IdsOf(pod.slots) \subseteq IdsOf(configs)

\* ApplySlots: an existing ID keeps its profile, an occupied Slot stays.  The
\* resources of a Slot, which ApplySlots compares as well, are its profile's:
\* the Pool's SlotProfiles are not edited here.
Accepts(pod, configs) ==
  /\ \A c \in pod.slots, d \in configs : c.id = d.id => c.profile = d.profile
  /\ pod.busy \subseteq IdsOf(configs)

ApplySlots(w, configs) == pods' = [pods EXCEPT ![w].slots = configs]

-----------------------------------------------------------------------------
(* Reconcile.                                                               *)

\* slotCountsFromTemplate's errors are specifications no member of Specs is.
Begin ==
  /\ rec.pc = "idle"
  /\ rec' = [Idle EXCEPT !.pc = "occupied", !.obj = cache, !.current = fresh, !.todo = Listed]
  /\ UNCHANGED <<pool, cache, fresh, sts, pods, sched, spent>>

Visit(pc, w) == rec.pc = pc /\ w \in rec.todo
Spec_        == rec.obj.spec
SlotCounts   == Spec_.counts

\* occupiedSlots: a Worker that does not answer is skipped.
ReadOccupied(w) ==
  /\ Visit("occupied", w)
  /\ \/ CallAnswers(w) /\ rec' = [rec EXCEPT !.todo = @ \ {w}, !.occupied = @ \cup pods[w].busy]
     \/ CallFails(w) /\ rec' = [rec EXCEPT !.todo = @ \ {w}]
  /\ UNCHANGED <<pool, cache, fresh, sts, pods, sched>>

\* workerPodResources, with the extra memory of a CRI Worker.
LargestSlot(configs) == IF configs = {} THEN 0 ELSE Max({Size[c.profile] : c \in configs})
Budget(configs) == SumResources(configs, Size) + IF Cri THEN LargestSlot(configs) + Allowance ELSE 0

\* StatefulSetBuilder.Build: the StatefulSet a specification and Slots call for.
Build(spec, configs) == [replicas |-> spec.replicas, budget |-> Budget(configs)]

WorkersCanFit(configs) == \A w \in Listed : ResourcesEnough(pods[w].budget, SumResources(configs, Size))

\* syncTemplate up to the push: plan, and without headroom add nothing.
MakePlan ==
  LET applied == rec.obj.applied
      plan    == PlanTopology(applied, SlotCounts, Profiles, rec.occupied,
                              OrderedProfiles(Spec_.order, applied))
      fits    == CountNewSlots(applied, plan.slots) > 0 => WorkersCanFit(plan.slots)
  IN  /\ rec.pc = "occupied" /\ rec.todo = {}
      /\ rec' = [rec EXCEPT !.pc = "push", !.todo = Ready, !.occupied = {},
                            !.next = IF fits THEN plan.slots ELSE KeepExistingSlots(applied, plan.slots),
                            !.pending.blocked = plan.reasons, !.pending.headroom = ~fits]
      /\ UNCHANGED <<pool, cache, fresh, sts, pods, sched, spent>>

\* syncTopology: one push per Ready Pod; a lost answer counts as a failure.
Push(w) ==
  LET failed == [rec EXCEPT !.todo = @ \ {w}, !.pending.push = @ \cup {w}]
      done   == [rec EXCEPT !.todo = @ \ {w}]
      ok     == Exists(w) /\ Accepts(pods[w], rec.next)
  IN  /\ Visit("push", w)
      /\ \/ ok /\ ApplySlots(w, rec.next) /\ rec' = done /\ UNCHANGED spent
         \/ ok /\ ApplySlots(w, rec.next) /\ rec' = failed /\ Fault
         \/ ~ok /\ rec' = failed /\ UNCHANGED <<pods, spent>>
         \/ ok /\ rec' = failed /\ UNCHANGED pods /\ Fault
      /\ UNCHANGED <<pool, cache, fresh, sts, sched>>

\* The topology is recorded, in the copy, only when every push succeeded.
SetAppliedSlots(obj) == IF rec.pending.push # {} THEN obj ELSE [obj EXCEPT !.applied = rec.next]

\* syncWorkers: create the StatefulSet, or look whether it shrinks.
SyncWorkers ==
  LET obj == SetAppliedSlots(rec.obj)
  IN  /\ rec.pc = "push" /\ rec.todo = {}
      /\ \/ /\ sts = Null /\ sts' = Build(Spec_, rec.next)
            /\ rec' = [rec EXCEPT !.pc = "status", !.obj = obj, !.todo = Listed, !.seen = Listed, !.next = {}]
            /\ UNCHANGED spent
         \/ sts = Null /\ Fault /\ rec' = Idle /\ UNCHANGED sts
         \/ /\ sts # Null
            /\ rec' = [rec EXCEPT !.pc = "drain", !.obj = obj,
                                  !.todo = {w \in Workers : Spec_.replicas <= w /\ w < sts.replicas}]
            /\ UNCHANGED <<sts, spent>>
      /\ UNCHANGED <<pool, cache, fresh, pods, sched>>

\* workersStillBusy: a Worker that cannot be asked holds the scale-down, a Pod
\* that is gone does not.  The loop ends at the first busy Worker.
CheckDrained(w) ==
  /\ Visit("drain", w) /\ \A v \in rec.todo : w <= v
  /\ \/ ~Exists(w) /\ rec' = [rec EXCEPT !.todo = @ \ {w}] /\ UNCHANGED spent
     \/ Exists(w) /\ CallAnswers(w)
        /\ rec' = [rec EXCEPT !.todo = IF pods[w].busy # {} THEN {} ELSE @ \ {w},
                              !.pending.workers = pods[w].busy # {}]
     \/ Exists(w) /\ CallFails(w) /\ rec' = [rec EXCEPT !.todo = {}, !.pending.workers = TRUE]
  /\ UNCHANGED <<pool, cache, fresh, sts, pods, sched>>

UpdateStatefulSet ==
  /\ rec.pc = "drain" /\ rec.todo = {}
  /\ \/ /\ sts' = [Build(Spec_, rec.next) EXCEPT !.replicas = IF rec.pending.workers THEN sts.replicas ELSE @]
        /\ rec' = [rec EXCEPT !.pc = "status", !.todo = Listed, !.seen = Listed, !.next = {}]
        /\ UNCHANGED spent
     \/ Fault /\ rec' = Idle /\ UNCHANGED sts
  /\ UNCHANGED <<pool, cache, fresh, pods, sched>>

\* syncStatus: the Scheduler learns each Worker's Slots, and to forget the
\* Workers that are not Ready or do not answer.
FreeSlots(w) == {c \in pods[w].slots : c.id \notin pods[w].busy}

\* Mutant: a Worker the Scheduler knows is not looked at again.
MutPollOnce(w) ==
  /\ Visit("status", w)
  /\ \/ CallAnswers(w) /\ pods[w].ready /\ sched' = [sched EXCEPT ![w] = IF @ = Null THEN FreeSlots(w) ELSE @]
     \/ CallAnswers(w) /\ ~pods[w].ready /\ sched' = [sched EXCEPT ![w] = Null]
     \/ CallFails(w) /\ sched' = [sched EXCEPT ![w] = Null]
  /\ rec' = [rec EXCEPT !.todo = @ \ {w}]
  /\ UNCHANGED <<pool, cache, fresh, sts, pods>>

PollWorker(w) ==
  /\ Visit("status", w)
  /\ \/ CallAnswers(w) /\ pods[w].ready /\ sched' = [sched EXCEPT ![w] = FreeSlots(w)]
     \/ CallAnswers(w) /\ ~pods[w].ready /\ sched' = [sched EXCEPT ![w] = Null]
     \/ CallFails(w) /\ sched' = [sched EXCEPT ![w] = Null]
  /\ rec' = [rec EXCEPT !.todo = @ \ {w}]
  /\ UNCHANGED <<pool, cache, fresh, sts, pods>>

\* Ordinals without a Pod are forgotten up to the larger of the Pods there
\* are and the replicas asked for.
ForgetMissing ==
  LET known == Max({Cardinality(rec.seen), Spec_.replicas})
  IN  sched' = [w \in Workers |-> IF w < known /\ w \notin rec.seen THEN Null ELSE sched[w]]

\* The status write is left out when nothing but the applied Slots differs
\* from the copy (the old status is copied after they were set), unless a
\* statistic changed; it is refused when the copy is not current.
WriteStatus ==
  LET written == [pool EXCEPT !.applied = rec.obj.applied, !.observed = Spec_, !.pending = rec.pending]
      same    == rec.obj.observed = Spec_ /\ rec.obj.pending = rec.pending
  IN  /\ rec.pc = "status" /\ rec.todo = {}
      /\ ForgetMissing
      /\ rec' = Idle
      /\ \/ rec.current /\ pool' = written /\ fresh' = FALSE /\ UNCHANGED spent
         \/ ~rec.current /\ UNCHANGED <<pool, fresh, spent>>
         \/ same /\ UNCHANGED <<pool, fresh, spent>>
         \/ rec.current /\ Fault /\ UNCHANGED <<pool, fresh>>
      /\ UNCHANGED <<cache, sts, pods>>

-----------------------------------------------------------------------------
(* The informer, the user, Kubernetes and the Sandboxes.                    *)

CacheCatchesUp ==
  /\ ~fresh
  /\ cache' = pool /\ fresh' = TRUE
  /\ UNCHANGED <<pool, sts, pods, sched, rec, spent>>

EditSpec(s) ==
  /\ <<pool.spec, s>> \in Edits /\ Spend("edits", MaxEdits)
  /\ pool' = [pool EXCEPT !.spec = s]
  /\ fresh' = FALSE /\ rec' = [rec EXCEPT !.current = FALSE]
  /\ UNCHANGED <<cache, sts, pods, sched>>

\* Pods follow the StatefulSet one at a time, the lowest missing ordinal and
\* the highest surplus one first; OnDelete leaves running Pods as they are.
CreatePod(w) ==
  /\ sts # Null /\ w < sts.replicas /\ ~Exists(w) /\ \A v \in Workers : v < w => Exists(v)
  /\ pods' = [pods EXCEPT ![w] = [ready |-> FALSE, budget |-> sts.budget, slots |-> {}, busy |-> {}]]
  /\ UNCHANGED <<pool, cache, fresh, sts, sched, rec, spent>>

PodReady(w) ==
  /\ Exists(w) /\ ~pods[w].ready
  /\ pods' = [pods EXCEPT ![w].ready = TRUE]
  /\ UNCHANGED <<pool, cache, fresh, sts, sched, rec, spent>>

RemovePod(w) ==
  /\ Exists(w) /\ sts.replicas <= w /\ \A v \in Listed : v <= w
  /\ pods' = [pods EXCEPT ![w] = Null]
  /\ UNCHANGED <<pool, cache, fresh, sts, sched, rec, spent>>

Disrupt(w) ==
  /\ Exists(w) /\ Fault
  /\ \/ pods' = [pods EXCEPT ![w] = Null]
     \/ pods[w].ready /\ pods' = [pods EXCEPT ![w].ready = FALSE]
  /\ UNCHANGED <<pool, cache, fresh, sts, sched, rec>>

\* A Sandbox is assigned a Slot the Scheduler has as Free and reserves it.
Occupy(w, c) ==
  /\ sched[w] # Null /\ c \in sched[w]
  /\ Exists(w) /\ c \in pods[w].slots /\ c.id \notin pods[w].busy
  /\ Spend("occupied", MaxOccupied)
  /\ pods' = [pods EXCEPT ![w].busy = @ \cup {c.id}]
  /\ sched' = [sched EXCEPT ![w] = @ \ {c}]
  /\ UNCHANGED <<pool, cache, fresh, sts, rec>>

Vacate(w) ==
  /\ Exists(w)
  /\ \E i \in pods[w].busy : pods' = [pods EXCEPT ![w].busy = @ \ {i}]
  /\ UNCHANGED <<pool, cache, fresh, sts, sched, rec, spent>>

-----------------------------------------------------------------------------
ReconcileStep ==
  \/ Begin \/ MakePlan \/ SyncWorkers \/ UpdateStatefulSet \/ WriteStatus
  \/ \E w \in Workers : ReadOccupied(w) \/ Push(w) \/ CheckDrained(w) \/ PollWorker(w)

PodStep == \E w \in Workers : CreatePod(w) \/ PodReady(w) \/ RemovePod(w)
Leave   == \E w \in Workers : Vacate(w)

Next ==
  \/ ReconcileStep
  \/ CacheCatchesUp \/ \E s \in Specs : EditSpec(s)
  \/ PodStep \/ Leave
  \/ \E w \in Workers : Disrupt(w) \/ (Exists(w) /\ \E c \in pods[w].slots : Occupy(w, c))

\* The reconciler is requeued for ever (every poolPollInterval and after every
\* error): it has a step at any time and takes infinitely many, which is weak
\* fairness of a step that is always enabled.  Kubernetes keeps working on
\* Pods and the informer catches up.
Spec ==
  /\ Init /\ [][Next]_vars
  /\ []<><<ReconcileStep>>_vars
  /\ WF_vars(CacheCatchesUp) /\ WF_vars(PodStep)

-----------------------------------------------------------------------------
CountsMet(configs, spec) ==
  \A p \in Profiles : Cardinality(OfProfile(configs, p)) = Desired(spec.counts, p)

\* "pool topology matches the desired replicas and slot counts" (the message
\* of Updating=False): a status without a pending reason has the Slots that
\* the specification it observed asks for, through failed pushes, lost status
\* writes and stale copies.  (syncTemplate, setAppliedSlots, syncStatus)
SettledStatusIsTrue ==
  pool.observed # Null /\ pool.pending = Settled => CountsMet(pool.applied, pool.observed)

Unused    == \A w \in Workers : Exists(w) => pods[w].busy = {}
Placed    == \A w \in Workers : (w < pool.spec.replicas) = Exists(w)
Converged == Placed /\ \A w \in Listed : CountsMet(pods[w].slots, pool.spec)

\* The Workers have the Slots of the status, and the status says that there is
\* no room for more.
LacksHeadroom == Placed /\ pool.pending.headroom /\ \A w \in Listed : pods[w].slots = pool.applied

\* What the next plan is when no Slot is occupied, and whether some Worker has
\* one of its IDs under another profile.
Planned   == PlanTopology(pool.applied, pool.spec.counts, Profiles, {}, OrderedProfiles(pool.spec.order, pool.applied)).slots
MovesAnID ==
  \E w \in Listed : \E c \in pods[w].slots, d \in Planned : c.id = d.id /\ c.profile # d.profile

\* Once the specification stops changing and Sandboxes leave the Slots that are
\* to go, the Workers come to have the replicas and the Slots it asks for,
\* whatever calls failed before.  There are two ways in which they do not, and
\* no third: the Pods have no room for the Slots and the status goes on saying
\* so (syncTemplate), or the planner has given a Slot's ID to another profile
\* and a Worker that still has it refuses every push (ApplySlots).
TopologyConverges == <>[]Unused => <>[]Converged \/ <>[]LacksHeadroom \/ <>[]MovesAnID

\* TopologyConverges without the exceptions.  Workers take a plan whose "existing
\* IDs ... keep the same Profile and Resources" (ApplySlots); not every plan of
\* PlanTopology is of that kind.
TopologyMatches == <>[]Unused => <>[]Converged

\* Every Worker the specification asks for comes to be offered by the
\* Scheduler, with exactly the Slots that are Free on it.  (syncStatus)
CapacityIsOffered == <>[](\A w \in Workers : w < pool.spec.replicas => Exists(w) /\ sched[w] = FreeSlots(w))
=============================================================================
