# SandboxFleet in TLA+

SandboxFleet runs short-lived sandboxes on Kubernetes. A *SandboxPool* keeps a set of
Worker Pods, each divided into *Slots* of given profiles; a *Sandbox* is assigned one Slot,
started there (from an image, or from a *SandboxSnapshot* of another Sandbox), and cleaned
up when it is deleted. This directory specifies that machinery in TLA+, checks it with TLC
on small instances, and proves the core of it with TLAPS for instances of any size.

Paths below are relative to the repository. `PROJECT.json` maps every definition to the
lines it models.

## The system

| Component | State it keeps | Operations | What makes it correct |
|---|---|---|---|
| **Worker Slot manager** `internal/worker/manager.go`, `snapshot.go` | the Slot map (`m.slots`, under `m.mu`); per Slot: state, owner, runtime reference, restored mark, restore directory (under the Slot's lock) | ReserveSlot, StartSandbox, StopSandbox, ReleaseSlot, GetSandbox, ExecSandbox, file operations, CreateSnapshot, RestoreFromSnapshot, ApplySlots, ListSlots, Recover | a call acts only for the Slot's owner; nothing of one owner reaches the next; a Free Slot has no runtime left; busy Slots stay; locks never block for good |
| **CRI adapter** `internal/runtime/cri` | runtime objects, labelled with Slot and Sandbox; they outlive the Worker process | Create, Start, Stop, Delete, Status, List | what it reports as deleted is gone; what it leaves behind can be found again |
| **Kata backend** `internal/runtime/kata`, `internal/snapshotter/kata*.go` | instance records, VM directories, bundles, shares, Cloud Hypervisor and virtiofsd processes, taps | ColdBoot, LoadSnapshot, SaveSnapshot, DeleteRestored | a call leaves a VM or nothing; a snapshot holds all of the memory; one Sandbox's clean-up never hits another |
| **gVisor snapshotter** `internal/snapshotter/gvisor*.go` | runsc state roots, containers files, bundle mounts, network namespaces named by Slot | LoadSnapshot, SaveSnapshot, DeleteRestored | a restored Sandbox is whole; nothing of a failed or deleted one is left |
| **Worker process** `cmd/worker` | - | start with an empty topology, recovery loop, serve | after a restart the Slots match the runtime |
| **Worker HTTP API and client** `internal/worker/httpapi` | - | one route per operation; 404, 409, 422, 500 | a retry of what was already done succeeds |
| **Scheduler** `internal/scheduler` | the last report of each Worker, overlaid with assignments; the assignment of each Sandbox | UpdateWorker, RemoveWorker, Assign, Restore, Release | a Slot is given to one Sandbox; used Workers are packed first |
| **Sandbox reconciler** `internal/controller/sandbox_controller.go`, `sandbox_restore.go` | none between calls: Sandbox objects at the API server, a cached copy of them, and the Scheduler | add finalizer, assign, start, stop and release, write status, remove finalizer | no Slot in two statuses; every Sandbox gets Running or reports why not; a deleted one leaves its Slot first, and goes |
| **Pool reconciler** `internal/controller/pool_controller.go` | the Pool's status: the applied topology, counts, Ready | poll Workers, plan and push topologies, StatefulSets, scale-down | topologies reach the Workers; occupied Slots survive a plan; Ready follows the Workers |
| **Topology planner** `internal/slot/config.go` | pure | PlanTopology, CountNewSlots, KeepExistingSlots, resource sums | IDs of kept Slots stay, occupied Slots stay, IDs are unique |
| **Snapshot reconciler** `internal/controller/snapshot_controller.go` and **store** `internal/snapshotstore` | SandboxSnapshot objects; objects in S3 or on disk, manifest last | create, fail, delete; Upload, Download, Delete | a Ready snapshot can be restored; a deleted or failed one leaves nothing; none is deleted under a child |
| **Go SDK** `clients/go/sandboxfleet` | - | Create, Fork, Exec, files | Fork ends, whatever becomes of parent and snapshot |
| Workload builder, guest agent overlay, Cloud Hypervisor client, API types | - | construction of objects, device I/O | new Pods have the resources the topology needs |

How they interact. Users create and delete objects at the API server. Reconcilers see them
through informer caches, which lag, even behind a reconciler's own writes; writes are refused
unless they are based on the latest resource version. The Pool reconciler polls the Workers
over HTTP, feeds the answers to the Scheduler, which the Sandbox reconciler shares, and pushes
topologies to Workers. The Sandbox reconciler calls Workers over HTTP; a call may be lost, or
take effect and lose its answer. In a Worker every HTTP call is a goroutine; handlers share
the Slot map and the Slots, and call the container runtime while they hold a Slot's lock.

What is hard here: handlers that look a Slot up and lock it later; runtime calls that fail
and whose clean-up fails as well; Workers that restart while runtime objects live on;
controllers that restart with an empty Scheduler; decisions from stale copies; retries of
calls that took effect; an object store without transactions; boots of a dozen steps, each
with its own clean-up; host state shared between the forks of one snapshot. `PROJECT.json` lists these hazards at their lines.

## The modules

| Module | Models | Composes |
|---|---|---|
| `SlotManager` | the Worker agent: Slot map, Slots, handlers, locks, topology pushes, runtime objects, restarts and recovery | implements `WorkerContract` (`INSTANCE ... WITH`) |
| `WorkerCalls` | what each Slot call does to a Slot, as a caller sees it | - |
| `WorkerContract` | the only ways in which a Worker's Slots change (abstract) | extends `WorkerCalls` |
| `Scheduler` | the Scheduler under its callers' contract | - |
| `SandboxController` | Sandbox reconciler, informer cache, status writes, Worker calls, Pool poll, Worker Pods, controller restarts | extends `Scheduler`; Workers by `WorkerCalls` |
| `TopologyPlan` | PlanTopology's loop as operators, headroom arithmetic | - |
| `TopologyPlanner` | the same loop as a state machine over arbitrary inputs | extends `TopologyPlan` |
| `PoolController` | Pool reconciler, StatefulSet, Worker Pods, topology push, the Scheduler's list | extends `TopologyPlan`; Workers by what ApplySlots accepts |
| `Snapshots` | Snapshot reconciler, Worker upload and download, object store, restoring children, SDK Fork | - |
| `RuntimeContract` | what the Slot manager relies on a runtime for (abstract) | - |
| `KataRuntime` | the kata backend, step by step, with host state | implements `RuntimeContract` (`INSTANCE ... WITH`) |
| `GVisorRuntime` | the gVisor snapshotter, step by step, with host state | - |
| `MC...` | constants, deployments and symmetry for TLC | |
| `..._proofs` | theorems about `SlotManager`, `SandboxController` (the `Scheduler` first), `TopologyPlan`, `TopologyPlanner`, `PoolController`, `Snapshots`, `KataRuntime`, `GVisorRuntime` | `TopologyPlanner_proofs` and `PoolController_proofs` extend `TopologyPlan_proofs` |

Operators called `Mut...` are wrong variants of the definition that follows them. No action
uses them: putting one in place of the definition shows that a property can fail.

### SlotManager

A Slot object is named by `<<Slot ID, topology version>>`, because removing a Slot and
adding it again makes another `managedSlot`, while a handler may still have a pointer to the
old one. `slots` is `m.slots`, `slot` the objects. `call[t]` is what a handler goroutine does:
*found* (it has its pointer but not the Slot's lock), *booting* or *loading* (it holds the
lock while the runtime creates or restores). Locks need no variables: each is held exactly in
such a section. `ApplySlots` is three actions (`ApplyBegin`, one `ApplyCheck` per Slot,
`ApplyCommit`), since it locks the Slots one at a time. StartSandbox is split at the
runtime's Create; the rest of each handler is one action, as it runs under the Slot's lock and
nothing outside can see its intermediate states.

The runtime answers with a set of outcomes (`RuntimeDelete`, `DeleteRestored`,
`RuntimeStop`, `AfterFailedBoot`), one set for CRI with gVisor and one for kata
(`SelfManaged`), errors that the code ignores included: CRI's Delete reports success when the
containers are gone and the pod sandbox is not ("so slot release is not blocked by a leaked netns",
`cri/runtime.go:191-194`), which leaves a runtime object in state *bare*. A deployment chooses between the two
and gives the Slots at process start: none in `cmd/worker`, some in the manager's tests.
Fairness: strong for a handler's body and for `ApplyCheck` (Go mutexes do not starve a waiter;
runtime calls have timeouts), weak for `ApplyCommit` and for the recovery loop. Nothing makes
a client call, a sandbox exit or a Worker die.

### WorkerCalls and WorkerContract

`WorkerCalls` has a Slot as callers know it, state, owner and profile, and gives for each call its
answer and the Slot afterwards (`SlotAnswer`), and the Slots a failing runtime can leave
(`RuntimeErrors`). `SandboxController` calls Workers through these operators. `WorkerContract` says
that a Worker's Slots change by such an effect of a call, by the save of a kata Sandbox, by a topology
push, and by the Worker going and coming up empty, and in no other way. `KeepsWorkerContract` checks
that `SlotManager` implements it: `Table` is what ListSlots shows. A Slot in Starting counts as
Reserved, since ListSlots waits for the lock that the handler holds; a Worker that has not recovered
serves nothing. A handler that calls the runtime twice takes two steps of the contract, and one whose
Slot has left the map takes none. The contract lets a push remove a busy Slot, because it can (known
disagreement 2); `SandboxController` keeps the topology fixed.

### Scheduler

Every method holds `s.lock`, so each is one action. Worker names and Slot IDs are numbers,
ordered as the code sorts them. Slot states other than Free are one value, as the Scheduler
asks nothing else. If two Sandboxes hold one Slot, Go's map order decides whose name the
overlay writes: `Picks`. `SchedulerSpec` lets Workers report anything at any time, and lets
callers restore only an assignment that is in force. `SandboxController` is checked to
implement it (`SchedulerSpec` is a property of the run `sandboxes`), as long as the controller
does not restart.

### SandboxController

`api` has the Sandbox objects, `cache` the informer's copies, `fresh` the Sandboxes whose copy
has the latest resource version. `rec` is the Reconcile call in progress (one worker
goroutine, controller-runtime's default). Its steps end where another actor can come between:
at Worker calls, and at status writes, because `syncStatus` reads the object again. A Worker
call is answered, fails without effect, or takes effect and fails; or its caller gives up while it
still waits, in `late`, for the Slot's lock, which knows nothing of the caller's context, and takes
effect at any later time or never (`LateCall`). `ParentSaved` is what the save of a kata Sandbox does
to its Slot: it is Failed afterwards. `poll` is a `ListSlots`
answer that has not been applied yet. Conditions are left out: a write that changes only
conditions does not appear. The work queue is left out: a Sandbox may come up at any time. The
informer catches up with the latest version in one step; seeing an intermediate version is
`CacheSync` taken earlier. The topology is fixed.

Fairness: weak for the informer, Pod starts, the poll and the reconciler's own steps; strong
for starting Reconcile on each Sandbox: one work queue serves them all, a Reconcile that returns an
error or a requeue time comes up again, and one that returns neither, as after a 404 or 409 of the
Worker, comes up again with the informer's periodic resync or the next event. Strong also for the topology push (it and the poll alternate in one goroutine). Failures of
Worker calls are transient: eventually calls are answered. No fairness for late calls.

### TopologyPlan and TopologyPlanner

A plan under construction is a record of the Slots so far, the IDs in use, the highest ID and
the reasons why it is blocked; `KeepUnknown`, `DropSurplus`, `KeepExisting` and `AddSlot` are the
branches of the loop's body. The two loops are recursive functions: `Additions` of the number of
Slots added, `Plans` of the number of profiles visited; `PlanTopology` is the last of the plans and
what `PoolController` uses. `TopologyPlanner` takes the same branches one step at a time; the lemma
`LoopIsOperator` ties the two together. `PlanIsStable` plans again from a finished plan, as the next
reconcile does, and finds nothing to change. `Sorted`, the order of the profiles that have Slots but
no count, is the increasing list of a set. Inputs are every list with distinct IDs (what
every Worker has accepted), every count, order, set of defined profiles and set of occupied IDs.
Profile names are numbers in the order of the names, resources one number per profile.

### PoolController

A reconcile is a chain of Worker calls (`ReadOccupied`, `Push`, `CheckDrained`, `PollWorker`, one
Worker each) and API writes. Between any two of them the user edits the specification, Kubernetes
creates, readies or removes Pods, and Sandboxes take and leave Slots. A call can fail without
effect, or take effect and lose its answer. `obj` is the reconciler's copy: `setAppliedSlots`
changes the copy, and only a status write that is based on the latest version makes it last. The
write is left out when status and copy agree in everything but the applied Slots, because the
code copies the old status after setting them. `Disrupt` loses a Pod or its readiness. The user edits
replicas and counts (`Edits` says which changes to which), not the resources of a profile: `Accepts`
compares profiles only, since ApplySlots' second comparison, of Resources, then says the same.

Fairness: the reconciler is requeued after every pass and every error, so it takes infinitely many
steps, written `[]<><<ReconcileStep>>_vars` (it always has a step that changes something; plain WF
means the same and is slower to check). WF for the informer and for Kubernetes' work on Pods.
Nobody has to leave a Slot: `TopologyConverges` assumes in its premise that they do. Its conclusion
has two exceptions, both of which TLC reaches. `LacksHeadroom`: the Slots do not fit the Pods there
are; the status says "workers lack resource headroom for more slots; increase replicas"
(`pool_controller.go:138-150`), and that remains so with more replicas as long as one old Pod lives,
because all of them must have room. `MovesAnID`: the plan gave an ID to another profile (disagreement
7). `TopologyMatches` is the property without them.

### Snapshots

The store maps each object (the files and, under `Null`, the manifest) to the save it comes from.
`call` is the Worker's CreateSnapshot, a process of its own: the reconciler can lose it
(`CallLost`) and wipe the path while it is still uploading. `EraseObject` and `EraseUpload` are
`Delete` at the Worker, one object at a time, with errors ignored as in the code; `EraseFails` is such
a call that breaks off. Between reading the parent (`Begin`) and calling its Worker (`StartCall`) the
parent may go; the storage configuration may be wrong (Failed), or the Worker not be found (condition
WorkerUnavailable, tried again). `WorkerLost` takes the parent's Worker away with the upload it is
doing. `ready` is the Ready condition, which a refused deletion withdraws while the phase stays Ready:
Fork asks for both. `Others` are children that another caller creates. A child reads the
manifest, then the files. `StaleCache = FALSE` lets a reconcile start only from a current copy; the
copy may become stale while it runs. With `StaleCache = TRUE` a reconcile that starts from the copy
before its own Ready write saves again (see the disagreements below).

`ForkEnds` does not use Fork's own context, which may have no deadline. It assumes that the parent does
not stay down, and has one exception: a deleted snapshot that a child of another caller keeps in use is
neither Ready nor Failed nor gone. `ErasedOnRemoval` speaks of snapshots that were Ready. One that is
deleted while it is being saved has no path in its status, and what was uploaded stays in the store; so
does everything when Pool, credentials and Workers are gone.

Fairness: WF for reconciler, Worker, downloads, both informers and the SDK's polling.

### KataRuntime, GVisorRuntime and RuntimeContract

`todo[n]` is what is left of the call in progress for Sandbox *n*, in the order of the code; each
step takes effect, fails before or fails after, and a failure goes to the deferred clean-up.
Variables are what a call leaves on the host. In `KataRuntime` a lineage is keyed by its base id,
the Sandbox that was cold-booted: `CleanupSandboxState` kills by that id and removes its share, and
a VM without its virtiofsd is stopped. A killed process does nothing any more, but only a failed cold
boot waits for its VMM; one that `teardownInstance` or a failed restore has killed stays in `closing`
and holds its tap until `VMMExits`. A boot that meets it gets EBUSY, fails and is undone.
`BootsDoNotCollide` says that nothing else is in the way, `NothingOutlives` and `KeepsContract` that the
undoing is complete. Every step of a save may fail. `SaveIsWholeOrFails` is about the saves of VMs whose
memory can still be put together; after a merge that failed it no longer can (disagreement 10).

In `GVisorRuntime` runsc finds containers
through the state root, namespaces belong to a Slot's name, and clean-up runs under the caller's
context: once the caller hangs up every command fails. Without a hang-up too, each command of a clean-up
may fail by itself (`MayLeave`), and a failed `createRestoreNetwork` leaves the old namespace, a
half-made one, or none. `NoFilesOutlive` is about state roots, mounts and `.net.json`: the logs in
`<name>-failed` and the `<name>.net.diag.txt` are kept for people and left out. Both take the Slot's side (reserve, stop,
release) as the Slot manager calls it; `SlotManager` has its states and locks.

`RuntimeContract` knows a phase per Sandbox: absent, booting, present, saving, dead. A call returns
and leaves a runtime or nothing; there is no phase for leftovers. `KeepsContract` checks that
`KataRuntime` implements it, liveness included. The staged share is not counted as a leftover of the
Sandbox: it belongs to the lineage, and a failed restore leaves it for the next one.
The gVisor backend does not implement the contract (known disagreement 9).

Fairness: WF for the steps of a call, every wait of which has a timeout or ends with the context.

## Runs

| Run | Expect | Shows |
|---|---|---|
| `slots` | pass | two handlers, topology pushes, runtime deaths and restarts on one Slot, with clean-up failures and both adapters: `FreeSlotIsBlank`, `RuntimeBelongsToOwner`, `RestoreDirKept`, `OwnerLeavesByRelease`, `PushTakesEffect` |
| `slots_live` | pass | `CallsReturn`: locks never deadlock or starve |
| `slots_clean` | pass | two Slots, clean-up works, Workers start empty: `FreeSlotIsClean`, `OneRestoreAtATime`, `KeepsWorkerContract` |
| `scheduler` | pass | two Workers, two Slots each, two profiles: `NoDoubleAssignment`, `PacksUsedWorkersFirst` |
| `sandboxes` | pass | two Sandboxes compete for one Slot, stale caches, stale and failing polls, failing calls: `AssignmentsExclusive`, `LiveOwnerIsAssigned`, `SchedulerSpec` |
| `sandboxes_live` | pass | one Sandbox and nobody else after its Slot, one disruption (its Pod is replaced or the controller restarts), one call that may outlive its caller: `EventuallyRunning`, `DeletionCompletes` |
| `planner` | pass | every input with two profiles, IDs and counts up to 2: `PlanUniqueIds`, `PlanKeepsBusy`, `PlanMeetsCounts`, `DropsHighestFirst`, `PlanIsStable` |
| `pool` | pass | a Pool that grows or shrinks once between 1 x 1 and 2 x 2 Slots, grows beyond its Pods' resources or moves a Slot to another profile, one fault, one Sandbox: `SettledStatusIsTrue`, `TopologyConverges`, `CapacityIsOffered` |
| `snapshots` | pass | Fork with two files, its child and another caller's, two faults (lost calls, lost Workers), deletion of anything at any time: `ReadyIsComplete`, `ChildFromOneSave`, `ForkEnds`, `DeletionCompletes`, `ErasedOnRemoval` |
| `kata` | pass | a parent, its fork, the fork's fork and an unrelated Sandbox on two Slots, three faults: `NothingOutlives`, `BootsDoNotCollide`, `SaveIsWholeOrFails`, `OnlyOwnCallsEndAVM`, `KeepsContract` |
| `gvisor` | pass | three Sandboxes on two Slots, three faults or hang-ups: `RestoredIsWhole`, `NoFilesOutlive`, `NetworkLeavesByOwnCall`, `RestoresEnd` |
| `kata_lineage` | violation | two forks of one snapshot side by side, no fault: `OnlyOwnCallsEndAVM` |

Type invariants are properties of `slots` and `scheduler`, where theorems prove them. The other modules' `TypeOK` documents their variables; adding it to a configuration
checks it.

Bounds. Two handlers are enough for every pairwise race on a Slot; a third would have to wait
for the same lock. Two Sandboxes are an owner and a rival, one started from an image and one
from a snapshot. Two runtime identifiers allow a live runtime and one that was left behind.
`MaxApply` = 2 lets one process remove a Slot and add it again. Restarts of the Worker are not
bounded. In `scheduler`, 2 x 2 Slots with two profiles are the least at which bin packing has
a used and an unused Worker, and Slots that do not fit, to choose between. In
`SandboxController` one Slot makes every assignment contested; `MaxDisruptions` bounds Pods
going away and controller restarts together; in `sandboxes` polls that fail (`FlakyPolls`)
have the effect of a Pod coming and going for the Scheduler. `Conns` bounds the calls that outlive
their callers: one in `sandboxes_live`, where it can meet the Sandbox's next life cycle step, none in
`sandboxes`, whose invariants the theorems prove for any number. With a second disruption
`EventuallyRunning` fails for the reason disagreement 5 shows: an erased assignment.
In `pool` two Workers let a push reach one and not the other, and one occupied Slot can be the one to
go. `Edits` has both directions between the small and the large specification, and one change each for
the two exceptions: to Slots that do not fit, and of a Slot to the other profile. In
`snapshots` two files are the least that can be of two saves, and three saves the most that two
faults can cause. In `kata` the chain of three reaches a save of a restored VM and a restore of
that; parent and fork share a Slot, so Slot reuse happens. In `gvisor` two Sandboxes share a Slot
and one is forked from the third.

## Known disagreements

The run `kata_lineage` is kept in the project. The others are reproduced by running TLC with the
configuration named; each stops at a counterexample.

| | Configuration (module) | Property | What happens | What the repository says |
|---|---|---|---|---|
| 1 | `SlotManagerLeak` (`MCSlotManager`) | `FreeSlotIsClean` | StartSandbox drops its reference when deleting a runtime that did not start fails, and the adapters ignore errors of their own clean-up; ReleaseSlot then has nothing to delete. CRI's Delete also reports success over a pod sandbox it could not remove | "A Slot cannot be reused until runtime cleanup succeeds." (`docs/component-design.md:20`) |
| 2 | `SlotManagerTopology` (`MCSlotManager`) | `BusySlotStays` | ApplySlots unlocks a Slot after looking at it; a handler with a pointer reserves it before the map is replaced | "Busy Slots cannot be removed." (`manager.go:55`) |
| 3 | `SlotManagerRestart` (`MCSlotManager`) | `RecoveryCompletes` | a Worker starts with an empty topology, and Recover fails on every runtime object of a Slot it does not have | "Worker restart: rebuild Slots from CRI labels." (`component-design.md:534`) |
| 4 | `SandboxControllerRestart` (`MCSandboxController`) | `AssignmentsExclusive` | assignments are restored one Sandbox at a time, while others are assigned already | "restore assignments from Sandbox status, then verify Worker Slot state before acting" (`component-design.md:532`) |
| 5 | `SandboxControllerLeak` (`MCSandboxController`) | `OwnerExists` | `syncStatus` puts a status computed from an old copy on the latest object and erases a newer assignment without a conflict; the Sandbox can then be removed while its Slot stays reserved | "Remove it only after runtime cleanup and Slot release succeed." (`component-design.md:144`) |
| 6 | `SandboxControllerDelete` (`MCSandboxController`) | `DeletionCompletes` | Scheduler.Release comes before the finalizer update, which may conflict; another Sandbox takes the Slot, and the retry gets 409 from StopSandbox for ever | "Resolve `409` by reconciling assignment and Slot state." (`component-design.md:431`) |
| 7 | `PoolControllerSwap` (`MCPoolController`) | `TopologyMatches` | one plan shrinks a profile and grows another: the freed ID changes its profile, and every Worker refuses every push from then on | "Existing IDs must keep the same Profile and Resources" (`manager.go:54`), which the planner does not observe |
| 8 | `SnapshotsStale` (`MCSnapshots`) | `ReadyIsComplete` | a reconcile from the copy before the Ready write saves again, over the objects of a Ready snapshot | "snapshot uploaded to object storage" (the message of Ready=True) |
| 9 | `GVisorRuntimeLeak` (`MCGVisorRuntime`) | `NothingOutlives` | a failed `runsc delete` still removes the state root, so the retry finds nothing and the Slot becomes Free over a living container | as 1 |
| 10 | `KataRuntimeRetry` (`MCKataRuntime`) | `SavedImageIsWhole` | a save that fails after merging has used up the restore source; the next save of that VM writes only the pages it dirtied | "so the snapshot is self-contained" (`kata_restore_linux.go:70-74`) |
| 11 | `KataRuntimeLineage` (run `kata_lineage`) | `OnlyOwnCallsEndAVM` | clean-up kills by the base id, which all forks of a snapshot share: deleting one fork kills the virtiofsd of its sibling and removes their share | "Matched strictly by the sandbox id ... so nothing unrelated can match" (`cleanup_linux.go:77-79`) |

## What is proved

Every safety property of every passing run but `PlanIsStable` is a theorem. Theorems hold
for any sets of Slots, Sandboxes, handlers, Workers, files and runtime objects and any bounds,
under the named assumptions on constants (`ConstantsOK`, `SchedulerConstants`, `PlannerConstants`,
...): Null is none of the other values, the sets have the shape the code gives them, Slot IDs,
profiles and Worker names are ordered (natural numbers), and the Slots of a Worker are finitely many.

Some theorems have a further hypothesis. Each but `BootsEmpty` is a case a known disagreement is about
(the table above): without it TLC finds the property violated, and the row named there tells what
happens.

| Hypothesis | Theorems | Without it |
|---|---|---|
| `~CleanupMayFail`, `QuietRemovals` | `FreeSlotsAreClean` | 1, 2 |
| `BootsEmpty`: a Worker starts without Slots, as `cmd/worker` does | `FreeSlotsAreClean`, `WorkersKeepContract` | recovered Slots, which only the manager's tests reach |
| `OneProcess`: the controller manager is not restarted | `LiveOwnersAreAssigned`, `StatusesAreExclusive`, `CallersKeepContract` | 4 |
| `StaleCache = FALSE`: a reconcile starts from a current copy | `ReadySnapshotsAreComplete`, `ChildrenStartFromOneSave` | 8 |
| `LinearLineage`: no two forks of one snapshot | `BootsAreKeptApart`, `VMsEndByOwnCalls`, `KeepsContractSafety` | 11 |

The runs satisfy all of them: `slots_clean`, `sandboxes`, `snapshots`, `kata` and `pool` set the
constants so, or allow no such step.

`SlotManager_proofs`
- `TypeCorrect`: `Spec => []TypeOK`. Inductive: `TypeInv` adds that a call in progress has an
  operation, an object and a Sandbox, and that a push in progress has a version to use.
- `FreeSlotsAreBlank`, `RuntimesBelongToOwners`: by `OwnerInv`, which strengthens the two
  properties, neither inductive alone: a handler in its runtime section owns its Slot, which is
  Starting, and no two handlers are in the section of one Slot (`SectionOwned`, the lock); every
  runtime object carries a Slot and a Sandbox (`RuntimesLabelled`); CRI references resolve
  (`RefsResolve`); before Recover nothing is owned (`RecoveringIsBlank`); objects of topology
  versions to come are unowned and unreachable (`FutureIsBlank`).
- `OwnersLeaveByRelease`: the action property, from the same invariant.
- `RestoresAreSerialised`: by `CallInv`. restoreMu is taken before the Slot's lock, so exclusion has
  to hold from the look-up on, and an operation has to be tied to its section and its Sandbox's kind.
- `PushesTakeEffect`: by `PushInv`. What a push has checked agrees with it, and stays so because only
  pushes, which `m.mu` serialises, make Slots.
- `RestoreDirsAreKept`: by `DirInv`. A Slot that is Reserved or Starting refers to no restored CRI
  sandbox, so that Stop and a restart, which drop the directory, never leave one running.
- `FreeSlotsAreClean`: by `CleanInv`. A Free Slot refers to nothing; the invariant says that every
  runtime object is one its Slot refers to (`RuntimesReferred`), that handlers' pointers lead into
  the map (`PointersMapped`, which needs `QuietRemovals`), and that a reference comes only after
  Create, with the restored mark where it belongs (`RefsEarned`), so that Release calls the right
  deletion.
- `WorkersKeepContract`: every step of `SlotManager` is a step of `WorkerContract` or leaves the table
  alone, clean-up failures included. `BodyMoves` lists what a handler makes of its Slot (`Moves`); that a
  handler between two runtime calls acts for the owner is `SectionOwned`, that a push which committed
  agrees with the Slots that stay is `PushInv`. `MovesAreEffects` finds each move among the effects that
  `SandboxController` reckons with. With `CallersKeepContract` the chain is closed: Worker, Worker
  contract, reconcilers, Scheduler contract, Scheduler.

`SandboxController_proofs`
- `SchedulerIsTyped`, `SlotsAreNotShared`: by `SchedulerInv`, the type invariant, the property and
  `HeldNotFree`: a Slot some Sandbox holds is nowhere shown as Free. UpdateWorker's overlay is what
  keeps it.
- `UsedWorkersArePackedFirst`: from the type invariant and `BestIsPacked`, a lemma on the bin
  packing order.
- `CallersKeepContract`: `SandboxController` implements `SchedulerSpec`. The contract asks that
  Restore is called only for an assignment that is in force. `LiveAgrees` says so: whatever a live
  copy of a Sandbox names, at the API server, in the cache or in the Reconcile in progress
  (`ReconcileAgrees`), is what the Scheduler has. The Scheduler forgets an assignment only in
  `Finish`, after a deleted copy was seen, and copies never return from deleted to live (`CopiesLag`).
- `StatusesAreExclusive`: from `LiveAgrees` and the Scheduler's own invariant.
- `LiveOwnersAreAssigned`: part of the invariant, with `FreeIsBlank` for the Workers and `LateAgrees`
  for the calls on the way: a ReserveSlot that outlived its caller is for the Slot its Sandbox has, if
  that still lives, because a live Sandbox is never given another. Only ReserveSlot makes an owner
  (`EffectsResult`), so a late call of any kind leaves owners and assignments together.

`TopologyPlan_proofs`
- `PlanTopologyPromise`: what the operator `PlanTopology` returns for every list of applied Slots with
  distinct IDs, every map of counts, every order of profiles that repeats none, and every set of
  occupied IDs: the plan has no ID twice, keeps every occupied Slot, drops the highest IDs first, and,
  unless there is a reason, has the counts asked for. By `Good`, which says of a plan under construction what
  a prefix of the profiles has made of it. An ID is given out only if it is not in use, so the IDs in
  use must cover the plan and the Slots of the profiles still to be visited and stay below the highest
  ID, which with `NextFreeIsFree` gives an unused ID. Dropping a Slot takes its ID out of use, which is
  safe because no other Slot, planned or to come, has it, and that needs that no profile is visited
  twice. Each branch of the loop has a lemma that keeps `Good` (`UnknownIsGood`, `DropIsGood`,
  `KeepIsGood`, `AddIsGood`).
- There is no induction rule to cite, so the recursive functions are reached through the least
  counterexample (`LeastExists`): a function that is defined up to each number below *n* is defined up
  to *n* (`AdditionsDef`, `PlansDef`), and the first profile after which the plan were not good would
  follow one after which it is (`PassesAreGood`). `SortedIsListing` does the same for `Sorted`.
- `LowestCounts` says that dropping leaves as many Slots as asked for: the number of Slots below a Slot
  numbers the Slots, and an injection between sets of one size is a bijection.

`TopologyPlanner_proofs`
- `PlanTypeCorrect`, `PlansHaveUniqueIds`, `PlansKeepBusySlots`, `PlansDropHighestFirst`,
  `PlansMeetCounts`: by `LoopInv`, which places the loop in the recursion (so that the loop ends where
  the operator does, `LoopIsOperator`). Between two profiles the plan is `Plans` of the profiles visited (`BetweenPasses`), within one it is
  `Additions` of the Slots added to where the pass began (`WithinPass`), and what is left to visit is
  the rest of the ordered profiles (`TodoIsRest`). The lemmas on `Good` then speak of every state.

`PoolController_proofs`
- `SettledStatusesAreTrue`: by `StatusInv`. The plan in hand has the counts of the specification in the
  reconciler's copy, unless there is a reason (`PlanCounted`); the copy takes it over only when no
  push failed (`RecordCounted`); the status is written with the copy's specification, not the
  latest. What the planner contributes is the lemma `PlannerPromise`, from `PlanTopologyPromise`; its
  conditions are met because every list in the copy is one that a plan produced.

`Snapshots_proofs`
- `ReadySnapshotsAreComplete`, `ChildrenStartFromOneSave`: by `SnapshotsInv`. The store has
  no transactions, so the argument is who may write when. While the reconciler waits for a call, only
  that call writes (`CallShape`, `Uploaded`); Ready is written only after it (`ReadyStored`); once
  Ready is visible or a child loads, no call runs and none can be started, so each object is of the
  latest save or erased (`ReadySettled`, `LoadingLatest`).
- `RemovalErases`: by `EraseInv`, with no hypothesis: as long as no call failed, none is left running
  behind a reconcile (`NoneLeft`), so what it erases stays erased (`Erased`), and the finalizer goes
  only if the object is still the one whose objects were erased (`WorksOn`).

`KataRuntime_proofs`
- `VMsDoNotOutlive`: by `KataInv`: what each step of a boot finds and what the clean-up knows of it
  (`Booting`, the record), and that no other Sandbox's clean-up can take away what a call relies on.
- `BootsAreKeptApart`, `VMsEndByOwnCalls`: by `LineageInv`: of the Sandboxes with one base id at most
  one has no successor (`OneTip`), so at most one of them is live. Of the tap `BootsAreKeptApart` says
  that only a VMM which was killed and has not exited can still have it; the code does not wait for that.
- `KeepsContractSafety`: every step of `KataRuntime` is a step of `RuntimeContract` or leaves its
  phases alone (`Contract!Safety`; the run `kata` checks the fairness part too).

`GVisorRuntime_proofs`
- `RestoredSandboxesAreWhole`, `FilesDoNotOutlive`, `NamespacesAreKept`: by `GVisorInv`, with no
  hypothesis: what each step of LoadSnapshot finds (`Progress`), and that a Slot, and so the
  namespace named after it, has one user at a time (`Holders`).

Only model-checked: liveness (`CallsReturn`, `EventuallyRunning`, `TopologyConverges`,
`CapacityIsOffered`, `ForkEnds`, both `DeletionCompletes`, `RestoresEnd`, the liveness part of
`KeepsContract`, `SaveIsWholeOrFails`), which TLAPS does not do; and `PlanIsStable`, which compares
two runs of the recursion.

## What is not modelled

Contents: images, commands, files, checkpoint formats, guest memory other than whether an image is
whole, addresses, metrics, logs. The workload builder beyond replicas and resources, the Service,
and the API types' validation, which are declarative; the generated deep copies. The unused
scheduling strategies. A Sandbox whose spec is invalid or whose profile the Pool does not define:
it only gets a Failed status. More than one
Pool, several templates of one Pool, several snapshots of one parent, a later snapshot under the name
of a deleted one. Zombie processes: who reaps a killed VMM. A change of a profile's resources. The logs
and diagnostics the snapshotters keep. The deadline of a Fork's context.

## Plan

1. Type correctness of `PoolController`, which needs that the sum of resources is a number.
2. A weaker hypothesis: `FreeSlotsAreClean` under a condition on the Slots alone.
