----------------------------- MODULE KataRuntime -----------------------------
(***************************************************************************)
(* Micro-VMs of one Worker (internal/snapshotter/kata*.go and the ported    *)
(* internal/runtime/kata/{ch,overlay}): ColdBoot, LoadSnapshot,             *)
(* SaveSnapshot and DeleteRestored as the Slot manager calls them, with the *)
(* host state each leaves behind: Cloud Hypervisor and virtiofsd processes, *)
(* taps, VM directories, bundles, staged shares and instance records.       *)
(*                                                                         *)
(* Calls for different Sandboxes interleave step by step; a step may fail   *)
(* (MaxFaults bounds that), which runs the call's deferred clean-up.  A     *)
(* cancelled context is one more reason to fail: the clean-up of this       *)
(* backend never uses it.                                                   *)
(*                                                                         *)
(* Everything of a lineage is keyed by its base id, the UID of the Sandbox  *)
(* that was cold-booted: a restored VM serves the share of that id.         *)
(* A killed process does nothing any more, but a VMM nobody waits for may   *)
(* hold on to its tap until it has exited (closing).  The upload of a       *)
(* snapshot belongs to Snapshots, the states of a Slot to SlotManager.      *)
(***************************************************************************)
EXTENDS Integers, Sequences, FiniteSets

CONSTANTS
  Null,
  Sandboxes,
  From,       \* Sandbox |-> the Sandbox it is forked from, or Null
  SlotOf,     \* Sandbox |-> the Slot it is scheduled into
  MaxFaults   \* bound on failing steps and dying VMs

\* whole: the image holds all of the guest's memory, not only dirtied pages.
Snapshot == [base: Sandboxes, whole: BOOLEAN]

ASSUME KataConstants ==
  /\ IsFiniteSet(Sandboxes) /\ Null \notin Sandboxes /\ Null \notin Snapshot
  /\ From \in [Sandboxes -> Sandboxes \cup {Null}]
  /\ DOMAIN SlotOf = Sandboxes
  /\ MaxFaults \in Nat

VARIABLES
  slot,    \* Sandbox |-> whether it holds its Slot
  ref,     \* Sandboxes the Slot has a runtimeRef for
  todo,    \* Sandbox |-> steps left of the call in progress
  record,  \* Sandbox |-> base id in its instance record, or Null
  vmdir,   \* Sandboxes with a VM directory
  image,   \* Sandboxes whose VM directory has the restore-source memory image
  bundle,  \* Sandboxes with a composed rootfs
  share,   \* base ids with a staged share
  vfsd,    \* Sandboxes whose virtiofsd runs
  vmm,     \* Sandbox |-> its Cloud Hypervisor process
  tap,     \* Sandboxes that hold the tap of their Slot
  closing, \* Sandboxes whose VMM was killed with the tap and has not exited
  delta,   \* Sandbox |-> the memory image a save in progress has written
  saved,   \* Sandbox |-> the snapshot taken of it, or Null
  faults

slotVars == <<slot, ref>>
dirVars  == <<vmdir, image, bundle, share>>
procVars == <<vfsd, vmm, tap, closing>>
saveVars == <<delta, saved>>
vars     == <<slotVars, todo, record, dirVars, procVars, saveVars, faults>>

\* The steps of a call after its first one, in the order of the code.
ColdBootSteps == <<"rootfs", "share", "vfsd", "vmm", "net", "boot", "guest", "record">>
LoadSteps     == <<"rootfs", "share", "vfsd", "net", "vmm", "restore", "record", "dial">>
SaveSteps     == <<"snapshot", "merge", "meta", "drop">>
UndoSteps     == <<"undo">>
Steps == {"rootfs", "share", "vfsd", "vmm", "net", "boot", "guest", "record", "restore", "dial",
          "snapshot", "merge", "meta", "drop", "undo"}
IsSuffix(s, t) == \E i \in 1 .. Len(t) + 1 : s = SubSeq(t, i, Len(t))

TypeOK ==
  /\ slot \in [Sandboxes -> {"new", "held", "ended", "gone"}] /\ ref \subseteq Sandboxes
  /\ DOMAIN todo = Sandboxes
  /\ \A n \in Sandboxes : \E t \in {ColdBootSteps, LoadSteps, SaveSteps, UndoSteps} : IsSuffix(todo[n], t)
  /\ record \in [Sandboxes -> Sandboxes \cup {Null}]
  /\ vmdir \subseteq Sandboxes /\ image \subseteq vmdir
  /\ bundle \subseteq Sandboxes /\ share \subseteq Sandboxes
  /\ vfsd \subseteq Sandboxes /\ tap \subseteq Sandboxes /\ closing \subseteq Sandboxes
  /\ vmm \in [Sandboxes -> {"none", "up", "running", "paused"}]
  /\ delta \in [Sandboxes -> {"none", "dirty", "whole"}]
  /\ saved \in [Sandboxes -> Snapshot \cup {Null}]
  /\ faults \in 0 .. MaxFaults

Init ==
  /\ slot = [n \in Sandboxes |-> "new"] /\ ref = {}
  /\ todo = [n \in Sandboxes |-> <<>>]
  /\ record = [n \in Sandboxes |-> Null]
  /\ vmdir = {} /\ image = {} /\ bundle = {} /\ share = {}
  /\ vfsd = {} /\ tap = {} /\ closing = {}
  /\ vmm = [n \in Sandboxes |-> "none"]
  /\ delta = [n \in Sandboxes |-> "none"]
  /\ saved = [n \in Sandboxes |-> Null]
  /\ faults = 0

-----------------------------------------------------------------------------
ColdBooted(n) == From[n] = Null

\* The id a VM's share and sockets are named by: frozen in the snapshot.
BaseID(n) == IF ColdBooted(n) THEN n ELSE saved[From[n]].base

InCall(n)  == todo[n] # <<>>
Step(n, s) == InCall(n) /\ Head(todo[n]) = s
Alive(n)   == vmm[n] # "none" /\ n \in vfsd

Advance(n) == todo' = [todo EXCEPT ![n] = Tail(@)] /\ UNCHANGED faults
Begin(n, steps) == todo' = [todo EXCEPT ![n] = steps] /\ UNCHANGED faults
Fault      == faults < MaxFaults /\ faults' = faults + 1
Return(n)  == todo' = [todo EXCEPT ![n] = <<>>]

\* The step returns an error: the deferred clean-up is next.
Abort(n) == todo' = [todo EXCEPT ![n] = UndoSteps]
Fails(n) == Fault /\ Abort(n)
FailsFor(n, cause) == cause /\ UNCHANGED faults /\ Abort(n)

-----------------------------------------------------------------------------
(* Host state.                                                              *)

\* A VMM lets go of its tap when it is gone; while the boot call is still
\* running the Worker holds the tap too.
Gone(killed, n) ==
  /\ vfsd' = vfsd \ killed
  /\ vmm' = [m \in Sandboxes |-> IF m \in killed THEN "none" ELSE vmm[m]]
  /\ tap' = tap \ {m \in killed : m = n \/ ~InCall(m)}

\* Only a failed cold boot waits for the VMM it has killed.
WaitsFor(n) == IF Step(n, "undo") /\ ColdBooted(n) THEN {n} ELSE {}

\* vmm.shutdown and SIGKILL, for the call of n.  The tap of a VMM nobody waits
\* for is free only after VMMExits.
Kill(killed, n) ==
  /\ Gone(killed, n)
  /\ closing' = closing \cup {m \in (killed \cap tap) \ WaitsFor(n) : vmm[m] \in {"running", "paused"}}

\* Mutant: any virtiofsd is taken for one of the sandbox.
MutMatchesAny(b) == {b} \cup vfsd

\* Whom CleanupSandboxState(b) hits: the processes with b in their command
\* line.  That is the VMM and virtiofsd cold-booted as b and every virtiofsd
\* that serves b's share; a VM without its virtiofsd is stopped.
Matches(b) == {b} \cup {m \in vfsd : BaseID(m) = b}

\* CleanupSandboxState(b), after killing the processes of n itself.
CleanupSandboxState(b, n, mine) ==
  /\ Kill(Matches(b) \cup mine, n)
  /\ share' = share \ {b}

\* teardownInstance: the VM, the host state of its base id, bundle, directory.
TeardownInstance(n) ==
  /\ CleanupSandboxState(record[n], n, {n})
  /\ bundle' = bundle \ {n}
  /\ vmdir' = vmdir \ {record[n], n} /\ image' = image \ {n}

\* DeleteRestored: nothing to do without a record.
DeleteRestored(n) ==
  IF record[n] = Null THEN UNCHANGED <<record, dirVars, procVars>>
  ELSE TeardownInstance(n) /\ record' = [record EXCEPT ![n] = Null]

-----------------------------------------------------------------------------
(* The Slot.                                                                *)

ReserveSlot(n) ==
  /\ slot[n] = "new"
  /\ \A m \in Sandboxes : SlotOf[m] = SlotOf[n] => slot[m] \in {"new", "gone"}
  /\ slot' = [slot EXCEPT ![n] = "held"]
  /\ UNCHANGED <<ref, todo, record, dirVars, procVars, saveVars, faults>>

\* Mutant: the Slot is freed while its VM runs on.
MutReleaseKeepsVM(n) ==
  /\ slot[n] \in {"held", "ended"} /\ ~InCall(n)
  /\ slot' = [slot EXCEPT ![n] = "gone"]
  /\ ref' = ref \ {n}
  /\ UNCHANGED <<todo, record, dirVars, procVars, saveVars, faults>>

\* StopSandbox: stopping is deleting.
StopSandbox(n) ==
  /\ slot[n] = "held" /\ ~InCall(n)
  /\ IF n \in ref THEN DeleteRestored(n) ELSE UNCHANGED <<record, dirVars, procVars>>
  /\ ref' = ref \ {n}
  /\ slot' = [slot EXCEPT ![n] = "ended"]
  /\ UNCHANGED <<todo, saveVars, faults>>

ReleaseSlot(n) ==
  /\ slot[n] \in {"held", "ended"} /\ ~InCall(n)
  /\ IF n \in ref THEN DeleteRestored(n) ELSE UNCHANGED <<record, dirVars, procVars>>
  /\ ref' = ref \ {n}
  /\ slot' = [slot EXCEPT ![n] = "gone"]
  /\ UNCHANGED <<todo, saveVars, faults>>

\* A VM dies on its own and its virtiofsd with it.
VMDies(n) ==
  /\ vmm[n] # "none"
  /\ Fault
  /\ Gone({n}, Null)
  /\ UNCHANGED <<slotVars, todo, record, dirVars, closing, saveVars>>

\* The kernel has done with a killed VMM.
VMMExits(n) ==
  /\ n \in closing
  /\ closing' = closing \ {n}
  /\ UNCHANGED <<slotVars, todo, record, dirVars, vfsd, vmm, tap, saveVars, faults>>

-----------------------------------------------------------------------------
(* ColdBoot.                                                                *)

\* A clean slate under the deterministic id; making the directory may fail.
ColdBoot(n) ==
  /\ slot[n] = "held" /\ n \notin ref /\ ~InCall(n) /\ ColdBooted(n)
  /\ CleanupSandboxState(n, n, {})
  /\ record' = [record EXCEPT ![n] = Null]
  /\ \/ Begin(n, ColdBootSteps) /\ vmdir' = vmdir \cup {n}
     \/ Fault /\ vmdir' = vmdir \ {n} /\ UNCHANGED todo
  /\ UNCHANGED <<slotVars, image, bundle, saveVars>>

\* setupImageRootfs and resolv.conf: a failure may leave part of the bundle.
SetupImageRootfs(n) ==
  /\ Step(n, "rootfs")
  /\ bundle' = bundle \cup {n}
  /\ Advance(n) \/ Fails(n)
  /\ UNCHANGED <<slotVars, record, vmdir, image, share, procVars, saveVars>>

\* The lower is copied afresh into the share of the base id.
ReconstructSharedDir(n) ==
  /\ Step(n, "share")
  /\ \/ share' = share \cup {BaseID(n)} /\ (Advance(n) \/ Fails(n))
     \/ Fails(n) /\ UNCHANGED share
  /\ UNCHANGED <<slotVars, record, vmdir, image, bundle, procVars, saveVars>>

\* A daemon that does not come up is killed at once.
StartVirtiofsd(n) ==
  /\ Step(n, "vfsd")
  /\ \/ BaseID(n) \in share /\ vfsd' = vfsd \cup {n} /\ Advance(n)
     \/ (FailsFor(n, BaseID(n) \notin share) \/ Fails(n)) /\ UNCHANGED vfsd
  /\ UNCHANGED <<slotVars, record, dirVars, vmm, tap, closing, saveVars>>

\* ColdBoot's LaunchVMM kills a VMM that does not answer; LoadSnapshot leaves
\* that to its deferred clean-up.
LaunchVMM(n) ==
  /\ Step(n, "vmm")
  /\ \/ vmm' = [vmm EXCEPT ![n] = "up"] /\ (Advance(n) \/ (~ColdBooted(n) /\ Fails(n)))
     \/ Fails(n) /\ UNCHANGED vmm
  /\ UNCHANGED <<slotVars, record, dirVars, vfsd, tap, closing, saveVars>>

\* The tap is named by the Slot: a holder that is still there means EBUSY.
\* ColdBoot creates the VM first and hands the tap over in the same step.
TapBusy(n) == \E m \in tap \cup closing : SlotOf[m] = SlotOf[n]

CreateTaps(n) ==
  /\ Step(n, "net")
  /\ LET lost == TapBusy(n) \/ (ColdBooted(n) /\ vmm[n] = "none") IN
     \/ ~lost /\ tap' = tap \cup {n} /\ (Advance(n) \/ Fails(n))
     \/ (FailsFor(n, lost) \/ Fails(n)) /\ UNCHANGED tap
  /\ UNCHANGED <<slotVars, record, dirVars, vfsd, vmm, closing, saveVars>>

\* vm.boot, then the agent answers on vsock.
BootVM(n) ==
  /\ Step(n, "boot")
  /\ \/ Alive(n) /\ vmm' = [vmm EXCEPT ![n] = "running"] /\ (Advance(n) \/ Fails(n))
     \/ FailsFor(n, ~Alive(n)) /\ UNCHANGED vmm
  /\ UNCHANGED <<slotVars, record, dirVars, vfsd, tap, closing, saveVars>>

\* The guest: sandbox, network, carrier (retried), workload.
StartWorkload(n) ==
  /\ Step(n, "guest")
  /\ (Alive(n) /\ Advance(n)) \/ FailsFor(n, ~Alive(n)) \/ Fails(n)
  /\ UNCHANGED <<slotVars, record, dirVars, procVars, saveVars>>

\* saveInstance; a cold boot returns the id right after.
SaveInstance(n) ==
  /\ Step(n, "record")
  /\ \/ /\ record' = [record EXCEPT ![n] = BaseID(n)]
        /\ Advance(n)
        /\ ref' = IF ColdBooted(n) THEN ref \cup {n} ELSE ref
     \/ Fails(n) /\ UNCHANGED <<record, ref>>
  /\ UNCHANGED <<slot, dirVars, procVars, saveVars>>

\* Mutant: a failed restore forgets the virtiofsd it started.
MutUndoKeepsVirtiofsd(n) ==
  /\ Step(n, "undo")
  /\ IF ColdBooted(n) THEN CleanupSandboxState(n, n, {n})
     ELSE /\ vmm' = [vmm EXCEPT ![n] = "none"] /\ tap' = tap \ {n}
          /\ UNCHANGED <<vfsd, closing, share>>
  /\ bundle' = bundle \ {n} /\ vmdir' = vmdir \ {n} /\ image' = image \ {n}
  /\ Return(n)
  /\ UNCHANGED <<slotVars, record, saveVars, faults>>

\* Mutant: a failed boot leaves its composed rootfs.
MutUndoKeepsBundle(n) ==
  /\ Step(n, "undo")
  /\ IF ColdBooted(n) THEN CleanupSandboxState(n, n, {n}) ELSE Kill({n}, n) /\ UNCHANGED share
  /\ vmdir' = vmdir \ {n} /\ image' = image \ {n}
  /\ Return(n)
  /\ UNCHANGED <<slotVars, bundle, record, saveVars, faults>>

\* The deferred clean-up.  A cold boot sweeps its own id; a restore kills what
\* it started and leaves the share of its base id.
Undo(n) ==
  /\ Step(n, "undo")
  /\ IF ColdBooted(n) THEN CleanupSandboxState(n, n, {n}) ELSE Kill({n}, n) /\ UNCHANGED share
  /\ bundle' = bundle \ {n} /\ vmdir' = vmdir \ {n} /\ image' = image \ {n}
  /\ Return(n)
  /\ UNCHANGED <<slotVars, record, saveVars, faults>>

-----------------------------------------------------------------------------
(* LoadSnapshot; the rest of its steps are those above.                     *)

\* One restore at a time.  The downloaded snapshot is moved into a new VM
\* directory; a failure removes the directory again.
LoadSnapshot(n) ==
  /\ slot[n] = "held" /\ n \notin ref /\ ~InCall(n) /\ ~ColdBooted(n)
  /\ saved[From[n]] # Null
  /\ \A m \in Sandboxes : ColdBooted(m) \/ n = m \/ ~InCall(m) \/ m \in ref
  /\ \/ Begin(n, LoadSteps) /\ vmdir' = vmdir \cup {n} /\ image' = image \cup {n}
     \/ Fault /\ vmdir' = vmdir \ {n} /\ image' = image \ {n} /\ UNCHANGED todo
  /\ UNCHANGED <<slotVars, record, bundle, share, procVars, saveVars>>

\* vm.restore with the taps' descriptors, then vm.resume.
RestoreVM(n) ==
  /\ Step(n, "restore")
  /\ \/ Alive(n) /\ vmm' = [vmm EXCEPT ![n] = "running"] /\ (Advance(n) \/ Fails(n))
     \/ FailsFor(n, ~Alive(n)) /\ UNCHANGED vmm
  /\ UNCHANGED <<slotVars, record, dirVars, vfsd, tap, closing, saveVars>>

\* The agent must answer; the guest's network is best-effort.  A failure this
\* late deletes the instance.
DialAgent(n) ==
  /\ Step(n, "dial")
  /\ Return(n)
  /\ \/ Alive(n) /\ ref' = ref \cup {n} /\ UNCHANGED <<record, dirVars, procVars, faults>>
     \/ ~Alive(n) /\ DeleteRestored(n) /\ UNCHANGED <<ref, faults>>
     \/ Fault /\ DeleteRestored(n) /\ UNCHANGED ref
  /\ UNCHANGED <<slot, saveVars>>

-----------------------------------------------------------------------------
(* SaveSnapshot, and CreateSnapshot's dropping of the runtime.              *)

\* A save that fails returns at once: a paused VM stays paused, in its Slot.
SaveFails(n) == Return(n) /\ delta' = [delta EXCEPT ![n] = "none"]

\* Pause; a VM that is already paused counts as paused.
SaveSnapshot(n) ==
  /\ slot[n] = "held" /\ n \in ref /\ ~InCall(n)
  /\ vmm[n] # "none"
  /\ \/ vmm' = [vmm EXCEPT ![n] = "paused"] /\ Begin(n, SaveSteps)
     \/ Fault /\ UNCHANGED <<vmm, todo>>
  /\ UNCHANGED <<slotVars, record, dirVars, vfsd, tap, closing, saveVars>>

\* vm.snapshot: of a restored VM only the pages dirtied since it was restored.
WriteSnapshot(n) ==
  /\ Step(n, "snapshot")
  /\ \/ /\ Alive(n)
        /\ delta' = [delta EXCEPT ![n] = IF ColdBooted(n) THEN "whole" ELSE "dirty"]
        /\ Advance(n)
     \/ ~Alive(n) /\ SaveFails(n) /\ UNCHANGED faults
     \/ Fault /\ SaveFails(n)
  /\ UNCHANGED <<slotVars, record, dirVars, procVars, saved>>

\* Mutant: a merge that fails is logged and the save goes on.
MutMergeBestEffort(n) ==
  /\ Step(n, "merge")
  /\ image' \in {image, image \ {n}}
  /\ \/ /\ delta' = [delta EXCEPT ![n] = IF n \in image /\ saved[From[n]].whole THEN "whole" ELSE @]
        /\ Advance(n)
     \/ n \in image /\ Fault /\ todo' = [todo EXCEPT ![n] = Tail(@)] /\ UNCHANGED delta
  /\ UNCHANGED <<slotVars, record, vmdir, bundle, share, procVars, saved>>

\* The delta is laid over the restore source, if there is one, which is renamed
\* away for that (copied across file systems): a failure from here on may
\* leave the next save without it.
MergeDeltaIntoBase(n) ==
  /\ Step(n, "merge")
  /\ image' \in {image, image \ {n}}
  /\ \/ /\ delta' = [delta EXCEPT ![n] = IF n \in image /\ saved[From[n]].whole THEN "whole" ELSE @]
        /\ Advance(n)
     \/ n \in image /\ Fault /\ SaveFails(n)
  /\ UNCHANGED <<slotVars, record, vmdir, bundle, share, procVars, saved>>

\* base-id and meta, then the VM is torn down; the record stays.
WriteMeta(n) ==
  /\ Step(n, "meta")
  /\ \/ TeardownInstance(n) /\ Advance(n) /\ UNCHANGED delta
     \/ Fault /\ SaveFails(n) /\ UNCHANGED <<dirVars, procVars>>
  /\ UNCHANGED <<slotVars, record, saved>>

\* Back in CreateSnapshot: the runtime is deleted and the Slot marked Failed
\* before the snapshot in the work directory is uploaded.
DropRuntime(n) ==
  /\ Step(n, "drop")
  /\ DeleteRestored(n)
  /\ saved' = [saved EXCEPT ![n] = [base |-> record[n], whole |-> delta[n] = "whole"]]
  /\ delta' = [delta EXCEPT ![n] = "none"]
  /\ ref' = ref \ {n}
  /\ slot' = [slot EXCEPT ![n] = "ended"]
  /\ Advance(n)

-----------------------------------------------------------------------------
CallStep(n) ==
  \/ SetupImageRootfs(n) \/ ReconstructSharedDir(n) \/ StartVirtiofsd(n) \/ LaunchVMM(n)
  \/ CreateTaps(n) \/ BootVM(n) \/ StartWorkload(n) \/ SaveInstance(n) \/ Undo(n)
  \/ RestoreVM(n) \/ DialAgent(n)
  \/ WriteSnapshot(n) \/ MergeDeltaIntoBase(n) \/ WriteMeta(n) \/ DropRuntime(n)

Request(n) ==
  \/ ReserveSlot(n) \/ StopSandbox(n) \/ ReleaseSlot(n)
  \/ ColdBoot(n) \/ LoadSnapshot(n) \/ SaveSnapshot(n)

Next == \E n \in Sandboxes : Request(n) \/ CallStep(n) \/ VMDies(n) \/ VMMExits(n)

\* A call that has begun runs on: every wait in it has a timeout.
Spec == Init /\ [][Next]_vars /\ \A n \in Sandboxes : WF_vars(CallStep(n))
-----------------------------------------------------------------------------
(* Properties.                                                              *)

\* What there is of n on the Worker; a share is not counted (see README), nor
\* what a killed VMM holds until it has exited.
Holds(n) ==
  \/ n \in vfsd \cup tap \cup bundle \cup vmdir
  \/ vmm[n] # "none" \/ record[n] # Null

\* Served: the VM runs and its virtiofsd has a share to serve.
Served(n) == vmm[n] = "running" /\ n \in vfsd /\ BaseID(n) \in share

\* Once no call is in progress for a Sandbox and its Slot has no runtimeRef
\* for it - a boot failed at any step, its VM was saved or deleted - no
\* directory or record of it is left, and no process or tap but those of a
\* VMM that has been killed: ColdBoot's and LoadSnapshot's deferred clean-ups
\* and DeleteRestored are complete.
NothingOutlives == \A n \in Sandboxes : ~InCall(n) /\ n \notin ref => ~Holds(n)

\* "so the snapshot is self-contained" (kata_restore_linux.go): every snapshot
\* holds all of its guest's memory.  A save that is tried again after its merge
\* failed breaks this (see README).
SavedImageIsWhole == \A n \in Sandboxes : saved[n] # Null => saved[n].whole

\* A VM whose memory a save can put together: all of it is in the VMM, or the
\* rest is in the image it was restored from, itself whole and still there.
CanBeSavedWhole(n) == ColdBooted(n) \/ (n \in image /\ saved[From[n]].whole)

\* Such a save ends with a snapshot that holds all of the guest's memory, or
\* with none: a fault or a dying VM at any step, and clean-ups for others that
\* run meanwhile, never let it report a snapshot of the dirtied pages alone.
SaveIsWholeOrFails ==
  \A n \in Sandboxes :
    Step(n, "snapshot") /\ CanBeSavedWhole(n) ~> ~InCall(n) /\ (saved[n] = Null \/ saved[n].whole)

\* "Matched strictly by the sandbox id ... so nothing unrelated can match"
\* (cleanup_linux.go): a VM that is served stays so unless a call for its own
\* Sandbox, or its own death, ends it.  Clean-ups for others never do.
OnlyOwnCallsEndAVM ==
  [][\A n \in Sandboxes : Served(n) /\ ~Served(n)' =>
       \/ faults' > faults
       \/ todo[n] # todo'[n] \/ slot[n] # slot'[n]]_vars

\* Attempts do not get in each other's way: whatever failed or was deleted
\* before, in this Slot or for this Sandbox, a boot finds the share it has just
\* staged still there, and neither a VM that lives nor the Worker, for another
\* attempt, holds the tap of its Slot.  Only a VMM that was killed and has not
\* exited can still make that tap busy, since teardownInstance and a failed
\* LoadSnapshot do not wait for it; that boot fails and is undone.
BootsDoNotCollide ==
  \A n \in Sandboxes :
    /\ Step(n, "net") => \A m \in tap : SlotOf[m] # SlotOf[n]
    /\ Step(n, "vfsd") => BaseID(n) \in share

\* What the Slot manager sees; "residue" is no phase of RuntimeContract.
Phase(n) ==
  IF InCall(n) THEN IF n \in ref THEN "saving" ELSE "booting"
  ELSE IF n \in ref THEN IF Served(n) THEN "present" ELSE "dead"
  ELSE IF Holds(n) THEN "residue" ELSE "absent"

Contract == INSTANCE RuntimeContract WITH phase <- [n \in Sandboxes |-> Phase(n)]

\* ColdBoot, LoadSnapshot, SaveSnapshot and DeleteRestored keep what the Slot
\* manager relies on: a call returns, and leaves a runtime or nothing.
KeepsContract == Contract!Spec
=============================================================================
