------------------------------ MODULE Snapshots ------------------------------
(***************************************************************************)
(* Fork: a snapshot of a parent Sandbox goes to object storage and children *)
(* start from it.  The SandboxSnapshot reconciler                           *)
(* (internal/controller/snapshot_controller.go), the Worker that saves,     *)
(* uploads, downloads and deletes (internal/worker/snapshot.go), the store  *)
(* (internal/snapshotstore), the restoring side of the Sandbox reconciler   *)
(* (sandbox_restore.go) and the SDK's Fork (clients/go/sandboxfleet).       *)
(*                                                                         *)
(* The store is a set of objects without transactions: files are put one by *)
(* one and the manifest last, and deleted one by one and the manifest last. *)
(* An object holds the number of the save it comes from.  The Worker's call *)
(* is a process of its own: the reconciler may give up on it and go on      *)
(* while it is still running.  The reconciler reads snapshots and children  *)
(* from informer caches.                                                    *)
(*                                                                         *)
(* One parent, one SandboxSnapshot.  A Pool, its credentials or a Worker    *)
(* that is not found counts as a fault, like a call that fails.             *)
(* Abstracted: which Worker deletes, sizes, compression, file contents.     *)
(***************************************************************************)
EXTENDS Integers, FiniteSets

CONSTANTS
  Null,
  Files,       \* the files of one checkpoint
  Children,    \* the Sandboxes that may have fromSnapshot
  Others,      \* those of them that Fork's caller does not create
  Kata,        \* whether saving shuts the parent down (kata) or not (gVisor)
  StaleCache,  \* whether a reconcile may start from an old copy
  MaxSaves,    \* bound on checkpoints taken of the parent
  MaxFaults    \* bound on failing and lost calls and on lost Workers

\* ready: the condition Ready is True.  path: Status.StoragePath is set; the
\* file list is set with it.
Snapshot == [finalizer: BOOLEAN, deleted: BOOLEAN, phase: {"", "Pending", "Ready", "Failed"},
             ready: BOOLEAN, path: BOOLEAN]

ASSUME SnapshotConstants ==
  /\ IsFiniteSet(Files) /\ Files # {} /\ Null \notin Files \cup Snapshot
  /\ Others \subseteq Children
  /\ Kata \in BOOLEAN /\ StaleCache \in BOOLEAN
  /\ MaxSaves \in Nat /\ MaxFaults \in Nat

Manifest == Null              \* the key of manifest.json
Objects  == Files \cup {Manifest}
Version  == 0 .. MaxSaves     \* 0: no such object

VARIABLES
  snap,     \* the SandboxSnapshot at the API server; Null before and after
  cache,    \* the informer's copy
  fresh,    \* whether the copy has the latest resource version
  parent,   \* phase of the parent Sandbox
  vm,       \* whether the parent's runtime is there
  saves,    \* checkpoints taken so far
  store,    \* object |-> the save it comes from
  call,     \* the Worker's CreateSnapshot call
  rec,      \* the Reconcile call in progress
  kids,     \* child |-> its Sandbox and what it has downloaded, or Null
  listed,   \* children in the Sandbox informer's cache
  fork,     \* the SDK's Fork call
  faults    \* failing calls so far

snapVars == <<snap, cache, fresh>>
kidVars  == <<kids, listed>>
vars     == <<snapVars, parent, vm, saves, store, call, rec, kidVars, fork, faults>>

-----------------------------------------------------------------------------
NewSnapshot == [finalizer |-> FALSE, deleted |-> FALSE, phase |-> "", ready |-> FALSE, path |-> FALSE]

\* erase: objects a Delete has yet to remove.  attended: the caller waits.
Call   == [pc: {"none", "upload", "erase", "failed", "done"}, todo: SUBSET Objects, attended: BOOLEAN]
NoCall == [pc |-> "none", todo |-> {}, attended |-> FALSE]

Reconcile == [pc: {"idle", "call", "saving", "wipe", "ready", "fail", "pending", "retry", "erase", "finish"},
              obj: Snapshot \cup {Null}, current: BOOLEAN, todo: SUBSET Objects]
Idle == [pc |-> "idle", obj |-> Null, current |-> FALSE, todo |-> {}]

Child == [pc: {"new", "loading", "running"}, got: [Objects -> Version]]
Empty == [o \in Objects |-> 0]

TypeOK ==
  /\ snap \in Snapshot \cup {Null} /\ cache \in Snapshot \cup {Null} /\ fresh \in BOOLEAN
  /\ parent \in {"Starting", "Running", "Gone"} /\ vm \in BOOLEAN
  /\ saves \in Version /\ store \in [Objects -> Version]
  /\ call \in Call /\ rec \in Reconcile
  /\ kids \in [Children -> Child \cup {Null}] /\ listed \subseteq Children
  /\ fork \in {"waitParent", "waitReady", "children", "returned"}
  /\ faults \in 0 .. MaxFaults

Init ==
  /\ snap = Null /\ cache = Null /\ fresh = TRUE
  /\ parent = "Starting" /\ vm = FALSE /\ saves = 0
  /\ store = Empty
  /\ call = NoCall /\ rec = Idle
  /\ kids = [c \in Children |-> Null] /\ listed = {}
  /\ fork = "waitParent"
  /\ faults = 0

Fault == faults < MaxFaults /\ faults' = faults + 1

\* A write to the SandboxSnapshot: refused unless the copy is current; or the
\* API server does not answer.  Either way the Reconcile is tried again.
Write(obj) ==
  \/ /\ IF rec.current THEN snap' = obj /\ fresh' = FALSE ELSE UNCHANGED <<snap, fresh>>
     /\ UNCHANGED faults
  \/ Fault /\ UNCHANGED <<snap, fresh>>

-----------------------------------------------------------------------------
(* The store, one object at a time.                                         *)

Put(o)    == store' = [store EXCEPT ![o] = saves]
Remove(o) == store' = [store EXCEPT ![o] = 0]

\* Delete without a file list looks it up in the manifest, if there is one.
DeleteList(files) == IF files \/ store[Manifest] # 0 THEN Objects ELSE {Manifest}

\* Mutant: the manifest is treated like any file.
MutAnyOrder(o, todo) == o \in todo

\* Files first, the manifest last.
InOrder(o, todo) == o \in todo /\ (o = Manifest => todo = {Manifest})

-----------------------------------------------------------------------------
(* The Worker: CreateSnapshot.                                              *)

\* The Slot must hold the running parent; saving fails or shuts a kata VM down.
SaveSnapshot ==
  /\ call.pc = "none"
  /\ IF ~vm THEN call' = [pc |-> "failed", todo |-> {}, attended |-> TRUE] /\ UNCHANGED <<vm, saves, faults>>
     ELSE \/ /\ saves < MaxSaves /\ saves' = saves + 1
             /\ vm' = ~Kata
             /\ call' = [pc |-> "upload", todo |-> Objects, attended |-> TRUE]
             /\ UNCHANGED faults
          \/ Fault /\ call' = [pc |-> "failed", todo |-> {}, attended |-> TRUE] /\ UNCHANGED <<vm, saves>>

UploadObject(o) ==
  /\ call.pc = "upload" /\ InOrder(o, call.todo)
  /\ Put(o)
  /\ \/ /\ call' = [call EXCEPT !.todo = @ \ {o}, !.pc = IF o = Manifest THEN "done" ELSE @]
        /\ UNCHANGED faults
     \/ o = Manifest /\ Fault /\ call' = [call EXCEPT !.todo = {}, !.pc = "failed"]  \* reading it back fails
  /\ UNCHANGED <<snapVars, parent, vm, saves, rec, kidVars, fork>>

\* A failed upload is deleted again as far as a manifest tells; when the
\* caller has hung up, the cancelled context fails those deletes too.
UploadFails ==
  /\ call.pc = "upload"
  /\ \/ call.attended /\ Fault /\ call' = [call EXCEPT !.pc = "erase", !.todo = DeleteList(FALSE)]
     \/ ~call.attended /\ call' = NoCall /\ UNCHANGED faults
  /\ UNCHANGED <<snapVars, parent, vm, saves, store, rec, kidVars, fork>>

EraseUpload(o) ==
  /\ call.pc = "erase" /\ InOrder(o, call.todo)
  /\ \/ Remove(o) /\ UNCHANGED faults
     \/ Fault /\ UNCHANGED store
  /\ call' = [call EXCEPT !.todo = @ \ {o}, !.pc = IF o = Manifest THEN "failed" ELSE @]
  /\ UNCHANGED <<snapVars, parent, vm, saves, rec, kidVars, fork>>

\* The end of a call nobody waits for.
CallEndsUnattended ==
  /\ call.pc \in {"failed", "done"} /\ ~call.attended
  /\ call' = NoCall
  /\ UNCHANGED <<snapVars, parent, vm, saves, store, rec, kidVars, fork, faults>>

WorkerStep == UploadFails \/ CallEndsUnattended \/ \E o \in Objects : UploadObject(o) \/ EraseUpload(o)

-----------------------------------------------------------------------------
(* The SandboxSnapshot reconciler.                                          *)

Reconciling(pc, obj) == rec' = [Idle EXCEPT !.pc = pc, !.obj = obj, !.current = fresh]

\* Reconcile up to the Worker.  The finalizer comes first; a snapshot that is
\* Ready or Failed stays as it is.
Begin ==
  /\ rec.pc = "idle" /\ cache # Null /\ ~cache.deleted
  /\ StaleCache \/ fresh
  /\ IF ~cache.finalizer
     THEN /\ IF fresh THEN snap' = [snap EXCEPT !.finalizer = TRUE] /\ fresh' = FALSE
                      ELSE UNCHANGED <<snap, fresh>>
          /\ UNCHANGED rec
     ELSE /\ cache.phase \in {"", "Pending"}
          /\ Reconciling(CASE parent = "Gone"     -> "fail"
                           [] parent = "Starting" -> "pending"
                           [] parent = "Running"  -> "call", cache)
          /\ UNCHANGED <<snap, fresh>>
  /\ UNCHANGED <<cache, parent, vm, saves, store, call, kidVars, fork, faults>>

\* The storage configuration is wrong, the parent's Worker is not found, or it
\* is called, whatever has become of the parent since.
StartCall ==
  /\ rec.pc = "call"
  /\ \/ Fault /\ rec' = [rec EXCEPT !.pc = "fail"] /\ UNCHANGED <<vm, saves, call>>
     \/ Fault /\ rec' = [rec EXCEPT !.pc = "retry"] /\ UNCHANGED <<vm, saves, call>>
     \/ SaveSnapshot /\ rec' = [rec EXCEPT !.pc = "saving"]
  /\ UNCHANGED <<snapVars, parent, store, kidVars, fork>>

\* The call returns, or the reconciler loses it and asks for a clean-up.
CallReturns ==
  /\ rec.pc = "saving" /\ call.pc \in {"failed", "done"}
  /\ rec' = [rec EXCEPT !.pc = IF call.pc = "done" THEN "ready" ELSE "wipe",
                        !.todo = IF call.pc = "done" THEN {} ELSE DeleteList(FALSE)]
  /\ call' = NoCall
  /\ UNCHANGED <<snapVars, parent, vm, saves, store, kidVars, fork, faults>>

CallLost ==
  /\ rec.pc = "saving" /\ Fault
  /\ rec' = [rec EXCEPT !.pc = "wipe", !.todo = DeleteList(FALSE)]
  /\ call' = [call EXCEPT !.attended = FALSE]
  /\ UNCHANGED <<snapVars, parent, vm, saves, store, kidVars, fork>>

\* DeleteSnapshotObjects at the Worker, after a failure ("wipe") and when the
\* snapshot is deleted ("erase"); its errors are ignored.
EraseObject(o) ==
  /\ rec.pc \in {"wipe", "erase"} /\ InOrder(o, rec.todo)
  /\ \/ Remove(o) /\ UNCHANGED faults
     \/ Fault /\ UNCHANGED store
  /\ rec' = [rec EXCEPT !.todo = @ \ {o},
                        !.pc = IF o # Manifest THEN @ ELSE IF @ = "wipe" THEN "fail" ELSE "finish"]
  /\ UNCHANGED <<snapVars, parent, vm, saves, call, kidVars, fork>>

\* The call does not get there, or no further.
EraseFails ==
  /\ rec.pc \in {"wipe", "erase"} /\ Fault
  /\ rec' = [rec EXCEPT !.todo = {}, !.pc = IF @ = "wipe" THEN "fail" ELSE "finish"]
  /\ UNCHANGED <<snapVars, parent, vm, saves, store, call, kidVars, fork>>

\* The phase stays as it was when the Worker was not found.
WriteStatus ==
  /\ rec.pc \in {"ready", "fail", "pending", "retry"}
  /\ Write(CASE rec.pc = "ready"   -> [rec.obj EXCEPT !.phase = "Ready", !.ready = TRUE, !.path = TRUE]
             [] rec.pc = "fail"    -> [rec.obj EXCEPT !.phase = "Failed", !.ready = FALSE]
             [] rec.pc = "pending" -> [rec.obj EXCEPT !.phase = "Pending", !.ready = FALSE]
             [] rec.pc = "retry"   -> [rec.obj EXCEPT !.ready = FALSE])
  /\ rec' = Idle
  /\ UNCHANGED <<cache, parent, vm, saves, store, call, kidVars, fork>>

\* Mutant: only a snapshot with a path can be deleted.
MutDeleteNeedsPath ==
  /\ rec.pc = "idle" /\ cache # Null /\ cache.deleted /\ cache.finalizer /\ cache.path
  /\ StaleCache \/ fresh
  /\ listed = {}
  /\ rec' = [Idle EXCEPT !.pc = "erase", !.obj = cache, !.current = fresh, !.todo = Objects]
  /\ UNCHANGED <<snapVars, parent, vm, saves, store, call, kidVars, fork, faults>>

\* Mutant: the manifest is deleted and the files it lists are not.
MutDeleteManifestOnly ==
  /\ rec.pc = "idle" /\ cache # Null /\ cache.deleted /\ cache.finalizer
  /\ StaleCache \/ fresh
  /\ listed = {}
  /\ rec' = [Idle EXCEPT !.pc = IF cache.path THEN "erase" ELSE "finish", !.obj = cache, !.current = fresh,
                         !.todo = IF cache.path THEN {Manifest} ELSE {}]
  /\ UNCHANGED <<snapVars, parent, vm, saves, store, call, kidVars, fork, faults>>

\* syncDelete: only while no Sandbox in the cache has fromSnapshot.  The erase
\* is left out without a recorded path, and when the Pool, its credentials or
\* a Worker is not found.
BeginDelete ==
  /\ rec.pc = "idle" /\ cache # Null /\ cache.deleted /\ cache.finalizer
  /\ StaleCache \/ fresh
  /\ listed = {}
  /\ \/ cache.path /\ rec' = [Idle EXCEPT !.pc = "erase", !.obj = cache, !.current = fresh, !.todo = Objects]
                   /\ UNCHANGED faults
     \/ cache.path /\ Reconciling("finish", cache) /\ Fault
     \/ ~cache.path /\ Reconciling("finish", cache) /\ UNCHANGED faults
  /\ UNCHANGED <<snapVars, parent, vm, saves, store, call, kidVars, fork>>

\* The condition turns to InUse; the phase stays.
RefuseDelete ==
  /\ rec.pc = "idle" /\ cache # Null /\ cache.deleted /\ cache.finalizer
  /\ fresh /\ listed # {}
  /\ snap' = [snap EXCEPT !.ready = FALSE] /\ fresh' = FALSE
  /\ UNCHANGED <<cache, parent, vm, saves, store, call, rec, kidVars, fork, faults>>

RemoveFinalizer ==
  /\ rec.pc = "finish"
  /\ Write(Null)
  /\ rec' = Idle
  /\ UNCHANGED <<cache, parent, vm, saves, store, call, kidVars, fork>>

ReconcileStep ==
  \/ Begin \/ StartCall \/ CallReturns \/ EraseFails \/ WriteStatus \/ BeginDelete \/ RefuseDelete \/ RemoveFinalizer
  \/ \E o \in Objects : EraseObject(o)

-----------------------------------------------------------------------------
(* A child: startFromSnapshot and the Worker's download.                    *)

LoadBegin(c) ==
  /\ kids[c] # Null /\ kids[c].pc = "new"
  /\ cache # Null /\ cache.phase = "Ready" /\ cache.path
  /\ store[Manifest] # 0
  /\ kids' = [kids EXCEPT ![c] = [pc |-> "loading", got |-> [Empty EXCEPT ![Manifest] = store[Manifest]]]]
  /\ UNCHANGED <<snapVars, parent, vm, saves, store, call, rec, listed, fork, faults>>

\* Mutant: a file that is not there is passed over.
MutLoadPassesOver(c, o) ==
  /\ kids[c] # Null /\ kids[c].pc = "loading" /\ o \in Files /\ kids[c].got[o] = 0
  /\ kids' = [kids EXCEPT ![c] = [pc |-> "running", got |-> [@.got EXCEPT ![o] = store[o]]]]
  /\ UNCHANGED <<snapVars, parent, vm, saves, store, call, rec, listed, fork, faults>>

\* Files are downloaded in turn; a missing one fails the restore, which the
\* Sandbox reconciler retries.
LoadObject(c, o) ==
  /\ kids[c] # Null /\ kids[c].pc = "loading" /\ o \in Files /\ kids[c].got[o] = 0
  /\ IF store[o] = 0 THEN kids' = [kids EXCEPT ![c] = [pc |-> "new", got |-> Empty]]
     ELSE LET got == [kids[c].got EXCEPT ![o] = store[o]]
          IN  kids' = [kids EXCEPT ![c] = [pc |-> IF \A f \in Files : got[f] # 0 THEN "running" ELSE "loading",
                                           got |-> got]]
  /\ UNCHANGED <<snapVars, parent, vm, saves, store, call, rec, listed, fork, faults>>

LoadStep == \E c \in Children : LoadBegin(c) \/ \E o \in Files : LoadObject(c, o)

-----------------------------------------------------------------------------
(* The SDK's Fork, the user and the informers.                              *)

\* Mutant: Fork waits for Ready only.
MutForkWaitsForReady ==
  /\ fork = "waitReady"
  /\ snap # Null /\ snap.phase = "Ready" /\ snap.ready /\ fork' = "children"
  /\ UNCHANGED <<snapVars, parent, vm, saves, store, call, rec, kidVars, faults>>

\* WaitSandboxReady, as Fork calls it for the parent.
ParentReady == parent = "Running"

ForkSnapshot ==
  /\ fork = "waitParent" /\ ParentReady
  /\ snap' = NewSnapshot /\ fresh' = FALSE
  /\ fork' = "waitReady"
  /\ UNCHANGED <<cache, parent, vm, saves, store, call, rec, kidVars, faults>>

\* WaitSnapshotReady: phase and condition.
ForkSees ==
  /\ fork = "waitReady"
  /\ \/ snap = Null /\ fork' = "returned"
     \/ snap # Null /\ snap.phase = "Failed" /\ fork' = "returned"
     \/ snap # Null /\ snap.phase = "Ready" /\ snap.ready /\ fork' = "children"
  /\ UNCHANGED <<snapVars, parent, vm, saves, store, call, rec, kidVars, faults>>

\* The children are created one by one; the first error ends Fork and leaves
\* the snapshot and the children there are.
ForkChild(c) ==
  /\ fork = "children" /\ c \notin Others /\ kids[c] = Null
  /\ \/ kids' = [kids EXCEPT ![c] = [pc |-> "new", got |-> Empty]] /\ UNCHANGED <<fork, faults>>
     \/ Fault /\ fork' = "returned" /\ UNCHANGED kids
  /\ UNCHANGED <<snapVars, parent, vm, saves, store, call, rec, listed>>

ForkReturns ==
  /\ fork = "children" /\ \A c \in Children \ Others : kids[c] # Null
  /\ fork' = "returned"
  /\ UNCHANGED <<snapVars, parent, vm, saves, store, call, rec, kidVars, faults>>

ParentStarts ==
  /\ parent = "Starting"
  /\ parent' = "Running" /\ vm' = TRUE
  /\ UNCHANGED <<snapVars, saves, store, call, rec, kidVars, fork, faults>>

\* Deleting the parent releases its Slot, which waits for the Slot's lock.
ParentDeleted ==
  /\ parent # "Gone" /\ call.pc = "none" /\ fork # "waitParent"
  /\ parent' = "Gone" /\ vm' = FALSE
  /\ UNCHANGED <<snapVars, saves, store, call, rec, kidVars, fork, faults>>

\* The parent's Worker is lost with the runtime and the call it was serving;
\* the Sandbox reconciler is to start the parent again.
WorkerLost ==
  /\ parent = "Running" /\ Fault
  /\ parent' = "Starting" /\ vm' = FALSE
  /\ call' = IF call.pc = "none" THEN call ELSE [call EXCEPT !.pc = "failed", !.todo = {}]
  /\ UNCHANGED <<snapVars, saves, store, rec, kidVars, fork>>

\* DeleteSnapshot: an object without the finalizer is removed at once.
DeleteSnapshot ==
  /\ snap # Null /\ ~snap.deleted
  /\ snap' = IF snap.finalizer THEN [snap EXCEPT !.deleted = TRUE] ELSE Null
  /\ fresh' = FALSE /\ rec' = [rec EXCEPT !.current = FALSE]
  /\ UNCHANGED <<cache, parent, vm, saves, store, call, kidVars, fork, faults>>

\* CreateSandboxFromSnapshot by another caller.
ChildCreated(c) ==
  /\ c \in Others /\ kids[c] = Null /\ fork # "waitParent"
  /\ kids' = [kids EXCEPT ![c] = [pc |-> "new", got |-> Empty]]
  /\ UNCHANGED <<snapVars, parent, vm, saves, store, call, rec, listed, fork, faults>>

ChildDeleted(c) ==
  /\ kids[c] # Null /\ (c \in Others \/ fork = "returned")
  /\ kids' = [kids EXCEPT ![c] = Null]
  /\ UNCHANGED <<snapVars, parent, vm, saves, store, call, rec, listed, fork, faults>>

CacheCatchesUp ==
  /\ ~fresh
  /\ cache' = snap /\ fresh' = TRUE
  /\ UNCHANGED <<snap, parent, vm, saves, store, call, rec, kidVars, fork, faults>>

ChildrenListed ==
  /\ listed # {c \in Children : kids[c] # Null}
  /\ listed' = {c \in Children : kids[c] # Null}
  /\ UNCHANGED <<snapVars, parent, vm, saves, store, call, rec, kids, fork, faults>>

InformerStep == CacheCatchesUp \/ ChildrenListed
SdkStep      == ForkSnapshot \/ ForkSees \/ ForkReturns \/ \E c \in Children : ForkChild(c)

Next ==
  \/ ReconcileStep \/ CallLost \/ WorkerStep \/ LoadStep \/ InformerStep \/ SdkStep
  \/ ParentStarts \/ ParentDeleted \/ WorkerLost \/ DeleteSnapshot
  \/ \E c \in Children : ChildCreated(c) \/ ChildDeleted(c)

\* Reconcilers are requeued, Workers finish their calls, informers deliver and
\* the SDK polls.  Nobody has to delete anything.
Spec ==
  /\ Init /\ [][Next]_vars
  /\ WF_vars(ReconcileStep) /\ WF_vars(WorkerStep) /\ WF_vars(LoadStep) /\ WF_vars(CacheCatchesUp) /\ WF_vars(ChildrenListed)
  /\ WF_vars(SdkStep)

-----------------------------------------------------------------------------
\* "snapshot uploaded to object storage" (the message of Ready=True): as long
\* as a Ready snapshot is not deleted, the store has its manifest and every
\* file, all of one save.  (syncCreate, Upload, Delete)
ReadyIsComplete ==
  snap # Null /\ snap.phase = "Ready" /\ ~snap.deleted
    => \A o \in Objects : store[o] # 0 /\ store[o] = store[Manifest]

\* "restore never sees a half-uploaded set" (Upload's comment): what a child
\* starts from is complete and of one save, whatever is uploaded or deleted
\* while it downloads.
ChildFromOneSave ==
  \A c \in Children : kids[c] # Null /\ kids[c].pc = "running"
    => \A o \in Objects : kids[c].got[o] # 0 /\ kids[c].got[o] = kids[c].got[Manifest]

\* Fork returns if its parent does not stay down: the snapshot becomes Ready or
\* Failed or goes, whatever call or Worker was lost, whoever deleted the parent
\* and however often the reconciler started over.  One thing holds it up, a
\* deleted snapshot that another caller's child keeps in use: it is neither
\* Ready (the condition) nor Failed nor gone.
ForkEnds ==
  <>[](parent # "Starting")
    => (fork = "waitReady" ~> \/ fork = "returned"
                              \/ snap # Null /\ snap.deleted /\ \E c \in Others : kids[c] # Null)

\* A deleted snapshot goes away unless a child of it is there, through any
\* conflict and failed delete call.
DeletionCompletes ==
  snap # Null /\ snap.deleted ~> snap = Null \/ \E c \in Children : kids[c] # Null

\* Unless a call failed, or Pool, credentials and Workers could not be found, a
\* snapshot that was Ready leaves no object behind when its finalizer is
\* removed, although files and manifest are deleted one by one and another
\* save may have begun.  (syncDelete, Delete)
ErasedOnRemoval ==
  [][snap # Null /\ snap' = Null /\ snap.path /\ faults = 0 => store' = Empty]_vars
=============================================================================
