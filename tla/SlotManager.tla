----------------------------- MODULE SlotManager -----------------------------
(***************************************************************************)
(* The Worker agent's Slot state machine: internal/worker/manager.go and    *)
(* the Slot side of internal/worker/snapshot.go, over the runtime adapters  *)
(* internal/runtime/cri and internal/runtime/kata.                          *)
(*                                                                         *)
(* HTTP handlers are threads.  A handler first looks its Slot up under      *)
(* m.mu (getSlot) and keeps the POINTER; only then does it take the Slot's  *)
(* own lock, for the whole of its body, runtime calls included.  The two    *)
(* steps are two actions here, so a topology push may come between them.    *)
(* A Slot object is named by its Slot ID and the topology version that      *)
(* created it: removing a Slot and adding it again makes another object.    *)
(*                                                                         *)
(* Abstracted: the container, its resources and all error texts; a profile  *)
(* stands for the pair (Profile, Resources).  A runtime identifier is       *)
(* recycled once nothing refers to it, the adapters never reuse one.        *)
(*                                                                         *)
(* Operators named Mut... are wrong variants of the definition that follows *)
(* them; no action uses them.  They show that the properties can fail.      *)
(***************************************************************************)
EXTENDS Naturals, FiniteSets

CONSTANTS
  SlotIds,        \* Slot IDs of this Worker
  Profiles,       \* Slot profiles of the Pool
  Sandboxes,      \* Sandbox UIDs
  Forks,          \* Sandboxes whose spec has fromSnapshot; the others have container
  RuntimeIds,     \* runtime objects (CRI pod sandboxes, micro-VMs, runsc restores)
  Threads,        \* HTTP handler goroutines
  Deployments,    \* [selfManaged, boot]: kata adapter or CRI with gVisor, and
                  \* Config.Slots at process start (cmd/worker starts with none)
  CleanupMayFail, \* whether the container runtime may refuse to delete or stop
  MaxApply,       \* bound on the topology pushes one process accepts
  Null

Config == [SlotIds -> Profiles \cup {Null}]

ASSUME ConstantsOK ==
  /\ Forks \subseteq Sandboxes
  /\ Deployments \subseteq [selfManaged: BOOLEAN, boot: Config]
  /\ CleanupMayFail \in BOOLEAN
  /\ MaxApply \in Nat
  /\ Null \notin SlotIds \cup Profiles \cup Sandboxes \cup RuntimeIds \cup Threads \cup 0..MaxApply

VARIABLES
  deployment,\* the Deployments member this Worker runs as; never changes
  slots,     \* m.slots: the version of the object each Slot ID maps to, or Null
  slot,      \* the managedSlot objects, mapped or still pointed to by a handler
  version,   \* topology pushes accepted since the process started
  apply,     \* the ApplySlots call in progress; it holds m.mu
  call,      \* what each handler goroutine is doing
  runtimes,  \* the runtime's own objects: they outlive the Worker process
  phase      \* "recovering" until Recover has succeeded, then "serving"

vars == <<deployment, slots, slot, version, apply, call, runtimes, phase>>

SelfManaged == deployment.selfManaged
BootConfig  == deployment.boot

-----------------------------------------------------------------------------
Versions == 0..MaxApply
Objects  == SlotIds \X Versions
Ops      == {"Reserve", "Start", "Stop", "Release", "Inspect", "Snapshot", "Restore"}
SlotStates == {"Free", "Reserved", "Starting", "Running", "Stopping", "Cleaning", "Failed"}

\* internal/worker/manager.go managedSlot.
Slot == [profile: Profiles \cup {Null}, state: SlotStates,
         sandbox: Sandboxes \cup {Null}, ref: RuntimeIds \cup {Null},
         restored: BOOLEAN, restoreDir: BOOLEAN]

\* "orphan" is a process whose adapter forgot it: still running, no longer
\* reachable by its identifier.  "bare" is a pod sandbox without a container.
RuntimeStates == {"none", "created", "running", "exited", "orphan", "bare"}
Runtime == [state: RuntimeStates, slot: SlotIds \cup {Null},
            sandbox: Sandboxes \cup {Null}, loaded: BOOLEAN]

\* found: the handler has its pointer; booting / loading: it holds the Slot's
\* lock while the runtime creates or restores.
Call == [pc: {"idle", "found", "booting", "loading"}, op: Ops \cup {Null},
         obj: Objects \cup {Null}, uid: Sandboxes \cup {Null}]
Apply == [pc: {"idle", "checking"}, cfg: Config, pending: SUBSET SlotIds]

TypeOK ==
  /\ deployment \in Deployments
  /\ slots \in [SlotIds -> Versions \cup {Null}]
  /\ slot \in [Objects -> Slot]
  /\ version \in Versions
  /\ apply \in Apply
  /\ call \in [Threads -> Call]
  /\ runtimes \in [RuntimeIds -> Runtime]
  /\ phase \in {"recovering", "serving"}

FreeSlot(profile) ==
  [profile |-> profile, state |-> "Free", sandbox |-> Null, ref |-> Null,
   restored |-> FALSE, restoreDir |-> FALSE]
NoRuntime == [state |-> "none", slot |-> Null, sandbox |-> Null, loaded |-> FALSE]
IdleCall  == [pc |-> "idle", op |-> Null, obj |-> Null, uid |-> Null]
IdleApply == [pc |-> "idle", cfg |-> [id \in SlotIds |-> Null], pending |-> {}]

\* NewSlotManager.
NewSlots == [id \in SlotIds |-> IF BootConfig[id] = Null THEN Null ELSE 0]
NewSlotObjects == [o \in Objects |-> FreeSlot(IF o[2] = 0 THEN BootConfig[o[1]] ELSE Null)]

Init ==
  /\ deployment \in Deployments
  /\ slots = NewSlots
  /\ slot = NewSlotObjects
  /\ version = 0
  /\ apply = IdleApply
  /\ call = [t \in Threads |-> IdleCall]
  /\ runtimes = [r \in RuntimeIds |-> NoRuntime]
  /\ phase = "recovering"

-----------------------------------------------------------------------------
(* Locks.  managedSlot.lock, m.mu and restoreMu are held exactly while a    *)
(* call is in the corresponding section, so none needs a variable.          *)

SlotLocked(o)   == \E t \in Threads : call[t].pc \in {"booting", "loading"} /\ call[t].obj = o
TopologyLocked  == apply.pc # "idle"
MutRestoreUnserialised == TRUE
RestoreMuFree   == \A t \in Threads : call[t].op # "Restore"

\* The runtime's answers.  Each is a set of [ok, rts]: whether the call
\* reports success, and the runtime objects after it.
DeleteFails == CleanupMayFail /\ ~SelfManaged
Gone(r)     == [runtimes EXCEPT ![r] = NoRuntime]
Now(r, s)   == [runtimes EXCEPT ![r].state = s]

\* CRI Delete may refuse, or leave the pod sandbox after its containers: that
\* it reports as success, unless it cannot list them.  It knows nothing of a
\* restored runsc sandbox and reports what it cannot find as deleted.  Kata's
\* delete is kill -9.
RuntimeDelete(r) ==
  LET known == runtimes[r].state # "none" /\ ~runtimes[r].loaded IN
  {[ok |-> TRUE, rts |-> IF ~SelfManaged /\ runtimes[r].loaded THEN runtimes ELSE Gone(r)]}
    \cup (IF DeleteFails THEN {[ok |-> FALSE, rts |-> runtimes]} ELSE {})
    \cup (IF DeleteFails /\ known THEN [ok: BOOLEAN, rts: {Now(r, "bare")}] ELSE {})

\* gVisor's DeleteRestored removes its record of the container even when
\* runsc delete fails, so a second attempt finds nothing and succeeds.
DeleteRestored(r) ==
  IF runtimes[r].state = "orphan"
  THEN {[ok |-> TRUE, rts |-> runtimes]}
  ELSE {[ok |-> TRUE, rts |-> Gone(r)]}
         \cup IF DeleteFails THEN {[ok |-> FALSE, rts |-> Now(r, "orphan")]} ELSE {}

RuntimeStop(r) ==
  IF SelfManaged THEN DeleteRestored(r)
  ELSE {[ok |-> TRUE, rts |-> IF runtimes[r].state \in {"created", "running"}
                              THEN Now(r, "exited") ELSE runtimes]}
         \cup IF DeleteFails THEN {[ok |-> FALSE, rts |-> runtimes]} ELSE {}

\* Runtime identifiers the adapters can hand out.
FreshRuntimes == {r \in RuntimeIds : runtimes[r].state = "none" /\ \A o \in Objects : slot[o].ref # r}

\* What a failed Create or LoadSnapshot leaves behind: its clean-up ignores
\* errors, so possibly a runtime nobody has the identifier of: of a Create,
\* which made no container, the pod sandbox.
AfterFailedBoot(rts, rt) ==
  {rts} \cup IF DeleteFails THEN {[rts EXCEPT ![r] = rt] : r \in FreshRuntimes} ELSE {}

-----------------------------------------------------------------------------
(* Handlers.                                                               *)

S(t) == slot[call[t].obj]
MutOwnsAlways(t) == TRUE
Owns(t) == S(t).sandbox = call[t].uid
SetSlot(t, s) == slot' = [slot EXCEPT ![call[t].obj] = s]
Return(t) == call' = [call EXCEPT ![t] = IdleCall]
Proceed(t, pc) == call' = [call EXCEPT ![t].pc = pc]
Topology == <<deployment, slots, version, apply, phase>>

\* getSlot: read the map under m.mu.RLock.  RestoreFromSnapshot has taken
\* restoreMu before that.  StartSandbox is only called for a Sandbox with a
\* container, RestoreFromSnapshot for one with fromSnapshot.
Begin(t, op, id, u) ==
  /\ phase = "serving"
  /\ call[t] = IdleCall
  /\ ~TopologyLocked
  /\ slots[id] # Null
  /\ op = "Start" => u \notin Forks
  /\ op = "Restore" => u \in Forks /\ RestoreMuFree
  /\ call' = [call EXCEPT ![t] = [pc |-> "found", op |-> op, obj |-> <<id, slots[id]>>, uid |-> u]]
  /\ UNCHANGED <<slot, runtimes, Topology>>

\* current.lock.Lock().
Enter(t, op) == call[t].pc = "found" /\ call[t].op = op /\ ~SlotLocked(call[t].obj)

\* Every early return, with an error or without, that leaves the Slot alone.
Unaffected(t) == Return(t) /\ UNCHANGED <<slot, runtimes, Topology>>

MutReserveFailed(s) == s.state \in {"Free", "Failed"}
CanReserve(s) == s.state = "Free"

ReserveSlot(t) ==
  /\ Enter(t, "Reserve")
  /\ IF CanReserve(S(t))
     THEN SetSlot(t, [S(t) EXCEPT !.state = "Reserved", !.sandbox = call[t].uid])
     ELSE UNCHANGED slot
  /\ Return(t)
  /\ UNCHANGED <<runtimes, Topology>>

-----------------------------------------------------------------------------
(* StartSandbox.                                                           *)

HasStaleRuntime(s) == s.state = "Running" /\ s.ref # Null /\ runtimes[s.ref].state # "running"
CanCreate(s) == s.state = "Reserved" \/ (s.state = "Running" /\ s.ref = Null)

\* Not the owner, not startable from here, already running, or the status
\* of the runtime could not be read.
StartUnaffected(t) ==
  /\ Enter(t, "Start")
  /\ Owns(t) => S(t).state = "Running" \/ ~(CanCreate(S(t)) \/ (S(t).state = "Starting" /\ S(t).ref # Null))
  /\ Unaffected(t)

\* Reserved -> Starting -> Create.  s is the Slot as it enters Create and rts
\* the runtime objects then.
CreateRuntime(t, s, rts) ==
  LET rt == [state |-> IF SelfManaged THEN "running" ELSE "created", slot |-> call[t].obj[1],
             sandbox |-> call[t].uid, loaded |-> FALSE]
      left == [rt EXCEPT !.state = "bare"]
  IN \/ \E r \in FreshRuntimes :
          /\ runtimes' = [rts EXCEPT ![r] = rt]
          /\ SetSlot(t, [s EXCEPT !.state = "Starting", !.ref = r, !.restored = SelfManaged])
          /\ Proceed(t, "booting")
     \/ /\ runtimes' \in AfterFailedBoot(rts, left)
        /\ SetSlot(t, [s EXCEPT !.state = "Reserved"])
        /\ Return(t)

StartCreate(t) ==
  /\ Enter(t, "Start") /\ Owns(t)
  /\ CanCreate(S(t))
  /\ CreateRuntime(t, S(t), runtimes)
  /\ UNCHANGED Topology

\* A Running Slot whose runtime died: delete it, then create again.
StartReplace(t) ==
  /\ Enter(t, "Start") /\ Owns(t)
  /\ HasStaleRuntime(S(t))
  /\ \E d \in RuntimeDelete(S(t).ref) :
       IF d.ok
       THEN CreateRuntime(t, [S(t) EXCEPT !.ref = Null], d.rts)
       ELSE /\ SetSlot(t, [S(t) EXCEPT !.state = "Failed"])
            /\ runtimes' = d.rts
            /\ Return(t)
  /\ UNCHANGED Topology

\* runtime.Start: running, or else delete what was created.  A failed delete
\* marks the Slot Failed, and drops the reference all the same.
StartRuntime(t, s) ==
  \/ /\ runtimes[S(t).ref].state # "bare"
     /\ SetSlot(t, [S(t) EXCEPT !.state = "Running"])
     /\ runtimes' = IF SelfManaged THEN runtimes ELSE Now(S(t).ref, "running")
  \/ /\ ~SelfManaged
     /\ \E d \in RuntimeDelete(S(t).ref) :
          /\ runtimes' = d.rts
          /\ SetSlot(t, [s EXCEPT !.ref = Null, !.state = IF d.ok THEN "Reserved" ELSE "Failed"])

StartFinish(t) ==
  /\ call[t].pc = "booting"
  /\ StartRuntime(t, [S(t) EXCEPT !.restored = FALSE])
  /\ Return(t)
  /\ UNCHANGED Topology

\* A Slot recovered in Starting with its runtime: resume the start.
StartResume(t) ==
  /\ Enter(t, "Start") /\ Owns(t)
  /\ S(t).state = "Starting" /\ S(t).ref # Null
  /\ StartRuntime(t, S(t))
  /\ Return(t)
  /\ UNCHANGED Topology

-----------------------------------------------------------------------------
(* StopSandbox and ReleaseSlot.                                            *)

StopSandbox(t) ==
  LET s == S(t) IN
  /\ Enter(t, "Stop")
  /\ IF s.state \in {"Free", "Stopping", "Cleaning"} \/ ~Owns(t)
     THEN UNCHANGED <<slot, runtimes>>
     ELSE IF s.ref = Null
     THEN SetSlot(t, [s EXCEPT !.state = "Stopping"]) /\ UNCHANGED runtimes
     ELSE \E d \in IF s.restored THEN DeleteRestored(s.ref) ELSE RuntimeStop(s.ref) :
            /\ runtimes' = d.rts
            /\ SetSlot(t, IF ~d.ok THEN [s EXCEPT !.state = "Failed"]
                          ELSE IF s.restored
                          THEN [s EXCEPT !.state = "Stopping", !.ref = Null, !.restoreDir = FALSE]
                          ELSE [s EXCEPT !.state = "Stopping"])
  /\ Return(t)
  /\ UNCHANGED Topology

MutKeepsStopped(s) == s.ref # Null /\ s.state # "Stopping"
NeedsDelete(s) == s.ref # Null

MutKeepsRestoreDir(s) == [FreeSlot(s.profile) EXCEPT !.restoreDir = s.restoreDir]
Released(s) == FreeSlot(s.profile)

ReleaseSlot(t) ==
  LET s == S(t) IN
  /\ Enter(t, "Release")
  /\ IF s.state = "Free" \/ ~Owns(t)
     THEN UNCHANGED <<slot, runtimes>>
     ELSE IF ~NeedsDelete(s)
     THEN SetSlot(t, Released(s)) /\ UNCHANGED runtimes
     ELSE \E d \in IF s.restored THEN DeleteRestored(s.ref) ELSE RuntimeDelete(s.ref) :
            /\ runtimes' = d.rts
            /\ SetSlot(t, IF d.ok THEN Released(s) ELSE [s EXCEPT !.state = "Failed"])
  /\ Return(t)
  /\ UNCHANGED Topology

\* GetSandbox, ExecSandbox and the file operations: they read the Slot under
\* its lock and talk to the runtime it refers to.
Inspect(t) == Enter(t, "Inspect") /\ Unaffected(t)

-----------------------------------------------------------------------------
(* CreateSnapshot and RestoreFromSnapshot, as far as the Slot is concerned. *)

\* A gVisor parent runs on, and so does any parent whose save fails.  A kata
\* micro-VM is gone once saved: the Slot stays occupied, without a runtime.
CreateSnapshot(t) ==
  /\ Enter(t, "Snapshot")
  /\ \/ UNCHANGED <<slot, runtimes>>
     \/ /\ SelfManaged /\ Owns(t) /\ S(t).state = "Running" /\ S(t).ref # Null
        /\ runtimes' = Gone(S(t).ref)
        /\ SetSlot(t, [S(t) EXCEPT !.ref = Null, !.restored = FALSE, !.restoreDir = FALSE,
                                   !.state = "Failed"])
  /\ Return(t)
  /\ UNCHANGED Topology

CanRestore(t) == Owns(t) /\ S(t).state \in {"Reserved", "Starting"}

\* Not the owner, already Running, another state, or a failed download.
RestoreUnaffected(t) == Enter(t, "Restore") /\ Unaffected(t)

RestoreBegin(t) ==
  /\ Enter(t, "Restore")
  /\ CanRestore(t)
  /\ SetSlot(t, [S(t) EXCEPT !.state = "Starting"])
  /\ Proceed(t, "loading")
  /\ UNCHANGED <<runtimes, Topology>>

\* The checkpoint directory is kept with the Slot: the restored sandbox pages
\* from it.
MutDirNotKept(s, r) == [s EXCEPT !.ref = r, !.restored = TRUE, !.state = "Running"]
Restored(s, r) == [s EXCEPT !.ref = r, !.restored = TRUE, !.restoreDir = TRUE, !.state = "Running"]

\* LoadSnapshot answers.
RestoreFinish(t) ==
  LET rt == [state |-> "running", slot |-> call[t].obj[1], sandbox |-> call[t].uid, loaded |-> TRUE] IN
  /\ call[t].pc = "loading"
  /\ \/ \E r \in FreshRuntimes :
          /\ runtimes' = [runtimes EXCEPT ![r] = rt]
          /\ SetSlot(t, Restored(S(t), r))
     \/ /\ runtimes' \in AfterFailedBoot(runtimes, rt)
        /\ SetSlot(t, [S(t) EXCEPT !.state = "Reserved"])
  /\ Return(t)
  /\ UNCHANGED Topology

-----------------------------------------------------------------------------
(* ApplySlots.  It holds m.mu throughout, and each Slot's lock only while   *)
(* it looks at that Slot.                                                   *)

Mapped(id) == slot[<<id, slots[id]>>]

ApplyBegin(cfg) ==
  /\ phase = "serving"
  /\ ~TopologyLocked
  /\ version < MaxApply
  /\ apply' = [pc |-> "checking", cfg |-> cfg, pending |-> {id \in SlotIds : slots[id] # Null}]
  /\ UNCHANGED <<deployment, slots, slot, version, call, runtimes, phase>>

\* A Slot to be removed must be Free, one that stays must keep its profile.
MutProfileUnchecked(id) == apply.cfg[id] = Null => Mapped(id).state = "Free"
Acceptable(id) ==
  IF apply.cfg[id] = Null THEN Mapped(id).state = "Free"
                          ELSE Mapped(id).profile = apply.cfg[id]

MutKeepsMutex == apply
ApplyRejected == IdleApply

ApplyCheck(id) ==
  /\ apply.pc = "checking" /\ id \in apply.pending
  /\ ~SlotLocked(<<id, slots[id]>>)
  /\ apply' = IF Acceptable(id) THEN [apply EXCEPT !.pending = @ \ {id}] ELSE ApplyRejected
  /\ UNCHANGED <<deployment, slots, slot, version, call, runtimes, phase>>

ApplyCommit ==
  LET added == {id \in SlotIds : slots[id] = Null /\ apply.cfg[id] # Null} IN
  /\ apply.pc = "checking" /\ apply.pending = {}
  /\ version' = version + 1
  /\ slots' = [id \in SlotIds |-> IF apply.cfg[id] = Null THEN Null
                                  ELSE IF id \in added THEN version + 1 ELSE slots[id]]
  /\ slot' = [o \in Objects |-> IF o[1] \in added /\ o[2] = version + 1
                                THEN FreeSlot(apply.cfg[o[1]]) ELSE slot[o]]
  /\ apply' = IdleApply
  /\ UNCHANGED <<deployment, call, runtimes, phase>>

-----------------------------------------------------------------------------
(* The process and its runtime.                                            *)

\* A sandbox may end at any time.
RuntimeExit(r) ==
  /\ runtimes[r].state = "running"
  /\ runtimes' = Now(r, "exited")
  /\ UNCHANGED <<deployment, slots, slot, version, apply, call, phase>>

\* The Worker container ends and takes every process in it along.  After a
\* container restart the runtime's records are still there (EmptyDir volumes),
\* except those of runsc restores, which only the Worker knew; a new Pod
\* starts with none.
Restart(samePod) ==
  /\ slots' = NewSlots
  /\ slot' = NewSlotObjects
  /\ version' = 0
  /\ apply' = IdleApply
  /\ call' = [t \in Threads |-> IdleCall]
  /\ runtimes' = [r \in RuntimeIds |->
                    IF samePod /\ runtimes[r].state # "none" /\ (SelfManaged \/ ~runtimes[r].loaded)
                    THEN [runtimes[r] EXCEPT !.state = IF @ \in {"created", "bare"} THEN @ ELSE "exited"]
                    ELSE NoRuntime]
  /\ phase' = "recovering"
  /\ UNCHANGED deployment

\* Recover: adopt what the runtime lists.  An object of an unknown Slot, or a
\* second one of the same Slot, is an error: main retries, then exits.
Listed == {r \in RuntimeIds : runtimes[r].state # "none"}
MutRawState(rs) == rs
RuntimeSlotState(rs) ==
  CASE rs \in {"created", "bare"} -> "Starting" [] rs = "running" -> "Running"
    [] rs = "exited" -> "Stopping"  [] OTHER -> "Failed"

Recover ==
  /\ phase = "recovering"
  /\ \A r \in Listed : slots[runtimes[r].slot] # Null
  /\ \A r1, r2 \in Listed : runtimes[r1].slot = runtimes[r2].slot => r1 = r2
  /\ slot' = [o \in Objects |->
                IF \E r \in Listed : o = <<runtimes[r].slot, 0>>
                THEN LET r == CHOOSE r \in Listed : o = <<runtimes[r].slot, 0>>
                     IN [slot[o] EXCEPT !.sandbox = runtimes[r].sandbox, !.ref = r,
                                        !.state = RuntimeSlotState(runtimes[r].state)]
                ELSE slot[o]]
  /\ phase' = "serving"
  /\ UNCHANGED <<deployment, slots, version, apply, call, runtimes>>

-----------------------------------------------------------------------------
Body(t) ==
  \/ ReserveSlot(t) \/ StopSandbox(t) \/ ReleaseSlot(t) \/ Inspect(t)
  \/ StartUnaffected(t) \/ StartCreate(t) \/ StartReplace(t) \/ StartFinish(t) \/ StartResume(t)
  \/ CreateSnapshot(t) \/ RestoreUnaffected(t) \/ RestoreBegin(t) \/ RestoreFinish(t)

Next ==
  \/ \E t \in Threads, op \in Ops, id \in SlotIds, u \in Sandboxes : Begin(t, op, id, u)
  \/ \E t \in Threads : Body(t)
  \/ \E cfg \in Config : ApplyBegin(cfg)
  \/ \E id \in SlotIds : ApplyCheck(id)
  \/ ApplyCommit
  \/ \E r \in RuntimeIds : RuntimeExit(r)
  \/ \E samePod \in BOOLEAN : Restart(samePod)
  \/ Recover

Spec == Init /\ [][Next]_vars

\* Go's mutexes do not starve a waiter and every runtime call has a timeout,
\* so a handler that can run its body again and again does; so does main's
\* recovery loop.  Nothing makes a client call, a sandbox exit or the Worker die.
Fairness ==
  /\ \A t \in Threads : SF_vars(Body(t))
  /\ \A id \in SlotIds : SF_vars(ApplyCheck(id))
  /\ WF_vars(ApplyCommit)
  /\ WF_vars(Recover)

FairSpec == Spec /\ Fairness

-----------------------------------------------------------------------------
(* Properties.                                                             *)

\* A Slot object has an owner exactly while it is not Free, and a Free one
\* carries nothing over to its next owner: no runtime reference, no restored
\* mark, no checkpoint directory.  (ReserveSlot, ReleaseSlot, Recover)
FreeSlotIsBlank ==
  \A o \in Objects :
    /\ slot[o].state = "Free" <=> slot[o].sandbox = Null
    /\ slot[o].state = "Free" => slot[o] = FreeSlot(slot[o].profile)

\* The runtime a Slot refers to was made for that Slot and its present owner,
\* and no other Slot refers to it: Exec, file access, Stop and Release reach
\* nobody else's sandbox, whatever the interleaving of handlers, topology
\* pushes and recovery.
RuntimeBelongsToOwner ==
  /\ \A o \in Objects : slot[o].ref # Null /\ runtimes[slot[o].ref].state # "none" =>
       runtimes[slot[o].ref].slot = o[1] /\ runtimes[slot[o].ref].sandbox = slot[o].sandbox
  /\ \A o1, o2 \in Objects : slot[o1].ref # Null /\ slot[o1].ref = slot[o2].ref => o1 = o2

\* The checkpoint directory a restored sandbox pages from stays as long as the
\* Slot refers to that sandbox and it runs (managedSlot.restoreDir's comment).
RestoreDirKept ==
  \A o \in Objects : slot[o].ref # Null /\ runtimes[slot[o].ref].loaded
                     /\ runtimes[slot[o].ref].state = "running" => slot[o].restoreDir

\* restoreMu: two memory restores never run at once on a Worker.
OneRestoreAtATime == Cardinality({t \in Threads : call[t].pc = "loading"}) <= 1

\* A Slot the map offers as Free has no runtime object of any kind left on it:
\* "A Slot cannot be reused until runtime cleanup succeeds" (component-design.md).
FreeSlotIsClean ==
  \A id \in SlotIds : slots[id] # Null /\ Mapped(id).state = "Free" =>
    ~ \E r \in RuntimeIds : runtimes[r].state # "none" /\ runtimes[r].slot = id

\* Only its owner's ReleaseSlot, or the end of the process, takes a Slot from
\* a Sandbox; it never passes from one owner to another.
OwnerLeavesByRelease ==
  [][\A o \in Objects : slot[o].sandbox # Null /\ slot'[o].sandbox # slot[o].sandbox =>
       \/ phase' = "recovering"
       \/ /\ slot'[o].sandbox = Null
          /\ \E t \in Threads : /\ call[t].op = "Release" /\ call[t].obj = o
                               /\ call[t].uid = slot[o].sandbox]_vars

\* An accepted topology push leaves exactly the pushed Slots, each with the
\* pushed profile.  (ApplySlots)
PushTakesEffect ==
  [][version' = version + 1 =>
       \A id \in SlotIds : apply.cfg[id] = IF slots'[id] = Null THEN Null
                                           ELSE slot'[<<id, slots'[id]>>].profile]_vars

\* "Busy Slots cannot be removed" (ApplySlots' comment): the object of a Slot
\* that is not Free stays in the map while the process lives.
BusySlotStays ==
  [][\A id \in SlotIds : slots[id] # Null /\ Mapped(id).state # "Free" =>
       slots'[id] = slots[id] \/ phase' = "recovering"]_vars

\* What ListSlots and the answers of the calls let the controllers see; nothing
\* is served before Recover.  Starting and Cleaning end with the call.
InfoOf(s) == [state |-> IF s.state = "Starting" THEN "Reserved" ELSE s.state,
              uid |-> s.sandbox, profile |-> s.profile]
Table == IF phase = "recovering" THEN Null
         ELSE [id \in SlotIds |-> IF slots[id] = Null THEN Null ELSE InfoOf(Mapped(id))]

SlotInfo == [state: SlotStates, uid: Sandboxes \cup {Null}, profile: Profiles \cup {Null}]

ASSUME NullIsNoTable == Null \notin SlotInfo \cup [SlotIds -> SlotInfo \cup {Null}]

Contract == INSTANCE WorkerContract WITH table <- Table

\* The Worker does to its Slots only what its callers reckon with: whatever
\* handlers, pushes, runtime failures and restarts interleave, a Slot in the map
\* changes by a call for its owner, in one of the ways WorkerCalls allows, or
\* by a reservation if it was Free.
KeepsWorkerContract == Contract!Spec

\* No set of concurrent handlers and topology pushes blocks one of them for
\* ever: every call that found its Slot returns, and every push lets go of m.mu.
CallsReturn ==
  /\ \A t \in Threads : call[t].pc # "idle" ~> call[t].pc = "idle"
  /\ apply.pc # "idle" ~> apply.pc = "idle"

\* "Worker restart: rebuild Slots from CRI labels" (component-design.md).
RecoveryCompletes == phase = "recovering" ~> phase = "serving"

=============================================================================
