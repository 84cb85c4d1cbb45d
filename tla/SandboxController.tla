-------------------------- MODULE SandboxController --------------------------
(***************************************************************************)
(* A Sandbox from its creation to its removal: the API server, the          *)
(* controller manager's informer cache, the Sandbox reconciler              *)
(* (internal/controller/sandbox_controller.go), the Scheduler it shares     *)
(* with the Pool poll (pool_controller.go), and the Workers.                *)
(*                                                                         *)
(* The reconciler is one goroutine.  It reads Sandboxes from the cache,     *)
(* which lags behind the API server, its own writes included, and its       *)
(* writes succeed only on the latest resource version.  Its steps here end  *)
(* where another actor can come between: at Worker calls and before status  *)
(* writes.  A Worker call may fail before or after it took effect.          *)
(*                                                                         *)
(* Workers keep WorkerContract, which SlotManager implements: a new Worker  *)
(* Pod comes up without Slots and gets them from the next topology push.    *)
(*                                                                         *)
(* Abstracted: conditions, timestamps, and the work queue: a Sandbox can    *)
(* come up for Reconcile at any time, after an event, a delay or the        *)
(* informer's resync.  Profiles stay fixed.                                 *)
(***************************************************************************)
EXTENDS Scheduler

INSTANCE WorkerCalls

CONSTANTS
  ProfileAt,    \* profile of each Slot ID (the Pool's topology)
  FlakyPolls,   \* whether a poll of a Worker that is there may fail
  Conns,        \* connections to Workers that a caller may give up and leave open
  MaxDisruptions  \* bound on Worker Pods that go away and controller restarts

ASSUME ControllerConstants ==
  /\ ProfileAt \in [SlotIds -> Profiles]
  /\ FlakyPolls \in BOOLEAN
  /\ MaxDisruptions \in Nat

VARIABLES
  api,       \* Sandbox objects at the API server; Null once removed
  cache,     \* the informer's copy; Null once it saw the removal
  fresh,     \* Sandboxes whose cached copy has the latest resource version
  rec,       \* the Reconcile call in progress
  slotsAt,   \* each Worker's Slots: Null while the Pod is away
  poll,      \* the ListSlots answer the Pool reconciler holds, or Null
  poolReady, \* the Pool's Ready condition, as cached
  late,      \* what is still asked on each connection whose caller has given up, or Null
  disruptions  \* Pods gone and controller restarts so far

reconcilerVars == <<api, cache, fresh, rec>>
poolVars       == <<poll, poolReady>>
vars == <<schedulerVars, reconcilerVars, slotsAt, late, poolVars, disruptions>>

-----------------------------------------------------------------------------
Phases  == {"", "Pending", "Starting", "Running", "Stopping", "Failed"}
Sandbox == [finalizer: BOOLEAN, deleted: BOOLEAN, phase: Phases, assignment: Assignment \cup {Null}]

\* A Slot as its Worker has it: Starting and Cleaning last no longer than a call.
SlotInfo == [state: {"Free", "Reserved", "Running", "Stopping", "Failed"},
             uid: Sandboxes \cup {Null}, profile: Profiles]

\* obj: the caller's copy of the Sandbox.  current: on the way to removing the
\* finalizer, whether obj has the latest resource version.  then: the step
\* after the status write.
Reconcile == [pc: {"idle", "write", "reserve", "start", "stop", "release", "finish"},
              u: Sandboxes \cup {Null}, obj: Sandbox \cup {Null}, current: BOOLEAN,
              then: {"stop", "idle"}]

\* A Slot call on its way to the Worker, or waiting there for the Slot's lock.
Request == [op: Calls, u: Sandboxes, at: Assignment]

TypeOK ==
  /\ SchedulerTypeOK
  /\ api \in [Sandboxes -> Sandbox \cup {Null}]
  /\ cache \in [Sandboxes -> Sandbox \cup {Null}]
  /\ fresh \subseteq Sandboxes
  /\ rec \in Reconcile
  /\ slotsAt \in [Workers -> [SlotIds -> SlotInfo \cup {Null}] \cup {Null}]
  /\ late \in [Conns -> Request \cup {Null}]
  /\ poll \in [worker: Workers, report: Report] \cup {Null}
  /\ poolReady \in BOOLEAN
  /\ disruptions \in 0..MaxDisruptions

NewSandbox == [finalizer |-> FALSE, deleted |-> FALSE, phase |-> "", assignment |-> Null]
IdleRec    == [pc |-> "idle", u |-> Null, obj |-> Null, current |-> FALSE, then |-> "idle"]
FreeInfo(i) == [state |-> "Free", uid |-> Null, profile |-> ProfileAt[i]]
NoSlots    == [i \in SlotIds |-> Null]

\* Every Sandbox has been created and the informer has seen it.
Init ==
  /\ SchedulerInit
  /\ api = [u \in Sandboxes |-> NewSandbox]
  /\ cache = api
  /\ fresh = Sandboxes
  /\ rec = IdleRec
  /\ slotsAt = [w \in Workers |-> NoSlots]
  /\ late = [c \in Conns |-> Null]
  /\ poll = Null
  /\ poolReady = FALSE
  /\ disruptions = 0

-----------------------------------------------------------------------------
(* The user, the API server and the informer.                              *)

Delete(u) ==
  /\ api[u] # Null /\ ~api[u].deleted
  /\ api' = [api EXCEPT ![u] = IF @.finalizer THEN [@ EXCEPT !.deleted = TRUE] ELSE Null]
  /\ fresh' = fresh \ {u}
  /\ rec' = IF rec.u = u THEN [rec EXCEPT !.current = FALSE] ELSE rec
  /\ UNCHANGED <<schedulerVars, cache, slotsAt, late, poolVars, disruptions>>

\* A watch event: the copy catches up.
CacheSync(u) ==
  /\ u \notin fresh
  /\ cache' = [cache EXCEPT ![u] = api[u]]
  /\ fresh' = fresh \cup {u}
  /\ UNCHANGED <<schedulerVars, api, rec, slotsAt, late, poolVars, disruptions>>

-----------------------------------------------------------------------------
(* Reconcile.                                                              *)

\* The call returns, with an error or a result.
Finished == rec' = IdleRec

\* The status writer's next step, with obj as the desired object.
ToWrite(u, obj, then) ==
  rec' = [pc |-> "write", u |-> u, obj |-> obj, current |-> FALSE, then |-> then]

Take(u) == rec.pc = "idle" /\ cache[u] # Null /\ UNCHANGED <<slotsAt, late, poolVars, disruptions>>

Live(u) == ~cache[u].deleted

AddFinalizer(u) ==
  /\ Take(u)
  /\ Live(u) /\ ~cache[u].finalizer
  /\ u \in fresh   \* otherwise a conflict
  /\ api' = [api EXCEPT ![u].finalizer = TRUE]
  /\ fresh' = fresh \ {u}
  /\ UNCHANGED <<schedulerVars, cache, rec>>

MutManagesDeleted(u) == cache[u].finalizer
Managed(u) == Live(u) /\ cache[u].finalizer

\* The Pool is not Ready, or has no free Slot for this profile.
ReconcilePending(u) ==
  /\ Take(u)
  /\ Managed(u)
  /\ ~poolReady \/ (cache[u].assignment = Null /\ NoCapacity(u))
  /\ ToWrite(u, [cache[u] EXCEPT !.phase = "Pending"], "idle")
  /\ UNCHANGED <<schedulerVars, api, cache, fresh>>

SyncAssign(u) ==
  /\ Take(u)
  /\ Managed(u) /\ poolReady /\ cache[u].assignment = Null
  /\ Assign(u)
  /\ ToWrite(u, [cache[u] EXCEPT !.phase = "Starting", !.assignment = assignments'[u]], "idle")
  /\ UNCHANGED <<api, cache, fresh>>

\* syncStart up to its first Worker call.  If Restore refuses, nothing happens.
SyncStart(u) ==
  /\ Take(u)
  /\ Managed(u) /\ poolReady /\ cache[u].assignment # Null
  /\ Restore(u, cache[u].assignment)
  /\ rec' = [pc |-> "reserve", u |-> u, obj |-> cache[u], current |-> FALSE, then |-> "idle"]
  /\ UNCHANGED <<api, cache, fresh>>

SyncDelete(u) ==
  /\ Take(u)
  /\ cache[u].deleted /\ cache[u].finalizer
  /\ IF cache[u].assignment # Null
     THEN ToWrite(u, [cache[u] EXCEPT !.phase = "Stopping"], "stop")
     ELSE rec' = [pc |-> "finish", u |-> u, obj |-> cache[u], current |-> u \in fresh, then |-> "idle"]
  /\ UNCHANGED <<schedulerVars, api, cache, fresh>>

-----------------------------------------------------------------------------
(* syncStatus: take the object from the cache again, give it the desired    *)
(* status, write it if that changes anything.                               *)

WithStatus(current, desired) ==
  [current EXCEPT !.phase = desired.phase, !.assignment = desired.assignment]

Continue(obj, current) ==
  rec' = IF rec.then = "stop" THEN [rec EXCEPT !.pc = "stop", !.obj = obj, !.current = current]
                              ELSE IdleRec

WriteStatus ==
  LET u == rec.u  desired == WithStatus(cache[u], rec.obj) IN
  /\ rec.pc = "write"
  /\ \/ /\ cache[u] # Null /\ desired = cache[u]
        /\ Continue(cache[u], u \in fresh)
        /\ UNCHANGED <<api, fresh>>
     \/ /\ cache[u] # Null /\ desired # cache[u] /\ u \in fresh
        /\ api' = [api EXCEPT ![u] = desired]
        /\ fresh' = fresh \ {u}
        /\ Continue(desired, TRUE)
     \/ /\ cache[u] # Null => desired # cache[u] /\ u \notin fresh
        /\ Finished
        /\ UNCHANGED <<api, fresh>>
  /\ UNCHANGED <<schedulerVars, cache, slotsAt, late, poolVars, disruptions>>

-----------------------------------------------------------------------------
(* Worker calls.                                                           *)

Calling == rec.pc \in Calls
Target  == rec.obj.assignment

\* syncStart writes the status before it gives up, syncDelete does not.
GiveUp(phase) ==
  IF rec.pc \in {"reserve", "start"} THEN ToWrite(rec.u, [rec.obj EXCEPT !.phase = phase], "idle")
  ELSE Finished

\* After an answer: on to the next call, or no further this time.  404 and 409
\* are not retryable and mean the Failed phase.
AfterAnswer(res) ==
  CASE res = "ok" /\ rec.pc = "reserve" -> rec' = [rec EXCEPT !.pc = "start"]
    [] res = "ok" /\ rec.pc = "start"   -> ToWrite(rec.u, [rec.obj EXCEPT !.phase = "Running"], "idle")
    [] res = "ok" /\ rec.pc = "stop"    -> rec' = [rec EXCEPT !.pc = "release"]
    [] res = "ok" /\ rec.pc = "release" -> rec' = [rec EXCEPT !.pc = "finish"]
    [] res \in {"404", "409"}           -> GiveUp("Failed")
    [] res = "500"                      -> GiveUp(rec.obj.phase)

SlotAt(a) == slotsAt[a.worker][a.slot]
Becomes(a, info) == slotsAt' = [slotsAt EXCEPT ![a.worker][a.slot] = info]

CallAnswered ==
  /\ Calling /\ slotsAt[Target.worker] # Null
  /\ LET a == SlotAnswer(rec.pc, SlotAt(Target), rec.u)
     IN Becomes(Target, a.info) /\ AfterAnswer(a.res)
  /\ UNCHANGED <<schedulerVars, api, cache, fresh, late, poolVars, disruptions>>

\* startFromSnapshot: a snapshot that does not load (422) is a permanent failure;
\* one that is not Ready, or whose store cannot be reached, is tried again.
PhasesAfterFailure == {rec.obj.phase} \cup (IF rec.pc = "start" THEN {"Failed"} ELSE {})

\* The runtime fails, the request is lost, it takes effect and its answer is
\* lost, or the caller gives up while it waits for the Slot's lock.
CallFails ==
  /\ Calling /\ slotsAt[Target.worker] # Null
  /\ \/ UNCHANGED <<slotsAt, late>>
     \/ /\ \E info \in Effects(rec.pc, SlotAt(Target), rec.u) : Becomes(Target, info)
        /\ UNCHANGED late
     \/ /\ \E c \in Conns : /\ late[c] = Null
                           /\ late' = [late EXCEPT ![c] = [op |-> rec.pc, u |-> rec.u, at |-> Target]]
        /\ UNCHANGED slotsAt
  /\ \E phase \in PhasesAfterFailure : GiveUp(phase)
  /\ UNCHANGED <<schedulerVars, api, cache, fresh, poolVars, disruptions>>

\* A call whose caller has given up gets the Slot's lock.
LateCall(c) ==
  /\ late[c] # Null /\ slotsAt[late[c].at.worker] # Null
  /\ \E info \in Effects(late[c].op, SlotAt(late[c].at), late[c].u) : Becomes(late[c].at, info)
  /\ late' = [late EXCEPT ![c] = Null]
  /\ UNCHANGED <<schedulerVars, reconcilerVars, poolVars, disruptions>>

\* The Pod is away: its endpoint does not resolve, or nothing listens there.
Unreachable ==
  /\ Calling /\ slotsAt[Target.worker] = Null
  /\ GiveUp(rec.obj.phase)
  /\ UNCHANGED <<schedulerVars, api, cache, fresh, slotsAt, late, poolVars, disruptions>>

\* A snapshot of a kata Sandbox that runs there is saved (Snapshot reconciler).
ParentSaved(w, i) ==
  /\ slotsAt[w] # Null /\ slotsAt[w][i] # Null /\ slotsAt[w][i].state = "Running"
  /\ slotsAt' = [slotsAt EXCEPT ![w][i] = SavedAway(@)]
  /\ UNCHANGED <<schedulerVars, reconcilerVars, late, poolVars, disruptions>>

\* Scheduler.Release, then the finalizer goes, and with it the object, unless
\* the copy is out of date.
Finish ==
  /\ rec.pc = "finish"
  /\ Release(rec.u)
  /\ IF rec.current
     THEN /\ api' = [api EXCEPT ![rec.u] = Null]
          /\ fresh' = fresh \ {rec.u}
          /\ Finished
     ELSE UNCHANGED <<api, fresh>> /\ Finished
  /\ UNCHANGED <<cache, slotsAt, late, poolVars, disruptions>>

-----------------------------------------------------------------------------
(* Pods and the Pool reconciler.                                           *)

PodGone(w) ==
  /\ slotsAt[w] # Null /\ disruptions < MaxDisruptions
  /\ slotsAt' = [slotsAt EXCEPT ![w] = Null]
  /\ late' = [c \in Conns |-> IF late[c] # Null /\ late[c].at.worker = w THEN Null ELSE late[c]]
  /\ disruptions' = disruptions + 1
  /\ UNCHANGED <<schedulerVars, reconcilerVars, poolVars>>

PodStarts(w) ==
  /\ slotsAt[w] = Null
  /\ slotsAt' = [slotsAt EXCEPT ![w] = NoSlots]
  /\ UNCHANGED <<schedulerVars, reconcilerVars, late, poolVars, disruptions>>

\* syncTopology: the Worker gets the Slots it lacks.
SyncTopology(w) ==
  /\ poll = Null
  /\ slotsAt[w] = NoSlots
  /\ slotsAt' = [slotsAt EXCEPT ![w] = [i \in SlotIds |-> FreeInfo(i)]]
  /\ UNCHANGED <<schedulerVars, reconcilerVars, late, poolVars, disruptions>>

\* syncStatus of the Pool: ListSlots, then UpdateWorker with the answer, or
\* RemoveWorker when the Worker does not answer.
Seen(info) == IF info # Null /\ info.state # "Free" THEN [info EXCEPT !.state = "Taken"] ELSE info

PollList(w) ==
  /\ poll = Null /\ slotsAt[w] # Null
  /\ poll' = [worker |-> w, report |-> [i \in SlotIds |-> Seen(slotsAt[w][i])]]
  /\ UNCHANGED <<schedulerVars, reconcilerVars, slotsAt, late, poolReady, disruptions>>

PollUpdate ==
  /\ poll # Null
  /\ UpdateWorker(poll.worker, poll.report)
  /\ poll' = Null
  /\ UNCHANGED <<reconcilerVars, slotsAt, late, poolReady, disruptions>>

PollRemove(w) ==
  /\ poll = Null /\ (slotsAt[w] # Null => FlakyPolls)
  /\ RemoveWorker(w)
  /\ UNCHANGED <<reconcilerVars, slotsAt, late, poolVars, disruptions>>

PoolStatus ==
  /\ poolReady' = \E w \in Workers : workers[w] # Null
  /\ UNCHANGED <<schedulerVars, reconcilerVars, slotsAt, late, poll, disruptions>>

\* The controller manager restarts: the Scheduler is empty, the informer lists
\* everything anew.
ControllerRestart ==
  /\ disruptions < MaxDisruptions
  /\ disruptions' = disruptions + 1
  /\ workers' = [w \in Workers |-> Null]
  /\ assignments' = [u \in Sandboxes |-> Null]
  /\ cache' = api
  /\ fresh' = Sandboxes
  /\ rec' = IdleRec
  /\ poll' = Null
  /\ UNCHANGED <<api, slotsAt, late, poolReady>>

-----------------------------------------------------------------------------
ReconcileStart(u) ==
  AddFinalizer(u) \/ ReconcilePending(u) \/ SyncAssign(u) \/ SyncStart(u) \/ SyncDelete(u)

Next ==
  \/ \E u \in Sandboxes : Delete(u) \/ CacheSync(u) \/ ReconcileStart(u)
  \/ WriteStatus \/ CallAnswered \/ CallFails \/ Unreachable \/ Finish
  \/ \E c \in Conns : LateCall(c)
  \/ \E w \in Workers, i \in SlotIds : ParentSaved(w, i)
  \/ \E w \in Workers : PodGone(w) \/ PodStarts(w) \/ SyncTopology(w) \/ PollList(w) \/ PollRemove(w)
  \/ PollUpdate \/ PoolStatus
  \/ ControllerRestart

Spec == Init /\ [][Next]_vars

\* client-go's work queue and informers serve every Sandbox, Kubernetes starts
\* Pods, the Pool polls for ever and its pushes arrive between polls.  Calls
\* that fail are retried for ever; their failures are transient.
Fairness ==
  /\ \A u \in Sandboxes : WF_vars(CacheSync(u)) /\ SF_vars(ReconcileStart(u))
  /\ WF_vars(WriteStatus) /\ WF_vars(CallAnswered \/ Unreachable) /\ WF_vars(Finish)
  /\ \A w \in Workers : WF_vars(PodStarts(w)) /\ SF_vars(SyncTopology(w)) /\ WF_vars(PollList(w))
  /\ WF_vars(PollUpdate) /\ WF_vars(PoolStatus)
  /\ <>[][CallFails => CallAnswered]_vars

FairSpec == Spec /\ Fairness

-----------------------------------------------------------------------------
(* Properties.                                                             *)

\* No two live Sandboxes have the same Slot in their status, the record a
\* restarted controller works from.
AssignmentsExclusive ==
  \A u, v \in Sandboxes :
    /\ api[u] # Null /\ api[v] # Null /\ ~api[u].deleted /\ ~api[v].deleted
    /\ api[u].assignment # Null /\ api[u].assignment = api[v].assignment
    => u = v

Owner(w, i) == IF slotsAt[w] # Null /\ slotsAt[w][i] # Null THEN slotsAt[w][i].uid ELSE Null

\* What a live Sandbox owns on a Worker the Scheduler knows to be taken by it,
\* whatever was lost, stale or polled meanwhile.
LiveOwnerIsAssigned ==
  \A w \in Workers, i \in SlotIds :
    LET u == Owner(w, i) IN
    u # Null => (api[u] # Null /\ ~api[u].deleted => assignments[u] = [worker |-> w, slot |-> i])

\* "Every Sandbox has a finalizer. Remove it only after runtime cleanup and Slot
\* release succeed." (component-design.md): whoever owns a Slot still exists.
OwnerExists == \A w \in Workers, i \in SlotIds : Owner(w, i) # Null => api[Owner(w, i)] # Null

\* A Sandbox nobody deletes is eventually reported Running, through lost
\* answers, stale reports and the replacement of its Worker's Pod, unless the
\* runtime's cleanup failed: a Failed Slot stays Failed ("never mark available").
EventuallyRunning ==
  \A u \in Sandboxes :
    api[u] # Null /\ ~api[u].deleted
    ~> \/ api[u] = Null \/ api[u].deleted \/ api[u].phase = "Running"
       \/ \E w \in Workers, i \in SlotIds : Owner(w, i) = u /\ slotsAt[w][i].state = "Failed"

\* A deleted Sandbox goes, through lost answers, a late call that reserves its
\* Slot again, conflicting writes and the loss of its Worker, as long as no
\* other Sandbox wants its Slot.  With one that does it need not: the Slot is
\* offered before the finalizer is removed (syncDelete), and StopSandbox
\* answers 409 ever after.
DeletionCompletes ==
  \A u \in Sandboxes : api[u] # Null /\ api[u].deleted ~> api[u] = Null

=============================================================================
