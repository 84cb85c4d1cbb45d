----------------------- MODULE SandboxController_proofs -----------------------
(***************************************************************************)
(* No Slot is shared while one controller manager process lives, for any    *)
(* number of Workers, Slots and Sandboxes, through lost answers, stale      *)
(* caches, conflicting writes, false or old polls and Pods that go away and *)
(* come back.                                                               *)
(*                                                                         *)
(* The argument is about the records of a Sandbox's Slot: its status at the *)
(* API server, the cached copy, the object a Reconcile carries and the      *)
(* Scheduler's map.  While a copy is live (not marked deleted) whatever     *)
(* assignment it names is the one the Scheduler has (LiveAgrees), because   *)
(* the Scheduler forgets an assignment only in Finish, which follows a      *)
(* deleted copy, and copies never go back from deleted to live              *)
(* (CopiesLag).  So Restore is only asked for what is in force: the         *)
(* contract SchedulerSpec asks of its callers.                              *)
(*                                                                         *)
(* The Scheduler comes first, by itself: what it promises any caller that   *)
(* keeps the contract, whatever the Workers report.  NoDoubleAssignment is  *)
(* not inductive: Assign takes a Slot the view has as Free, so the view     *)
(* must never show a held Slot as Free.  That is HeldNotFree, which         *)
(* UpdateWorker keeps by its overlay.                                       *)
(***************************************************************************)
EXTENDS SandboxController, FiniteSetTheorems, TLAPS

-----------------------------------------------------------------------------
(* The Scheduler.                                                           *)

\* A held Slot the view knows is not Free in it.
HeldNotFree ==
  \A u \in Sandboxes :
    assignments[u] # Null =>
      (Known(assignments[u].worker, assignments[u].slot)
         => workers[assignments[u].worker][assignments[u].slot].state # "Free")

SchedulerInv == SchedulerTypeOK /\ NoDoubleAssignment /\ HeldNotFree

\* Marking an entry as taken gives an entry that is not Free.
LEMMA TakenByResult ==
  ASSUME NEW info \in Info, NEW u \in Sandboxes
  PROVE  /\ TakenBy(info, u) \in Info
         /\ TakenBy(info, u).state # "Free"
         /\ TakenBy(info, u).profile = info.profile
BY DEF TakenBy, Info

\* Overlaying an entry of a report gives an entry, not Free if the Slot is held.
LEMMA OverlayResult ==
  ASSUME NEW info \in Info \cup {Null}, NEW u \in Sandboxes \cup {Null}
  PROVE  /\ Overlay(info, u) \in Info \cup {Null}
         /\ u # Null /\ info # Null => Overlay(info, u).state # "Free"
         /\ info = Null => Overlay(info, u) = Null
<1>1. CASE info # Null /\ info.state = "Free" /\ u # Null
  BY <1>1, TakenByResult DEF Overlay
<1>2. CASE ~(info # Null /\ info.state = "Free" /\ u # Null)
  BY <1>2 DEF Overlay
<1> QED
  BY <1>1, <1>2

\* Replacing one known entry of the view keeps the types.
LEMMA ReplaceEntry ==
  ASSUME SchedulerTypeOK, NEW w \in Workers, NEW i \in SlotIds, Known(w, i), NEW info \in Info
  PROVE  /\ [workers EXCEPT ![w][i] = info] \in [Workers -> Report \cup {Null}]
         /\ workers[w] \in Report /\ workers[w][i] \in Info
<1>1. workers[w] \in Report /\ workers[w][i] \in Info
  BY DEF SchedulerTypeOK, Known, Report
<1>2. [workers[w] EXCEPT ![i] = info] \in Report
  BY <1>1 DEF Report
<1> QED
  BY <1>1, <1>2 DEF SchedulerTypeOK

-----------------------------------------------------------------------------
(* One lemma per operation: it preserves SchedulerInv.                      *)

\* UpdateWorker's overlay hides a stale Free.
LEMMA UpdateWorkerKeeps ==
  ASSUME SchedulerInv, NEW w \in Workers, NEW report \in Report, UpdateWorker(w, report)
  PROVE  SchedulerInv'
<1> DEFINE view(pick) == [i \in SlotIds |-> Overlay(report[i], pick[i])]
<1>1. PICK pick \in Picks(w) : workers' = [workers EXCEPT ![w] = view(pick)]
  BY DEF UpdateWorker
<1>2. assignments' = assignments
  BY DEF UpdateWorker
<1>3. \A i \in SlotIds : /\ report[i] \in Info \cup {Null}
                         /\ pick[i] \in Sandboxes \cup {Null}
                         /\ Holders(w, i) # {} => pick[i] \in Holders(w, i)
  BY DEF Report, Picks, Holders
<1>4. \A i \in SlotIds : /\ view(pick)[i] \in Info \cup {Null}
                         /\ Holders(w, i) # {} /\ report[i] # Null => view(pick)[i].state # "Free"
                         /\ report[i] = Null => view(pick)[i] = Null
  <2> TAKE i \in SlotIds
  <2>1. Holders(w, i) # {} => pick[i] # Null
    BY <1>3, SchedulerConstants DEF Holders
  <2> QED
    BY <1>3, <2>1, OverlayResult
<1> HIDE DEF view
<1>5. view(pick) \in Report
  BY <1>4 DEF view, Report
<1>6. SchedulerTypeOK'
  BY <1>1, <1>2, <1>5 DEF SchedulerInv, SchedulerTypeOK
<1>7. NoDoubleAssignment'
  BY <1>2 DEF SchedulerInv, NoDoubleAssignment
<1>8. HeldNotFree'
  <2> SUFFICES ASSUME NEW u \in Sandboxes, assignments[u] # Null,
                      Known(assignments[u].worker, assignments[u].slot)'
               PROVE  workers'[assignments[u].worker][assignments[u].slot].state # "Free"
    BY <1>2 DEF HeldNotFree
  <2>1. assignments[u] \in Assignment
    BY DEF SchedulerInv, SchedulerTypeOK
  <2>2. CASE assignments[u].worker = w
    <3>1. /\ assignments[u].slot \in SlotIds
          /\ assignments[u] = [worker |-> w, slot |-> assignments[u].slot]
      BY <2>1, <2>2 DEF Assignment
    <3>2. u \in Holders(w, assignments[u].slot)
      BY <3>1 DEF Holders
    <3>3. workers'[w] = view(pick)
      BY <1>1 DEF SchedulerInv, SchedulerTypeOK
    <3> QED
      BY <1>2, <1>4, <2>2, <3>1, <3>2, <3>3 DEF Known
  <2>3. CASE assignments[u].worker # w
    <3>1. workers'[assignments[u].worker] = workers[assignments[u].worker]
      BY <1>1, <2>1, <2>3 DEF SchedulerInv, SchedulerTypeOK, Assignment
    <3> QED
      BY <1>2, <3>1 DEF SchedulerInv, HeldNotFree, Known
  <2> QED
    BY <2>2, <2>3
<1> QED
  BY <1>6, <1>7, <1>8 DEF SchedulerInv

\* Forgetting a Worker forgets no assignment.
LEMMA RemoveWorkerKeeps ==
  ASSUME SchedulerInv, NEW w \in Workers, RemoveWorker(w)
  PROVE  SchedulerInv'
<1>1. SchedulerTypeOK'
  BY DEF SchedulerInv, SchedulerTypeOK, RemoveWorker
<1>2. NoDoubleAssignment'
  BY DEF SchedulerInv, NoDoubleAssignment, RemoveWorker
<1>3. HeldNotFree'
  BY DEF SchedulerInv, SchedulerTypeOK, HeldNotFree, RemoveWorker, Known, Assignment
<1> QED
  BY <1>1, <1>2, <1>3 DEF SchedulerInv

\* Assign takes a Slot nobody holds: a held one would not be Free in the view.
LEMMA AssignKeeps ==
  ASSUME SchedulerInv, NEW u \in Sandboxes, Assign(u)
  PROVE  SchedulerInv'
<1>1. CASE assignments[u] # Null
  BY <1>1 DEF Assign, schedulerVars, SchedulerInv, SchedulerTypeOK, NoDoubleAssignment, HeldNotFree, Known
<1>2. CASE assignments[u] = Null
  <2>1. PICK a \in Candidates(u) :
          /\ workers' = [workers EXCEPT ![a.worker][a.slot] = TakenBy(@, u)]
          /\ assignments' = [assignments EXCEPT ![u] = a]
    BY <1>2 DEF Assign, Best
  <2>2. /\ a \in Assignment /\ a.worker \in Workers /\ a.slot \in SlotIds
        /\ Known(a.worker, a.slot)
        /\ workers[a.worker][a.slot].state = "Free"
    BY DEF Candidates, Assignment
  <2>3. workers[a.worker] \in Report /\ workers[a.worker][a.slot] \in Info
    BY <2>2 DEF SchedulerInv, SchedulerTypeOK, Known, Report
  <2> DEFINE taken == TakenBy(workers[a.worker][a.slot], u)
  <2>4. taken \in Info /\ taken.state # "Free"
    BY <2>3, TakenByResult
  <2>5. workers' = [workers EXCEPT ![a.worker][a.slot] = taken]
    BY <2>1
  <2> HIDE DEF taken
  <2>6. SchedulerTypeOK'
    <3>1. workers' \in [Workers -> Report \cup {Null}]
      BY <2>2, <2>4, <2>5, ReplaceEntry DEF SchedulerInv
    <3> QED
      BY <2>1, <2>2, <3>1 DEF SchedulerInv, SchedulerTypeOK
  <2>7. \A v \in Sandboxes : assignments[v] # Null => assignments[v] # a
    BY <2>2 DEF SchedulerInv, HeldNotFree
  <2>8. NoDoubleAssignment'
    BY <2>1, <2>7 DEF SchedulerInv, SchedulerTypeOK, NoDoubleAssignment
  <2>9. HeldNotFree'
    <3> SUFFICES ASSUME NEW v \in Sandboxes, assignments'[v] # Null,
                        Known(assignments[v].worker, assignments[v].slot)'
                 PROVE  workers'[assignments'[v].worker][assignments'[v].slot].state # "Free"
      BY DEF HeldNotFree
    <3>1. CASE v = u
      <4>1. assignments'[v] = a
        BY <2>1, <3>1 DEF SchedulerInv, SchedulerTypeOK
      <4>2. workers'[a.worker][a.slot] = taken
        BY <2>2, <2>3, <2>5 DEF SchedulerInv, SchedulerTypeOK, Report
      <4> QED
        BY <2>4, <4>1, <4>2
    <3>2. CASE v # u
      <4>1. assignments'[v] = assignments[v] /\ assignments[v] \in Assignment
        BY <2>1, <3>2 DEF SchedulerInv, SchedulerTypeOK
      <4>2. assignments[v].worker # a.worker \/ assignments[v].slot # a.slot
        BY <2>2, <2>7, <4>1 DEF Assignment
      <4>3. Known(assignments[v].worker, assignments[v].slot)
            /\ workers'[assignments[v].worker][assignments[v].slot]
               = workers[assignments[v].worker][assignments[v].slot]
        BY <2>2, <2>3, <2>5, <4>1, <4>2 DEF SchedulerInv, SchedulerTypeOK, Report, Known, Assignment
      <4> QED
        BY <4>1, <4>3 DEF SchedulerInv, HeldNotFree
    <3> QED
      BY <3>1, <3>2
  <2> QED
    BY <2>6, <2>8, <2>9 DEF SchedulerInv
<1> QED
  BY <1>1, <1>2

\* Release frees in the view only the Slot it takes from its Sandbox, which no
\* other holds.
LEMMA ReleaseKeeps ==
  ASSUME SchedulerInv, NEW u \in Sandboxes, Release(u)
  PROVE  SchedulerInv'
<1> DEFINE a == assignments[u]
<1> DEFINE freed == [workers[a.worker][a.slot] EXCEPT !.state = "Free", !.uid = Null]
<1>1. assignments' = [assignments EXCEPT ![u] = Null]
  BY DEF Release
<1>2. NoDoubleAssignment'
  BY <1>1 DEF SchedulerInv, SchedulerTypeOK, NoDoubleAssignment
<1>3. \A v \in Sandboxes : assignments'[v] # Null =>
         v # u /\ assignments'[v] = assignments[v] /\ assignments[v] \in Assignment /\ assignments[v] # a
  BY <1>1 DEF SchedulerInv, SchedulerTypeOK, NoDoubleAssignment
<1>4. CASE workers' = workers
  <2>1. SchedulerTypeOK'
    BY <1>1, <1>4 DEF SchedulerInv, SchedulerTypeOK
  <2>2. HeldNotFree'
    BY <1>3, <1>4 DEF SchedulerInv, HeldNotFree, Known
  <2> QED
    BY <1>2, <2>1, <2>2 DEF SchedulerInv
<1>5. CASE a # Null /\ Known(a.worker, a.slot)
           /\ workers' = [workers EXCEPT ![a.worker][a.slot] = freed]
  <2>1. a \in Assignment /\ a.worker \in Workers /\ a.slot \in SlotIds
    BY <1>5 DEF SchedulerInv, SchedulerTypeOK, Assignment
  <2>2. workers[a.worker] \in Report /\ workers[a.worker][a.slot] \in Info
    BY <1>5, <2>1 DEF SchedulerInv, SchedulerTypeOK, Known, Report
  <2>3. freed \in Info
    BY <2>2 DEF Info
  <2> HIDE DEF freed
  <2>4. SchedulerTypeOK'
    <3>1. workers' \in [Workers -> Report \cup {Null}]
      BY <1>5, <2>1, <2>3, ReplaceEntry DEF SchedulerInv
    <3> QED
      BY <1>1, <3>1 DEF SchedulerInv, SchedulerTypeOK
  <2>5. HeldNotFree'
    <3> SUFFICES ASSUME NEW v \in Sandboxes, assignments'[v] # Null,
                        Known(assignments[v].worker, assignments[v].slot)'
                 PROVE  workers'[assignments'[v].worker][assignments'[v].slot].state # "Free"
      BY DEF HeldNotFree
    <3>1. /\ assignments'[v] = assignments[v] /\ assignments[v] \in Assignment
          /\ assignments[v].worker # a.worker \/ assignments[v].slot # a.slot
      BY <1>3, <2>1 DEF Assignment
    <3>2. Known(assignments[v].worker, assignments[v].slot)
          /\ workers'[assignments[v].worker][assignments[v].slot]
             = workers[assignments[v].worker][assignments[v].slot]
      BY <1>5, <2>1, <2>2, <3>1 DEF SchedulerInv, SchedulerTypeOK, Report, Known, Assignment
    <3> QED
      BY <3>1, <3>2 DEF SchedulerInv, HeldNotFree
  <2> QED
    BY <1>2, <2>4, <2>5 DEF SchedulerInv
<1> QED
  BY <1>4, <1>5 DEF Release

\* Every call of the Scheduler keeps the inductive invariant.
LEMMA SchedulerInvNext ==
  SchedulerInv /\ [SchedulerNext]_schedulerVars => SchedulerInv'
<1> SUFFICES ASSUME SchedulerInv, [SchedulerNext]_schedulerVars PROVE SchedulerInv'
  OBVIOUS
<1>1. ASSUME NEW u \in Sandboxes, Assign(u) PROVE SchedulerInv'
  BY <1>1, AssignKeeps
<1>2. ASSUME NEW u \in Sandboxes, Release(u) PROVE SchedulerInv'
  BY <1>2, ReleaseKeeps
<1>3. ASSUME UNCHANGED schedulerVars PROVE SchedulerInv'
  BY <1>3 DEF schedulerVars, SchedulerInv, SchedulerTypeOK, NoDoubleAssignment, HeldNotFree, Known
<1>4. ASSUME NEW u \in Sandboxes, Restore(u, assignments[u]) PROVE SchedulerInv'
  BY <1>3, <1>4 DEF Restore
<1>5. ASSUME NEW w \in Workers, RemoveWorker(w) PROVE SchedulerInv'
  BY <1>5, RemoveWorkerKeeps
<1>6. ASSUME NEW w \in Workers, NEW report \in Report, UpdateWorker(w, report) PROVE SchedulerInv'
  BY <1>6, UpdateWorkerKeeps
<1> QED
  BY <1>1, <1>2, <1>3, <1>4, <1>5, <1>6 DEF SchedulerNext

\* The inductive invariant holds at the start and, so, in every state.
LEMMA SchedulerInvInit == SchedulerInit => SchedulerInv
BY DEF SchedulerInit, SchedulerInv, SchedulerTypeOK, NoDoubleAssignment, HeldNotFree

LEMMA SchedulerInvariance == SchedulerSpec => []SchedulerInv
BY SchedulerInvInit, SchedulerInvNext, PTL DEF SchedulerSpec

\* The Scheduler's maps stay well-formed under any report and any order of
\* calls: an assignment names a Worker and a Slot ID, and a Slot the view has as
\* Free names no owner.  (Overlay, TakenBy, Release)
THEOREM SchedulerIsTyped == SchedulerSpec => []SchedulerTypeOK
<1>1. SchedulerInv => SchedulerTypeOK
  BY DEF SchedulerInv
<1> QED
  BY <1>1, SchedulerInvariance, PTL

\* No two Sandboxes ever hold the same Slot in the Scheduler, however late,
\* stale or wrong the Workers' reports are.  (Assign, UpdateWorker, Release)
THEOREM SlotsAreNotShared == SchedulerSpec => []NoDoubleAssignment
<1>1. SchedulerInv => NoDoubleAssignment
  BY DEF SchedulerInv
<1> QED
  BY <1>1, SchedulerInvariance, PTL

-----------------------------------------------------------------------------
(* Packing.                                                                *)

\* A Worker's busy Slots are a number: countWorkerSlots.
LEMMA BusySlotsType == \A w : BusySlots(w) \in Nat
<1> SUFFICES ASSUME NEW w PROVE BusySlots(w) \in Nat
  OBVIOUS
<1> DEFINE busy == {i \in SlotIds : Known(w, i) /\ workers[w][i].state # "Free"}
<1>1. IsFiniteSet(busy)
  BY SchedulerConstants, FS_Subset
<1>2. Cardinality(busy) \in Nat
  BY <1>1, FS_CardinalityType
<1> QED
  BY <1>2 DEF BusySlots

\* The Slot Assign takes is on a Worker in use if any candidate is: Select with
\* binPackBetter.
LEMMA BestIsPacked ==
  ASSUME NEW u \in Sandboxes, NEW a \in Best(u), BusySlots(a.worker) = 0, NEW b \in Candidates(u)
  PROVE  BusySlots(b.worker) = 0
<1>1. CASE b = a
  BY <1>1
<1>2. CASE b # a
  <2>1. BinPackBetter(a, b, Wants[u])
    BY <1>2 DEF Best
  <2>2. ~(BusySlots(a.worker) > 0)
    OBVIOUS
  <2>3. ~(BusySlots(b.worker) > 0)
    BY <2>1, <2>2 DEF BinPackBetter
  <2> QED
    BY <2>3, BusySlotsType
<1> QED
  BY <1>1, <1>2

\* An unused Worker is opened only when no Worker in use has a free Slot of the
\* requested profile.  (BinPackStrategy.Select)
THEOREM UsedWorkersArePackedFirst == SchedulerSpec => PacksUsedWorkersFirst
<1> DEFINE Packed(u) ==
      /\ assignments[u] = Null /\ assignments'[u] # Null
      /\ BusySlots(assignments'[u].worker) = 0
      => \A a \in Candidates(u) : BusySlots(a.worker) = 0
<1>1. SchedulerInv /\ [SchedulerNext]_schedulerVars => [\A u \in Sandboxes : Packed(u)]_schedulerVars
  <2> SUFFICES ASSUME SchedulerInv, SchedulerNext, NEW u \in Sandboxes,
                      assignments[u] = Null, assignments'[u] # Null,
                      BusySlots(assignments'[u].worker) = 0, NEW b \in Candidates(u)
               PROVE  BusySlots(b.worker) = 0
    OBVIOUS
  <2>1. ASSUME NEW v \in Sandboxes, Assign(v) PROVE BusySlots(b.worker) = 0
    <3>1. v = u
      BY <2>1 DEF Assign, schedulerVars, SchedulerInv, SchedulerTypeOK
    <3>2. PICK a \in Best(u) : assignments' = [assignments EXCEPT ![u] = a]
      BY <2>1, <3>1 DEF Assign
    <3>3. assignments'[u] = a
      BY <3>2 DEF SchedulerInv, SchedulerTypeOK
    <3> QED
      BY <3>3, BestIsPacked
  <2>2. ASSUME NEW v \in Sandboxes, Release(v) PROVE FALSE
    BY <2>2 DEF Release, SchedulerInv, SchedulerTypeOK
  <2>3. ASSUME NEW v \in Sandboxes, assignments[v] # Null, Restore(v, assignments[v]) PROVE FALSE
    BY <2>3 DEF Restore, schedulerVars
  <2>4. ASSUME NEW w \in Workers, RemoveWorker(w) PROVE FALSE
    BY <2>4 DEF RemoveWorker
  <2>5. ASSUME NEW w \in Workers, NEW report \in Report, UpdateWorker(w, report) PROVE FALSE
    BY <2>5 DEF UpdateWorker
  <2> QED
    BY <2>1, <2>2, <2>3, <2>4, <2>5 DEF SchedulerNext
<1> QED
  BY <1>1, SchedulerInvariance, PTL DEF SchedulerSpec, PacksUsedWorkersFirst

-----------------------------------------------------------------------------
(* The Sandbox reconciler on the Scheduler.                                 *)

\* The hypothesis of this module: the controller manager is not restarted.  A
\* restart empties the Scheduler before the assignments are restored
\* (SandboxControllerRestart.cfg shows what follows).  Pods may go and come back.
OneProcess == [][~ControllerRestart]_vars

\* A Slot that is Free on its Worker has no owner.
FreeIsBlank ==
  \A w \in Workers, i \in SlotIds :
    slotsAt[w] # Null /\ slotsAt[w][i] # Null /\ slotsAt[w][i].state = "Free" => slotsAt[w][i].uid = Null

\* The object is removed or marked deleted.
Ended(obj) == obj = Null \/ obj.deleted

\* The informer's copy lags behind the API server and never runs ahead.
CopiesLag ==
  \A u \in Sandboxes :
    /\ u \in fresh => cache[u] = api[u]
    /\ Ended(cache[u]) => Ended(api[u])

\* obj names no other Slot than the Scheduler has for u.
Agrees(obj, u) == obj.assignment # Null => assignments[u] = obj.assignment

\* A live copy of a Sandbox agrees with the Scheduler.
LiveAgrees ==
  \A u \in Sandboxes :
    /\ ~Ended(api[u]) => Agrees(api[u], u)
    /\ ~Ended(cache[u]) => Agrees(cache[u], u)

\* The Reconcile in progress: on the way up it carries what the Scheduler has,
\* on the way down the Sandbox is deleted for good.
Ascending  == rec.pc \in {"reserve", "start"} \/ (rec.pc = "write" /\ rec.then = "idle")
Descending == rec.pc \in {"stop", "release", "finish"} \/ (rec.pc = "write" /\ rec.then = "stop")

ReconcileAgrees ==
  rec.pc # "idle" =>
    /\ rec.u \in Sandboxes /\ rec.obj \in Sandbox
    /\ Calling => rec.obj.assignment # Null
    /\ Ascending => Agrees(rec.obj, rec.u)
    /\ Descending => Ended(cache[rec.u])
    /\ rec.pc = "write" /\ rec.then = "stop" => rec.obj.assignment # Null

\* A call that outlives its caller is still for the Slot its Sandbox has, if that
\* lives.
LateAgrees ==
  \A c \in Conns :
    late[c] # Null /\ late[c].op = "reserve" /\ ~Ended(api[late[c].u]) => assignments[late[c].u] = late[c].at

ControllerInv ==
  /\ TypeOK /\ SchedulerInv
  /\ FreeIsBlank /\ CopiesLag /\ LiveAgrees /\ ReconcileAgrees /\ LateAgrees
  /\ LiveOwnerIsAssigned

-----------------------------------------------------------------------------
(* Types.                                                                  *)

ReconcilerTypes ==
  /\ api \in [Sandboxes -> Sandbox \cup {Null}]
  /\ cache \in [Sandboxes -> Sandbox \cup {Null}]
  /\ fresh \subseteq Sandboxes
  /\ rec \in Reconcile

WorkerInv ==
  /\ slotsAt \in [Workers -> [SlotIds -> SlotInfo \cup {Null}] \cup {Null}]
  /\ late \in [Conns -> Request \cup {Null}]
  /\ FreeIsBlank /\ LateAgrees

PoolTypes ==
  /\ poll \in [worker: Workers, report: Report] \cup {Null}
  /\ poolReady \in BOOLEAN
  /\ disruptions \in 0..MaxDisruptions

\* The inductive invariant in these parts.
LEMMA InvParts ==
  ControllerInv <=> /\ SchedulerInv /\ ReconcilerTypes /\ WorkerInv /\ PoolTypes
                    /\ CopiesLag /\ LiveAgrees /\ ReconcileAgrees /\ LiveOwnerIsAssigned
BY DEF ControllerInv, TypeOK, SchedulerInv, ReconcilerTypes, WorkerInv, PoolTypes

\* Giving a Sandbox another phase or assignment.
LEMMA NewStatus ==
  ASSUME NEW obj \in Sandbox, NEW phase \in Phases, NEW a \in Assignment \cup {Null}
  PROVE  LET p == [obj EXCEPT !.phase = phase]
             q == [obj EXCEPT !.phase = phase, !.assignment = a] IN
         /\ p \in Sandbox /\ p.phase = phase /\ p.assignment = obj.assignment /\ p.deleted = obj.deleted
         /\ q \in Sandbox /\ q.phase = phase /\ q.assignment = a /\ q.deleted = obj.deleted
BY DEF Sandbox

\* The status writer's object.
LEMMA ToWriteTypes ==
  ASSUME NEW u \in Sandboxes, NEW obj \in Sandbox, NEW then \in {"stop", "idle"}, ToWrite(u, obj, then)
  PROVE  /\ rec' \in Reconcile /\ rec'.pc = "write" /\ rec'.u = u /\ rec'.obj = obj /\ rec'.then = then
BY DEF ToWrite, Reconcile

LEMMA IdleType == IdleRec \in Reconcile /\ IdleRec.pc = "idle"
BY DEF IdleRec, Reconcile

-----------------------------------------------------------------------------
(* The Scheduler's callers keep its contract.                              *)

\* What a Worker's answer to a poll says is a report.
LEMMA SeenType ==
  ASSUME NEW info \in SlotInfo \cup {Null}, info # Null /\ info.state = "Free" => info.uid = Null
  PROVE  Seen(info) \in Info \cup {Null}
<1>1. CASE info # Null /\ info.state # "Free"
  BY <1>1 DEF Seen, SlotInfo, Info
<1>2. CASE info # Null /\ info.state = "Free"
  BY <1>2 DEF Seen, SlotInfo, Info
<1>3. CASE info = Null
  BY <1>3 DEF Seen
<1> QED
  BY <1>1, <1>2, <1>3

\* Every step but a restart is one the Scheduler's specification allows, or
\* leaves the Scheduler alone.
LEMMA SchedulerStep ==
  ControllerInv /\ [Next]_vars /\ ~ControllerRestart => [SchedulerNext]_schedulerVars
<1> SUFFICES ASSUME ControllerInv, [Next]_vars, ~ControllerRestart
             PROVE  SchedulerNext \/ UNCHANGED schedulerVars
  BY DEF schedulerVars
<1>1. ASSUME NEW u \in Sandboxes, SyncAssign(u) PROVE SchedulerNext
  BY <1>1 DEF SyncAssign, SchedulerNext
<1>2. ASSUME NEW u \in Sandboxes, SyncStart(u) PROVE UNCHANGED schedulerVars
  <2>1. cache[u] # Null /\ ~cache[u].deleted /\ cache[u].assignment # Null /\ Restore(u, cache[u].assignment)
    BY <1>2 DEF SyncStart, Take, Managed, Live
  <2>2. assignments[u] = cache[u].assignment
    BY <2>1 DEF ControllerInv, LiveAgrees, Ended, Agrees
  <2> QED
    BY <2>1, <2>2 DEF Restore
<1>3. ASSUME Finish PROVE SchedulerNext
  BY <1>3 DEF Finish, SchedulerNext, ControllerInv, ReconcileAgrees
<1>4. ASSUME PollUpdate PROVE SchedulerNext
  BY <1>4 DEF PollUpdate, SchedulerNext, ControllerInv, TypeOK
<1>5. ASSUME NEW w \in Workers, PollRemove(w) PROVE SchedulerNext
  BY <1>5 DEF PollRemove, SchedulerNext
<1>6. ASSUME NEW u \in Sandboxes, Delete(u) \/ CacheSync(u) \/ AddFinalizer(u) \/ ReconcilePending(u) \/ SyncDelete(u)
      PROVE  UNCHANGED schedulerVars
  BY <1>6 DEF Delete, CacheSync, AddFinalizer, ReconcilePending, SyncDelete
<1>7. ASSUME WriteStatus \/ CallAnswered \/ CallFails \/ Unreachable PROVE UNCHANGED schedulerVars
  BY <1>7 DEF WriteStatus, CallAnswered, CallFails, Unreachable
<1>8. ASSUME NEW w \in Workers, PodGone(w) \/ PodStarts(w) \/ SyncTopology(w) \/ PollList(w)
      PROVE  UNCHANGED schedulerVars
  BY <1>8 DEF PodGone, PodStarts, SyncTopology, PollList
<1>9. ASSUME NEW w \in Workers, NEW i \in SlotIds, ParentSaved(w, i) PROVE UNCHANGED schedulerVars
  BY <1>9 DEF ParentSaved
<1>10. ASSUME NEW c \in Conns, LateCall(c) PROVE UNCHANGED schedulerVars
  BY <1>10 DEF LateCall
<1>11. ASSUME PoolStatus PROVE UNCHANGED schedulerVars
  BY <1>11 DEF PoolStatus
<1>12. ASSUME UNCHANGED vars PROVE UNCHANGED schedulerVars
  BY <1>12 DEF vars
<1> QED
  BY <1>1, <1>2, <1>3, <1>4, <1>5, <1>6, <1>7, <1>8, <1>9, <1>10, <1>11, <1>12 DEF Next, ReconcileStart

-----------------------------------------------------------------------------
(* What the other actors' steps leave alone.                               *)

\* Nothing about Sandboxes moves.
LEMMA ReconcilerFrame ==
  ASSUME ControllerInv, UNCHANGED <<api, cache, fresh, rec, assignments>>
  PROVE  ReconcilerTypes' /\ CopiesLag' /\ LiveAgrees' /\ ReconcileAgrees'
<1>1. ReconcilerTypes'
  BY InvParts DEF ReconcilerTypes
<1>2. CopiesLag'
  BY DEF ControllerInv, CopiesLag, Ended
<1>3. LiveAgrees'
  BY DEF ControllerInv, LiveAgrees, Ended, Agrees
<1>4. ReconcileAgrees'
  BY DEF ControllerInv, ReconcileAgrees, Ended, Agrees, Ascending, Descending, Calling, Calls
<1> QED
  BY <1>1, <1>2, <1>3, <1>4

\* Late calls stay as they are or go, no Sandbox comes to life and no
\* live one is given another Slot than it has.
LEMMA LateFrame ==
  ASSUME ControllerInv, late' \in [Conns -> Request \cup {Null}], \A c \in Conns : late'[c] \in {late[c], Null},
         \A v \in Sandboxes : ~Ended(api'[v]) =>
           ~Ended(api[v]) /\ (assignments[v] # Null => assignments'[v] = assignments[v])
  PROVE  LateAgrees'
<1> SUFFICES ASSUME NEW c \in Conns, late'[c] # Null, late'[c].op = "reserve", ~Ended(api'[late'[c].u])
             PROVE  assignments'[late'[c].u] = late'[c].at
  BY DEF LateAgrees
<1>1. late'[c] = late[c] /\ late[c] # Null
  OBVIOUS
<1>2. late[c].u \in Sandboxes /\ late[c].at \in Assignment
  BY <1>1 DEF ControllerInv, TypeOK, Request, Assignment
<1>3. late[c].at # Null
  BY <1>2, SchedulerConstants DEF Assignment
<1> QED
  BY <1>1, <1>2, <1>3 DEF ControllerInv, LateAgrees

\* Slots stay as they are too.
LEMMA WorkerFrame ==
  ASSUME ControllerInv, UNCHANGED <<slotsAt, late>>,
         \A v \in Sandboxes : ~Ended(api'[v]) =>
           ~Ended(api[v]) /\ (assignments[v] # Null => assignments'[v] = assignments[v])
  PROVE  WorkerInv' /\ LiveOwnerIsAssigned'
<1>1. WorkerInv'
  <2>1. late' \in [Conns -> Request \cup {Null}]
    BY DEF ControllerInv, TypeOK
  <2>2. LateAgrees'
    BY <2>1, LateFrame
  <2> QED
    BY <2>1, <2>2, InvParts DEF WorkerInv, FreeIsBlank
<1>2. LiveOwnerIsAssigned'
  <2> SUFFICES ASSUME NEW w \in Workers, NEW i \in SlotIds, Owner(w, i)' # Null,
                      api'[Owner(w, i)'] # Null, ~api'[Owner(w, i)'].deleted
               PROVE  assignments'[Owner(w, i)'] = [worker |-> w, slot |-> i]
    BY DEF LiveOwnerIsAssigned
  <2>1. Owner(w, i)' = Owner(w, i)
    BY DEF Owner
  <2>2. Owner(w, i) \in Sandboxes
    BY <2>1 DEF ControllerInv, TypeOK, Owner, SlotInfo
  <2>3. ~Ended(api[Owner(w, i)])
    BY <2>1, <2>2 DEF Ended
  <2>4. assignments[Owner(w, i)] = [worker |-> w, slot |-> i]
    BY <2>1, <2>3 DEF ControllerInv, LiveOwnerIsAssigned, Ended
  <2>5. [worker |-> w, slot |-> i] # Null
    BY SchedulerConstants
  <2> QED
    BY <2>1, <2>2, <2>4, <2>5 DEF Ended
<1> QED
  BY <1>1, <1>2

\* The Pool reconciler's variables.
LEMMA PoolKeeps ==
  ControllerInv /\ [Next]_vars /\ ~ControllerRestart => PoolTypes'
<1> SUFFICES ASSUME ControllerInv, [Next]_vars, ~ControllerRestart
             PROVE  PoolTypes'
  OBVIOUS
<1>0. PoolTypes
  BY InvParts
<1>1. ASSUME UNCHANGED <<poolVars, disruptions>> PROVE PoolTypes'
  BY <1>0, <1>1 DEF PoolTypes, poolVars
<1>2. ASSUME NEW w \in Workers, PollList(w) PROVE PoolTypes'
  <2> DEFINE report == [i \in SlotIds |-> Seen(slotsAt[w][i])]
  <2>1. slotsAt[w] # Null /\ poll' = [worker |-> w, report |-> report] /\ UNCHANGED <<poolReady, disruptions>>
    BY <1>2 DEF PollList
  <2>2. ASSUME NEW i \in SlotIds PROVE Seen(slotsAt[w][i]) \in Info \cup {Null}
    <3>1. slotsAt[w][i] \in SlotInfo \cup {Null}
      BY <2>1 DEF ControllerInv, TypeOK
    <3>2. slotsAt[w][i] # Null /\ slotsAt[w][i].state = "Free" => slotsAt[w][i].uid = Null
      BY <2>1 DEF ControllerInv, FreeIsBlank
    <3> QED
      BY <3>1, <3>2, SeenType
  <2>3. report \in Report
    BY <2>2 DEF Report
  <2> HIDE DEF report
  <2> QED
    BY <1>0, <2>1, <2>3 DEF PoolTypes
<1>3. ASSUME PollUpdate \/ PoolStatus PROVE PoolTypes'
  BY <1>0, <1>3 DEF PollUpdate, PoolStatus, PoolTypes
<1>4. ASSUME NEW w \in Workers, PodGone(w) PROVE PoolTypes'
  BY <1>0, <1>4, ControllerConstants DEF PodGone, PoolTypes, poolVars
<1>5. ASSUME NEW u \in Sandboxes, Delete(u) \/ CacheSync(u) \/ ReconcileStart(u) PROVE PoolTypes'
  BY <1>1, <1>5 DEF Delete, CacheSync, ReconcileStart, AddFinalizer, ReconcilePending, SyncAssign, SyncStart, SyncDelete, Take
<1>6. ASSUME WriteStatus \/ CallAnswered \/ CallFails \/ Unreachable \/ Finish PROVE PoolTypes'
  BY <1>1, <1>6 DEF WriteStatus, CallAnswered, CallFails, Unreachable, Finish
<1>7. ASSUME NEW w \in Workers, PodStarts(w) \/ SyncTopology(w) \/ PollRemove(w) PROVE PoolTypes'
  BY <1>1, <1>7 DEF PodStarts, SyncTopology, PollRemove
<1>8. ASSUME NEW w \in Workers, NEW i \in SlotIds, ParentSaved(w, i) PROVE PoolTypes'
  BY <1>1, <1>8 DEF ParentSaved
<1>9. ASSUME UNCHANGED vars PROVE PoolTypes'
  BY <1>1, <1>9 DEF vars
<1>10. ASSUME NEW c \in Conns, LateCall(c) PROVE PoolTypes'
  BY <1>1, <1>10 DEF LateCall
<1> QED
  BY <1>2, <1>3, <1>4, <1>5, <1>6, <1>7, <1>8, <1>9, <1>10 DEF Next

\* Pods and the Pool reconciler: a Pod's Slots go and come back without owners.
LEMMA PoolStepKeeps ==
  ASSUME ControllerInv,
         \/ PollUpdate \/ PoolStatus
         \/ \E w \in Workers : PodGone(w) \/ PodStarts(w) \/ SyncTopology(w) \/ PollList(w) \/ PollRemove(w)
  PROVE  /\ ReconcilerTypes' /\ CopiesLag' /\ LiveAgrees' /\ ReconcileAgrees'
         /\ WorkerInv' /\ LiveOwnerIsAssigned'
<1>1. UNCHANGED <<api, cache, fresh, rec, assignments>>
  BY DEF PollUpdate, PoolStatus, PodGone, PodStarts, SyncTopology, PollList, PollRemove, reconcilerVars,
         schedulerVars, UpdateWorker, RemoveWorker
<1>2. ReconcilerTypes' /\ CopiesLag' /\ LiveAgrees' /\ ReconcileAgrees'
  BY <1>1, ReconcilerFrame
<1>3. CASE UNCHANGED <<slotsAt, late>>
  BY <1>1, <1>2, <1>3, WorkerFrame
<1>4. late' \in [Conns -> Request \cup {Null}] /\ \A c \in Conns : late'[c] \in {late[c], Null}
  BY DEF PollUpdate, PoolStatus, PodGone, PodStarts, SyncTopology, PollList, PollRemove, ControllerInv, TypeOK
<1>5. LateAgrees'
  BY <1>1, <1>4, LateFrame
<1>6. ASSUME NEW w \in Workers, NEW new \in [SlotIds -> SlotInfo \cup {Null}] \cup {Null},
             slotsAt' = [slotsAt EXCEPT ![w] = new],
             new # Null => \A i \in SlotIds : new[i] # Null => new[i].uid = Null
      PROVE  WorkerInv' /\ LiveOwnerIsAssigned'
  <2>1. slotsAt' \in [Workers -> [SlotIds -> SlotInfo \cup {Null}] \cup {Null}]
    BY <1>6 DEF ControllerInv, TypeOK
  <2>2. slotsAt'[w] = new /\ \A v \in Workers : v # w => slotsAt'[v] = slotsAt[v]
    BY <1>6 DEF ControllerInv, TypeOK
  <2>3. FreeIsBlank'
    BY <1>6, <2>2 DEF ControllerInv, FreeIsBlank
  <2>4. ASSUME NEW v \in Workers, NEW i \in SlotIds, Owner(v, i)' # Null
        PROVE  Owner(v, i)' = Owner(v, i)
    BY <1>6, <2>2, <2>4 DEF Owner
  <2>5. LiveOwnerIsAssigned'
    BY <1>1, <2>4 DEF ControllerInv, LiveOwnerIsAssigned
  <2> QED
    BY <1>4, <1>5, <2>1, <2>3, <2>5 DEF WorkerInv
<1>7. ASSUME NEW w \in Workers, PodGone(w) PROVE WorkerInv' /\ LiveOwnerIsAssigned'
  BY <1>6, <1>7 DEF PodGone
<1>8. ASSUME NEW w \in Workers, PodStarts(w) PROVE WorkerInv' /\ LiveOwnerIsAssigned'
  <2>1. NoSlots \in [SlotIds -> SlotInfo \cup {Null}] /\ \A i \in SlotIds : NoSlots[i] = Null
    BY DEF NoSlots
  <2> QED
    BY <1>6, <1>8, <2>1 DEF PodStarts
<1>9. ASSUME NEW w \in Workers, SyncTopology(w) PROVE WorkerInv' /\ LiveOwnerIsAssigned'
  <2> DEFINE new == [i \in SlotIds |-> FreeInfo(i)]
  <2>1. \A i \in SlotIds : FreeInfo(i) \in SlotInfo /\ FreeInfo(i).uid = Null
    BY ControllerConstants DEF FreeInfo, SlotInfo
  <2>2. new \in [SlotIds -> SlotInfo \cup {Null}] /\ \A i \in SlotIds : new[i].uid = Null
    BY <2>1
  <2>3. slotsAt' = [slotsAt EXCEPT ![w] = new]
    BY <1>9 DEF SyncTopology
  <2> HIDE DEF new
  <2> QED
    BY <1>6, <2>2, <2>3
<1> QED
  BY <1>2, <1>3, <1>7, <1>8, <1>9 DEF PollUpdate, PoolStatus, PollList, PollRemove

\* Saving a parent leaves its Slot with it.
LEMMA ParentSavedKeeps ==
  ASSUME ControllerInv, NEW w \in Workers, NEW i \in SlotIds, ParentSaved(w, i)
  PROVE  /\ ReconcilerTypes' /\ CopiesLag' /\ LiveAgrees' /\ ReconcileAgrees'
         /\ WorkerInv' /\ LiveOwnerIsAssigned'
<1>1. /\ UNCHANGED <<api, cache, fresh, rec, assignments>>
      /\ slotsAt[w] # Null /\ slotsAt[w][i] # Null
      /\ slotsAt' = [slotsAt EXCEPT ![w] = [slotsAt[w] EXCEPT ![i] = SavedAway(slotsAt[w][i])]]
  BY DEF ParentSaved, reconcilerVars, schedulerVars
<1>2. ReconcilerTypes' /\ CopiesLag' /\ LiveAgrees' /\ ReconcileAgrees'
  BY <1>1, ReconcilerFrame
<1>3. /\ slotsAt \in [Workers -> [SlotIds -> SlotInfo \cup {Null}] \cup {Null}]
      /\ slotsAt[w] \in [SlotIds -> SlotInfo \cup {Null}] /\ slotsAt[w][i] \in SlotInfo
  BY <1>1 DEF ControllerInv, TypeOK
<1>4. /\ SavedAway(slotsAt[w][i]) \in SlotInfo
      /\ SavedAway(slotsAt[w][i]).uid = slotsAt[w][i].uid /\ SavedAway(slotsAt[w][i]).state = "Failed"
  BY <1>3 DEF SavedAway, SlotInfo
<1> DEFINE saved == SavedAway(slotsAt[w][i])
           new   == [slotsAt[w] EXCEPT ![i] = saved]
<1> HIDE DEF saved
<1>5. new \in [SlotIds -> SlotInfo \cup {Null}] /\ new[i] = saved /\ \A j \in SlotIds : j # i => new[j] = slotsAt[w][j]
  BY <1>3, <1>4 DEF saved
<1>6. slotsAt' = [slotsAt EXCEPT ![w] = new]
  BY <1>1 DEF saved
<1> HIDE DEF new
<1>7. /\ slotsAt' \in [Workers -> [SlotIds -> SlotInfo \cup {Null}] \cup {Null}]
      /\ slotsAt'[w] = new /\ \A v \in Workers : v # w => slotsAt'[v] = slotsAt[v]
  BY <1>3, <1>5, <1>6
<1>8. WorkerInv'
  <2>1. FreeIsBlank'
    BY <1>4, <1>5, <1>7, <1>1 DEF ControllerInv, FreeIsBlank, saved
  <2>2. late' \in [Conns -> Request \cup {Null}] /\ \A c \in Conns : late'[c] \in {late[c], Null}
    BY DEF ParentSaved, ControllerInv, TypeOK
  <2>3. LateAgrees'
    BY <1>1, <2>2, LateFrame
  <2> QED
    BY <1>7, <2>1, <2>2, <2>3 DEF WorkerInv
<1>9. ASSUME NEW v \in Workers, NEW j \in SlotIds, Owner(v, j)' # Null PROVE Owner(v, j)' = Owner(v, j)
  BY <1>1, <1>4, <1>5, <1>7, <1>9 DEF Owner, saved
<1>10. LiveOwnerIsAssigned'
  BY <1>1, <1>9 DEF ControllerInv, LiveOwnerIsAssigned
<1> QED
  BY <1>2, <1>8, <1>10

-----------------------------------------------------------------------------
(* The user and the informer.                                              *)

LEMMA DeleteKeeps ==
  ASSUME ControllerInv, NEW u \in Sandboxes, Delete(u)
  PROVE  /\ ReconcilerTypes' /\ CopiesLag' /\ LiveAgrees' /\ ReconcileAgrees'
         /\ WorkerInv' /\ LiveOwnerIsAssigned'
<1>0. ReconcilerTypes
  BY InvParts
<1> DEFINE new == IF api[u].finalizer THEN [api[u] EXCEPT !.deleted = TRUE] ELSE Null
<1>1. new \in Sandbox \cup {Null} /\ Ended(new)
  <2>1. api[u] \in Sandbox
    BY <1>0 DEF ReconcilerTypes, Delete
  <2> QED
    BY <2>1 DEF Sandbox, Ended
<1>2. /\ api' = [api EXCEPT ![u] = new] /\ fresh' = fresh \ {u}
      /\ UNCHANGED <<cache, slotsAt, late, assignments>>
  BY DEF Delete, schedulerVars
<1> HIDE DEF new
<1>3. api' \in [Sandboxes -> Sandbox \cup {Null}]
  BY <1>0, <1>1, <1>2 DEF ReconcilerTypes
<1>4. api'[u] = new /\ \A v \in Sandboxes : v # u => api'[v] = api[v]
  BY <1>0, <1>2 DEF ReconcilerTypes
<1>5. /\ rec' \in Reconcile
      /\ rec'.pc = rec.pc /\ rec'.u = rec.u /\ rec'.obj = rec.obj /\ rec'.then = rec.then
  BY <1>0 DEF ReconcilerTypes, Reconcile, Delete
<1>6. ReconcilerTypes'
  BY <1>0, <1>2, <1>3, <1>5 DEF ReconcilerTypes
<1>7. CopiesLag'
  BY <1>1, <1>2, <1>4 DEF ControllerInv, CopiesLag
<1>8. LiveAgrees'
  BY <1>1, <1>2, <1>4 DEF ControllerInv, LiveAgrees, Agrees
<1>9. ReconcileAgrees'
  BY <1>2, <1>5 DEF ControllerInv, ReconcileAgrees, Ascending, Descending, Calling, Calls, Agrees
<1>10. WorkerInv' /\ LiveOwnerIsAssigned'
  BY <1>1, <1>2, <1>4, WorkerFrame
<1> QED
  BY <1>6, <1>7, <1>8, <1>9, <1>10

LEMMA CacheSyncKeeps ==
  ASSUME ControllerInv, NEW u \in Sandboxes, CacheSync(u)
  PROVE  /\ ReconcilerTypes' /\ CopiesLag' /\ LiveAgrees' /\ ReconcileAgrees'
         /\ WorkerInv' /\ LiveOwnerIsAssigned'
<1>0. ReconcilerTypes
  BY InvParts
<1>1. /\ cache' = [cache EXCEPT ![u] = api[u]] /\ fresh' = fresh \cup {u}
      /\ UNCHANGED <<api, rec, slotsAt, late, assignments>>
  BY DEF CacheSync, schedulerVars
<1>2. cache' \in [Sandboxes -> Sandbox \cup {Null}]
  BY <1>0, <1>1 DEF ReconcilerTypes
<1>3. cache'[u] = api[u] /\ \A v \in Sandboxes : v # u => cache'[v] = cache[v]
  BY <1>0, <1>1 DEF ReconcilerTypes
<1>4. ReconcilerTypes'
  BY <1>0, <1>1, <1>2 DEF ReconcilerTypes
<1>5. CopiesLag'
  BY <1>1, <1>3 DEF ControllerInv, CopiesLag
<1>6. LiveAgrees'
  BY <1>1, <1>3 DEF ControllerInv, LiveAgrees, Agrees
<1>7. ReconcileAgrees'
  <2>1. \A v \in Sandboxes : Ended(cache[v]) => Ended(cache'[v])
    BY <1>3 DEF ControllerInv, CopiesLag
  <2> QED
    BY <1>1, <2>1 DEF ControllerInv, ReconcileAgrees, Ascending, Descending, Calling, Calls, Agrees
<1>8. WorkerInv' /\ LiveOwnerIsAssigned'
  BY <1>1, WorkerFrame
<1> QED
  BY <1>4, <1>5, <1>6, <1>7, <1>8

-----------------------------------------------------------------------------
(* Reconcile up to its first call or write.                                *)

LEMMA AddFinalizerKeeps ==
  ASSUME ControllerInv, NEW u \in Sandboxes, AddFinalizer(u)
  PROVE  /\ ReconcilerTypes' /\ CopiesLag' /\ LiveAgrees' /\ ReconcileAgrees'
         /\ WorkerInv' /\ LiveOwnerIsAssigned'
<1>0. ReconcilerTypes
  BY InvParts
<1>1. cache[u] = api[u] /\ ~Ended(api[u]) /\ api[u] \in Sandbox
  BY <1>0 DEF ControllerInv, CopiesLag, AddFinalizer, Take, Live, Ended, ReconcilerTypes
<1> DEFINE new == [api[u] EXCEPT !.finalizer = TRUE]
<1>2. new \in Sandbox /\ new.deleted = api[u].deleted /\ new.assignment = api[u].assignment
  BY <1>1 DEF Sandbox
<1>3. /\ api' = [api EXCEPT ![u] = new] /\ fresh' = fresh \ {u}
      /\ UNCHANGED <<cache, rec, slotsAt, late, assignments>>
  BY DEF AddFinalizer, schedulerVars, Take
<1> HIDE DEF new
<1>4. api' \in [Sandboxes -> Sandbox \cup {Null}]
  BY <1>0, <1>2, <1>3 DEF ReconcilerTypes
<1>5. api'[u] = new /\ \A v \in Sandboxes : v # u => api'[v] = api[v]
  BY <1>0, <1>3 DEF ReconcilerTypes
<1>6. ReconcilerTypes'
  BY <1>0, <1>3, <1>4 DEF ReconcilerTypes
<1>7. CopiesLag'
  BY <1>1, <1>3, <1>5 DEF ControllerInv, CopiesLag
<1>8. LiveAgrees'
  BY <1>1, <1>2, <1>3, <1>5 DEF ControllerInv, LiveAgrees, Agrees
<1>9. ReconcileAgrees'
  BY <1>3 DEF ControllerInv, ReconcileAgrees, Ascending, Descending, Calling, Calls, Agrees
<1>10. WorkerInv' /\ LiveOwnerIsAssigned'
  BY <1>1, <1>3, <1>5, WorkerFrame
<1> QED
  BY <1>6, <1>7, <1>8, <1>9, <1>10

\* A step that moves only the Reconcile call.
LEMMA RecStep ==
  ASSUME ControllerInv, UNCHANGED <<api, cache, fresh, slotsAt, late, assignments>>, rec' \in Reconcile, ReconcileAgrees'
  PROVE  /\ ReconcilerTypes' /\ CopiesLag' /\ LiveAgrees' /\ ReconcileAgrees'
         /\ WorkerInv' /\ LiveOwnerIsAssigned'
<1>1. ReconcilerTypes'
  BY InvParts DEF ReconcilerTypes
<1>2. CopiesLag' /\ LiveAgrees'
  BY DEF ControllerInv, CopiesLag, LiveAgrees, Agrees
<1>3. WorkerInv' /\ LiveOwnerIsAssigned'
  BY WorkerFrame
<1> QED
  BY <1>1, <1>2, <1>3

LEMMA ReconcilePendingKeeps ==
  ASSUME ControllerInv, NEW u \in Sandboxes, ReconcilePending(u)
  PROVE  /\ ReconcilerTypes' /\ CopiesLag' /\ LiveAgrees' /\ ReconcileAgrees'
         /\ WorkerInv' /\ LiveOwnerIsAssigned'
<1> DEFINE obj == [cache[u] EXCEPT !.phase = "Pending"]
<1>1. cache[u] \in Sandbox /\ ~Ended(cache[u])
  BY DEF ControllerInv, TypeOK, ReconcilePending, Take, Managed, Live, Ended
<1>2. obj \in Sandbox /\ obj.assignment = cache[u].assignment
  BY <1>1, NewStatus DEF Phases
<1>3. ToWrite(u, obj, "idle") /\ UNCHANGED <<api, cache, fresh, slotsAt, late, assignments>>
  BY DEF ReconcilePending, Take, schedulerVars
<1> HIDE DEF obj
<1>4. rec' \in Reconcile /\ rec'.pc = "write" /\ rec'.u = u /\ rec'.obj = obj /\ rec'.then = "idle"
  BY <1>2, <1>3, ToWriteTypes
<1>5. ReconcileAgrees'
  BY <1>1, <1>2, <1>3, <1>4 DEF ControllerInv, ReconcileAgrees, Ascending, Descending, Calling, Calls, Agrees, LiveAgrees
<1> QED
  BY <1>3, <1>4, <1>5, RecStep

LEMMA SyncStartKeeps ==
  ASSUME ControllerInv, NEW u \in Sandboxes, SyncStart(u)
  PROVE  /\ ReconcilerTypes' /\ CopiesLag' /\ LiveAgrees' /\ ReconcileAgrees'
         /\ WorkerInv' /\ LiveOwnerIsAssigned'
<1>1. cache[u] \in Sandbox /\ ~Ended(cache[u]) /\ cache[u].assignment # Null
  BY DEF ControllerInv, TypeOK, SyncStart, Take, Managed, Live, Ended
<1>2. assignments[u] = cache[u].assignment
  BY <1>1 DEF ControllerInv, LiveAgrees, Agrees
<1>3. UNCHANGED <<api, cache, fresh, slotsAt, late, assignments>>
  BY <1>2 DEF SyncStart, Restore, schedulerVars, Take
<1>4. /\ rec' \in Reconcile /\ rec'.pc = "reserve" /\ rec'.u = u /\ rec'.obj = cache[u] /\ rec'.then = "idle"
  BY <1>1 DEF SyncStart, Reconcile
<1>5. ReconcileAgrees'
  BY <1>1, <1>2, <1>3, <1>4 DEF ReconcileAgrees, Ascending, Descending, Calling, Calls, Agrees
<1> QED
  BY <1>3, <1>4, <1>5, RecStep

LEMMA SyncDeleteKeeps ==
  ASSUME ControllerInv, NEW u \in Sandboxes, SyncDelete(u)
  PROVE  /\ ReconcilerTypes' /\ CopiesLag' /\ LiveAgrees' /\ ReconcileAgrees'
         /\ WorkerInv' /\ LiveOwnerIsAssigned'
<1>1. cache[u] \in Sandbox /\ Ended(cache[u])
  BY DEF ControllerInv, TypeOK, SyncDelete, Take, Ended
<1>2. UNCHANGED <<api, cache, fresh, slotsAt, late, assignments>>
  BY DEF SyncDelete, schedulerVars, Take
<1>3. CASE cache[u].assignment # Null
  <2> DEFINE obj == [cache[u] EXCEPT !.phase = "Stopping"]
  <2>1. obj \in Sandbox /\ obj.assignment = cache[u].assignment
    BY <1>1, NewStatus DEF Phases
  <2>2. ToWrite(u, obj, "stop")
    BY <1>3 DEF SyncDelete
  <2> HIDE DEF obj
  <2>3. rec' \in Reconcile /\ rec'.pc = "write" /\ rec'.u = u /\ rec'.obj = obj /\ rec'.then = "stop"
    BY <2>1, <2>2, ToWriteTypes
  <2>4. ReconcileAgrees'
    BY <1>1, <1>2, <1>3, <2>1, <2>3 DEF ReconcileAgrees, Ascending, Descending, Calling, Calls
  <2> QED
    BY <1>2, <2>3, <2>4, RecStep
<1>4. CASE cache[u].assignment = Null
  <2>1. rec' \in Reconcile /\ rec'.pc = "finish" /\ rec'.u = u /\ rec'.obj = cache[u]
    <3> DEFINE b == u \in fresh
    <3>1. rec' = [pc |-> "finish", u |-> u, obj |-> cache[u], current |-> b, then |-> "idle"]
      BY <1>4, Zenon DEF SyncDelete
    <3>2. b \in BOOLEAN
      OBVIOUS
    <3> HIDE DEF b
    <3> QED
      BY <1>1, <3>1, <3>2 DEF Reconcile
  <2>2. ReconcileAgrees'
    BY <1>1, <1>2, <2>1 DEF ReconcileAgrees, Ascending, Descending, Calling, Calls
  <2> QED
    BY <1>2, <2>1, <2>2, RecStep
<1> QED
  BY <1>3, <1>4

\* syncAssign: the Scheduler answers with what u has, or with a Slot u is given
\* now; u had none before, so no copy of u names another.
LEMMA SyncAssignKeeps ==
  ASSUME ControllerInv, NEW u \in Sandboxes, SyncAssign(u)
  PROVE  /\ ReconcilerTypes' /\ CopiesLag' /\ LiveAgrees' /\ ReconcileAgrees'
         /\ WorkerInv' /\ LiveOwnerIsAssigned'
<1>0. ReconcilerTypes
  BY InvParts
<1>1. cache[u] \in Sandbox /\ ~Ended(cache[u])
  BY DEF ControllerInv, TypeOK, SyncAssign, Take, Managed, Live, Ended
<1>2. UNCHANGED <<api, cache, fresh, slotsAt, late>> /\ Assign(u)
  BY DEF SyncAssign, Take
<1>3. /\ assignments' \in [Sandboxes -> Assignment \cup {Null}]
      /\ \A v \in Sandboxes : assignments[v] # Null => assignments'[v] = assignments[v]
  <2>1. CASE assignments[u] # Null
    BY <1>2, <2>1 DEF Assign, schedulerVars, ControllerInv, TypeOK, SchedulerTypeOK
  <2>2. CASE assignments[u] = Null
    <3>1. PICK a \in Best(u) : assignments' = [assignments EXCEPT ![u] = a]
      BY <1>2, <2>2 DEF Assign
    <3>2. a \in Assignment
      BY DEF Best, Candidates
    <3> QED
      BY <2>2, <3>1, <3>2 DEF ControllerInv, TypeOK, SchedulerTypeOK
  <2> QED
    BY <2>1, <2>2
<1> DEFINE a == assignments'[u]
           obj == [cache[u] EXCEPT !.phase = "Starting", !.assignment = a]
<1>4. obj \in Sandbox /\ obj.assignment = a
  <2>1. a \in Assignment \cup {Null} /\ "Starting" \in Phases
    BY <1>3 DEF Phases
  <2> HIDE DEF a
  <2> QED
    BY <1>1, <2>1 DEF Sandbox
<1>5. ToWrite(u, obj, "idle")
  BY DEF SyncAssign
<1> HIDE DEF obj
<1>6. rec' \in Reconcile /\ rec'.pc = "write" /\ rec'.u = u /\ rec'.obj = obj /\ rec'.then = "idle"
  BY <1>4, <1>5, ToWriteTypes
<1>7. ReconcileAgrees'
  BY <1>4, <1>6 DEF ReconcileAgrees, Ascending, Descending, Calling, Calls, Agrees
<1>8. ReconcilerTypes'
  BY <1>0, <1>2, <1>6 DEF ReconcilerTypes
<1>9. CopiesLag'
  BY <1>2 DEF ControllerInv, CopiesLag
<1>10. LiveAgrees'
  BY <1>2, <1>3 DEF ControllerInv, LiveAgrees, Agrees
<1>11. WorkerInv' /\ LiveOwnerIsAssigned'
  BY <1>2, <1>3, WorkerFrame
<1> QED
  BY <1>7, <1>8, <1>9, <1>10, <1>11

-----------------------------------------------------------------------------
(* The status write.                                                       *)

LEMMA WriteStatusKeeps ==
  ASSUME ControllerInv, WriteStatus
  PROVE  /\ ReconcilerTypes' /\ CopiesLag' /\ LiveAgrees' /\ ReconcileAgrees'
         /\ WorkerInv' /\ LiveOwnerIsAssigned'
<1> DEFINE u == rec.u
           desired == WithStatus(cache[u], rec.obj)
<1>0. ReconcilerTypes
  BY InvParts
<1>1. rec.pc = "write" /\ UNCHANGED <<cache, slotsAt, late, assignments>>
  BY DEF WriteStatus, schedulerVars
<1>2. u \in Sandboxes /\ rec.obj \in Sandbox /\ rec \in Reconcile
  BY <1>0, <1>1 DEF ControllerInv, ReconcileAgrees, ReconcilerTypes
<1>3. cache[u] # Null => /\ desired \in Sandbox /\ desired.deleted = cache[u].deleted
                         /\ desired.assignment = rec.obj.assignment
  BY <1>0, <1>2 DEF ReconcilerTypes, WithStatus, Sandbox
<1>4. rec.then = "stop" => Ended(cache[u]) /\ rec.obj.assignment # Null
  BY <1>1 DEF ControllerInv, ReconcileAgrees, Descending
<1>5. rec.then # "stop" => Agrees(rec.obj, u)
  BY <1>1, <1>2 DEF ControllerInv, ReconcileAgrees, Ascending, Reconcile
<1>6. ASSUME NEW obj \in Sandbox, obj.assignment = rec.obj.assignment, NEW current \in BOOLEAN, Continue(obj, current)
      PROVE  rec' \in Reconcile /\ ReconcileAgrees'
  <2>1. CASE rec.then = "stop"
    <3>1. rec' = [rec EXCEPT !.pc = "stop", !.obj = obj, !.current = current]
      BY <1>6, <2>1 DEF Continue
    <3>2. rec' \in Reconcile /\ rec'.pc = "stop" /\ rec'.u = u /\ rec'.obj = obj /\ rec'.then = "stop"
      BY <1>2, <1>6, <2>1, <3>1 DEF Reconcile
    <3>3. Ended(cache'[u])
      BY <1>1, <1>4, <2>1
    <3> HIDE DEF u
    <3> QED
      BY <1>2, <1>4, <1>6, <2>1, <3>2, <3>3 DEF ReconcileAgrees, Calling, Calls, Ascending, Descending
  <2>2. CASE rec.then # "stop"
    BY <1>6, <2>2, IdleType DEF Continue, ReconcileAgrees
  <2> QED
    BY <2>1, <2>2
<1>7. CASE cache[u] # Null /\ desired = cache[u] /\ Continue(cache[u], u \in fresh) /\ UNCHANGED <<api, fresh>>
  <2> DEFINE b == u \in fresh
  <2>1. b \in BOOLEAN /\ Continue(cache[u], b)
    BY <1>7
  <2>2. cache[u] \in Sandbox /\ cache[u].assignment = rec.obj.assignment
    BY <1>3, <1>7
  <2> HIDE DEF b, u
  <2>3. rec' \in Reconcile /\ ReconcileAgrees'
    BY <1>6, <2>1, <2>2
  <2> QED
    BY <1>1, <1>7, <2>3, RecStep
<1>8. CASE /\ cache[u] # Null /\ desired # cache[u] /\ u \in fresh
           /\ api' = [api EXCEPT ![u] = desired] /\ fresh' = fresh \ {u} /\ Continue(desired, TRUE)
  <2>1. rec' \in Reconcile /\ ReconcileAgrees'
    BY <1>3, <1>6, <1>8
  <2>2. cache[u] = api[u]
    BY <1>2, <1>8 DEF ControllerInv, CopiesLag
  <2> HIDE DEF u, desired
  <2>3. api' \in [Sandboxes -> Sandbox \cup {Null}]
    BY <1>0, <1>2, <1>3, <1>8 DEF ReconcilerTypes
  <2>4. api'[u] = desired /\ \A v \in Sandboxes : v # u => api'[v] = api[v]
    BY <1>0, <1>2, <1>8 DEF ReconcilerTypes
  <2>5. ReconcilerTypes'
    BY <1>0, <1>1, <1>8, <2>1, <2>3 DEF ReconcilerTypes
  <2>6. ~Ended(desired) => ~Ended(api[u]) /\ Agrees(desired, u)
    BY <1>3, <1>4, <1>5, <1>8, <2>2 DEF Ended, Agrees
  <2>7. CopiesLag'
    <3>1. Ended(cache[u]) => Ended(desired)
      BY <1>3, <1>8 DEF Ended
    <3> QED
      BY <1>1, <1>8, <2>4, <3>1 DEF ControllerInv, CopiesLag
  <2>8. LiveAgrees'
    BY <1>1, <2>4, <2>6 DEF ControllerInv, LiveAgrees, Agrees
  <2>9. WorkerInv' /\ LiveOwnerIsAssigned'
    BY <1>1, <2>4, <2>6, WorkerFrame
  <2> QED
    BY <2>1, <2>5, <2>7, <2>8, <2>9
<1>9. CASE Finished /\ UNCHANGED <<api, fresh>>
  BY <1>1, <1>9, IdleType, RecStep DEF Finished, ReconcileAgrees
<1> QED
  BY <1>7, <1>8, <1>9 DEF WriteStatus

-----------------------------------------------------------------------------
(* Worker calls.                                                           *)

\* Giving up a call: the reconciler writes what it has, or returns.
LEMMA GiveUpKeeps ==
  ASSUME ControllerInv, Calling, NEW phase \in Phases, GiveUp(phase), UNCHANGED <<cache, assignments>>
  PROVE  rec' \in Reconcile /\ ReconcileAgrees'
<1>1. rec.u \in Sandboxes /\ rec.obj \in Sandbox
  BY DEF ControllerInv, ReconcileAgrees, Calling, Calls
<1>2. CASE rec.pc \in {"reserve", "start"}
  <2> DEFINE u == rec.u
             obj == [rec.obj EXCEPT !.phase = phase]
  <2>1. obj \in Sandbox /\ obj.assignment = rec.obj.assignment
    BY <1>1, NewStatus
  <2>2. ToWrite(u, obj, "idle")
    BY <1>2 DEF GiveUp
  <2>3. Agrees(rec.obj, u)
    BY <1>2 DEF ControllerInv, ReconcileAgrees, Ascending
  <2> HIDE DEF obj, u
  <2>4. rec' \in Reconcile /\ rec'.pc = "write" /\ rec'.u = u /\ rec'.obj = obj /\ rec'.then = "idle"
    BY <1>1, <2>1, <2>2, ToWriteTypes DEF u
  <2>5. u \in Sandboxes
    BY <1>1 DEF u
  <2> QED
    BY <2>1, <2>3, <2>4, <2>5 DEF ReconcileAgrees, Ascending, Descending, Calling, Calls, Agrees
<1>3. CASE rec.pc \notin {"reserve", "start"}
  BY <1>3, IdleType DEF GiveUp, Finished, ReconcileAgrees
<1> QED
  BY <1>2, <1>3

\* What an answer makes of the Reconcile call.
LEMMA AfterAnswerKeeps ==
  ASSUME ControllerInv, Calling, NEW res \in {"ok", "404", "409", "500"}, AfterAnswer(res),
         UNCHANGED <<cache, assignments>>
  PROVE  rec' \in Reconcile /\ ReconcileAgrees'
<1>1. rec.u \in Sandboxes /\ rec.obj \in Sandbox /\ rec \in Reconcile /\ rec.obj.assignment # Null
  BY DEF ControllerInv, ReconcileAgrees, Calling, Calls, TypeOK
<1>2. ASSUME NEW pc \in {"start", "release", "finish"}, rec' = [rec EXCEPT !.pc = pc],
             pc = "start" => rec.pc = "reserve", pc # "start" => rec.pc \in {"stop", "release"}
      PROVE  rec' \in Reconcile /\ ReconcileAgrees'
  <2>1. rec' \in Reconcile /\ rec'.pc = pc /\ rec'.u = rec.u /\ rec'.obj = rec.obj
    BY <1>1, <1>2 DEF Reconcile
  <2>2. pc = "start" => Agrees(rec.obj, rec.u)
    BY <1>2 DEF ControllerInv, ReconcileAgrees, Ascending
  <2>3. pc # "start" => Ended(cache[rec.u])
    BY <1>2 DEF ControllerInv, ReconcileAgrees, Descending
  <2> QED
    BY <1>1, <1>2, <2>1, <2>2, <2>3 DEF ReconcileAgrees, Ascending, Descending, Calling, Calls, Agrees
<1>3. CASE res = "ok" /\ rec.pc = "reserve"
  BY <1>2, <1>3 DEF AfterAnswer
<1>4. CASE res = "ok" /\ rec.pc = "start"
  <2>1. GiveUp("Running")
    BY <1>4 DEF AfterAnswer, GiveUp
  <2> QED
    BY <2>1, GiveUpKeeps DEF Phases
<1>5. CASE res = "ok" /\ rec.pc = "stop"
  BY <1>2, <1>5 DEF AfterAnswer
<1>6. CASE res = "ok" /\ rec.pc = "release"
  BY <1>2, <1>6 DEF AfterAnswer
<1>7. CASE res \in {"404", "409"}
  <2>1. GiveUp("Failed")
    BY <1>7 DEF AfterAnswer
  <2> QED
    BY <2>1, GiveUpKeeps DEF Phases
<1>8. CASE res = "500"
  <2> DEFINE phase == rec.obj.phase
  <2>1. GiveUp(phase)
    BY <1>8 DEF AfterAnswer
  <2>2. phase \in Phases
    BY <1>1 DEF Sandbox
  <2> HIDE DEF phase
  <2> QED
    BY <2>1, <2>2, GiveUpKeeps
<1> QED
  BY <1>3, <1>4, <1>5, <1>6, <1>7, <1>8 DEF Calling, Calls

\* A Slot as its Worker may have it, and what a call of u may make of it: only
\* ReserveSlot gives it to u, nothing gives it to anybody else.
Proper(info) == info \in SlotInfo \cup {Null} /\ (info # Null /\ info.state = "Free" => info.uid = Null)

Outcome(op, u, info, next) ==
  /\ Proper(next)
  /\ next # Null => \/ next.uid = Null
                    \/ info # Null /\ next.uid = info.uid
                    \/ op = "reserve" /\ next.uid = u

LEMMA SlotAnswerResult ==
  ASSUME NEW op \in {"reserve", "start", "stop", "release"}, NEW u \in Sandboxes, NEW info, Proper(info)
  PROVE  /\ SlotAnswer(op, info, u).res \in {"ok", "404", "409", "500"}
         /\ Outcome(op, u, info, SlotAnswer(op, info, u).info)
<1>1. CASE info = Null
  BY <1>1 DEF SlotAnswer, Answer, Outcome, Proper
<1>2. CASE info # Null /\ op = "reserve"
  BY <1>2 DEF SlotAnswer, Answer, Outcome, Proper, ReserveAnswer, ReservedFor, SlotInfo
<1>3. CASE info # Null /\ op = "start"
  BY <1>3 DEF SlotAnswer, Answer, Outcome, Proper, StartAnswer, SlotInfo
<1>4. CASE info # Null /\ op = "stop"
  BY <1>4 DEF SlotAnswer, Answer, Outcome, Proper, Cleanup, SlotInfo
<1>5. CASE info # Null /\ op = "release"
  BY <1>5 DEF SlotAnswer, Answer, Outcome, Proper, Cleanup, SlotInfo
<1> QED
  BY <1>1, <1>2, <1>3, <1>4, <1>5

LEMMA RuntimeErrorResult ==
  ASSUME NEW op \in {"reserve", "start", "stop", "release"}, NEW u \in Sandboxes, NEW info, Proper(info),
         NEW a \in RuntimeErrors(op, info, u)
  PROVE  Outcome(op, u, info, a.info)
<1>1. info # Null /\ info.uid = u /\ info \in SlotInfo /\ info.state # "Free"
  BY SchedulerConstants DEF RuntimeErrors, Proper
<1>2. PICK s \in {info.state, "Reserved", "Failed"} : a = Answer("500", [info EXCEPT !.state = s])
  BY DEF RuntimeErrors
<1> QED
  BY <1>1, <1>2 DEF Answer, Outcome, Proper, SlotInfo

\* The Slot a call is about.
LEMMA TargetSlot ==
  ASSUME ControllerInv, Calling
  PROVE  /\ Target \in Assignment /\ rec.u \in Sandboxes
         /\ rec.pc = "reserve" => assignments[rec.u] = Target
         /\ slotsAt[Target.worker] # Null => Proper(SlotAt(Target))
<1>1. rec.u \in Sandboxes /\ rec.obj \in Sandbox /\ rec.obj.assignment # Null
  BY DEF ControllerInv, ReconcileAgrees, Calling, Calls
<1>2. Target \in Assignment
  BY <1>1 DEF Target, Sandbox
<1>3. rec.pc = "reserve" => assignments[rec.u] = Target
  BY <1>1 DEF ControllerInv, ReconcileAgrees, Ascending, Agrees, Target
<1>4. Target.worker \in Workers /\ Target.slot \in SlotIds
  BY <1>2 DEF Assignment
<1>5. slotsAt[Target.worker] # Null => Proper(SlotAt(Target))
  BY <1>4 DEF ControllerInv, TypeOK, FreeIsBlank, Proper, SlotAt
<1> QED
  BY <1>1, <1>2, <1>3, <1>5

\* What becomes of a Slot that a call reaches keeps owners and assignments
\* together, if a ReserveSlot for a live Sandbox is for the Slot it has.
LEMMA BecomesKeeps ==
  ASSUME ControllerInv, NEW op, NEW u \in Sandboxes, NEW at \in Assignment, slotsAt[at.worker] # Null,
         op = "reserve" /\ ~Ended(api[u]) => assignments[u] = at, UNCHANGED <<api, assignments>>,
         NEW next, Outcome(op, u, SlotAt(at), next), Becomes(at, next)
  PROVE  /\ slotsAt' \in [Workers -> [SlotIds -> SlotInfo \cup {Null}] \cup {Null}]
         /\ FreeIsBlank' /\ LiveOwnerIsAssigned'
<1> DEFINE x == at.worker
           y == at.slot
<1>1. x \in Workers /\ y \in SlotIds /\ at = [worker |-> x, slot |-> y]
  BY DEF Assignment
<1>2. slotsAt' = [slotsAt EXCEPT ![x][y] = next]
  BY DEF Becomes
<1>3. op = "reserve" /\ ~Ended(api[u]) => assignments[u] = [worker |-> x, slot |-> y]
  BY <1>1
<1>4. slotsAt[x] # Null /\ slotsAt[x] \in [SlotIds -> SlotInfo \cup {Null}]
  BY <1>1 DEF ControllerInv, TypeOK
<1>5. /\ Proper(next)
      /\ next # Null => \/ next.uid = Null
                        \/ slotsAt[x][y] # Null /\ next.uid = slotsAt[x][y].uid
                        \/ op = "reserve" /\ next.uid = u
  BY DEF Outcome, SlotAt
<1> HIDE DEF x, y
<1>6. slotsAt' \in [Workers -> [SlotIds -> SlotInfo \cup {Null}] \cup {Null}]
  BY <1>1, <1>2, <1>4, <1>5 DEF ControllerInv, TypeOK, Proper
<1>7. /\ \A w \in Workers : w # x => slotsAt'[w] = slotsAt[w]
      /\ \A i \in SlotIds : slotsAt'[x][i] = IF i = y THEN next ELSE slotsAt[x][i]
  BY <1>1, <1>2, <1>4 DEF ControllerInv, TypeOK
<1>8. FreeIsBlank'
  <2> SUFFICES ASSUME NEW w \in Workers, NEW i \in SlotIds,
                      slotsAt'[w] # Null, slotsAt'[w][i] # Null, slotsAt'[w][i].state = "Free"
               PROVE  slotsAt'[w][i].uid = Null
    BY DEF FreeIsBlank
  <2>1. CASE w = x /\ i = y
    BY <1>5, <1>7, <2>1 DEF Proper
  <2>2. CASE ~(w = x /\ i = y)
    BY <1>4, <1>7, <2>2 DEF ControllerInv, FreeIsBlank
  <2> QED
    BY <2>1, <2>2
<1>9. LiveOwnerIsAssigned'
  <2> SUFFICES ASSUME NEW w \in Workers, NEW i \in SlotIds, Owner(w, i)' # Null,
                      api[Owner(w, i)'] # Null, ~api[Owner(w, i)'].deleted
               PROVE  assignments[Owner(w, i)'] = [worker |-> w, slot |-> i]
    BY DEF LiveOwnerIsAssigned
  <2>1. CASE Owner(w, i)' = Owner(w, i)
    BY <2>1 DEF ControllerInv, LiveOwnerIsAssigned
  <2>2. CASE Owner(w, i)' # Owner(w, i)
    <3>1. w = x /\ i = y
      BY <1>4, <1>7, <2>2 DEF Owner
    <3>2. Owner(w, i)' = u /\ op = "reserve"
      BY <1>4, <1>5, <1>7, <2>2, <3>1 DEF Owner
    <3> QED
      BY <1>3, <3>1, <3>2 DEF Ended
  <2> QED
    BY <2>1, <2>2
<1> QED
  BY <1>6, <1>8, <1>9

\* A step of a call: the Reconcile moves, and its Slot perhaps.
LEMMA CallStep ==
  ASSUME ControllerInv, UNCHANGED <<api, cache, fresh, assignments>>, rec' \in Reconcile, ReconcileAgrees',
         WorkerInv', LiveOwnerIsAssigned'
  PROVE  /\ ReconcilerTypes' /\ CopiesLag' /\ LiveAgrees' /\ ReconcileAgrees'
         /\ WorkerInv' /\ LiveOwnerIsAssigned'
<1>1. ReconcilerTypes'
  BY InvParts DEF ReconcilerTypes
<1>2. CopiesLag' /\ LiveAgrees'
  BY DEF ControllerInv, CopiesLag, LiveAgrees, Agrees
<1> QED
  BY <1>1, <1>2

LEMMA CallAnsweredKeeps ==
  ASSUME ControllerInv, CallAnswered
  PROVE  /\ ReconcilerTypes' /\ CopiesLag' /\ LiveAgrees' /\ ReconcileAgrees'
         /\ WorkerInv' /\ LiveOwnerIsAssigned'
<1> DEFINE info == SlotAt(Target)
           res == SlotAnswer(rec.pc, info, rec.u).res
           next == SlotAnswer(rec.pc, info, rec.u).info
<1>1. /\ Calling /\ slotsAt[Target.worker] # Null /\ Becomes(Target, next) /\ AfterAnswer(res)
      /\ UNCHANGED <<api, cache, fresh, assignments>>
  BY DEF CallAnswered, schedulerVars
<1>2. res \in {"ok", "404", "409", "500"} /\ Outcome(rec.pc, rec.u, info, next)
  <2>1. Proper(info) /\ rec.u \in Sandboxes /\ rec.pc \in {"reserve", "start", "stop", "release"}
    BY <1>1, TargetSlot DEF Calling, Calls
  <2> HIDE DEF info
  <2> QED
    BY <2>1, SlotAnswerResult
<1> HIDE DEF res, next
<1>3. WorkerInv' /\ LiveOwnerIsAssigned'
  <2>1. /\ slotsAt' \in [Workers -> [SlotIds -> SlotInfo \cup {Null}] \cup {Null}]
        /\ FreeIsBlank' /\ LiveOwnerIsAssigned'
    BY <1>1, <1>2, TargetSlot, BecomesKeeps
  <2>2. LateAgrees' /\ late' \in [Conns -> Request \cup {Null}]
    BY <1>1, LateFrame DEF CallAnswered, ControllerInv, TypeOK
  <2> QED
    BY <2>1, <2>2 DEF WorkerInv
<1>4. rec' \in Reconcile /\ ReconcileAgrees'
  BY <1>1, <1>2, AfterAnswerKeeps
<1> QED
  BY <1>1, <1>3, <1>4, CallStep

LEMMA EffectsResult ==
  ASSUME NEW op \in Calls, NEW u \in Sandboxes, NEW info, Proper(info), NEW next \in Effects(op, info, u)
  PROVE  Outcome(op, u, info, next)
<1>1. \A a \in {SlotAnswer(op, info, u)} \cup RuntimeErrors(op, info, u) : Outcome(op, u, info, a.info)
  BY SlotAnswerResult, RuntimeErrorResult DEF Calls
<1> QED
  BY <1>1, Zenon DEF Effects

LEMMA CallFailsKeeps ==
  ASSUME ControllerInv, CallFails
  PROVE  /\ ReconcilerTypes' /\ CopiesLag' /\ LiveAgrees' /\ ReconcileAgrees'
         /\ WorkerInv' /\ LiveOwnerIsAssigned'
<1> DEFINE ask == [op |-> rec.pc, u |-> rec.u, at |-> Target]
<1>1. /\ Calling /\ slotsAt[Target.worker] # Null
      /\ \/ UNCHANGED <<slotsAt, late>>
         \/ (\E next \in Effects(rec.pc, SlotAt(Target), rec.u) : Becomes(Target, next)) /\ UNCHANGED late
         \/ (\E c \in Conns : late' = [late EXCEPT ![c] = ask]) /\ UNCHANGED slotsAt
      /\ \E phase \in PhasesAfterFailure : GiveUp(phase)
      /\ UNCHANGED <<api, cache, fresh, assignments>>
  BY DEF CallFails, schedulerVars
<1>2. Proper(SlotAt(Target)) /\ rec.u \in Sandboxes /\ rec.pc \in Calls /\ Target \in Assignment
  BY <1>1, TargetSlot DEF Calling
<1>3. rec.pc = "reserve" => assignments[rec.u] = Target
  BY <1>1, TargetSlot
<1>4. PhasesAfterFailure \subseteq Phases
  BY <1>1 DEF PhasesAfterFailure, Phases, ControllerInv, ReconcileAgrees, Calling, Calls, Sandbox
<1>5. rec' \in Reconcile /\ ReconcileAgrees'
  BY <1>1, <1>4, GiveUpKeeps
<1>6. CASE UNCHANGED <<slotsAt, late>>
  BY <1>1, <1>5, <1>6, RecStep
<1>7. CASE (\E next \in Effects(rec.pc, SlotAt(Target), rec.u) : Becomes(Target, next)) /\ UNCHANGED late
  <2>1. PICK next \in Effects(rec.pc, SlotAt(Target), rec.u) : Becomes(Target, next)
    BY <1>7
  <2>2. Outcome(rec.pc, rec.u, SlotAt(Target), next)
    BY <1>2, EffectsResult
  <2>3. /\ slotsAt' \in [Workers -> [SlotIds -> SlotInfo \cup {Null}] \cup {Null}]
        /\ FreeIsBlank' /\ LiveOwnerIsAssigned'
    BY <1>1, <1>2, <1>3, <2>1, <2>2, BecomesKeeps
  <2>4. LateAgrees' /\ late' \in [Conns -> Request \cup {Null}]
    BY <1>1, <1>7, LateFrame DEF ControllerInv, TypeOK
  <2>5. WorkerInv'
    BY <2>3, <2>4 DEF WorkerInv
  <2> QED
    BY <1>1, <1>5, <2>3, <2>5, CallStep
<1>8. CASE (\E c \in Conns : late' = [late EXCEPT ![c] = ask]) /\ UNCHANGED slotsAt
  <2>1. PICK c \in Conns : late' = [late EXCEPT ![c] = ask]
    BY <1>8
  <2>2. ask \in Request /\ ask.op = rec.pc /\ ask.u = rec.u /\ ask.at = Target
    BY <1>2 DEF Request
  <2> HIDE DEF ask
  <2>3. late' \in [Conns -> Request \cup {Null}]
    BY <2>1, <2>2 DEF ControllerInv, TypeOK
  <2>4. late'[c] = ask /\ \A d \in Conns : d # c => late'[d] = late[d]
    BY <2>1 DEF ControllerInv, TypeOK
  <2>5. LateAgrees'
    BY <1>1, <1>3, <2>2, <2>4 DEF ControllerInv, LateAgrees
  <2>6. WorkerInv'
    BY <1>8, <2>3, <2>5 DEF WorkerInv, ControllerInv, TypeOK, FreeIsBlank
  <2>7. LiveOwnerIsAssigned'
    BY <1>1, <1>8 DEF ControllerInv, LiveOwnerIsAssigned, Owner
  <2> QED
    BY <1>1, <1>5, <2>6, <2>7, CallStep
<1> QED
  BY <1>1, <1>6, <1>7, <1>8

\* A call that takes effect after its caller gave up.
LEMMA LateCallKeeps ==
  ASSUME ControllerInv, NEW c \in Conns, LateCall(c)
  PROVE  /\ ReconcilerTypes' /\ CopiesLag' /\ LiveAgrees' /\ ReconcileAgrees'
         /\ WorkerInv' /\ LiveOwnerIsAssigned'
<1> DEFINE op == late[c].op
           u  == late[c].u
           at == late[c].at
<1>1. /\ late[c] # Null /\ slotsAt[at.worker] # Null
      /\ \E next \in Effects(op, SlotAt(at), u) : Becomes(at, next)
      /\ late' = [late EXCEPT ![c] = Null]
      /\ UNCHANGED <<api, cache, fresh, rec, assignments>>
  BY DEF LateCall, reconcilerVars, schedulerVars
<1>2. op \in Calls /\ u \in Sandboxes /\ at \in Assignment
  BY <1>1 DEF ControllerInv, TypeOK, Request
<1>3. op = "reserve" /\ ~Ended(api[u]) => assignments[u] = at
  BY <1>1 DEF ControllerInv, LateAgrees
<1> HIDE DEF op, u, at
<1>4. Proper(SlotAt(at))
  <2>1. at.worker \in Workers /\ at.slot \in SlotIds
    BY <1>2 DEF Assignment
  <2> QED
    BY <1>1, <2>1 DEF ControllerInv, TypeOK, FreeIsBlank, Proper, SlotAt
<1>5. PICK next \in Effects(op, SlotAt(at), u) : Becomes(at, next)
  BY <1>1
<1>6. Outcome(op, u, SlotAt(at), next)
  BY <1>2, <1>4, EffectsResult
<1>7. /\ slotsAt' \in [Workers -> [SlotIds -> SlotInfo \cup {Null}] \cup {Null}]
      /\ FreeIsBlank' /\ LiveOwnerIsAssigned'
  BY <1>1, <1>2, <1>3, <1>5, <1>6, BecomesKeeps
<1>8. late' \in [Conns -> Request \cup {Null}] /\ \A d \in Conns : late'[d] \in {late[d], Null}
  BY <1>1 DEF ControllerInv, TypeOK
<1>9. LateAgrees'
  BY <1>1, <1>8, LateFrame
<1>10. WorkerInv'
  BY <1>7, <1>8, <1>9 DEF WorkerInv
<1> QED
  BY <1>1, <1>7, <1>10, ReconcilerFrame

LEMMA UnreachableKeeps ==
  ASSUME ControllerInv, Unreachable
  PROVE  /\ ReconcilerTypes' /\ CopiesLag' /\ LiveAgrees' /\ ReconcileAgrees'
         /\ WorkerInv' /\ LiveOwnerIsAssigned'
<1> DEFINE phase == rec.obj.phase
<1>1. Calling /\ GiveUp(phase) /\ UNCHANGED <<api, cache, fresh, slotsAt, late, assignments>>
  BY DEF Unreachable, schedulerVars
<1>2. phase \in Phases
  BY <1>1 DEF ControllerInv, ReconcileAgrees, Calling, Calls, Sandbox
<1> HIDE DEF phase
<1>3. rec' \in Reconcile /\ ReconcileAgrees'
  BY <1>1, <1>2, GiveUpKeeps
<1> QED
  BY <1>1, <1>3, RecStep

\* The Scheduler forgets a Sandbox that no copy shows live any more.
LEMMA FinishKeeps ==
  ASSUME ControllerInv, Finish
  PROVE  /\ ReconcilerTypes' /\ CopiesLag' /\ LiveAgrees' /\ ReconcileAgrees'
         /\ WorkerInv' /\ LiveOwnerIsAssigned'
<1> DEFINE u == rec.u
<1>0. ReconcilerTypes
  BY InvParts
<1>1. rec.pc = "finish" /\ UNCHANGED <<cache, slotsAt, late>> /\ rec' = IdleRec
  BY DEF Finish, Finished
<1>2. u \in Sandboxes /\ Ended(cache[u])
  BY <1>1 DEF ControllerInv, ReconcileAgrees, Descending
<1>3. Ended(api[u])
  BY <1>2 DEF ControllerInv, CopiesLag
<1>4. \A v \in Sandboxes : v # u => assignments'[v] = assignments[v]
  BY <1>2 DEF Finish, Release, ControllerInv, TypeOK, SchedulerTypeOK
<1>5. \/ api' = [api EXCEPT ![u] = Null] /\ fresh' = fresh \ {u}
      \/ UNCHANGED <<api, fresh>>
  BY DEF Finish
<1> HIDE DEF u
<1>6. api' \in [Sandboxes -> Sandbox \cup {Null}] /\ fresh' \subseteq Sandboxes
  BY <1>0, <1>2, <1>5 DEF ReconcilerTypes
<1>7. Ended(api'[u]) /\ \A v \in Sandboxes : v # u => api'[v] = api[v]
  BY <1>0, <1>2, <1>3, <1>5 DEF ReconcilerTypes, Ended
<1>8. ReconcilerTypes' /\ ReconcileAgrees'
  BY <1>0, <1>1, <1>6, IdleType DEF ReconcilerTypes, ReconcileAgrees
<1>9. CopiesLag'
  BY <1>1, <1>5, <1>7 DEF ControllerInv, CopiesLag
<1>10. LiveAgrees'
  BY <1>1, <1>2, <1>4, <1>7 DEF ControllerInv, LiveAgrees, Agrees
<1>11. WorkerInv' /\ LiveOwnerIsAssigned'
  BY <1>1, <1>3, <1>4, <1>7, WorkerFrame
<1> QED
  BY <1>8, <1>9, <1>10, <1>11

-----------------------------------------------------------------------------
(* The theorems.                                                           *)

LEMMA ControllerInvNext ==
  ControllerInv /\ [Next]_vars /\ ~ControllerRestart => ControllerInv'
<1> SUFFICES ASSUME ControllerInv, [Next]_vars, ~ControllerRestart
             PROVE  ControllerInv'
  OBVIOUS
<1> DEFINE Rest == /\ ReconcilerTypes /\ CopiesLag /\ LiveAgrees /\ ReconcileAgrees
                   /\ WorkerInv /\ LiveOwnerIsAssigned
<1>1. SchedulerInv'
  BY SchedulerStep, SchedulerInvNext DEF ControllerInv
<1>2. PoolTypes'
  BY PoolKeeps
<1>3. ASSUME NEW u \in Sandboxes, Delete(u) \/ CacheSync(u) PROVE Rest'
  BY <1>3, DeleteKeeps, CacheSyncKeeps
<1>4. ASSUME NEW u \in Sandboxes, ReconcileStart(u) PROVE Rest'
  BY <1>4, AddFinalizerKeeps, ReconcilePendingKeeps, SyncAssignKeeps, SyncStartKeeps, SyncDeleteKeeps DEF ReconcileStart
<1>5. ASSUME WriteStatus \/ CallAnswered \/ CallFails \/ Unreachable \/ Finish PROVE Rest'
  BY <1>5, WriteStatusKeeps, CallAnsweredKeeps, CallFailsKeeps, UnreachableKeeps, FinishKeeps
<1>6. ASSUME \/ PollUpdate \/ PoolStatus
             \/ \E w \in Workers : PodGone(w) \/ PodStarts(w) \/ SyncTopology(w) \/ PollList(w) \/ PollRemove(w)
      PROVE  Rest'
  BY <1>6, PoolStepKeeps
<1>7. ASSUME NEW w \in Workers, NEW i \in SlotIds, ParentSaved(w, i) PROVE Rest'
  BY <1>7, ParentSavedKeeps
<1>8. ASSUME UNCHANGED vars PROVE Rest'
  <2>1. UNCHANGED <<api, cache, fresh, rec, slotsAt, late, assignments>>
    BY <1>8 DEF vars, reconcilerVars, schedulerVars
  <2> QED
    BY <2>1, ReconcilerFrame, WorkerFrame
<1>9. ASSUME NEW c \in Conns, LateCall(c) PROVE Rest'
  BY <1>9, LateCallKeeps
<1>10. Rest'
  <2> HIDE DEF Rest
  <2> QED
    BY <1>3, <1>4, <1>5, <1>6, <1>7, <1>8, <1>9 DEF Next
<1>11. (SchedulerInv /\ PoolTypes /\ Rest => ControllerInv)'
  BY DEF SchedulerInv, PoolTypes, ReconcilerTypes, WorkerInv, ControllerInv, TypeOK
<1> QED
  BY <1>1, <1>2, <1>10, <1>11

LEMMA ControllerInvInit == Init => ControllerInv
<1> SUFFICES ASSUME Init PROVE ControllerInv
  OBVIOUS
<1>1. SchedulerInv
  BY SchedulerInvInit DEF Init
<1>2. NewSandbox \in Sandbox /\ NewSandbox.assignment = Null
  BY DEF NewSandbox, Sandbox, Phases
<1>3. ReconcilerTypes /\ ReconcileAgrees
  BY <1>2, IdleType DEF Init, ReconcilerTypes, ReconcileAgrees
<1>4. \A w \in Workers : slotsAt[w] = NoSlots
  BY DEF Init
<1>5. NoSlots \in [SlotIds -> SlotInfo \cup {Null}] /\ \A i \in SlotIds : NoSlots[i] = Null
  BY DEF NoSlots
<1>6. WorkerInv /\ LiveOwnerIsAssigned
  <2>1. slotsAt \in [Workers -> [SlotIds -> SlotInfo \cup {Null}] \cup {Null}]
    BY <1>5 DEF Init
  <2>2. late \in [Conns -> Request \cup {Null}] /\ LateAgrees
    BY DEF Init, LateAgrees
  <2> QED
    BY <1>4, <1>5, <2>1, <2>2 DEF WorkerInv, FreeIsBlank, LiveOwnerIsAssigned, Owner
<1>7. PoolTypes
  <2>1. disruptions \in 0..MaxDisruptions
    BY ControllerConstants DEF Init
  <2>2. poll \in {Null} /\ poolReady \in BOOLEAN
    BY Zenon DEF Init
  <2> QED
    BY <2>1, <2>2 DEF PoolTypes
<1>8. CopiesLag /\ LiveAgrees
  BY <1>2 DEF Init, CopiesLag, LiveAgrees, Agrees
<1> QED
  BY <1>1, <1>3, <1>6, <1>7, <1>8, InvParts

LEMMA ControllerInvariance == Spec /\ OneProcess => []ControllerInv
<1>1. ControllerInv /\ [Next]_vars /\ [~ControllerRestart]_vars => ControllerInv'
  <2>1. ControllerInv /\ UNCHANGED vars => ControllerInv'
    <3> SUFFICES ASSUME ControllerInv, UNCHANGED vars PROVE ControllerInv'
      OBVIOUS
    <3>1. CASE ~ControllerRestart
      BY <3>1, ControllerInvNext
    <3>2. CASE ControllerRestart
      BY <3>2, ControllerConstants DEF ControllerRestart, vars, ControllerInv, TypeOK
    <3> QED
      BY <3>1, <3>2
  <2> QED
    BY <2>1, ControllerInvNext
<1> QED
  BY <1>1, ControllerInvInit, PTL DEF Spec, OneProcess

\* A live Sandbox that owns a Slot on a Worker is the one the Scheduler has
\* for that Slot, and the Scheduler has that Slot for it, through lost answers,
\* stale caches, false polls and Pods that come and go.  (syncStart, syncDelete,
\* UpdateWorker)
THEOREM LiveOwnersAreAssigned == Spec /\ OneProcess => []LiveOwnerIsAssigned
<1>1. ControllerInv => LiveOwnerIsAssigned
  BY DEF ControllerInv
<1> QED
  BY <1>1, ControllerInvariance, PTL

\* No two live Sandboxes have the same Slot in their status.  (syncAssign,
\* syncStatus, the Scheduler)
THEOREM StatusesAreExclusive == Spec /\ OneProcess => []AssignmentsExclusive
<1>1. ControllerInv => AssignmentsExclusive
  BY DEF ControllerInv, SchedulerInv, NoDoubleAssignment, LiveAgrees, Agrees, Ended, AssignmentsExclusive
<1> QED
  BY <1>1, ControllerInvariance, PTL

\* The Sandbox reconciler and the Pool poll keep the contract under which the
\* Scheduler is proved right: reports are well formed and Restore is only asked
\* for an assignment in force.  (syncStart, syncDelete, syncStatus of the Pool)
THEOREM CallersKeepContract == Spec /\ OneProcess => SchedulerSpec
<1>1. Init => SchedulerInit
  BY DEF Init
<1>2. ControllerInv /\ [Next]_vars /\ [~ControllerRestart]_vars => [SchedulerNext]_schedulerVars
  BY SchedulerStep DEF vars
<1> QED
  BY <1>1, <1>2, ControllerInvariance, PTL DEF Spec, OneProcess, SchedulerSpec
=============================================================================
