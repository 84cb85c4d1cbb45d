------------------------------ MODULE Scheduler ------------------------------
(***************************************************************************)
(* The in-memory Scheduler (internal/scheduler): what it believes about the *)
(* Workers' Slots, and which Slot each Sandbox was given.  Every method     *)
(* holds s.lock throughout, so each is one action.  The callers - the Pool  *)
(* poll and the Sandbox controller - are in SandboxController.              *)
(*                                                                         *)
(* Worker names and Slot IDs are numbers, ordered as the code sorts them.   *)
(* One Pool: Workers of another Pool are never candidates.  Healthy is TRUE *)
(* in every report the Pool controller makes.  An assignment's SlotProfile  *)
(* is always the Sandbox's own (Wants).  All the Scheduler asks of a Slot's *)
(* state is whether it is Free: every other state is "Taken".               *)
(***************************************************************************)
EXTENDS Naturals, FiniteSets

CONSTANTS
  Workers,    \* Worker Pods of the Pool
  SlotIds,    \* Slot IDs of a Worker
  Profiles,   \* Slot profiles
  Sandboxes,  \* Sandbox UIDs
  Wants,      \* spec.slotProfile of each Sandbox
  Null

ASSUME SchedulerConstants ==
  /\ Workers \subseteq Nat
  /\ SlotIds \subseteq Nat
  /\ IsFiniteSet(SlotIds)
  /\ Wants \in [Sandboxes -> Profiles]
  /\ Null \notin Nat \cup Sandboxes \cup Profiles \cup [worker: Workers, slot: SlotIds]

VARIABLES
  workers,     \* s.workers: the last report of each Worker, overlaid; or Null
  assignments  \* s.assignments: the Slot of each Sandbox, or Null

schedulerVars == <<workers, assignments>>

\* Free Slots have no owner (SlotManager's FreeSlotIsBlank).
Info       == {s \in [state: {"Free", "Taken"}, uid: Sandboxes \cup {Null}, profile: Profiles] :
                 s.state = "Free" => s.uid = Null}
Report     == [SlotIds -> Info \cup {Null}]
Assignment == [worker: Workers, slot: SlotIds]

SchedulerTypeOK ==
  /\ workers \in [Workers -> Report \cup {Null}]
  /\ assignments \in [Sandboxes -> Assignment \cup {Null}]

SchedulerInit ==
  /\ workers = [w \in Workers |-> Null]
  /\ assignments = [u \in Sandboxes |-> Null]

-----------------------------------------------------------------------------
Known(w, i)   == workers[w] # Null /\ workers[w][i] # Null
Holders(w, i) == {u \in Sandboxes : assignments[u] = [worker |-> w, slot |-> i]}
MutKeepsState(info, u) == [info EXCEPT !.uid = u]
TakenBy(info, u) == [info EXCEPT !.state = "Taken", !.uid = u]

\* A Slot the Worker reports Free although it is assigned is overlaid as
\* reserved: the report may be older than the assignment.  Should two
\* Sandboxes hold it, Go's map order decides whose name it gets: pick[i].
MutNoOverlay(info, u) == info
Overlay(info, u) == IF info # Null /\ info.state = "Free" /\ u # Null THEN TakenBy(info, u) ELSE info

Picks(w) ==
  {pick \in [SlotIds -> Sandboxes \cup {Null}] :
     \A i \in SlotIds : pick[i] \in IF Holders(w, i) = {} THEN {Null} ELSE Holders(w, i)}

UpdateWorker(w, report) ==
  /\ \E pick \in Picks(w) :
       workers' = [workers EXCEPT ![w] = [i \in SlotIds |-> Overlay(report[i], pick[i])]]
  /\ UNCHANGED assignments

MutForgetsAssignments(w) ==
  /\ workers' = [workers EXCEPT ![w] = Null]
  /\ assignments' = [u \in Sandboxes |-> IF assignments[u] # Null /\ assignments[u].worker = w
                                         THEN Null ELSE assignments[u]]
RemoveWorker(w) ==
  /\ workers' = [workers EXCEPT ![w] = Null]
  /\ UNCHANGED assignments

-----------------------------------------------------------------------------
(* Assign, with the binpack strategy cmd/controller-manager configures.     *)

Candidates(u) ==
  {a \in Assignment : /\ Known(a.worker, a.slot)
                      /\ workers[a.worker][a.slot].state = "Free"
                      /\ workers[a.worker][a.slot].profile = Wants[u]}

\* countWorkerSlots: Slots of any profile count as busy, only the requested
\* profile's as free.
BusySlots(w)    == Cardinality({i \in SlotIds : Known(w, i) /\ workers[w][i].state # "Free"})
FreeSlots(w, p) == Cardinality({i \in SlotIds : /\ Known(w, i) /\ workers[w][i].state = "Free"
                                                /\ workers[w][i].profile = p})

Before(a, b) == a.worker < b.worker \/ (a.worker = b.worker /\ a.slot < b.slot)

\* binPackBetter: used Workers before unused ones, the tighter fit among used
\* Workers, then the order of names and IDs.
MutSpreadBetter(a, b, p) == Before(a, b)
BinPackBetter(a, b, p) ==
  LET aBusy == BusySlots(a.worker) > 0
      bBusy == BusySlots(b.worker) > 0
  IN IF aBusy # bBusy THEN aBusy
     ELSE IF aBusy /\ FreeSlots(a.worker, p) # FreeSlots(b.worker, p)
          THEN FreeSlots(a.worker, p) < FreeSlots(b.worker, p)
          ELSE Before(a, b)

\* Select's answer, as a set: Before makes it a singleton.
Best(u) == {a \in Candidates(u) : \A b \in Candidates(u) \ {a} : BinPackBetter(a, b, Wants[u])}

\* Assign answers with assignments'[u]; asked again it answers the same.
Assign(u) ==
  IF assignments[u] # Null THEN UNCHANGED schedulerVars
  ELSE \E a \in Best(u) :
         /\ workers' = [workers EXCEPT ![a.worker][a.slot] = TakenBy(@, u)]
         /\ assignments' = [assignments EXCEPT ![u] = a]

NoCapacity(u) == assignments[u] = Null /\ Candidates(u) = {}

-----------------------------------------------------------------------------
\* Restore re-enters an assignment read from a Sandbox's status.
RestoreConflict(u, a) ==
  \/ assignments[u] \notin {Null, a}
  \/ /\ assignments[u] = Null /\ Known(a.worker, a.slot)
     /\ workers[a.worker][a.slot].state # "Free" /\ workers[a.worker][a.slot].uid # u

Restore(u, a) ==
  /\ ~RestoreConflict(u, a)
  /\ IF assignments[u] = a THEN UNCHANGED schedulerVars
     ELSE /\ workers' = IF ~Known(a.worker, a.slot) THEN workers
                        ELSE [workers EXCEPT ![a.worker][a.slot] =
                                [TakenBy(@, u) EXCEPT !.profile = Wants[u]]]
          /\ assignments' = [assignments EXCEPT ![u] = a]

\* Release frees the Slot in the view only if the view has it as this
\* Sandbox's.
Release(u) ==
  LET a == assignments[u] IN
  /\ assignments' = [assignments EXCEPT ![u] = Null]
  /\ workers' = IF a # Null /\ Known(a.worker, a.slot) /\ workers[a.worker][a.slot].uid = u
                THEN [workers EXCEPT ![a.worker][a.slot] = [@ EXCEPT !.state = "Free", !.uid = Null]]
                ELSE workers

-----------------------------------------------------------------------------
(* The Scheduler under its callers' contract: Workers report anything at    *)
(* any time, and only an assignment that is still in force is restored.     *)

SchedulerNext ==
  \/ \E u \in Sandboxes : \/ Assign(u) \/ Release(u)
                          \/ assignments[u] # Null /\ Restore(u, assignments[u])
  \/ \E w \in Workers : RemoveWorker(w) \/ \E report \in Report : UpdateWorker(w, report)

SchedulerSpec == SchedulerInit /\ [][SchedulerNext]_schedulerVars

\* No two Sandboxes hold the same Slot, however late, stale or wrong the
\* Workers' reports are.  (Assign, UpdateWorker's overlay, Release)
NoDoubleAssignment ==
  \A u, v \in Sandboxes : assignments[u] # Null /\ assignments[u] = assignments[v] => u = v

\* "packs onto Workers that already hold sandboxes before opening a new
\* Worker" (BinPackStrategy's comment): an unused Worker is opened only when no
\* Worker in use has a free Slot of the requested profile.
PacksUsedWorkersFirst ==
  [][\A u \in Sandboxes :
       /\ assignments[u] = Null /\ assignments'[u] # Null
       /\ BusySlots(assignments'[u].worker) = 0
       => \A a \in Candidates(u) : BusySlots(a.worker) = 0]_schedulerVars

=============================================================================
