-------------------------- MODULE SlotManager_proofs --------------------------
(***************************************************************************)
(* Proofs about the Worker's Slot state machine, for any number of Slots,   *)
(* profiles, Sandboxes, handlers, runtime objects and topology pushes.      *)
(***************************************************************************)
EXTENDS SlotManager, FiniteSetTheorems, TLAPS

\* What a handler goroutine knows once getSlot has answered.
CallOK ==
  \A t \in Threads : call[t].pc # "idle" =>
    /\ call[t].op \in Ops
    /\ call[t].obj \in Objects
    /\ call[t].uid \in Sandboxes

\* A push that got past its guard has a version left to use.
ApplyOK == apply.pc = "checking" => version < MaxApply

TypeInv == TypeOK /\ CallOK /\ ApplyOK

\* Runtime objects after some of them were stopped or removed, all others as
\* they were.
Fades(rts) ==
  /\ rts \in [RuntimeIds -> Runtime]
  /\ \A q \in RuntimeIds :
       \/ rts[q] = runtimes[q]
       \/ rts[q] = NoRuntime
       \/ \E x \in {"exited", "orphan", "bare"} : rts[q] = [runtimes[q] EXCEPT !.state = x]

-----------------------------------------------------------------------------
(* The runtime adapters.                                                   *)

\* Deleting or stopping a runtime object never makes or revives one, and
\* touches no other: RuntimeDelete, DeleteRestored and RuntimeStop.
LEMMA RuntimeAnswers ==
  ASSUME TypeOK, NEW r,
         NEW d \in RuntimeDelete(r) \cup DeleteRestored(r) \cup RuntimeStop(r)
  PROVE  d.ok \in BOOLEAN /\ Fades(d.rts)
<1>1. runtimes \in [RuntimeIds -> Runtime]
  BY DEF TypeOK
<1>2. Fades(runtimes)
  BY <1>1 DEF Fades
<1>3. Fades(Gone(r))
  BY <1>1, ConstantsOK DEF Fades, Gone, NoRuntime, Runtime, RuntimeStates
<1>4. \A x \in {"exited", "orphan", "bare"} : Fades(Now(r, x))
  BY <1>1 DEF Fades, Now, Runtime, RuntimeStates
<1> DEFINE Answers == {runtimes, Gone(r), Now(r, "exited"), Now(r, "orphan"), Now(r, "bare")}
<1>5. \E b \in BOOLEAN, rts \in Answers : d = [ok |-> b, rts |-> rts]
  <2>1. CASE d \in RuntimeDelete(r)
    <3>1. CASE d \in [ok: BOOLEAN, rts: {Now(r, "bare")}]
      <4> HIDE DEF Answers
      <4>1. Now(r, "bare") \in Answers
        BY DEF Answers
      <4> QED
        BY <3>1, <4>1
    <3>2. CASE d \notin [ok: BOOLEAN, rts: {Now(r, "bare")}]
      BY <2>1, <3>2, Zenon DEF RuntimeDelete
    <3> QED
      BY <3>1, <3>2
  <2>2. CASE d \in DeleteRestored(r)
    BY <2>2, Zenon DEF DeleteRestored
  <2>3. CASE d \in RuntimeStop(r)
    BY <2>3, <2>2, Zenon DEF RuntimeStop
  <2> QED
    BY <2>1, <2>2, <2>3
<1>6. d.ok \in BOOLEAN /\ d.rts \in Answers
  BY <1>5
<1> QED
  BY <1>2, <1>3, <1>4, <1>6

\* What Create and LoadSnapshot leave behind when they fail is well-typed.
LEMMA FailedBootType ==
  ASSUME TypeOK, NEW rts \in [RuntimeIds -> Runtime], NEW rt \in Runtime,
         NEW after \in AfterFailedBoot(rts, rt)
  PROVE  after \in [RuntimeIds -> Runtime]
BY DEF AfterFailedBoot, FreshRuntimes

-----------------------------------------------------------------------------
(* Type correctness.                                                       *)

\* A handler step keeps the types: it writes a Slot, the runtime objects and
\* its own call record, never the topology.
LEMMA HandlerType ==
  ASSUME TypeInv, NEW t \in Threads, call[t].pc # "idle",
         slot' = slot \/ \E s \in Slot : SetSlot(t, s),
         runtimes' \in [RuntimeIds -> Runtime],
         Return(t) \/ \E pc \in {"booting", "loading"} : Proceed(t, pc),
         UNCHANGED Topology
  PROVE  TypeInv'
<1> USE DEF TypeInv, TypeOK
<1>1. slot' \in [Objects -> Slot]
  BY DEF SetSlot
<1>2. call' \in [Threads -> Call] /\ CallOK'
  <2>1. CASE Return(t)
    BY <2>1, ConstantsOK DEF Return, IdleCall, Call, CallOK
  <2>2. CASE \E pc \in {"booting", "loading"} : Proceed(t, pc)
    <3>1. PICK pc \in {"booting", "loading"} : Proceed(t, pc)
      BY <2>2
    <3>2. call' = [call EXCEPT ![t] = [call[t] EXCEPT !.pc = pc]]
      BY <3>1 DEF Proceed
    <3>3. [call[t] EXCEPT !.pc = pc] \in Call
      BY DEF Call
    <3> QED
      BY <3>2, <3>3 DEF CallOK, Call
  <2> QED
    BY <2>1, <2>2
<1> QED
  BY <1>1, <1>2 DEF Topology, ApplyOK

\* Every handler body keeps the types, through each of its outcomes.
LEMMA BodyType ==
  ASSUME TypeInv, NEW t \in Threads, Body(t)
  PROVE  TypeInv'
<1> USE DEF TypeInv
<1>1. /\ call[t].pc # "idle"
      /\ UNCHANGED Topology
      /\ Return(t) \/ \E pc \in {"booting", "loading"} : Proceed(t, pc)
  BY DEF Body, ReserveSlot, StopSandbox, ReleaseSlot, Inspect, StartUnaffected, StartCreate,
         StartReplace, CreateRuntime, StartFinish, StartResume, CreateSnapshot,
         RestoreUnaffected, RestoreBegin, RestoreFinish, Enter, Unaffected, Topology
<1>2. S(t) \in Slot /\ call[t].obj[1] \in SlotIds /\ call[t].uid \in Sandboxes
  BY <1>1 DEF CallOK, S, TypeOK, Objects
<1> DEFINE Typed == /\ slot' = slot \/ \E s \in Slot : SetSlot(t, s)
                    /\ runtimes' \in [RuntimeIds -> Runtime]
<1>3. \A s \in Slot : FreeSlot(s.profile) \in Slot
  BY ConstantsOK DEF FreeSlot, Slot, SlotStates
<1>4. \A r : \A d \in RuntimeDelete(r) \cup DeleteRestored(r) \cup RuntimeStop(r) :
        d.ok \in BOOLEAN /\ d.rts \in [RuntimeIds -> Runtime]
  BY RuntimeAnswers DEF Fades
<1>5. ASSUME NEW s \in Slot, NEW rts \in [RuntimeIds -> Runtime], CreateRuntime(t, s, rts)
      PROVE  Typed
  <2> DEFINE rt == [state |-> IF SelfManaged THEN "running" ELSE "created",
                    slot |-> call[t].obj[1], sandbox |-> call[t].uid, loaded |-> FALSE]
  <2> DEFINE left == [rt EXCEPT !.state = "bare"]
  <2>1. rt \in Runtime /\ left \in Runtime
    BY <1>2 DEF Runtime, RuntimeStates
  <2>2. CASE \E r \in FreshRuntimes :
               /\ runtimes' = [rts EXCEPT ![r] = rt]
               /\ SetSlot(t, [s EXCEPT !.state = "Starting", !.ref = r, !.restored = SelfManaged])
    <3>1. SelfManaged \in BOOLEAN
      BY ConstantsOK DEF TypeOK, SelfManaged
    <3>2. \A r \in FreshRuntimes :
            [s EXCEPT !.state = "Starting", !.ref = r, !.restored = SelfManaged] \in Slot
      BY <3>1 DEF Slot, SlotStates, FreshRuntimes
    <3> QED
      BY <2>1, <2>2, <3>2 DEF FreshRuntimes
  <2>3. CASE runtimes' \in AfterFailedBoot(rts, left) /\ SetSlot(t, [s EXCEPT !.state = "Reserved"])
    BY <2>1, <2>3, FailedBootType DEF Slot, SlotStates
  <2> QED
    BY <1>5, <2>2, <2>3 DEF CreateRuntime
<1>6. ASSUME NEW s \in Slot, StartRuntime(t, s)
      PROVE  Typed
  <2>1. CASE /\ SetSlot(t, [S(t) EXCEPT !.state = "Running"])
             /\ runtimes' = IF SelfManaged THEN runtimes ELSE Now(S(t).ref, "running")
    <3>1. [S(t) EXCEPT !.state = "Running"] \in Slot
      BY <1>2 DEF Slot, SlotStates
    <3>2. runtimes \in [RuntimeIds -> Runtime]
      BY DEF TypeOK
    <3>3. Now(S(t).ref, "running") \in [RuntimeIds -> Runtime]
      BY <3>2 DEF Now, Runtime, RuntimeStates
    <3>4. runtimes' \in [RuntimeIds -> Runtime]
      BY <2>1, <3>2, <3>3
    <3> QED
      BY <2>1, <3>1, <3>4
  <2>2. CASE \E d \in RuntimeDelete(S(t).ref) :
          /\ runtimes' = d.rts
          /\ SetSlot(t, [s EXCEPT !.ref = Null, !.state = IF d.ok THEN "Reserved" ELSE "Failed"])
    <3>1. PICK d \in RuntimeDelete(S(t).ref) :
            /\ runtimes' = d.rts
            /\ SetSlot(t, [s EXCEPT !.ref = Null, !.state = IF d.ok THEN "Reserved" ELSE "Failed"])
      BY <2>2
    <3>2. d.rts \in [RuntimeIds -> Runtime]
      BY <1>4
    <3>3. \A x \in {"Reserved", "Failed"} : [s EXCEPT !.ref = Null, !.state = x] \in Slot
      BY DEF Slot, SlotStates
    <3> QED
      BY <3>1, <3>2, <3>3
  <2> QED
    BY <1>6, <2>1, <2>2 DEF StartRuntime
<1>7. CASE ReserveSlot(t)
  BY <1>1, <1>2, <1>7, HandlerType DEF ReserveSlot, TypeOK, Slot, SlotStates
<1>8. CASE StopSandbox(t)
  <2>1. \A x \in SlotStates :
          /\ [S(t) EXCEPT !.state = x] \in Slot
          /\ [S(t) EXCEPT !.state = x, !.ref = Null, !.restoreDir = FALSE] \in Slot
    BY <1>2 DEF Slot
  <2>2. CASE UNCHANGED <<slot, runtimes>>
    BY <1>1, <2>2, HandlerType DEF TypeOK
  <2>3. CASE SetSlot(t, [S(t) EXCEPT !.state = "Stopping"]) /\ UNCHANGED runtimes
    BY <1>1, <2>1, <2>3, HandlerType DEF TypeOK, SlotStates
  <2>4. CASE \E d \in DeleteRestored(S(t).ref) \cup RuntimeStop(S(t).ref) :
               /\ runtimes' = d.rts
               /\ \/ SetSlot(t, [S(t) EXCEPT !.state = "Failed"])
                  \/ SetSlot(t, [S(t) EXCEPT !.state = "Stopping", !.ref = Null, !.restoreDir = FALSE])
                  \/ SetSlot(t, [S(t) EXCEPT !.state = "Stopping"])
    <3>1. runtimes' \in [RuntimeIds -> Runtime]
      BY <1>4, <2>4
    <3>2. \E s \in Slot : SetSlot(t, s)
      BY <2>1, <2>4 DEF SlotStates
    <3> QED
      BY <1>1, <3>1, <3>2, HandlerType
  <2> QED
    BY <1>8, <2>2, <2>3, <2>4, Zenon DEF StopSandbox
<1>9. CASE ReleaseSlot(t)
  <2>1. Released(S(t)) \in Slot /\ [S(t) EXCEPT !.state = "Failed"] \in Slot
    BY <1>2, <1>3 DEF Released, Slot, SlotStates
  <2>2. CASE UNCHANGED <<slot, runtimes>>
    BY <1>1, <2>2, HandlerType DEF TypeOK
  <2>3. CASE SetSlot(t, Released(S(t))) /\ UNCHANGED runtimes
    BY <1>1, <2>1, <2>3, HandlerType DEF TypeOK
  <2>4. CASE \E d \in DeleteRestored(S(t).ref) \cup RuntimeDelete(S(t).ref) :
               /\ runtimes' = d.rts
               /\ \/ SetSlot(t, Released(S(t)))
                  \/ SetSlot(t, [S(t) EXCEPT !.state = "Failed"])
    <3>1. runtimes' \in [RuntimeIds -> Runtime]
      BY <1>4, <2>4
    <3> QED
      BY <1>1, <2>1, <2>4, <3>1, HandlerType
  <2> QED
    BY <1>9, <2>2, <2>3, <2>4, Zenon DEF ReleaseSlot
<1>10. CASE Inspect(t) \/ StartUnaffected(t) \/ RestoreUnaffected(t)
  BY <1>1, <1>10, HandlerType DEF Inspect, StartUnaffected, RestoreUnaffected, Unaffected, TypeOK
<1>11. CASE StartCreate(t)
  BY <1>1, <1>2, <1>5, <1>11, HandlerType DEF StartCreate, TypeOK
<1>12. CASE StartReplace(t)
  <2>1. PICK d \in RuntimeDelete(S(t).ref) :
          \/ CreateRuntime(t, [S(t) EXCEPT !.ref = Null], d.rts)
          \/ SetSlot(t, [S(t) EXCEPT !.state = "Failed"]) /\ runtimes' = d.rts
    BY <1>12, Zenon DEF StartReplace
  <2>2. d.rts \in [RuntimeIds -> Runtime]
    BY <1>4
  <2>3. [S(t) EXCEPT !.ref = Null] \in Slot /\ [S(t) EXCEPT !.state = "Failed"] \in Slot
    BY <1>2 DEF Slot, SlotStates
  <2>4. Typed
    BY <1>5, <2>1, <2>2, <2>3
  <2> QED
    BY <1>1, <2>4, HandlerType
<1>13. CASE StartFinish(t)
  <2>1. [S(t) EXCEPT !.restored = FALSE] \in Slot
    BY <1>2 DEF Slot
  <2> QED
    BY <1>1, <1>6, <1>13, <2>1, HandlerType DEF StartFinish
<1>14. CASE StartResume(t)
  BY <1>1, <1>2, <1>6, <1>14, HandlerType DEF StartResume
<1>15. CASE CreateSnapshot(t)
  <2>1. Gone(S(t).ref) \in [RuntimeIds -> Runtime]
    BY ConstantsOK DEF Gone, NoRuntime, Runtime, RuntimeStates, TypeOK
  <2>2. [S(t) EXCEPT !.ref = Null, !.restored = FALSE, !.restoreDir = FALSE, !.state = "Failed"] \in Slot
    BY <1>2 DEF Slot, SlotStates
  <2>3. Typed
    BY <1>15, <2>1, <2>2 DEF CreateSnapshot, TypeOK
  <2> QED
    BY <1>1, <2>3, HandlerType
<1>16. CASE RestoreBegin(t)
  BY <1>1, <1>2, <1>16, HandlerType DEF RestoreBegin, TypeOK, Slot, SlotStates
<1>17. CASE RestoreFinish(t)
  <2> DEFINE rt == [state |-> "running", slot |-> call[t].obj[1], sandbox |-> call[t].uid,
                    loaded |-> TRUE]
  <2>1. rt \in Runtime
    BY <1>2 DEF Runtime, RuntimeStates
  <2>2. CASE \E r \in FreshRuntimes : runtimes' = [runtimes EXCEPT ![r] = rt] /\ SetSlot(t, Restored(S(t), r))
    <3>1. PICK r \in FreshRuntimes : runtimes' = [runtimes EXCEPT ![r] = rt] /\ SetSlot(t, Restored(S(t), r))
      BY <2>2
    <3>2. Restored(S(t), r) \in Slot
      BY <1>2 DEF Restored, Slot, SlotStates, FreshRuntimes
    <3> QED
      BY <1>1, <2>1, <3>1, <3>2, HandlerType DEF TypeOK
  <2>3. CASE runtimes' \in AfterFailedBoot(runtimes, rt) /\ SetSlot(t, [S(t) EXCEPT !.state = "Reserved"])
    <3>1. runtimes' \in [RuntimeIds -> Runtime]
      BY <2>1, <2>3, FailedBootType DEF TypeOK
    <3>2. [S(t) EXCEPT !.state = "Reserved"] \in Slot
      BY <1>2 DEF Slot, SlotStates
    <3> QED
      BY <1>1, <2>3, <3>1, <3>2, HandlerType
  <2> QED
    BY <1>17, <2>2, <2>3, Zenon DEF RestoreFinish
<1> QED
  BY <1>7, <1>8, <1>9, <1>10, <1>11, <1>12, <1>13, <1>14, <1>15, <1>16, <1>17 DEF Body

\* The initial objects of a process are well-typed Free Slots.
LEMMA NewSlotsType ==
  ASSUME deployment \in Deployments
  PROVE  /\ NewSlots \in [SlotIds -> Versions \cup {Null}]
         /\ NewSlotObjects \in [Objects -> Slot]
         /\ IdleApply \in Apply
<1>1. BootConfig \in Config
  BY ConstantsOK DEF BootConfig
<1>2. 0 \in Versions
  BY ConstantsOK DEF Versions
<1>3. \A p \in Profiles \cup {Null} : FreeSlot(p) \in Slot
  BY DEF FreeSlot, Slot, SlotStates
<1>4. \A o \in Objects : (IF o[2] = 0 THEN BootConfig[o[1]] ELSE Null) \in Profiles \cup {Null}
  BY <1>1 DEF Objects, Config
<1>5. NewSlotObjects \in [Objects -> Slot]
  BY <1>3, <1>4 DEF NewSlotObjects
<1> QED
  BY <1>2, <1>5 DEF NewSlots, IdleApply, Apply, Config

\* Every step keeps the types.
LEMMA TypeInvNext ==
  ASSUME TypeInv, [Next]_vars
  PROVE  TypeInv'
<1> USE DEF TypeInv
<1>1. ASSUME NEW t \in Threads, NEW op \in Ops, NEW id \in SlotIds, NEW u \in Sandboxes,
             Begin(t, op, id, u)
      PROVE  TypeInv'
  <2>1. [pc |-> "found", op |-> op, obj |-> <<id, slots[id]>>, uid |-> u] \in Call
        /\ <<id, slots[id]>> \in Objects
    BY <1>1 DEF Begin, TypeOK, Call, Objects
  <2> QED
    BY <1>1, <2>1 DEF Begin, TypeOK, Topology, CallOK, ApplyOK
<1>2. ASSUME NEW t \in Threads, Body(t)
      PROVE  TypeInv'
  BY <1>2, BodyType
<1>3. ASSUME NEW cfg \in Config, ApplyBegin(cfg)
      PROVE  TypeInv'
  BY <1>3 DEF ApplyBegin, TypeOK, CallOK, ApplyOK, Apply
<1>4. ASSUME NEW id \in SlotIds, ApplyCheck(id)
      PROVE  TypeInv'
  <2>1. apply' \in Apply /\ apply'.pc \in {apply.pc, "idle"}
    BY <1>4, NewSlotsType DEF ApplyCheck, ApplyRejected, TypeOK, Apply, IdleApply
  <2> QED
    BY <1>4, <2>1 DEF ApplyCheck, TypeOK, CallOK, ApplyOK
<1>5. CASE ApplyCommit
  <2>1. version + 1 \in Versions
    BY <1>5, ConstantsOK DEF ApplyCommit, ApplyOK, TypeOK, Versions
  <2>2. slots' \in [SlotIds -> Versions \cup {Null}]
    BY <1>5, <2>1 DEF ApplyCommit, TypeOK
  <2>3. \A id \in SlotIds : FreeSlot(apply.cfg[id]) \in Slot
    BY DEF TypeOK, Apply, Config, FreeSlot, Slot, SlotStates
  <2>4. slot' \in [Objects -> Slot]
    BY <1>5, <2>3 DEF ApplyCommit, TypeOK, Objects
  <2> QED
    BY <1>5, <2>1, <2>2, <2>4, NewSlotsType DEF ApplyCommit, TypeOK, CallOK, ApplyOK, IdleApply
<1>6. ASSUME NEW r \in RuntimeIds, RuntimeExit(r)
      PROVE  TypeInv'
  <2>1. runtimes' \in [RuntimeIds -> Runtime]
    BY <1>6 DEF RuntimeExit, Now, TypeOK, Runtime, RuntimeStates
  <2> QED
    BY <1>6, <2>1 DEF RuntimeExit, TypeOK, CallOK, ApplyOK
<1>7. ASSUME NEW samePod \in BOOLEAN, Restart(samePod)
      PROVE  TypeInv'
  <2>1. runtimes' \in [RuntimeIds -> Runtime]
    BY <1>7 DEF Restart, TypeOK, NoRuntime, Runtime, RuntimeStates
  <2>2. 0 \in Versions /\ IdleCall \in Call
    BY ConstantsOK DEF Versions, IdleCall, Call
  <2> QED
    BY <1>7, <2>1, <2>2, NewSlotsType DEF Restart, TypeOK, CallOK, ApplyOK, IdleCall, IdleApply
<1>8. CASE Recover
  <2>1. \A r \in RuntimeIds : RuntimeSlotState(runtimes[r].state) \in SlotStates
                              /\ runtimes[r].sandbox \in Sandboxes \cup {Null}
    BY DEF RuntimeSlotState, SlotStates, TypeOK, Runtime
  <2>2. ASSUME NEW o \in Objects
        PROVE  slot'[o] \in Slot
    <3>1. CASE \E r \in Listed : o = <<runtimes[r].slot, 0>>
      <4> DEFINE r == CHOOSE r \in Listed : o = <<runtimes[r].slot, 0>>
      <4>1. r \in RuntimeIds
        BY <3>1 DEF Listed
      <4>2. slot'[o] = [slot[o] EXCEPT !.sandbox = runtimes[r].sandbox, !.ref = r,
                                       !.state = RuntimeSlotState(runtimes[r].state)]
        BY <1>8, <3>1 DEF Recover
      <4> HIDE DEF r
      <4> QED
        BY <2>1, <4>1, <4>2 DEF TypeOK, Slot
    <3>2. CASE ~ \E r \in Listed : o = <<runtimes[r].slot, 0>>
      BY <1>8, <3>2 DEF Recover, TypeOK
    <3> QED
      BY <3>1, <3>2
  <2>3. slot' \in [Objects -> Slot]
    <3>1. slot' = [o \in Objects |-> slot'[o]]
      BY <1>8 DEF Recover
    <3> QED
      BY <2>2, <3>1
  <2> QED
    BY <1>8, <2>3 DEF Recover, TypeOK, CallOK, ApplyOK
<1>9. CASE UNCHANGED vars
  BY <1>9 DEF vars, TypeOK, CallOK, ApplyOK
<1> QED
  BY <1>1, <1>2, <1>3, <1>4, <1>5, <1>6, <1>7, <1>8, <1>9 DEF Next

\* A handler that has its pointer names a Slot object and a Sandbox, and a
\* topology push in progress has a version left, in every reachable state.
LEMMA TypeInvariance == Spec => []TypeInv
<1>1. Init => TypeInv
  <2> SUFFICES ASSUME Init PROVE TypeInv
    OBVIOUS
  <2>1. NoRuntime \in Runtime /\ IdleCall \in Call
    BY DEF NoRuntime, Runtime, RuntimeStates, IdleCall, Call
  <2>2. version \in Versions
    BY ConstantsOK DEF Init, Versions
  <2> QED
    BY <2>1, <2>2, NewSlotsType DEF Init, TypeInv, TypeOK, CallOK, ApplyOK, IdleCall, IdleApply
<1>2. TypeInv /\ [Next]_vars => TypeInv'
  BY TypeInvNext
<1> QED
  BY <1>1, <1>2, PTL DEF Spec

\* Every reachable state of the Worker is well-typed; in particular Recover
\* only writes states a Slot may have.
THEOREM TypeCorrect == Spec => []TypeOK
<1>1. TypeInv => TypeOK
  BY DEF TypeInv
<1> QED
  BY <1>1, TypeInvariance, PTL

-----------------------------------------------------------------------------
(* Ownership.                                                              *)

InSection(t) == call[t].pc \in {"booting", "loading"}

\* A handler between its two runtime calls still owns its Slot and holds its
\* lock alone: no other handler is inside the same object.
SectionOwned ==
  /\ \A t \in Threads : InSection(t) =>
       /\ S(t).state = "Starting" /\ Owns(t)
       /\ call[t].pc = "booting" => S(t).ref # Null
  /\ \A t1, t2 \in Threads : InSection(t1) /\ InSection(t2) /\ call[t1].obj = call[t2].obj => t1 = t2

\* Every runtime object carries the labels of a Slot and a Sandbox.
RuntimesLabelled ==
  \A r \in RuntimeIds : runtimes[r].state # "none" =>
    runtimes[r].slot \in SlotIds /\ runtimes[r].sandbox \in Sandboxes

\* With CRI a Slot's reference is never dangling (kata keeps it after Stop).
RefsResolve ==
  ~SelfManaged => \A o \in Objects : slot[o].ref # Null => runtimes[slot[o].ref].state # "none"

\* Before Recover nothing is owned and nobody is served.
RecoveringIsBlank ==
  phase = "recovering" =>
    /\ \A o \in Objects : slot[o].sandbox = Null
    /\ \A t \in Threads : call[t].pc = "idle"
    /\ apply.pc = "idle"

\* No pointer leads to an object of a topology version still to come.
FutureIsBlank ==
  /\ \A o \in Objects : o[2] > version => slot[o].sandbox = Null
  /\ \A id \in SlotIds : slots[id] # Null => slots[id] <= version
  /\ \A t \in Threads : call[t].pc # "idle" => call[t].obj[2] <= version

\* The inductive invariant.
OwnerInv ==
  /\ FreeSlotIsBlank
  /\ RuntimeBelongsToOwner
  /\ SectionOwned
  /\ RuntimesLabelled
  /\ RefsResolve
  /\ RecoveringIsBlank
  /\ FutureIsBlank

\* What deleting or stopping runtime object r does to its labels, and when it
\* may make the object disappear.
LEMMA RuntimeAnswersOwner ==
  ASSUME TypeOK, NEW r \in RuntimeIds, SelfManaged \/ runtimes[r].state # "none",
         NEW d \in RuntimeDelete(r) \cup DeleteRestored(r) \cup RuntimeStop(r)
  PROVE  /\ \A q \in RuntimeIds \ {r} : d.rts[q] = runtimes[q]
         /\ d.rts[r].state # "none" =>
              /\ runtimes[r].state # "none"
              /\ d.rts[r].slot = runtimes[r].slot
              /\ d.rts[r].sandbox = runtimes[r].sandbox
         /\ ~SelfManaged /\ (~d.ok \/ d \in RuntimeStop(r)) => d.rts[r].state # "none"
<1> USE DEF TypeOK
<1>1. CASE d \in RuntimeDelete(r)
  BY <1>1 DEF RuntimeDelete, RuntimeStop, DeleteFails, Gone, Now, NoRuntime, Runtime
<1>2. CASE d \in DeleteRestored(r)
  BY <1>2 DEF DeleteRestored, RuntimeStop, DeleteFails, Gone, Now, NoRuntime, Runtime
<1>3. CASE d \in RuntimeStop(r)
  BY <1>2, <1>3 DEF RuntimeStop, DeleteFails, Gone, Now, NoRuntime, Runtime
<1> QED
  BY <1>1, <1>2, <1>3

\* The Slot value s that handler t leaves in its object, together with the
\* runtime objects after its step, keeps ownership: the other Slots' runtimes
\* are untouched, and the one s refers to is labelled with this Slot and owner.
LeavesOwned(t, s) ==
  /\ s \in Slot
  /\ SetSlot(t, s)
  /\ s.state = "Free" <=> s.sandbox = Null
  /\ s.state = "Free" => s = FreeSlot(s.profile)
  /\ \A q \in RuntimeIds : runtimes'[q].state # "none" =>
       runtimes'[q].slot \in SlotIds /\ runtimes'[q].sandbox \in Sandboxes
  /\ \A o \in Objects \ {call[t].obj} : slot[o].ref # Null =>
       runtimes'[slot[o].ref] = runtimes[slot[o].ref] /\ slot[o].ref # s.ref
  /\ s.ref # Null =>
       /\ runtimes'[s.ref].state # "none" =>
            runtimes'[s.ref].slot = call[t].obj[1] /\ runtimes'[s.ref].sandbox = s.sandbox
       /\ SelfManaged \/ runtimes'[s.ref].state # "none"

\* A handler step that leaves its Slot owned preserves ownership everywhere.
LEMMA HandlerOwner ==
  ASSUME TypeInv, OwnerInv, NEW t \in Threads, call[t].pc # "idle",
         InSection(t) \/ ~SlotLocked(call[t].obj),
         NEW s, LeavesOwned(t, s),
         \/ Return(t)
         \/ \E pc \in {"booting", "loading"} :
              /\ Proceed(t, pc) /\ s.state = "Starting" /\ s.sandbox = call[t].uid
              /\ pc = "booting" => s.ref # Null,
         UNCHANGED Topology
  PROVE  OwnerInv'
<1> DEFINE obj == call[t].obj
<1>1. obj \in Objects /\ slot \in [Objects -> Slot] /\ call \in [Threads -> Call]
      /\ runtimes \in [RuntimeIds -> Runtime]
  BY DEF TypeInv, TypeOK, CallOK
<1>2. slot' = [slot EXCEPT ![obj] = s] /\ s \in Slot
  BY DEF LeavesOwned, SetSlot
<1>3. \A o \in Objects : slot'[o] = IF o = obj THEN s ELSE slot[o]
  BY <1>1, <1>2
<1>4. UNCHANGED <<deployment, slots, version, apply, phase>>
  BY DEF Topology
<1>5. \A u \in Threads : u # t => call'[u] = call[u]
  BY <1>1 DEF Return, Proceed
<1>6. \/ call'[t].pc = "idle"
      \/ /\ call'[t].pc \in {"booting", "loading"} /\ call'[t].obj = obj /\ call'[t].uid = call[t].uid
         /\ s.state = "Starting" /\ s.sandbox = call[t].uid
         /\ call'[t].pc = "booting" => s.ref # Null
  BY <1>1 DEF Return, Proceed, IdleCall, Call
<1> HIDE DEF obj
<1>7. FreeSlotIsBlank'
  BY <1>3 DEF FreeSlotIsBlank, LeavesOwned, OwnerInv, FreeSlot
<1>8. RuntimeBelongsToOwner'
  BY <1>1, <1>3 DEF RuntimeBelongsToOwner, LeavesOwned, OwnerInv, obj
<1>9. SectionOwned'
  <2>1. ASSUME NEW u \in Threads, u # t, InSection(u)'
        PROVE  InSection(u) /\ call[u].obj # obj
    BY <1>5, <2>1 DEF InSection, SlotLocked, OwnerInv, SectionOwned, obj
  <2>2. ASSUME NEW u \in Threads, InSection(u)'
        PROVE  (S(u).state = "Starting" /\ Owns(u) /\ (call[u].pc = "booting" => S(u).ref # Null))'
    <3>1. CASE u = t
      BY <1>1, <1>3, <1>6, <2>2, <3>1 DEF InSection, S, Owns
    <3>2. CASE u # t
      <4>1. InSection(u) /\ call[u].obj # obj /\ call[u].obj \in Objects
        BY <2>1, <2>2, <3>2 DEF TypeInv, CallOK, InSection
      <4> QED
        BY <1>3, <1>5, <3>2, <4>1 DEF S, Owns, OwnerInv, SectionOwned
    <3> QED
      BY <3>1, <3>2
  <2>3. ASSUME NEW u1 \in Threads, NEW u2 \in Threads, InSection(u1)', InSection(u2)',
               call'[u1].obj = call'[u2].obj
        PROVE  u1 = u2
    BY <1>5, <1>6, <2>1, <2>3 DEF InSection, OwnerInv, SectionOwned
  <2> QED
    BY <2>2, <2>3 DEF SectionOwned
<1>10. RuntimesLabelled'
  BY DEF RuntimesLabelled, LeavesOwned
<1>11. RefsResolve'
  BY <1>3, <1>4 DEF RefsResolve, LeavesOwned, OwnerInv, SelfManaged, obj
<1>12. RecoveringIsBlank'
  BY <1>4 DEF RecoveringIsBlank, OwnerInv
<1>13. FutureIsBlank'
  <2>1. obj[2] <= version /\ obj[2] \in Nat /\ version \in Nat
    BY <1>1, ConstantsOK DEF FutureIsBlank, OwnerInv, TypeInv, TypeOK, Objects, Versions, obj
  <2>2. \A o \in Objects : o[2] > version => slot'[o].sandbox = Null
    BY <1>3, <2>1 DEF FutureIsBlank, OwnerInv
  <2>3. \A u \in Threads : call'[u].pc # "idle" => call'[u].obj[2] <= version
    BY <1>5, <1>6, <2>1 DEF FutureIsBlank, OwnerInv
  <2> QED
    BY <1>4, <2>2, <2>3 DEF FutureIsBlank, OwnerInv
<1> QED
  BY <1>7, <1>8, <1>9, <1>10, <1>11, <1>12, <1>13 DEF OwnerInv

\* Every handler body preserves ownership.
LEMMA BodyOwner ==
  ASSUME TypeInv, OwnerInv, NEW t \in Threads, Body(t)
  PROVE  OwnerInv'
<1> DEFINE obj == call[t].obj
           s0  == S(t)
           Outcome(s) == /\ LeavesOwned(t, s)
                         /\ \/ Return(t)
                            \/ \E pc \in {"booting", "loading"} :
                                 /\ Proceed(t, pc) /\ s.state = "Starting" /\ s.sandbox = call[t].uid
                                 /\ pc = "booting" => s.ref # Null
<1>1. /\ call[t].pc # "idle"
      /\ InSection(t) \/ ~SlotLocked(call[t].obj)
      /\ UNCHANGED Topology
  BY DEF Body, ReserveSlot, StopSandbox, ReleaseSlot, Inspect, StartUnaffected, StartCreate,
         StartReplace, StartFinish, StartResume, CreateSnapshot,
         RestoreUnaffected, RestoreBegin, RestoreFinish, Enter, Unaffected, Topology, InSection
<1>2. /\ obj \in Objects /\ obj[1] \in SlotIds /\ call[t].uid \in Sandboxes
      /\ slot \in [Objects -> Slot] /\ runtimes \in [RuntimeIds -> Runtime]
      /\ s0 \in Slot /\ s0 = slot[obj]
  BY <1>1 DEF TypeInv, TypeOK, CallOK, S, Objects
<1>3. \A s : Outcome(s) => OwnerInv'
  BY <1>1, HandlerOwner
<1>4. /\ s0.state = "Free" <=> s0.sandbox = Null
      /\ s0.state = "Free" => s0 = FreeSlot(s0.profile)
      /\ call[t].uid # Null
  BY <1>2, ConstantsOK DEF OwnerInv, FreeSlotIsBlank
\* The Slot's own reference, and every other Slot's.
<1>5. s0.ref # Null =>
        /\ s0.ref \in RuntimeIds
        /\ SelfManaged \/ runtimes[s0.ref].state # "none"
        /\ runtimes[s0.ref].state # "none" =>
             runtimes[s0.ref].slot = obj[1] /\ runtimes[s0.ref].sandbox = s0.sandbox
  BY <1>2 DEF OwnerInv, RefsResolve, RuntimeBelongsToOwner, Slot
<1>6. \A o \in Objects \ {obj} : slot[o].ref # Null =>
        slot[o].ref \in RuntimeIds /\ slot[o].ref # s0.ref
  BY <1>2 DEF OwnerInv, RuntimeBelongsToOwner, Slot
<1>7. \A r \in FreshRuntimes : r \in RuntimeIds /\ \A o \in Objects : slot[o].ref # r
  BY DEF FreshRuntimes
<1>8. SelfManaged \in BOOLEAN
  BY ConstantsOK DEF TypeInv, TypeOK, SelfManaged
<1> HIDE DEF obj, s0
\* Nothing written: the Slot keeps its value.
<1>10. ASSUME UNCHANGED <<slot, runtimes>> PROVE LeavesOwned(t, s0)
  <2>1. SetSlot(t, s0)
    BY <1>2, <1>10 DEF SetSlot, obj
  <2> QED
    BY <1>2, <1>4, <1>5, <1>6, <1>10, <2>1 DEF LeavesOwned, OwnerInv, RuntimesLabelled, obj
\* An owned Slot that changes state but neither owner nor runtime.
<1>11. ASSUME NEW s \in Slot, SetSlot(t, s), UNCHANGED runtimes,
              s.state # "Free", s.sandbox # Null, s.ref = s0.ref \/ s.ref = Null,
              s.sandbox = s0.sandbox \/ s.ref = Null
       PROVE  LeavesOwned(t, s)
  BY <1>2, <1>5, <1>6, <1>11 DEF LeavesOwned, OwnerInv, RuntimesLabelled, obj
\* The Slot's runtime object was deleted or stopped.
<1>12. ASSUME s0.ref # Null,
              NEW d \in RuntimeDelete(s0.ref) \cup DeleteRestored(s0.ref) \cup RuntimeStop(s0.ref),
              runtimes' = d.rts, NEW s \in Slot, SetSlot(t, s),
              s.state = "Free" <=> s.sandbox = Null,
              s.state = "Free" => s = FreeSlot(s.profile),
              \/ s.ref = Null
              \/ /\ s.ref = s0.ref /\ s.sandbox = s0.sandbox
                 /\ SelfManaged \/ ~d.ok \/ d \in RuntimeStop(s0.ref)
       PROVE  LeavesOwned(t, s)
  <2>1. /\ \A q \in RuntimeIds \ {s0.ref} : d.rts[q] = runtimes[q]
        /\ d.rts[s0.ref].state # "none" =>
              /\ runtimes[s0.ref].state # "none"
              /\ d.rts[s0.ref].slot = runtimes[s0.ref].slot
              /\ d.rts[s0.ref].sandbox = runtimes[s0.ref].sandbox
        /\ ~SelfManaged /\ (~d.ok \/ d \in RuntimeStop(s0.ref)) => d.rts[s0.ref].state # "none"
    BY <1>5, <1>12, RuntimeAnswersOwner DEF TypeInv
  <2>2. \A q \in RuntimeIds : runtimes'[q].state # "none" =>
          runtimes'[q].slot \in SlotIds /\ runtimes'[q].sandbox \in Sandboxes
    BY <1>5, <1>12, <2>1 DEF OwnerInv, RuntimesLabelled
  <2>3. \A o \in Objects \ {obj} : slot[o].ref # Null =>
          runtimes'[slot[o].ref] = runtimes[slot[o].ref] /\ slot[o].ref # s.ref
    BY <1>6, <1>12, <2>1
  <2>4. s.ref # Null =>
          /\ runtimes'[s.ref].state # "none" =>
               runtimes'[s.ref].slot = obj[1] /\ runtimes'[s.ref].sandbox = s.sandbox
          /\ SelfManaged \/ runtimes'[s.ref].state # "none"
    BY <1>5, <1>12, <2>1
  <2> QED
    BY <1>12, <2>2, <2>3, <2>4 DEF LeavesOwned, obj
\* Runtime objects a new one may be added to: all labelled, the other Slots'
\* untouched, and the Slot's own, if it keeps one, as it was.
<1> DEFINE Ground(s, rts) ==
      /\ s \in Slot /\ s.state # "Free" /\ s.sandbox = call[t].uid
      /\ s.ref = Null \/ (s.ref = s0.ref /\ s.sandbox = s0.sandbox /\ rts = runtimes)
      /\ rts \in [RuntimeIds -> Runtime]
      /\ \A q \in RuntimeIds : rts[q].state # "none" => rts[q].slot \in SlotIds /\ rts[q].sandbox \in Sandboxes
      /\ \A o \in Objects \ {obj} : slot[o].ref # Null => rts[slot[o].ref] = runtimes[slot[o].ref]
<1>13. ASSUME NEW s, NEW rts, Ground(s, rts),
              NEW rt \in Runtime, rt.slot = obj[1], rt.sandbox = call[t].uid, rt.state # "none",
              NEW r \in FreshRuntimes, runtimes' = [rts EXCEPT ![r] = rt],
              NEW s1 \in Slot, SetSlot(t, s1), s1.state # "Free", s1.sandbox = call[t].uid, s1.ref = r
       PROVE  LeavesOwned(t, s1)
  BY <1>2, <1>4, <1>7, <1>13 DEF LeavesOwned, obj, Runtime
<1>14. ASSUME NEW s, NEW rts, Ground(s, rts),
              NEW rt \in Runtime, rt.slot = obj[1], rt.sandbox = call[t].uid,
              runtimes' \in AfterFailedBoot(rts, rt),
              SetSlot(t, [s EXCEPT !.state = "Reserved"])
       PROVE  LeavesOwned(t, [s EXCEPT !.state = "Reserved"])
  <2> DEFINE s1 == [s EXCEPT !.state = "Reserved"]
  <2>1. s1 \in Slot /\ s1.state # "Free" /\ s1.sandbox = s.sandbox /\ s1.ref = s.ref
    BY <1>14 DEF Slot, SlotStates
  <2>2. runtimes' = rts \/ \E r \in FreshRuntimes : runtimes' = [rts EXCEPT ![r] = rt]
    BY <1>14 DEF AfterFailedBoot
  <2>3. \A q \in RuntimeIds : runtimes'[q].state # "none" =>
          runtimes'[q].slot \in SlotIds /\ runtimes'[q].sandbox \in Sandboxes
    BY <1>2, <1>14, <2>2
  <2>4. \A o \in Objects : slot[o].ref # Null /\ slot[o].ref \in RuntimeIds => runtimes'[slot[o].ref] = rts[slot[o].ref]
    BY <1>7, <1>14, <2>2
  <2>5. \A o \in Objects \ {obj} : slot[o].ref # Null =>
          runtimes'[slot[o].ref] = runtimes[slot[o].ref] /\ slot[o].ref # s1.ref
    BY <1>6, <1>14, <2>1, <2>4
  <2>6. s1.ref # Null => runtimes'[s1.ref] = runtimes[s1.ref] /\ s1.ref = s0.ref /\ s1.sandbox = s0.sandbox
    BY <1>2, <1>5, <1>14, <2>1, <2>4
  <2> HIDE DEF s1
  <2>7. LeavesOwned(t, s1)
    <3>1. s1.sandbox # Null
      BY <1>4, <1>14, <2>1
    <3>2. SetSlot(t, s1)
      BY <1>14 DEF s1
    <3> QED
      BY <1>5, <2>1, <2>3, <2>5, <2>6, <3>1, <3>2 DEF LeavesOwned, obj
  <2> QED
    BY <2>7 DEF s1
<1>15. ASSUME NEW s, NEW rts, Ground(s, rts), CreateRuntime(t, s, rts)
       PROVE  \E s1 : Outcome(s1)
  <2> DEFINE rt == [state |-> IF SelfManaged THEN "running" ELSE "created", slot |-> call[t].obj[1],
                    sandbox |-> call[t].uid, loaded |-> FALSE]
  <2> DEFINE left == [rt EXCEPT !.state = "bare"]
  <2>1. /\ rt \in Runtime /\ rt.slot = obj[1] /\ rt.sandbox = call[t].uid /\ rt.state # "none"
        /\ left \in Runtime /\ left.slot = obj[1] /\ left.sandbox = call[t].uid
    BY <1>2 DEF Runtime, RuntimeStates, obj
  <2>2. CASE \E r \in FreshRuntimes :
               /\ runtimes' = [rts EXCEPT ![r] = rt]
               /\ SetSlot(t, [s EXCEPT !.state = "Starting", !.ref = r, !.restored = SelfManaged])
               /\ Proceed(t, "booting")
    <3>1. PICK r \in FreshRuntimes :
               /\ runtimes' = [rts EXCEPT ![r] = rt]
               /\ SetSlot(t, [s EXCEPT !.state = "Starting", !.ref = r, !.restored = SelfManaged])
               /\ Proceed(t, "booting")
      BY <2>2
    <3> DEFINE s1 == [s EXCEPT !.state = "Starting", !.ref = r, !.restored = SelfManaged]
    <3>2. s1 \in Slot /\ s1.state = "Starting" /\ s1.sandbox = call[t].uid /\ s1.ref = r
      BY <1>7, <1>8, <1>15 DEF Slot, SlotStates
    <3> HIDE DEF rt, left
    <3>3. SetSlot(t, s1)
      BY <3>1
    <3> HIDE DEF s1
    <3>4. LeavesOwned(t, s1)
      BY <1>13, <1>15, <2>1, <3>1, <3>2, <3>3
    <3>5. s1.ref # Null
      BY <1>7, <3>2, ConstantsOK
    <3> QED
      BY <3>1, <3>2, <3>4, <3>5
  <2>3. CASE /\ runtimes' \in AfterFailedBoot(rts, left)
             /\ SetSlot(t, [s EXCEPT !.state = "Reserved"])
             /\ Return(t)
    <3> HIDE DEF rt, left
    <3> QED
      BY <1>14, <1>15, <2>1, <2>3
  <2> QED
    BY <1>15, <2>2, <2>3 DEF CreateRuntime
<1>16. ASSUME NEW s \in Slot, s.sandbox = s0.sandbox, s0.ref # Null, s0.state # "Free",
              StartRuntime(t, s)
       PROVE  \E s1 : LeavesOwned(t, s1)
  <2>1. CASE /\ SetSlot(t, [s0 EXCEPT !.state = "Running"])
             /\ runtimes' = IF SelfManaged THEN runtimes ELSE Now(s0.ref, "running")
    <3> DEFINE s1 == [s0 EXCEPT !.state = "Running"]
    <3>1. s1 \in Slot /\ s1.state # "Free" /\ s1.sandbox = s0.sandbox /\ s1.ref = s0.ref
      BY <1>2 DEF Slot, SlotStates
    <3>2. SetSlot(t, s1)
      BY <2>1
    <3> HIDE DEF s1
    <3>3. CASE SelfManaged
      BY <1>4, <1>11, <1>16, <2>1, <3>1, <3>2, <3>3
    <3>4. CASE ~SelfManaged
      <4>1. /\ \A q \in RuntimeIds \ {s0.ref} : runtimes'[q] = runtimes[q]
            /\ runtimes'[s0.ref].state = "running"
            /\ runtimes'[s0.ref].slot = runtimes[s0.ref].slot
            /\ runtimes'[s0.ref].sandbox = runtimes[s0.ref].sandbox
            /\ runtimes[s0.ref].state # "none"
        BY <1>2, <1>5, <1>16, <2>1, <3>4 DEF Now, Runtime
      <4>2. \A q \in RuntimeIds : runtimes'[q].state # "none" =>
              runtimes'[q].slot \in SlotIds /\ runtimes'[q].sandbox \in Sandboxes
        BY <1>5, <1>16, <4>1 DEF OwnerInv, RuntimesLabelled
      <4>3. s1.sandbox # Null
        BY <1>4, <1>16, <3>1
      <4> QED
        BY <1>5, <1>6, <1>16, <3>1, <3>2, <4>1, <4>2, <4>3 DEF LeavesOwned, obj
    <3> QED
      BY <3>3, <3>4
  <2>2. CASE \E d \in RuntimeDelete(s0.ref) :
          /\ runtimes' = d.rts
          /\ SetSlot(t, [s EXCEPT !.ref = Null, !.state = IF d.ok THEN "Reserved" ELSE "Failed"])
    <3>1. PICK d \in RuntimeDelete(s0.ref), x \in {"Reserved", "Failed"} :
            /\ runtimes' = d.rts
            /\ SetSlot(t, [s EXCEPT !.ref = Null, !.state = x])
      BY <2>2
    <3> DEFINE s1 == [s EXCEPT !.ref = Null, !.state = x]
    <3>2. s1 \in Slot /\ s1.state # "Free" /\ s1.sandbox = s0.sandbox /\ s1.ref = Null
      BY <1>16 DEF Slot, SlotStates
    <3>3. SetSlot(t, s1)
      BY <3>1
    <3> HIDE DEF s1
    <3> QED
      BY <1>4, <1>12, <1>16, <3>1, <3>2, <3>3
  <2> QED
    BY <1>16, <2>1, <2>2 DEF StartRuntime, s0
<1>20. CASE ReserveSlot(t)
  <2>1. CASE CanReserve(s0)
    <3> DEFINE s1 == [s0 EXCEPT !.state = "Reserved", !.sandbox = call[t].uid]
    <3>1. s0.ref = Null
      BY <1>4, <2>1 DEF CanReserve, FreeSlot
    <3>2. s1 \in Slot /\ s1.state # "Free" /\ s1.sandbox = call[t].uid /\ s1.ref = Null
      BY <1>2, <3>1 DEF Slot, SlotStates
    <3>3. SetSlot(t, s1) /\ UNCHANGED runtimes /\ Return(t)
      BY <1>20, <2>1 DEF ReserveSlot, s0
    <3> HIDE DEF s1
    <3> QED
      BY <1>3, <1>4, <1>11, <3>2, <3>3
  <2>2. CASE ~CanReserve(s0)
    BY <1>3, <1>10, <1>20, <2>2 DEF ReserveSlot, s0
  <2> QED
    BY <2>1, <2>2
<1>21. CASE StopSandbox(t)
  <2>1. Return(t)
    BY <1>21 DEF StopSandbox
  <2>2. CASE s0.state \in {"Free", "Stopping", "Cleaning"} \/ ~Owns(t)
    <3>1. UNCHANGED <<slot, runtimes>>
      BY <1>21, <2>2, Zenon DEF StopSandbox, s0
    <3> QED
      BY <1>3, <1>10, <2>1, <3>1
  <2>3. CASE s0.state \notin {"Free", "Stopping", "Cleaning"} /\ Owns(t)
    <3>1. \A x \in {"Stopping", "Failed"} :
            LET s1 == [s0 EXCEPT !.state = x]
                s2 == [s0 EXCEPT !.state = x, !.ref = Null, !.restoreDir = FALSE]
            IN /\ s1 \in Slot /\ s1.state # "Free" /\ s1.sandbox = s0.sandbox /\ s1.ref = s0.ref
               /\ s2 \in Slot /\ s2.state # "Free" /\ s2.sandbox = s0.sandbox /\ s2.ref = Null
      BY <1>2 DEF Slot, SlotStates
    <3>2. s0.sandbox # Null
      BY <1>4, <2>3
    <3>3. CASE s0.ref = Null
      <4>1. SetSlot(t, [s0 EXCEPT !.state = "Stopping"]) /\ UNCHANGED runtimes
        BY <1>21, <2>3, <3>3, Zenon DEF StopSandbox, s0
      <4> QED
        BY <1>3, <1>11, <2>1, <3>1, <3>2, <4>1
    <3>4. CASE s0.ref # Null
      <4>1. PICK d \in IF s0.restored THEN DeleteRestored(s0.ref) ELSE RuntimeStop(s0.ref) :
              /\ runtimes' = d.rts
              /\ SetSlot(t, IF ~d.ok THEN [s0 EXCEPT !.state = "Failed"]
                            ELSE IF s0.restored
                            THEN [s0 EXCEPT !.state = "Stopping", !.ref = Null, !.restoreDir = FALSE]
                            ELSE [s0 EXCEPT !.state = "Stopping"])
        BY <1>21, <2>3, <3>4, Zenon DEF StopSandbox, s0
      <4>2. d \in RuntimeDelete(s0.ref) \cup DeleteRestored(s0.ref) \cup RuntimeStop(s0.ref)
        BY <4>1
      <4>3. CASE ~d.ok
        BY <1>3, <1>12, <2>1, <3>1, <3>2, <3>4, <4>1, <4>2, <4>3
      <4>4. CASE d.ok /\ s0.restored
        BY <1>3, <1>12, <2>1, <3>1, <3>2, <3>4, <4>1, <4>2, <4>4
      <4>5. CASE d.ok /\ ~s0.restored
        BY <1>3, <1>12, <2>1, <3>1, <3>2, <3>4, <4>1, <4>2, <4>5
      <4> QED
        BY <4>3, <4>4, <4>5
    <3> QED
      BY <3>3, <3>4
  <2> QED
    BY <2>2, <2>3
<1>22. CASE ReleaseSlot(t)
  <2>1. Return(t)
    BY <1>22 DEF ReleaseSlot
  <2>2. CASE s0.state = "Free" \/ ~Owns(t)
    <3>1. UNCHANGED <<slot, runtimes>>
      BY <1>22, <2>2, Zenon DEF ReleaseSlot, s0
    <3> QED
      BY <1>3, <1>10, <2>1, <3>1
  <2>3. CASE s0.state # "Free" /\ Owns(t)
    <3> DEFINE s1 == Released(s0)
               s2 == [s0 EXCEPT !.state = "Failed"]
    <3>1. s1 \in Slot /\ s1.state = "Free" /\ s1.sandbox = Null /\ s1.ref = Null
          /\ s1 = FreeSlot(s1.profile)
      BY <1>2 DEF Slot, SlotStates, Released, FreeSlot
    <3>2. s2 \in Slot /\ s2.state = "Failed" /\ s2.sandbox = s0.sandbox /\ s2.ref = s0.ref
          /\ s0.sandbox # Null
      BY <1>2, <1>4, <2>3 DEF Slot, SlotStates
    <3>3. CASE s0.ref = Null
      <4>1. SetSlot(t, s1) /\ UNCHANGED runtimes
        BY <1>22, <2>3, <3>3, Zenon DEF ReleaseSlot, NeedsDelete, s0
      <4> HIDE DEF s1
      <4>2. LeavesOwned(t, s1)
        BY <1>2, <1>6, <3>1, <4>1 DEF LeavesOwned, OwnerInv, RuntimesLabelled, obj
      <4> QED
        BY <1>3, <2>1, <4>2
    <3>4. CASE s0.ref # Null
      <4>1. PICK d \in IF s0.restored THEN DeleteRestored(s0.ref) ELSE RuntimeDelete(s0.ref) :
              /\ runtimes' = d.rts
              /\ SetSlot(t, IF d.ok THEN s1 ELSE s2)
        BY <1>22, <2>3, <3>4, Zenon DEF ReleaseSlot, NeedsDelete, s0
      <4>2. d \in RuntimeDelete(s0.ref) \cup DeleteRestored(s0.ref) \cup RuntimeStop(s0.ref)
        BY <4>1
      <4> HIDE DEF s1, s2
      <4>3. CASE d.ok
        BY <1>3, <1>12, <2>1, <3>1, <3>4, <4>1, <4>2, <4>3
      <4>4. CASE ~d.ok
        BY <1>3, <1>12, <2>1, <3>2, <3>4, <4>1, <4>2, <4>4
      <4> QED
        BY <4>3, <4>4
    <3> QED
      BY <3>3, <3>4
  <2> QED
    BY <2>2, <2>3
<1>23. CASE Inspect(t) \/ StartUnaffected(t) \/ RestoreUnaffected(t)
  BY <1>3, <1>10, <1>23 DEF Inspect, StartUnaffected, RestoreUnaffected, Unaffected
<1>24. CASE StartCreate(t)
  <2>1. s0.sandbox = call[t].uid /\ s0.state # "Free" /\ CreateRuntime(t, s0, runtimes)
    BY <1>4, <1>24 DEF StartCreate, Owns, CanCreate, s0
  <2>2. Ground(s0, runtimes)
    BY <1>2, <2>1 DEF OwnerInv, RuntimesLabelled
  <2> QED
    BY <1>3, <1>15, <2>1, <2>2
<1>25. CASE StartReplace(t)
  <2>1. PICK d \in RuntimeDelete(s0.ref) :
          \/ CreateRuntime(t, [s0 EXCEPT !.ref = Null], d.rts)
          \/ ~d.ok /\ SetSlot(t, [s0 EXCEPT !.state = "Failed"]) /\ runtimes' = d.rts /\ Return(t)
    BY <1>25, Zenon DEF StartReplace, s0
  <2>2. s0.sandbox = call[t].uid /\ s0.state # "Free" /\ s0.ref # Null
    BY <1>25 DEF StartReplace, Owns, HasStaleRuntime, s0
  <2>3. CASE CreateRuntime(t, [s0 EXCEPT !.ref = Null], d.rts)
    <3> DEFINE s1 == [s0 EXCEPT !.ref = Null]
    <3>1. s1 \in Slot /\ s1.state # "Free" /\ s1.sandbox = call[t].uid /\ s1.ref = Null
      BY <1>2, <2>2 DEF Slot
    <3>2. d.rts \in [RuntimeIds -> Runtime]
      BY RuntimeAnswers DEF TypeInv, Fades
    <3>3. /\ \A q \in RuntimeIds \ {s0.ref} : d.rts[q] = runtimes[q]
          /\ d.rts[s0.ref].state # "none" =>
                /\ runtimes[s0.ref].state # "none"
                /\ d.rts[s0.ref].slot = runtimes[s0.ref].slot
                /\ d.rts[s0.ref].sandbox = runtimes[s0.ref].sandbox
      BY <1>5, <2>2, RuntimeAnswersOwner DEF TypeInv
    <3> HIDE DEF s1
    <3>4. Ground(s1, d.rts)
      BY <1>5, <1>6, <2>2, <3>1, <3>2, <3>3 DEF OwnerInv, RuntimesLabelled
    <3> QED
      BY <1>3, <1>15, <2>3, <3>4 DEF s1
  <2>4. CASE ~d.ok /\ SetSlot(t, [s0 EXCEPT !.state = "Failed"]) /\ runtimes' = d.rts /\ Return(t)
    <3> DEFINE s1 == [s0 EXCEPT !.state = "Failed"]
    <3>1. s1 \in Slot /\ s1.state # "Free" /\ s1.sandbox = s0.sandbox /\ s1.ref = s0.ref
          /\ s0.sandbox # Null
      BY <1>2, <1>4, <2>2 DEF Slot, SlotStates
    <3>2. SetSlot(t, s1)
      BY <2>4
    <3> HIDE DEF s1
    <3> QED
      BY <1>3, <1>12, <2>2, <2>4, <3>1, <3>2
  <2> QED
    BY <2>1, <2>3, <2>4
<1>26. CASE StartFinish(t)
  <2> DEFINE s1 == [s0 EXCEPT !.restored = FALSE]
  <2>1. s0.state # "Free" /\ s0.ref # Null
    BY <1>26 DEF StartFinish, OwnerInv, SectionOwned, InSection, s0
  <2>2. s1 \in Slot /\ s1.sandbox = s0.sandbox
    BY <1>2 DEF Slot
  <2>3. StartRuntime(t, s1) /\ Return(t)
    BY <1>26 DEF StartFinish, s0
  <2> HIDE DEF s1
  <2> QED
    BY <1>3, <1>16, <2>1, <2>2, <2>3
<1>27. CASE StartResume(t)
  <2>1. s0.state # "Free" /\ s0.ref # Null /\ StartRuntime(t, s0) /\ Return(t)
    BY <1>27 DEF StartResume, s0
  <2> QED
    BY <1>2, <1>3, <1>16, <2>1
<1>28. CASE CreateSnapshot(t)
  <2>1. Return(t)
    BY <1>28 DEF CreateSnapshot
  <2>2. CASE UNCHANGED <<slot, runtimes>>
    BY <1>3, <1>10, <2>1, <2>2
  <2>3. CASE ~UNCHANGED <<slot, runtimes>>
    <3> DEFINE s1 == [s0 EXCEPT !.ref = Null, !.restored = FALSE, !.restoreDir = FALSE,
                                !.state = "Failed"]
    <3>1. /\ Owns(t) /\ s0.state = "Running" /\ s0.ref # Null
          /\ runtimes' = Gone(s0.ref) /\ SetSlot(t, s1)
      BY <1>28, <2>3, Zenon DEF CreateSnapshot, s0
    <3>2. s1 \in Slot /\ s1.state # "Free" /\ s1.sandbox = s0.sandbox /\ s1.ref = Null
          /\ s0.sandbox # Null
      BY <1>2, <1>4, <3>1 DEF Slot, SlotStates
    <3>3. /\ \A q \in RuntimeIds \ {s0.ref} : runtimes'[q] = runtimes[q]
          /\ runtimes'[s0.ref].state = "none"
      BY <1>2, <1>5, <3>1 DEF Gone, NoRuntime
    <3> HIDE DEF s1
    <3>4. LeavesOwned(t, s1)
      BY <1>5, <1>6, <3>1, <3>2, <3>3 DEF LeavesOwned, OwnerInv, RuntimesLabelled, obj
    <3> QED
      BY <1>3, <2>1, <3>4
  <2> QED
    BY <2>2, <2>3
<1>29. CASE RestoreBegin(t)
  <2> DEFINE s1 == [s0 EXCEPT !.state = "Starting"]
  <2>1. /\ s0.sandbox = call[t].uid /\ s0.state # "Free"
        /\ SetSlot(t, s1) /\ UNCHANGED runtimes /\ Proceed(t, "loading")
    BY <1>29 DEF RestoreBegin, CanRestore, Owns, s0
  <2>2. s1 \in Slot /\ s1.state = "Starting" /\ s1.sandbox = s0.sandbox /\ s1.ref = s0.ref
    BY <1>2 DEF Slot, SlotStates
  <2> HIDE DEF s1
  <2>3. LeavesOwned(t, s1)
    BY <1>4, <1>11, <2>1, <2>2
  <2> QED
    BY <1>3, <2>1, <2>2, <2>3
<1>30. CASE RestoreFinish(t)
  <2> DEFINE rt == [state |-> "running", slot |-> call[t].obj[1], sandbox |-> call[t].uid,
                    loaded |-> TRUE]
  <2>1. rt \in Runtime /\ rt.slot = obj[1] /\ rt.sandbox = call[t].uid /\ rt.state # "none"
    BY <1>2 DEF Runtime, RuntimeStates, obj
  <2>2. s0.sandbox = call[t].uid /\ s0.state # "Free" /\ Return(t)
    BY <1>30 DEF RestoreFinish, OwnerInv, SectionOwned, InSection, Owns, s0
  <2>3. Ground(s0, runtimes)
    BY <1>2, <2>2 DEF OwnerInv, RuntimesLabelled
  <2>4. CASE \E r \in FreshRuntimes : runtimes' = [runtimes EXCEPT ![r] = rt] /\ SetSlot(t, Restored(s0, r))
    <3>1. PICK r \in FreshRuntimes : runtimes' = [runtimes EXCEPT ![r] = rt] /\ SetSlot(t, Restored(s0, r))
      BY <2>4
    <3> DEFINE s1 == Restored(s0, r)
    <3>2. s1 \in Slot /\ s1.state # "Free" /\ s1.sandbox = call[t].uid /\ s1.ref = r
      BY <1>2, <1>7, <2>2 DEF Restored, Slot, SlotStates
    <3> HIDE DEF rt
    <3>3. SetSlot(t, s1)
      BY <3>1
    <3> HIDE DEF s1
    <3>4. LeavesOwned(t, s1)
      BY <1>13, <2>1, <2>3, <3>1, <3>2, <3>3
    <3> QED
      BY <1>3, <2>2, <3>4
  <2>5. CASE runtimes' \in AfterFailedBoot(runtimes, rt) /\ SetSlot(t, [s0 EXCEPT !.state = "Reserved"])
    <3> HIDE DEF rt
    <3> QED
      BY <1>3, <1>14, <2>1, <2>2, <2>3, <2>5
  <2> QED
    BY <1>30, <2>4, <2>5, Zenon DEF RestoreFinish, s0
<1> QED
  BY <1>20, <1>21, <1>22, <1>23, <1>24, <1>25, <1>26, <1>27, <1>28, <1>29, <1>30 DEF Body

\* What a Free Slot looks like.
LEMMA FreeSlotFields ==
  ASSUME NEW p
  PROVE  /\ FreeSlot(p).profile = p /\ FreeSlot(p).state = "Free"
         /\ FreeSlot(p).sandbox = Null /\ FreeSlot(p).ref = Null
BY DEF FreeSlot

\* The ownership invariant holds in every reachable state.
LEMMA OwnerInvariance == Spec => []OwnerInv
<1> USE DEF TypeInv
<1>1. Init => OwnerInv
  <2> SUFFICES ASSUME Init PROVE OwnerInv
    OBVIOUS
  <2>1. \A o \in Objects : slot[o] = FreeSlot(slot[o].profile)
    BY FreeSlotFields DEF Init, NewSlotObjects
  <2>2. FreeSlotIsBlank /\ RuntimeBelongsToOwner /\ RefsResolve
    BY <2>1, FreeSlotFields DEF FreeSlotIsBlank, RuntimeBelongsToOwner, RefsResolve
  <2>3. SectionOwned /\ RuntimesLabelled
    BY DEF Init, SectionOwned, InSection, IdleCall, RuntimesLabelled, NoRuntime
  <2>4. RecoveringIsBlank /\ FutureIsBlank
    BY <2>1, FreeSlotFields DEF Init, RecoveringIsBlank, FutureIsBlank, IdleCall, IdleApply, NewSlots
  <2> QED
    BY <2>2, <2>3, <2>4 DEF OwnerInv
<1>2. TypeInv /\ OwnerInv /\ [Next]_vars => OwnerInv'
  <2> SUFFICES ASSUME TypeInv, OwnerInv, [Next]_vars PROVE OwnerInv'
    OBVIOUS
  <2>1. ASSUME NEW t \in Threads, NEW op \in Ops, NEW id \in SlotIds, NEW u \in Sandboxes,
               Begin(t, op, id, u)
        PROVE  OwnerInv'
    <3>1. UNCHANGED <<deployment, slots, slot, version, apply, runtimes, phase>> /\ phase = "serving"
      BY <2>1 DEF Begin, Topology
    <3>2. \A v \in Threads : v # t => call'[v] = call[v]
      BY <2>1 DEF Begin, TypeOK
    <3>3. call'[t].pc = "found" /\ call'[t].obj = <<id, slots[id]>> /\ slots[id] # Null
      BY <2>1 DEF Begin, TypeOK
    <3>4. SectionOwned'
      BY <3>1, <3>2, <3>3 DEF SectionOwned, InSection, S, Owns, OwnerInv
    <3>5. FutureIsBlank'
      BY <3>1, <3>2, <3>3 DEF FutureIsBlank, OwnerInv
    <3> QED
      BY <3>1, <3>4, <3>5 DEF OwnerInv, FreeSlotIsBlank, RuntimeBelongsToOwner, RuntimesLabelled,
                              RefsResolve, SelfManaged, RecoveringIsBlank
  <2>2. ASSUME NEW t \in Threads, Body(t)
        PROVE  OwnerInv'
    BY <2>2, BodyOwner
  <2>3. ASSUME \/ \E cfg \in Config : ApplyBegin(cfg)
               \/ \E id \in SlotIds : ApplyCheck(id)
               \/ UNCHANGED vars
        PROVE  OwnerInv'
    <3>1. UNCHANGED <<deployment, slots, slot, version, call, runtimes, phase>>
      BY <2>3 DEF ApplyBegin, ApplyCheck, vars
    <3>2. phase = "recovering" => apply'.pc = "idle"
      BY <2>3 DEF ApplyBegin, ApplyCheck, vars, OwnerInv, RecoveringIsBlank
    <3> QED
      BY <3>1, <3>2 DEF OwnerInv, FreeSlotIsBlank, RuntimeBelongsToOwner, SectionOwned, InSection, S,
                        Owns, RuntimesLabelled, RefsResolve, SelfManaged, RecoveringIsBlank, FutureIsBlank
  <2>4. CASE ApplyCommit
    <3> DEFINE added == {id \in SlotIds : slots[id] = Null /\ apply.cfg[id] # Null}
    <3>1. /\ UNCHANGED <<deployment, call, runtimes, phase>>
          /\ version' = version + 1 /\ version \in Nat
          /\ phase # "recovering"
      BY <2>4, ConstantsOK DEF ApplyCommit, TypeOK, Versions, OwnerInv, RecoveringIsBlank
    <3>2. \A o \in Objects : \/ slot'[o] = slot[o]
                             \/ /\ o[2] = version + 1
                                /\ slot'[o] = FreeSlot(apply.cfg[o[1]])
      BY <2>4 DEF ApplyCommit
    <3>3. \A o \in Objects : o[2] = version + 1 => slot[o].sandbox = Null
      BY <3>1 DEF OwnerInv, FutureIsBlank, Objects, Versions
    <3>4. FreeSlotIsBlank'
      BY <3>2, FreeSlotFields DEF OwnerInv, FreeSlotIsBlank
    <3>5. RuntimeBelongsToOwner' /\ RefsResolve' /\ RuntimesLabelled'
      BY <3>1, <3>2, FreeSlotFields DEF OwnerInv, RuntimeBelongsToOwner, RefsResolve, SelfManaged, RuntimesLabelled
    <3>6. SectionOwned'
      <4>1. \A t \in Threads : InSection(t) => slot'[call[t].obj] = slot[call[t].obj]
        <5> SUFFICES ASSUME NEW t \in Threads, InSection(t) PROVE slot'[call[t].obj] = slot[call[t].obj]
          OBVIOUS
        <5>1. call[t].obj \in Objects /\ S(t).sandbox # Null
          BY ConstantsOK DEF CallOK, InSection, OwnerInv, SectionOwned, Owns
        <5> QED
          BY <3>2, <3>3, <5>1 DEF S
      <4> QED
        BY <3>1, <4>1 DEF OwnerInv, SectionOwned, InSection, S, Owns
    <3>7. FutureIsBlank'
      <4>1. \A o \in Objects : o[2] > version + 1 => slot'[o].sandbox = Null
        BY <3>1, <3>2, FreeSlotFields DEF OwnerInv, FutureIsBlank, Objects, Versions
      <4>2. \A id \in SlotIds : slots'[id] # Null => slots'[id] <= version + 1
        <5>1. \A id \in SlotIds : slots[id] # Null => slots[id] \in Nat
          BY DEF TypeOK, Versions
        <5> QED
          BY <2>4, <3>1, <5>1 DEF ApplyCommit, OwnerInv, FutureIsBlank
      <4>3. \A t \in Threads : call[t].pc # "idle" => call[t].obj[2] <= version + 1
        BY <3>1 DEF OwnerInv, FutureIsBlank, CallOK, Objects, Versions
      <4> QED
        BY <3>1, <4>1, <4>2, <4>3 DEF FutureIsBlank
    <3> QED
      BY <3>1, <3>4, <3>5, <3>6, <3>7 DEF OwnerInv, RecoveringIsBlank
  <2>5. ASSUME NEW r \in RuntimeIds, RuntimeExit(r)
        PROVE  OwnerInv'
    <3>1. UNCHANGED <<deployment, slots, slot, version, apply, call, phase>>
      BY <2>5 DEF RuntimeExit
    <3>2. \A q \in RuntimeIds : /\ runtimes'[q].state = "none" <=> runtimes[q].state = "none"
                                /\ runtimes'[q].slot = runtimes[q].slot
                                /\ runtimes'[q].sandbox = runtimes[q].sandbox
      BY <2>5 DEF RuntimeExit, Now, TypeOK, Runtime
    <3>3. \A o \in Objects : slot[o].ref # Null => slot[o].ref \in RuntimeIds
      BY DEF TypeOK, Slot
    <3>4. RuntimeBelongsToOwner' /\ RefsResolve' /\ RuntimesLabelled'
      BY <3>1, <3>2, <3>3 DEF OwnerInv, RuntimeBelongsToOwner, RefsResolve, SelfManaged, RuntimesLabelled
    <3> QED
      BY <3>1, <3>4 DEF OwnerInv, FreeSlotIsBlank, SectionOwned, InSection, S, Owns, RecoveringIsBlank,
                        FutureIsBlank
  <2>6. ASSUME NEW samePod \in BOOLEAN, Restart(samePod)
        PROVE  OwnerInv'
    <3>1. \A o \in Objects : slot'[o] = FreeSlot(slot'[o].profile)
      BY <2>6, FreeSlotFields DEF Restart, NewSlotObjects
    <3>2. FreeSlotIsBlank' /\ RuntimeBelongsToOwner' /\ RefsResolve'
      BY <3>1, FreeSlotFields DEF FreeSlotIsBlank, RuntimeBelongsToOwner, RefsResolve
    <3>3. RuntimesLabelled'
      BY <2>6 DEF Restart, OwnerInv, RuntimesLabelled, NoRuntime, TypeOK, Runtime
    <3>4. SectionOwned' /\ RecoveringIsBlank' /\ FutureIsBlank'
      BY <2>6, <3>1, FreeSlotFields DEF Restart, SectionOwned, InSection, RecoveringIsBlank, FutureIsBlank,
                                        IdleCall, IdleApply, NewSlots
    <3> QED
      BY <3>2, <3>3, <3>4 DEF OwnerInv
  <2>7. CASE Recover
    <3>1. UNCHANGED <<deployment, slots, version, apply, call, runtimes>> /\ phase' = "serving"
          /\ phase = "recovering"
      BY <2>7 DEF Recover
    <3>2. \A o \in Objects : slot[o].sandbox = Null /\ slot[o].ref = Null /\ slot[o].state = "Free"
      BY <3>1, FreeSlotFields DEF OwnerInv, RecoveringIsBlank, FreeSlotIsBlank
    <3>3. ASSUME NEW o \in Objects
          PROVE  \/ slot'[o] = slot[o]
                 \/ \E r \in Listed : /\ o = <<runtimes[r].slot, 0>>
                                      /\ slot'[o].sandbox = runtimes[r].sandbox
                                      /\ slot'[o].ref = r /\ slot'[o].state # "Free"
      <4>1. CASE \E r \in Listed : o = <<runtimes[r].slot, 0>>
        <5> DEFINE r == CHOOSE r \in Listed : o = <<runtimes[r].slot, 0>>
        <5>1. r \in Listed /\ o = <<runtimes[r].slot, 0>>
          BY <4>1
        <5>2. slot'[o] = [slot[o] EXCEPT !.sandbox = runtimes[r].sandbox, !.ref = r,
                                         !.state = RuntimeSlotState(runtimes[r].state)]
          BY <2>7, <4>1 DEF Recover
        <5> HIDE DEF r
        <5>3. RuntimeSlotState(runtimes[r].state) # "Free"
          BY DEF RuntimeSlotState
        <5>4. slot[o] \in Slot
          BY DEF TypeOK
        <5> QED
          BY <5>1, <5>2, <5>3, <5>4 DEF Slot
      <4>2. CASE ~ \E r \in Listed : o = <<runtimes[r].slot, 0>>
        BY <2>7, <4>2 DEF Recover
      <4> QED
        BY <4>1, <4>2
    <3>4. \A r \in Listed : r \in RuntimeIds /\ runtimes[r].state # "none" /\ runtimes[r].sandbox # Null /\ r # Null
      BY ConstantsOK DEF Listed, OwnerInv, RuntimesLabelled
    <3>5. FreeSlotIsBlank'
      BY <3>2, <3>3, <3>4 DEF OwnerInv, FreeSlotIsBlank
    <3>6. RuntimeBelongsToOwner' /\ RefsResolve' /\ RuntimesLabelled'
      <4>1. \A o \in Objects : slot'[o].ref # Null =>
              /\ slot'[o].ref \in Listed /\ o = <<runtimes[slot'[o].ref].slot, 0>>
              /\ slot'[o].sandbox = runtimes[slot'[o].ref].sandbox
        BY <3>2, <3>3
      <4> QED
        BY <3>1, <3>4, <4>1 DEF OwnerInv, RuntimeBelongsToOwner, RefsResolve, SelfManaged, RuntimesLabelled
    <3>7. SectionOwned' /\ RecoveringIsBlank'
      BY <3>1 DEF OwnerInv, RecoveringIsBlank, SectionOwned, InSection
    <3>8. FutureIsBlank'
      <4>1. version \in Nat
        BY DEF TypeOK, Versions
      <4>2. \A o \in Objects : o[2] > version => slot'[o].sandbox = Null
        BY <3>2, <3>3, <4>1
      <4> QED
        BY <3>1, <4>2 DEF OwnerInv, FutureIsBlank
    <3> QED
      BY <3>5, <3>6, <3>7, <3>8 DEF OwnerInv
  <2> QED
    BY <2>1, <2>2, <2>3, <2>4, <2>5, <2>6, <2>7 DEF Next
<1> QED
  BY <1>1, <1>2, TypeInvariance, PTL DEF Spec

\* Whatever the interleaving of handlers, topology pushes and restarts, a Slot
\* is Free exactly while it has no owner, and a Free Slot carries nothing over
\* to its next owner: ReserveSlot never hands out somebody's runtime.
THEOREM FreeSlotsAreBlank == Spec => []FreeSlotIsBlank
<1>1. OwnerInv => FreeSlotIsBlank
  BY DEF OwnerInv
<1> QED
  BY <1>1, OwnerInvariance, PTL

\* A Slot's runtime reference leads to a runtime of that Slot and its present
\* owner, and to no other Slot's: Exec, Stop and Release never reach the
\* sandbox of somebody else.
THEOREM RuntimesBelongToOwners == Spec => []RuntimeBelongsToOwner
<1>1. OwnerInv => RuntimeBelongsToOwner
  BY DEF OwnerInv
<1> QED
  BY <1>1, OwnerInvariance, PTL

\* A handler takes a Slot from its owner only as that owner's ReleaseSlot; all
\* the others write back the owner they found.
LEMMA BodyKeepsOwner ==
  ASSUME TypeInv, NEW t \in Threads, Body(t), NEW o \in Objects,
         slot[o].sandbox # Null, slot'[o].sandbox # slot[o].sandbox,
         FreeSlotIsBlank
  PROVE  /\ slot'[o].sandbox = Null
         /\ call[t].op = "Release" /\ call[t].obj = o /\ call[t].uid = slot[o].sandbox
<1> USE DEF TypeInv
<1>1. slot \in [Objects -> Slot]
  BY DEF TypeOK
<1>2. ASSUME NEW s, SetSlot(t, s) PROVE o = call[t].obj /\ slot'[o] = s /\ S(t) = slot[o] /\ S(t) \in Slot
  BY <1>1, <1>2 DEF SetSlot, S
<1> DEFINE Kept == slot' = slot \/ \E s : SetSlot(t, s) /\ s.sandbox = S(t).sandbox
<1>3. ~Kept
  BY <1>2
<1>4. ASSUME NEW s, NEW rts, CreateRuntime(t, s, rts), S(t) \in Slot => s \in Slot /\ s.sandbox = S(t).sandbox
      PROVE  FALSE
  <2>1. S(t) \in Slot
    BY <1>2, <1>4 DEF CreateRuntime
  <2>2. \A r, x : [s EXCEPT !.state = x, !.ref = r, !.restored = SelfManaged].sandbox = S(t).sandbox
                  /\ [s EXCEPT !.state = x].sandbox = S(t).sandbox
    BY <1>4, <2>1 DEF Slot
  <2>3. \/ \E r : SetSlot(t, [s EXCEPT !.state = "Starting", !.ref = r, !.restored = SelfManaged])
        \/ SetSlot(t, [s EXCEPT !.state = "Reserved"])
    BY <1>4, Zenon DEF CreateRuntime
  <2> QED
    BY <1>3, <2>2, <2>3
<1>5. ASSUME NEW s, StartRuntime(t, s), S(t) \in Slot => s \in Slot /\ s.sandbox = S(t).sandbox
      PROVE  FALSE
  <2>1. S(t) \in Slot
    BY <1>2, <1>5 DEF StartRuntime
  <2>2. \A x : [s EXCEPT !.ref = Null, !.state = x].sandbox = S(t).sandbox
               /\ [S(t) EXCEPT !.state = x].sandbox = S(t).sandbox
    BY <1>5, <2>1 DEF Slot
  <2> QED
    BY <1>3, <1>5, <2>2 DEF StartRuntime
<1>6. S(t) \in Slot =>
        \A x : /\ [S(t) EXCEPT !.state = x].sandbox = S(t).sandbox
               /\ [S(t) EXCEPT !.state = x, !.ref = Null, !.restoreDir = FALSE].sandbox = S(t).sandbox
               /\ [S(t) EXCEPT !.ref = Null, !.restored = FALSE, !.restoreDir = FALSE, !.state = x].sandbox
                    = S(t).sandbox
               /\ Restored(S(t), x).sandbox = S(t).sandbox
               /\ [S(t) EXCEPT !.ref = Null].sandbox = S(t).sandbox /\ [S(t) EXCEPT !.ref = Null] \in Slot
               /\ [S(t) EXCEPT !.restored = FALSE].sandbox = S(t).sandbox
               /\ [S(t) EXCEPT !.restored = FALSE] \in Slot
  BY DEF Slot, Restored
<1>7. CASE ReserveSlot(t)
  BY <1>2, <1>3, <1>7 DEF ReserveSlot, CanReserve, FreeSlotIsBlank
<1>8. CASE StopSandbox(t)
  <2>1. \/ slot' = slot
        \/ \E x : SetSlot(t, [S(t) EXCEPT !.state = x])
        \/ \E x : SetSlot(t, [S(t) EXCEPT !.state = x, !.ref = Null, !.restoreDir = FALSE])
    BY <1>8, Zenon DEF StopSandbox
  <2> QED
    BY <1>2, <1>3, <1>6, <2>1
<1>9. CASE ReleaseSlot(t)
  <2>1. \/ slot' = slot
        \/ SetSlot(t, Released(S(t))) /\ Owns(t)
        \/ SetSlot(t, [S(t) EXCEPT !.state = "Failed"])
    BY <1>9, Zenon DEF ReleaseSlot
  <2>2. SetSlot(t, Released(S(t))) /\ Owns(t)
    BY <1>2, <1>3, <1>6, <2>1
  <2>3. call[t].op = "Release"
    BY <1>9 DEF ReleaseSlot, Enter
  <2> QED
    BY <1>2, <2>2, <2>3, FreeSlotFields DEF Released, Owns
<1>10. CASE Inspect(t) \/ StartUnaffected(t) \/ RestoreUnaffected(t)
  BY <1>3, <1>10 DEF Inspect, StartUnaffected, RestoreUnaffected, Unaffected
<1>11. CASE StartCreate(t)
  BY <1>4, <1>11 DEF StartCreate
<1>12. CASE StartReplace(t)
  <2>1. \/ \E rts : CreateRuntime(t, [S(t) EXCEPT !.ref = Null], rts)
        \/ SetSlot(t, [S(t) EXCEPT !.state = "Failed"])
    BY <1>12, Zenon DEF StartReplace
  <2> QED
    BY <1>2, <1>3, <1>4, <1>6, <2>1
<1>13. CASE StartFinish(t)
  BY <1>5, <1>6, <1>13 DEF StartFinish
<1>14. CASE StartResume(t)
  BY <1>5, <1>14 DEF StartResume
<1>15. CASE CreateSnapshot(t)
  <2>1. \/ slot' = slot
        \/ SetSlot(t, [S(t) EXCEPT !.ref = Null, !.restored = FALSE, !.restoreDir = FALSE,
                                   !.state = "Failed"])
    BY <1>15, Zenon DEF CreateSnapshot
  <2> QED
    BY <1>2, <1>3, <1>6, <2>1
<1>16. CASE RestoreBegin(t) \/ RestoreFinish(t)
  <2>1. \/ \E x : SetSlot(t, [S(t) EXCEPT !.state = x])
        \/ \E r : SetSlot(t, Restored(S(t), r))
    BY <1>16, Zenon DEF RestoreBegin, RestoreFinish
  <2> QED
    BY <1>2, <1>3, <1>6, <2>1
<1> QED
  BY <1>7, <1>8, <1>9, <1>10, <1>11, <1>12, <1>13, <1>14, <1>15, <1>16 DEF Body

\* While the process lives a Slot never passes from one owner to another: it
\* leaves its owner by that owner's ReleaseSlot and by nothing else, neither by
\* an interleaved handler nor by a topology push.
THEOREM OwnersLeaveByRelease == Spec => OwnerLeavesByRelease
<1> DEFINE Step == \A o \in Objects : slot[o].sandbox # Null /\ slot'[o].sandbox # slot[o].sandbox =>
             \/ phase' = "recovering"
             \/ /\ slot'[o].sandbox = Null
                /\ \E t \in Threads : /\ call[t].op = "Release" /\ call[t].obj = o
                                     /\ call[t].uid = slot[o].sandbox
<1>1. TypeInv /\ OwnerInv /\ [Next]_vars => [Step]_vars
  <2> SUFFICES ASSUME TypeInv, OwnerInv, Next,
                      NEW o \in Objects, slot[o].sandbox # Null, slot'[o].sandbox # slot[o].sandbox,
                      phase' # "recovering"
               PROVE  /\ slot'[o].sandbox = Null
                      /\ \E t \in Threads : /\ call[t].op = "Release" /\ call[t].obj = o
                                           /\ call[t].uid = slot[o].sandbox
    OBVIOUS
  <2>1. ASSUME NEW t \in Threads, Body(t)
        PROVE  /\ slot'[o].sandbox = Null
               /\ call[t].op = "Release" /\ call[t].obj = o /\ call[t].uid = slot[o].sandbox
    BY <2>1, BodyKeepsOwner DEF OwnerInv
  <2>2. CASE ApplyCommit
    <3>1. o[2] = version + 1 /\ version \in Nat
      BY <2>2 DEF ApplyCommit, TypeInv, TypeOK, Versions
    <3> QED
      BY <3>1 DEF OwnerInv, FutureIsBlank
  <2>3. CASE Recover
    BY <2>3 DEF Recover, OwnerInv, RecoveringIsBlank
  <2>4. slot' # slot
    OBVIOUS
  <2>5. ~ \E samePod \in BOOLEAN : Restart(samePod)
    BY DEF Restart
  <2> QED
    BY <2>1, <2>2, <2>3, <2>4, <2>5 DEF Next, Begin, ApplyBegin, ApplyCheck, RuntimeExit
<1> QED
  BY <1>1, TypeInvariance, OwnerInvariance, PTL DEF Spec, OwnerLeavesByRelease

-----------------------------------------------------------------------------
(* Calls: restores are serialised, and pushes take effect.                 *)

\* Which handler is inside which section, and for whom; restoreMu has one
\* holder, from its look-up on.
CallInv ==
  \A t \in Threads : call[t].pc # "idle" =>
    /\ call[t].op = "Restore" =>
         \A u \in Threads : call[u].pc # "idle" /\ call[u].op = "Restore" => u = t
    /\ call[t].pc = "loading" => call[t].op = "Restore"
    /\ call[t].pc = "booting" => call[t].op = "Start"
    /\ call[t].op = "Start" => call[t].uid \notin Forks
    /\ call[t].op = "Restore" => call[t].uid \in Forks

\* A handler's body returns, or goes on to the section of its own operation.
LEMMA BodyCall ==
  ASSUME NEW t \in Threads, Body(t)
  PROVE  /\ UNCHANGED Topology
         /\ call[t].pc # "idle"
         /\ \/ Return(t)
            \/ Proceed(t, "booting") /\ call[t].op = "Start"
            \/ Proceed(t, "loading") /\ call[t].op = "Restore"
BY DEF Body, ReserveSlot, StopSandbox, ReleaseSlot, Inspect, StartUnaffected, StartCreate,
       StartReplace, CreateRuntime, StartFinish, StartResume, CreateSnapshot,
       RestoreUnaffected, RestoreBegin, RestoreFinish, Enter, Unaffected, Topology

\* The invariant on calls holds in every reachable state.
LEMMA CallInvariance == Spec => []CallInv
<1>1. Init => CallInv
  BY DEF Init, CallInv, IdleCall
<1>2. TypeInv /\ CallInv /\ [Next]_vars => CallInv'
  <2> SUFFICES ASSUME TypeInv, CallInv, [Next]_vars PROVE CallInv'
    OBVIOUS
  <2>0. call \in [Threads -> Call]
    BY DEF TypeInv, TypeOK
  <2>1. ASSUME NEW t \in Threads, NEW op \in Ops, NEW id \in SlotIds, NEW u \in Sandboxes,
               Begin(t, op, id, u)
        PROVE  CallInv'
    <3>1. /\ call'[t].op = op /\ call'[t].uid = u /\ call'[t].pc = "found"
          /\ \A v \in Threads \ {t} : call'[v] = call[v]
      BY <2>0, <2>1 DEF Begin
    <3>2. (op = "Start" => u \notin Forks) /\ (op = "Restore" => u \in Forks /\ RestoreMuFree)
      BY <2>1 DEF Begin
    <3> QED
      BY <3>1, <3>2 DEF CallInv, RestoreMuFree
  <2>2. ASSUME NEW t \in Threads, Body(t)
        PROVE  CallInv'
    <3>1. \A v \in Threads \ {t} : call'[v] = call[v]
      BY <2>0, <2>2, BodyCall DEF Return, Proceed
    <3>2. \/ call'[t] = IdleCall
          \/ /\ call'[t].op = call[t].op /\ call'[t].uid = call[t].uid
             /\ \/ call'[t].pc = "booting" /\ call[t].op = "Start"
                \/ call'[t].pc = "loading" /\ call[t].op = "Restore"
      BY <2>0, <2>2, BodyCall DEF Return, Proceed, Call
    <3>3. IdleCall.pc = "idle" /\ call[t].pc # "idle"
      BY <2>2, BodyCall DEF IdleCall
    <3> QED
      BY <3>1, <3>2, <3>3 DEF CallInv
  <2>3. ASSUME NEW samePod \in BOOLEAN, Restart(samePod)
        PROVE  CallInv'
    BY <2>3 DEF Restart, CallInv, IdleCall
  <2>4. CASE call' = call
    BY <2>4 DEF CallInv
  <2> QED
    BY <2>1, <2>2, <2>3, <2>4 DEF Next, ApplyBegin, ApplyCheck, ApplyCommit, RuntimeExit, Recover, vars
<1> QED
  BY <1>1, <1>2, TypeInvariance, PTL DEF Spec

\* restoreMu: of all handlers at most one is restoring memory, however many
\* Sandboxes are forked onto the Worker at once.
THEOREM RestoresAreSerialised == Spec => []OneRestoreAtATime
<1>1. CallInv => OneRestoreAtATime
  <2> SUFFICES ASSUME CallInv PROVE OneRestoreAtATime
    OBVIOUS
  <2> DEFINE L == {t \in Threads : call[t].pc = "loading"}
  <2>1. CASE L = {}
    BY <2>1, FS_EmptySet DEF OneRestoreAtATime
  <2>2. CASE L # {}
    <3>1. PICK t : t \in L
      BY <2>2
    <3>2. L = {t}
      BY <3>1 DEF CallInv
    <3>3. Cardinality(L) = 1
      BY <3>2, FS_Singleton
    <3> QED
      BY <3>3 DEF OneRestoreAtATime
  <2> QED
    BY <2>1, <2>2
<1> QED
  BY <1>1, CallInvariance, PTL

\* A handler writes its own Slot object only, and never its profile.
LEMMA BodyKeepsProfiles ==
  ASSUME TypeInv, NEW t \in Threads, Body(t)
  PROVE  /\ \A o \in Objects : slot'[o].profile = slot[o].profile
         /\ \A o \in Objects : o # call[t].obj => slot'[o] = slot[o]
<1> USE DEF TypeInv
<1>1. slot \in [Objects -> Slot] /\ call[t].obj \in Objects /\ S(t) = slot[call[t].obj] /\ S(t) \in Slot
  BY BodyCall DEF TypeOK, CallOK, S
<1> DEFINE Kept == slot' = slot \/ \E s : SetSlot(t, s) /\ s.profile = S(t).profile
<1> SUFFICES Kept
  BY <1>1 DEF SetSlot
<1>0. (slot' = slot => Kept) /\ \A s : SetSlot(t, s) /\ s.profile = S(t).profile => Kept
  OBVIOUS
<1> HIDE DEF Kept
<1>2. ASSUME NEW s \in Slot, s.profile = S(t).profile, NEW rts, CreateRuntime(t, s, rts)
      PROVE  Kept
  <2>1. \A r, x : [s EXCEPT !.state = x, !.ref = r, !.restored = SelfManaged].profile = S(t).profile
                  /\ [s EXCEPT !.state = x].profile = S(t).profile
    BY <1>2 DEF Slot
  <2>2. \/ \E r : SetSlot(t, [s EXCEPT !.state = "Starting", !.ref = r, !.restored = SelfManaged])
        \/ SetSlot(t, [s EXCEPT !.state = "Reserved"])
    BY <1>2, Zenon DEF CreateRuntime
  <2> QED
    BY <1>0, <2>1, <2>2
<1>3. ASSUME NEW s \in Slot, s.profile = S(t).profile, StartRuntime(t, s)
      PROVE  Kept
  <2>1. \A x : [s EXCEPT !.ref = Null, !.state = x].profile = S(t).profile
               /\ [S(t) EXCEPT !.state = x].profile = S(t).profile
    BY <1>1, <1>3 DEF Slot
  <2> QED
    BY <1>0, <1>3, <2>1 DEF StartRuntime
<1>4. \A x, y :
        /\ [S(t) EXCEPT !.state = x].profile = S(t).profile
        /\ [S(t) EXCEPT !.state = x, !.sandbox = y].profile = S(t).profile
        /\ [S(t) EXCEPT !.state = x, !.ref = Null, !.restoreDir = FALSE].profile = S(t).profile
        /\ [S(t) EXCEPT !.ref = Null, !.restored = FALSE, !.restoreDir = FALSE, !.state = x].profile = S(t).profile
        /\ Restored(S(t), x).profile = S(t).profile
        /\ Released(S(t)).profile = S(t).profile
        /\ [S(t) EXCEPT !.ref = Null].profile = S(t).profile /\ [S(t) EXCEPT !.ref = Null] \in Slot
        /\ [S(t) EXCEPT !.restored = FALSE].profile = S(t).profile /\ [S(t) EXCEPT !.restored = FALSE] \in Slot
  BY <1>1, FreeSlotFields DEF Slot, Restored, Released
<1>5. CASE ReserveSlot(t)
  BY <1>0, <1>4, <1>5 DEF ReserveSlot
<1>6. CASE StopSandbox(t)
  <2>1. \/ slot' = slot
        \/ \E x : SetSlot(t, [S(t) EXCEPT !.state = x])
        \/ \E x : SetSlot(t, [S(t) EXCEPT !.state = x, !.ref = Null, !.restoreDir = FALSE])
    BY <1>6, Zenon DEF StopSandbox
  <2> QED
    BY <1>0, <1>4, <2>1
<1>7. CASE ReleaseSlot(t)
  <2>1. \/ slot' = slot
        \/ SetSlot(t, Released(S(t)))
        \/ SetSlot(t, [S(t) EXCEPT !.state = "Failed"])
    BY <1>7, Zenon DEF ReleaseSlot
  <2> QED
    BY <1>0, <1>4, <2>1
<1>8. CASE Inspect(t) \/ StartUnaffected(t) \/ RestoreUnaffected(t)
  BY <1>0, <1>8 DEF Inspect, StartUnaffected, RestoreUnaffected, Unaffected
<1>9. CASE StartCreate(t)
  BY <1>1, <1>2, <1>9 DEF StartCreate
<1>10. CASE StartReplace(t)
  <2>1. \/ \E rts : CreateRuntime(t, [S(t) EXCEPT !.ref = Null], rts)
        \/ SetSlot(t, [S(t) EXCEPT !.state = "Failed"])
    BY <1>10, Zenon DEF StartReplace
  <2> QED
    BY <1>0, <1>2, <1>4, <2>1
<1>11. CASE StartFinish(t)
  BY <1>3, <1>4, <1>11 DEF StartFinish
<1>12. CASE StartResume(t)
  BY <1>1, <1>3, <1>12 DEF StartResume
<1>13. CASE CreateSnapshot(t)
  <2>1. \/ slot' = slot
        \/ SetSlot(t, [S(t) EXCEPT !.ref = Null, !.restored = FALSE, !.restoreDir = FALSE, !.state = "Failed"])
    BY <1>13, Zenon DEF CreateSnapshot
  <2> QED
    BY <1>0, <1>4, <2>1
<1>14. CASE RestoreBegin(t) \/ RestoreFinish(t)
  <2>1. \/ \E x : SetSlot(t, [S(t) EXCEPT !.state = x])
        \/ \E r : SetSlot(t, Restored(S(t), r))
    BY <1>14, Zenon DEF RestoreBegin, RestoreFinish
  <2> QED
    BY <1>0, <1>4, <2>1
<1> QED
  BY <1>5, <1>6, <1>7, <1>8, <1>9, <1>10, <1>11, <1>12, <1>13, <1>14 DEF Body

\* What a push in progress has already looked at agrees with it.
PushInv ==
  apply.pc = "checking" =>
    \A id \in SlotIds : slots[id] # Null /\ id \notin apply.pending /\ apply.cfg[id] # Null =>
      Mapped(id).profile = apply.cfg[id]

\* The invariant of ApplySlots holds in every reachable state.
LEMMA PushInvariance == Spec => []PushInv
<1>1. Init => PushInv
  BY DEF Init, PushInv, IdleApply
<1>2. TypeInv /\ OwnerInv /\ PushInv /\ [Next]_vars => PushInv'
  <2> SUFFICES ASSUME TypeInv, OwnerInv, PushInv, [Next]_vars PROVE PushInv'
    OBVIOUS
  <2>1. ASSUME NEW t \in Threads, Body(t)
        PROVE  PushInv'
    <3>1. UNCHANGED <<slots, apply>>
      BY <2>1, BodyCall DEF Topology
    <3>2. \A id \in SlotIds : slots[id] # Null => <<id, slots[id]>> \in Objects
      BY DEF TypeInv, TypeOK, Objects
    <3>3. \A o \in Objects : slot'[o].profile = slot[o].profile
      BY <2>1, BodyKeepsProfiles
    <3> QED
      BY <3>1, <3>2, <3>3 DEF PushInv, Mapped
  <2>2. ASSUME NEW cfg \in Config, ApplyBegin(cfg)
        PROVE  PushInv'
    BY <2>2 DEF ApplyBegin, PushInv
  <2>3. ASSUME NEW id \in SlotIds, ApplyCheck(id)
        PROVE  PushInv'
    <3>1. UNCHANGED <<slots, slot>> /\ apply.pc = "checking" /\ apply \in Apply
      BY <2>3 DEF ApplyCheck, TypeInv, TypeOK
    <3>2. CASE apply' = IdleApply
      BY <3>2 DEF PushInv, IdleApply
    <3>3. CASE Acceptable(id) /\ apply' = [apply EXCEPT !.pending = @ \ {id}]
      <4>1. apply'.pc = apply.pc /\ apply'.cfg = apply.cfg /\ apply'.pending = apply.pending \ {id}
        BY <3>1, <3>3 DEF Apply
      <4> QED
        BY <3>1, <3>3, <4>1 DEF PushInv, Mapped, Acceptable
    <3> QED
      BY <2>3, <3>2, <3>3 DEF ApplyCheck, ApplyRejected
  <2>4. CASE ApplyCommit \/ \E samePod \in BOOLEAN : Restart(samePod)
    BY <2>4 DEF ApplyCommit, Restart, PushInv, IdleApply
  <2>5. CASE Recover
    BY <2>5 DEF Recover, OwnerInv, RecoveringIsBlank, PushInv
  <2>6. CASE UNCHANGED <<slots, slot, apply>>
    BY <2>6 DEF PushInv, Mapped
  <2> QED
    BY <2>1, <2>2, <2>3, <2>4, <2>5, <2>6 DEF Next, Begin, Topology, RuntimeExit, vars
<1> QED
  BY <1>1, <1>2, TypeInvariance, OwnerInvariance, PTL DEF Spec

\* An accepted push leaves exactly the Slots it names, with the profiles it
\* names, although each Slot was unlocked again after ApplySlots looked at it:
\* what handlers do in between never changes which Slots there are or what
\* their profiles are.
THEOREM PushesTakeEffect == Spec => PushTakesEffect
<1>1. TypeInv /\ PushInv /\ [Next]_vars =>
        [version' = version + 1 =>
           \A id \in SlotIds : apply.cfg[id] = IF slots'[id] = Null THEN Null
                                               ELSE slot'[<<id, slots'[id]>>].profile]_vars
  <2> SUFFICES ASSUME TypeInv, PushInv, Next, version' = version + 1, NEW id \in SlotIds
               PROVE  apply.cfg[id] = IF slots'[id] = Null THEN Null ELSE slot'[<<id, slots'[id]>>].profile
    OBVIOUS
  <2>1. ApplyCommit
    <3>1. version \in Nat
      BY ConstantsOK DEF TypeInv, TypeOK, Versions
    <3>2. version' # version /\ version' # 0
      BY <3>1
    <3>3. \A t \in Threads : ~Body(t)
      BY <3>2, BodyCall DEF Topology
    <3> QED
      BY <3>2, <3>3 DEF Next, Begin, Topology, ApplyBegin, ApplyCheck, RuntimeExit, Restart, Recover
  <2>2. CASE apply.cfg[id] = Null
    BY <2>1, <2>2 DEF ApplyCommit
  <2>3. CASE apply.cfg[id] # Null /\ slots[id] = Null
    <3>0. slots'[id] = version + 1
      BY <2>1, <2>3 DEF ApplyCommit
    <3>1. slots'[id] = version + 1 /\ version + 1 \in Versions
      BY <2>1, <3>0, ConstantsOK DEF ApplyCommit, TypeInv, TypeOK, ApplyOK, Versions
    <3>2. <<id, version + 1>> \in Objects
      BY <3>1 DEF Objects
    <3>3. slot'[<<id, version + 1>>] = FreeSlot(apply.cfg[id])
      BY <2>1, <2>3, <3>2 DEF ApplyCommit
    <3>4. Null \notin Versions
      BY ConstantsOK DEF Versions
    <3> QED
      BY <2>3, <3>1, <3>3, <3>4, FreeSlotFields
  <2>4. CASE apply.cfg[id] # Null /\ slots[id] # Null
    <3>1. slots'[id] = slots[id] /\ <<id, slots[id]>> \in Objects
      BY <2>1, <2>4 DEF ApplyCommit, TypeInv, TypeOK, Objects
    <3>2. slot'[<<id, slots[id]>>] = slot[<<id, slots[id]>>]
      BY <2>1, <2>4, <3>1 DEF ApplyCommit
    <3>3. Mapped(id).profile = apply.cfg[id]
      BY <2>1, <2>4 DEF ApplyCommit, PushInv
    <3> QED
      BY <2>4, <3>1, <3>2, <3>3 DEF Mapped
  <2> QED
    BY <2>2, <2>3, <2>4
<1> QED
  BY <1>1, TypeInvariance, PushInvariance, PTL DEF Spec, PushTakesEffect

-----------------------------------------------------------------------------
(* Checkpoint directories.                                                 *)

\* Deleting or stopping a runtime object leaves the others as they are, and
\* what remains of it has the labels it had and runs only if it did.
LEMMA AnswersFrame ==
  ASSUME TypeOK, NEW r,
         NEW d \in RuntimeDelete(r) \cup DeleteRestored(r) \cup RuntimeStop(r),
         NEW q \in RuntimeIds
  PROVE  /\ q # r => d.rts[q] = runtimes[q]
         /\ d.rts[q].loaded => runtimes[q].loaded
         /\ d.rts[q].state = "running" => runtimes[q].state = "running"
<1> USE DEF TypeOK
<1>1. CASE d \in RuntimeDelete(r)
  BY <1>1 DEF RuntimeDelete, Gone, Now, NoRuntime, Runtime
<1>2. CASE d \in DeleteRestored(r)
  BY <1>2 DEF DeleteRestored, Gone, Now, NoRuntime, Runtime
<1>3. CASE d \in RuntimeStop(r)
  BY <1>2, <1>3 DEF RuntimeStop, Gone, Now, NoRuntime, Runtime
<1> QED
  BY <1>1, <1>2, <1>3

\* A handler touches the runtime object its Slot refers to and new ones only.
LEMMA BodyRuntimes ==
  ASSUME TypeInv, NEW t \in Threads, Body(t), NEW q \in RuntimeIds, q # S(t).ref, q \notin FreshRuntimes
  PROVE  runtimes'[q] = runtimes[q]
<1> USE DEF TypeInv
<1>0. runtimes \in [RuntimeIds -> Runtime]
  BY DEF TypeOK
<1>1. \A d \in RuntimeDelete(S(t).ref) \cup DeleteRestored(S(t).ref) \cup RuntimeStop(S(t).ref) :
        d.rts[q] = runtimes[q] /\ d.rts \in [RuntimeIds -> Runtime]
  BY AnswersFrame, RuntimeAnswers DEF Fades
<1>2. ASSUME NEW rts \in [RuntimeIds -> Runtime], rts[q] = runtimes[q], NEW s, CreateRuntime(t, s, rts)
      PROVE  runtimes'[q] = runtimes[q]
  BY <1>2 DEF CreateRuntime, AfterFailedBoot
<1>3. ASSUME NEW s, StartRuntime(t, s)
      PROVE  runtimes'[q] = runtimes[q]
  BY <1>0, <1>1, <1>3 DEF StartRuntime, Now
<1>4. CASE StopSandbox(t)
  <2>1. \/ runtimes' = runtimes
        \/ \E d \in DeleteRestored(S(t).ref) \cup RuntimeStop(S(t).ref) : runtimes' = d.rts
    BY <1>4, Zenon DEF StopSandbox
  <2> QED
    BY <1>1, <2>1
<1>5. CASE ReleaseSlot(t)
  <2>1. \/ runtimes' = runtimes
        \/ \E d \in DeleteRestored(S(t).ref) \cup RuntimeDelete(S(t).ref) : runtimes' = d.rts
    BY <1>5, Zenon DEF ReleaseSlot
  <2> QED
    BY <1>1, <2>1
<1>6. CASE StartCreate(t)
  BY <1>0, <1>2, <1>6 DEF StartCreate
<1>7. CASE StartReplace(t)
  <2>1. \E d \in RuntimeDelete(S(t).ref) :
          CreateRuntime(t, [S(t) EXCEPT !.ref = Null], d.rts) \/ runtimes' = d.rts
    BY <1>7, Zenon DEF StartReplace
  <2> QED
    BY <1>1, <1>2, <2>1
<1>8. CASE StartFinish(t) \/ StartResume(t)
  BY <1>3, <1>8 DEF StartFinish, StartResume
<1>9. CASE CreateSnapshot(t)
  BY <1>0, <1>9 DEF CreateSnapshot, Gone
<1>10. CASE RestoreFinish(t)
  BY <1>0, <1>10 DEF RestoreFinish, AfterFailedBoot
<1>11. CASE runtimes' = runtimes
  BY <1>11
<1> QED
  BY <1>4, <1>5, <1>6, <1>7, <1>8, <1>9, <1>10, <1>11 DEF Body, ReserveSlot, Inspect, StartUnaffected,
     RestoreUnaffected, Unaffected, RestoreBegin

\* Of one Slot s, with the runtime objects rts: it has the directory its
\* running restored sandbox pages from, and with CRI a Slot that is only being
\* started does not refer to a restored sandbox.
DirOf(s, rts) ==
  s.ref # Null =>
    /\ rts[s.ref].loaded /\ rts[s.ref].state = "running" => s.restoreDir
    /\ s.state \in {"Reserved", "Starting"} /\ ~SelfManaged => ~rts[s.ref].loaded

\* Before Recover nothing runs, and CRI knows of no restored sandbox.
DirInv ==
  /\ \A o \in Objects : DirOf(slot[o], runtimes)
  /\ phase = "recovering" =>
       \A r \in RuntimeIds : runtimes[r].state # "running" /\ (SelfManaged \/ ~runtimes[r].loaded)

\* A handler keeps the directory of its own Slot.
LEMMA BodyDir ==
  ASSUME TypeInv, OwnerInv, DirInv, NEW t \in Threads, Body(t)
  PROVE  DirOf(slot'[call[t].obj], runtimes')
<1> USE DEF TypeInv
<1> DEFINE s0 == S(t)
           Good(s) == SetSlot(t, s) /\ DirOf(s, runtimes')
<1>0. call[t].pc # "idle"
  BY BodyCall
<1>1. /\ slot \in [Objects -> Slot] /\ runtimes \in [RuntimeIds -> Runtime]
      /\ call[t].obj \in Objects /\ s0 \in Slot /\ s0 = slot[call[t].obj]
  BY <1>0 DEF TypeOK, CallOK, S
<1>2. DirOf(s0, runtimes) /\ (s0.ref # Null => s0.ref \in RuntimeIds)
  BY <1>1 DEF DirInv, Slot
<1>3. \A s : Good(s) => DirOf(slot'[call[t].obj], runtimes')
  BY <1>1 DEF SetSlot
<1>4. CASE UNCHANGED <<slot, runtimes>>
  BY <1>1, <1>2, <1>4
<1>5. SelfManaged \in BOOLEAN
  BY ConstantsOK DEF TypeOK, SelfManaged
<1> HIDE DEF s0, Good
\* What is left of the Slot's runtime object after it was deleted or stopped.
<1>6. ASSUME NEW d \in RuntimeDelete(s0.ref) \cup DeleteRestored(s0.ref) \cup RuntimeStop(s0.ref),
             runtimes' = d.rts, NEW s \in Slot, SetSlot(t, s),
             s.ref = Null \/ (s.ref = s0.ref /\ s.restoreDir = s0.restoreDir /\ s.state \notin {"Reserved", "Starting"})
      PROVE  DirOf(slot'[call[t].obj], runtimes')
  <2>1. CASE s.ref = Null
    BY <1>3, <1>6, <2>1 DEF DirOf, Good
  <2>2. CASE s.ref # Null
    <3>1. s0.ref \in RuntimeIds /\ s.ref = s0.ref /\ s.restoreDir = s0.restoreDir
      BY <1>2, <1>6, <2>2
    <3>2. /\ d.rts[s0.ref].loaded => runtimes[s0.ref].loaded
          /\ d.rts[s0.ref].state = "running" => runtimes[s0.ref].state = "running"
      BY <3>1, AnswersFrame
    <3>3. DirOf(s, runtimes')
      BY <1>2, <1>6, <2>2, <3>1, <3>2 DEF DirOf
    <3> QED
      BY <1>3, <1>6, <3>3 DEF Good
  <2> QED
    BY <2>1, <2>2
\* A new runtime object that was not restored.
<1>7. ASSUME NEW s \in Slot, NEW rts \in [RuntimeIds -> Runtime], CreateRuntime(t, s, rts),
             s.ref = Null \/ (s = s0 /\ rts = runtimes /\ CanCreate(s0))
      PROVE  DirOf(slot'[call[t].obj], runtimes')
  <2> DEFINE rt == [state |-> IF SelfManaged THEN "running" ELSE "created", slot |-> call[t].obj[1],
                    sandbox |-> call[t].uid, loaded |-> FALSE]
  <2> DEFINE left == [rt EXCEPT !.state = "bare"]
  <2>1. CASE \E r \in FreshRuntimes :
               /\ runtimes' = [rts EXCEPT ![r] = rt]
               /\ SetSlot(t, [s EXCEPT !.state = "Starting", !.ref = r, !.restored = SelfManaged])
    <3>1. PICK r \in FreshRuntimes :
               /\ runtimes' = [rts EXCEPT ![r] = rt]
               /\ SetSlot(t, [s EXCEPT !.state = "Starting", !.ref = r, !.restored = SelfManaged])
      BY <2>1
    <3>2. runtimes'[r].loaded = FALSE
      BY <1>7, <3>1 DEF FreshRuntimes
    <3>3. [s EXCEPT !.state = "Starting", !.ref = r, !.restored = SelfManaged].ref = r
      BY <1>7 DEF Slot
    <3> QED
      BY <1>3, <3>1, <3>2, <3>3 DEF DirOf, Good
  <2>2. CASE runtimes' \in AfterFailedBoot(rts, left) /\ SetSlot(t, [s EXCEPT !.state = "Reserved"])
    <3> DEFINE s1 == [s EXCEPT !.state = "Reserved"]
    <3>1. s1.ref = s.ref /\ s1.restoreDir = s.restoreDir
      BY <1>7 DEF Slot
    <3>2. CASE s.ref = Null
      BY <1>3, <2>2, <3>1, <3>2 DEF DirOf, Good
    <3>3. CASE s.ref # Null
      <4>1. s = s0 /\ rts = runtimes /\ s0.state = "Reserved" /\ s0.ref \in RuntimeIds /\ s0.ref # Null
        BY <1>2, <1>7, <3>3 DEF CanCreate
      <4>2. runtimes'[s0.ref] = runtimes[s0.ref]
        BY <1>1, <2>2, <4>1 DEF AfterFailedBoot, FreshRuntimes
      <4>3. DirOf(s1, runtimes')
        BY <1>2, <3>1, <4>1, <4>2 DEF DirOf
      <4> QED
        BY <1>3, <2>2, <4>3 DEF Good
    <3> QED
      BY <3>2, <3>3
  <2> QED
    BY <1>7, <2>1, <2>2 DEF CreateRuntime
\* The start of a created one.
<1>8. ASSUME NEW s \in Slot, s0.ref # Null, s0.state = "Starting", StartRuntime(t, s)
      PROVE  DirOf(slot'[call[t].obj], runtimes')
  <2>1. CASE /\ SetSlot(t, [s0 EXCEPT !.state = "Running"])
             /\ runtimes' = IF SelfManaged THEN runtimes ELSE Now(s0.ref, "running")
    <3> DEFINE s1 == [s0 EXCEPT !.state = "Running"]
    <3>1. s1.ref = s0.ref /\ s1.restoreDir = s0.restoreDir /\ s1.state = "Running"
      BY <1>1 DEF Slot
    <3>2. runtimes'[s0.ref].loaded = runtimes[s0.ref].loaded
      BY <1>1, <1>2, <1>8, <2>1 DEF Now, Runtime
    <3>3. DirOf(s1, runtimes')
      BY <1>2, <1>8, <2>1, <3>1, <3>2 DEF DirOf
    <3> QED
      BY <1>3, <2>1, <3>3 DEF Good
  <2>2. CASE \E d \in RuntimeDelete(s0.ref) :
          /\ runtimes' = d.rts
          /\ SetSlot(t, [s EXCEPT !.ref = Null, !.state = IF d.ok THEN "Reserved" ELSE "Failed"])
    <3>1. PICK x : SetSlot(t, [s EXCEPT !.ref = Null, !.state = x])
      BY <2>2
    <3>2. [s EXCEPT !.ref = Null, !.state = x].ref = Null
      BY DEF Slot
    <3> QED
      BY <1>3, <3>1, <3>2 DEF DirOf, Good
  <2> QED
    BY <1>8, <2>1, <2>2 DEF StartRuntime, s0
<1>20. CASE ReserveSlot(t)
  <2>1. CASE CanReserve(s0)
    <3> DEFINE s1 == [s0 EXCEPT !.state = "Reserved", !.sandbox = call[t].uid]
    <3>1. s1.ref = Null
      BY <1>1, <2>1 DEF CanReserve, FreeSlot, OwnerInv, FreeSlotIsBlank
    <3>2. SetSlot(t, s1)
      BY <1>20, <2>1 DEF ReserveSlot, s0
    <3> QED
      BY <1>3, <3>1, <3>2 DEF DirOf, Good
  <2>2. CASE ~CanReserve(s0)
    BY <1>4, <1>20, <2>2 DEF ReserveSlot, s0
  <2> QED
    BY <2>1, <2>2
<1>21. CASE StopSandbox(t)
  <2>1. \A x \in {"Stopping", "Failed"} :
          LET s1 == [s0 EXCEPT !.state = x]
              s2 == [s0 EXCEPT !.state = x, !.ref = Null, !.restoreDir = FALSE]
          IN /\ s1 \in Slot /\ s1.state = x /\ s1.restoreDir = s0.restoreDir /\ s1.ref = s0.ref
             /\ s2 \in Slot /\ s2.ref = Null
    BY <1>1 DEF Slot, SlotStates
  <2>2. \/ UNCHANGED <<slot, runtimes>>
        \/ s0.ref = Null /\ SetSlot(t, [s0 EXCEPT !.state = "Stopping"])
        \/ \E d \in DeleteRestored(s0.ref) \cup RuntimeStop(s0.ref) :
             /\ runtimes' = d.rts
             /\ \/ SetSlot(t, [s0 EXCEPT !.state = "Failed"])
                \/ SetSlot(t, [s0 EXCEPT !.state = "Stopping", !.ref = Null, !.restoreDir = FALSE])
                \/ SetSlot(t, [s0 EXCEPT !.state = "Stopping"])
    BY <1>21, Zenon DEF StopSandbox, s0
  <2>3. CASE s0.ref = Null /\ SetSlot(t, [s0 EXCEPT !.state = "Stopping"])
    BY <1>3, <2>1, <2>3 DEF DirOf, Good
  <2>4. CASE \E d \in DeleteRestored(s0.ref) \cup RuntimeStop(s0.ref) :
               /\ runtimes' = d.rts
               /\ \/ SetSlot(t, [s0 EXCEPT !.state = "Failed"])
                  \/ SetSlot(t, [s0 EXCEPT !.state = "Stopping", !.ref = Null, !.restoreDir = FALSE])
                  \/ SetSlot(t, [s0 EXCEPT !.state = "Stopping"])
    BY <1>6, <2>1, <2>4
  <2> QED
    BY <1>4, <2>2, <2>3, <2>4
<1>22. CASE ReleaseSlot(t)
  <2>1. /\ Released(s0) \in Slot /\ Released(s0).ref = Null
        /\ [s0 EXCEPT !.state = "Failed"] \in Slot
        /\ [s0 EXCEPT !.state = "Failed"].ref = s0.ref /\ [s0 EXCEPT !.state = "Failed"].state = "Failed"
        /\ [s0 EXCEPT !.state = "Failed"].restoreDir = s0.restoreDir
    BY <1>1 DEF Released, FreeSlot, Slot, SlotStates
  <2>2. \/ UNCHANGED <<slot, runtimes>>
        \/ SetSlot(t, Released(s0))
        \/ \E d \in DeleteRestored(s0.ref) \cup RuntimeDelete(s0.ref) :
             runtimes' = d.rts /\ SetSlot(t, [s0 EXCEPT !.state = "Failed"])
    BY <1>22, Zenon DEF ReleaseSlot, s0
  <2>3. CASE SetSlot(t, Released(s0))
    BY <1>3, <2>1, <2>3 DEF DirOf, Good
  <2>4. CASE \E d \in DeleteRestored(s0.ref) \cup RuntimeDelete(s0.ref) :
               runtimes' = d.rts /\ SetSlot(t, [s0 EXCEPT !.state = "Failed"])
    BY <1>6, <2>1, <2>4
  <2> QED
    BY <1>4, <2>2, <2>3, <2>4
<1>23. CASE Inspect(t) \/ StartUnaffected(t) \/ RestoreUnaffected(t)
  BY <1>4, <1>23 DEF Inspect, StartUnaffected, RestoreUnaffected, Unaffected
<1>24. CASE StartCreate(t)
  BY <1>1, <1>7, <1>24 DEF StartCreate, s0
<1>25. CASE StartReplace(t)
  <2>1. PICK d \in RuntimeDelete(s0.ref) :
          \/ CreateRuntime(t, [s0 EXCEPT !.ref = Null], d.rts)
          \/ SetSlot(t, [s0 EXCEPT !.state = "Failed"]) /\ runtimes' = d.rts
    BY <1>25, Zenon DEF StartReplace, s0
  <2>2. /\ [s0 EXCEPT !.ref = Null] \in Slot /\ [s0 EXCEPT !.ref = Null].ref = Null
        /\ [s0 EXCEPT !.state = "Failed"] \in Slot
        /\ [s0 EXCEPT !.state = "Failed"].ref = s0.ref /\ [s0 EXCEPT !.state = "Failed"].state = "Failed"
        /\ [s0 EXCEPT !.state = "Failed"].restoreDir = s0.restoreDir
    BY <1>1 DEF Slot, SlotStates
  <2>3. d.rts \in [RuntimeIds -> Runtime]
    BY RuntimeAnswers DEF Fades
  <2> QED
    BY <1>6, <1>7, <2>1, <2>2, <2>3
<1>26. CASE StartFinish(t)
  <2>1. s0.ref # Null /\ s0.state = "Starting"
    BY <1>26 DEF StartFinish, OwnerInv, SectionOwned, InSection, s0
  <2>2. [s0 EXCEPT !.restored = FALSE] \in Slot
    BY <1>1 DEF Slot
  <2> QED
    BY <1>8, <1>26, <2>1, <2>2 DEF StartFinish, s0
<1>27. CASE StartResume(t)
  BY <1>1, <1>8, <1>27 DEF StartResume, s0
<1>28. CASE CreateSnapshot(t)
  <2>1. \/ UNCHANGED <<slot, runtimes>>
        \/ SetSlot(t, [s0 EXCEPT !.ref = Null, !.restored = FALSE, !.restoreDir = FALSE, !.state = "Failed"])
    BY <1>28, Zenon DEF CreateSnapshot, s0
  <2>2. [s0 EXCEPT !.ref = Null, !.restored = FALSE, !.restoreDir = FALSE, !.state = "Failed"].ref = Null
    BY <1>1 DEF Slot
  <2> QED
    BY <1>3, <1>4, <2>1, <2>2 DEF DirOf, Good
<1>29. CASE RestoreBegin(t)
  <2> DEFINE s1 == [s0 EXCEPT !.state = "Starting"]
  <2>1. s0.state \in {"Reserved", "Starting"} /\ SetSlot(t, s1) /\ UNCHANGED runtimes
    BY <1>29 DEF RestoreBegin, CanRestore, s0
  <2>2. s1.ref = s0.ref /\ s1.restoreDir = s0.restoreDir
    BY <1>1 DEF Slot
  <2>3. DirOf(s1, runtimes')
    BY <1>2, <2>1, <2>2 DEF DirOf
  <2> QED
    BY <1>3, <2>1, <2>3 DEF Good
<1>30. CASE RestoreFinish(t)
  <2> DEFINE rt == [state |-> "running", slot |-> call[t].obj[1], sandbox |-> call[t].uid, loaded |-> TRUE]
  <2>1. s0.state = "Starting"
    BY <1>30 DEF RestoreFinish, OwnerInv, SectionOwned, InSection, s0
  <2>2. CASE \E r \in FreshRuntimes : SetSlot(t, Restored(s0, r))
    <3>1. PICK r \in FreshRuntimes : SetSlot(t, Restored(s0, r))
      BY <2>2
    <3>2. Restored(s0, r).restoreDir = TRUE /\ Restored(s0, r).state = "Running"
      BY <1>1 DEF Restored, Slot
    <3> QED
      BY <1>3, <3>1, <3>2 DEF DirOf, Good
  <2>3. CASE runtimes' \in AfterFailedBoot(runtimes, rt) /\ SetSlot(t, [s0 EXCEPT !.state = "Reserved"])
    <3> DEFINE s1 == [s0 EXCEPT !.state = "Reserved"]
    <3>1. s1.ref = s0.ref /\ s1.restoreDir = s0.restoreDir
      BY <1>1 DEF Slot
    <3>2. s0.ref # Null => runtimes'[s0.ref] = runtimes[s0.ref]
      BY <1>1, <1>2, <2>3 DEF AfterFailedBoot, FreshRuntimes
    <3>3. DirOf(s1, runtimes')
      BY <1>2, <2>1, <3>1, <3>2 DEF DirOf
    <3> QED
      BY <1>3, <2>3, <3>3 DEF Good
  <2> QED
    BY <1>30, <2>2, <2>3, Zenon DEF RestoreFinish, s0
<1> QED
  BY <1>20, <1>21, <1>22, <1>23, <1>24, <1>25, <1>26, <1>27, <1>28, <1>29, <1>30 DEF Body

\* The invariant on directories holds in every reachable state.
LEMMA DirInvariance == Spec => []DirInv
<1>1. Init => DirInv
  <2> SUFFICES ASSUME Init PROVE DirInv
    OBVIOUS
  <2>1. \A o \in Objects : slot[o].ref = Null
    BY FreeSlotFields DEF Init, NewSlotObjects
  <2>2. \A r \in RuntimeIds : runtimes[r].state # "running" /\ ~runtimes[r].loaded
    BY DEF Init, NoRuntime
  <2> QED
    BY <2>1, <2>2 DEF DirInv, DirOf
<1>2. TypeInv /\ OwnerInv /\ DirInv /\ [Next]_vars => DirInv'
  <2> SUFFICES ASSUME TypeInv, OwnerInv, DirInv, [Next]_vars PROVE DirInv'
    OBVIOUS
  <2>0. /\ slot \in [Objects -> Slot] /\ runtimes \in [RuntimeIds -> Runtime]
        /\ \A o \in Objects : slot[o].ref # Null => slot[o].ref \in RuntimeIds
    BY DEF TypeInv, TypeOK, Slot
  <2>1. ASSUME NEW t \in Threads, Body(t)
        PROVE  DirInv'
    <3>1. UNCHANGED <<deployment, phase>> /\ phase # "recovering"
      BY <2>1, BodyCall DEF Topology, OwnerInv, RecoveringIsBlank
    <3>2. ASSUME NEW o \in Objects PROVE DirOf(slot[o], runtimes)'
      <4>1. CASE o = call[t].obj
        <5>1. DirOf(slot'[call[t].obj], runtimes')
          BY <2>1, BodyDir
        <5> QED
          BY <3>1, <4>1, <5>1 DEF DirOf, SelfManaged
      <4>2. CASE o # call[t].obj
        <5>1. slot'[o] = slot[o]
          BY <2>1, <4>2, BodyKeepsProfiles
        <5>2. slot[o].ref # Null => runtimes'[slot[o].ref] = runtimes[slot[o].ref]
          <6>1. call[t].obj \in Objects
            BY <2>1, BodyCall DEF TypeInv, CallOK
          <6>2. slot[o].ref # Null => slot[o].ref # S(t).ref /\ slot[o].ref \notin FreshRuntimes
            BY <4>2, <6>1 DEF OwnerInv, RuntimeBelongsToOwner, S, FreshRuntimes
          <6> QED
            BY <2>0, <2>1, <6>2, BodyRuntimes
        <5> QED
          BY <3>1, <5>1, <5>2 DEF DirInv, DirOf, SelfManaged
      <4> QED
        BY <4>1, <4>2
    <3> QED
      BY <3>1, <3>2 DEF DirInv
  <2>2. CASE ApplyCommit
    <3>1. UNCHANGED <<deployment, runtimes, phase>>
      BY <2>2 DEF ApplyCommit
    <3>2. \A o \in Objects : slot'[o] = slot[o] \/ slot'[o].ref = Null
      BY <2>2, FreeSlotFields DEF ApplyCommit
    <3> QED
      BY <3>1, <3>2 DEF DirInv, DirOf, SelfManaged
  <2>3. ASSUME NEW r \in RuntimeIds, RuntimeExit(r)
        PROVE  DirInv'
    <3>1. UNCHANGED <<deployment, slot, phase>>
      BY <2>3 DEF RuntimeExit
    <3>2. \A q \in RuntimeIds : /\ runtimes'[q].loaded = runtimes[q].loaded
                                /\ runtimes'[q].state = "running" => runtimes[q].state = "running"
      BY <2>0, <2>3 DEF RuntimeExit, Now, Runtime
    <3> QED
      BY <2>0, <3>1, <3>2 DEF DirInv, DirOf, SelfManaged
  <2>4. ASSUME NEW samePod \in BOOLEAN, Restart(samePod)
        PROVE  DirInv'
    <3>1. \A o \in Objects : slot'[o].ref = Null
      BY <2>4, FreeSlotFields DEF Restart, NewSlotObjects
    <3>2. \A q \in RuntimeIds : runtimes'[q].state # "running" /\ (SelfManaged' \/ ~runtimes'[q].loaded)
      BY <2>0, <2>4 DEF Restart, NoRuntime, Runtime, SelfManaged
    <3> QED
      BY <3>1, <3>2 DEF DirInv, DirOf
  <2>5. CASE Recover
    <3>1. UNCHANGED <<deployment, runtimes>> /\ phase = "recovering" /\ phase' # "recovering"
      BY <2>5 DEF Recover
    <3>2. \A r \in RuntimeIds : runtimes[r].state # "running" /\ (SelfManaged \/ ~runtimes[r].loaded)
      BY <3>1 DEF DirInv
    <3>3. \A o \in Objects : slot'[o].ref # Null => slot'[o].ref \in RuntimeIds
      <4>1. slot' \in [Objects -> Slot]
        <5>1. TypeInv'
          BY TypeInvNext
        <5> QED
          BY <5>1 DEF TypeInv, TypeOK
      <4> QED
        BY <4>1 DEF Slot
    <3> QED
      BY <3>1, <3>2, <3>3 DEF DirInv, DirOf, SelfManaged
  <2>6. CASE UNCHANGED <<deployment, slot, runtimes, phase>>
    BY <2>6 DEF DirInv, DirOf, SelfManaged
  <2> QED
    BY <2>1, <2>2, <2>3, <2>4, <2>5, <2>6 DEF Next, Begin, Topology, ApplyBegin, ApplyCheck, vars
<1> QED
  BY <1>1, <1>2, TypeInvariance, OwnerInvariance, PTL DEF Spec

\* The checkpoint directory of a restored sandbox is kept as long as its Slot
\* refers to it and it runs: neither a stop that fails, a failed restore or
\* start, a topology push nor a recovery takes it away early.
THEOREM RestoreDirsAreKept == Spec => []RestoreDirKept
<1>1. DirInv => RestoreDirKept
  BY DEF DirInv, DirOf, RestoreDirKept
<1> QED
  BY <1>1, DirInvariance, PTL

-----------------------------------------------------------------------------
(* A Free Slot is clean.                                                    *)

\* cmd/worker: a process starts without Slots and gets them by a push.
BootsEmpty == \A d \in Deployments, id \in SlotIds : d.boot[id] = Null

\* No push removes a Slot that is not Free by then, or that a handler still has
\* a pointer to.  (ApplySlots does not see to that by itself: see BusySlotStays.)
QuietStep ==
  \A id \in SlotIds : slots[id] # Null /\ slots'[id] = Null /\ phase' # "recovering" =>
    /\ Mapped(id).state = "Free"
    /\ \A t \in Threads : call[t].pc # "idle" => call[t].obj # <<id, slots[id]>>
QuietRemovals == [][QuietStep]_vars

\* Every handler's pointer leads into the map, and there is no map to recover into.
PointersMapped ==
  /\ phase = "recovering" => \A id \in SlotIds : slots[id] = Null
  /\ \A t \in Threads : call[t].pc # "idle" => slots[call[t].obj[1]] = call[t].obj[2]

\* Every runtime object is the one its Slot refers to.
RuntimesReferred ==
  \A r \in RuntimeIds : runtimes[r].state # "none" =>
    /\ runtimes[r].state # "orphan"
    /\ phase = "serving" => slots[runtimes[r].slot] # Null /\ Mapped(runtimes[r].slot).ref = r

\* A Slot refers to a runtime only once that was created, and knows whether it
\* was restored; then its owner is a fork.
RefsEarned ==
  \A o \in Objects :
    /\ slot[o].state = "Reserved" => slot[o].ref = Null
    /\ slot[o].state = "Starting" /\ slot[o].ref # Null =>
         \E t \in Threads : call[t].pc = "booting" /\ call[t].obj = o
    /\ slot[o].ref # Null /\ runtimes[slot[o].ref].state # "none" /\ runtimes[slot[o].ref].loaded =>
         slot[o].restored /\ slot[o].sandbox \in Forks

CleanInv == PointersMapped /\ RuntimesReferred /\ RefsEarned

\* What handler t leaves of its Slot as s is clean: of the new runtime objects
\* and the one it had, only the one s refers to is left.
LeavesClean(t, s) ==
  /\ SetSlot(t, s)
  /\ \A r \in RuntimeIds : (r = S(t).ref \/ r \in FreshRuntimes) /\ runtimes'[r].state # "none" =>
       s.ref = r /\ runtimes'[r].slot = call[t].obj[1] /\ runtimes'[r].state # "orphan"
  /\ s.state = "Reserved" => s.ref = Null
  /\ s.state = "Starting" /\ s.ref # Null => Proceed(t, "booting")
  /\ s.ref # Null /\ runtimes'[s.ref].state # "none" /\ runtimes'[s.ref].loaded =>
       s.restored /\ s.sandbox \in Forks

\* A clean-up that does not fail leaves nothing of the runtime object, unless
\* CRI is asked for a restored sandbox.
LEMMA CleanAnswers ==
  ASSUME TypeOK, ~CleanupMayFail, NEW r \in RuntimeIds, runtimes[r].state # "orphan"
  PROVE  /\ \A d \in DeleteRestored(r) : d.ok /\ d.rts = Gone(r)
         /\ SelfManaged \/ ~runtimes[r].loaded => \A d \in RuntimeDelete(r) : d.ok /\ d.rts = Gone(r)
         /\ \A d \in RuntimeDelete(r) : d.ok /\ (d.rts = Gone(r) \/ d.rts = runtimes)
         /\ \A d \in RuntimeStop(r) :
              /\ d.ok
              /\ \/ d.rts = Gone(r) \/ d.rts = runtimes
                 \/ d.rts = Now(r, "exited") /\ runtimes[r].state # "none"
<1>1. \A d \in DeleteRestored(r) : d.ok /\ d.rts = Gone(r)
  BY DEF DeleteRestored, DeleteFails
<1>2. SelfManaged \/ ~runtimes[r].loaded => \A d \in RuntimeDelete(r) : d.ok /\ d.rts = Gone(r)
  BY DEF RuntimeDelete, DeleteFails
<1>3. \A d \in RuntimeDelete(r) : d.ok /\ (d.rts = Gone(r) \/ d.rts = runtimes)
  BY DEF RuntimeDelete, DeleteFails
<1>4. \A d \in RuntimeStop(r) :
        /\ d.ok
        /\ \/ d.rts = Gone(r) \/ d.rts = runtimes
           \/ d.rts = Now(r, "exited") /\ runtimes[r].state # "none"
  BY <1>1 DEF RuntimeStop, DeleteFails
<1> QED
  BY <1>1, <1>2, <1>3, <1>4

\* As long as clean-up works, every handler leaves its Slot clean.
LEMMA BodyClean ==
  ASSUME ~CleanupMayFail, TypeInv, OwnerInv, CallInv, CleanInv, NEW t \in Threads, Body(t)
  PROVE  \E s : LeavesClean(t, s)
<1> USE DEF TypeInv
<1> DEFINE s0 == S(t)
           obj == call[t].obj
           new == [state |-> IF SelfManaged THEN "running" ELSE "created", slot |-> call[t].obj[1],
                   sandbox |-> call[t].uid, loaded |-> FALSE]
<1>0. call[t].pc # "idle"
  BY BodyCall
<1>1. /\ slot \in [Objects -> Slot] /\ runtimes \in [RuntimeIds -> Runtime]
      /\ obj \in Objects /\ s0 \in Slot /\ s0 = slot[obj]
      /\ Null \notin RuntimeIds
  BY <1>0, ConstantsOK DEF TypeOK, CallOK, S
\* The Slot's own reference.
<1>2. s0.ref # Null =>
        /\ s0.ref \in RuntimeIds /\ s0.ref \notin FreshRuntimes
        /\ runtimes[s0.ref].state # "orphan"
        /\ runtimes[s0.ref].state # "none" => runtimes[s0.ref].slot = obj[1]
        /\ runtimes[s0.ref].state # "none" /\ runtimes[s0.ref].loaded => s0.restored /\ s0.sandbox \in Forks
  BY <1>1 DEF CleanInv, RuntimesReferred, RefsEarned, OwnerInv, RuntimeBelongsToOwner, Slot, FreshRuntimes
<1>3. \A r \in FreshRuntimes : r \in RuntimeIds /\ runtimes[r].state = "none" /\ r # s0.ref
  BY <1>1 DEF FreshRuntimes
<1>4. /\ s0.state = "Reserved" => s0.ref = Null
      /\ s0.state = "Starting" /\ ~SlotLocked(obj) => s0.ref = Null
      /\ s0.state = "Free" => s0.ref = Null
      /\ call[t].pc = "loading" => s0.ref = Null
  <2>1. s0.state = "Reserved" => s0.ref = Null
    BY <1>1 DEF CleanInv, RefsEarned
  <2>2. s0.state = "Starting" /\ ~SlotLocked(obj) => s0.ref = Null
    BY <1>1 DEF CleanInv, RefsEarned, SlotLocked
  <2>3. s0.state = "Free" => s0.ref = Null
    BY <1>1, FreeSlotFields DEF OwnerInv, FreeSlotIsBlank
  <2>4. call[t].pc = "loading" => s0.ref = Null
    <3> SUFFICES ASSUME call[t].pc = "loading", s0.ref # Null PROVE FALSE
      OBVIOUS
    <3>1. s0.state = "Starting"
      BY DEF OwnerInv, SectionOwned, InSection
    <3>2. PICK u \in Threads : call[u].pc = "booting" /\ call[u].obj = obj
      BY <1>1, <3>1 DEF CleanInv, RefsEarned
    <3>3. u = t
      BY <3>2 DEF OwnerInv, SectionOwned, InSection
    <3> QED
      BY <3>2, <3>3
  <2> QED
    BY <2>1, <2>2, <2>3, <2>4
<1>5. /\ call[t].op = "Start" => call[t].uid \notin Forks
      /\ call[t].op = "Restore" => call[t].uid \in Forks
      /\ call[t].pc = "booting" => call[t].op = "Start"
      /\ call[t].pc = "loading" => call[t].op = "Restore"
  BY <1>0 DEF CallInv
<1>6. \A r \in RuntimeIds :
        /\ Gone(r)[r].state = "none" /\ Gone(r) \in [RuntimeIds -> Runtime]
        /\ \A q \in RuntimeIds \ {r} : Gone(r)[q] = runtimes[q] /\ Now(r, "exited")[q] = runtimes[q]
        /\ Now(r, "exited")[r].slot = runtimes[r].slot /\ Now(r, "exited")[r].loaded = runtimes[r].loaded
        /\ Now(r, "exited")[r].state = "exited"
  BY <1>1, ConstantsOK DEF Gone, Now, NoRuntime, Runtime, RuntimeStates
<1>7. SelfManaged \in BOOLEAN
  BY ConstantsOK DEF TypeOK, SelfManaged
<1> HIDE DEF s0, obj
\* The Slot is left as it is.
<1>10. ASSUME UNCHANGED <<slot, runtimes>>, ~SlotLocked(obj)
       PROVE  LeavesClean(t, s0)
  <2>1. SetSlot(t, s0)
    BY <1>1, <1>10 DEF SetSlot, obj
  <2> QED
    BY <1>1, <1>2, <1>3, <1>4, <1>10, <2>1 DEF LeavesClean, s0, obj
\* The Slot had no runtime and gets none.
<1>11. ASSUME NEW s, SetSlot(t, s), UNCHANGED runtimes, s.ref = Null, s0.ref = Null
       PROVE  LeavesClean(t, s)
  BY <1>1, <1>3, <1>11 DEF LeavesClean, s0
\* The Slot's runtime was deleted.
<1>12. ASSUME NEW s, SetSlot(t, s), s0.ref # Null, runtimes' = Gone(s0.ref),
              s.ref = Null \/ (s.ref = s0.ref /\ s.state \notin {"Reserved", "Starting"})
       PROVE  LeavesClean(t, s)
  BY <1>2, <1>3, <1>6, <1>12 DEF LeavesClean, s0
\* The Slot's runtime is still there, and the Slot still refers to it.
<1>13. ASSUME NEW s, SetSlot(t, s), s0.ref # Null, s.ref = s0.ref,
              s.state \notin {"Reserved", "Starting"}, s.restored = s0.restored, s.sandbox = s0.sandbox,
              \A q \in RuntimeIds \ {s0.ref} : runtimes'[q] = runtimes[q],
              runtimes'[s0.ref].state # "none" =>
                /\ runtimes[s0.ref].state # "none" /\ runtimes'[s0.ref].state # "orphan"
                /\ runtimes'[s0.ref].slot = runtimes[s0.ref].slot
                /\ runtimes'[s0.ref].loaded = runtimes[s0.ref].loaded
       PROVE  LeavesClean(t, s)
  BY <1>2, <1>3, <1>13 DEF LeavesClean, s0, obj
\* A runtime was made for the Slot.
<1>14. ASSUME NEW rts \in [RuntimeIds -> Runtime], NEW r \in FreshRuntimes, NEW rt, rt.slot = obj[1],
              rt.state # "orphan", runtimes' = [rts EXCEPT ![r] = rt],
              \A q \in RuntimeIds : (q = s0.ref \/ q \in FreshRuntimes) => rts[q].state = "none",
              NEW s, SetSlot(t, s), s.ref = r, s.state # "Reserved",
              s.state = "Starting" => Proceed(t, "booting"),
              rt.loaded => s.restored /\ s.sandbox \in Forks
       PROVE  LeavesClean(t, s)
  BY <1>3, <1>14 DEF LeavesClean, s0, obj
<1>15. ASSUME NEW s \in Slot, s.ref = Null, NEW rts \in [RuntimeIds -> Runtime], CreateRuntime(t, s, rts),
              \A q \in RuntimeIds : (q = s0.ref \/ q \in FreshRuntimes) => rts[q].state = "none"
       PROVE  \E s1 : LeavesClean(t, s1)
  <2> DEFINE left == [new EXCEPT !.state = "bare"]
  <2>0. new.slot = obj[1] /\ new.state # "orphan" /\ new.loaded = FALSE
    BY DEF obj
  <2>1. CASE \E r \in FreshRuntimes :
               /\ runtimes' = [rts EXCEPT ![r] = new]
               /\ SetSlot(t, [s EXCEPT !.state = "Starting", !.ref = r, !.restored = SelfManaged])
               /\ Proceed(t, "booting")
    <3>1. PICK r \in FreshRuntimes :
               /\ runtimes' = [rts EXCEPT ![r] = new]
               /\ SetSlot(t, [s EXCEPT !.state = "Starting", !.ref = r, !.restored = SelfManaged])
               /\ Proceed(t, "booting")
      BY <2>1
    <3> DEFINE s1 == [s EXCEPT !.state = "Starting", !.ref = r, !.restored = SelfManaged]
    <3>2. s1.ref = r /\ s1.state = "Starting"
      BY <1>15 DEF Slot
    <3>3. SetSlot(t, s1)
      BY <3>1
    <3> HIDE DEF s1, new
    <3>4. LeavesClean(t, s1)
      BY <1>14, <1>15, <2>0, <3>1, <3>2, <3>3
    <3> QED
      BY <3>4
  <2>2. CASE runtimes' \in AfterFailedBoot(rts, left) /\ SetSlot(t, [s EXCEPT !.state = "Reserved"])
    <3> DEFINE s1 == [s EXCEPT !.state = "Reserved"]
    <3>1. runtimes' = rts
      BY <2>2 DEF AfterFailedBoot, DeleteFails
    <3>2. s1.ref = Null
      BY <1>15 DEF Slot
    <3>3. SetSlot(t, s1)
      BY <2>2
    <3> HIDE DEF s1
    <3>4. LeavesClean(t, s1)
      BY <1>15, <3>1, <3>2, <3>3 DEF LeavesClean, s0
    <3> QED
      BY <3>4
  <2> QED
    BY <1>15, <2>1, <2>2 DEF CreateRuntime
<1>20. CASE ReserveSlot(t)
  <2>1. CASE CanReserve(s0)
    <3> DEFINE s1 == [s0 EXCEPT !.state = "Reserved", !.sandbox = call[t].uid]
    <3>1. s0.ref = Null /\ s1.ref = Null
      BY <1>1, <1>4, <2>1 DEF CanReserve, Slot
    <3>2. SetSlot(t, s1) /\ UNCHANGED runtimes
      BY <1>20, <2>1 DEF ReserveSlot, s0
    <3> QED
      BY <1>11, <3>1, <3>2
  <2>2. CASE ~CanReserve(s0)
    BY <1>10, <1>20, <2>2 DEF ReserveSlot, Enter, s0, obj
  <2> QED
    BY <2>1, <2>2
<1>21. CASE StopSandbox(t)
  <2> DEFINE s1 == [s0 EXCEPT !.state = "Stopping"]
             s2 == [s0 EXCEPT !.state = "Stopping", !.ref = Null, !.restoreDir = FALSE]
  <2>1. /\ s1.ref = s0.ref /\ s1.state = "Stopping" /\ s1.restored = s0.restored /\ s1.sandbox = s0.sandbox
        /\ s2.ref = Null
    BY <1>1 DEF Slot
  <2>2. ~SlotLocked(obj)
    BY <1>21 DEF StopSandbox, Enter, obj
  <2>3. \/ UNCHANGED <<slot, runtimes>>
        \/ s0.ref = Null /\ SetSlot(t, s1) /\ UNCHANGED runtimes
        \/ /\ s0.ref # Null /\ s0.restored
           /\ \E d \in DeleteRestored(s0.ref) : runtimes' = d.rts /\ (d.ok => SetSlot(t, s2))
        \/ /\ s0.ref # Null
           /\ \E d \in RuntimeStop(s0.ref) : runtimes' = d.rts /\ (d.ok => SetSlot(t, s1))
    BY <1>21, Zenon DEF StopSandbox, s0
  <2> HIDE DEF s1, s2
  <2>4. CASE UNCHANGED <<slot, runtimes>>
    BY <1>10, <2>2, <2>4
  <2>5. CASE s0.ref = Null /\ SetSlot(t, s1) /\ UNCHANGED runtimes
    BY <1>11, <2>1, <2>5
  <2>6. CASE /\ s0.ref # Null /\ s0.restored
             /\ \E d \in DeleteRestored(s0.ref) : runtimes' = d.rts /\ (d.ok => SetSlot(t, s2))
    <3>1. runtimes' = Gone(s0.ref) /\ SetSlot(t, s2)
      BY <1>2, <2>6, CleanAnswers
    <3> QED
      BY <1>12, <2>1, <2>6, <3>1
  <2>7. CASE /\ s0.ref # Null
             /\ \E d \in RuntimeStop(s0.ref) : runtimes' = d.rts /\ (d.ok => SetSlot(t, s1))
    <3>1. /\ SetSlot(t, s1)
          /\ \/ runtimes' = Gone(s0.ref) \/ runtimes' = runtimes
             \/ runtimes' = Now(s0.ref, "exited") /\ runtimes[s0.ref].state # "none"
      BY <1>2, <2>7, CleanAnswers
    <3>2. CASE runtimes' = Gone(s0.ref)
      BY <1>12, <2>1, <2>7, <3>1, <3>2
    <3>3. CASE runtimes' = runtimes
      BY <1>2, <1>13, <2>1, <2>7, <3>1, <3>3
    <3>4. CASE runtimes' = Now(s0.ref, "exited") /\ runtimes[s0.ref].state # "none"
      BY <1>2, <1>6, <1>13, <2>1, <2>7, <3>1, <3>4
    <3> QED
      BY <3>1, <3>2, <3>3, <3>4
  <2> QED
    BY <2>3, <2>4, <2>5, <2>6, <2>7
<1>22. CASE ReleaseSlot(t)
  <2> DEFINE s1 == Released(s0)
  <2>1. s1.ref = Null
    BY FreeSlotFields DEF Released
  <2>2. ~SlotLocked(obj)
    BY <1>22 DEF ReleaseSlot, Enter, obj
  <2>3. \/ UNCHANGED <<slot, runtimes>>
        \/ s0.ref = Null /\ SetSlot(t, s1) /\ UNCHANGED runtimes
        \/ /\ s0.ref # Null
           /\ \E d \in IF s0.restored THEN DeleteRestored(s0.ref) ELSE RuntimeDelete(s0.ref) :
                runtimes' = d.rts /\ (d.ok => SetSlot(t, s1))
    BY <1>22, Zenon DEF ReleaseSlot, NeedsDelete, s0
  <2> HIDE DEF s1
  <2>4. CASE UNCHANGED <<slot, runtimes>>
    BY <1>10, <2>2, <2>4
  <2>5. CASE s0.ref = Null /\ SetSlot(t, s1) /\ UNCHANGED runtimes
    BY <1>11, <2>1, <2>5
  <2>6. CASE /\ s0.ref # Null
             /\ \E d \in IF s0.restored THEN DeleteRestored(s0.ref) ELSE RuntimeDelete(s0.ref) :
                  runtimes' = d.rts /\ (d.ok => SetSlot(t, s1))
    <3>1. SetSlot(t, s1)
      BY <1>2, <2>6, CleanAnswers
    <3>2. CASE runtimes' = Gone(s0.ref)
      BY <1>12, <2>1, <2>6, <3>1, <3>2
    <3>3. CASE runtimes' # Gone(s0.ref)
      <4>1. ~s0.restored /\ runtimes[s0.ref].loaded /\ runtimes' = runtimes
        BY <1>2, <2>6, <3>3, CleanAnswers
      <4>2. runtimes[s0.ref].state = "none"
        BY <1>2, <2>6, <4>1
      <4> QED
        BY <1>3, <2>1, <3>1, <4>1, <4>2 DEF LeavesClean, s0
    <3> QED
      BY <3>2, <3>3
  <2> QED
    BY <2>3, <2>4, <2>5, <2>6
<1>23. CASE Inspect(t) \/ StartUnaffected(t) \/ RestoreUnaffected(t)
  BY <1>10, <1>23 DEF Inspect, StartUnaffected, RestoreUnaffected, Unaffected, Enter, obj
<1>24. CASE StartCreate(t)
  <2>1. s0.ref = Null /\ CreateRuntime(t, s0, runtimes)
    BY <1>4, <1>24 DEF StartCreate, CanCreate, s0
  <2>2. \A q \in RuntimeIds : (q = s0.ref \/ q \in FreshRuntimes) => runtimes[q].state = "none"
    BY <1>1, <1>3, <2>1
  <2> QED
    BY <1>1, <1>15, <2>1, <2>2
<1>25. CASE StartReplace(t)
  <2> DEFINE s1 == [s0 EXCEPT !.ref = Null]
  <2>1. /\ s0.ref # Null /\ s0.sandbox = call[t].uid /\ call[t].op = "Start"
        /\ \E d \in RuntimeDelete(s0.ref) : d.ok => CreateRuntime(t, s1, d.rts)
    BY <1>25 DEF StartReplace, HasStaleRuntime, Owns, Enter, s0
  <2>2. s1 \in Slot /\ s1.ref = Null
    BY <1>1 DEF Slot
  <2> HIDE DEF s1
  <2>3. PICK d \in RuntimeDelete(s0.ref) : d.ok /\ CreateRuntime(t, s1, d.rts)
    BY <1>2, <2>1, CleanAnswers
  <2>4. d.rts[s0.ref].state = "none" /\ d.rts \in [RuntimeIds -> Runtime]
        /\ \A q \in RuntimeIds \ {s0.ref} : d.rts[q] = runtimes[q]
    <3>1. CASE d.rts = Gone(s0.ref)
      BY <1>2, <1>6, <2>1, <3>1
    <3>2. CASE d.rts # Gone(s0.ref)
      <4>1. d.rts = runtimes /\ runtimes[s0.ref].loaded
        BY <1>2, <2>1, <3>2, CleanAnswers
      <4>2. runtimes[s0.ref].state = "none"
        BY <1>2, <1>5, <2>1, <4>1
      <4> QED
        BY <1>1, <4>1, <4>2
    <3> QED
      BY <3>1, <3>2
  <2>5. \A q \in RuntimeIds : (q = s0.ref \/ q \in FreshRuntimes) => d.rts[q].state = "none"
    BY <1>3, <2>4
  <2> QED
    BY <1>15, <2>2, <2>3, <2>4, <2>5
<1>26. CASE StartFinish(t)
  <2>1. /\ s0.ref # Null /\ s0.sandbox = call[t].uid /\ call[t].op = "Start"
        /\ StartRuntime(t, [s0 EXCEPT !.restored = FALSE])
    BY <1>5, <1>26 DEF StartFinish, OwnerInv, SectionOwned, InSection, Owns, s0
  <2>2. CASE /\ SetSlot(t, [s0 EXCEPT !.state = "Running"])
             /\ runtimes' = IF SelfManaged THEN runtimes ELSE Now(s0.ref, "running")
    <3> DEFINE s1 == [s0 EXCEPT !.state = "Running"]
    <3>1. s1.ref = s0.ref /\ s1.state = "Running" /\ s1.restored = s0.restored /\ s1.sandbox = s0.sandbox
      BY <1>1 DEF Slot
    <3>2. SetSlot(t, s1)
      BY <2>2
    <3>3. SelfManaged \/ runtimes[s0.ref].state # "none"
      BY <1>1, <2>1 DEF OwnerInv, RefsResolve
    <3>4. /\ \A q \in RuntimeIds \ {s0.ref} : runtimes'[q] = runtimes[q]
          /\ runtimes'[s0.ref].state # "none" =>
                /\ runtimes[s0.ref].state # "none" /\ runtimes'[s0.ref].state # "orphan"
                /\ runtimes'[s0.ref].slot = runtimes[s0.ref].slot
                /\ runtimes'[s0.ref].loaded = runtimes[s0.ref].loaded
      BY <1>1, <1>2, <2>1, <2>2, <3>3 DEF Now, Runtime
    <3> HIDE DEF s1
    <3>5. LeavesClean(t, s1)
      BY <1>13, <2>1, <3>1, <3>2, <3>4
    <3> QED
      BY <3>5
  <2>3. CASE \E d \in RuntimeDelete(s0.ref) :
          /\ runtimes' = d.rts
          /\ SetSlot(t, [[s0 EXCEPT !.restored = FALSE] EXCEPT
                           !.ref = Null, !.state = IF d.ok THEN "Reserved" ELSE "Failed"])
    <3>0. PICK d \in RuntimeDelete(s0.ref) : \E s1 : runtimes' = d.rts /\ SetSlot(t, s1) /\ s1.ref = Null
      <4>1. \A x : [[s0 EXCEPT !.restored = FALSE] EXCEPT !.ref = Null, !.state = x].ref = Null
        BY <1>1 DEF Slot
      <4> QED
        BY <2>3, <4>1
    <3>1. PICK s1 : runtimes' = d.rts /\ SetSlot(t, s1) /\ s1.ref = Null
      BY <3>0
    <3>2. CASE d.rts = Gone(s0.ref)
      BY <1>12, <2>1, <3>1, <3>2
    <3>3. CASE d.rts # Gone(s0.ref)
      <4>1. runtimes[s0.ref].loaded /\ runtimes' = runtimes
        BY <1>2, <2>1, <3>1, <3>3, CleanAnswers
      <4>2. runtimes[s0.ref].state = "none"
        BY <1>2, <1>5, <2>1, <4>1
      <4> QED
        BY <1>3, <3>1, <4>1, <4>2 DEF LeavesClean, s0
    <3> QED
      BY <3>2, <3>3
  <2> QED
    BY <2>1, <2>2, <2>3 DEF StartRuntime, s0
<1>27. CASE StartResume(t)
  BY <1>4, <1>27 DEF StartResume, Enter, s0, obj
<1>28. CASE CreateSnapshot(t)
  <2> DEFINE s1 == [s0 EXCEPT !.ref = Null, !.restored = FALSE, !.restoreDir = FALSE, !.state = "Failed"]
  <2>1. \/ UNCHANGED <<slot, runtimes>>
        \/ s0.ref # Null /\ runtimes' = Gone(s0.ref) /\ SetSlot(t, s1)
    BY <1>28, Zenon DEF CreateSnapshot, s0
  <2>2. s1.ref = Null
    BY <1>1 DEF Slot
  <2>3. ~SlotLocked(obj)
    BY <1>28 DEF CreateSnapshot, Enter, obj
  <2> HIDE DEF s1
  <2> QED
    BY <1>10, <1>12, <2>1, <2>2, <2>3
<1>29. CASE RestoreBegin(t)
  <2> DEFINE s1 == [s0 EXCEPT !.state = "Starting"]
  <2>1. s0.ref = Null /\ SetSlot(t, s1) /\ UNCHANGED runtimes
    BY <1>4, <1>29 DEF RestoreBegin, CanRestore, Enter, s0, obj
  <2>2. s1.ref = Null
    BY <1>1, <2>1 DEF Slot
  <2> QED
    BY <1>11, <2>1, <2>2
<1>30. CASE RestoreFinish(t)
  <2> DEFINE rt == [state |-> "running", slot |-> call[t].obj[1], sandbox |-> call[t].uid, loaded |-> TRUE]
  <2>1. s0.ref = Null /\ s0.sandbox = call[t].uid /\ call[t].uid \in Forks
    BY <1>4, <1>5, <1>30 DEF RestoreFinish, OwnerInv, SectionOwned, InSection, Owns, s0
  <2>2. CASE \E r \in FreshRuntimes : runtimes' = [runtimes EXCEPT ![r] = rt] /\ SetSlot(t, Restored(s0, r))
    <3>1. PICK r \in FreshRuntimes : runtimes' = [runtimes EXCEPT ![r] = rt] /\ SetSlot(t, Restored(s0, r))
      BY <2>2
    <3> DEFINE s1 == Restored(s0, r)
    <3>2. s1.ref = r /\ s1.state = "Running" /\ s1.restored = TRUE /\ s1.sandbox = s0.sandbox
      BY <1>1 DEF Restored, Slot
    <3>3. SetSlot(t, s1) /\ rt.slot = obj[1] /\ rt.state # "orphan"
      BY <3>1 DEF obj
    <3>4. \A q \in RuntimeIds : (q = s0.ref \/ q \in FreshRuntimes) => runtimes[q].state = "none"
      BY <1>1, <1>3, <2>1
    <3> HIDE DEF s1, rt
    <3>5. LeavesClean(t, s1)
      BY <1>1, <1>14, <2>1, <3>1, <3>2, <3>3, <3>4
    <3> QED
      BY <3>5
  <2>3. CASE runtimes' \in AfterFailedBoot(runtimes, rt) /\ SetSlot(t, [s0 EXCEPT !.state = "Reserved"])
    <3>1. runtimes' = runtimes
      BY <2>3 DEF AfterFailedBoot, DeleteFails
    <3>2. [s0 EXCEPT !.state = "Reserved"].ref = Null
      BY <1>1, <2>1 DEF Slot
    <3> QED
      BY <1>11, <2>1, <2>3, <3>1, <3>2
  <2> QED
    BY <1>30, <2>2, <2>3, Zenon DEF RestoreFinish, s0
<1> QED
  BY <1>20, <1>21, <1>22, <1>23, <1>24, <1>25, <1>26, <1>27, <1>28, <1>29, <1>30 DEF Body

\* A handler's step keeps every runtime object referred to.
LEMMA BodyKeepsClean ==
  ASSUME ~CleanupMayFail, TypeInv, OwnerInv, CallInv, CleanInv, NEW t \in Threads, Body(t)
  PROVE  CleanInv'
<1> DEFINE obj == call[t].obj
<1>0. /\ call[t].pc # "idle" /\ call \in [Threads -> Call]
      /\ slot \in [Objects -> Slot] /\ obj \in Objects /\ obj = <<obj[1], obj[2]>> /\ obj[2] \in Versions
      /\ UNCHANGED <<deployment, slots, version, apply, phase>> /\ phase # "recovering"
  BY BodyCall DEF TypeInv, TypeOK, CallOK, Topology, OwnerInv, RecoveringIsBlank, Objects
<1>1. PICK s : LeavesClean(t, s)
  BY BodyClean
<1>2. slot'[obj] = s /\ \A o \in Objects : o # obj => slot'[o] = slot[o]
  BY <1>0, <1>1 DEF LeavesClean, SetSlot
<1>3. obj = <<obj[1], slots[obj[1]]>> /\ slots[obj[1]] # Null /\ obj[1] \in SlotIds
  <2>1. Null \notin Versions
    BY ConstantsOK DEF Versions
  <2> QED
    BY <1>0, <2>1 DEF CleanInv, PointersMapped, Objects
<1>4. \A u \in Threads : u # t => call'[u] = call[u]
  BY <1>0, BodyCall DEF Return, Proceed
<1>5. call'[t].pc # "idle" => call'[t].obj = obj
  BY <1>0, BodyCall DEF Return, Proceed, IdleCall, Call
<1>6. Proceed(t, "booting") => call'[t].pc = "booting" /\ call'[t].obj = obj
  BY <1>0 DEF Proceed, Call
<1> HIDE DEF obj
<1>7. PointersMapped'
  BY <1>0, <1>4, <1>5 DEF CleanInv, PointersMapped, obj
<1>8. RuntimesReferred'
  <2> SUFFICES ASSUME NEW r \in RuntimeIds, runtimes'[r].state # "none"
               PROVE  /\ runtimes'[r].state # "orphan"
                      /\ slots[runtimes'[r].slot] # Null
                      /\ slot'[<<runtimes'[r].slot, slots[runtimes'[r].slot]>>].ref = r
    BY <1>0 DEF RuntimesReferred, Mapped
  <2>1. CASE r = S(t).ref \/ r \in FreshRuntimes
    <3>1. s.ref = r /\ runtimes'[r].slot = obj[1] /\ runtimes'[r].state # "orphan"
      BY <1>1, <2>1 DEF LeavesClean, obj
    <3> QED
      BY <1>2, <1>3, <3>1
  <2>2. CASE r # S(t).ref /\ r \notin FreshRuntimes
    <3>1. runtimes'[r] = runtimes[r]
      BY <2>2, BodyRuntimes
    <3> DEFINE id == runtimes[r].slot
    <3>2. /\ runtimes[r].state # "orphan" /\ slots[id] # Null /\ slot[<<id, slots[id]>>].ref = r
      BY <1>0, <3>1 DEF CleanInv, RuntimesReferred, Mapped, TypeInv, TypeOK
    <3>3. id \in SlotIds
      BY <3>1 DEF OwnerInv, RuntimesLabelled
    <3>4. <<id, slots[id]>> \in Objects
      BY <3>2, <3>3 DEF TypeInv, TypeOK, Objects
    <3>5. <<id, slots[id]>> # obj
      BY <2>2, <3>2 DEF S, obj
    <3> QED
      BY <1>2, <3>1, <3>2, <3>4, <3>5
  <2> QED
    BY <2>1, <2>2
<1>9. RefsEarned'
  <2> SUFFICES ASSUME NEW o \in Objects
               PROVE  /\ slot'[o].state = "Reserved" => slot'[o].ref = Null
                      /\ slot'[o].state = "Starting" /\ slot'[o].ref # Null =>
                           \E u \in Threads : call'[u].pc = "booting" /\ call'[u].obj = o
                      /\ /\ slot'[o].ref # Null /\ runtimes'[slot'[o].ref].state # "none"
                         /\ runtimes'[slot'[o].ref].loaded
                         => slot'[o].restored /\ slot'[o].sandbox \in Forks
    BY DEF RefsEarned
  <2>1. CASE o = obj
    BY <1>1, <1>2, <1>6, <2>1 DEF LeavesClean
  <2>2. CASE o # obj
    <3>1. slot'[o] = slot[o]
      BY <1>2, <2>2
    <3>2. slot[o].ref # Null => runtimes'[slot[o].ref] = runtimes[slot[o].ref]
      <4>1. slot[o].ref # Null =>
              slot[o].ref \in RuntimeIds /\ slot[o].ref # S(t).ref /\ slot[o].ref \notin FreshRuntimes
        BY <1>0, <2>2 DEF OwnerInv, RuntimeBelongsToOwner, S, FreshRuntimes, Slot, obj
      <4> QED
        BY <4>1, BodyRuntimes
    <3>3. slot[o].state = "Starting" /\ slot[o].ref # Null =>
            \E u \in Threads : u # t /\ call[u].pc = "booting" /\ call[u].obj = o
      BY <2>2 DEF CleanInv, RefsEarned, obj
    <3>4. slot'[o].state = "Starting" /\ slot'[o].ref # Null =>
            \E u \in Threads : call'[u].pc = "booting" /\ call'[u].obj = o
      BY <1>4, <3>1, <3>3
    <3> QED
      BY <3>1, <3>2, <3>4 DEF CleanInv, RefsEarned
  <2> QED
    BY <2>1, <2>2
<1> QED
  BY <1>7, <1>8, <1>9 DEF CleanInv

\* So does the commit of a push.
LEMMA CommitKeepsClean ==
  ASSUME TypeInv, OwnerInv, CleanInv, ApplyCommit, QuietStep
  PROVE  CleanInv'
<1> DEFINE added == {id \in SlotIds : slots[id] = Null /\ apply.cfg[id] # Null}
<1>0. /\ UNCHANGED <<deployment, call, runtimes, phase>> /\ phase # "recovering"
      /\ slot \in [Objects -> Slot] /\ Null \notin Versions
  BY ConstantsOK DEF ApplyCommit, TypeInv, TypeOK, OwnerInv, RecoveringIsBlank, Versions
<1>1. \A o \in Objects : slot'[o] = slot[o] \/ (slot'[o].ref = Null /\ slot'[o].state = "Free")
  BY FreeSlotFields DEF ApplyCommit
<1>2. \A id \in SlotIds : slots[id] # Null =>
        /\ slots'[id] = slots[id] \/ slots'[id] = Null
        /\ <<id, slots[id]>> \in Objects
        /\ slot'[<<id, slots[id]>>] = slot[<<id, slots[id]>>]
  BY <1>0 DEF ApplyCommit, TypeInv, TypeOK, Objects
<1>3. PointersMapped'
  <2> SUFFICES ASSUME NEW t \in Threads, call[t].pc # "idle" PROVE slots'[call[t].obj[1]] = call[t].obj[2]
    BY <1>0 DEF PointersMapped
  <2>1. /\ call[t].obj[1] \in SlotIds /\ call[t].obj[2] \in Versions
        /\ call[t].obj = <<call[t].obj[1], call[t].obj[2]>>
    BY DEF TypeInv, CallOK, Objects
  <2>2. slots[call[t].obj[1]] = call[t].obj[2]
    BY DEF CleanInv, PointersMapped
  <2>3. slots[call[t].obj[1]] # Null
    BY <1>0, <2>1, <2>2
  <2>4. slots'[call[t].obj[1]] # Null
    BY <1>0, <2>1, <2>2, <2>3 DEF QuietStep
  <2> QED
    BY <1>2, <2>1, <2>2, <2>3, <2>4
<1>4. RuntimesReferred'
  <2> SUFFICES ASSUME NEW r \in RuntimeIds, runtimes[r].state # "none"
               PROVE  /\ runtimes[r].state # "orphan"
                      /\ slots'[runtimes[r].slot] # Null
                      /\ slot'[<<runtimes[r].slot, slots'[runtimes[r].slot]>>].ref = r
    BY <1>0 DEF RuntimesReferred, Mapped
  <2> DEFINE id == runtimes[r].slot
  <2>1. id \in SlotIds
    BY DEF OwnerInv, RuntimesLabelled
  <2>2. runtimes[r].state # "orphan" /\ slots[id] # Null /\ Mapped(id).ref = r
    BY <1>0 DEF CleanInv, RuntimesReferred, TypeInv, TypeOK
  <2>3. Mapped(id).state # "Free"
    <3>1. Mapped(id).state = "Free" => Mapped(id).ref = Null
      BY <1>2, <2>1, <2>2, FreeSlotFields DEF OwnerInv, FreeSlotIsBlank, Mapped
    <3> QED
      BY <2>2, <3>1, ConstantsOK
  <2>4. slots'[id] # Null
    BY <1>0, <2>1, <2>2, <2>3 DEF QuietStep
  <2> QED
    BY <1>2, <2>1, <2>2, <2>4 DEF Mapped
<1>5. RefsEarned'
  BY <1>0, <1>1 DEF CleanInv, RefsEarned
<1> QED
  BY <1>3, <1>4, <1>5 DEF CleanInv

\* In a Worker whose clean-up works and whose topology pushes remove only Slots
\* nobody is using, a Slot that is offered as Free has no runtime object left on
\* it, whatever failed, was stopped, saved or restored on it before: "A Slot
\* cannot be reused until runtime cleanup succeeds".  Without either hypothesis
\* it does not hold (see README).
THEOREM FreeSlotsAreClean ==
  ASSUME ~CleanupMayFail, BootsEmpty
  PROVE  Spec /\ QuietRemovals => []FreeSlotIsClean
<1>0. ASSUME deployment \in Deployments PROVE \A id \in SlotIds : NewSlots[id] = Null
  BY <1>0 DEF NewSlots, BootConfig, BootsEmpty
<1>1. Init => CleanInv
  <2> SUFFICES ASSUME Init PROVE CleanInv
    OBVIOUS
  <2>1. \A o \in Objects : slot[o].ref = Null
    BY FreeSlotFields DEF Init, NewSlotObjects
  <2>2. (\A id \in SlotIds : slots[id] = Null) /\ (\A t \in Threads : call[t].pc = "idle")
    BY <1>0 DEF Init, IdleCall
  <2>3. \A r \in RuntimeIds : runtimes[r].state = "none"
    BY DEF Init, NoRuntime
  <2> QED
    BY <2>1, <2>2, <2>3 DEF CleanInv, PointersMapped, RuntimesReferred, RefsEarned
<1>2. TypeInv /\ OwnerInv /\ CallInv /\ CleanInv /\ [Next]_vars /\ [QuietStep]_vars => CleanInv'
  <2> SUFFICES ASSUME TypeInv, OwnerInv, CallInv, CleanInv, [Next]_vars, [QuietStep]_vars PROVE CleanInv'
    OBVIOUS
  <2>0. /\ slot \in [Objects -> Slot] /\ runtimes \in [RuntimeIds -> Runtime] /\ call \in [Threads -> Call]
        /\ \A o \in Objects : slot[o].ref # Null => slot[o].ref \in RuntimeIds
    BY DEF TypeInv, TypeOK, Slot
  <2>1. ASSUME NEW t \in Threads, NEW op \in Ops, NEW id \in SlotIds, NEW u \in Sandboxes,
               Begin(t, op, id, u)
        PROVE  CleanInv'
    <3>1. /\ UNCHANGED <<deployment, slots, slot, version, apply, runtimes, phase>>
          /\ call[t].pc = "idle" /\ call'[t].obj = <<id, slots[id]>>
          /\ \A v \in Threads : v # t => call'[v] = call[v]
      BY <2>0, <2>1 DEF Begin, Topology, IdleCall
    <3>2. PointersMapped' /\ RuntimesReferred'
      BY <3>1 DEF CleanInv, PointersMapped, RuntimesReferred, Mapped
    <3>3. \A o \in Objects : (\E v \in Threads : call[v].pc = "booting" /\ call[v].obj = o) =>
                             \E v \in Threads : call'[v].pc = "booting" /\ call'[v].obj = o
      BY <3>1
    <3>4. RefsEarned'
      BY <3>1, <3>3 DEF CleanInv, RefsEarned
    <3> QED
      BY <3>2, <3>4 DEF CleanInv
  <2>2. ASSUME NEW t \in Threads, Body(t)
        PROVE  CleanInv'
    BY <2>2, BodyKeepsClean
  <2>3. CASE UNCHANGED <<slots, slot, call, runtimes, phase>>
    BY <2>3 DEF CleanInv, PointersMapped, RuntimesReferred, RefsEarned, Mapped
  <2>4. CASE ApplyCommit
    <3>1. version' # version
      BY <2>4 DEF ApplyCommit, TypeInv, TypeOK, Versions
    <3>2. QuietStep
      BY <3>1 DEF vars
    <3> QED
      BY <2>4, <3>2, CommitKeepsClean
  <2>5. ASSUME NEW r \in RuntimeIds, RuntimeExit(r)
        PROVE  CleanInv'
    <3>1. UNCHANGED <<slots, slot, call, phase>>
      BY <2>5 DEF RuntimeExit
    <3>2. \A q \in RuntimeIds : /\ runtimes'[q].slot = runtimes[q].slot /\ runtimes'[q].loaded = runtimes[q].loaded
                                /\ runtimes'[q].state # "none" => runtimes[q].state # "none"
                                /\ runtimes'[q].state = "orphan" => runtimes[q].state = "orphan"
      BY <2>0, <2>5 DEF RuntimeExit, Now, Runtime
    <3>3. PointersMapped' /\ RuntimesReferred'
      BY <3>1, <3>2 DEF CleanInv, PointersMapped, RuntimesReferred, Mapped
    <3>4. RefsEarned'
      BY <2>0, <3>1, <3>2 DEF CleanInv, RefsEarned
    <3> QED
      BY <3>3, <3>4 DEF CleanInv
  <2>6. ASSUME NEW samePod \in BOOLEAN, Restart(samePod)
        PROVE  CleanInv'
    <3>1. /\ \A id \in SlotIds : slots'[id] = Null
          /\ \A t \in Threads : call'[t].pc = "idle"
          /\ \A o \in Objects : slot'[o].ref = Null
          /\ phase' = "recovering"
      BY <1>0, <2>6, FreeSlotFields DEF Restart, NewSlotObjects, IdleCall, TypeInv, TypeOK
    <3>2. \A r \in RuntimeIds : runtimes'[r].state # "orphan"
      BY <2>0, <2>6 DEF Restart, NoRuntime, Runtime
    <3> QED
      BY <3>1, <3>2 DEF CleanInv, PointersMapped, RuntimesReferred, RefsEarned
  <2>7. CASE Recover
    <3>1. /\ UNCHANGED <<slots, call, runtimes>> /\ phase = "recovering" /\ phase' = "serving"
          /\ \A id \in SlotIds : slots[id] = Null
      BY <2>7 DEF Recover, CleanInv, PointersMapped
    <3>2. \A r \in RuntimeIds : runtimes[r].state = "none"
      BY <2>7, <3>1 DEF Recover, Listed, OwnerInv, RuntimesLabelled
    <3>3. \A o \in Objects : slot'[o] = slot[o]
      BY <2>7, <3>2 DEF Recover, Listed
    <3>4. \A t \in Threads : call[t].pc = "idle"
      BY <3>1 DEF OwnerInv, RecoveringIsBlank
    <3> QED
      BY <3>1, <3>2, <3>3, <3>4 DEF CleanInv, PointersMapped, RuntimesReferred, RefsEarned
  <2> QED
    BY <2>1, <2>2, <2>3, <2>4, <2>5, <2>6, <2>7 DEF Next, ApplyBegin, ApplyCheck, vars
<1>3. TypeInv /\ OwnerInv /\ CleanInv => FreeSlotIsClean
  <2> SUFFICES ASSUME TypeInv, OwnerInv, CleanInv, NEW id \in SlotIds, slots[id] # Null,
                      Mapped(id).state = "Free", NEW r \in RuntimeIds, runtimes[r].state # "none",
                      runtimes[r].slot = id
               PROVE  FALSE
    BY DEF FreeSlotIsClean
  <2>1. <<id, slots[id]>> \in Objects
    BY DEF TypeInv, TypeOK, Objects
  <2>2. Mapped(id).ref = Null
    BY <2>1, FreeSlotFields DEF OwnerInv, FreeSlotIsBlank, Mapped
  <2>3. phase = "serving"
    BY DEF CleanInv, PointersMapped, TypeInv, TypeOK
  <2> QED
    BY <2>2, <2>3, ConstantsOK DEF CleanInv, RuntimesReferred
<1> QED
  BY <1>1, <1>2, <1>3, TypeInvariance, OwnerInvariance, CallInvariance, PTL DEF Spec, QuietRemovals

-----------------------------------------------------------------------------
(* The Worker keeps its contract.                                          *)

\* What a call of u may make of the Slot a: nothing, a reservation of a Free
\* one, or a change of u's own.
Moves(a, b, u) ==
  \/ b = a
  \/ a.state = "Free" /\ b = [a EXCEPT !.state = "Reserved", !.uid = u]
  \/ a.uid = u /\ \E x \in {"Reserved", "Failed"} : b = [a EXCEPT !.state = x]
  \/ a.uid = u /\ a.state = "Reserved" /\ b = [a EXCEPT !.state = "Running"]
  \/ a.uid = u /\ a.state # "Free" /\ b = [a EXCEPT !.state = "Stopping"]
  \/ a.uid = u /\ a.state # "Free" /\ b = [a EXCEPT !.state = "Free", !.uid = Null]
  \/ a.state = "Running" /\ b = [a EXCEPT !.state = "Failed"]

LEMMA InfoFields ==
  ASSUME NEW s \in Slot
  PROVE  /\ InfoOf(s) \in SlotInfo
         /\ InfoOf(s).uid = s.sandbox /\ InfoOf(s).profile = s.profile
         /\ InfoOf(s).state = IF s.state = "Starting" THEN "Reserved" ELSE s.state
BY DEF InfoOf, SlotInfo, Slot, SlotStates

\* A handler never writes the profile.
LEMMA InfoChanges ==
  ASSUME NEW s \in Slot, NEW n \in Slot, n.profile = s.profile
  PROVE  /\ \A x, y : InfoOf(n).state = x /\ n.sandbox = y => InfoOf(n) = [InfoOf(s) EXCEPT !.state = x, !.uid = y]
         /\ n.sandbox = s.sandbox =>
              InfoOf(n) = [InfoOf(s) EXCEPT !.state = IF n.state = "Starting" THEN "Reserved" ELSE n.state]
<1> DEFINE a == InfoOf(s)
           b == InfoOf(n)
<1>1. /\ a \in SlotInfo /\ b \in SlotInfo /\ b.profile = a.profile
      /\ b.uid = n.sandbox /\ a.uid = s.sandbox
      /\ b.state = IF n.state = "Starting" THEN "Reserved" ELSE n.state
  BY InfoFields
<1> HIDE DEF a, b
<1>2. b = [a EXCEPT !.state = b.state, !.uid = b.uid] /\ (b.uid = a.uid => b = [a EXCEPT !.state = b.state])
  BY <1>1 DEF SlotInfo
<1> QED
  BY <1>1, <1>2 DEF a, b

\* Each handler makes one of these moves: those that come from two runtime calls
\* make two, with the Slot in Starting, which callers take for Reserved, between.
LEMMA BodyMoves ==
  ASSUME TypeInv, OwnerInv, NEW t \in Threads, Body(t)
  PROVE  slot' = slot \/ \E n \in Slot : SetSlot(t, n) /\ Moves(InfoOf(S(t)), InfoOf(n), call[t].uid)
<1> DEFINE u == call[t].uid
           s == S(t)
           Goal == slot' = slot \/ \E n \in Slot : SetSlot(t, n) /\ Moves(InfoOf(S(t)), InfoOf(n), u)
<1> SUFFICES Goal
  OBVIOUS
<1>1. /\ s \in Slot /\ u \in Sandboxes /\ SelfManaged \in BOOLEAN
      /\ InSection(t) => s.state = "Starting" /\ s.sandbox = u
  BY BodyCall, ConstantsOK DEF TypeInv, TypeOK, CallOK, S, OwnerInv, SectionOwned, Owns, SelfManaged
<1>2. Owns(t) <=> s.sandbox = u
  BY DEF Owns
<1> HIDE DEF u, s
<1>3. ASSUME NEW n \in Slot, n.sandbox = s.sandbox, n.profile = s.profile, SetSlot(t, n),
             \/ s.sandbox = u /\ n.state \in {"Reserved", "Starting", "Failed"}
             \/ s.sandbox = u /\ s.state \in {"Reserved", "Starting"} /\ n.state = "Running"
             \/ s.sandbox = u /\ s.state # "Free" /\ n.state = "Stopping"
             \/ s.state = "Running" /\ n.state = "Failed"
      PROVE  Goal
  <2>1. InfoOf(n) = [InfoOf(s) EXCEPT !.state = IF n.state = "Starting" THEN "Reserved" ELSE n.state]
    BY <1>1, <1>3, InfoChanges
  <2>2. Moves(InfoOf(s), InfoOf(n), u)
    BY <1>1, <1>3, <2>1, InfoFields DEF Moves
  <2> QED
    BY <1>3, <2>2 DEF s
<1>4. ASSUME NEW q \in Slot, q.sandbox = s.sandbox, q.profile = s.profile, s.sandbox = u,
             NEW rts, CreateRuntime(t, q, rts)
      PROVE  Goal
  <2>1. CASE \E r \in FreshRuntimes :
               SetSlot(t, [q EXCEPT !.state = "Starting", !.ref = r, !.restored = SelfManaged])
    <3>1. PICK r \in FreshRuntimes :
               SetSlot(t, [q EXCEPT !.state = "Starting", !.ref = r, !.restored = SelfManaged])
      BY <2>1
    <3> DEFINE n == [q EXCEPT !.state = "Starting", !.ref = r, !.restored = SelfManaged]
    <3>2. n \in Slot /\ n.sandbox = s.sandbox /\ n.profile = s.profile /\ n.state = "Starting"
      BY <1>1, <1>4 DEF Slot, SlotStates, FreshRuntimes
    <3>3. SetSlot(t, n)
      BY <3>1
    <3> HIDE DEF n, Goal
    <3> QED
      BY <1>3, <1>4, <3>2, <3>3
  <2>2. CASE SetSlot(t, [q EXCEPT !.state = "Reserved"])
    <3> DEFINE n == [q EXCEPT !.state = "Reserved"]
    <3>2. n \in Slot /\ n.sandbox = s.sandbox /\ n.profile = s.profile /\ n.state = "Reserved"
      BY <1>1, <1>4 DEF Slot, SlotStates
    <3>3. SetSlot(t, n)
      BY <2>2
    <3> HIDE DEF n, Goal
    <3> QED
      BY <1>3, <1>4, <3>2, <3>3
  <2> QED
    BY <1>4, <2>1, <2>2, Zenon DEF CreateRuntime
<1>5. ASSUME NEW q \in Slot, q.sandbox = s.sandbox, q.profile = s.profile, s.sandbox = u,
             s.state = "Starting", StartRuntime(t, q)
      PROVE  Goal
  <2>1. CASE SetSlot(t, [s EXCEPT !.state = "Running"])
    <3> DEFINE n == [s EXCEPT !.state = "Running"]
    <3>2. n \in Slot /\ n.sandbox = s.sandbox /\ n.profile = s.profile /\ n.state = "Running"
      BY <1>1 DEF Slot, SlotStates
    <3>3. SetSlot(t, n)
      BY <2>1
    <3> HIDE DEF n, Goal
    <3> QED
      BY <1>3, <1>5, <3>2, <3>3
  <2>2. ASSUME NEW x \in {"Reserved", "Failed"}, SetSlot(t, [q EXCEPT !.ref = Null, !.state = x])
        PROVE  Goal
    <3> DEFINE n == [q EXCEPT !.ref = Null, !.state = x]
    <3>2. n \in Slot /\ n.sandbox = s.sandbox /\ n.profile = s.profile /\ n.state = x
      BY <1>5 DEF Slot, SlotStates
    <3>3. SetSlot(t, n)
      BY <2>2
    <3> HIDE DEF n, Goal
    <3> QED
      BY <1>3, <1>5, <3>2, <3>3
  <2>3. \/ SetSlot(t, [s EXCEPT !.state = "Running"])
        \/ \E x \in {"Reserved", "Failed"} : SetSlot(t, [q EXCEPT !.ref = Null, !.state = x])
    BY <1>5, Zenon DEF StartRuntime, s
  <2> QED
    BY <2>1, <2>2, <2>3
<1>6. ASSUME NEW x \in {"Failed", "Stopping", "Starting", "Reserved"}, SetSlot(t, [s EXCEPT !.state = x]),
             s.sandbox = u, s.state # "Free"
      PROVE  Goal
  <2> DEFINE n == [s EXCEPT !.state = x]
  <2>1. n \in Slot /\ n.sandbox = s.sandbox /\ n.profile = s.profile /\ n.state = x
    BY <1>1 DEF Slot, SlotStates
  <2>2. SetSlot(t, n)
    BY <1>6
  <2> HIDE DEF n, Goal
  <2> QED
    BY <1>3, <1>6, <2>1, <2>2
<1>7. CASE ReserveSlot(t)
  <2>1. CASE CanReserve(s)
    <3> DEFINE n == [s EXCEPT !.state = "Reserved", !.sandbox = u]
    <3>1. n \in Slot /\ n.sandbox = u /\ n.profile = s.profile /\ n.state = "Reserved"
      BY <1>1 DEF Slot, SlotStates
    <3>2. SetSlot(t, n)
      BY <1>7, <2>1 DEF ReserveSlot, s, u
    <3>3. InfoOf(n) = [InfoOf(s) EXCEPT !.state = "Reserved", !.uid = u]
      <4> HIDE DEF n
      <4>1. InfoOf(n).state = "Reserved"
        BY <3>1, InfoFields
      <4>2. \A x, y : InfoOf(n).state = x /\ n.sandbox = y => InfoOf(n) = [InfoOf(s) EXCEPT !.state = x, !.uid = y]
        BY <1>1, <3>1, InfoChanges, Zenon
      <4> QED
        BY <3>1, <4>1, <4>2, Zenon
    <3>4. InfoOf(s).state = "Free"
      BY <1>1, <2>1, InfoFields DEF CanReserve
    <3> HIDE DEF n
    <3> QED
      BY <3>1, <3>2, <3>3, <3>4 DEF Moves, s
  <2> QED
    BY <1>7, <2>1 DEF ReserveSlot, s
<1>8. CASE StopSandbox(t)
  <2>1. \/ slot' = slot
        \/ /\ s.state # "Free" /\ Owns(t)
           /\ \E x \in {"Failed", "Stopping"} : SetSlot(t, [s EXCEPT !.state = x])
        \/ /\ s.state # "Free" /\ Owns(t)
           /\ SetSlot(t, [s EXCEPT !.state = "Stopping", !.ref = Null, !.restoreDir = FALSE])
    BY <1>8, Zenon DEF StopSandbox, s
  <2>2. CASE /\ s.state # "Free" /\ Owns(t)
             /\ SetSlot(t, [s EXCEPT !.state = "Stopping", !.ref = Null, !.restoreDir = FALSE])
    <3> DEFINE n == [s EXCEPT !.state = "Stopping", !.ref = Null, !.restoreDir = FALSE]
    <3>1. n \in Slot /\ n.sandbox = s.sandbox /\ n.profile = s.profile /\ n.state = "Stopping"
      BY <1>1 DEF Slot, SlotStates
    <3>2. SetSlot(t, n) /\ s.state # "Free" /\ s.sandbox = u
      BY <1>2, <2>2
    <3> HIDE DEF n, Goal
    <3> QED
      BY <1>3, <3>1, <3>2
  <2>3. slot' = slot => Goal
    OBVIOUS
  <2> HIDE DEF Goal
  <2> QED
    BY <1>2, <1>6, <2>1, <2>2, <2>3
<1>9. CASE ReleaseSlot(t)
  <2>1. \/ slot' = slot
        \/ s.state # "Free" /\ Owns(t) /\ SetSlot(t, Released(s))
        \/ s.state # "Free" /\ Owns(t) /\ SetSlot(t, [s EXCEPT !.state = "Failed"])
    BY <1>9, Zenon DEF ReleaseSlot, s
  <2>2. CASE s.state # "Free" /\ Owns(t) /\ SetSlot(t, Released(s))
    <3>0. /\ Released(s) \in Slot /\ Released(s).state = "Free" /\ Released(s).sandbox = Null
          /\ Released(s).profile = s.profile
      BY <1>1 DEF Released, FreeSlot, Slot, SlotStates
    <3>1. /\ Released(s) \in Slot
          /\ InfoOf(Released(s)) = [InfoOf(s) EXCEPT !.state = "Free", !.uid = Null]
      <4>1. InfoOf(Released(s)).state = "Free"
        BY <3>0, InfoFields
      <4> DEFINE n == Released(s)
      <4>2. \A x, y : InfoOf(n).state = x /\ n.sandbox = y => InfoOf(n) = [InfoOf(s) EXCEPT !.state = x, !.uid = y]
        BY <1>1, <3>0, InfoChanges, Zenon
      <4> QED
        BY <3>0, <4>1, <4>2, Zenon
    <3>2. InfoOf(s).uid = u /\ InfoOf(s).state # "Free"
      BY <1>1, <1>2, <2>2, InfoFields
    <3> QED
      BY <2>2, <3>1, <3>2 DEF Moves, s
  <2>3. slot' = slot => Goal
    OBVIOUS
  <2> HIDE DEF Goal
  <2> QED
    BY <1>2, <1>6, <2>1, <2>2, <2>3
<1>10. CASE Inspect(t) \/ StartUnaffected(t) \/ RestoreUnaffected(t)
  BY <1>10 DEF Inspect, StartUnaffected, RestoreUnaffected, Unaffected
<1>11. CASE StartCreate(t)
  <2>1. Owns(t) /\ CreateRuntime(t, s, runtimes)
    BY <1>11 DEF StartCreate, s
  <2> HIDE DEF Goal
  <2> QED
    BY <1>1, <1>2, <1>4, <2>1
<1>12. CASE StartReplace(t)
  <2>1. /\ Owns(t) /\ s.state = "Running"
        /\ \/ \E rts : CreateRuntime(t, [s EXCEPT !.ref = Null], rts)
           \/ SetSlot(t, [s EXCEPT !.state = "Failed"])
    BY <1>12, Zenon DEF StartReplace, HasStaleRuntime, s
  <2>2. /\ [s EXCEPT !.ref = Null] \in Slot
        /\ [s EXCEPT !.ref = Null].sandbox = s.sandbox /\ [s EXCEPT !.ref = Null].profile = s.profile
    BY <1>1 DEF Slot
  <2> HIDE DEF Goal
  <2> QED
    BY <1>2, <1>4, <1>6, <2>1, <2>2
<1>13. CASE StartFinish(t)
  <2>1. InSection(t) /\ StartRuntime(t, [s EXCEPT !.restored = FALSE])
    BY <1>13 DEF StartFinish, InSection, s
  <2>2. /\ [s EXCEPT !.restored = FALSE] \in Slot
        /\ [s EXCEPT !.restored = FALSE].sandbox = s.sandbox /\ [s EXCEPT !.restored = FALSE].profile = s.profile
    BY <1>1 DEF Slot
  <2> HIDE DEF Goal
  <2> QED
    BY <1>1, <1>5, <2>1, <2>2
<1>14. CASE StartResume(t)
  <2>1. Owns(t) /\ s.state = "Starting" /\ StartRuntime(t, s)
    BY <1>14 DEF StartResume, s
  <2> HIDE DEF Goal
  <2> QED
    BY <1>1, <1>2, <1>5, <2>1
<1>15. CASE CreateSnapshot(t)
  <2> DEFINE n == [s EXCEPT !.ref = Null, !.restored = FALSE, !.restoreDir = FALSE, !.state = "Failed"]
  <2>1. slot' = slot \/ (s.state = "Running" /\ SetSlot(t, n))
    BY <1>15, Zenon DEF CreateSnapshot, s
  <2>2. n \in Slot /\ n.sandbox = s.sandbox /\ n.profile = s.profile /\ n.state = "Failed"
    BY <1>1 DEF Slot, SlotStates
  <2>3. slot' = slot => Goal
    OBVIOUS
  <2> HIDE DEF n, Goal
  <2> QED
    BY <1>3, <2>1, <2>2, <2>3
<1>16. CASE RestoreBegin(t)
  <2>1. Owns(t) /\ s.state \in {"Reserved", "Starting"} /\ SetSlot(t, [s EXCEPT !.state = "Starting"])
    BY <1>16 DEF RestoreBegin, CanRestore, s
  <2> HIDE DEF Goal
  <2> QED
    BY <1>2, <1>6, <2>1
<1>17. CASE RestoreFinish(t)
  <2>1. /\ InSection(t)
        /\ \/ \E r \in FreshRuntimes : SetSlot(t, Restored(s, r))
           \/ SetSlot(t, [s EXCEPT !.state = "Reserved"])
    BY <1>17, Zenon DEF RestoreFinish, InSection, s
  <2>2. \A r \in FreshRuntimes : /\ Restored(s, r) \in Slot /\ Restored(s, r).sandbox = s.sandbox
                                /\ Restored(s, r).profile = s.profile /\ Restored(s, r).state = "Running"
    BY <1>1 DEF Restored, Slot, SlotStates, FreshRuntimes
  <2> HIDE DEF Goal
  <2> QED
    BY <1>1, <1>3, <1>6, <2>1, <2>2
<1> QED
  BY <1>7, <1>8, <1>9, <1>10, <1>11, <1>12, <1>13, <1>14, <1>15, <1>16, <1>17 DEF Body

\* Every move is an effect WorkerCalls knows of a call, or a save.
LEMMA MovesAreEffects ==
  ASSUME NEW a \in SlotInfo, NEW u \in Sandboxes, NEW b, Moves(a, b, u), b # a
  PROVE  \/ \E op \in Contract!Calls : b \in Contract!Effects(op, a, u)
         \/ a.state = "Running" /\ b = Contract!SavedAway(a)
<1>0. a # Null
  BY NullIsNoTable
<1>1. \A op \in Contract!Calls : Contract!SlotAnswer(op, a, u).info \in Contract!Effects(op, a, u)
  BY Zenon DEF Contract!Effects
<1>2. ASSUME a.uid = u
      PROVE  \A x \in {"Reserved", "Failed"} : [a EXCEPT !.state = x] \in Contract!Effects("start", a, u)
  <2>1. \A x \in {"Reserved", "Failed"} :
          Contract!Answer("500", [a EXCEPT !.state = x]) \in Contract!RuntimeErrors("start", a, u)
    BY <1>0, <1>2 DEF Contract!RuntimeErrors
  <2>2. \A x : Contract!Answer("500", [a EXCEPT !.state = x]).info = [a EXCEPT !.state = x]
    BY DEF Contract!Answer
  <2>3. \A e \in Contract!RuntimeErrors("start", a, u) : e.info \in Contract!Effects("start", a, u)
    BY Zenon DEF Contract!Effects
  <2> QED
    BY <2>1, <2>2, <2>3
<1>3. CASE a.state = "Free" /\ b = [a EXCEPT !.state = "Reserved", !.uid = u]
  <2>1. Contract!SlotAnswer("reserve", a, u).info = b
    BY <1>0, <1>3 DEF Contract!SlotAnswer, Contract!ReserveAnswer, Contract!ReservedFor, Contract!Answer
  <2> QED
    BY <1>1, <2>1 DEF Contract!Calls
<1>4. CASE a.uid = u /\ \E x \in {"Reserved", "Failed"} : b = [a EXCEPT !.state = x]
  BY <1>2, <1>4 DEF Contract!Calls
<1>5. CASE a.uid = u /\ a.state = "Reserved" /\ b = [a EXCEPT !.state = "Running"]
  <2>1. Contract!SlotAnswer("start", a, u).info = b
    BY <1>0, <1>5 DEF Contract!SlotAnswer, Contract!StartAnswer, Contract!Answer
  <2> QED
    BY <1>1, <2>1 DEF Contract!Calls
<1>6. CASE a.uid = u /\ a.state # "Free" /\ b = [a EXCEPT !.state = "Stopping"]
  <2>1. Contract!SlotAnswer("stop", a, u).info = b
    BY <1>0, <1>6 DEF Contract!SlotAnswer, Contract!Cleanup, Contract!Answer
  <2> QED
    BY <1>1, <2>1 DEF Contract!Calls
<1>7. CASE a.uid = u /\ a.state # "Free" /\ b = [a EXCEPT !.state = "Free", !.uid = Null]
  <2>1. Contract!SlotAnswer("release", a, u).info = b
    BY <1>0, <1>7 DEF Contract!SlotAnswer, Contract!Cleanup, Contract!Answer
  <2> QED
    BY <1>1, <2>1 DEF Contract!Calls
<1>8. CASE a.state = "Running" /\ b = [a EXCEPT !.state = "Failed"]
  BY <1>8 DEF Contract!SavedAway
<1> QED
  BY <1>3, <1>4, <1>5, <1>6, <1>7, <1>8 DEF Moves

\* The table of a Worker with Slot map sl and Slot objects so.
TableOf(sl, so) == [id \in SlotIds |-> IF sl[id] = Null THEN Null ELSE InfoOf(so[<<id, sl[id]>>])]

LEMMA TableShape ==
  ASSUME NEW sl \in [SlotIds -> Versions \cup {Null}], NEW so \in [Objects -> Slot]
  PROVE  /\ TableOf(sl, so) # Null /\ TableOf(sl, so) \in [SlotIds -> SlotInfo \cup {Null}]
         /\ \A id \in SlotIds : TableOf(sl, so)[id] = IF sl[id] = Null THEN Null ELSE InfoOf(so[<<id, sl[id]>>])
         /\ \A id \in SlotIds : sl[id] # Null => InfoOf(so[<<id, sl[id]>>]) \in SlotInfo
<1>1. \A id \in SlotIds : sl[id] # Null => so[<<id, sl[id]>>] \in Slot
  BY DEF Objects
<1>2. \A id \in SlotIds : sl[id] # Null => InfoOf(so[<<id, sl[id]>>]) \in SlotInfo
  BY <1>1, InfoFields
<1>3. TableOf(sl, so) \in [SlotIds -> SlotInfo \cup {Null}]
  BY <1>2 DEF TableOf
<1> QED
  BY <1>2, <1>3, NullIsNoTable DEF TableOf

\* A handler's step is a call of the contract on the Slot it has a pointer to, or,
\* if that Slot has left the map, no step at all.
LEMMA BodyKeepsContract ==
  ASSUME TypeInv, OwnerInv, TypeInv', NEW t \in Threads, Body(t)
  PROVE  [Contract!Next]_Table
<1>1. UNCHANGED Topology /\ call[t].obj \in Objects /\ call[t].uid \in Sandboxes
  BY BodyCall DEF TypeInv, CallOK
<1>2. UNCHANGED <<slots, phase>>
  BY <1>1 DEF Topology
<1>3. CASE phase # "serving" \/ slot' = slot
  <2>1. phase \in {"recovering", "serving"}
    BY DEF TypeInv, TypeOK
  <2>2. Table' = Table
    BY <1>2, <1>3, <2>1 DEF Table, Mapped
  <2> QED
    BY <2>2
<1>4. CASE phase = "serving" /\ slot' # slot
  <2>1. PICK n \in Slot : SetSlot(t, n) /\ Moves(InfoOf(S(t)), InfoOf(n), call[t].uid)
    BY <1>4, BodyMoves
  <2>2. PICK id \in SlotIds, v \in Versions : call[t].obj = <<id, v>>
    BY <1>1 DEF Objects
  <2>3. /\ slot \in [Objects -> Slot] /\ slot'[call[t].obj] = n /\ \A o \in Objects : o # call[t].obj => slot'[o] = slot[o]
        /\ slots \in [SlotIds -> Versions \cup {Null}] /\ Null \notin Versions
    BY <1>1, <2>1, ConstantsOK DEF SetSlot, TypeInv, TypeOK, Versions
  <2>4. \A j \in SlotIds : slots[j] # Null => <<j, slots[j]>> \in Objects
    BY <2>3 DEF Objects
  <2>5. /\ Table # Null /\ Table \in [SlotIds -> SlotInfo \cup {Null}]
        /\ \A j \in SlotIds : Table[j] = IF slots[j] = Null THEN Null ELSE InfoOf(slot[<<j, slots[j]>>])
        /\ \A j \in SlotIds : slots[j] # Null => InfoOf(slot[<<j, slots[j]>>]) \in SlotInfo
    <3>1. Table = TableOf(slots, slot)
      BY <1>4 DEF Table, TableOf, Mapped
    <3> QED
      BY <2>3, <3>1, TableShape
  <2>6. /\ Table' \in [SlotIds -> SlotInfo \cup {Null}]
        /\ \A j \in SlotIds : Table'[j] = IF slots[j] = Null THEN Null ELSE InfoOf(slot'[<<j, slots[j]>>])
    <3>1. Table' = TableOf(slots, slot')
      BY <1>2, <1>4 DEF Table, TableOf, Mapped
    <3>2. slot' \in [Objects -> Slot]
      BY DEF TypeInv, TypeOK
    <3> QED
      BY <2>3, <3>1, <3>2, TableShape
  <2> DEFINE a == InfoOf(S(t))
             b == InfoOf(n)
             u == call[t].uid
  <2>9. \A j \in SlotIds : slots[j] # Null /\ (j # id \/ slots[j] # v) => slot'[<<j, slots[j]>>] = slot[<<j, slots[j]>>]
    <3>1. \A j \in SlotIds : j # id \/ slots[j] # v => <<j, slots[j]>> # call[t].obj
      BY <2>2
    <3> QED
      BY <2>3, <2>4, <3>1
  <2>7. CASE slots[id] = v
    <3>1. Table[id] = a /\ a \in SlotInfo
      BY <2>2, <2>3, <2>5, <2>7 DEF S
    <3>2. Table'[id] = b
      BY <2>2, <2>3, <2>6, <2>7
    <3>3. \A j \in SlotIds : j # id => Table'[j] = Table[j]
      BY <2>5, <2>6, <2>9
    <3>4. Table' = [Table EXCEPT ![id] = b]
      BY <2>5, <2>6, <3>2, <3>3
    <3>5. Moves(a, b, u) /\ u \in Sandboxes
      BY <1>1, <2>1
    <3> HIDE DEF a, b, u
    <3>6. CASE b = a
      BY <2>5, <3>1, <3>4, <3>6
    <3>7. CASE \E op \in Contract!Calls : b \in Contract!Effects(op, a, u)
      <4>1. PICK op \in Contract!Calls : b \in Contract!Effects(op, a, u)
        BY <3>7
      <4>2. Contract!Serve(op, id, u)
        BY <2>5, <3>1, <3>4, <4>1 DEF Contract!Serve
      <4> QED
        BY <3>5, <4>2 DEF Contract!Next
    <3>8. CASE a.state = "Running" /\ b = Contract!SavedAway(a)
      <4>1. Contract!Save(id)
        BY <2>5, <3>1, <3>4, <3>8, NullIsNoTable DEF Contract!Save
      <4> QED
        BY <4>1 DEF Contract!Next
    <3> QED
      BY <3>1, <3>5, <3>6, <3>7, <3>8, MovesAreEffects
  <2>8. CASE slots[id] # v
    <3>1. \A j \in SlotIds : Table'[j] = Table[j]
      BY <2>5, <2>6, <2>8, <2>9
    <3> QED
      BY <2>5, <2>6, <3>1
  <2> QED
    BY <2>7, <2>8
<1> QED
  BY <1>3, <1>4

\* An accepted push is the contract's, because what it has checked stays so.
LEMMA CommitKeepsContract ==
  ASSUME TypeInv, OwnerInv, PushInv, TypeInv', ApplyCommit
  PROVE  Contract!Next
<1>1. /\ apply.pc = "checking" /\ apply.pending = {} /\ apply.cfg \in Config /\ UNCHANGED phase
      /\ version \in Nat /\ Null \notin Versions
  BY ConstantsOK DEF ApplyCommit, TypeInv, TypeOK, Apply, Versions
<1>2. phase = "serving"
  BY <1>1 DEF OwnerInv, RecoveringIsBlank, TypeInv, TypeOK
<1>3. /\ Table # Null
      /\ \A i \in SlotIds : Table[i] = IF slots[i] = Null THEN Null ELSE InfoOf(Mapped(i))
      /\ \A i \in SlotIds : slots[i] # Null => InfoOf(Mapped(i)) \in SlotInfo /\ Mapped(i) \in Slot
  <2>1. Table = TableOf(slots, slot)
    BY <1>2 DEF Table, TableOf, Mapped
  <2>2. slots \in [SlotIds -> Versions \cup {Null}] /\ slot \in [Objects -> Slot]
    BY DEF TypeInv, TypeOK
  <2> QED
    BY <2>1, <2>2, TableShape DEF Objects, Mapped
<1>4. /\ Table' \in [SlotIds -> SlotInfo \cup {Null}]
      /\ \A i \in SlotIds : Table'[i] = IF slots'[i] = Null THEN Null ELSE InfoOf(slot'[<<i, slots'[i]>>])
  <2>1. Table' = TableOf(slots', slot')
    BY <1>1, <1>2 DEF Table, TableOf, Mapped
  <2>2. slots' \in [SlotIds -> Versions \cup {Null}] /\ slot' \in [Objects -> Slot]
    BY DEF TypeInv, TypeOK
  <2> QED
    BY <2>1, <2>2, TableShape
<1>5. \A i \in SlotIds : Table[i] # Null /\ apply.cfg[i] # Null => Table[i].profile = apply.cfg[i]
  BY <1>1, <1>3, InfoFields DEF PushInv
<1>6. ASSUME NEW i \in SlotIds
      PROVE  Table'[i] = IF apply.cfg[i] = Null THEN Null
                         ELSE IF Table[i] = Null THEN [state |-> "Free", uid |-> Null, profile |-> apply.cfg[i]]
                         ELSE Table[i]
  <2>1. CASE apply.cfg[i] = Null
    <3>1. slots'[i] = Null
      BY <2>1 DEF ApplyCommit
    <3> QED
      BY <1>4, <2>1, <3>1
  <2>2. CASE apply.cfg[i] # Null /\ slots[i] = Null
    <3>0. slots'[i] = version + 1
      BY <2>2 DEF ApplyCommit
    <3>1. slots'[i] = version + 1 /\ version + 1 \in Versions
      BY <1>1, <3>0, ConstantsOK DEF TypeInv, TypeOK, ApplyOK, Versions
    <3>2. <<i, version + 1>> \in Objects
      BY <3>1 DEF Objects
    <3>3. slot'[<<i, version + 1>>] = FreeSlot(apply.cfg[i])
      BY <2>2, <3>2 DEF ApplyCommit
    <3>4. InfoOf(FreeSlot(apply.cfg[i])) = [state |-> "Free", uid |-> Null, profile |-> apply.cfg[i]]
      BY DEF InfoOf, FreeSlot
    <3>5. Table'[i] = InfoOf(FreeSlot(apply.cfg[i])) /\ Table[i] = Null
      BY <1>1, <1>3, <1>4, <2>2, <3>1, <3>3
    <3> QED
      BY <2>2, <3>4, <3>5
  <2>3. CASE apply.cfg[i] # Null /\ slots[i] # Null
    <3>1. slots'[i] = slots[i] /\ <<i, slots[i]>> \in Objects
      BY <2>3 DEF ApplyCommit, TypeInv, TypeOK, Objects
    <3>2. slot'[<<i, slots[i]>>] = slot[<<i, slots[i]>>]
      BY <2>3, <3>1 DEF ApplyCommit
    <3>3. Table'[i] = Table[i] /\ Table[i] # Null
      BY <1>3, <1>4, <2>3, <3>1, <3>2, NullIsNoTable DEF Mapped
    <3> QED
      BY <2>3, <3>3
  <2> QED
    BY <2>1, <2>2, <2>3
<1>7. Contract!Push(apply.cfg)
  BY <1>3, <1>4, <1>5, <1>6 DEF Contract!Push
<1> QED
  BY <1>1, <1>7 DEF Contract!Next, Config

\* A Worker that starts as cmd/worker does keeps the contract that the
\* controllers are checked and proved against, with runtimes and clean-up that
\* fail, handlers and pushes in any order, and restarts at any time.
THEOREM WorkersKeepContract ==
  ASSUME BootsEmpty
  PROVE  Spec => KeepsWorkerContract
<1> DEFINE Empty == phase = "recovering" => \A id \in SlotIds : slots[id] = Null
<1>0. ASSUME deployment \in Deployments PROVE \A id \in SlotIds : NewSlots[id] = Null
  BY <1>0 DEF NewSlots, BootConfig, BootsEmpty
<1>1. Init => Empty /\ Contract!Init
  BY <1>0 DEF Init, Table, Contract!Init
<1>2. TypeInv /\ OwnerInv /\ Empty /\ [Next]_vars => Empty'
  <2> SUFFICES ASSUME TypeInv, OwnerInv, Empty, [Next]_vars PROVE Empty'
    OBVIOUS
  <2>1. ASSUME NEW samePod \in BOOLEAN, Restart(samePod) PROVE Empty'
    BY <1>0, <2>1 DEF Restart, TypeInv, TypeOK
  <2>2. CASE Recover
    BY <2>2 DEF Recover
  <2>3. CASE ApplyCommit
    BY <2>3 DEF ApplyCommit, OwnerInv, RecoveringIsBlank
  <2>4. CASE UNCHANGED <<slots, phase>>
    BY <2>4
  <2> QED
    BY <2>1, <2>2, <2>3, <2>4, BodyCall DEF Next, Begin, ApplyBegin, ApplyCheck, RuntimeExit, Topology, vars
<1>3. TypeInv /\ TypeInv' /\ OwnerInv /\ PushInv /\ Empty /\ [Next]_vars => [Contract!Next]_Table
  <2> SUFFICES ASSUME TypeInv, TypeInv', OwnerInv, PushInv, Empty, [Next]_vars PROVE [Contract!Next]_Table
    OBVIOUS
  <2>1. ASSUME NEW t \in Threads, Body(t) PROVE [Contract!Next]_Table
    BY <2>1, BodyKeepsContract
  <2>2. CASE ApplyCommit
    BY <2>2, CommitKeepsContract
  <2>3. ASSUME NEW samePod \in BOOLEAN, Restart(samePod) PROVE [Contract!Next]_Table
    <3>1. Table' = Null
      BY <2>3 DEF Restart, Table
    <3> QED
      BY <3>1 DEF Contract!Next, Contract!Leave
  <2>4. CASE Recover
    <3>1. /\ phase = "recovering" /\ phase' = "serving" /\ slots' = slots
          /\ \A id \in SlotIds : slots[id] = Null
      BY <2>4 DEF Recover
    <3>2. Table = Null
      BY <3>1 DEF Table
    <3>3. Table' = [id \in SlotIds |-> Null]
      BY <3>1 DEF Table
    <3> QED
      BY <3>2, <3>3 DEF Contract!Next, Contract!ComeUp, Contract!NoSlots
  <2>5. CASE UNCHANGED <<slots, slot, phase>>
    BY <2>5 DEF Table, Mapped
  <2> QED
    BY <2>1, <2>2, <2>3, <2>4, <2>5 DEF Next, Begin, ApplyBegin, ApplyCheck, RuntimeExit, Topology, vars
<1> HIDE DEF Empty
<1> QED
  BY <1>1, <1>2, <1>3, TypeInvariance, OwnerInvariance, PushInvariance, PTL
     DEF Spec, KeepsWorkerContract, Contract!Spec
=============================================================================
