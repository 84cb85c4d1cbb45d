----------------------- MODULE GVisorRuntime_proofs -----------------------
(***************************************************************************)
(* What a failed, abandoned or half-deleted restore leaves behind, for any  *)
(* number of Sandboxes and Slots, any schedule of Sandboxes into Slots and  *)
(* any number of failing commands and hang-ups.                             *)
(*                                                                         *)
(* RestoredIsWhole and NoFilesOutlive are not inductive: they speak of the  *)
(* ends of a LoadSnapshot call, and what holds there was built up step by   *)
(* step.  Progress says what each step finds; Holders says that the         *)
(* namespace, which is named by the Slot, has one user at a time.           *)
(***************************************************************************)
EXTENDS GVisorRuntime, SequenceTheorems, TLAPS

Last == Len(LoadSteps)
StepSet == {LoadSteps[i] : i \in 1 .. 8}

\* What is left of a LoadSnapshot call before its i-th step.
Left(i) == SubSeq(LoadSteps, i, Last)

Holds(n) == slot[n] \in {"held", "failed"}

\* What the i-th step of LoadSnapshot finds of its own Sandbox.
Progress(n, i) ==
  /\ n \in root
  /\ i = 1 => n \notin netinfo /\ mounts[n] = {}
  /\ i > 1 => n \in netinfo /\ netns[SlotOf[n]] = n
  /\ i > 2 => "pause" \in mounts[n]
  /\ i > 5 => "app" \in mounts[n]

SandboxInv(n) ==
  /\ InCall(n) => slot[n] = "held" /\ n \notin ref
  /\ n \in ref => Holds(n)
  /\ n \in ref /\ slot[n] = "held" =>
       /\ netns[SlotOf[n]] = n /\ n \in netinfo
       /\ n \in listed /\ mounts[n] = Containers
  /\ ~InCall(n) /\ n \notin ref => n \notin root \cup netinfo /\ mounts[n] = {}
  /\ \A i \in 1 .. Last : todo[n] = Left(i) => Progress(n, i)

\* A Slot is held for one Sandbox at a time.
Holders ==
  \A m, n \in Sandboxes : SlotOf[m] = SlotOf[n] /\ Holds(m) /\ Holds(n) => m = n

GVisorInv == TypeOK /\ Holders /\ \A n \in Sandboxes : SandboxInv(n)

-----------------------------------------------------------------------------
(* The steps of a call.                                                     *)

\* LoadSteps is a sequence of eight steps.
LEMMA Steps ==
  /\ LoadSteps \in Seq(StepSet) /\ Last = 8
  /\ LoadSteps[1] = <<"network">>
  /\ LoadSteps[2] = <<"bundle", "pause">> /\ LoadSteps[3] = <<"create", "pause">>
  /\ LoadSteps[4] = <<"restore", "pause">>
  /\ LoadSteps[5] = <<"bundle", "app">> /\ LoadSteps[6] = <<"create", "app">>
  /\ LoadSteps[7] = <<"restore", "app">> /\ LoadSteps[8] = <<"persist">>
<1>1. Last = 8
  BY DEF LoadSteps, Last
<1>2. /\ LoadSteps[1] = <<"network">>
      /\ LoadSteps[2] = <<"bundle", "pause">> /\ LoadSteps[3] = <<"create", "pause">>
      /\ LoadSteps[4] = <<"restore", "pause">>
      /\ LoadSteps[5] = <<"bundle", "app">> /\ LoadSteps[6] = <<"create", "app">>
      /\ LoadSteps[7] = <<"restore", "app">> /\ LoadSteps[8] = <<"persist">>
  BY DEF LoadSteps
<1>3. LoadSteps \in Seq(StepSet)
  <2>1. LoadSteps = [i \in 1 .. 8 |-> LoadSteps[i]]
    BY DEF LoadSteps
  <2>2. LoadSteps \in [1 .. 8 -> StepSet]
    BY <2>1 DEF StepSet
  <2> QED
    BY <2>2, SeqDef
<1> QED
  BY <1>1, <1>2, <1>3

\* Before its i-th step a call is at LoadSteps[i], and goes on to the next one.
LEMMA Suffixes ==
  /\ Left(1) = LoadSteps /\ Left(9) = <<>>
  /\ \A i \in 1 .. 8 :
       /\ Left(i) # <<>> /\ Head(Left(i)) = LoadSteps[i] /\ Tail(Left(i)) = Left(i + 1)
  /\ \A i, j \in 1 .. 9 : Left(i) = Left(j) => i = j
<1>1. Left(1) = LoadSteps
  BY Steps, SubSeqFull DEF Left, Last
<1>2. Left(9) = <<>>
  BY Steps, SubSeqEmpty DEF Left
<1>3. \A i \in 1 .. 8 : Head(Left(i)) = LoadSteps[i] /\ Tail(Left(i)) = Left(i + 1)
  <2> SUFFICES ASSUME NEW i \in 1 .. 8
               PROVE  Head(Left(i)) = LoadSteps[i] /\ Tail(Left(i)) = Left(i + 1)
    OBVIOUS
  <2> QED
    BY Steps, HeadTailOfSubSeq DEF Left, Last
<1>4. \A i \in 1 .. 9 : Len(Left(i)) = 9 - i
  BY Steps, SubSeqProperties DEF Left, Last
<1>5. \A i \in 1 .. 8 : Left(i) # <<>>
  <2>1. Len(<<>>) = 0
    OBVIOUS
  <2> QED
    BY <2>1, <1>4
<1>6. \A i, j \in 1 .. 9 : Left(i) = Left(j) => i = j
  BY <1>4
<1> QED
  BY <1>1, <1>2, <1>3, <1>5, <1>6

\* No two steps are the same.
LEMMA Distinct ==
  ASSUME NEW i \in 1 .. 8
  PROVE  /\ LoadSteps[i] # <<"undo">>
         /\ LoadSteps[i] = <<"network">> => i = 1
         /\ LoadSteps[i] = <<"bundle", "pause">> => i = 2
         /\ LoadSteps[i] = <<"create", "pause">> => i = 3
         /\ LoadSteps[i] = <<"restore", "pause">> => i = 4
         /\ LoadSteps[i] = <<"bundle", "app">> => i = 5
         /\ LoadSteps[i] = <<"create", "app">> => i = 6
         /\ LoadSteps[i] = <<"restore", "app">> => i = 7
         /\ LoadSteps[i] = <<"persist">> => i = 8
<1>1. CASE i = 1
  BY <1>1 DEF LoadSteps
<1>2. CASE i = 2
  BY <1>2 DEF LoadSteps
<1>3. CASE i = 3
  BY <1>3 DEF LoadSteps
<1>4. CASE i = 4
  BY <1>4 DEF LoadSteps
<1>5. CASE i = 5
  BY <1>5 DEF LoadSteps
<1>6. CASE i = 6
  BY <1>6 DEF LoadSteps
<1>7. CASE i = 7
  BY <1>7 DEF LoadSteps
<1>8. CASE i = 8
  BY <1>8 DEF LoadSteps
<1> QED
  BY <1>1, <1>2, <1>3, <1>4, <1>5, <1>6, <1>7, <1>8

\* The undoing of a call is no step of it.
LEMMA Undo ==
  /\ UndoSteps # <<>> /\ Head(UndoSteps) = <<"undo">>
  /\ \A i \in 1 .. 9 : UndoSteps # Left(i)
<1>1. UndoSteps # <<>> /\ Head(UndoSteps) = <<"undo">>
  BY DEF UndoSteps
<1>2. \A i \in 1 .. 8 : LoadSteps[i] # <<"undo">>
  BY Distinct
<1>3. \A i \in 1 .. 9 : i = 9 \/ i \in 1 .. 8
  OBVIOUS
<1> QED
  BY <1>1, <1>2, <1>3, Suffixes

\* The step a call is at says how far it has come.
LEMMA StepPosition ==
  ASSUME TypeOK, NEW n \in Sandboxes
  PROVE  /\ todo[n] = UndoSteps \/ \E i \in 1 .. 9 : todo[n] = Left(i)
         /\ Step(n, <<"network">>) => todo[n] = Left(1)
         /\ Step(n, <<"bundle", "pause">>) => todo[n] = Left(2)
         /\ Step(n, <<"create", "pause">>) => todo[n] = Left(3)
         /\ Step(n, <<"restore", "pause">>) => todo[n] = Left(4)
         /\ Step(n, <<"bundle", "app">>) => todo[n] = Left(5)
         /\ Step(n, <<"create", "app">>) => todo[n] = Left(6)
         /\ Step(n, <<"restore", "app">>) => todo[n] = Left(7)
         /\ Step(n, <<"persist">>) => todo[n] = Left(8)
         /\ Step(n, <<"undo">>) => todo[n] = UndoSteps
<1>1. todo[n] = UndoSteps \/ \E i \in 1 .. 9 : todo[n] = Left(i)
  BY Steps DEF TypeOK, Left, Last
<1>2. CASE todo[n] = UndoSteps
  BY <1>2, Undo DEF Step
<1>3. CASE \E i \in 1 .. 9 : todo[n] = Left(i)
  <2>1. PICK i \in 1 .. 9 : todo[n] = Left(i)
    BY <1>3
  <2>2. CASE i = 9
    BY <2>1, <2>2, Suffixes DEF Step, InCall
  <2>3. CASE i \in 1 .. 8
    <3>1. Head(todo[n]) = LoadSteps[i]
      BY <2>1, <2>3, Suffixes
    <3> QED
      BY <3>1, <2>1, <2>3, Distinct DEF Step
  <2> QED
    BY <2>1, <2>2, <2>3
<1> QED
  BY <1>1, <1>2, <1>3

-----------------------------------------------------------------------------
(* What a step does not touch.                                              *)

IsTodo(x) == x = UndoSteps \/ \E i \in 1 .. 9 : x = Left(i)

CallTypes ==
  /\ DOMAIN todo = Sandboxes /\ \A n \in Sandboxes : IsTodo(todo[n])
  /\ hung \subseteq {n \in Sandboxes : todo[n] # <<>>}

FileTypes ==
  /\ root \subseteq Sandboxes /\ listed \subseteq root /\ netinfo \subseteq Sandboxes
  /\ made \in [Sandboxes -> SUBSET Containers] /\ mounts \in [Sandboxes -> SUBSET Containers]
  /\ netns \in [Slots -> Sandboxes \cup {Null}]

RestTypes ==
  /\ slot \in [Sandboxes -> {"new", "held", "failed", "gone"}] /\ ref \subseteq Sandboxes
  /\ saved \subseteq Sandboxes
  /\ faults \in 0 .. MaxFaults

\* The type invariant in three parts.
LEMMA Types == TypeOK <=> CallTypes /\ FileTypes /\ RestTypes
<1>1. Len(LoadSteps) = 8 /\ Len(LoadSteps) + 1 = 9
  BY Steps DEF Last
<1>2. ASSUME NEW n \in Sandboxes
      PROVE  IsTodo(todo[n]) <=>
               (todo[n] = UndoSteps \/ \E i \in 1 .. Len(LoadSteps) + 1 : todo[n] = SubSeq(LoadSteps, i, Len(LoadSteps)))
  BY <1>1 DEF IsTodo, Left, Last
<1> QED
  BY <1>2 DEF TypeOK, CallTypes, FileTypes, RestTypes

\* The same of the next state.
LEMMA TypesNext == TypeOK' <=> CallTypes' /\ FileTypes' /\ RestTypes'
<1>1. Len(LoadSteps) = 8 /\ Len(LoadSteps) + 1 = 9
  BY Steps DEF Last
<1>2. ASSUME NEW n \in Sandboxes
      PROVE  IsTodo(todo[n])' <=>
               (todo[n] = UndoSteps \/ \E i \in 1 .. Len(LoadSteps) + 1 : todo[n] = SubSeq(LoadSteps, i, Len(LoadSteps)))'
  BY <1>1 DEF IsTodo, Left, Last
<1> QED
  BY <1>2 DEF TypeOK, CallTypes, FileTypes, RestTypes

\* A call moves to another step and keeps its caller only if it goes on.
LEMMA Moves ==
  ASSUME CallTypes, NEW m \in Sandboxes, NEW x, IsTodo(x),
         todo' = [todo EXCEPT ![m] = x], hung' \subseteq hung, m \in hung' => x # <<>>
  PROVE  CallTypes'
BY DEF CallTypes, IsTodo

\* Faults are counted up to their bound.
LEMMA FaultsTyped ==
  ASSUME RestTypes, faults' = faults \/ Fault
  PROVE  faults' \in 0 .. MaxFaults
BY GVisorConstants DEF Fault, RestTypes

\* The step of m leaves a Sandbox alone that it does not name, in its files and,
\* since Slots are held one at a time, in its namespace.
LEMMA Others ==
  ASSUME GVisorInv, NEW m \in Sandboxes, NEW n \in Sandboxes, m # n,
         netns' = netns \/ (Holds(m) /\ \E x : netns' = [netns EXCEPT ![SlotOf[m]] = x]),
         slot'[n] = slot[n], todo'[n] = todo[n], mounts'[n] = mounts[n],
         n \in ref' <=> n \in ref, n \in root' <=> n \in root,
         n \in listed' <=> n \in listed, n \in netinfo' <=> n \in netinfo
  PROVE  SandboxInv(n)'
<1>1. Holds(n) => netns'[SlotOf[n]] = netns[SlotOf[n]]
  <2>1. SlotOf[n] \in Slots /\ DOMAIN netns = Slots
    BY DEF GVisorInv, TypeOK, Slots
  <2>2. Holds(n) /\ Holds(m) => SlotOf[n] # SlotOf[m]
    BY DEF GVisorInv, Holders
  <2> QED
    BY <2>1, <2>2
<1>2. SandboxInv(n)
  BY DEF GVisorInv
<1>3. \A i \in 1 .. Last : todo[n] = Left(i) => InCall(n)
  BY Steps, Suffixes DEF InCall
<1> QED
  BY <1>1, <1>2, <1>3 DEF SandboxInv, InCall, Holds, Progress

-----------------------------------------------------------------------------
(* One lemma per action: it preserves GVisorInv.                            *)

\* Initially there is nothing.
LEMMA InitInv == Init => GVisorInv
<1> SUFFICES ASSUME Init PROVE GVisorInv
  OBVIOUS
<1>1. \A n \in Sandboxes : todo[n] = Left(9) /\ todo[n] = <<>>
  BY Suffixes DEF Init
<1>2. TypeOK
  <2>1. CallTypes
    BY <1>1 DEF CallTypes, IsTodo, Init
  <2>2. FileTypes /\ RestTypes
    BY GVisorConstants DEF FileTypes, RestTypes, Init
  <2> QED
    BY <2>1, <2>2, Types
<1>3. Holders
  BY DEF Init, Holders, Holds
<1>4. ASSUME NEW n \in Sandboxes PROVE SandboxInv(n)
  <2>1. \A i \in 1 .. Last : todo[n] # Left(i)
    BY <1>1, Steps, Suffixes
  <2> QED
    BY <1>1, <2>1 DEF SandboxInv, Init, InCall
<1> QED
  BY <1>2, <1>3, <1>4 DEF GVisorInv

\* A Slot is reserved only when nobody holds it.
LEMMA ReserveKeeps ==
  ASSUME GVisorInv, NEW m \in Sandboxes, ReserveSlot(m)
  PROVE  GVisorInv'
<1>1. TypeOK'
  BY DEF GVisorInv, TypeOK, ReserveSlot, fileVars
<1>2. Holders'
  BY DEF GVisorInv, TypeOK, ReserveSlot, Holders, Holds
<1>3. SandboxInv(m)'
  <2>1. SandboxInv(m) /\ slot' = [slot EXCEPT ![m] = "held"] /\ slot[m] = "new" /\ m \notin ref
        /\ slot \in [Sandboxes -> {"new", "held", "failed", "gone"}]
    BY DEF GVisorInv, TypeOK, ReserveSlot, SandboxInv, Holds
  <2> QED
    BY <2>1, Suffixes, Steps DEF ReserveSlot, SandboxInv, Holds, InCall, Progress, fileVars
<1>4. ASSUME NEW n \in Sandboxes, n # m PROVE SandboxInv(n)'
  BY <1>4, Others DEF ReserveSlot, fileVars, GVisorInv, TypeOK
<1> QED
  BY <1>1, <1>2, <1>3, <1>4 DEF GVisorInv

\* A release deletes what the Sandbox has, or fails the Slot.
LEMMA ReleaseKeeps ==
  ASSUME GVisorInv, NEW m \in Sandboxes, ReleaseSlot(m)
  PROVE  GVisorInv'
<1>1. TypeOK'
  <2>1. CallTypes'
    BY Types DEF GVisorInv, ReleaseSlot, CallTypes, IsTodo
  <2>2. FileTypes'
    <3>0. FileTypes
      BY Types DEF GVisorInv
    <3>1. CASE m \notin ref
      BY <3>0, <3>1 DEF ReleaseSlot, FileTypes, fileVars
    <3>2. CASE m \in ref
      <4>1. \E works \in BOOLEAN : DeleteRestored(m, works)
        BY <3>2 DEF ReleaseSlot
      <4>2. made' \in [Sandboxes -> SUBSET Containers]
        BY <3>0, <4>1 DEF DeleteRestored, MayLeave, FileTypes
      <4>3. netns' \in [Slots -> Sandboxes \cup {Null}]
        BY <3>0, <4>1 DEF DeleteRestored, MayLeave, NetworkDeleted, FileTypes
      <4> QED
        BY <3>0, <4>1, <4>2, <4>3 DEF DeleteRestored, RemoveRoot, FileTypes
    <3> QED
      BY <3>1, <3>2
  <2>3. RestTypes'
    <3>1. RestTypes
      BY Types DEF GVisorInv
    <3>2. faults' = faults \/ Fault
      BY DEF ReleaseSlot, DeleteRestored
    <3>3. faults' \in 0 .. MaxFaults
      BY <3>1, <3>2, FaultsTyped
    <3>4. slot' \in [Sandboxes -> {"new", "held", "failed", "gone"}] /\ ref' \subseteq Sandboxes
      BY <3>1 DEF ReleaseSlot, RestTypes
    <3> QED
      BY <3>1, <3>3, <3>4 DEF ReleaseSlot, RestTypes
  <2> QED
    BY <2>1, <2>2, <2>3, TypesNext
<1>2. Holders'
  BY DEF GVisorInv, TypeOK, ReleaseSlot, Holders, Holds
<1>3. SandboxInv(m)'
  <2>1. SandboxInv(m) /\ TypeOK
    BY DEF GVisorInv
  <2>2. todo'[m] = todo[m] /\ \A i \in 1 .. Last : todo[m] # Left(i)
    BY Suffixes, Steps DEF ReleaseSlot, InCall
  <2>3. CASE m \in ref
    BY <2>1, <2>2, <2>3 DEF ReleaseSlot, DeleteRestored, RemoveRoot, SandboxInv, Holds, InCall, TypeOK
  <2>4. CASE m \notin ref
    BY <2>1, <2>2, <2>4 DEF ReleaseSlot, SandboxInv, Holds, InCall, TypeOK, fileVars
  <2> QED
    BY <2>3, <2>4
<1>4. ASSUME NEW n \in Sandboxes, n # m PROVE SandboxInv(n)'
  <2>1. Holds(m)
    BY DEF ReleaseSlot, Holds
  <2>2. netns' = netns \/ \E x : netns' = [netns EXCEPT ![SlotOf[m]] = x]
    BY DEF ReleaseSlot, DeleteRestored, MayLeave, NetworkDeleted
  <2>3. /\ slot'[n] = slot[n] /\ todo'[n] = todo[n] /\ mounts'[n] = mounts[n]
        /\ (n \in ref' <=> n \in ref) /\ (n \in root' <=> n \in root)
        /\ (n \in listed' <=> n \in listed) /\ (n \in netinfo' <=> n \in netinfo)
    BY <1>4 DEF ReleaseSlot, DeleteRestored, RemoveRoot, GVisorInv, TypeOK, fileVars
  <2> QED
    BY <1>4, <2>1, <2>2, <2>3, Others
<1> QED
  BY <1>1, <1>2, <1>3, <1>4 DEF GVisorInv

\* A checkpoint changes nothing of the Sandbox.
LEMMA SaveKeeps ==
  ASSUME GVisorInv, NEW m \in Sandboxes, SaveSnapshot(m)
  PROVE  GVisorInv'
<1>1. UNCHANGED <<slot, ref, todo, hung, root, listed, mounts, netinfo, made, netns, faults>>
      /\ saved' \subseteq Sandboxes
  BY DEF SaveSnapshot, slotVars, fileVars, GVisorInv, TypeOK
<1>2. TypeOK'
  BY <1>1 DEF GVisorInv, TypeOK
<1> QED
  BY <1>1, <1>2 DEF GVisorInv, Holders, Holds, SandboxInv, InCall, Progress

\* A container that dies leaves its files, its namespace and its call.
LEMMA DiesKeeps ==
  ASSUME GVisorInv, NEW m \in Sandboxes, SandboxDies(m)
  PROVE  GVisorInv'
<1>1. UNCHANGED <<slot, ref, todo, hung, root, listed, mounts, netinfo, netns, saved>>
      /\ made' \in [Sandboxes -> SUBSET Containers] /\ faults' \in 0 .. MaxFaults
  BY GVisorConstants DEF SandboxDies, Fault, slotVars, fileVars, GVisorInv, TypeOK
<1>2. TypeOK'
  BY <1>1 DEF GVisorInv, TypeOK
<1> QED
  BY <1>1, <1>2 DEF GVisorInv, Holders, Holds, SandboxInv, InCall, Progress

\* A caller that hangs up changes only what the commands of its call can do.
LEMMA HangUpKeeps ==
  ASSUME GVisorInv, NEW m \in Sandboxes, HangUp(m)
  PROVE  GVisorInv'
<1>1. UNCHANGED <<slot, ref, todo, root, listed, mounts, made, netinfo, netns, saved>>
      /\ hung' \subseteq {n \in Sandboxes : todo[n] # <<>>} /\ faults' \in 0 .. MaxFaults
  BY GVisorConstants DEF HangUp, InCall, Fault, slotVars, fileVars, GVisorInv, TypeOK
<1>2. TypeOK'
  BY <1>1 DEF GVisorInv, TypeOK
<1> QED
  BY <1>1, <1>2 DEF GVisorInv, Holders, Holds, SandboxInv, InCall, Progress

\* A restore begins with an empty root: what the name left before is removed.
LEMMA LoadKeeps ==
  ASSUME GVisorInv, NEW m \in Sandboxes, LoadSnapshot(m)
  PROVE  GVisorInv'
<1>0. /\ CallTypes /\ FileTypes /\ RestTypes /\ SandboxInv(m)
      /\ UNCHANGED <<slot, ref, hung, made, mounts, netns, saved>>
      /\ slot[m] = "held" /\ m \notin ref /\ ~InCall(m)
  BY Types DEF GVisorInv, LoadSnapshot, slotVars
<1>a. todo' = todo \/ todo' = [todo EXCEPT ![m] = Left(1)]
  BY Suffixes DEF LoadSnapshot
<1>1. TypeOK'
  <2>1. CallTypes'
    <3>1. CASE todo' = todo
      BY <1>0, <3>1 DEF CallTypes
    <3>2. CASE todo' = [todo EXCEPT ![m] = Left(1)]
      <4>1. IsTodo(Left(1)) /\ Left(1) # <<>>
        BY Suffixes DEF IsTodo
      <4> QED
        BY <1>0, <3>2, <4>1, Moves
    <3> QED
      BY <1>a, <3>1, <3>2
  <2>2. FileTypes'
    BY <1>0 DEF LoadSnapshot, FileTypes
  <2>3. RestTypes'
    BY <1>0, FaultsTyped DEF LoadSnapshot, RestTypes
  <2> QED
    BY <2>1, <2>2, <2>3, TypesNext
<1>2. Holders'
  BY <1>0 DEF GVisorInv, Holders, Holds
<1>3. SandboxInv(m)'
  <2>0. m \notin root /\ m \notin netinfo /\ mounts[m] = {}
    BY <1>0 DEF SandboxInv
  <2>1. CASE root' = root \cup {m} /\ todo' = [todo EXCEPT ![m] = LoadSteps]
    <3>1. todo'[m] = Left(1) /\ \A i \in 1 .. Last : todo'[m] = Left(i) => i = 1
      BY <2>1, <1>0, Suffixes, Steps DEF CallTypes
    <3>2. todo'[m] # <<>>
      BY <3>1, Suffixes
    <3>3. Progress(m, 1)'
      BY <2>0, <2>1, <1>0 DEF LoadSnapshot, Progress
    <3> QED
      BY <1>0, <3>1, <3>2, <3>3 DEF SandboxInv, InCall, Holds
  <2>2. CASE root' = root \ {m} /\ UNCHANGED todo
    BY <2>0, <2>2, <1>0, Suffixes, Steps DEF LoadSnapshot, SandboxInv, InCall, Holds
  <2> QED
    BY <2>1, <2>2 DEF LoadSnapshot
<1>4. ASSUME NEW n \in Sandboxes, n # m PROVE SandboxInv(n)'
  BY <1>4, <1>0, Others DEF LoadSnapshot, CallTypes
<1> QED
  BY <1>1, <1>2, <1>3, <1>4 DEF GVisorInv

-----------------------------------------------------------------------------
(* The steps of LoadSnapshot.                                               *)

\* How a step of a call ends, seen from its own and from the other Sandboxes.
LEMMA CallEnds ==
  ASSUME CallTypes, RestTypes, NEW m \in Sandboxes
  PROVE  /\ \A k \in 1 .. 8 : todo[m] = Left(k) /\ Advance(m) =>
              CallTypes' /\ todo'[m] = Left(k + 1) /\ faults' = faults
         /\ Fails(m) => CallTypes' /\ todo'[m] = UndoSteps /\ faults' \in 0 .. MaxFaults
         /\ Return(m) => CallTypes' /\ todo'[m] = <<>>
         /\ Advance(m) \/ Fails(m) \/ Return(m) =>
              \A n \in Sandboxes : n # m => todo'[n] = todo[n]
<1>1. ASSUME NEW k \in 1 .. 8, todo[m] = Left(k), Advance(m)
      PROVE  CallTypes' /\ todo'[m] = Left(k + 1) /\ faults' = faults
  <2>1. todo' = [todo EXCEPT ![m] = Left(k + 1)] /\ m \notin hung' /\ hung' = hung
    BY <1>1, Suffixes DEF Advance
  <2>2. IsTodo(Left(k + 1))
    BY DEF IsTodo
  <2>3. CallTypes'
    BY <2>1, <2>2, Moves
  <2> QED
    BY <1>1, <2>1, <2>3 DEF CallTypes, Advance
<1>2. ASSUME Fails(m)
      PROVE  CallTypes' /\ todo'[m] = UndoSteps /\ faults' \in 0 .. MaxFaults
  <2>1. todo' = [todo EXCEPT ![m] = UndoSteps] /\ hung' = hung /\ (faults' = faults \/ Fault)
    BY <1>2 DEF Fails, CommandFails
  <2>2. IsTodo(UndoSteps) /\ UndoSteps # <<>>
    BY Undo DEF IsTodo
  <2>3. CallTypes'
    BY <2>1, <2>2, Moves
  <2> QED
    BY <2>1, <2>3, FaultsTyped DEF CallTypes
<1>3. ASSUME Return(m)
      PROVE  CallTypes' /\ todo'[m] = <<>>
  <2>1. todo' = [todo EXCEPT ![m] = <<>>] /\ m \notin hung' /\ hung' \subseteq hung
    BY <1>3 DEF Return
  <2>2. IsTodo(<<>>)
    BY Suffixes DEF IsTodo
  <2>3. CallTypes'
    BY <2>1, <2>2, Moves
  <2> QED
    BY <2>1, <2>3 DEF CallTypes
<1>4. Advance(m) \/ Fails(m) \/ Return(m) => \A n \in Sandboxes : n # m => todo'[n] = todo[n]
  BY DEF CallTypes, Advance, Fails, Return
<1> QED
  BY <1>1, <1>2, <1>3, <1>4

\* What an own step of a call has to show of its Sandbox: the call goes on and
\* the next step finds what it needs, or is to be undone, or is over and has
\* left either a whole Sandbox or nothing.
LEMMA OwnStep ==
  ASSUME NEW m \in Sandboxes, slot'[m] = "held",
         \/ m \notin ref' /\ \E k \in 1 .. 8 : todo'[m] = Left(k) /\ Progress(m, k)'
         \/ m \notin ref' /\ todo'[m] = UndoSteps
         \/ /\ todo'[m] = <<>> /\ m \notin ref'
            /\ m \notin root' /\ m \notin netinfo' /\ mounts'[m] = {}
         \/ /\ todo'[m] = <<>> /\ m \in ref'
            /\ netns'[SlotOf[m]] = m /\ m \in netinfo'
            /\ m \in listed' /\ mounts'[m] = Containers
  PROVE  SandboxInv(m)'
<1>1. CASE m \notin ref' /\ \E k \in 1 .. 8 : todo'[m] = Left(k) /\ Progress(m, k)'
  <2>1. PICK k \in 1 .. 8 : todo'[m] = Left(k) /\ Progress(m, k)'
    BY <1>1
  <2>2. todo'[m] # <<>> /\ \A i \in 1 .. 8 : todo'[m] = Left(i) => i = k
    <3>1. todo'[m] # <<>>
      BY <2>1, Suffixes
    <3>2. \A i \in 1 .. 8 : i \in 1 .. 9
      OBVIOUS
    <3> QED
      BY <2>1, <3>1, <3>2, Suffixes
  <2>3. \A i \in 1 .. 8 : todo'[m] = Left(i) => Progress(m, i)'
    BY <2>1, <2>2
  <2> QED
    BY <1>1, <2>2, <2>3, Steps DEF SandboxInv, InCall
<1>2. CASE m \notin ref' /\ todo'[m] = UndoSteps
  BY <1>2, Undo, Steps DEF SandboxInv, InCall
<1>3. CASE todo'[m] = <<>>
  <2>1. \A i \in 1 .. Last : todo'[m] # Left(i)
    BY <1>3, Suffixes, Steps
  <2>2. todo'[m] # UndoSteps
    BY <1>3, Undo
  <2>3. CASE m \in ref'
    BY <1>3, <2>1, <2>2, <2>3, Undo, Steps DEF SandboxInv, InCall, Holds
  <2>4. CASE m \notin ref'
    BY <1>3, <2>1, <2>2, <2>4, Undo, Steps DEF SandboxInv, InCall, Holds
  <2> QED
    BY <2>3, <2>4
<1> QED
  BY <1>1, <1>2, <1>3

\* The namespace is made for this Sandbox, or taken back with the root.
LEMMA NetworkKeeps ==
  ASSUME GVisorInv, NEW m \in Sandboxes, CreateRestoreNetwork(m)
  PROVE  GVisorInv'
<1>0. /\ TypeOK /\ CallTypes /\ FileTypes /\ RestTypes /\ SandboxInv(m)
      /\ UNCHANGED <<slot, ref, made, mounts, saved>>
  BY Types DEF GVisorInv, CreateRestoreNetwork, slotVars
<1>a. /\ todo[m] = Left(1) /\ Progress(m, 1)
      /\ slot[m] = "held" /\ m \notin ref
  BY <1>0, StepPosition, Steps DEF CreateRestoreNetwork, SandboxInv, Step
<1>b. SlotOf[m] \in Slots
  BY DEF Slots
<1>c. netns' = netns \/ \E x \in Sandboxes \cup {Null} : netns' = [netns EXCEPT ![SlotOf[m]] = x]
  BY DEF CreateRestoreNetwork, NetworkDeleted
<1>1. TypeOK'
  <2>1. CallTypes' /\ faults' \in 0 .. MaxFaults
    BY <1>0, <1>a, CallEnds, FaultsTyped DEF CreateRestoreNetwork, CommandFails, RestTypes
  <2>2. FileTypes'
    <3>1. netns' \in [Slots -> Sandboxes \cup {Null}]
      BY <1>0, <1>c DEF FileTypes
    <3> QED
      BY <1>0, <3>1 DEF CreateRestoreNetwork, RemoveRoot, FileTypes
  <2>3. RestTypes'
    BY <1>0, <2>1 DEF RestTypes
  <2> QED
    BY <2>1, <2>2, <2>3, TypesNext
<1>2. Holders'
  BY <1>0 DEF GVisorInv, Holders, Holds
<1>3. SandboxInv(m)'
  <2>1. CASE /\ Advance(m)
             /\ netns' = [netns EXCEPT ![SlotOf[m]] = m]
             /\ netinfo' = netinfo \cup {m}
             /\ UNCHANGED <<root, listed>>
    <3>1. todo'[m] = Left(2) /\ 2 \in 1 .. 8
      BY <1>0, <1>a, <2>1, CallEnds
    <3>2. Progress(m, 2)'
      BY <1>0, <1>a, <1>b, <2>1 DEF Progress, FileTypes
    <3> QED
      BY <1>0, <1>a, <3>1, <3>2, OwnStep
  <2>2. CASE CommandFails(m) /\ RemoveRoot(m) /\ Return(m) /\ UNCHANGED netinfo
    <3>1. todo'[m] = <<>>
      BY <1>0, <2>2, CallEnds
    <3>2. m \notin root' /\ m \notin netinfo' /\ mounts'[m] = {}
      BY <1>0, <1>a, <2>2 DEF RemoveRoot, Progress
    <3> QED
      BY <1>0, <1>a, <3>1, <3>2, OwnStep
  <2> QED
    BY <2>1, <2>2 DEF CreateRestoreNetwork
<1>4. ASSUME NEW n \in Sandboxes, n # m PROVE SandboxInv(n)'
  <2>1. todo'[n] = todo[n]
    BY <1>0, <1>4, CallEnds DEF CreateRestoreNetwork
  <2>2. (n \in root' <=> n \in root) /\ (n \in listed' <=> n \in listed) /\ (n \in netinfo' <=> n \in netinfo)
    BY <1>4 DEF CreateRestoreNetwork, RemoveRoot
  <2> QED
    BY <1>0, <1>a, <1>c, <1>4, <2>1, <2>2, Others DEF Holds
<1> QED
  BY <1>1, <1>2, <1>3, <1>4 DEF GVisorInv

\* A bundle is mounted, or its mount is left to the undoing.
LEMMA BundleKeeps ==
  ASSUME GVisorInv, NEW m \in Sandboxes, NEW c \in Containers, WriteBundle(m, c)
  PROVE  GVisorInv'
<1>0. /\ TypeOK /\ CallTypes /\ FileTypes /\ RestTypes /\ SandboxInv(m)
      /\ UNCHANGED <<slot, ref, root, listed, netinfo, made, netns, saved>>
  BY Types DEF GVisorInv, WriteBundle, slotVars
<1>a. /\ c = "pause" => todo[m] = Left(2) /\ Progress(m, 2)
      /\ c = "app" => todo[m] = Left(5) /\ Progress(m, 5)
      /\ c = "pause" \/ c = "app"
      /\ slot[m] = "held" /\ m \notin ref
  BY <1>0, StepPosition, Steps DEF WriteBundle, SandboxInv, Step, Containers
<1>b. /\ mounts' = mounts \/ mounts' = [mounts EXCEPT ![m] = @ \cup {c}]
      /\ Advance(m) => mounts' = [mounts EXCEPT ![m] = @ \cup {c}]
      /\ Advance(m) \/ Fails(m)
  <2>1. Advance(m) => ~Fails(m)
    <3>1. Advance(m) => todo'[m] # UndoSteps
      <4>1. Advance(m) => todo'[m] = Left(3) \/ todo'[m] = Left(6)
        BY <1>0, <1>a, CallEnds
      <4> QED
        BY <4>1, Undo
    <3> QED
      BY <1>0, <3>1, CallEnds
  <2> QED
    BY <2>1 DEF WriteBundle
<1>1. TypeOK'
  <2>1. CallTypes' /\ faults' \in 0 .. MaxFaults
    BY <1>0, <1>a, <1>b, CallEnds DEF RestTypes
  <2>2. FileTypes'
    BY <1>0, <1>b DEF FileTypes
  <2>3. RestTypes'
    BY <1>0, <2>1 DEF RestTypes
  <2> QED
    BY <2>1, <2>2, <2>3, TypesNext
<1>2. Holders'
  BY <1>0 DEF GVisorInv, Holders, Holds
<1>3. SandboxInv(m)'
  <2>1. CASE Advance(m)
    <3>0. mounts'[m] = mounts[m] \cup {c}
      BY <2>1, <1>0, <1>b DEF FileTypes
    <3>1. CASE c = "pause"
      <4>1. todo'[m] = Left(3) /\ 3 \in 1 .. 8
        BY <1>0, <1>a, <2>1, <3>1, CallEnds
      <4>2. Progress(m, 3)'
        BY <1>0, <1>a, <3>0, <3>1 DEF Progress
      <4> QED
        BY <1>0, <1>a, <4>1, <4>2, OwnStep
    <3>2. CASE c = "app"
      <4>1. todo'[m] = Left(6) /\ 6 \in 1 .. 8
        BY <1>0, <1>a, <2>1, <3>2, CallEnds
      <4>2. Progress(m, 6)'
        BY <1>0, <1>a, <3>0, <3>2 DEF Progress
      <4> QED
        BY <1>0, <1>a, <4>1, <4>2, OwnStep
    <3> QED
      BY <1>a, <3>1, <3>2
  <2>2. CASE Fails(m)
    BY <1>0, <1>a, <2>2, CallEnds, OwnStep
  <2> QED
    BY <1>b, <2>1, <2>2
<1>4. ASSUME NEW n \in Sandboxes, n # m PROVE SandboxInv(n)'
  <2>1. todo'[n] = todo[n]
    BY <1>0, <1>b, <1>4, CallEnds
  <2>2. mounts'[n] = mounts[n]
    BY <1>0, <1>b, <1>4 DEF FileTypes
  <2> QED
    BY <1>0, <1>4, <2>1, <2>2, Others
<1> QED
  BY <1>1, <1>2, <1>3, <1>4 DEF GVisorInv

\* A step that only runs runsc: its files stay as they are.
LEMMA RunscKeeps ==
  ASSUME GVisorInv, NEW m \in Sandboxes, NEW k \in {3, 4, 6, 7}, todo[m] = Left(k),
         UNCHANGED <<slot, ref, root, listed, netinfo, mounts, netns, saved>>,
         made' \in [Sandboxes -> SUBSET Containers],
         Advance(m) \/ Fails(m)
  PROVE  GVisorInv'
<1>0. /\ TypeOK /\ CallTypes /\ FileTypes /\ RestTypes /\ SandboxInv(m)
      /\ k \in 1 .. 8 /\ k + 1 \in 1 .. 8
  BY Types DEF GVisorInv
<1>a. Progress(m, k) /\ slot[m] = "held" /\ m \notin ref
  BY <1>0, Steps, Suffixes DEF SandboxInv, InCall
<1>1. TypeOK'
  <2>1. CallTypes' /\ faults' \in 0 .. MaxFaults
    BY <1>0, CallEnds DEF RestTypes
  <2>2. FileTypes' /\ RestTypes'
    BY <1>0, <2>1 DEF FileTypes, RestTypes
  <2> QED
    BY <2>1, <2>2, TypesNext
<1>2. Holders'
  BY DEF GVisorInv, Holders, Holds
<1>3. SandboxInv(m)'
  <2>1. CASE Advance(m)
    <3>1. todo'[m] = Left(k + 1)
      BY <1>0, <2>1, CallEnds
    <3>2. Progress(m, k + 1)'
      BY <1>0, <1>a DEF Progress
    <3> QED
      BY <1>0, <1>a, <3>1, <3>2, OwnStep
  <2>2. CASE Fails(m)
    BY <1>0, <1>a, <2>2, CallEnds, OwnStep
  <2> QED
    BY <2>1, <2>2
<1>4. ASSUME NEW n \in Sandboxes, n # m PROVE SandboxInv(n)'
  BY <1>0, <1>4, CallEnds, Others
<1> QED
  BY <1>1, <1>2, <1>3, <1>4 DEF GVisorInv

\* runsc create.
LEMMA CreateKeeps ==
  ASSUME GVisorInv, NEW m \in Sandboxes, NEW c \in Containers, CreateContainer(m, c)
  PROVE  GVisorInv'
<1>1. /\ UNCHANGED <<slot, ref, root, listed, netinfo, mounts, netns, saved>>
      /\ made' \in [Sandboxes -> SUBSET Containers] /\ (Advance(m) \/ Fails(m))
  BY DEF CreateContainer, GVisorInv, TypeOK, slotVars, fileVars
<1>2. todo[m] = Left(3) \/ todo[m] = Left(6)
  BY StepPosition DEF GVisorInv, CreateContainer, Containers
<1> QED
  BY <1>1, <1>2, RunscKeeps

\* runsc restore.
LEMMA RestoreKeeps ==
  ASSUME GVisorInv, NEW m \in Sandboxes, NEW c \in Containers, RestoreContainer(m, c)
  PROVE  GVisorInv'
<1>1. /\ UNCHANGED <<slot, ref, root, listed, netinfo, mounts, netns, saved>>
      /\ made' \in [Sandboxes -> SUBSET Containers] /\ (Advance(m) \/ Fails(m))
  BY DEF RestoreContainer, GVisorInv, TypeOK, slotVars, fileVars
<1>2. todo[m] = Left(4) \/ todo[m] = Left(7)
  BY StepPosition DEF GVisorInv, RestoreContainer, Containers
<1> QED
  BY <1>1, <1>2, RunscKeeps

\* The containers file is written last, when everything else is there.
LEMMA PersistKeeps ==
  ASSUME GVisorInv, NEW m \in Sandboxes, PersistContainers(m)
  PROVE  GVisorInv'
<1>0. /\ TypeOK /\ CallTypes /\ FileTypes /\ RestTypes /\ SandboxInv(m)
      /\ UNCHANGED <<slot, root, netinfo, mounts, made, netns, saved>>
  BY Types DEF GVisorInv, PersistContainers
<1>a. todo[m] = Left(8) /\ Progress(m, 8) /\ slot[m] = "held" /\ m \notin ref
  BY <1>0, StepPosition, Steps DEF PersistContainers, SandboxInv, Step
<1>b. \/ listed' = listed \cup {m} /\ ref' = ref \cup {m} /\ Return(m) /\ UNCHANGED faults
      \/ Fault /\ todo' = [todo EXCEPT ![m] = UndoSteps] /\ UNCHANGED <<hung, listed, ref>>
  BY DEF PersistContainers
<1>c. ASSUME Fault /\ todo' = [todo EXCEPT ![m] = UndoSteps] /\ UNCHANGED <<hung, listed, ref>>
      PROVE  CallTypes' /\ todo'[m] = UndoSteps
  <2>1. IsTodo(UndoSteps) /\ UndoSteps # <<>>
    BY Undo DEF IsTodo
  <2> QED
    BY <1>0, <1>c, <2>1, Moves DEF CallTypes
<1>1. TypeOK'
  <2>1. CallTypes'
    BY <1>0, <1>b, <1>c, CallEnds
  <2>2. FileTypes'
    BY <1>0, <1>a, <1>b DEF FileTypes, Progress
  <2>3. RestTypes'
    BY <1>0, <1>b, FaultsTyped DEF RestTypes
  <2> QED
    BY <2>1, <2>2, <2>3, TypesNext
<1>2. Holders'
  BY <1>0 DEF GVisorInv, Holders, Holds
<1>3. SandboxInv(m)'
  <2>1. CASE listed' = listed \cup {m} /\ ref' = ref \cup {m} /\ Return(m)
    <3>1. todo'[m] = <<>>
      BY <1>0, <2>1, CallEnds
    <3>2. mounts'[m] = Containers
      BY <1>0, <1>a DEF Progress, FileTypes, Containers
    <3> QED
      BY <1>0, <1>a, <2>1, <3>1, <3>2, OwnStep DEF Progress
  <2>2. CASE Fault /\ todo' = [todo EXCEPT ![m] = UndoSteps] /\ UNCHANGED <<hung, listed, ref>>
    BY <1>0, <1>a, <1>c, <2>2, OwnStep
  <2> QED
    BY <1>b, <2>1, <2>2
<1>4. ASSUME NEW n \in Sandboxes, n # m PROVE SandboxInv(n)'
  <2>1. todo'[n] = todo[n]
    BY <1>0, <1>b, <1>4 DEF Return, CallTypes
  <2> QED
    BY <1>0, <1>b, <1>4, <2>1, Others
<1> QED
  BY <1>1, <1>2, <1>3, <1>4 DEF GVisorInv

\* The undoing removes every file, whatever its commands do.
LEMMA CleanupKeeps ==
  ASSUME GVisorInv, NEW m \in Sandboxes, CleanupFailed(m)
  PROVE  GVisorInv'
<1>0. /\ TypeOK /\ CallTypes /\ FileTypes /\ RestTypes /\ SandboxInv(m)
      /\ UNCHANGED <<slot, ref, saved>> /\ Return(m) /\ RemoveRoot(m)
      /\ mounts' = [mounts EXCEPT ![m] = {}] /\ netinfo' = netinfo \ {m}
  BY Types DEF GVisorInv, CleanupFailed, slotVars
<1>a. slot[m] = "held" /\ m \notin ref
  BY <1>0 DEF CleanupFailed, SandboxInv, Step
<1>b. netns' = netns \/ netns' = NetworkDeleted(m)
  BY DEF CleanupFailed, MayLeave
<1>1. TypeOK'
  <2>1. CallTypes'
    BY <1>0, CallEnds
  <2>2. FileTypes'
    <3>1. made' \in [Sandboxes -> SUBSET Containers]
      BY <1>0 DEF CleanupFailed, MayLeave, FileTypes
    <3>2. netns' \in [Slots -> Sandboxes \cup {Null}]
      BY <1>0, <1>b DEF NetworkDeleted, FileTypes
    <3> QED
      BY <1>0, <3>1, <3>2 DEF RemoveRoot, FileTypes
  <2>3. RestTypes'
    <3>1. faults' = faults \/ Fault
      BY DEF CleanupFailed, CommandFails
    <3> QED
      BY <1>0, <3>1, FaultsTyped DEF RestTypes
  <2> QED
    BY <2>1, <2>2, <2>3, TypesNext
<1>2. Holders'
  BY <1>0 DEF GVisorInv, Holders, Holds
<1>3. SandboxInv(m)'
  <2>1. todo'[m] = <<>>
    BY <1>0, CallEnds
  <2>2. m \notin root' /\ m \notin netinfo' /\ mounts'[m] = {}
    BY <1>0 DEF RemoveRoot, FileTypes
  <2> QED
    BY <1>0, <1>a, <2>1, <2>2, OwnStep
<1>4. ASSUME NEW n \in Sandboxes, n # m PROVE SandboxInv(n)'
  <2>1. todo'[n] = todo[n]
    BY <1>0, <1>4, CallEnds
  <2>2. (n \in root' <=> n \in root) /\ (n \in listed' <=> n \in listed) /\ mounts'[n] = mounts[n]
    BY <1>0, <1>4 DEF RemoveRoot, FileTypes
  <2> QED
    BY <1>0, <1>a, <1>b, <1>4, <2>1, <2>2, Others DEF Holds, NetworkDeleted
<1> QED
  BY <1>1, <1>2, <1>3, <1>4 DEF GVisorInv

\* Every step preserves the invariant.
LEMMA NextKeeps ==
  ASSUME GVisorInv, [Next]_vars
  PROVE  GVisorInv'
<1>1. CASE UNCHANGED vars
  <2>1. UNCHANGED <<slot, ref, todo, hung, root, listed, mounts, netinfo, made, netns, saved, faults>>
    BY <1>1 DEF vars, slotVars, fileVars
  <2> QED
    BY <2>1 DEF GVisorInv, TypeOK, Holders, Holds, SandboxInv, InCall, Progress
<1>2. CASE Next
  BY <1>2, ReserveKeeps, ReleaseKeeps, SaveKeeps, LoadKeeps, HangUpKeeps, DiesKeeps,
     NetworkKeeps, BundleKeeps, CreateKeeps, RestoreKeeps, PersistKeeps, CleanupKeeps DEF Next, CallStep
<1> QED
  BY <1>1, <1>2

\* The inductive invariant holds in every reachable state.
LEMMA Invariance == Spec => []GVisorInv
<1>1. GVisorInv /\ [Next]_vars => GVisorInv'
  BY NextKeeps
<1> QED
  BY <1>1, InitInv, PTL DEF Spec

-----------------------------------------------------------------------------
(* The theorems.                                                            *)

\* However often a restore failed, was abandoned or was deleted with errors in
\* its Slot before, a restored Sandbox that holds its Slot has its namespace,
\* its root, its containers file and its mounts.
THEOREM RestoredSandboxesAreWhole == Spec => []RestoredIsWhole
<1>1. GVisorInv => RestoredIsWhole
  BY DEF GVisorInv, SandboxInv, RestoredIsWhole, Present
<1> QED
  BY <1>1, Invariance, PTL

\* LoadSnapshot's clean-up and DeleteRestored leave no root, mount or file of a
\* Sandbox, whichever of their commands failed.
THEOREM FilesDoNotOutlive == Spec => []NoFilesOutlive
<1>1. GVisorInv => NoFilesOutlive
  BY DEF GVisorInv, SandboxInv, NoFilesOutlive
<1> QED
  BY <1>1, Invariance, PTL

\* Only its own calls take the namespace from under a Sandbox that is restored
\* or being restored, though namespaces are deleted by the Slot's name.
THEOREM NamespacesAreKept == Spec => NetworkLeavesByOwnCall
<1>1. ASSUME GVisorInv, [Next]_vars, NEW n \in Sandboxes,
             netns[SlotOf[n]] = n, netns'[SlotOf[n]] # n, Present(n) \/ InCall(n)
      PROVE  todo[n] # todo'[n] \/ slot[n] # slot'[n]
  <2>0. Holds(n) /\ SlotOf[n] \in Slots /\ TypeOK /\ SandboxInv(n)
    BY <1>1 DEF Present, GVisorInv, SandboxInv, Holds, Slots
  <2>1. netns' # netns
    BY <1>1
  <2>2. PICK m \in Sandboxes : ReleaseSlot(m) \/ CreateRestoreNetwork(m) \/ CleanupFailed(m)
    BY <1>1, <2>1 DEF Next, CallStep, vars, slotVars, fileVars, ReserveSlot, SaveSnapshot, LoadSnapshot,
                      HangUp, SandboxDies, WriteBundle, CreateContainer, RestoreContainer, PersistContainers
  <2>3. Holds(m)
    <3>1. CASE ReleaseSlot(m)
      BY <3>1 DEF ReleaseSlot, Holds
    <3>2. CASE CreateRestoreNetwork(m) \/ CleanupFailed(m)
      BY <1>1, <3>2 DEF CreateRestoreNetwork, CleanupFailed, Step, Holds, GVisorInv, SandboxInv
    <3> QED
      BY <2>2, <3>1, <3>2
  <2>4. \E x : netns' = [netns EXCEPT ![SlotOf[m]] = x]
    BY <2>1, <2>2 DEF ReleaseSlot, DeleteRestored, MayLeave, CreateRestoreNetwork, CleanupFailed, NetworkDeleted
  <2>5. SlotOf[m] = SlotOf[n]
    BY <1>1, <2>0, <2>4 DEF TypeOK
  <2>6. m = n
    BY <1>1, <2>0, <2>3, <2>5 DEF GVisorInv, Holders
  <2>7. CASE ReleaseSlot(n)
    BY <1>1, <2>0, <2>7 DEF ReleaseSlot, Present, TypeOK
  <2>8. CASE CreateRestoreNetwork(n)
    <3>1. CallTypes /\ RestTypes
      BY <2>0, Types
    <3>2. todo[n] = Left(1) /\ 1 \in 1 .. 8 /\ 2 \in 1 .. 9 /\ 1 \in 1 .. 9
      BY <2>0, <2>8, StepPosition DEF CreateRestoreNetwork
    <3>3. todo'[n] = Left(2) \/ todo'[n] = <<>>
      BY <2>8, <3>1, <3>2, CallEnds DEF CreateRestoreNetwork
    <3>4. Left(1) # <<>>
      BY <3>2, Suffixes
    <3>5. Left(1) # Left(2)
      BY <3>2, Suffixes
    <3> QED
      BY <3>2, <3>3, <3>4, <3>5
  <2>9. CASE CleanupFailed(n)
    <3>1. CallTypes /\ RestTypes
      BY <2>0, Types
    <3> QED
      BY <2>9, <3>1, CallEnds DEF CleanupFailed, Step, InCall
  <2> QED
    BY <2>2, <2>6, <2>7, <2>8, <2>9
<1>2. GVisorInv /\ [Next]_vars =>
        [\A n \in Sandboxes : netns[SlotOf[n]] = n /\ netns'[SlotOf[n]] # n /\ (Present(n) \/ InCall(n)) =>
           todo[n] # todo'[n] \/ slot[n] # slot'[n]]_vars
  BY <1>1
<1> QED
  BY <1>2, Invariance, PTL DEF Spec, NetworkLeavesByOwnCall
=============================================================================
