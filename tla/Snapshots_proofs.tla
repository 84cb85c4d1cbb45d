--------------------------- MODULE Snapshots_proofs ---------------------------
(***************************************************************************)
(* A snapshot that is Ready is whole, and so is what a child starts from,   *)
(* for any set of files, any number of children, saves and failing calls.   *)
(*                                                                         *)
(* The store has no transactions, so the argument is about who may write to *)
(* it and when.  Two actors do: the Worker's call, which may go on after    *)
(* its caller gave up, and the reconciler's clean-up.  While the reconciler *)
(* waits for the call (CallShape) only the call writes, and what it has     *)
(* uploaded is all of the latest save (Uploaded).  Once Ready is written,   *)
(* or a child has begun to load, no call is running, none can be started    *)
(* and what is left to happen is erasing (ReadySettled): a child finds each *)
(* file of the one save, or none.                                           *)
(*                                                                         *)
(* That a deleted snapshot leaves nothing behind has a smaller invariant of *)
(* its own (EraseInv), which does not need current copies.                  *)
(***************************************************************************)
EXTENDS Snapshots, TLAPS

\* A copy marked fresh is the object itself.
CopyCurrent == fresh => cache = snap

\* Before Fork creates the snapshot there is nothing to reconcile.
ForkFirst == fork = "waitParent" => snap = Null /\ cache = Null /\ rec.pc = "idle"

\* A recorded path comes with Ready, under the finalizer.
PathIsReady == snap # Null /\ snap.path => snap.finalizer /\ snap.phase = "Ready"

Creating == {"call", "saving", "wipe", "ready", "fail", "pending", "retry"}
Deleting == {"erase", "finish"}

\* The object the Reconcile call works on.
RecShape ==
  /\ rec.pc # "idle" => rec.obj \in Snapshot /\ (rec.current => snap = rec.obj)
  /\ rec.pc \in Creating => rec.obj.finalizer /\ ~rec.obj.deleted /\ ~rec.obj.path
  /\ rec.pc \in Deleting => snap # Null /\ snap.deleted
  /\ rec.pc \in {"call", "retry"} => rec.obj.phase # "Ready"
  /\ rec.pc = "erase" => snap.phase = "Ready"

\* A call is attended exactly while the reconciler waits for it.
CallShape ==
  /\ call.attended <=> rec.pc = "saving"
  /\ call.attended => call.pc # "none"

\* What an attended call has uploaded is there.
Uploaded ==
  call.attended /\ call.pc \in {"upload", "done"} =>
    /\ saves # 0 /\ \A o \in Objects \ call.todo : store[o] = saves
    /\ call.pc = "done" => call.todo = {}

Complete == saves # 0 /\ \A o \in Objects : store[o] = saves

ReadyStored ==
  /\ rec.pc = "ready" => call.pc = "none" /\ Complete
  /\ snap # Null /\ snap.phase = "Ready" /\ ~snap.deleted => Complete

\* No more saves: each object is of the latest one or gone.
Settled ==
  /\ fork # "waitParent" /\ (snap = Null \/ snap.phase = "Ready")
  /\ call.pc = "none" /\ rec.pc \in {"idle", "erase", "finish"}
  /\ \A o \in Objects : store[o] \in {0, saves}

Loading(c) == kids[c] # Null /\ kids[c].pc = "loading"

ReadySettled ==
  \/ snap # Null /\ snap.phase = "Ready"
  \/ cache # Null /\ cache.phase = "Ready"
  \/ \E c \in Children : Loading(c)
  => Settled

\* What a child has downloaded so far is of the latest save.
LoadingLatest ==
  \A c \in Children : Loading(c) =>
    /\ saves # 0 /\ kids[c].got[Manifest] = saves
    /\ \A o \in Objects : kids[c].got[o] \in {0, saves}

SnapshotsInv ==
  /\ TypeOK
  /\ CopyCurrent /\ ForkFirst /\ PathIsReady
  /\ RecShape /\ CallShape /\ Uploaded
  /\ ReadyStored /\ ReadySettled
  /\ LoadingLatest /\ ChildFromOneSave

-----------------------------------------------------------------------------
(* Types.                                                                  *)

LEMMA FaultType == TypeOK /\ Fault => faults' \in 0..MaxFaults /\ faults' # 0
BY SnapshotConstants DEF TypeOK, Fault

LEMMA ConstantTypes ==
  /\ NewSnapshot \in Snapshot /\ NoCall \in Call /\ Idle \in Reconcile /\ Empty \in [Objects -> Version]
  /\ Manifest \in Objects /\ Manifest \notin Files /\ \A f \in Files : f \in Objects
  /\ NewSnapshot.phase = "" /\ ~NewSnapshot.path
  /\ NoCall.pc = "none" /\ ~NoCall.attended /\ Idle.pc = "idle"
  /\ \A o \in Objects : Empty[o] = 0
  /\ Null \notin Snapshot
<1>1. 0 \in Version
  BY SnapshotConstants DEF Version
<1>2. Empty \in [Objects -> Version] /\ \A o \in Objects : Empty[o] = 0
  BY <1>1 DEF Empty
<1>3. /\ Manifest \in Objects /\ Manifest \notin Files /\ \A f \in Files : f \in Objects
      /\ Null \notin Snapshot
  BY SnapshotConstants DEF Objects, Manifest
<1>4. NewSnapshot \in Snapshot /\ NewSnapshot.phase = "" /\ ~NewSnapshot.path
  BY DEF NewSnapshot, Snapshot
<1>5. NoCall \in Call /\ NoCall.pc = "none" /\ ~NoCall.attended
  BY DEF NoCall, Call
<1>6. Idle \in Reconcile /\ Idle.pc = "idle"
  BY DEF Idle, Reconcile
<1> QED
  BY <1>2, <1>3, <1>4, <1>5, <1>6

\* The Reconcile call that begins with pc on obj.
LEMMA ReconcilingType ==
  ASSUME TypeOK, NEW pc \in {"call", "fail", "pending", "finish"}, NEW obj \in Snapshot, Reconciling(pc, obj)
  PROVE  rec' \in Reconcile /\ rec'.pc = pc /\ rec'.obj = obj /\ rec'.current = fresh
BY DEF TypeOK, Reconciling, Idle, Reconcile

\* A write stores its object or nothing, and nothing unless the copy is current.
LEMMA WriteEffect ==
  ASSUME TypeOK, NEW obj, Write(obj)
  PROVE  /\ faults' \in 0..MaxFaults /\ (faults' = 0 => faults = 0)
         /\ \/ rec.current /\ snap' = obj /\ fresh' = FALSE
            \/ UNCHANGED <<snap, fresh>>
<1>1. CASE UNCHANGED faults
  BY <1>1 DEF Write, TypeOK, Fault
<1>2. CASE Fault /\ UNCHANGED <<snap, fresh>>
  BY <1>2, FaultType
<1> QED
  BY <1>1, <1>2 DEF Write

\* Begin takes a live copy that is current, and goes on only with its finalizer.
LEMMA BeginCases ==
  ASSUME StaleCache = FALSE, SnapshotsInv, Begin
  PROVE  /\ fresh /\ cache = snap /\ snap # Null /\ snap \in Snapshot /\ ~snap.deleted /\ rec.pc = "idle"
         /\ \/ /\ ~snap.finalizer /\ snap' = [snap EXCEPT !.finalizer = TRUE] /\ fresh' = FALSE
               /\ UNCHANGED rec
            \/ /\ snap.finalizer /\ snap.phase \in {"", "Pending"} /\ UNCHANGED <<snap, fresh>>
               /\ \E pc \in {"call", "fail", "pending"} : Reconciling(pc, snap)
         /\ UNCHANGED <<cache, parent, vm, saves, store, call, kids, listed, fork, faults>>
<1>1. fresh /\ cache = snap /\ snap # Null /\ ~snap.deleted /\ rec.pc = "idle"
  BY DEF Begin, SnapshotsInv, CopyCurrent
<1>2. snap \in Snapshot
  BY <1>1 DEF SnapshotsInv, TypeOK
<1>3. UNCHANGED <<cache, parent, vm, saves, store, call, kids, listed, fork, faults>>
  BY DEF Begin, kidVars
<1>4. CASE ~cache.finalizer
  BY <1>1, <1>2, <1>3, <1>4 DEF Begin
<1>5. CASE cache.finalizer
  <2> DEFINE pc == CASE parent = "Gone"     -> "fail"
                     [] parent = "Starting" -> "pending"
                     [] parent = "Running"  -> "call"
  <2>1. cache.phase \in {"", "Pending"} /\ UNCHANGED <<snap, fresh>> /\ Reconciling(pc, cache)
    BY <1>5, Zenon DEF Begin
  <2>2. parent \in {"Starting", "Running", "Gone"}
    BY DEF SnapshotsInv, TypeOK
  <2>3. pc \in {"call", "fail", "pending"}
    BY <2>2
  <2> HIDE DEF pc
  <2> QED
    BY <1>1, <1>2, <1>3, <1>5, <2>1, <2>3
<1> QED
  BY <1>4, <1>5

\* SaveSnapshot takes the next number and begins to upload, or fails.
LEMMA SaveEffect ==
  ASSUME TypeOK, SaveSnapshot
  PROVE  /\ call.pc = "none" /\ vm' \in BOOLEAN /\ saves' \in Version
         /\ faults' \in 0..MaxFaults /\ (faults' = 0 => faults = 0)
         /\ call' \in Call /\ call'.attended
         /\ \/ call'.pc = "upload" /\ call'.todo = Objects /\ saves' # 0
            \/ call'.pc = "failed" /\ UNCHANGED saves
<1>1. call.pc = "none"
  BY DEF SaveSnapshot
<1>2. CASE ~vm
  <2>1. call' = [pc |-> "failed", todo |-> {}, attended |-> TRUE] /\ UNCHANGED <<vm, saves, faults>>
    BY <1>2 DEF SaveSnapshot
  <2> QED
    BY <1>1, <2>1 DEF TypeOK, Call
<1>3. CASE vm /\ saves < MaxSaves /\ saves' = saves + 1 /\ vm' = ~Kata
           /\ call' = [pc |-> "upload", todo |-> Objects, attended |-> TRUE] /\ UNCHANGED faults
  <2>1. saves' \in Version /\ saves' # 0
    BY <1>3, SnapshotConstants DEF TypeOK, Version
  <2>2. call' \in Call /\ call'.attended /\ call'.pc = "upload" /\ call'.todo = Objects
    BY <1>3 DEF Call
  <2>3. vm' \in BOOLEAN
    BY <1>3, SnapshotConstants
  <2> QED
    BY <1>1, <1>3, <2>1, <2>2, <2>3 DEF TypeOK
<1>4. CASE Fault /\ call' = [pc |-> "failed", todo |-> {}, attended |-> TRUE] /\ UNCHANGED <<vm, saves>>
  <2>1. call' \in Call /\ call'.attended /\ call'.pc = "failed"
    BY <1>4 DEF Call
  <2> QED
    BY <1>1, <1>4, <2>1, FaultType DEF TypeOK
<1> QED
  BY <1>2, <1>3, <1>4 DEF SaveSnapshot

\* DeleteList is a list of objects.
LEMMA DeleteListType == \A b \in BOOLEAN : DeleteList(b) \in SUBSET Objects
BY ConstantTypes DEF DeleteList

-----------------------------------------------------------------------------
(* What a running call or a reconcile that creates excludes.                *)

Mid == call.pc # "none" \/ rec.pc \in Creating

\* While a snapshot is being made, nothing is Ready and no child loads.
LEMMA Unsettled ==
  ASSUME SnapshotsInv, Mid
  PROVE  /\ ~(snap # Null /\ snap.phase = "Ready")
         /\ ~(cache # Null /\ cache.phase = "Ready")
         /\ \A c \in Children : ~Loading(c)
         /\ ~Settled
         /\ rec.pc # "erase" /\ ~(snap # Null /\ snap.path)
<1>1. ~Settled
  BY DEF Mid, Settled, Creating
<1>2. /\ ~(snap # Null /\ snap.phase = "Ready")
      /\ ~(cache # Null /\ cache.phase = "Ready")
      /\ \A c \in Children : ~Loading(c)
  BY <1>1 DEF SnapshotsInv, ReadySettled
<1>3. rec.pc # "erase" /\ ~(snap # Null /\ snap.path)
  BY <1>2 DEF SnapshotsInv, RecShape, Deleting, PathIsReady
<1> QED
  BY <1>1, <1>2, <1>3

\* A child that is not loading any more, or not yet, is as before.
LEMMA QuietKids ==
  ASSUME SnapshotsInv, \A c \in Children : ~Loading(c), UNCHANGED kids
  PROVE  LoadingLatest' /\ ChildFromOneSave' /\ \A c \in Children : ~Loading(c)'
<1>1. \A c \in Children : ~Loading(c)'
  BY DEF Loading
<1>2. ChildFromOneSave'
  BY DEF SnapshotsInv, ChildFromOneSave
<1> QED
  BY <1>1, <1>2 DEF LoadingLatest

\* Children's steps, and those of the parent and of the SDK: the snapshot, its
\* store and its reconcile stay as they are.
LEMMA SnapFrame ==
  ASSUME SnapshotsInv, UNCHANGED <<snap, cache, fresh, saves, store, call, rec>>,
         fork' = "waitParent" => fork = "waitParent",
         \A c \in Children : Loading(c)' => Settled
  PROVE  /\ CopyCurrent' /\ ForkFirst' /\ PathIsReady' /\ RecShape' /\ CallShape' /\ Uploaded'
         /\ ReadyStored' /\ ReadySettled'
<1>1. CopyCurrent' /\ ForkFirst' /\ PathIsReady'
  BY DEF SnapshotsInv, CopyCurrent, ForkFirst, PathIsReady
<1>2. RecShape' /\ CallShape'
  BY DEF SnapshotsInv, RecShape, CallShape
<1>3. Uploaded' /\ ReadyStored'
  BY DEF SnapshotsInv, Uploaded, ReadyStored, Complete
<1>4. ReadySettled'
  <2>1. Settled => Settled'
    BY DEF Settled
  <2> QED
    BY <2>1 DEF SnapshotsInv, ReadySettled
<1> QED
  BY <1>1, <1>2, <1>3, <1>4

\* The parent, the SDK's waiting and the Sandbox informer.
LEMMA OutsideKeeps ==
  ASSUME SnapshotsInv,
         \/ ForkSees \/ ForkReturns \/ ParentStarts \/ ParentDeleted \/ ChildrenListed \/ UNCHANGED vars
  PROVE  SnapshotsInv'
<1>1. UNCHANGED <<snap, cache, fresh, saves, store, call, rec, kids, faults>>
  BY DEF ForkSees, ForkReturns, ParentStarts, ParentDeleted, ChildrenListed, vars, snapVars, kidVars
<1>2. fork' = "waitParent" => fork = "waitParent"
  BY DEF ForkSees, ForkReturns, ParentStarts, ParentDeleted, ChildrenListed, vars
<1>3. /\ parent' \in {"Starting", "Running", "Gone"} /\ vm' \in BOOLEAN /\ listed' \subseteq Children
      /\ fork' \in {"waitParent", "waitReady", "children", "returned"}
  BY DEF SnapshotsInv, TypeOK, ForkSees, ForkReturns, ParentStarts, ParentDeleted, ChildrenListed, vars, kidVars
<1>4. TypeOK'
  BY <1>1, <1>3 DEF SnapshotsInv, TypeOK
<1>5. \A c \in Children : Loading(c)' => Settled
  BY <1>1 DEF SnapshotsInv, ReadySettled, Loading
<1>6. LoadingLatest' /\ ChildFromOneSave'
  BY <1>1 DEF SnapshotsInv, LoadingLatest, ChildFromOneSave, Loading
<1> QED
  BY <1>1, <1>2, <1>4, <1>5, <1>6, SnapFrame DEF SnapshotsInv

-----------------------------------------------------------------------------
(* Children.                                                               *)

\* A child's next state.
LEMMA KidStep ==
  ASSUME SnapshotsInv, UNCHANGED <<snap, cache, fresh, parent, vm, saves, store, call, rec, listed>>,
         fork' \in {"children", "returned"} \/ fork' = fork,
         faults' \in 0..MaxFaults,
         NEW c \in Children, NEW kid \in Child \cup {Null}, kids' = [kids EXCEPT ![c] = kid],
         kid # Null /\ kid.pc = "loading" =>
           /\ Settled /\ saves # 0 /\ kid.got[Manifest] = saves
           /\ \A o \in Objects : kid.got[o] \in {0, saves},
         kid # Null /\ kid.pc = "running" =>
           \A o \in Objects : kid.got[o] # 0 /\ kid.got[o] = kid.got[Manifest]
  PROVE  SnapshotsInv'
<1>1. /\ kids' \in [Children -> Child \cup {Null}]
      /\ kids'[c] = kid /\ \A d \in Children : d # c => kids'[d] = kids[d]
  BY DEF SnapshotsInv, TypeOK
<1>2. TypeOK'
  <2>1. fork' \in {"waitParent", "waitReady", "children", "returned"}
    BY DEF SnapshotsInv, TypeOK
  <2> QED
    BY <1>1, <2>1 DEF SnapshotsInv, TypeOK
<1>3. \A d \in Children : Loading(d)' => Settled
  BY <1>1 DEF SnapshotsInv, ReadySettled, Loading
<1>4. LoadingLatest'
  BY <1>1 DEF SnapshotsInv, LoadingLatest, Loading
<1>5. ChildFromOneSave'
  BY <1>1 DEF SnapshotsInv, ChildFromOneSave
<1>6. fork' = "waitParent" => fork = "waitParent"
  OBVIOUS
<1> QED
  BY <1>2, <1>3, <1>4, <1>5, <1>6, SnapFrame DEF SnapshotsInv

LEMMA NewChild ==
  LET kid == [pc |-> "new", got |-> Empty] IN kid \in Child /\ kid.pc = "new"
BY ConstantTypes DEF Child

LEMMA ForkChildKeeps ==
  ASSUME SnapshotsInv, NEW c \in Children, ForkChild(c)
  PROVE  SnapshotsInv'
<1>1. UNCHANGED <<snap, cache, fresh, parent, vm, saves, store, call, rec, listed>>
  BY DEF ForkChild, snapVars
<1>2. CASE kids' = [kids EXCEPT ![c] = [pc |-> "new", got |-> Empty]] /\ UNCHANGED <<fork, faults>>
  <2> DEFINE kid == [pc |-> "new", got |-> Empty]
  <2>1. kid \in Child /\ kid.pc = "new" /\ kids' = [kids EXCEPT ![c] = kid]
    BY <1>2, NewChild
  <2>2. faults' \in 0..MaxFaults
    BY <1>2 DEF SnapshotsInv, TypeOK
  <2> HIDE DEF kid
  <2> QED
    BY <1>1, <1>2, <2>1, <2>2, KidStep
<1>3. CASE Fault /\ fork' = "returned" /\ UNCHANGED kids
  <2>1. faults' \in 0..MaxFaults /\ faults' # 0
    BY <1>3, FaultType DEF SnapshotsInv
  <2>2. TypeOK'
    BY <1>1, <1>3, <2>1 DEF SnapshotsInv, TypeOK
  <2>3. \A d \in Children : Loading(d)' => Settled
    BY <1>3 DEF SnapshotsInv, ReadySettled, Loading
  <2>4. LoadingLatest' /\ ChildFromOneSave'
    BY <1>1, <1>3 DEF SnapshotsInv, LoadingLatest, ChildFromOneSave, Loading
  <2> QED
    BY <1>1, <1>3, <2>1, <2>2, <2>3, <2>4, SnapFrame DEF SnapshotsInv
<1> QED
  BY <1>2, <1>3 DEF ForkChild

LEMMA ChildCreatedKeeps ==
  ASSUME SnapshotsInv, NEW c \in Children, ChildCreated(c)
  PROVE  SnapshotsInv'
<1> DEFINE kid == [pc |-> "new", got |-> Empty]
<1>1. /\ UNCHANGED <<snap, cache, fresh, parent, vm, saves, store, call, rec, listed, fork, faults>>
      /\ kids' = [kids EXCEPT ![c] = kid]
  BY DEF ChildCreated, snapVars
<1>2. kid \in Child /\ kid.pc = "new"
  BY NewChild
<1>3. faults' \in 0..MaxFaults
  BY <1>1 DEF SnapshotsInv, TypeOK
<1> HIDE DEF kid
<1> QED
  BY <1>1, <1>2, <1>3, KidStep

LEMMA ChildDeletedKeeps ==
  ASSUME SnapshotsInv, NEW c \in Children, ChildDeleted(c)
  PROVE  SnapshotsInv'
<1>1. /\ UNCHANGED <<snap, cache, fresh, parent, vm, saves, store, call, rec, listed, fork, faults>>
      /\ kids' = [kids EXCEPT ![c] = Null]
  BY DEF ChildDeleted, snapVars
<1>2. faults' \in 0..MaxFaults
  BY <1>1 DEF SnapshotsInv, TypeOK
<1> QED
  BY <1>1, <1>2, KidStep

\* The manifest a child begins with is of the latest save.
LEMMA LoadBeginKeeps ==
  ASSUME SnapshotsInv, NEW c \in Children, LoadBegin(c)
  PROVE  SnapshotsInv'
<1> DEFINE got == [Empty EXCEPT ![Manifest] = store[Manifest]]
           kid == [pc |-> "loading", got |-> got]
<1>1. /\ UNCHANGED <<snap, cache, fresh, parent, vm, saves, store, call, rec, listed, fork, faults>>
      /\ kids' = [kids EXCEPT ![c] = kid]
      /\ cache # Null /\ cache.phase = "Ready" /\ store[Manifest] # 0
  BY DEF LoadBegin, snapVars
<1>2. Settled
  BY <1>1 DEF SnapshotsInv, ReadySettled
<1>3. store[Manifest] = saves /\ saves # 0 /\ store[Manifest] \in Version
  BY <1>1, <1>2, ConstantTypes DEF Settled, SnapshotsInv, TypeOK
<1>4. /\ got \in [Objects -> Version] /\ got[Manifest] = saves
      /\ \A o \in Objects : got[o] \in {0, saves}
  BY <1>3, ConstantTypes
<1> HIDE DEF got
<1>5. kid \in Child /\ kid.pc = "loading" /\ kid.got = got
  BY <1>4 DEF Child
<1>6. faults' \in 0..MaxFaults
  BY <1>1 DEF SnapshotsInv, TypeOK
<1> HIDE DEF kid
<1> QED
  BY <1>1, <1>2, <1>3, <1>4, <1>5, <1>6, KidStep

\* Each file is of the save the manifest is of, or missing; the last one makes
\* the child whole.
LEMMA LoadObjectKeeps ==
  ASSUME SnapshotsInv, NEW c \in Children, NEW o \in Files, LoadObject(c, o)
  PROVE  SnapshotsInv'
<1>1. UNCHANGED <<snap, cache, fresh, parent, vm, saves, store, call, rec, listed, fork, faults>>
  BY DEF LoadObject, snapVars
<1>2. Loading(c)
  BY DEF LoadObject, Loading
<1>3. /\ Settled /\ saves # 0 /\ kids[c].got[Manifest] = saves
      /\ \A p \in Objects : kids[c].got[p] \in {0, saves}
  BY <1>2 DEF SnapshotsInv, ReadySettled, LoadingLatest
<1>4. faults' \in 0..MaxFaults
  BY <1>1 DEF SnapshotsInv, TypeOK
<1>5. CASE store[o] = 0
  <2> DEFINE kid == [pc |-> "new", got |-> Empty]
  <2>1. kid \in Child /\ kid.pc = "new" /\ kids' = [kids EXCEPT ![c] = kid]
    BY <1>5, NewChild DEF LoadObject
  <2> HIDE DEF kid
  <2> QED
    BY <1>1, <1>4, <2>1, KidStep
<1>6. CASE store[o] # 0
  <2> DEFINE got == [kids[c].got EXCEPT ![o] = store[o]]
             pc == IF \A f \in Files : got[f] # 0 THEN "running" ELSE "loading"
             kid == [pc |-> pc, got |-> got]
  <2>1. kids' = [kids EXCEPT ![c] = kid]
    BY <1>6, Zenon DEF LoadObject
  <2>2. o \in Objects /\ o # Manifest /\ Manifest \in Objects /\ Objects = Files \cup {Manifest}
    BY ConstantTypes DEF Objects
  <2>3. store[o] = saves /\ saves \in Version
    BY <1>3, <1>6, <2>2 DEF Settled, SnapshotsInv, TypeOK
  <2>4. kids[c].got \in [Objects -> Version]
    BY <1>2 DEF SnapshotsInv, TypeOK, Loading, Child
  <2>5. /\ got \in [Objects -> Version] /\ got[Manifest] = saves
        /\ \A p \in Objects : got[p] \in {0, saves}
    BY <1>3, <2>2, <2>3, <2>4
  <2> HIDE DEF got
  <2>6. pc \in {"running", "loading"} /\ (pc = "running" => \A f \in Files : got[f] # 0)
    BY Zenon
  <2> HIDE DEF pc
  <2>7. kid \in Child /\ kid.pc = pc /\ kid.got = got
    BY <2>5, <2>6 DEF Child
  <2>8. pc = "running" => \A p \in Objects : got[p] # 0 /\ got[p] = got[Manifest]
    BY <1>3, <2>2, <2>5, <2>6
  <2> HIDE DEF kid
  <2> QED
    BY <1>1, <1>3, <1>4, <2>1, <2>5, <2>7, <2>8, KidStep
<1> QED
  BY <1>5, <1>6

-----------------------------------------------------------------------------
(* The Worker's call.                                                      *)

\* A step of a running call: whatever it does to the store, nobody relies on
\* it yet.
LEMMA CallStep ==
  ASSUME SnapshotsInv, call.pc # "none",
         UNCHANGED <<snap, cache, fresh, saves, rec, kids, listed, fork>>,
         parent' \in {"Starting", "Running", "Gone"}, vm' \in BOOLEAN,
         call' \in Call, call'.attended = call.attended, call'.attended => call'.pc # "none",
         store' \in [Objects -> Version], faults' \in 0..MaxFaults, Uploaded'
  PROVE  SnapshotsInv'
<1>1. /\ ~(snap # Null /\ snap.phase = "Ready")
      /\ ~(cache # Null /\ cache.phase = "Ready")
      /\ \A c \in Children : ~Loading(c)
      /\ rec.pc # "erase" /\ ~(snap # Null /\ snap.path)
  BY Unsettled DEF Mid
<1>2. TypeOK'
  BY DEF SnapshotsInv, TypeOK
<1>3. LoadingLatest' /\ ChildFromOneSave' /\ \A c \in Children : ~Loading(c)'
  BY <1>1, QuietKids
<1>4. CopyCurrent' /\ ForkFirst' /\ PathIsReady' /\ RecShape' /\ CallShape'
  BY DEF SnapshotsInv, CopyCurrent, ForkFirst, PathIsReady, RecShape, CallShape
<1>5. ReadyStored'
  BY <1>1 DEF SnapshotsInv, ReadyStored
<1>6. ReadySettled'
  BY <1>1, <1>3 DEF ReadySettled
<1> QED
  BY <1>2, <1>3, <1>4, <1>5, <1>6 DEF SnapshotsInv

\* Setting one object of the store.
LEMMA StoreChange ==
  ASSUME TypeOK, NEW o \in Objects, NEW n \in Version, store' = [store EXCEPT ![o] = n]
  PROVE  /\ store' \in [Objects -> Version]
         /\ store'[o] = n /\ \A p \in Objects : p # o => store'[p] = store[p]
BY DEF TypeOK

LEMMA UploadObjectKeeps ==
  ASSUME SnapshotsInv, NEW o \in Objects, UploadObject(o)
  PROVE  SnapshotsInv'
<1>0. /\ TypeOK /\ call \in Call /\ saves \in Version /\ faults \in 0..MaxFaults
      /\ parent \in {"Starting", "Running", "Gone"} /\ vm \in BOOLEAN
  BY DEF SnapshotsInv, TypeOK
<1>1. /\ call.pc = "upload" /\ o \in call.todo /\ (o = Manifest => call.todo = {Manifest})
      /\ store' = [store EXCEPT ![o] = saves]
      /\ UNCHANGED <<snap, cache, fresh, parent, vm, saves, rec, kids, listed, fork>>
  BY DEF UploadObject, InOrder, Put, snapVars, kidVars
<1>2. /\ store' \in [Objects -> Version]
      /\ store'[o] = saves /\ \A p \in Objects : p # o => store'[p] = store[p]
  BY <1>0, <1>1, StoreChange
<1>3. CASE call' = [call EXCEPT !.todo = @ \ {o}, !.pc = IF o = Manifest THEN "done" ELSE @] /\ UNCHANGED faults
  <2>1. /\ call' \in Call /\ call'.attended = call.attended /\ call'.todo = call.todo \ {o}
        /\ call'.pc = IF o = Manifest THEN "done" ELSE "upload"
    BY <1>0, <1>1, <1>3 DEF Call
  <2>2. Uploaded'
    <3> SUFFICES ASSUME call.attended
                 PROVE  /\ saves # 0 /\ \A p \in Objects \ call'.todo : store'[p] = saves
                        /\ call'.pc = "done" => call'.todo = {}
      BY <1>1, <2>1 DEF Uploaded
    <3>1. saves # 0 /\ \A p \in Objects \ call.todo : store[p] = saves
      BY <1>1 DEF SnapshotsInv, Uploaded
    <3> QED
      BY <1>1, <1>2, <2>1, <3>1
  <2> QED
    BY <1>0, <1>1, <1>2, <1>3, <2>1, <2>2, CallStep
<1>4. CASE o = Manifest /\ Fault /\ call' = [call EXCEPT !.todo = {}, !.pc = "failed"]
  <2>1. call' \in Call /\ call'.attended = call.attended /\ call'.pc = "failed"
    BY <1>0, <1>4 DEF Call
  <2>2. Uploaded'
    BY <2>1 DEF Uploaded
  <2>3. faults' \in 0..MaxFaults
    BY <1>0, <1>4, FaultType
  <2> QED
    BY <1>0, <1>1, <1>2, <2>1, <2>2, <2>3, CallStep
<1> QED
  BY <1>3, <1>4 DEF UploadObject

LEMMA UploadFailsKeeps ==
  ASSUME SnapshotsInv, UploadFails
  PROVE  SnapshotsInv'
<1>0. /\ TypeOK /\ call \in Call /\ store \in [Objects -> Version] /\ faults \in 0..MaxFaults
      /\ parent \in {"Starting", "Running", "Gone"} /\ vm \in BOOLEAN
  BY DEF SnapshotsInv, TypeOK
<1>1. /\ call.pc = "upload"
      /\ UNCHANGED <<snap, cache, fresh, parent, vm, saves, store, rec, kids, listed, fork>>
  BY DEF UploadFails, snapVars, kidVars
<1>2. CASE Fault /\ call' = [call EXCEPT !.pc = "erase", !.todo = DeleteList(FALSE)]
  <2>1. call' \in Call /\ call'.attended = call.attended /\ call'.pc = "erase"
    BY <1>0, <1>2, DeleteListType DEF Call
  <2>2. Uploaded'
    BY <2>1 DEF Uploaded
  <2>3. faults' \in 0..MaxFaults
    BY <1>0, <1>2, FaultType
  <2> QED
    BY <1>0, <1>1, <2>1, <2>2, <2>3, CallStep
<1>3. CASE ~call.attended /\ call' = NoCall /\ UNCHANGED faults
  <2>1. call' \in Call /\ call'.attended = call.attended /\ ~call'.attended
    BY <1>0, <1>3 DEF NoCall, Call
  <2>2. Uploaded'
    BY <2>1 DEF Uploaded
  <2> QED
    BY <1>0, <1>1, <1>3, <2>1, <2>2, CallStep
<1> QED
  BY <1>2, <1>3 DEF UploadFails

LEMMA EraseUploadKeeps ==
  ASSUME SnapshotsInv, NEW o \in Objects, EraseUpload(o)
  PROVE  SnapshotsInv'
<1>0. /\ TypeOK /\ call \in Call /\ store \in [Objects -> Version] /\ faults \in 0..MaxFaults
      /\ parent \in {"Starting", "Running", "Gone"} /\ vm \in BOOLEAN
  BY DEF SnapshotsInv, TypeOK
<1>1. /\ call.pc = "erase"
      /\ call' = [call EXCEPT !.todo = @ \ {o}, !.pc = IF o = Manifest THEN "failed" ELSE @]
      /\ UNCHANGED <<snap, cache, fresh, parent, vm, saves, rec, kids, listed, fork>>
  BY DEF EraseUpload, snapVars, kidVars
<1>2. call' \in Call /\ call'.attended = call.attended /\ call'.pc \in {"erase", "failed"}
  BY <1>0, <1>1 DEF Call
<1>3. Uploaded'
  BY <1>2 DEF Uploaded
<1>4. store' \in [Objects -> Version] /\ faults' \in 0..MaxFaults
  <2>1. CASE Remove(o) /\ UNCHANGED faults
    <3>1. 0 \in Version
      BY SnapshotConstants DEF Version
    <3> QED
      BY <1>0, <2>1, <3>1 DEF Remove
  <2>2. CASE Fault /\ UNCHANGED store
    BY <1>0, <2>2, FaultType
  <2> QED
    BY <2>1, <2>2 DEF EraseUpload
<1> QED
  BY <1>0, <1>1, <1>2, <1>3, <1>4, CallStep

LEMMA CallEndsKeeps ==
  ASSUME SnapshotsInv, CallEndsUnattended
  PROVE  SnapshotsInv'
<1>1. /\ call.pc # "none" /\ ~call.attended /\ call' = NoCall
      /\ UNCHANGED <<snap, cache, fresh, parent, vm, saves, store, rec, kids, listed, fork, faults>>
  BY DEF CallEndsUnattended, snapVars, kidVars
<1>2. call' \in Call /\ call'.attended = call.attended /\ ~call'.attended
  BY <1>1 DEF NoCall, Call, SnapshotsInv, TypeOK
<1>3. Uploaded'
  BY <1>2 DEF Uploaded
<1>4. /\ store' \in [Objects -> Version] /\ faults' \in 0..MaxFaults
      /\ parent' \in {"Starting", "Running", "Gone"} /\ vm' \in BOOLEAN
  BY <1>1 DEF SnapshotsInv, TypeOK
<1> QED
  BY <1>1, <1>2, <1>3, <1>4, CallStep

\* The Worker's loss ends its call; without one only the parent changes.
LEMMA WorkerLostKeeps ==
  ASSUME SnapshotsInv, WorkerLost
  PROVE  SnapshotsInv'
<1>0. TypeOK /\ call \in Call
  BY DEF SnapshotsInv, TypeOK
<1>1. /\ parent' = "Starting" /\ vm' = FALSE
      /\ UNCHANGED <<snap, cache, fresh, saves, store, rec, kids, listed, fork>>
  BY DEF WorkerLost, snapVars, kidVars
<1>2. faults' \in 0..MaxFaults /\ store' \in [Objects -> Version] /\ vm' \in BOOLEAN
  BY <1>0, <1>1, FaultType DEF WorkerLost, TypeOK
<1>3. CASE call.pc = "none"
  <2>1. UNCHANGED call
    BY <1>3 DEF WorkerLost
  <2>2. TypeOK'
    BY <1>0, <1>1, <1>2, <2>1 DEF TypeOK
  <2>3. \A c \in Children : Loading(c)' => Settled
    BY <1>1 DEF SnapshotsInv, ReadySettled, Loading
  <2>4. LoadingLatest' /\ ChildFromOneSave'
    BY <1>1 DEF SnapshotsInv, LoadingLatest, ChildFromOneSave, Loading
  <2> QED
    BY <1>1, <2>1, <2>2, <2>3, <2>4, SnapFrame DEF SnapshotsInv
<1>4. CASE call.pc # "none"
  <2>1. call' = [call EXCEPT !.pc = "failed", !.todo = {}]
    BY <1>4 DEF WorkerLost
  <2>2. call' \in Call /\ call'.attended = call.attended /\ call'.pc = "failed"
    BY <1>0, <2>1 DEF Call
  <2>3. Uploaded'
    BY <2>2 DEF Uploaded
  <2> QED
    BY <1>1, <1>2, <1>4, <2>2, <2>3, CallStep
<1> QED
  BY <1>3, <1>4

-----------------------------------------------------------------------------
(* The reconciler.                                                         *)

\* Objects are removed on the way to Failed, when nothing is Ready, or on the
\* way to the snapshot's end, when it is deleted and no call runs.
LEMMA EraseObjectKeeps ==
  ASSUME SnapshotsInv, NEW o \in Objects, EraseObject(o)
  PROVE  SnapshotsInv'
<1>0. TypeOK /\ rec \in Reconcile /\ store \in [Objects -> Version] /\ faults \in 0..MaxFaults
  BY DEF SnapshotsInv, TypeOK
<1>1. /\ rec.pc \in {"wipe", "erase"} /\ o \in rec.todo /\ (o = Manifest => rec.todo = {Manifest})
      /\ UNCHANGED <<snap, cache, fresh, parent, vm, saves, call, kids, listed, fork>>
  BY DEF EraseObject, InOrder, snapVars, kidVars
<1>2. /\ rec' \in Reconcile /\ rec'.obj = rec.obj /\ rec'.current = rec.current /\ rec'.todo = rec.todo \ {o}
      /\ rec'.pc = IF o # Manifest THEN rec.pc ELSE IF rec.pc = "wipe" THEN "fail" ELSE "finish"
  <2>1. rec' = [rec EXCEPT !.todo = @ \ {o},
                           !.pc = IF o # Manifest THEN @ ELSE IF @ = "wipe" THEN "fail" ELSE "finish"]
    BY DEF EraseObject
  <2> QED
    BY <1>0, <1>1, <2>1 DEF Reconcile
<1>3. /\ store' \in [Objects -> Version] /\ faults' \in 0..MaxFaults /\ (faults' = 0 => faults = 0)
      /\ \A p \in Objects : p # o => store'[p] = store[p]
      /\ store'[o] \in {0, store[o]} /\ (faults' = 0 => store'[o] = 0)
  <2>1. CASE Remove(o) /\ UNCHANGED faults
    <3>1. 0 \in Version
      BY SnapshotConstants DEF Version
    <3>2. store' = [store EXCEPT ![o] = 0]
      BY <2>1 DEF Remove
    <3> QED
      BY <1>0, <2>1, <3>1, <3>2
  <2>2. CASE Fault /\ UNCHANGED store
    BY <1>0, <2>2, FaultType
  <2> QED
    BY <2>1, <2>2 DEF EraseObject
<1>4. TypeOK'
  BY <1>0, <1>1, <1>2, <1>3 DEF TypeOK
<1>5. ~call.attended /\ ~call'.attended /\ Uploaded'
  BY <1>1 DEF SnapshotsInv, CallShape, Uploaded
<1>6. CopyCurrent' /\ ForkFirst' /\ PathIsReady'
  BY <1>1 DEF SnapshotsInv, CopyCurrent, ForkFirst, PathIsReady
<1>7. CallShape'
  BY <1>1, <1>2, <1>5 DEF CallShape
<1>8. CASE rec.pc = "wipe"
  <2>1. /\ ~(snap # Null /\ snap.phase = "Ready")
        /\ ~(cache # Null /\ cache.phase = "Ready")
        /\ \A c \in Children : ~Loading(c)
    BY <1>8, Unsettled DEF Mid, Creating
  <2>2. rec'.pc \in {"wipe", "fail"}
    BY <1>2, <1>8
  <2>3. RecShape'
    BY <1>1, <1>2, <1>8, <2>2 DEF SnapshotsInv, RecShape, Creating, Deleting
  <2>4. LoadingLatest' /\ ChildFromOneSave' /\ \A c \in Children : ~Loading(c)'
    BY <1>1, <2>1, QuietKids
  <2>5. ReadyStored' /\ ReadySettled'
    BY <1>1, <2>1, <2>2, <2>4 DEF ReadyStored, ReadySettled
  <2> QED
    BY <1>4, <1>5, <1>6, <1>7, <2>3, <2>4, <2>5 DEF SnapshotsInv
<1>9. CASE rec.pc = "erase"
  <2>1. snap # Null /\ snap.deleted /\ snap.phase = "Ready" /\ Settled
    BY <1>9 DEF SnapshotsInv, RecShape, Deleting, ReadySettled
  <2>2. rec'.pc \in {"erase", "finish"} /\ (rec'.pc = "finish" => o = Manifest)
    BY <1>2, <1>9
  <2>3. RecShape'
    BY <1>1, <1>2, <1>9, <2>1, <2>2 DEF SnapshotsInv, RecShape, Creating
  <2>4. LoadingLatest' /\ ChildFromOneSave'
    BY <1>1 DEF SnapshotsInv, LoadingLatest, ChildFromOneSave, Loading
  <2>5. Settled'
    BY <1>1, <1>3, <2>1, <2>2 DEF Settled
  <2>6. ReadyStored'
    BY <1>1, <2>1, <2>2 DEF ReadyStored
  <2> QED
    BY <1>4, <1>5, <1>6, <1>7, <2>3, <2>4, <2>5, <2>6 DEF SnapshotsInv, ReadySettled
<1> QED
  BY <1>1, <1>8, <1>9

\* The erasing call fails: the reconcile goes on as if it had ended.
LEMMA EraseFailsKeeps ==
  ASSUME SnapshotsInv, EraseFails
  PROVE  SnapshotsInv'
<1>0. TypeOK /\ rec \in Reconcile
  BY DEF SnapshotsInv, TypeOK
<1>1. /\ rec.pc \in {"wipe", "erase"} /\ Fault
      /\ UNCHANGED <<snap, cache, fresh, parent, vm, saves, store, call, kids, listed, fork>>
  BY DEF EraseFails, snapVars, kidVars
<1>2. /\ rec' \in Reconcile /\ rec'.obj = rec.obj /\ rec'.current = rec.current
      /\ rec'.pc = IF rec.pc = "wipe" THEN "fail" ELSE "finish"
  <2>1. rec' = [rec EXCEPT !.todo = {}, !.pc = IF @ = "wipe" THEN "fail" ELSE "finish"]
    BY DEF EraseFails
  <2> QED
    BY <1>0, <1>1, <2>1 DEF Reconcile
<1>3. TypeOK'
  BY <1>0, <1>1, <1>2, FaultType DEF TypeOK
<1>4. CopyCurrent' /\ ForkFirst' /\ PathIsReady' /\ CallShape' /\ Uploaded'
  BY <1>1, <1>2 DEF SnapshotsInv, CopyCurrent, ForkFirst, PathIsReady, CallShape, Uploaded
<1>5. RecShape'
  BY <1>1, <1>2 DEF SnapshotsInv, RecShape, Creating, Deleting
<1>6. LoadingLatest' /\ ChildFromOneSave'
  BY <1>1 DEF SnapshotsInv, LoadingLatest, ChildFromOneSave, Loading
<1>7. ReadyStored'
  BY <1>1, <1>2 DEF SnapshotsInv, ReadyStored, Complete
<1>8. ReadySettled'
  <2>1. Settled => Settled'
    BY <1>1, <1>2 DEF Settled
  <2> QED
    BY <1>1, <2>1 DEF SnapshotsInv, ReadySettled, Loading
<1> QED
  BY <1>3, <1>4, <1>5, <1>6, <1>7, <1>8 DEF SnapshotsInv

\* A reconcile that creates, or returns, when nothing is Ready: the conjuncts
\* about children and Ready follow from there being none.
LEMMA CreatingStep ==
  ASSUME SnapshotsInv,
         ~(snap # Null /\ snap.phase = "Ready"), ~(cache # Null /\ cache.phase = "Ready"),
         \A c \in Children : ~Loading(c),
         UNCHANGED <<snap, cache, fresh, parent, store, kids, listed, fork>>, fork # "waitParent",
         vm' \in BOOLEAN, saves' \in Version, faults' \in 0..MaxFaults,
         call' \in Call, rec' \in Reconcile, rec'.pc \in Creating \cup {"idle"},
         RecShape', CallShape', Uploaded',
         rec'.pc = "ready" => call'.pc = "none" /\ Complete'
  PROVE  SnapshotsInv'
<1>1. TypeOK'
  BY DEF SnapshotsInv, TypeOK
<1>2. LoadingLatest' /\ ChildFromOneSave' /\ \A c \in Children : ~Loading(c)'
  BY QuietKids
<1>3. CopyCurrent' /\ ForkFirst' /\ PathIsReady'
  BY DEF SnapshotsInv, CopyCurrent, ForkFirst, PathIsReady
<1>4. ReadyStored' /\ ReadySettled'
  BY <1>2 DEF ReadyStored, ReadySettled, Creating
<1> QED
  BY <1>1, <1>2, <1>3, <1>4 DEF SnapshotsInv

LEMMA BeginKeeps ==
  ASSUME StaleCache = FALSE, SnapshotsInv, Begin
  PROVE  SnapshotsInv'
<1>0. TypeOK /\ rec \in Reconcile
  BY DEF SnapshotsInv, TypeOK
<1>1. /\ fresh /\ cache = snap /\ snap # Null /\ snap \in Snapshot /\ ~snap.deleted /\ rec.pc = "idle"
      /\ UNCHANGED <<cache, parent, vm, saves, store, call, kids, listed, fork, faults>>
  BY BeginCases
<1>2. fork # "waitParent" /\ ~call.attended
  BY <1>1 DEF SnapshotsInv, ForkFirst, CallShape
<1>3. CASE /\ ~snap.finalizer /\ snap' = [snap EXCEPT !.finalizer = TRUE] /\ fresh' = FALSE
           /\ UNCHANGED rec
  <2>1. /\ snap' \in Snapshot /\ snap' # Null /\ snap'.finalizer
        /\ snap'.phase = snap.phase /\ snap'.deleted = snap.deleted /\ snap'.path = snap.path
    BY <1>1, <1>3, SnapshotConstants DEF Snapshot
  <2>2. TypeOK'
    BY <1>0, <1>1, <1>3, <2>1 DEF TypeOK
  <2>3. CopyCurrent' /\ ForkFirst' /\ PathIsReady'
    BY <1>1, <1>2, <1>3, <2>1 DEF SnapshotsInv, CopyCurrent, ForkFirst, PathIsReady
  <2>4. RecShape' /\ CallShape' /\ Uploaded'
    BY <1>1, <1>3 DEF SnapshotsInv, RecShape, CallShape, Uploaded, Creating, Deleting
  <2>5. ReadyStored'
    BY <1>1, <1>3, <2>1 DEF SnapshotsInv, ReadyStored, Complete
  <2>6. LoadingLatest' /\ ChildFromOneSave'
    BY <1>1, <1>3 DEF SnapshotsInv, LoadingLatest, ChildFromOneSave, Loading
  <2>7. ReadySettled'
    <3>1. Settled => Settled'
      BY <1>1, <1>3, <2>1 DEF Settled
    <3> QED
      BY <1>1, <1>3, <2>1, <3>1 DEF SnapshotsInv, ReadySettled, Loading
  <2> QED
    BY <2>2, <2>3, <2>4, <2>5, <2>6, <2>7 DEF SnapshotsInv
<1>4. ASSUME snap.finalizer, snap.phase \in {"", "Pending"}, UNCHANGED <<snap, fresh>>
      PROVE  /\ ~(snap # Null /\ snap.phase = "Ready") /\ ~(cache # Null /\ cache.phase = "Ready")
             /\ \A c \in Children : ~Loading(c)
             /\ ~snap.path
  <2>1. ~Settled
    BY <1>1, <1>4 DEF Settled
  <2> QED
    BY <1>1, <1>4, <2>1 DEF SnapshotsInv, ReadySettled, PathIsReady
<1>5. CASE /\ snap.finalizer /\ snap.phase \in {"", "Pending"} /\ UNCHANGED <<snap, fresh>>
           /\ \E pc \in {"call", "fail", "pending"} : Reconciling(pc, snap)
  <2>1. /\ rec' \in Reconcile /\ rec'.pc \in {"call", "fail", "pending"}
        /\ rec'.obj = snap /\ rec'.current = fresh
    BY <1>0, <1>1, <1>5, ReconcilingType
  <2>2. RecShape'
    BY <1>1, <1>4, <1>5, <2>1 DEF RecShape, Deleting
  <2>3. CallShape' /\ Uploaded'
    BY <1>1, <1>2, <2>1 DEF CallShape, Uploaded
  <2>4. vm' \in BOOLEAN /\ saves' \in Version /\ faults' \in 0..MaxFaults /\ call' \in Call
    BY <1>0, <1>1 DEF TypeOK
  <2>5. rec'.pc \in Creating \cup {"idle"}
    BY <2>1 DEF Creating
  <2> QED
    BY <1>1, <1>2, <1>4, <1>5, <2>1, <2>2, <2>3, <2>4, <2>5, CreatingStep
<1> QED
  BY <1>3, <1>5, BeginCases

\* The Worker is called, or the reconcile ends without.
LEMMA StartCallKeeps ==
  ASSUME SnapshotsInv, StartCall
  PROVE  SnapshotsInv'
<1>0. TypeOK /\ rec \in Reconcile /\ call \in Call /\ saves \in Version /\ vm \in BOOLEAN
  BY DEF SnapshotsInv, TypeOK
<1>1. rec.pc = "call" /\ UNCHANGED <<snap, cache, fresh, parent, store, kids, listed, fork>>
  BY DEF StartCall, snapVars, kidVars
<1>2. /\ ~(snap # Null /\ snap.phase = "Ready") /\ ~(cache # Null /\ cache.phase = "Ready")
      /\ \A c \in Children : ~Loading(c)
  BY <1>1, Unsettled DEF Mid, Creating
<1>3. fork # "waitParent" /\ ~call.attended
  BY <1>1 DEF SnapshotsInv, ForkFirst, CallShape
<1>4. ASSUME NEW pc \in {"fail", "retry", "saving"}, rec' = [rec EXCEPT !.pc = pc]
      PROVE  rec' \in Reconcile /\ rec'.pc = pc /\ RecShape' /\ rec'.pc \in Creating \cup {"idle"}
  <2>1. rec' \in Reconcile /\ rec'.pc = pc /\ rec'.obj = rec.obj /\ rec'.current = rec.current
    BY <1>0, <1>4 DEF Reconcile
  <2> QED
    BY <1>1, <2>1 DEF SnapshotsInv, RecShape, Creating, Deleting
<1>5. ASSUME NEW pc \in {"fail", "retry"}, Fault, rec' = [rec EXCEPT !.pc = pc], UNCHANGED <<vm, saves, call>>
      PROVE  SnapshotsInv'
  <2>1. rec' \in Reconcile /\ rec'.pc = pc /\ RecShape' /\ rec'.pc \in Creating \cup {"idle"}
    BY <1>4, <1>5
  <2>2. CallShape' /\ Uploaded'
    BY <1>3, <1>5, <2>1 DEF CallShape, Uploaded
  <2>3. faults' \in 0..MaxFaults
    BY <1>0, <1>5, FaultType
  <2> QED
    BY <1>0, <1>1, <1>2, <1>3, <1>5, <2>1, <2>2, <2>3, CreatingStep
<1>6. CASE SaveSnapshot /\ rec' = [rec EXCEPT !.pc = "saving"]
  <2>1. rec' \in Reconcile /\ rec'.pc = "saving" /\ RecShape' /\ rec'.pc \in Creating \cup {"idle"}
    BY <1>4, <1>6
  <2>2. /\ vm' \in BOOLEAN /\ saves' \in Version /\ faults' \in 0..MaxFaults
        /\ call' \in Call /\ call'.attended
        /\ \/ call'.pc = "upload" /\ call'.todo = Objects /\ saves' # 0
           \/ call'.pc = "failed"
    BY <1>0, <1>6, SaveEffect
  <2>3. CallShape' /\ Uploaded'
    BY <2>1, <2>2 DEF CallShape, Uploaded
  <2> QED
    BY <1>1, <1>2, <1>3, <2>1, <2>2, <2>3, CreatingStep
<1> QED
  BY <1>5, <1>6 DEF StartCall

\* The reconciler hears that all is uploaded, or goes to clean up, with or
\* without the call still running.
LEMMA SavingEnds ==
  ASSUME SnapshotsInv, CallReturns \/ CallLost
  PROVE  SnapshotsInv'
<1>0. TypeOK /\ rec \in Reconcile /\ call \in Call /\ faults \in 0..MaxFaults /\ saves \in Version /\ vm \in BOOLEAN
  BY DEF SnapshotsInv, TypeOK
<1>1. /\ rec.pc = "saving"
      /\ UNCHANGED <<snap, cache, fresh, parent, vm, saves, store, kids, listed, fork>>
  BY DEF CallReturns, CallLost, snapVars, kidVars
<1>2. /\ ~(snap # Null /\ snap.phase = "Ready") /\ ~(cache # Null /\ cache.phase = "Ready")
      /\ \A c \in Children : ~Loading(c)
  BY <1>1, Unsettled DEF Mid, Creating
<1>3. fork # "waitParent" /\ call.attended
  BY <1>1 DEF SnapshotsInv, ForkFirst, CallShape
<1>4. ASSUME NEW pc \in {"ready", "wipe"}, NEW todo \in SUBSET Objects,
             rec' = [rec EXCEPT !.pc = pc, !.todo = todo], call' \in Call, ~call'.attended,
             faults' \in 0..MaxFaults,
             pc = "ready" => call'.pc = "none" /\ Complete'
      PROVE  SnapshotsInv'
  <2>1. rec' \in Reconcile /\ rec'.pc = pc /\ rec'.obj = rec.obj /\ rec'.current = rec.current
    BY <1>0, <1>4 DEF Reconcile
  <2>2. RecShape'
    BY <1>1, <2>1 DEF SnapshotsInv, RecShape, Creating, Deleting
  <2>3. CallShape' /\ Uploaded'
    BY <1>4, <2>1 DEF CallShape, Uploaded
  <2>4. rec'.pc \in Creating \cup {"idle"}
    BY <2>1 DEF Creating
  <2>5. vm' \in BOOLEAN /\ saves' \in Version
    BY <1>0, <1>1
  <2> QED
    BY <1>1, <1>2, <1>3, <1>4, <2>1, <2>2, <2>3, <2>4, <2>5, CreatingStep
<1>5. CASE CallReturns
  <2>1. call' = NoCall /\ call' \in Call /\ call'.pc = "none" /\ ~call'.attended /\ UNCHANGED faults
    BY <1>5, ConstantTypes DEF CallReturns
  <2>2. CASE call.pc = "done"
    <3>1. rec' = [rec EXCEPT !.pc = "ready", !.todo = {}]
      BY <1>5, <2>2 DEF CallReturns
    <3>2. Complete'
      BY <1>1, <1>3, <2>2 DEF SnapshotsInv, Uploaded, Complete
    <3>3. {} \in SUBSET Objects /\ faults' \in 0..MaxFaults
      BY <1>0, <2>1
    <3> QED
      BY <1>4, <2>1, <3>1, <3>2, <3>3
  <2>3. CASE call.pc # "done"
    <3>1. rec' = [rec EXCEPT !.pc = "wipe", !.todo = DeleteList(FALSE)]
      BY <1>5, <2>3 DEF CallReturns
    <3> QED
      BY <1>0, <1>4, <2>1, <3>1, DeleteListType
  <2> QED
    BY <2>2, <2>3
<1>6. CASE CallLost
  <2>1. call' = [call EXCEPT !.attended = FALSE] /\ Fault
    BY <1>6 DEF CallLost
  <2>2. call' \in Call /\ ~call'.attended
    BY <1>0, <2>1 DEF Call
  <2>3. rec' = [rec EXCEPT !.pc = "wipe", !.todo = DeleteList(FALSE)]
    BY <1>6 DEF CallLost
  <2>4. faults' \in 0..MaxFaults
    BY <1>0, <2>1, FaultType
  <2> QED
    BY <1>4, <2>2, <2>3, <2>4, DeleteListType
<1> QED
  BY <1>5, <1>6

\* Ready is written only when the store is complete and no call is running.
LEMMA WriteStatusKeeps ==
  ASSUME SnapshotsInv, WriteStatus
  PROVE  SnapshotsInv'
<1>0. TypeOK /\ saves \in Version /\ vm \in BOOLEAN /\ call \in Call
  BY DEF SnapshotsInv, TypeOK
<1>1. /\ rec.pc \in {"ready", "fail", "pending", "retry"} /\ rec' = Idle
      /\ UNCHANGED <<cache, parent, vm, saves, store, call, kids, listed, fork>>
  BY DEF WriteStatus, kidVars
<1>2. /\ ~(snap # Null /\ snap.phase = "Ready") /\ ~(cache # Null /\ cache.phase = "Ready")
      /\ \A c \in Children : ~Loading(c)
  BY <1>1, Unsettled DEF Mid, Creating
<1>3. fork # "waitParent" /\ ~call.attended
  BY <1>1 DEF SnapshotsInv, ForkFirst, CallShape
<1>4. /\ rec.obj \in Snapshot /\ rec.obj.finalizer /\ ~rec.obj.deleted /\ ~rec.obj.path
      /\ rec.current => snap = rec.obj
  BY <1>1 DEF SnapshotsInv, RecShape, Creating
<1> DEFINE obj == CASE rec.pc = "ready"   -> [rec.obj EXCEPT !.phase = "Ready", !.ready = TRUE, !.path = TRUE]
                    [] rec.pc = "fail"    -> [rec.obj EXCEPT !.phase = "Failed", !.ready = FALSE]
                    [] rec.pc = "pending" -> [rec.obj EXCEPT !.phase = "Pending", !.ready = FALSE]
                    [] rec.pc = "retry"   -> [rec.obj EXCEPT !.ready = FALSE]
<1>5. Write(obj)
  BY DEF WriteStatus
<1>6. /\ obj \in Snapshot /\ obj.finalizer /\ ~obj.deleted
      /\ (obj.path \/ obj.phase = "Ready") => rec.pc = "ready" /\ obj.phase = "Ready"
  <2>1. CASE rec.pc = "ready"
    <3>1. obj = [rec.obj EXCEPT !.phase = "Ready", !.ready = TRUE, !.path = TRUE]
      BY <2>1
    <3> QED
      BY <1>4, <2>1, <3>1 DEF Snapshot
  <2>2. CASE rec.pc = "fail"
    <3>1. obj = [rec.obj EXCEPT !.phase = "Failed", !.ready = FALSE]
      BY <2>2
    <3> QED
      BY <1>4, <2>2, <3>1 DEF Snapshot
  <2>3. CASE rec.pc = "pending"
    <3>1. obj = [rec.obj EXCEPT !.phase = "Pending", !.ready = FALSE]
      BY <2>3
    <3> QED
      BY <1>4, <2>3, <3>1 DEF Snapshot
  <2>4. CASE rec.pc = "retry"
    <3>1. obj = [rec.obj EXCEPT !.ready = FALSE]
      BY <2>4
    <3>2. rec.obj.phase # "Ready"
      BY <2>4 DEF SnapshotsInv, RecShape
    <3> QED
      BY <1>4, <2>4, <3>1, <3>2 DEF Snapshot
  <2> QED
    BY <1>1, <2>1, <2>2, <2>3, <2>4
<1> HIDE DEF obj
<1>7. /\ faults' \in 0..MaxFaults
      /\ \/ rec.current /\ snap' = obj /\ fresh' = FALSE
         \/ UNCHANGED <<snap, fresh>>
  BY <1>0, <1>5, WriteEffect
<1>8. rec' \in Reconcile /\ rec'.pc = "idle"
  BY <1>1, ConstantTypes
<1>9. RecShape' /\ CallShape' /\ Uploaded'
  BY <1>1, <1>3, <1>8 DEF RecShape, CallShape, Uploaded, Creating, Deleting
<1>10. CASE UNCHANGED <<snap, fresh>>
  <2>1. rec'.pc \in Creating \cup {"idle"}
    BY <1>8
  <2>2. vm' \in BOOLEAN /\ saves' \in Version /\ call' \in Call
    BY <1>0, <1>1
  <2> QED
    BY <1>1, <1>2, <1>3, <1>7, <1>8, <1>9, <1>10, <2>1, <2>2, CreatingStep
<1>11. CASE rec.current /\ snap' = obj /\ fresh' = FALSE
  <2>1. TypeOK'
    BY <1>0, <1>1, <1>6, <1>7, <1>8, <1>11 DEF TypeOK
  <2>2. CopyCurrent' /\ ForkFirst' /\ PathIsReady'
    BY <1>1, <1>3, <1>6, <1>11 DEF CopyCurrent, ForkFirst, PathIsReady
  <2>3. LoadingLatest' /\ ChildFromOneSave' /\ \A c \in Children : ~Loading(c)'
    BY <1>1, <1>2, QuietKids
  <2>4. rec.pc = "ready" => call.pc = "none" /\ saves # 0 /\ \A o \in Objects : store[o] = saves
    BY DEF SnapshotsInv, ReadyStored, Complete
  <2>5. ReadyStored'
    BY <1>1, <1>6, <1>8, <1>11, <2>4 DEF ReadyStored, Complete
  <2>6. ReadySettled'
    BY <1>1, <1>2, <1>3, <1>6, <1>8, <1>11, <2>3, <2>4 DEF ReadySettled, Settled
  <2> QED
    BY <1>9, <2>1, <2>2, <2>3, <2>5, <2>6 DEF SnapshotsInv
<1> QED
  BY <1>7, <1>10, <1>11

\* Deletion begins on a current copy: path, phase and mark are the object's.
LEMMA BeginDeleteKeeps ==
  ASSUME StaleCache = FALSE, SnapshotsInv, BeginDelete
  PROVE  SnapshotsInv'
<1>0. TypeOK /\ fresh \in BOOLEAN
  BY DEF SnapshotsInv, TypeOK
<1>1. /\ rec.pc = "idle" /\ fresh /\ cache = snap /\ snap # Null /\ snap.deleted
      /\ UNCHANGED <<snap, cache, fresh, parent, vm, saves, store, call, kids, listed, fork>>
  BY DEF BeginDelete, SnapshotsInv, CopyCurrent, snapVars, kidVars
<1>2. snap \in Snapshot /\ fork # "waitParent" /\ ~call.attended /\ (snap.path => snap.phase = "Ready")
  BY <1>1 DEF SnapshotsInv, TypeOK, ForkFirst, CallShape, PathIsReady
<1>3. /\ rec' \in Reconcile /\ rec'.obj = snap /\ faults' \in 0..MaxFaults
      /\ rec'.pc \in {"erase", "finish"} /\ (rec'.pc = "erase" => snap.path)
  <2>1. CASE cache.path /\ rec' = [Idle EXCEPT !.pc = "erase", !.obj = cache, !.current = fresh, !.todo = Objects]
             /\ UNCHANGED faults
    BY <1>0, <1>1, <1>2, <2>1 DEF Reconcile, Idle, TypeOK
  <2>2. CASE Reconciling("finish", cache) /\ (Fault \/ UNCHANGED faults)
    <3>1. rec' \in Reconcile /\ rec'.obj = snap /\ rec'.pc = "finish"
      BY <1>0, <1>1, <1>2, <2>2, ReconcilingType
    <3> QED
      BY <1>0, <2>2, <3>1, FaultType DEF TypeOK
  <2> QED
    BY <2>1, <2>2 DEF BeginDelete
<1>4. TypeOK'
  BY <1>0, <1>1, <1>3 DEF TypeOK
<1>5. CopyCurrent' /\ ForkFirst' /\ PathIsReady' /\ CallShape' /\ Uploaded'
  BY <1>1, <1>2, <1>3 DEF SnapshotsInv, CopyCurrent, ForkFirst, PathIsReady, CallShape, Uploaded
<1>6. RecShape'
  BY <1>1, <1>2, <1>3 DEF RecShape, Creating
<1>7. ReadyStored'
  BY <1>1, <1>3 DEF ReadyStored
<1>8. LoadingLatest' /\ ChildFromOneSave'
  BY <1>1 DEF SnapshotsInv, LoadingLatest, ChildFromOneSave, Loading
<1>9. ReadySettled'
  <2>1. Settled => Settled'
    BY <1>1, <1>3 DEF Settled
  <2> QED
    BY <1>1, <2>1 DEF SnapshotsInv, ReadySettled, Loading
<1> QED
  BY <1>4, <1>5, <1>6, <1>7, <1>8, <1>9 DEF SnapshotsInv

LEMMA RefuseDeleteKeeps ==
  ASSUME SnapshotsInv, RefuseDelete
  PROVE  SnapshotsInv'
<1>0. TypeOK
  BY DEF SnapshotsInv
<1>1. /\ fresh' = FALSE /\ rec.pc = "idle"
      /\ UNCHANGED <<cache, parent, vm, saves, store, call, rec, kids, listed, fork, faults>>
  BY DEF RefuseDelete, kidVars
<1>2. /\ snap \in Snapshot /\ snap' \in Snapshot /\ snap # Null /\ snap' # Null
      /\ snap'.finalizer = snap.finalizer /\ snap'.phase = snap.phase
      /\ snap'.deleted = snap.deleted /\ snap'.path = snap.path
  <2>1. snap \in Snapshot /\ snap' = [snap EXCEPT !.ready = FALSE]
    BY <1>0, ConstantTypes DEF RefuseDelete, SnapshotsInv, CopyCurrent, TypeOK
  <2> QED
    BY <2>1, ConstantTypes DEF Snapshot
<1>3. TypeOK'
  BY <1>0, <1>1, <1>2 DEF TypeOK
<1>4. CopyCurrent' /\ ForkFirst' /\ PathIsReady'
  BY <1>1, <1>2 DEF SnapshotsInv, CopyCurrent, ForkFirst, PathIsReady
<1>5. RecShape' /\ CallShape' /\ Uploaded'
  BY <1>1 DEF SnapshotsInv, RecShape, CallShape, Uploaded, Creating, Deleting
<1>6. ReadyStored' /\ LoadingLatest' /\ ChildFromOneSave'
  BY <1>1, <1>2 DEF SnapshotsInv, ReadyStored, Complete, LoadingLatest, ChildFromOneSave, Loading
<1>7. ReadySettled'
  <2>1. Settled => Settled'
    BY <1>1, <1>2 DEF Settled
  <2> QED
    BY <1>1, <1>2, <2>1 DEF SnapshotsInv, ReadySettled, Loading
<1> QED
  BY <1>3, <1>4, <1>5, <1>6, <1>7 DEF SnapshotsInv

LEMMA RemoveFinalizerKeeps ==
  ASSUME SnapshotsInv, RemoveFinalizer
  PROVE  SnapshotsInv'
<1>0. TypeOK
  BY DEF SnapshotsInv
<1>1. /\ rec.pc = "finish" /\ rec' = Idle
      /\ UNCHANGED <<cache, parent, vm, saves, store, call, kids, listed, fork>>
  BY DEF RemoveFinalizer, kidVars
<1>2. /\ faults' \in 0..MaxFaults
      /\ \/ snap' = Null /\ fresh' = FALSE
         \/ UNCHANGED <<snap, fresh>>
  BY <1>0, WriteEffect DEF RemoveFinalizer
<1>3. rec' \in Reconcile /\ rec'.pc = "idle"
  BY <1>1, ConstantTypes
<1>4. fork # "waitParent" /\ ~call.attended
  BY <1>1 DEF SnapshotsInv, ForkFirst, CallShape
<1>5. TypeOK'
  BY <1>0, <1>1, <1>2, <1>3 DEF TypeOK
<1>6. CopyCurrent' /\ ForkFirst' /\ PathIsReady'
  BY <1>1, <1>2, <1>4 DEF SnapshotsInv, CopyCurrent, ForkFirst, PathIsReady
<1>7. RecShape' /\ CallShape' /\ Uploaded'
  BY <1>1, <1>3, <1>4 DEF RecShape, CallShape, Uploaded, Creating, Deleting
<1>8. ReadyStored' /\ LoadingLatest' /\ ChildFromOneSave'
  BY <1>1, <1>2, <1>3 DEF SnapshotsInv, ReadyStored, Complete, LoadingLatest, ChildFromOneSave, Loading
<1>9. ReadySettled'
  <2>1. Settled => Settled'
    BY <1>1, <1>2, <1>3 DEF Settled
  <2> QED
    BY <1>1, <1>2, <2>1 DEF SnapshotsInv, ReadySettled, Loading
<1> QED
  BY <1>5, <1>6, <1>7, <1>8, <1>9 DEF SnapshotsInv

-----------------------------------------------------------------------------
(* The SDK, the user and the informer.                                     *)

LEMMA ForkSnapshotKeeps ==
  ASSUME SnapshotsInv, ForkSnapshot
  PROVE  SnapshotsInv'
<1>1. /\ fork = "waitParent" /\ snap' = NewSnapshot /\ fresh' = FALSE /\ fork' = "waitReady"
      /\ UNCHANGED <<cache, parent, vm, saves, store, call, rec, kids, listed, faults>>
  BY DEF ForkSnapshot, kidVars
<1>2. snap = Null /\ cache = Null /\ rec.pc = "idle"
  BY <1>1 DEF SnapshotsInv, ForkFirst
<1>3. \A c \in Children : ~Loading(c)
  BY <1>1 DEF SnapshotsInv, ReadySettled, Settled
<1>4. snap' \in Snapshot /\ snap'.phase = "" /\ ~snap'.path
  BY <1>1, ConstantTypes
<1>5. TypeOK'
  BY <1>1, <1>4 DEF SnapshotsInv, TypeOK
<1>6. CopyCurrent' /\ ForkFirst' /\ PathIsReady'
  BY <1>1, <1>4 DEF CopyCurrent, ForkFirst, PathIsReady
<1>7. RecShape' /\ CallShape' /\ Uploaded'
  BY <1>1, <1>2 DEF SnapshotsInv, RecShape, CallShape, Uploaded, Creating, Deleting
<1>8. LoadingLatest' /\ ChildFromOneSave' /\ \A c \in Children : ~Loading(c)'
  BY <1>1, <1>3, QuietKids
<1>9. ReadyStored' /\ ReadySettled'
  BY <1>1, <1>2, <1>4, <1>8 DEF ReadyStored, ReadySettled
<1> QED
  BY <1>5, <1>6, <1>7, <1>8, <1>9 DEF SnapshotsInv

LEMMA DeleteSnapshotKeeps ==
  ASSUME SnapshotsInv, DeleteSnapshot
  PROVE  SnapshotsInv'
<1>0. TypeOK /\ rec \in Reconcile
  BY DEF SnapshotsInv, TypeOK
<1>1. /\ snap # Null /\ ~snap.deleted /\ fresh' = FALSE
      /\ UNCHANGED <<cache, parent, vm, saves, store, call, kids, listed, fork, faults>>
  BY DEF DeleteSnapshot, kidVars
<1>2. \/ snap' = Null
      \/ /\ snap' \in Snapshot /\ snap'.deleted /\ snap'.finalizer
         /\ snap'.phase = snap.phase /\ snap'.path = snap.path
  <2>1. snap \in Snapshot
    BY <1>0, <1>1 DEF TypeOK
  <2>2. snap' = IF snap.finalizer THEN [snap EXCEPT !.deleted = TRUE] ELSE Null
    BY DEF DeleteSnapshot
  <2> QED
    BY <2>1, <2>2 DEF Snapshot
<1>3. /\ rec' \in Reconcile /\ ~rec'.current
      /\ rec'.pc = rec.pc /\ rec'.obj = rec.obj /\ rec'.todo = rec.todo
  <2>1. rec' = [rec EXCEPT !.current = FALSE]
    BY DEF DeleteSnapshot
  <2> QED
    BY <1>0, <2>1 DEF Reconcile
<1>4. fork # "waitParent" /\ rec.pc \notin Deleting
  BY <1>1 DEF SnapshotsInv, ForkFirst, RecShape
<1>5. TypeOK'
  BY <1>0, <1>1, <1>2, <1>3 DEF TypeOK
<1>6. CopyCurrent' /\ ForkFirst' /\ PathIsReady'
  BY <1>1, <1>2, <1>4 DEF SnapshotsInv, CopyCurrent, ForkFirst, PathIsReady
<1>7. RecShape' /\ CallShape' /\ Uploaded'
  BY <1>1, <1>3, <1>4 DEF SnapshotsInv, RecShape, CallShape, Uploaded, Creating, Deleting
<1>8. ReadyStored' /\ LoadingLatest' /\ ChildFromOneSave'
  BY <1>1, <1>2, <1>3 DEF SnapshotsInv, ReadyStored, Complete, LoadingLatest, ChildFromOneSave, Loading
<1>9. ReadySettled'
  <2>1. Settled => Settled'
    BY <1>1, <1>2, <1>3 DEF Settled
  <2> QED
    BY <1>1, <1>2, <2>1 DEF SnapshotsInv, ReadySettled, Loading
<1> QED
  BY <1>5, <1>6, <1>7, <1>8, <1>9 DEF SnapshotsInv

LEMMA CacheCatchesUpKeeps ==
  ASSUME SnapshotsInv, CacheCatchesUp
  PROVE  SnapshotsInv'
<1>1. /\ cache' = snap /\ fresh' = TRUE
      /\ UNCHANGED <<snap, parent, vm, saves, store, call, rec, kids, listed, fork, faults>>
  BY DEF CacheCatchesUp, kidVars
<1>2. TypeOK' /\ CopyCurrent' /\ ForkFirst' /\ PathIsReady'
  BY <1>1 DEF SnapshotsInv, TypeOK, CopyCurrent, ForkFirst, PathIsReady
<1>3. RecShape' /\ CallShape' /\ Uploaded'
  BY <1>1 DEF SnapshotsInv, RecShape, CallShape, Uploaded
<1>4. ReadyStored' /\ LoadingLatest' /\ ChildFromOneSave'
  BY <1>1 DEF SnapshotsInv, ReadyStored, Complete, LoadingLatest, ChildFromOneSave, Loading
<1>5. ReadySettled'
  BY <1>1 DEF SnapshotsInv, ReadySettled, Settled, Loading
<1> QED
  BY <1>2, <1>3, <1>4, <1>5 DEF SnapshotsInv

-----------------------------------------------------------------------------
(* The theorems.                                                           *)

LEMMA SnapshotsInvInit == Init => SnapshotsInv
<1> SUFFICES ASSUME Init PROVE SnapshotsInv
  OBVIOUS
<1>1. TypeOK
  <2>1. saves \in Version /\ faults \in 0..MaxFaults
    BY SnapshotConstants DEF Init, Version
  <2>2. store \in [Objects -> Version] /\ call \in Call /\ rec \in Reconcile
    BY ConstantTypes DEF Init
  <2>3. kids \in [Children -> Child \cup {Null}] /\ listed \subseteq Children
    BY DEF Init
  <2>4. snap \in {Null} /\ cache \in {Null} /\ fresh \in BOOLEAN /\ vm \in BOOLEAN
    BY Zenon DEF Init
  <2>5. parent = "Starting" /\ fork = "waitParent"
    BY DEF Init
  <2> QED
    BY <2>1, <2>2, <2>3, <2>4, <2>5 DEF TypeOK
<1>2. rec.pc = "idle" /\ call.pc = "none" /\ ~call.attended
  BY ConstantTypes DEF Init
<1>3. \A c \in Children : kids[c] = Null
  BY DEF Init
<1>4. CopyCurrent /\ ForkFirst /\ PathIsReady
  BY <1>2 DEF Init, CopyCurrent, ForkFirst, PathIsReady
<1>5. RecShape /\ CallShape /\ Uploaded
  BY <1>2 DEF RecShape, CallShape, Uploaded, Creating, Deleting
<1>6. LoadingLatest /\ ChildFromOneSave
  BY <1>3 DEF LoadingLatest, ChildFromOneSave, Loading
<1>7. ReadyStored /\ ReadySettled
  BY <1>2, <1>3 DEF Init, ReadyStored, ReadySettled, Loading
<1> QED
  BY <1>1, <1>4, <1>5, <1>6, <1>7 DEF SnapshotsInv

LEMMA SnapshotsInvNext ==
  ASSUME StaleCache = FALSE
  PROVE  SnapshotsInv /\ [Next]_vars => SnapshotsInv'
<1> SUFFICES ASSUME SnapshotsInv, [Next]_vars PROVE SnapshotsInv'
  OBVIOUS
<1>1. CASE ReconcileStep
  BY <1>1, BeginKeeps, StartCallKeeps, SavingEnds, EraseFailsKeeps, WriteStatusKeeps, BeginDeleteKeeps, RefuseDeleteKeeps, RemoveFinalizerKeeps,
     EraseObjectKeeps DEF ReconcileStep
<1>2. CASE CallLost
  BY <1>2, SavingEnds
<1>3. CASE WorkerStep
  BY <1>3, UploadFailsKeeps, CallEndsKeeps, UploadObjectKeeps, EraseUploadKeeps DEF WorkerStep
<1>4. CASE LoadStep
  BY <1>4, LoadBeginKeeps, LoadObjectKeeps DEF LoadStep
<1>5. CASE InformerStep
  BY <1>5, CacheCatchesUpKeeps, OutsideKeeps DEF InformerStep
<1>6. CASE SdkStep
  BY <1>6, ForkSnapshotKeeps, ForkChildKeeps, OutsideKeeps DEF SdkStep
<1>7. CASE ParentStarts \/ ParentDeleted \/ UNCHANGED vars
  BY <1>7, OutsideKeeps
<1>8. CASE WorkerLost \/ DeleteSnapshot \/ \E c \in Children : ChildCreated(c) \/ ChildDeleted(c)
  BY <1>8, WorkerLostKeeps, DeleteSnapshotKeeps, ChildCreatedKeeps, ChildDeletedKeeps
<1> QED
  BY <1>1, <1>2, <1>3, <1>4, <1>5, <1>6, <1>7, <1>8 DEF Next

LEMMA SnapshotsInvariance ==
  ASSUME StaleCache = FALSE
  PROVE  Spec => []SnapshotsInv
<1>1. SnapshotsInv /\ [Next]_vars => SnapshotsInv'
  BY SnapshotsInvNext
<1> QED
  BY <1>1, SnapshotsInvInit, PTL DEF Spec

\* As long as a Ready snapshot is not deleted its manifest and all its files
\* are in the store, of one save, provided a reconcile starts from a current
\* copy.  (syncCreate, Upload, Delete)
THEOREM ReadySnapshotsAreComplete ==
  ASSUME StaleCache = FALSE
  PROVE  Spec => []ReadyIsComplete
<1>1. SnapshotsInv => ReadyIsComplete
  BY ConstantTypes DEF SnapshotsInv, ReadyStored, Complete, ReadyIsComplete
<1> QED
  BY <1>1, SnapshotsInvariance, PTL

\* What a child starts from is complete and of one save, whatever is uploaded
\* or deleted while it downloads.  (Download, Upload, syncDelete)
THEOREM ChildrenStartFromOneSave ==
  ASSUME StaleCache = FALSE
  PROVE  Spec => []ChildFromOneSave
<1>1. SnapshotsInv => ChildFromOneSave
  BY DEF SnapshotsInv
<1> QED
  BY <1>1, SnapshotsInvariance, PTL

-----------------------------------------------------------------------------
(* Erasing.  This part does not depend on how old the copy is that a       *)
(* reconcile starts from, so it has an invariant of its own: as long as no *)
(* call failed, no call is left running behind a reconcile, and the store  *)
(* is emptied by one actor.                                                *)

EraseTypes ==
  /\ snap \in Snapshot \cup {Null} /\ cache \in Snapshot \cup {Null} /\ fresh \in BOOLEAN
  /\ parent \in {"Starting", "Running", "Gone"}
  /\ rec \in Reconcile /\ store = [o \in Objects |-> store[o]] /\ faults \in Nat

\* A recorded path is there under the finalizer only.
PathIsGuarded == snap # Null /\ snap.path => snap.finalizer

\* A write that takes effect replaces the object the call has read, and a
\* call that creates has seen the finalizer.
WorksOn ==
  /\ rec.pc # "idle" => rec.obj \in Snapshot /\ (rec.current => snap = rec.obj)
  /\ rec.pc \in Creating => rec.obj.finalizer

NoneLeft == faults = 0 /\ rec.pc # "saving" => call.pc = "none"

\* Without a failed call what was to be erased is gone.
Erased ==
  /\ rec.pc = "erase" /\ faults = 0 => \A o \in Objects \ rec.todo : store[o] = 0
  /\ rec.pc = "finish" /\ faults = 0 /\ rec.obj.path => \A o \in Objects : store[o] = 0

EraseInv ==
  EraseTypes /\ CopyCurrent /\ ForkFirst /\ PathIsGuarded /\ WorksOn /\ NoneLeft /\ Erased

LEMMA Faulty == ASSUME EraseTypes, Fault PROVE faults' \in Nat /\ faults' # 0
BY DEF EraseTypes, Fault

\* A write stores its object or nothing, and nothing unless the copy is current.
LEMMA WriteStores ==
  ASSUME EraseTypes, NEW obj, Write(obj)
  PROVE  /\ faults' \in Nat /\ (faults' = 0 => faults = 0)
         /\ \/ rec.current /\ snap' = obj /\ fresh' = FALSE
            \/ UNCHANGED <<snap, fresh>>
<1>1. CASE UNCHANGED faults
  BY <1>1 DEF Write, EraseTypes, Fault
<1>2. CASE Fault /\ UNCHANGED <<snap, fresh>>
  BY <1>2, Faulty
<1> QED
  BY <1>1, <1>2 DEF Write

\* The Worker, the children, the parent and the SDK leave the snapshot and its
\* reconcile alone; the store too, unless a call is running.
LEMMA EraseFrame ==
  ASSUME EraseInv, UNCHANGED <<snap, cache, fresh, rec>>,
         parent' \in {"Starting", "Running", "Gone"}, fork' = "waitParent" => fork = "waitParent",
         faults' \in Nat, faults' = 0 => faults = 0,
         call.pc = "none" => UNCHANGED <<store, call>>,
         store' = [o \in Objects |-> store'[o]]
  PROVE  EraseInv'
<1>1. EraseTypes' /\ CopyCurrent' /\ ForkFirst' /\ PathIsGuarded'
  BY DEF EraseInv, EraseTypes, CopyCurrent, ForkFirst, PathIsGuarded
<1>2. WorksOn'
  BY DEF EraseInv, WorksOn
<1>3. NoneLeft'
  BY DEF EraseInv, NoneLeft
<1>4. Erased'
  BY DEF EraseInv, NoneLeft, Erased
<1> QED
  BY <1>1, <1>2, <1>3, <1>4 DEF EraseInv

\* Setting one object of the store.
LEMMA StoreShape ==
  ASSUME EraseTypes, NEW o \in Objects, NEW n, store' = [store EXCEPT ![o] = n]
  PROVE  /\ store' = [p \in Objects |-> store'[p]]
         /\ store'[o] = n /\ \A p \in Objects : p # o => store'[p] = store[p]
BY DEF EraseTypes

LEMMA CallErases ==
  ASSUME EraseInv,
         \/ UploadFails \/ CallEndsUnattended
         \/ \E o \in Objects : UploadObject(o) \/ EraseUpload(o)
  PROVE  EraseInv'
<1>0. EraseTypes
  BY DEF EraseInv
<1>1. UNCHANGED <<snap, cache, fresh, rec, parent, fork>>
  BY DEF UploadFails, CallEndsUnattended, UploadObject, EraseUpload, snapVars
<1>2. call.pc # "none"
  BY DEF UploadFails, CallEndsUnattended, UploadObject, EraseUpload
<1>3. faults' = faults \/ Fault
  BY DEF UploadFails, CallEndsUnattended, UploadObject, EraseUpload
<1>4. \/ store' = store
      \/ \E o \in Objects : store' = [store EXCEPT ![o] = saves] \/ store' = [store EXCEPT ![o] = 0]
  BY DEF UploadFails, CallEndsUnattended, UploadObject, EraseUpload, Put, Remove
<1>5. store' = [o \in Objects |-> store'[o]]
  <2>1. CASE store' = store
    BY <1>0, <2>1 DEF EraseTypes
  <2>2. ASSUME NEW o \in Objects, store' = [store EXCEPT ![o] = saves] \/ store' = [store EXCEPT ![o] = 0]
        PROVE  store' = [p \in Objects |-> store'[p]]
    BY <1>0, <2>2, StoreShape
  <2> QED
    BY <1>4, <2>1, <2>2
<1>6. faults' \in Nat /\ (faults' = 0 => faults = 0)
  BY <1>0, <1>3, Faulty DEF EraseTypes
<1>7. parent' \in {"Starting", "Running", "Gone"}
  BY <1>0, <1>1 DEF EraseTypes
<1> QED
  BY <1>1, <1>2, <1>5, <1>6, <1>7, EraseFrame

\* The children, the parent, the SDK once the snapshot is there, and the
\* Sandbox informer.
LEMMA OthersErase ==
  ASSUME EraseInv,
         \/ ForkSees \/ ForkReturns \/ ParentStarts \/ ParentDeleted \/ ChildrenListed \/ UNCHANGED vars
         \/ \E c \in Children : ForkChild(c) \/ ChildCreated(c) \/ ChildDeleted(c) \/ LoadBegin(c) \/ \E o \in Files : LoadObject(c, o)
  PROVE  EraseInv'
<1>0. EraseTypes
  BY DEF EraseInv
<1>1. UNCHANGED <<snap, cache, fresh, rec, store, call>>
  BY DEF ForkSees, ForkReturns, ParentStarts, ParentDeleted, ChildrenListed, ForkChild, ChildCreated, ChildDeleted,
     LoadBegin, LoadObject, vars, snapVars
<1>2. fork' = "waitParent" => fork = "waitParent"
  BY DEF ForkSees, ForkReturns, ParentStarts, ParentDeleted, ChildrenListed, ForkChild, ChildCreated, ChildDeleted,
     LoadBegin, LoadObject, vars
<1>3. faults' = faults \/ Fault
  BY DEF ForkSees, ForkReturns, ParentStarts, ParentDeleted, ChildrenListed, ForkChild, ChildCreated, ChildDeleted,
     LoadBegin, LoadObject, vars
<1>4. parent' = parent \/ parent' \in {"Running", "Gone"}
  BY DEF ForkSees, ForkReturns, ParentStarts, ParentDeleted, ChildrenListed, ForkChild, ChildCreated, ChildDeleted,
     LoadBegin, LoadObject, vars
<1>5. faults' \in Nat /\ (faults' = 0 => faults = 0)
  BY <1>0, <1>3, Faulty DEF EraseTypes
<1>6. parent' \in {"Starting", "Running", "Gone"} /\ store' = [o \in Objects |-> store'[o]]
  BY <1>0, <1>1, <1>4 DEF EraseTypes
<1> QED
  BY <1>1, <1>2, <1>5, <1>6, EraseFrame

\* The Worker's loss is a fault.
LEMMA WorkerLostErases ==
  ASSUME EraseInv, WorkerLost
  PROVE  EraseInv'
<1>0. EraseTypes
  BY DEF EraseInv
<1>1. /\ parent' = "Starting" /\ UNCHANGED <<snap, cache, fresh, rec, store, fork>>
      /\ call.pc = "none" => UNCHANGED call
  BY DEF WorkerLost, snapVars
<1>2. faults' \in Nat /\ faults' # 0
  BY <1>0, Faulty DEF WorkerLost
<1>3. store' = [o \in Objects |-> store'[o]]
  BY <1>0, <1>1 DEF EraseTypes
<1> QED
  BY <1>1, <1>2, <1>3, EraseFrame

\* The object, its copy and the SDK's snapshot; the store and the call stay.
LEMMA ObjectErases ==
  ASSUME EraseInv, CacheCatchesUp \/ RefuseDelete \/ ForkSnapshot \/ DeleteSnapshot
  PROVE  EraseInv'
<1>0. EraseTypes /\ rec \in Reconcile
  BY DEF EraseInv, EraseTypes
<1>1. UNCHANGED <<parent, store, call, faults>>
  BY DEF CacheCatchesUp, RefuseDelete, ForkSnapshot, DeleteSnapshot
<1>2. CASE CacheCatchesUp
  <2>1. UNCHANGED <<snap, rec, fork>> /\ cache' = snap /\ fresh' = TRUE
    BY <1>2 DEF CacheCatchesUp
  <2>2. EraseTypes' /\ CopyCurrent' /\ ForkFirst' /\ PathIsGuarded'
    BY <1>1, <2>1 DEF EraseInv, EraseTypes, CopyCurrent, ForkFirst, PathIsGuarded
  <2>3. WorksOn' /\ NoneLeft' /\ Erased'
    BY <1>1, <2>1 DEF EraseInv, WorksOn, NoneLeft, Erased
  <2> QED
    BY <2>2, <2>3 DEF EraseInv
<1>3. CASE ForkSnapshot
  <2>1. /\ fork = "waitParent" /\ snap' = NewSnapshot /\ fresh' = FALSE /\ fork' = "waitReady"
        /\ UNCHANGED <<cache, rec>>
    BY <1>3 DEF ForkSnapshot
  <2>2. rec.pc = "idle"
    BY <2>1 DEF EraseInv, ForkFirst
  <2>3. EraseTypes' /\ CopyCurrent' /\ ForkFirst' /\ PathIsGuarded'
    BY <1>0, <1>1, <2>1, ConstantTypes DEF EraseTypes, CopyCurrent, ForkFirst, PathIsGuarded
  <2>4. WorksOn' /\ NoneLeft' /\ Erased'
    BY <1>1, <2>1, <2>2 DEF EraseInv, WorksOn, NoneLeft, Erased, Creating
  <2> QED
    BY <2>3, <2>4 DEF EraseInv
<1>4. CASE DeleteSnapshot
  <2>1. /\ snap # Null /\ fresh' = FALSE /\ UNCHANGED <<cache, fork>>
        /\ snap' = IF snap.finalizer THEN [snap EXCEPT !.deleted = TRUE] ELSE Null
        /\ rec' = [rec EXCEPT !.current = FALSE]
    BY <1>4 DEF DeleteSnapshot
  <2>2. /\ rec' \in Reconcile /\ ~rec'.current
        /\ rec'.pc = rec.pc /\ rec'.obj = rec.obj /\ rec'.todo = rec.todo
    BY <1>0, <2>1 DEF Reconcile
  <2>3. snap' = Null \/ (snap' \in Snapshot /\ snap'.finalizer)
    BY <1>0, <2>1 DEF EraseTypes, Snapshot
  <2>4. fork # "waitParent"
    BY <2>1 DEF EraseInv, ForkFirst
  <2>5. EraseTypes' /\ CopyCurrent' /\ ForkFirst' /\ PathIsGuarded'
    BY <1>0, <1>1, <2>1, <2>2, <2>3, <2>4 DEF EraseTypes, CopyCurrent, ForkFirst, PathIsGuarded
  <2>6. WorksOn' /\ NoneLeft' /\ Erased'
    BY <1>1, <2>2 DEF EraseInv, WorksOn, NoneLeft, Erased
  <2> QED
    BY <2>5, <2>6 DEF EraseInv
<1>5. CASE RefuseDelete
  <2>1. rec.pc = "idle" /\ fresh' = FALSE /\ UNCHANGED <<cache, rec, fork>>
    BY <1>5 DEF RefuseDelete
  <2>2. snap \in Snapshot /\ snap' = [snap EXCEPT !.ready = FALSE]
    BY <1>0, <1>5 DEF RefuseDelete, EraseInv, CopyCurrent, EraseTypes
  <2>3. /\ snap' \in Snapshot /\ snap' # Null /\ snap # Null
        /\ snap'.path = snap.path /\ snap'.finalizer = snap.finalizer
    BY <2>2, ConstantTypes DEF Snapshot
  <2>4. EraseTypes' /\ CopyCurrent' /\ ForkFirst' /\ PathIsGuarded'
    BY <1>0, <1>1, <2>1, <2>3 DEF EraseInv, EraseTypes, CopyCurrent, ForkFirst, PathIsGuarded
  <2>5. WorksOn' /\ NoneLeft' /\ Erased'
    BY <1>1, <2>1 DEF EraseInv, WorksOn, NoneLeft, Erased, Creating
  <2> QED
    BY <2>4, <2>5 DEF EraseInv
<1> QED
  BY <1>2, <1>3, <1>4, <1>5

\* A reconcile begins, from any copy.
LEMMA BeginErases ==
  ASSUME EraseInv, Begin
  PROVE  EraseInv' /\ (snap # Null => snap' # Null)
<1>0. EraseTypes
  BY DEF EraseInv
<1>1. rec.pc = "idle" /\ cache \in Snapshot /\ UNCHANGED <<cache, parent, store, call, fork, faults>>
  BY <1>0 DEF Begin, EraseTypes
<1>2. fork # "waitParent"
  BY DEF Begin, EraseInv, ForkFirst
<1>3. CASE ~cache.finalizer
  <2>1. /\ UNCHANGED rec
        /\ \/ fresh /\ snap' = [snap EXCEPT !.finalizer = TRUE] /\ fresh' = FALSE
           \/ UNCHANGED <<snap, fresh>>
    BY <1>3 DEF Begin
  <2>2. \/ snap' \in Snapshot /\ snap'.finalizer /\ fresh' = FALSE
        \/ UNCHANGED <<snap, fresh>>
    <3>1. fresh => snap \in Snapshot
      BY <1>1 DEF EraseInv, CopyCurrent
    <3> QED
      BY <2>1, <3>1 DEF Snapshot
  <2>3. EraseTypes' /\ CopyCurrent' /\ ForkFirst' /\ PathIsGuarded'
    <3>1. CASE snap' \in Snapshot /\ snap'.finalizer /\ fresh' = FALSE
      BY <1>0, <1>1, <1>2, <2>1, <3>1 DEF EraseTypes, CopyCurrent, ForkFirst, PathIsGuarded
    <3>2. CASE UNCHANGED <<snap, fresh>>
      BY <1>1, <1>2, <2>1, <3>2 DEF EraseInv, EraseTypes, CopyCurrent, ForkFirst, PathIsGuarded
    <3> QED
      BY <2>2, <3>1, <3>2
  <2>4. WorksOn' /\ NoneLeft' /\ Erased'
    BY <1>1, <2>1 DEF EraseInv, WorksOn, NoneLeft, Erased, Creating
  <2> QED
    BY <2>2, <2>3, <2>4, ConstantTypes DEF EraseInv
<1>4. CASE cache.finalizer
  <2> DEFINE pc == CASE parent = "Gone"     -> "fail"
                     [] parent = "Starting" -> "pending"
                     [] parent = "Running"  -> "call"
  <2>1. UNCHANGED <<snap, fresh>> /\ Reconciling(pc, cache)
    BY <1>4, Zenon DEF Begin
  <2>2. parent \in {"Starting", "Running", "Gone"}
    BY <1>0 DEF EraseTypes
  <2>3. pc \in {"fail", "pending", "call"}
    BY <2>2
  <2> HIDE DEF pc
  <2>4. rec' \in Reconcile /\ rec'.pc = pc /\ rec'.obj = cache /\ rec'.current = fresh
    BY <1>0, <1>1, <2>1, <2>3 DEF Reconciling, EraseTypes, Idle, Reconcile
  <2>5. EraseTypes' /\ CopyCurrent' /\ ForkFirst' /\ PathIsGuarded'
    BY <1>1, <1>2, <2>1, <2>4 DEF EraseInv, EraseTypes, CopyCurrent, ForkFirst, PathIsGuarded
  <2>6. WorksOn'
    BY <1>1, <1>4, <2>1, <2>4 DEF EraseInv, CopyCurrent, WorksOn
  <2>7. NoneLeft' /\ Erased'
    BY <1>1, <2>3, <2>4 DEF EraseInv, NoneLeft, Erased
  <2> QED
    BY <2>1, <2>5, <2>6, <2>7 DEF EraseInv
<1> QED
  BY <1>1, <1>3, <1>4 DEF Snapshot

\* The Worker is called, or the reconcile ends without.
LEMMA StartCallErases ==
  ASSUME EraseInv, StartCall
  PROVE  EraseInv'
<1>0. EraseTypes /\ rec \in Reconcile
  BY DEF EraseInv, EraseTypes
<1>1. rec.pc = "call" /\ UNCHANGED <<snap, cache, fresh, parent, store, fork>>
  BY DEF StartCall, snapVars
<1>2. \E pc \in {"fail", "retry", "saving"} :
        rec' = [rec EXCEPT !.pc = pc] /\ (pc # "saving" => UNCHANGED call)
  BY DEF StartCall
<1>3. /\ rec' \in Reconcile /\ rec'.pc \in {"fail", "retry", "saving"}
      /\ rec'.obj = rec.obj /\ rec'.current = rec.current
      /\ rec'.pc # "saving" => UNCHANGED call
  BY <1>0, <1>2 DEF Reconcile
<1>4. faults' \in Nat /\ (faults' = 0 => faults = 0)
  <2>1. faults' = faults \/ Fault
    BY DEF StartCall, SaveSnapshot
  <2> QED
    BY <1>0, <2>1, Faulty DEF EraseTypes
<1>5. EraseTypes' /\ CopyCurrent' /\ ForkFirst' /\ PathIsGuarded'
  BY <1>1, <1>3, <1>4 DEF EraseInv, EraseTypes, CopyCurrent, ForkFirst, PathIsGuarded
<1>6. WorksOn' /\ NoneLeft' /\ Erased'
  BY <1>1, <1>3, <1>4 DEF EraseInv, WorksOn, NoneLeft, Erased, Creating
<1> QED
  BY <1>5, <1>6 DEF EraseInv

\* A clean-up that fails is a fault.
LEMMA EraseFailsErases ==
  ASSUME EraseInv, EraseFails
  PROVE  EraseInv'
<1>0. EraseTypes /\ rec \in Reconcile
  BY DEF EraseInv, EraseTypes
<1>1. rec.pc \in {"wipe", "erase"} /\ UNCHANGED <<snap, cache, fresh, parent, store, call, fork>>
  BY DEF EraseFails, snapVars
<1>2. /\ rec' \in Reconcile /\ rec'.obj = rec.obj /\ rec'.current = rec.current
      /\ rec'.pc = IF rec.pc = "wipe" THEN "fail" ELSE "finish"
  <2>1. rec' = [rec EXCEPT !.todo = {}, !.pc = IF @ = "wipe" THEN "fail" ELSE "finish"]
    BY DEF EraseFails
  <2> QED
    BY <1>0, <1>1, <2>1 DEF Reconcile
<1>3. faults' \in Nat /\ faults' # 0
  BY <1>0, Faulty DEF EraseFails
<1>4. EraseTypes' /\ CopyCurrent' /\ ForkFirst' /\ PathIsGuarded'
  BY <1>1, <1>2, <1>3 DEF EraseInv, EraseTypes, CopyCurrent, ForkFirst, PathIsGuarded
<1>5. WorksOn' /\ NoneLeft' /\ Erased'
  BY <1>1, <1>2, <1>3 DEF EraseInv, WorksOn, NoneLeft, Erased, Creating
<1> QED
  BY <1>4, <1>5 DEF EraseInv

\* The end of the call, or of waiting for it.
LEMMA SavedErases ==
  ASSUME EraseInv, CallReturns \/ CallLost
  PROVE  EraseInv'
<1>0. EraseTypes /\ rec \in Reconcile
  BY DEF EraseInv, EraseTypes
<1>1. rec.pc = "saving" /\ UNCHANGED <<snap, cache, fresh, parent, store, fork>>
  BY DEF CallReturns, CallLost, snapVars
<1>2. /\ rec' \in Reconcile /\ rec'.pc \in {"ready", "wipe"}
      /\ rec'.obj = rec.obj /\ rec'.current = rec.current
  BY <1>0, DeleteListType DEF CallReturns, CallLost, Reconcile
<1>3. /\ faults' \in Nat /\ (faults' = 0 => faults = 0)
      /\ faults' = 0 => call'.pc = "none"
  <2>1. CASE CallReturns
    BY <1>0, <2>1, ConstantTypes DEF CallReturns, EraseTypes
  <2>2. CASE CallLost
    BY <1>0, <2>2, Faulty DEF CallLost
  <2> QED
    BY <2>1, <2>2
<1>4. EraseTypes' /\ CopyCurrent' /\ ForkFirst' /\ PathIsGuarded'
  BY <1>1, <1>2, <1>3 DEF EraseInv, EraseTypes, CopyCurrent, ForkFirst, PathIsGuarded
<1>5. WorksOn' /\ NoneLeft' /\ Erased'
  BY <1>1, <1>2, <1>3 DEF EraseInv, WorksOn, NoneLeft, Erased, Creating
<1> QED
  BY <1>4, <1>5 DEF EraseInv

\* One object is erased: without a failed call it is gone.
LEMMA EraseObjectErases ==
  ASSUME EraseInv, NEW o \in Objects, EraseObject(o)
  PROVE  EraseInv'
<1>0. EraseTypes /\ rec \in Reconcile
  BY DEF EraseInv, EraseTypes
<1>1. /\ rec.pc \in {"wipe", "erase"} /\ o \in rec.todo /\ (o = Manifest => rec.todo = {Manifest})
      /\ UNCHANGED <<snap, cache, fresh, parent, call, fork>>
  BY DEF EraseObject, InOrder, snapVars
<1>2. /\ rec' \in Reconcile /\ rec'.obj = rec.obj /\ rec'.current = rec.current /\ rec'.todo = rec.todo \ {o}
      /\ rec'.pc = IF o # Manifest THEN rec.pc ELSE IF rec.pc = "wipe" THEN "fail" ELSE "finish"
  <2>1. rec' = [rec EXCEPT !.todo = @ \ {o},
                           !.pc = IF o # Manifest THEN @ ELSE IF @ = "wipe" THEN "fail" ELSE "finish"]
    BY DEF EraseObject
  <2> QED
    BY <1>0, <1>1, <2>1 DEF Reconcile
<1>3. /\ store' = [p \in Objects |-> store'[p]]
      /\ faults' \in Nat /\ (faults' = 0 => faults = 0)
      /\ faults' = 0 => store'[o] = 0 /\ \A p \in Objects : p # o => store'[p] = store[p]
  <2>1. CASE Remove(o) /\ UNCHANGED faults
    BY <1>0, <2>1, StoreShape DEF Remove, EraseTypes
  <2>2. CASE Fault /\ UNCHANGED store
    BY <1>0, <2>2, Faulty DEF EraseTypes
  <2> QED
    BY <2>1, <2>2 DEF EraseObject
<1>4. EraseTypes' /\ CopyCurrent' /\ ForkFirst' /\ PathIsGuarded'
  BY <1>1, <1>2, <1>3 DEF EraseInv, EraseTypes, CopyCurrent, ForkFirst, PathIsGuarded
<1>5. WorksOn' /\ NoneLeft'
  BY <1>1, <1>2, <1>3 DEF EraseInv, WorksOn, NoneLeft, Creating
<1>6. Erased'
  <2> SUFFICES ASSUME faults' = 0, rec'.pc \in {"erase", "finish"}
               PROVE  /\ \A p \in Objects \ rec'.todo : store'[p] = 0
                      /\ rec'.pc = "finish" => rec'.todo = {}
    BY DEF Erased
  <2>1. rec.pc = "erase" /\ (rec'.pc = "finish" => o = Manifest)
    BY <1>1, <1>2
  <2>2. \A p \in Objects \ rec.todo : store[p] = 0
    BY <1>3, <2>1 DEF EraseInv, Erased
  <2> QED
    BY <1>1, <1>2, <1>3, <2>1, <2>2
<1> QED
  BY <1>4, <1>5, <1>6 DEF EraseInv

\* Deletion begins: everything has to go, or there was no path.
LEMMA BeginDeleteErases ==
  ASSUME EraseInv, BeginDelete
  PROVE  EraseInv'
<1>0. EraseTypes /\ fresh \in BOOLEAN
  BY DEF EraseInv, EraseTypes
<1>1. /\ rec.pc = "idle" /\ cache \in Snapshot
      /\ UNCHANGED <<snap, cache, fresh, parent, store, call, fork>>
  BY <1>0 DEF BeginDelete, EraseTypes, snapVars
<1>2. /\ rec' \in Reconcile /\ rec'.obj = cache /\ rec'.current = fresh
      /\ faults' \in Nat /\ (faults' = 0 => faults = 0)
      /\ \/ rec'.pc = "erase" /\ rec'.todo = Objects
         \/ rec'.pc = "finish" /\ (faults' # 0 \/ ~cache.path)
  <2>1. CASE cache.path /\ rec' = [Idle EXCEPT !.pc = "erase", !.obj = cache, !.current = fresh, !.todo = Objects]
             /\ UNCHANGED faults
    BY <1>0, <1>1, <2>1 DEF Reconcile, Idle, EraseTypes
  <2>2. CASE Reconciling("finish", cache) /\ (Fault \/ (~cache.path /\ UNCHANGED faults))
    <3>1. rec' \in Reconcile /\ rec'.obj = cache /\ rec'.current = fresh /\ rec'.pc = "finish"
      BY <1>0, <1>1, <2>2 DEF Reconciling, Reconcile, Idle
    <3> QED
      BY <1>0, <2>2, <3>1, Faulty DEF EraseTypes
  <2> QED
    BY <2>1, <2>2 DEF BeginDelete
<1>3. fork # "waitParent"
  BY DEF BeginDelete, EraseInv, ForkFirst
<1>4. EraseTypes' /\ CopyCurrent' /\ ForkFirst' /\ PathIsGuarded'
  BY <1>1, <1>2, <1>3 DEF EraseInv, EraseTypes, CopyCurrent, ForkFirst, PathIsGuarded
<1>5. WorksOn' /\ NoneLeft' /\ Erased'
  BY <1>1, <1>2 DEF EraseInv, CopyCurrent, WorksOn, NoneLeft, Erased, Creating
<1> QED
  BY <1>4, <1>5 DEF EraseInv

\* A reconcile writes its result.
LEMMA WriteErases ==
  ASSUME EraseInv, WriteStatus \/ RemoveFinalizer
  PROVE  EraseInv' /\ (WriteStatus /\ snap # Null => snap' # Null)
<1>0. EraseTypes
  BY DEF EraseInv
<1>1. rec' = Idle /\ rec.pc \notin {"idle", "saving"} /\ UNCHANGED <<cache, parent, store, call, fork>>
  BY DEF WriteStatus, RemoveFinalizer
<1>2. rec' \in Reconcile /\ rec'.pc = "idle"
  BY <1>1, ConstantTypes
<1>3. fork # "waitParent" /\ rec.obj \in Snapshot
  BY <1>1 DEF EraseInv, ForkFirst, WorksOn
<1>4. /\ faults' \in Nat /\ (faults' = 0 => faults = 0)
      /\ \/ snap' = Null /\ fresh' = FALSE /\ ~WriteStatus
         \/ snap' \in Snapshot /\ snap'.finalizer /\ fresh' = FALSE
         \/ UNCHANGED <<snap, fresh>>
  <2>1. CASE WriteStatus
    <3> DEFINE obj == CASE rec.pc = "ready"   -> [rec.obj EXCEPT !.phase = "Ready", !.ready = TRUE, !.path = TRUE]
                        [] rec.pc = "fail"    -> [rec.obj EXCEPT !.phase = "Failed", !.ready = FALSE]
                        [] rec.pc = "pending" -> [rec.obj EXCEPT !.phase = "Pending", !.ready = FALSE]
                        [] rec.pc = "retry"   -> [rec.obj EXCEPT !.ready = FALSE]
    <3>1. Write(obj) /\ rec.pc \in {"ready", "fail", "pending", "retry"}
      BY <2>1 DEF WriteStatus
    <3>2. rec.obj.finalizer
      BY <3>1 DEF EraseInv, WorksOn, Creating
    <3>3. obj \in Snapshot /\ obj.finalizer
      BY <1>3, <3>1, <3>2 DEF Snapshot
    <3> HIDE DEF obj
    <3> QED
      BY <1>0, <3>1, <3>3, WriteStores
  <2>2. CASE RemoveFinalizer
    <3>1. rec.pc = "finish" /\ Write(Null)
      BY <2>2 DEF RemoveFinalizer
    <3>2. ~WriteStatus
      BY <3>1 DEF WriteStatus
    <3> QED
      BY <1>0, <3>1, <3>2, WriteStores
  <2> QED
    BY <2>1, <2>2
<1>5. EraseTypes' /\ CopyCurrent' /\ ForkFirst' /\ PathIsGuarded'
  <2>1. CASE snap' = Null /\ fresh' = FALSE
    BY <1>0, <1>1, <1>2, <1>3, <1>4, <2>1 DEF EraseTypes, CopyCurrent, ForkFirst, PathIsGuarded
  <2>2. CASE snap' \in Snapshot /\ snap'.finalizer /\ fresh' = FALSE
    BY <1>0, <1>1, <1>2, <1>3, <1>4, <2>2 DEF EraseTypes, CopyCurrent, ForkFirst, PathIsGuarded
  <2>3. CASE UNCHANGED <<snap, fresh>>
    BY <1>1, <1>2, <1>3, <1>4, <2>3 DEF EraseInv, EraseTypes, CopyCurrent, ForkFirst, PathIsGuarded
  <2> QED
    BY <1>4, <2>1, <2>2, <2>3
<1>6. WorksOn' /\ NoneLeft' /\ Erased'
  BY <1>1, <1>2, <1>4 DEF EraseInv, WorksOn, NoneLeft, Erased, Creating
<1> QED
  BY <1>4, <1>5, <1>6, ConstantTypes DEF EraseInv

LEMMA EraseInvariance == Spec => []EraseInv
<1>1. Init => EraseInv
  <2> SUFFICES ASSUME Init PROVE EraseInv
    OBVIOUS
  <2>1. rec \in Reconcile /\ rec.pc = "idle" /\ call.pc = "none"
    BY ConstantTypes DEF Init
  <2>2. snap = Null /\ cache = Null /\ fresh \in BOOLEAN
    BY Zenon DEF Init
  <2>3. EraseTypes
    BY <2>1, <2>2 DEF Init, EraseTypes, Empty
  <2>4. CopyCurrent /\ ForkFirst /\ PathIsGuarded /\ WorksOn /\ NoneLeft /\ Erased
    BY <2>1, <2>2 DEF CopyCurrent, ForkFirst, PathIsGuarded, WorksOn, NoneLeft, Erased, Creating
  <2> QED
    BY <2>3, <2>4 DEF EraseInv
<1>2. EraseInv /\ [Next]_vars => EraseInv'
  <2> SUFFICES ASSUME EraseInv, [Next]_vars PROVE EraseInv'
    OBVIOUS
  <2>1. CASE ReconcileStep
    BY <2>1, BeginErases, StartCallErases, SavedErases, EraseFailsErases, WriteErases, BeginDeleteErases, ObjectErases,
       EraseObjectErases DEF ReconcileStep
  <2>2. CASE CallLost \/ WorkerStep
    BY <2>2, SavedErases, CallErases DEF WorkerStep
  <2>3. CASE LoadStep \/ \E c \in Children : ChildCreated(c) \/ ChildDeleted(c)
    BY <2>3, OthersErase DEF LoadStep
  <2>4. CASE InformerStep \/ DeleteSnapshot
    BY <2>4, ObjectErases, OthersErase DEF InformerStep
  <2>5. CASE SdkStep
    BY <2>5, ObjectErases, OthersErase DEF SdkStep
  <2>6. CASE ParentStarts \/ ParentDeleted \/ WorkerLost \/ UNCHANGED vars
    BY <2>6, OthersErase, WorkerLostErases
  <2> QED
    BY <2>1, <2>2, <2>3, <2>4, <2>5, <2>6 DEF Next
<1> QED
  BY <1>1, <1>2, PTL DEF Spec

\* Unless a call failed or something was not found, a snapshot that was Ready
\* leaves no object in the store when its finalizer is removed, however old the
\* copies are that reconciles start from.  (syncDelete, Delete)
THEOREM RemovalErases == Spec => ErasedOnRemoval
<1>1. EraseInv /\ [Next]_vars =>
        [snap # Null /\ snap' = Null /\ snap.path /\ faults = 0 => store' = Empty]_vars
  <2> SUFFICES ASSUME EraseInv, Next, snap # Null, snap' = Null, snap.path, faults = 0
               PROVE  store' = Empty
    OBVIOUS
  <2>1. snap.finalizer /\ snap \in Snapshot
    BY DEF EraseInv, PathIsGuarded, EraseTypes
  <2>2. CASE RemoveFinalizer
    <3>1. rec.pc = "finish" /\ Write(Null) /\ UNCHANGED store
      BY <2>2 DEF RemoveFinalizer
    <3>2. rec.current
      BY <3>1, WriteStores DEF EraseInv
    <3>3. \A o \in Objects : store[o] = 0
      BY <3>1, <3>2 DEF EraseInv, WorksOn, Erased
    <3> QED
      BY <3>1, <3>3 DEF EraseInv, EraseTypes, Empty
  <2>3. CASE DeleteSnapshot
    <3>1. snap' = [snap EXCEPT !.deleted = TRUE]
      BY <2>1, <2>3 DEF DeleteSnapshot
    <3> QED
      BY <2>1, <3>1, ConstantTypes DEF Snapshot
  <2>4. CASE Begin \/ WriteStatus
    BY <2>4, BeginErases, WriteErases
  <2>5. CASE ForkSnapshot
    BY <2>5, ConstantTypes DEF ForkSnapshot
  <2>6. CASE StartCall \/ CallReturns \/ EraseFails \/ BeginDelete \/ CallLost \/ InformerStep
    BY <2>6 DEF StartCall, CallReturns, EraseFails, BeginDelete, CallLost, InformerStep, CacheCatchesUp,
       ChildrenListed, snapVars
  <2>7. ASSUME NEW o \in Objects, EraseObject(o) \/ UploadObject(o) \/ EraseUpload(o)
        PROVE  FALSE
    BY <2>7 DEF EraseObject, UploadObject, EraseUpload, snapVars
  <2>8. CASE UploadFails \/ CallEndsUnattended \/ ForkSees \/ ForkReturns \/ ParentStarts \/ ParentDeleted \/ WorkerLost
    BY <2>8 DEF UploadFails, CallEndsUnattended, ForkSees, ForkReturns, ParentStarts, ParentDeleted, WorkerLost, snapVars
  <2>9. ASSUME NEW c \in Children,
               ForkChild(c) \/ ChildCreated(c) \/ ChildDeleted(c) \/ LoadBegin(c) \/ \E o \in Files : LoadObject(c, o)
        PROVE  FALSE
    BY <2>9 DEF ForkChild, ChildCreated, ChildDeleted, LoadBegin, LoadObject, snapVars
  <2>10. CASE RefuseDelete
    <3>1. snap' = [snap EXCEPT !.ready = FALSE]
      BY <2>10 DEF RefuseDelete
    <3> QED
      BY <2>1, <3>1, ConstantTypes DEF Snapshot
  <2> QED
    BY <2>2, <2>3, <2>4, <2>5, <2>6, <2>7, <2>8, <2>9, <2>10 DEF Next, ReconcileStep, WorkerStep, LoadStep, SdkStep
<1> QED
  BY <1>1, EraseInvariance, PTL DEF Spec, ErasedOnRemoval
=============================================================================
