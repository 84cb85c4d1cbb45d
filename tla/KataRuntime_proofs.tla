------------------------ MODULE KataRuntime_proofs ------------------------
(***************************************************************************)
(* Micro-VMs of one Worker, for any number of Sandboxes and Slots, any       *)
(* schedule, any lineage and any number of faults.                           *)
(*                                                                         *)
(* The invariant has two parts.  KataInv is what every call keeps for its    *)
(* own Sandbox and no clean-up for another Sandbox can take away; it implies *)
(* NothingOutlives.  LineageInv (no two forks of one snapshot) says that a   *)
(* base id has one user at a time, for BootsDoNotCollide, OnlyOwnCallsEndAVM *)
(* and the refinement of RuntimeContract.  Neither speaks of what a killed   *)
(* VMM holds until it has exited.                                            *)
(***************************************************************************)
EXTENDS KataRuntime, SequenceTheorems, TLAPS

\* No two Sandboxes are forked from the same one.
LinearLineage ==
  \A m, n \in Sandboxes : From[m] = From[n] /\ From[m] # Null => m = n

\* What is left of the call t before its i-th step.
Left(t, i) == SubSeq(t, i, Len(t))

Live(n)   == InCall(n) \/ n \in ref
PathOf(n) == IF n \in ref THEN SaveSteps ELSE IF ColdBooted(n) THEN ColdBootSteps ELSE LoadSteps
At(n, i)  == todo[n] = Left(PathOf(n), i)

\* A call is at a step of the call its Sandbox may be in, or being undone.
OnPath(n) ==
  \/ todo[n] = <<>>
  \/ n \notin ref /\ todo[n] = UndoSteps
  \/ \E i \in 1 .. Len(PathOf(n)) : At(n, i)

\* What the i-th step of a boot finds: no tap before "net", and a record only
\* at the last step of a restore.
Booting(n, i) ==
  /\ i <= (IF ColdBooted(n) THEN 5 ELSE 4) => n \notin tap
  /\ record[n] # Null <=> (~ColdBooted(n) /\ i = 8)

SandboxInv(n) ==
  /\ OnPath(n)
  /\ Live(n) => slot[n] = "held" /\ (ColdBooted(n) \/ saved[From[n]] # Null)
  /\ ~Live(n) => ~Holds(n)
  /\ record[n] # Null => record[n] = BaseID(n)
  /\ n \in ref => record[n] # Null
  /\ todo[n] = UndoSteps => record[n] = Null
  /\ n \notin ref => \A i \in 1 .. 8 : At(n, i) => Booting(n, i)

\* A saved Sandbox has ended, and so has the one its lineage was booted as.
SavedInv ==
  \A f \in Sandboxes : saved[f] # Null =>
    /\ slot[f] \in {"ended", "gone"}
    /\ ColdBooted(saved[f].base) /\ saved[saved[f].base] # Null

\* A Slot has one Sandbox at a time.
Holders ==
  \A m, n \in Sandboxes :
    SlotOf[m] = SlotOf[n] /\ slot[m] \in {"held", "ended"} /\ slot[n] \in {"held", "ended"} => m = n

Types ==
  /\ slot \in [Sandboxes -> {"new", "held", "ended", "gone"}] /\ ref \subseteq Sandboxes
  /\ DOMAIN todo = Sandboxes
  /\ record \in [Sandboxes -> Sandboxes \cup {Null}]
  /\ vmdir \subseteq Sandboxes /\ image \subseteq vmdir
  /\ bundle \subseteq Sandboxes /\ share \subseteq Sandboxes
  /\ vfsd \subseteq Sandboxes /\ tap \subseteq Sandboxes
  /\ vmm \in [Sandboxes -> {"none", "up", "running", "paused"}]
  /\ delta \in [Sandboxes -> {"none", "dirty", "whole"}]
  /\ saved \in [Sandboxes -> Snapshot \cup {Null}]
  /\ faults \in 0 .. MaxFaults

KataInv == Types /\ Holders /\ SavedInv /\ \A n \in Sandboxes : SandboxInv(n)

\* Who belongs to the lineage of b, and is its last member.
InLineage(x, b) ==
  \/ saved[x] # Null /\ saved[x].base = b
  \/ Live(x) /\ BaseID(x) = b
Tip(x, b) == InLineage(x, b) /\ \A z \in Sandboxes : InLineage(z, b) => From[z] # x

OneTip == \A b, x, y \in Sandboxes : Tip(x, b) /\ Tip(y, b) => x = y
Staged == \A n \in Sandboxes : n \notin ref /\ At(n, 3) => BaseID(n) \in share

SavedParents ==
  \A f \in Sandboxes : saved[f] # Null /\ ~ColdBooted(f) => saved[From[f]] # Null

LineageInv == OneTip /\ Staged /\ SavedParents

-----------------------------------------------------------------------------
(* The steps of a call.                                                     *)

\* The calls are sequences of steps, of these lengths.
LEMMA Calls ==
  /\ ColdBootSteps \in Seq(Steps) /\ Len(ColdBootSteps) = 8
  /\ LoadSteps \in Seq(Steps) /\ Len(LoadSteps) = 8
  /\ SaveSteps \in Seq(Steps) /\ Len(SaveSteps) = 4
  /\ UndoSteps # <<>> /\ Head(UndoSteps) = "undo" /\ Len(UndoSteps) = 1
BY DEF ColdBootSteps, LoadSteps, SaveSteps, UndoSteps, Steps

\* Before its i-th step a call is at t[i], and goes on to the next one.
LEMMA Suffixes ==
  ASSUME NEW t \in Seq(Steps)
  PROVE  /\ Left(t, Len(t) + 1) = <<>>
         /\ Len(t) > 0 => Left(t, 1) = t
         /\ \A i \in 1 .. Len(t) :
              /\ Left(t, i) # <<>> /\ Head(Left(t, i)) = t[i]
              /\ Tail(Left(t, i)) = Left(t, i + 1)
         /\ \A i, j \in 1 .. Len(t) + 1 : Left(t, i) = Left(t, j) => i = j
<1>0. Len(t) \in Nat
  OBVIOUS
<1>1. Left(t, 1) = t
  BY SubSeqFull DEF Left
<1>2. Left(t, Len(t) + 1) = <<>>
  BY <1>0, SubSeqEmpty DEF Left
<1>3. ASSUME NEW i \in 1 .. Len(t)
      PROVE  Head(Left(t, i)) = t[i] /\ Tail(Left(t, i)) = Left(t, i + 1)
  BY <1>0, HeadTailOfSubSeq DEF Left
<1>4. ASSUME NEW i \in 1 .. Len(t) + 1 PROVE Len(Left(t, i)) = Len(t) - i + 1
  <2>1. \A j \in i .. Len(t) : t[j] \in Steps
    BY <1>0
  <2> QED
    BY <1>0, <2>1, SubSeqProperties DEF Left
<1>5. \A i \in 1 .. Len(t) : Left(t, i) # <<>>
  <2>1. Len(<<>>) = 0
    OBVIOUS
  <2> QED
    BY <2>1, <1>0, <1>4
<1>6. \A i, j \in 1 .. Len(t) + 1 : Left(t, i) = Left(t, j) => i = j
  BY <1>0, <1>4
<1> QED
  BY <1>1, <1>2, <1>3, <1>5, <1>6

\* Which step of a cold boot is which.
LEMMA ColdBootPositions ==
  ASSUME NEW i \in 1 .. 8
  PROVE  /\ (ColdBootSteps[i] = "rootfs" <=> i = 1)
         /\ (ColdBootSteps[i] = "share" <=> i = 2)
         /\ (ColdBootSteps[i] = "vfsd" <=> i = 3)
         /\ (ColdBootSteps[i] = "vmm" <=> i = 4)
         /\ (ColdBootSteps[i] = "net" <=> i = 5)
         /\ (ColdBootSteps[i] = "boot" <=> i = 6)
         /\ (ColdBootSteps[i] = "guest" <=> i = 7)
         /\ (ColdBootSteps[i] = "record" <=> i = 8)
         /\ ColdBootSteps[i] \notin {"restore", "dial", "snapshot", "merge", "meta", "drop", "undo"}
BY DEF ColdBootSteps

\* Which step of a restore is which.
LEMMA LoadPositions ==
  ASSUME NEW i \in 1 .. 8
  PROVE  /\ (LoadSteps[i] = "rootfs" <=> i = 1)
         /\ (LoadSteps[i] = "share" <=> i = 2)
         /\ (LoadSteps[i] = "vfsd" <=> i = 3)
         /\ (LoadSteps[i] = "net" <=> i = 4)
         /\ (LoadSteps[i] = "vmm" <=> i = 5)
         /\ (LoadSteps[i] = "restore" <=> i = 6)
         /\ (LoadSteps[i] = "record" <=> i = 7)
         /\ (LoadSteps[i] = "dial" <=> i = 8)
         /\ LoadSteps[i] \notin {"boot", "guest", "snapshot", "merge", "meta", "drop", "undo"}
BY DEF LoadSteps

\* Which step of a save is which.
LEMMA SavePositions ==
  ASSUME NEW i \in 1 .. 4
  PROVE  /\ (SaveSteps[i] = "snapshot" <=> i = 1)
         /\ (SaveSteps[i] = "merge" <=> i = 2)
         /\ (SaveSteps[i] = "meta" <=> i = 3)
         /\ (SaveSteps[i] = "drop" <=> i = 4)
         /\ SaveSteps[i] \notin {"rootfs", "share", "vfsd", "vmm", "net", "boot", "guest", "record", "restore", "dial", "undo"}
BY DEF SaveSteps

\* The step a call is at says which call it is and how far it has come.
LEMMA StepPosition ==
  ASSUME NEW n \in Sandboxes, OnPath(n)
  PROVE  /\ Step(n, "rootfs") => n \notin ref /\ At(n, 1)
         /\ Step(n, "share") => n \notin ref /\ At(n, 2)
         /\ Step(n, "vfsd") => n \notin ref /\ At(n, 3)
         /\ Step(n, "vmm") => n \notin ref /\ At(n, IF ColdBooted(n) THEN 4 ELSE 5)
         /\ Step(n, "net") => n \notin ref /\ At(n, IF ColdBooted(n) THEN 5 ELSE 4)
         /\ Step(n, "boot") => n \notin ref /\ ColdBooted(n) /\ At(n, 6)
         /\ Step(n, "guest") => n \notin ref /\ ColdBooted(n) /\ At(n, 7)
         /\ Step(n, "restore") => n \notin ref /\ ~ColdBooted(n) /\ At(n, 6)
         /\ Step(n, "record") => n \notin ref /\ At(n, IF ColdBooted(n) THEN 8 ELSE 7)
         /\ Step(n, "dial") => n \notin ref /\ ~ColdBooted(n) /\ At(n, 8)
         /\ Step(n, "snapshot") => n \in ref /\ At(n, 1)
         /\ Step(n, "merge") => n \in ref /\ At(n, 2)
         /\ Step(n, "meta") => n \in ref /\ At(n, 3)
         /\ Step(n, "drop") => n \in ref /\ At(n, 4)
         /\ Step(n, "undo") => n \notin ref /\ todo[n] = UndoSteps
<1>1. CASE todo[n] = <<>>
  BY <1>1 DEF Step, InCall
<1>2. CASE n \notin ref /\ todo[n] = UndoSteps
  BY <1>2, Calls DEF Step
<1>3. CASE \E i \in 1 .. Len(PathOf(n)) : At(n, i)
  <2>1. PICK i \in 1 .. Len(PathOf(n)) : At(n, i)
    BY <1>3
  <2>2. PathOf(n) \in Seq(Steps)
    BY Calls DEF PathOf
  <2>3. Head(todo[n]) = PathOf(n)[i]
    BY <2>1, <2>2, Suffixes DEF At
  <2>4. CASE n \in ref
    <3>1. Head(todo[n]) = SaveSteps[i] /\ i \in 1 .. 4
      BY <2>1, <2>3, <2>4, Calls DEF PathOf
    <3> QED
      BY <2>1, <2>4, <3>1, SavePositions DEF Step
  <2>5. CASE n \notin ref /\ ColdBooted(n)
    <3>1. Head(todo[n]) = ColdBootSteps[i] /\ i \in 1 .. 8
      BY <2>1, <2>3, <2>5, Calls DEF PathOf
    <3> QED
      BY <2>1, <2>5, <3>1, ColdBootPositions DEF Step
  <2>6. CASE n \notin ref /\ ~ColdBooted(n)
    <3>1. Head(todo[n]) = LoadSteps[i] /\ i \in 1 .. 8
      BY <2>1, <2>3, <2>6, Calls DEF PathOf
    <3> QED
      BY <2>1, <2>6, <3>1, LoadPositions DEF Step
  <2> QED
    BY <2>4, <2>5, <2>6
<1> QED
  BY <1>1, <1>2, <1>3 DEF OnPath

\* A call is at one step at a time, which is not its undoing.
LEMMA OneStep ==
  ASSUME NEW n \in Sandboxes, NEW i \in 1 .. Len(PathOf(n)), At(n, i)
  PROVE  /\ InCall(n) /\ todo[n] # UndoSteps
         /\ Tail(todo[n]) = Left(PathOf(n), i + 1)
         /\ \A j \in 1 .. Len(PathOf(n)) : At(n, j) => i = j
<1>1. PathOf(n) \in Seq(Steps) /\ Len(PathOf(n)) \in Nat
  BY Calls DEF PathOf
<1>2. /\ todo[n] # <<>> /\ Head(todo[n]) = PathOf(n)[i]
      /\ Tail(todo[n]) = Left(PathOf(n), i + 1)
  BY <1>1, Suffixes DEF At
<1>3. PathOf(n)[i] # "undo"
  BY Calls, SavePositions, LoadPositions, ColdBootPositions DEF PathOf
<1>4. \A j \in 1 .. Len(PathOf(n)) : At(n, j) => i = j
  <2> SUFFICES ASSUME NEW j \in 1 .. Len(PathOf(n)), At(n, j) PROVE i = j
    OBVIOUS
  <2>1. i \in 1 .. Len(PathOf(n)) + 1 /\ j \in 1 .. Len(PathOf(n)) + 1
    BY <1>1
  <2>2. Left(PathOf(n), i) = Left(PathOf(n), j)
    BY DEF At
  <2> QED
    BY <1>1, <2>1, <2>2, Suffixes
<1> QED
  BY <1>2, <1>3, <1>4, Calls DEF InCall

\* The same of the next state.
LEMMA OneStepNext ==
  ASSUME NEW n \in Sandboxes, NEW i \in 1 .. Len(PathOf(n)'), At(n, i)'
  PROVE  /\ InCall(n)' /\ todo'[n] # UndoSteps
         /\ \A j \in 1 .. Len(PathOf(n)') : At(n, j)' => i = j
<1>1. PathOf(n)' \in Seq(Steps) /\ Len(PathOf(n)') \in Nat
  BY Calls DEF PathOf
<1>2. todo'[n] # <<>> /\ Head(todo'[n]) = PathOf(n)'[i]
  BY <1>1, Suffixes DEF At
<1>3. PathOf(n)'[i] # "undo"
  BY Calls, SavePositions, LoadPositions, ColdBootPositions DEF PathOf
<1>4. \A j \in 1 .. Len(PathOf(n)') : At(n, j)' => i = j
  <2> SUFFICES ASSUME NEW j \in 1 .. Len(PathOf(n)'), At(n, j)' PROVE i = j
    OBVIOUS
  <2>1. i \in 1 .. Len(PathOf(n)') + 1 /\ j \in 1 .. Len(PathOf(n)') + 1
    BY <1>1
  <2>2. Left(PathOf(n)', i) = Left(PathOf(n)', j)
    BY DEF At
  <2> QED
    BY <1>1, <2>1, <2>2, Suffixes
<1> QED
  BY <1>2, <1>3, <1>4, Calls DEF InCall

\* How long a call is.
LEMMA PathLengths ==
  ASSUME NEW n \in Sandboxes
  PROVE  /\ n \notin ref => Len(PathOf(n)) = 8
         /\ n \in ref => Len(PathOf(n)) = 4
         /\ n \notin ref' => Len(PathOf(n)') = 8
         /\ n \in ref' => Len(PathOf(n)') = 4
BY Calls DEF PathOf

\* No call has more than eight steps.
LEMMA PathBound ==
  ASSUME NEW n \in Sandboxes, NEW i \in 1 .. Len(PathOf(n))
  PROVE  i \in 1 .. 8
<1>1. CASE n \in ref
  <2>1. i \in 1 .. 4
    BY <1>1, PathLengths
  <2> QED
    BY <2>1
<1>2. CASE n \notin ref
  BY <1>2, PathLengths
<1> QED
  BY <1>1, <1>2

\* Every call has at least four steps.
LEMMA FourSteps ==
  ASSUME NEW n \in Sandboxes, NEW i \in 1 .. 4
  PROVE  i \in 1 .. Len(PathOf(n)) /\ i \in 1 .. Len(PathOf(n)')
<1>1. i \in 1 .. Len(PathOf(n))
  <2>1. CASE n \in ref
    <3>1. Len(PathOf(n)) = 4
      BY <2>1, PathLengths
    <3> QED
      BY <3>1
  <2>2. CASE n \notin ref
    <3>1. Len(PathOf(n)) = 8
      BY <2>2, PathLengths
    <3> QED
      BY <3>1
  <2> QED
    BY <2>1, <2>2
<1>2. i \in 1 .. Len(PathOf(n)')
  <2>1. CASE n \in ref'
    <3>1. Len(PathOf(n)') = 4
      BY <2>1, PathLengths
    <3> QED
      BY <3>1
  <2>2. CASE n \notin ref'
    <3>1. Len(PathOf(n)') = 8
      BY <2>2, PathLengths
    <3> QED
      BY <3>1
  <2> QED
    BY <2>1, <2>2
<1> QED
  BY <1>1, <1>2

-----------------------------------------------------------------------------
(* What a step does to its own Sandbox and to the others.                   *)

\* Faults are counted up to their bound.
LEMMA FaultsTyped ==
  ASSUME Types, faults' = faults \/ Fault
  PROVE  faults' \in 0 .. MaxFaults
BY KataConstants DEF Fault, Types

\* Killing only takes away, and takes everything of m if m is killed by its call.
LEMMA KillTakes ==
  ASSUME Types, NEW killed, NEW m, Gone(killed, m)
  PROVE  /\ vfsd' \subseteq vfsd /\ tap' \subseteq tap
         /\ vmm' \in [Sandboxes -> {"none", "up", "running", "paused"}]
         /\ \A n \in Sandboxes : vmm'[n] = vmm[n] \/ vmm'[n] = "none"
         /\ m \in killed => m \notin vfsd' /\ m \notin tap'
         /\ \A n \in Sandboxes \cap killed : vmm'[n] = "none"
BY DEF Gone, Types

\* A Sandbox that is alive is not among the saved ones.
LEMMA LiveParent ==
  ASSUME KataInv, NEW n \in Sandboxes, Live(n), ~ColdBooted(n)
  PROVE  /\ From[n] \in Sandboxes /\ saved[From[n]] # Null
         /\ slot[From[n]] \in {"ended", "gone"}
<1>1. From[n] \in Sandboxes
  BY KataConstants DEF ColdBooted
<1>2. saved[From[n]] # Null
  BY DEF KataInv, SandboxInv
<1> QED
  BY <1>1, <1>2 DEF KataInv, SavedInv

\* The base id of a live Sandbox is a Sandbox.
LEMMA BaseTyped ==
  ASSUME KataInv, NEW m \in Sandboxes, Live(m)
  PROVE  BaseID(m) \in Sandboxes
<1>1. CASE ColdBooted(m)
  BY <1>1 DEF BaseID
<1>2. CASE ~ColdBooted(m)
  <2>1. From[m] \in Sandboxes /\ saved[From[m]] # Null
    BY <1>2, LiveParent
  <2>2. saved[From[m]] \in Snapshot
    BY <2>1 DEF KataInv, Types
  <2> QED
    BY <1>2, <2>2 DEF BaseID, Snapshot
<1> QED
  BY <1>1, <1>2

\* The step of m leaves a Sandbox alone that it does not name, except that a
\* clean-up may kill its processes.
LEMMA Others ==
  ASSUME KataInv, NEW m \in Sandboxes, NEW n \in Sandboxes, m # n,
         slot'[n] = slot[n], todo'[n] = todo[n], record'[n] = record[n], n \in ref' <=> n \in ref,
         \/ saved' = saved
         \/ slot[m] = "held" /\ \E s : s # Null /\ saved' = [saved EXCEPT ![m] = s],
         n \in vfsd' => n \in vfsd, n \in tap' => n \in tap,
         n \in bundle' => n \in bundle, n \in vmdir' => n \in vmdir,
         vmm'[n] = vmm[n] \/ vmm'[n] = "none"
  PROVE  SandboxInv(n)' /\ (Live(n) => BaseID(n)' = BaseID(n))
<1>0. SandboxInv(n) /\ Types
  BY DEF KataInv
<1>1. (InCall(n)' <=> InCall(n)) /\ (Live(n)' <=> Live(n)) /\ PathOf(n)' = PathOf(n)
  BY DEF InCall, Live, PathOf, ColdBooted
<1>2. \A i \in 1 .. 8 : At(n, i)' <=> At(n, i)
  BY <1>1 DEF At
<1>3. OnPath(n)'
  <2>1. Len(PathOf(n)) = 8 \/ Len(PathOf(n)) = 4
    BY PathLengths
  <2>2. CASE \E i \in 1 .. Len(PathOf(n)) : At(n, i)
    <3>1. PICK i \in 1 .. Len(PathOf(n)) : At(n, i)
      BY <2>2
    <3>a. Len(PathOf(n)') = Len(PathOf(n))
      BY <1>1
    <3>b. i \in 1 .. 8
      BY PathBound
    <3>2. i \in 1 .. 8 /\ i \in 1 .. Len(PathOf(n)')
      BY <3>a, <3>b
    <3>3. At(n, i)'
      BY <1>2, <3>1, <3>2
    <3> QED
      BY <3>2, <3>3 DEF OnPath
  <2>3. CASE todo[n] = <<>> \/ (n \notin ref /\ todo[n] = UndoSteps)
    BY <2>3 DEF OnPath
  <2> QED
    BY <1>0, <2>2, <2>3 DEF SandboxInv, OnPath
<1>4. Live(n) /\ ~ColdBooted(n) => saved'[From[n]] = saved[From[n]]
  <2>1. Live(n) /\ ~ColdBooted(n) => From[n] \in Sandboxes /\ (slot[m] = "held" => From[n] # m)
    BY LiveParent
  <2> QED
    BY <1>0, <2>1 DEF Types
<1>5. Live(n) => BaseID(n)' = BaseID(n)
  BY <1>4 DEF BaseID, ColdBooted
<1>6. ~Live(n) => ~Holds(n)'
  BY <1>0 DEF SandboxInv, Holds
<1>7. record[n] # Null => Live(n)
  BY <1>0 DEF SandboxInv, Holds
<1>8. n \notin ref => \A i \in 1 .. 8 : At(n, i)' => Booting(n, i)'
  BY <1>0, <1>2 DEF SandboxInv, Booting, ColdBooted
<1> QED
  BY <1>0, <1>1, <1>3, <1>4, <1>5, <1>6, <1>7, <1>8 DEF SandboxInv, ColdBooted

\* What an own step has to show of its Sandbox: it boots on, is to be undone,
\* is gone, or is referred to by its Slot.
LEMMA Own ==
  ASSUME NEW n \in Sandboxes,
         \/ todo'[n] = <<>> /\ n \notin ref' /\ ~Holds(n)'
         \/ /\ slot'[n] = "held" /\ (ColdBooted(n) \/ saved'[From[n]] # Null)
            /\ record'[n] # Null => record'[n] = BaseID(n)'
            /\ \/ n \notin ref' /\ todo'[n] = UndoSteps /\ record'[n] = Null
               \/ n \notin ref' /\ \E i \in 1 .. 8 : At(n, i)' /\ Booting(n, i)'
               \/ n \in ref' /\ record'[n] # Null /\ OnPath(n)' /\ todo'[n] # UndoSteps
  PROVE  SandboxInv(n)'
<1>1. CASE todo'[n] = <<>> /\ n \notin ref' /\ ~Holds(n)'
  <2>1. ~Live(n)' /\ record'[n] = Null /\ OnPath(n)' /\ todo'[n] # UndoSteps
    BY <1>1, Calls DEF Live, InCall, Holds, OnPath
  <2>2. \A i \in 1 .. 8 : ~At(n, i)'
    BY <1>1, OneStepNext, PathLengths DEF InCall
  <2> QED
    BY <1>1, <2>1, <2>2 DEF SandboxInv
<1>2. CASE n \notin ref' /\ todo'[n] = UndoSteps /\ record'[n] = Null /\ slot'[n] = "held"
           /\ (ColdBooted(n) \/ saved'[From[n]] # Null)
  <2>1. Live(n)' /\ OnPath(n)'
    BY <1>2, Calls DEF Live, InCall, OnPath
  <2>2. \A i \in 1 .. 8 : ~At(n, i)'
    BY <1>2, OneStepNext, PathLengths
  <2> QED
    BY <1>2, <2>1, <2>2 DEF SandboxInv, ColdBooted
<1>3. ASSUME n \notin ref', NEW i \in 1 .. 8, At(n, i)', Booting(n, i)', slot'[n] = "held",
             ColdBooted(n) \/ saved'[From[n]] # Null, record'[n] # Null => record'[n] = BaseID(n)'
      PROVE  SandboxInv(n)'
  <2>1. i \in 1 .. Len(PathOf(n)') /\ Len(PathOf(n)') = 8
    BY <1>3, PathLengths
  <2>2. InCall(n)' /\ todo'[n] # UndoSteps /\ \A j \in 1 .. 8 : At(n, j)' => i = j
    BY <1>3, <2>1, OneStepNext
  <2>3. Live(n)' /\ OnPath(n)'
    BY <1>3, <2>1, <2>2 DEF Live, OnPath
  <2>4. \A j \in 1 .. 8 : At(n, j)' => Booting(n, j)'
    BY <1>3, <2>2
  <2> QED
    BY <1>3, <2>2, <2>3, <2>4 DEF SandboxInv, ColdBooted
<1>4. CASE n \in ref' /\ record'[n] # Null /\ OnPath(n)' /\ slot'[n] = "held" /\ todo'[n] # UndoSteps
           /\ (ColdBooted(n) \/ saved'[From[n]] # Null)
           /\ (record'[n] # Null => record'[n] = BaseID(n)')
  BY <1>4 DEF SandboxInv, Live, ColdBooted
<1> QED
  BY <1>1, <1>2, <1>3, <1>4

\* Who has ended stays so, and what is saved stays saved.
LEMMA SavedStays ==
  ASSUME KataInv, saved' = saved,
         \A n \in Sandboxes : slot[n] \in {"ended", "gone"} => slot'[n] \in {"ended", "gone"}
  PROVE  SavedInv'
BY DEF KataInv, SavedInv, ColdBooted

\* teardownInstance takes everything of m but its record, and nobody's image:
\* the directory of the base id it also removes belongs to m or to nobody.
LEMMA Teardown ==
  ASSUME KataInv, NEW m \in Sandboxes, record[m] # Null, TeardownInstance(m)
  PROVE  /\ vfsd' \subseteq vfsd /\ tap' \subseteq tap /\ bundle' \subseteq bundle
         /\ vmdir' \subseteq vmdir /\ share' \subseteq share
         /\ image' = image \ {m} /\ image' \subseteq vmdir'
         /\ vmm' \in [Sandboxes -> {"none", "up", "running", "paused"}]
         /\ \A n \in Sandboxes : vmm'[n] = vmm[n] \/ vmm'[n] = "none"
         /\ m \notin vfsd' /\ m \notin tap' /\ m \notin bundle' /\ m \notin vmdir' /\ vmm'[m] = "none"
<1>0. Types /\ SandboxInv(m) /\ SavedInv
  BY DEF KataInv
<1>1. PICK killed : Gone(killed, m) /\ m \in killed
  BY DEF TeardownInstance, CleanupSandboxState, Kill
<1>2. Live(m) /\ record[m] = BaseID(m)
  BY <1>0 DEF SandboxInv, Holds
<1>3. record[m] # m => record[m] \notin vmdir
  <2> SUFFICES ASSUME record[m] # m PROVE record[m] \notin vmdir
    OBVIOUS
  <2>1. ~ColdBooted(m)
    BY <1>2 DEF BaseID
  <2>2. From[m] \in Sandboxes /\ saved[From[m]] # Null
    BY <1>2, <2>1, LiveParent
  <2>3. record[m] = saved[From[m]].base /\ record[m] \in Sandboxes
    BY <1>0, <1>2, <2>1 DEF BaseID, Types
  <2>4. saved[record[m]] # Null
    BY <1>0, <2>2, <2>3 DEF SavedInv
  <2>5. slot[record[m]] \in {"ended", "gone"}
    BY <1>0, <2>3, <2>4 DEF SavedInv
  <2>6. SandboxInv(record[m])
    BY <2>3 DEF KataInv
  <2> QED
    BY <2>5, <2>6 DEF SandboxInv, Holds
<1>4. /\ bundle' = bundle \ {m} /\ vmdir' = vmdir \ {record[m], m} /\ image' = image \ {m}
      /\ share' = share \ {record[m]}
  BY DEF TeardownInstance, CleanupSandboxState
<1>5. image' \subseteq vmdir'
  BY <1>0, <1>3, <1>4 DEF Types
<1> QED
  BY <1>0, <1>1, <1>4, <1>5, KillTakes

\* DeleteRestored leaves nothing of a Sandbox that has a record.
LEMMA Deletes ==
  ASSUME KataInv, NEW m \in Sandboxes, record[m] # Null, DeleteRestored(m)
  PROVE  /\ vfsd' \subseteq vfsd /\ tap' \subseteq tap /\ bundle' \subseteq bundle
         /\ vmdir' \subseteq vmdir /\ share' \subseteq share /\ image' \subseteq vmdir'
         /\ image' = image \ {m}
         /\ vmm' \in [Sandboxes -> {"none", "up", "running", "paused"}]
         /\ \A n \in Sandboxes : vmm'[n] = vmm[n] \/ vmm'[n] = "none"
         /\ record' = [record EXCEPT ![m] = Null]
         /\ ~Holds(m)'
<1>1. TeardownInstance(m) /\ record' = [record EXCEPT ![m] = Null]
  BY DEF DeleteRestored
<1>2. record'[m] = Null
  BY <1>1 DEF KataInv, Types
<1> QED
  BY <1>1, <1>2, Teardown DEF Holds

-----------------------------------------------------------------------------
(* One lemma per action: it preserves KataInv.                              *)

\* Initially there is nothing.
LEMMA InitInv == Init => KataInv
<1> SUFFICES ASSUME Init PROVE KataInv
  OBVIOUS
<1>1. Types
  BY KataConstants DEF Types, Init
<1>2. Holders /\ SavedInv
  BY DEF Holders, SavedInv, Init
<1>3. ASSUME NEW n \in Sandboxes PROVE SandboxInv(n)
  <2>1. /\ todo[n] = <<>> /\ n \notin ref /\ record[n] = Null /\ vmm[n] = "none"
        /\ n \notin vfsd /\ n \notin tap /\ n \notin bundle /\ n \notin vmdir
    BY DEF Init
  <2>2. ~InCall(n) /\ ~Live(n) /\ ~Holds(n) /\ OnPath(n)
    BY <2>1 DEF InCall, Live, Holds, OnPath
  <2>3. \A i \in 1 .. 8 : ~At(n, i)
    BY <2>1, <2>2, OneStep, PathLengths
  <2>4. todo[n] # UndoSteps
    BY <2>1, Calls
  <2> QED
    BY <2>1, <2>2, <2>3, <2>4 DEF SandboxInv
<1> QED
  BY <1>1, <1>2, <1>3 DEF KataInv

\* A Slot is reserved only when nobody has it.
LEMMA ReserveKeeps ==
  ASSUME KataInv, NEW m \in Sandboxes, ReserveSlot(m)
  PROVE  KataInv'
<1>0. /\ Types /\ SandboxInv(m)
      /\ UNCHANGED <<ref, todo, record, vmdir, image, bundle, share, vfsd, vmm, tap, delta, saved, faults>>
      /\ slot' = [slot EXCEPT ![m] = "held"] /\ slot[m] = "new"
  BY DEF ReserveSlot, KataInv, dirVars, procVars, saveVars
<1>1. Types'
  BY <1>0 DEF Types
<1>2. Holders'
  BY <1>0 DEF KataInv, Types, Holders, ReserveSlot
<1>3. SavedInv'
  BY <1>0, SavedStays DEF Types
<1>4. SandboxInv(m)'
  <2>1. ~Live(m)
    BY <1>0 DEF SandboxInv
  <2>2. todo'[m] = <<>> /\ m \notin ref' /\ ~Holds(m)'
    BY <1>0, <2>1 DEF SandboxInv, Live, InCall, Holds
  <2> QED
    BY <2>2, Own
<1>5. ASSUME NEW n \in Sandboxes, n # m PROVE SandboxInv(n)'
  <2>1. slot'[n] = slot[n]
    BY <1>0, <1>5 DEF Types
  <2> QED
    BY <1>0, <1>5, <2>1, Others
<1> QED
  BY <1>1, <1>2, <1>3, <1>4, <1>5 DEF KataInv

\* Stopping and releasing delete what the Slot refers to.
LEMMA EndKeeps ==
  ASSUME KataInv, NEW m \in Sandboxes, StopSandbox(m) \/ ReleaseSlot(m)
  PROVE  KataInv'
<1>0. /\ Types /\ SandboxInv(m) /\ ~InCall(m)
      /\ UNCHANGED <<todo, delta, saved, faults>> /\ ref' = ref \ {m}
      /\ slot[m] \in {"held", "ended"}
      /\ \E s \in {"ended", "gone"} : slot' = [slot EXCEPT ![m] = s]
      /\ m \in ref => DeleteRestored(m)
      /\ m \notin ref => UNCHANGED <<record, vmdir, image, bundle, share, vfsd, vmm, tap>>
  BY DEF StopSandbox, ReleaseSlot, KataInv, dirVars, procVars, saveVars
<1>a. m \in ref => record[m] # Null
  BY <1>0 DEF SandboxInv
<1>b. /\ vfsd' \subseteq vfsd /\ tap' \subseteq tap /\ bundle' \subseteq bundle
      /\ vmdir' \subseteq vmdir /\ share' \subseteq share /\ image' \subseteq vmdir'
      /\ vmm' \in [Sandboxes -> {"none", "up", "running", "paused"}]
      /\ \A n \in Sandboxes : vmm'[n] = vmm[n] \/ vmm'[n] = "none"
      /\ record' = record \/ record' = [record EXCEPT ![m] = Null]
      /\ ~Holds(m)'
  <2>1. CASE m \in ref
    BY <1>0, <1>a, <2>1, Deletes
  <2>2. CASE m \notin ref
    BY <1>0, <2>2 DEF SandboxInv, Live, Holds, Types
  <2> QED
    BY <2>1, <2>2
<1>1. Types'
  <2>1. slot' \in [Sandboxes -> {"new", "held", "ended", "gone"}]
    BY <1>0 DEF Types
  <2>2. record' \in [Sandboxes -> Sandboxes \cup {Null}]
    BY <1>0, <1>b DEF Types
  <2> QED
    BY <1>0, <1>b, <2>1, <2>2 DEF Types
<1>2. Holders'
  BY <1>0 DEF KataInv, Types, Holders
<1>3. SavedInv'
  BY <1>0, SavedStays DEF Types
<1>4. SandboxInv(m)'
  BY <1>0, <1>b, Own DEF InCall
<1>5. ASSUME NEW n \in Sandboxes, n # m PROVE SandboxInv(n)'
  <2>1. slot'[n] = slot[n] /\ record'[n] = record[n] /\ (n \in ref' <=> n \in ref)
    BY <1>0, <1>b, <1>5 DEF Types
  <2> QED
    BY <1>0, <1>b, <1>5, <2>1, Others
<1> QED
  BY <1>1, <1>2, <1>3, <1>4, <1>5 DEF KataInv

\* A VM that dies takes its processes with it, and nothing else.
LEMMA DiesKeeps ==
  ASSUME KataInv, NEW m \in Sandboxes, VMDies(m)
  PROVE  KataInv'
<1>0. /\ Types /\ SandboxInv(m) /\ vmm[m] # "none" /\ Gone({m}, Null) /\ Fault
      /\ UNCHANGED <<slot, ref, todo, record, vmdir, image, bundle, share, delta, saved>>
  BY DEF VMDies, KataInv, slotVars, dirVars, saveVars
<1>a. /\ vfsd' \subseteq vfsd /\ tap' \subseteq tap
      /\ vmm' \in [Sandboxes -> {"none", "up", "running", "paused"}]
      /\ \A n \in Sandboxes : vmm'[n] = vmm[n] \/ vmm'[n] = "none"
  BY <1>0, KillTakes
<1>1. Types'
  BY <1>0, <1>a, FaultsTyped DEF Types
<1>2. Holders' /\ SavedInv'
  BY <1>0, SavedStays DEF KataInv, Holders
<1>3. SandboxInv(m)'
  <2>1. Live(m)
    BY <1>0 DEF SandboxInv, Holds
  <2>2. /\ (InCall(m)' <=> InCall(m)) /\ Live(m)' /\ PathOf(m)' = PathOf(m) /\ BaseID(m)' = BaseID(m)
        /\ \A i \in 1 .. 8 : At(m, i)' <=> At(m, i)
    BY <1>0, <2>1 DEF InCall, Live, PathOf, ColdBooted, BaseID, At
  <2>3. OnPath(m)'
    BY <1>0, <2>2 DEF SandboxInv, OnPath, At
  <2>4. m \notin ref => \A i \in 1 .. 8 : At(m, i)' => Booting(m, i)'
    BY <1>0, <1>a, <2>2 DEF SandboxInv, Booting, ColdBooted
  <2> QED
    BY <1>0, <2>1, <2>2, <2>3, <2>4 DEF SandboxInv, ColdBooted
<1>4. ASSUME NEW n \in Sandboxes, n # m PROVE SandboxInv(n)'
  BY <1>0, <1>a, <1>4, Others
<1> QED
  BY <1>1, <1>2, <1>3, <1>4 DEF KataInv

\* A cold boot starts with a clean slate and without a tap.
LEMMA ColdBootKeeps ==
  ASSUME KataInv, NEW m \in Sandboxes, ColdBoot(m)
  PROVE  KataInv'
<1>0. /\ Types /\ SandboxInv(m) /\ ~Live(m) /\ ColdBooted(m) /\ slot[m] = "held"
      /\ Gone(Matches(m) \cup {}, m) /\ share' = share \ {m}
      /\ record' = [record EXCEPT ![m] = Null]
      /\ UNCHANGED <<slot, ref, image, bundle, delta, saved>>
  BY DEF ColdBoot, CleanupSandboxState, Kill, KataInv, Live, slotVars, saveVars
<1>a. /\ vfsd' \subseteq vfsd /\ tap' \subseteq tap
      /\ vmm' \in [Sandboxes -> {"none", "up", "running", "paused"}]
      /\ \A n \in Sandboxes : vmm'[n] = vmm[n] \/ vmm'[n] = "none"
      /\ m \notin vfsd' /\ m \notin tap' /\ vmm'[m] = "none"
  BY <1>0, KillTakes DEF Matches
<1>b. m \notin image /\ m \notin bundle /\ m \notin ref /\ record'[m] = Null
  BY <1>0 DEF SandboxInv, Holds, Live, Types
<1>c. \/ todo' = [todo EXCEPT ![m] = ColdBootSteps] /\ UNCHANGED faults /\ vmdir' = vmdir \cup {m}
      \/ Fault /\ vmdir' = vmdir \ {m} /\ UNCHANGED todo
  BY DEF ColdBoot, Begin
<1>1. Types'
  <2>1. faults' \in 0 .. MaxFaults
    BY <1>0, <1>c, FaultsTyped
  <2>2. DOMAIN todo' = Sandboxes /\ vmdir' \subseteq Sandboxes /\ image' \subseteq vmdir'
    BY <1>0, <1>b, <1>c DEF Types
  <2> QED
    BY <1>0, <1>a, <2>1, <2>2 DEF Types
<1>2. Holders' /\ SavedInv'
  BY <1>0, SavedStays DEF KataInv, Holders
<1>3. SandboxInv(m)'
  <2>1. CASE todo' = [todo EXCEPT ![m] = ColdBootSteps]
    <3>1. todo'[m] = Left(ColdBootSteps, 1)
      BY <1>0, <2>1, Calls, Suffixes DEF Types
    <3>2. At(m, 1)' /\ 1 \in 1 .. 8
      BY <1>0, <1>b, <3>1 DEF At, PathOf, ColdBooted
    <3>3. Booting(m, 1)'
      BY <1>0, <1>a, <1>b DEF Booting, ColdBooted
    <3> QED
      BY <1>0, <1>b, <3>2, <3>3, Own
  <2>2. CASE vmdir' = vmdir \ {m} /\ UNCHANGED todo
    <3>1. todo'[m] = <<>> /\ m \notin ref' /\ ~Holds(m)'
      BY <1>0, <1>a, <1>b, <2>2 DEF Live, InCall, Holds
    <3> QED
      BY <3>1, Own
  <2> QED
    BY <1>c, <2>1, <2>2
<1>4. ASSUME NEW n \in Sandboxes, n # m PROVE SandboxInv(n)'
  <2>1. record'[n] = record[n] /\ todo'[n] = todo[n] /\ (n \in vmdir' => n \in vmdir)
    BY <1>0, <1>c, <1>4 DEF Types
  <2> QED
    BY <1>0, <1>a, <1>4, <2>1, Others
<1> QED
  BY <1>1, <1>2, <1>3, <1>4 DEF KataInv

\* A restore starts from a snapshot there is.
LEMMA LoadKeeps ==
  ASSUME KataInv, NEW m \in Sandboxes, LoadSnapshot(m)
  PROVE  KataInv'
<1>0. /\ Types /\ SandboxInv(m) /\ ~Live(m) /\ ~ColdBooted(m) /\ slot[m] = "held"
      /\ saved[From[m]] # Null
      /\ UNCHANGED <<slot, ref, record, bundle, share, vfsd, vmm, tap, delta, saved>>
  BY DEF LoadSnapshot, KataInv, Live, slotVars, procVars, saveVars
<1>a. ~Holds(m) /\ m \notin ref /\ todo[m] = <<>>
  BY <1>0 DEF SandboxInv, Live, InCall
<1>b. \/ /\ todo' = [todo EXCEPT ![m] = LoadSteps] /\ UNCHANGED faults
         /\ vmdir' = vmdir \cup {m} /\ image' = image \cup {m}
      \/ Fault /\ vmdir' = vmdir \ {m} /\ image' = image \ {m} /\ UNCHANGED todo
  BY DEF LoadSnapshot, Begin
<1>1. Types'
  <2>1. faults' \in 0 .. MaxFaults
    BY <1>0, <1>b, FaultsTyped
  <2>2. DOMAIN todo' = Sandboxes /\ vmdir' \subseteq Sandboxes /\ image' \subseteq vmdir'
    BY <1>0, <1>b DEF Types
  <2> QED
    BY <1>0, <2>1, <2>2 DEF Types
<1>2. Holders' /\ SavedInv'
  BY <1>0, SavedStays DEF KataInv, Holders
<1>3. SandboxInv(m)'
  <2>1. CASE todo' = [todo EXCEPT ![m] = LoadSteps]
    <3>1. todo'[m] = Left(LoadSteps, 1)
      BY <1>0, <2>1, Calls, Suffixes DEF Types
    <3>2. At(m, 1)' /\ 1 \in 1 .. 8
      BY <1>0, <1>a, <3>1 DEF At, PathOf, ColdBooted
    <3>3. Booting(m, 1)' /\ record'[m] = Null
      BY <1>0, <1>a DEF Booting, ColdBooted, Holds
    <3> QED
      BY <1>0, <1>a, <3>2, <3>3, Own
  <2>2. CASE vmdir' = vmdir \ {m} /\ UNCHANGED todo
    <3>1. todo'[m] = <<>> /\ m \notin ref' /\ ~Holds(m)'
      BY <1>0, <1>a, <2>2 DEF Holds
    <3> QED
      BY <3>1, Own
  <2> QED
    BY <1>b, <2>1, <2>2
<1>4. ASSUME NEW n \in Sandboxes, n # m PROVE SandboxInv(n)'
  <2>1. todo'[n] = todo[n] /\ (n \in vmdir' => n \in vmdir)
    BY <1>0, <1>b, <1>4 DEF Types
  <2> QED
    BY <1>0, <1>4, <2>1, Others
<1> QED
  BY <1>1, <1>2, <1>3, <1>4 DEF KataInv

\* A step of a boot before its last one: it goes on to the next step, or its
\* undoing is next.
LEMMA BootStep ==
  ASSUME KataInv, NEW m \in Sandboxes, m \notin ref, NEW i \in 1 .. 7, At(m, i),
         UNCHANGED <<slot, ref, saved>>, Types', record' = record \/ i = 7,
         \/ todo' = [todo EXCEPT ![m] = Tail(@)] /\ Booting(m, i + 1)'
         \/ todo' = [todo EXCEPT ![m] = UndoSteps] /\ record' = record,
         record'[m] # Null => record'[m] = BaseID(m),
         \A n \in Sandboxes \ {m} :
           /\ record'[n] = record[n]
           /\ n \in vfsd' => n \in vfsd
           /\ n \in tap' => n \in tap
           /\ n \in bundle' => n \in bundle
           /\ n \in vmdir' => n \in vmdir
           /\ vmm'[n] = vmm[n] \/ vmm'[n] = "none"
  PROVE  KataInv'
<1>0. Types /\ SandboxInv(m)
  BY DEF KataInv
<1>1. Len(PathOf(m)) = 8
  BY PathLengths
<1>2. i \in 1 .. Len(PathOf(m)) /\ i + 1 \in 1 .. 8 /\ i \in 1 .. 8
  BY <1>1
<1>3. InCall(m) /\ Tail(todo[m]) = Left(PathOf(m), i + 1)
  BY <1>2, OneStep
<1>4. slot[m] = "held" /\ (ColdBooted(m) \/ saved[From[m]] # Null)
  BY <1>0, <1>3 DEF SandboxInv, Live
<1>5. Holders' /\ SavedInv'
  BY SavedStays DEF KataInv, Holders
<1>6. SandboxInv(m)'
  <2>0. BaseID(m)' = BaseID(m)
    BY DEF BaseID, ColdBooted
  <2>1. CASE todo' = [todo EXCEPT ![m] = Tail(@)] /\ Booting(m, i + 1)'
    <3>1. todo'[m] = Left(PathOf(m), i + 1)
      BY <1>0, <1>3, <2>1 DEF Types
    <3>2. At(m, i + 1)'
      BY <3>1 DEF At, PathOf, ColdBooted
    <3>3. \E j \in 1 .. 8 : At(m, j)' /\ Booting(m, j)'
      BY <1>2, <2>1, <3>2
    <3> QED
      BY <1>4, <2>0, <3>3, Own
  <2>2. CASE todo' = [todo EXCEPT ![m] = UndoSteps] /\ record' = record
    <3>1. todo'[m] = UndoSteps
      BY <1>0, <2>2 DEF Types
    <3>2. record[m] = Null
      <4>1. Booting(m, i)
        BY <1>0, <1>2 DEF SandboxInv
      <4>2. i # 8
        OBVIOUS
      <4> QED
        BY <4>1, <4>2 DEF Booting
    <3> QED
      BY <1>4, <2>0, <2>2, <3>1, <3>2, Own
  <2> QED
    BY <2>1, <2>2
<1>7. ASSUME NEW n \in Sandboxes, n # m PROVE SandboxInv(n)'
  <2>1. todo'[n] = todo[n]
    BY <1>0, <1>7 DEF Types
  <2> QED
    BY <1>7, <2>1, Others
<1> QED
  BY <1>5, <1>6, <1>7 DEF KataInv

\* The steps that stage files and start processes.
LEMMA PrepareKeeps ==
  ASSUME KataInv, NEW m \in Sandboxes,
         SetupImageRootfs(m) \/ ReconstructSharedDir(m) \/ StartVirtiofsd(m)
  PROVE  KataInv'
<1>0. /\ Types /\ SandboxInv(m)
      /\ UNCHANGED <<slot, ref, record, vmdir, image, vmm, tap, delta, saved>>
  BY DEF KataInv, SetupImageRootfs, ReconstructSharedDir, StartVirtiofsd, slotVars, procVars, saveVars, dirVars
<1>1. \/ todo' = [todo EXCEPT ![m] = Tail(@)] /\ faults' = faults
      \/ todo' = [todo EXCEPT ![m] = UndoSteps] /\ (faults' = faults \/ Fault)
  BY DEF SetupImageRootfs, ReconstructSharedDir, StartVirtiofsd, Advance, Fails, FailsFor, Abort
<1>2. m \notin ref /\ \E i \in 1 .. 3 : At(m, i)
  BY <1>0, StepPosition DEF SetupImageRootfs, ReconstructSharedDir, StartVirtiofsd, SandboxInv
<1>3. PICK i \in 1 .. 3 : At(m, i)
  BY <1>2
<1>4. BaseID(m) \in Sandboxes
  <2>1. Live(m)
    BY <1>3, <1>2, OneStep, PathLengths DEF Live
  <2> QED
    BY <2>1, BaseTyped
<1>5. /\ bundle' = bundle \/ bundle' = bundle \cup {m}
      /\ share' = share \/ share' = share \cup {BaseID(m)}
      /\ vfsd' = vfsd \/ vfsd' = vfsd \cup {m}
  BY DEF SetupImageRootfs, ReconstructSharedDir, StartVirtiofsd, dirVars, procVars
<1>6. Types'
  <2>1. faults' \in 0 .. MaxFaults
    BY <1>0, <1>1, FaultsTyped
  <2>2. DOMAIN todo' = Sandboxes
    BY <1>0, <1>1 DEF Types
  <2> QED
    BY <1>0, <1>4, <1>5, <2>1, <2>2 DEF Types
<1>7. Booting(m, i + 1)' /\ record[m] = Null
  <2>1. Booting(m, i) /\ i \in 1 .. 8
    BY <1>0, <1>2, <1>3 DEF SandboxInv
  <2> QED
    BY <1>0, <2>1 DEF Booting, ColdBooted
<1>8. i \in 1 .. 7
  OBVIOUS
<1> QED
  BY <1>0, <1>1, <1>2, <1>3, <1>5, <1>6, <1>7, <1>8, BootStep

\* The steps that make the VM and its tap.
LEMMA RunKeeps ==
  ASSUME KataInv, NEW m \in Sandboxes,
         LaunchVMM(m) \/ CreateTaps(m) \/ BootVM(m) \/ StartWorkload(m) \/ RestoreVM(m)
  PROVE  KataInv'
<1>0. /\ Types /\ SandboxInv(m)
      /\ UNCHANGED <<slot, ref, record, vmdir, image, bundle, share, vfsd, delta, saved>>
  BY DEF KataInv, LaunchVMM, CreateTaps, BootVM, StartWorkload, RestoreVM, slotVars, procVars, saveVars, dirVars
<1>1. \/ todo' = [todo EXCEPT ![m] = Tail(@)] /\ faults' = faults
      \/ todo' = [todo EXCEPT ![m] = UndoSteps] /\ (faults' = faults \/ Fault)
  BY DEF LaunchVMM, CreateTaps, BootVM, StartWorkload, RestoreVM, Advance, Fails, FailsFor, Abort
<1>2. /\ m \notin ref
      /\ \E i \in 1 .. 7 :
           /\ At(m, i)
           /\ i > 3 /\ (tap' # tap => i = IF ColdBooted(m) THEN 5 ELSE 4)
           /\ (i = 7 => ColdBooted(m))
           /\ (i = 4 /\ ~ColdBooted(m)) \/ (i = 5 /\ ColdBooted(m)) \/ tap' = tap
  <2>1. CASE LaunchVMM(m)
    BY <1>0, <2>1, StepPosition DEF LaunchVMM, SandboxInv
  <2>2. CASE CreateTaps(m)
    BY <1>0, <2>2, StepPosition DEF CreateTaps, SandboxInv
  <2>3. CASE BootVM(m) \/ StartWorkload(m) \/ RestoreVM(m)
    BY <1>0, <2>3, StepPosition DEF BootVM, StartWorkload, RestoreVM, SandboxInv, procVars
  <2> QED
    BY <2>1, <2>2, <2>3
<1>3. PICK i \in 1 .. 7 :
           /\ At(m, i) /\ i > 3 /\ (i = 7 => ColdBooted(m))
           /\ (tap' # tap => i = IF ColdBooted(m) THEN 5 ELSE 4)
  BY <1>2
<1>4. /\ tap' = tap \/ tap' = tap \cup {m}
      /\ vmm' = vmm \/ \E v \in {"up", "running"} : vmm' = [vmm EXCEPT ![m] = v]
  BY DEF LaunchVMM, CreateTaps, BootVM, StartWorkload, RestoreVM, procVars
<1>5. Types'
  <2>1. faults' \in 0 .. MaxFaults
    BY <1>0, <1>1, FaultsTyped
  <2>2. DOMAIN todo' = Sandboxes
    BY <1>0, <1>1 DEF Types
  <2>3. vmm' \in [Sandboxes -> {"none", "up", "running", "paused"}]
    BY <1>0, <1>4 DEF Types
  <2> QED
    BY <1>0, <1>4, <2>1, <2>2, <2>3 DEF Types
<1>6. Booting(m, i + 1)' /\ record[m] = Null
  <2>1. Booting(m, i) /\ i \in 1 .. 8
    BY <1>0, <1>2, <1>3 DEF SandboxInv
  <2>2. record[m] = Null
    BY <2>1 DEF Booting
  <2>3. i + 1 <= (IF ColdBooted(m) THEN 5 ELSE 4) => m \notin tap'
    BY <1>3, <2>1 DEF Booting
  <2>4. i + 1 = 8 => ColdBooted(m)
    BY <1>3
  <2> QED
    BY <1>0, <2>2, <2>3, <2>4 DEF Booting, ColdBooted
<1>7. \A n \in Sandboxes \ {m} : (n \in tap' => n \in tap) /\ (vmm'[n] = vmm[n] \/ vmm'[n] = "none")
  BY <1>0, <1>4 DEF Types
<1> QED
  BY <1>0, <1>1, <1>2, <1>3, <1>5, <1>6, <1>7, BootStep

\* The record: a cold boot is over, a restore has one step left.
LEMMA RecordKeeps ==
  ASSUME KataInv, NEW m \in Sandboxes, SaveInstance(m)
  PROVE  KataInv'
<1>0. /\ Types /\ SandboxInv(m)
      /\ UNCHANGED <<slot, vmdir, image, bundle, share, vfsd, vmm, tap, delta, saved>>
  BY DEF KataInv, SaveInstance, procVars, saveVars, dirVars
<1>1. /\ m \notin ref
      /\ ColdBooted(m) => At(m, 8)
      /\ ~ColdBooted(m) => At(m, 7)
  BY <1>0, StepPosition DEF SaveInstance, SandboxInv
<1>2. /\ \E i \in 7 .. 8 : At(m, i) /\ Booting(m, i) /\ (i = 8 <=> ColdBooted(m))
      /\ 7 \in 1 .. 8 /\ 8 \in 1 .. 8
  BY <1>0, <1>1 DEF SandboxInv
<1>3. InCall(m) /\ Live(m)
  BY <1>1, <1>2, OneStep, PathLengths DEF Live
<1>4. BaseID(m) \in Sandboxes /\ BaseID(m)' = BaseID(m) /\ record[m] = Null
      /\ slot[m] = "held" /\ (ColdBooted(m) \/ saved[From[m]] # Null)
  <2>1. BaseID(m)' = BaseID(m)
    BY <1>0 DEF BaseID, ColdBooted
  <2>2. record[m] = Null
    BY <1>2 DEF Booting
  <2> QED
    BY <1>0, <1>3, <2>1, <2>2, BaseTyped DEF SandboxInv
<1>5. \/ /\ record' = [record EXCEPT ![m] = BaseID(m)] /\ faults' = faults
         /\ todo' = [todo EXCEPT ![m] = Tail(@)]
         /\ ref' = IF ColdBooted(m) THEN ref \cup {m} ELSE ref
      \/ Fault /\ todo' = [todo EXCEPT ![m] = UndoSteps] /\ UNCHANGED <<record, ref>>
  BY DEF SaveInstance, Advance, Fails, Abort
<1>6. Types'
  <2>1. faults' \in 0 .. MaxFaults
    BY <1>0, <1>5, FaultsTyped
  <2>2. DOMAIN todo' = Sandboxes /\ ref' \subseteq Sandboxes
    BY <1>0, <1>5 DEF Types
  <2>3. record' \in [Sandboxes -> Sandboxes \cup {Null}]
    BY <1>0, <1>4, <1>5 DEF Types
  <2> QED
    BY <1>0, <2>1, <2>2, <2>3 DEF Types
<1>7. Holders' /\ SavedInv'
  BY <1>0, SavedStays DEF KataInv, Holders
<1>8. SandboxInv(m)'
  <2>1. CASE Fault /\ todo' = [todo EXCEPT ![m] = UndoSteps] /\ UNCHANGED <<record, ref>>
    <3>1. todo'[m] = UndoSteps
      BY <1>0, <2>1 DEF Types
    <3> QED
      BY <1>0, <1>1, <1>4, <2>1, <3>1, Own
  <2>2. ASSUME record' = [record EXCEPT ![m] = BaseID(m)], todo' = [todo EXCEPT ![m] = Tail(@)],
               ref' = IF ColdBooted(m) THEN ref \cup {m} ELSE ref
        PROVE  SandboxInv(m)'
    <3>1. record'[m] = BaseID(m)' /\ record'[m] # Null /\ todo'[m] = Tail(todo[m])
      BY <1>0, <1>4, <2>2, KataConstants DEF Types
    <3>2. CASE ColdBooted(m)
      <4>1. Tail(todo[m]) = Left(PathOf(m), 9) /\ Len(PathOf(m)) = 8 /\ PathOf(m) \in Seq(Steps)
        <5>1. Len(PathOf(m)) = 8 /\ PathOf(m) \in Seq(Steps)
          BY <1>1, PathLengths, Calls DEF PathOf
        <5>2. 8 \in 1 .. Len(PathOf(m)) /\ 8 + 1 = 9
          BY <5>1
        <5>3. Tail(todo[m]) = Left(PathOf(m), 8 + 1)
          BY <1>1, <3>2, <5>2, OneStep
        <5> QED
          BY <5>1, <5>2, <5>3
      <4>2. Left(PathOf(m), 9) = <<>>
        <5>1. Left(PathOf(m), Len(PathOf(m)) + 1) = <<>>
          BY <4>1, Suffixes
        <5>2. Len(PathOf(m)) + 1 = 9
          BY <4>1
        <5> QED
          BY <5>1, <5>2
      <4>3. todo'[m] = <<>> /\ OnPath(m)' /\ todo'[m] # UndoSteps /\ m \in ref'
        BY <2>2, <3>1, <3>2, <4>1, <4>2, Calls DEF OnPath
      <4> QED
        BY <1>0, <1>4, <3>1, <4>3, Own
    <3>3. CASE ~ColdBooted(m)
      <4>1. Tail(todo[m]) = Left(PathOf(m), 8)
        <5>1. 7 \in 1 .. Len(PathOf(m)) /\ 7 + 1 = 8
          BY <1>1, PathLengths
        <5>2. Tail(todo[m]) = Left(PathOf(m), 7 + 1)
          BY <1>1, <3>3, <5>1, OneStep
        <5> QED
          BY <5>1, <5>2
      <4>2. At(m, 8)' /\ m \notin ref'
        BY <1>1, <2>2, <3>1, <3>3, <4>1 DEF At, PathOf, ColdBooted
      <4>3. Booting(m, 8)' /\ 8 \in 1 .. 8
        BY <3>1, <3>3 DEF Booting, ColdBooted
      <4> QED
        BY <1>0, <1>4, <3>1, <4>2, <4>3, Own
    <3> QED
      BY <3>2, <3>3
  <2> QED
    BY <1>5, <2>1, <2>2
<1>9. ASSUME NEW n \in Sandboxes, n # m PROVE SandboxInv(n)'
  <2>1. todo'[n] = todo[n] /\ record'[n] = record[n] /\ (n \in ref' <=> n \in ref)
    BY <1>0, <1>5, <1>9 DEF Types
  <2> QED
    BY <1>0, <1>9, <2>1, Others
<1> QED
  BY <1>6, <1>7, <1>8, <1>9 DEF KataInv

\* The deferred clean-up leaves nothing of its Sandbox.
LEMMA UndoKeeps ==
  ASSUME KataInv, NEW m \in Sandboxes, Undo(m)
  PROVE  KataInv'
<1>0. /\ Types /\ SandboxInv(m) /\ todo' = [todo EXCEPT ![m] = <<>>]
      /\ UNCHANGED <<slot, ref, record, delta, saved, faults>>
      /\ bundle' = bundle \ {m} /\ vmdir' = vmdir \ {m} /\ image' = image \ {m}
  BY DEF KataInv, Undo, Return, slotVars, saveVars
<1>1. m \notin ref /\ todo[m] = UndoSteps /\ record[m] = Null
  BY <1>0, StepPosition DEF Undo, SandboxInv
<1>2. (\E killed : Gone(killed, m) /\ m \in killed) /\ share' \subseteq share
  BY DEF Undo, CleanupSandboxState, Kill
<1>3. /\ vfsd' \subseteq vfsd /\ tap' \subseteq tap
      /\ vmm' \in [Sandboxes -> {"none", "up", "running", "paused"}]
      /\ \A n \in Sandboxes : vmm'[n] = vmm[n] \/ vmm'[n] = "none"
      /\ m \notin vfsd' /\ m \notin tap' /\ vmm'[m] = "none"
  BY <1>0, <1>2, KillTakes
<1>4. Types'
  <2>1. DOMAIN todo' = Sandboxes /\ image' \subseteq vmdir'
    BY <1>0 DEF Types
  <2> QED
    BY <1>0, <1>2, <1>3, <2>1 DEF Types
<1>5. Holders' /\ SavedInv'
  BY <1>0, SavedStays DEF KataInv, Holders
<1>6. SandboxInv(m)'
  <2>1. todo'[m] = <<>> /\ m \notin ref' /\ ~Holds(m)'
    BY <1>0, <1>1, <1>3 DEF Types, Holds
  <2> QED
    BY <2>1, Own
<1>7. ASSUME NEW n \in Sandboxes, n # m PROVE SandboxInv(n)'
  <2>1. todo'[n] = todo[n]
    BY <1>0, <1>7 DEF Types
  <2> QED
    BY <1>0, <1>3, <1>7, <2>1, Others
<1> QED
  BY <1>4, <1>5, <1>6, <1>7 DEF KataInv

\* The last step of a restore: it is referred to by its Slot, or deleted.
LEMMA DialKeeps ==
  ASSUME KataInv, NEW m \in Sandboxes, DialAgent(m)
  PROVE  KataInv'
<1>0. /\ Types /\ SandboxInv(m) /\ todo' = [todo EXCEPT ![m] = <<>>]
      /\ UNCHANGED <<slot, delta, saved>>
  BY DEF KataInv, DialAgent, Return, saveVars
<1>1. m \notin ref /\ ~ColdBooted(m) /\ At(m, 8) /\ 8 \in 1 .. 8
  BY <1>0, StepPosition DEF DialAgent, SandboxInv
<1>2. record[m] # Null /\ record[m] = BaseID(m)
  BY <1>0, <1>1 DEF SandboxInv, Booting
<1>3. InCall(m) /\ slot[m] = "held" /\ saved[From[m]] # Null
  BY <1>0, <1>1, OneStep, PathLengths DEF SandboxInv, Live
<1>4. todo'[m] = <<>> /\ DOMAIN todo' = Sandboxes /\ \A n \in Sandboxes \ {m} : todo'[n] = todo[n]
  BY <1>0 DEF Types
<1>5. Holders' /\ SavedInv'
  BY <1>0, SavedStays DEF KataInv, Holders
<1>6. CASE /\ ref' = ref \cup {m}
           /\ UNCHANGED <<record, vmdir, image, bundle, share, vfsd, vmm, tap, faults>>
  <2>1. Types'
    BY <1>0, <1>4, <1>6 DEF Types
  <2>2. SandboxInv(m)'
    <3>1. BaseID(m)' = BaseID(m)
      BY <1>0 DEF BaseID, ColdBooted
    <3>2. OnPath(m)' /\ todo'[m] # UndoSteps
      BY <1>4, Calls DEF OnPath
    <3> QED
      BY <1>0, <1>2, <1>3, <1>6, <3>1, <3>2, Own
  <2>3. ASSUME NEW n \in Sandboxes, n # m PROVE SandboxInv(n)'
    BY <1>0, <1>4, <1>6, <2>3, Others
  <2> QED
    BY <1>5, <2>1, <2>2, <2>3 DEF KataInv
<1>7. CASE DeleteRestored(m) /\ ref' = ref /\ (faults' = faults \/ Fault)
  <2>0. /\ vfsd' \subseteq vfsd /\ tap' \subseteq tap /\ bundle' \subseteq bundle
        /\ vmdir' \subseteq vmdir /\ share' \subseteq share /\ image' \subseteq vmdir'
        /\ vmm' \in [Sandboxes -> {"none", "up", "running", "paused"}]
        /\ \A n \in Sandboxes : vmm'[n] = vmm[n] \/ vmm'[n] = "none"
        /\ record' = [record EXCEPT ![m] = Null]
        /\ ~Holds(m)'
    BY <1>2, <1>7, Deletes
  <2>1. Types'
    <3>1. faults' \in 0 .. MaxFaults
      BY <1>0, <1>7, FaultsTyped
    <3>2. record' \in [Sandboxes -> Sandboxes \cup {Null}]
      BY <1>0, <2>0 DEF Types
    <3> QED
      BY <1>0, <1>4, <1>7, <2>0, <3>1, <3>2 DEF Types
  <2>2. SandboxInv(m)'
    BY <1>1, <1>4, <1>7, <2>0, Own
  <2>3. ASSUME NEW n \in Sandboxes, n # m PROVE SandboxInv(n)'
    <3>1. record'[n] = record[n]
      BY <1>0, <2>0, <2>3 DEF Types
    <3> QED
      BY <1>0, <1>4, <1>7, <2>0, <2>3, <3>1, Others
  <2> QED
    BY <1>5, <2>1, <2>2, <2>3 DEF KataInv
<1> QED
  BY <1>6, <1>7 DEF DialAgent, dirVars, procVars

\* A step of a save that leaves the Slot with its runtimeRef.
LEMMA SaveStep ==
  ASSUME KataInv, NEW m \in Sandboxes, m \in ref, NEW x,
         UNCHANGED <<slot, ref, record, saved>>, Types',
         todo'[m] = x, x = <<>> \/ \E i \in 1 .. 4 : x = Left(SaveSteps, i),
         \A n \in Sandboxes \ {m} :
           /\ todo'[n] = todo[n]
           /\ n \in vfsd' => n \in vfsd
           /\ n \in tap' => n \in tap
           /\ n \in bundle' => n \in bundle
           /\ n \in vmdir' => n \in vmdir
           /\ vmm'[n] = vmm[n] \/ vmm'[n] = "none"
  PROVE  KataInv'
<1>0. Types /\ SandboxInv(m)
  BY DEF KataInv
<1>1. todo'[m] = x /\ PathOf(m)' = SaveSteps /\ Len(PathOf(m)') = 4
  BY <1>0, Calls DEF Types, PathOf
<1>2. OnPath(m)' /\ todo'[m] # UndoSteps
  <2>1. CASE x = <<>>
    BY <1>1, <2>1, Calls DEF OnPath
  <2>2. CASE \E i \in 1 .. 4 : x = Left(SaveSteps, i)
    <3>1. PICK i \in 1 .. 4 : x = Left(SaveSteps, i)
      BY <2>2
    <3>2. At(m, i)' /\ i \in 1 .. Len(PathOf(m)')
      BY <1>1, <3>1 DEF At
    <3> QED
      BY <3>2, OneStepNext DEF OnPath
  <2> QED
    BY <2>1, <2>2
<1>3. BaseID(m)' = BaseID(m)
  BY DEF BaseID, ColdBooted
<1>4. SandboxInv(m)'
  BY <1>0, <1>2, <1>3, Own DEF SandboxInv, Live
<1>5. Holders' /\ SavedInv'
  BY SavedStays DEF KataInv, Holders
<1>6. ASSUME NEW n \in Sandboxes, n # m PROVE SandboxInv(n)'
  BY <1>6, Others
<1> QED
  BY <1>4, <1>5, <1>6 DEF KataInv

\* Where a save goes on to.
LEMMA SaveAdvances ==
  ASSUME NEW m \in Sandboxes, m \in ref, NEW i \in 1 .. 4, At(m, i)
  PROVE  Tail(todo[m]) = Left(SaveSteps, i + 1)
<1>1. PathOf(m) = SaveSteps /\ i \in 1 .. Len(PathOf(m))
  BY Calls DEF PathOf
<1> QED
  BY <1>1, OneStep

\* The steps of a save before the VM is torn down.
LEMMA SaveKeeps ==
  ASSUME KataInv, NEW m \in Sandboxes, SaveSnapshot(m) \/ WriteSnapshot(m) \/ MergeDeltaIntoBase(m)
  PROVE  KataInv'
<1>0. /\ Types /\ SandboxInv(m)
      /\ UNCHANGED <<slot, ref, record, vmdir, bundle, share, vfsd, tap, saved>>
      /\ faults' = faults \/ Fault
  BY DEF KataInv, SaveSnapshot, WriteSnapshot, MergeDeltaIntoBase, Begin, Advance,
         slotVars, dirVars, procVars, saveVars
<1>1. m \in ref
  BY <1>0, StepPosition DEF SaveSnapshot, WriteSnapshot, MergeDeltaIntoBase, SandboxInv
<1>2. /\ image' \subseteq image
      /\ \/ vmm' = vmm
         \/ vmm' = [vmm EXCEPT ![m] = "paused"]
      /\ \/ delta' = delta
         \/ \E d \in {"none", "dirty", "whole"} : delta' = [delta EXCEPT ![m] = d]
  <2>1. CASE SaveSnapshot(m)
    BY <2>1 DEF SaveSnapshot, dirVars, saveVars
  <2>2. CASE WriteSnapshot(m)
    BY <2>2 DEF WriteSnapshot, SaveFails, dirVars, procVars
  <2>3. CASE MergeDeltaIntoBase(m)
    BY <1>0, <2>3 DEF MergeDeltaIntoBase, SaveFails, procVars, Types
  <2> QED
    BY <2>1, <2>2, <2>3
<1>3. \E x : /\ todo'[m] = x /\ DOMAIN todo' = Sandboxes /\ \A n \in Sandboxes \ {m} : todo'[n] = todo[n]
             /\ x = <<>> \/ \E i \in 1 .. 4 : x = Left(SaveSteps, i)
  <2>1. CASE SaveSnapshot(m)
    <3>1. SaveSteps = Left(SaveSteps, 1) /\ 1 \in 1 .. 4
      BY Calls, Suffixes
    <3>2. todo[m] = <<>> /\ (todo' = todo \/ todo' = [todo EXCEPT ![m] = SaveSteps])
      BY <2>1 DEF SaveSnapshot, Begin, InCall
    <3> QED
      BY <1>0, <3>1, <3>2 DEF Types
  <2>2. CASE WriteSnapshot(m)
    <3>1. At(m, 1) /\ 1 \in 1 .. 4 /\ 1 + 1 \in 1 .. 4
      BY <1>0, <2>2, StepPosition DEF WriteSnapshot, SandboxInv
    <3>2. Tail(todo[m]) = Left(SaveSteps, 1 + 1)
      BY <1>1, <3>1, SaveAdvances
    <3>3. todo' = [todo EXCEPT ![m] = Tail(@)] \/ todo' = [todo EXCEPT ![m] = <<>>]
      BY <2>2 DEF WriteSnapshot, Advance, SaveFails, Return
    <3> QED
      BY <1>0, <3>1, <3>2, <3>3 DEF Types
  <2>3. CASE MergeDeltaIntoBase(m)
    <3>1. At(m, 2) /\ 2 \in 1 .. 4 /\ 2 + 1 \in 1 .. 4
      BY <1>0, <2>3, StepPosition DEF MergeDeltaIntoBase, SandboxInv
    <3>2. Tail(todo[m]) = Left(SaveSteps, 2 + 1)
      BY <1>1, <3>1, SaveAdvances
    <3>3. todo' = [todo EXCEPT ![m] = Tail(@)] \/ todo' = [todo EXCEPT ![m] = <<>>]
      BY <2>3 DEF MergeDeltaIntoBase, Advance, SaveFails, Return
    <3> QED
      BY <1>0, <3>1, <3>2, <3>3 DEF Types
  <2> QED
    BY <2>1, <2>2, <2>3
<1>4. Types'
  <2>1. faults' \in 0 .. MaxFaults
    BY <1>0, FaultsTyped
  <2>2. DOMAIN todo' = Sandboxes
    BY <1>0, <1>3 DEF Types
  <2>3. vmm' \in [Sandboxes -> {"none", "up", "running", "paused"}]
    BY <1>0, <1>2 DEF Types
  <2>4. delta' \in [Sandboxes -> {"none", "dirty", "whole"}]
    BY <1>0, <1>2 DEF Types
  <2> QED
    BY <1>0, <1>2, <2>1, <2>2, <2>3, <2>4 DEF Types
<1>5. \A n \in Sandboxes \ {m} : vmm'[n] = vmm[n]
  BY <1>0, <1>2 DEF Types
<1> QED
  BY <1>0, <1>1, <1>3, <1>4, <1>5, SaveStep

\* The VM is torn down once its snapshot is written; the record stays.
LEMMA MetaKeeps ==
  ASSUME KataInv, NEW m \in Sandboxes, WriteMeta(m)
  PROVE  KataInv'
<1>0. Types /\ SandboxInv(m) /\ UNCHANGED <<slot, ref, record, saved>>
  BY DEF KataInv, WriteMeta, slotVars
<1>1. m \in ref /\ At(m, 3) /\ record[m] # Null
  BY <1>0, StepPosition DEF WriteMeta, SandboxInv
<1>2. Tail(todo[m]) = Left(SaveSteps, 4) /\ 4 \in 1 .. 4
  <2>1. 3 \in 1 .. 4 /\ 3 + 1 = 4
    OBVIOUS
  <2>2. Tail(todo[m]) = Left(SaveSteps, 3 + 1)
    BY <1>1, <2>1, SaveAdvances
  <2> QED
    BY <2>1, <2>2
<1>3. CASE TeardownInstance(m) /\ Advance(m) /\ UNCHANGED delta
  <2>1. todo' = [todo EXCEPT ![m] = Left(SaveSteps, 4)] /\ faults' = faults
    BY <1>2, <1>3 DEF Advance
  <2>2. /\ vfsd' \subseteq vfsd /\ tap' \subseteq tap /\ bundle' \subseteq bundle
        /\ vmdir' \subseteq vmdir /\ share' \subseteq share /\ image' \subseteq vmdir'
        /\ vmm' \in [Sandboxes -> {"none", "up", "running", "paused"}]
        /\ \A n \in Sandboxes : vmm'[n] = vmm[n] \/ vmm'[n] = "none"
    BY <1>1, <1>3, Teardown
  <2>3. Types'
    BY <1>0, <1>3, <2>1, <2>2 DEF Types
  <2>4. todo'[m] = Left(SaveSteps, 4) /\ \A n \in Sandboxes \ {m} : todo'[n] = todo[n]
    BY <1>0, <2>1 DEF Types
  <2> QED
    BY <1>0, <1>1, <1>2, <2>2, <2>3, <2>4, SaveStep
<1>4. CASE Fault /\ SaveFails(m) /\ UNCHANGED <<vmdir, image, bundle, share, vfsd, vmm, tap>>
  <2>1. todo' = [todo EXCEPT ![m] = <<>>] /\ delta' = [delta EXCEPT ![m] = "none"]
    BY <1>4 DEF SaveFails, Return
  <2>2. faults' \in 0 .. MaxFaults
    BY <1>0, <1>4, FaultsTyped
  <2>3. delta' \in [Sandboxes -> {"none", "dirty", "whole"}] /\ DOMAIN todo' = Sandboxes
    BY <1>0, <2>1 DEF Types
  <2>4. Types'
    BY <1>0, <1>4, <2>2, <2>3 DEF Types
  <2>5. todo'[m] = <<>> /\ \A n \in Sandboxes \ {m} : todo'[n] = todo[n]
    BY <1>0, <2>1 DEF Types
  <2> QED
    BY <1>0, <1>1, <1>4, <2>4, <2>5, SaveStep
<1> QED
  BY <1>3, <1>4 DEF WriteMeta, dirVars, procVars

\* The snapshot is there and its Sandbox has ended.
LEMMA DropKeeps ==
  ASSUME KataInv, NEW m \in Sandboxes, DropRuntime(m)
  PROVE  KataInv'
<1>0. /\ Types /\ SandboxInv(m) /\ SavedInv /\ DeleteRestored(m) /\ faults' = faults
      /\ saved' = [saved EXCEPT ![m] = [base |-> record[m], whole |-> delta[m] = "whole"]]
      /\ delta' = [delta EXCEPT ![m] = "none"] /\ ref' = ref \ {m}
      /\ slot' = [slot EXCEPT ![m] = "ended"] /\ todo' = [todo EXCEPT ![m] = Tail(@)]
  BY DEF KataInv, DropRuntime, Advance
<1>1. m \in ref /\ At(m, 4) /\ record[m] # Null /\ Live(m) /\ slot[m] = "held" /\ record[m] = BaseID(m)
  BY <1>0, StepPosition DEF DropRuntime, SandboxInv, Live
<1>2. todo'[m] = <<>>
  <2>1. 4 \in 1 .. 4 /\ 4 + 1 = 5 /\ Len(SaveSteps) + 1 = 5
    BY Calls
  <2>2. Tail(todo[m]) = Left(SaveSteps, 4 + 1)
    BY <1>1, <2>1, SaveAdvances
  <2>3. Left(SaveSteps, Len(SaveSteps) + 1) = <<>>
    BY Calls, Suffixes
  <2>4. Tail(todo[m]) = <<>>
    BY <2>1, <2>2, <2>3
  <2> QED
    BY <1>0, <2>4 DEF Types
<1>3. /\ vfsd' \subseteq vfsd /\ tap' \subseteq tap /\ bundle' \subseteq bundle
      /\ vmdir' \subseteq vmdir /\ share' \subseteq share /\ image' \subseteq vmdir'
      /\ vmm' \in [Sandboxes -> {"none", "up", "running", "paused"}]
      /\ \A n \in Sandboxes : vmm'[n] = vmm[n] \/ vmm'[n] = "none"
      /\ record' = [record EXCEPT ![m] = Null]
      /\ ~Holds(m)'
  BY <1>0, <1>1, Deletes
<1>4. record[m] \in Sandboxes
  BY <1>1, BaseTyped
<1>5. [base |-> record[m], whole |-> delta[m] = "whole"] \in Snapshot
  <2>1. (delta[m] = "whole") \in BOOLEAN
    OBVIOUS
  <2> QED
    BY <1>4, <2>1 DEF Snapshot
<1>6. [base |-> record[m], whole |-> delta[m] = "whole"] # Null
  BY <1>5, KataConstants
<1>7. Types'
  <2>1. record' \in [Sandboxes -> Sandboxes \cup {Null}]
    BY <1>0, <1>3 DEF Types
  <2>2. slot' \in [Sandboxes -> {"new", "held", "ended", "gone"}] /\ ref' \subseteq Sandboxes
    BY <1>0 DEF Types
  <2>3. saved' \in [Sandboxes -> Snapshot \cup {Null}]
    BY <1>0, <1>5 DEF Types
  <2>4. delta' \in [Sandboxes -> {"none", "dirty", "whole"}] /\ DOMAIN todo' = Sandboxes
    BY <1>0 DEF Types
  <2> QED
    BY <1>0, <1>3, <2>1, <2>2, <2>3, <2>4 DEF Types
<1>8. Holders'
  BY <1>0, <1>1 DEF KataInv, Types, Holders
<1>9. SavedInv'
  <2>1. saved'[m] # Null /\ saved'[m].base = record[m] /\ slot'[m] = "ended"
    BY <1>0, <1>6 DEF Types
  <2>2. \A f \in Sandboxes : saved[f] # Null => saved'[f] # Null
    BY <1>0, <1>6 DEF Types
  <2>3. ColdBooted(record[m]) /\ (record[m] = m \/ saved[record[m]] # Null)
    <3>1. CASE ColdBooted(m)
      BY <1>1, <3>1 DEF BaseID
    <3>2. CASE ~ColdBooted(m)
      BY <1>0, <1>1, <3>2, LiveParent DEF BaseID, SavedInv
    <3> QED
      BY <3>1, <3>2
  <2>4. saved'[record[m]] # Null
    BY <1>4, <2>1, <2>2, <2>3
  <2> SUFFICES ASSUME NEW f \in Sandboxes, saved'[f] # Null
               PROVE  /\ slot'[f] \in {"ended", "gone"}
                      /\ ColdBooted(saved'[f].base) /\ saved'[saved'[f].base] # Null
    BY DEF SavedInv, ColdBooted
  <2>5. CASE f = m
    BY <2>1, <2>3, <2>4, <2>5
  <2>6. CASE f # m
    <3>1. saved'[f] = saved[f] /\ slot'[f] = slot[f]
      BY <1>0, <2>6 DEF Types
    <3>2. saved[f].base \in Sandboxes
      <4>1. saved[f] \in Snapshot
        BY <1>0, <3>1 DEF Types
      <4> QED
        BY <4>1 DEF Snapshot
    <3> QED
      BY <1>0, <2>2, <3>1, <3>2 DEF SavedInv
  <2> QED
    BY <2>5, <2>6
<1>10. SandboxInv(m)'
  BY <1>0, <1>2, <1>3, Own
<1>11. ASSUME NEW n \in Sandboxes, n # m PROVE SandboxInv(n)'
  <2>1. /\ slot'[n] = slot[n] /\ todo'[n] = todo[n] /\ record'[n] = record[n]
        /\ (n \in ref' <=> n \in ref)
    BY <1>0, <1>3, <1>11 DEF Types
  <2>2. \E s : s # Null /\ saved' = [saved EXCEPT ![m] = s]
    BY <1>0, <1>6
  <2> QED
    BY <1>1, <1>3, <1>11, <2>1, <2>2, Others
<1> QED
  BY <1>7, <1>8, <1>9, <1>10, <1>11 DEF KataInv

Acts(m) == Request(m) \/ CallStep(m) \/ VMDies(m)

\* Nothing changes but what killed VMMs still hold.
Quiet == UNCHANGED <<slot, ref, todo, record, vmdir, image, bundle, share, vfsd, vmm, tap, delta, saved, faults>>

\* Who takes a step, if it is not the kernel.
LEMMA ActsOrQuiet ==
  ASSUME [Next]_vars
  PROVE  Quiet \/ \E m \in Sandboxes : Acts(m)
<1>1. ASSUME NEW m \in Sandboxes, VMMExits(m) PROVE Quiet
  BY <1>1 DEF VMMExits, Quiet, slotVars, dirVars, saveVars
<1>2. UNCHANGED vars => Quiet
  BY DEF vars, slotVars, dirVars, procVars, saveVars, Quiet
<1> QED
  BY <1>1, <1>2 DEF Next, Acts

\* Every step preserves the invariant.
LEMMA NextKeeps ==
  ASSUME KataInv, [Next]_vars
  PROVE  KataInv'
<1>1. CASE Quiet
  <2>1. UNCHANGED <<slot, ref, todo, record, vmdir, image, bundle, share, vfsd, vmm, tap, delta, saved, faults>>
    BY <1>1 DEF Quiet
  <2>2. Types' /\ Holders' /\ SavedInv'
    BY <2>1 DEF KataInv, Types, Holders, SavedInv, ColdBooted
  <2>3. ASSUME NEW n \in Sandboxes PROVE SandboxInv(n)'
    BY <2>1 DEF KataInv, SandboxInv, OnPath, Live, Holds, Booting, At, PathOf, InCall, BaseID, ColdBooted
  <2> QED
    BY <2>2, <2>3 DEF KataInv
<1>2. ASSUME NEW m \in Sandboxes, Acts(m) PROVE KataInv'
  BY <1>2, ReserveKeeps, EndKeeps, ColdBootKeeps, LoadKeeps, SaveKeeps, DiesKeeps, PrepareKeeps, RunKeeps,
     RecordKeeps, UndoKeeps, DialKeeps, MetaKeeps, DropKeeps DEF Acts, Request, CallStep
<1> QED
  BY <1>1, <1>2, ActsOrQuiet

\* The invariant holds in every reachable state.
LEMMA Invariance == Spec => []KataInv
<1>1. KataInv /\ [Next]_vars => KataInv'
  BY NextKeeps
<1> QED
  BY <1>1, InitInv, PTL DEF Spec

\* A call that has returned without a runtimeRef has left nothing: the deferred
\* clean-ups of ColdBoot and LoadSnapshot and DeleteRestored are complete,
\* whichever step failed and whatever clean-ups ran for other Sandboxes.
THEOREM VMsDoNotOutlive == Spec => []NothingOutlives
<1>1. KataInv => NothingOutlives
  BY DEF KataInv, SandboxInv, NothingOutlives, Live
<1> QED
  BY <1>1, Invariance, PTL

-----------------------------------------------------------------------------
(* What a step does to Sandboxes other than its own.                        *)

Boots(m) ==
  \/ SetupImageRootfs(m) \/ ReconstructSharedDir(m) \/ StartVirtiofsd(m) \/ LaunchVMM(m)
  \/ CreateTaps(m) \/ BootVM(m) \/ StartWorkload(m) \/ RestoreVM(m)

\* A Sandbox's Slot, call, record, image and snapshot change by its own steps only.
LEMMA ByOwnSteps ==
  ASSUME Types, NEW m \in Sandboxes, Acts(m), NEW n \in Sandboxes, n # m
  PROVE  /\ slot'[n] = slot[n] /\ todo'[n] = todo[n] /\ record'[n] = record[n]
         /\ delta'[n] = delta[n] /\ saved'[n] = saved[n]
         /\ (n \in ref' <=> n \in ref) /\ (n \in image' <=> n \in image)
<1>1. CASE Boots(m)
  BY <1>1 DEF Boots, SetupImageRootfs, ReconstructSharedDir, StartVirtiofsd, LaunchVMM, CreateTaps, BootVM,
     StartWorkload, RestoreVM, Advance, Fails, FailsFor, Abort, slotVars, dirVars, procVars, saveVars, Types
<1>2. CASE ReserveSlot(m) \/ VMDies(m)
  BY <1>2 DEF ReserveSlot, VMDies, slotVars, dirVars, procVars, saveVars, Types
<1>3. CASE StopSandbox(m) \/ ReleaseSlot(m)
  BY <1>3 DEF StopSandbox, ReleaseSlot, DeleteRestored, TeardownInstance,
     slotVars, dirVars, procVars, saveVars, Types
<1>4. CASE ColdBoot(m) \/ LoadSnapshot(m)
  BY <1>4 DEF ColdBoot, LoadSnapshot, Begin, slotVars, dirVars, procVars, saveVars, Types
<1>5. CASE SaveInstance(m) \/ Undo(m)
  BY <1>5 DEF SaveInstance, Undo, Advance, Fails, Abort, Return, slotVars, dirVars, procVars, saveVars, Types
<1>6. CASE DialAgent(m)
  BY <1>6 DEF DialAgent, Return, DeleteRestored, TeardownInstance, dirVars, procVars, saveVars, Types
<1>7. CASE SaveSnapshot(m) \/ WriteSnapshot(m) \/ MergeDeltaIntoBase(m)
  BY <1>7 DEF SaveSnapshot, WriteSnapshot, MergeDeltaIntoBase, SaveFails, Begin, Advance, Return,
     slotVars, dirVars, procVars, saveVars, Types
<1>8. CASE WriteMeta(m) \/ DropRuntime(m)
  BY <1>8 DEF WriteMeta, DropRuntime, SaveFails, Advance, Return, DeleteRestored, TeardownInstance,
     slotVars, dirVars, procVars, saveVars, Types
<1> QED
  BY <1>1, <1>2, <1>3, <1>4, <1>5, <1>6, <1>7, <1>8 DEF Acts, Request, CallStep, Boots

\* A boot step keeps the image and the call booting.
LEMMA BootsOn ==
  ASSUME KataInv, NEW m \in Sandboxes, Boots(m)
  PROVE  /\ UNCHANGED <<slot, ref, record, image, delta, saved>> /\ m \notin ref
         /\ InCall(m) /\ todo[m] # UndoSteps
<1>1. OnPath(m)
  BY DEF KataInv, SandboxInv
<1>2. UNCHANGED <<slot, ref, record, image, delta, saved>>
  BY DEF Boots, SetupImageRootfs, ReconstructSharedDir, StartVirtiofsd, LaunchVMM, CreateTaps, BootVM,
     StartWorkload, RestoreVM, slotVars, dirVars, saveVars
<1>3. m \notin ref /\ \E i \in 1 .. 8 : At(m, i)
  BY <1>1, StepPosition DEF Boots, SetupImageRootfs, ReconstructSharedDir, StartVirtiofsd, LaunchVMM, CreateTaps,
     BootVM, StartWorkload, RestoreVM
<1> QED
  BY <1>2, <1>3, OneStep, PathLengths

-----------------------------------------------------------------------------
(* Lineages: the share, the sockets and the clean-ups of a base id.         *)

\* A live Sandbox is the last of its lineage.
LEMMA LiveIsTip ==
  ASSUME KataInv, SavedParents, NEW n \in Sandboxes, Live(n)
  PROVE  Tip(n, BaseID(n)) /\ saved[n] = Null
<1>1. slot[n] = "held" /\ saved[n] = Null
  BY DEF KataInv, SandboxInv, SavedInv
<1>2. ASSUME NEW z \in Sandboxes, From[z] = n PROVE ~InLineage(z, BaseID(n))
  <2>1. ~ColdBooted(z)
    BY <1>2, KataConstants DEF ColdBooted
  <2>2. ~Live(z)
    BY <1>1, <1>2, <2>1, LiveParent
  <2>3. saved[z] = Null
    BY <1>1, <1>2, <2>1 DEF SavedParents
  <2> QED
    BY <2>2, <2>3 DEF InLineage
<1> QED
  BY <1>1, <1>2 DEF Tip, InLineage

\* A base id has one live user at a time.
LEMMA OneUser ==
  ASSUME KataInv, LineageInv, NEW m \in Sandboxes, NEW n \in Sandboxes, Live(m), Live(n),
         BaseID(m) = BaseID(n)
  PROVE  m = n
<1>1. Tip(m, BaseID(m)) /\ Tip(n, BaseID(m)) /\ BaseID(m) \in Sandboxes
  BY LiveIsTip, BaseTyped DEF LineageInv
<1> QED
  BY <1>1 DEF LineageInv, OneTip

\* The clean-up of a base id hits its own Sandbox at most.
LEMMA NotHit ==
  ASSUME KataInv, LineageInv, NEW m \in Sandboxes, NEW n \in Sandboxes, n # m, Live(n), NEW b,
         \/ Live(m) /\ b = BaseID(m)
         \/ ColdBooted(m) /\ b = m /\ slot[m] = "held"
  PROVE  n \notin Matches(b) /\ BaseID(n) # b
<1>0. SavedInv /\ slot[n] = "held"
  BY DEF KataInv, SandboxInv
<1>1. BaseID(n) # b
  <2>1. CASE Live(m) /\ b = BaseID(m)
    BY <2>1, OneUser
  <2>2. CASE ColdBooted(m) /\ b = m /\ slot[m] = "held"
    <3> SUFFICES ASSUME BaseID(n) = m PROVE FALSE
      BY <2>2
    <3>1. ~ColdBooted(n)
      BY DEF BaseID
    <3>2. From[n] \in Sandboxes /\ saved[From[n]] # Null /\ saved[From[n]].base = m
      BY <3>1, LiveParent DEF BaseID
    <3>3. slot[m] \in {"ended", "gone"}
      BY <1>0, <3>2 DEF SavedInv
    <3> QED
      BY <2>2, <3>3
  <2> QED
    BY <2>1, <2>2
<1>2. n # b
  <2> SUFFICES ASSUME n = b PROVE FALSE
    OBVIOUS
  <2>1. Live(m) /\ ~ColdBooted(m) /\ n = BaseID(m)
    BY DEF BaseID
  <2>2. From[m] \in Sandboxes /\ saved[From[m]] # Null /\ saved[From[m]].base = n
    BY <2>1, LiveParent DEF BaseID
  <2>3. slot[n] \in {"ended", "gone"}
    BY <1>0, <2>2 DEF SavedInv
  <2> QED
    BY <1>0, <2>3
<1> QED
  BY <1>1, <1>2 DEF Matches

\* A Sandbox is where it was after a kill that does not hit it.
LEMMA NotKilled ==
  ASSUME Types, NEW n \in Sandboxes, NEW killed, NEW m, Gone(killed, m), n \notin killed
  PROVE  vmm'[n] = vmm[n] /\ (n \in vfsd' <=> n \in vfsd)
BY DEF Gone, Types

\* No step of another Sandbox touches a live VM, its virtiofsd or its share.
LEMMA Undisturbed ==
  ASSUME KataInv, LineageInv, NEW m \in Sandboxes, NEW n \in Sandboxes, n # m, Live(n), Acts(m)
  PROVE  /\ vmm'[n] = vmm[n] /\ (n \in vfsd' <=> n \in vfsd)
         /\ BaseID(n)' = BaseID(n) /\ (BaseID(n) \in share' <=> BaseID(n) \in share)
<1>0. Types /\ SandboxInv(m) /\ OnPath(m) /\ slot[n] = "held"
  BY DEF KataInv, SandboxInv
<1>1. BaseID(n)' = BaseID(n)
  <2>1. CASE ColdBooted(n)
    BY <2>1 DEF BaseID, ColdBooted
  <2>2. CASE ~ColdBooted(n)
    <3>1. From[n] \in Sandboxes /\ saved[From[n]] # Null /\ slot[From[n]] \in {"ended", "gone"}
      BY <2>2, LiveParent
    <3>2. saved'[From[n]] = saved[From[n]]
      <4>1. CASE From[n] # m
        BY <1>0, <3>1, <4>1, ByOwnSteps
      <4>2. CASE From[n] = m
        <5>1. ~Live(m)
          BY <1>0, <3>1, <4>2 DEF SandboxInv
        <5>2. ~DropRuntime(m)
          BY <5>1 DEF DropRuntime, Step, Live
        <5> QED
          BY <5>2, <4>2 DEF Acts, Request, CallStep, ReserveSlot, StopSandbox, ReleaseSlot, ColdBoot, LoadSnapshot,
             SaveSnapshot, SetupImageRootfs, ReconstructSharedDir, StartVirtiofsd, LaunchVMM, CreateTaps, BootVM,
             StartWorkload, SaveInstance, Undo, RestoreVM, DialAgent, WriteSnapshot, MergeDeltaIntoBase, WriteMeta,
             VMDies, saveVars
      <4> QED
        BY <4>1, <4>2
    <3> QED
      BY <2>2, <3>2 DEF BaseID, ColdBooted
  <2> QED
    BY <2>1, <2>2
<1>2. ASSUME NEW b, NEW mine \in SUBSET {m}, CleanupSandboxState(b, m, mine),
             (Live(m) /\ b = BaseID(m)) \/ (ColdBooted(m) /\ b = m /\ slot[m] = "held")
      PROVE  vmm'[n] = vmm[n] /\ (n \in vfsd' <=> n \in vfsd) /\ (BaseID(n) \in share' <=> BaseID(n) \in share)
  <2>1. n \notin Matches(b) \cup mine /\ BaseID(n) # b
    BY <1>2, NotHit
  <2> QED
    BY <1>0, <1>2, <2>1, NotKilled DEF CleanupSandboxState, Kill
<1>3. ASSUME DeleteRestored(m)
      PROVE  vmm'[n] = vmm[n] /\ (n \in vfsd' <=> n \in vfsd) /\ (BaseID(n) \in share' <=> BaseID(n) \in share)
  <2>1. CASE record[m] = Null
    BY <1>3, <2>1 DEF DeleteRestored, dirVars, procVars
  <2>2. CASE record[m] # Null
    <3>1. Live(m) /\ record[m] = BaseID(m)
      BY <1>0, <2>2 DEF SandboxInv, Holds
    <3> QED
      BY <1>2, <1>3, <2>2, <3>1 DEF DeleteRestored, TeardownInstance
  <2> QED
    BY <2>1, <2>2
<1>4. CASE ReserveSlot(m) \/ LoadSnapshot(m) \/ SaveSnapshot(m) \/ WriteSnapshot(m) \/ MergeDeltaIntoBase(m) \/ SaveInstance(m)
  BY <1>0, <1>1, <1>4 DEF ReserveSlot, LoadSnapshot, SaveSnapshot, WriteSnapshot, MergeDeltaIntoBase, SaveInstance,
     slotVars, dirVars, procVars, Types
<1>5. CASE StopSandbox(m) \/ ReleaseSlot(m) \/ DialAgent(m) \/ DropRuntime(m)
  BY <1>1, <1>3, <1>5 DEF StopSandbox, ReleaseSlot, DialAgent, DropRuntime, dirVars, procVars
<1>6. CASE VMDies(m)
  BY <1>0, <1>1, <1>6, NotKilled DEF VMDies, dirVars
<1>7. CASE ColdBoot(m)
  BY <1>1, <1>2, <1>7 DEF ColdBoot
<1>8. CASE Undo(m)
  <2>1. slot[m] = "held"
    BY <1>0, <1>8 DEF Undo, Step, SandboxInv, Live
  <2> QED
    BY <1>0, <1>1, <1>2, <1>8, <2>1, NotKilled DEF Undo, Kill
<1>9. CASE WriteMeta(m)
  <2>1. m \in ref
    BY <1>0, <1>9, StepPosition DEF WriteMeta
  <2>2. Live(m) /\ record[m] = BaseID(m)
    BY <1>0, <2>1 DEF SandboxInv, Live
  <2> QED
    BY <1>1, <1>2, <1>9, <2>2 DEF WriteMeta, TeardownInstance, dirVars, procVars
<1>10. CASE Boots(m)
  <2>1. Live(m)
    BY <1>10, BootsOn DEF Live
  <2>2. BaseID(m) # BaseID(n)
    BY <2>1, OneUser
  <2> QED
    BY <1>0, <1>1, <1>10, <2>2 DEF Boots, SetupImageRootfs, ReconstructSharedDir, StartVirtiofsd, LaunchVMM, CreateTaps,
       BootVM, StartWorkload, RestoreVM, dirVars, procVars, Types
<1> QED
  BY <1>4, <1>5, <1>6, <1>7, <1>8, <1>9, <1>10 DEF Acts, Request, CallStep, Boots

\* A step changes the lineage of its own Sandbox at most.
LEMMA OthersStayInLineage ==
  ASSUME KataInv, LineageInv, NEW m \in Sandboxes, Acts(m), NEW n \in Sandboxes, n # m, NEW b
  PROVE  InLineage(n, b)' <=> InLineage(n, b)
<1>1. saved'[n] = saved[n] /\ (Live(n)' <=> Live(n))
  BY ByOwnSteps DEF KataInv, Live, InCall
<1>2. Live(n) => BaseID(n)' = BaseID(n)
  BY Undisturbed
<1> QED
  BY <1>1, <1>2 DEF InLineage

\* Nothing changes in who belongs to a lineage.
LEMMA SameLineages ==
  ASSUME OneTip, \A x, b \in Sandboxes : InLineage(x, b)' <=> InLineage(x, b)
  PROVE  OneTip'
BY DEF OneTip, Tip

\* Its last member leaves a lineage: the one it was forked from is the last.
LEMMA LeavesLineage ==
  ASSUME KataInv, LineageInv, NEW m \in Sandboxes, Acts(m), Live(m), ~Live(m)', saved'[m] = Null
  PROVE  OneTip'
<1>1. Tip(m, BaseID(m)) /\ saved[m] = Null
  BY LiveIsTip DEF LineageInv
<1>2. \A b : ~InLineage(m, b)'
  BY DEF InLineage
<1>3. \A n, b \in Sandboxes : n # m => (InLineage(n, b)' <=> InLineage(n, b))
  BY OthersStayInLineage
<1> SUFFICES ASSUME NEW b \in Sandboxes, NEW x \in Sandboxes, NEW y \in Sandboxes, Tip(x, b)', Tip(y, b)'
             PROVE  x = y
  BY DEF OneTip
<1>4. x # m /\ y # m /\ InLineage(x, b) /\ InLineage(y, b)
  BY <1>2, <1>3 DEF Tip
<1>5. CASE b = BaseID(m)
  <2>1. ASSUME NEW v \in Sandboxes, Tip(v, b)', v # m PROVE From[m] = v
    <3>1. InLineage(v, b) /\ ~Tip(v, b)
      BY <1>1, <1>3, <1>5, <2>1 DEF Tip, LineageInv, OneTip
    <3>2. PICK z \in Sandboxes : InLineage(z, b) /\ From[z] = v
      BY <3>1 DEF Tip
    <3>3. z = m
      BY <1>3, <2>1, <3>2 DEF Tip
    <3> QED
      BY <3>2, <3>3
  <2> QED
    BY <1>4, <2>1
<1>6. CASE b # BaseID(m)
  <2>1. ~InLineage(m, b)
    BY <1>1, <1>6 DEF InLineage
  <2>2. Tip(x, b) /\ Tip(y, b)
    BY <1>2, <1>3, <1>4, <2>1 DEF Tip
  <2> QED
    BY <2>2 DEF LineageInv, OneTip
<1> QED
  BY <1>5, <1>6

\* A Sandbox that boots becomes the last of its lineage.
LEMMA JoinsLineage ==
  ASSUME LinearLineage, KataInv, LineageInv, NEW m \in Sandboxes, Acts(m), ~Live(m), slot[m] = "held",
         saved' = saved, ColdBooted(m) \/ saved[From[m]] # Null
  PROVE  OneTip'
<1>0. SavedInv /\ Types /\ BaseID(m)' = BaseID(m) /\ saved[m] = Null
  BY DEF KataInv, SavedInv, BaseID, ColdBooted
<1>1. \A n, b \in Sandboxes : n # m => (InLineage(n, b)' <=> InLineage(n, b))
  BY OthersStayInLineage
<1>2. \A b : ~InLineage(m, b) /\ (InLineage(m, b)' => b = BaseID(m))
  BY <1>0 DEF InLineage
<1>3. BaseID(m) = m => \A x \in Sandboxes : ~InLineage(x, m)
  <2> SUFFICES ASSUME BaseID(m) = m, NEW x \in Sandboxes, InLineage(x, m) PROVE FALSE
    OBVIOUS
  <2>1. x # m
    BY <1>2
  <2>2. CASE saved[x] # Null /\ saved[x].base = m
    BY <1>0, <2>2 DEF SavedInv
  <2>3. CASE Live(x) /\ BaseID(x) = m
    <3>1. ~ColdBooted(x)
      BY <2>1, <2>3 DEF BaseID
    <3>2. From[x] \in Sandboxes /\ saved[From[x]] # Null /\ saved[From[x]].base = m
      BY <2>3, <3>1, LiveParent DEF BaseID
    <3> QED
      BY <1>0, <3>2 DEF SavedInv
  <2> QED
    BY <2>2, <2>3 DEF InLineage
<1>4. ~ColdBooted(m) => From[m] \in Sandboxes /\ Tip(From[m], BaseID(m))
  <2> SUFFICES ASSUME ~ColdBooted(m) PROVE From[m] \in Sandboxes /\ Tip(From[m], BaseID(m))
    OBVIOUS
  <2>1. From[m] \in Sandboxes /\ From[m] # Null
    BY KataConstants DEF ColdBooted
  <2>2. InLineage(From[m], BaseID(m))
    BY <2>1 DEF InLineage, BaseID
  <2>3. \A z \in Sandboxes : From[z] = From[m] => z = m
    BY <2>1 DEF LinearLineage
  <2> QED
    BY <1>2, <2>1, <2>2, <2>3 DEF Tip
<1> SUFFICES ASSUME NEW b \in Sandboxes, NEW x \in Sandboxes, NEW y \in Sandboxes, Tip(x, b)', Tip(y, b)'
             PROVE  x = y
  BY DEF OneTip
<1>5. CASE InLineage(m, b)'
  <2>1. b = BaseID(m)
    BY <1>2, <1>5
  <2>2. ASSUME NEW v \in Sandboxes, Tip(v, b)' PROVE v = m
    <3> SUFFICES ASSUME v # m PROVE FALSE
      OBVIOUS
    <3>1. InLineage(v, b)
      BY <1>1, <2>2 DEF Tip
    <3>2. Tip(v, b)
      BY <1>1, <1>2, <2>2, <3>1 DEF Tip
    <3>3. ~ColdBooted(m)
      BY <1>3, <2>1, <3>1 DEF BaseID
    <3>4. v = From[m]
      BY <1>4, <2>1, <3>2, <3>3 DEF LineageInv, OneTip
    <3> QED
      BY <1>5, <2>2, <3>4 DEF Tip
  <2> QED
    BY <2>2
<1>6. CASE ~InLineage(m, b)'
  <2>1. \A z \in Sandboxes : InLineage(z, b)' <=> InLineage(z, b)
    BY <1>1, <1>2, <1>6
  <2>2. Tip(x, b) /\ Tip(y, b)
    BY <2>1 DEF Tip
  <2> QED
    BY <2>2 DEF LineageInv, OneTip
<1> QED
  BY <1>5, <1>6

\* Only a boot makes a Sandbox live, and only CreateSnapshot saves it.
LEMMA WhoActs ==
  ASSUME Types, NEW m \in Sandboxes, Acts(m)
  PROVE  /\ ~Live(m) /\ Live(m)' => ColdBoot(m) \/ LoadSnapshot(m)
         /\ ~DropRuntime(m) => saved' = saved
<1>1. ~DropRuntime(m) => saved' = saved
  BY DEF Acts, Request, CallStep, ReserveSlot, StopSandbox, ReleaseSlot, ColdBoot, LoadSnapshot,
         SaveSnapshot, SetupImageRootfs, ReconstructSharedDir, StartVirtiofsd, LaunchVMM, CreateTaps, BootVM,
         StartWorkload, SaveInstance, Undo, RestoreVM, DialAgent, WriteSnapshot, MergeDeltaIntoBase, WriteMeta,
         VMDies, saveVars
<1>2. CASE CallStep(m)
  <2>1. InCall(m)
    BY <1>2 DEF CallStep, SetupImageRootfs, ReconstructSharedDir, StartVirtiofsd, LaunchVMM, CreateTaps, BootVM,
       StartWorkload, SaveInstance, Undo, RestoreVM, DialAgent, WriteSnapshot, MergeDeltaIntoBase, WriteMeta,
       DropRuntime, Step
  <2> QED
    BY <1>1, <2>1 DEF Live
<1>3. CASE SaveSnapshot(m)
  BY <1>1, <1>3 DEF SaveSnapshot, Live
<1>4. CASE ReserveSlot(m) \/ StopSandbox(m) \/ ReleaseSlot(m) \/ VMDies(m)
  BY <1>1, <1>4 DEF ReserveSlot, StopSandbox, ReleaseSlot, VMDies, slotVars, Live, InCall
<1> QED
  BY <1>1, <1>2, <1>3, <1>4 DEF Acts, Request

\* A call is at its third step because it has just staged the share, or was there.
LEMMA StagedByOwnStep ==
  ASSUME KataInv, NEW m \in Sandboxes, Acts(m), m \notin ref', At(m, 3)'
  PROVE  \/ ReconstructSharedDir(m) /\ share' = share \cup {BaseID(m)} /\ saved' = saved
         \/ VMDies(m) /\ m \notin ref /\ At(m, 3) /\ share' = share /\ saved' = saved
<1>0. Types /\ OnPath(m)
  BY DEF KataInv, SandboxInv
<1>1. /\ Len(PathOf(m)') = 8 /\ 3 \in 1 .. Len(PathOf(m)')
      /\ todo'[m] # <<>> /\ todo'[m] # UndoSteps
  <2>1. Len(PathOf(m)') = 8
    BY PathLengths
  <2>2. 3 \in 1 .. Len(PathOf(m)')
    BY <2>1
  <2> QED
    BY <2>1, <2>2, OneStepNext DEF InCall
<1>2. ASSUME NEW i \in 1 .. 7, m \notin ref, At(m, i), todo' = [todo EXCEPT ![m] = Tail(@)]
      PROVE  i = 2
  <2>0. Len(PathOf(m)) = 8
    BY <1>2, PathLengths
  <2>1. i \in 1 .. Len(PathOf(m)) /\ i + 1 \in 1 .. 8
    BY <2>0
  <2>2. todo'[m] = Left(PathOf(m), i + 1)
    BY <1>0, <1>2, <2>1, OneStep DEF Types
  <2>3. At(m, i + 1)'
    BY <1>2, <2>2 DEF At, PathOf, ColdBooted
  <2>4. i + 1 \in 1 .. Len(PathOf(m)')
    BY <1>1, <2>1
  <2>5. 3 = i + 1
    BY <1>1, <2>3, <2>4, OneStepNext
  <2> QED
    BY <2>5
<1>3. CASE Boots(m)
  <2>1. todo' = [todo EXCEPT ![m] = Tail(@)]
    <3>1. todo' = [todo EXCEPT ![m] = Tail(@)] \/ todo' = [todo EXCEPT ![m] = UndoSteps]
      BY <1>3 DEF Boots, SetupImageRootfs, ReconstructSharedDir, StartVirtiofsd, LaunchVMM, CreateTaps,
         BootVM, StartWorkload, RestoreVM, Advance, Fails, FailsFor, Abort
    <3> QED
      BY <1>0, <1>1, <3>1 DEF Types
  <2>2. m \notin ref /\ InCall(m)
    BY <1>3, BootsOn
  <2>3. ReconstructSharedDir(m)
    <3>1. 1 \in 1 .. 7 /\ 3 \in 1 .. 7 /\ 4 \in 1 .. 7 /\ 5 \in 1 .. 7 /\ 6 \in 1 .. 7 /\ 7 \in 1 .. 7
      OBVIOUS
    <3>2. ~At(m, 1) /\ ~At(m, 3) /\ ~At(m, 4) /\ ~At(m, 5) /\ ~At(m, 6) /\ ~At(m, 7)
      BY <1>2, <2>1, <2>2, <3>1
    <3> QED
      BY <1>0, <1>3, <3>2, StepPosition DEF Boots, SetupImageRootfs, StartVirtiofsd, LaunchVMM, CreateTaps,
         BootVM, StartWorkload, RestoreVM
  <2>4. share' = share \cup {BaseID(m)} /\ saved' = saved
    <3>1. ~Abort(m)
      BY <1>0, <1>1 DEF Abort, Types
    <3> QED
      BY <2>3, <3>1 DEF ReconstructSharedDir, Fails, saveVars
  <2> QED
    BY <2>3, <2>4
<1>4. CASE ReserveSlot(m) \/ StopSandbox(m) \/ ReleaseSlot(m)
  <2>1. todo[m] # <<>> /\ todo' = todo
    BY <1>1, <1>4 DEF ReserveSlot, StopSandbox, ReleaseSlot
  <2>2. ReserveSlot(m)
    BY <1>4, <2>1 DEF StopSandbox, ReleaseSlot, InCall
  <2>3. ~Live(m)
    BY <2>2 DEF KataInv, SandboxInv, ReserveSlot
  <2> QED
    BY <2>1, <2>3 DEF Live, InCall
<1>5. CASE VMDies(m)
  BY <1>5 DEF VMDies, slotVars, dirVars, saveVars, At, PathOf, ColdBooted
<1>6. CASE ColdBoot(m) \/ LoadSnapshot(m)
  <2>1. m \notin ref /\ todo[m] = <<>> /\ (ColdBoot(m) => ColdBooted(m)) /\ (LoadSnapshot(m) => ~ColdBooted(m))
    BY <1>6 DEF ColdBoot, LoadSnapshot, InCall
  <2>2. ColdBoot(m) => todo' = [todo EXCEPT ![m] = ColdBootSteps]
    BY <1>1, <2>1 DEF ColdBoot, Begin
  <2>3. LoadSnapshot(m) => todo' = [todo EXCEPT ![m] = LoadSteps]
    BY <1>1, <2>1 DEF LoadSnapshot, Begin
  <2>4. todo'[m] = PathOf(m)'
    BY <1>0, <1>6, <2>1, <2>2, <2>3 DEF Types, PathOf, ColdBooted
  <2>5. PathOf(m)' \in Seq(Steps) /\ 1 \in 1 .. Len(PathOf(m)')
    BY <1>1, Calls DEF PathOf
  <2>6. todo'[m] = Left(PathOf(m)', 1)
    BY <1>1, <2>4, <2>5, Suffixes
  <2>7. At(m, 1)'
    BY <2>6 DEF At
  <2>8. 3 = 1
    BY <1>1, <2>5, <2>7, OneStepNext
  <2> QED
    BY <2>8
<1>7. CASE SaveInstance(m)
  <2>1. m \notin ref /\ (ColdBooted(m) => At(m, 8)) /\ (~ColdBooted(m) => At(m, 7)) /\ 7 \in 1 .. 7
    BY <1>0, <1>7, StepPosition DEF SaveInstance
  <2>2. todo' = [todo EXCEPT ![m] = Tail(@)] /\ ~ColdBooted(m)
    BY <1>0, <1>1, <1>7 DEF SaveInstance, Advance, Fails, Abort, Types
  <2>3. 7 = 2
    BY <1>2, <2>1, <2>2
  <2> QED
    BY <2>3
<1>8. CASE Undo(m) \/ DialAgent(m)
  BY <1>0, <1>1, <1>8 DEF Undo, DialAgent, Return, Types
<1>9. CASE SaveSnapshot(m) \/ WriteSnapshot(m) \/ MergeDeltaIntoBase(m) \/ WriteMeta(m)
  <2>1. m \in ref /\ ref' = ref
    BY <1>0, <1>9, StepPosition DEF SaveSnapshot, WriteSnapshot, MergeDeltaIntoBase, WriteMeta, slotVars
  <2> QED
    BY <2>1
<1>10. CASE DropRuntime(m)
  <2>1. m \in ref /\ At(m, 4) /\ 4 \in 1 .. 4 /\ 4 + 1 = Len(SaveSteps) + 1
    BY <1>0, <1>10, StepPosition, Calls DEF DropRuntime
  <2>2. Tail(todo[m]) = Left(SaveSteps, 4 + 1)
    BY <2>1, SaveAdvances
  <2>3. Left(SaveSteps, Len(SaveSteps) + 1) = <<>>
    BY Calls, Suffixes
  <2>4. todo'[m] = <<>>
    BY <1>0, <1>10, <2>1, <2>2, <2>3 DEF DropRuntime, Advance, Types
  <2> QED
    BY <1>1, <2>4
<1> QED
  BY <1>3, <1>4, <1>5, <1>6, <1>7, <1>8, <1>9, <1>10 DEF Acts, Request, CallStep, Boots

\* Where no two forks share a parent, lineages keep one last member, and a
\* boot keeps the share it has staged.
LEMMA LineageKeeps ==
  ASSUME LinearLineage, KataInv, LineageInv, NEW m \in Sandboxes, Acts(m)
  PROVE  LineageInv'
<1>0. Types /\ SandboxInv(m) /\ OneTip
  BY DEF KataInv, LineageInv
<1>a. KataInv'
  BY NextKeeps DEF Next, Acts
<1>1. OneTip'
  <2>1. CASE DropRuntime(m)
    <3>1. /\ m \in ref /\ record[m] = BaseID(m) /\ At(m, 4)
      BY <1>0, <2>1, StepPosition DEF DropRuntime, SandboxInv
    <3>2. /\ saved'[m] = [base |-> record[m], whole |-> delta[m] = "whole"] /\ m \notin ref'
      BY <1>0, <2>1 DEF DropRuntime, Types
    <3>3. record[m] \in Sandboxes
      BY <3>1, BaseTyped DEF Live
    <3>4. saved'[m] # Null /\ saved'[m].base = BaseID(m)
      <4>1. [base |-> record[m], whole |-> delta[m] = "whole"] \in Snapshot
        BY <3>3 DEF Snapshot
      <4> QED
        BY <3>1, <3>2, <4>1, KataConstants
    <3>5. slot'[m] # "held"
      BY <1>0, <2>1 DEF DropRuntime, Types
    <3>6. ~Live(m)'
      BY <1>a, <3>5 DEF KataInv, SandboxInv
    <3>7. Live(m) /\ saved[m] = Null
      BY <3>1, LiveIsTip DEF Live, LineageInv
    <3>8. \A b \in Sandboxes : InLineage(m, b)' <=> InLineage(m, b)
      BY <3>4, <3>6, <3>7 DEF InLineage
    <3> QED
      BY <1>0, <3>8, OthersStayInLineage, SameLineages
  <2>2. CASE ~DropRuntime(m)
    <3>0. saved' = saved /\ BaseID(m)' = BaseID(m)
      BY <1>0, <2>2, WhoActs DEF BaseID, ColdBooted
    <3>1. CASE Live(m) <=> Live(m)'
      <4>1. \A b \in Sandboxes : InLineage(m, b)' <=> InLineage(m, b)
        BY <3>0, <3>1 DEF InLineage
      <4> QED
        BY <1>0, <4>1, OthersStayInLineage, SameLineages
    <3>2. CASE Live(m) /\ ~Live(m)'
      BY <3>0, <3>2, LiveIsTip, LeavesLineage DEF LineageInv
    <3>3. CASE ~Live(m) /\ Live(m)'
      <4>1. ColdBoot(m) \/ LoadSnapshot(m)
        BY <1>0, <3>3, WhoActs
      <4>2. slot[m] = "held" /\ (ColdBooted(m) \/ saved[From[m]] # Null)
        BY <4>1 DEF ColdBoot, LoadSnapshot
      <4> QED
        BY <3>0, <3>3, <4>2, JoinsLineage
    <3> QED
      BY <3>1, <3>2, <3>3
  <2> QED
    BY <2>1, <2>2
<1>2. Staged'
  <2> SUFFICES ASSUME NEW n \in Sandboxes, n \notin ref', At(n, 3)' PROVE BaseID(n)' \in share'
    BY DEF Staged
  <2>1. CASE n = m
    <3>1. saved' = saved => BaseID(m)' = BaseID(m)
      BY DEF BaseID, ColdBooted
    <3> QED
      BY <2>1, <3>1, StagedByOwnStep DEF LineageInv, Staged
  <2>2. CASE n # m
    <3>1. n \notin ref /\ At(n, 3)
      BY <1>0, <2>2, ByOwnSteps DEF At, PathOf, ColdBooted
    <3>2. Live(n)
      BY <3>1, OneStep, FourSteps DEF Live
    <3> QED
      BY <2>2, <3>1, <3>2, Undisturbed DEF LineageInv, Staged
  <2> QED
    BY <2>1, <2>2
<1>3. SavedParents'
  <2> SUFFICES ASSUME NEW f \in Sandboxes, saved'[f] # Null, ~ColdBooted(f) PROVE saved'[From[f]] # Null
    BY DEF SavedParents, ColdBooted
  <2>0. From[f] \in Sandboxes
    BY KataConstants DEF ColdBooted
  <2>1. CASE DropRuntime(m)
    <3>1. m \in ref /\ At(m, 4)
      BY <1>0, <2>1, StepPosition DEF DropRuntime, SandboxInv
    <3>2. Live(m) /\ saved[m] = Null
      BY <3>1, LiveIsTip DEF Live, LineageInv
    <3>3. saved[From[f]] # Null
      <4>1. CASE f = m
        BY <3>2, <4>1, LiveParent
      <4>2. CASE f # m
        BY <1>0, <4>2, ByOwnSteps DEF LineageInv, SavedParents
      <4> QED
        BY <4>1, <4>2
    <3>4. From[f] # m
      BY <3>2, <3>3
    <3> QED
      BY <1>0, <2>0, <3>3, <3>4, ByOwnSteps
  <2>2. CASE ~DropRuntime(m)
    BY <1>0, <2>2, WhoActs DEF LineageInv, SavedParents
  <2> QED
    BY <2>1, <2>2
<1> QED
  BY <1>1, <1>2, <1>3 DEF LineageInv

\* Both invariants hold in every reachable state of a linear lineage.
LEMMA LineageInvariance ==
  ASSUME LinearLineage
  PROVE  Spec => [](KataInv /\ LineageInv)
<1>1. Init => LineageInv
  <2> SUFFICES ASSUME Init PROVE LineageInv
    OBVIOUS
  <2>1. \A n \in Sandboxes : saved[n] = Null /\ ~Live(n) /\ todo[n] = <<>>
    BY DEF Init, Live, InCall
  <2>2. OneTip /\ SavedParents
    BY <2>1 DEF OneTip, Tip, InLineage, SavedParents
  <2>3. ASSUME NEW n \in Sandboxes PROVE ~At(n, 3)
    <3>1. 3 \in 1 .. Len(PathOf(n))
      BY FourSteps
    <3> QED
      BY <2>1, <3>1, OneStep DEF Live
  <2> QED
    BY <2>2, <2>3 DEF LineageInv, Staged
<1>2. KataInv /\ LineageInv /\ [Next]_vars => LineageInv'
  <2>1. CASE Quiet
    BY <2>1 DEF Quiet, LineageInv, OneTip, Tip, InLineage, Staged, SavedParents,
       Live, InCall, At, PathOf, BaseID, ColdBooted
  <2> QED
    BY <2>1, ActsOrQuiet, LineageKeeps
<1> QED
  BY <1>1, <1>2, Invariance, PTL DEF Spec

\* Whatever failed or was deleted before, a boot finds the share it has staged
\* still there, and neither a living VM nor another attempt holds the tap of its
\* Slot, as long as no two Sandboxes are forked from the same one: EBUSY can
\* come only from a VMM that was killed and has not exited.
THEOREM BootsAreKeptApart ==
  ASSUME LinearLineage
  PROVE  Spec => []BootsDoNotCollide
<1>1. KataInv /\ LineageInv => BootsDoNotCollide
  <2> SUFFICES ASSUME KataInv, LineageInv, NEW n \in Sandboxes
               PROVE  /\ Step(n, "net") => \A m \in tap : SlotOf[m] # SlotOf[n]
                      /\ Step(n, "vfsd") => BaseID(n) \in share
    BY DEF BootsDoNotCollide
  <2>0. SandboxInv(n) /\ OnPath(n) /\ Types
    BY DEF KataInv, SandboxInv
  <2>1. Step(n, "vfsd") => BaseID(n) \in share
    BY <2>0, StepPosition DEF LineageInv, Staged
  <2>2. ASSUME Step(n, "net"), NEW m \in tap, SlotOf[m] = SlotOf[n] PROVE FALSE
    <3>1. m \in Sandboxes /\ SandboxInv(m)
      BY <2>0 DEF KataInv, Types
    <3>2. slot[m] = "held"
      BY <3>1 DEF SandboxInv, Holds
    <3>3. slot[n] = "held"
      BY <2>0, <2>2 DEF SandboxInv, Live, Step
    <3>4. m = n
      BY <2>2, <3>1, <3>2, <3>3 DEF KataInv, Holders
    <3>5. n \notin ref /\ \E i \in 1 .. 8 : At(n, i) /\ i = IF ColdBooted(n) THEN 5 ELSE 4
      BY <2>0, <2>2, StepPosition
    <3>6. n \notin tap
      BY <2>0, <3>5 DEF SandboxInv, Booting
    <3> QED
      BY <3>4, <3>6
  <2> QED
    BY <2>1, <2>2
<1> QED
  BY <1>1, LineageInvariance, PTL

\* A step shows in its own Sandbox's call or Slot, or is a fault.
LEMMA StepsShow ==
  ASSUME KataInv, NEW m \in Sandboxes, Acts(m)
  PROVE  faults' > faults \/ todo[m] # todo'[m] \/ slot[m] # slot'[m]
<1>0. Types /\ SandboxInv(m) /\ OnPath(m) /\ faults \in Nat
  BY DEF KataInv, SandboxInv, Types
<1>a. Fault => faults' > faults
  BY <1>0 DEF Fault
<1>b. ASSUME InCall(m), Advance(m) PROVE todo[m] # todo'[m]
  <2>1. todo'[m] = Tail(todo[m])
    BY <1>0, <1>b DEF Advance, Types
  <2>2. CASE todo[m] = UndoSteps
    <3>1. Tail(UndoSteps) = <<>>
      BY DEF UndoSteps
    <3> QED
      BY <2>1, <2>2, <3>1, Calls
  <2>3. CASE \E i \in 1 .. Len(PathOf(m)) : At(m, i)
    <3>1. PICK i \in 1 .. Len(PathOf(m)) : At(m, i)
      BY <2>3
    <3>2. PathOf(m) \in Seq(Steps) /\ Len(PathOf(m)) \in Nat
      BY Calls DEF PathOf
    <3>3. Tail(todo[m]) = Left(PathOf(m), i + 1) /\ todo[m] = Left(PathOf(m), i)
      BY <3>1, OneStep DEF At
    <3>4. i \in 1 .. Len(PathOf(m)) + 1 /\ i + 1 \in 1 .. Len(PathOf(m)) + 1 /\ i # i + 1
      BY <3>2
    <3>5. Left(PathOf(m), i) # Left(PathOf(m), i + 1)
      BY <3>2, <3>4, Suffixes
    <3> QED
      BY <2>1, <3>3, <3>5
  <2> QED
    BY <1>0, <1>b, <2>2, <2>3 DEF OnPath, InCall
<1>c. ASSUME InCall(m), Return(m) PROVE todo[m] # todo'[m]
  BY <1>0, <1>c DEF Return, InCall, Types
<1>d. ASSUME todo[m] # UndoSteps, Abort(m) PROVE todo[m] # todo'[m]
  BY <1>0, <1>d DEF Abort, Types
<1>e. ASSUME ~InCall(m), NEW s, s # <<>>, Begin(m, s) PROVE todo[m] # todo'[m]
  BY <1>0, <1>e DEF Begin, InCall, Types
<1>1. CASE Boots(m)
  BY <1>1, <1>a, <1>b, <1>d, BootsOn DEF Boots, SetupImageRootfs, ReconstructSharedDir, StartVirtiofsd, LaunchVMM,
     CreateTaps, BootVM, StartWorkload, RestoreVM, Fails, FailsFor
<1>2. CASE ReserveSlot(m) \/ StopSandbox(m) \/ ReleaseSlot(m)
  BY <1>0, <1>2 DEF ReserveSlot, StopSandbox, ReleaseSlot, Types
<1>3. CASE VMDies(m)
  BY <1>3, <1>a DEF VMDies
<1>4. CASE ColdBoot(m)
  <2>1. ColdBootSteps # <<>>
    BY DEF ColdBootSteps
  <2> QED
    BY <1>4, <1>a, <1>e, <2>1 DEF ColdBoot
<1>5. CASE LoadSnapshot(m)
  <2>1. LoadSteps # <<>>
    BY DEF LoadSteps
  <2> QED
    BY <1>5, <1>a, <1>e, <2>1 DEF LoadSnapshot
<1>6. CASE SaveSnapshot(m)
  <2>1. SaveSteps # <<>>
    BY DEF SaveSteps
  <2> QED
    BY <1>6, <1>a, <1>e, <2>1 DEF SaveSnapshot
<1>7. CASE SaveInstance(m)
  BY <1>7, <1>a, <1>b DEF SaveInstance, Fails, Step
<1>8. CASE Undo(m) \/ DialAgent(m)
  BY <1>8, <1>c DEF Undo, DialAgent, Step
<1>9. CASE WriteSnapshot(m) \/ MergeDeltaIntoBase(m) \/ WriteMeta(m) \/ DropRuntime(m)
  BY <1>9, <1>b, <1>c DEF WriteSnapshot, MergeDeltaIntoBase, WriteMeta, DropRuntime, SaveFails, Step
<1> QED
  BY <1>1, <1>2, <1>3, <1>4, <1>5, <1>6, <1>7, <1>8, <1>9 DEF Acts, Request, CallStep, Boots

\* The clean-up of one Sandbox never ends the VM of another, as long as no two
\* Sandboxes are forked from the same one.
THEOREM VMsEndByOwnCalls ==
  ASSUME LinearLineage
  PROVE  Spec => OnlyOwnCallsEndAVM
<1>1. ASSUME KataInv, LineageInv, [Next]_vars, NEW n \in Sandboxes, Served(n), ~Served(n)'
      PROVE  faults' > faults \/ todo[n] # todo'[n] \/ slot[n] # slot'[n]
  <2>1. ~Quiet
    BY <1>1 DEF Quiet, Served, BaseID, ColdBooted
  <2>2. PICK m \in Sandboxes : Acts(m)
    BY <1>1, <2>1, ActsOrQuiet
  <2>3. Live(n)
    BY <1>1 DEF KataInv, SandboxInv, Served, Holds
  <2>4. n = m
    BY <1>1, <2>2, <2>3, Undisturbed DEF Served
  <2> QED
    BY <1>1, <2>2, <2>4, StepsShow
<1>2. KataInv /\ LineageInv /\ [Next]_vars =>
        [\A n \in Sandboxes : Served(n) /\ ~Served(n)' =>
           \/ faults' > faults
           \/ todo[n] # todo'[n] \/ slot[n] # slot'[n]]_vars
  BY <1>1
<1> QED
  BY <1>2, LineageInvariance, PTL DEF Spec, OnlyOwnCallsEndAVM

-----------------------------------------------------------------------------
(* The refinement of RuntimeContract.                                       *)

\* The step of one Sandbox does not show in what the Slot manager sees of
\* another.
LEMMA PhaseOfOthers ==
  ASSUME KataInv, LineageInv, KataInv', NEW m \in Sandboxes, NEW n \in Sandboxes, n # m, Acts(m)
  PROVE  Phase(n)' = Phase(n)
<1>0. Types /\ SandboxInv(n) /\ SandboxInv(n)'
  BY DEF KataInv
<1>1. todo'[n] = todo[n] /\ (n \in ref' <=> n \in ref)
  BY <1>0, ByOwnSteps
<1>2. CASE Live(n)
  <2>1. Served(n)' <=> Served(n)
    BY <1>2, Undisturbed DEF Served
  <2> QED
    BY <1>1, <1>2, <2>1 DEF Phase, Live, InCall
<1>3. CASE ~Live(n)
  <2>1. ~Live(n)'
    BY <1>1, <1>3 DEF Live, InCall
  <2>2. ~Holds(n) /\ ~Holds(n)'
    BY <1>0, <1>3, <2>1 DEF SandboxInv
  <2> QED
    BY <1>3, <2>1, <2>2 DEF Phase, Live
<1> QED
  BY <1>2, <1>3

\* How a step moves its own Sandbox: a boot begins in a Slot it holds, a call
\* keeps to what it is until it returns, and what is dead stays so.
LEMMA OwnPhase ==
  ASSUME KataInv, NEW m \in Sandboxes, Acts(m)
  PROVE  /\ ~Live(m) /\ Live(m)' => slot[m] = "held" /\ InCall(m)' /\ m \notin ref'
         /\ InCall(m) /\ InCall(m)' => (m \in ref' <=> m \in ref)
         /\ ~InCall(m) /\ m \in ref =>
              /\ InCall(m)' => m \in ref'
              /\ ~InCall(m)' /\ m \in ref' /\ Served(m)' => Served(m)
<1>0. Types /\ OnPath(m) /\ SandboxInv(m)
  BY DEF KataInv, SandboxInv
<1>1. ~Live(m) /\ Live(m)' => slot[m] = "held" /\ InCall(m)' /\ m \notin ref'
  <2> SUFFICES ASSUME ~Live(m), Live(m)' PROVE slot[m] = "held" /\ InCall(m)' /\ m \notin ref'
    OBVIOUS
  <2>1. ColdBoot(m) \/ LoadSnapshot(m)
    BY <1>0, WhoActs
  <2>2. slot[m] = "held" /\ m \notin ref'
    BY <2>1 DEF ColdBoot, LoadSnapshot, slotVars
  <2> QED
    BY <2>2 DEF Live
<1>2. InCall(m) /\ InCall(m)' => (m \in ref' <=> m \in ref)
  <2> SUFFICES ASSUME InCall(m), InCall(m)', ref' # ref PROVE FALSE
    OBVIOUS
  <2>1. SaveInstance(m) \/ DialAgent(m) \/ DropRuntime(m)
    BY DEF Acts, Request, CallStep, VMDies, ReserveSlot, StopSandbox, ReleaseSlot, ColdBoot, LoadSnapshot, SaveSnapshot,
       SetupImageRootfs, ReconstructSharedDir, StartVirtiofsd, LaunchVMM, CreateTaps, BootVM, StartWorkload, Undo,
       RestoreVM, WriteSnapshot, MergeDeltaIntoBase, WriteMeta, slotVars
  <2>2. CASE DialAgent(m)
    BY <1>0, <2>2 DEF DialAgent, Return, InCall, Types
  <2>3. CASE SaveInstance(m)
    <3>1. ColdBooted(m) /\ Advance(m)
      BY <2>3 DEF SaveInstance
    <3>2. m \notin ref /\ At(m, 8)
      BY <1>0, <2>3, <3>1, StepPosition DEF SaveInstance
    <3>3. PathOf(m) = ColdBootSteps
      BY <3>1, <3>2 DEF PathOf
    <3>4. Len(PathOf(m)) = 8
      BY <3>3, Calls
    <3>5. 8 \in 1 .. Len(PathOf(m)) /\ Len(PathOf(m)) + 1 = 8 + 1
      BY <3>4
    <3>6. Tail(todo[m]) = Left(PathOf(m), 8 + 1)
      BY <3>2, <3>5, OneStep
    <3>7. Left(PathOf(m), Len(PathOf(m)) + 1) = <<>>
      BY <3>3, Calls, Suffixes
    <3> QED
      BY <1>0, <3>1, <3>5, <3>6, <3>7 DEF Advance, InCall, Types
  <2>4. CASE DropRuntime(m)
    <3>1. m \in ref /\ At(m, 4) /\ 4 \in 1 .. 4 /\ 4 + 1 = Len(SaveSteps) + 1
      BY <1>0, <2>4, StepPosition, Calls DEF DropRuntime
    <3>2. Tail(todo[m]) = Left(SaveSteps, 4 + 1)
      BY <3>1, SaveAdvances
    <3>3. Left(SaveSteps, Len(SaveSteps) + 1) = <<>>
      BY Calls, Suffixes
    <3> QED
      BY <1>0, <2>4, <3>1, <3>2, <3>3 DEF DropRuntime, Advance, InCall, Types
  <2> QED
    BY <2>1, <2>2, <2>3, <2>4
<1>3. ASSUME ~InCall(m), m \in ref
      PROVE  (InCall(m)' => m \in ref') /\ (~InCall(m)' /\ m \in ref' /\ Served(m)' => Served(m))
  <2>0. slot[m] = "held"
    BY <1>0, <1>3 DEF SandboxInv, Live
  <2>1. StopSandbox(m) \/ ReleaseSlot(m) \/ SaveSnapshot(m) \/ VMDies(m)
    BY <1>3, <2>0 DEF Acts, Request, CallStep, ReserveSlot, ColdBoot, LoadSnapshot,
       SetupImageRootfs, ReconstructSharedDir, StartVirtiofsd, LaunchVMM, CreateTaps, BootVM, StartWorkload,
       SaveInstance, Undo, RestoreVM, DialAgent, WriteSnapshot, MergeDeltaIntoBase, WriteMeta, DropRuntime, Step
  <2>2. CASE StopSandbox(m) \/ ReleaseSlot(m)
    BY <1>3, <2>2 DEF StopSandbox, ReleaseSlot, InCall
  <2>3. CASE SaveSnapshot(m)
    <3>1. ref' = ref /\ saved' = saved /\ share' = share /\ vfsd' = vfsd
      BY <2>3 DEF SaveSnapshot, slotVars, dirVars, saveVars
    <3>2. vmm' = vmm \/ vmm' = [vmm EXCEPT ![m] = "paused"]
      BY <2>3 DEF SaveSnapshot
    <3> QED
      BY <1>0, <1>3, <3>1, <3>2 DEF Served, BaseID, ColdBooted, Types
  <2>4. CASE VMDies(m)
    <3>1. ref' = ref /\ todo' = todo /\ vmm'[m] = "none"
      BY <1>0, <2>4, KillTakes DEF VMDies, slotVars
    <3> QED
      BY <1>3, <3>1 DEF Served, InCall
  <2> QED
    BY <2>1, <2>2, <2>3, <2>4
<1> QED
  BY <1>1, <1>2, <1>3

\* ColdBoot, LoadSnapshot, SaveSnapshot, DeleteRestored and the clean-ups keep
\* the safety half of what the Slot manager relies on: every step is one of
\* RuntimeContract or invisible to it.  In particular a call leaves a runtime
\* or nothing, a boot begins only when nothing is left in the Slot, and no
\* step shows in two Sandboxes.
THEOREM KeepsContractSafety ==
  ASSUME LinearLineage
  PROVE  Spec => Contract!Safety
<1> DEFINE phases == [n \in Sandboxes |-> Phase(n)]
<1>1. Init => Contract!Init
  <2> SUFFICES ASSUME Init PROVE \A n \in Sandboxes : Phase(n) = "absent"
    BY DEF Contract!Init
  <2> QED
    BY DEF Init, Phase, InCall, Holds
<1>2. ASSUME KataInv, LineageInv, NEW m \in Sandboxes, Acts(m)
      PROVE  Contract!Next \/ phases' = phases
  <2>0. KataInv'
    BY <1>2, NextKeeps DEF Next, Acts
  <2>1. Types /\ SandboxInv(m) /\ SandboxInv(m)'
    BY <1>2, <2>0 DEF KataInv
  <2>2. phases' = [phases EXCEPT ![m] = Phase(m)']
    BY <1>2, <2>0, PhaseOfOthers
  <2>3. (~Live(m) => ~Holds(m)) /\ (~Live(m)' => ~Holds(m)')
    BY <2>1 DEF SandboxInv
  <2>a. phases[m] = Phase(m)
    OBVIOUS
  <2> HIDE DEF phases
  <2>4. CASE Phase(m)' = Phase(m)
    BY <2>2, <2>4, <2>a DEF phases
  <2>5. CASE ~Live(m) /\ Phase(m)' # Phase(m)
    <3>1. Live(m)'
      BY <2>3, <2>5 DEF Phase, Live
    <3>2. slot[m] = "held" /\ InCall(m)' /\ m \notin ref'
      BY <1>2, <2>5, <3>1, OwnPhase
    <3>3. Phase(m) = "absent" /\ Phase(m)' = "booting"
      BY <2>3, <2>5, <3>2 DEF Phase, Live
    <3>4. ASSUME NEW n \in Sandboxes \ {m}, SlotOf[n] = SlotOf[m] PROVE phases[n] = "absent"
      <4>1. slot[n] # "held"
        BY <1>2, <3>2, <3>4 DEF KataInv, Holders
      <4>2. ~Live(n) /\ ~Holds(n)
        BY <1>2, <4>1 DEF KataInv, SandboxInv
      <4> QED
        BY <4>2 DEF Phase, Live, phases
    <3>5. Contract!Boot(m)
      BY <2>2, <2>a, <3>3, <3>4 DEF Contract!Boot, Contract!Becomes, phases
    <3> QED
      BY <3>5 DEF Contract!Next
  <2>6. CASE InCall(m) /\ Phase(m)' # Phase(m)
    <3>1. ~InCall(m)'
      BY <1>2, <2>6, OwnPhase DEF Phase
    <3>2. Phase(m) \in {"booting", "saving"} /\ Phase(m)' \in {"absent", "present", "dead"}
      BY <2>3, <2>6, <3>1 DEF Phase, Live
    <3>3. Contract!Return(m)
      BY <2>2, <2>a, <3>2 DEF Contract!Return, Contract!Becomes, phases
    <3> QED
      BY <3>3 DEF Contract!Next
  <2>7. CASE ~InCall(m) /\ m \in ref /\ Phase(m)' # Phase(m)
    <3>1. Phase(m) \in {"present", "dead"}
      BY <2>7 DEF Phase
    <3>2. CASE InCall(m)'
      <4>1. Phase(m)' = "saving"
        BY <1>2, <2>7, <3>2, OwnPhase DEF Phase
      <4>2. Contract!Save(m)
        BY <2>2, <2>a, <3>1, <4>1 DEF Contract!Save, Contract!Becomes, phases
      <4> QED
        BY <4>2 DEF Contract!Next
    <3>3. CASE ~InCall(m)' /\ m \notin ref'
      <4>1. Phase(m)' = "absent"
        BY <2>3, <3>3 DEF Phase, Live
      <4>2. Contract!Delete(m)
        BY <2>2, <2>a, <3>1, <4>1 DEF Contract!Delete, Contract!Becomes, phases
      <4> QED
        BY <4>2 DEF Contract!Next
    <3>4. CASE ~InCall(m)' /\ m \in ref'
      <4>1. Phase(m) = "present" /\ Phase(m)' = "dead"
        BY <1>2, <2>7, <3>4, OwnPhase DEF Phase
      <4>2. Contract!Die(m)
        BY <2>2, <2>a, <4>1 DEF Contract!Die, Contract!Becomes, phases
      <4> QED
        BY <4>2 DEF Contract!Next
    <3> QED
      BY <3>2, <3>3, <3>4
  <2> QED
    BY <2>4, <2>5, <2>6, <2>7 DEF Live
<1>3. KataInv /\ LineageInv /\ [Next]_vars => [Contract!Next]_phases
  <2>1. CASE Quiet
    BY <2>1 DEF Quiet, Phase, InCall, Served, Holds, BaseID, ColdBooted
  <2> QED
    BY <1>2, <2>1, ActsOrQuiet
<1> QED
  BY <1>1, <1>3, LineageInvariance, PTL DEF Spec, Contract!Safety
=============================================================================
