---------------------------- MODULE GVisorRuntime ----------------------------
(***************************************************************************)
(* Restored gVisor sandboxes of one Worker (internal/snapshotter/gvisor*.go):*)
(* LoadSnapshot, SaveSnapshot and DeleteRestored with the runsc containers, *)
(* network namespaces, state roots, bundle mounts and files they leave.     *)
(*                                                                         *)
(* runsc finds a container through the state root of its Sandbox: without   *)
(* the root it cannot be deleted any more.  Clean-up here uses the caller's *)
(* context, so a caller that hangs up makes it fail as well.  Namespaces    *)
(* and veths are named by the Slot, cgroups by the container.               *)
(*                                                                         *)
(* Cold-started gVisor Sandboxes belong to containerd; only their snapshots *)
(* appear here.  Slot states belong to SlotManager, the store to Snapshots. *)
(***************************************************************************)
EXTENDS Integers, Sequences, FiniteSets

CONSTANTS
  Null,
  Sandboxes,  \* Sandboxes restored on this Worker
  From,       \* Sandbox |-> the restored Sandbox it is forked from, or Null
  SlotOf,     \* Sandbox |-> the Slot it is scheduled into
  HangUps,    \* whether callers may hang up
  MaxFaults   \* bound on failing commands and hang-ups

ASSUME GVisorConstants ==
  /\ IsFiniteSet(Sandboxes) /\ Null \notin Sandboxes
  /\ From \in [Sandboxes -> Sandboxes \cup {Null}]
  /\ DOMAIN SlotOf = Sandboxes
  /\ HangUps \in BOOLEAN /\ MaxFaults \in Nat

Slots == {SlotOf[n] : n \in Sandboxes}

\* The containers a snapshot lists: the pod's root container first.
Containers == {"pause", "app"}

VARIABLES
  slot,     \* Sandbox |-> whether it holds its Slot
  ref,      \* Sandboxes the Slot has a runtimeRef for
  todo,     \* Sandbox |-> steps left of the LoadSnapshot call in progress
  hung,     \* Sandboxes whose call has lost its caller
  root,     \* Sandboxes with a runsc state root
  listed,   \* Sandboxes with a containers file in their root
  made,     \* Sandbox |-> its containers that live
  mounts,   \* Sandbox |-> containers with a mounted bundle
  netns,    \* Slot |-> whose namespace sfg<slot> is, or Null
  netinfo,  \* Sandboxes with a saved network description
  saved,    \* Sandboxes that have been checkpointed
  faults

slotVars == <<slot, ref>>
fileVars == <<root, listed, mounts, netinfo>>
vars     == <<slotVars, todo, hung, fileVars, made, netns, saved, faults>>

\* Each container is created and restored before the next one.
LoadSteps ==
  <<<<"network">>, <<"bundle", "pause">>, <<"create", "pause">>, <<"restore", "pause">>,
    <<"bundle", "app">>, <<"create", "app">>, <<"restore", "app">>, <<"persist">>>>
UndoSteps == <<<<"undo">>>>

TypeOK ==
  /\ slot \in [Sandboxes -> {"new", "held", "failed", "gone"}] /\ ref \subseteq Sandboxes
  /\ DOMAIN todo = Sandboxes
  /\ \A n \in Sandboxes :
       todo[n] = UndoSteps \/ \E i \in 1 .. Len(LoadSteps) + 1 : todo[n] = SubSeq(LoadSteps, i, Len(LoadSteps))
  /\ hung \subseteq {n \in Sandboxes : todo[n] # <<>>}
  /\ root \subseteq Sandboxes /\ listed \subseteq root /\ netinfo \subseteq Sandboxes
  /\ made \in [Sandboxes -> SUBSET Containers] /\ mounts \in [Sandboxes -> SUBSET Containers]
  /\ netns \in [Slots -> Sandboxes \cup {Null}]
  /\ saved \subseteq Sandboxes
  /\ faults \in 0 .. MaxFaults

Init ==
  /\ slot = [n \in Sandboxes |-> "new"] /\ ref = {}
  /\ todo = [n \in Sandboxes |-> <<>>] /\ hung = {}
  /\ root = {} /\ listed = {} /\ netinfo = {}
  /\ made = [n \in Sandboxes |-> {}] /\ mounts = [n \in Sandboxes |-> {}]
  /\ netns = [s \in Slots |-> Null]
  /\ saved = {} /\ faults = 0

-----------------------------------------------------------------------------
InCall(n)  == todo[n] # <<>>
Step(n, s) == InCall(n) /\ Head(todo[n]) = s
Advance(n) == n \notin hung /\ todo' = [todo EXCEPT ![n] = Tail(@)] /\ UNCHANGED <<hung, faults>>
Return(n)  == todo' = [todo EXCEPT ![n] = <<>>] /\ hung' = hung \ {n}
Fault      == faults < MaxFaults /\ faults' = faults + 1

\* Mutant: a command is not told that its context has ended.
MutCommandOutlivesContext(n) == n \notin hung /\ Fault

\* A command fails, as every command does once the context is cancelled.
CommandFails(n) == IF n \in hung THEN UNCHANGED faults ELSE Fault
Fails(n) == CommandFails(n) /\ todo' = [todo EXCEPT ![n] = UndoSteps] /\ UNCHANGED hung

RemoveRoot(n) == root' = root \ {n} /\ listed' = listed \ {n}

\* ip link del, ip netns del: of the Slot's namespace, whoever made it.
NetworkDeleted(n) == [netns EXCEPT ![SlotOf[n]] = Null]

\* Mutant: a Slot is reserved while another Sandbox has it.
MutReserveTaken(n) ==
  /\ slot[n] = "new"
  /\ slot' = [slot EXCEPT ![n] = "held"]
  /\ UNCHANGED <<ref, todo, hung, fileVars, made, netns, saved, faults>>

-----------------------------------------------------------------------------
(* The Slot and its Sandbox.                                                *)

ReserveSlot(n) ==
  /\ slot[n] = "new"
  /\ \A m \in Sandboxes : SlotOf[m] = SlotOf[n] => slot[m] \in {"new", "gone"}
  /\ slot' = [slot EXCEPT ![n] = "held"]
  /\ UNCHANGED <<ref, todo, hung, fileVars, made, netns, saved, faults>>

\* What runsc delete of the containers, each on its own, and ip netns del may
\* leave behind when commands fail: nothing waits for the one before.
MayLeave(n) ==
  /\ \E left \in SUBSET made[n] : made' = [made EXCEPT ![n] = left]
  /\ netns' \in {netns, NetworkDeleted(n)}

\* runsc delete -force of every listed container, which a missing container
\* does not fail; then root and network go whether that worked or not.
\* An error of ip netns del is dropped.
DeleteRestored(n, works) ==
  /\ \/ /\ works /\ UNCHANGED faults
        /\ made' = IF n \in root THEN [made EXCEPT ![n] = {}] ELSE made
        /\ netns' = IF n \in netinfo THEN NetworkDeleted(n) ELSE netns
     \/ works /\ n \in netinfo /\ Fault /\ made' = [made EXCEPT ![n] = {}] /\ UNCHANGED netns
     \/ ~works /\ Fault /\ MayLeave(n)
  /\ mounts' = [mounts EXCEPT ![n] = {}]
  /\ RemoveRoot(n)
  /\ netinfo' = netinfo \ {n}

\* ReleaseSlot: a failing runsc delete fails the Slot, and a later call finds
\* nothing left to delete.  StopSandbox, which precedes it, does the same.
ReleaseSlot(n) ==
  /\ slot[n] \in {"held", "failed"} /\ ~InCall(n)
  /\ \/ /\ IF n \in ref THEN DeleteRestored(n, TRUE) ELSE UNCHANGED <<fileVars, made, netns, faults>>
        /\ slot' = [slot EXCEPT ![n] = "gone"] /\ ref' = ref \ {n}
     \/ /\ n \in ref /\ n \in listed
        /\ DeleteRestored(n, FALSE)
        /\ slot' = [slot EXCEPT ![n] = "failed"] /\ UNCHANGED ref
  /\ UNCHANGED <<todo, hung, saved>>

\* runsc checkpoint --leave-running, then the containers file is copied.
SaveSnapshot(n) ==
  /\ slot[n] = "held" /\ n \in ref /\ ~InCall(n)
  /\ n \in listed /\ made[n] = Containers
  /\ saved' = saved \cup {n}
  /\ UNCHANGED <<slotVars, todo, hung, fileVars, made, netns, faults>>

SandboxDies(n) ==
  /\ made[n] # {} /\ Fault
  /\ made' = [made EXCEPT ![n] = {}]
  /\ UNCHANGED <<slotVars, todo, hung, fileVars, netns, saved>>

-----------------------------------------------------------------------------
(* LoadSnapshot.                                                            *)

\* One restore at a time, from a snapshot there is.  Leftovers under the same
\* name are removed from disk.
LoadSnapshot(n) ==
  /\ slot[n] = "held" /\ n \notin ref /\ ~InCall(n)
  /\ From[n] # Null => From[n] \in saved
  /\ \A m \in Sandboxes : ~InCall(m)
  /\ listed' = listed \ {n} /\ netinfo' = netinfo \ {n}
  /\ \/ root' = root \cup {n} /\ todo' = [todo EXCEPT ![n] = LoadSteps] /\ UNCHANGED faults
     \/ root' = root \ {n} /\ Fault /\ UNCHANGED todo
  /\ UNCHANGED <<slotVars, hung, made, mounts, netns, saved>>

HangUp(n) ==
  /\ HangUps /\ InCall(n) /\ n \notin hung /\ Fault
  /\ hung' = hung \cup {n}
  /\ UNCHANGED <<slotVars, todo, fileVars, made, netns, saved>>

\* Mutant: a namespace that is there under the Slot's name is used as it is.
MutReuseNetwork(n) ==
  /\ Step(n, <<"network">>)
  /\ \/ /\ Advance(n)
        /\ netns' = IF netns[SlotOf[n]] # Null THEN netns ELSE [netns EXCEPT ![SlotOf[n]] = n]
        /\ netinfo' = netinfo \cup {n}
        /\ UNCHANGED <<root, listed>>
     \/ /\ CommandFails(n) /\ UNCHANGED <<netns, netinfo>>
        /\ RemoveRoot(n) /\ Return(n)
  /\ UNCHANGED <<slotVars, mounts, made, saved>>

\* createRestoreNetwork clears whatever is there under the Slot's names first,
\* and ip netns add fails while something is still there.  A failure may come
\* before that, with the old namespace untouched; one that comes later takes
\* back the half-made namespace, and ignores it if that fails too.  The root
\* goes in each case.  The diagnostics (<name>.net.diag.txt) are left out: they
\* are written for people and stay.
CreateRestoreNetwork(n) ==
  /\ Step(n, <<"network">>)
  /\ \/ /\ Advance(n)
        /\ netns' = [netns EXCEPT ![SlotOf[n]] = n]
        /\ netinfo' = netinfo \cup {n}
        /\ UNCHANGED <<root, listed>>
     \/ /\ CommandFails(n)
        /\ netns' \in {netns, NetworkDeleted(n), [netns EXCEPT ![SlotOf[n]] = n]}
        /\ RemoveRoot(n) /\ Return(n) /\ UNCHANGED netinfo
  /\ UNCHANGED <<slotVars, mounts, made, saved>>

\* The image's layers are mounted as the bundle's rootfs.
WriteBundle(n, c) ==
  /\ Step(n, <<"bundle", c>>)
  /\ \/ mounts' = [mounts EXCEPT ![n] = @ \cup {c}] /\ (Advance(n) \/ Fails(n))
     \/ Fails(n) /\ UNCHANGED mounts
  /\ UNCHANGED <<slotVars, root, listed, netinfo, made, netns, saved>>

\* A create that fails may have left the container behind.
CreateContainer(n, c) ==
  /\ Step(n, <<"create", c>>)
  /\ \/ made' = [made EXCEPT ![n] = @ \cup {c}] /\ (Advance(n) \/ Fails(n))
     \/ Fails(n) /\ UNCHANGED made
  /\ UNCHANGED <<slotVars, fileVars, netns, saved>>

RestoreContainer(n, c) ==
  /\ Step(n, <<"restore", c>>)
  /\ Advance(n) \/ Fails(n)
  /\ UNCHANGED <<slotVars, fileVars, made, netns, saved>>

\* Writing the file needs no context: the call succeeds without its caller.
PersistContainers(n) ==
  /\ Step(n, <<"persist">>)
  /\ \/ listed' = listed \cup {n} /\ ref' = ref \cup {n} /\ Return(n) /\ UNCHANGED faults
     \/ /\ Fault /\ todo' = [todo EXCEPT ![n] = UndoSteps]
        /\ UNCHANGED <<hung, listed, ref>>
  /\ UNCHANGED <<slot, root, netinfo, mounts, made, netns, saved>>

\* Mutant: clean-up stops at the first command that fails.
MutCleanupStopsAtError(n) ==
  /\ Step(n, <<"undo">>) /\ Return(n)
  /\ \/ /\ n \notin hung /\ made' = [made EXCEPT ![n] = {}] /\ netns' = NetworkDeleted(n)
        /\ mounts' = [mounts EXCEPT ![n] = {}] /\ netinfo' = netinfo \ {n}
        /\ RemoveRoot(n) /\ UNCHANGED faults
     \/ CommandFails(n) /\ UNCHANGED <<fileVars, made, netns>>
  /\ UNCHANGED <<slotVars, saved>>

\* cleanupFailed: errors are ignored, and the root goes in any case.  The logs
\* it moves to <name>-failed first are left out: they are evidence kept for
\* people, until the next failed restore of that name.
CleanupFailed(n) ==
  /\ Step(n, <<"undo">>)
  /\ mounts' = [mounts EXCEPT ![n] = {}]
  /\ netinfo' = netinfo \ {n}
  /\ RemoveRoot(n) /\ Return(n)
  /\ \/ n \notin hung /\ made' = [made EXCEPT ![n] = {}] /\ netns' = NetworkDeleted(n) /\ UNCHANGED faults
     \/ CommandFails(n) /\ MayLeave(n)
  /\ UNCHANGED <<slotVars, saved>>

-----------------------------------------------------------------------------
CallStep(n) ==
  \/ CreateRestoreNetwork(n) \/ PersistContainers(n) \/ CleanupFailed(n)
  \/ \E c \in Containers : WriteBundle(n, c) \/ CreateContainer(n, c) \/ RestoreContainer(n, c)

Next ==
  \E n \in Sandboxes :
    \/ ReserveSlot(n) \/ ReleaseSlot(n) \/ SaveSnapshot(n) \/ LoadSnapshot(n)
    \/ CallStep(n) \/ HangUp(n) \/ SandboxDies(n)

\* runsc and ip are waited for; they end, or the context ends them.
Spec == Init /\ [][Next]_vars /\ \A n \in Sandboxes : WF_vars(CallStep(n))

-----------------------------------------------------------------------------
(* Properties.                                                              *)

Present(n) == n \in ref /\ ~InCall(n) /\ slot[n] = "held"

\* However often a restore failed, was abandoned or was deleted with errors in
\* this Slot before, a restored Sandbox that holds it runs in the namespace
\* made for it, has its root, its containers file and its mounts, and so can
\* still be executed in, checkpointed and deleted.
RestoredIsWhole ==
  \A n \in Sandboxes : Present(n) =>
    /\ netns[SlotOf[n]] = n /\ n \in netinfo
    /\ n \in listed /\ mounts[n] = Containers

\* Whatever failed, once no call is in progress and the Slot has no runtimeRef,
\* a Sandbox's runsc state root, its bundle mounts and its .net.json are gone.
\* (Kept on purpose, and not spoken of: the <name>-failed logs and the
\* <name>.net.diag.txt.)
NoFilesOutlive ==
  \A n \in Sandboxes : ~InCall(n) /\ n \notin ref =>
    n \notin root \cup netinfo /\ mounts[n] = {}

\* createRestoreNetwork and deleteRestoreNetwork delete by the Slot's name and
\* never take a namespace from under a Sandbox that is present or restoring:
\* only its own calls do.
NetworkLeavesByOwnCall ==
  [][\A n \in Sandboxes : netns[SlotOf[n]] = n /\ netns'[SlotOf[n]] # n /\ (Present(n) \/ InCall(n)) =>
       todo[n] # todo'[n] \/ slot[n] # slot'[n]]_vars

\* A restore whose caller has gone comes to an end too, and frees the lock all
\* other restores of the Worker wait for.
RestoresEnd == \A n \in Sandboxes : InCall(n) ~> ~InCall(n)

\* "A Slot cannot be reused until runtime cleanup succeeds."
\* (component-design.md): no container or namespace of a Sandbox is left once
\* its Slot is free.  Holds only while callers wait and runsc delete works.
NothingOutlives ==
  \A n \in Sandboxes : slot[n] = "gone" => made[n] = {} /\ netns[SlotOf[n]] # n
=============================================================================
