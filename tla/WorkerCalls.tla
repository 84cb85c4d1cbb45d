----------------------------- MODULE WorkerCalls -----------------------------
(***************************************************************************)
(* What the Worker's Slot calls do to a Slot, as a caller sees it.  A Slot  *)
(* is [state, uid, profile]: Starting and Cleaning last no longer than a    *)
(* call.  An answer is [res, info]: what the caller is told and the Slot    *)
(* afterwards.  SandboxController calls Workers by these operators, and     *)
(* WorkerContract says that a Worker does nothing else to its Slots.        *)
(***************************************************************************)
CONSTANT Null

Calls == {"reserve", "start", "stop", "release"}

ReservedFor(info, u) == [info EXCEPT !.state = "Reserved", !.uid = u]

Answer(res, info) == [res |-> res, info |-> info]

\* ReserveSlot, StartSandbox, StopSandbox and ReleaseSlot on a Slot, when the
\* runtime does its part.  Each may be asked again for what it has done.
MutReserveOnce(info, u) ==
  IF info.state = "Free" THEN Answer("ok", ReservedFor(info, u)) ELSE Answer("409", info)
ReserveAnswer(info, u) ==
  IF info.state = "Free" THEN Answer("ok", ReservedFor(info, u))
  ELSE Answer(IF info.uid = u THEN "ok" ELSE "409", info)

StartAnswer(info, u) ==
  IF info.uid # u THEN Answer("409", info)
  ELSE IF info.state \in {"Reserved", "Running"} THEN Answer("ok", [info EXCEPT !.state = "Running"])
  ELSE Answer("500", info)

MutStopOwnedOnly(info, u, next) ==
  IF info.uid # u THEN Answer("409", info) ELSE Answer("ok", next)
Cleanup(info, u, next) ==
  IF info.state = "Free" THEN Answer("ok", info)
  ELSE IF info.uid # u THEN Answer("409", info)
  ELSE Answer("ok", next)

SlotAnswer(op, info, u) ==
  IF info = Null THEN Answer("404", info)
  ELSE CASE op = "reserve" -> ReserveAnswer(info, u)
         [] op = "start"   -> StartAnswer(info, u)
         [] op = "stop"    -> Cleanup(info, u, [info EXCEPT !.state = "Stopping"])
         [] op = "release" -> Cleanup(info, u, [info EXCEPT !.state = "Free", !.uid = Null])

\* The runtime fails: StartSandbox leaves the Slot Reserved, as it was, or
\* Failed if cleaning up failed too; StopSandbox and ReleaseSlot mark it Failed.
RuntimeErrors(op, info, u) ==
  LET after == IF op = "start" THEN {info.state, "Reserved", "Failed"} ELSE {"Failed"}
  IN IF op = "reserve" \/ info = Null \/ info.uid # u THEN {}
     ELSE {Answer("500", [info EXCEPT !.state = s]) : s \in after}

\* The Slot after a call that took effect, well or badly.
Effects(op, info, u) == {a.info : a \in {SlotAnswer(op, info, u)} \cup RuntimeErrors(op, info, u)}

\* CreateSnapshot of a kata Sandbox ends its micro-VM: the Slot stays occupied.
SavedAway(info) == [info EXCEPT !.state = "Failed"]
=============================================================================
