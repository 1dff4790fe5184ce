------------------------------- MODULE RollPhase -------------------------------
(***************************************************************************)
(* The roll, reveal and celebrate lifecycle of a browser tab: the phases   *)
(* and the transition table of static/js/roll-phase.js.  Times (shakeEnd,  *)
(* deadline) are left to the timers of RollClient.  A field a phase does   *)
(* not have in the code holds Nothing here.                                *)
(***************************************************************************)
EXTENDS Naturals

CONSTANTS Snaps,    \* game snapshots
          Results,  \* round results
          Nothing   \* null

Kinds == {"idle", "shaking", "settling", "awaitingServer", "revealing", "celebrating"}

Phase == [kind : Kinds, before : Nat, snap : Snaps \cup {Nothing},
          result : Results \cup {Nothing}, stashed : Snaps \cup {Nothing}]

Idle == [kind |-> "idle", before |-> 0, snap |-> Nothing, result |-> Nothing,
         stashed |-> Nothing]

RollEvent ==
  [t : {"ROLL_SENT"}, before : Nat]
    \cup [t : {"SERVER_ROLL"}, snap : Snaps, result : Results \cup {Nothing}]
    \cup [t : {"BROADCAST"}, snap : Snaps]
    \cup [t : {"SHOW_RESULT"}, result : Results]
    \cup [t : {"SHAKE_DONE", "REVEAL_DONE", "ROUND_ADVANCE", "GIVE_UP", "RESET"}]

Celebrating(result) == [Idle EXCEPT !.kind = "celebrating", !.result = result]

\* The frame is in hand: before the shake has ended, or after.
Holding(p, kind, ev) ==
  [p EXCEPT !.kind = kind, !.snap = ev.snap, !.result = ev.result]

\* Where an event leads; anything not listed is a no-op.
Transition(p, ev) ==
  CASE ev.t = "RESET" -> Idle
    [] ev.t = "SHOW_RESULT" -> Celebrating(ev.result)
    [] p.kind = "idle" /\ ev.t = "ROLL_SENT" ->
         [Idle EXCEPT !.kind = "shaking", !.before = ev.before]
    [] p.kind \in {"shaking", "settling"} /\ ev.t = "SERVER_ROLL" ->
         Holding(p, "settling", ev)
    [] p.kind = "shaking" /\ ev.t = "SHAKE_DONE" -> [p EXCEPT !.kind = "awaitingServer"]
    [] p.kind = "awaitingServer" /\ ev.t = "SERVER_ROLL" -> Holding(p, "revealing", ev)
    [] p.kind = "awaitingServer" /\ ev.t = "GIVE_UP" -> Idle
    [] p.kind = "settling" /\ ev.t = "SHAKE_DONE" -> [p EXCEPT !.kind = "revealing"]
    [] p.kind = "settling" /\ ev.t = "BROADCAST" -> [p EXCEPT !.stashed = ev.snap]
    [] p.kind = "revealing" /\ ev.t = "REVEAL_DONE" ->
         IF p.result = Nothing THEN Idle ELSE Celebrating(p.result)
    [] p.kind = "celebrating" /\ ev.t = "ROUND_ADVANCE" -> Idle
    [] OTHER -> p

-----------------------------------------------------------------------------
(* The questions the rest of the client asks.                              *)

AwaitsRollFrame(p) == p.kind \in {"shaking", "awaitingServer"}

HoldsRollFrame(p) == p.kind = "settling"

Settled(p) == p.kind \in {"idle", "celebrating"}

\* A frame of the celebrated round that asks for nothing but the players bar.
IsCelebrationEcho(p, snap) ==
  /\ p.kind = "celebrating"
  /\ snap.started
  /\ ~snap.paused
  /\ snap.round = p.result.round
  /\ ~snap.down

Rolling(p) == ~Settled(p)

AwaitingAck(p) == p.kind \in {"shaking", "awaitingServer", "settling"}

===============================================================================
