------------------------------ MODULE RollClient ------------------------------
(***************************************************************************)
(* A player's page during a game, between its socket and its timers: when  *)
(* the handlers of RollTab run.  The other end is the game as this player  *)
(* meets it: the frames server/ws.py and server/broadcast.py send it, of   *)
(* its own rolls at once, of the others' after their reveal.  (Rounds has  *)
(* the server itself.)                                                     *)
(*                                                                         *)
(* Messages to the server wait in up; a frame is handled as it is sent.    *)
(* As both directions are first in, first out and nothing else joins the   *)
(* two ends, a delay of the frames would show no behaviour that a delay of *)
(* the messages does not.  The answer roll_done is not among them: it only *)
(* cuts short a wait of the server that may end without it.                *)
(***************************************************************************)
EXTENDS RollTab, SequencesExt

CONSTANTS MaxRounds,  \* bound: rounds played
          MaxTurns,   \* bound: rolls, of mine and of the others
          MaxEvents,  \* bound: pauses, absences and connections lost
          MaxLost,    \* bound: broadcasts that never arrive
          MaxBurst    \* bound: what is left to be done when a frame arrives

ASSUME RollBounds == {MaxRounds, MaxTurns, MaxEvents, MaxLost, MaxBurst} \subseteq Nat

VARIABLES tab,
          game,   \* the game on the server
          up,     \* messages on their way to it
          net,    \* state.ws, to this game
          last,   \* the last frame that arrived
          spent   \* how much of each bound is used up

vars == <<tab, game, up, net, last, spent>>

Over == {"no", "won", "announced"}

\* waiting: an advance deferred by a pause.
Game == [snap : Snap, over : Over, waiting : BOOLEAN, on : BOOLEAN]

Messages == {"roll", "pause", "end_game"}

TypeOK ==
  /\ tab \in Tab
  /\ game \in Game
  /\ up \in Seq(Messages)
  /\ net \in {"open", "lost", "closed"}
  /\ last \in Snap
  /\ spent \in [turns : 0..MaxTurns, events : 0..MaxEvents, lost : 0..MaxLost]

Lobby == [started |-> FALSE, round |-> 1, rolls |-> 0, hits |-> 0, paused |-> FALSE,
          down |-> FALSE]

InLobby(host) ==
  [host |-> host, phase |-> Idle, timers |-> {}, cur |-> Lobby, key |-> <<0, 0>>,
   round |-> 0, faces |-> <<0, 0>>, locked |-> 0, loose |-> 0, tumbling |-> FALSE,
   button |-> "none", active |-> "lobby", soon |-> <<>>, intros |-> <<>>, delays |-> {},
   dialogs |-> {}, session |-> TRUE, cut |-> FALSE,
   skipped |-> FALSE]

Init ==
  /\ \E host \in BOOLEAN : tab = InLobby(host)
  /\ game = [snap |-> Lobby, over |-> "no", waiting |-> FALSE, on |-> TRUE]
  /\ up = <<>>
  /\ net = "open"
  /\ last = Lobby
  /\ spent = [turns |-> 0, events |-> 0, lost |-> 0]

Spend(field, bound) ==
  /\ spent[field] < bound
  /\ spent' = [spent EXCEPT ![field] = @ + 1]

Turn == Spend("turns", MaxTurns)

Event == Spend("events", MaxEvents)

-----------------------------------------------------------------------------
(* Frames.                                                                 *)

\* To this player alone: on its own socket, if that is still there.
Deliver(s, handled) ==
  IF net = "open"
  THEN Len(tab.soon) + Len(tab.intros) <= MaxBurst /\ tab' = handled /\ last' = s
  ELSE UNCHANGED <<tab, last>>

\* To everyone, through the fan-out: what tells of a round may be lost on the way.
Send(s, handled) ==
  \/ /\ Deliver(s, handled)
     /\ UNCHANGED spent
  \/ /\ net = "open"
     /\ Spend("lost", MaxLost)
     /\ tab' = Passed(tab, TRUE)
     /\ UNCHANGED last

\* The last frame of a game.  (last has nothing to say of what follows.)
Close(handled) ==
  IF net = "open" THEN net' = "closed" /\ Deliver(Lobby, handled)
  ELSE UNCHANGED <<net, tab, last>>

-----------------------------------------------------------------------------
(* The game on the server.                                                 *)

Live == game.on /\ game.snap.started

Start ==
  /\ game.on
  /\ ~game.snap.started
  /\ game' = [game EXCEPT !.snap.started = TRUE]
  /\ Deliver(game'.snap, HandleState(tab, game'.snap))
  /\ UNCHANGED <<up, net, spent>>

Receive(m) == up # <<>> /\ Head(up) = m /\ up' = Tail(up)

\* handle_roll.  A roll that read the round open is counted although another player has won
\* meanwhile; ten dice then come too late to win.
ServeRoll ==
  /\ Receive("roll")
  /\ UNCHANGED <<net, spent>>
  /\ \/ /\ ~Live \/ game.over # "no"
        /\ UNCHANGED <<game, tab, last>>
     \/ /\ Live /\ game.over = "no"
        /\ game.snap.paused \/ game.snap.rolls > 0  \* paused, or too fast
        /\ Deliver(last, HandleError(tab))
        /\ UNCHANGED game
     \/ /\ Live /\ game.over # "announced" /\ ~game.snap.paused
        /\ \E hits \in game.snap.hits..Dice :
             LET s == [game.snap EXCEPT !.rolls = @ + 1, !.hits = hits]
             IN  IF hits = Dice /\ game.over = "no"
                 THEN /\ game' = [game EXCEPT !.snap = s, !.over = "announced"]
                      /\ Deliver(s, HandleRoundWon(tab, s, TRUE))
                 ELSE /\ game' = [game EXCEPT !.snap = s]
                      /\ Deliver(s, HandleState(tab, s))

\* Another player's roll, as delayed_broadcast tells of it.
OthersRoll ==
  /\ Live
  /\ ~game.snap.paused
  /\ Turn
  /\ Deliver(game.snap, HandleState(tab, game.snap))
  /\ UNCHANGED <<game, up, net>>

\* Another player wins the round, and is given time for the reveal.
OthersWin ==
  /\ Live
  /\ ~game.snap.paused
  /\ game.over = "no"
  /\ game' = [game EXCEPT !.over = "won"]
  /\ UNCHANGED <<tab, up, net, last, spent>>

Announce ==
  /\ Live
  /\ game.over = "won"
  /\ game' = [game EXCEPT !.over = "announced"]
  /\ Send(game.snap, HandleRoundWon(tab, game.snap, FALSE))
  /\ UNCHANGED <<up, net>>

NextRound ==
  [game EXCEPT !.over = "no", !.waiting = FALSE,
               !.snap.round = @ + 1, !.snap.rolls = 0, !.snap.hits = 0]

\* ROUND_WIN_DELAY is over.
Advance ==
  /\ Live
  /\ game.over = "announced"
  /\ ~game.waiting
  /\ game.snap.round < MaxRounds
  /\ IF game.snap.paused
     THEN game' = [game EXCEPT !.waiting = TRUE] /\ UNCHANGED <<tab, last, spent>>
     ELSE game' = NextRound /\ Send(game'.snap, HandleState(tab, game'.snap))
  /\ UNCHANGED <<up, net>>

\* handle_pause, of the host: me, or another player.
Pause ==
  /\ Live
  /\ IF tab.host THEN Receive("pause") ELSE UNCHANGED up
  /\ LET flipped == IF game.snap.paused /\ game.waiting
                    THEN [NextRound EXCEPT !.snap.paused = FALSE]
                    ELSE [game EXCEPT !.snap.paused = ~@]
     IN  /\ game' = flipped
         /\ Deliver(flipped.snap, HandleState(tab, flipped.snap))
  /\ IF tab.host \/ game.snap.paused THEN UNCHANGED spent ELSE Event
  /\ UNCHANGED net

\* Another player's connection ends, or comes back.
OthersLeave ==
  /\ Live
  /\ ~game.snap.down
  /\ Event
  /\ game' = [game EXCEPT !.snap.down = TRUE]
  /\ Deliver(game'.snap, HandleState(tab, game'.snap))
  /\ UNCHANGED <<up, net>>

OthersReturn ==
  /\ Live
  /\ game.snap.down
  /\ game' = [game EXCEPT !.snap.down = FALSE]
  /\ Deliver(game'.snap, HandleState(tab, game'.snap))
  /\ UNCHANGED <<up, net, spent>>

\* Nothing is left of it.
Deleted == [snap |-> Lobby, over |-> "no", waiting |-> FALSE, on |-> FALSE]

\* handle_end_game, of the host.
EndGame ==
  /\ Live
  /\ IF tab.host THEN Receive("end_game") ELSE UNCHANGED up
  /\ game' = Deleted
  /\ Close(HandleGameEnded(tab))
  /\ UNCHANGED spent

\* pause_timeout.
PauseTimeout ==
  /\ Live
  /\ game.snap.paused
  /\ game' = Deleted
  /\ Close(Forget(tab))
  /\ UNCHANGED <<up, spent>>

-----------------------------------------------------------------------------
(* The socket.                                                             *)

\* handleWsClose and maybeReconnect.
LoseSocket ==
  /\ net = "open"
  /\ Event
  /\ net' = "lost"
  /\ tab' = ShowLoading(tab)
  /\ UNCHANGED <<game, up, last>>

\* attemptReconnect: the first real frame hands over to handleMessage.
Reconnect ==
  /\ net = "lost"
  /\ up' = <<>>
  /\ IF game.on
     THEN /\ net' = "open"
          /\ tab' = HandleState(ResetRollState(tab), game.snap)
          /\ last' = game.snap
     ELSE /\ net' = "closed"
          /\ tab' = Forget(tab)
          /\ last' = Lobby
  /\ UNCHANGED <<game, spent>>

-----------------------------------------------------------------------------
(* The player and the page.                                                *)

Page == UNCHANGED <<game, net, last>>

\* The dialogs are modal.  With the board up, what is left to be done waits for
\* one animation frame only: no tap falls between, nor into the intro.
BoardAtHand ==
  /\ tab.active = "game"
  /\ tab.dialogs = {}
  /\ ~Pending(tab)
  /\ net = "open"

TapRoll ==
  /\ CanRoll(tab)
  /\ BoardAtHand
  /\ Turn
  /\ tab' = Roll(tab)
  /\ up' = Append(up, "roll")
  /\ Page

\* The pause control and the bolt, in the host's menu.
Lever ==
  /\ tab.host
  /\ BoardAtHand
  /\ IF tab.cur # Nothing /\ tab.cur.paused THEN UNCHANGED spent ELSE Event
  /\ "pause" \notin {up[i] : i \in DOMAIN up}
  /\ up' = Append(up, "pause")
  /\ UNCHANGED tab
  /\ Page

Bolt ==
  /\ tab.host
  /\ BoardAtHand
  /\ "end_game" \notin {up[i] : i \in DOMAIN up}
  /\ up' = Append(up, "end_game")
  /\ UNCHANGED <<tab, spent>>
  /\ Page

Fires(timer, after) ==
  /\ timer \in tab.timers
  /\ tab' = after
  /\ UNCHANGED <<up, spent>>
  /\ Page

PumpRoll == Fires("pump", Pump(tab))

SettleDice == Fires("reveal", RevealTimer(tab))

LockDice == Fires("pop", PopTimer(tab))

\* A swap is committed in the next frame, before any wait of leaveLoading that
\* began after it; those end in the order they began.
RunSoon ==
  /\ \E i \in DOMAIN tab.soon :
       LET a == tab.soon[i]
           rest == [tab EXCEPT !.soon = RemoveAt(@, i)]
       IN  /\ \A j \in 1..(i - 1) : tab.soon[j].do # "commit" /\ a.do = "commit"
           /\ tab' = IF a.do = "commit" THEN Commit(rest, a.to)
                     ELSE Later(Passed(rest, tab.intros # <<>>), a)
  /\ UNCHANGED <<up, spent>>
  /\ Page

RevealGame ==
  /\ tab.intros # <<>>
  /\ tab' = ShowBoard([tab EXCEPT !.intros = Tail(@)], Head(tab.intros))
  /\ UNCHANGED <<up, spent>>
  /\ Page

RunDelay ==
  /\ \E d \in tab.delays :
       LET rest == [tab EXCEPT !.delays = @ \ {d}]
       IN  tab' = CASE d = "hidePaused" -> HideDialogs(rest, {"pause"})
                    [] d = "showGameDetail" ->
                         LeaveLoading(ShowLoading(rest),
                           [do |-> "game-detail", snap |-> Nothing, flag |-> FALSE])
  /\ UNCHANGED <<up, spent>>
  /\ Page

Server == \/ Start \/ ServeRoll \/ OthersRoll \/ OthersWin \/ Announce \/ Advance
          \/ Pause \/ OthersLeave \/ OthersReturn \/ EndGame \/ PauseTimeout

Timers == PumpRoll \/ SettleDice \/ LockDice

Next == \/ Server \/ LoseSocket \/ Reconnect
        \/ TapRoll \/ Lever \/ Bolt
        \/ Timers \/ RunSoon \/ RevealGame \/ RunDelay

Spec == Init /\ [][Next]_vars

\* The browser fires a timer that is due.  Nothing else has to happen.
FairSpec == Spec /\ WF_vars(Timers)

-----------------------------------------------------------------------------
(* Properties.                                                             *)

\* Nothing is left to be done on the page.
AtRest == tab.soon = <<>> /\ tab.intros = <<>> /\ tab.delays = {} /\ tab.timers = {}

Playing == net = "open" /\ tab.session

\* A roll under way always has the timer that carries it on: it is pumped until
\* its reveal begins, and from there on one animation timer leads to the next.
\* No other phase has a timer that could act on a roll it knows nothing of.
RollHasTimer ==
  /\ AwaitingAck(tab.phase) => tab.timers = {"pump"}
  /\ tab.phase.kind = "revealing" => tab.timers \in {{"pump"}, {"reveal"}, {"pop"}}
  /\ Settled(tab.phase) => tab.timers = {}

\* Whatever the server does or fails to do, a roll ends: the shake and the reveal
\* by their timers, the wait for the server by giving up.
RollSettles == Rolling(tab.phase) ~> Settled(tab.phase)

\* When all is quiet in a game that is not paused, the roll button works: no
\* rejected, lost or overtaken roll leaves it disabled.
ButtonBack ==
  AtRest /\ Playing /\ ~tab.skipped /\ tab.active = "game" /\ ~last.paused =>
    (tab.phase.kind = "idle" => tab.button = "on")

\* The page shows the last frame that arrived, once it has had the time to: its
\* screen, and on the board its round, my dice and those of them that are locked
\* (the dice that win a round stay where they fell).
LatestShown ==
  AtRest /\ Playing /\ ~tab.skipped =>
    /\ tab.cur = last
    /\ tab.phase.kind = "idle" =>
         /\ tab.active = IF ~last.started THEN "lobby"
                         ELSE IF last.down /\ ~last.paused THEN "loading" ELSE "game"
         /\ tab.active = "game" /\ ~tab.cut =>
              /\ tab.faces = MyDiceKey(last)
              /\ tab.round = last.round
              /\ last.hits < Dice => tab.locked = last.hits /\ tab.loose = Dice - last.hits

\* The two overlays tell the truth of the game below them.
DialogsTrue ==
  AtRest /\ Playing /\ ~tab.skipped =>
    /\ "winner" \in tab.dialogs <=> tab.phase.kind = "celebrating"
    /\ "pause" \in tab.dialogs /\ tab.phase.kind = "idle" => last.paused

\* Everyone gets the final scoreboard when the host ends the game: the overlays,
\* which only the state of the game closes, do not lie on top of it.
ScoreboardInSight == AtRest /\ tab.active = "game-detail" => tab.dialogs = {}

===============================================================================
