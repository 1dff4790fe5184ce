-------------------------------- MODULE RollTab --------------------------------
(***************************************************************************)
(* What the page of one player does with a frame, a timer or a tap during  *)
(* a game: the handlers of static/js/net.js, router.js, animations.js,     *)
(* game-render.js and overlays.js, each an operator from the state of the  *)
(* tab to its next state.  RollClient says when they run.                  *)
(*                                                                         *)
(* The dice I hold in a round are determined by how often I have rolled in *)
(* it, so <<round, rolls>> stands for the faces and for the fingerprint    *)
(* myDiceKey takes of them.  The players bar is drawn from every frame and *)
(* decides nothing, nor does the menu of the host: both are left out.      *)
(***************************************************************************)
EXTENDS Naturals, Sequences

CONSTANTS Dice,    \* dice of a player, ten in the code
          Nothing  \* null

ASSUME DiceAssumption == Dice \in Nat \ {0}

\* What a state or round_won frame tells me.  down: another player is away.
Snap == [started : BOOLEAN, round : Nat, rolls : Nat, hits : 0..Dice,
         paused : BOOLEAN, down : BOOLEAN]

Result == [round : Nat, mine : BOOLEAN]

ASSUME NothingAssumption == Nothing \notin Snap \cup Result

INSTANCE RollPhase WITH Snaps <- Snap, Results <- Result

Screens == {"lobby", "loading", "game", "landing", "game-detail"}

\* What leaveLoading or requestAnimationFrame has been given to run.
Soon == [do : {"lobby", "wait", "hosting", "board", "landing", "game-detail"},
         snap : Snap \cup {Nothing}, flag : BOOLEAN]
          \cup [do : {"commit"}, to : Screens]

Tab == [host    : BOOLEAN,                   \* state.currentState.host is me
        phase   : Phase,
        timers  : SUBSET {"pump", "reveal", "pop"}, \* state.pendingRollTimeouts
        cur     : Snap \cup {Nothing},       \* state.currentState
        key     : Nat \X Nat,                \* state.lastMyDiceKey
        round   : Nat,                       \* state.boardRound
        faces   : Nat \X Nat,                \* the roll my dice show
        locked  : Nat,                       \* dice in .zone-matched
        loose   : Nat,                       \* dice in .zone-unmatched
        tumbling : BOOLEAN,                  \* a reveal still has these elements in hand
        button  : {"none", "on", "off"},     \* #roll-btn
        active  : Screens,                   \* .screen.active
        soon    : Seq(Soon),
        intros  : Seq(Snap),                 \* boards the intro video will reveal
        delays  : SUBSET {"hidePaused", "showGameDetail"},
        dialogs : SUBSET {"winner", "pause"},
        session : BOOLEAN,                   \* a resumable session is saved
        cut     : BOOLEAN,   \* the dice on the board are not those of key: a reveal
                             \* was cut off, or did not act on the board it began
                             \* with, or an older frame was drawn again
        skipped : BOOLEAN]   \* see Passed below

-----------------------------------------------------------------------------
(* state.js, transitions.js.                                               *)

Dispatch(t, ev) == [t EXCEPT !.phase = Transition(t.phase, ev)]

\* Mutant: the timers of the roll are forgotten, not cancelled.
ResetKeepsTimers(t) ==
  [Dispatch(t, [t |-> "RESET"]) EXCEPT !.tumbling = FALSE, !.cut = @ \/ t.tumbling]

ResetRollState(t) ==
  [Dispatch(t, [t |-> "RESET"])
     EXCEPT !.timers = {}, !.tumbling = FALSE, !.cut = @ \/ t.tumbling]

\* A swap shows its content at once and is committed a frame later.
ShowScreen(t, id) ==
  IF t.active = id THEN t
  ELSE [t EXCEPT !.soon = Append(@, [do |-> "commit", to |-> id])]

ShowLoading(t) == ShowScreen(t, "loading")

LeaveLoading(t, action) == [t EXCEPT !.soon = Append(@, action)]

Commit(t, id) == [t EXCEPT !.active = id]

-----------------------------------------------------------------------------
(* game-render.js, dice.js, overlays.js.                                   *)

MyDiceKey(s) == <<s.round, s.rolls>>

\* Mutant: the two zones of dice are mixed up.
RenderMyAreaSwapped(t, s) ==
  [t EXCEPT !.round = s.round, !.faces = MyDiceKey(s), !.locked = Dice - s.hits,
            !.loose = s.hits - Dice, !.tumbling = FALSE, !.cut = FALSE, !.button = "on"]

\* Every render builds a new button, enabled, and new dice.
RenderMyArea(t, s) ==
  [t EXCEPT !.round = s.round, !.faces = MyDiceKey(s), !.locked = s.hits,
            !.loose = Dice - s.hits, !.tumbling = FALSE, !.cut = FALSE,
            !.button = "on"]

\* The board is drawn once more, whatever key says is on it.
Repaint(t) == [RenderMyArea(t, t.cur) EXCEPT !.cut = MyDiceKey(t.cur) # t.key]

SyncPaused(t, s) ==
  [t EXCEPT !.button = IF @ = "none" THEN @
                       ELSE IF s.paused THEN "off"
                       ELSE IF Settled(t.phase) THEN "on" ELSE @]

RenderGame(t, s) ==
  LET drawn == IF MyDiceKey(s) = t.key THEN t
               ELSE RenderMyArea([t EXCEPT !.key = MyDiceKey(s)], s)
  IN  SyncPaused([drawn EXCEPT !.cur = s], s)

ShowBoard(t, s) == RenderGame(ShowScreen(t, "game"), s)

ShowDialog(t, d) == [t EXCEPT !.dialogs = @ \cup {d}]

HideDialogs(t, ds) == [t EXCEPT !.dialogs = @ \ ds]

-----------------------------------------------------------------------------
(* The page shows one frame after the other only as long as nothing of an  *)
(* older one is left to be done.  skipped holds from a frame that was not  *)
(* so lucky to the next one that is: something older may act after it.     *)

Pending(t) == t.soon # <<>> \/ t.intros # <<>>

Passed(t, s) == [t EXCEPT !.skipped = @ \/ s]

\* A frame has arrived that a reveal is yet to show.
HoldsFrame(t) ==
  \/ t.phase.kind = "settling"
  \/ t.phase.kind = "revealing" /\ "pump" \in t.timers
  \/ t.phase.stashed # Nothing

\* Every frame before this one has had its effect, or will have it before.
InOrder(t) ==
  [t EXCEPT !.skipped = t.intros # <<>> \/ HoldsFrame(t) \/ (@ /\ Pending(t))]

-----------------------------------------------------------------------------
(* router.js                                                               *)

\* Mutant: the celebration is closed but its phase goes on.
ShowForCelebrating(t, s) ==
  LET taken == [t EXCEPT !.cur = s, !.session = TRUE]
      next(do, flag) == LeaveLoading(InOrder(taken), [do |-> do, snap |-> s, flag |-> flag])
  IN  CASE ~s.started -> next("lobby", FALSE)
        [] s.started /\ s.paused -> next(IF t.host THEN "hosting" ELSE "wait", FALSE)
        [] s.started /\ ~s.paused /\ s.down -> ShowLoading(InOrder(taken))
        [] OTHER -> next("board", t.active = "lobby")

\* Show whatever screen the snapshot calls for.
ShowFor(t, s) ==
  LET ended == IF t.phase.kind = "celebrating" THEN Dispatch(t, [t |-> "ROUND_ADVANCE"])
               ELSE t
      taken == [ended EXCEPT !.cur = s, !.session = TRUE]
      next(do, flag) == LeaveLoading(InOrder(taken), [do |-> do, snap |-> s, flag |-> flag])
  IN  CASE ~s.started -> next("lobby", FALSE)
        [] s.started /\ s.paused /\ ~t.host -> HideDialogs(next("wait", FALSE), {"winner"})
        [] s.started /\ s.paused /\ t.host -> next("hosting", FALSE)
        [] s.started /\ ~s.paused /\ s.down ->
             ShowLoading(HideDialogs(Passed(InOrder(taken), Pending(t)), {"winner", "pause"}))
        [] OTHER -> next("board", t.active = "lobby")

\* What ShowFor left for later, by the screen it leads to.
Later(t, a) ==
  CASE a.do = "lobby" -> ShowScreen(HideDialogs(t, {"pause"}), "lobby")
    [] a.do = "wait" -> ShowDialog(ShowBoard(t, a.snap), "pause")
    [] a.do = "hosting" ->
         ShowBoard(HideDialogs(t, {"winner", "pause"}), a.snap)
    [] a.do = "board" ->
         LET calm == HideDialogs(t, {"winner"})
             shown == IF a.flag THEN [calm EXCEPT !.intros = Append(@, a.snap)]
                      ELSE ShowBoard(calm, a.snap)
         IN  [shown EXCEPT !.delays = IF "pause" \in t.dialogs
                                      THEN @ \cup {"hidePaused"} ELSE @]
    [] a.do \in {"landing", "game-detail"} -> ShowScreen(t, a.do)

-----------------------------------------------------------------------------
(* animations.js                                                           *)

\* Mutant: the stashed frame is forgotten.
CompleteForgets(t) ==
  LET done == [Dispatch(t, [t |-> "REVEAL_DONE"])
                 EXCEPT !.button = IF @ = "none" THEN @ ELSE "on"]
  IN  IF t.phase.kind = "revealing" /\ t.phase.result # Nothing
      THEN ShowDialog(done, "winner") ELSE HideDialogs(done, {"winner"})

\* The end of a reveal, then the celebration or the frame that was stashed.
Complete(t) ==
  LET done == [Dispatch(t, [t |-> "REVEAL_DONE"])
                 EXCEPT !.button = IF @ = "none" THEN @ ELSE "on"]
      p == t.phase
  IN  CASE p.kind = "revealing" /\ p.result # Nothing ->
             Passed(ShowDialog(done, "winner"), p.stashed # Nothing \/ Pending(t))
        [] p.kind = "revealing" /\ p.result = Nothing /\ p.stashed # Nothing ->
             Passed(ShowFor(HideDialogs(done, {"winner"}), p.stashed), t.skipped)
        [] OTHER -> HideDialogs(done, {"winner"})

\* runReveal, up to the timer that settles the dice.
RunReveal(t) ==
  LET s == t.phase.snap
      held == [Passed(t, Pending(t)) EXCEPT !.cur = s, !.key = MyDiceKey(s), !.timers = {}]
  IN  IF t.loose = 0 \/ s.round # t.round
      THEN Complete(RenderMyArea(held, s))
      ELSE [held EXCEPT !.timers = {"reveal"}, !.tumbling = TRUE,
                        !.cut = @ \/ t.locked # t.phase.before]

\* The dice show their faces; a die that newly matches has to be moved yet.
RevealTimer(t) ==
  LET s == t.phase.snap
      shown == [t EXCEPT !.timers = {}, !.cut = @ \/ ~t.tumbling,
                         !.faces = IF t.tumbling THEN MyDiceKey(s) ELSE @]
      rest == [shown EXCEPT !.tumbling = FALSE]
      wins == t.phase.result # Nothing /\ t.phase.result.mine
  IN  IF ~wins /\ s.hits > t.phase.before THEN [shown EXCEPT !.timers = {"pop"}]
      ELSE Complete(rest)

PopTimer(t) ==
  LET s == t.phase.snap
      popped == [t EXCEPT !.timers = {}]
  IN  IF t.cur # Nothing /\ t.cur.round # s.round THEN Complete(popped)
      ELSE Complete([popped EXCEPT !.locked = s.hits, !.tumbling = FALSE,
                                   !.cut = @ \/ ~t.tumbling,
                                   !.loose = IF t.tumbling THEN Dice - s.hits ELSE @])

\* Re-enable the button and repaint the board from the last known state.
Unstick(t) ==
  LET on == [t EXCEPT !.button = IF @ = "none" THEN @ ELSE "on"]
  IN  IF t.cur = Nothing THEN on ELSE Repaint(on)

\* Mutant: the wait for the server has no deadline.
PumpForever(t) ==
  LET fired == [t EXCEPT !.timers = @ \ {"pump"}]
  IN  CASE t.phase.kind = "shaking" ->
             [Dispatch(t, [t |-> "SHAKE_DONE"]) EXCEPT !.timers = {"pump"}]
        [] t.phase.kind = "settling" -> RunReveal(Dispatch(fired, [t |-> "SHAKE_DONE"]))
        [] t.phase.kind = "revealing" -> RunReveal(fired)
        [] OTHER -> t

\* pumpRoll, from the timer.  awaitingServer here is a wait that is over.
Pump(t) ==
  LET fired == [t EXCEPT !.timers = @ \ {"pump"}]
  IN  CASE t.phase.kind = "shaking" ->
             [Dispatch(t, [t |-> "SHAKE_DONE"]) EXCEPT !.timers = {"pump"}]
        [] t.phase.kind = "settling" -> RunReveal(Dispatch(fired, [t |-> "SHAKE_DONE"]))
        [] t.phase.kind = "awaitingServer" -> Unstick(Dispatch(fired, [t |-> "GIVE_UP"]))
        [] t.phase.kind = "revealing" -> RunReveal(fired)
        [] OTHER -> fired

\* roll(): its guards, and what it does to the tab besides sending the frame.
CanRoll(t) ==
  /\ t.button = "on"
  /\ t.phase.kind = "idle"
  /\ t.cur # Nothing
  /\ ~t.cur.paused

Roll(t) ==
  [Dispatch(t, [t |-> "ROLL_SENT", before |-> t.cur.hits])
     EXCEPT !.button = "off", !.timers = {"pump"}]

-----------------------------------------------------------------------------
(* net.js                                                                  *)

HandleState(t, s) ==
  IF s.started /\ t.cur # Nothing /\ s.round > t.cur.round
  THEN ShowFor(ResetRollState(t), s)
  ELSE CASE AwaitsRollFrame(t.phase) /\ s.started /\ MyDiceKey(s) # t.key ->
              Dispatch(t, [t |-> "SERVER_ROLL", snap |-> s, result |-> Nothing])
         [] HoldsRollFrame(t.phase) ->
              Dispatch(t, [t |-> "BROADCAST", snap |-> s])
         [] IsCelebrationEcho(t.phase, s) ->
              [Passed(t, Pending(t)) EXCEPT !.cur = s]
         [] OTHER -> ShowFor(t, s)

HandleRoundWon(t, s, mine) ==
  LET result == [round |-> s.round, mine |-> mine]
      shown == [Dispatch(t, [t |-> "SHOW_RESULT", result |-> result])
                  EXCEPT !.timers = {}, !.cur = s, !.key = MyDiceKey(s)]
  IN  IF AwaitingAck(t.phase) /\ MyDiceKey(s) # t.key
      THEN Dispatch(t, [t |-> "SERVER_ROLL", snap |-> s, result |-> result])
      ELSE ShowDialog(RenderMyArea(ShowScreen(Passed(shown, Pending(t)), "game"), s),
                      "winner")

HandleGameEnded(t) ==
  [ResetRollState(t)
     EXCEPT !.session = FALSE, !.cur = Nothing, !.delays = @ \cup {"showGameDetail"}]

\* Mutant: the rejected roll is over, its button is not rendered again.
HandleErrorQuietly(t) ==
  IF t.cur = Nothing THEN t ELSE ResetRollState(Passed(t, HoldsFrame(t)))

\* A non-fatal error: within a game nothing has a pending origin.
HandleError(t) ==
  IF t.cur = Nothing THEN t
  ELSE Repaint(ResetRollState(Passed(t, HoldsFrame(t))))

\* A fatal error, or a session the server no longer knows (expireSession).
Forget(t) ==
  LeaveLoading([t EXCEPT !.session = FALSE, !.cur = Nothing],
               [do |-> "landing", snap |-> Nothing, flag |-> TRUE])

===============================================================================
