------------------------------ MODULE RollClientProofs ------------------------------
(***************************************************************************)
(* Proofs about a player's page during a game, for any number of dice,     *)
(* rounds, rolls, events and frames lost: its state is what it is meant to *)
(* be, and a roll under way always has the one timer that carries it on.   *)
(* Below that, what the handlers of RollTab do to the page, field by       *)
(* field, and the parts of the invariant of LatestShownProofs.             *)
(***************************************************************************)
EXTENDS RollClient, SequenceTheorems, TLAPS

-----------------------------------------------------------------------------
(* Types, and what the page has at hand in a phase.                        *)

\* A reveal has the frame it reveals, a celebration the result it celebrates.
FitPhase == {p \in Phase : /\ p.kind \in {"settling", "revealing"} => p.snap \in Snap
                           /\ p.kind = "celebrating" => p.result \in Result}

FitSoon == {a \in Soon : a.do \in {"wait", "hosting", "board"} => a.snap \in Snap}

FitTab ==
  [host : BOOLEAN, phase : FitPhase, timers : SUBSET {"pump", "reveal", "pop"},
   cur : Snap \cup {Nothing}, key : Nat \X Nat, round : Nat, faces : Nat \X Nat, locked : Nat,
   loose : Nat, tumbling : BOOLEAN, button : {"none", "on", "off"}, active : Screens,
   soon : Seq(FitSoon), intros : Seq(Snap), delays : SUBSET {"hidePaused", "showGameDetail"},
   dialogs : SUBSET {"winner", "pause"}, session : BOOLEAN, cut : BOOLEAN, skipped : BOOLEAN]

HasTimer(t) ==
  /\ AwaitingAck(t.phase) => t.timers = {"pump"}
  /\ t.phase.kind = "revealing" => t.timers \in {{"pump"}, {"reveal"}, {"pop"}}
  /\ Settled(t.phase) => t.timers = {}

Sound(t) == t \in FitTab /\ HasTimer(t)

\* u is t but for what it shows, and for what it will.
Kept(t, u) == u \in FitTab /\ u.phase = t.phase /\ u.timers = t.timers

LEMMA KeptSound == ASSUME NEW t, Sound(t), NEW u, Kept(t, u) PROVE Sound(u)
BY DEF Sound, HasTimer, Kept

LEMMA KeptTwice == ASSUME NEW t, NEW u, Kept(t, u), NEW v, Kept(u, v) PROVE Kept(t, v)
BY DEF Kept

LEMMA FitIsTab == FitTab \subseteq Tab
<1>1. FitPhase \subseteq Phase
  BY DEF FitPhase
<1>2. Seq(FitSoon) \subseteq Seq(Soon)
  BY DEF FitSoon
<1> QED
  BY <1>1, <1>2 DEF FitTab, Tab

LEMMA SnapIs ==
  ASSUME NEW s \in Snap
  PROVE  /\ MyDiceKey(s) \in Nat \X Nat /\ s.round \in Nat /\ s.hits \in Nat
         /\ Dice - s.hits \in Nat /\ s # Nothing /\ s.paused \in BOOLEAN
         /\ s.started \in BOOLEAN /\ s.down \in BOOLEAN
BY DiceAssumption, NothingAssumption DEF Snap, MyDiceKey

-----------------------------------------------------------------------------
(* What is drawn.                                                          *)

LEMMA PassedKept ==
  ASSUME NEW t \in FitTab, NEW b \in BOOLEAN
  PROVE  Kept(t, Passed(t, b)) /\ Passed(t, b).cur = t.cur
BY DEF Passed, Kept, FitTab

LEMMA InOrderKept ==
  ASSUME NEW t \in FitTab
  PROVE  Kept(t, InOrder(t)) /\ InOrder(t).cur = t.cur
<1> DEFINE b == t.intros # <<>> \/ HoldsFrame(t) \/ (t.skipped /\ Pending(t))
<1>1. b \in BOOLEAN /\ InOrder(t) = [t EXCEPT !.skipped = b]
  BY DEF InOrder
<1> HIDE DEF b
<1> QED
  BY <1>1 DEF Kept, FitTab

LEMMA DialogsKept ==
  ASSUME NEW t \in FitTab, NEW d \in {"winner", "pause"}, NEW ds \in SUBSET {"winner", "pause"}
  PROVE  /\ Kept(t, ShowDialog(t, d)) /\ ShowDialog(t, d).cur = t.cur
         /\ Kept(t, HideDialogs(t, ds)) /\ HideDialogs(t, ds).cur = t.cur
<1>1. t.dialogs \cup {d} \in SUBSET {"winner", "pause"}
      /\ t.dialogs \ ds \in SUBSET {"winner", "pause"}
  BY DEF FitTab
<1> QED
  BY <1>1 DEF ShowDialog, HideDialogs, Kept, FitTab

LEMMA LaterKept ==
  ASSUME NEW t \in FitTab, NEW a \in FitSoon
  PROVE  /\ Kept(t, [t EXCEPT !.soon = Append(t.soon, a)])
         /\ [t EXCEPT !.soon = Append(t.soon, a)].cur = t.cur
<1>1. Append(t.soon, a) \in Seq(FitSoon)
  BY DEF FitTab
<1> QED
  BY <1>1 DEF Kept, FitTab

LEMMA ScreenKept ==
  ASSUME NEW t \in FitTab, NEW id \in Screens
  PROVE  Kept(t, ShowScreen(t, id)) /\ ShowScreen(t, id).cur = t.cur
<1>1. [do |-> "commit", to |-> id] \in FitSoon
  BY DEF FitSoon, Soon
<1>2. Kept(t, t)
  BY DEF Kept
<1> QED
  BY <1>1, <1>2, LaterKept DEF ShowScreen

LEMMA AreaKept ==
  ASSUME NEW t \in FitTab, NEW s \in Snap
  PROVE  Kept(t, RenderMyArea(t, s)) /\ RenderMyArea(t, s).cur = t.cur
<1> DEFINE key == MyDiceKey(s)
           locked == s.hits
           loose == Dice - s.hits
           round == s.round
<1>1. key \in Nat \X Nat /\ locked \in Nat /\ loose \in Nat /\ round \in Nat
  BY SnapIs
<1> DEFINE u == [t EXCEPT !.round = round, !.faces = key, !.locked = locked, !.loose = loose,
                          !.tumbling = FALSE, !.cut = FALSE, !.button = "on"]
<1>2. RenderMyArea(t, s) = u
  BY DEF RenderMyArea
<1> HIDE DEF key, locked, loose, round
<1>3. Kept(t, u) /\ u.cur = t.cur
  BY <1>1 DEF FitTab, Kept
<1> QED
  BY <1>2, <1>3

LEMMA RepaintKept ==
  ASSUME NEW t \in FitTab, t.cur \in Snap
  PROVE  Kept(t, Repaint(t)) /\ Repaint(t).cur = t.cur
<1> DEFINE drawn == RenderMyArea(t, t.cur)
           other == MyDiceKey(t.cur) # t.key
           u == [drawn EXCEPT !.cut = other]
<1>1. Kept(t, drawn) /\ drawn.cur = t.cur
  BY AreaKept
<1>2. Repaint(t) = u /\ other \in BOOLEAN
  BY DEF Repaint
<1> HIDE DEF drawn, other
<1>3. Kept(drawn, u) /\ u.cur = drawn.cur
  BY <1>1, <1>2 DEF FitTab, Kept
<1> QED
  BY <1>1, <1>2, <1>3 DEF Kept

LEMMA ButtonKept ==
  ASSUME NEW t \in FitTab, NEW s \in Snap
  PROVE  Kept(t, SyncPaused(t, s)) /\ SyncPaused(t, s).cur = t.cur
<1> DEFINE button == IF t.button = "none" THEN t.button
                     ELSE IF s.paused THEN "off"
                     ELSE IF Settled(t.phase) THEN "on" ELSE t.button
           u == [t EXCEPT !.button = button]
<1>1. t.button \in {"none", "on", "off"}
  BY DEF FitTab
<1>2. button \in {"none", "on", "off"}
  BY <1>1
<1>3. SyncPaused(t, s) = u
  BY DEF SyncPaused
<1> HIDE DEF button
<1>4. Kept(t, u) /\ u.cur = t.cur
  BY <1>2 DEF FitTab, Kept
<1> QED
  BY <1>3, <1>4

LEMMA KnownKept ==
  ASSUME NEW t \in FitTab, NEW s \in Snap, NEW key \in Nat \X Nat
  PROVE  /\ Kept(t, [t EXCEPT !.key = key])
         /\ Kept(t, [t EXCEPT !.cur = s]) /\ [t EXCEPT !.cur = s].cur = s
BY DEF FitTab, Kept

LEMMA GameKept ==
  ASSUME NEW t \in FitTab, NEW s \in Snap
  PROVE  Kept(t, RenderGame(t, s)) /\ RenderGame(t, s).cur = s
<1> DEFINE noted == [t EXCEPT !.key = MyDiceKey(s)]
           drawn == IF MyDiceKey(s) = t.key THEN t ELSE RenderMyArea(noted, s)
           known == [drawn EXCEPT !.cur = s]
<1>1. Kept(t, noted)
  BY SnapIs, KnownKept
<1> HIDE DEF noted
<1>2. Kept(t, drawn)
  <2>1. Kept(noted, RenderMyArea(noted, s))
    BY <1>1, AreaKept DEF Kept
  <2> QED
    BY <1>1, <2>1 DEF Kept
<1>3. RenderGame(t, s) = SyncPaused(known, s)
  BY DEF RenderGame, noted
<1> HIDE DEF drawn
<1>4. Kept(drawn, known) /\ known.cur = s
  BY <1>2, SnapIs, KnownKept DEF Kept
<1> HIDE DEF known
<1>5. Kept(known, SyncPaused(known, s)) /\ SyncPaused(known, s).cur = known.cur
  BY <1>4, ButtonKept DEF Kept
<1> QED
  BY <1>2, <1>3, <1>4, <1>5 DEF Kept

LEMMA BoardKept ==
  ASSUME NEW t \in FitTab, NEW s \in Snap
  PROVE  Kept(t, ShowBoard(t, s)) /\ ShowBoard(t, s).cur = s
<1> DEFINE shown == ShowScreen(t, "game")
<1>1. Kept(t, shown)
  BY ScreenKept DEF Screens
<1>2. ShowBoard(t, s) = RenderGame(shown, s)
  BY DEF ShowBoard
<1> HIDE DEF shown
<1>3. Kept(shown, RenderGame(shown, s)) /\ RenderGame(shown, s).cur = s
  BY <1>1, GameKept DEF Kept
<1> QED
  BY <1>1, <1>2, <1>3, KeptTwice

LEMMA PendingKept ==
  ASSUME NEW t \in FitTab, NEW s \in Snap, NEW d \in SUBSET {"hidePaused", "showGameDetail"}
  PROVE  /\ Kept(t, [t EXCEPT !.intros = Append(t.intros, s)])
         /\ Kept(t, [t EXCEPT !.delays = d])
<1>1. Append(t.intros, s) \in Seq(Snap)
  BY DEF FitTab
<1> QED
  BY <1>1 DEF Kept, FitTab

\* What was left for later.
LEMMA LaterDone ==
  ASSUME NEW t \in FitTab, NEW a \in FitSoon, a.do # "commit"
  PROVE  Kept(t, Later(t, a))
<1>1. a.do \in {"lobby", "wait", "hosting", "board", "landing", "game-detail"}
  BY DEF FitSoon, Soon
<1>2. a.do \in {"wait", "hosting", "board"} => a.snap \in Snap
  BY DEF FitSoon
<1>3. CASE a.do = "lobby"
  <2> DEFINE calm == HideDialogs(t, {"pause"})
  <2>1. Kept(t, calm)
    BY DialogsKept
  <2>2. Later(t, a) = ShowScreen(calm, "lobby")
    BY <1>3 DEF Later
  <2> HIDE DEF calm
  <2>3. Kept(calm, ShowScreen(calm, "lobby"))
    BY <2>1, ScreenKept DEF Kept, Screens
  <2> QED
    BY <2>1, <2>2, <2>3, KeptTwice
<1>4. CASE a.do = "wait"
  <2> DEFINE board == ShowBoard(t, a.snap)
  <2>1. Kept(t, board)
    BY <1>2, <1>4, BoardKept
  <2>2. Later(t, a) = ShowDialog(board, "pause")
    BY <1>4 DEF Later
  <2> HIDE DEF board
  <2>3. Kept(board, ShowDialog(board, "pause"))
    BY <2>1, DialogsKept DEF Kept
  <2> QED
    BY <2>1, <2>2, <2>3, KeptTwice
<1>5. CASE a.do = "hosting"
  <2> DEFINE calm == HideDialogs(t, {"winner", "pause"})
  <2>1. Kept(t, calm)
    BY DialogsKept
  <2>2. Later(t, a) = ShowBoard(calm, a.snap)
    BY <1>5 DEF Later
  <2> HIDE DEF calm
  <2>3. Kept(calm, ShowBoard(calm, a.snap))
    BY <1>2, <1>5, <2>1, BoardKept DEF Kept
  <2> QED
    BY <2>1, <2>2, <2>3, KeptTwice
<1>6. CASE a.do = "board"
  <2> DEFINE calm == HideDialogs(t, {"winner"})
             shown == IF a.flag THEN [calm EXCEPT !.intros = Append(calm.intros, a.snap)]
                      ELSE ShowBoard(calm, a.snap)
             delays == IF "pause" \in t.dialogs THEN shown.delays \cup {"hidePaused"}
                       ELSE shown.delays
  <2>1. Kept(t, calm)
    BY DialogsKept
  <2>2. Later(t, a) = [shown EXCEPT !.delays = delays]
    BY <1>6 DEF Later
  <2> HIDE DEF calm
  <2>3. Kept(calm, shown)
    BY <1>2, <1>6, <2>1, BoardKept, PendingKept DEF Kept
  <2> HIDE DEF shown
  <2>4. delays \in SUBSET {"hidePaused", "showGameDetail"}
    BY <2>3 DEF Kept, FitTab
  <2> HIDE DEF delays
  <2>5. Kept(shown, [shown EXCEPT !.delays = delays])
    BY <1>2, <1>6, <2>3, <2>4, PendingKept DEF Kept
  <2> QED
    BY <2>1, <2>2, <2>3, <2>5 DEF Kept
<1>7. CASE a.do \in {"landing", "game-detail"}
  <2>1. Later(t, a) = ShowScreen(t, a.do) /\ a.do \in Screens
    BY <1>7 DEF Later, Screens
  <2> QED
    BY <2>1, ScreenKept
<1> QED
  BY <1>1, <1>3, <1>4, <1>5, <1>6, <1>7

-----------------------------------------------------------------------------
(* Where the events of a roll lead.                                        *)

LEMMA IdleFits == Idle \in FitPhase /\ Idle.kind = "idle" /\ Idle.stashed = Nothing
BY DEF Idle, FitPhase, Phase, Kinds

LEMMA CelebratingFits ==
  ASSUME NEW result \in Result
  PROVE  Celebrating(result) \in FitPhase /\ Celebrating(result).kind = "celebrating"
BY DEF Celebrating, Idle, FitPhase, Phase, Kinds

LEMMA KindFits ==
  ASSUME NEW p \in FitPhase, NEW kind \in {"idle", "shaking", "awaitingServer"}
  PROVE  [p EXCEPT !.kind = kind] \in FitPhase /\ [p EXCEPT !.kind = kind].kind = kind
BY DEF FitPhase, Phase, Kinds

LEMMA RevealFits ==
  ASSUME NEW p \in FitPhase, p.kind = "settling"
  PROVE  /\ [p EXCEPT !.kind = "revealing"] \in FitPhase
         /\ [p EXCEPT !.kind = "revealing"].kind = "revealing"
BY DEF FitPhase, Phase, Kinds

LEMMA HoldingFits ==
  ASSUME NEW p \in FitPhase, NEW s \in Snap, NEW result \in Result \cup {Nothing},
         NEW kind \in {"settling", "revealing"}, NEW ev, ev.snap = s, ev.result = result
  PROVE  Holding(p, kind, ev) \in FitPhase /\ Holding(p, kind, ev).kind = kind
BY DEF Holding, FitPhase, Phase, Kinds

LEMMA ResetLeads ==
  ASSUME NEW p PROVE Transition(p, [t |-> "RESET"]) = Idle
BY DEF Transition

LEMMA ResultLeads ==
  ASSUME NEW p, NEW result
  PROVE  Transition(p, [t |-> "SHOW_RESULT", result |-> result]) = Celebrating(result)
BY DEF Transition

\* A tap on an idle phase.
LEMMA SentLeads ==
  ASSUME NEW p \in FitPhase, p.kind = "idle", NEW n \in Nat
  PROVE  LET q == Transition(p, [t |-> "ROLL_SENT", before |-> n])
         IN  q \in FitPhase /\ q.kind = "shaking"
<1>1. Transition(p, [t |-> "ROLL_SENT", before |-> n]) =
        [Idle EXCEPT !.kind = "shaking", !.before = n]
  BY DEF Transition
<1>2. /\ [Idle EXCEPT !.kind = "shaking", !.before = n] \in FitPhase
      /\ [Idle EXCEPT !.kind = "shaking", !.before = n].kind = "shaking"
  BY DEF Idle, FitPhase, Phase, Kinds
<1> QED
  BY <1>1, <1>2

\* The frame of a roll under way.
LEMMA FrameLeads ==
  ASSUME NEW p \in FitPhase, AwaitingAck(p), NEW s \in Snap, NEW result \in Result \cup {Nothing}
  PROVE  LET q == Transition(p, [t |-> "SERVER_ROLL", snap |-> s, result |-> result])
         IN  /\ q \in FitPhase
             /\ p.kind \in {"shaking", "settling"} => q.kind = "settling"
             /\ p.kind = "awaitingServer" => q.kind = "revealing"
<1> DEFINE ev == [t |-> "SERVER_ROLL", snap |-> s, result |-> result]
<1>1. ev.t = "SERVER_ROLL" /\ ev.snap = s /\ ev.result = result
  OBVIOUS
<1> HIDE DEF ev
<1>2. CASE p.kind \in {"shaking", "settling"}
  <2>1. Transition(p, ev) = Holding(p, "settling", ev)
    BY <1>1, <1>2 DEF Transition
  <2> QED
    BY <1>1, <1>2, <2>1, HoldingFits DEF ev
<1>3. CASE p.kind = "awaitingServer"
  <2>1. Transition(p, ev) = Holding(p, "revealing", ev)
    BY <1>1, <1>3 DEF Transition
  <2> QED
    BY <1>1, <1>3, <2>1, HoldingFits DEF ev
<1> QED
  BY <1>2, <1>3 DEF AwaitingAck

\* A frame that comes while another is in hand.
LEMMA BroadcastLeads ==
  ASSUME NEW p \in FitPhase, HoldsRollFrame(p), NEW s \in Snap
  PROVE  LET q == Transition(p, [t |-> "BROADCAST", snap |-> s])
         IN  q \in FitPhase /\ q.kind = "settling"
<1>1. Transition(p, [t |-> "BROADCAST", snap |-> s]) = [p EXCEPT !.stashed = s]
  BY DEF Transition, HoldsRollFrame
<1>2. [p EXCEPT !.stashed = s] \in FitPhase /\ [p EXCEPT !.stashed = s].kind = p.kind
  BY DEF FitPhase, Phase
<1> QED
  BY <1>1, <1>2 DEF HoldsRollFrame

\* The shake ends, the wait is given up, the celebration is over.
LEMMA TimeLeads ==
  ASSUME NEW p \in FitPhase
  PROVE  /\ p.kind = "shaking" =>
              /\ Transition(p, [t |-> "SHAKE_DONE"]) \in FitPhase
              /\ Transition(p, [t |-> "SHAKE_DONE"]).kind = "awaitingServer"
         /\ p.kind = "settling" =>
              /\ Transition(p, [t |-> "SHAKE_DONE"]) \in FitPhase
              /\ Transition(p, [t |-> "SHAKE_DONE"]).kind = "revealing"
         /\ p.kind = "awaitingServer" => Transition(p, [t |-> "GIVE_UP"]) = Idle
         /\ p.kind = "celebrating" => Transition(p, [t |-> "ROUND_ADVANCE"]) = Idle
<1>1. ASSUME p.kind = "shaking"
      PROVE  Transition(p, [t |-> "SHAKE_DONE"]) = [p EXCEPT !.kind = "awaitingServer"]
  BY <1>1 DEF Transition
<1>2. ASSUME p.kind = "settling"
      PROVE  Transition(p, [t |-> "SHAKE_DONE"]) = [p EXCEPT !.kind = "revealing"]
  BY <1>2 DEF Transition
<1>3. p.kind = "awaitingServer" => Transition(p, [t |-> "GIVE_UP"]) = Idle
  BY DEF Transition
<1>4. p.kind = "celebrating" => Transition(p, [t |-> "ROUND_ADVANCE"]) = Idle
  BY DEF Transition
<1> QED
  BY <1>1, <1>2, <1>3, <1>4, KindFits, RevealFits

\* A reveal ends.
LEMMA RevealLeads ==
  ASSUME NEW p \in FitPhase, p.kind = "revealing"
  PROVE  LET q == Transition(p, [t |-> "REVEAL_DONE"])
         IN  q \in FitPhase /\ q.kind = IF p.result = Nothing THEN "idle" ELSE "celebrating"
<1>1. Transition(p, [t |-> "REVEAL_DONE"]) =
        IF p.result = Nothing THEN Idle ELSE Celebrating(p.result)
  BY DEF Transition
<1>2. p.result \in Result \cup {Nothing}
  BY DEF FitPhase, Phase
<1> QED
  BY <1>1, <1>2, IdleFits, CelebratingFits

-----------------------------------------------------------------------------
(* The handlers.                                                           *)

LEMMA TabHas ==
  ASSUME NEW t \in FitTab
  PROVE  /\ t.phase \in FitPhase /\ t.phase.kind \in Kinds
         /\ t.phase.result \in Result \cup {Nothing} /\ t.phase.stashed \in Snap \cup {Nothing}
         /\ t.phase.kind \in {"settling", "revealing"} => t.phase.snap \in Snap
         /\ t.cur \in Snap \cup {Nothing} /\ t.host \in BOOLEAN /\ t.tumbling \in BOOLEAN
         /\ t.cut \in BOOLEAN /\ t.button \in {"none", "on", "off"}
         /\ Nothing \notin Snap /\ Nothing \notin Result
<1>1. t.phase \in FitPhase
  BY DEF FitTab
<1>2. /\ t.phase.kind \in Kinds /\ t.phase.result \in Result \cup {Nothing}
      /\ t.phase.stashed \in Snap \cup {Nothing}
      /\ t.phase.kind \in {"settling", "revealing"} => t.phase.snap \in Snap
  BY <1>1 DEF FitPhase, Phase
<1>3. /\ t.cur \in Snap \cup {Nothing} /\ t.host \in BOOLEAN /\ t.tumbling \in BOOLEAN
      /\ t.cut \in BOOLEAN /\ t.button \in {"none", "on", "off"}
  BY DEF FitTab
<1> QED
  BY <1>1, <1>2, <1>3, NothingAssumption

LEMMA DispatchFits ==
  ASSUME NEW t \in FitTab, NEW ev, Transition(t.phase, ev) \in FitPhase
  PROVE  /\ Dispatch(t, ev) \in FitTab /\ Dispatch(t, ev).phase = Transition(t.phase, ev)
         /\ Dispatch(t, ev).timers = t.timers /\ Dispatch(t, ev).cur = t.cur
         /\ Dispatch(t, ev).button = t.button
<1> DEFINE q == Transition(t.phase, ev)
<1>1. q \in FitPhase /\ Dispatch(t, ev) = [t EXCEPT !.phase = q]
  BY DEF Dispatch
<1> HIDE DEF q
<1>2. /\ [t EXCEPT !.phase = q] \in FitTab /\ [t EXCEPT !.phase = q].phase = q
      /\ [t EXCEPT !.phase = q].timers = t.timers /\ [t EXCEPT !.phase = q].cur = t.cur
      /\ [t EXCEPT !.phase = q].button = t.button
  BY <1>1 DEF FitTab
<1> QED
  BY <1>1, <1>2 DEF q

LEMMA ResetSound ==
  ASSUME NEW t \in FitTab
  PROVE  /\ Sound(ResetRollState(t)) /\ ResetRollState(t).phase = Idle
         /\ ResetRollState(t).timers = {} /\ ResetRollState(t).cur = t.cur
<1> DEFINE reset == Dispatch(t, [t |-> "RESET"])
           cut == reset.cut \/ t.tumbling
           u == [reset EXCEPT !.timers = {}, !.tumbling = FALSE, !.cut = cut]
<1>1. reset \in FitTab /\ reset.phase = Idle /\ reset.cur = t.cur
  BY DispatchFits, ResetLeads, IdleFits
<1>2. ResetRollState(t) = u
  BY DEF ResetRollState
<1>3. cut \in BOOLEAN
  OBVIOUS
<1> HIDE DEF reset, cut
<1>4. u \in FitTab /\ u.phase = reset.phase /\ u.timers = {} /\ u.cur = reset.cur
  BY <1>1, <1>3 DEF FitTab
<1> HIDE DEF u
<1> QED
  BY <1>1, <1>2, <1>4, IdleFits DEF Sound, HasTimer, AwaitingAck, Settled

LEMMA ActionFits ==
  ASSUME NEW s \in Snap, NEW flag \in BOOLEAN
  PROVE  /\ \A do \in {"lobby", "wait", "hosting", "board"} :
              [do |-> do, snap |-> s, flag |-> flag] \in FitSoon
         /\ \A do \in {"landing", "game-detail"} :
              [do |-> do, snap |-> Nothing, flag |-> flag] \in FitSoon
BY DEF FitSoon, Soon

LEMMA SessionFits ==
  ASSUME NEW t \in FitTab, NEW s \in Snap \cup {Nothing}, NEW b \in BOOLEAN
  PROVE  /\ Kept(t, [t EXCEPT !.cur = s, !.session = b])
         /\ [t EXCEPT !.cur = s, !.session = b].cur = s
BY DEF Kept, FitTab

\* The screen a frame calls for; a celebration ends with it.
LEMMA ShowForFits ==
  ASSUME NEW t \in FitTab, NEW s \in Snap
  PROVE  /\ ShowFor(t, s) \in FitTab /\ ShowFor(t, s).timers = t.timers
         /\ ShowFor(t, s).phase = IF t.phase.kind = "celebrating" THEN Idle ELSE t.phase
<1> DEFINE ended == IF t.phase.kind = "celebrating" THEN Dispatch(t, [t |-> "ROUND_ADVANCE"])
                    ELSE t
           taken == [ended EXCEPT !.cur = s, !.session = TRUE]
           sorted == InOrder(taken)
           next(do, flag) == LeaveLoading(sorted, [do |-> do, snap |-> s, flag |-> flag])
           waiting == next("wait", FALSE)
           passed == Passed(sorted, Pending(t))
           calm == HideDialogs(passed, {"winner", "pause"})
           board == t.active = "lobby"
<1>1. /\ ended \in FitTab /\ ended.timers = t.timers
      /\ ended.phase = IF t.phase.kind = "celebrating" THEN Idle ELSE t.phase
  <2> DEFINE advanced == Dispatch(t, [t |-> "ROUND_ADVANCE"])
  <2>1. ASSUME t.phase.kind = "celebrating"
        PROVE  advanced \in FitTab /\ advanced.timers = t.timers /\ advanced.phase = Idle
    <3>1. Transition(t.phase, [t |-> "ROUND_ADVANCE"]) = Idle
      BY <2>1, TabHas, TimeLeads
    <3> QED
      BY <3>1, DispatchFits, IdleFits
  <2>2. ended = IF t.phase.kind = "celebrating" THEN advanced ELSE t
    OBVIOUS
  <2> HIDE DEF advanced, ended
  <2> QED
    BY <2>1, <2>2
<1> HIDE DEF ended
<1>2. Kept(ended, taken)
  BY <1>1, SessionFits
<1> HIDE DEF taken
<1>3. Kept(taken, sorted)
  BY <1>2, InOrderKept DEF Kept
<1>4. board \in BOOLEAN /\ Pending(t) \in BOOLEAN
  BY DEF Pending
<1>5. /\ ShowFor(t, s) \in {next("lobby", FALSE), HideDialogs(waiting, {"winner"}),
                            next("hosting", FALSE), ShowScreen(calm, "loading"),
                            next("board", board)}
  BY DEF ShowFor, ShowLoading, ended, taken
<1> HIDE DEF sorted, board
<1>6. ASSUME NEW do \in {"lobby", "wait", "hosting", "board"}, NEW flag \in BOOLEAN
      PROVE  Kept(sorted, next(do, flag))
  BY <1>3, ActionFits, LaterKept DEF LeaveLoading, Kept
<1>7. Kept(sorted, next("lobby", FALSE)) /\ Kept(sorted, waiting)
      /\ Kept(sorted, next("hosting", FALSE)) /\ Kept(sorted, next("board", board))
  BY <1>4, <1>6
<1> HIDE DEF next, waiting
<1>8. Kept(sorted, HideDialogs(waiting, {"winner"}))
  <2>1. Kept(waiting, HideDialogs(waiting, {"winner"}))
    <3>1. waiting \in FitTab
      BY <1>7 DEF Kept
    <3> QED
      BY <3>1, DialogsKept
  <2> QED
    BY <1>7, <2>1, KeptTwice
<1>9. Kept(sorted, ShowScreen(calm, "loading"))
  <2>1. Kept(sorted, passed)
    BY <1>3, <1>4, PassedKept DEF Kept
  <2> HIDE DEF passed
  <2>2. Kept(passed, calm)
    BY <2>1, DialogsKept DEF Kept
  <2> HIDE DEF calm
  <2>3. Kept(calm, ShowScreen(calm, "loading"))
    BY <2>2, ScreenKept DEF Kept, Screens
  <2> QED
    BY <2>1, <2>2, <2>3, KeptTwice
<1>10. Kept(sorted, ShowFor(t, s))
  BY <1>5, <1>7, <1>8, <1>9
<1> QED
  BY <1>1, <1>2, <1>3, <1>10 DEF Kept

LEMMA ShowForSound ==
  ASSUME NEW t, Sound(t), NEW s \in Snap
  PROVE  Sound(ShowFor(t, s))
BY ShowForFits, IdleFits DEF Sound, HasTimer, AwaitingAck, Settled

LEMMA SoundKeeps ==
  ASSUME NEW t, Sound(t)
  PROVE  /\ \A b \in BOOLEAN : Sound(Passed(t, b))
         /\ \A d \in {"winner", "pause"} : Sound(ShowDialog(t, d))
         /\ \A ds \in SUBSET {"winner", "pause"} : Sound(HideDialogs(t, ds))
<1>1. t \in FitTab
  BY DEF Sound
<1>2. ASSUME NEW b \in BOOLEAN PROVE Sound(Passed(t, b))
  BY <1>1, PassedKept, KeptSound
<1>3. ASSUME NEW d \in {"winner", "pause"} PROVE Sound(ShowDialog(t, d))
  <2>1. Kept(t, ShowDialog(t, d))
    BY <1>1, DialogsKept
  <2> QED
    BY <2>1, KeptSound
<1>4. ASSUME NEW ds \in SUBSET {"winner", "pause"} PROVE Sound(HideDialogs(t, ds))
  <2>1. Kept(t, HideDialogs(t, ds))
    BY <1>1, DialogsKept
  <2> QED
    BY <2>1, KeptSound
<1> QED
  BY <1>2, <1>3, <1>4

\* A reveal with no timer left ends.
LEMMA CompleteSound ==
  ASSUME NEW t \in FitTab, t.timers = {}, t.phase.kind = "revealing"
  PROVE  Sound(Complete(t))
<1> DEFINE over == Dispatch(t, [t |-> "REVEAL_DONE"])
           button == IF over.button = "none" THEN over.button ELSE "on"
           done == [over EXCEPT !.button = button]
           p == t.phase
<1>1. /\ over \in FitTab /\ over.timers = {} /\ over.button \in {"none", "on", "off"}
      /\ over.phase.kind \in {"idle", "celebrating"}
  BY TabHas, DispatchFits, RevealLeads
<1> HIDE DEF over
<1>2. button \in {"none", "on", "off"}
  BY <1>1
<1>3. Complete(t) = IF p.result # Nothing
                    THEN Passed(ShowDialog(done, "winner"), p.stashed # Nothing \/ Pending(t))
                    ELSE IF p.stashed # Nothing
                    THEN Passed(ShowFor(HideDialogs(done, {"winner"}), p.stashed), t.skipped)
                    ELSE HideDialogs(done, {"winner"})
  BY DEF Complete, over
<1> HIDE DEF button
<1>4. done \in FitTab /\ done.timers = {} /\ done.phase = over.phase
  BY <1>1, <1>2 DEF FitTab
<1> HIDE DEF done
<1>5. Sound(done)
  BY <1>1, <1>4 DEF Sound, HasTimer, AwaitingAck, Settled
<1>6. CASE p.result # Nothing
  <2> DEFINE b == p.stashed # Nothing \/ Pending(t)
             shown == ShowDialog(done, "winner")
  <2>1. b \in BOOLEAN
    BY DEF Pending
  <2>2. Sound(shown) /\ Complete(t) = Passed(shown, b)
    BY <1>3, <1>5, <1>6, SoundKeeps
  <2> HIDE DEF b, shown
  <2> QED
    BY <2>1, <2>2, SoundKeeps
<1>7. CASE p.result = Nothing
  <2> DEFINE calm == HideDialogs(done, {"winner"})
  <2>1. Sound(calm)
    BY <1>5, SoundKeeps
  <2>2. Complete(t) = IF p.stashed # Nothing THEN Passed(ShowFor(calm, p.stashed), t.skipped)
                      ELSE calm
    BY <1>3, <1>7
  <2> HIDE DEF calm
  <2>3. CASE p.stashed # Nothing
    <3>1. p.stashed \in Snap /\ t.skipped \in BOOLEAN
      BY <2>3, TabHas DEF FitTab
    <3>2. Sound(ShowFor(calm, p.stashed))
      BY <2>1, <3>1, ShowForSound
    <3> QED
      BY <2>2, <2>3, <3>1, <3>2, SoundKeeps
  <2> QED
    BY <2>1, <2>2, <2>3
<1> QED
  BY <1>6, <1>7


LEMMA RevealingSound ==
  ASSUME NEW t \in FitTab, t.phase.kind = "revealing",
         t.timers \in {{"pump"}, {"reveal"}, {"pop"}}
  PROVE  Sound(t)
BY DEF Sound, HasTimer, AwaitingAck, Settled

\* The reveal begins: it is carried on by the timer that settles the dice, or is over.
LEMMA RunRevealSound ==
  ASSUME NEW t \in FitTab, t.phase.kind = "revealing"
  PROVE  Sound(RunReveal(t))
<1> DEFINE s == t.phase.snap
           key == MyDiceKey(s)
           passed == Passed(t, Pending(t))
           held == [passed EXCEPT !.cur = s, !.key = key, !.timers = {}]
           cut == held.cut \/ t.locked # t.phase.before
           tumbling == [held EXCEPT !.timers = {"reveal"}, !.tumbling = TRUE, !.cut = cut]
           none == t.loose = 0 \/ s.round # t.round
<1>1. s \in Snap
  BY TabHas
<1>2. key \in Nat \X Nat
  BY <1>1, SnapIs
<1>3. passed \in FitTab /\ passed.phase = t.phase
  <2>1. Pending(t) \in BOOLEAN
    BY DEF Pending
  <2> QED
    BY <2>1, PassedKept DEF Kept
<1>4. RunReveal(t) = IF none THEN Complete(RenderMyArea(held, s)) ELSE tumbling
  BY DEF RunReveal
<1>5. cut \in BOOLEAN
  OBVIOUS
<1> HIDE DEF s, key, passed, none, cut
<1>6. held \in FitTab /\ held.phase = t.phase /\ held.timers = {}
  BY <1>1, <1>2, <1>3 DEF FitTab
<1> HIDE DEF held
<1>7. Sound(Complete(RenderMyArea(held, s)))
  <2> DEFINE drawn == RenderMyArea(held, s)
  <2>1. drawn \in FitTab /\ drawn.phase = t.phase /\ drawn.timers = {}
    BY <1>1, <1>6, AreaKept DEF Kept
  <2> HIDE DEF drawn
  <2>2. Sound(Complete(drawn))
    BY <2>1, CompleteSound
  <2> QED
    BY <2>2 DEF drawn
<1>8. Sound(tumbling)
  <2>1. tumbling \in FitTab /\ tumbling.phase = held.phase /\ tumbling.timers = {"reveal"}
    BY <1>5, <1>6 DEF FitTab
  <2> HIDE DEF tumbling
  <2> QED
    BY <1>6, <2>1, RevealingSound
<1> HIDE DEF tumbling
<1> QED
  BY <1>4, <1>7, <1>8

LEMMA RevealTimerSound ==
  ASSUME NEW t \in FitTab, t.phase.kind = "revealing"
  PROVE  Sound(RevealTimer(t))
<1> DEFINE s == t.phase.snap
           cut == t.cut \/ ~t.tumbling
           faces == IF t.tumbling THEN MyDiceKey(s) ELSE t.faces
           shown == [t EXCEPT !.timers = {}, !.cut = cut, !.faces = faces]
           rest == [shown EXCEPT !.tumbling = FALSE]
           popping == [shown EXCEPT !.timers = {"pop"}]
<1>1. s \in Snap
  BY TabHas
<1>2. faces \in Nat \X Nat /\ cut \in BOOLEAN
  BY <1>1, SnapIs DEF FitTab
<1>3. RevealTimer(t) \in {popping, Complete(rest)}
  BY DEF RevealTimer
<1> HIDE DEF s, faces, cut
<1>4. shown \in FitTab /\ shown.phase = t.phase /\ shown.timers = {}
  BY <1>2 DEF FitTab
<1> HIDE DEF shown
<1>5. rest \in FitTab /\ rest.phase = shown.phase /\ rest.timers = shown.timers
  BY <1>4 DEF FitTab
<1> HIDE DEF rest
<1>6. Sound(Complete(rest))
  BY <1>4, <1>5, CompleteSound
<1>7. popping \in FitTab /\ popping.phase = shown.phase /\ popping.timers = {"pop"}
  BY <1>4 DEF FitTab
<1> HIDE DEF popping
<1>8. Sound(popping)
  BY <1>4, <1>7, RevealingSound
<1> QED
  BY <1>3, <1>6, <1>8

LEMMA PopTimerSound ==
  ASSUME NEW t \in FitTab, t.phase.kind = "revealing"
  PROVE  Sound(PopTimer(t))
<1> DEFINE s == t.phase.snap
           popped == [t EXCEPT !.timers = {}]
           locked == s.hits
           cut == popped.cut \/ ~t.tumbling
           loose == IF t.tumbling THEN Dice - s.hits ELSE popped.loose
           moved == [popped EXCEPT !.locked = locked, !.tumbling = FALSE, !.cut = cut,
                                   !.loose = loose]
<1>1. s \in Snap
  BY TabHas
<1>2. popped \in FitTab /\ popped.phase = t.phase /\ popped.timers = {}
  BY DEF FitTab
<1>3. PopTimer(t) \in {Complete(popped), Complete(moved)}
  BY DEF PopTimer
<1> HIDE DEF popped
<1>4. locked \in Nat /\ loose \in Nat /\ cut \in BOOLEAN
  BY <1>1, <1>2, SnapIs DEF FitTab
<1> HIDE DEF s, locked, loose, cut
<1>5. moved \in FitTab /\ moved.phase = popped.phase /\ moved.timers = popped.timers
  BY <1>2, <1>4 DEF FitTab
<1> HIDE DEF moved
<1>6. Sound(Complete(popped)) /\ Sound(Complete(moved))
  BY <1>2, <1>5, CompleteSound
<1> QED
  BY <1>3, <1>6

\* The shake is over, or the wait for the server.
LEMMA PumpSound ==
  ASSUME NEW t, Sound(t), "pump" \in t.timers
  PROVE  Sound(Pump(t))
<1> DEFINE timers == t.timers \ {"pump"}
           fired == [t EXCEPT !.timers = timers]
           shaken == Dispatch(fired, [t |-> "SHAKE_DONE"])
<1>1. t \in FitTab /\ t.phase \in FitPhase /\ t.phase.kind \in Kinds
  BY TabHas DEF Sound
<1>2. t.phase.kind \in {"shaking", "awaitingServer", "settling", "revealing"}
      /\ t.timers = {"pump"}
  BY <1>1 DEF Sound, HasTimer, AwaitingAck, Settled, Kinds
<1>3. timers = {}
  BY <1>2
<1> HIDE DEF timers
<1>4. fired \in FitTab /\ fired.phase = t.phase /\ fired.timers = {}
  BY <1>1, <1>3 DEF FitTab
<1>5. CASE t.phase.kind = "shaking"
  <2> DEFINE over == Dispatch(t, [t |-> "SHAKE_DONE"])
             waiting == [over EXCEPT !.timers = {"pump"}]
  <2>1. over \in FitTab /\ over.phase.kind = "awaitingServer"
    BY <1>1, <1>5, DispatchFits, TimeLeads
  <2>2. Pump(t) = waiting
    BY <1>5 DEF Pump
  <2> HIDE DEF over
  <2>3. waiting \in FitTab /\ waiting.phase = over.phase /\ waiting.timers = {"pump"}
    BY <2>1 DEF FitTab
  <2> HIDE DEF waiting
  <2> QED
    BY <2>1, <2>2, <2>3 DEF Sound, HasTimer, AwaitingAck, Settled
<1>6. CASE t.phase.kind = "settling"
  <2>1. Pump(t) = RunReveal(shaken)
    BY <1>6 DEF Pump, timers
  <2> HIDE DEF fired
  <2>2. shaken \in FitTab /\ shaken.phase.kind = "revealing"
    BY <1>1, <1>4, <1>6, DispatchFits, TimeLeads
  <2> HIDE DEF shaken
  <2> QED
    BY <2>1, <2>2, RunRevealSound
<1>7. CASE t.phase.kind = "awaitingServer"
  <2> DEFINE given == Dispatch(fired, [t |-> "GIVE_UP"])
             button == IF given.button = "none" THEN given.button ELSE "on"
             on == [given EXCEPT !.button = button]
  <2>1. Pump(t) = Unstick(given)
    BY <1>7 DEF Pump, timers
  <2> HIDE DEF fired
  <2>2. given \in FitTab /\ given.phase = Idle /\ given.timers = {}
    BY <1>1, <1>4, <1>7, DispatchFits, TimeLeads, IdleFits
  <2> HIDE DEF given
  <2>3. Unstick(given) = IF given.cur = Nothing THEN on ELSE Repaint(on)
    BY DEF Unstick
  <2>4. button \in {"none", "on", "off"}
    BY <2>2, TabHas
  <2> HIDE DEF button
  <2>5. on \in FitTab /\ on.phase = Idle /\ on.timers = {} /\ on.cur = given.cur
    BY <2>2, <2>4 DEF FitTab
  <2> HIDE DEF on
  <2>6. Sound(on)
    BY <2>5, IdleFits DEF Sound, HasTimer, AwaitingAck, Settled
  <2>7. given.cur # Nothing => Kept(on, Repaint(on))
    BY <2>2, <2>5, TabHas, RepaintKept
  <2> QED
    BY <2>1, <2>3, <2>6, <2>7, KeptSound
<1>8. CASE t.phase.kind = "revealing"
  <2>1. Pump(t) = RunReveal(fired)
    BY <1>8 DEF Pump, timers
  <2> HIDE DEF fired
  <2> QED
    BY <1>4, <1>8, <2>1, RunRevealSound
<1> QED
  BY <1>2, <1>5, <1>6, <1>7, <1>8

LEMMA RollSound ==
  ASSUME NEW t, Sound(t), CanRoll(t)
  PROVE  Sound(Roll(t))
<1> DEFINE n == t.cur.hits
           sent == Dispatch(t, [t |-> "ROLL_SENT", before |-> n])
           u == [sent EXCEPT !.button = "off", !.timers = {"pump"}]
<1>1. t \in FitTab /\ t.phase \in FitPhase /\ t.phase.kind = "idle" /\ t.cur \in Snap
  BY TabHas DEF Sound, CanRoll
<1>2. n \in Nat
  BY <1>1, SnapIs
<1>3. Roll(t) = u
  BY DEF Roll
<1> HIDE DEF n
<1>4. sent \in FitTab /\ sent.phase.kind = "shaking"
  BY <1>1, <1>2, SentLeads, DispatchFits
<1> HIDE DEF sent
<1>5. u \in FitTab /\ u.phase = sent.phase /\ u.timers = {"pump"}
  BY <1>4 DEF FitTab
<1> HIDE DEF u
<1> QED
  BY <1>3, <1>4, <1>5 DEF Sound, HasTimer, AwaitingAck, Settled

\* The frame of a roll under way goes to its reveal.
LEMMA FrameSound ==
  ASSUME NEW t, Sound(t), AwaitingAck(t.phase), NEW s \in Snap, NEW result \in Result \cup {Nothing}
  PROVE  Sound(Dispatch(t, [t |-> "SERVER_ROLL", snap |-> s, result |-> result]))
<1> DEFINE ev == [t |-> "SERVER_ROLL", snap |-> s, result |-> result]
           u == Dispatch(t, ev)
<1>1. t \in FitTab /\ t.phase \in FitPhase /\ t.timers = {"pump"}
  BY TabHas DEF Sound, HasTimer
<1>2. Transition(t.phase, ev) \in FitPhase
      /\ Transition(t.phase, ev).kind \in {"settling", "revealing"}
  BY <1>1, FrameLeads DEF AwaitingAck
<1> HIDE DEF ev
<1>3. u \in FitTab /\ u.phase.kind \in {"settling", "revealing"} /\ u.timers = {"pump"}
  BY <1>1, <1>2, DispatchFits
<1> HIDE DEF u
<1>4. Sound(u)
  BY <1>3 DEF Sound, HasTimer, AwaitingAck, Settled
<1> QED
  BY <1>4 DEF u, ev

LEMMA HandleStateSound ==
  ASSUME NEW t, Sound(t), NEW s \in Snap
  PROVE  Sound(HandleState(t, s))
<1>1. t \in FitTab
  BY DEF Sound
<1> DEFINE frame == Dispatch(t, [t |-> "SERVER_ROLL", snap |-> s, result |-> Nothing])
           stashed == Dispatch(t, [t |-> "BROADCAST", snap |-> s])
           passed == Passed(t, Pending(t))
           echoed == [passed EXCEPT !.cur = s]
<1>2. \/ HandleState(t, s) = ShowFor(ResetRollState(t), s)
      \/ AwaitsRollFrame(t.phase) /\ HandleState(t, s) = frame
      \/ HoldsRollFrame(t.phase) /\ HandleState(t, s) = stashed
      \/ HandleState(t, s) = echoed
      \/ HandleState(t, s) = ShowFor(t, s)
  BY DEF HandleState
<1>3. Sound(ShowFor(ResetRollState(t), s)) /\ Sound(ShowFor(t, s))
  BY <1>1, ResetSound, ShowForSound
<1>4. AwaitsRollFrame(t.phase) => Sound(frame)
  BY FrameSound DEF AwaitsRollFrame, AwaitingAck
<1>5. ASSUME HoldsRollFrame(t.phase) PROVE Sound(stashed)
  <2>1. t.timers = {"pump"}
    BY <1>5 DEF Sound, HasTimer, AwaitingAck, HoldsRollFrame
  <2>2. stashed \in FitTab /\ stashed.phase.kind = "settling" /\ stashed.timers = {"pump"}
    BY <1>1, <1>5, <2>1, TabHas, BroadcastLeads, DispatchFits
  <2> HIDE DEF stashed
  <2> QED
    BY <2>2 DEF Sound, HasTimer, AwaitingAck, Settled
<1>6. Sound(echoed)
  <2>1. Pending(t) \in BOOLEAN
    BY DEF Pending
  <2>2. Sound(passed)
    BY <2>1, SoundKeeps
  <2> HIDE DEF passed
  <2>3. Kept(passed, echoed)
    BY <2>2, SnapIs, KnownKept DEF Sound
  <2> HIDE DEF echoed
  <2> QED
    BY <2>2, <2>3, KeptSound
<1> HIDE DEF frame, stashed, echoed
<1> QED
  BY <1>2, <1>3, <1>4, <1>5, <1>6

LEMMA HandleRoundWonSound ==
  ASSUME NEW t, Sound(t), NEW s \in Snap, NEW mine \in BOOLEAN
  PROVE  Sound(HandleRoundWon(t, s, mine))
<1> DEFINE result == [round |-> s.round, mine |-> mine]
           key == MyDiceKey(s)
           won == Dispatch(t, [t |-> "SHOW_RESULT", result |-> result])
           shown == [won EXCEPT !.timers = {}, !.cur = s, !.key = key]
           passed == Passed(shown, Pending(t))
           turned == ShowScreen(passed, "game")
           drawn == RenderMyArea(turned, s)
           frame == Dispatch(t, [t |-> "SERVER_ROLL", snap |-> s, result |-> result])
<1>1. t \in FitTab /\ result \in Result /\ key \in Nat \X Nat
  BY SnapIs DEF Sound, Result
<1>2. \/ AwaitingAck(t.phase) /\ HandleRoundWon(t, s, mine) = frame
      \/ HandleRoundWon(t, s, mine) = ShowDialog(drawn, "winner")
  BY DEF HandleRoundWon
<1> HIDE DEF result, key
<1>3. AwaitingAck(t.phase) => Sound(frame)
  BY <1>1, FrameSound
<1>4. won \in FitTab /\ won.phase.kind = "celebrating"
  BY <1>1, ResultLeads, CelebratingFits, DispatchFits
<1> HIDE DEF won
<1>5. shown \in FitTab /\ shown.phase = won.phase /\ shown.timers = {}
  BY <1>1, <1>4 DEF FitTab
<1> HIDE DEF shown
<1>6. Sound(shown) /\ Pending(t) \in BOOLEAN
  BY <1>4, <1>5 DEF Sound, HasTimer, AwaitingAck, Settled, Pending
<1>7. Sound(passed)
  BY <1>6, SoundKeeps
<1> HIDE DEF passed
<1>8. Sound(turned)
  <2>1. "game" \in Screens /\ passed \in FitTab
    BY <1>7 DEF Screens, Sound
  <2> QED
    BY <1>7, <2>1, ScreenKept, KeptSound
<1> HIDE DEF turned
<1>9. Sound(drawn)
  <2>1. turned \in FitTab
    BY <1>8 DEF Sound
  <2> QED
    BY <1>8, <2>1, AreaKept, KeptSound
<1> HIDE DEF drawn, frame
<1>10. Sound(ShowDialog(drawn, "winner"))
  BY <1>9, SoundKeeps
<1> QED
  BY <1>2, <1>3, <1>10

LEMMA HandleGameEndedSound ==
  ASSUME NEW t, Sound(t)
  PROVE  Sound(HandleGameEnded(t))
<1> DEFINE reset == ResetRollState(t)
           delays == reset.delays \cup {"showGameDetail"}
           u == [reset EXCEPT !.session = FALSE, !.cur = Nothing, !.delays = delays]
<1>1. HandleGameEnded(t) = u
  BY DEF HandleGameEnded
<1>2. Sound(reset)
  BY ResetSound DEF Sound
<1> HIDE DEF reset
<1>3. delays \in SUBSET {"hidePaused", "showGameDetail"}
  BY <1>2 DEF Sound, FitTab
<1> HIDE DEF delays
<1>4. Kept(reset, u)
  BY <1>2, <1>3 DEF Sound, Kept, FitTab
<1> HIDE DEF u
<1> QED
  BY <1>1, <1>2, <1>4, KeptSound

LEMMA HandleErrorSound ==
  ASSUME NEW t, Sound(t)
  PROVE  Sound(HandleError(t))
<1> DEFINE passed == Passed(t, HoldsFrame(t))
           reset == ResetRollState(passed)
<1>1. t \in FitTab /\ HoldsFrame(t) \in BOOLEAN
  BY DEF Sound, HoldsFrame
<1>2. HandleError(t) = IF t.cur = Nothing THEN t ELSE Repaint(reset)
  BY DEF HandleError
<1>3. passed \in FitTab /\ passed.cur = t.cur
  BY <1>1, PassedKept DEF Kept
<1> HIDE DEF passed
<1>4. Sound(reset) /\ reset.cur = t.cur
  BY <1>3, ResetSound
<1> HIDE DEF reset
<1>5. ASSUME t.cur # Nothing PROVE Sound(Repaint(reset))
  <2>1. reset.cur \in Snap /\ reset \in FitTab
    BY <1>1, <1>4, <1>5, TabHas DEF Sound
  <2> QED
    BY <1>4, <2>1, RepaintKept, KeptSound
<1> QED
  BY <1>2, <1>5

LEMMA ScreensSound ==
  ASSUME NEW t, Sound(t)
  PROVE  /\ Sound(Forget(t)) /\ Sound(ShowLoading(t))
         /\ \A id \in Screens : Sound(Commit(t, id))
         /\ \A a \in FitSoon : Sound(LeaveLoading(t, a))
         /\ \A a \in FitSoon : a.do # "commit" => Sound(Later(t, a))
<1>1. t \in FitTab
  BY DEF Sound
<1>2. ASSUME NEW u, Sound(u), NEW a \in FitSoon PROVE Sound(LeaveLoading(u, a))
  <2>1. Kept(u, LeaveLoading(u, a))
    BY <1>2, LaterKept DEF LeaveLoading, Sound
  <2> QED
    BY <1>2, <2>1, KeptSound
<1>3. Sound(Forget(t))
  <2> DEFINE gone == [t EXCEPT !.session = FALSE, !.cur = Nothing]
             action == [do |-> "landing", snap |-> Nothing, flag |-> TRUE]
  <2>1. Forget(t) = LeaveLoading(gone, action)
    BY DEF Forget
  <2>2. Kept(t, gone)
    BY <1>1 DEF Kept, FitTab
  <2>3. action \in FitSoon
    BY DEF FitSoon, Soon
  <2> HIDE DEF gone, action
  <2>4. Sound(gone)
    BY <2>2, KeptSound
  <2> QED
    BY <1>2, <2>1, <2>3, <2>4
<1>4. Sound(ShowLoading(t))
  BY <1>1, ScreenKept, KeptSound DEF ShowLoading, Screens
<1>5. ASSUME NEW id \in Screens PROVE Sound(Commit(t, id))
  <2>1. Kept(t, Commit(t, id))
    BY <1>1 DEF Commit, Kept, FitTab
  <2> QED
    BY <2>1, KeptSound
<1>6. ASSUME NEW a \in FitSoon, a.do # "commit" PROVE Sound(Later(t, a))
  BY <1>1, <1>6, LaterDone, KeptSound
<1> QED
  BY <1>2, <1>3, <1>4, <1>5, <1>6

\* Any timer that fires finds the roll it was set for.
LEMMA TimersSound ==
  ASSUME NEW t, Sound(t)
  PROVE  /\ "pump" \in t.timers => Sound(Pump(t))
         /\ "reveal" \in t.timers => Sound(RevealTimer(t))
         /\ "pop" \in t.timers => Sound(PopTimer(t))
<1>1. t \in FitTab /\ t.phase.kind \in Kinds
  BY TabHas DEF Sound
<1>2. "reveal" \in t.timers \/ "pop" \in t.timers => t.phase.kind = "revealing"
  BY <1>1 DEF Sound, HasTimer, AwaitingAck, Settled, Kinds
<1> QED
  BY <1>1, <1>2, PumpSound, RevealTimerSound, PopTimerSound

-----------------------------------------------------------------------------
(* The page and the game.                                                  *)

GameFits == game \in Game

Spent == [turns : 0..MaxTurns, events : 0..MaxEvents, lost : 0..MaxLost]

SpentFits == spent \in Spent

PageInv ==
  /\ Sound(tab) /\ GameFits /\ up \in Seq(Messages) /\ net \in {"open", "lost", "closed"}
  /\ last \in Snap /\ SpentFits

LEMMA BoundsFit ==
  MaxRounds \in Nat /\ MaxTurns \in Nat /\ MaxEvents \in Nat /\ MaxLost \in Nat
BY RollBounds

LEMMA SpendFits ==
  ASSUME SpentFits, Turn \/ Event \/ Spend("lost", MaxLost) \/ UNCHANGED spent
  PROVE  SpentFits'
<1>1. ASSUME Turn PROVE SpentFits'
  BY <1>1, BoundsFit DEF Turn, Spend, SpentFits, Spent
<1>2. ASSUME Event PROVE SpentFits'
  BY <1>2, BoundsFit DEF Event, Spend, SpentFits, Spent
<1>3. ASSUME Spend("lost", MaxLost) PROVE SpentFits'
  BY <1>3, BoundsFit DEF Spend, SpentFits, Spent
<1> QED
  BY <1>1, <1>2, <1>3 DEF SpentFits

LEMMA DeliverSound ==
  ASSUME Sound(tab), last \in Snap, NEW s \in Snap, NEW handled, Sound(handled),
         Deliver(s, handled)
  PROVE  Sound(tab') /\ last' \in Snap
BY DEF Deliver

LEMMA SendSound ==
  ASSUME Sound(tab), last \in Snap, SpentFits, NEW s \in Snap, NEW handled, Sound(handled),
         Send(s, handled)
  PROVE  Sound(tab') /\ last' \in Snap /\ SpentFits'
<1>1. Sound(Passed(tab, TRUE))
  BY SoundKeeps
<1>2. CASE Deliver(s, handled) /\ UNCHANGED spent
  BY <1>2, DeliverSound, SpendFits
<1>3. CASE Spend("lost", MaxLost) /\ tab' = Passed(tab, TRUE) /\ UNCHANGED last
  BY <1>1, <1>3, SpendFits
<1> QED
  BY <1>2, <1>3 DEF Send

LEMMA LobbyFits == Lobby \in Snap /\ Deleted \in Game
<1>1. Lobby \in Snap
  BY DiceAssumption DEF Lobby, Snap
<1> QED
  BY <1>1 DEF Deleted, Game, Over

LEMMA CloseSound ==
  ASSUME Sound(tab), last \in Snap, net \in {"open", "lost", "closed"}, NEW handled,
         Sound(handled), Close(handled)
  PROVE  Sound(tab') /\ last' \in Snap /\ net' \in {"open", "lost", "closed"}
<1>1. CASE net = "open"
  BY <1>1, LobbyFits, DeliverSound DEF Close
<1>2. CASE net # "open"
  BY <1>2 DEF Close
<1> QED
  BY <1>1, <1>2

LEMMA ReceiveFits ==
  ASSUME up \in Seq(Messages), NEW m, Receive(m)
  PROVE  up' \in Seq(Messages)
BY DEF Receive

LEMMA GameHas ==
  ASSUME GameFits
  PROVE  /\ game.snap \in Snap /\ game.over \in Over /\ game.waiting \in BOOLEAN
         /\ game.on \in BOOLEAN
         /\ game.snap.round \in Nat /\ game.snap.rolls \in Nat /\ game.snap.hits \in 0..Dice
BY DEF GameFits, Game, Snap

\* What the server does to the snapshot of a game.
LEMMA SnapFits ==
  ASSUME NEW s \in Snap
  PROVE  /\ \A b \in BOOLEAN : /\ [s EXCEPT !.started = b] \in Snap
                               /\ [s EXCEPT !.paused = b] \in Snap
                               /\ [s EXCEPT !.down = b] \in Snap
         /\ \A n \in Nat : [s EXCEPT !.round = n, !.rolls = 0, !.hits = 0] \in Snap
         /\ \A n \in Nat, hits \in 0..Dice : [s EXCEPT !.rolls = n, !.hits = hits] \in Snap
<1>1. 0 \in 0..Dice /\ 0 \in Nat
  BY DiceAssumption
<1>2. ASSUME NEW b \in BOOLEAN
      PROVE  /\ [s EXCEPT !.started = b] \in Snap /\ [s EXCEPT !.paused = b] \in Snap
             /\ [s EXCEPT !.down = b] \in Snap
  BY DEF Snap
<1>3. ASSUME NEW n \in Nat, NEW hits \in 0..Dice
      PROVE  [s EXCEPT !.rolls = n, !.hits = hits] \in Snap
  BY DEF Snap
<1>4. ASSUME NEW n \in Nat PROVE [s EXCEPT !.round = n, !.rolls = 0, !.hits = 0] \in Snap
  BY <1>1 DEF Snap
<1> QED
  BY <1>2, <1>3, <1>4

LEMMA GameBecomes ==
  ASSUME GameFits
  PROVE  /\ \A s \in Snap : /\ [game EXCEPT !.snap = s] \in Game
                            /\ [game EXCEPT !.snap = s].snap = s
         /\ \A over \in Over : [game EXCEPT !.over = over] \in Game
         /\ \A b \in BOOLEAN : [game EXCEPT !.waiting = b] \in Game
         /\ \A s \in Snap, over \in Over : [game EXCEPT !.snap = s, !.over = over] \in Game
         /\ \A s \in Snap, over \in Over, b \in BOOLEAN :
              /\ [game EXCEPT !.over = over, !.waiting = b, !.snap = s] \in Game
              /\ [game EXCEPT !.over = over, !.waiting = b, !.snap = s].snap = s
BY DEF GameFits, Game

LEMMA NextRoundFits ==
  ASSUME GameFits
  PROVE  NextRound \in Game /\ NextRound.snap \in Snap
<1> DEFINE s == [game.snap EXCEPT !.round = game.snap.round + 1, !.rolls = 0, !.hits = 0]
           over == "no"
<1>1. s \in Snap
  <2>1. game.snap.round + 1 \in Nat /\ 0 \in 0..Dice
    BY GameHas, DiceAssumption
  <2> QED
    BY <2>1, GameHas, SnapFits
<1>2. NextRound = [game EXCEPT !.over = "no", !.waiting = FALSE, !.snap = s]
  BY DEF NextRound, GameFits, Game
<1>3. "no" \in Over
  BY DEF Over
<1> HIDE DEF s
<1> QED
  BY <1>1, <1>2, <1>3, GameBecomes

-----------------------------------------------------------------------------
(* Every step.                                                             *)

LEMMA HandledSound ==
  ASSUME Sound(tab), NEW s \in Snap, NEW mine \in BOOLEAN
  PROVE  /\ Sound(HandleState(tab, s)) /\ Sound(HandleRoundWon(tab, s, mine))
         /\ Sound(HandleError(tab)) /\ Sound(HandleGameEnded(tab)) /\ Sound(Forget(tab))
         /\ Sound(ShowLoading(tab)) /\ Sound(HandleState(ResetRollState(tab), s))
<1>1. Sound(ResetRollState(tab))
  BY ResetSound DEF Sound
<1>2. Sound(HandleState(tab, s)) /\ Sound(HandleState(ResetRollState(tab), s))
  BY <1>1, HandleStateSound
<1>3. Sound(HandleRoundWon(tab, s, mine))
  BY HandleRoundWonSound
<1>4. Sound(HandleError(tab)) /\ Sound(HandleGameEnded(tab))
  BY HandleErrorSound, HandleGameEndedSound
<1>5. Sound(Forget(tab)) /\ Sound(ShowLoading(tab))
  BY ScreensSound
<1> QED
  BY <1>2, <1>3, <1>4, <1>5

\* The server goes on to a game whose snapshot this player is told of at once.
LEMMA ToldSound ==
  ASSUME PageInv, NEW g \in Game, NEW s \in Snap, game' = g,
         \/ Deliver(s, HandleState(tab, s)) \/ Deliver(s, HandleError(tab))
         \/ \E mine \in BOOLEAN : Deliver(s, HandleRoundWon(tab, s, mine))
         \/ UNCHANGED <<tab, last>>,
         Turn \/ Event \/ UNCHANGED spent, UNCHANGED net,
         UNCHANGED up \/ \E m \in Messages : Receive(m)
  PROVE  PageInv'
<1>1. Sound(tab') /\ last' \in Snap
  BY HandledSound, DeliverSound DEF PageInv
<1>2. SpentFits' /\ GameFits'
  BY SpendFits DEF PageInv, GameFits
<1>3. up' \in Seq(Messages)
  BY ReceiveFits DEF PageInv
<1> QED
  BY <1>1, <1>2, <1>3 DEF PageInv

LEMMA ServeRollSound == PageInv /\ ServeRoll => PageInv'
<1> SUFFICES ASSUME PageInv, ServeRoll PROVE PageInv'
  OBVIOUS
<1>0. /\ Receive("roll") /\ "roll" \in Messages /\ UNCHANGED <<net, spent>>
      /\ GameFits /\ game \in Game /\ last \in Snap /\ game.snap \in Snap
  BY GameHas DEF ServeRoll, Messages, PageInv, GameFits
<1>1. CASE UNCHANGED <<game, tab, last>>
  BY <1>0, <1>1, ToldSound
<1>2. CASE Deliver(last, HandleError(tab)) /\ UNCHANGED game
  BY <1>0, <1>2, ToldSound
<1>3. CASE \E hits \in game.snap.hits..Dice :
             LET s == [game.snap EXCEPT !.rolls = @ + 1, !.hits = hits]
             IN  IF hits = Dice /\ game.over = "no"
                 THEN /\ game' = [game EXCEPT !.snap = s, !.over = "announced"]
                      /\ Deliver(s, HandleRoundWon(tab, s, TRUE))
                 ELSE /\ game' = [game EXCEPT !.snap = s]
                      /\ Deliver(s, HandleState(tab, s))
  <2>1. PICK hits \in game.snap.hits..Dice :
             LET s == [game.snap EXCEPT !.rolls = game.snap.rolls + 1, !.hits = hits]
             IN  IF hits = Dice /\ game.over = "no"
                 THEN /\ game' = [game EXCEPT !.snap = s, !.over = "announced"]
                      /\ Deliver(s, HandleRoundWon(tab, s, TRUE))
                 ELSE /\ game' = [game EXCEPT !.snap = s]
                      /\ Deliver(s, HandleState(tab, s))
    BY <1>3
  <2> DEFINE s == [game.snap EXCEPT !.rolls = game.snap.rolls + 1, !.hits = hits]
  <2>2. \/ /\ game' = [game EXCEPT !.snap = s, !.over = "announced"]
           /\ Deliver(s, HandleRoundWon(tab, s, TRUE))
        \/ /\ game' = [game EXCEPT !.snap = s]
           /\ Deliver(s, HandleState(tab, s))
    BY <2>1
  <2>3. s \in Snap
    <3>1. hits \in 0..Dice /\ game.snap.rolls + 1 \in Nat
      BY <1>0, GameHas, DiceAssumption
    <3> QED
      BY <1>0, <3>1, SnapFits
  <2> HIDE DEF s
  <2>4. "announced" \in Over
    BY DEF Over
  <2>5. /\ [game EXCEPT !.snap = s, !.over = "announced"] \in Game
        /\ [game EXCEPT !.snap = s] \in Game
    BY <1>0, <2>3, <2>4, GameBecomes
  <2> QED
    BY <1>0, <2>2, <2>3, <2>5, ToldSound
<1> QED
  BY <1>1, <1>2, <1>3 DEF ServeRoll

LEMMA OthersSound ==
  PageInv /\ (Start \/ OthersRoll \/ OthersWin \/ OthersLeave \/ OthersReturn) => PageInv'
<1> SUFFICES ASSUME PageInv, Start \/ OthersRoll \/ OthersWin \/ OthersLeave \/ OthersReturn
             PROVE  PageInv'
  OBVIOUS
<1>0. GameFits /\ game \in Game /\ game.snap \in Snap
  BY GameHas DEF PageInv, GameFits
<1> DEFINE started == [game.snap EXCEPT !.started = TRUE]
           left == [game.snap EXCEPT !.down = TRUE]
           back == [game.snap EXCEPT !.down = FALSE]
<1>1. started \in Snap /\ left \in Snap /\ back \in Snap
  BY <1>0, SnapFits
<1>2. ASSUME NEW s \in Snap, game' = [game EXCEPT !.snap = s],
             Deliver(game'.snap, HandleState(tab, game'.snap)),
             Event \/ UNCHANGED spent, UNCHANGED <<up, net>>
      PROVE  PageInv'
  <2>1. [game EXCEPT !.snap = s] \in Game /\ game'.snap = s
    BY <1>0, <1>2, GameBecomes
  <2>2. Deliver(s, HandleState(tab, s))
    BY <1>2, <2>1
  <2> QED
    BY <1>2, <2>1, <2>2, ToldSound
<1>3. CASE Start
  <2>1. game' = [game EXCEPT !.snap = started]
    BY <1>3 DEF Start
  <2> QED
    BY <1>1, <1>2, <1>3, <2>1 DEF Start
<1>4. CASE OthersLeave
  <2>1. game' = [game EXCEPT !.snap = left]
    BY <1>4 DEF OthersLeave
  <2> QED
    BY <1>1, <1>2, <1>4, <2>1 DEF OthersLeave
<1>5. CASE OthersReturn
  <2>1. game' = [game EXCEPT !.snap = back]
    BY <1>5 DEF OthersReturn
  <2> QED
    BY <1>1, <1>2, <1>5, <2>1 DEF OthersReturn
<1>6. CASE OthersRoll
  BY <1>0, <1>6, ToldSound DEF OthersRoll
<1>7. CASE OthersWin
  <2>1. "won" \in Over
    BY DEF Over
  <2>2. game' \in Game
    BY <1>0, <1>7, <2>1, GameBecomes DEF OthersWin
  <2> QED
    BY <1>0, <1>7, <2>2, ToldSound DEF OthersWin
<1> QED
  BY <1>3, <1>4, <1>5, <1>6, <1>7

\* RemoveAt of the community modules.
LEMMA RemoveAtFits ==
  ASSUME NEW S, NEW s \in Seq(S), NEW i \in DOMAIN s
  PROVE  RemoveAt(s, i) \in Seq(S)
BY DEF RemoveAt

LEMMA WinsSound == PageInv /\ (Announce \/ Advance) => PageInv'
<1> SUFFICES ASSUME PageInv, Announce \/ Advance PROVE PageInv'
  OBVIOUS
<1>0. GameFits /\ game \in Game /\ game.snap \in Snap
  BY GameHas DEF PageInv, GameFits
<1>1. ASSUME NEW s \in Snap, NEW handled, Sound(handled), Send(s, handled), game' \in Game,
             UNCHANGED <<up, net>>
      PROVE  PageInv'
  <2>1. Sound(tab') /\ last' \in Snap /\ SpentFits'
    BY <1>1, SendSound DEF PageInv
  <2> QED
    BY <1>1, <2>1 DEF PageInv, GameFits
<1>2. CASE Announce
  <2>1. game' \in Game
    <3>1. "announced" \in Over
      BY DEF Over
    <3> QED
      BY <1>0, <1>2, <3>1, GameBecomes DEF Announce
  <2>2. Sound(HandleRoundWon(tab, game.snap, FALSE))
    BY <1>0, HandledSound DEF PageInv
  <2> QED
    BY <1>0, <1>1, <1>2, <2>1, <2>2 DEF Announce
<1>3. CASE Advance /\ game.snap.paused
  <2>1. /\ game' = [game EXCEPT !.waiting = TRUE] /\ UNCHANGED <<tab, last, spent>>
        /\ UNCHANGED <<up, net>>
    BY <1>3 DEF Advance
  <2>2. game' \in Game
    BY <1>0, <2>1, GameBecomes
  <2> QED
    BY <1>0, <2>1, <2>2, ToldSound
<1>4. CASE Advance /\ ~game.snap.paused
  <2>1. /\ game' = NextRound /\ Send(game'.snap, HandleState(tab, game'.snap))
        /\ UNCHANGED <<up, net>>
    BY <1>4 DEF Advance
  <2>2. game' \in Game /\ game'.snap \in Snap
    BY <1>0, <2>1, NextRoundFits
  <2>3. Sound(HandleState(tab, game'.snap))
    BY <2>2, HandledSound DEF PageInv
  <2> QED
    BY <1>1, <2>1, <2>2, <2>3
<1> QED
  BY <1>2, <1>3, <1>4

LEMMA PauseSound == PageInv /\ Pause => PageInv'
<1> SUFFICES ASSUME PageInv, Pause PROVE PageInv'
  OBVIOUS
<1> DEFINE flipped == IF game.snap.paused /\ game.waiting
                      THEN [NextRound EXCEPT !.snap.paused = FALSE]
                      ELSE [game EXCEPT !.snap.paused = ~@]
<1>1. /\ game' = flipped /\ Deliver(flipped.snap, HandleState(tab, flipped.snap))
      /\ UNCHANGED net /\ (Event \/ UNCHANGED spent)
      /\ UNCHANGED up \/ \E m \in Messages : Receive(m)
  BY DEF Pause, Messages
<1>2. flipped \in Game /\ flipped.snap \in Snap
  <2>1. GameFits /\ game.snap \in Snap /\ (~game.snap.paused) \in BOOLEAN
    BY GameHas DEF PageInv
  <2> DEFINE on == [NextRound.snap EXCEPT !.paused = FALSE]
             turned == [game.snap EXCEPT !.paused = ~game.snap.paused]
  <2>2. NextRound \in Game /\ NextRound.snap \in Snap
    BY <2>1, NextRoundFits
  <2>3. on \in Snap /\ turned \in Snap
    BY <2>1, <2>2, SnapFits
  <2>4. flipped = [NextRound EXCEPT !.snap = on] \/ flipped = [game EXCEPT !.snap = turned]
    OBVIOUS
  <2> HIDE DEF on, turned, flipped
  <2>5. [NextRound EXCEPT !.snap = on] \in Game /\ [NextRound EXCEPT !.snap = on].snap = on
    BY <2>2, <2>3 DEF Game
  <2> QED
    BY <2>1, <2>3, <2>4, <2>5, GameBecomes
<1> HIDE DEF flipped
<1> QED
  BY <1>1, <1>2, ToldSound

LEMMA EndsSound == PageInv /\ (EndGame \/ PauseTimeout) => PageInv'
<1> SUFFICES ASSUME PageInv, EndGame \/ PauseTimeout PROVE PageInv'
  OBVIOUS
<1>1. /\ game' = Deleted /\ UNCHANGED spent
      /\ Close(HandleGameEnded(tab)) \/ Close(Forget(tab))
      /\ UNCHANGED up \/ Receive("end_game")
  BY DEF EndGame, PauseTimeout
<1>2. Sound(HandleGameEnded(tab)) /\ Sound(Forget(tab))
  BY LobbyFits, HandledSound DEF PageInv
<1>3. Sound(tab') /\ last' \in Snap /\ net' \in {"open", "lost", "closed"}
  BY <1>1, <1>2, CloseSound DEF PageInv
<1>4. up' \in Seq(Messages)
  BY <1>1, ReceiveFits DEF PageInv
<1> QED
  BY <1>1, <1>3, <1>4, LobbyFits DEF PageInv, GameFits, SpentFits

LEMMA SocketSound == PageInv /\ (LoseSocket \/ Reconnect) => PageInv'
<1> SUFFICES ASSUME PageInv, LoseSocket \/ Reconnect PROVE PageInv'
  OBVIOUS
<1>1. CASE LoseSocket
  <2>1. Sound(tab') /\ SpentFits'
    BY <1>1, LobbyFits, HandledSound, SpendFits DEF LoseSocket, PageInv
  <2> QED
    BY <1>1, <2>1 DEF LoseSocket, PageInv, GameFits
<1>2. CASE Reconnect
  <2>1. game.snap \in Snap
    BY GameHas DEF PageInv
  <2>2. Sound(tab') /\ last' \in Snap /\ net' \in {"open", "lost", "closed"}
    BY <1>2, <2>1, LobbyFits, HandledSound DEF Reconnect, PageInv
  <2>3. up' \in Seq(Messages)
    BY <1>2 DEF Reconnect
  <2> QED
    BY <1>2, <2>2, <2>3 DEF Reconnect, PageInv, GameFits, SpentFits
<1> QED
  BY <1>1, <1>2

LEMMA TapsSound == PageInv /\ (TapRoll \/ Lever \/ Bolt) => PageInv'
<1> SUFFICES ASSUME PageInv, TapRoll \/ Lever \/ Bolt PROVE PageInv'
  OBVIOUS
<1>1. \A m \in Messages : Append(up, m) \in Seq(Messages)
  BY DEF PageInv
<1>2. CASE TapRoll
  <2>1. Sound(tab')
    BY <1>2, RollSound DEF TapRoll, PageInv
  <2>2. up' \in Seq(Messages) /\ SpentFits'
    BY <1>1, <1>2, SpendFits DEF TapRoll, Messages, PageInv
  <2> QED
    BY <1>2, <2>1, <2>2 DEF TapRoll, Page, PageInv, GameFits
<1>3. CASE Lever \/ Bolt
  <2>1. up' \in Seq(Messages) /\ SpentFits' /\ UNCHANGED tab /\ Page
    BY <1>1, <1>3, SpendFits DEF Lever, Bolt, Messages, PageInv
  <2> QED
    BY <2>1 DEF Page, PageInv, GameFits
<1> QED
  BY <1>2, <1>3

\* What the page does of itself.
LEMMA PageSound ==
  PageInv /\ (Timers \/ RunSoon \/ RevealGame \/ RunDelay) => PageInv'
<1> SUFFICES ASSUME PageInv, Timers \/ RunSoon \/ RevealGame \/ RunDelay PROVE PageInv'
  OBVIOUS
<1>0. Sound(tab) /\ tab \in FitTab
  BY DEF PageInv, Sound
<1>1. ASSUME Sound(tab'), UNCHANGED <<up, spent>>, Page PROVE PageInv'
  BY <1>1 DEF Page, PageInv, GameFits, SpentFits
<1>2. CASE Timers
  <2>1. Sound(tab')
    BY <1>0, <1>2, TimersSound DEF Timers, PumpRoll, SettleDice, LockDice, Fires
  <2> QED
    BY <1>1, <1>2, <2>1 DEF Timers, PumpRoll, SettleDice, LockDice, Fires
<1>3. CASE RunSoon
  <2>1. PICK i \in DOMAIN tab.soon :
          tab' = IF tab.soon[i].do = "commit"
                 THEN Commit([tab EXCEPT !.soon = RemoveAt(tab.soon, i)], tab.soon[i].to)
                 ELSE Later(Passed([tab EXCEPT !.soon = RemoveAt(tab.soon, i)],
                                   tab.intros # <<>>), tab.soon[i])
    BY <1>3 DEF RunSoon
  <2> DEFINE a == tab.soon[i]
             left == RemoveAt(tab.soon, i)
             rest == [tab EXCEPT !.soon = left]
             passed == Passed(rest, tab.intros # <<>>)
  <2>2. tab.soon \in Seq(FitSoon)
    BY <1>0 DEF FitTab
  <2>3. a \in FitSoon
    BY <2>2
  <2>4. left \in Seq(FitSoon)
    BY <2>1, <2>2, RemoveAtFits
  <2> HIDE DEF left
  <2>5. Kept(tab, rest)
    BY <1>0, <2>4 DEF Kept, FitTab
  <2>6. tab' = IF a.do = "commit" THEN Commit(rest, a.to) ELSE Later(passed, a)
    BY <2>1 DEF left
  <2> HIDE DEF a, rest
  <2>7. Sound(rest)
    BY <1>0, <2>5, KeptSound
  <2>8. Sound(passed)
    BY <2>7, SoundKeeps
  <2> HIDE DEF passed
  <2>9. a.do = "commit" => a.to \in Screens
    BY <2>3 DEF FitSoon, Soon
  <2>10. Sound(tab')
    BY <2>3, <2>6, <2>7, <2>8, <2>9, ScreensSound
  <2> QED
    BY <1>1, <1>3, <2>10 DEF RunSoon
<1>4. CASE RevealGame
  <2> DEFINE next == Head(tab.intros)
             after == Tail(tab.intros)
             rest == [tab EXCEPT !.intros = after]
  <2>1. tab' = ShowBoard(rest, next)
    BY <1>4 DEF RevealGame
  <2>2. next \in Snap /\ after \in Seq(Snap)
    BY <1>0, <1>4 DEF RevealGame, FitTab
  <2> HIDE DEF next, after
  <2>3. Kept(tab, rest)
    BY <1>0, <2>2 DEF Kept, FitTab
  <2> HIDE DEF rest
  <2>4. Kept(rest, ShowBoard(rest, next))
    BY <2>2, <2>3, BoardKept DEF Kept
  <2>5. Sound(tab')
    BY <1>0, <2>1, <2>3, <2>4, KeptSound
  <2> QED
    BY <1>1, <1>4, <2>5 DEF RevealGame
<1>5. CASE RunDelay
  <2> DEFINE detail == [do |-> "game-detail", snap |-> Nothing, flag |-> FALSE]
  <2>1. PICK d \in tab.delays :
          tab' = CASE d = "hidePaused" ->
                        HideDialogs([tab EXCEPT !.delays = tab.delays \ {d}], {"pause"})
                   [] d = "showGameDetail" ->
                        LeaveLoading(ShowLoading([tab EXCEPT !.delays = tab.delays \ {d}]),
                                     detail)
    BY <1>5 DEF RunDelay
  <2> DEFINE left == tab.delays \ {d}
             rest == [tab EXCEPT !.delays = left]
  <2>2. d \in {"hidePaused", "showGameDetail"}
        /\ left \in SUBSET {"hidePaused", "showGameDetail"}
    BY <1>0 DEF FitTab
  <2>3. tab' = HideDialogs(rest, {"pause"}) \/ tab' = LeaveLoading(ShowLoading(rest), detail)
    BY <2>1, <2>2
  <2> HIDE DEF left
  <2>4. Kept(tab, rest)
    BY <1>0, <2>2, LobbyFits, PendingKept
  <2> HIDE DEF rest
  <2>5. Sound(rest) /\ rest \in FitTab
    BY <1>0, <2>4, KeptSound DEF Kept
  <2>6. Sound(HideDialogs(rest, {"pause"})) /\ Sound(ShowLoading(rest))
    BY <2>5, DialogsKept, KeptSound, ScreensSound
  <2>7. detail \in FitSoon
    BY DEF FitSoon, Soon
  <2> HIDE DEF detail
  <2>8. Sound(LeaveLoading(ShowLoading(rest), detail))
    BY <2>6, <2>7, ScreensSound
  <2> QED
    BY <1>1, <1>5, <2>3, <2>6, <2>8 DEF RunDelay
<1> QED
  BY <1>2, <1>3, <1>4, <1>5

-----------------------------------------------------------------------------
(* The theorems.                                                           *)

LEMMA InitSound == Init => PageInv
<1> SUFFICES ASSUME Init PROVE PageInv
  OBVIOUS
<1>1. PICK host \in BOOLEAN : tab = InLobby(host)
  BY DEF Init
<1>2. InLobby(host) \in FitTab
  BY IdleFits, LobbyFits DEF InLobby, FitTab, Screens
<1>3. HasTimer(InLobby(host))
  BY DEF InLobby, HasTimer, Idle, AwaitingAck, Settled
<1>4. GameFits /\ last \in Snap
  BY LobbyFits DEF Init, GameFits, Game, Over
<1>5. SpentFits
  BY BoundsFit DEF Init, SpentFits, Spent
<1> QED
  BY <1>1, <1>2, <1>3, <1>4, <1>5 DEF PageInv, Sound, Init

LEMMA StepSound == PageInv /\ [Next]_vars => PageInv'
<1> SUFFICES ASSUME PageInv, [Next]_vars PROVE PageInv'
  OBVIOUS
<1>1. CASE Server
  BY <1>1, OthersSound, ServeRollSound, WinsSound, PauseSound, EndsSound DEF Server
<1>2. CASE LoseSocket \/ Reconnect
  BY <1>2, SocketSound
<1>3. CASE TapRoll \/ Lever \/ Bolt
  BY <1>3, TapsSound
<1>4. CASE Timers \/ RunSoon \/ RevealGame \/ RunDelay
  BY <1>4, PageSound
<1>5. CASE UNCHANGED vars
  BY <1>5 DEF vars, PageInv, GameFits, SpentFits
<1> QED
  BY <1>1, <1>2, <1>3, <1>4, <1>5 DEF Next

LEMMA PageAlways == Spec => []PageInv
BY InitSound, StepSound, PTL DEF Spec

\* The page never reaches a state its handlers have no case for (state.js, router.js,
\* animations.js, net.js): a reveal always has the frame it reveals, what was left for
\* later always has the snapshot it shows, whatever frames, timers and taps came in
\* which order.
THEOREM PageTyped == Spec => []TypeOK
<1>1. PageInv => TypeOK
  BY FitIsTab DEF PageInv, TypeOK, Sound, GameFits, SpentFits, Spent
<1> QED
  BY <1>1, PageAlways, PTL

\* A roll under way always has the one timer that carries it on, and nothing else has
\* any: every handler that leaves a roll cancels its timers (state.js resetRollState,
\* net.js handleRoundWon), and each that goes on with it sets the next (animations.js
\* rollDice, pumpRoll, runReveal).
THEOREM TimerKept == Spec => []RollHasTimer
<1>1. PageInv => RollHasTimer
  BY DEF PageInv, Sound, HasTimer, RollHasTimer
<1> QED
  BY <1>1, PageAlways, PTL

-----------------------------------------------------------------------------
(* What the operators of RollTab do to the state of the page.              *)

SameRoll(t, u) == u.phase = t.phase /\ u.timers = t.timers

SameQueue(t, u) == u.soon = t.soon /\ u.intros = t.intros /\ u.active = t.active

SameBoard(t, u) ==
  /\ u.key = t.key /\ u.round = t.round /\ u.faces = t.faces /\ u.locked = t.locked
  /\ u.loose = t.loose /\ u.tumbling = t.tumbling /\ u.cut = t.cut

SamePage(t, u) == u.host = t.host /\ u.delays = t.delays /\ u.session = t.session

\* What a frame leaves to be done.
Act(t, s) == CASE ~s.started -> "lobby"
               [] s.started /\ s.paused /\ ~t.host -> "wait"
               [] s.started /\ s.paused /\ t.host -> "hosting"
               [] s.started /\ ~s.paused /\ s.down -> "none"
               [] OTHER -> "board"

\* The dialogs a frame closes at once.
Closed(t, s) == CASE Act(t, s) = "none" -> {"winner", "pause"}
                  [] Act(t, s) = "wait" -> {"winner"}
                  [] OTHER -> {}

Reaction(t, s, flag) == [do |-> Act(t, s), snap |-> s, flag |-> flag]

Committing(id) == [do |-> "commit", to |-> id]

LEMMA ActIs ==
  ASSUME NEW t \in FitTab, NEW s \in Snap
  PROVE  /\ Act(t, s) \in {"lobby", "wait", "hosting", "none", "board"}
         /\ Act(t, s) = "lobby" <=> ~s.started
         /\ Act(t, s) = "wait" <=> s.started /\ s.paused /\ ~t.host
         /\ Act(t, s) = "hosting" <=> s.started /\ s.paused /\ t.host
         /\ Act(t, s) = "none" <=> s.started /\ ~s.paused /\ s.down
         /\ Act(t, s) = "board" <=> s.started /\ ~s.paused /\ ~s.down
<1>1. t.host \in BOOLEAN /\ s.paused \in BOOLEAN /\ s.started \in BOOLEAN /\ s.down \in BOOLEAN
  BY TabHas, SnapIs
<1> QED
  BY <1>1 DEF Act

\* All but the phase and the queue.
ShownFor(t, s, u) ==
  /\ u \in FitTab /\ u.timers = t.timers
  /\ u.phase = IF t.phase.kind = "celebrating" THEN Idle ELSE t.phase
  /\ SameBoard(t, u) /\ u.host = t.host /\ u.delays = t.delays /\ u.session = TRUE
  /\ u.cur = s /\ u.button = t.button /\ u.intros = t.intros /\ u.active = t.active
  /\ \/ /\ Act(t, s) # "none"
        /\ \E flag \in BOOLEAN : u.soon = Append(t.soon, Reaction(t, s, flag))
     \/ /\ Act(t, s) = "none"
        /\ u.soon = IF t.active = "loading" THEN t.soon
                    ELSE Append(t.soon, Committing("loading"))
  /\ u.dialogs = t.dialogs \ Closed(t, s)
  /\ ~u.skipped => /\ t.intros = <<>>
                   /\ t.phase.kind # "celebrating" => ~HoldsFrame(t)
                   /\ t.skipped \/ Act(t, s) = "none" => t.soon = <<>>

\* What ShowFor begins with.
Taken(t, s) ==
  LET ended == IF t.phase.kind = "celebrating" THEN Dispatch(t, [t |-> "ROUND_ADVANCE"])
               ELSE t
  IN  InOrder([ended EXCEPT !.cur = s, !.session = TRUE])

LEMMA TakenIs ==
  ASSUME NEW t \in FitTab, NEW s \in Snap
  PROVE  LET u == Taken(t, s)
         IN  /\ u \in FitTab /\ u.timers = t.timers
             /\ u.phase = IF t.phase.kind = "celebrating" THEN Idle ELSE t.phase
             /\ SameBoard(t, u) /\ SameQueue(t, u) /\ u.host = t.host /\ u.delays = t.delays
             /\ u.session = TRUE /\ u.cur = s /\ u.button = t.button /\ u.dialogs = t.dialogs
             /\ ~u.skipped => /\ t.intros = <<>>
                              /\ t.phase.kind # "celebrating" => ~HoldsFrame(t)
                              /\ t.skipped => t.soon = <<>>
<1> DEFINE ended == IF t.phase.kind = "celebrating" THEN Dispatch(t, [t |-> "ROUND_ADVANCE"])
                    ELSE t
           q == IF t.phase.kind = "celebrating" THEN Idle ELSE t.phase
           taken == [ended EXCEPT !.cur = s, !.session = TRUE]
           skipped == taken.intros # <<>> \/ HoldsFrame(taken) \/ (taken.skipped /\ Pending(taken))
           u == [taken EXCEPT !.skipped = skipped]
<1>1. q \in FitPhase
  BY TabHas, IdleFits
<1>2. ended = [t EXCEPT !.phase = q]
  BY TabHas, TimeLeads DEF Dispatch, FitTab
<1>3. Taken(t, s) = u
  BY DEF Taken, InOrder
<1> HIDE DEF q
<1>4. /\ taken = [t EXCEPT !.phase = q, !.cur = s, !.session = TRUE]
  BY <1>2 DEF FitTab
<1> HIDE DEF ended, taken
<1>5. /\ taken \in FitTab /\ SameBoard(t, taken) /\ SameQueue(t, taken) /\ taken.phase = q
      /\ taken.timers = t.timers /\ taken.host = t.host /\ taken.delays = t.delays
      /\ taken.session = TRUE /\ taken.cur = s /\ taken.button = t.button
      /\ taken.dialogs = t.dialogs /\ taken.skipped = t.skipped
  BY <1>1, <1>4 DEF FitTab, SameBoard, SameQueue
<1>6. skipped \in BOOLEAN
  OBVIOUS
<1>7. ~skipped => /\ t.intros = <<>>
                  /\ t.phase.kind # "celebrating" => ~HoldsFrame(t)
                  /\ t.skipped => t.soon = <<>>
  BY <1>5 DEF SameQueue, HoldsFrame, Pending, q
<1> HIDE DEF skipped
<1>8. /\ u \in FitTab /\ SameBoard(taken, u) /\ SameQueue(taken, u) /\ u.phase = taken.phase
      /\ u.timers = taken.timers /\ u.host = taken.host /\ u.delays = taken.delays
      /\ u.session = taken.session /\ u.cur = taken.cur /\ u.button = taken.button
      /\ u.dialogs = taken.dialogs /\ u.skipped = skipped
  BY <1>5, <1>6 DEF FitTab, SameBoard, SameQueue
<1> HIDE DEF u
<1> QED
  BY <1>3, <1>5, <1>7, <1>8 DEF SameBoard, SameQueue, q

LEMMA ShowForCases ==
  ASSUME NEW t \in FitTab, NEW s \in Snap
  PROVE  LET leave(do, flag) == LeaveLoading(Taken(t, s), [do |-> do, snap |-> s, flag |-> flag])
             calm == HideDialogs(Passed(Taken(t, s), Pending(t)), {"winner", "pause"})
         IN  /\ Act(t, s) = "lobby" => ShowFor(t, s) = leave("lobby", FALSE)
             /\ Act(t, s) = "wait" => ShowFor(t, s) = HideDialogs(leave("wait", FALSE), {"winner"})
             /\ Act(t, s) = "hosting" => ShowFor(t, s) = leave("hosting", FALSE)
             /\ Act(t, s) = "none" => ShowFor(t, s) = ShowScreen(calm, "loading")
             /\ Act(t, s) = "board" => ShowFor(t, s) = leave("board", t.active = "lobby")
<1> DEFINE leave(do, flag) == LeaveLoading(Taken(t, s), [do |-> do, snap |-> s, flag |-> flag])
           calm == HideDialogs(Passed(Taken(t, s), Pending(t)), {"winner", "pause"})
<1>1. s.started \in BOOLEAN /\ s.paused \in BOOLEAN /\ s.down \in BOOLEAN /\ t.host \in BOOLEAN
  BY SnapIs, TabHas
<1>2. ShowFor(t, s) =
        CASE ~s.started -> leave("lobby", FALSE)
          [] s.started /\ s.paused /\ ~t.host -> HideDialogs(leave("wait", FALSE), {"winner"})
          [] s.started /\ s.paused /\ t.host -> leave("hosting", FALSE)
          [] s.started /\ ~s.paused /\ s.down -> ShowScreen(calm, "loading")
          [] OTHER -> leave("board", t.active = "lobby")
  BY DEF ShowFor, ShowLoading, Taken
<1> HIDE DEF leave, calm
<1>3. /\ Act(t, s) = "lobby" => ShowFor(t, s) = leave("lobby", FALSE)
      /\ Act(t, s) = "wait" => ShowFor(t, s) = HideDialogs(leave("wait", FALSE), {"winner"})
      /\ Act(t, s) = "hosting" => ShowFor(t, s) = leave("hosting", FALSE)
      /\ Act(t, s) = "none" => ShowFor(t, s) = ShowScreen(calm, "loading")
      /\ Act(t, s) = "board" => ShowFor(t, s) = leave("board", t.active = "lobby")
  BY <1>1, <1>2, ActIs
<1> QED
  BY <1>3 DEF leave, calm

\* Something is left to be done.
LEMMA LeaveIs ==
  ASSUME NEW t \in FitTab, NEW a \in FitSoon
  PROVE  LET u == LeaveLoading(t, a)
         IN  /\ u \in FitTab /\ SameRoll(t, u) /\ SameBoard(t, u) /\ SamePage(t, u)
             /\ u.intros = t.intros /\ u.active = t.active /\ u.dialogs = t.dialogs
             /\ u.cur = t.cur /\ u.button = t.button /\ u.skipped = t.skipped
             /\ u.soon = Append(t.soon, a)
<1>1. Append(t.soon, a) \in Seq(FitSoon)
  BY DEF FitTab
<1> QED
  BY <1>1 DEF LeaveLoading, FitTab, SameRoll, SameBoard, SamePage

LEMMA ScreenIs ==
  ASSUME NEW t \in FitTab, NEW id \in Screens
  PROVE  LET u == ShowScreen(t, id)
         IN  /\ u \in FitTab /\ SameRoll(t, u) /\ SameBoard(t, u) /\ SamePage(t, u)
             /\ u.intros = t.intros /\ u.active = t.active /\ u.dialogs = t.dialogs
             /\ u.cur = t.cur /\ u.button = t.button /\ u.skipped = t.skipped
             /\ u.soon = IF t.active = id THEN t.soon ELSE Append(t.soon, Committing(id))
<1>1. Committing(id) \in FitSoon
  BY DEF Committing, FitSoon, Soon, Screens
<1>2. CASE t.active = id
  BY <1>2 DEF ShowScreen, SameRoll, SameBoard, SamePage
<1>3. CASE t.active # id
  BY <1>1, <1>3, LeaveIs DEF ShowScreen, LeaveLoading, Committing
<1> QED
  BY <1>2, <1>3

LEMMA HideIs ==
  ASSUME NEW t \in FitTab, NEW ds \in SUBSET {"winner", "pause"}
  PROVE  LET u == HideDialogs(t, ds)
         IN  /\ u \in FitTab /\ SameRoll(t, u) /\ SameBoard(t, u) /\ SamePage(t, u)
             /\ SameQueue(t, u) /\ u.dialogs = t.dialogs \ ds
             /\ u.cur = t.cur /\ u.button = t.button /\ u.skipped = t.skipped
<1>1. t.dialogs \ ds \in SUBSET {"winner", "pause"}
  BY DEF FitTab
<1> QED
  BY <1>1 DEF HideDialogs, FitTab, SameRoll, SameBoard, SamePage, SameQueue

LEMMA ShowDialogIs ==
  ASSUME NEW t \in FitTab, NEW d \in {"winner", "pause"}
  PROVE  LET u == ShowDialog(t, d)
         IN  /\ u \in FitTab /\ SameRoll(t, u) /\ SameBoard(t, u) /\ SamePage(t, u)
             /\ SameQueue(t, u) /\ u.dialogs = t.dialogs \cup {d}
             /\ u.cur = t.cur /\ u.button = t.button /\ u.skipped = t.skipped
<1>1. t.dialogs \cup {d} \in SUBSET {"winner", "pause"}
  BY DEF FitTab
<1> QED
  BY <1>1 DEF ShowDialog, FitTab, SameRoll, SameBoard, SamePage, SameQueue

LEMMA PassedIs ==
  ASSUME NEW t \in FitTab, NEW b \in BOOLEAN
  PROVE  LET u == Passed(t, b)
         IN  /\ u \in FitTab /\ SameRoll(t, u) /\ SameBoard(t, u) /\ SamePage(t, u)
             /\ SameQueue(t, u) /\ u.dialogs = t.dialogs
             /\ u.cur = t.cur /\ u.button = t.button /\ (u.skipped <=> t.skipped \/ b)
BY DEF Passed, FitTab, SameRoll, SameBoard, SamePage, SameQueue

LEMMA ShowForIs ==
  ASSUME NEW t \in FitTab, NEW s \in Snap
  PROVE  ShownFor(t, s, ShowFor(t, s))
<1> DEFINE v == Taken(t, s)
           u == ShowFor(t, s)
           left(do, flag) == LeaveLoading(v, [do |-> do, snap |-> s, flag |-> flag])
           ds == Closed(t, s)
<1>1. /\ v \in FitTab /\ v.timers = t.timers
      /\ v.phase = IF t.phase.kind = "celebrating" THEN Idle ELSE t.phase
      /\ SameBoard(t, v) /\ SameQueue(t, v) /\ v.host = t.host /\ v.delays = t.delays
      /\ v.session = TRUE /\ v.cur = s /\ v.button = t.button /\ v.dialogs = t.dialogs
      /\ ~v.skipped => /\ t.intros = <<>>
                       /\ t.phase.kind # "celebrating" => ~HoldsFrame(t)
                       /\ t.skipped => t.soon = <<>>
  BY TakenIs
<1>2. CASE Act(t, s) # "none"
  <2> DEFINE flag == IF Act(t, s) = "board" THEN t.active = "lobby" ELSE FALSE
             w == left(Act(t, s), flag)
  <2>1. flag \in BOOLEAN
    OBVIOUS
  <2>2. \/ Act(t, s) # "wait" /\ u = left(Act(t, s), flag)
        \/ Act(t, s) = "wait" /\ u = HideDialogs(left("wait", flag), {"winner"})
    <3> DEFINE board == t.active = "lobby"
    <3>1. /\ Act(t, s) = "lobby" => u = left("lobby", FALSE)
          /\ Act(t, s) = "wait" => u = HideDialogs(left("wait", FALSE), {"winner"})
          /\ Act(t, s) = "hosting" => u = left("hosting", FALSE)
          /\ Act(t, s) = "board" => u = left("board", board)
      BY ShowForCases
    <3>2. /\ Act(t, s) = "board" => flag = board
          /\ Act(t, s) # "board" => flag = FALSE
      OBVIOUS
    <3> HIDE DEF u, left, flag, board
    <3> QED
      BY <1>2, <3>1, <3>2, ActIs
  <2> HIDE DEF flag
  <2>3. Reaction(t, s, flag) \in FitSoon /\ w = LeaveLoading(v, Reaction(t, s, flag))
    <3>1. Act(t, s) \in {"lobby", "wait", "hosting", "board"}
      BY <1>2, ActIs
    <3>2. [do |-> Act(t, s), snap |-> s, flag |-> flag] \in FitSoon
      BY <2>1, <3>1, ActionFits
    <3> QED
      BY <3>2 DEF Reaction
  <2>4. u = IF Act(t, s) = "wait" THEN HideDialogs(w, {"winner"}) ELSE w
    BY <2>2
  <2> HIDE DEF v, u, w
  <2>5. /\ w \in FitTab /\ SameRoll(v, w) /\ SameBoard(v, w) /\ SamePage(v, w)
        /\ w.intros = v.intros /\ w.active = v.active /\ w.dialogs = v.dialogs
        /\ w.cur = v.cur /\ w.button = v.button /\ w.skipped = v.skipped
        /\ w.soon = Append(v.soon, Reaction(t, s, flag))
    BY <1>1, <2>3, LeaveIs
  <2>6. /\ u \in FitTab /\ SameRoll(w, u) /\ SameBoard(w, u) /\ SamePage(w, u)
        /\ SameQueue(w, u) /\ u.dialogs = w.dialogs \ ds
        /\ u.cur = w.cur /\ u.button = w.button /\ u.skipped = w.skipped
    BY <1>2, <2>4, <2>5, HideIs DEF Closed, SameRoll, SameBoard, SamePage, SameQueue
  <2> HIDE DEF ds
  <2>7. ShownFor(t, s, u)
    BY <1>1, <1>2, <2>1, <2>5, <2>6 DEF ShownFor, SameRoll, SameBoard, SamePage, SameQueue, ds
  <2> QED
    BY <2>7 DEF u
<1>3. CASE Act(t, s) = "none"
  <2> DEFINE b == Pending(t)
             passed == Passed(v, b)
             calm == HideDialogs(passed, {"winner", "pause"})
  <2>1. u = ShowScreen(calm, "loading")
    BY <1>3, ShowForCases
  <2>2. b \in BOOLEAN /\ (~b <=> t.soon = <<>> /\ t.intros = <<>>)
    BY DEF Pending
  <2> HIDE DEF v, u, b
  <2>3. /\ passed \in FitTab /\ SameRoll(v, passed) /\ SameBoard(v, passed) /\ SamePage(v, passed)
        /\ SameQueue(v, passed) /\ passed.dialogs = v.dialogs
        /\ passed.cur = v.cur /\ passed.button = v.button /\ (passed.skipped <=> v.skipped \/ b)
    BY <1>1, <2>2, PassedIs
  <2> HIDE DEF passed
  <2>4. /\ calm \in FitTab /\ SameRoll(passed, calm) /\ SameBoard(passed, calm)
        /\ SamePage(passed, calm) /\ SameQueue(passed, calm)
        /\ calm.dialogs = passed.dialogs \ {"winner", "pause"}
        /\ calm.cur = passed.cur /\ calm.button = passed.button /\ calm.skipped = passed.skipped
    BY <2>3, HideIs
  <2> HIDE DEF calm
  <2>5. /\ u \in FitTab /\ SameRoll(calm, u) /\ SameBoard(calm, u) /\ SamePage(calm, u)
        /\ u.intros = calm.intros /\ u.active = calm.active /\ u.dialogs = calm.dialogs
        /\ u.cur = calm.cur /\ u.button = calm.button /\ u.skipped = calm.skipped
        /\ u.soon = IF calm.active = "loading" THEN calm.soon
                    ELSE Append(calm.soon, Committing("loading"))
    BY <2>1, <2>4, ScreenIs DEF Screens
  <2>6. ~u.skipped => /\ t.intros = <<>> /\ t.soon = <<>>
                      /\ t.phase.kind # "celebrating" => ~HoldsFrame(t)
    BY <1>1, <2>2, <2>3, <2>4, <2>5
  <2>7. Closed(t, s) = {"winner", "pause"}
    BY <1>3 DEF Closed
  <2>8. ShownFor(t, s, u)
    BY <1>1, <1>3, <2>3, <2>4, <2>5, <2>6, <2>7
    DEF ShownFor, SameRoll, SameBoard, SamePage, SameQueue
  <2> QED
    BY <2>8 DEF u
<1> QED
  BY <1>2, <1>3

LEMMA DispatchIs ==
  ASSUME NEW t \in FitTab, NEW ev, Transition(t.phase, ev) \in FitPhase
  PROVE  LET u == Dispatch(t, ev)
         IN  /\ u \in FitTab /\ u.phase = Transition(t.phase, ev) /\ u.timers = t.timers
             /\ SameBoard(t, u) /\ SameQueue(t, u) /\ SamePage(t, u) /\ u.dialogs = t.dialogs
             /\ u.cur = t.cur /\ u.button = t.button /\ u.skipped = t.skipped
<1> DEFINE q == Transition(t.phase, ev)
           u == [t EXCEPT !.phase = q]
<1>1. Dispatch(t, ev) = u
  BY DEF Dispatch
<1> HIDE DEF q
<1>2. /\ u \in FitTab /\ u.phase = q /\ u.timers = t.timers
      /\ SameBoard(t, u) /\ SameQueue(t, u) /\ SamePage(t, u) /\ u.dialogs = t.dialogs
      /\ u.cur = t.cur /\ u.button = t.button /\ u.skipped = t.skipped
  BY DEF FitTab, SameBoard, SameQueue, SamePage, q
<1> QED
  BY <1>1, <1>2 DEF q

\* What a roll has under way is dropped.
LEMMA ResetIs ==
  ASSUME NEW t \in FitTab
  PROVE  LET u == ResetRollState(t)
         IN  /\ u \in FitTab /\ u.phase = Idle /\ u.timers = {}
             /\ u.key = t.key /\ u.round = t.round /\ u.faces = t.faces /\ u.locked = t.locked
             /\ u.loose = t.loose /\ u.tumbling = FALSE /\ (u.cut <=> t.cut \/ t.tumbling)
             /\ SameQueue(t, u) /\ SamePage(t, u) /\ u.dialogs = t.dialogs
             /\ u.cur = t.cur /\ u.button = t.button /\ u.skipped = t.skipped
<1> DEFINE reset == Dispatch(t, [t |-> "RESET"])
           cut == reset.cut \/ t.tumbling
           u == [reset EXCEPT !.timers = {}, !.tumbling = FALSE, !.cut = cut]
<1>1. /\ reset \in FitTab /\ reset.phase = Idle /\ SameBoard(t, reset)
      /\ SameQueue(t, reset) /\ SamePage(t, reset) /\ reset.dialogs = t.dialogs
      /\ reset.cur = t.cur /\ reset.button = t.button /\ reset.skipped = t.skipped
  BY DispatchIs, ResetLeads, IdleFits
<1>2. ResetRollState(t) = u
  BY DEF ResetRollState
<1>3. cut \in BOOLEAN /\ (cut <=> t.cut \/ t.tumbling)
  BY <1>1 DEF SameBoard
<1>4. reset \in FitTab /\ cut \in BOOLEAN
  BY <1>1, <1>3
<1> HIDE DEF reset, cut
<1>5. /\ u \in FitTab /\ u.phase = reset.phase /\ u.timers = {}
      /\ u.key = reset.key /\ u.round = reset.round /\ u.faces = reset.faces
      /\ u.locked = reset.locked /\ u.loose = reset.loose /\ u.tumbling = FALSE /\ u.cut = cut
      /\ SameQueue(reset, u) /\ SamePage(reset, u) /\ u.dialogs = reset.dialogs
      /\ u.cur = reset.cur /\ u.button = reset.button /\ u.skipped = reset.skipped
  BY <1>4 DEF FitTab, SameQueue, SamePage
<1> HIDE DEF u
<1> QED
  BY <1>1, <1>2, <1>3, <1>5 DEF SameBoard, SameQueue, SamePage

\* The board is drawn for a frame.
Fresh(s, u) ==
  /\ u.round = s.round /\ u.faces = MyDiceKey(s) /\ u.locked = s.hits
  /\ u.loose = Dice - s.hits /\ u.tumbling = FALSE

LEMMA AreaIs ==
  ASSUME NEW t \in FitTab, NEW s \in Snap
  PROVE  LET u == RenderMyArea(t, s)
         IN  /\ u \in FitTab /\ SameRoll(t, u) /\ SameQueue(t, u) /\ SamePage(t, u)
             /\ Fresh(s, u) /\ u.cut = FALSE /\ u.key = t.key /\ u.button = "on"
             /\ u.dialogs = t.dialogs /\ u.cur = t.cur /\ u.skipped = t.skipped
<1> DEFINE key == MyDiceKey(s)
           locked == s.hits
           loose == Dice - s.hits
           round == s.round
           u == [t EXCEPT !.round = round, !.faces = key, !.locked = locked, !.loose = loose,
                          !.tumbling = FALSE, !.cut = FALSE, !.button = "on"]
<1>1. key \in Nat \X Nat /\ locked \in Nat /\ loose \in Nat /\ round \in Nat
  BY SnapIs
<1>2. RenderMyArea(t, s) = u
  BY DEF RenderMyArea
<1> HIDE DEF key, locked, loose, round
<1>3. /\ u \in FitTab /\ SameRoll(t, u) /\ SameQueue(t, u) /\ SamePage(t, u)
      /\ u.round = round /\ u.faces = key /\ u.locked = locked /\ u.loose = loose
      /\ u.tumbling = FALSE /\ u.cut = FALSE /\ u.key = t.key /\ u.button = "on"
      /\ u.dialogs = t.dialogs /\ u.cur = t.cur /\ u.skipped = t.skipped
  BY <1>1 DEF FitTab, SameRoll, SameQueue, SamePage
<1> QED
  BY <1>2, <1>3 DEF Fresh, key, locked, loose, round

LEMMA RepaintIs ==
  ASSUME NEW t \in FitTab, t.cur \in Snap
  PROVE  LET u == Repaint(t)
         IN  /\ u \in FitTab /\ SameRoll(t, u) /\ SameQueue(t, u) /\ SamePage(t, u)
             /\ Fresh(t.cur, u) /\ (u.cut <=> MyDiceKey(t.cur) # t.key) /\ u.key = t.key
             /\ u.button = "on" /\ u.dialogs = t.dialogs /\ u.cur = t.cur
             /\ u.skipped = t.skipped
<1> DEFINE drawn == RenderMyArea(t, t.cur)
           other == MyDiceKey(t.cur) # t.key
           u == [drawn EXCEPT !.cut = other]
<1>1. /\ drawn \in FitTab /\ SameRoll(t, drawn) /\ SameQueue(t, drawn) /\ SamePage(t, drawn)
      /\ Fresh(t.cur, drawn) /\ drawn.cut = FALSE /\ drawn.key = t.key /\ drawn.button = "on"
      /\ drawn.dialogs = t.dialogs /\ drawn.cur = t.cur /\ drawn.skipped = t.skipped
  BY AreaIs
<1>2. Repaint(t) = u /\ other \in BOOLEAN
  BY DEF Repaint
<1> HIDE DEF drawn, other
<1>3. /\ u \in FitTab /\ SameRoll(drawn, u) /\ SameQueue(drawn, u) /\ SamePage(drawn, u)
      /\ u.round = drawn.round /\ u.faces = drawn.faces /\ u.locked = drawn.locked
      /\ u.loose = drawn.loose /\ u.tumbling = drawn.tumbling
      /\ u.cut = other /\ u.key = drawn.key /\ u.button = drawn.button
      /\ u.dialogs = drawn.dialogs /\ u.cur = drawn.cur /\ u.skipped = drawn.skipped
  BY <1>1, <1>2 DEF FitTab, SameRoll, SameQueue, SamePage
<1> HIDE DEF u
<1> QED
  BY <1>1, <1>2, <1>3 DEF Fresh, SameRoll, SameQueue, SamePage, other

\* A frame is rendered: on a new board, or on one that has its dice already.
BoardShown(t, s, u) ==
  /\ u \in FitTab /\ SameRoll(t, u) /\ SamePage(t, u) /\ u.intros = t.intros
  /\ u.active = t.active /\ u.dialogs = t.dialogs /\ u.skipped = t.skipped /\ u.cur = s
  /\ u.soon = IF t.active = "game" THEN t.soon ELSE Append(t.soon, Committing("game"))
  /\ u.key = MyDiceKey(s)
  /\ MyDiceKey(s) = t.key => SameBoard(t, u)
  /\ MyDiceKey(s) # t.key => Fresh(s, u) /\ u.cut = FALSE
  /\ u.button = "none" => t.button = "none" /\ MyDiceKey(s) = t.key
  /\ Settled(t.phase) /\ ~s.paused => u.button \in {"none", "on"}

LEMMA RenderIs ==
  ASSUME NEW t \in FitTab, NEW s \in Snap
  PROVE  LET u == RenderGame(t, s)
         IN  /\ u \in FitTab /\ SameRoll(t, u) /\ SameQueue(t, u) /\ SamePage(t, u)
             /\ u.dialogs = t.dialogs /\ u.skipped = t.skipped /\ u.cur = s
             /\ u.key = MyDiceKey(s)
             /\ MyDiceKey(s) = t.key => SameBoard(t, u)
             /\ MyDiceKey(s) # t.key => Fresh(s, u) /\ u.cut = FALSE
             /\ u.button = "none" => t.button = "none" /\ MyDiceKey(s) = t.key
             /\ Settled(t.phase) /\ ~s.paused => u.button \in {"none", "on"}
<1> DEFINE key == MyDiceKey(s)
           noted == [t EXCEPT !.key = key]
           fresh == RenderMyArea(noted, s)
           drawn == IF key = t.key THEN t ELSE fresh
           known == [drawn EXCEPT !.cur = s]
           button == IF known.button = "none" THEN known.button
                     ELSE IF s.paused THEN "off"
                     ELSE IF Settled(known.phase) THEN "on" ELSE known.button
           u == [known EXCEPT !.button = button]
<1>1. RenderGame(t, s) = u
  BY DEF RenderGame, SyncPaused
<1>2. key \in Nat \X Nat
  BY SnapIs
<1> HIDE DEF key
<1>3. /\ noted \in FitTab /\ SameRoll(t, noted) /\ SameQueue(t, noted) /\ SamePage(t, noted)
      /\ noted.dialogs = t.dialogs /\ noted.skipped = t.skipped /\ noted.key = key
  BY <1>2 DEF FitTab, SameRoll, SameQueue, SamePage
<1> HIDE DEF noted
<1>4. /\ fresh \in FitTab /\ SameRoll(noted, fresh) /\ SameQueue(noted, fresh)
      /\ SamePage(noted, fresh) /\ Fresh(s, fresh) /\ fresh.cut = FALSE
      /\ fresh.key = noted.key /\ fresh.button = "on" /\ fresh.dialogs = noted.dialogs
      /\ fresh.skipped = noted.skipped
  BY <1>3, AreaIs
<1> HIDE DEF fresh
<1>5. /\ drawn \in FitTab /\ SameRoll(t, drawn) /\ SameQueue(t, drawn) /\ SamePage(t, drawn)
      /\ drawn.dialogs = t.dialogs /\ drawn.skipped = t.skipped /\ drawn.key = key
      /\ key = t.key => SameBoard(t, drawn) /\ drawn.button = t.button
      /\ key # t.key => Fresh(s, drawn) /\ drawn.cut = FALSE /\ drawn.button = "on"
  BY <1>3, <1>4 DEF SameRoll, SameQueue, SamePage, SameBoard
<1> HIDE DEF drawn
<1>6. /\ known \in FitTab /\ SameRoll(drawn, known) /\ SameQueue(drawn, known)
      /\ SamePage(drawn, known) /\ SameBoard(drawn, known) /\ known.dialogs = drawn.dialogs
      /\ known.skipped = drawn.skipped /\ known.button = drawn.button /\ known.cur = s
  BY <1>5 DEF FitTab, SameRoll, SameQueue, SamePage, SameBoard
<1> HIDE DEF known
<1>7. known.button \in {"none", "on", "off"} /\ s.paused \in BOOLEAN
  BY <1>6, TabHas, SnapIs
<1>8. /\ button \in {"none", "on", "off"} /\ (button = "none" <=> known.button = "none")
      /\ Settled(known.phase) /\ ~s.paused => button \in {"none", "on"}
  BY <1>7
<1> HIDE DEF button
<1>9. /\ u \in FitTab /\ SameRoll(known, u) /\ SameQueue(known, u)
      /\ SamePage(known, u) /\ SameBoard(known, u) /\ u.dialogs = known.dialogs
      /\ u.skipped = known.skipped /\ u.button = button /\ u.cur = known.cur
  BY <1>6, <1>8 DEF FitTab, SameRoll, SameQueue, SamePage, SameBoard
<1> HIDE DEF u
<1>10. /\ key = t.key => SameBoard(t, u)
       /\ key # t.key => Fresh(s, u) /\ u.cut = FALSE
       /\ u.key = key
  BY <1>5, <1>6, <1>9 DEF SameBoard, Fresh
<1>11. /\ u.button = "none" => t.button = "none" /\ key = t.key
       /\ Settled(t.phase) /\ ~s.paused => u.button \in {"none", "on"}
  BY <1>5, <1>6, <1>8, <1>9 DEF SameRoll
<1>12. SameRoll(t, u) /\ SameQueue(t, u) /\ SamePage(t, u)
  BY <1>5, <1>6, <1>9 DEF SameRoll, SameQueue, SamePage
<1> QED
  BY <1>1, <1>5, <1>6, <1>9, <1>10, <1>11, <1>12 DEF key

LEMMA ShowBoardIs ==
  ASSUME NEW t \in FitTab, NEW s \in Snap
  PROVE  BoardShown(t, s, ShowBoard(t, s))
<1> DEFINE v == ShowScreen(t, "game")
           u == RenderGame(v, s)
<1>1. /\ v \in FitTab /\ SameRoll(t, v) /\ SameBoard(t, v) /\ SamePage(t, v)
      /\ v.intros = t.intros /\ v.active = t.active /\ v.dialogs = t.dialogs
      /\ v.cur = t.cur /\ v.button = t.button /\ v.skipped = t.skipped
      /\ v.soon = IF t.active = "game" THEN t.soon ELSE Append(t.soon, Committing("game"))
  BY ScreenIs DEF Screens
<1>2. ShowBoard(t, s) = u
  BY DEF ShowBoard
<1> HIDE DEF v
<1>3. /\ u \in FitTab /\ SameRoll(v, u) /\ SameQueue(v, u) /\ SamePage(v, u)
      /\ u.dialogs = v.dialogs /\ u.skipped = v.skipped /\ u.cur = s
      /\ u.key = MyDiceKey(s)
      /\ MyDiceKey(s) = v.key => SameBoard(v, u)
      /\ MyDiceKey(s) # v.key => Fresh(s, u) /\ u.cut = FALSE
      /\ u.button = "none" => v.button = "none" /\ MyDiceKey(s) = v.key
      /\ Settled(v.phase) /\ ~s.paused => u.button \in {"none", "on"}
  BY <1>1, RenderIs
<1> HIDE DEF u
<1>4. BoardShown(t, s, u)
  BY <1>1, <1>3 DEF BoardShown, SameRoll, SameBoard, SamePage, SameQueue
<1> QED
  BY <1>2, <1>4

-----------------------------------------------------------------------------
(* The invariant.                                                          *)

\* What is in a queue.
Entries(q) == {q[i] : i \in DOMAIN q}

\* Nothing but swaps to commit.
Commits(q) == \A a \in Entries(q) : a.do = "commit"

\* The entries that only such swaps come after.
Latest(q) == {q[i] : i \in {j \in DOMAIN q : \A k \in DOMAIN q : k > j => q[k].do = "commit"}}

\* What the page has been told of and will come back to.
Queued(t) == {a.snap : a \in {b \in Entries(t.soon) : b.do # "commit"}} \cup Entries(t.intros)

InHand(t) == t.phase.kind \in {"settling", "revealing"}

\* A frame is in hand that the reveal has not begun to show.
Held(t) == t.phase.kind = "settling" \/ (t.phase.kind = "revealing" /\ "pump" \in t.timers)

\* x is s, or a snapshot from before it.
NotAfter(x, s) ==
  /\ x \in Snap
  /\ x.round >= 1
  /\ \/ x.round < s.round
     \/ /\ x.round = s.round /\ x.rolls <= s.rolls /\ x.hits <= s.hits
        /\ x.rolls = s.rolls => x.hits = s.hits
  /\ x.started => s.started

\* x may become the current state while the roll goes on.
Beside(t, x, s) ==
  /\ NotAfter(x, s)
  /\ InHand(t) => x.round <= t.phase.snap.round
  /\ Held(t) /\ x.round = t.phase.snap.round => t.phase.before <= t.phase.snap.hits

\* The page has not left the game.
Stays(t) ==
  /\ t.session
  /\ \A a \in Entries(t.soon) : IF a.do = "commit" THEN a.to \in {"lobby", "loading", "game"}
                                ELSE a.do \in {"lobby", "wait", "hosting", "board"}
  /\ "showGameDetail" \notin t.delays
  /\ t.active \in {"lobby", "loading", "game"}

\* Nothing on it is from the future.
Past(t, s) ==
  /\ \A x \in Queued(t) \cup {t.cur} : Beside(t, x, s)
  /\ t.phase.snap # Nothing => NotAfter(t.phase.snap, s)
  /\ t.phase.stashed # Nothing => NotAfter(t.phase.stashed, s) /\ t.phase.stashed.started
  /\ t.key[1] < s.round \/ (t.key[1] = s.round /\ t.key[2] <= s.rolls)
  /\ t.key[1] <= t.cur.round
  /\ t.key # <<0, 0>> => t.button # "none"

\* Before the game has started there is nothing but the lobby.
Unstarted(t, s) ==
  ~s.started =>
    /\ \A a \in Entries(t.soon) : \/ a.do = "lobby"
                                  \/ a.do = "commit" /\ a.to \in {"lobby", "loading"}
    /\ t.intros = <<>> /\ t.delays = {} /\ t.dialogs = {} /\ t.phase = Idle
    /\ t.active \in {"lobby", "loading"}

\* What a roll under way can count on.
InRoll(t, s, over) ==
  /\ AwaitingAck(t.phase) =>
       \A x \in Queued(t) : MyDiceKey(x) = t.key /\ x.round = t.cur.round
  /\ AwaitsRollFrame(t.phase) =>
       /\ t.cur.round = s.round => t.phase.before <= s.hits
       /\ t.phase.stashed = Nothing /\ t.phase.result = Nothing
  /\ InHand(t) =>
       /\ t.phase.stashed # Nothing /\ t.phase.result = Nothing =>
            t.phase.stashed.round = t.phase.snap.round
       /\ t.phase.result # Nothing =>
            /\ t.phase.result.round = t.phase.snap.round
            /\ t.phase.result.mine => t.phase.snap.hits = Dice
  /\ Rolling(t.phase) => "winner" \notin t.dialogs /\ t.button # "none"
  /\ t.phase.result # Nothing => /\ t.phase.result.round <= s.round
                                 /\ t.phase.result.round = s.round => over = "announced"
  /\ Settled(t.phase) => t.phase.snap = Nothing /\ t.phase.stashed = Nothing
  /\ t.phase.kind = "idle" => t.phase.result = Nothing

Timely(t, s, over) == Stays(t) /\ Past(t, s) /\ Unstarted(t, s) /\ InRoll(t, s, over)

\* The dice on the board are those of key.
Board(t, s) ==
  ~t.cut =>
    /\ t.round = t.key[1]
    /\ t.loose # 0 => t.loose = Dice - t.locked
    /\ ~t.tumbling =>
         /\ t.faces = t.key
         /\ t.key = MyDiceKey(s) /\ s.hits < Dice =>
              t.locked = s.hits /\ t.loose = Dice - s.hits
    /\ t.tumbling =>
         /\ t.phase.kind = "revealing" /\ "pump" \notin t.timers
         /\ t.key = MyDiceKey(t.phase.snap) /\ t.cur.round = t.key[1]
         /\ t.locked = t.phase.before /\ t.phase.before <= t.phase.snap.hits
         /\ t.loose = Dice - t.locked
         /\ "pop" \in t.timers => t.faces = t.key

\* b may be left to be done after a.
MayFollow(a, b) ==
  /\ a.do = "commit" /\ b.do = "commit" => ~(a.to = "game" /\ b.to = "lobby")
  /\ a.do \in {"wait", "hosting", "board"} => b.do # "lobby"

InLine(q) == \A i, j \in DOMAIN q : i < j => MayFollow(q[i], q[j])

\* The lobby is never shown after the game.
LobbyFirst(t) ==
  /\ InLine(t.soon)
  /\ t.active = "game" \/ t.intros # <<>> \/ Committing("game") \in Entries(t.soon) =>
       \A a \in Entries(t.soon) : a.do # "lobby"
  /\ t.active = "game" => Committing("lobby") \notin Entries(t.soon)

Target(s) == IF ~s.started THEN "lobby" ELSE IF s.down /\ ~s.paused THEN "loading" ELSE "game"

\* The screens that may be passed on the way.
Passing(id) == IF id = "game" THEN {"lobby", "game"} ELSE {id}

\* The page is on its way to the screen s calls for.
Led(t, s) ==
  /\ \A a \in Latest(t.soon) : IF a.do = "commit" THEN a.to \in Passing(Target(s))
                               ELSE a.do = Act(t, s)
  /\ Act(t, s) = "none" => Commits(t.soon)
  /\ Commits(t.soon) =>
       IF t.intros # <<>> THEN Act(t, s) = "board"
       ELSE IF t.soon = <<>> THEN t.active = Target(s)
       ELSE Last(t.soon) = Committing(Target(s))

\* It shows s already, or will once it comes to it.
Seen(t, s) ==
  /\ ~s.started => t.cur = s
  /\ \A a \in Latest(t.soon) : a.do # "commit" => a.snap = s
  /\ Commits(t.soon) =>
       IF t.intros # <<>> THEN Last(t.intros) = s
       ELSE /\ t.cur = s
            /\ t.phase.kind # "celebrating" /\ Target(s) = "game" =>
                 /\ t.key = MyDiceKey(s)
                 /\ t.phase.kind = "idle" /\ ~s.paused => t.button = "on"

\* The overlays are in step with it.
Overlays(t, s) ==
  /\ t.phase.kind = "celebrating" =>
       /\ Commits(t.soon) /\ t.intros = <<>> /\ "winner" \in t.dialogs
       /\ t.phase.result.round = s.round
  /\ t.phase.kind = "idle" /\ "winner" \in t.dialogs =>
       ~Commits(t.soon) /\ Act(t, s) \in {"hosting", "board"}
  /\ "pause" \in t.dialogs /\ Commits(t.soon) /\ t.phase.kind # "celebrating" =>
       s.paused \/ "hidePaused" \in t.delays

\* s is what the page will come to show.
Aim(t, s) ==
  IF t.phase.stashed # Nothing THEN t.phase.result = Nothing => t.phase.stashed = s
  ELSE /\ t.phase.kind # "celebrating" => Led(t, s)
       /\ IF Held(t) THEN t.phase.snap = s ELSE Seen(t, s)
       /\ AwaitsRollFrame(t.phase) => t.key = MyDiceKey(s)
       /\ Overlays(t, s)

-----------------------------------------------------------------------------
(* Queues.                                                                 *)

LEMMA AppendIs ==
  ASSUME NEW S, NEW q \in Seq(S), NEW a \in S
  PROVE  LET r == Append(q, a)
         IN  /\ r \in Seq(S) /\ r # <<>> /\ Last(r) = a
             /\ Entries(r) = Entries(q) \cup {a}
             /\ Commits(r) <=> Commits(q) /\ a.do = "commit"
             /\ Latest(r) = IF a.do = "commit" THEN Latest(q) \cup {a} ELSE {a}
             /\ InLine(q) /\ (\A b \in Entries(q) : MayFollow(b, a)) => InLine(r)
<1> DEFINE r == Append(q, a)
<1>1. /\ r \in Seq(S) /\ Len(r) = Len(q) + 1 /\ DOMAIN r = 1..(Len(q) + 1)
      /\ DOMAIN q = 1..Len(q) /\ Len(q) \in Nat
      /\ \A i \in DOMAIN q : r[i] = q[i]
      /\ r[Len(q) + 1] = a
  OBVIOUS
<1> HIDE DEF r
<1>2. r # <<>> /\ Last(r) = a
  BY <1>1 DEF Last
<1>3. Entries(r) = Entries(q) \cup {a}
  BY <1>1 DEF Entries
<1>4. Commits(r) <=> Commits(q) /\ a.do = "commit"
  BY <1>3 DEF Commits
<1>5. ASSUME a.do = "commit" PROVE Latest(r) = Latest(q) \cup {a}
  <2>1. ASSUME NEW b \in Latest(q) PROVE b \in Latest(r)
    <3>1. PICK j \in DOMAIN q : q[j] = b /\ \A k \in DOMAIN q : k > j => q[k].do = "commit"
      BY DEF Latest
    <3>2. j \in DOMAIN r /\ r[j] = b /\ \A k \in DOMAIN r : k > j => r[k].do = "commit"
      BY <1>1, <1>5, <3>1
    <3> QED
      BY <3>2 DEF Latest
  <2>2. a \in Latest(r)
    <3>1. \A k \in DOMAIN r : ~(k > Len(q) + 1)
      BY <1>1
    <3> QED
      BY <1>1, <3>1 DEF Latest
  <2>3. ASSUME NEW b \in Latest(r), b # a PROVE b \in Latest(q)
    <3>1. PICK j \in DOMAIN r : r[j] = b /\ \A k \in DOMAIN r : k > j => r[k].do = "commit"
      BY DEF Latest
    <3>2. j \in DOMAIN q /\ q[j] = b /\ \A k \in DOMAIN q : k > j => q[k].do = "commit"
      BY <1>1, <2>3, <3>1
    <3> QED
      BY <3>2 DEF Latest
  <2> QED
    BY <1>5, <2>1, <2>2, <2>3
<1>6. ASSUME a.do # "commit" PROVE Latest(r) = {a}
  <2>1. a \in Latest(r)
    <3>1. \A k \in DOMAIN r : ~(k > Len(q) + 1)
      BY <1>1
    <3> QED
      BY <1>1, <3>1 DEF Latest
  <2>2. ASSUME NEW b \in Latest(r) PROVE b = a
    <3>1. PICK j \in DOMAIN r : r[j] = b /\ \A k \in DOMAIN r : k > j => r[k].do = "commit"
      BY DEF Latest
    <3>2. j = Len(q) + 1
      BY <1>1, <1>6, <3>1
    <3> QED
      BY <1>1, <3>1, <3>2
  <2> QED
    BY <1>6, <2>1, <2>2
<1>7. ASSUME InLine(q), \A b \in Entries(q) : MayFollow(b, a) PROVE InLine(r)
  <2> SUFFICES ASSUME NEW i \in DOMAIN r, NEW j \in DOMAIN r, i < j
               PROVE  MayFollow(r[i], r[j])
    BY DEF InLine
  <2>1. i \in DOMAIN q /\ r[i] = q[i] /\ q[i] \in Entries(q)
    BY <1>1 DEF Entries
  <2>2. \/ j \in DOMAIN q /\ r[j] = q[j]
        \/ r[j] = a
    BY <1>1
  <2> QED
    BY <1>7, <2>1, <2>2 DEF InLine
<1>8. Latest(r) = IF a.do = "commit" THEN Latest(q) \cup {a} ELSE {a}
  BY <1>5, <1>6
<1> QED
  BY <1>1, <1>2, <1>3, <1>4, <1>7, <1>8 DEF r

LEMMA RemoveIs ==
  ASSUME NEW S, NEW q \in Seq(S), NEW i \in DOMAIN q
  PROVE  LET r == RemoveAt(q, i)
         IN  /\ r \in Seq(S) /\ Len(r) = Len(q) - 1 /\ DOMAIN r = 1..(Len(q) - 1)
             /\ DOMAIN q = 1..Len(q) /\ Len(q) \in Nat
             /\ \A j \in 1..(Len(q) - 1) : r[j] = IF j < i THEN q[j] ELSE q[j + 1]
<1> DEFINE a == SubSeq(q, 1, i - 1)
           b == SubSeq(q, i + 1, Len(q))
<1>1. DOMAIN q = 1..Len(q) /\ Len(q) \in Nat /\ i \in 1..Len(q)
  OBVIOUS
<1>2. /\ a \in Seq(S) /\ Len(a) = i - 1
      /\ \A j \in 1..(i - 1) : a[j] = q[j]
  <2>1. \A j \in 1..(i - 1) : q[j] \in S
    BY <1>1
  <2>2. /\ a \in Seq(S) /\ Len(a) = IF 1 <= i - 1 THEN i - 1 - 1 + 1 ELSE 0
        /\ \A j \in 1..(i - 1 - 1 + 1) : a[j] = q[1 + j - 1]
    BY <1>1, <2>1, SubSeqProperties
  <2> HIDE DEF a
  <2> QED
    BY <1>1, <2>2
<1>3. /\ b \in Seq(S) /\ Len(b) = Len(q) - i
      /\ \A j \in 1..(Len(q) - i) : b[j] = q[i + j]
  <2>1. \A j \in (i + 1)..Len(q) : q[j] \in S
    BY <1>1
  <2>2. /\ b \in Seq(S) /\ Len(b) = IF i + 1 <= Len(q) THEN Len(q) - (i + 1) + 1 ELSE 0
        /\ \A j \in 1..(Len(q) - (i + 1) + 1) : b[j] = q[(i + 1) + j - 1]
    BY <1>1, <2>1, SubSeqProperties
  <2> HIDE DEF b
  <2>3. ASSUME NEW j \in 1..(Len(q) - i) PROVE b[j] = q[i + j]
    <3>1. j \in 1..(Len(q) - (i + 1) + 1) /\ (i + 1) + j - 1 = i + j
      BY <1>1
    <3> QED
      BY <2>2, <3>1
  <2> QED
    BY <1>1, <2>2, <2>3
<1>4. RemoveAt(q, i) = a \o b
  BY DEF RemoveAt
<1> HIDE DEF a, b
<1> DEFINE r == a \o b
<1>5. r \in Seq(S) /\ Len(r) = Len(q) - 1
  <2>1. r \in Seq(S) /\ Len(r) = Len(a) + Len(b)
    BY <1>2, <1>3, ConcatProperties
  <2> HIDE DEF r
  <2> QED
    BY <1>1, <1>2, <1>3, <2>1
<1>6. DOMAIN r = 1..(Len(q) - 1)
  BY <1>5
<1>7. ASSUME NEW j \in 1..(Len(q) - 1) PROVE r[j] = IF j < i THEN q[j] ELSE q[j + 1]
  <2>1. CASE j < i
    <3>1. j \in 1..(i - 1) /\ j <= Len(a) /\ j \in 1..(Len(a) + Len(b))
      BY <1>1, <1>2, <1>3, <2>1
    <3>2. r[j] = a[j]
      BY <1>2, <1>3, <3>1, ConcatProperties
    <3> QED
      BY <1>2, <2>1, <3>1, <3>2
  <2>2. CASE ~(j < i)
    <3>1. /\ ~(j <= Len(a)) /\ j \in 1..(Len(a) + Len(b))
          /\ j - Len(a) \in 1..(Len(q) - i) /\ i + (j - Len(a)) = j + 1
      BY <1>1, <1>2, <1>3, <2>2
    <3>2. r[j] = b[j - Len(a)]
      BY <1>2, <1>3, <3>1, ConcatProperties
    <3> QED
      BY <1>3, <2>2, <3>1, <3>2
  <2> QED
    BY <2>1, <2>2
<1> QED
  BY <1>1, <1>4, <1>5, <1>6, <1>7

\* An entry is taken out of its turn only if it commits a swap that nothing of
\* the kind comes before, and no other entry ever is.
InTurn(q, i) == \A j \in 1..(i - 1) : q[j].do # "commit" /\ q[i].do = "commit"

LEMMA TakeIs ==
  ASSUME NEW S, NEW q \in Seq(S), NEW i \in DOMAIN q, InTurn(q, i)
  PROVE  LET r == RemoveAt(q, i)
         IN  /\ r \in Seq(S)
             /\ Entries(q) = Entries(r) \cup {q[i]}
             /\ Latest(r) \subseteq Latest(q)
             /\ Commits(r) => q[i] \in Latest(q) /\ i = 1
             /\ Commits(r) /\ r # <<>> => Last(r) = Last(q)
             /\ r = <<>> => Last(q) = q[i]
             /\ q # <<>>
             /\ InLine(q) =>
                  /\ InLine(r)
                  /\ \A b \in Entries(r) : (b.do # "commit" => q[i].do # "commit") => MayFollow(q[i], b)
<1> DEFINE r == RemoveAt(q, i)
<1>1. /\ r \in Seq(S) /\ Len(r) = Len(q) - 1 /\ DOMAIN r = 1..(Len(q) - 1)
      /\ DOMAIN q = 1..Len(q) /\ Len(q) \in Nat
      /\ \A j \in 1..(Len(q) - 1) : r[j] = IF j < i THEN q[j] ELSE q[j + 1]
  BY RemoveIs
<1> HIDE DEF r
<1>2. i \in Nat /\ 1 <= i /\ i <= Len(q)
  BY <1>1
<1>3. Entries(q) = Entries(r) \cup {q[i]}
  <2>1. ASSUME NEW j \in DOMAIN q, j # i PROVE q[j] \in Entries(r)
    <3>1. CASE j < i
      <4>1. j \in DOMAIN r /\ r[j] = q[j]
        BY <1>1, <1>2, <3>1
      <4> QED
        BY <4>1 DEF Entries
    <3>2. CASE j > i
      <4>1. j - 1 \in DOMAIN r /\ r[j - 1] = q[j]
        BY <1>1, <1>2, <3>2
      <4> QED
        BY <4>1 DEF Entries
    <3> QED
      BY <1>1, <1>2, <2>1, <3>1, <3>2
  <2>2. ASSUME NEW j \in DOMAIN r PROVE r[j] \in Entries(q)
    <3>1. j \in DOMAIN q /\ j + 1 \in DOMAIN q /\ (r[j] = q[j] \/ r[j] = q[j + 1])
      BY <1>1, <1>2
    <3> QED
      BY <3>1 DEF Entries
  <2> QED
    BY <2>1, <2>2 DEF Entries
<1>4. Latest(r) \subseteq Latest(q)
  <2> SUFFICES ASSUME NEW b \in Latest(r) PROVE b \in Latest(q)
    OBVIOUS
  <2>1. PICK j \in DOMAIN r : r[j] = b /\ \A k \in DOMAIN r : k > j => r[k].do = "commit"
    BY DEF Latest
  <2>2. CASE j < i
    <3>1. j \in DOMAIN q /\ q[j] = b
      BY <1>1, <1>2, <2>1, <2>2
    <3>2. ASSUME NEW k \in DOMAIN q, k > j PROVE q[k].do = "commit"
      <4>1. CASE k < i
        BY <1>1, <1>2, <2>1, <3>2, <4>1
      <4>2. CASE k = i
        BY <1>1, <2>2, <4>2 DEF InTurn
      <4>3. CASE k > i
        <5>1. k - 1 \in DOMAIN r /\ k - 1 > j /\ r[k - 1] = q[k]
          BY <1>1, <1>2, <2>1, <2>2, <4>3
        <5> QED
          BY <2>1, <5>1
      <4> QED
        BY <1>1, <1>2, <4>1, <4>2, <4>3
    <3> QED
      BY <3>1, <3>2 DEF Latest
  <2>3. CASE ~(j < i)
    <3>1. j + 1 \in DOMAIN q /\ q[j + 1] = b
      BY <1>1, <1>2, <2>1, <2>3
    <3>2. ASSUME NEW k \in DOMAIN q, k > j + 1 PROVE q[k].do = "commit"
      <4>1. k - 1 \in DOMAIN r /\ k - 1 > j /\ r[k - 1] = q[k]
        BY <1>1, <1>2, <2>1, <2>3, <3>2
      <4> QED
        BY <2>1, <4>1
    <3> QED
      BY <3>1, <3>2 DEF Latest
  <2> QED
    BY <2>2, <2>3
<1>5. ASSUME Commits(r) PROVE q[i] \in Latest(q) /\ i = 1
  <2>1. i = 1
    <3> SUFFICES ASSUME i # 1 PROVE FALSE
      OBVIOUS
    <3>1. 1 \in 1..(i - 1) /\ 1 \in DOMAIN r /\ r[1] = q[1]
      BY <1>1, <1>2
    <3>2. q[1].do # "commit" /\ q[1] \in Entries(r)
      BY <3>1 DEF InTurn, Entries
    <3> QED
      BY <1>5, <3>2 DEF Commits
  <2>2. ASSUME NEW k \in DOMAIN q, k > i PROVE q[k].do = "commit"
    <3>1. k - 1 \in DOMAIN r /\ r[k - 1] = q[k]
      BY <1>1, <1>2, <2>2
    <3>2. r[k - 1] \in Entries(r)
      BY <3>1 DEF Entries
    <3> QED
      BY <1>5, <3>1, <3>2 DEF Commits
  <2> QED
    BY <2>1, <2>2 DEF Latest
<1>6. ASSUME Commits(r), r # <<>> PROVE Last(r) = Last(q)
  <2>1. i = 1 /\ Len(r) > 0
    BY <1>1, <1>5, <1>6
  <2> QED
    BY <1>1, <2>1 DEF Last
<1>7. ASSUME r = <<>> PROVE Last(q) = q[i]
  <2>1. Len(r) = 0
    BY <1>7
  <2> QED
    BY <1>1, <1>2, <2>1 DEF Last
<1>8. ASSUME InLine(q)
      PROVE  /\ InLine(r)
             /\ \A b \in Entries(r) :
                  (b.do # "commit" => q[i].do # "commit") => MayFollow(q[i], b)
  <2>1. ASSUME NEW j \in DOMAIN r, NEW k \in DOMAIN r, j < k
        PROVE  MayFollow(r[j], r[k])
    <3>1. /\ j \in DOMAIN q /\ j + 1 \in DOMAIN q /\ k \in DOMAIN q /\ k + 1 \in DOMAIN q
          /\ \/ r[j] = q[j] /\ r[k] = q[k]
             \/ r[j] = q[j] /\ r[k] = q[k + 1]
             \/ r[j] = q[j + 1] /\ r[k] = q[k + 1]
          /\ j < k + 1 /\ j + 1 < k + 1
      BY <1>1, <1>2, <2>1
    <3> QED
      BY <1>8, <2>1, <3>1 DEF InLine
  <2>2. ASSUME NEW j \in DOMAIN r, r[j].do # "commit" => q[i].do # "commit"
        PROVE  MayFollow(q[i], r[j])
    <3>1. CASE j < i
      <4>1. j \in 1..(i - 1) /\ r[j] = q[j]
        BY <1>1, <1>2, <3>1
      <4> QED
        BY <2>2, <4>1 DEF InTurn
    <3>2. CASE ~(j < i)
      <4>1. j + 1 \in DOMAIN q /\ i < j + 1 /\ r[j] = q[j + 1]
        BY <1>1, <1>2, <3>2
      <4> QED
        BY <1>8, <4>1 DEF InLine
    <3> QED
      BY <3>1, <3>2
  <2> QED
    BY <2>1, <2>2 DEF InLine, Entries
<1>9. q # <<>>
  BY <1>1, <1>2
<1> QED
  BY <1>1, <1>3, <1>4, <1>5, <1>6, <1>7, <1>8, <1>9 DEF r

LEMMA TailIs ==
  ASSUME NEW S, NEW q \in Seq(S), q # <<>>
  PROVE  /\ Tail(q) \in Seq(S) /\ Head(q) \in S
         /\ Entries(q) = Entries(Tail(q)) \cup {Head(q)}
         /\ Tail(q) # <<>> => Last(Tail(q)) = Last(q)
         /\ Tail(q) = <<>> => Last(q) = Head(q)
<1>1. /\ Tail(q) \in Seq(S) /\ Head(q) = q[1] /\ DOMAIN q = 1..Len(q) /\ Len(q) \in Nat
      /\ Len(q) > 0 /\ Len(Tail(q)) = Len(q) - 1 /\ DOMAIN Tail(q) = 1..(Len(q) - 1)
      /\ \A j \in 1..(Len(q) - 1) : Tail(q)[j] = q[j + 1]
  OBVIOUS
<1>2. Entries(q) = Entries(Tail(q)) \cup {Head(q)}
  <2>1. ASSUME NEW j \in DOMAIN q PROVE q[j] \in Entries(Tail(q)) \cup {Head(q)}
    <3>1. CASE j = 1
      BY <1>1, <3>1
    <3>2. CASE j # 1
      <4>1. j - 1 \in DOMAIN Tail(q) /\ Tail(q)[j - 1] = q[j]
        BY <1>1, <3>2
      <4> QED
        BY <4>1 DEF Entries
    <3> QED
      BY <3>1, <3>2
  <2>2. ASSUME NEW j \in DOMAIN Tail(q) PROVE Tail(q)[j] \in Entries(q)
    <3>1. j + 1 \in DOMAIN q /\ Tail(q)[j] = q[j + 1]
      BY <1>1
    <3> QED
      BY <3>1 DEF Entries
  <2>3. Head(q) \in Entries(q)
    BY <1>1 DEF Entries
  <2> QED
    BY <2>1, <2>2, <2>3 DEF Entries
<1>3. Tail(q) # <<>> => Last(Tail(q)) = Last(q)
  <2>1. ASSUME Tail(q) # <<>> PROVE Len(q) - 1 > 0
    BY <1>1, <2>1
  <2> QED
    BY <1>1, <2>1 DEF Last
<1>4. Tail(q) = <<>> => Last(q) = Head(q)
  <2>1. ASSUME Tail(q) = <<>> PROVE Len(q) = 1
    BY <1>1, <2>1
  <2> QED
    BY <1>1, <2>1 DEF Last
<1> QED
  BY <1>1, <1>2, <1>3, <1>4

-----------------------------------------------------------------------------
(* The page stays in its time.                                             *)

\* u is t but for the overlays and what will close them.
Same(t, u) ==
  /\ u \in FitTab /\ SameRoll(t, u) /\ SameQueue(t, u) /\ SameBoard(t, u)
  /\ u.host = t.host /\ u.session = t.session /\ u.cur = t.cur /\ u.button = t.button

\* u is t but for a swap.
Swapped(t, id, u) ==
  /\ u \in FitTab /\ SameRoll(t, u) /\ SameBoard(t, u) /\ SamePage(t, u)
  /\ u.intros = t.intros /\ u.active = t.active /\ u.dialogs = t.dialogs
  /\ u.cur = t.cur /\ u.button = t.button /\ u.skipped = t.skipped
  /\ u.soon = IF t.active = id THEN t.soon ELSE Append(t.soon, Committing(id))

\* u is t with the board of s on it.
Rendered(t, s, u) ==
  /\ u \in FitTab /\ SameRoll(t, u) /\ SameQueue(t, u) /\ SamePage(t, u)
  /\ u.dialogs = t.dialogs /\ u.skipped = t.skipped /\ u.cur = s
  /\ u.key = MyDiceKey(s)
  /\ MyDiceKey(s) = t.key => SameBoard(t, u)
  /\ MyDiceKey(s) # t.key => Fresh(s, u) /\ u.cut = FALSE
  /\ u.button = "none" => t.button = "none" /\ MyDiceKey(s) = t.key
  /\ Settled(t.phase) /\ ~s.paused => u.button \in {"none", "on"}

LEMMA KindsOf ==
  ASSUME NEW t \in FitTab
  PROVE  /\ t.phase.kind \in Kinds
         /\ InHand(t) => Rolling(t.phase) /\ t.phase.snap \in Snap
         /\ AwaitingAck(t.phase) => Rolling(t.phase)
         /\ AwaitsRollFrame(t.phase) => AwaitingAck(t.phase) /\ ~InHand(t)
         /\ Held(t) => InHand(t)
         /\ Settled(t.phase) => ~AwaitingAck(t.phase) /\ ~AwaitsRollFrame(t.phase) /\ ~InHand(t)
                                /\ ~Rolling(t.phase) /\ ~Held(t)
         /\ t.phase.stashed \in Snap \cup {Nothing}
         /\ t.phase.result \in Result \cup {Nothing}
         /\ t.phase.before \in Nat
<1>1. t.phase \in FitPhase
  BY DEF FitTab
<1> QED
  BY <1>1 DEF FitPhase, Phase, Kinds, InHand, Rolling, Settled, AwaitingAck, AwaitsRollFrame, Held

LEMMA SettledTells ==
  ASSUME NEW t, NEW u, SameRoll(t, u)
  PROVE  /\ InHand(u) <=> InHand(t)
         /\ Held(u) <=> Held(t)
         /\ \A x, s : Beside(u, x, s) <=> Beside(t, x, s)
BY DEF SameRoll, InHand, Held, Beside

LEMMA IdleIs ==
  Idle.kind = "idle" /\ Idle.snap = Nothing /\ Idle.stashed = Nothing /\ Idle.result = Nothing
BY DEF Idle

LEMMA TimelyHas ==
  ASSUME NEW t, NEW s \in Snap, NEW over, Timely(t, s, over)
  PROVE  t.cur \in Snap /\ NotAfter(t.cur, s) /\ Beside(t, t.cur, s)
BY DEF Timely, Past, Beside, NotAfter

LEMMA SameTimely ==
  ASSUME NEW t \in FitTab, NEW s \in Snap, NEW over, Timely(t, s, over),
         NEW u, Same(t, u), "showGameDetail" \notin u.delays,
         "winner" \in u.dialogs => "winner" \in t.dialogs \/ Settled(t.phase),
         ~s.started => u.dialogs = {} /\ u.delays = {}
  PROVE  Timely(u, s, over)
<1>1. /\ u.phase = t.phase /\ u.timers = t.timers /\ u.soon = t.soon /\ u.intros = t.intros
      /\ u.active = t.active /\ u.cur = t.cur /\ u.key = t.key /\ u.button = t.button
      /\ u.session = t.session
  BY DEF Same, SameRoll, SameQueue, SameBoard
<1>2. Queued(u) = Queued(t)
  BY <1>1 DEF Queued
<1>3. \A x : Beside(u, x, s) <=> Beside(t, x, s)
  BY SettledTells DEF Same
<1>4. Stays(u)
  BY <1>1 DEF Timely, Stays
<1>5. Past(u, s)
  BY <1>1, <1>2, <1>3 DEF Timely, Past
<1>6. Unstarted(u, s)
  BY <1>1 DEF Timely, Unstarted
<1>7. InRoll(u, s, over)
  <2>1. Rolling(t.phase) => "winner" \notin u.dialogs
    BY DEF Timely, InRoll, Rolling
  <2> QED
    BY <1>1, <1>2, <2>1 DEF Timely, InRoll, InHand
<1> QED
  BY <1>4, <1>5, <1>6, <1>7 DEF Timely

LEMMA SwapTimely ==
  ASSUME NEW t \in FitTab, NEW s \in Snap, NEW over, Timely(t, s, over),
         NEW id \in {"lobby", "loading", "game"}, ~s.started => id # "game",
         NEW u, Swapped(t, id, u)
  PROVE  Timely(u, s, over)
<1>1. /\ u.phase = t.phase /\ u.timers = t.timers /\ u.intros = t.intros
      /\ u.active = t.active /\ u.cur = t.cur /\ u.key = t.key /\ u.button = t.button
      /\ u.session = t.session /\ u.dialogs = t.dialogs /\ u.delays = t.delays
  BY DEF Swapped, SameRoll, SameBoard, SamePage
<1>2. Entries(u.soon) \subseteq Entries(t.soon) \cup {Committing(id)}
  <2>1. Committing(id) \in FitSoon /\ t.soon \in Seq(FitSoon)
    BY DEF FitTab, Committing, FitSoon, Soon, Screens
  <2> QED
    BY <2>1, AppendIs DEF Swapped
<1>3. Committing(id).do = "commit" /\ Committing(id).to = id
  BY DEF Committing
<1>4. Queued(u) \subseteq Queued(t)
  BY <1>1, <1>2, <1>3 DEF Queued
<1>5. \A x : Beside(u, x, s) <=> Beside(t, x, s)
  BY SettledTells DEF Swapped
<1>6. Stays(u)
  BY <1>1, <1>2, <1>3 DEF Timely, Stays
<1>7. Past(u, s)
  BY <1>1, <1>4, <1>5 DEF Timely, Past
<1>8. Unstarted(u, s)
  BY <1>1, <1>2, <1>3 DEF Timely, Unstarted
<1>9. InRoll(u, s, over)
  BY <1>1, <1>4 DEF Timely, InRoll, InHand
<1> QED
  BY <1>6, <1>7, <1>8, <1>9 DEF Timely

\* x may be drawn while a roll is under way.
MayDraw(t, x, s) ==
  /\ Beside(t, x, s)
  /\ AwaitingAck(t.phase) => MyDiceKey(x) = t.key /\ x.round = t.cur.round

LEMMA KeyOf ==
  ASSUME NEW x \in Snap
  PROVE  MyDiceKey(x)[1] = x.round /\ MyDiceKey(x)[2] = x.rolls /\ x.round \in Nat
         /\ x.rolls \in Nat /\ x.hits \in Nat /\ x.hits <= Dice /\ Dice \in Nat
BY DiceAssumption DEF MyDiceKey, Snap

LEMMA RenderTimely ==
  ASSUME NEW t \in FitTab, NEW s \in Snap, NEW over, Timely(t, s, over), s.started,
         NEW x, MayDraw(t, x, s), NEW u, Rendered(t, x, u)
  PROVE  Timely(u, s, over)
<1>1. /\ u.phase = t.phase /\ u.timers = t.timers /\ u.soon = t.soon /\ u.intros = t.intros
      /\ u.active = t.active /\ u.cur = x /\ u.key = MyDiceKey(x)
      /\ u.session = t.session /\ u.dialogs = t.dialogs /\ u.delays = t.delays
  BY DEF Rendered, SameRoll, SameQueue, SamePage
<1>2. Queued(u) = Queued(t)
  BY <1>1 DEF Queued
<1>3. \A y : Beside(u, y, s) <=> Beside(t, y, s)
  BY SettledTells DEF Rendered
<1>4. NotAfter(x, s) /\ x \in Snap /\ Beside(t, x, s)
  BY DEF MayDraw, Beside, NotAfter
<1>5. u.button = "none" => t.button = "none" /\ MyDiceKey(x) = t.key
  BY DEF Rendered
<1>6. Stays(u)
  BY <1>1 DEF Timely, Stays
<1>7. Past(u, s)
  <2>1. \A y \in Queued(u) \cup {u.cur} : Beside(u, y, s)
    BY <1>1, <1>2, <1>3, <1>4 DEF Timely, Past
  <2>2. u.key[1] = x.round /\ u.key[2] = x.rolls
    BY <1>1, <1>4, KeyOf
  <2>3. /\ u.key[1] < s.round \/ (u.key[1] = s.round /\ u.key[2] <= s.rolls)
        /\ u.key[1] <= u.cur.round
    BY <1>1, <1>4, <2>2, KeyOf DEF NotAfter
  <2>4. u.key # <<0, 0>> => u.button # "none"
    BY <1>1, <1>5 DEF Timely, Past
  <2> QED
    BY <1>1, <2>1, <2>3, <2>4 DEF Timely, Past
<1>8. Unstarted(u, s)
  BY DEF Unstarted
<1>9. InRoll(u, s, over)
  <2>1. AwaitingAck(u.phase) => \A y \in Queued(u) : MyDiceKey(y) = u.key /\ y.round = u.cur.round
    BY <1>1, <1>2 DEF Timely, InRoll, MayDraw
  <2>2. AwaitsRollFrame(u.phase) =>
          /\ u.cur.round = s.round => u.phase.before <= s.hits
          /\ u.phase.stashed = Nothing /\ u.phase.result = Nothing
    BY <1>1, KindsOf DEF Timely, InRoll, MayDraw
  <2>3. Rolling(u.phase) => u.button # "none"
    BY <1>1, <1>5 DEF Timely, InRoll
  <2> QED
    BY <1>1, <2>1, <2>2, <2>3 DEF Timely, InRoll, InHand
<1> QED
  BY <1>6, <1>7, <1>8, <1>9 DEF Timely

LEMMA BoardTimely ==
  ASSUME NEW t \in FitTab, NEW s \in Snap, NEW over, Timely(t, s, over), s.started,
         NEW x, MayDraw(t, x, s)
  PROVE  Timely(ShowBoard(t, x), s, over)
<1> DEFINE v == ShowScreen(t, "game")
           u == RenderGame(v, x)
<1>1. x \in Snap
  BY DEF MayDraw, Beside, NotAfter
<1>2. Swapped(t, "game", v)
  BY ScreenIs DEF Swapped, Screens
<1>3. ShowBoard(t, x) = u
  BY DEF ShowBoard
<1> HIDE DEF v
<1>4. v \in FitTab /\ SameRoll(t, v) /\ v.key = t.key /\ v.cur = t.cur
  BY <1>2 DEF Swapped, SameBoard
<1>5. Timely(v, s, over)
  BY <1>2, SwapTimely
<1>6. Rendered(v, x, u)
  BY <1>1, <1>4, RenderIs DEF Rendered
<1>7. MayDraw(v, x, s)
  BY <1>4, SettledTells DEF MayDraw, SameRoll
<1> HIDE DEF u
<1> QED
  BY <1>3, <1>4, <1>5, <1>6, <1>7, RenderTimely

\* x may become the current state at once.
MayShow(t, x, s) ==
  /\ NotAfter(x, s)
  /\ t.key[1] <= x.round
  /\ AwaitingAck(t.phase) => MyDiceKey(x) = t.key
  /\ Rolling(t.phase) => x.round = t.cur.round

LEMMA ShownTimely ==
  ASSUME NEW t \in FitTab, NEW s \in Snap, NEW over, Timely(t, s, over),
         NEW x, MayShow(t, x, s), NEW u, ShownFor(t, x, u)
  PROVE  Timely(u, s, over)
<1>1. /\ u.timers = t.timers /\ u.phase = IF t.phase.kind = "celebrating" THEN Idle ELSE t.phase
      /\ u.intros = t.intros /\ u.active = t.active /\ u.cur = x /\ u.key = t.key
      /\ u.button = t.button /\ u.session = TRUE /\ u.dialogs \subseteq t.dialogs
      /\ u.delays = t.delays
  BY DEF ShownFor, SameBoard
<1>2. NotAfter(x, s) /\ x \in Snap
  BY DEF MayShow, NotAfter
<1>3. /\ Act(t, x) \in {"lobby", "wait", "hosting", "none", "board"}
      /\ Act(t, x) = "lobby" <=> ~x.started
  BY <1>2, ActIs
<1>4. \A a \in Entries(u.soon) :
        \/ a \in Entries(t.soon)
        \/ a.do = Act(t, x) /\ a.do # "none" /\ a.snap = x
        \/ a.do = "commit" /\ a.to = "loading"
  <2>1. CASE \E flag \in BOOLEAN : Act(t, x) # "none" /\ u.soon = Append(t.soon, Reaction(t, x, flag))
    <3>1. PICK flag \in BOOLEAN : Act(t, x) # "none" /\ u.soon = Append(t.soon, Reaction(t, x, flag))
      BY <2>1
    <3>2. t.soon \in Seq(FitSoon \cup {Reaction(t, x, flag)})
      BY DEF FitTab
    <3>3. Entries(u.soon) = Entries(t.soon) \cup {Reaction(t, x, flag)}
      BY <3>1, <3>2, AppendIs
    <3> QED
      BY <3>1, <3>3 DEF Reaction
  <2>2. CASE u.soon = Append(t.soon, Committing("loading"))
    <3>1. t.soon \in Seq(FitSoon \cup {Committing("loading")})
      BY DEF FitTab
    <3>2. Entries(u.soon) = Entries(t.soon) \cup {Committing("loading")}
      BY <2>2, <3>1, AppendIs
    <3> QED
      BY <3>2 DEF Committing
  <2>3. CASE u.soon = t.soon
    BY <2>3
  <2> QED
    BY <2>1, <2>2, <2>3 DEF ShownFor
<1>5. Queued(u) \subseteq Queued(t) \cup {x}
  BY <1>1, <1>3, <1>4 DEF Queued
<1>6. /\ Settled(u.phase) <=> Settled(t.phase)
      /\ Rolling(t.phase) => u.phase = t.phase
      /\ u.phase.kind = t.phase.kind \/ u.phase = Idle
  BY <1>1, IdleIs DEF Settled, Rolling
<1>7. Stays(u)
  <2>1. \A a \in Entries(u.soon) : IF a.do = "commit" THEN a.to \in {"lobby", "loading", "game"}
                                   ELSE a.do \in {"lobby", "wait", "hosting", "board"}
    BY <1>3, <1>4 DEF Timely, Stays
  <2> QED
    BY <1>1, <2>1 DEF Timely, Stays
<1>8. Past(u, s)
  <2>1. ASSUME NEW y \in Queued(u) \cup {u.cur} PROVE Beside(u, y, s)
    <3>1. NotAfter(y, s)
      BY <1>1, <1>2, <1>5, <2>1 DEF Timely, Past, Beside
    <3>2. CASE ~InHand(u)
      BY <3>1, <3>2 DEF Beside, Held, InHand
    <3>3. CASE InHand(u)
      <4>1. InHand(t) /\ u.phase = t.phase /\ SameRoll(t, u)
        BY <1>1, <1>6, <3>3, IdleIs DEF InHand, SameRoll
      <4>2. x.round = t.cur.round
        BY <4>1, KindsOf DEF MayShow
      <4>3. Beside(t, t.cur, s) /\ (y # x => Beside(t, y, s))
        BY <1>1, <1>5, <2>1 DEF Timely, Past
      <4>4. Beside(t, y, s)
        BY <3>1, <4>2, <4>3 DEF Beside
      <4> QED
        BY <4>1, <4>4, SettledTells
    <3> QED
      BY <3>2, <3>3
  <2>2. /\ u.phase.snap # Nothing => NotAfter(u.phase.snap, s)
        /\ u.phase.stashed # Nothing =>
             NotAfter(u.phase.stashed, s) /\ u.phase.stashed.started
    BY <1>1, IdleIs DEF Timely, Past
  <2> QED
    BY <1>1, <2>1, <2>2 DEF Timely, Past, MayShow
<1>9. Unstarted(u, s)
  <2> SUFFICES ASSUME ~s.started
               PROVE  /\ \A a \in Entries(u.soon) :
                           \/ a.do = "lobby"
                           \/ a.do = "commit" /\ a.to \in {"lobby", "loading"}
                      /\ u.intros = <<>> /\ u.delays = {} /\ u.dialogs = {} /\ u.phase = Idle
                      /\ u.active \in {"lobby", "loading"}
    BY DEF Unstarted
  <2>1. Act(t, x) = "lobby"
    BY <1>2, <1>3 DEF NotAfter
  <2>2. /\ \A a \in Entries(t.soon) : \/ a.do = "lobby"
                                      \/ a.do = "commit" /\ a.to \in {"lobby", "loading"}
        /\ t.intros = <<>> /\ t.delays = {} /\ t.dialogs = {} /\ t.phase = Idle
        /\ t.active \in {"lobby", "loading"}
    BY DEF Timely, Unstarted
  <2>3. \A a \in Entries(u.soon) : \/ a.do = "lobby"
                                   \/ a.do = "commit" /\ a.to \in {"lobby", "loading"}
    BY <1>4, <2>1, <2>2
  <2> QED
    BY <1>1, <2>2, <2>3
<1>10. InRoll(u, s, over)
  <2>1. CASE Settled(u.phase)
    <3>1. ~AwaitingAck(u.phase) /\ ~AwaitsRollFrame(u.phase) /\ ~InHand(u) /\ ~Rolling(u.phase)
      BY <2>1, KindsOf DEF ShownFor
    <3>2. /\ u.phase.snap = Nothing /\ u.phase.stashed = Nothing
          /\ u.phase.kind = "idle" => u.phase.result = Nothing
      BY <1>1, <1>6, <2>1, IdleIs DEF Timely, InRoll
    <3>3. u.phase.result # Nothing => u.phase.result = t.phase.result
      BY <1>1, IdleIs
    <3>4. u.phase.result # Nothing => /\ u.phase.result.round <= s.round
                                      /\ u.phase.result.round = s.round => over = "announced"
      BY <3>3 DEF Timely, InRoll
    <3> QED
      BY <3>1, <3>2, <3>4 DEF InRoll
  <2>2. CASE ~Settled(u.phase)
    <3>1. Rolling(t.phase) /\ u.phase = t.phase
      BY <1>6, <2>2 DEF Rolling
    <3>2. x.round = t.cur.round /\ (AwaitingAck(t.phase) => MyDiceKey(x) = t.key)
      BY <3>1 DEF MayShow
    <3>3. AwaitingAck(u.phase) => \A y \in Queued(u) : MyDiceKey(y) = u.key /\ y.round = u.cur.round
      BY <1>1, <1>5, <3>1, <3>2 DEF Timely, InRoll
    <3>4. AwaitsRollFrame(u.phase) => (u.cur.round = s.round => u.phase.before <= s.hits)
      BY <1>1, <3>1, <3>2 DEF Timely, InRoll
    <3> QED
      BY <1>1, <3>1, <3>3, <3>4 DEF Timely, InRoll, InHand
  <2> QED
    BY <2>1, <2>2
<1> QED
  BY <1>7, <1>8, <1>9, <1>10 DEF Timely

-----------------------------------------------------------------------------
(* What an event makes of the phase.                                       *)

\* The same roll, in another phase.
SamePhase(p, q) == q.before = p.before /\ q.snap = p.snap /\ q.result = p.result
                   /\ q.stashed = p.stashed

LEMMA CelebratingIs ==
  ASSUME NEW r
  PROVE  /\ Celebrating(r).kind = "celebrating" /\ Celebrating(r).result = r
         /\ Celebrating(r).snap = Nothing /\ Celebrating(r).stashed = Nothing
BY DEF Celebrating, Idle

LEMMA FramePhase ==
  ASSUME NEW p \in FitPhase, AwaitingAck(p), NEW s \in Snap, NEW result \in Result \cup {Nothing}
  PROVE  LET q == Transition(p, [t |-> "SERVER_ROLL", snap |-> s, result |-> result])
         IN  /\ q \in FitPhase /\ q.before = p.before /\ q.stashed = p.stashed
             /\ q.snap = s /\ q.result = result
             /\ q.kind = IF p.kind = "awaitingServer" THEN "revealing" ELSE "settling"
<1> DEFINE ev == [t |-> "SERVER_ROLL", snap |-> s, result |-> result]
<1>1. ev.t = "SERVER_ROLL" /\ ev.snap = s /\ ev.result = result
  OBVIOUS
<1>2. Transition(p, ev) \in FitPhase
  BY FrameLeads
<1> HIDE DEF ev
<1>3. \A kind : LET q == Holding(p, kind, ev)
                IN  /\ q.kind = kind /\ q.snap = s /\ q.result = result
                    /\ q.before = p.before /\ q.stashed = p.stashed
  BY <1>1 DEF Holding, FitPhase, Phase
<1>4. CASE p.kind \in {"shaking", "settling"}
  <2>1. Transition(p, ev) = Holding(p, "settling", ev)
    BY <1>1, <1>4 DEF Transition
  <2> QED
    BY <1>2, <1>3, <1>4, <2>1 DEF ev
<1>5. CASE p.kind = "awaitingServer"
  <2>1. Transition(p, ev) = Holding(p, "revealing", ev)
    BY <1>1, <1>5 DEF Transition
  <2> QED
    BY <1>2, <1>3, <1>5, <2>1 DEF ev
<1> QED
  BY <1>4, <1>5 DEF AwaitingAck

LEMMA StashPhase ==
  ASSUME NEW p \in FitPhase, HoldsRollFrame(p), NEW s \in Snap
  PROVE  LET q == Transition(p, [t |-> "BROADCAST", snap |-> s])
         IN  /\ q \in FitPhase /\ q.kind = "settling" /\ q.before = p.before
             /\ q.snap = p.snap /\ q.result = p.result /\ q.stashed = s
<1>1. Transition(p, [t |-> "BROADCAST", snap |-> s]) = [p EXCEPT !.stashed = s]
  BY DEF Transition, HoldsRollFrame
<1> QED
  BY <1>1 DEF FitPhase, Phase, HoldsRollFrame

LEMMA ShakePhase ==
  ASSUME NEW p \in FitPhase, p.kind \in {"shaking", "settling"}
  PROVE  LET q == Transition(p, [t |-> "SHAKE_DONE"])
         IN  /\ q \in FitPhase /\ SamePhase(p, q)
             /\ q.kind = IF p.kind = "shaking" THEN "awaitingServer" ELSE "revealing"
<1> DEFINE kind == IF p.kind = "shaking" THEN "awaitingServer" ELSE "revealing"
<1>1. Transition(p, [t |-> "SHAKE_DONE"]) = [p EXCEPT !.kind = kind]
  <2>1. CASE p.kind = "shaking"
    BY <2>1 DEF Transition
  <2>2. CASE p.kind = "settling"
    BY <2>2 DEF Transition
  <2> QED
    BY <2>1, <2>2
<1>2. Transition(p, [t |-> "SHAKE_DONE"]) \in FitPhase
  BY TimeLeads
<1> HIDE DEF kind
<1>3. LET q == [p EXCEPT !.kind = kind] IN q.kind = kind /\ SamePhase(p, q)
  BY DEF FitPhase, Phase, SamePhase
<1> QED
  BY <1>1, <1>2, <1>3 DEF kind

LEMMA SentPhase ==
  ASSUME NEW p \in FitPhase, p.kind = "idle", NEW n \in Nat
  PROVE  LET q == Transition(p, [t |-> "ROLL_SENT", before |-> n])
         IN  /\ q \in FitPhase /\ q.kind = "shaking" /\ q.before = n
             /\ q.snap = Nothing /\ q.result = Nothing /\ q.stashed = Nothing
<1>1. Transition(p, [t |-> "ROLL_SENT", before |-> n]) =
        [Idle EXCEPT !.kind = "shaking", !.before = n]
  BY DEF Transition
<1>2. Transition(p, [t |-> "ROLL_SENT", before |-> n]) \in FitPhase
  BY SentLeads
<1> QED
  BY <1>1, <1>2 DEF Idle

\* What the phase is after a reveal.
After(p) == IF p.result = Nothing THEN Idle ELSE Celebrating(p.result)

LEMMA AfterIs ==
  ASSUME NEW p \in FitPhase, p.kind = "revealing"
  PROVE  /\ Transition(p, [t |-> "REVEAL_DONE"]) = After(p) /\ After(p) \in FitPhase
         /\ After(p).kind = IF p.result = Nothing THEN "idle" ELSE "celebrating"
         /\ After(p).result = p.result /\ After(p).snap = Nothing /\ After(p).stashed = Nothing
<1>1. Transition(p, [t |-> "REVEAL_DONE"]) = After(p)
  BY DEF Transition, After
<1>2. Transition(p, [t |-> "REVEAL_DONE"]) \in FitPhase
  BY RevealLeads
<1> QED
  BY <1>1, <1>2, IdleIs, CelebratingIs DEF After

-----------------------------------------------------------------------------
(* The end of a reveal.                                                    *)

\* A reveal is over, nothing else has happened yet.
Done(t) ==
  [Dispatch(t, [t |-> "REVEAL_DONE"]) EXCEPT !.button = IF @ = "none" THEN @ ELSE "on"]

Calm(t) == IF t.phase.result # Nothing THEN ShowDialog(Done(t), "winner")
           ELSE HideDialogs(Done(t), {"winner"})

Calmed(t, w) ==
  /\ w \in FitTab /\ w.phase = After(t.phase) /\ w.timers = t.timers
  /\ SameBoard(t, w) /\ SameQueue(t, w) /\ SamePage(t, w) /\ w.cur = t.cur
  /\ w.skipped = t.skipped
  /\ w.button = IF t.button = "none" THEN "none" ELSE "on"
  /\ t.phase.result # Nothing => w.dialogs = t.dialogs \cup {"winner"}
  /\ t.phase.result = Nothing => w.dialogs = t.dialogs \ {"winner"}

LEMMA CalmIs ==
  ASSUME NEW t \in FitTab, t.phase.kind = "revealing"
  PROVE  Calmed(t, Calm(t))
<1> DEFINE sent == Dispatch(t, [t |-> "REVEAL_DONE"])
           button == IF sent.button = "none" THEN sent.button ELSE "on"
           done == [sent EXCEPT !.button = button]
<1>0. t.phase \in FitPhase
  BY TabHas
<1>1. /\ sent \in FitTab /\ sent.phase = After(t.phase) /\ sent.timers = t.timers
      /\ SameBoard(t, sent) /\ SameQueue(t, sent) /\ SamePage(t, sent)
      /\ sent.dialogs = t.dialogs /\ sent.cur = t.cur /\ sent.button = t.button
      /\ sent.skipped = t.skipped
  BY <1>0, AfterIs, DispatchIs
<1>2. Done(t) = done
  BY DEF Done
<1> HIDE DEF sent
<1>3. button \in {"none", "on", "off"} /\ button = IF t.button = "none" THEN "none" ELSE "on"
  BY <1>1
<1> HIDE DEF button
<1>4. /\ done \in FitTab /\ done.phase = sent.phase /\ done.timers = sent.timers
      /\ SameBoard(sent, done) /\ SameQueue(sent, done) /\ SamePage(sent, done)
      /\ done.dialogs = sent.dialogs /\ done.cur = sent.cur /\ done.button = button
      /\ done.skipped = sent.skipped
  BY <1>1, <1>3 DEF FitTab, SameBoard, SameQueue, SamePage
<1> HIDE DEF done
<1>5. CASE t.phase.result # Nothing
  <2> DEFINE w == ShowDialog(done, "winner")
  <2>1. /\ w \in FitTab /\ SameRoll(done, w) /\ SameBoard(done, w) /\ SamePage(done, w)
        /\ SameQueue(done, w) /\ w.dialogs = done.dialogs \cup {"winner"}
        /\ w.cur = done.cur /\ w.button = done.button /\ w.skipped = done.skipped
    BY <1>4, ShowDialogIs
  <2>2. Calm(t) = w
    BY <1>2, <1>5 DEF Calm
  <2> HIDE DEF w
  <2>3. Calmed(t, w)
    BY <1>1, <1>3, <1>4, <1>5, <2>1 DEF Calmed, SameRoll, SameBoard, SameQueue, SamePage
  <2> QED
    BY <2>2, <2>3
<1>6. CASE t.phase.result = Nothing
  <2> DEFINE w == HideDialogs(done, {"winner"})
  <2>1. /\ w \in FitTab /\ SameRoll(done, w) /\ SameBoard(done, w) /\ SamePage(done, w)
        /\ SameQueue(done, w) /\ w.dialogs = done.dialogs \ {"winner"}
        /\ w.cur = done.cur /\ w.button = done.button /\ w.skipped = done.skipped
    BY <1>4, HideIs
  <2>2. Calm(t) = w
    BY <1>2, <1>6 DEF Calm
  <2> HIDE DEF w
  <2>3. Calmed(t, w)
    BY <1>1, <1>3, <1>4, <1>6, <2>1 DEF Calmed, SameRoll, SameBoard, SameQueue, SamePage
  <2> QED
    BY <2>2, <2>3
<1> QED
  BY <1>5, <1>6

\* u is t, but that a frame may have been passed over.
Marked(t, b, u) == Same(t, u) /\ u.delays = t.delays /\ u.dialogs = t.dialogs
                   /\ (u.skipped <=> t.skipped \/ b)

LEMMA MarkIs ==
  ASSUME NEW t \in FitTab, NEW b \in BOOLEAN
  PROVE  Marked(t, b, Passed(t, b))
BY PassedIs DEF Marked, Same, SamePage

\* What follows the end of a reveal.
Completed(t, w, u) ==
  /\ Calmed(t, w)
  /\ t.phase.result # Nothing =>
       Marked(w, t.phase.stashed # Nothing \/ t.soon # <<>> \/ t.intros # <<>>, u)
  /\ t.phase.result = Nothing /\ t.phase.stashed # Nothing =>
       \E v : ShownFor(w, t.phase.stashed, v) /\ Marked(v, t.skipped, u)
  /\ t.phase.result = Nothing /\ t.phase.stashed = Nothing => u = w

LEMMA CompleteIs ==
  ASSUME NEW t \in FitTab, t.phase.kind = "revealing"
  PROVE  Completed(t, Calm(t), Complete(t))
<1> DEFINE w == Calm(t)
           b == t.phase.stashed # Nothing \/ Pending(t)
           v == ShowFor(HideDialogs(Done(t), {"winner"}), t.phase.stashed)
<1>1. Complete(t) =
        CASE t.phase.kind = "revealing" /\ t.phase.result # Nothing ->
               Passed(ShowDialog(Done(t), "winner"), b)
          [] t.phase.kind = "revealing" /\ t.phase.result = Nothing /\ t.phase.stashed # Nothing ->
               Passed(v, t.skipped)
          [] OTHER -> HideDialogs(Done(t), {"winner"})
  BY DEF Complete, Done
<1>2. Calmed(t, w)
  BY CalmIs
<1>3. b \in BOOLEAN /\ (b <=> t.phase.stashed # Nothing \/ t.soon # <<>> \/ t.intros # <<>>)
  BY DEF Pending
<1>4. t.skipped \in BOOLEAN /\ t.phase.stashed \in Snap \cup {Nothing}
  BY KindsOf DEF FitTab
<1>5. CASE t.phase.result # Nothing
  <2>1. Complete(t) = Passed(w, b)
    <3> HIDE DEF b, v
    <3>1. Complete(t) = Passed(ShowDialog(Done(t), "winner"), b)
      BY <1>1, <1>5
    <3> QED
      BY <1>5, <3>1 DEF Calm
  <2> HIDE DEF w, b
  <2>2. w \in FitTab
    BY <1>2 DEF Calmed
  <2>3. Marked(w, b, Passed(w, b))
    BY <1>3, <2>2, MarkIs
  <2>4. Marked(w, t.phase.stashed # Nothing \/ t.soon # <<>> \/ t.intros # <<>>, Passed(w, b))
    BY <1>3, <2>3 DEF Marked
  <2>5. Completed(t, w, Complete(t))
    BY <1>2, <1>5, <2>1, <2>4 DEF Completed
  <2> QED
    BY <2>5 DEF w
<1>6. CASE t.phase.result = Nothing /\ t.phase.stashed # Nothing
  <2>1. Complete(t) = Passed(v, t.skipped) /\ v = ShowFor(w, t.phase.stashed)
    <3>1. v = ShowFor(w, t.phase.stashed)
      BY <1>6 DEF Calm
    <3> HIDE DEF b, v, w
    <3>2. Complete(t) = Passed(v, t.skipped)
      BY <1>1, <1>6
    <3> QED
      BY <3>1, <3>2
  <2> HIDE DEF w, v, b
  <2>2. ShownFor(w, t.phase.stashed, v)
    <3>1. w \in FitTab
      BY <1>2 DEF Calmed
    <3> QED
      BY <1>4, <1>6, <2>1, <3>1, ShowForIs
  <2>3. Marked(v, t.skipped, Passed(v, t.skipped))
    <3>1. v \in FitTab
      BY <2>2 DEF ShownFor
    <3> QED
      BY <1>4, <3>1, MarkIs
  <2>4. Completed(t, w, Complete(t))
    BY <1>2, <1>6, <2>1, <2>2, <2>3 DEF Completed
  <2> QED
    BY <2>4 DEF w
<1>7. CASE t.phase.result = Nothing /\ t.phase.stashed = Nothing
  <2>1. Complete(t) = w
    <3> HIDE DEF b, v
    <3>1. Complete(t) = HideDialogs(Done(t), {"winner"})
      BY <1>1, <1>7
    <3> QED
      BY <1>7, <3>1 DEF Calm
  <2> HIDE DEF w, v, b
  <2>2. Completed(t, w, Complete(t))
    BY <1>2, <1>7, <2>1 DEF Completed
  <2> QED
    BY <2>2 DEF w
<1> QED
  BY <1>5, <1>6, <1>7

-----------------------------------------------------------------------------
(* The reveal, from timer to timer.                                        *)

\* u is t but for its dice and its timers, and shows s.
Revealing(t, s, u) ==
  /\ u \in FitTab /\ u.phase = t.phase /\ SameQueue(t, u) /\ SamePage(t, u)
  /\ u.dialogs = t.dialogs /\ u.cur = s /\ u.key = MyDiceKey(s)

\* The dice have begun to tumble.
Begun(t, u) ==
  /\ Revealing(t, t.phase.snap, u) /\ u.timers = {"reveal"} /\ u.tumbling = TRUE
  /\ u.round = t.round /\ u.faces = t.faces /\ u.locked = t.locked /\ u.loose = t.loose
  /\ (u.cut <=> t.cut \/ t.locked # t.phase.before)
  /\ u.button = t.button /\ (u.skipped <=> t.skipped \/ t.soon # <<>> \/ t.intros # <<>>)

\* There is nothing to tumble.
Redrawn(t, u) ==
  /\ Revealing(t, t.phase.snap, u) /\ u.timers = {} /\ Fresh(t.phase.snap, u)
  /\ u.cut = FALSE /\ u.button = "on"
  /\ (u.skipped <=> t.skipped \/ t.soon # <<>> \/ t.intros # <<>>)

LEMMA RunRevealIs ==
  ASSUME NEW t \in FitTab, t.phase.kind = "revealing"
  PROVE  LET s == t.phase.snap
         IN  /\ t.loose # 0 /\ s.round = t.round => Begun(t, RunReveal(t))
             /\ t.loose = 0 \/ s.round # t.round =>
                  \E v : Redrawn(t, v) /\ RunReveal(t) = Complete(v)
<1> DEFINE s == t.phase.snap
           key == MyDiceKey(s)
           b == Pending(t)
           passed == Passed(t, b)
           held == [passed EXCEPT !.cur = s, !.key = key, !.timers = {}]
           drawn == RenderMyArea(held, s)
           cut == held.cut \/ t.locked # t.phase.before
           begun == [held EXCEPT !.timers = {"reveal"}, !.tumbling = TRUE, !.cut = cut]
<1>1. s \in Snap
  BY KindsOf DEF InHand
<1>2. RunReveal(t) = IF t.loose = 0 \/ s.round # t.round THEN Complete(drawn) ELSE begun
  BY DEF RunReveal
<1>3. b \in BOOLEAN /\ (b <=> t.soon # <<>> \/ t.intros # <<>>)
  BY DEF Pending
<1>4. key \in Nat \X Nat
  BY <1>1, SnapIs
<1>40. key = MyDiceKey(s)
  OBVIOUS
<1> HIDE DEF s, b, key
<1>5. /\ passed \in FitTab /\ SameRoll(t, passed) /\ SameBoard(t, passed) /\ SamePage(t, passed)
      /\ SameQueue(t, passed) /\ passed.dialogs = t.dialogs
      /\ passed.cur = t.cur /\ passed.button = t.button /\ (passed.skipped <=> t.skipped \/ b)
  BY <1>3, PassedIs
<1> HIDE DEF passed
<1>6. /\ held \in FitTab /\ held.phase = passed.phase /\ SameQueue(passed, held)
      /\ SamePage(passed, held) /\ held.dialogs = passed.dialogs /\ held.cur = s
      /\ held.key = key /\ held.timers = {} /\ held.round = passed.round
      /\ held.faces = passed.faces /\ held.locked = passed.locked /\ held.loose = passed.loose
      /\ held.cut = passed.cut /\ held.button = passed.button
      /\ held.skipped = passed.skipped
  BY <1>1, <1>4, <1>5 DEF FitTab, SameQueue, SamePage
<1> HIDE DEF held
<1>7. /\ drawn \in FitTab /\ SameRoll(held, drawn) /\ SameQueue(held, drawn) /\ SamePage(held, drawn)
      /\ Fresh(s, drawn) /\ drawn.cut = FALSE /\ drawn.key = held.key /\ drawn.button = "on"
      /\ drawn.dialogs = held.dialogs /\ drawn.cur = held.cur /\ drawn.skipped = held.skipped
  BY <1>1, <1>6, AreaIs
<1> HIDE DEF drawn
<1>8. cut \in BOOLEAN /\ (cut <=> t.cut \/ t.locked # t.phase.before)
  BY <1>5, <1>6 DEF FitTab, SameBoard
<1> HIDE DEF cut
<1>9. /\ begun \in FitTab /\ begun.phase = held.phase /\ SameQueue(held, begun)
      /\ SamePage(held, begun) /\ begun.dialogs = held.dialogs /\ begun.cur = held.cur
      /\ begun.key = held.key /\ begun.timers = {"reveal"} /\ begun.tumbling = TRUE
      /\ begun.round = held.round /\ begun.faces = held.faces /\ begun.locked = held.locked
      /\ begun.loose = held.loose /\ begun.cut = cut /\ begun.button = held.button
      /\ begun.skipped = held.skipped
  BY <1>6, <1>8 DEF FitTab, SameQueue, SamePage
<1> HIDE DEF begun
<1>10. Revealing(t, s, begun) /\ Revealing(t, s, drawn)
  BY <1>5, <1>6, <1>7, <1>9, <1>40 DEF Revealing, SameRoll, SameBoard, SamePage, SameQueue
<1>11. s = t.phase.snap
  BY DEF s
<1>12. Begun(t, begun) /\ Redrawn(t, drawn)
  BY <1>3, <1>5, <1>6, <1>7, <1>8, <1>9, <1>10, <1>11
  DEF Begun, Redrawn, SameBoard, SameRoll
<1> QED
  BY <1>2, <1>11, <1>12

\* The faces are shown.
Faced(t, u) ==
  /\ u \in FitTab /\ u.phase = t.phase /\ SameQueue(t, u) /\ SamePage(t, u)
  /\ u.dialogs = t.dialogs /\ u.cur = t.cur /\ u.key = t.key /\ u.button = t.button
  /\ u.skipped = t.skipped /\ u.round = t.round /\ u.locked = t.locked /\ u.loose = t.loose
  /\ (u.cut <=> t.cut \/ ~t.tumbling)
  /\ t.tumbling => u.faces = MyDiceKey(t.phase.snap)

LEMMA RevealTimerIs ==
  ASSUME NEW t \in FitTab, t.phase.kind = "revealing"
  PROVE  LET s == t.phase.snap
             u == RevealTimer(t)
             wins == t.phase.result # Nothing /\ t.phase.result.mine
         IN  \/ ~wins /\ Faced(t, u) /\ u.timers = {"pop"} /\ u.tumbling = t.tumbling
             \/ /\ wins \/ ~(s.hits > t.phase.before)
                /\ \E v : /\ Faced(t, v) /\ v.timers = {} /\ v.tumbling = FALSE
                          /\ u = Complete(v)
<1> DEFINE s == t.phase.snap
           u == RevealTimer(t)
           wins == t.phase.result # Nothing /\ t.phase.result.mine
           cut == t.cut \/ ~t.tumbling
           faces == IF t.tumbling THEN MyDiceKey(s) ELSE t.faces
           shown == [t EXCEPT !.timers = {}, !.cut = cut, !.faces = faces]
           rest == [shown EXCEPT !.tumbling = FALSE]
           popping == [shown EXCEPT !.timers = {"pop"}]
<1>1. u = IF ~wins /\ s.hits > t.phase.before THEN popping ELSE Complete(rest)
  BY DEF RevealTimer
<1>2. s \in Snap
  BY KindsOf DEF InHand
<1>3. faces \in Nat \X Nat /\ (t.tumbling => faces = MyDiceKey(s)) /\ cut \in BOOLEAN
      /\ (cut <=> t.cut \/ ~t.tumbling)
  BY <1>2, SnapIs DEF FitTab
<1> HIDE DEF cut, faces, s
<1>4. /\ shown \in FitTab /\ shown.phase = t.phase /\ SameQueue(t, shown) /\ SamePage(t, shown)
      /\ shown.dialogs = t.dialogs /\ shown.cur = t.cur /\ shown.key = t.key
      /\ shown.button = t.button /\ shown.skipped = t.skipped /\ shown.round = t.round
      /\ shown.locked = t.locked /\ shown.loose = t.loose /\ shown.cut = cut
      /\ shown.faces = faces /\ shown.tumbling = t.tumbling
  BY <1>3 DEF FitTab, SameQueue, SamePage
<1> HIDE DEF shown
<1>5. /\ rest \in FitTab /\ rest.phase = shown.phase /\ SameQueue(shown, rest)
      /\ SamePage(shown, rest) /\ rest.dialogs = shown.dialogs /\ rest.cur = shown.cur
      /\ rest.key = shown.key /\ rest.button = shown.button /\ rest.skipped = shown.skipped
      /\ rest.round = shown.round /\ rest.locked = shown.locked /\ rest.loose = shown.loose
      /\ rest.cut = shown.cut /\ rest.faces = shown.faces /\ rest.tumbling = FALSE
      /\ rest.timers = shown.timers
  BY <1>4 DEF FitTab, SameQueue, SamePage
<1>6. /\ popping \in FitTab /\ popping.phase = shown.phase /\ SameQueue(shown, popping)
      /\ SamePage(shown, popping) /\ popping.dialogs = shown.dialogs /\ popping.cur = shown.cur
      /\ popping.key = shown.key /\ popping.button = shown.button
      /\ popping.skipped = shown.skipped
      /\ popping.round = shown.round /\ popping.locked = shown.locked
      /\ popping.loose = shown.loose /\ popping.cut = shown.cut /\ popping.faces = shown.faces
      /\ popping.tumbling = shown.tumbling /\ popping.timers = {"pop"}
  BY <1>4 DEF FitTab, SameQueue, SamePage
<1>60. shown.timers = {}
  BY DEF shown, FitTab
<1> HIDE DEF rest, popping
<1>7. s = t.phase.snap
  BY DEF s
<1>8. Faced(t, rest) /\ Faced(t, popping)
  BY <1>3, <1>4, <1>5, <1>6, <1>7 DEF Faced, SameQueue, SamePage
<1> HIDE DEF wins
<1>9. \/ ~wins /\ Faced(t, u) /\ u.timers = {"pop"} /\ u.tumbling = t.tumbling
      \/ /\ wins \/ ~(s.hits > t.phase.before)
         /\ \E v : Faced(t, v) /\ v.timers = {} /\ v.tumbling = FALSE /\ u = Complete(v)
  BY <1>1, <1>4, <1>5, <1>6, <1>60, <1>8
<1> QED
  BY <1>9 DEF wins, s

\* The dice that match are moved, if the board is still that of the round.
LEMMA PopTimerIs ==
  ASSUME NEW t \in FitTab, t.phase.kind = "revealing"
  PROVE  LET s == t.phase.snap
         IN  \E v : /\ v \in FitTab /\ v.phase = t.phase /\ v.timers = {}
                    /\ SameQueue(t, v) /\ SamePage(t, v) /\ v.dialogs = t.dialogs
                    /\ v.cur = t.cur /\ v.key = t.key /\ v.button = t.button
                    /\ v.skipped = t.skipped /\ v.round = t.round /\ v.faces = t.faces
                    /\ \/ /\ t.cur # Nothing /\ t.cur.round # s.round
                          /\ SameBoard(t, v)
                       \/ /\ v.locked = s.hits /\ v.tumbling = FALSE
                          /\ (v.cut <=> t.cut \/ ~t.tumbling)
                          /\ t.tumbling => v.loose = Dice - s.hits
                    /\ PopTimer(t) = Complete(v)
<1> DEFINE s == t.phase.snap
           locked == s.hits
           cut == t.cut \/ ~t.tumbling
           loose == IF t.tumbling THEN Dice - s.hits ELSE t.loose
           popped == [t EXCEPT !.timers = {}]
           moved == [popped EXCEPT !.locked = locked, !.tumbling = FALSE, !.cut = cut,
                                   !.loose = loose]
<1>1. PopTimer(t) = IF t.cur # Nothing /\ t.cur.round # s.round THEN Complete(popped)
                    ELSE Complete(moved)
  <2>1. popped.cut = t.cut /\ popped.loose = t.loose
    BY DEF FitTab
  <2> QED
    BY <2>1 DEF PopTimer
<1>2. s \in Snap
  BY KindsOf DEF InHand
<1>30. locked \in Nat /\ loose \in Nat /\ cut \in BOOLEAN
  BY <1>2, SnapIs DEF FitTab
<1>3. /\ locked = s.hits
      /\ (cut <=> t.cut \/ ~t.tumbling) /\ (t.tumbling => loose = Dice - s.hits)
  BY <1>2, SnapIs DEF FitTab
<1> HIDE DEF s, locked, cut, loose
<1>4. /\ popped \in FitTab /\ popped.phase = t.phase /\ popped.timers = {}
      /\ SameQueue(t, popped) /\ SamePage(t, popped) /\ SameBoard(t, popped)
      /\ popped.dialogs = t.dialogs /\ popped.cur = t.cur /\ popped.button = t.button
      /\ popped.skipped = t.skipped
  BY DEF FitTab, SameQueue, SamePage, SameBoard
<1> HIDE DEF popped
<1>5. /\ moved \in FitTab /\ moved.phase = popped.phase /\ moved.timers = popped.timers
      /\ SameQueue(popped, moved) /\ SamePage(popped, moved)
      /\ moved.dialogs = popped.dialogs /\ moved.cur = popped.cur /\ moved.key = popped.key
      /\ moved.button = popped.button /\ moved.skipped = popped.skipped
      /\ moved.round = popped.round /\ moved.faces = popped.faces /\ moved.locked = locked
      /\ moved.tumbling = FALSE /\ moved.cut = cut /\ moved.loose = loose
  <2>1. popped \in FitTab
    BY <1>4
  <2> QED
    BY <1>30, <2>1 DEF FitTab, SameQueue, SamePage
<1> HIDE DEF moved
<1>6. CASE t.cur # Nothing /\ t.cur.round # s.round
  <2>1. PopTimer(t) = Complete(popped)
    BY <1>1, <1>6
  <2> QED
    BY <1>4, <1>6, <2>1 DEF SameBoard, s
<1>7. CASE ~(t.cur # Nothing /\ t.cur.round # s.round)
  <2>1. PopTimer(t) = Complete(moved)
    BY <1>1, <1>7
  <2>2. SameQueue(t, moved) /\ SamePage(t, moved)
    BY <1>4, <1>5 DEF SameQueue, SamePage
  <2> QED
    BY <1>3, <1>4, <1>5, <2>1, <2>2 DEF SameBoard, s
<1> QED
  BY <1>6, <1>7

LEMMA FiredIs ==
  ASSUME NEW t \in FitTab, NEW timers \in SUBSET {"pump", "reveal", "pop"}
  PROVE  LET u == [t EXCEPT !.timers = timers]
         IN  /\ u \in FitTab /\ u.phase = t.phase /\ u.timers = timers
             /\ SameBoard(t, u) /\ SameQueue(t, u) /\ SamePage(t, u) /\ u.dialogs = t.dialogs
             /\ u.cur = t.cur /\ u.button = t.button /\ u.skipped = t.skipped
BY DEF FitTab, SameBoard, SameQueue, SamePage

\* Only the phase and the timers are others.
Turned(t, u) ==
  /\ u \in FitTab /\ SameBoard(t, u) /\ SameQueue(t, u) /\ SamePage(t, u)
  /\ u.dialogs = t.dialogs /\ u.cur = t.cur /\ u.button = t.button /\ u.skipped = t.skipped

LEMMA PumpIs ==
  ASSUME NEW t \in FitTab, HasTimer(t), "pump" \in t.timers
  PROVE  LET u == Pump(t)
         IN  \/ /\ t.phase.kind = "shaking" /\ Turned(t, u) /\ u.timers = {"pump"}
                /\ u.phase.kind = "awaitingServer" /\ SamePhase(t.phase, u.phase)
             \/ /\ Held(t)
                /\ \E v : /\ Turned(t, v) /\ v.timers = {} /\ v.phase.kind = "revealing"
                          /\ SamePhase(t.phase, v.phase) /\ u = RunReveal(v)
             \/ /\ t.phase.kind = "awaitingServer"
                /\ \E v : /\ Turned(t, v) /\ v.timers = {} /\ v.phase = Idle /\ u = Unstick(v)
<1> DEFINE u == Pump(t)
           timers == t.timers \ {"pump"}
           fired == [t EXCEPT !.timers = timers]
<1>0. t.phase \in FitPhase
  BY TabHas
<1>1. timers \in SUBSET {"pump", "reveal", "pop"}
  BY DEF FitTab
<1>2. AwaitingAck(t.phase) \/ t.phase.kind = "revealing" => timers = {} /\ t.timers = {"pump"}
  BY DEF HasTimer
<1>3. u = CASE t.phase.kind = "shaking" ->
                 [Dispatch(t, [t |-> "SHAKE_DONE"]) EXCEPT !.timers = {"pump"}]
            [] t.phase.kind = "settling" -> RunReveal(Dispatch(fired, [t |-> "SHAKE_DONE"]))
            [] t.phase.kind = "awaitingServer" -> Unstick(Dispatch(fired, [t |-> "GIVE_UP"]))
            [] t.phase.kind = "revealing" -> RunReveal(fired)
            [] OTHER -> fired
  BY DEF Pump
<1> HIDE DEF u, timers
<1>4. /\ fired \in FitTab /\ fired.phase = t.phase /\ fired.timers = timers
      /\ SameBoard(t, fired) /\ SameQueue(t, fired) /\ SamePage(t, fired)
      /\ fired.dialogs = t.dialogs /\ fired.cur = t.cur /\ fired.button = t.button
      /\ fired.skipped = t.skipped
  BY <1>1, FiredIs
<1> HIDE DEF fired
<1>5. CASE t.phase.kind = "shaking"
  <2> DEFINE sent == Dispatch(t, [t |-> "SHAKE_DONE"])
             v == [sent EXCEPT !.timers = {"pump"}]
  <2>1. /\ Transition(t.phase, [t |-> "SHAKE_DONE"]) \in FitPhase
        /\ Transition(t.phase, [t |-> "SHAKE_DONE"]).kind = "awaitingServer"
        /\ SamePhase(t.phase, Transition(t.phase, [t |-> "SHAKE_DONE"]))
    BY <1>0, <1>5, ShakePhase
  <2>2. /\ sent \in FitTab /\ sent.phase = Transition(t.phase, [t |-> "SHAKE_DONE"])
        /\ Turned(t, sent)
    BY <2>1, DispatchIs DEF Turned
  <2>3. u = v
    BY <1>3, <1>5
  <2> HIDE DEF sent
  <2>4. v \in FitTab /\ v.phase = sent.phase /\ v.timers = {"pump"} /\ Turned(sent, v)
    BY <2>2, FiredIs DEF Turned
  <2> HIDE DEF v
  <2> QED
    BY <1>5, <2>1, <2>2, <2>3, <2>4 DEF Turned, SameBoard, SameQueue, SamePage, u
<1>6. CASE t.phase.kind = "settling"
  <2> DEFINE v == Dispatch(fired, [t |-> "SHAKE_DONE"])
  <2>1. /\ Transition(t.phase, [t |-> "SHAKE_DONE"]) \in FitPhase
        /\ Transition(t.phase, [t |-> "SHAKE_DONE"]).kind = "revealing"
        /\ SamePhase(t.phase, Transition(t.phase, [t |-> "SHAKE_DONE"]))
    BY <1>0, <1>6, ShakePhase
  <2>2. /\ v \in FitTab /\ v.phase = Transition(t.phase, [t |-> "SHAKE_DONE"])
        /\ v.timers = fired.timers /\ Turned(fired, v)
    BY <1>4, <2>1, DispatchIs DEF Turned
  <2>3. u = RunReveal(v)
    BY <1>3, <1>6
  <2> HIDE DEF v
  <2>4. Turned(t, v) /\ v.timers = {}
    BY <1>2, <1>4, <1>6, <2>2 DEF Turned, SameBoard, SameQueue, SamePage, AwaitingAck
  <2> QED
    BY <1>6, <2>1, <2>2, <2>3, <2>4 DEF Held, u
<1>7. CASE t.phase.kind = "awaitingServer"
  <2> DEFINE v == Dispatch(fired, [t |-> "GIVE_UP"])
  <2>1. Transition(t.phase, [t |-> "GIVE_UP"]) = Idle
    BY <1>0, <1>7, TimeLeads
  <2>2. v \in FitTab /\ v.phase = Idle /\ v.timers = fired.timers /\ Turned(fired, v)
    BY <1>4, <2>1, IdleFits, DispatchIs DEF Turned
  <2>3. u = Unstick(v)
    BY <1>3, <1>7
  <2> HIDE DEF v
  <2>4. Turned(t, v) /\ v.timers = {}
    BY <1>2, <1>4, <1>7, <2>2 DEF Turned, SameBoard, SameQueue, SamePage, AwaitingAck
  <2> QED
    BY <1>7, <2>2, <2>3, <2>4 DEF u
<1>8. CASE t.phase.kind = "revealing"
  <2>1. u = RunReveal(fired)
    BY <1>3, <1>8
  <2>2. Turned(t, fired) /\ fired.timers = {}
    BY <1>2, <1>4, <1>8 DEF Turned
  <2> QED
    BY <1>4, <1>8, <2>1, <2>2 DEF Held, SamePhase, u
<1>9. AwaitingAck(t.phase) \/ t.phase.kind = "revealing"
  BY KindsOf DEF HasTimer, Settled, Kinds, AwaitingAck
<1> QED
  BY <1>5, <1>6, <1>7, <1>8, <1>9 DEF AwaitingAck

LEMMA UnstickIs ==
  ASSUME NEW t \in FitTab, t.cur \in Snap
  PROVE  LET u == Unstick(t)
         IN  /\ u \in FitTab /\ SameRoll(t, u) /\ SameQueue(t, u) /\ SamePage(t, u)
             /\ Fresh(t.cur, u) /\ (u.cut <=> MyDiceKey(t.cur) # t.key) /\ u.key = t.key
             /\ u.button = "on" /\ u.dialogs = t.dialogs /\ u.cur = t.cur
             /\ u.skipped = t.skipped
<1> DEFINE button == IF t.button = "none" THEN t.button ELSE "on"
           on == [t EXCEPT !.button = button]
<1>1. Unstick(t) = Repaint(on)
  <2>1. on.cur = t.cur /\ t.cur # Nothing
    BY SnapIs DEF FitTab
  <2> QED
    BY <2>1 DEF Unstick
<1>2. button \in {"none", "on", "off"}
  BY DEF FitTab
<1> HIDE DEF button
<1>3. /\ on \in FitTab /\ SameRoll(t, on) /\ SameQueue(t, on) /\ SamePage(t, on)
      /\ on.key = t.key /\ on.dialogs = t.dialogs /\ on.cur = t.cur /\ on.skipped = t.skipped
  BY <1>2 DEF FitTab, SameRoll, SameQueue, SamePage
<1> HIDE DEF on
<1>4. LET u == Repaint(on)
      IN  /\ u \in FitTab /\ SameRoll(on, u) /\ SameQueue(on, u) /\ SamePage(on, u)
          /\ Fresh(on.cur, u) /\ (u.cut <=> MyDiceKey(on.cur) # on.key) /\ u.key = on.key
          /\ u.button = "on" /\ u.dialogs = on.dialogs /\ u.cur = on.cur
          /\ u.skipped = on.skipped
  BY <1>3, RepaintIs
<1> QED
  BY <1>1, <1>3, <1>4 DEF SameRoll, SameQueue, SamePage

================================================================================
