---------------------------- MODULE LatestShownProofs ----------------------------
(***************************************************************************)
(* What a player's page shows once it is at rest, for any number of dice,  *)
(* rounds, rolls, pauses, lost frames and lost connections: the last frame *)
(* that arrived, a button that works, overlays that tell the truth.        *)
(*                                                                         *)
(* RollInv is the inductive invariant.  In a game that goes on, everything *)
(* the page holds is of its past (Timely), the dice on the board are those *)
(* of key (Board), the lobby is never shown after the game (First); and as *)
(* long as no frame was passed, what is left to be done ends with the last *)
(* frame on the page (Aim).                                                *)
(***************************************************************************)
EXTENDS RollClientProofs

-----------------------------------------------------------------------------
(* The phases in their time.                                               *)

KeyTimely(t, s) ==
  /\ t.key[1] < s.round \/ (t.key[1] = s.round /\ t.key[2] <= s.rolls)
  /\ t.key[1] <= t.cur.round
  /\ t.key # <<0, 0>> => t.button # "none"

\* A phase that has nothing in hand.
AtEase(p, s, over) ==
  /\ Settled(p) /\ p.snap = Nothing /\ p.stashed = Nothing
  /\ p.kind = "idle" => p.result = Nothing
  /\ p.result # Nothing => /\ p.result.round <= s.round
                           /\ p.result.round = s.round => over = "announced"

LEMMA IdleAtEase == ASSUME NEW s, NEW over PROVE AtEase(Idle, s, over)
BY IdleIs DEF AtEase, Settled

LEMMA QueuedSame ==
  ASSUME NEW t, NEW u, SameQueue(t, u)
  PROVE  Queued(u) = Queued(t) /\ Entries(u.soon) = Entries(t.soon)
BY DEF SameQueue, Queued

LEMMA RestTimely ==
  ASSUME NEW t \in FitTab, NEW s \in Snap, NEW before, Timely(t, s, before), NEW over,
         NEW u \in FitTab, AtEase(u.phase, s, over), Queued(u) \subseteq Queued(t), Stays(u),
         Unstarted(u, s), NotAfter(u.cur, s), KeyTimely(u, s)
  PROVE  Timely(u, s, over)
<1>1. /\ ~AwaitingAck(u.phase) /\ ~AwaitsRollFrame(u.phase) /\ ~InHand(u)
      /\ ~Rolling(u.phase) /\ ~Held(u)
  BY KindsOf DEF AtEase
<1>2. \A x \in Queued(t) : NotAfter(x, s)
  BY DEF Timely, Past, Beside
<1>3. \A x \in Queued(u) \cup {u.cur} : Beside(u, x, s)
  BY <1>1, <1>2 DEF Beside
<1>4. Past(u, s)
  BY <1>3 DEF Past, AtEase, KeyTimely
<1>5. InRoll(u, s, over)
  BY <1>1 DEF InRoll, AtEase
<1> QED
  BY <1>4, <1>5 DEF Timely

LEMMA StartedWhen ==
  ASSUME NEW t \in FitTab, NEW s \in Snap, NEW over, Timely(t, s, over),
         Rolling(t.phase) \/ t.phase # Idle \/ t.active = "game" \/ t.intros # <<>>
  PROVE  s.started
BY IdleIs DEF Timely, Unstarted, Rolling, Settled

LEMMA UnstartedSame ==
  ASSUME NEW t, NEW u, NEW s, Unstarted(t, s), SameQueue(t, u),
         ~s.started => u.phase = Idle, u.dialogs \subseteq t.dialogs, u.delays \subseteq t.delays
  PROVE  Unstarted(u, s)
BY DEF Unstarted, SameQueue

LEMMA ResetTimely ==
  ASSUME NEW t \in FitTab, NEW s \in Snap, NEW over, Timely(t, s, over)
  PROVE  Timely(ResetRollState(t), s, over)
<1> DEFINE u == ResetRollState(t)
<1>1. /\ u \in FitTab /\ u.phase = Idle /\ u.timers = {} /\ u.key = t.key
      /\ SameQueue(t, u) /\ SamePage(t, u) /\ u.dialogs = t.dialogs
      /\ u.cur = t.cur /\ u.button = t.button
  BY ResetIs
<1> HIDE DEF u
<1>2. Stays(u)
  BY <1>1 DEF Timely, Stays, SameQueue, SamePage
<1>3. Unstarted(u, s)
  BY <1>1, UnstartedSame DEF Timely, SamePage
<1>4. NotAfter(u.cur, s) /\ KeyTimely(u, s)
  BY <1>1, TimelyHas DEF Timely, Past, KeyTimely
<1>5. Timely(u, s, over)
  BY <1>1, <1>2, <1>3, <1>4, IdleAtEase, QueuedSame, RestTimely
<1> QED
  BY <1>5 DEF u

\* A step of the roll under way.
Onward(t, u) ==
  /\ u \in FitTab /\ SameQueue(t, u) /\ SamePage(t, u) /\ u.dialogs = t.dialogs
  /\ SamePhase(t.phase, u.phase) /\ Rolling(t.phase) /\ Rolling(u.phase)
  /\ AwaitingAck(u.phase) => AwaitingAck(t.phase)
  /\ AwaitsRollFrame(u.phase) => AwaitsRollFrame(t.phase)
  /\ InHand(u) => InHand(t)
  /\ Held(u) => Held(t)

LEMMA OnwardTimely ==
  ASSUME NEW t \in FitTab, NEW s \in Snap, NEW over, Timely(t, s, over),
         NEW u, Onward(t, u), u.cur = t.cur, u.key = t.key, u.button = t.button
  PROVE  Timely(u, s, over)
<1>1. Queued(u) = Queued(t)
  BY QueuedSame DEF Onward
<1>2. /\ u.phase.before = t.phase.before /\ u.phase.snap = t.phase.snap
      /\ u.phase.result = t.phase.result /\ u.phase.stashed = t.phase.stashed
  BY DEF Onward, SamePhase
<1>3. \A x : Beside(t, x, s) => Beside(u, x, s)
  BY <1>2 DEF Beside, Onward
<1>4. Stays(u)
  BY DEF Timely, Stays, Onward, SameQueue, SamePage
<1>5. Past(u, s)
  BY <1>1, <1>2, <1>3 DEF Timely, Past
<1>6. s.started
  BY StartedWhen DEF Onward
<1>7. Unstarted(u, s)
  BY <1>6 DEF Unstarted
<1>8. ~Settled(u.phase) /\ u.phase.kind # "idle"
  BY DEF Onward, Rolling, Settled
<1>9. InRoll(u, s, over)
  BY <1>1, <1>2, <1>8 DEF Timely, InRoll, Onward
<1> QED
  BY <1>4, <1>5, <1>7, <1>9 DEF Timely

\* A reveal shows its frame.
LEMMA RevealingTimely ==
  ASSUME NEW t \in FitTab, NEW s \in Snap, NEW over, Timely(t, s, over),
         t.phase.kind = "revealing", NEW u, Revealing(t, t.phase.snap, u), "pump" \notin u.timers,
         u.button \in {t.button, "on"}
  PROVE  Timely(u, s, over)
<1>1. /\ u.phase = t.phase /\ u.dialogs = t.dialogs /\ u.cur = t.phase.snap
      /\ u.key = MyDiceKey(t.phase.snap) /\ Queued(u) = Queued(t)
  BY QueuedSame DEF Revealing
<1>2. /\ InHand(u) /\ InHand(t) /\ ~Held(u) /\ Rolling(t.phase) /\ ~AwaitingAck(u.phase)
      /\ ~AwaitsRollFrame(u.phase)
  BY <1>1 DEF InHand, Held, Rolling, Settled, AwaitingAck, AwaitsRollFrame
<1>3. t.phase.snap \in Snap /\ NotAfter(t.phase.snap, s)
  BY <1>2, KindsOf, SnapIs DEF Timely, Past
<1>4. s.started
  BY <1>2, StartedWhen
<1>5. Stays(u)
  BY DEF Timely, Stays, Revealing, SameQueue, SamePage
<1>6. Past(u, s)
  <2>1. \A x \in Queued(t) : NotAfter(x, s) /\ x.round <= t.phase.snap.round
    BY <1>2 DEF Timely, Past, Beside
  <2>2. \A x \in Queued(u) \cup {u.cur} : Beside(u, x, s)
    BY <1>1, <1>2, <1>3, <2>1, KeyOf DEF Beside
  <2>3. u.key[1] = t.phase.snap.round /\ u.key[2] = t.phase.snap.rolls
    BY <1>1, <1>3, KeyOf
  <2>4. u.button # "none"
    BY <1>2 DEF Timely, InRoll
  <2>5. /\ u.key[1] < s.round \/ (u.key[1] = s.round /\ u.key[2] <= s.rolls)
        /\ u.key[1] <= u.cur.round
    BY <1>1, <1>3, <2>3, KeyOf DEF NotAfter
  <2> QED
    BY <1>1, <2>2, <2>4, <2>5 DEF Timely, Past
<1>7. Unstarted(u, s)
  BY <1>4 DEF Unstarted
<1>8. InRoll(u, s, over)
  <2>1. "winner" \notin u.dialogs /\ u.button # "none"
    BY <1>1, <1>2 DEF Timely, InRoll
  <2> QED
    BY <1>1, <1>2, <2>1 DEF Timely, InRoll
<1> QED
  BY <1>5, <1>6, <1>7, <1>8 DEF Timely

LEMMA CalmTimely ==
  ASSUME NEW t \in FitTab, NEW s \in Snap, NEW over, Timely(t, s, over),
         t.phase.kind = "revealing", NEW w, Calmed(t, w)
  PROVE  Timely(w, s, over)
<1>1. InHand(t) /\ Rolling(t.phase)
  BY DEF InHand, Rolling, Settled
<1>2. s.started
  BY <1>1, StartedWhen
<1>3. /\ w \in FitTab /\ w.phase = After(t.phase) /\ SameQueue(t, w) /\ SamePage(t, w)
      /\ w.cur = t.cur /\ w.key = t.key /\ w.button # "none"
  BY <1>1 DEF Calmed, SameBoard, Timely, InRoll
<1>4. AtEase(w.phase, s, over)
  <2>1. t.phase \in FitPhase
    BY TabHas
  <2> QED
    BY <1>3, <2>1, AfterIs DEF AtEase, Timely, InRoll, Settled
<1>5. Stays(w)
  BY <1>3 DEF Timely, Stays, SameQueue, SamePage
<1>6. Unstarted(w, s)
  BY <1>2 DEF Unstarted
<1>7. NotAfter(w.cur, s) /\ KeyTimely(w, s)
  BY <1>3, TimelyHas DEF Timely, Past, KeyTimely
<1> QED
  BY <1>3, <1>4, <1>5, <1>6, <1>7, QueuedSame, RestTimely

LEMMA MarkedTimely ==
  ASSUME NEW t \in FitTab, NEW s \in Snap, NEW over, Timely(t, s, over), NEW b,
         NEW u, Marked(t, b, u)
  PROVE  Timely(u, s, over)
<1>1. Same(t, u) /\ u.delays = t.delays /\ u.dialogs = t.dialogs
  BY DEF Marked
<1>2. "showGameDetail" \notin u.delays /\ (~s.started => u.dialogs = {} /\ u.delays = {})
  BY <1>1 DEF Timely, Stays, Unstarted
<1> QED
  BY <1>1, <1>2, SameTimely

LEMMA CompleteTimely ==
  ASSUME NEW t \in FitTab, NEW s \in Snap, NEW over, Timely(t, s, over),
         t.phase.kind = "revealing"
  PROVE  Timely(Complete(t), s, over)
<1> DEFINE w == Calm(t)
           u == Complete(t)
<1>1. Completed(t, w, u)
  BY CompleteIs
<1> HIDE DEF w, u
<1>2. Calmed(t, w) /\ w \in FitTab
  BY <1>1 DEF Completed, Calmed
<1>3. Timely(w, s, over)
  BY <1>2, CalmTimely
<1>4. CASE t.phase.result # Nothing
  BY <1>1, <1>2, <1>3, <1>4, MarkedTimely DEF Completed, u
<1>5. CASE t.phase.result = Nothing /\ t.phase.stashed # Nothing
  <2>1. PICK v : ShownFor(w, t.phase.stashed, v) /\ Marked(v, t.skipped, u)
    BY <1>1, <1>5 DEF Completed
  <2>2. w.key = t.key /\ w.phase = After(t.phase)
    BY <1>2 DEF Calmed, SameBoard
  <2>3. ~AwaitingAck(w.phase) /\ ~Rolling(w.phase)
    BY <1>5, <2>2, IdleIs DEF After, AwaitingAck, Rolling, Settled
  <2>4. InHand(t) /\ t.phase.snap \in Snap /\ t.phase.stashed \in Snap /\ t.cur \in Snap
    BY <1>5, KindsOf, TimelyHas DEF InHand
  <2>5. t.phase.stashed.round = t.phase.snap.round
    BY <1>5, <2>4 DEF Timely, InRoll
  <2>6. t.key[1] <= t.cur.round /\ t.cur.round <= t.phase.snap.round
    BY <2>4, TimelyHas DEF Timely, Past, Beside
  <2>7. t.key[1] \in Nat
    BY DEF FitTab
  <2>8. MayShow(w, t.phase.stashed, s)
    BY <1>5, <2>2, <2>3, <2>4, <2>5, <2>6, <2>7, KeyOf DEF MayShow, Timely, Past
  <2>9. Timely(v, s, over) /\ v \in FitTab
    BY <1>2, <1>3, <2>1, <2>8, ShownTimely DEF ShownFor
  <2> QED
    BY <2>1, <2>9, MarkedTimely DEF u
<1>6. CASE t.phase.result = Nothing /\ t.phase.stashed = Nothing
  BY <1>1, <1>3, <1>6 DEF Completed, u
<1> QED
  BY <1>4, <1>5, <1>6

LEMMA RunRevealTimely ==
  ASSUME NEW t \in FitTab, NEW s \in Snap, NEW over, Timely(t, s, over),
         t.phase.kind = "revealing"
  PROVE  Timely(RunReveal(t), s, over)
<1>1. CASE t.loose # 0 /\ t.phase.snap.round = t.round
  <2>1. Begun(t, RunReveal(t))
    BY <1>1, RunRevealIs
  <2> QED
    BY <2>1, RevealingTimely DEF Begun
<1>2. CASE t.loose = 0 \/ t.phase.snap.round # t.round
  <2>1. PICK v : Redrawn(t, v) /\ RunReveal(t) = Complete(v)
    BY <1>2, RunRevealIs
  <2>2. Timely(v, s, over) /\ v \in FitTab /\ v.phase = t.phase
    BY <2>1, RevealingTimely DEF Redrawn, Revealing
  <2> QED
    BY <2>1, <2>2, CompleteTimely
<1> QED
  BY <1>1, <1>2

LEMMA RevealTimerTimely ==
  ASSUME NEW t \in FitTab, NEW s \in Snap, NEW over, Timely(t, s, over),
         t.phase.kind = "revealing"
  PROVE  Timely(RevealTimer(t), s, over)
<1>1. ASSUME NEW v, Faced(t, v), "pump" \notin v.timers
      PROVE  Timely(v, s, over) /\ v \in FitTab /\ v.phase.kind = "revealing"
  <2>1. Onward(t, v)
    BY <1>1 DEF Onward, Faced, SamePhase, Rolling, Settled, InHand, Held
  <2> QED
    BY <1>1, <2>1, OnwardTimely DEF Faced
<1>2. CASE \E v : /\ Faced(t, v) /\ v.timers = {} /\ v.tumbling = FALSE
                  /\ RevealTimer(t) = Complete(v)
  BY <1>1, <1>2, CompleteTimely
<1>3. CASE Faced(t, RevealTimer(t)) /\ RevealTimer(t).timers = {"pop"}
  BY <1>1, <1>3
<1> QED
  BY <1>2, <1>3, RevealTimerIs

LEMMA PopTimerTimely ==
  ASSUME NEW t \in FitTab, NEW s \in Snap, NEW over, Timely(t, s, over),
         t.phase.kind = "revealing"
  PROVE  Timely(PopTimer(t), s, over)
<1>1. PICK v : /\ v \in FitTab /\ v.phase = t.phase /\ v.timers = {}
               /\ SameQueue(t, v) /\ SamePage(t, v) /\ v.dialogs = t.dialogs
               /\ v.cur = t.cur /\ v.key = t.key /\ v.button = t.button
               /\ PopTimer(t) = Complete(v)
  BY PopTimerIs
<1>2. Onward(t, v)
  BY <1>1 DEF Onward, SamePhase, Rolling, Settled, InHand, Held
<1>3. Timely(v, s, over)
  BY <1>1, <1>2, OnwardTimely
<1> QED
  BY <1>1, <1>3, CompleteTimely

LEMMA UnstickTimely ==
  ASSUME NEW t \in FitTab, NEW s \in Snap, NEW over, Timely(t, s, over), t.phase = Idle
  PROVE  Timely(Unstick(t), s, over)
<1> DEFINE u == Unstick(t)
<1>1. t.cur \in Snap /\ NotAfter(t.cur, s)
  BY TimelyHas
<1>2. /\ u \in FitTab /\ SameRoll(t, u) /\ SameQueue(t, u) /\ SamePage(t, u)
      /\ u.key = t.key /\ u.button = "on" /\ u.dialogs = t.dialogs /\ u.cur = t.cur
  BY <1>1, UnstickIs
<1> HIDE DEF u
<1>3. Stays(u) /\ Unstarted(u, s)
  BY <1>2, UnstartedSame DEF Timely, Stays, SameQueue, SamePage, SameRoll
<1>4. KeyTimely(u, s)
  BY <1>2 DEF Timely, Past, KeyTimely
<1>5. AtEase(u.phase, s, over)
  BY <1>2, IdleAtEase DEF SameRoll
<1>6. Timely(u, s, over)
  BY <1>1, <1>2, <1>3, <1>4, <1>5, QueuedSame, RestTimely
<1> QED
  BY <1>6 DEF u

LEMMA PumpTimely ==
  ASSUME NEW t \in FitTab, HasTimer(t), "pump" \in t.timers,
         NEW s \in Snap, NEW over, Timely(t, s, over)
  PROVE  Timely(Pump(t), s, over)
<1> DEFINE u == Pump(t)
<1>1. CASE /\ t.phase.kind = "shaking" /\ Turned(t, u) /\ u.timers = {"pump"}
           /\ u.phase.kind = "awaitingServer" /\ SamePhase(t.phase, u.phase)
  <2>1. Onward(t, u)
    BY <1>1 DEF Turned, Onward, Rolling, Settled, InHand, Held, AwaitingAck, AwaitsRollFrame
  <2> HIDE DEF u
  <2>2. Timely(u, s, over)
    BY <1>1, <2>1, OnwardTimely DEF Turned, SameBoard
  <2> QED
    BY <2>2 DEF u
<1>2. CASE /\ Held(t)
           /\ \E v : /\ Turned(t, v) /\ v.timers = {} /\ v.phase.kind = "revealing"
                     /\ SamePhase(t.phase, v.phase) /\ u = RunReveal(v)
  <2>1. PICK v : /\ Turned(t, v) /\ v.timers = {} /\ v.phase.kind = "revealing"
                 /\ SamePhase(t.phase, v.phase) /\ u = RunReveal(v)
    BY <1>2
  <2>2. Onward(t, v)
    BY <1>2, <2>1
    DEF Turned, Onward, Rolling, Settled, InHand, Held, AwaitingAck, AwaitsRollFrame
  <2>3. Timely(v, s, over) /\ v \in FitTab
    BY <2>1, <2>2, OnwardTimely DEF Turned, SameBoard
  <2> QED
    BY <2>1, <2>3, RunRevealTimely
<1>3. CASE /\ t.phase.kind = "awaitingServer"
           /\ \E v : /\ Turned(t, v) /\ v.timers = {} /\ v.phase = Idle /\ u = Unstick(v)
  <2>1. PICK v : Turned(t, v) /\ v.timers = {} /\ v.phase = Idle /\ u = Unstick(v)
    BY <1>3
  <2>2. /\ v \in FitTab /\ SameQueue(t, v) /\ SamePage(t, v) /\ v.dialogs = t.dialogs
        /\ v.cur = t.cur /\ v.key = t.key /\ v.button = t.button
    BY <2>1 DEF Turned, SameBoard
  <2>3. Stays(v) /\ Unstarted(v, s)
    BY <2>1, <2>2, UnstartedSame DEF Timely, Stays, SameQueue, SamePage
  <2>4. NotAfter(v.cur, s) /\ KeyTimely(v, s)
    BY <2>2, TimelyHas DEF Timely, Past, KeyTimely
  <2>5. Timely(v, s, over)
    BY <2>1, <2>2, <2>3, <2>4, IdleAtEase, QueuedSame, RestTimely
  <2> QED
    BY <2>1, <2>2, <2>5, UnstickTimely
<1> QED
  BY <1>1, <1>2, <1>3, PumpIs

-----------------------------------------------------------------------------
(* Frames, taps and what was left for later, in their time.                *)

\* A snapshot that can come from the server.
Real(s) == s \in Snap /\ s.round >= 1

LEMMA NowIs == ASSUME NEW s, Real(s) PROVE NotAfter(s, s)
BY KeyOf DEF Real, NotAfter

LEMMA KeyBehind ==
  ASSUME NEW t \in FitTab, NEW s \in Snap, NEW over, Timely(t, s, over)
  PROVE  t.key[1] <= t.cur.round /\ t.cur.round <= s.round /\ t.key[1] <= s.round
         /\ t.key[1] \in Nat /\ t.key[2] \in Nat
<1>1. t.key[1] \in Nat /\ t.key[2] \in Nat
  BY DEF FitTab
<1>2. t.cur \in Snap /\ NotAfter(t.cur, s) /\ t.key[1] <= t.cur.round
  BY TimelyHas DEF Timely, Past
<1>3. t.cur.round \in Nat /\ s.round \in Nat
  BY <1>2, KeyOf
<1>4. t.cur.round <= s.round
  BY <1>2, <1>3 DEF NotAfter
<1> QED
  BY <1>1, <1>2, <1>3, <1>4

LEMMA ShowForTimely ==
  ASSUME NEW t \in FitTab, NEW s, Real(s), NEW over, Timely(t, s, over),
         AwaitingAck(t.phase) => MyDiceKey(s) = t.key, Rolling(t.phase) => s.round = t.cur.round
  PROVE  Timely(ShowFor(t, s), s, over)
<1>1. MayShow(t, s, s)
  BY NowIs, KeyBehind DEF MayShow, Real
<1> QED
  BY <1>1, ShowForIs, ShownTimely DEF Real

LEMMA FrameTimely ==
  ASSUME NEW t \in FitTab, NEW s, Real(s), NEW over, Timely(t, s, over),
         AwaitingAck(t.phase), NEW u, Turned(t, u),
         NEW result \in Result \cup {Nothing},
         u.phase = Transition(t.phase, [t |-> "SERVER_ROLL", snap |-> s, result |-> result]),
         result = Nothing => t.phase.stashed = Nothing,
         result # Nothing => /\ result.round = s.round /\ over = "announced"
                             /\ result.mine => s.hits = Dice
  PROVE  Timely(u, s, over)
<1>1. t.phase \in FitPhase /\ s \in Snap
  BY TabHas DEF Real
<1>2. /\ u.phase.before = t.phase.before /\ u.phase.stashed = t.phase.stashed
      /\ u.phase.snap = s /\ u.phase.result = result
      /\ u.phase.kind \in {"settling", "revealing"}
  BY <1>1, FramePhase
<1>3. /\ Queued(u) = Queued(t) /\ u.cur = t.cur /\ u.key = t.key /\ u.button = t.button
      /\ u.dialogs = t.dialogs
  BY QueuedSame DEF Turned, SameBoard
<1>4. Rolling(t.phase) /\ s.started /\ Rolling(u.phase)
  <2>1. Rolling(t.phase)
    BY KindsOf
  <2>2. s.started
    BY <1>1, <2>1, StartedWhen
  <2> QED
    BY <1>2, <2>1, <2>2 DEF Rolling, Settled
<1>5. Stays(u)
  BY DEF Timely, Stays, Turned, SameQueue, SamePage
<1>6. t.cur \in Snap /\ t.cur.round <= s.round
  BY <1>1, TimelyHas, KeyBehind
<1>7. t.cur.round = s.round => t.phase.before <= s.hits
  <2>1. CASE AwaitsRollFrame(t.phase)
    BY <2>1 DEF Timely, InRoll
  <2>2. CASE t.phase.kind = "settling"
    <3>1. InHand(t) /\ Held(t) /\ t.phase.snap \in Snap
      BY <2>2, KindsOf DEF InHand, Held
    <3>2. Beside(t, t.cur, s) /\ NotAfter(t.phase.snap, s)
      BY <3>1, TimelyHas, SnapIs, <1>1 DEF Timely, Past
    <3> SUFFICES ASSUME t.cur.round = s.round PROVE t.phase.before <= s.hits
      OBVIOUS
    <3>3. t.phase.snap.round = s.round
      BY <1>1, <1>6, <3>1, <3>2, KeyOf DEF Beside, NotAfter
    <3>4. t.phase.before <= t.phase.snap.hits /\ t.phase.snap.hits <= s.hits
      BY <1>1, <3>1, <3>2, <3>3, KeyOf DEF Beside, NotAfter
    <3> QED
      BY <1>1, <3>1, <3>4, KeyOf, KindsOf
  <2> QED
    BY <2>1, <2>2 DEF AwaitingAck, AwaitsRollFrame
<1>8. Past(u, s)
  <2>1. \A x \in Queued(t) : NotAfter(x, s) /\ x.round = t.cur.round
    BY DEF Timely, Past, InRoll, Beside
  <2>2. NotAfter(t.cur, s)
    BY <1>1, TimelyHas
  <2>3. \A x \in Queued(u) \cup {u.cur} : Beside(u, x, s)
    BY <1>2, <1>3, <1>6, <1>7, <2>1, <2>2 DEF Beside
  <2> QED
    BY <1>1, <1>2, <1>3, <2>3, NowIs DEF Timely, Past
<1>9. Unstarted(u, s)
  BY <1>4 DEF Unstarted
<1>10. InRoll(u, s, over)
  <2>1. AwaitingAck(u.phase) => \A x \in Queued(u) : MyDiceKey(x) = u.key /\ x.round = u.cur.round
    BY <1>3 DEF Timely, InRoll
  <2>2. ~AwaitsRollFrame(u.phase) /\ ~Settled(u.phase) /\ u.phase.kind # "idle"
    BY <1>2 DEF AwaitsRollFrame, Settled
  <2>3. "winner" \notin u.dialogs /\ u.button # "none"
    BY <1>3, <1>4 DEF Timely, InRoll
  <2>4. result # Nothing => result.round = s.round /\ s.round <= s.round
    BY <1>1, KeyOf
  <2> QED
    BY <1>2, <2>1, <2>2, <2>3, <2>4 DEF InRoll
<1> QED
  BY <1>5, <1>8, <1>9, <1>10 DEF Timely

LEMMA StashTimely ==
  ASSUME NEW t \in FitTab, NEW s, Real(s), NEW over, Timely(t, s, over),
         t.phase.kind = "settling", s.round <= t.cur.round, NEW u, Turned(t, u),
         u.timers = t.timers,
         u.phase = Transition(t.phase, [t |-> "BROADCAST", snap |-> s])
  PROVE  Timely(u, s, over)
<1>1. t.phase \in FitPhase /\ s \in Snap
  BY TabHas DEF Real
<1>2. /\ u.phase.before = t.phase.before /\ u.phase.stashed = s
      /\ u.phase.snap = t.phase.snap /\ u.phase.result = t.phase.result
      /\ u.phase.kind = "settling"
  BY <1>1, StashPhase DEF HoldsRollFrame
<1>3. /\ Queued(u) = Queued(t) /\ u.cur = t.cur /\ u.key = t.key /\ u.button = t.button
      /\ u.dialogs = t.dialogs
  BY QueuedSame DEF Turned, SameBoard
<1>4. /\ InHand(t) /\ InHand(u) /\ Held(t) /\ Held(u) /\ AwaitingAck(t.phase)
      /\ AwaitingAck(u.phase) /\ ~AwaitsRollFrame(u.phase) /\ Rolling(t.phase)
      /\ Rolling(u.phase) /\ ~Settled(u.phase)
  BY <1>2 DEF InHand, Held, AwaitingAck, AwaitsRollFrame, Rolling, Settled
<1>5. s.started
  BY <1>1, <1>4, StartedWhen
<1>6. Stays(u)
  BY DEF Timely, Stays, Turned, SameQueue, SamePage
<1>7. Past(u, s)
  <2>1. \A x : Beside(t, x, s) => Beside(u, x, s)
    BY <1>2, <1>4 DEF Beside
  <2> QED
    BY <1>2, <1>3, <1>5, <2>1, NowIs DEF Timely, Past
<1>8. t.phase.snap.round = s.round
  <2>1. t.phase.snap \in Snap /\ t.cur \in Snap
    BY <1>1, <1>4, KindsOf, TimelyHas
  <2>2. t.cur.round <= t.phase.snap.round /\ t.phase.snap.round <= s.round
    BY <1>1, <1>4, <2>1, TimelyHas, SnapIs, KeyOf DEF Timely, Past, Beside, NotAfter
  <2> QED
    BY <1>1, <2>1, <2>2, KeyOf
<1>9. Unstarted(u, s)
  BY <1>5 DEF Unstarted
<1>10. InRoll(u, s, over)
  <2>1. u.phase.kind # "idle"
    BY <1>2
  <2> QED
    BY <1>2, <1>3, <1>4, <1>8, <2>1 DEF Timely, InRoll
<1> QED
  BY <1>6, <1>7, <1>9, <1>10 DEF Timely

\* An echo changes the current state and nothing else.
LEMMA EchoTimely ==
  ASSUME NEW t \in FitTab, NEW s, Real(s), NEW over, Timely(t, s, over),
         t.phase.kind = "celebrating", NEW b \in BOOLEAN
  PROVE  LET u == [Passed(t, b) EXCEPT !.cur = s]
         IN  /\ Timely(u, s, over) /\ u \in FitTab /\ SameRoll(t, u) /\ SameQueue(t, u)
             /\ SameBoard(t, u) /\ SamePage(t, u) /\ u.dialogs = t.dialogs /\ u.cur = s
             /\ u.button = t.button /\ (u.skipped <=> t.skipped \/ b)
<1> DEFINE v == Passed(t, b)
           u == [v EXCEPT !.cur = s]
<1>1. /\ v \in FitTab /\ SameRoll(t, v) /\ SameBoard(t, v) /\ SamePage(t, v)
      /\ SameQueue(t, v) /\ v.dialogs = t.dialogs
      /\ v.cur = t.cur /\ v.button = t.button /\ (v.skipped <=> t.skipped \/ b)
  BY PassedIs
<1> HIDE DEF v
<1>2. s \in Snap
  BY DEF Real
<1>3. /\ u \in FitTab /\ SameRoll(v, u) /\ SameQueue(v, u) /\ SameBoard(v, u)
      /\ SamePage(v, u) /\ u.dialogs = v.dialogs /\ u.cur = s /\ u.button = v.button
      /\ u.skipped = v.skipped
  BY <1>1, <1>2 DEF FitTab, SameRoll, SameQueue, SameBoard, SamePage
<1> HIDE DEF u
<1>4. /\ SameRoll(t, u) /\ SameQueue(t, u) /\ SameBoard(t, u) /\ SamePage(t, u)
  BY <1>1, <1>3 DEF SameRoll, SameQueue, SameBoard, SamePage
<1>5. u.phase = t.phase /\ u.key = t.key /\ u.button = t.button /\ u.dialogs = t.dialogs
      /\ u.delays = t.delays
  BY <1>1, <1>3, <1>4 DEF SameRoll, SameBoard, SamePage
<1>6. Stays(u)
  BY <1>4 DEF Timely, Stays, SameQueue, SamePage
<1>7. s.started
  BY <1>2, IdleIs, StartedWhen
<1>8. AtEase(u.phase, s, over)
  <2>1. Settled(t.phase)
    BY DEF Settled
  <2> QED
    BY <1>5, <2>1 DEF AtEase, Timely, InRoll
<1>9. NotAfter(u.cur, s) /\ KeyTimely(u, s)
  BY <1>2, <1>3, <1>5, NowIs, KeyBehind DEF KeyTimely, Timely, Past
<1>10. Timely(u, s, over)
  BY <1>2, <1>3, <1>4, <1>6, <1>7, <1>8, <1>9, QueuedSame, RestTimely DEF Unstarted
<1>11. /\ Timely(u, s, over) /\ u \in FitTab /\ SameRoll(t, u) /\ SameQueue(t, u)
       /\ SameBoard(t, u) /\ SamePage(t, u) /\ u.dialogs = t.dialogs /\ u.cur = s
       /\ u.button = t.button /\ (u.skipped <=> t.skipped \/ b)
  BY <1>1, <1>3, <1>4, <1>10
<1> QED
  BY <1>11 DEF u, v

-----------------------------------------------------------------------------
(* What a frame does.                                                      *)

Overtaken(t, s) == s.started /\ s.round > t.cur.round

LEMMA HandleStateIs ==
  ASSUME NEW t \in FitTab, t.cur \in Snap, NEW s \in Snap
  PROVE  LET u == HandleState(t, s)
             ev == [t |-> "SERVER_ROLL", snap |-> s, result |-> Nothing]
         IN  \/ Overtaken(t, s) /\ u = ShowFor(ResetRollState(t), s)
             \/ /\ ~Overtaken(t, s) /\ AwaitsRollFrame(t.phase) /\ s.started
                /\ MyDiceKey(s) # t.key /\ u = Dispatch(t, ev)
             \/ /\ ~Overtaken(t, s) /\ t.phase.kind = "settling"
                /\ u = Dispatch(t, [t |-> "BROADCAST", snap |-> s])
             \/ /\ ~Overtaken(t, s) /\ IsCelebrationEcho(t.phase, s)
                /\ u = [Passed(t, Pending(t)) EXCEPT !.cur = s]
             \/ /\ ~Overtaken(t, s)
                /\ AwaitsRollFrame(t.phase) => ~s.started \/ MyDiceKey(s) = t.key
                /\ t.phase.kind # "settling" /\ ~IsCelebrationEcho(t.phase, s)
                /\ u = ShowFor(t, s)
<1> DEFINE u == HandleState(t, s)
           ev == [t |-> "SERVER_ROLL", snap |-> s, result |-> Nothing]
           a == ShowFor(ResetRollState(t), s)
           b == Dispatch(t, ev)
           c == Dispatch(t, [t |-> "BROADCAST", snap |-> s])
           d == [Passed(t, Pending(t)) EXCEPT !.cur = s]
           e == ShowFor(t, s)
<1>1. t.cur # Nothing
  BY SnapIs
<1>2. u = IF Overtaken(t, s) THEN a
          ELSE CASE AwaitsRollFrame(t.phase) /\ s.started /\ MyDiceKey(s) # t.key -> b
                 [] t.phase.kind = "settling" -> c
                 [] IsCelebrationEcho(t.phase, s) -> d
                 [] OTHER -> e
  BY <1>1 DEF HandleState, Overtaken, HoldsRollFrame
<1>3. /\ t.phase.kind = "settling" => ~AwaitsRollFrame(t.phase)
      /\ IsCelebrationEcho(t.phase, s) => ~AwaitsRollFrame(t.phase) /\ t.phase.kind # "settling"
  BY DEF AwaitsRollFrame, IsCelebrationEcho
<1> HIDE DEF u, a, b, c, d, e
<1>4. \/ Overtaken(t, s) /\ u = a
      \/ /\ ~Overtaken(t, s) /\ AwaitsRollFrame(t.phase) /\ s.started
         /\ MyDiceKey(s) # t.key /\ u = b
      \/ /\ ~Overtaken(t, s) /\ t.phase.kind = "settling" /\ u = c
      \/ /\ ~Overtaken(t, s) /\ IsCelebrationEcho(t.phase, s) /\ u = d
      \/ /\ ~Overtaken(t, s)
         /\ AwaitsRollFrame(t.phase) => ~s.started \/ MyDiceKey(s) = t.key
         /\ t.phase.kind # "settling" /\ ~IsCelebrationEcho(t.phase, s) /\ u = e
  BY <1>2, <1>3
<1> QED
  BY <1>4 DEF u, a, b, c, d, e

WonResult(s, mine) == [round |-> s.round, mine |-> mine]

\* The celebration begins at once.
Won(t, s, mine, u) ==
  /\ u \in FitTab /\ u.phase = Celebrating(WonResult(s, mine)) /\ u.timers = {}
  /\ u.cur = s /\ u.key = MyDiceKey(s) /\ Fresh(s, u) /\ u.cut = FALSE /\ u.button = "on"
  /\ SamePage(t, u) /\ u.intros = t.intros /\ u.active = t.active
  /\ u.soon = (IF t.active = "game" THEN t.soon ELSE Append(t.soon, Committing("game")))
  /\ u.dialogs = t.dialogs \cup {"winner"}
  /\ (u.skipped <=> t.skipped \/ t.soon # <<>> \/ t.intros # <<>>)

LEMMA WonIs == ASSUME NEW s \in Snap, NEW mine \in BOOLEAN
               PROVE  WonResult(s, mine) \in Result /\ WonResult(s, mine) # Nothing
                      /\ WonResult(s, mine).round = s.round
                      /\ (WonResult(s, mine).mine <=> mine)
BY SnapIs, NothingAssumption DEF WonResult, Result

LEMMA RoundWonIs ==
  ASSUME NEW t \in FitTab, NEW s \in Snap, NEW mine \in BOOLEAN
  PROVE  LET u == HandleRoundWon(t, s, mine)
             ev == [t |-> "SERVER_ROLL", snap |-> s, result |-> WonResult(s, mine)]
         IN  \/ AwaitingAck(t.phase) /\ MyDiceKey(s) # t.key /\ u = Dispatch(t, ev)
             \/ ~(AwaitingAck(t.phase) /\ MyDiceKey(s) # t.key) /\ Won(t, s, mine, u)
<1> DEFINE u == HandleRoundWon(t, s, mine)
           result == WonResult(s, mine)
           ev == [t |-> "SERVER_ROLL", snap |-> s, result |-> result]
           key == MyDiceKey(s)
           sent == Dispatch(t, [t |-> "SHOW_RESULT", result |-> result])
           shown == [sent EXCEPT !.timers = {}, !.cur = s, !.key = key]
           b == Pending(t)
           passed == Passed(shown, b)
           swapped == ShowScreen(passed, "game")
           drawn == RenderMyArea(swapped, s)
           v == ShowDialog(drawn, "winner")
<1>1. u = IF AwaitingAck(t.phase) /\ key # t.key THEN Dispatch(t, ev) ELSE v
  BY DEF HandleRoundWon, WonResult
<1>2. CASE AwaitingAck(t.phase) /\ key # t.key
  BY <1>1, <1>2
<1>3. CASE ~(AwaitingAck(t.phase) /\ key # t.key)
  <2>1. result \in Result /\ key \in Nat \X Nat
    BY WonIs, SnapIs
  <2>2. u = v
    BY <1>1, <1>3
  <2>20. key = MyDiceKey(s) /\ result = WonResult(s, mine)
    OBVIOUS
  <2> HIDE DEF key, result
  <2>3. /\ sent \in FitTab /\ sent.phase = Celebrating(result)
        /\ SameQueue(t, sent) /\ SamePage(t, sent) /\ sent.dialogs = t.dialogs
        /\ sent.skipped = t.skipped
    BY <2>1, ResultLeads, CelebratingFits, DispatchIs
  <2> HIDE DEF sent
  <2>4. /\ shown \in FitTab /\ shown.phase = sent.phase /\ shown.timers = {} /\ shown.cur = s
        /\ shown.key = key /\ SameQueue(sent, shown) /\ SamePage(sent, shown)
        /\ shown.dialogs = sent.dialogs /\ shown.skipped = sent.skipped
    BY <2>1, <2>3 DEF FitTab, SameQueue, SamePage
  <2> HIDE DEF shown
  <2>5. b \in BOOLEAN /\ (b <=> t.soon # <<>> \/ t.intros # <<>>)
    BY DEF Pending
  <2> HIDE DEF b
  <2>6. /\ passed \in FitTab /\ SameRoll(shown, passed) /\ SameBoard(shown, passed)
        /\ SamePage(shown, passed) /\ SameQueue(shown, passed)
        /\ passed.dialogs = shown.dialogs /\ passed.cur = shown.cur
        /\ (passed.skipped <=> shown.skipped \/ b)
    BY <2>4, <2>5, PassedIs
  <2> HIDE DEF passed
  <2>7. /\ swapped \in FitTab /\ SameRoll(passed, swapped) /\ SameBoard(passed, swapped)
        /\ SamePage(passed, swapped) /\ swapped.intros = passed.intros
        /\ swapped.active = passed.active /\ swapped.dialogs = passed.dialogs
        /\ swapped.cur = passed.cur /\ swapped.skipped = passed.skipped
        /\ swapped.soon = IF passed.active = "game" THEN passed.soon
                          ELSE Append(passed.soon, Committing("game"))
    BY <2>6, ScreenIs DEF Screens
  <2> HIDE DEF swapped
  <2>8. /\ drawn \in FitTab /\ SameRoll(swapped, drawn) /\ SameQueue(swapped, drawn)
        /\ SamePage(swapped, drawn) /\ Fresh(s, drawn) /\ drawn.cut = FALSE
        /\ drawn.key = swapped.key /\ drawn.button = "on" /\ drawn.dialogs = swapped.dialogs
        /\ drawn.cur = swapped.cur /\ drawn.skipped = swapped.skipped
    BY <2>7, AreaIs
  <2> HIDE DEF drawn
  <2>9. /\ v \in FitTab /\ SameRoll(drawn, v) /\ SameBoard(drawn, v) /\ SamePage(drawn, v)
        /\ SameQueue(drawn, v) /\ v.dialogs = drawn.dialogs \cup {"winner"}
        /\ v.cur = drawn.cur /\ v.button = drawn.button /\ v.skipped = drawn.skipped
    BY <2>8, ShowDialogIs
  <2> HIDE DEF v, u
  <2>10. SamePage(t, v) /\ v.phase = Celebrating(result) /\ v.timers = {} /\ v.intros = t.intros
         /\ v.active = t.active
    BY <2>3, <2>4, <2>6, <2>7, <2>8, <2>9 DEF SamePage, SameRoll, SameQueue
  <2>11. v.soon = IF t.active = "game" THEN t.soon ELSE Append(t.soon, Committing("game"))
    BY <2>3, <2>4, <2>6, <2>7, <2>8, <2>9 DEF SameQueue
  <2>12. v.key = key /\ Fresh(s, v) /\ v.cut = FALSE /\ v.cur = s /\ v.button = "on"
    BY <2>4, <2>6, <2>7, <2>8, <2>9 DEF SameBoard, Fresh
  <2>13. v.dialogs = t.dialogs \cup {"winner"} /\ (v.skipped <=> t.skipped \/ b)
    BY <2>3, <2>4, <2>6, <2>7, <2>8, <2>9
  <2>14. Won(t, s, mine, v)
    BY <2>5, <2>9, <2>10, <2>11, <2>12, <2>13, <2>20 DEF Won
  <2> QED
    BY <1>3, <2>2, <2>14, <2>20 DEF u
<1> QED
  BY <1>2, <1>3

\* The rejected roll is dropped, and the board drawn once more.
Rejected(t, u) ==
  /\ u \in FitTab /\ u.phase = Idle /\ u.timers = {} /\ SameQueue(t, u) /\ SamePage(t, u)
  /\ Fresh(t.cur, u) /\ (u.cut <=> MyDiceKey(t.cur) # t.key) /\ u.key = t.key
  /\ u.button = "on" /\ u.dialogs = t.dialogs /\ u.cur = t.cur
  /\ (u.skipped <=> t.skipped \/ HoldsFrame(t))

LEMMA ErrorIs ==
  ASSUME NEW t \in FitTab, t.cur \in Snap
  PROVE  Rejected(t, HandleError(t))
<1> DEFINE b == HoldsFrame(t)
           passed == Passed(t, b)
           reset == ResetRollState(passed)
           u == Repaint(reset)
<1>1. HandleError(t) = u
  BY SnapIs DEF HandleError
<1>2. b \in BOOLEAN
  BY DEF HoldsFrame
<1>20. b <=> HoldsFrame(t)
  OBVIOUS
<1> HIDE DEF b
<1>3. /\ passed \in FitTab /\ SameBoard(t, passed) /\ SamePage(t, passed)
      /\ SameQueue(t, passed) /\ passed.dialogs = t.dialogs
      /\ passed.cur = t.cur /\ (passed.skipped <=> t.skipped \/ b)
  BY <1>2, PassedIs
<1> HIDE DEF passed
<1>4. /\ reset \in FitTab /\ reset.phase = Idle /\ reset.timers = {} /\ reset.key = passed.key
      /\ SameQueue(passed, reset) /\ SamePage(passed, reset)
      /\ reset.dialogs = passed.dialogs /\ reset.cur = passed.cur
      /\ reset.skipped = passed.skipped
  BY <1>3, ResetIs
<1> HIDE DEF reset
<1>5. /\ u \in FitTab /\ SameRoll(reset, u) /\ SameQueue(reset, u) /\ SamePage(reset, u)
      /\ Fresh(reset.cur, u) /\ (u.cut <=> MyDiceKey(reset.cur) # reset.key)
      /\ u.key = reset.key
      /\ u.button = "on" /\ u.dialogs = reset.dialogs /\ u.cur = reset.cur
      /\ u.skipped = reset.skipped
  BY <1>3, <1>4, RepaintIs
<1> HIDE DEF u
<1>6. Rejected(t, u)
  BY <1>3, <1>4, <1>5, <1>20 DEF Rejected, SameRoll, SameBoard, SameQueue, SamePage
<1> QED
  BY <1>1, <1>6

-----------------------------------------------------------------------------
(* Frames in their time.                                                   *)

LEMMA HandleStateTimely ==
  ASSUME NEW t \in FitTab, NEW s, Real(s), NEW over, Timely(t, s, over)
  PROVE  Timely(HandleState(t, s), s, over)
<1> DEFINE u == HandleState(t, s)
           ev == [t |-> "SERVER_ROLL", snap |-> s, result |-> Nothing]
<1>1. s \in Snap /\ t.cur \in Snap /\ t.phase \in FitPhase
  BY TimelyHas, TabHas DEF Real
<1>2. t.cur.round <= s.round /\ t.cur.round \in Nat /\ s.round \in Nat
  BY <1>1, KeyBehind, KeyOf
<1>3. ASSUME ~Overtaken(t, s), s.started PROVE s.round = t.cur.round
  BY <1>2, <1>3 DEF Overtaken
<1>4. CASE u = ShowFor(ResetRollState(t), s)
  <2> DEFINE v == ResetRollState(t)
  <2>1. v \in FitTab /\ v.phase = Idle
    BY ResetIs
  <2>2. Timely(v, s, over)
    BY <1>1, ResetTimely
  <2> HIDE DEF v
  <2>3. ~AwaitingAck(v.phase) /\ ~Rolling(v.phase)
    BY <2>1, IdleIs DEF AwaitingAck, Rolling, Settled
  <2>4. Timely(ShowFor(v, s), s, over)
    BY <2>1, <2>2, <2>3, ShowForTimely
  <2> QED
    BY <1>4, <2>4 DEF v
<1>5. CASE ~Overtaken(t, s) /\ AwaitsRollFrame(t.phase) /\ u = Dispatch(t, ev)
  <2>1. AwaitingAck(t.phase) /\ t.phase.stashed = Nothing
    BY <1>5, KindsOf DEF Timely, InRoll
  <2>2. Transition(t.phase, ev) \in FitPhase
    BY <1>1, <2>1, FramePhase
  <2>3. Turned(t, u) /\ u.phase = Transition(t.phase, ev)
    BY <1>5, <2>2, DispatchIs DEF Turned
  <2> HIDE DEF u
  <2>4. Timely(u, s, over)
    BY <2>1, <2>3, FrameTimely
  <2> QED
    BY <2>4 DEF u
<1>6. CASE ~Overtaken(t, s) /\ t.phase.kind = "settling"
           /\ u = Dispatch(t, [t |-> "BROADCAST", snap |-> s])
  <2>1. s.started
    BY <1>1, <1>6, StartedWhen DEF Rolling, Settled
  <2>2. Transition(t.phase, [t |-> "BROADCAST", snap |-> s]) \in FitPhase
    BY <1>1, <1>6, StashPhase DEF HoldsRollFrame
  <2>3. /\ Turned(t, u) /\ u.phase = Transition(t.phase, [t |-> "BROADCAST", snap |-> s])
        /\ u.timers = t.timers
    BY <1>6, <2>2, DispatchIs DEF Turned
  <2>4. s.round <= t.cur.round
    BY <1>2, <1>3, <1>6, <2>1
  <2> HIDE DEF u
  <2>5. Timely(u, s, over)
    BY <1>6, <2>3, <2>4, StashTimely
  <2> QED
    BY <2>5 DEF u
<1>7. CASE IsCelebrationEcho(t.phase, s) /\ u = [Passed(t, Pending(t)) EXCEPT !.cur = s]
  <2>1. Pending(t) \in BOOLEAN /\ t.phase.kind = "celebrating"
    BY <1>7 DEF Pending, IsCelebrationEcho
  <2> QED
    BY <1>7, <2>1, EchoTimely
<1>8. CASE /\ ~Overtaken(t, s)
           /\ AwaitsRollFrame(t.phase) => ~s.started \/ MyDiceKey(s) = t.key
           /\ t.phase.kind # "settling" /\ u = ShowFor(t, s)
  <2>1. Rolling(t.phase) => s.started
    BY <1>1, StartedWhen
  <2>2. Rolling(t.phase) => s.round = t.cur.round
    BY <1>3, <1>8, <2>1
  <2>3. AwaitingAck(t.phase) => MyDiceKey(s) = t.key
    BY <1>8, <2>1, KindsOf DEF AwaitingAck, AwaitsRollFrame
  <2> QED
    BY <1>8, <2>2, <2>3, ShowForTimely
<1> HIDE DEF u
<1>9. Timely(u, s, over)
  BY <1>1, <1>4, <1>5, <1>6, <1>7, <1>8, HandleStateIs DEF u
<1> QED
  BY <1>9 DEF u

LEMMA RoundWonTimely ==
  ASSUME NEW t \in FitTab, NEW s, Real(s), s.started, NEW mine \in BOOLEAN, mine => s.hits = Dice,
         Timely(t, s, "announced")
  PROVE  Timely(HandleRoundWon(t, s, mine), s, "announced")
<1> DEFINE u == HandleRoundWon(t, s, mine)
           result == WonResult(s, mine)
           ev == [t |-> "SERVER_ROLL", snap |-> s, result |-> result]
<1>1. s \in Snap /\ t.cur \in Snap /\ t.phase \in FitPhase
  BY TimelyHas, TabHas DEF Real
<1>2. /\ result \in Result /\ result # Nothing /\ result.round = s.round
      /\ (result.mine <=> mine)
  BY <1>1, WonIs
<1>3. CASE AwaitingAck(t.phase) /\ u = Dispatch(t, ev)
  <2>1. Transition(t.phase, ev) \in FitPhase
    BY <1>1, <1>2, <1>3, FramePhase
  <2>2. Turned(t, u) /\ u.phase = Transition(t.phase, ev)
    BY <1>3, <2>1, DispatchIs DEF Turned
  <2> HIDE DEF u, result
  <2>3. Timely(u, s, "announced")
    BY <1>2, <1>3, <2>2, FrameTimely
  <2> QED
    BY <2>3 DEF u
<1>4. CASE Won(t, s, mine, u)
  <2> HIDE DEF u
  <2>1. /\ u \in FitTab /\ u.phase = Celebrating(result) /\ u.cur = s
        /\ u.key = MyDiceKey(s) /\ u.button = "on" /\ SamePage(t, u) /\ u.intros = t.intros
        /\ u.active = t.active
    BY <1>4 DEF Won
  <2>2. Entries(u.soon) \subseteq Entries(t.soon) \cup {Committing("game")}
    <3>1. Committing("game") \in FitSoon /\ t.soon \in Seq(FitSoon)
      BY DEF FitTab, Committing, FitSoon, Soon, Screens
    <3> QED
      BY <1>4, <3>1, AppendIs DEF Won
  <2>3. Committing("game").do = "commit" /\ Committing("game").to = "game"
    BY DEF Committing
  <2>4. Stays(u)
    BY <2>1, <2>2, <2>3 DEF Timely, Stays, SamePage
  <2>5. Queued(u) \subseteq Queued(t)
    BY <2>1, <2>2, <2>3 DEF Queued
  <2>6. AtEase(u.phase, s, "announced")
    BY <1>1, <1>2, <2>1, CelebratingIs, KeyOf DEF AtEase, Settled
  <2>7. KeyTimely(u, s)
    BY <1>1, <2>1, KeyOf DEF KeyTimely
  <2>8. Unstarted(u, s) /\ NotAfter(u.cur, s)
    BY <2>1, NowIs DEF Unstarted
  <2>9. Timely(u, s, "announced")
    BY <1>1, <2>1, <2>4, <2>5, <2>6, <2>7, <2>8, RestTimely
  <2> QED
    BY <2>9 DEF u
<1> QED
  BY <1>1, <1>3, <1>4, RoundWonIs

LEMMA ErrorTimely ==
  ASSUME NEW t \in FitTab, NEW s \in Snap, NEW over, Timely(t, s, over)
  PROVE  Timely(HandleError(t), s, over)
<1> DEFINE u == HandleError(t)
<1>1. t.cur \in Snap /\ NotAfter(t.cur, s)
  BY TimelyHas
<1>2. Rejected(t, u)
  BY <1>1, ErrorIs
<1> HIDE DEF u
<1>3. /\ u \in FitTab /\ u.phase = Idle /\ SameQueue(t, u) /\ SamePage(t, u)
      /\ u.key = t.key /\ u.button = "on" /\ u.dialogs = t.dialogs /\ u.cur = t.cur
  BY <1>2 DEF Rejected
<1>4. Stays(u) /\ Unstarted(u, s)
  BY <1>3, UnstartedSame DEF Timely, Stays, SameQueue, SamePage
<1>5. KeyTimely(u, s)
  BY <1>3 DEF Timely, Past, KeyTimely
<1>6. Timely(u, s, over)
  BY <1>1, <1>3, <1>4, <1>5, IdleAtEase, QueuedSame, RestTimely
<1> QED
  BY <1>6 DEF u

-----------------------------------------------------------------------------
(* What was left to be done is done.                                       *)

\* u is t but for what is left to be done.
Relieved(t, u) ==
  /\ u \in FitTab /\ SameRoll(t, u) /\ SameBoard(t, u) /\ SamePage(t, u)
  /\ u.dialogs = t.dialogs /\ u.cur = t.cur /\ u.button = t.button /\ u.skipped = t.skipped

LEMMA RemovedIs ==
  ASSUME NEW t \in FitTab, NEW i \in DOMAIN t.soon
  PROVE  LET u == [t EXCEPT !.soon = RemoveAt(t.soon, i)]
         IN  /\ Relieved(t, u) /\ u.soon = RemoveAt(t.soon, i) /\ u.intros = t.intros
             /\ u.active = t.active
<1>1. RemoveAt(t.soon, i) \in Seq(FitSoon)
  BY RemoveIs DEF FitTab
<1> QED
  BY <1>1 DEF FitTab, Relieved, SameRoll, SameBoard, SamePage

LEMMA TailTaken ==
  ASSUME NEW t \in FitTab, t.intros # <<>>
  PROVE  LET u == [t EXCEPT !.intros = Tail(t.intros)]
         IN  /\ Relieved(t, u) /\ u.soon = t.soon /\ u.intros = Tail(t.intros)
             /\ u.active = t.active
<1>1. Tail(t.intros) \in Seq(Snap)
  BY DEF FitTab
<1> QED
  BY <1>1 DEF FitTab, Relieved, SameRoll, SameBoard, SamePage

LEMMA CommitIs ==
  ASSUME NEW t \in FitTab, NEW id \in Screens
  PROVE  LET u == Commit(t, id)
         IN  Relieved(t, u) /\ u.soon = t.soon /\ u.intros = t.intros /\ u.active = id
BY DEF Commit, FitTab, Relieved, SameRoll, SameBoard, SamePage

\* u is t with the board of s on the screen, or on its way to it.
Boarded(t, s, u) ==
  /\ u \in FitTab /\ SameRoll(t, u) /\ u.host = t.host /\ u.session = t.session
  /\ u.intros = t.intros /\ u.active = t.active /\ u.skipped = t.skipped /\ u.cur = s
  /\ u.soon = IF t.active = "game" THEN t.soon ELSE Append(t.soon, Committing("game"))
  /\ u.key = MyDiceKey(s)
  /\ MyDiceKey(s) = t.key => SameBoard(t, u)
  /\ MyDiceKey(s) # t.key => Fresh(s, u) /\ u.cut = FALSE
  /\ u.button = "none" => t.button = "none" /\ MyDiceKey(s) = t.key
  /\ Settled(t.phase) /\ ~s.paused => u.button \in {"none", "on"}

\* u is t with one more board to be revealed by the intro.
Introduced(t, s, u) ==
  /\ u \in FitTab /\ SameRoll(t, u) /\ SameBoard(t, u) /\ u.host = t.host
  /\ u.session = t.session /\ u.intros = Append(t.intros, s) /\ u.active = t.active
  /\ u.soon = t.soon /\ u.skipped = t.skipped /\ u.cur = t.cur /\ u.button = t.button

LEMMA DelaysIs ==
  ASSUME NEW t \in FitTab, NEW ds \in SUBSET {"hidePaused", "showGameDetail"}
  PROVE  LET u == [t EXCEPT !.delays = ds]
         IN  Same(t, u) /\ u.delays = ds /\ u.dialogs = t.dialogs /\ u.skipped = t.skipped
BY DEF FitTab, Same, SameRoll, SameBoard, SameQueue

\* The delays once the board is on its way.
Hiding(t) == IF "pause" \in t.dialogs THEN t.delays \cup {"hidePaused"} ELSE t.delays

LEMMA LaterIs ==
  ASSUME NEW t \in FitTab, NEW a \in FitSoon, a.do \in {"lobby", "wait", "hosting", "board"}
  PROVE  LET u == Later(t, a)
         IN  \/ /\ a.do = "lobby"
                /\ \E v : /\ Same(t, v) /\ v.dialogs = t.dialogs \ {"pause"}
                          /\ v.delays = t.delays /\ v.skipped = t.skipped
                          /\ Swapped(v, "lobby", u)
             \/ /\ a.do = "wait" /\ Boarded(t, a.snap, u)
                /\ u.dialogs = t.dialogs \cup {"pause"} /\ u.delays = t.delays
             \/ /\ a.do = "hosting" /\ Boarded(t, a.snap, u)
                /\ u.dialogs = t.dialogs \ {"winner", "pause"} /\ u.delays = t.delays
             \/ /\ a.do = "board" /\ (Boarded(t, a.snap, u) \/ Introduced(t, a.snap, u))
                /\ u.dialogs = t.dialogs \ {"winner"} /\ u.delays = Hiding(t)
<1> DEFINE u == Later(t, a)
<1>1. a.do \in {"wait", "hosting", "board"} => a.snap \in Snap
  BY DEF FitSoon
<1>2. CASE a.do = "lobby"
  <2> DEFINE v == HideDialogs(t, {"pause"})
  <2>1. /\ Same(t, v) /\ v.dialogs = t.dialogs \ {"pause"}
        /\ v.delays = t.delays /\ v.skipped = t.skipped
    BY HideIs DEF Same, SamePage
  <2>2. u = ShowScreen(v, "lobby")
    BY <1>2 DEF Later
  <2> HIDE DEF v, u
  <2>3. Swapped(v, "lobby", u)
    BY <2>1, <2>2, ScreenIs DEF Same, Swapped, Screens
  <2> QED
    BY <1>2, <2>1, <2>3 DEF u
<1>3. CASE a.do = "wait"
  <2> DEFINE v == ShowBoard(t, a.snap)
  <2>1. BoardShown(t, a.snap, v)
    BY <1>1, <1>3, ShowBoardIs
  <2>2. u = ShowDialog(v, "pause")
    BY <1>3 DEF Later
  <2> HIDE DEF v, u
  <2>3. /\ u \in FitTab /\ SameRoll(v, u) /\ SameBoard(v, u) /\ SamePage(v, u)
        /\ SameQueue(v, u) /\ u.dialogs = v.dialogs \cup {"pause"}
        /\ u.cur = v.cur /\ u.button = v.button /\ u.skipped = v.skipped
    BY <2>1, <2>2, ShowDialogIs DEF BoardShown
  <2>4. Boarded(t, a.snap, u)
    BY <2>1, <2>3 DEF BoardShown, Boarded, SameRoll, SameBoard, SamePage, SameQueue, Fresh
  <2>5. u.dialogs = t.dialogs \cup {"pause"} /\ u.delays = t.delays
    BY <2>1, <2>3 DEF BoardShown, SamePage
  <2> QED
    BY <1>3, <2>4, <2>5 DEF u
<1>4. CASE a.do = "hosting"
  <2> DEFINE v == HideDialogs(t, {"winner", "pause"})
  <2>1. /\ Same(t, v) /\ v.dialogs = t.dialogs \ {"winner", "pause"}
        /\ v.delays = t.delays /\ v.skipped = t.skipped
    BY HideIs DEF Same, SamePage
  <2>2. u = ShowBoard(v, a.snap)
    BY <1>4 DEF Later
  <2> HIDE DEF v, u
  <2>3. BoardShown(v, a.snap, u)
    BY <1>1, <1>4, <2>1, <2>2, ShowBoardIs DEF Same
  <2>4. Boarded(t, a.snap, u)
    BY <2>1, <2>3 DEF BoardShown, Boarded, Same, SameRoll, SameBoard, SamePage, SameQueue
  <2>5. u.dialogs = t.dialogs \ {"winner", "pause"} /\ u.delays = t.delays
    BY <2>1, <2>3 DEF BoardShown, SamePage
  <2> QED
    BY <1>4, <2>4, <2>5 DEF u
<1>5. CASE a.do = "board"
  <2> DEFINE calm == HideDialogs(t, {"winner"})
             introduced == [calm EXCEPT !.intros = Append(calm.intros, a.snap)]
             shown == IF a.flag THEN introduced ELSE ShowBoard(calm, a.snap)
             ds == IF "pause" \in t.dialogs THEN shown.delays \cup {"hidePaused"} ELSE shown.delays
             v == [shown EXCEPT !.delays = ds]
  <2>1. /\ Same(t, calm) /\ calm.dialogs = t.dialogs \ {"winner"}
        /\ calm.delays = t.delays /\ calm.skipped = t.skipped
    BY HideIs DEF Same, SamePage
  <2>2. u = v
    BY <1>5 DEF Later
  <2> HIDE DEF calm
  <2>3. Introduced(calm, a.snap, introduced) /\ introduced.dialogs = calm.dialogs
        /\ introduced.delays = calm.delays
    <3>1. calm \in FitTab
      BY <2>1 DEF Same
    <3>2. Append(calm.intros, a.snap) \in Seq(Snap)
      BY <1>1, <1>5, <3>1 DEF FitTab
    <3> QED
      BY <3>1, <3>2 DEF FitTab, Introduced, SameRoll, SameBoard
  <2> HIDE DEF introduced
  <2>4. BoardShown(calm, a.snap, ShowBoard(calm, a.snap))
    BY <1>1, <1>5, <2>1, ShowBoardIs DEF Same
  <2>5. \/ Introduced(calm, a.snap, shown)
        \/ Boarded(calm, a.snap, shown)
    BY <2>3, <2>4 DEF BoardShown, Boarded, SamePage
  <2>6. shown \in FitTab /\ shown.dialogs = calm.dialogs /\ shown.delays = calm.delays
    BY <2>3, <2>4 DEF BoardShown, Introduced, SamePage
  <2> HIDE DEF shown
  <2>7. ds \in SUBSET {"hidePaused", "showGameDetail"} /\ ds = Hiding(t)
    BY <2>1, <2>6 DEF FitTab, Hiding
  <2> HIDE DEF ds
  <2>8. Same(shown, v) /\ v.delays = ds /\ v.dialogs = shown.dialogs /\ v.skipped = shown.skipped
    BY <2>6, <2>7, DelaysIs
  <2> HIDE DEF v, u
  <2>9. Introduced(calm, a.snap, shown) => Introduced(t, a.snap, v)
    BY <2>1, <2>8 DEF Introduced, Same, SameRoll, SameBoard, SameQueue
  <2>10. Boarded(calm, a.snap, shown) => Boarded(t, a.snap, v)
    <3>1. ASSUME Boarded(calm, a.snap, shown) PROVE Boarded(calm, a.snap, v)
      BY <2>8, <3>1 DEF Boarded, Same, SameRoll, SameBoard, SameQueue, Fresh
    <3> QED
      BY <2>1, <3>1 DEF Boarded, Same, SameRoll, SameBoard, SameQueue
  <2>11. Boarded(t, a.snap, v) \/ Introduced(t, a.snap, v)
    BY <2>5, <2>9, <2>10
  <2>12. v.dialogs = t.dialogs \ {"winner"} /\ v.delays = Hiding(t)
    BY <2>1, <2>6, <2>7, <2>8
  <2> QED
    BY <1>5, <2>2, <2>11, <2>12 DEF u
<1> QED
  BY <1>2, <1>3, <1>4, <1>5

-----------------------------------------------------------------------------
(* In their time.                                                          *)

LEMMA BoardedTimely ==
  ASSUME NEW t \in FitTab, NEW s \in Snap, NEW over, Timely(t, s, over), s.started,
         NEW x, MayDraw(t, x, s), NEW u, Boarded(t, x, u),
         "showGameDetail" \notin u.delays,
         "winner" \in u.dialogs => "winner" \in t.dialogs
  PROVE  Timely(u, s, over)
<1>1. /\ u.phase = t.phase /\ u.timers = t.timers /\ u.intros = t.intros
      /\ u.active = t.active /\ u.cur = x /\ u.key = MyDiceKey(x) /\ u.session = t.session
      /\ u.button = "none" => t.button = "none" /\ MyDiceKey(x) = t.key
  BY DEF Boarded, SameRoll
<1>2. Entries(u.soon) \subseteq Entries(t.soon) \cup {Committing("game")}
  <2>1. Committing("game") \in FitSoon /\ t.soon \in Seq(FitSoon)
    BY DEF FitTab, Committing, FitSoon, Soon, Screens
  <2> QED
    BY <2>1, AppendIs DEF Boarded
<1>3. Committing("game").do = "commit" /\ Committing("game").to = "game"
  BY DEF Committing
<1>4. Queued(u) \subseteq Queued(t)
  BY <1>1, <1>2, <1>3 DEF Queued
<1>5. \A y : Beside(u, y, s) <=> Beside(t, y, s)
  BY SettledTells DEF Boarded
<1>6. NotAfter(x, s) /\ x \in Snap /\ Beside(t, x, s)
  BY DEF MayDraw, Beside, NotAfter
<1>7. Stays(u)
  BY <1>1, <1>2, <1>3 DEF Timely, Stays
<1>8. Past(u, s)
  <2>1. \A y \in Queued(u) \cup {u.cur} : Beside(u, y, s)
    BY <1>1, <1>4, <1>5, <1>6 DEF Timely, Past
  <2>2. u.key[1] = x.round /\ u.key[2] = x.rolls
    BY <1>1, <1>6, KeyOf
  <2>3. /\ u.key[1] < s.round \/ (u.key[1] = s.round /\ u.key[2] <= s.rolls)
        /\ u.key[1] <= u.cur.round
    BY <1>1, <1>6, <2>2, KeyOf DEF NotAfter
  <2>4. u.key # <<0, 0>> => u.button # "none"
    BY <1>1 DEF Timely, Past
  <2> QED
    BY <1>1, <2>1, <2>3, <2>4 DEF Timely, Past
<1>9. Unstarted(u, s)
  BY DEF Unstarted
<1>10. InRoll(u, s, over)
  <2>1. AwaitingAck(u.phase) => \A y \in Queued(u) : MyDiceKey(y) = u.key /\ y.round = u.cur.round
    BY <1>1, <1>4 DEF Timely, InRoll, MayDraw
  <2>2. AwaitsRollFrame(u.phase) =>
          /\ u.cur.round = s.round => u.phase.before <= s.hits
          /\ u.phase.stashed = Nothing /\ u.phase.result = Nothing
    BY <1>1, KindsOf DEF Timely, InRoll, MayDraw
  <2>3. Rolling(u.phase) => u.button # "none"
    BY <1>1 DEF Timely, InRoll
  <2> QED
    BY <1>1, <2>1, <2>2, <2>3 DEF Timely, InRoll, InHand
<1> QED
  BY <1>7, <1>8, <1>9, <1>10 DEF Timely

\* What was queued may be drawn.
LEMMA QueuedMayDraw ==
  ASSUME NEW t \in FitTab, NEW s \in Snap, NEW over, Timely(t, s, over), NEW x \in Queued(t)
  PROVE  MayDraw(t, x, s)
BY DEF MayDraw, Timely, Past, InRoll

LEMMA TakenTimely ==
  ASSUME NEW t \in FitTab, NEW s \in Snap, NEW over, Timely(t, s, over), NEW u, Relieved(t, u),
         Entries(u.soon) \subseteq Entries(t.soon),
         Entries(u.intros) \subseteq Entries(t.intros), t.intros = <<>> => u.intros = <<>>,
         u.active \in {"lobby", "loading", "game"}, ~s.started => u.active # "game"
  PROVE  /\ Timely(u, s, over)
         /\ \A x : MayDraw(u, x, s) <=> MayDraw(t, x, s)
<1>1. /\ u.phase = t.phase /\ u.timers = t.timers /\ u.cur = t.cur /\ u.key = t.key
      /\ u.button = t.button /\ u.session = t.session /\ u.dialogs = t.dialogs
      /\ u.delays = t.delays
  BY DEF Relieved, SameRoll, SameBoard, SamePage
<1>2. Queued(u) \subseteq Queued(t)
  BY DEF Queued
<1>3. \A x : Beside(u, x, s) <=> Beside(t, x, s)
  BY SettledTells DEF Relieved
<1>4. Stays(u)
  BY <1>1 DEF Timely, Stays
<1>5. Past(u, s)
  BY <1>1, <1>2, <1>3 DEF Timely, Past
<1>6. Unstarted(u, s)
  BY <1>1 DEF Timely, Unstarted
<1>7. InRoll(u, s, over)
  BY <1>1, <1>2 DEF Timely, InRoll, InHand
<1>8. \A x : MayDraw(u, x, s) <=> MayDraw(t, x, s)
  BY <1>1, <1>3 DEF MayDraw
<1> QED
  BY <1>4, <1>5, <1>6, <1>7, <1>8 DEF Timely

LEMMA LaterTimely ==
  ASSUME NEW t \in FitTab, NEW s \in Snap, NEW over, Timely(t, s, over),
         NEW a \in FitSoon, a.do \in {"lobby", "wait", "hosting", "board"},
         a.do \in {"wait", "hosting", "board"} => s.started /\ MayDraw(t, a.snap, s)
  PROVE  Timely(Later(t, a), s, over)
<1> DEFINE u == Later(t, a)
<1>0. "showGameDetail" \notin t.delays /\ "showGameDetail" \notin Hiding(t)
  BY DEF Timely, Stays, Hiding
<1>1. CASE /\ a.do = "lobby"
           /\ \E v : /\ Same(t, v) /\ v.dialogs = t.dialogs \ {"pause"}
                     /\ v.delays = t.delays /\ v.skipped = t.skipped
                     /\ Swapped(v, "lobby", u)
  <2>1. PICK v : /\ Same(t, v) /\ v.dialogs = t.dialogs \ {"pause"}
                 /\ v.delays = t.delays /\ v.skipped = t.skipped
                 /\ Swapped(v, "lobby", u)
    BY <1>1
  <2>2. ~s.started => v.dialogs = {} /\ v.delays = {}
    BY <2>1 DEF Timely, Unstarted
  <2>3. Timely(v, s, over) /\ v \in FitTab
    BY <1>0, <2>1, <2>2, SameTimely DEF Same
  <2> HIDE DEF u
  <2>4. Timely(u, s, over)
    BY <2>1, <2>3, SwapTimely
  <2> QED
    BY <2>4 DEF u
<1>2. ASSUME a.do # "lobby", Boarded(t, a.snap, u), u.delays \in {t.delays, Hiding(t)},
             "winner" \in u.dialogs => "winner" \in t.dialogs
      PROVE  Timely(u, s, over)
  <2> HIDE DEF u
  <2> QED
    BY <1>0, <1>2, BoardedTimely
<1>3. ASSUME a.do = "board", Introduced(t, a.snap, u), u.dialogs = t.dialogs \ {"winner"},
             u.delays = Hiding(t)
      PROVE  Timely(u, s, over)
  <2> HIDE DEF u
  <2>1. /\ u.phase = t.phase /\ u.timers = t.timers /\ u.cur = t.cur /\ u.key = t.key
        /\ u.button = t.button /\ u.session = t.session /\ u.soon = t.soon /\ u.active = t.active
    BY <1>3 DEF Introduced, SameRoll, SameBoard
  <2>2. s.started /\ MayDraw(t, a.snap, s)
    BY <1>3
  <2>3. Queued(u) = Queued(t) \cup {a.snap}
    <3>1. t.intros \in Seq(Snap) /\ a.snap \in Snap
      BY <2>2 DEF FitTab, MayDraw, Beside, NotAfter
    <3>2. Entries(u.intros) = Entries(t.intros) \cup {a.snap}
      BY <1>3, <3>1, AppendIs DEF Introduced
    <3> QED
      BY <2>1, <3>2 DEF Queued
  <2>4. \A x : Beside(u, x, s) <=> Beside(t, x, s)
    BY <1>3, SettledTells DEF Introduced
  <2>5. Stays(u)
    BY <1>0, <1>3, <2>1 DEF Timely, Stays
  <2>6. Past(u, s)
    BY <2>1, <2>2, <2>3, <2>4 DEF Timely, Past, MayDraw
  <2>7. Unstarted(u, s)
    BY <2>2 DEF Unstarted
  <2>8. InRoll(u, s, over)
    BY <1>3, <2>1, <2>2, <2>3 DEF Timely, InRoll, InHand, MayDraw
  <2> QED
    BY <2>5, <2>6, <2>7, <2>8 DEF Timely
<1>4. CASE /\ a.do = "wait" /\ Boarded(t, a.snap, u)
           /\ u.dialogs = t.dialogs \cup {"pause"} /\ u.delays = t.delays
  BY <1>2, <1>4
<1>5. CASE /\ a.do = "hosting" /\ Boarded(t, a.snap, u)
           /\ u.dialogs = t.dialogs \ {"winner", "pause"} /\ u.delays = t.delays
  BY <1>2, <1>5
<1>6. CASE /\ a.do = "board" /\ (Boarded(t, a.snap, u) \/ Introduced(t, a.snap, u))
           /\ u.dialogs = t.dialogs \ {"winner"} /\ u.delays = Hiding(t)
  BY <1>2, <1>3, <1>6
<1> HIDE DEF u
<1>7. Timely(u, s, over)
  BY <1>1, <1>4, <1>5, <1>6, LaterIs DEF u
<1> QED
  BY <1>7 DEF u

-----------------------------------------------------------------------------
(* What the player, the page and the game do, and when.                    *)

\* A roll that has just been sent.
Sent(t, u) ==
  /\ u \in FitTab /\ u.phase.kind = "shaking" /\ u.phase.before = t.cur.hits
  /\ u.phase.snap = Nothing /\ u.phase.result = Nothing /\ u.phase.stashed = Nothing
  /\ u.timers = {"pump"} /\ SameQueue(t, u) /\ SameBoard(t, u) /\ SamePage(t, u)
  /\ u.dialogs = t.dialogs /\ u.cur = t.cur /\ u.skipped = t.skipped /\ u.button = "off"

LEMMA RollIs ==
  ASSUME NEW t \in FitTab, CanRoll(t)
  PROVE  Sent(t, Roll(t))
<1> DEFINE ev == [t |-> "ROLL_SENT", before |-> t.cur.hits]
           v == Dispatch(t, ev)
           u == [v EXCEPT !.button = "off", !.timers = {"pump"}]
<1>1. t.phase \in FitPhase /\ t.cur \in Snap /\ t.phase.kind = "idle"
  BY TabHas DEF CanRoll
<1>2. t.cur.hits \in Nat
  BY <1>1, KeyOf
<1>3. LET q == Transition(t.phase, ev)
      IN  /\ q \in FitPhase /\ q.kind = "shaking" /\ q.before = t.cur.hits
          /\ q.snap = Nothing /\ q.result = Nothing /\ q.stashed = Nothing
  BY <1>1, <1>2, SentPhase
<1>4. /\ v \in FitTab /\ v.phase = Transition(t.phase, ev) /\ v.timers = t.timers
      /\ SameBoard(t, v) /\ SameQueue(t, v) /\ SamePage(t, v) /\ v.dialogs = t.dialogs
      /\ v.cur = t.cur /\ v.button = t.button /\ v.skipped = t.skipped
  BY <1>3, DispatchIs
<1> HIDE DEF v
<1>5. /\ u \in FitTab /\ u.phase = v.phase /\ u.timers = {"pump"}
      /\ SameBoard(v, u) /\ SameQueue(v, u) /\ SamePage(v, u) /\ u.dialogs = v.dialogs
      /\ u.cur = v.cur /\ u.button = "off" /\ u.skipped = v.skipped
  BY <1>4 DEF FitTab, SameQueue, SameBoard, SamePage
<1> HIDE DEF u
<1>6. SameBoard(t, u) /\ SameQueue(t, u) /\ SamePage(t, u)
  BY <1>4, <1>5 DEF SameBoard, SameQueue, SamePage
<1>7. u = Roll(t)
  BY DEF u, v, Roll
<1>8. Sent(t, u)
  BY <1>3, <1>4, <1>5, <1>6 DEF Sent
<1> QED
  BY <1>7, <1>8

\* With the board at hand nothing is left to be done.
Clear(t) == t.active = "game" /\ t.dialogs = {} /\ t.soon = <<>> /\ t.intros = <<>>

LEMMA ClearIs ==
  ASSUME NEW t, Clear(t)
  PROVE  Queued(t) = {} /\ Entries(t.soon) = {} /\ Commits(t.soon) /\ Latest(t.soon) = {}
BY DEF Clear, Queued, Entries, Commits, Latest

LEMMA SentTimely ==
  ASSUME NEW t \in FitTab, NEW s \in Snap, NEW over, Timely(t, s, over), Clear(t),
         NEW u, Sent(t, u)
  PROVE  Timely(u, s, over)
<1>1. Queued(u) = {} /\ Entries(u.soon) = Entries(t.soon)
  BY ClearIs, QueuedSame DEF Sent
<1>2. /\ u.phase.kind = "shaking" /\ u.cur = t.cur /\ u.key = t.key /\ u.dialogs = t.dialogs
      /\ u.button = "off" /\ u.delays = t.delays
  BY DEF Sent, SameBoard, SamePage
<1>3. /\ ~InHand(u) /\ ~Held(u) /\ ~Settled(u.phase) /\ u.phase.kind # "idle"
  BY <1>2 DEF InHand, Held, Settled
<1>4. s.started
  BY StartedWhen DEF Clear
<1>5. t.cur \in Snap /\ NotAfter(t.cur, s)
  BY TimelyHas
<1>6. Stays(u)
  BY DEF Timely, Stays, Sent, SameQueue, SamePage
<1>7. Past(u, s)
  <2>1. Beside(u, u.cur, s)
    BY <1>2, <1>3, <1>5 DEF Beside
  <2> QED
    BY <1>1, <1>2, <2>1 DEF Timely, Past, Sent
<1>8. Unstarted(u, s)
  BY <1>4 DEF Unstarted
<1>9. InRoll(u, s, over)
  <2>1. u.cur.round = s.round => u.phase.before <= s.hits
    BY <1>2, <1>5, KeyOf DEF NotAfter, Sent
  <2>2. "winner" \notin u.dialogs /\ u.button # "none"
    BY <1>2 DEF Clear
  <2> QED
    BY <1>1, <1>3, <2>1, <2>2 DEF InRoll, Sent
<1> QED
  BY <1>6, <1>7, <1>8, <1>9 DEF Timely

\* The page shows the loading screen when the socket is lost.
LEMMA LoadingTimely ==
  ASSUME NEW t \in FitTab, NEW s \in Snap, NEW over, Timely(t, s, over)
  PROVE  Swapped(t, "loading", ShowLoading(t)) /\ Timely(ShowLoading(t), s, over)
<1>1. "loading" \in Screens
  BY DEF Screens
<1>2. Swapped(t, "loading", ShowLoading(t))
  BY <1>1, ScreenIs DEF Swapped, ShowLoading
<1> QED
  BY <1>2, SwapTimely

-----------------------------------------------------------------------------
(* What is done later.                                                     *)

\* The i-th entry of soon has had its turn.
Removed(t, i, v) ==
  /\ Relieved(t, v) /\ v.soon = RemoveAt(t.soon, i) /\ v.intros = t.intros
  /\ v.active = t.active

Ran(t, i, u) ==
  /\ InTurn(t.soon, i)
  /\ \E v : /\ Removed(t, i, v)
            /\ \/ /\ t.soon[i].do = "commit" /\ t.soon[i].to \in Screens
                  /\ u = Commit(v, t.soon[i].to)
               \/ /\ t.soon[i].do # "commit"
                  /\ \E w : Marked(v, t.intros # <<>>, w) /\ u = Later(w, t.soon[i])

LEMMA RunSoonIs ==
  ASSUME NEW t \in FitTab, NEW i \in DOMAIN t.soon, InTurn(t.soon, i), NEW u,
         LET a == t.soon[i]
             rest == [t EXCEPT !.soon = RemoveAt(@, i)]
         IN  u = IF a.do = "commit" THEN Commit(rest, a.to)
                 ELSE Later(Passed(rest, t.intros # <<>>), a)
  PROVE  t.soon[i] \in FitSoon /\ Ran(t, i, u)
<1> DEFINE v == [t EXCEPT !.soon = RemoveAt(t.soon, i)]
<1>1. t.soon \in Seq(FitSoon) /\ t.soon[i] \in FitSoon
  <2>1. t.soon \in Seq(FitSoon)
    BY DEF FitTab
  <2> QED
    BY <2>1
<1>2. Removed(t, i, v)
  BY RemovedIs DEF Removed
<1>3. u = IF t.soon[i].do = "commit" THEN Commit(v, t.soon[i].to)
          ELSE Later(Passed(v, t.intros # <<>>), t.soon[i])
  OBVIOUS
<1> HIDE DEF v
<1>4. Marked(v, t.intros # <<>>, Passed(v, t.intros # <<>>))
  BY <1>2, MarkIs DEF Removed, Relieved
<1>5. t.soon[i].do = "commit" => t.soon[i].to \in Screens
  BY <1>1 DEF FitSoon, Soon
<1> QED
  BY <1>1, <1>2, <1>3, <1>4, <1>5 DEF Ran

LEMMA RanTimely ==
  ASSUME NEW t \in FitTab, NEW s \in Snap, NEW over, Timely(t, s, over),
         NEW i \in DOMAIN t.soon, t.soon[i] \in FitSoon, NEW u, Ran(t, i, u)
  PROVE  Timely(u, s, over)
<1> DEFINE a == t.soon[i]
<1>1. t.soon \in Seq(FitSoon) /\ a \in Entries(t.soon)
  BY DEF FitTab, Entries
<1>2. PICK v : /\ Removed(t, i, v)
               /\ \/ /\ a.do = "commit" /\ a.to \in Screens
                     /\ u = Commit(v, a.to)
                  \/ /\ a.do # "commit"
                     /\ \E w : Marked(v, t.intros # <<>>, w) /\ u = Later(w, a)
  BY DEF Ran
<1>3. Entries(v.soon) \subseteq Entries(t.soon) /\ v.intros = t.intros /\ v.active = t.active
  BY <1>1, <1>2, TakeIs DEF Ran, Removed
<1>4. v \in FitTab /\ Relieved(t, v)
  BY <1>2 DEF Removed, Relieved
<1>5. /\ v.active \in {"lobby", "loading", "game"}
      /\ ~s.started => v.active # "game"
  BY <1>3 DEF Timely, Stays, Unstarted
<1>6. /\ Timely(v, s, over)
      /\ \A x : MayDraw(v, x, s) <=> MayDraw(t, x, s)
  BY <1>3, <1>4, <1>5, TakenTimely
<1>7. CASE a.do = "commit" /\ a.to \in Screens /\ u = Commit(v, a.to)
  <2>1. a.to \in {"lobby", "loading", "game"} /\ (~s.started => a.to # "game")
    BY <1>1, <1>7 DEF Timely, Stays, Unstarted
  <2>2. /\ Relieved(v, Commit(v, a.to)) /\ Commit(v, a.to).soon = v.soon
        /\ Commit(v, a.to).intros = v.intros /\ Commit(v, a.to).active = a.to
    BY <1>4, <1>7, CommitIs
  <2> HIDE DEF a
  <2>3. /\ Relieved(v, u) /\ u.soon = v.soon /\ u.intros = v.intros /\ u.active = a.to
    BY <1>7, <2>2
  <2> QED
    BY <1>4, <1>6, <2>1, <2>3, TakenTimely
<1>8. CASE /\ a.do # "commit"
           /\ \E w : Marked(v, t.intros # <<>>, w) /\ u = Later(w, a)
  <2>1. PICK w : Marked(v, t.intros # <<>>, w) /\ u = Later(w, a)
    BY <1>8
  <2>2. Timely(w, s, over) /\ w \in FitTab /\ Same(v, w)
    BY <1>4, <1>6, <2>1, MarkedTimely DEF Marked, Same
  <2>3. a.do \in {"lobby", "wait", "hosting", "board"}
    BY <1>1, <1>8 DEF Timely, Stays
  <2>4. a.do # "lobby" => s.started /\ MayDraw(t, a.snap, s)
    <3>1. a.snap \in Queued(t)
      BY <1>1, <1>8 DEF Queued
    <3> QED
      BY <1>1, <1>8, <3>1, QueuedMayDraw DEF Timely, Unstarted
  <2>5. \A x : MayDraw(w, x, s) <=> MayDraw(v, x, s)
    <3>1. \A x : Beside(w, x, s) <=> Beside(v, x, s)
      BY <2>2, SettledTells DEF Same
    <3> QED
      BY <2>2, <3>1 DEF MayDraw, Same, SameRoll, SameBoard
  <2>6. a \in FitSoon
    OBVIOUS
  <2> HIDE DEF a
  <2> QED
    BY <1>6, <2>1, <2>2, <2>3, <2>4, <2>5, <2>6, LaterTimely
<1> QED
  BY <1>2, <1>7, <1>8

LEMMA RevealGameTimely ==
  ASSUME NEW t \in FitTab, NEW s \in Snap, NEW over, Timely(t, s, over), t.intros # <<>>
  PROVE  \E v : /\ Relieved(t, v) /\ v.soon = t.soon /\ v.intros = Tail(t.intros)
                /\ v.active = t.active
                /\ BoardShown(v, Head(t.intros),
                     ShowBoard([t EXCEPT !.intros = Tail(@)], Head(t.intros)))
                /\ Timely(ShowBoard([t EXCEPT !.intros = Tail(@)], Head(t.intros)), s, over)
<1> DEFINE v == [t EXCEPT !.intros = Tail(t.intros)]
           x == Head(t.intros)
<1>1. t.intros \in Seq(Snap)
  BY DEF FitTab
<1>2. x \in Snap /\ Entries(t.intros) = Entries(Tail(t.intros)) \cup {x}
  BY <1>1, TailIs
<1>3. Relieved(t, v) /\ v.soon = t.soon /\ v.intros = Tail(t.intros) /\ v.active = t.active
  BY TailTaken
<1>4. v = [t EXCEPT !.intros = Tail(@)]
  OBVIOUS
<1> HIDE DEF v, x
<1>5. v \in FitTab
  BY <1>3 DEF Relieved
<1>6. s.started
  BY StartedWhen
<1>7. Timely(v, s, over) /\ \A y : MayDraw(v, y, s) <=> MayDraw(t, y, s)
  BY <1>2, <1>3, <1>5, <1>6, TakenTimely DEF Timely, Stays
<1>8. MayDraw(t, x, s)
  BY <1>2, QueuedMayDraw DEF Queued
<1>9. Timely(ShowBoard(v, x), s, over)
  BY <1>5, <1>6, <1>7, <1>8, BoardTimely
<1>10. BoardShown(v, x, ShowBoard(v, x))
  BY <1>2, <1>5, ShowBoardIs
<1> QED
  BY <1>3, <1>4, <1>9, <1>10 DEF x

\* The pause dialog goes, once it has faded.
Faded(t, u) ==
  /\ Same(t, u) /\ u.delays = t.delays \ {"hidePaused"} /\ u.dialogs = t.dialogs \ {"pause"}
  /\ u.skipped = t.skipped

LEMMA FadeIs ==
  ASSUME NEW t \in FitTab
  PROVE  Faded(t, HideDialogs([t EXCEPT !.delays = t.delays \ {"hidePaused"}], {"pause"}))
<1> DEFINE v == [t EXCEPT !.delays = t.delays \ {"hidePaused"}]
           u == HideDialogs(v, {"pause"})
<1>1. t.delays \ {"hidePaused"} \in SUBSET {"hidePaused", "showGameDetail"}
  BY DEF FitTab
<1>2. /\ Same(t, v) /\ v.delays = t.delays \ {"hidePaused"} /\ v.dialogs = t.dialogs
      /\ v.skipped = t.skipped
  BY <1>1, DelaysIs
<1> HIDE DEF v
<1>3. v \in FitTab
  BY <1>2 DEF Same
<1>4. /\ u \in FitTab /\ SameRoll(v, u) /\ SameBoard(v, u) /\ SamePage(v, u)
      /\ SameQueue(v, u) /\ u.dialogs = v.dialogs \ {"pause"}
      /\ u.cur = v.cur /\ u.button = v.button /\ u.skipped = v.skipped
  BY <1>3, HideIs
<1> HIDE DEF u
<1>5. Faded(t, u)
  BY <1>2, <1>4 DEF Faded, Same, SameRoll, SameQueue, SameBoard, SamePage
<1> QED
  BY <1>5 DEF u, v

LEMMA FadedTimely ==
  ASSUME NEW t \in FitTab, NEW s \in Snap, NEW over, Timely(t, s, over),
         NEW u, Faded(t, u)
  PROVE  Timely(u, s, over)
<1>1. "showGameDetail" \notin u.delays
  BY DEF Faded, Timely, Stays
<1>2. ~s.started => u.dialogs = {} /\ u.delays = {}
  BY DEF Faded, Timely, Unstarted
<1> QED
  BY <1>1, <1>2, SameTimely DEF Faded

-----------------------------------------------------------------------------
(* The board is what key says.                                             *)

\* A reveal has these dice in hand.
Handles(t) == t.tumbling /\ ~t.cut

LEMMA HandlesIs ==
  ASSUME NEW t, NEW s, Board(t, s), Handles(t)
  PROVE  /\ t.phase.kind = "revealing" /\ "pump" \notin t.timers /\ ~Held(t)
         /\ t.key = MyDiceKey(t.phase.snap) /\ t.cur.round = t.key[1]
         /\ t.locked = t.phase.before /\ t.phase.before <= t.phase.snap.hits
         /\ t.loose = Dice - t.locked /\ t.round = t.key[1]
         /\ "pop" \in t.timers => t.faces = t.key
BY DEF Handles, Board, Held

LEMMA KeptBoard ==
  ASSUME NEW t \in FitTab, NEW s, Board(t, s), NEW u \in FitTab, SameBoard(t, u),
         Handles(t) => u.phase = t.phase /\ u.timers = t.timers /\ u.cur.round = t.key[1]
  PROVE  Board(u, s)
BY HandlesIs DEF Board, SameBoard, Handles

LEMMA SameIsBoard ==
  ASSUME NEW t \in FitTab, NEW s, Board(t, s), NEW u \in FitTab, SameBoard(t, u),
         SameRoll(t, u), u.cur = t.cur
  PROVE  Board(u, s)
BY KeptBoard, HandlesIs DEF SameRoll

LEMMA SameHits ==
  ASSUME NEW s \in Snap, NEW x, NotAfter(x, s), MyDiceKey(x) = MyDiceKey(s)
  PROVE  x.hits = s.hits
<1>1. x \in Snap
  BY DEF NotAfter
<1>2. x.round = MyDiceKey(x)[1] /\ x.rolls = MyDiceKey(x)[2] /\ x.round \in Nat
  BY <1>1, KeyOf
<1>3. s.round = MyDiceKey(s)[1] /\ s.rolls = MyDiceKey(s)[2] /\ s.round \in Nat
  BY KeyOf
<1>4. x.round = s.round /\ x.rolls = s.rolls
  BY <1>2, <1>3
<1>5. ~(x.round < s.round)
  BY <1>3, <1>4
<1> QED
  BY <1>4, <1>5 DEF NotAfter

LEMMA FreshBoard ==
  ASSUME NEW s \in Snap, NEW x, NotAfter(x, s), NEW u, Fresh(x, u),
         ~u.cut => u.key = MyDiceKey(x)
  PROVE  Board(u, s)
<1> SUFFICES ASSUME ~u.cut PROVE Board(u, s)
  BY DEF Board
<1>1. x \in Snap /\ u.key = MyDiceKey(x) /\ u.key[1] = x.round
  BY KeyOf DEF NotAfter
<1>2. u.key = MyDiceKey(s) => x.hits = s.hits
  BY <1>1, SameHits
<1> QED
  BY <1>1, <1>2 DEF Board, Fresh

LEMMA ShownBoard ==
  ASSUME NEW t \in FitTab, NEW s, Board(t, s), NEW x, NEW u, ShownFor(t, x, u),
         Handles(t) => x.round = t.key[1]
  PROVE  Board(u, s)
<1>1. u \in FitTab /\ SameBoard(t, u) /\ u.cur = x /\ u.timers = t.timers
  BY DEF ShownFor
<1>2. Handles(t) => u.phase = t.phase
  BY HandlesIs DEF ShownFor
<1> QED
  BY <1>1, <1>2, KeptBoard

\* The board is drawn from x, or was already.
LEMMA DrawnBoard ==
  ASSUME NEW t \in FitTab, NEW s \in Snap, Board(t, s), NEW x, NotAfter(x, s),
         NEW u \in FitTab, SameRoll(t, u), u.key = MyDiceKey(x), u.cur = x,
         MyDiceKey(x) = t.key => SameBoard(t, u),
         MyDiceKey(x) # t.key => Fresh(x, u) /\ u.cut = FALSE
  PROVE  Board(u, s)
<1>1. CASE MyDiceKey(x) = t.key
  <2>1. x.round = t.key[1]
    BY <1>1, KeyOf DEF NotAfter
  <2> QED
    BY <1>1, <2>1, KeptBoard DEF SameRoll
<1>2. CASE MyDiceKey(x) # t.key
  BY <1>2, FreshBoard
<1> QED
  BY <1>1, <1>2

\* A turn of the roll that no dice tumble in.
LEMMA TurnedBoard ==
  ASSUME NEW t \in FitTab, NEW s, Board(t, s), NEW u, Turned(t, u),
         t.phase.kind # "revealing" \/ Held(t)
  PROVE  Board(u, s) /\ ~Handles(u)
<1>1. ~Handles(t)
  BY HandlesIs
<1> QED
  BY <1>1, KeptBoard DEF Turned, Handles, SameBoard

LEMMA CompleteBoard ==
  ASSUME NEW t \in FitTab, t.phase.kind = "revealing", NEW s, Board(t, s), ~Handles(t)
  PROVE  Board(Complete(t), s)
<1> DEFINE w == Calm(t)
           u == Complete(t)
<1>1. Completed(t, w, u)
  BY CompleteIs
<1> HIDE DEF u, w
<1>2. w \in FitTab /\ SameBoard(t, w)
  BY <1>1 DEF Completed, Calmed
<1>3. u \in FitTab /\ SameBoard(t, u)
  <2>1. CASE t.phase.result # Nothing
    BY <1>1, <1>2, <2>1 DEF Completed, Marked, Same, SameBoard
  <2>2. CASE t.phase.result = Nothing /\ t.phase.stashed # Nothing
    <3>1. PICK v : ShownFor(w, t.phase.stashed, v) /\ Marked(v, t.skipped, u)
      BY <1>1, <2>2 DEF Completed
    <3> QED
      BY <1>2, <3>1 DEF ShownFor, Marked, Same, SameBoard
  <2>3. CASE t.phase.result = Nothing /\ t.phase.stashed = Nothing
    BY <1>1, <1>2, <2>3 DEF Completed
  <2> QED
    BY <2>1, <2>2, <2>3
<1>4. Board(u, s)
  BY <1>3, KeptBoard
<1> QED
  BY <1>4 DEF u

\* The reveal of t has begun, from v.
LEMMA BegunBoard ==
  ASSUME NEW t \in FitTab, Held(t), NEW s \in Snap, NEW over, Timely(t, s, over), Board(t, s),
         NEW v, Turned(t, v), SamePhase(t.phase, v.phase), v.phase.kind = "revealing",
         v.phase.snap.round = v.round, v.loose # 0, NEW u, Begun(v, u)
  PROVE  Board(u, s)
<1> SUFFICES ASSUME ~u.cut PROVE Board(u, s)
  BY DEF Board
<1>1. InHand(t) /\ t.phase.snap \in Snap /\ t.cur \in Snap /\ Beside(t, t.cur, s)
  BY KindsOf, TimelyHas
<1>2. /\ u.key = MyDiceKey(t.phase.snap) /\ u.cur = t.phase.snap /\ u.phase = v.phase
      /\ u.timers = {"reveal"} /\ u.tumbling = TRUE /\ u.phase.snap = t.phase.snap
      /\ u.phase.before = t.phase.before
      /\ u.round = t.round /\ u.locked = t.locked /\ u.loose = t.loose
      /\ t.phase.snap.round = t.round /\ t.loose # 0
  BY DEF Begun, Revealing, SamePhase, Turned, SameBoard
<1>3. ~t.cut /\ t.locked = t.phase.before
  BY DEF Begun, SamePhase, Turned, SameBoard
<1>4. t.round = t.key[1] /\ t.loose = Dice - t.locked
  BY <1>2, <1>3 DEF Board
<1>5. t.phase.before <= t.phase.snap.hits
  <2>1. t.cur.round = t.phase.snap.round
    <3>1. t.key[1] <= t.cur.round /\ t.cur.round <= t.phase.snap.round
      BY <1>1 DEF Timely, Past, Beside
    <3> QED
      BY <1>1, <1>2, <1>4, <3>1, KeyOf
  <2> QED
    BY <1>1, <2>1 DEF Beside
<1>6. u.key[1] = t.phase.snap.round
  BY <1>1, <1>2, KeyOf
<1> QED
  BY <1>2, <1>3, <1>4, <1>5, <1>6 DEF Board

LEMMA RunRevealBoard ==
  ASSUME NEW t \in FitTab, Held(t), NEW s \in Snap, NEW over, Timely(t, s, over), Board(t, s),
         NEW v, Turned(t, v), SamePhase(t.phase, v.phase), v.phase.kind = "revealing"
  PROVE  Board(RunReveal(v), s)
<1>1. v \in FitTab /\ v.phase.snap = t.phase.snap
  BY DEF Turned, SamePhase
<1>2. CASE v.loose # 0 /\ v.phase.snap.round = v.round
  BY <1>1, <1>2, RunRevealIs, BegunBoard
<1>3. CASE v.loose = 0 \/ v.phase.snap.round # v.round
  <2>1. PICK w : Redrawn(v, w) /\ RunReveal(v) = Complete(w)
    BY <1>1, <1>3, RunRevealIs
  <2>2. w \in FitTab /\ w.phase = v.phase /\ ~Handles(w)
    BY <2>1 DEF Redrawn, Revealing, Handles, Fresh
  <2>3. NotAfter(v.phase.snap, s)
    <3>1. t.phase.snap \in Snap
      BY KindsOf
    <3> QED
      BY <1>1, <3>1, SnapIs DEF Timely, Past
  <2>4. Board(w, s)
    BY <2>1, <2>3, FreshBoard DEF Redrawn, Revealing
  <2> QED
    BY <2>1, <2>2, <2>4, CompleteBoard
<1> QED
  BY <1>2, <1>3

\* The dice of a roll that has been handled are settled.
LEMMA SettledBoard ==
  ASSUME NEW t \in FitTab, t.phase.kind = "revealing", NEW s \in Snap, NEW over,
         Timely(t, s, over), Board(t, s), Handles(t), NEW v, v.key = t.key, v.round = t.round,
         v.faces = t.key, v.tumbling = FALSE, v.loose # 0 => v.loose = Dice - v.locked,
         t.phase.snap.hits < Dice => v.locked = t.phase.snap.hits /\ v.loose = Dice - v.locked
  PROVE  Board(v, s)
<1>1. t.phase.snap \in Snap /\ NotAfter(t.phase.snap, s)
  <2>1. t.phase.snap \in Snap
    BY KindsOf DEF InHand
  <2> QED
    BY <2>1, SnapIs DEF Timely, Past
<1>2. t.key = MyDiceKey(t.phase.snap) /\ t.round = t.key[1]
  BY HandlesIs
<1>3. t.key = MyDiceKey(s) => t.phase.snap.hits = s.hits
  BY <1>1, <1>2, SameHits
<1> QED
  BY <1>2, <1>3 DEF Board

LEMMA RevealTimerBoard ==
  ASSUME NEW t \in FitTab, t.phase.kind = "revealing", NEW s \in Snap, NEW over,
         Timely(t, s, over), Board(t, s)
  PROVE  Board(RevealTimer(t), s)
<1> DEFINE u == RevealTimer(t)
           wins == t.phase.result # Nothing /\ t.phase.result.mine
<1>1. ASSUME ~wins, Faced(t, u), u.timers = {"pop"}, u.tumbling = t.tumbling
      PROVE  Board(u, s)
  <2> HIDE DEF u, wins
  <2> SUFFICES ASSUME ~u.cut PROVE Board(u, s)
    BY DEF Board
  <2>1. Handles(t)
    BY <1>1 DEF Faced, Handles
  <2>2. u.faces = t.key /\ u.key = t.key /\ u.phase = t.phase /\ u.cur = t.cur
        /\ u.locked = t.locked /\ u.loose = t.loose /\ u.round = t.round /\ u.tumbling
    BY <1>1, <2>1, HandlesIs DEF Faced, Handles
  <2> QED
    BY <1>1, <2>1, <2>2, HandlesIs DEF Board
<1>2. ASSUME wins \/ ~(t.phase.snap.hits > t.phase.before),
             \E v : Faced(t, v) /\ v.timers = {} /\ v.tumbling = FALSE /\ u = Complete(v)
      PROVE  Board(u, s)
  <2>1. PICK v : /\ Faced(t, v) /\ v.timers = {} /\ v.tumbling = FALSE /\ u = Complete(v)
    BY <1>2
  <2> HIDE DEF u
  <2>2. v \in FitTab /\ v.phase = t.phase /\ ~Handles(v)
    BY <2>1 DEF Faced, Handles
  <2>3. Board(v, s)
    <3> SUFFICES ASSUME ~v.cut PROVE Board(v, s)
      BY DEF Board
    <3>1. Handles(t)
      BY <2>1 DEF Faced, Handles
    <3>2. v.faces = t.key /\ v.key = t.key /\ v.locked = t.locked /\ v.loose = t.loose
          /\ v.round = t.round
      BY <2>1, <3>1, HandlesIs DEF Faced, Handles
    <3>3. v.locked = t.phase.before /\ v.loose = Dice - v.locked
          /\ t.phase.before <= t.phase.snap.hits
      BY <3>1, <3>2, HandlesIs
    <3>4. t.phase.snap.hits < Dice => v.locked = t.phase.snap.hits
      <4>1. wins => t.phase.snap.hits = Dice
        BY KindsOf DEF Timely, InRoll, InHand
      <4>2. t.phase.snap \in Snap /\ t.phase.before \in Nat
        BY KindsOf DEF InHand
      <4> HIDE DEF wins
      <4> QED
        BY <1>2, <3>3, <4>1, <4>2, KeyOf
    <3> QED
      BY <2>1, <3>1, <3>2, <3>3, <3>4, SettledBoard
  <2> QED
    BY <2>1, <2>2, <2>3, CompleteBoard
<1> HIDE DEF u
<1>3. Board(u, s)
  BY <1>1, <1>2, RevealTimerIs DEF u
<1> QED
  BY <1>3 DEF u

LEMMA PopTimerBoard ==
  ASSUME NEW t \in FitTab, t.phase.kind = "revealing", "pop" \in t.timers, NEW s \in Snap,
         NEW over, Timely(t, s, over), Board(t, s)
  PROVE  Board(PopTimer(t), s)
<1> DEFINE x == t.phase.snap
<1>1. PICK v : /\ v \in FitTab /\ v.phase = t.phase /\ v.timers = {}
               /\ v.key = t.key /\ v.round = t.round /\ v.faces = t.faces
               /\ \/ /\ t.cur # Nothing /\ t.cur.round # x.round
                     /\ SameBoard(t, v)
                  \/ /\ v.locked = x.hits /\ v.tumbling = FALSE
                     /\ (v.cut <=> t.cut \/ ~t.tumbling)
                     /\ t.tumbling => v.loose = Dice - x.hits
               /\ PopTimer(t) = Complete(v)
  BY PopTimerIs
<1>2. x \in Snap
  BY KindsOf DEF InHand
<1>3. CASE t.cur.round # x.round /\ SameBoard(t, v)
  <2>1. ~Handles(t)
    BY <1>2, <1>3, HandlesIs, KeyOf
  <2>2. ~Handles(v) /\ Board(v, s)
    BY <1>1, <1>3, <2>1, KeptBoard DEF Handles, SameBoard
  <2> QED
    BY <1>1, <2>2, CompleteBoard
<1>4. CASE /\ v.locked = x.hits /\ v.tumbling = FALSE
           /\ (v.cut <=> t.cut \/ ~t.tumbling)
           /\ t.tumbling => v.loose = Dice - x.hits
  <2>1. ~Handles(v)
    BY <1>4 DEF Handles
  <2>2. Board(v, s)
    <3> SUFFICES ASSUME ~v.cut PROVE Board(v, s)
      BY DEF Board
    <3>1. Handles(t)
      BY <1>4 DEF Handles
    <3> QED
      BY <1>1, <1>4, <3>1, HandlesIs, SettledBoard DEF Handles
  <2> QED
    BY <1>1, <2>1, <2>2, CompleteBoard
<1> QED
  BY <1>1, <1>3, <1>4


LEMMA PumpBoard ==
  ASSUME NEW t \in FitTab, HasTimer(t), "pump" \in t.timers,
         NEW s \in Snap, NEW over, Timely(t, s, over), Board(t, s)
  PROVE  Board(Pump(t), s)
<1> DEFINE u == Pump(t)
<1>1. CASE t.phase.kind = "shaking" /\ Turned(t, u)
  BY <1>1, TurnedBoard
<1>2. CASE /\ Held(t)
           /\ \E v : /\ Turned(t, v) /\ v.timers = {} /\ v.phase.kind = "revealing"
                     /\ SamePhase(t.phase, v.phase) /\ u = RunReveal(v)
  BY <1>2, RunRevealBoard
<1>3. ASSUME \E v : Turned(t, v) /\ v.phase = Idle /\ u = Unstick(v)
      PROVE  Board(u, s)
  <2>1. PICK v : Turned(t, v) /\ v.phase = Idle /\ u = Unstick(v)
    BY <1>3
  <2>2. v \in FitTab /\ v.cur \in Snap /\ NotAfter(v.cur, s) /\ v.cur = t.cur
    BY <2>1, TimelyHas DEF Turned
  <2> HIDE DEF u
  <2>3. Fresh(v.cur, u) /\ (u.cut <=> MyDiceKey(v.cur) # v.key) /\ u.key = v.key
    BY <2>1, <2>2, UnstickIs
  <2> QED
    BY <2>2, <2>3, FreshBoard
<1> HIDE DEF u
<1>4. Board(u, s)
  BY <1>1, <1>2, <1>3, PumpIs DEF u
<1> QED
  BY <1>4 DEF u

-----------------------------------------------------------------------------
(* The frames of the server, by what they do to the page.                  *)

\* The roll is forgotten.
Restarted(t, v) ==
  /\ v \in FitTab /\ v.phase = Idle /\ v.timers = {} /\ v.key = t.key /\ v.cur = t.cur
  /\ SameQueue(t, v) /\ SamePage(t, v) /\ v.dialogs = t.dialogs /\ v.button = t.button
  /\ v.skipped = t.skipped
  /\ v.round = t.round /\ v.faces = t.faces /\ v.locked = t.locked /\ v.loose = t.loose
  /\ v.tumbling = FALSE /\ (v.cut <=> t.cut \/ t.tumbling)

\* The frame of a roll has arrived.
Framed(t, s, result, u) ==
  /\ AwaitingAck(t.phase) /\ Turned(t, u) /\ u.timers = t.timers
  /\ u.phase.before = t.phase.before /\ u.phase.stashed = t.phase.stashed
  /\ u.phase.snap = s /\ u.phase.result = result
  /\ u.phase.kind = IF t.phase.kind = "awaitingServer" THEN "revealing" ELSE "settling"

\* A frame waits for the one in hand.
Stashed(t, s, u) ==
  /\ t.phase.kind = "settling" /\ Turned(t, u) /\ u.timers = t.timers
  /\ u.phase.kind = "settling" /\ u.phase.before = t.phase.before /\ u.phase.stashed = s
  /\ u.phase.snap = t.phase.snap /\ u.phase.result = t.phase.result

Echoed(t, s, u) ==
  /\ IsCelebrationEcho(t.phase, s) /\ u \in FitTab
  /\ SameRoll(t, u) /\ SameQueue(t, u) /\ SameBoard(t, u) /\ SamePage(t, u)
  /\ u.dialogs = t.dialogs /\ u.cur = s /\ u.button = t.button
  /\ (u.skipped <=> t.skipped \/ t.soon # <<>> \/ t.intros # <<>>)

\* The frame is shown as the roll goes on, if one does.
Plain(t, s) ==
  /\ t.phase.kind # "settling" /\ ~IsCelebrationEcho(t.phase, s)
  /\ AwaitingAck(t.phase) => MyDiceKey(s) = t.key
  /\ Rolling(t.phase) => s.round = t.cur.round

Handled(t, s, u) ==
  \/ Overtaken(t, s) /\ \E v : Restarted(t, v) /\ ShownFor(v, s, u)
  \/ /\ AwaitsRollFrame(t.phase) /\ ~Overtaken(t, s) /\ s.started /\ MyDiceKey(s) # t.key
     /\ Framed(t, s, Nothing, u)
  \/ Stashed(t, s, u)
  \/ Echoed(t, s, u)
  \/ Plain(t, s) /\ ShownFor(t, s, u)

LEMMA RestartedIs ==
  ASSUME NEW t \in FitTab
  PROVE  Restarted(t, ResetRollState(t))
BY ResetIs DEF Restarted

LEMMA RestartedBoard ==
  ASSUME NEW t, NEW s, Board(t, s), NEW v, Restarted(t, v)
  PROVE  Board(v, s) /\ ~Handles(v)
BY DEF Restarted, Board, Handles

LEMMA FramedIs ==
  ASSUME NEW t \in FitTab, AwaitingAck(t.phase), NEW s \in Snap,
         NEW result \in Result \cup {Nothing}
  PROVE  Framed(t, s, result, Dispatch(t, [t |-> "SERVER_ROLL", snap |-> s, result |-> result]))
<1> DEFINE ev == [t |-> "SERVER_ROLL", snap |-> s, result |-> result]
           u == Dispatch(t, ev)
           q == Transition(t.phase, ev)
<1>1. t.phase \in FitPhase
  BY TabHas
<1>2. /\ q \in FitPhase /\ q.before = t.phase.before /\ q.stashed = t.phase.stashed
      /\ q.snap = s /\ q.result = result
      /\ q.kind = IF t.phase.kind = "awaitingServer" THEN "revealing" ELSE "settling"
  BY <1>1, FramePhase
<1>3. Turned(t, u) /\ u.phase = q /\ u.timers = t.timers
  BY <1>2, DispatchIs DEF Turned
<1> HIDE DEF u, q
<1>4. Framed(t, s, result, u)
  BY <1>2, <1>3 DEF Framed
<1> QED
  BY <1>4 DEF u

LEMMA StashedIs ==
  ASSUME NEW t \in FitTab, t.phase.kind = "settling", NEW s \in Snap
  PROVE  Stashed(t, s, Dispatch(t, [t |-> "BROADCAST", snap |-> s]))
<1> DEFINE ev == [t |-> "BROADCAST", snap |-> s]
           u == Dispatch(t, ev)
           q == Transition(t.phase, ev)
<1>1. t.phase \in FitPhase
  BY TabHas
<1>2. /\ q \in FitPhase /\ q.kind = "settling" /\ q.before = t.phase.before
      /\ q.snap = t.phase.snap /\ q.result = t.phase.result /\ q.stashed = s
  BY <1>1, StashPhase DEF HoldsRollFrame
<1>3. Turned(t, u) /\ u.phase = q /\ u.timers = t.timers
  BY <1>2, DispatchIs DEF Turned
<1> HIDE DEF u, q
<1>4. Stashed(t, s, u)
  BY <1>2, <1>3 DEF Stashed
<1> QED
  BY <1>4 DEF u

LEMMA HandledIs ==
  ASSUME NEW t \in FitTab, NEW s, Real(s), NEW over, Timely(t, s, over)
  PROVE  Handled(t, s, HandleState(t, s))
<1> DEFINE u == HandleState(t, s)
<1>1. s \in Snap /\ t.cur \in Snap /\ t.cur.round <= s.round
  BY TimelyHas, KeyBehind DEF Real
<1>2. CASE Overtaken(t, s) /\ u = ShowFor(ResetRollState(t), s)
  <2> DEFINE v == ResetRollState(t)
  <2>1. Restarted(t, v) /\ v \in FitTab
    BY RestartedIs DEF Restarted
  <2> HIDE DEF v
  <2>2. ShownFor(v, s, ShowFor(v, s))
    BY <1>1, <2>1, ShowForIs
  <2> QED
    BY <1>2, <2>1, <2>2 DEF Handled, v
<1>3. CASE /\ AwaitsRollFrame(t.phase) /\ ~Overtaken(t, s) /\ s.started /\ MyDiceKey(s) # t.key
           /\ u = Dispatch(t, [t |-> "SERVER_ROLL", snap |-> s, result |-> Nothing])
  BY <1>1, <1>3, FramedIs, KindsOf DEF Handled
<1>4. CASE t.phase.kind = "settling" /\ u = Dispatch(t, [t |-> "BROADCAST", snap |-> s])
  BY <1>1, <1>4, StashedIs DEF Handled
<1>5. CASE IsCelebrationEcho(t.phase, s) /\ u = [Passed(t, Pending(t)) EXCEPT !.cur = s]
  <2>1. Pending(t) \in BOOLEAN /\ t.phase.kind = "celebrating"
    BY <1>5 DEF Pending, IsCelebrationEcho
  <2>2. /\ u \in FitTab /\ SameRoll(t, u) /\ SameQueue(t, u) /\ SameBoard(t, u)
        /\ SamePage(t, u) /\ u.dialogs = t.dialogs /\ u.cur = s /\ u.button = t.button
        /\ (u.skipped <=> t.skipped \/ Pending(t))
    BY <1>5, <2>1, EchoTimely
  <2> HIDE DEF u
  <2>3. Echoed(t, s, u)
    BY <1>5, <2>2 DEF Echoed, Pending
  <2> QED
    BY <2>3 DEF u, Handled
<1>6. CASE /\ ~Overtaken(t, s)
           /\ AwaitsRollFrame(t.phase) => ~s.started \/ MyDiceKey(s) = t.key
           /\ t.phase.kind # "settling" /\ ~IsCelebrationEcho(t.phase, s)
           /\ u = ShowFor(t, s)
  <2>1. Rolling(t.phase) => s.started
    BY <1>1, StartedWhen
  <2>2. Rolling(t.phase) => s.round = t.cur.round
    BY <1>1, <1>6, <2>1, SnapIs, KeyOf DEF Overtaken
  <2>3. AwaitingAck(t.phase) => MyDiceKey(s) = t.key
    BY <1>6, <2>1, KindsOf DEF AwaitingAck, AwaitsRollFrame
  <2>4. ShownFor(t, s, ShowFor(t, s))
    BY <1>1, ShowForIs
  <2> QED
    BY <1>6, <2>2, <2>3, <2>4 DEF Handled, Plain
<1> HIDE DEF u
<1>7. Handled(t, s, u)
  BY <1>1, <1>2, <1>3, <1>4, <1>5, <1>6, HandleStateIs DEF u
<1> QED
  BY <1>7 DEF u

LEMMA HandledBoard ==
  ASSUME NEW t \in FitTab, NEW s, Real(s), NEW over, Timely(t, s, over), Board(t, s),
         NEW u, Handled(t, s, u)
  PROVE  Board(u, s)
<1>1. s \in Snap
  BY DEF Real
<1>2. CASE \E v : Restarted(t, v) /\ ShownFor(v, s, u)
  BY <1>2, RestartedBoard, ShownBoard DEF Restarted
<1>3. CASE Framed(t, s, Nothing, u)
  <2>1. t.phase.kind # "revealing"
    BY <1>3 DEF Framed, AwaitingAck
  <2> QED
    BY <1>3, <2>1, TurnedBoard DEF Framed
<1>4. CASE Stashed(t, s, u)
  BY <1>4, TurnedBoard DEF Stashed
<1>5. CASE Echoed(t, s, u)
  <2>1. ~Handles(t)
    BY <1>5, HandlesIs DEF Echoed, IsCelebrationEcho
  <2> QED
    BY <1>5, <2>1, KeptBoard DEF Echoed
<1>6. CASE Plain(t, s) /\ ShownFor(t, s, u)
  <2>1. Handles(t) => s.round = t.key[1]
    BY <1>6, HandlesIs DEF Plain, Rolling, Settled
  <2> QED
    BY <1>6, <2>1, ShownBoard
<1> QED
  BY <1>2, <1>3, <1>4, <1>5, <1>6 DEF Handled

\* What round_won does.
RoundWon(t, s, mine, u) ==
  \/ AwaitingAck(t.phase) /\ Framed(t, s, WonResult(s, mine), u)
  \/ Won(t, s, mine, u)

LEMMA RoundWonHandled ==
  ASSUME NEW t \in FitTab, NEW s \in Snap, NEW mine \in BOOLEAN
  PROVE  RoundWon(t, s, mine, HandleRoundWon(t, s, mine))
<1> DEFINE result == WonResult(s, mine)
           u == HandleRoundWon(t, s, mine)
           v == Dispatch(t, [t |-> "SERVER_ROLL", snap |-> s, result |-> result])
<1>1. result \in Result
  BY WonIs
<1>2. AwaitingAck(t.phase) => Framed(t, s, result, v)
  BY <1>1, FramedIs
<1>3. \/ AwaitingAck(t.phase) /\ u = v
      \/ Won(t, s, mine, u)
  BY RoundWonIs
<1> HIDE DEF u, v, result
<1>4. (AwaitingAck(t.phase) /\ Framed(t, s, result, u)) \/ Won(t, s, mine, u)
  BY <1>2, <1>3
<1> QED
  BY <1>4 DEF u, result, RoundWon

LEMMA RoundWonBoard ==
  ASSUME NEW t \in FitTab, NEW s, Real(s), Board(t, s), NEW mine, NEW u, RoundWon(t, s, mine, u)
  PROVE  Board(u, s)
<1>1. CASE Framed(t, s, WonResult(s, mine), u)
  <2>1. t.phase.kind # "revealing"
    BY <1>1 DEF Framed, AwaitingAck
  <2> QED
    BY <1>1, <2>1, TurnedBoard DEF Framed
<1>2. CASE Won(t, s, mine, u)
  <2>1. s \in Snap /\ NotAfter(s, s) /\ Fresh(s, u) /\ u.key = MyDiceKey(s)
    BY <1>2, NowIs DEF Won, Real
  <2> QED
    BY <2>1, FreshBoard
<1> QED
  BY <1>1, <1>2 DEF RoundWon

-----------------------------------------------------------------------------
(* The page is at home in the game.                                        *)

Home(t, s, over) == Timely(t, s, over) /\ Board(t, s)

LEMMA HandleStateHome ==
  ASSUME NEW t \in FitTab, NEW s, Real(s), NEW over, Home(t, s, over)
  PROVE  Home(HandleState(t, s), s, over)
BY HandleStateTimely, HandledIs, HandledBoard DEF Home

LEMMA RoundWonHome ==
  ASSUME NEW t \in FitTab, NEW s, Real(s), s.started, NEW mine \in BOOLEAN, mine => s.hits = Dice,
         Home(t, s, "announced")
  PROVE  Home(HandleRoundWon(t, s, mine), s, "announced")
<1>1. Timely(HandleRoundWon(t, s, mine), s, "announced")
  BY RoundWonTimely DEF Home
<1>2. Board(HandleRoundWon(t, s, mine), s)
  BY RoundWonHandled, RoundWonBoard DEF Home, Real
<1> QED
  BY <1>1, <1>2 DEF Home

LEMMA ErrorHome ==
  ASSUME NEW t \in FitTab, NEW s \in Snap, NEW over, Home(t, s, over)
  PROVE  Home(HandleError(t), s, over)
<1> DEFINE u == HandleError(t)
<1>1. Timely(u, s, over) /\ t.cur \in Snap /\ NotAfter(t.cur, s)
  BY ErrorTimely, TimelyHas DEF Home
<1>2. Rejected(t, u)
  BY <1>1, ErrorIs
<1> HIDE DEF u
<1>3. Board(u, s)
  BY <1>1, <1>2, FreshBoard DEF Rejected
<1>4. Home(u, s, over)
  BY <1>1, <1>3 DEF Home
<1> QED
  BY <1>4 DEF u

LEMMA ResetHome ==
  ASSUME NEW t \in FitTab, NEW s \in Snap, NEW over, Home(t, s, over)
  PROVE  Home(ResetRollState(t), s, over)
BY ResetTimely, RestartedIs, RestartedBoard DEF Home

LEMMA SentHome ==
  ASSUME NEW t \in FitTab, NEW s \in Snap, NEW over, Home(t, s, over), Clear(t),
         t.phase.kind = "idle", NEW u, Sent(t, u)
  PROVE  Home(u, s, over)
<1>1. ~Handles(t)
  BY HandlesIs DEF Home
<1>2. Board(u, s)
  BY <1>1, KeptBoard DEF Home, Sent
<1> QED
  BY <1>2, SentTimely DEF Home

LEMMA LoadingHome ==
  ASSUME NEW t \in FitTab, NEW s \in Snap, NEW over, Home(t, s, over)
  PROVE  Swapped(t, "loading", ShowLoading(t)) /\ Home(ShowLoading(t), s, over)
<1>1. Swapped(t, "loading", ShowLoading(t)) /\ Timely(ShowLoading(t), s, over)
  BY LoadingTimely DEF Home
<1>2. Board(ShowLoading(t), s)
  BY <1>1, SameIsBoard DEF Home, Swapped
<1> QED
  BY <1>1, <1>2 DEF Home

LEMMA MarkedHome ==
  ASSUME NEW t \in FitTab, NEW s \in Snap, NEW over, Home(t, s, over), NEW b,
         NEW u, Marked(t, b, u)
  PROVE  Home(u, s, over)
<1>1. Timely(u, s, over)
  BY MarkedTimely DEF Home
<1>2. Board(u, s)
  BY SameIsBoard DEF Home, Marked, Same
<1> QED
  BY <1>1, <1>2 DEF Home

LEMMA FadedHome ==
  ASSUME NEW t \in FitTab, NEW s \in Snap, NEW over, Home(t, s, over), NEW u, Faded(t, u)
  PROVE  Home(u, s, over)
<1>1. Timely(u, s, over)
  BY FadedTimely DEF Home
<1>2. Board(u, s)
  BY SameIsBoard DEF Home, Faded, Same
<1> QED
  BY <1>1, <1>2 DEF Home

LEMMA LaterBoard ==
  ASSUME NEW t \in FitTab, NEW s \in Snap, Board(t, s), NEW a \in FitSoon,
         a.do \in {"lobby", "wait", "hosting", "board"}, a.do # "lobby" => NotAfter(a.snap, s)
  PROVE  Board(Later(t, a), s)
<1> DEFINE u == Later(t, a)
<1>1. ASSUME NEW v, Same(t, v), Swapped(v, "lobby", u) PROVE Board(u, s)
  <2>1. u \in FitTab /\ SameBoard(t, u) /\ SameRoll(t, u) /\ u.cur = t.cur
    BY <1>1 DEF Same, Swapped, SameBoard, SameRoll
  <2> HIDE DEF u
  <2> QED
    BY <2>1, SameIsBoard
<1>2. ASSUME a.do # "lobby", Boarded(t, a.snap, u) PROVE Board(u, s)
  <2> HIDE DEF u
  <2> QED
    BY <1>2, DrawnBoard DEF Boarded
<1>3. ASSUME Introduced(t, a.snap, u) PROVE Board(u, s)
  <2> HIDE DEF u
  <2> QED
    BY <1>3, SameIsBoard DEF Introduced
<1> HIDE DEF u
<1>4. Board(u, s)
  BY <1>1, <1>2, <1>3, LaterIs DEF u
<1> QED
  BY <1>4 DEF u

LEMMA RanHome ==
  ASSUME NEW t \in FitTab, NEW s \in Snap, NEW over, Home(t, s, over),
         NEW i \in DOMAIN t.soon, t.soon[i] \in FitSoon, NEW u, Ran(t, i, u)
  PROVE  Home(u, s, over)
<1> DEFINE a == t.soon[i]
<1>1. Timely(u, s, over)
  BY RanTimely DEF Home
<1>2. PICK v : /\ Removed(t, i, v)
               /\ \/ /\ a.do = "commit" /\ a.to \in Screens
                     /\ u = Commit(v, a.to)
                  \/ /\ a.do # "commit"
                     /\ \E w : Marked(v, t.intros # <<>>, w) /\ u = Later(w, a)
  BY DEF Ran
<1>3. v \in FitTab /\ Board(v, s)
  BY <1>2, SameIsBoard DEF Removed, Relieved, Home
<1>4. CASE a.do = "commit" /\ a.to \in Screens /\ u = Commit(v, a.to)
  <2>1. Relieved(v, Commit(v, a.to))
    BY <1>3, <1>4, CommitIs
  <2> HIDE DEF a
  <2>2. Relieved(v, u)
    BY <1>4, <2>1
  <2>3. Board(u, s)
    BY <1>3, <2>2, SameIsBoard DEF Relieved
  <2> QED
    BY <1>1, <2>3 DEF Home
<1>5. CASE /\ a.do # "commit"
           /\ \E w : Marked(v, t.intros # <<>>, w) /\ u = Later(w, a)
  <2>1. PICK w : Marked(v, t.intros # <<>>, w) /\ u = Later(w, a)
    BY <1>5
  <2>2. w \in FitTab /\ Board(w, s)
    BY <1>3, <2>1, SameIsBoard DEF Marked, Same
  <2>3. a \in Entries(t.soon)
    BY DEF Entries
  <2>4. a.do \in {"lobby", "wait", "hosting", "board"}
    BY <1>5, <2>3 DEF Home, Timely, Stays
  <2>5. a.do # "lobby" => NotAfter(a.snap, s)
    BY <1>5, <2>3 DEF Home, Timely, Past, Queued, Beside
  <2>6. a \in FitSoon
    OBVIOUS
  <2> HIDE DEF a
  <2>7. Board(u, s)
    BY <2>1, <2>2, <2>4, <2>5, <2>6, LaterBoard
  <2> QED
    BY <1>1, <2>7 DEF Home
<1> QED
  BY <1>2, <1>4, <1>5

LEMMA RevealGameHome ==
  ASSUME NEW t \in FitTab, NEW s \in Snap, NEW over, Home(t, s, over), t.intros # <<>>
  PROVE  Home(ShowBoard([t EXCEPT !.intros = Tail(@)], Head(t.intros)), s, over)
<1> DEFINE x == Head(t.intros)
           u == ShowBoard([t EXCEPT !.intros = Tail(@)], x)
<1>1. PICK v : /\ Relieved(t, v) /\ BoardShown(v, x, u) /\ Timely(u, s, over)
  BY RevealGameTimely DEF Home
<1>2. NotAfter(x, s)
  <2>1. t.intros \in Seq(Snap)
    BY DEF FitTab
  <2>2. x \in Entries(t.intros)
    BY <2>1, TailIs
  <2> QED
    BY <2>2 DEF Home, Timely, Past, Queued, Beside
<1> HIDE DEF x, u
<1>3. v \in FitTab /\ Board(v, s)
  BY <1>1, SameIsBoard DEF Relieved, Home
<1>4. Board(u, s)
  BY <1>1, <1>2, <1>3, DrawnBoard DEF BoardShown
<1>5. Home(u, s, over)
  BY <1>1, <1>4 DEF Home
<1> QED
  BY <1>5 DEF u, x

LEMMA TimersHome ==
  ASSUME NEW t \in FitTab, HasTimer(t), NEW s \in Snap, NEW over, Home(t, s, over)
  PROVE  /\ "pump" \in t.timers => Home(Pump(t), s, over)
         /\ "reveal" \in t.timers => t.phase.kind = "revealing" /\ Home(RevealTimer(t), s, over)
         /\ "pop" \in t.timers => t.phase.kind = "revealing" /\ Home(PopTimer(t), s, over)
<1>1. "reveal" \in t.timers \/ "pop" \in t.timers => t.phase.kind = "revealing"
  BY KindsOf DEF HasTimer, AwaitingAck, Settled, Kinds
<1>2. "pump" \in t.timers => Home(Pump(t), s, over)
  BY PumpTimely, PumpBoard DEF Home
<1>3. "reveal" \in t.timers => Home(RevealTimer(t), s, over)
  BY <1>1, RevealTimerTimely, RevealTimerBoard DEF Home
<1>4. "pop" \in t.timers => Home(PopTimer(t), s, over)
  BY <1>1, PopTimerTimely, PopTimerBoard DEF Home
<1> QED
  BY <1>1, <1>2, <1>3, <1>4

-----------------------------------------------------------------------------
(* The game goes on.                                                       *)

Grows(s, over, next, then) ==
  /\ s \in Snap /\ Real(next)
  /\ s.started => next.started
  /\ \/ s.round < next.round
     \/ /\ s.round = next.round /\ s.rolls <= next.rolls /\ s.hits <= next.hits
        /\ s.rolls = next.rolls => s.hits = next.hits
        /\ over = "announced" => then = "announced"

LEMMA NotAfterGrows ==
  ASSUME NEW s, NEW over, NEW next, NEW then, Grows(s, over, next, then),
         NEW x, NotAfter(x, s)
  PROVE  NotAfter(x, next)
<1>1. x \in Snap /\ s \in Snap /\ next \in Snap
  BY DEF Grows, Real, NotAfter
<1>2. /\ x.round \in Nat /\ x.rolls \in Nat /\ x.hits \in Nat
      /\ s.round \in Nat /\ s.rolls \in Nat /\ s.hits \in Nat
      /\ next.round \in Nat /\ next.rolls \in Nat /\ next.hits \in Nat
  BY <1>1, KeyOf
<1>3. /\ x.round >= 1
      /\ \/ x.round < s.round
         \/ /\ x.round = s.round /\ x.rolls <= s.rolls /\ x.hits <= s.hits
            /\ x.rolls = s.rolls => x.hits = s.hits
  BY DEF NotAfter
<1>4. \/ s.round < next.round
      \/ /\ s.round = next.round /\ s.rolls <= next.rolls /\ s.hits <= next.hits
         /\ s.rolls = next.rolls => s.hits = next.hits
  BY DEF Grows
<1>5. \/ x.round < next.round
      \/ /\ x.round = next.round /\ x.rolls <= next.rolls /\ x.hits <= next.hits
         /\ x.rolls = next.rolls => x.hits = next.hits
  BY <1>2, <1>3, <1>4
<1>6. x.started => next.started
  BY DEF NotAfter, Grows
<1> QED
  BY <1>1, <1>3, <1>5, <1>6 DEF NotAfter

LEMMA GrowsHome ==
  ASSUME NEW t \in FitTab, NEW s, NEW over, NEW next, NEW then, Grows(s, over, next, then),
         Home(t, s, over)
  PROVE  Home(t, next, then)
<1>1. /\ s \in Snap /\ next \in Snap /\ t.cur \in Snap /\ NotAfter(t.cur, s)
      /\ t.key[1] \in Nat /\ t.key[2] \in Nat /\ Timely(t, s, over)
  BY TimelyHas, KeyBehind DEF Grows, Real, Home
<1>2. /\ s.round \in Nat /\ s.rolls \in Nat /\ s.hits \in Nat
      /\ next.round \in Nat /\ next.rolls \in Nat /\ next.hits \in Nat
      /\ t.cur.round \in Nat /\ MyDiceKey(s)[1] = s.round /\ MyDiceKey(s)[2] = s.rolls
      /\ MyDiceKey(next)[1] = next.round /\ MyDiceKey(next)[2] = next.rolls
  BY <1>1, KeyOf
<1>3. \A x : NotAfter(x, s) => NotAfter(x, next)
  BY NotAfterGrows
<1>4. \/ s.round < next.round
      \/ /\ s.round = next.round /\ s.rolls <= next.rolls /\ s.hits <= next.hits
         /\ s.rolls = next.rolls => s.hits = next.hits
         /\ over = "announced" => then = "announced"
  BY DEF Grows
<1>5. t.key[1] < s.round \/ (t.key[1] = s.round /\ t.key[2] <= s.rolls)
  BY <1>1 DEF Timely, Past
<1>6. Past(t, next)
  <2>1. t.key[1] < next.round \/ (t.key[1] = next.round /\ t.key[2] <= next.rolls)
    BY <1>1, <1>2, <1>4, <1>5
  <2>2. \A x : Beside(t, x, s) => Beside(t, x, next)
    BY <1>3 DEF Beside
  <2> QED
    BY <1>1, <1>3, <2>1, <2>2 DEF Timely, Past
<1>7. Unstarted(t, next)
  BY <1>1 DEF Timely, Unstarted, Grows
<1>8. InRoll(t, next, then)
  <2>1. AwaitsRollFrame(t.phase) /\ t.cur.round = next.round => t.phase.before <= next.hits
    <3> SUFFICES ASSUME AwaitsRollFrame(t.phase), t.cur.round = next.round
                 PROVE  t.phase.before <= next.hits
      OBVIOUS
    <3>1. t.cur.round <= s.round
      BY <1>1, <1>2 DEF NotAfter
    <3>2. s.round = next.round /\ s.hits <= next.hits
      BY <1>2, <1>4, <3>1
    <3>3. t.phase.before <= s.hits /\ t.phase.before \in Nat
      BY <1>1, <3>2, KindsOf DEF Timely, InRoll
    <3> QED
      BY <1>2, <3>2, <3>3
  <2>2. t.phase.result # Nothing => /\ t.phase.result.round <= next.round
                                    /\ t.phase.result.round = next.round => then = "announced"
    <3> SUFFICES ASSUME t.phase.result # Nothing
                 PROVE  /\ t.phase.result.round <= next.round
                        /\ t.phase.result.round = next.round => then = "announced"
      OBVIOUS
    <3>1. t.phase.result \in Result
      BY KindsOf
    <3>2. t.phase.result.round \in Nat
      BY <3>1 DEF Result
    <3>3. /\ t.phase.result.round <= s.round
          /\ t.phase.result.round = s.round => over = "announced"
      BY <1>1 DEF Timely, InRoll
    <3> QED
      BY <1>2, <1>4, <3>2, <3>3
  <2> QED
    BY <1>1, <2>1, <2>2 DEF Timely, InRoll
<1>9. t.key = MyDiceKey(next) /\ next.hits < Dice => t.key = MyDiceKey(s) /\ s.hits = next.hits
  <2> SUFFICES ASSUME t.key = MyDiceKey(next) PROVE t.key = MyDiceKey(s) /\ s.hits = next.hits
    OBVIOUS
  <2>1. s.round = next.round /\ s.rolls = next.rolls /\ s.hits = next.hits
    BY <1>2, <1>4, <1>5
  <2> QED
    BY <2>1 DEF MyDiceKey
<1>10. Board(t, next)
  BY <1>9 DEF Home, Board
<1> QED
  BY <1>1, <1>6, <1>7, <1>8, <1>10 DEF Home, Timely

-----------------------------------------------------------------------------
(* The lobby is never shown after the game.                                *)

\* For as long as no frame has been passed.
First(t) == ~t.skipped => LobbyFirst(t)

\* The lobby is on its way, or the game is.
NoLobby(t) == \A a \in Entries(t.soon) : a.do # "lobby"

LEMMA CommittingIs ==
  ASSUME NEW id
  PROVE  /\ Committing(id).do = "commit" /\ Committing(id).to = id
         /\ id \in Screens => Committing(id) \in FitSoon
         /\ \A other : Committing(id) = Committing(other) => id = other
<1>1. Committing(id).do = "commit" /\ Committing(id).to = id
  BY DEF Committing
<1>2. id \in Screens => Committing(id) \in FitSoon
  BY DEF Committing, FitSoon, Soon
<1>3. ASSUME NEW other, Committing(id) = Committing(other) PROVE id = other
  <2>1. Committing(other).to = other
    BY DEF Committing
  <2> QED
    BY <1>1, <1>3, <2>1
<1> QED
  BY <1>1, <1>2, <1>3

LEMMA CommitFits ==
  ASSUME NEW a \in FitSoon, a.do = "commit"
  PROVE  a = Committing(a.to) /\ a.to \in Screens
BY DEF FitSoon, Soon, Committing

LEMMA SoonIs ==
  ASSUME NEW t \in FitTab
  PROVE  t.soon \in Seq(FitSoon) /\ t.intros \in Seq(Snap) /\ Entries(t.soon) \subseteq FitSoon
<1>1. t.soon \in Seq(FitSoon) /\ t.intros \in Seq(Snap)
  BY DEF FitTab
<1> QED
  BY <1>1 DEF Entries

\* Before the game has started there is nothing to be in line with.
LEMMA UnstartedFirst ==
  ASSUME NEW t \in FitTab, NEW s, ~s.started, Unstarted(t, s)
  PROVE  LobbyFirst(t)
<1>1. \A a \in Entries(t.soon) : \/ a.do = "lobby"
                                 \/ a.do = "commit" /\ a.to \in {"lobby", "loading"}
  BY DEF Unstarted
<1>2. \A a, b \in Entries(t.soon) : MayFollow(a, b)
  BY <1>1 DEF MayFollow
<1>3. InLine(t.soon)
  BY <1>2 DEF InLine, Entries
<1>4. Committing("game") \notin Entries(t.soon)
  BY <1>1, CommittingIs
<1>5. t.active \in {"lobby", "loading"} /\ t.intros = <<>>
  BY DEF Unstarted
<1> QED
  BY <1>3, <1>4, <1>5 DEF LobbyFirst

LEMMA QueueFirst ==
  ASSUME NEW t, LobbyFirst(t), NEW u, SameQueue(t, u)
  PROVE  LobbyFirst(u)
BY DEF LobbyFirst, SameQueue

\* One more entry, that is not the lobby.
LEMMA AppendFirst ==
  ASSUME NEW t \in FitTab, LobbyFirst(t), NEW a \in FitSoon, a.do # "lobby", a # Committing("lobby"),
         a = Committing("game") => NoLobby(t),
         NEW u, u.soon = Append(t.soon, a), u.active = t.active, u.intros = t.intros
  PROVE  LobbyFirst(u)
<1>1. t.soon \in Seq(FitSoon)
  BY SoonIs
<1>2. /\ Entries(u.soon) = Entries(t.soon) \cup {a}
      /\ InLine(t.soon) /\ (\A b \in Entries(t.soon) : MayFollow(b, a)) => InLine(u.soon)
  BY <1>1, AppendIs
<1>3. \A b \in Entries(t.soon) : MayFollow(b, a)
  <2>1. a.do = "commit" => a.to # "lobby"
    BY CommitFits
  <2> QED
    BY <2>1 DEF MayFollow
<1>4. InLine(u.soon)
  BY <1>2, <1>3 DEF LobbyFirst
<1> QED
  BY <1>2, <1>4 DEF LobbyFirst, NoLobby

\* An entry on its own, that is not the lobby.
LEMMA AloneFirst ==
  ASSUME NEW t \in FitTab, t.soon = <<>>, NEW a \in FitSoon, a.do # "lobby",
         a # Committing("lobby"), NEW u, u.soon = Append(t.soon, a) \/ u.soon = <<>>
  PROVE  LobbyFirst(u)
<1>1. InLine(u.soon) /\ Entries(u.soon) \subseteq {a}
  <2>1. CASE u.soon = <<>>
    BY <2>1 DEF InLine, Entries
  <2>2. CASE u.soon = Append(t.soon, a)
    <3>1. u.soon = <<a>>
      BY <2>2
    <3> HIDE <2>2
    <3>2. DOMAIN u.soon = {1} /\ u.soon[1] = a
      BY <3>1
    <3> QED
      BY <3>2 DEF InLine, Entries
  <2> QED
    BY <2>1, <2>2
<1> QED
  BY <1>1 DEF LobbyFirst

LEMMA ReactionIs ==
  ASSUME NEW t \in FitTab, NEW x \in Snap, NEW flag \in BOOLEAN, Act(t, x) # "none"
  PROVE  LET a == Reaction(t, x, flag)
         IN  /\ a \in FitSoon /\ a.do = Act(t, x) /\ a.snap = x /\ a.do # "commit"
             /\ \A id : a # Committing(id)
<1>1. Act(t, x) \in {"lobby", "wait", "hosting", "board"}
  BY ActIs
<1>2. Reaction(t, x, flag) \in FitSoon
  BY <1>1, ActionFits DEF Reaction
<1>3. Reaction(t, x, flag).do = Act(t, x) /\ Reaction(t, x, flag).snap = x
  BY DEF Reaction
<1> QED
  BY <1>1, <1>2, <1>3, CommittingIs

LEMMA ShownFirst ==
  ASSUME NEW t \in FitTab, First(t), NEW x \in Snap, x.started, NEW u, ShownFor(t, x, u)
  PROVE  First(u)
<1> SUFFICES ASSUME ~u.skipped PROVE LobbyFirst(u)
  BY DEF First
<1>1. u.intros = t.intros /\ u.active = t.active /\ (t.skipped => t.soon = <<>>)
  BY DEF ShownFor
<1>2. PICK a \in FitSoon : /\ a.do # "lobby" /\ a # Committing("lobby") /\ a # Committing("game")
                           /\ u.soon = Append(t.soon, a) \/ (u.soon = t.soon)
  <2>1. CASE Act(t, x) # "none"
    <3>1. PICK flag \in BOOLEAN : u.soon = Append(t.soon, Reaction(t, x, flag))
      BY <2>1 DEF ShownFor
    <3>2. Act(t, x) # "lobby"
      BY ActIs
    <3> QED
      BY <2>1, <3>1, <3>2, ReactionIs
  <2>2. CASE Act(t, x) = "none"
    <3>1. u.soon = t.soon \/ u.soon = Append(t.soon, Committing("loading"))
      BY <2>2 DEF ShownFor
    <3>2. /\ Committing("loading") \in FitSoon /\ Committing("loading").do # "lobby"
          /\ Committing("loading") # Committing("lobby")
          /\ Committing("loading") # Committing("game")
      BY CommittingIs DEF Screens
    <3> QED
      BY <3>1, <3>2
  <2> QED
    BY <2>1, <2>2
<1>3. CASE ~t.skipped
  <2>1. LobbyFirst(t)
    BY <1>3 DEF First
  <2> QED
    BY <1>1, <1>2, <2>1, AppendFirst, QueueFirst DEF SameQueue
<1>4. CASE t.skipped
  BY <1>1, <1>2, <1>4, AloneFirst
<1> QED
  BY <1>3, <1>4

\* Nothing is added, and nothing forgotten of what was passed.
Calmer(t, u) == SameQueue(t, u) /\ (t.skipped => u.skipped)

LEMMA CalmerFirst ==
  ASSUME NEW t, First(t), NEW u, Calmer(t, u)
  PROVE  First(u)
BY QueueFirst DEF First, Calmer

LEMMA SwappedFirst ==
  ASSUME NEW t \in FitTab, First(t), NEW u, Swapped(t, "loading", u)
  PROVE  First(u)
<1>1. /\ Committing("loading") \in FitSoon /\ Committing("loading").do # "lobby"
      /\ Committing("loading") # Committing("lobby")
      /\ Committing("loading") # Committing("game")
  BY CommittingIs DEF Screens
<1> SUFFICES ASSUME ~t.skipped PROVE LobbyFirst(u)
  BY DEF First, Swapped
<1>2. LobbyFirst(t)
  BY DEF First
<1>3. CASE u.soon = t.soon
  BY <1>2, <1>3, QueueFirst DEF Swapped, SameQueue
<1>4. CASE u.soon = Append(t.soon, Committing("loading"))
  BY <1>1, <1>2, <1>4, AppendFirst DEF Swapped
<1> QED
  BY <1>3, <1>4 DEF Swapped

LEMMA HandledFirst ==
  ASSUME NEW t \in FitTab, First(t), NEW s, Real(s), s.started, NEW u, Handled(t, s, u)
  PROVE  First(u)
<1>1. s \in Snap
  BY DEF Real
<1>2. CASE \E v : Restarted(t, v) /\ ShownFor(v, s, u)
  <2>1. PICK v : Restarted(t, v) /\ ShownFor(v, s, u)
    BY <1>2
  <2>2. First(v) /\ v \in FitTab
    BY <2>1, CalmerFirst DEF Restarted, Calmer
  <2> QED
    BY <1>1, <2>1, <2>2, ShownFirst
<1>3. CASE Framed(t, s, Nothing, u) \/ Stashed(t, s, u)
  BY <1>3, CalmerFirst DEF Framed, Stashed, Turned, Calmer
<1>4. CASE Echoed(t, s, u)
  BY <1>4, CalmerFirst DEF Echoed, Calmer
<1>5. CASE ShownFor(t, s, u)
  BY <1>1, <1>5, ShownFirst
<1> QED
  BY <1>2, <1>3, <1>4, <1>5 DEF Handled

LEMMA RoundWonFirst ==
  ASSUME NEW t \in FitTab, First(t), NEW s, NEW mine, NEW u, RoundWon(t, s, mine, u)
  PROVE  First(u)
<1>1. CASE Framed(t, s, WonResult(s, mine), u)
  BY <1>1, CalmerFirst DEF Framed, Turned, Calmer
<1>2. CASE Won(t, s, mine, u)
  <2> SUFFICES ASSUME ~u.skipped PROVE LobbyFirst(u)
    BY DEF First
  <2>1. /\ Committing("game") \in FitSoon /\ Committing("game").do # "lobby"
        /\ Committing("game") # Committing("lobby")
    BY CommittingIs DEF Screens
  <2>2. t.soon = <<>> /\ (u.soon = <<>> \/ u.soon = Append(t.soon, Committing("game")))
    BY <1>2 DEF Won
  <2> QED
    BY <2>1, <2>2, AloneFirst
<1> QED
  BY <1>1, <1>2 DEF RoundWon

LEMMA RejectedFirst ==
  ASSUME NEW t, First(t), NEW u, Rejected(t, u) PROVE First(u)
BY CalmerFirst DEF Rejected, Calmer

LEMMA SentFirst ==
  ASSUME NEW t, First(t), NEW u, Sent(t, u) PROVE First(u)
BY CalmerFirst DEF Sent, Calmer

\* What has been stashed is of a game under way.
StashStarted(t) ==
  t.phase.stashed # Nothing => t.phase.stashed \in Snap /\ t.phase.stashed.started

LEMMA StashIsStarted ==
  ASSUME NEW t, NEW s, NEW over, Timely(t, s, over)
  PROVE  StashStarted(t)
BY DEF Timely, Past, NotAfter, StashStarted

LEMMA CompleteFirst ==
  ASSUME NEW t \in FitTab, t.phase.kind = "revealing", StashStarted(t), First(t)
  PROVE  First(Complete(t))
<1> DEFINE w == Calm(t)
           u == Complete(t)
<1>1. Completed(t, w, u)
  BY CompleteIs
<1> HIDE DEF u, w
<1>2. w \in FitTab /\ First(w)
  BY <1>1, CalmerFirst DEF Completed, Calmed, Calmer
<1>3. CASE t.phase.result # Nothing
  <2>1. First(u)
    BY <1>1, <1>2, <1>3, CalmerFirst DEF Completed, Marked, Same, Calmer
  <2> QED
    BY <2>1 DEF u
<1>4. CASE t.phase.result = Nothing /\ t.phase.stashed # Nothing
  <2>1. PICK v : ShownFor(w, t.phase.stashed, v) /\ Marked(v, t.skipped, u)
    BY <1>1, <1>4 DEF Completed
  <2>2. t.phase.stashed \in Snap /\ t.phase.stashed.started
    BY <1>4 DEF StashStarted
  <2>3. First(v)
    BY <1>2, <2>1, <2>2, ShownFirst
  <2>4. First(u)
    BY <2>1, <2>3, CalmerFirst DEF Marked, Same, Calmer
  <2> QED
    BY <2>4 DEF u
<1>5. CASE t.phase.result = Nothing /\ t.phase.stashed = Nothing
  BY <1>1, <1>2, <1>5 DEF Completed, u
<1>6. First(u)
  BY <1>3, <1>4, <1>5 DEF u
<1> QED
  BY <1>6 DEF u

LEMMA RunRevealFirst ==
  ASSUME NEW t \in FitTab, t.phase.kind = "revealing", StashStarted(t), First(t)
  PROVE  First(RunReveal(t))
<1>1. ASSUME Begun(t, RunReveal(t)) PROVE First(RunReveal(t))
  <2> DEFINE u == RunReveal(t)
  <2> HIDE DEF u
  <2>1. Begun(t, u)
    BY <1>1 DEF u
  <2>2. First(u)
    BY <2>1, CalmerFirst DEF Begun, Revealing, Calmer
  <2> QED
    BY <2>2 DEF u
<1>2. ASSUME NEW v, Redrawn(t, v), RunReveal(t) = Complete(v) PROVE First(RunReveal(t))
  <2>1. v \in FitTab /\ v.phase = t.phase /\ First(v)
    BY <1>2, CalmerFirst DEF Redrawn, Revealing, Calmer
  <2>2. StashStarted(v)
    BY <2>1 DEF StashStarted
  <2> QED
    BY <1>2, <2>1, <2>2, CompleteFirst
<1> QED
  BY <1>1, <1>2, RunRevealIs

LEMMA RevealTimerFirst ==
  ASSUME NEW t \in FitTab, t.phase.kind = "revealing", StashStarted(t), First(t)
  PROVE  First(RevealTimer(t))
<1> DEFINE u == RevealTimer(t)
<1>1. \/ Faced(t, u)
      \/ \E v : Faced(t, v) /\ u = Complete(v)
  BY RevealTimerIs
<1>2. ASSUME NEW v, Faced(t, v)
      PROVE  v \in FitTab /\ v.phase = t.phase /\ StashStarted(v) /\ First(v)
  BY <1>2, CalmerFirst DEF Faced, Calmer, StashStarted
<1> HIDE DEF u
<1>3. First(u)
  BY <1>1, <1>2, CompleteFirst
<1> QED
  BY <1>3 DEF u

LEMMA PopTimerFirst ==
  ASSUME NEW t \in FitTab, t.phase.kind = "revealing", StashStarted(t), First(t)
  PROVE  First(PopTimer(t))
<1>1. PICK v : /\ v \in FitTab /\ v.phase = t.phase /\ SameQueue(t, v)
               /\ v.skipped = t.skipped /\ PopTimer(t) = Complete(v)
  BY PopTimerIs
<1>2. First(v) /\ StashStarted(v)
  BY <1>1, CalmerFirst DEF Calmer, StashStarted
<1> QED
  BY <1>1, <1>2, CompleteFirst

LEMMA TurnedFirst ==
  ASSUME NEW t, First(t), NEW u, Turned(t, u)
  PROVE  First(u)
BY CalmerFirst DEF Turned, Calmer

LEMMA PumpFirst ==
  ASSUME NEW t \in FitTab, HasTimer(t), "pump" \in t.timers, StashStarted(t), First(t),
         t.cur \in Snap
  PROVE  First(Pump(t))
<1> DEFINE u == Pump(t)
<1>1. CASE Turned(t, u)
  BY <1>1, TurnedFirst
<1>2. ASSUME NEW v, Turned(t, v), v.phase.kind = "revealing", SamePhase(t.phase, v.phase),
             u = RunReveal(v)
      PROVE  First(u)
  <2>1. v \in FitTab /\ First(v) /\ StashStarted(v)
    BY <1>2, TurnedFirst DEF Turned, SamePhase, StashStarted
  <2> QED
    BY <1>2, <2>1, RunRevealFirst
<1>3. ASSUME NEW v, Turned(t, v), u = Unstick(v) PROVE First(u)
  <2>1. v \in FitTab /\ First(v) /\ v.cur \in Snap
    BY <1>3, TurnedFirst DEF Turned
  <2> HIDE DEF u
  <2>2. Calmer(v, u)
    BY <1>3, <2>1, UnstickIs DEF Calmer
  <2> QED
    BY <2>1, <2>2, CalmerFirst
<1> HIDE DEF u
<1>4. First(u)
  BY <1>1, <1>2, <1>3, PumpIs DEF u
<1> QED
  BY <1>4 DEF u

\* The board comes up, from an entry or an intro that nothing of the lobby is behind.
LEMMA BoardUpFirst ==
  ASSUME NEW t \in FitTab, LobbyFirst(t), NoLobby(t), NEW u,
         u.intros = t.intros, u.active = t.active,
         u.soon = (IF t.active = "game" THEN t.soon ELSE Append(t.soon, Committing("game")))
  PROVE  LobbyFirst(u)
<1>1. /\ Committing("game") \in FitSoon /\ Committing("game").do # "lobby"
      /\ Committing("game") # Committing("lobby")
  BY CommittingIs DEF Screens
<1>2. CASE u.soon = t.soon
  BY <1>2, QueueFirst DEF SameQueue
<1>3. CASE u.soon = Append(t.soon, Committing("game"))
  BY <1>1, <1>3, AppendFirst
<1> QED
  BY <1>2, <1>3

LEMMA LobbyUpFirst ==
  ASSUME NEW t \in FitTab, LobbyFirst(t), t.active # "game", t.intros = <<>>,
         Committing("game") \notin Entries(t.soon), NEW u, Swapped(t, "lobby", u)
  PROVE  LobbyFirst(u)
<1>1. Committing("lobby") \in FitSoon /\ t.soon \in Seq(FitSoon)
  BY CommittingIs, SoonIs DEF Screens
<1>2. CASE u.soon = t.soon
  BY <1>2, QueueFirst DEF SameQueue, Swapped
<1>3. CASE u.soon = Append(t.soon, Committing("lobby"))
  <2>1. /\ Entries(u.soon) = Entries(t.soon) \cup {Committing("lobby")}
        /\ InLine(t.soon) /\ (\A b \in Entries(t.soon) : MayFollow(b, Committing("lobby"))) =>
             InLine(u.soon)
    BY <1>1, <1>3, AppendIs
  <2>2. \A b \in Entries(t.soon) : b.do = "commit" => b.to # "game"
    BY CommitFits, SoonIs
  <2>3. \A b \in Entries(t.soon) : MayFollow(b, Committing("lobby"))
    BY <2>2, CommittingIs DEF MayFollow
  <2>4. Committing("game") \notin Entries(u.soon)
    BY <2>1, CommittingIs
  <2> QED
    BY <2>1, <2>3, <2>4 DEF LobbyFirst, Swapped
<1> QED
  BY <1>2, <1>3 DEF Swapped

\* What is left when an entry has had its turn.
LEMMA RemovedFirst ==
  ASSUME NEW t \in FitTab, NEW i \in DOMAIN t.soon, InTurn(t.soon, i), NEW v, Removed(t, i, v)
  PROVE  /\ v \in FitTab /\ v.intros = t.intros /\ v.active = t.active
         /\ t.soon[i] \in Entries(t.soon) /\ Entries(v.soon) \subseteq Entries(t.soon)
         /\ LobbyFirst(t) =>
              /\ LobbyFirst(v)
              /\ \A b \in Entries(v.soon) :
                   (b.do # "commit" => t.soon[i].do # "commit") => MayFollow(t.soon[i], b)
<1>1. t.soon \in Seq(FitSoon)
  BY SoonIs
<1>2. v \in FitTab /\ v.intros = t.intros /\ v.active = t.active /\ v.soon = RemoveAt(t.soon, i)
  BY DEF Removed, Relieved
<1>3. /\ Entries(t.soon) = Entries(v.soon) \cup {t.soon[i]}
      /\ InLine(t.soon) =>
           /\ InLine(v.soon)
           /\ \A b \in Entries(v.soon) :
                (b.do # "commit" => t.soon[i].do # "commit") => MayFollow(t.soon[i], b)
  BY <1>1, <1>2, TakeIs
<1>4. LobbyFirst(t) => LobbyFirst(v)
  BY <1>2, <1>3 DEF LobbyFirst
<1> QED
  BY <1>2, <1>3, <1>4 DEF LobbyFirst

LEMMA RanFirst ==
  ASSUME NEW t \in FitTab, First(t), NEW i \in DOMAIN t.soon, t.soon[i] \in FitSoon,
         t.soon[i].do \in {"commit", "lobby", "wait", "hosting", "board"},
         NEW u, Ran(t, i, u)
  PROVE  First(u)
<1> DEFINE a == t.soon[i]
<1>1. PICK v : /\ Removed(t, i, v)
               /\ \/ /\ a.do = "commit" /\ a.to \in Screens
                     /\ u = Commit(v, a.to)
                  \/ /\ a.do # "commit"
                     /\ \E w : Marked(v, t.intros # <<>>, w) /\ u = Later(w, a)
  BY DEF Ran
<1>2. /\ v \in FitTab /\ v.intros = t.intros /\ v.active = t.active
      /\ a \in Entries(t.soon) /\ Entries(v.soon) \subseteq Entries(t.soon)
      /\ LobbyFirst(t) =>
           /\ LobbyFirst(v)
           /\ \A b \in Entries(v.soon) :
                (b.do # "commit" => a.do # "commit") => MayFollow(a, b)
  BY <1>1, RemovedFirst DEF Ran
<1>3. v.skipped = t.skipped
  BY <1>1 DEF Removed, Relieved
<1>4. a \in FitSoon /\ a.do \in {"commit", "lobby", "wait", "hosting", "board"}
  OBVIOUS
<1> HIDE DEF a
<1>5. CASE a.do = "commit" /\ a.to \in Screens /\ u = Commit(v, a.to)
  <2>1. /\ u.soon = v.soon /\ u.intros = v.intros /\ u.active = a.to /\ u.skipped = v.skipped
    BY <1>2, <1>5, CommitIs DEF Relieved
  <2>2. a = Committing(a.to)
    BY <1>4, <1>5, CommitFits
  <2> SUFFICES ASSUME ~t.skipped PROVE LobbyFirst(u)
    BY <1>3, <2>1 DEF First
  <2>3. LobbyFirst(t)
    BY DEF First
  <2>4. a.to = "game" => Committing("lobby") \notin Entries(v.soon)
    BY <1>2, <1>5, <2>3, CommittingIs DEF MayFollow
  <2> QED
    BY <1>2, <2>1, <2>2, <2>3, <2>4 DEF LobbyFirst
<1>6. ASSUME a.do # "commit", NEW w, Marked(v, t.intros # <<>>, w), u = Later(w, a)
      PROVE  First(u)
  <2>1. w \in FitTab /\ SameQueue(v, w) /\ (w.skipped <=> t.skipped \/ t.intros # <<>>)
    BY <1>3, <1>6 DEF Marked, Same
  <2>2. CASE a.do = "lobby" /\ \E x : Same(w, x) /\ x.skipped = w.skipped /\ Swapped(x, "lobby", u)
    <3>1. PICK x : Same(w, x) /\ x.skipped = w.skipped /\ Swapped(x, "lobby", u)
      BY <2>2
    <3> SUFFICES ASSUME ~t.skipped, t.intros = <<>> PROVE LobbyFirst(u)
      BY <2>1, <3>1 DEF First, Swapped
    <3>2. /\ x \in FitTab /\ SameQueue(v, x)
      BY <2>1, <3>1 DEF Same, SameQueue
    <3>3. LobbyFirst(t)
      BY DEF First
    <3>4. t.active # "game" /\ Committing("game") \notin Entries(t.soon)
      BY <1>2, <2>2, <3>3 DEF LobbyFirst
    <3>5. LobbyFirst(x) /\ x.active # "game" /\ x.intros = <<>>
          /\ Committing("game") \notin Entries(x.soon)
      BY <1>2, <3>2, <3>3, <3>4, QueueFirst DEF SameQueue
    <3> QED
      BY <3>1, <3>2, <3>5, LobbyUpFirst
  <2>3. ASSUME a.do \in {"wait", "hosting", "board"},
               Boarded(w, a.snap, u) \/ Introduced(w, a.snap, u)
        PROVE  First(u)
    <3>1. u.skipped = w.skipped
      BY <2>3 DEF Boarded, Introduced
    <3> SUFFICES ASSUME ~t.skipped PROVE LobbyFirst(u)
      BY <2>1, <3>1 DEF First
    <3>2. LobbyFirst(t)
      BY DEF First
    <3>3. LobbyFirst(w) /\ NoLobby(w)
      BY <1>2, <1>6, <2>1, <2>3, <3>2, QueueFirst DEF SameQueue, NoLobby, MayFollow
    <3>4. CASE Boarded(w, a.snap, u)
      BY <2>1, <3>3, <3>4, BoardUpFirst DEF Boarded
    <3>5. CASE Introduced(w, a.snap, u)
      BY <3>3, <3>5 DEF Introduced, LobbyFirst, NoLobby
    <3> QED
      BY <2>3, <3>4, <3>5
  <2> QED
    BY <1>4, <1>6, <2>1, <2>2, <2>3, LaterIs
<1> QED
  BY <1>1, <1>5, <1>6

LEMMA RevealGameFirst ==
  ASSUME NEW t \in FitTab, First(t), t.intros # <<>>, NEW v, Relieved(t, v), v.soon = t.soon,
         v.active = t.active, NEW x, NEW u, BoardShown(v, x, u)
  PROVE  First(u)
<1> SUFFICES ASSUME ~t.skipped PROVE LobbyFirst(u)
  BY DEF First, Relieved, BoardShown
<1>1. LobbyFirst(t) /\ NoLobby(t)
  BY DEF First, LobbyFirst, NoLobby
<1>2. LobbyFirst(v) /\ NoLobby(v) /\ v \in FitTab
  BY <1>1 DEF LobbyFirst, NoLobby, Relieved
<1> QED
  BY <1>2, BoardUpFirst DEF BoardShown

LEMMA FadedFirst ==
  ASSUME NEW t, First(t), NEW u, Faded(t, u) PROVE First(u)
BY CalmerFirst DEF Faded, Same, Calmer

-----------------------------------------------------------------------------
(* The page will come to show the last frame.                              *)

LEMMA TargetIs ==
  ASSUME NEW t \in FitTab, NEW s \in Snap
  PROVE  /\ Target(s) \in {"lobby", "loading", "game"}
         /\ Act(t, s) = "lobby" <=> Target(s) = "lobby"
         /\ Act(t, s) = "none" <=> Target(s) = "loading"
         /\ Act(t, s) \in {"wait", "hosting", "board"} <=> Target(s) = "game"
         /\ Target(s) = "lobby" <=> ~s.started
<1>1. s.started \in BOOLEAN /\ s.paused \in BOOLEAN /\ s.down \in BOOLEAN
  BY SnapIs
<1>2. t.host \in BOOLEAN
  BY TabHas
<1> QED
  BY <1>1, <1>2, ActIs DEF Target

LEMMA EmptyIs ==
  Entries(<<>>) = {} /\ Latest(<<>>) = {} /\ Commits(<<>>)
BY DEF Entries, Latest, Commits

LEMMA SameAct ==
  ASSUME NEW t, NEW u, u.host = t.host
  PROVE  \A s : Act(u, s) = Act(t, s)
BY DEF Act

\* The button is there on a board that has been drawn.
LEMMA ButtonIs ==
  ASSUME NEW t \in FitTab, NEW s \in Snap, NEW over, Timely(t, s, over), t.key = MyDiceKey(s)
  PROVE  s.round >= 1 => t.button # "none"
<1>1. t.key[1] = s.round
  BY KeyOf
<1> SUFFICES ASSUME s.round >= 1 PROVE t.key # <<0, 0>>
  BY DEF Timely, Past
<1>2. s.round # 0 /\ <<0, 0>>[1] = 0
  BY KeyOf
<1> QED
  BY <1>1, <1>2

\* A frame that ShowFor shows is the aim from there on.
LEMMA ShownAim ==
  ASSUME NEW t \in FitTab, NEW x \in Snap, ~x.started => t.dialogs = {},
         AwaitsRollFrame(t.phase) => t.key = MyDiceKey(x),
         NEW u, ShownFor(t, x, u), ~u.skipped
  PROVE  Aim(u, x)
<1>1. /\ u \in FitTab /\ u.timers = t.timers /\ u.host = t.host /\ u.cur = x
      /\ u.key = t.key /\ u.active = t.active
      /\ u.phase = (IF t.phase.kind = "celebrating" THEN Idle ELSE t.phase)
      /\ u.dialogs = t.dialogs \ Closed(t, x)
      /\ u.intros = <<>>
  BY DEF ShownFor, SameBoard
<1>2. u.phase.stashed = Nothing /\ u.phase.kind # "celebrating" /\ ~Held(u)
  <2>1. CASE t.phase.kind = "celebrating"
    BY <1>1, <2>1, IdleIs DEF Held
  <2>2. CASE t.phase.kind # "celebrating"
    BY <1>1, <2>2 DEF Held, HoldsFrame, ShownFor
  <2> QED
    BY <2>1, <2>2
<1>3. Act(u, x) = Act(t, x)
  BY <1>1, SameAct
<1>4. AwaitsRollFrame(u.phase) => u.key = MyDiceKey(x)
  BY <1>1, IdleIs DEF AwaitsRollFrame
<1>5. CASE Act(t, x) # "none"
  <2>1. PICK flag \in BOOLEAN : u.soon = Append(t.soon, Reaction(t, x, flag))
    BY <1>5 DEF ShownFor
  <2> DEFINE a == Reaction(t, x, flag)
  <2>2. a \in FitSoon /\ a.do = Act(t, x) /\ a.snap = x /\ a.do # "commit"
    BY <1>5, ReactionIs
  <2>3. t.soon \in Seq(FitSoon)
    BY SoonIs
  <2>4. Latest(u.soon) = {a} /\ ~Commits(u.soon)
    BY <2>1, <2>2, <2>3, AppendIs
  <2> HIDE DEF a
  <2>5. Led(u, x)
    BY <1>3, <1>5, <2>2, <2>4 DEF Led
  <2>6. Seen(u, x)
    BY <1>1, <2>2, <2>4 DEF Seen
  <2>7. Overlays(u, x)
    <3>1. "winner" \in u.dialogs => Act(t, x) \in {"hosting", "board"}
      BY <1>1, <1>5, ActIs DEF Closed
    <3> QED
      BY <1>2, <1>3, <2>4, <3>1 DEF Overlays
  <2> QED
    BY <1>2, <1>4, <2>5, <2>6, <2>7 DEF Aim
<1>6. CASE Act(t, x) = "none"
  <2>1. Target(x) = "loading"
    BY <1>6, TargetIs
  <2>2. t.soon = <<>>
    BY <1>6 DEF ShownFor
  <2>3. /\ u.soon = IF t.active = "loading" THEN t.soon
                    ELSE Append(t.soon, Committing("loading"))
    BY <1>6 DEF ShownFor
  <2>4. /\ Latest(u.soon) \subseteq {Committing("loading")} /\ Commits(u.soon)
        /\ u.soon = <<>> => u.active = "loading"
        /\ u.soon # <<>> => Last(u.soon) = Committing("loading")
    <3>1. CASE t.active = "loading"
      BY <1>1, <2>2, <2>3, <3>1, EmptyIs
    <3>2. CASE t.active # "loading"
      <4>1. u.soon = Append(t.soon, Committing("loading"))
        BY <2>3, <3>2
      <4>2. Committing("loading") \in FitSoon /\ Committing("loading").do = "commit"
        BY CommittingIs DEF Screens
      <4>3. t.soon \in Seq(FitSoon)
        BY SoonIs
      <4>4. Latest(t.soon) = {} /\ Commits(t.soon)
        BY <2>2, EmptyIs
      <4>5. /\ u.soon # <<>> /\ Last(u.soon) = Committing("loading")
            /\ Commits(u.soon) /\ Latest(u.soon) = Latest(t.soon) \cup {Committing("loading")}
        BY <4>1, <4>2, <4>3, <4>4, AppendIs
      <4> QED
        BY <4>4, <4>5
    <3> QED
      BY <3>1, <3>2
  <2>5. \A a \in Latest(u.soon) : a.do = "commit" /\ a.to = "loading"
    BY <2>4, CommittingIs
  <2>6. Led(u, x)
    BY <1>1, <2>1, <2>4, <2>5 DEF Led, Passing
  <2>7. Seen(u, x)
    BY <1>1, <2>1, <2>5 DEF Seen
  <2>8. Overlays(u, x)
    <3>1. "winner" \notin u.dialogs /\ "pause" \notin u.dialogs
      BY <1>1, <1>6 DEF Closed
    <3> QED
      BY <1>2, <3>1 DEF Overlays
  <2> QED
    BY <1>2, <1>4, <2>6, <2>7, <2>8 DEF Aim
<1> QED
  BY <1>5, <1>6

\* Nothing that the aim is about has changed.
Alike(t, u) ==
  /\ SameQueue(t, u) /\ u.host = t.host /\ u.delays = t.delays /\ u.dialogs = t.dialogs
  /\ u.cur = t.cur /\ u.key = t.key

LEMMA AlikeLed ==
  ASSUME NEW t, NEW u, SameQueue(t, u), u.host = t.host, NEW s, NEW x, Led(t, x),
         s.started <=> x.started, s.paused <=> x.paused, s.down <=> x.down
  PROVE  Led(u, s)
<1>1. Act(u, s) = Act(t, x)
  BY DEF Act
<1>2. Target(s) = Target(x)
  BY DEF Target
<1> QED
  BY <1>1, <1>2 DEF Led, SameQueue

LEMMA AlikeAim ==
  ASSUME NEW t, NEW u, Alike(t, u), u.button = t.button, u.phase = t.phase, Held(u) <=> Held(t),
         NEW s, Aim(t, s)
  PROVE  Aim(u, s)
<1>1. Act(u, s) = Act(t, s)
  BY SameAct DEF Alike
<1>2. Led(t, s) => Led(u, s)
  BY <1>1 DEF Led, Alike, SameQueue
<1>3. Seen(t, s) => Seen(u, s)
  BY DEF Seen, Alike, SameQueue
<1>4. Overlays(t, s) => Overlays(u, s)
  BY <1>1 DEF Overlays, Alike, SameQueue
<1> QED
  BY <1>2, <1>3, <1>4 DEF Aim, Alike

\* What the game tells between two frames.
Follows(s, next) ==
  \/ MyDiceKey(next) = MyDiceKey(s)
  \/ next.started /\ next.round > s.round
  \/ /\ next.started <=> s.started
     /\ next.paused <=> s.paused
     /\ next.down <=> s.down

\* The frame of a roll becomes the aim.
LEMMA FramedAim ==
  ASSUME NEW t \in FitTab, HasTimer(t), NEW x, Aim(t, x), NEW s,
         (s.started <=> x.started) /\ (s.paused <=> x.paused) /\ (s.down <=> x.down),
         NEW result, result = Nothing => t.phase.stashed = Nothing,
         NEW u, Framed(t, s, result, u)
  PROVE  Aim(u, s)
<1>1. CASE t.phase.stashed # Nothing
  BY <1>1 DEF Aim, Framed
<1>2. CASE t.phase.stashed = Nothing
  <2>1. t.phase.kind # "celebrating" /\ t.phase.kind # "idle" /\ ~Settled(u.phase)
        /\ ~AwaitsRollFrame(u.phase) /\ Held(u) /\ u.phase.snap = s /\ u.phase.stashed = Nothing
        /\ u.phase.kind # "celebrating" /\ u.phase.kind # "idle"
    BY <1>2 DEF Framed, AwaitingAck, HasTimer, Settled, AwaitsRollFrame, Held
  <2>2. Alike(t, u)
    BY DEF Framed, Turned, Alike, SameBoard, SamePage
  <2>3. Led(u, s)
    BY <1>2, <2>1, <2>2, AlikeLed DEF Aim, Alike
  <2>4. Overlays(u, s)
    BY <1>2, <2>1, <2>2 DEF Aim, Overlays, Alike, SameQueue
  <2> QED
    BY <2>1, <2>3, <2>4 DEF Aim
<1> QED
  BY <1>1, <1>2

LEMMA EchoedAim ==
  ASSUME NEW t \in FitTab, NEW x, Aim(t, x), NEW s \in Snap, NEW over, Timely(t, s, over),
         NEW u, Echoed(t, s, u), ~u.skipped
  PROVE  Aim(u, s)
<1>1. t.phase.kind = "celebrating" /\ t.phase.result.round = s.round /\ s.started
  BY DEF Echoed, IsCelebrationEcho
<1>2. t.phase.stashed = Nothing
  BY <1>1 DEF Timely, InRoll, Settled
<1>3. u.soon = <<>> /\ u.intros = <<>> /\ u.phase = t.phase /\ u.cur = s /\ u.dialogs = t.dialogs
  BY DEF Echoed, SameRoll, SameQueue
<1>4. ~Held(u) /\ ~AwaitsRollFrame(u.phase)
  BY <1>1, <1>3 DEF Held, AwaitsRollFrame
<1>5. Seen(u, s)
  BY <1>1, <1>3, EmptyIs DEF Seen
<1>6. Overlays(u, s)
  BY <1>1, <1>2, <1>3, EmptyIs DEF Aim, Overlays
<1> QED
  BY <1>1, <1>2, <1>3, <1>4, <1>5, <1>6 DEF Aim

LEMMA HandledAim ==
  ASSUME NEW t \in FitTab, HasTimer(t), NEW s, Real(s), NEW over, Timely(t, s, over),
         NEW x \in Snap, NEW before, Timely(t, x, before), ~t.skipped => Aim(t, x), Follows(x, s),
         NEW u, Handled(t, s, u), ~u.skipped
  PROVE  Aim(u, s)
<1>1. s \in Snap
  BY DEF Real
<1>2. CASE Overtaken(t, s) /\ \E v : Restarted(t, v) /\ ShownFor(v, s, u)
  <2>1. PICK v : Restarted(t, v) /\ ShownFor(v, s, u)
    BY <1>2
  <2>2. v \in FitTab /\ ~AwaitsRollFrame(v.phase) /\ s.started
    BY <1>2, <2>1, IdleIs DEF Restarted, AwaitsRollFrame, Overtaken
  <2> QED
    BY <1>1, <2>1, <2>2, ShownAim
<1>3. CASE /\ AwaitsRollFrame(t.phase) /\ ~Overtaken(t, s) /\ s.started /\ MyDiceKey(s) # t.key
           /\ Framed(t, s, Nothing, u)
  <2>1. ~t.skipped /\ t.phase.stashed = Nothing
    BY <1>3 DEF Framed, Turned, Timely, InRoll
  <2>2. t.key = MyDiceKey(x)
    BY <1>3, <2>1 DEF Aim
  <2>3. ~(s.started /\ s.round > x.round)
    <3>1. t.cur.round <= x.round /\ t.cur.round \in Nat /\ x.round \in Nat /\ s.round \in Nat
      BY <1>1, KeyBehind, TimelyHas, KeyOf
    <3> QED
      BY <1>3, <3>1 DEF Overtaken
  <2>4. (s.started <=> x.started) /\ (s.paused <=> x.paused) /\ (s.down <=> x.down)
    BY <1>3, <2>2, <2>3 DEF Follows
  <2> QED
    BY <1>3, <2>1, <2>4, FramedAim
<1>4. CASE Stashed(t, s, u)
  <2>1. u.phase.stashed = s /\ s # Nothing
    BY <1>1, <1>4, SnapIs DEF Stashed
  <2> QED
    BY <2>1 DEF Aim
<1>5. CASE Echoed(t, s, u)
  BY <1>1, <1>5, EchoedAim DEF Echoed
<1>6. CASE Plain(t, s) /\ ShownFor(t, s, u)
  <2>1. ~s.started => t.dialogs = {}
    BY DEF Timely, Unstarted
  <2>2. AwaitsRollFrame(t.phase) => t.key = MyDiceKey(s)
    BY <1>6, KindsOf DEF Plain
  <2> QED
    BY <1>1, <1>6, <2>1, <2>2, ShownAim
<1> QED
  BY <1>2, <1>3, <1>4, <1>5, <1>6 DEF Handled

\* After a connection lost, the first frame is the aim whatever was before.
LEMMA RestartedAim ==
  ASSUME NEW t \in FitTab, t.phase = Idle, NEW s, Real(s), NEW over, Timely(t, s, over),
         NEW u, Handled(t, s, u), ~u.skipped
  PROVE  Aim(u, s)
<1>1. s \in Snap
  BY DEF Real
<1>2. ~AwaitsRollFrame(t.phase) /\ t.phase.kind = "idle"
  BY IdleIs DEF AwaitsRollFrame
<1>3. CASE Overtaken(t, s) /\ \E v : Restarted(t, v) /\ ShownFor(v, s, u)
  <2>1. PICK v : Restarted(t, v) /\ ShownFor(v, s, u)
    BY <1>3
  <2>2. v \in FitTab /\ ~AwaitsRollFrame(v.phase) /\ s.started
    BY <1>3, <2>1, IdleIs DEF Restarted, AwaitsRollFrame, Overtaken
  <2> QED
    BY <1>1, <2>1, <2>2, ShownAim
<1>4. CASE ShownFor(t, s, u)
  <2>1. ~s.started => t.dialogs = {}
    BY DEF Timely, Unstarted
  <2> QED
    BY <1>1, <1>2, <1>4, <2>1, ShownAim
<1>5. ~Stashed(t, s, u) /\ ~Echoed(t, s, u)
  BY <1>2 DEF Stashed, Echoed, IsCelebrationEcho
<1> QED
  BY <1>2, <1>3, <1>4, <1>5 DEF Handled

LEMMA WonAim ==
  ASSUME NEW t \in FitTab, NEW s \in Snap, s.started, NEW mine \in BOOLEAN,
         NEW u, Won(t, s, mine, u), ~u.skipped
  PROVE  Aim(u, s)
<1>1. t.soon = <<>> /\ u.intros = <<>> /\ u.cur = s /\ "winner" \in u.dialogs
      /\ u.soon = (IF t.active = "game" THEN t.soon ELSE Append(t.soon, Committing("game")))
  BY DEF Won
<1>2. u.phase.kind = "celebrating" /\ u.phase.result.round = s.round /\ u.phase.stashed = Nothing
  BY WonIs, CelebratingIs DEF Won
<1>3. Commits(u.soon) /\ \A a \in Latest(u.soon) : a.do = "commit"
  <2>1. CASE u.soon = <<>>
    BY <2>1, EmptyIs
  <2>2. CASE u.soon = Append(t.soon, Committing("game"))
    <3>1. Committing("game") \in FitSoon /\ Committing("game").do = "commit"
          /\ t.soon \in Seq(FitSoon)
      BY CommittingIs, SoonIs DEF Screens
    <3>2. Latest(t.soon) = {} /\ Commits(t.soon)
      BY <1>1, EmptyIs
    <3>3. Commits(u.soon) /\ Latest(u.soon) = Latest(t.soon) \cup {Committing("game")}
      BY <2>2, <3>1, <3>2, AppendIs
    <3> QED
      BY <3>1, <3>2, <3>3
  <2> QED
    BY <1>1, <2>1, <2>2
<1>4. Seen(u, s)
  BY <1>1, <1>2, <1>3 DEF Seen
<1>5. Overlays(u, s)
  BY <1>1, <1>2, <1>3 DEF Overlays
<1>6. ~Held(u) /\ ~AwaitsRollFrame(u.phase)
  BY <1>2 DEF Held, AwaitsRollFrame
<1> QED
  BY <1>2, <1>4, <1>5, <1>6 DEF Aim

LEMMA RoundWonAim ==
  ASSUME NEW t \in FitTab, HasTimer(t), NEW s \in Snap, s.started, NEW mine \in BOOLEAN, NEW x,
         ~t.skipped => Aim(t, x),
         (s.started <=> x.started) /\ (s.paused <=> x.paused) /\ (s.down <=> x.down),
         NEW u, RoundWon(t, s, mine, u), ~u.skipped
  PROVE  Aim(u, s)
<1>1. CASE Framed(t, s, WonResult(s, mine), u)
  <2>1. ~t.skipped
    BY <1>1 DEF Framed, Turned
  <2>2. WonResult(s, mine) # Nothing
    BY WonIs
  <2> QED
    BY <1>1, <2>1, <2>2, FramedAim
<1>2. CASE Won(t, s, mine, u)
  BY <1>2, WonAim
<1> QED
  BY <1>1, <1>2 DEF RoundWon

-----------------------------------------------------------------------------
(* The roll ends, and the page still comes to show the last frame.         *)

\* A roll that has come to nothing.
Dropped(t, u) ==
  /\ u.phase = Idle /\ SameQueue(t, u) /\ SamePage(t, u) /\ u.key = t.key /\ u.button = "on"
  /\ u.dialogs = t.dialogs /\ u.cur = t.cur

LEMMA DroppedAim ==
  ASSUME NEW t \in FitTab, NEW s, NEW over, Timely(t, s, over), Aim(t, s),
         t.phase.kind # "celebrating", ~Held(t), t.phase.stashed = Nothing,
         NEW u, Dropped(t, u)
  PROVE  Aim(u, s)
<1>1. /\ u.phase.kind = "idle" /\ u.phase.stashed = Nothing /\ ~Held(u)
      /\ ~AwaitsRollFrame(u.phase)
  BY IdleIs DEF Dropped, Held, AwaitsRollFrame
<1>2. Led(t, s) /\ Seen(t, s) /\ Overlays(t, s)
  BY DEF Aim
<1>3. Act(u, s) = Act(t, s)
  BY SameAct DEF Dropped, SamePage
<1>4. Led(u, s)
  BY <1>2, <1>3 DEF Led, Dropped, SameQueue
<1>5. Seen(u, s)
  BY <1>2 DEF Seen, Dropped, SameQueue
<1>6. "winner" \in t.dialogs => t.phase.kind = "idle"
  BY DEF Timely, InRoll, Rolling, Settled
<1>7. Overlays(u, s)
  BY <1>1, <1>2, <1>3, <1>6 DEF Overlays, Dropped, SameQueue, SamePage
<1> QED
  BY <1>1, <1>4, <1>5, <1>7 DEF Aim

LEMMA RejectedAim ==
  ASSUME NEW t \in FitTab, NEW s, NEW over, Timely(t, s, over), over # "announced",
         ~t.skipped => Aim(t, s), NEW u, Rejected(t, u), ~u.skipped
  PROVE  Aim(u, s)
<1>1. ~t.skipped /\ ~HoldsFrame(t)
  BY DEF Rejected
<1>2. t.phase.stashed = Nothing /\ ~Held(t)
  BY <1>1 DEF HoldsFrame, Held
<1>3. t.phase.kind # "celebrating"
  <2> SUFFICES ASSUME t.phase.kind = "celebrating" PROVE FALSE
    OBVIOUS
  <2>1. t.phase.result.round = s.round
    BY <1>1, <1>2 DEF Aim, Overlays
  <2>2. t.phase.result # Nothing
    BY TabHas DEF FitPhase
  <2> QED
    BY <2>1, <2>2 DEF Timely, InRoll
<1>4. Dropped(t, u)
  BY DEF Rejected, Dropped
<1> QED
  BY <1>1, <1>2, <1>3, <1>4, DroppedAim

LEMMA CompleteAim ==
  ASSUME NEW t \in FitTab, t.phase.kind = "revealing", NEW s, Real(s), NEW over,
         Timely(t, s, over), ~Held(t), ~t.skipped => Aim(t, s), ~Complete(t).skipped
  PROVE  Aim(Complete(t), s)
<1> DEFINE w == Calm(t)
           u == Complete(t)
<1>1. Completed(t, w, u)
  BY CompleteIs
<1>2. ~u.skipped
  OBVIOUS
<1> HIDE DEF u, w
<1>3. /\ w \in FitTab /\ w.phase = After(t.phase) /\ SameQueue(t, w) /\ SamePage(t, w)
      /\ w.cur = t.cur /\ w.key = t.key /\ w.skipped = t.skipped
      /\ w.button = (IF t.button = "none" THEN "none" ELSE "on")
      /\ t.phase.result # Nothing => w.dialogs = t.dialogs \cup {"winner"}
      /\ t.phase.result = Nothing => w.dialogs = t.dialogs \ {"winner"}
  BY <1>1 DEF Completed, Calmed, SameBoard
<1>4. t.phase \in FitPhase
  BY TabHas
<1>5. /\ w.phase.kind = IF t.phase.result = Nothing THEN "idle" ELSE "celebrating"
      /\ w.phase.result = t.phase.result /\ w.phase.snap = Nothing /\ w.phase.stashed = Nothing
  BY <1>3, <1>4, AfterIs
<1>6. ~Held(w) /\ ~AwaitsRollFrame(w.phase)
  BY <1>5 DEF Held, AwaitsRollFrame
<1>7. ASSUME t.phase.result # Nothing PROVE Aim(u, s)
  <2>1. Marked(w, t.phase.stashed # Nothing \/ t.soon # <<>> \/ t.intros # <<>>, u)
    BY <1>1, <1>7 DEF Completed
  <2>2. ~t.skipped /\ t.phase.stashed = Nothing /\ t.soon = <<>> /\ t.intros = <<>>
    BY <1>2, <1>3, <2>1 DEF Marked
  <2>3. Seen(t, s)
    BY <2>2 DEF Aim
  <2>4. t.cur = s
    BY <2>2, <2>3, EmptyIs DEF Seen
  <2>5. t.phase.result.round = s.round
    <3>1. InHand(t) /\ t.phase.snap \in Snap /\ s \in Snap
      BY KindsOf DEF InHand, Real
    <3>2. t.phase.result.round = t.phase.snap.round
      BY <1>7, <3>1 DEF Timely, InRoll
    <3>3. s.round <= t.phase.snap.round
      BY <2>4, <3>1, TimelyHas DEF Beside
    <3>4. t.phase.snap.round <= s.round
      BY <3>1, SnapIs, KeyOf DEF Timely, Past, NotAfter
    <3> QED
      BY <3>1, <3>2, <3>3, <3>4, KeyOf
  <2>6. /\ u.soon = <<>> /\ u.intros = <<>> /\ u.cur = s /\ u.dialogs = t.dialogs \cup {"winner"}
        /\ u.phase = w.phase /\ u.timers = w.timers
    BY <1>3, <1>7, <2>1, <2>2, <2>4 DEF Marked, Same, SameQueue, SameRoll
  <2>7. Seen(u, s)
    BY <1>5, <1>7, <2>6, EmptyIs DEF Seen
  <2>8. Overlays(u, s)
    BY <1>5, <1>7, <2>5, <2>6, EmptyIs DEF Overlays
  <2>9. u.phase.kind = "celebrating" /\ u.phase.stashed = Nothing /\ ~Held(u)
        /\ ~AwaitsRollFrame(u.phase)
    BY <1>5, <1>7, <2>6 DEF Held, AwaitsRollFrame
  <2> QED
    BY <2>7, <2>8, <2>9 DEF Aim
<1>8. ASSUME t.phase.result = Nothing, t.phase.stashed # Nothing PROVE Aim(u, s)
  <2>1. PICK v : ShownFor(w, t.phase.stashed, v) /\ Marked(v, t.skipped, u)
    BY <1>1, <1>8 DEF Completed
  <2>2. ~v.skipped /\ ~t.skipped
    BY <1>2, <2>1 DEF Marked
  <2>3. t.phase.stashed = s /\ s \in Snap /\ s.started
    BY <1>8, <2>2 DEF Aim, Timely, Past, NotAfter
  <2>4. Aim(v, s)
    BY <1>3, <1>6, <2>1, <2>2, <2>3, ShownAim
  <2>5. Alike(v, u) /\ u.button = v.button /\ u.phase = v.phase /\ (Held(u) <=> Held(v))
    BY <2>1, SettledTells DEF Marked, Same, Alike, SameRoll, SameBoard
  <2> QED
    BY <2>4, <2>5, AlikeAim
<1>9. ASSUME t.phase.result = Nothing, t.phase.stashed = Nothing PROVE Aim(u, s)
  <2>1. u = w /\ ~t.skipped
    BY <1>1, <1>2, <1>3, <1>9 DEF Completed
  <2>2. Led(t, s) /\ Seen(t, s) /\ Overlays(t, s)
    BY <1>9, <2>1 DEF Aim
  <2>3. Act(w, s) = Act(t, s)
    BY <1>3, SameAct DEF SamePage
  <2>4. Led(w, s)
    BY <1>3, <2>2, <2>3 DEF Led, SameQueue
  <2>5. t.button # "none"
    BY DEF Timely, InRoll, Rolling, Settled
  <2>6. Seen(w, s)
    BY <1>3, <2>2, <2>5 DEF Seen, SameQueue
  <2>7. Overlays(w, s)
    BY <1>3, <1>5, <1>9, <2>2 DEF Overlays, SameQueue, SamePage
  <2> QED
    BY <1>5, <1>6, <2>1, <2>4, <2>6, <2>7 DEF Aim
<1>10. Aim(u, s)
  BY <1>7, <1>8, <1>9
<1> QED
  BY <1>10 DEF u

\* Nothing is forgotten of what was passed.
LEMMA CompleteSkips ==
  ASSUME NEW t \in FitTab, t.phase.kind = "revealing", t.skipped
  PROVE  Complete(t).skipped
<1> DEFINE w == Calm(t)
           u == Complete(t)
<1>1. Completed(t, w, u)
  BY CompleteIs
<1> HIDE DEF u, w
<1>2. u.skipped
  BY <1>1 DEF Completed, Calmed, Marked
<1> QED
  BY <1>2 DEF u

\* The frame in hand is on the page from the start of its reveal.
LEMMA RevealingAim ==
  ASSUME NEW t \in FitTab, Held(t), NEW s \in Snap, NEW over, Timely(t, s, over), Aim(t, s),
         NEW v, Turned(t, v), SamePhase(t.phase, v.phase), v.phase.kind = "revealing",
         v.soon = <<>>, v.intros = <<>>,
         NEW u, Revealing(v, v.phase.snap, u), "pump" \notin u.timers
  PROVE  Aim(u, s) /\ ~Held(u)
<1>1. /\ u.phase.kind = "revealing" /\ u.phase.snap = t.phase.snap
      /\ u.phase.result = t.phase.result /\ u.phase.stashed = t.phase.stashed
      /\ u.soon = <<>> /\ u.intros = <<>> /\ SameQueue(t, u) /\ u.host = t.host
      /\ u.delays = t.delays /\ u.dialogs = t.dialogs
      /\ u.cur = t.phase.snap /\ u.key = MyDiceKey(t.phase.snap)
  BY DEF Revealing, SamePhase, Turned, SameQueue, SamePage
<1>2. ~Held(u) /\ ~AwaitsRollFrame(u.phase)
  BY <1>1 DEF Held, AwaitsRollFrame
<1>3. CASE t.phase.stashed # Nothing
  BY <1>1, <1>2, <1>3 DEF Aim
<1>4. CASE t.phase.stashed = Nothing
  <2>1. t.phase.kind # "celebrating" /\ t.phase.kind # "idle"
    BY DEF Held
  <2>2. Led(t, s) /\ t.phase.snap = s /\ Overlays(t, s)
    BY <1>4, <2>1 DEF Aim
  <2>3. Act(u, s) = Act(t, s)
    BY <1>1, SameAct
  <2>4. Led(u, s)
    BY <1>1, <2>2, <2>3 DEF Led, SameQueue
  <2>5. Seen(u, s)
    BY <1>1, <2>2, EmptyIs DEF Seen
  <2>6. Overlays(u, s)
    BY <1>1, <2>1, <2>2 DEF Overlays, SameQueue
  <2> QED
    BY <1>1, <1>2, <1>4, <2>4, <2>5, <2>6 DEF Aim
<1> QED
  BY <1>3, <1>4

LEMMA RunRevealAim ==
  ASSUME NEW t \in FitTab, Held(t), NEW s, Real(s), NEW over, Timely(t, s, over),
         ~t.skipped => Aim(t, s),
         NEW v, Turned(t, v), SamePhase(t.phase, v.phase), v.phase.kind = "revealing",
         Timely(v, s, over), ~RunReveal(v).skipped
  PROVE  Aim(RunReveal(v), s)
<1>1. v \in FitTab /\ v.phase.snap = t.phase.snap /\ v.skipped = t.skipped /\ s \in Snap
  BY DEF Turned, SamePhase, Real
<1>2. CASE v.loose # 0 /\ v.phase.snap.round = v.round
  <2> DEFINE u == RunReveal(v)
  <2>1. Begun(v, u) /\ ~u.skipped
    BY <1>1, <1>2, RunRevealIs
  <2> HIDE DEF u
  <2>2. ~t.skipped /\ v.soon = <<>> /\ v.intros = <<>>
    BY <1>1, <2>1 DEF Begun
  <2>3. Revealing(v, v.phase.snap, u) /\ "pump" \notin u.timers
    BY <2>1 DEF Begun
  <2>4. Aim(u, s)
    BY <1>1, <2>2, <2>3, RevealingAim
  <2> QED
    BY <2>4 DEF u
<1>3. CASE v.loose = 0 \/ v.phase.snap.round # v.round
  <2>1. PICK w : Redrawn(v, w) /\ RunReveal(v) = Complete(w)
    BY <1>1, <1>3, RunRevealIs
  <2>2. /\ w \in FitTab /\ w.phase.kind = "revealing" /\ "pump" \notin w.timers
        /\ Revealing(v, v.phase.snap, w) /\ w.button = "on"
    BY <2>1 DEF Redrawn, Revealing
  <2>3. ~w.skipped
    BY <2>1, <2>2, CompleteSkips
  <2>4. ~t.skipped /\ v.soon = <<>> /\ v.intros = <<>>
    BY <1>1, <2>1, <2>3 DEF Redrawn
  <2>5. Aim(w, s) /\ ~Held(w)
    BY <1>1, <2>2, <2>4, RevealingAim
  <2>6. Timely(w, s, over)
    BY <1>1, <2>2, RevealingTimely
  <2> QED
    BY <2>1, <2>2, <2>5, <2>6, CompleteAim
<1> QED
  BY <1>2, <1>3

LEMMA RevealTimerAim ==
  ASSUME NEW t \in FitTab, t.phase.kind = "revealing", ~Held(t), NEW s, Real(s), NEW over,
         Timely(t, s, over), ~t.skipped => Aim(t, s), ~RevealTimer(t).skipped
  PROVE  Aim(RevealTimer(t), s)
<1> DEFINE u == RevealTimer(t)
<1>0. s \in Snap /\ ~u.skipped
  BY DEF Real
<1>1. ASSUME NEW v, Faced(t, v), v.timers \in {{}, {"pop"}}, ~v.skipped
      PROVE  Aim(v, s) /\ ~Held(v)
  <2>1. v.phase = t.phase /\ Alike(t, v) /\ v.button = t.button /\ ~t.skipped
    BY <1>1 DEF Faced, Alike, SamePage
  <2>2. ~Held(v)
    BY <1>1, <2>1 DEF Held
  <2> QED
    BY <2>1, <2>2, AlikeAim
<1>2. ASSUME NEW v, Faced(t, v), v.timers = {}, u = Complete(v)
      PROVE  Aim(u, s)
  <2>1. v \in FitTab /\ v.phase = t.phase
    BY <1>2 DEF Faced
  <2>2. Onward(t, v) /\ v.cur = t.cur /\ v.key = t.key /\ v.button = t.button
    <3>1. Rolling(t.phase) /\ ~AwaitingAck(t.phase) /\ ~AwaitsRollFrame(t.phase) /\ InHand(t)
      BY DEF Rolling, Settled, AwaitingAck, AwaitsRollFrame, InHand
    <3>2. ~Held(v)
      BY <1>2, <2>1 DEF Held
    <3> QED
      BY <1>2, <3>1, <3>2 DEF Onward, Faced, SamePhase, InHand
  <2>3. Timely(v, s, over)
    BY <1>0, <2>2, OnwardTimely
  <2>4. ~v.skipped
    BY <1>0, <1>2, <2>1, CompleteSkips
  <2>5. Aim(v, s) /\ ~Held(v)
    BY <1>1, <1>2, <2>4
  <2>6. ~Complete(v).skipped
    BY <1>0, <1>2
  <2> HIDE DEF u
  <2> QED
    BY <1>2, <2>1, <2>3, <2>5, <2>6, CompleteAim
<1>3. \/ Faced(t, u) /\ u.timers = {"pop"}
      \/ \E v : Faced(t, v) /\ v.timers = {} /\ u = Complete(v)
  BY RevealTimerIs
<1> HIDE DEF u
<1>4. Aim(u, s)
  BY <1>0, <1>1, <1>2, <1>3
<1> QED
  BY <1>4 DEF u

LEMMA PopTimerAim ==
  ASSUME NEW t \in FitTab, t.phase.kind = "revealing", ~Held(t), NEW s, Real(s), NEW over,
         Timely(t, s, over), ~t.skipped => Aim(t, s), ~PopTimer(t).skipped
  PROVE  Aim(PopTimer(t), s)
<1>0. s \in Snap
  BY DEF Real
<1>1. PICK v : /\ v \in FitTab /\ v.phase = t.phase /\ v.timers = {}
               /\ SameQueue(t, v) /\ SamePage(t, v) /\ v.dialogs = t.dialogs
               /\ v.cur = t.cur /\ v.key = t.key /\ v.button = t.button
               /\ v.skipped = t.skipped
               /\ PopTimer(t) = Complete(v)
  BY PopTimerIs
<1>2. ~Held(v)
  BY <1>1 DEF Held
<1>3. Onward(t, v)
  <2>1. Rolling(t.phase) /\ ~AwaitingAck(t.phase) /\ ~AwaitsRollFrame(t.phase) /\ InHand(t)
    BY DEF Rolling, Settled, AwaitingAck, AwaitsRollFrame, InHand
  <2> QED
    BY <1>1, <1>2, <2>1 DEF Onward, SamePhase, InHand
<1>4. Timely(v, s, over)
  BY <1>0, <1>1, <1>3, OnwardTimely
<1>5. ~t.skipped => Aim(v, s)
  <2>1. Alike(t, v)
    BY <1>1 DEF Alike, SamePage
  <2> QED
    BY <1>1, <1>2, <2>1, AlikeAim
<1> QED
  BY <1>1, <1>2, <1>4, <1>5, CompleteAim

-----------------------------------------------------------------------------
(* What the player and the page do, and the aim.                           *)

\* The shake is over and the frame has not arrived.
LEMMA WaitingAim ==
  ASSUME NEW t \in FitTab, NEW s, NEW over, Timely(t, s, over), Aim(t, s), t.phase.kind = "shaking",
         NEW u, Turned(t, u), u.phase.kind = "awaitingServer", SamePhase(t.phase, u.phase)
  PROVE  Aim(u, s)
<1>1. /\ ~Held(t) /\ ~Held(u) /\ AwaitsRollFrame(t.phase)
      /\ t.phase.kind # "celebrating" /\ u.phase.kind # "celebrating"
      /\ t.phase.kind # "idle" /\ u.phase.kind # "idle"
  BY DEF Held, AwaitsRollFrame
<1>2. t.phase.stashed = Nothing
  BY <1>1 DEF Timely, InRoll
<1>3. Led(t, s) /\ Seen(t, s) /\ Overlays(t, s) /\ t.key = MyDiceKey(s)
  BY <1>1, <1>2 DEF Aim
<1>4. Alike(t, u)
  BY DEF Turned, Alike, SamePage, SameBoard
<1>5. Led(u, s)
  BY <1>3, <1>4, AlikeLed DEF Alike
<1>6. Seen(u, s)
  BY <1>1, <1>3, <1>4 DEF Seen, Alike, SameQueue
<1>7. Overlays(u, s)
  BY <1>1, <1>3, <1>4 DEF Overlays, Alike, SameQueue
<1> QED
  BY <1>1, <1>2, <1>3, <1>4, <1>5, <1>6, <1>7 DEF Aim, Alike, SamePhase

LEMMA PumpAim ==
  ASSUME NEW t \in FitTab, HasTimer(t), "pump" \in t.timers, NEW s, Real(s), NEW over,
         Timely(t, s, over), ~t.skipped => Aim(t, s), ~Pump(t).skipped
  PROVE  Aim(Pump(t), s)
<1> DEFINE u == Pump(t)
<1>0. s \in Snap /\ ~u.skipped
  BY DEF Real
<1>1. ASSUME t.phase.kind = "shaking", Turned(t, u), u.phase.kind = "awaitingServer",
             SamePhase(t.phase, u.phase)
      PROVE  Aim(u, s)
  <2> HIDE DEF u
  <2>1. ~t.skipped
    BY <1>0, <1>1 DEF Turned
  <2> QED
    BY <1>1, <2>1, WaitingAim
<1>2. ASSUME Held(t), NEW v, Turned(t, v), v.timers = {}, v.phase.kind = "revealing",
             SamePhase(t.phase, v.phase), u = RunReveal(v)
      PROVE  Aim(u, s)
  <2> HIDE DEF u
  <2>1. Timely(v, s, over)
    <3>1. InHand(t) /\ Rolling(t.phase) /\ ~AwaitingAck(v.phase) /\ ~AwaitsRollFrame(v.phase)
          /\ Rolling(v.phase)
      BY <1>2, KindsOf DEF AwaitingAck, AwaitsRollFrame, Rolling, Settled
    <3>2. Onward(t, v) /\ v.cur = t.cur /\ v.key = t.key /\ v.button = t.button
      BY <1>2, <3>1 DEF Onward, Turned, SameBoard
    <3> QED
      BY <1>0, <3>2, OnwardTimely
  <2>2. ~RunReveal(v).skipped
    BY <1>0, <1>2
  <2> QED
    BY <1>2, <2>1, <2>2, RunRevealAim
<1>3. ASSUME t.phase.kind = "awaitingServer", NEW v, Turned(t, v), v.phase = Idle, u = Unstick(v)
      PROVE  Aim(u, s)
  <2> HIDE DEF u
  <2>1. v \in FitTab /\ v.cur = t.cur /\ t.cur \in Snap
    BY <1>0, <1>3, TimelyHas DEF Turned
  <2>2. /\ u \in FitTab /\ SameRoll(v, u) /\ SameQueue(v, u) /\ SamePage(v, u)
        /\ u.key = v.key /\ u.button = "on" /\ u.dialogs = v.dialogs /\ u.cur = v.cur
        /\ u.skipped = v.skipped
    BY <1>3, <2>1, UnstickIs
  <2>3. Dropped(t, u) /\ ~t.skipped
    BY <1>0, <1>3, <2>2 DEF Dropped, Turned, SameRoll, SameQueue, SamePage, SameBoard
  <2>4. AwaitsRollFrame(t.phase) /\ ~Held(t) /\ t.phase.kind # "celebrating"
    BY <1>3 DEF AwaitsRollFrame, Held
  <2>5. t.phase.stashed = Nothing
    BY <2>4 DEF Timely, InRoll
  <2> QED
    BY <2>3, <2>4, <2>5, DroppedAim
<1>4. Aim(u, s)
  BY <1>1, <1>2, <1>3, PumpIs
<1> QED
  BY <1>4 DEF u

LEMMA SentAim ==
  ASSUME NEW t \in FitTab, NEW s \in Snap, NEW over, Timely(t, s, over), Aim(t, s),
         t.phase.kind = "idle", Clear(t), NEW u, Sent(t, u)
  PROVE  Aim(u, s)
<1>1. ~Held(t) /\ ~Held(u) /\ Settled(t.phase) /\ u.phase.kind = "shaking"
      /\ u.phase.stashed = Nothing
  BY DEF Held, Settled, Sent
<1>2. t.phase.stashed = Nothing
  BY <1>1 DEF Timely, InRoll
<1>3. Led(t, s) /\ Seen(t, s)
  BY <1>1, <1>2 DEF Aim
<1>4. Commits(t.soon) /\ t.soon = <<>> /\ t.intros = <<>> /\ t.active = "game"
      /\ Latest(t.soon) = {}
  BY ClearIs DEF Clear
<1>5. Target(s) = "game"
  BY <1>3, <1>4 DEF Led
<1>6. t.cur = s /\ t.key = MyDiceKey(s)
  BY <1>1, <1>3, <1>4, <1>5 DEF Seen
<1>7. /\ SameQueue(t, u) /\ u.host = t.host /\ u.cur = t.cur /\ u.key = t.key
      /\ u.dialogs = {}
  BY DEF Sent, Clear, SameBoard, SamePage
<1>8. Led(u, s)
  BY <1>3, <1>7, AlikeLed
<1>9. Seen(u, s)
  BY <1>1, <1>4, <1>6, <1>7 DEF Seen, SameQueue
<1>10. Overlays(u, s)
  BY <1>1, <1>7 DEF Overlays
<1> QED
  BY <1>1, <1>6, <1>7, <1>8, <1>9, <1>10 DEF Aim

LEMMA FadedAim ==
  ASSUME NEW t \in FitTab, NEW s, Aim(t, s), NEW u, Faded(t, u)
  PROVE  Aim(u, s)
<1>1. /\ SameQueue(t, u) /\ u.host = t.host /\ u.cur = t.cur /\ u.key = t.key
      /\ u.phase = t.phase /\ u.button = t.button /\ u.dialogs = t.dialogs \ {"pause"}
      /\ (Held(u) <=> Held(t))
  BY SettledTells DEF Faded, Same, SameRoll, SameBoard
<1>2. Led(t, s) => Led(u, s)
  BY <1>1, AlikeLed
<1>3. Seen(t, s) => Seen(u, s)
  BY <1>1 DEF Seen, SameQueue
<1>4. Act(u, s) = Act(t, s)
  BY <1>1, SameAct
<1>5. Overlays(t, s) => Overlays(u, s)
  BY <1>1, <1>4 DEF Overlays, SameQueue
<1> QED
  BY <1>1, <1>2, <1>3, <1>5 DEF Aim

-----------------------------------------------------------------------------
(* What is done later, and the aim.                                        *)

LEMMA LastIs ==
  ASSUME NEW S, NEW q \in Seq(S), q # <<>>
  PROVE  Last(q) \in Latest(q) /\ Last(q) \in Entries(q)
<1>1. /\ DOMAIN q = 1..Len(q) /\ Len(q) \in Nat /\ Len(q) \in DOMAIN q /\ Last(q) = q[Len(q)]
      /\ \A k \in DOMAIN q : ~(k > Len(q))
  BY DEF Last
<1>2. Last(q) \in Entries(q)
  BY <1>1 DEF Entries
<1>3. Last(q) \in Latest(q)
  BY <1>1 DEF Latest
<1> QED
  BY <1>2, <1>3

\* A swap that is committed.
LEMMA CommittedAim ==
  ASSUME NEW t \in FitTab, NEW s, Aim(t, s), NEW i \in DOMAIN t.soon, InTurn(t.soon, i),
         t.soon[i].do = "commit", t.soon[i].to \in Screens,
         NEW v, Removed(t, i, v), NEW u, Relieved(v, u), u.soon = v.soon, u.intros = v.intros,
         u.active = t.soon[i].to
  PROVE  Aim(u, s)
<1> DEFINE a == t.soon[i]
<1>1. t.soon \in Seq(FitSoon)
  BY SoonIs
<1>2. /\ Entries(t.soon) = Entries(u.soon) \cup {a} /\ Latest(u.soon) \subseteq Latest(t.soon)
      /\ Commits(u.soon) /\ u.soon # <<>> => Last(u.soon) = Last(t.soon)
      /\ u.soon = <<>> => Last(t.soon) = a
      /\ t.soon # <<>>
  BY <1>1, TakeIs DEF Removed
<1>3. Commits(u.soon) <=> Commits(t.soon)
  BY <1>2 DEF Commits
<1>4. /\ u.phase = t.phase /\ u.timers = t.timers /\ u.host = t.host /\ u.intros = t.intros
      /\ u.delays = t.delays /\ u.dialogs = t.dialogs /\ u.cur = t.cur /\ u.key = t.key
      /\ u.button = t.button
  BY DEF Removed, Relieved, SameRoll, SameBoard, SamePage
<1>5. Act(u, s) = Act(t, s) /\ (Held(u) <=> Held(t))
  BY <1>4, SameAct, SettledTells DEF SameRoll
<1> HIDE DEF a
<1>6. ASSUME Led(t, s) PROVE Led(u, s)
  <2>1. \A b \in Latest(u.soon) : IF b.do = "commit" THEN b.to \in Passing(Target(s))
                                  ELSE b.do = Act(u, s)
    BY <1>2, <1>5, <1>6 DEF Led
  <2>2. Act(u, s) = "none" => Commits(u.soon)
    BY <1>3, <1>5, <1>6 DEF Led
  <2>3. ASSUME Commits(u.soon), u.intros = <<>>, u.soon = <<>> PROVE u.active = Target(s)
    <3>1. a = Committing(Target(s))
      BY <1>2, <1>3, <1>4, <1>6, <2>3 DEF Led
    <3>2. a.to = Target(s)
      BY <3>1, CommittingIs
    <3> QED
      BY <3>2 DEF a
  <2>4. Commits(u.soon) /\ u.intros = <<>> /\ u.soon # <<>> => Last(u.soon) = Committing(Target(s))
    BY <1>2, <1>3, <1>4, <1>6 DEF Led
  <2>5. Commits(u.soon) /\ u.intros # <<>> => Act(u, s) = "board"
    BY <1>3, <1>4, <1>5, <1>6 DEF Led
  <2> QED
    BY <2>1, <2>2, <2>3, <2>4, <2>5 DEF Led
<1>7. Seen(t, s) => Seen(u, s)
  BY <1>2, <1>3, <1>4 DEF Seen
<1>8. Overlays(t, s) => Overlays(u, s)
  BY <1>3, <1>4, <1>5 DEF Overlays
<1> QED
  BY <1>4, <1>5, <1>6, <1>7, <1>8 DEF Aim

-----------------------------------------------------------------------------
(* The board comes up.                                                     *)

\* The board comes up, or is up already, with nothing to follow it but swaps.
LEMMA BoardUpAim ==
  ASSUME NEW r \in Seq(FitSoon), Commits(r),
         NEW active, active = "game" => Committing("lobby") \notin Entries(r),
         \A b \in Latest(r) : b.to \in {"lobby", "game"},
         NEW q, q = IF active = "game" THEN r ELSE Append(r, Committing("game"))
  PROVE  /\ IF q = <<>> THEN active = "game" ELSE Last(q) = Committing("game")
         /\ Commits(q)
<1>1. CASE active = "game"
  <2>1. ASSUME r # <<>> PROVE Last(r) = Committing("game")
    <3>1. Last(r) \in Latest(r) /\ Last(r) \in Entries(r)
      BY <2>1, LastIs
    <3>2. Last(r) \in FitSoon /\ Last(r).do = "commit"
      BY <3>1 DEF Commits, Entries
    <3>3. Last(r) = Committing(Last(r).to) /\ Last(r).to \in {"lobby", "game"}
      BY <3>1, <3>2, CommitFits
    <3> QED
      BY <1>1, <3>1, <3>3
  <2> QED
    BY <1>1, <2>1
<1>2. CASE active # "game"
  <2>1. Committing("game") \in FitSoon /\ Committing("game").do = "commit"
    BY CommittingIs DEF Screens
  <2>2. q # <<>> /\ Last(q) = Committing("game") /\ Commits(q)
    BY <1>2, <2>1, AppendIs
  <2> QED
    BY <2>2
<1> QED
  BY <1>1, <1>2

\* What is left to be done after an entry, and one swap more.
More(r, id, q) == q \in {r, Append(r, Committing(id))}

LEMMA MoreIs ==
  ASSUME NEW r \in Seq(FitSoon), NEW id \in Screens, NEW q, More(r, id, q)
  PROVE  /\ Commits(q) <=> Commits(r)
         /\ \A b \in Latest(q) : b \in Latest(r) \/ (b.do = "commit" /\ b.to = id)
<1>1. Committing(id) \in FitSoon /\ Committing(id).do = "commit" /\ Committing(id).to = id
  BY CommittingIs
<1>2. CASE q = r
  BY <1>2
<1>3. CASE q = Append(r, Committing(id))
  <2>1. Latest(q) = Latest(r) \cup {Committing(id)} /\ (Commits(q) <=> Commits(r))
    BY <1>1, <1>3, AppendIs
  <2> QED
    BY <1>1, <2>1
<1> QED
  BY <1>2, <1>3 DEF More

\* The button on a board that has been drawn from s.
LEMMA DrawnButton ==
  ASSUME NEW t \in FitTab, NEW s, Real(s), NEW over, Timely(t, s, over), t.phase.kind = "idle",
         ~s.paused, NEW button \in {"none", "on", "off"},
         button = "none" => t.button = "none" /\ MyDiceKey(s) = t.key,
         Settled(t.phase) /\ ~s.paused => button \in {"none", "on"}
  PROVE  button = "on"
<1>1. Settled(t.phase)
  BY DEF Settled
<1>2. t.key = MyDiceKey(s) => t.button # "none"
  BY ButtonIs DEF Real
<1> QED
  BY <1>1, <1>2

\* The board that an intro gives way to.
LEMMA RevealGameAim ==
  ASSUME NEW t \in FitTab, NEW s, Real(s), NEW over, Timely(t, s, over), First(t),
         ~t.skipped => Aim(t, s), t.intros # <<>>,
         NEW v, Relieved(t, v), v.soon = t.soon, v.intros = Tail(t.intros), v.active = t.active,
         NEW u, BoardShown(v, Head(t.intros), u), ~u.skipped
  PROVE  Aim(u, s)
<1>0. s \in Snap /\ s.started
  BY StartedWhen DEF Real
<1>1. /\ u \in FitTab /\ u.phase = t.phase /\ u.timers = t.timers /\ u.host = t.host
      /\ u.delays = t.delays /\ u.dialogs = t.dialogs /\ u.intros = Tail(t.intros)
      /\ u.active = t.active /\ u.cur = Head(t.intros) /\ u.key = MyDiceKey(Head(t.intros))
      /\ u.soon = IF t.active = "game" THEN t.soon ELSE Append(t.soon, Committing("game"))
  BY DEF BoardShown, Relieved, SameRoll, SamePage
<1>2. ~t.skipped
  BY DEF BoardShown, Relieved
<1>3. Act(u, s) = Act(t, s) /\ (Held(u) <=> Held(t))
  BY <1>1, SameAct, SettledTells DEF SameRoll
<1>4. t.soon \in Seq(FitSoon) /\ t.intros \in Seq(Snap) /\ More(t.soon, "game", u.soon)
  BY <1>1, SoonIs DEF More
<1>5. /\ Commits(u.soon) <=> Commits(t.soon)
      /\ \A b \in Latest(u.soon) : b \in Latest(t.soon) \/ (b.do = "commit" /\ b.to = "game")
  BY <1>4, MoreIs DEF Screens
<1>6. /\ Head(t.intros) \in Entries(t.intros)
      /\ Tail(t.intros) # <<>> => Last(Tail(t.intros)) = Last(t.intros)
      /\ Tail(t.intros) = <<>> => Last(t.intros) = Head(t.intros)
  BY <1>4, TailIs
<1>7. CASE t.phase.stashed # Nothing
  BY <1>1, <1>2, <1>7 DEF Aim
<1>8. CASE t.phase.stashed = Nothing
  <2>1. t.phase.kind # "celebrating" /\ Led(t, s) /\ Overlays(t, s)
    BY <1>2, <1>8 DEF Aim, Overlays
  <2>2. Target(s) = "game"
    <3>1. Act(t, s) # "none"
      BY <2>1 DEF Led
    <3> QED
      BY <1>0, <3>1, TargetIs
  <2>3. ASSUME Commits(u.soon), Tail(t.intros) = <<>>
        PROVE  IF u.soon = <<>> THEN u.active = "game" ELSE Last(u.soon) = Committing("game")
    <3>1. t.active = "game" => Committing("lobby") \notin Entries(t.soon)
      BY <1>2 DEF First, LobbyFirst
    <3>2. \A b \in Latest(t.soon) : b.do = "commit" => b.to \in {"lobby", "game"}
      BY <2>1, <2>2 DEF Led, Passing
    <3>3. \A b \in Latest(t.soon) : b.do = "commit"
      BY <1>5, <2>3 DEF Commits, Latest, Entries
    <3> QED
      BY <1>1, <1>4, <1>5, <2>3, <3>1, <3>2, <3>3, BoardUpAim
  <2>4. Led(u, s)
    <3>1. \A b \in Latest(u.soon) : IF b.do = "commit" THEN b.to \in Passing(Target(s))
                                    ELSE b.do = Act(u, s)
      BY <1>3, <1>5, <2>1, <2>2 DEF Led, Passing
    <3>2. Act(u, s) = "none" => Commits(u.soon)
      BY <1>3, <1>5, <2>1 DEF Led
    <3>3. Commits(u.soon) => Act(u, s) = "board"
      BY <1>3, <1>5, <2>1 DEF Led
    <3> QED
      BY <1>1, <2>2, <2>3, <3>1, <3>2, <3>3 DEF Led
  <2>5. ASSUME Seen(t, s), ~Held(t) PROVE Seen(u, s)
    <3>1. \A b \in Latest(u.soon) : b.do # "commit" => b.snap = s
      BY <1>5, <2>5 DEF Seen
    <3>2. Commits(u.soon) => Last(t.intros) = s
      BY <1>5, <2>5 DEF Seen
    <3>3. ASSUME Commits(u.soon), Tail(t.intros) = <<>>, t.phase.kind = "idle", ~s.paused
          PROVE  u.button = "on"
      <4>1. Head(t.intros) = s
        BY <1>6, <3>2, <3>3
      <4>2. /\ u.button = "none" => t.button = "none" /\ MyDiceKey(s) = t.key
            /\ Settled(t.phase) /\ ~s.paused => u.button \in {"none", "on"}
        BY <4>1 DEF BoardShown, Relieved, SameRoll, SameBoard
      <4>3. u.button \in {"none", "on", "off"}
        BY <1>1, TabHas
      <4> QED
        BY <3>3, <4>2, <4>3, DrawnButton
    <3> QED
      BY <1>0, <1>1, <1>6, <3>1, <3>2, <3>3 DEF Seen
  <2>6. AwaitsRollFrame(u.phase) => u.key = MyDiceKey(s)
    <3>1. Head(t.intros) \in Queued(t)
      BY <1>6 DEF Queued
    <3>2. AwaitsRollFrame(t.phase) => MyDiceKey(Head(t.intros)) = t.key
      BY <3>1, KindsOf DEF Timely, InRoll
    <3>3. AwaitsRollFrame(t.phase) => t.key = MyDiceKey(s)
      BY <1>2, <1>8 DEF Aim
    <3> QED
      BY <1>1, <3>2, <3>3
  <2>7. Overlays(u, s)
    BY <1>1, <1>3, <1>5, <2>1 DEF Overlays
  <2> QED
    BY <1>1, <1>2, <1>3, <1>8, <2>1, <2>4, <2>5, <2>6, <2>7 DEF Aim
<1> QED
  BY <1>7, <1>8

-----------------------------------------------------------------------------
(* An entry of the queue has its turn.                                     *)

\* An entry of the queue that is done, the queue that is left, and what the page
\* looks like with everything else still the same.
Turning(t, s, a, r, w) ==
  /\ w \in FitTab /\ w.phase = t.phase /\ w.timers = t.timers /\ w.host = t.host
  /\ w.delays = t.delays /\ w.dialogs = t.dialogs /\ w.cur = t.cur /\ w.button = t.button
  /\ SameBoard(t, w) /\ w.soon = r /\ w.intros = <<>> /\ w.active = t.active
  /\ r \in Seq(FitSoon) /\ Latest(r) \subseteq Latest(t.soon)
  /\ Entries(r) \subseteq Entries(t.soon)
  /\ a \in Entries(t.soon) /\ a.do \in {"lobby", "wait", "hosting", "board"}
  /\ Commits(r) => a \in Latest(t.soon)

\* What its turn means for the aim.
LEMMA TurnIs ==
  ASSUME NEW t \in FitTab, NEW s \in Snap, NEW over, Timely(t, s, over), LobbyFirst(t), Aim(t, s),
         t.phase.stashed = Nothing, NEW a, NEW r, NEW w, Turning(t, s, a, r, w)
  PROVE  /\ t.phase.kind # "celebrating" /\ Led(t, s) /\ Overlays(t, s) /\ Act(t, s) # "none"
         /\ Commits(r) => a.do = Act(t, s)
         /\ Commits(r) /\ ~Held(t) => a.snap = s
         /\ a.do = "lobby" => "lobby" \in Passing(Target(s))
         /\ a.do # "lobby" => Target(s) = "game"
         /\ Act(t, s) # "lobby" => Target(s) = "game"
         /\ Act(t, s) = "lobby" => Target(s) = "lobby" /\ ~s.started
         /\ ~s.started => a.do = "lobby"
         /\ AwaitsRollFrame(t.phase) => MyDiceKey(a.snap) = MyDiceKey(s) /\ t.key = MyDiceKey(s)
<1>1. ~Commits(t.soon)
  BY DEF Turning, Commits
<1>2. t.phase.kind # "celebrating" /\ Led(t, s) /\ Overlays(t, s)
  BY <1>1 DEF Aim, Overlays
<1>3. Act(t, s) # "none"
  BY <1>1, <1>2 DEF Led
<1>4. a.do # "commit"
  BY DEF Turning
<1>5. Commits(r) => a.do = Act(t, s)
  BY <1>2, <1>4 DEF Turning, Led
<1>6. Commits(r) /\ ~Held(t) => a.snap = s
  <2>1. ~Held(t) => Seen(t, s)
    BY <1>2 DEF Aim
  <2> QED
    BY <1>4, <2>1 DEF Turning, Seen
<1>7. ~s.started => a.do = "lobby"
  BY <1>4 DEF Turning, Timely, Unstarted
<1>8. /\ Target(s) \in {"lobby", "game"} /\ (Target(s) = "lobby" <=> ~s.started)
      /\ Act(t, s) = "lobby" <=> Target(s) = "lobby"
  BY <1>3, TargetIs
<1>9. /\ a.do = "lobby" => "lobby" \in Passing(Target(s))
      /\ a.do # "lobby" => Target(s) = "game"
      /\ Act(t, s) # "lobby" => Target(s) = "game"
      /\ Act(t, s) = "lobby" => Target(s) = "lobby" /\ ~s.started
  BY <1>7, <1>8 DEF Passing
<1>10. AwaitsRollFrame(t.phase) => MyDiceKey(a.snap) = MyDiceKey(s) /\ t.key = MyDiceKey(s)
  <2>1. a.snap \in Queued(t)
    BY <1>4 DEF Turning, Queued
  <2>2. AwaitsRollFrame(t.phase) => MyDiceKey(a.snap) = t.key
    BY <2>1, KindsOf DEF Timely, InRoll
  <2> QED
    BY <2>2 DEF Aim
<1> QED
  BY <1>2, <1>3, <1>5, <1>6, <1>7, <1>9, <1>10

\* The screen it leads to, for Led.
LEMMA TurnLed ==
  ASSUME NEW t \in FitTab, NEW s, Led(t, s), Act(t, s) # "none",
         NEW r \in Seq(FitSoon), Latest(r) \subseteq Latest(t.soon), NEW id \in Screens,
         NEW u, u.host = t.host, More(r, id, u.soon), u.soon # r => id \in Passing(Target(s)),
         Commits(r) => IF u.intros # <<>> THEN Act(t, s) = "board"
                       ELSE IF u.soon = <<>> THEN u.active = Target(s)
                       ELSE Last(u.soon) = Committing(Target(s))
  PROVE  Led(u, s)
<1>1. Act(u, s) = Act(t, s)
  BY SameAct
<1>2. /\ Commits(u.soon) <=> Commits(r)
      /\ \A b \in Latest(u.soon) : b \in Latest(r) \/ (b.do = "commit" /\ b.to = id)
  BY MoreIs
<1>3. \A b \in Latest(u.soon) : IF b.do = "commit" THEN b.to \in Passing(Target(s))
                                ELSE b.do = Act(u, s)
  <2>1. CASE u.soon = r
    BY <1>1, <2>1 DEF Led
  <2>2. CASE u.soon # r
    BY <1>1, <1>2, <2>2 DEF Led
  <2> QED
    BY <2>1, <2>2
<1>4. Act(u, s) # "none"
  BY <1>1
<1>5. Commits(u.soon) => IF u.intros # <<>> THEN Act(u, s) = "board"
                         ELSE IF u.soon = <<>> THEN u.active = Target(s)
                         ELSE Last(u.soon) = Committing(Target(s))
  BY <1>1, <1>2
<1> QED
  BY <1>3, <1>4, <1>5 DEF Led

\* The lobby comes up, without the pause dialog.
LEMMA LobbyTurnAim ==
  ASSUME NEW t \in FitTab, NEW s, Real(s), NEW over, Timely(t, s, over), LobbyFirst(t),
         Aim(t, s), t.phase.stashed = Nothing, NEW a, NEW r, NEW w, Turning(t, s, a, r, w),
         a.do = "lobby", NEW u, u \in FitTab, SameRoll(w, u), SameBoard(w, u), u.host = w.host,
         u.cur = w.cur, u.button = w.button, u.intros = w.intros, u.active = w.active,
         u.delays = w.delays, u.dialogs = w.dialogs \ {"pause"},
         u.soon = IF w.active = "lobby" THEN r ELSE Append(r, Committing("lobby"))
  PROVE  Aim(u, s)
<1>0. s \in Snap
  BY DEF Real
<1>1. /\ t.phase.kind # "celebrating" /\ Led(t, s) /\ Overlays(t, s) /\ Act(t, s) # "none"
      /\ Commits(r) => Act(t, s) = "lobby"
      /\ "lobby" \in Passing(Target(s))
      /\ Act(t, s) # "lobby" => Target(s) = "game"
      /\ Act(t, s) = "lobby" => Target(s) = "lobby" /\ ~s.started
      /\ AwaitsRollFrame(t.phase) => t.key = MyDiceKey(s)
  BY <1>0, TurnIs
<1>2. /\ u.phase = t.phase /\ u.timers = t.timers /\ u.host = t.host /\ u.key = t.key
      /\ u.cur = t.cur /\ u.button = t.button /\ u.intros = <<>> /\ u.active = t.active
      /\ u.dialogs = t.dialogs \ {"pause"}
      /\ r \in Seq(FitSoon) /\ Latest(r) \subseteq Latest(t.soon)
      /\ u.soon = IF u.active = "lobby" THEN r ELSE Append(r, Committing("lobby"))
  BY DEF Turning, SameRoll, SameBoard
<1>3. More(r, "lobby", u.soon) /\ "lobby" \in Screens
  BY <1>2 DEF More, Screens
<1>4. Act(u, s) = Act(t, s) /\ (Held(u) <=> Held(t))
  BY <1>2, SameAct, SettledTells DEF SameRoll
<1>5. /\ Commits(u.soon) <=> Commits(r)
      /\ \A b \in Latest(u.soon) : b \in Latest(r) \/ (b.do = "commit" /\ b.to = "lobby")
  BY <1>2, <1>3, MoreIs
<1>6. ASSUME Commits(r)
      PROVE  IF u.soon = <<>> THEN u.active = "lobby" ELSE Last(u.soon) = Committing("lobby")
  <2>1. CASE u.active = "lobby"
    <3>1. ASSUME r # <<>> PROVE Last(r) = Committing("lobby")
      <4>1. Last(r) \in Latest(r) /\ Last(r) \in Entries(r)
        BY <1>2, <3>1, LastIs
      <4>2. Last(r) \in FitSoon /\ Last(r).do = "commit"
        BY <1>2, <1>6, <4>1 DEF Commits, Entries
      <4>3. Last(r).to \in Passing("lobby")
        BY <1>1, <1>2, <1>6, <4>1, <4>2 DEF Led
      <4> QED
        BY <4>2, <4>3, CommitFits DEF Passing
    <3> QED
      BY <1>2, <2>1, <3>1
  <2>2. CASE u.active # "lobby"
    <3>1. Committing("lobby") \in FitSoon
      BY <1>3, CommittingIs
    <3> QED
      BY <1>2, <2>2, <3>1, AppendIs
  <2> QED
    BY <2>1, <2>2
<1>7. Led(u, s)
  BY <1>1, <1>2, <1>3, <1>6, TurnLed
<1>8. Seen(t, s) => Seen(u, s)
  <2> SUFFICES ASSUME Seen(t, s) PROVE Seen(u, s)
    OBVIOUS
  <2>1. \A b \in Latest(u.soon) : b.do # "commit" => b.snap = s
    BY <1>2, <1>5 DEF Seen
  <2>2. Commits(u.soon) => ~s.started /\ Target(s) = "lobby"
    BY <1>1, <1>5
  <2> QED
    BY <1>2, <2>1, <2>2 DEF Seen
<1>9. Overlays(u, s)
  <2>1. u.phase.kind = "idle" /\ "winner" \in u.dialogs =>
          ~Commits(u.soon) /\ Act(u, s) \in {"hosting", "board"}
    BY <1>1, <1>2, <1>4, <1>5 DEF Overlays
  <2> QED
    BY <1>1, <1>2, <2>1 DEF Overlays
<1> QED
  BY <1>1, <1>2, <1>4, <1>7, <1>8, <1>9 DEF Aim

-----------------------------------------------------------------------------
(* The board has its turn.                                                 *)

\* The overlays that go with the board, by what it is shown for.
Overlaid(w, do, u) ==
  \/ do = "wait" /\ u.dialogs = w.dialogs \cup {"pause"} /\ u.delays = w.delays
  \/ do = "hosting" /\ u.dialogs = w.dialogs \ {"winner", "pause"} /\ u.delays = w.delays
  \/ do = "board" /\ u.dialogs = w.dialogs \ {"winner"} /\ u.delays = Hiding(w)

LEMMA TurnOverlays ==
  ASSUME NEW t \in FitTab, NEW s \in Snap, NEW over, Timely(t, s, over), LobbyFirst(t), Aim(t, s),
         t.phase.stashed = Nothing, NEW a, NEW r, NEW w, Turning(t, s, a, r, w),
         NEW u, u.phase = t.phase, u.host = t.host, Overlaid(w, a.do, u),
         Commits(u.soon) <=> Commits(r)
  PROVE  Overlays(u, s)
<1>1. /\ t.phase.kind # "celebrating" /\ Overlays(t, s)
      /\ Commits(r) => a.do = Act(t, s)
  BY TurnIs
<1>2. Act(u, s) = Act(t, s)
  BY SameAct
<1>3. ASSUME u.phase.kind = "idle", "winner" \in u.dialogs
      PROVE  ~Commits(u.soon) /\ Act(u, s) \in {"hosting", "board"}
  <2>1. a.do = "wait" /\ "winner" \in t.dialogs
    BY <1>3 DEF Overlaid, Turning
  <2>2. Act(t, s) \in {"hosting", "board"}
    BY <1>1, <1>3, <2>1 DEF Overlays
  <2> QED
    BY <1>1, <1>2, <2>1, <2>2
<1>4. ASSUME "pause" \in u.dialogs, Commits(u.soon)
      PROVE  s.paused \/ "hidePaused" \in u.delays
  <2>1. CASE a.do = "wait"
    <3>1. Act(t, s) = "wait"
      BY <1>1, <1>4, <2>1
    <3> QED
      BY <3>1, ActIs
  <2>2. CASE a.do = "board"
    <3>1. "pause" \in w.dialogs /\ u.delays = Hiding(w)
      BY <1>4, <2>2 DEF Overlaid
    <3> QED
      BY <3>1 DEF Hiding
  <2>3. a.do # "hosting" /\ a.do \in {"wait", "board"}
    BY <1>4 DEF Overlaid
  <2> QED
    BY <2>1, <2>2, <2>3
<1> QED
  BY <1>1, <1>3, <1>4 DEF Overlays

\* The board comes up.
LEMMA BoardTurnAim ==
  ASSUME NEW t \in FitTab, NEW s, Real(s), NEW over, Timely(t, s, over), LobbyFirst(t),
         Aim(t, s), t.phase.stashed = Nothing, NEW a, NEW r, NEW w, Turning(t, s, a, r, w),
         a.do # "lobby", NEW u, Boarded(w, a.snap, u), Overlaid(w, a.do, u)
  PROVE  Aim(u, s)
<1>0. s \in Snap
  BY DEF Real
<1>1. /\ t.phase.kind # "celebrating" /\ Led(t, s) /\ Act(t, s) # "none"
      /\ Commits(r) /\ ~Held(t) => a.snap = s
      /\ Target(s) = "game" /\ (~s.started => a.do = "lobby")
      /\ AwaitsRollFrame(t.phase) => MyDiceKey(a.snap) = MyDiceKey(s)
  BY <1>0, TurnIs
<1>2. /\ u \in FitTab /\ u.phase = t.phase /\ u.timers = t.timers /\ u.host = t.host
      /\ u.key = MyDiceKey(a.snap) /\ u.cur = a.snap /\ u.intros = <<>> /\ u.active = t.active
      /\ r \in Seq(FitSoon) /\ Latest(r) \subseteq Latest(t.soon)
      /\ Entries(r) \subseteq Entries(t.soon)
      /\ u.soon = IF u.active = "game" THEN r ELSE Append(r, Committing("game"))
  BY DEF Turning, SameRoll, Boarded
<1>3. More(r, "game", u.soon) /\ "game" \in Screens /\ "game" \in Passing(Target(s))
  BY <1>1, <1>2 DEF More, Screens, Passing
<1>4. Held(u) <=> Held(t)
  BY <1>2, SettledTells DEF SameRoll
<1>5. /\ Commits(u.soon) <=> Commits(r)
      /\ \A b \in Latest(u.soon) : b \in Latest(r) \/ (b.do = "commit" /\ b.to = "game")
  BY <1>2, <1>3, MoreIs
<1>6. ASSUME Commits(r)
      PROVE  IF u.soon = <<>> THEN u.active = "game" ELSE Last(u.soon) = Committing("game")
  <2>1. u.active = "game" => Committing("lobby") \notin Entries(r)
    BY <1>2 DEF LobbyFirst
  <2>2. \A b \in Latest(r) : b.do = "commit"
    BY <1>6 DEF Commits, Latest, Entries
  <2>3. \A b \in Latest(r) : b.to \in {"lobby", "game"}
    BY <1>1, <1>2, <2>2 DEF Led, Passing
  <2> QED
    BY <1>2, <1>6, <2>1, <2>3, BoardUpAim
<1>7. Led(u, s)
  BY <1>1, <1>2, <1>3, <1>6, TurnLed
<1>8. ASSUME ~Held(t) PROVE Seen(u, s)
  <2>1. Seen(t, s)
    BY <1>1, <1>8 DEF Aim
  <2>2. \A b \in Latest(u.soon) : b.do # "commit" => b.snap = s
    BY <1>2, <1>5, <2>1 DEF Seen
  <2>3. ~s.started => u.cur = s
    BY <1>1
  <2>4. Commits(u.soon) => a.snap = s
    BY <1>1, <1>5, <1>8
  <2>5. ASSUME Commits(u.soon), u.phase.kind = "idle", ~s.paused PROVE u.button = "on"
    <3>1. t.phase.kind = "idle" /\ a.snap = s
      BY <1>2, <2>4, <2>5
    <3>2. /\ u.button = "none" => t.button = "none" /\ MyDiceKey(s) = t.key
          /\ Settled(t.phase) /\ ~s.paused => u.button \in {"none", "on"}
      BY <3>1 DEF Boarded, Turning, SameBoard
    <3>3. u.button \in {"none", "on", "off"}
      BY <1>2, TabHas
    <3> QED
      BY <2>5, <3>1, <3>2, <3>3, DrawnButton
  <2> QED
    BY <1>2, <2>2, <2>3, <2>4, <2>5 DEF Seen
<1>9. Overlays(u, s)
  BY <1>0, <1>2, <1>5, TurnOverlays
<1> QED
  BY <1>1, <1>2, <1>4, <1>7, <1>8, <1>9 DEF Aim

\* The board is kept for the intro.
LEMMA IntroTurnAim ==
  ASSUME NEW t \in FitTab, NEW s, Real(s), NEW over, Timely(t, s, over), LobbyFirst(t),
         Aim(t, s), t.phase.stashed = Nothing, NEW a, NEW r, NEW w, Turning(t, s, a, r, w),
         a.do = "board", NEW u, Introduced(w, a.snap, u), Overlaid(w, a.do, u)
  PROVE  Aim(u, s)
<1>0. s \in Snap
  BY DEF Real
<1>1. /\ t.phase.kind # "celebrating" /\ Led(t, s) /\ Act(t, s) # "none"
      /\ Commits(r) => Act(t, s) = "board"
      /\ Commits(r) /\ ~Held(t) => a.snap = s
      /\ ~s.started => a.do = "lobby"
      /\ AwaitsRollFrame(t.phase) => t.key = MyDiceKey(s)
  BY <1>0, TurnIs
<1>2. /\ u.phase = t.phase /\ u.timers = t.timers /\ u.host = t.host
      /\ u.key = t.key /\ u.intros = Append(<<>>, a.snap) /\ u.soon = r
      /\ r \in Seq(FitSoon) /\ Latest(r) \subseteq Latest(t.soon)
  BY DEF Turning, SameRoll, SameBoard, Introduced
<1>3. u.intros # <<>> /\ Last(u.intros) = a.snap
  BY <1>2 DEF Last
<1>4. Held(u) <=> Held(t)
  BY <1>2, SettledTells DEF SameRoll
<1>5. More(r, "game", u.soon) /\ "game" \in Screens
  BY <1>2 DEF More, Screens
<1>6. Led(u, s)
  BY <1>1, <1>2, <1>3, <1>5, TurnLed
<1>7. ASSUME ~Held(t) PROVE Seen(u, s)
  <2>1. Seen(t, s)
    BY <1>1, <1>7 DEF Aim
  <2> QED
    BY <1>1, <1>2, <1>3, <1>7, <2>1 DEF Seen
<1>8. Overlays(u, s)
  BY <1>0, <1>2, TurnOverlays
<1> QED
  BY <1>1, <1>2, <1>4, <1>6, <1>7, <1>8 DEF Aim

LEMMA RanAim ==
  ASSUME NEW t \in FitTab, NEW s, Real(s), NEW over, Timely(t, s, over), First(t),
         ~t.skipped => Aim(t, s), NEW i \in DOMAIN t.soon, t.soon[i] \in FitSoon,
         NEW u, Ran(t, i, u), ~u.skipped
  PROVE  Aim(u, s)
<1> DEFINE a == t.soon[i]
<1>0. s \in Snap /\ t.soon \in Seq(FitSoon) /\ a \in Entries(t.soon)
  BY SoonIs DEF Real, Entries
<1>1. PICK v : /\ Removed(t, i, v)
               /\ \/ /\ a.do = "commit" /\ a.to \in Screens
                     /\ u = Commit(v, a.to)
                  \/ /\ a.do # "commit"
                     /\ \E w : Marked(v, t.intros # <<>>, w) /\ u = Later(w, a)
  BY DEF Ran
<1>2. CASE a.do = "commit" /\ a.to \in Screens /\ u = Commit(v, a.to)
  <2>1. v \in FitTab
    BY <1>1 DEF Removed, Relieved
  <2>2. /\ Relieved(v, u) /\ u.soon = v.soon /\ u.intros = v.intros /\ u.active = a.to
    BY <1>2, <2>1, CommitIs
  <2>3. ~t.skipped
    BY <1>1, <2>2 DEF Removed, Relieved
  <2>4. InTurn(t.soon, i)
    BY DEF Ran
  <2> QED
    BY <1>1, <1>2, <2>2, <2>3, <2>4, CommittedAim
<1>3. CASE a.do # "commit" /\ \E w : Marked(v, t.intros # <<>>, w) /\ u = Later(w, a)
  <2>1. PICK w : Marked(v, t.intros # <<>>, w) /\ u = Later(w, a)
    BY <1>3
  <2>2. a.do \in {"lobby", "wait", "hosting", "board"}
    BY <1>0, <1>3 DEF Timely, Stays
  <2>3. InTurn(t.soon, i)
    BY DEF Ran
  <2>4. /\ v.soon \in Seq(FitSoon) /\ Latest(v.soon) \subseteq Latest(t.soon)
        /\ Entries(v.soon) \subseteq Entries(t.soon)
        /\ Commits(v.soon) => a \in Latest(t.soon)
    BY <1>0, <1>1, <2>3, TakeIs DEF Removed
  <2>5. w \in FitTab /\ a \in FitSoon
    BY <2>1 DEF Marked, Same
  <2> HIDE DEF a
  <2>6. \/ /\ a.do = "lobby"
           /\ \E y : /\ Same(w, y) /\ y.dialogs = w.dialogs \ {"pause"}
                     /\ y.delays = w.delays /\ y.skipped = w.skipped
                     /\ Swapped(y, "lobby", u)
        \/ /\ a.do # "lobby" /\ Boarded(w, a.snap, u) /\ Overlaid(w, a.do, u)
        \/ /\ a.do = "board" /\ Introduced(w, a.snap, u) /\ Overlaid(w, a.do, u)
    BY <2>1, <2>2, <2>5, LaterIs DEF Overlaid
  <2>7. u.skipped = w.skipped
    BY <2>6 DEF Swapped, Boarded, Introduced
  <2>8. ~t.skipped /\ t.intros = <<>>
    BY <1>1, <2>1, <2>7 DEF Marked, Removed, Relieved
  <2>9. Turning(t, s, a, v.soon, w)
    <3>1. w.soon = v.soon /\ w.intros = <<>> /\ w.active = t.active
      BY <1>1, <2>1, <2>8 DEF Marked, Same, Removed, SameQueue
    <3>2. /\ w.phase = t.phase /\ w.timers = t.timers /\ w.host = t.host
          /\ w.delays = t.delays /\ w.dialogs = t.dialogs /\ w.cur = t.cur
          /\ w.button = t.button /\ SameBoard(t, w)
      BY <1>1, <2>1 DEF Marked, Same, Removed, Relieved, SameRoll, SameBoard, SamePage
    <3> QED
      BY <1>0, <2>2, <2>4, <2>5, <3>1, <3>2 DEF Turning
  <2>10. CASE t.phase.stashed # Nothing
    <3>1. w.phase = t.phase
      BY <2>9 DEF Turning
    <3>2. u.phase = w.phase
      BY <2>6 DEF Swapped, Same, Boarded, Introduced, SameRoll
    <3> QED
      BY <2>8, <2>10, <3>1, <3>2 DEF Aim
  <2>11. CASE t.phase.stashed = Nothing
    <3>1. Aim(t, s) /\ LobbyFirst(t)
      BY <2>8 DEF First
    <3>2. ASSUME a.do = "lobby", NEW y, Same(w, y), y.dialogs = w.dialogs \ {"pause"},
                 y.delays = w.delays, Swapped(y, "lobby", u)
          PROVE  Aim(u, s)
      <4>1. /\ u \in FitTab /\ SameRoll(w, u) /\ SameBoard(w, u) /\ u.host = w.host
            /\ u.cur = w.cur /\ u.button = w.button /\ u.intros = w.intros
            /\ u.active = w.active /\ u.delays = w.delays
            /\ u.dialogs = w.dialogs \ {"pause"}
        BY <3>2 DEF Same, Swapped, SameRoll, SameBoard, SameQueue, SamePage
      <4>2. u.soon = IF w.active = "lobby" THEN v.soon ELSE Append(v.soon, Committing("lobby"))
        BY <2>9, <3>2 DEF Same, Swapped, SameQueue, Turning
      <4> QED
        BY <2>9, <2>11, <3>1, <3>2, <4>1, <4>2, LobbyTurnAim
    <3>3. ASSUME a.do # "lobby", Boarded(w, a.snap, u), Overlaid(w, a.do, u)
          PROVE  Aim(u, s)
      BY <2>9, <2>11, <3>1, <3>3, BoardTurnAim
    <3>4. ASSUME a.do = "board", Introduced(w, a.snap, u), Overlaid(w, a.do, u)
          PROVE  Aim(u, s)
      BY <2>9, <2>11, <3>1, <3>4, IntroTurnAim
    <3> QED
      BY <2>6, <3>2, <3>3, <3>4
  <2> QED
    BY <2>10, <2>11
<1> QED
  BY <1>1, <1>2, <1>3

-----------------------------------------------------------------------------
(* What was passed stays passed.                                           *)

LEMMA RunRevealSkips ==
  ASSUME NEW t \in FitTab, t.phase.kind = "revealing", t.skipped
  PROVE  RunReveal(t).skipped
<1>1. CASE t.loose # 0 /\ t.phase.snap.round = t.round
  <2>1. Begun(t, RunReveal(t))
    BY <1>1, RunRevealIs
  <2> DEFINE u == RunReveal(t)
  <2> HIDE DEF u
  <2>2. Begun(t, u) => u.skipped
    BY DEF Begun
  <2> QED
    BY <2>1, <2>2 DEF u
<1>2. CASE t.loose = 0 \/ t.phase.snap.round # t.round
  <2>1. PICK v : Redrawn(t, v) /\ RunReveal(t) = Complete(v)
    BY <1>2, RunRevealIs
  <2>2. v \in FitTab /\ v.phase.kind = "revealing" /\ v.skipped
    BY <2>1 DEF Redrawn, Revealing
  <2> QED
    BY <2>1, <2>2, CompleteSkips
<1> QED
  BY <1>1, <1>2

LEMMA TimersSkip ==
  ASSUME NEW t \in FitTab, HasTimer(t), t.skipped, t.cur \in Snap
  PROVE  /\ "pump" \in t.timers => Pump(t).skipped
         /\ t.phase.kind = "revealing" => RevealTimer(t).skipped /\ PopTimer(t).skipped
<1>1. ASSUME "pump" \in t.timers PROVE Pump(t).skipped
  <2> DEFINE u == Pump(t)
  <2>1. ASSUME Turned(t, u) PROVE u.skipped
    <3> HIDE DEF u
    <3> QED
      BY <2>1 DEF Turned
  <2>2. ASSUME NEW v, Turned(t, v), v.phase.kind = "revealing", u = RunReveal(v) PROVE u.skipped
    <3>1. v \in FitTab /\ v.skipped
      BY <2>2 DEF Turned
    <3> HIDE DEF u
    <3> QED
      BY <2>2, <3>1, RunRevealSkips
  <2>3. ASSUME NEW v, Turned(t, v), u = Unstick(v) PROVE u.skipped
    <3>1. v \in FitTab /\ v.skipped /\ v.cur \in Snap
      BY <2>3 DEF Turned
    <3> HIDE DEF u
    <3> QED
      BY <2>3, <3>1, UnstickIs
  <2>4. u.skipped
    BY <1>1, <2>1, <2>2, <2>3, PumpIs
  <2> QED
    BY <2>4 DEF u
<1>2. ASSUME t.phase.kind = "revealing" PROVE RevealTimer(t).skipped
  <2> DEFINE u == RevealTimer(t)
  <2>1. ASSUME NEW v, Faced(t, v) PROVE v \in FitTab /\ v.phase.kind = "revealing" /\ v.skipped
    BY <1>2, <2>1 DEF Faced
  <2>2. \/ Faced(t, u)
        \/ \E v : Faced(t, v) /\ u = Complete(v)
    BY <1>2, RevealTimerIs
  <2> HIDE DEF u
  <2>3. u.skipped
    BY <2>1, <2>2, CompleteSkips
  <2> QED
    BY <2>3 DEF u
<1>3. ASSUME t.phase.kind = "revealing" PROVE PopTimer(t).skipped
  <2>1. PICK v : v \in FitTab /\ v.phase = t.phase /\ v.skipped = t.skipped
                 /\ PopTimer(t) = Complete(v)
    BY <1>3, PopTimerIs
  <2> QED
    BY <1>3, <2>1, CompleteSkips
<1> QED
  BY <1>1, <1>2, <1>3

LEMMA RanSkips ==
  ASSUME NEW t \in FitTab, t.skipped, NEW i \in DOMAIN t.soon, t.soon[i] \in FitSoon,
         t.soon[i].do \in {"commit", "lobby", "wait", "hosting", "board"}, NEW u, Ran(t, i, u)
  PROVE  u.skipped
<1> DEFINE a == t.soon[i]
<1>1. PICK v : /\ Removed(t, i, v)
               /\ \/ /\ a.do = "commit" /\ a.to \in Screens
                     /\ u = Commit(v, a.to)
                  \/ /\ a.do # "commit"
                     /\ \E w : Marked(v, t.intros # <<>>, w) /\ u = Later(w, a)
  BY DEF Ran
<1>2. v \in FitTab /\ v.skipped
  BY <1>1 DEF Removed, Relieved
<1>3. CASE a.do = "commit" /\ a.to \in Screens /\ u = Commit(v, a.to)
  BY <1>2, <1>3, CommitIs DEF Relieved
<1>4. CASE a.do # "commit" /\ \E w : Marked(v, t.intros # <<>>, w) /\ u = Later(w, a)
  <2>1. PICK w : Marked(v, t.intros # <<>>, w) /\ u = Later(w, a)
    BY <1>4
  <2>2. w \in FitTab /\ a \in FitSoon /\ w.skipped
    BY <1>2, <2>1 DEF Marked, Same
  <2>3. a.do \in {"lobby", "wait", "hosting", "board"}
    BY <1>4
  <2> HIDE DEF a
  <2>4. \/ \E y : Same(w, y) /\ y.skipped = w.skipped /\ Swapped(y, "lobby", u)
        \/ Boarded(w, a.snap, u)
        \/ Introduced(w, a.snap, u)
    BY <2>1, <2>2, <2>3, LaterIs
  <2> QED
    BY <2>2, <2>4 DEF Swapped, Boarded, Introduced
<1> QED
  BY <1>1, <1>3, <1>4

-----------------------------------------------------------------------------
(* The invariant of the whole.                                             *)

\* The page in a game that goes on.
Lively(t, g) == Real(g.snap) /\ Home(t, g.snap, g.over) /\ First(t)

\* With the socket open the game goes on, and the last frame is of now.
Told == net = "open" /\ ~tab.skipped => last = game.snap /\ Aim(tab, last)

RollInv ==
  /\ net = "open" => game.on
  /\ game.on => net # "closed" /\ Lively(tab, game)
  /\ Told

\* The game has gone on, and the page knows nothing of it.
LEMMA GrownLively ==
  ASSUME NEW t \in FitTab, NEW g, Lively(t, g), NEW h, Grows(g.snap, g.over, h.snap, h.over)
  PROVE  Lively(t, h)
BY GrowsHome DEF Lively, Grows

\* The page has done something of its own.
LEMMA PageStep ==
  ASSUME RollInv, game' = game, net' = net, last' = last,
         game.on => /\ Lively(tab', game)
                    /\ tab.skipped => tab'.skipped
                    /\ ~tab'.skipped /\ (~tab.skipped => Aim(tab, game.snap)) =>
                         Aim(tab', game.snap)
  PROVE  RollInv'
<1>1. Told'
  <2> SUFFICES ASSUME net = "open", ~tab'.skipped PROVE last = game.snap /\ Aim(tab', last)
    BY DEF Told
  <2>1. game.on
    BY DEF RollInv
  <2>2. ~tab.skipped
    BY <2>1
  <2> QED
    BY <2>1, <2>2 DEF RollInv, Told
<1> QED
  BY <1>1 DEF RollInv

\* A state frame.
LEMMA StateStep ==
  ASSUME RollInv, Sound(tab), game.on, NEW g, game' = g, g.on,
         Grows(game.snap, game.over, g.snap, g.over), Follows(game.snap, g.snap),
         net' = net, Deliver(g.snap, HandleState(tab, g.snap))
  PROVE  RollInv'
<1> DEFINE s == g.snap
<1>1. tab \in FitTab /\ HasTimer(tab) /\ Real(s) /\ s \in Snap /\ game.snap \in Snap
  BY DEF Sound, Grows, Real
<1>2. Lively(tab, game) /\ net # "closed"
  BY DEF RollInv
<1>3. Lively(tab, g)
  BY <1>1, <1>2, GrownLively
<1>4. CASE net # "open"
  BY <1>2, <1>3, <1>4 DEF RollInv, Told, Deliver
<1>5. CASE net = "open"
  <2>1. tab' = HandleState(tab, s) /\ last' = s
    BY <1>5 DEF Deliver
  <2>2. Home(tab, s, g.over) /\ Timely(tab, s, g.over) /\ First(tab)
    BY <1>3 DEF Lively, Home
  <2>3. Handled(tab, s, tab')
    BY <1>1, <2>1, <2>2, HandledIs
  <2>4. Home(tab', s, g.over)
    BY <1>1, <2>1, <2>2, HandleStateHome
  <2>5. First(tab')
    <3>1. CASE s.started
      BY <1>1, <2>2, <2>3, <3>1, HandledFirst
    <3>2. CASE ~s.started
      <4>1. tab' \in FitTab
        BY <1>1, <2>1, HandleStateSound DEF Sound
      <4>2. Unstarted(tab', s)
        BY <2>4 DEF Home, Timely
      <4> QED
        BY <3>2, <4>1, <4>2, UnstartedFirst DEF First
    <3> QED
      BY <3>1, <3>2
  <2>6. ~tab'.skipped => Aim(tab', s)
    <3>1. ~tab.skipped => Aim(tab, game.snap)
      BY <1>5 DEF RollInv, Told
    <3>2. Timely(tab, game.snap, game.over)
      BY <1>2 DEF Lively, Home
    <3> QED
      BY <1>1, <2>2, <2>3, <3>1, <3>2, HandledAim
  <2> QED
    BY <1>1, <1>5, <2>1, <2>4, <2>5, <2>6 DEF RollInv, Told, Lively
<1> QED
  BY <1>4, <1>5

\* The frame of a round that is over.
LEMMA WonStep ==
  ASSUME RollInv, Sound(tab), game.on, NEW g, game' = g, g.on, g.snap.started,
         g.over = "announced", Grows(game.snap, game.over, g.snap, g.over),
         g.snap.started <=> game.snap.started, g.snap.paused <=> game.snap.paused,
         g.snap.down <=> game.snap.down,
         NEW mine \in BOOLEAN, mine => g.snap.hits = Dice,
         net' = net, Deliver(g.snap, HandleRoundWon(tab, g.snap, mine))
  PROVE  RollInv'
<1> DEFINE s == g.snap
<1>1. tab \in FitTab /\ HasTimer(tab) /\ Real(s) /\ s \in Snap /\ game.snap \in Snap
  BY DEF Sound, Grows, Real
<1>2. Lively(tab, game) /\ net # "closed"
  BY DEF RollInv
<1>3. Lively(tab, g)
  BY <1>1, <1>2, GrownLively
<1>4. CASE net # "open"
  BY <1>2, <1>3, <1>4 DEF RollInv, Told, Deliver
<1>5. CASE net = "open"
  <2>1. tab' = HandleRoundWon(tab, s, mine) /\ last' = s
    BY <1>5 DEF Deliver
  <2>2. Home(tab, s, "announced") /\ First(tab)
    BY <1>3 DEF Lively
  <2>3. RoundWon(tab, s, mine, tab')
    BY <1>1, <2>1, RoundWonHandled
  <2>4. Home(tab', s, "announced")
    BY <1>1, <2>1, <2>2, RoundWonHome
  <2>5. First(tab')
    BY <1>1, <2>2, <2>3, RoundWonFirst
  <2>6. ~tab'.skipped => Aim(tab', s)
    <3>1. ~tab.skipped => Aim(tab, game.snap)
      BY <1>5 DEF RollInv, Told
    <3> QED
      BY <1>1, <2>3, <3>1, RoundWonAim
  <2> QED
    BY <1>1, <1>5, <2>1, <2>4, <2>5, <2>6 DEF RollInv, Told, Lively
<1> QED
  BY <1>4, <1>5

\* A frame that never arrives.
LEMMA LostStep ==
  ASSUME RollInv, Sound(tab), game.on, NEW g, game' = g, g.on,
         Grows(game.snap, game.over, g.snap, g.over),
         net' = net, tab' = Passed(tab, TRUE)
  PROVE  RollInv'
<1>1. tab \in FitTab
  BY DEF Sound
<1>2. Lively(tab, g) /\ net # "closed" /\ g.snap \in Snap
  BY <1>1, GrownLively DEF RollInv, Grows, Real
<1>3. Marked(tab, TRUE, tab')
  BY <1>1, MarkIs
<1>4. Home(tab', g.snap, g.over)
  BY <1>1, <1>2, <1>3, MarkedHome DEF Lively
<1>5. tab'.skipped /\ First(tab')
  BY <1>3 DEF Marked, First
<1> QED
  BY <1>2, <1>4, <1>5 DEF RollInv, Told, Lively

\* Something of the game that no frame tells.
LEMMA QuietStep ==
  ASSUME RollInv, Sound(tab), game.on, NEW g, game' = g, g.on, g.snap = game.snap,
         Grows(game.snap, game.over, g.snap, g.over),
         net' = net, tab' = tab, last' = last
  PROVE  RollInv'
<1>1. tab \in FitTab
  BY DEF Sound
<1>2. Lively(tab, g) /\ net # "closed"
  BY <1>1, GrownLively DEF RollInv
<1> QED
  BY <1>2 DEF RollInv, Told

LEMMA SameStep ==
  ASSUME RollInv, game' = game, net' = net, tab' = tab, last' = last
  PROVE  RollInv'
BY DEF RollInv, Told

-----------------------------------------------------------------------------
(* Every step.                                                             *)

\* The game as it is after a change of its snapshot.
LEMMA SnapTold ==
  ASSUME GameFits, NEW s \in Snap
  PROVE  LET g == [game EXCEPT !.snap = s]
         IN  g.snap = s /\ g.over = game.over /\ g.on = game.on
BY DEF GameFits, Game

LEMMA SnapBecomes ==
  ASSUME NEW s \in Snap, NEW b \in BOOLEAN
  PROVE  /\ MyDiceKey([s EXCEPT !.started = b]) = MyDiceKey(s)
         /\ [s EXCEPT !.started = b].round = s.round /\ [s EXCEPT !.started = b].rolls = s.rolls
         /\ [s EXCEPT !.started = b].hits = s.hits /\ [s EXCEPT !.started = b].started = b
         /\ MyDiceKey([s EXCEPT !.paused = b]) = MyDiceKey(s)
         /\ [s EXCEPT !.paused = b].round = s.round /\ [s EXCEPT !.paused = b].rolls = s.rolls
         /\ [s EXCEPT !.paused = b].hits = s.hits
         /\ [s EXCEPT !.paused = b].started = s.started
         /\ MyDiceKey([s EXCEPT !.down = b]) = MyDiceKey(s)
         /\ [s EXCEPT !.down = b].round = s.round /\ [s EXCEPT !.down = b].rolls = s.rolls
         /\ [s EXCEPT !.down = b].hits = s.hits /\ [s EXCEPT !.down = b].started = s.started
BY DEF Snap, MyDiceKey

\* Nothing about rounds and dice has changed.
LEMMA EvenGrows ==
  ASSUME NEW s, Real(s), NEW next \in Snap, next.round = s.round, next.rolls = s.rolls,
         next.hits = s.hits, s.started => next.started,
         NEW over, NEW then, over = "announced" => then = "announced"
  PROVE  Grows(s, over, next, then)
<1>1. s \in Snap /\ s.round \in Nat /\ s.rolls \in Nat /\ s.hits \in Nat
  BY KeyOf DEF Real
<1> QED
  BY <1>1 DEF Grows, Real

LEMMA GoesOn == ASSUME RollInv, game.on PROVE Real(game.snap) /\ net # "closed"
BY DEF RollInv, Lively

\* A change of the snapshot that a frame tells at once.
LEMMA ChangeStep ==
  ASSUME PageInv, RollInv, game.on, NEW s \in Snap, game' = [game EXCEPT !.snap = s],
         s.round = game.snap.round, s.rolls = game.snap.rolls, s.hits = game.snap.hits,
         game.snap.started => s.started, MyDiceKey(s) = MyDiceKey(game.snap),
         net' = net, Deliver(game'.snap, HandleState(tab, game'.snap))
  PROVE  RollInv'
<1> DEFINE g == [game EXCEPT !.snap = s]
<1>1. GameFits /\ Sound(tab)
  BY DEF PageInv
<1>2. game' = g
  OBVIOUS
<1>3. g.snap = s /\ g.over = game.over /\ g.on
  BY <1>1, SnapTold
<1> HIDE DEF g
<1>4. Grows(game.snap, game.over, g.snap, g.over)
  BY <1>3, GoesOn, EvenGrows
<1>5. Follows(game.snap, g.snap)
  BY <1>3 DEF Follows
<1>6. Deliver(g.snap, HandleState(tab, g.snap))
  BY <1>2
<1> QED
  BY <1>1, <1>2, <1>3, <1>4, <1>5, <1>6, StateStep

LEMMA SameGrows ==
  ASSUME PageInv, RollInv, game.on, NEW then, game.over = "announced" => then = "announced"
  PROVE  Grows(game.snap, game.over, game.snap, then)
BY GoesOn, EvenGrows DEF Real

LEMMA OthersStep ==
  ASSUME PageInv, RollInv, Start \/ OthersRoll \/ OthersWin \/ OthersLeave \/ OthersReturn
  PROVE  RollInv'
<1>1. GameFits /\ game.snap \in Snap /\ Sound(tab)
  BY GameHas DEF PageInv
<1> DEFINE started == [game.snap EXCEPT !.started = TRUE]
           left == [game.snap EXCEPT !.down = TRUE]
           back == [game.snap EXCEPT !.down = FALSE]
<1>2. started \in Snap /\ left \in Snap /\ back \in Snap
  BY <1>1, SnapFits
<1>3. CASE Start
  <2>1. game' = [game EXCEPT !.snap = started] /\ game.on /\ net' = net
        /\ Deliver(game'.snap, HandleState(tab, game'.snap))
    BY <1>3 DEF Start
  <2>2. /\ started.round = game.snap.round /\ started.rolls = game.snap.rolls
        /\ started.hits = game.snap.hits /\ started.started
        /\ MyDiceKey(started) = MyDiceKey(game.snap)
    BY <1>1, SnapBecomes
  <2> HIDE DEF started
  <2> QED
    BY <1>2, <2>1, <2>2, ChangeStep
<1>4. CASE OthersLeave
  <2>1. game' = [game EXCEPT !.snap = left] /\ game.on /\ net' = net
        /\ Deliver(game'.snap, HandleState(tab, game'.snap))
    BY <1>4 DEF OthersLeave, Live
  <2>2. /\ left.round = game.snap.round /\ left.rolls = game.snap.rolls
        /\ left.hits = game.snap.hits /\ left.started = game.snap.started
        /\ MyDiceKey(left) = MyDiceKey(game.snap)
    BY <1>1, SnapBecomes
  <2> HIDE DEF left
  <2> QED
    BY <1>2, <2>1, <2>2, ChangeStep
<1>5. CASE OthersReturn
  <2>1. game' = [game EXCEPT !.snap = back] /\ game.on /\ net' = net
        /\ Deliver(game'.snap, HandleState(tab, game'.snap))
    BY <1>5 DEF OthersReturn, Live
  <2>2. /\ back.round = game.snap.round /\ back.rolls = game.snap.rolls
        /\ back.hits = game.snap.hits /\ back.started = game.snap.started
        /\ MyDiceKey(back) = MyDiceKey(game.snap)
    BY <1>1, SnapBecomes
  <2> HIDE DEF back
  <2> QED
    BY <1>2, <2>1, <2>2, ChangeStep
<1>6. CASE OthersRoll
  <2>1. game' = game /\ game.on /\ net' = net /\ Deliver(game.snap, HandleState(tab, game.snap))
    BY <1>6 DEF OthersRoll, Live
  <2>2. Follows(game.snap, game.snap) /\ Grows(game.snap, game.over, game.snap, game.over)
    BY <2>1, SameGrows DEF Follows
  <2> QED
    BY <1>1, <2>1, <2>2, StateStep
<1>7. CASE OthersWin
  <2>1. game' = [game EXCEPT !.over = "won"] /\ game.on /\ net' = net /\ tab' = tab
        /\ last' = last /\ game.over = "no"
    BY <1>7 DEF OthersWin, Live
  <2>2. game'.snap = game.snap /\ game'.on = game.on
    BY <1>1, <2>1 DEF GameFits, Game
  <2>3. Grows(game.snap, game.over, game'.snap, game'.over)
    BY <2>1, <2>2, SameGrows
  <2> QED
    BY <1>1, <2>1, <2>2, <2>3, QuietStep
<1> QED
  BY <1>3, <1>4, <1>5, <1>6, <1>7

\* A roll that is not to be: paused, or too fast.
LEMMA ErrorStep ==
  ASSUME PageInv, RollInv, game.on, game.over = "no", game' = game, net' = net,
         Deliver(last, HandleError(tab))
  PROVE  RollInv'
<1>1. CASE net # "open"
  BY <1>1, SameStep DEF Deliver
<1>2. CASE net = "open"
  <2>1. tab' = HandleError(tab) /\ last' = last
    BY <1>2 DEF Deliver
  <2>2. tab \in FitTab /\ Lively(tab, game) /\ game.snap \in Snap
    BY DEF PageInv, Sound, RollInv, Lively, Real
  <2>3. Timely(tab, game.snap, game.over)
    BY <2>2 DEF Lively, Home
  <2>4. Rejected(tab, tab')
    BY <2>1, <2>2, <2>3, TimelyHas, ErrorIs
  <2>5. Lively(tab', game)
    BY <2>1, <2>2, <2>4, ErrorHome, RejectedFirst DEF Lively
  <2>6. tab.skipped => tab'.skipped
    BY <2>4 DEF Rejected
  <2>7. ASSUME ~tab'.skipped, ~tab.skipped => Aim(tab, game.snap) PROVE Aim(tab', game.snap)
    BY <2>2, <2>3, <2>4, <2>7, RejectedAim
  <2> QED
    BY <2>1, <2>5, <2>6, <2>7, PageStep
<1> QED
  BY <1>1, <1>2

LEMMA ServeRollStep ==
  ASSUME PageInv, RollInv, ServeRoll
  PROVE  RollInv'
<1>0. net' = net /\ GameFits /\ game.snap \in Snap /\ Sound(tab)
  BY GameHas DEF ServeRoll, PageInv
<1>1. CASE UNCHANGED <<game, tab, last>>
  BY <1>0, <1>1, SameStep
<1>2. CASE Live /\ game.over = "no" /\ Deliver(last, HandleError(tab)) /\ UNCHANGED game
  BY <1>0, <1>2, ErrorStep DEF Live
<1>3. CASE /\ Live /\ game.over # "announced"
           /\ \E hits \in game.snap.hits..Dice :
                LET s == [game.snap EXCEPT !.rolls = @ + 1, !.hits = hits]
                IN  IF hits = Dice /\ game.over = "no"
                    THEN /\ game' = [game EXCEPT !.snap = s, !.over = "announced"]
                         /\ Deliver(s, HandleRoundWon(tab, s, TRUE))
                    ELSE /\ game' = [game EXCEPT !.snap = s]
                         /\ Deliver(s, HandleState(tab, s))
  <2>1. PICK hits \in game.snap.hits..Dice :
             LET s == [game.snap EXCEPT !.rolls = game.snap.rolls + 1, !.hits = hits]
             IN  IF hits = Dice /\ game.over = "no"
                 THEN /\ game' = [game EXCEPT !.snap = s, !.over = "announced"]
                      /\ Deliver(s, HandleRoundWon(tab, s, TRUE))
                 ELSE /\ game' = [game EXCEPT !.snap = s]
                      /\ Deliver(s, HandleState(tab, s))
    BY <1>3
  <2> DEFINE s == [game.snap EXCEPT !.rolls = game.snap.rolls + 1, !.hits = hits]
  <2>2. \/ /\ hits = Dice /\ game' = [game EXCEPT !.snap = s, !.over = "announced"]
           /\ Deliver(s, HandleRoundWon(tab, s, TRUE))
        \/ /\ game' = [game EXCEPT !.snap = s]
           /\ Deliver(s, HandleState(tab, s))
    BY <2>1
  <2>3. hits \in 0..Dice /\ game.snap.rolls + 1 \in Nat /\ game.snap.hits <= hits
    BY <1>0, GameHas, DiceAssumption
  <2>4. s \in Snap
    BY <1>0, <2>3, SnapFits
  <2>5. /\ s.round = game.snap.round /\ s.rolls = game.snap.rolls + 1 /\ s.hits = hits
        /\ s.started = game.snap.started /\ s.paused = game.snap.paused
        /\ s.down = game.snap.down
    BY <1>0 DEF Snap
  <2> HIDE DEF s
  <2>6. game.on /\ Real(game.snap) /\ s.started
    BY <1>3, <2>5, GoesOn DEF Live
  <2>7. \A then : Grows(game.snap, game.over, s, then)
    <3>1. /\ Real(s) /\ s.round = game.snap.round /\ game.snap.rolls <= s.rolls
          /\ game.snap.hits <= s.hits /\ game.snap.rolls # s.rolls
      BY <1>0, <2>3, <2>4, <2>5, <2>6, KeyOf DEF Real
    <3> QED
      BY <1>0, <1>3, <2>5, <3>1 DEF Grows
  <2>8. CASE hits = Dice /\ game' = [game EXCEPT !.snap = s, !.over = "announced"]
             /\ Deliver(s, HandleRoundWon(tab, s, TRUE))
    <3>1. game'.snap = s /\ game'.over = "announced" /\ game'.on
      BY <1>0, <2>4, <2>6, <2>8 DEF GameFits, Game
    <3>2. s.hits = Dice
      BY <2>5, <2>8
    <3> QED
      BY <1>0, <2>5, <2>6, <2>7, <2>8, <3>1, <3>2, WonStep
  <2>9. CASE game' = [game EXCEPT !.snap = s] /\ Deliver(s, HandleState(tab, s))
    <3>1. game'.snap = s /\ game'.on
      BY <1>0, <2>4, <2>6, <2>9, SnapTold
    <3>2. Follows(game.snap, s)
      BY <2>5 DEF Follows
    <3> QED
      BY <1>0, <2>6, <2>7, <2>9, <3>1, <3>2, StateStep
  <2> QED
    BY <2>2, <2>8, <2>9
<1> QED
  BY <1>1, <1>2, <1>3 DEF ServeRoll

-----------------------------------------------------------------------------
(* Rounds are won and go on.                                               *)

LEMMA NextRoundIs ==
  ASSUME GameFits
  PROVE  /\ NextRound.snap.round = game.snap.round + 1
         /\ NextRound.snap.started = game.snap.started
         /\ NextRound.on = game.on
BY DEF GameFits, Game, Snap, NextRound

LEMMA RoundGrows ==
  ASSUME GameFits, Real(game.snap), NEW next \in Snap, next.round = game.snap.round + 1,
         game.snap.started, next.started
  PROVE  \A over, then : /\ Grows(game.snap, over, next, then)
                         /\ Follows(game.snap, next)
<1>1. game.snap \in Snap /\ game.snap.round \in Nat /\ game.snap.round < next.round
      /\ next.round >= 1
  BY KeyOf DEF Real
<1> QED
  BY <1>1 DEF Grows, Real, Follows

LEMMA AnnounceStep ==
  ASSUME PageInv, RollInv, Announce
  PROVE  RollInv'
<1>0. /\ game.on /\ game.snap.started /\ game.over = "won" /\ net' = net
      /\ game' = [game EXCEPT !.over = "announced"]
      /\ Send(game.snap, HandleRoundWon(tab, game.snap, FALSE))
  BY DEF Announce, Live
<1>1. GameFits /\ game.snap \in Snap /\ Sound(tab)
  BY GameHas DEF PageInv
<1>2. game'.snap = game.snap /\ game'.over = "announced" /\ game'.on
  BY <1>0, <1>1 DEF GameFits, Game
<1>3. Grows(game.snap, game.over, game'.snap, game'.over)
  BY <1>0, <1>2, SameGrows
<1>4. CASE Deliver(game.snap, HandleRoundWon(tab, game.snap, FALSE))
  BY <1>0, <1>1, <1>2, <1>3, <1>4, WonStep
<1>5. CASE tab' = Passed(tab, TRUE)
  BY <1>0, <1>1, <1>2, <1>3, <1>5, LostStep
<1> QED
  BY <1>0, <1>4, <1>5 DEF Send

LEMMA AdvanceStep ==
  ASSUME PageInv, RollInv, Advance
  PROVE  RollInv'
<1>0. GameFits /\ game.snap \in Snap /\ Sound(tab) /\ game.on /\ game.snap.started /\ net' = net
  BY GameHas DEF PageInv, Advance, Live
<1>1. CASE game.snap.paused
  <2>1. game' = [game EXCEPT !.waiting = TRUE] /\ tab' = tab /\ last' = last
    BY <1>1 DEF Advance
  <2>2. game'.snap = game.snap /\ game'.over = game.over /\ game'.on
    BY <1>0, <2>1 DEF GameFits, Game
  <2>3. Grows(game.snap, game.over, game'.snap, game'.over)
    BY <1>0, <2>2, SameGrows
  <2> QED
    BY <1>0, <2>1, <2>2, <2>3, QuietStep
<1>2. CASE ~game.snap.paused
  <2>1. game' = NextRound /\ Send(game'.snap, HandleState(tab, game'.snap))
    BY <1>2 DEF Advance
  <2>2. /\ NextRound.snap \in Snap /\ NextRound.snap.round = game.snap.round + 1
        /\ NextRound.snap.started /\ NextRound.on
    BY <1>0, NextRoundFits, NextRoundIs
  <2>3. /\ Grows(game.snap, game.over, NextRound.snap, NextRound.over)
        /\ Follows(game.snap, NextRound.snap)
    BY <1>0, <2>2, GoesOn, RoundGrows
  <2>4. CASE Deliver(NextRound.snap, HandleState(tab, NextRound.snap))
    BY <1>0, <2>1, <2>2, <2>3, <2>4, StateStep
  <2>5. CASE tab' = Passed(tab, TRUE)
    BY <1>0, <2>1, <2>2, <2>3, <2>5, LostStep
  <2> QED
    BY <2>1, <2>4, <2>5 DEF Send
<1> QED
  BY <1>1, <1>2

\* Whether a game is paused is no part of what its dice are.
LEMMA SnapPaused ==
  ASSUME NEW s \in Snap, NEW b \in BOOLEAN
  PROVE  LET z == [s EXCEPT !.paused = b]
         IN  /\ z \in Snap /\ z.round = s.round /\ z.rolls = s.rolls
             /\ z.hits = s.hits /\ z.started = s.started
             /\ MyDiceKey(z) = MyDiceKey(s)
BY DEF Snap, MyDiceKey

LEMMA PauseStep ==
  ASSUME PageInv, RollInv, Pause
  PROVE  RollInv'
<1> DEFINE g == IF game.snap.paused /\ game.waiting
                THEN [NextRound EXCEPT !.snap.paused = FALSE]
                ELSE [game EXCEPT !.snap.paused = ~@]
           on == [NextRound.snap EXCEPT !.paused = FALSE]
           other == ~game.snap.paused
           turned == [game.snap EXCEPT !.paused = other]
<1>0. /\ GameFits /\ game.snap \in Snap /\ Sound(tab) /\ game.on /\ game.snap.started
      /\ net' = net /\ game' = g /\ Deliver(g.snap, HandleState(tab, g.snap))
  BY GameHas DEF PageInv, Pause, Live
<1>1. CASE game.snap.paused /\ game.waiting
  <2>1. NextRound \in Game /\ NextRound.snap \in Snap
    BY <1>0, NextRoundFits
  <2>2. on \in Snap /\ on.round = NextRound.snap.round /\ on.started = NextRound.snap.started
    BY <2>1, SnapPaused
  <2>3. g = [NextRound EXCEPT !.snap = on]
    BY <1>1
  <2> HIDE DEF on, g
  <2>4. g.snap = on /\ g.on = NextRound.on
    BY <2>1, <2>3 DEF Game
  <2>5. g.on /\ Grows(game.snap, game.over, g.snap, g.over) /\ Follows(game.snap, g.snap)
    BY <1>0, <2>2, <2>4, NextRoundIs, GoesOn, RoundGrows
  <2> QED
    BY <1>0, <2>5, StateStep
<1>2. CASE ~(game.snap.paused /\ game.waiting)
  <2>1. other \in BOOLEAN
    OBVIOUS
  <2>0. game.snap \in Snap
    BY <1>0
  <2>3. g = [game EXCEPT !.snap = turned]
    BY <1>2
  <2> HIDE DEF other, g
  <2>2. /\ turned \in Snap /\ turned.round = game.snap.round /\ turned.rolls = game.snap.rolls
        /\ turned.hits = game.snap.hits /\ turned.started = game.snap.started
        /\ MyDiceKey(turned) = MyDiceKey(game.snap)
    BY <2>0, <2>1, SnapPaused
  <2> HIDE DEF turned
  <2>4. game' = [game EXCEPT !.snap = turned] /\ Deliver(game'.snap, HandleState(tab, game'.snap))
    BY <1>0, <2>3
  <2> QED
    BY <1>0, <2>2, <2>4, ChangeStep
<1> QED
  BY <1>1, <1>2

LEMMA EndsStep ==
  ASSUME RollInv, EndGame \/ PauseTimeout
  PROVE  RollInv'
<1>1. game' = Deleted /\ ~game'.on
  BY DEF EndGame, PauseTimeout, Deleted
<1>2. net' # "open"
  BY DEF EndGame, PauseTimeout, Close
<1> QED
  BY <1>1, <1>2 DEF RollInv, Told

-----------------------------------------------------------------------------
(* The socket.                                                             *)

LEMMA LoseSocketStep ==
  ASSUME PageInv, RollInv, LoseSocket
  PROVE  RollInv'
<1>1. game.on /\ game' = game /\ net' = "lost" /\ tab' = ShowLoading(tab)
  BY DEF LoseSocket, RollInv
<1>2. tab \in FitTab /\ Lively(tab, game) /\ game.snap \in Snap
  BY <1>1 DEF PageInv, Sound, RollInv, Lively, Real
<1>3. Swapped(tab, "loading", tab') /\ Home(tab', game.snap, game.over)
  BY <1>1, <1>2, LoadingHome DEF Lively
<1>4. Lively(tab', game)
  BY <1>2, <1>3, SwappedFirst DEF Lively
<1> QED
  BY <1>1, <1>4 DEF RollInv, Told

LEMMA ReconnectStep ==
  ASSUME PageInv, RollInv, Reconnect
  PROVE  RollInv'
<1>1. CASE ~game.on
  <2>1. game' = game /\ net' = "closed"
    BY <1>1 DEF Reconnect
  <2> QED
    BY <1>1, <2>1 DEF RollInv, Told
<1>2. CASE game.on
  <2> DEFINE s == game.snap
             v == ResetRollState(tab)
  <2>1. /\ game' = game /\ net' = "open" /\ tab' = HandleState(v, s) /\ last' = s
    BY <1>2 DEF Reconnect
  <2>2. tab \in FitTab /\ Lively(tab, game) /\ s \in Snap /\ Real(s)
    BY <1>2 DEF PageInv, Sound, RollInv, Lively, Real
  <2>3. Home(v, s, game.over) /\ Restarted(tab, v)
    BY <2>2, ResetHome, RestartedIs DEF Lively
  <2> HIDE DEF v
  <2>4. v \in FitTab /\ v.phase = Idle /\ v.timers = {} /\ First(v) /\ Timely(v, s, game.over)
    BY <2>2, <2>3, CalmerFirst DEF Restarted, Calmer, Lively, Home
  <2>5. Handled(v, s, tab')
    BY <2>1, <2>2, <2>4, HandledIs
  <2>6. Home(tab', s, game.over)
    BY <2>1, <2>2, <2>3, <2>4, HandleStateHome
  <2>7. First(tab')
    <3>1. CASE s.started
      BY <2>2, <2>4, <2>5, <3>1, HandledFirst
    <3>2. CASE ~s.started
      <4>1. HasTimer(v)
        BY <2>4, IdleIs DEF HasTimer, AwaitingAck, Settled
      <4>2. tab' \in FitTab
        BY <2>1, <2>2, <2>4, <4>1, HandleStateSound DEF Sound
      <4>3. Unstarted(tab', s)
        BY <2>6 DEF Home, Timely
      <4> QED
        BY <3>2, <4>2, <4>3, UnstartedFirst DEF First
    <3> QED
      BY <3>1, <3>2
  <2>8. ~tab'.skipped => Aim(tab', s)
    BY <2>2, <2>4, <2>5, RestartedAim
  <2> QED
    BY <1>2, <2>1, <2>2, <2>6, <2>7, <2>8 DEF RollInv, Told, Lively
<1> QED
  BY <1>1, <1>2

-----------------------------------------------------------------------------
(* The player and the page.                                                *)

LEMMA TapsStep ==
  ASSUME PageInv, RollInv, TapRoll \/ Lever \/ Bolt
  PROVE  RollInv'
<1>0. game' = game /\ net' = net /\ last' = last
  BY DEF TapRoll, Lever, Bolt, Page
<1>1. CASE Lever \/ Bolt
  BY <1>0, <1>1, SameStep DEF Lever, Bolt
<1>2. CASE TapRoll
  <2>1. tab' = Roll(tab) /\ CanRoll(tab) /\ Clear(tab) /\ net = "open"
    BY <1>2 DEF TapRoll, BoardAtHand, Pending, Clear
  <2>2. /\ tab \in FitTab /\ Lively(tab, game) /\ game.snap \in Snap
        /\ Timely(tab, game.snap, game.over) /\ game.on
    BY <2>1 DEF PageInv, Sound, RollInv, Lively, Real, Home
  <2>3. Sent(tab, tab') /\ tab.phase.kind = "idle"
    BY <2>1, <2>2, RollIs DEF CanRoll
  <2>4. Lively(tab', game)
    BY <2>1, <2>2, <2>3, SentHome, SentFirst DEF Lively
  <2>5. tab'.skipped = tab.skipped
    BY <2>3 DEF Sent
  <2>6. Aim(tab, game.snap) => Aim(tab', game.snap)
    BY <2>1, <2>2, <2>3, SentAim
  <2> QED
    BY <1>0, <2>4, <2>5, <2>6, PageStep
<1> QED
  BY <1>1, <1>2

LEMMA TimersStep ==
  ASSUME PageInv, RollInv, Timers
  PROVE  RollInv'
<1>0. game' = game /\ net' = net /\ last' = last
  BY DEF Timers, PumpRoll, SettleDice, LockDice, Fires, Page
<1>1. SUFFICES ASSUME game.on
               PROVE  /\ Lively(tab', game)
                      /\ tab.skipped => tab'.skipped
                      /\ ~tab'.skipped /\ (~tab.skipped => Aim(tab, game.snap)) =>
                           Aim(tab', game.snap)
  BY <1>0, PageStep
<1> DEFINE s == game.snap
<1>2. /\ tab \in FitTab /\ HasTimer(tab) /\ Lively(tab, game) /\ Real(s) /\ s \in Snap
      /\ Home(tab, s, game.over) /\ First(tab) /\ Timely(tab, s, game.over)
  BY <1>1 DEF PageInv, Sound, RollInv, Lively, Real, Home
<1>3. tab.cur \in Snap /\ StashStarted(tab)
  BY <1>2, TimelyHas, StashIsStarted
<1>4. CASE "pump" \in tab.timers /\ tab' = Pump(tab)
  <2>1. Home(tab', s, game.over) /\ First(tab')
    BY <1>2, <1>3, <1>4, TimersHome, PumpFirst
  <2>2. tab.skipped => tab'.skipped
    BY <1>2, <1>3, <1>4, TimersSkip
  <2>3. ASSUME ~tab'.skipped, ~tab.skipped => Aim(tab, s) PROVE Aim(tab', s)
    BY <1>2, <1>4, <2>3, PumpAim
  <2> QED
    BY <1>2, <2>1, <2>2, <2>3 DEF Lively
<1>5. CASE "reveal" \in tab.timers /\ tab' = RevealTimer(tab)
  <2>1. tab.phase.kind = "revealing" /\ Home(tab', s, game.over)
    BY <1>2, <1>5, TimersHome
  <2>2. ~Held(tab)
    BY <1>2, <1>5, <2>1 DEF HasTimer, Held
  <2>3. First(tab')
    BY <1>2, <1>3, <1>5, <2>1, RevealTimerFirst
  <2>4. tab.skipped => tab'.skipped
    BY <1>2, <1>3, <1>5, <2>1, TimersSkip
  <2>5. ASSUME ~tab'.skipped, ~tab.skipped => Aim(tab, s) PROVE Aim(tab', s)
    BY <1>2, <1>5, <2>1, <2>2, <2>5, RevealTimerAim
  <2> QED
    BY <1>2, <2>1, <2>3, <2>4, <2>5 DEF Lively
<1>6. CASE "pop" \in tab.timers /\ tab' = PopTimer(tab)
  <2>1. tab.phase.kind = "revealing" /\ Home(tab', s, game.over)
    BY <1>2, <1>6, TimersHome
  <2>2. ~Held(tab)
    BY <1>2, <1>6, <2>1 DEF HasTimer, Held
  <2>3. First(tab')
    BY <1>2, <1>3, <1>6, <2>1, PopTimerFirst
  <2>4. tab.skipped => tab'.skipped
    BY <1>2, <1>3, <1>6, <2>1, TimersSkip
  <2>5. ASSUME ~tab'.skipped, ~tab.skipped => Aim(tab, s) PROVE Aim(tab', s)
    BY <1>2, <1>6, <2>1, <2>2, <2>5, PopTimerAim
  <2> QED
    BY <1>2, <2>1, <2>3, <2>4, <2>5 DEF Lively
<1> QED
  BY <1>4, <1>5, <1>6 DEF Timers, PumpRoll, SettleDice, LockDice, Fires

-----------------------------------------------------------------------------
(* What was left for later.                                                *)

LEMMA RunSoonStep ==
  ASSUME PageInv, RollInv, RunSoon
  PROVE  RollInv'
<1>0. game' = game /\ net' = net /\ last' = last
  BY DEF RunSoon, Page
<1>1. SUFFICES ASSUME game.on
               PROVE  /\ Lively(tab', game)
                      /\ tab.skipped => tab'.skipped
                      /\ ~tab'.skipped /\ (~tab.skipped => Aim(tab, game.snap)) =>
                           Aim(tab', game.snap)
  BY <1>0, PageStep
<1> DEFINE s == game.snap
<1>2. /\ tab \in FitTab /\ Lively(tab, game) /\ Real(s) /\ s \in Snap
      /\ Home(tab, s, game.over) /\ First(tab) /\ Timely(tab, s, game.over)
  BY <1>1 DEF PageInv, Sound, RollInv, Lively, Real, Home
<1>3. PICK i \in DOMAIN tab.soon :
        LET a == tab.soon[i]
            rest == [tab EXCEPT !.soon = RemoveAt(@, i)]
        IN  /\ \A j \in 1..(i - 1) : tab.soon[j].do # "commit" /\ a.do = "commit"
            /\ tab' = IF a.do = "commit" THEN Commit(rest, a.to)
                      ELSE Later(Passed(rest, tab.intros # <<>>), a)
  BY DEF RunSoon
<1>4. InTurn(tab.soon, i)
  BY <1>3 DEF InTurn
<1>5. tab.soon[i] \in FitSoon /\ Ran(tab, i, tab')
  BY <1>2, <1>3, <1>4, RunSoonIs
<1>6. tab.soon[i].do \in {"commit", "lobby", "wait", "hosting", "board"}
  <2>1. tab.soon[i] \in Entries(tab.soon)
    BY DEF Entries
  <2> QED
    BY <1>2, <2>1 DEF Timely, Stays
<1>7. Home(tab', s, game.over)
  BY <1>2, <1>5, RanHome
<1>8. First(tab')
  BY <1>2, <1>5, <1>6, RanFirst
<1>9. tab.skipped => tab'.skipped
  BY <1>2, <1>5, <1>6, RanSkips
<1>10. ASSUME ~tab'.skipped, ~tab.skipped => Aim(tab, s) PROVE Aim(tab', s)
  BY <1>2, <1>5, <1>10, RanAim
<1> QED
  BY <1>2, <1>7, <1>8, <1>9, <1>10 DEF Lively

LEMMA RevealGameStep ==
  ASSUME PageInv, RollInv, RevealGame
  PROVE  RollInv'
<1>0. game' = game /\ net' = net /\ last' = last
  BY DEF RevealGame, Page
<1>1. SUFFICES ASSUME game.on
               PROVE  /\ Lively(tab', game)
                      /\ tab.skipped => tab'.skipped
                      /\ ~tab'.skipped /\ (~tab.skipped => Aim(tab, game.snap)) =>
                           Aim(tab', game.snap)
  BY <1>0, PageStep
<1> DEFINE s == game.snap
<1>2. /\ tab \in FitTab /\ Lively(tab, game) /\ Real(s) /\ s \in Snap
      /\ Home(tab, s, game.over) /\ First(tab) /\ Timely(tab, s, game.over)
  BY <1>1 DEF PageInv, Sound, RollInv, Lively, Real, Home
<1>3. /\ tab.intros # <<>>
      /\ tab' = ShowBoard([tab EXCEPT !.intros = Tail(@)], Head(tab.intros))
  BY DEF RevealGame
<1>4. PICK v : /\ Relieved(tab, v) /\ v.soon = tab.soon /\ v.intros = Tail(tab.intros)
               /\ v.active = tab.active
               /\ BoardShown(v, Head(tab.intros), tab')
  BY <1>2, <1>3, RevealGameTimely
<1>5. Home(tab', s, game.over)
  BY <1>2, <1>3, RevealGameHome
<1>6. First(tab')
  BY <1>2, <1>3, <1>4, RevealGameFirst
<1>7. tab.skipped <=> tab'.skipped
  BY <1>4 DEF Relieved, BoardShown
<1>8. ASSUME ~tab'.skipped, ~tab.skipped => Aim(tab, s) PROVE Aim(tab', s)
  BY <1>2, <1>3, <1>4, <1>8, RevealGameAim
<1> QED
  BY <1>2, <1>5, <1>6, <1>7, <1>8 DEF Lively

LEMMA RunDelayStep ==
  ASSUME PageInv, RollInv, RunDelay
  PROVE  RollInv'
<1>0. game' = game /\ net' = net /\ last' = last
  BY DEF RunDelay, Page
<1>1. SUFFICES ASSUME game.on
               PROVE  /\ Lively(tab', game)
                      /\ tab.skipped => tab'.skipped
                      /\ ~tab'.skipped /\ (~tab.skipped => Aim(tab, game.snap)) =>
                           Aim(tab', game.snap)
  BY <1>0, PageStep
<1> DEFINE s == game.snap
<1>2. /\ tab \in FitTab /\ Lively(tab, game) /\ Real(s) /\ s \in Snap
      /\ Home(tab, s, game.over) /\ First(tab) /\ Timely(tab, s, game.over)
  BY <1>1 DEF PageInv, Sound, RollInv, Lively, Real, Home
<1>3. tab.delays \subseteq {"hidePaused"}
  BY <1>2 DEF Timely, Stays, FitTab
<1>4. tab' = HideDialogs([tab EXCEPT !.delays = tab.delays \ {"hidePaused"}], {"pause"})
  BY <1>3 DEF RunDelay
<1>5. Faded(tab, tab')
  BY <1>2, <1>4, FadeIs
<1>6. Home(tab', s, game.over)
  BY <1>2, <1>5, FadedHome
<1>7. First(tab')
  BY <1>2, <1>5, FadedFirst
<1>8. tab'.skipped = tab.skipped
  BY <1>5 DEF Faded
<1>9. Aim(tab, s) => Aim(tab', s)
  BY <1>2, <1>5, FadedAim
<1> QED
  BY <1>2, <1>6, <1>7, <1>8, <1>9 DEF Lively

-----------------------------------------------------------------------------
(* The invariant holds at first, and every step keeps it.                  *)

LEMMA StepHolds == PageInv /\ RollInv /\ [Next]_vars => RollInv'
<1> SUFFICES ASSUME PageInv, RollInv, [Next]_vars PROVE RollInv'
  OBVIOUS
<1>1. CASE UNCHANGED vars
  BY <1>1, SameStep DEF vars
<1>2. CASE Server
  BY <1>2, OthersStep, ServeRollStep, AnnounceStep, AdvanceStep, PauseStep, EndsStep DEF Server
<1>3. CASE LoseSocket \/ Reconnect
  BY <1>3, LoseSocketStep, ReconnectStep
<1>4. CASE TapRoll \/ Lever \/ Bolt
  BY <1>4, TapsStep
<1>5. CASE Timers
  BY <1>5, TimersStep
<1>6. CASE RunSoon \/ RevealGame \/ RunDelay
  BY <1>6, RunSoonStep, RevealGameStep, RunDelayStep
<1> QED
  BY <1>1, <1>2, <1>3, <1>4, <1>5, <1>6 DEF Next

LEMMA LobbyIs ==
  /\ Lobby \in Snap /\ Lobby.started = FALSE /\ Lobby.round = 1 /\ Lobby.rolls = 0
  /\ Lobby.hits = 0 /\ Lobby.paused = FALSE /\ Lobby.down = FALSE /\ MyDiceKey(Lobby) = <<1, 0>>
BY DiceAssumption DEF Lobby, Snap, MyDiceKey

LEMMA InLobbyIs ==
  ASSUME NEW host, NEW t, t = InLobby(host)
  PROVE  /\ t.phase = Idle /\ t.timers = {} /\ t.cur = Lobby /\ t.key = <<0, 0>>
         /\ t.round = 0 /\ t.faces = <<0, 0>> /\ t.locked = 0 /\ t.loose = 0
         /\ t.tumbling = FALSE /\ t.button = "none" /\ t.active = "lobby" /\ t.soon = <<>>
         /\ t.intros = <<>> /\ t.delays = {} /\ t.dialogs = {} /\ t.session = TRUE
         /\ t.cut = FALSE /\ t.skipped = FALSE
BY DEF InLobby

LEMMA InitHolds == Init => RollInv
<1> SUFFICES ASSUME Init PROVE RollInv
  OBVIOUS
<1> DEFINE t == tab
           s == Lobby
           over == game.over
<1>0. PICK host \in BOOLEAN : tab = InLobby(host)
  BY DEF Init
<1>1. net = "open" /\ game.on /\ game.snap = Lobby /\ last = Lobby
  BY DEF Init
<1>2. /\ t.phase = Idle /\ t.timers = {} /\ t.cur = Lobby /\ t.key = <<0, 0>>
      /\ t.round = 0 /\ t.faces = <<0, 0>> /\ t.locked = 0 /\ t.loose = 0
      /\ t.tumbling = FALSE /\ t.button = "none" /\ t.active = "lobby" /\ t.soon = <<>>
      /\ t.intros = <<>> /\ t.delays = {} /\ t.dialogs = {} /\ t.session = TRUE
      /\ t.cut = FALSE /\ t.skipped = FALSE
  BY <1>0, InLobbyIs
<1>3. t \in FitTab
  BY InitSound DEF PageInv, Sound
<1>4. Real(s)
  BY LobbyIs DEF Real
<1>5. Entries(t.soon) = {} /\ Latest(t.soon) = {} /\ Commits(t.soon) /\ Entries(t.intros) = {}
  BY <1>2, EmptyIs
<1>6. Queued(t) = {}
  BY <1>5 DEF Queued
<1>7. Idle.kind = "idle" /\ Idle.snap = Nothing /\ Idle.stashed = Nothing /\ Idle.result = Nothing
  BY IdleIs
<1>8. /\ Settled(t.phase) /\ ~AwaitingAck(t.phase) /\ ~AwaitsRollFrame(t.phase) /\ ~InHand(t)
      /\ ~Rolling(t.phase) /\ ~Held(t)
  BY <1>2, <1>3, <1>7, KindsOf DEF Settled
<1> HIDE DEF t, s
<1>9. Stays(t)
  BY <1>2, <1>5 DEF Stays
<1>10. Past(t, s)
  <2>1. Beside(t, t.cur, s)
    BY <1>2, <1>4, <1>8, NowIs DEF Beside, s
  <2>2. \A x \in Queued(t) \cup {t.cur} : Beside(t, x, s)
    BY <1>6, <2>1
  <2>3. t.phase.snap = Nothing /\ t.phase.stashed = Nothing
    BY <1>2, <1>7
  <2>4. t.key[1] = 0 /\ s.round = 1 /\ t.cur.round = 1
    BY <1>2, LobbyIs DEF s
  <2>5. t.key[1] < s.round /\ t.key[1] <= t.cur.round
    BY <2>4
  <2>6. t.key # <<0, 0>> => t.button # "none"
    BY <1>2
  <2> QED
    BY <2>2, <2>3, <2>5, <2>6 DEF Past
<1>11. Unstarted(t, s)
  BY <1>2, <1>5 DEF Unstarted
<1>12. InRoll(t, s, over)
  BY <1>2, <1>7, <1>8 DEF InRoll
<1>13. Board(t, s)
  BY <1>2, LobbyIs DEF Board, s
<1>14. Home(t, s, over)
  BY <1>9, <1>10, <1>11, <1>12, <1>13 DEF Home, Timely
<1>15. First(t)
  BY <1>3, <1>11, LobbyIs, UnstartedFirst DEF First, s
<1>16. Aim(t, s)
  <2>1. Target(s) = "lobby"
    BY LobbyIs DEF Target, s
  <2>2. Led(t, s)
    <3>1. Act(t, s) = "lobby" \/ Act(t, s) # "none"
      BY LobbyIs DEF Act, s
    <3> QED
      BY <1>2, <1>5, <2>1, <3>1 DEF Led
  <2>3. Seen(t, s)
    BY <1>2, <1>5, <2>1 DEF Seen, s
  <2>4. Overlays(t, s)
    BY <1>2, <1>7 DEF Overlays
  <2>5. t.phase.stashed = Nothing
    BY <1>2, <1>7
  <2> QED
    BY <1>8, <2>2, <2>3, <2>4, <2>5 DEF Aim
<1> QED
  BY <1>1, <1>4, <1>14, <1>15, <1>16 DEF RollInv, Told, Lively, t, s

LEMMA RollAlways == Spec => [](PageInv /\ RollInv)
<1>1. Init => PageInv /\ RollInv
  BY InitSound, InitHolds
<1>2. PageInv /\ RollInv /\ [Next]_vars => (PageInv /\ RollInv)'
  BY StepSound, StepHolds
<1> QED
  BY <1>1, <1>2, PTL DEF Spec

-----------------------------------------------------------------------------
(* What the page shows when all is quiet.                                  *)

LEMMA Rests ==
  ASSUME PageInv, RollInv, AtRest, Playing, ~tab.skipped
  PROVE  /\ last = game.snap /\ last \in Snap /\ Home(tab, last, game.over)
         /\ tab.phase.kind \in {"idle", "celebrating"}
         /\ tab.phase.kind # "celebrating" => Led(tab, last)
         /\ Seen(tab, last) /\ Overlays(tab, last)
         /\ tab.soon = <<>> /\ tab.intros = <<>> /\ tab.delays = {} /\ Commits(tab.soon)
<1>1. net = "open" /\ game.on
  BY DEF Playing, RollInv
<1>2. last = game.snap /\ Aim(tab, last) /\ Lively(tab, game)
  BY <1>1 DEF RollInv, Told
<1>3. last \in Snap /\ Home(tab, last, game.over)
  BY <1>2 DEF Lively, Real
<1>4. tab \in FitTab /\ HasTimer(tab)
  BY DEF PageInv, Sound
<1>5. tab.soon = <<>> /\ tab.intros = <<>> /\ tab.delays = {} /\ tab.timers = {}
  BY DEF AtRest
<1>6. Settled(tab.phase) /\ tab.phase.kind \in {"idle", "celebrating"}
  <2>1. tab.phase.kind # "revealing" /\ ~AwaitingAck(tab.phase)
    BY <1>4, <1>5 DEF HasTimer
  <2>2. tab.phase.kind \in Kinds
    BY <1>4, KindsOf
  <2> QED
    BY <2>1, <2>2 DEF AwaitingAck, Kinds, Settled
<1>7. ~Held(tab)
  BY <1>4, <1>6, KindsOf
<1>8. tab.phase.stashed = Nothing
  BY <1>3, <1>6 DEF Home, Timely, InRoll
<1>9. Commits(tab.soon)
  BY <1>5, EmptyIs
<1> QED
  BY <1>2, <1>3, <1>5, <1>6, <1>7, <1>8, <1>9 DEF Aim

LEMMA LedAtRest ==
  ASSUME NEW t, NEW s, Led(t, s), t.soon = <<>>, t.intros = <<>>
  PROVE  t.active = Target(s)
<1>1. Commits(t.soon)
  BY EmptyIs
<1> QED
  BY <1>1 DEF Led

LEMMA SeenAtRest ==
  ASSUME NEW t, NEW s, Seen(t, s), t.soon = <<>>, t.intros = <<>>
  PROVE  /\ t.cur = s
         /\ t.phase.kind # "celebrating" /\ Target(s) = "game" =>
              /\ t.key = MyDiceKey(s)
              /\ t.phase.kind = "idle" /\ ~s.paused => t.button = "on"
<1>1. Commits(t.soon)
  BY EmptyIs
<1> QED
  BY <1>1 DEF Seen

\* Whatever was rejected, lost or overtaken: once all is quiet in a game that is not
\* paused, the roll button works (renderMyArea, syncPausedControls, the error branch of
\* handleMessage, unstickRoll).
THEOREM ButtonComesBack == Spec => []ButtonBack
<1>1. PageInv /\ RollInv => ButtonBack
  <2> SUFFICES ASSUME PageInv, RollInv, AtRest, Playing, ~tab.skipped, tab.active = "game",
                      ~last.paused, tab.phase.kind = "idle"
               PROVE  tab.button = "on"
    BY DEF ButtonBack
  <2>1. Led(tab, last) /\ Seen(tab, last) /\ tab.soon = <<>> /\ tab.intros = <<>>
    BY Rests
  <2>2. Target(last) = "game"
    BY <2>1, LedAtRest
  <2> QED
    BY <2>1, <2>2, SeenAtRest
<1> QED
  BY <1>1, RollAlways, PTL

\* Once all is quiet, the page shows the last frame that arrived: its screen, its round,
\* my dice of it and those of them that are locked (showFor, renderGame, renderMyArea,
\* runReveal, completeReveal).
THEOREM ShowsTheLatest == Spec => []LatestShown
<1>1. PageInv /\ RollInv => LatestShown
  <2> SUFFICES ASSUME PageInv, RollInv, AtRest, Playing, ~tab.skipped
               PROVE  /\ tab.cur = last
                      /\ tab.phase.kind = "idle" =>
                           /\ tab.active = Target(last)
                           /\ tab.active = "game" /\ ~tab.cut =>
                                /\ tab.faces = MyDiceKey(last)
                                /\ tab.round = last.round
                                /\ last.hits < Dice =>
                                     tab.locked = last.hits /\ tab.loose = Dice - last.hits
    BY DEF LatestShown, Target
  <2>1. /\ last \in Snap /\ Home(tab, last, game.over) /\ Seen(tab, last)
        /\ tab.phase.kind # "celebrating" => Led(tab, last)
        /\ tab.soon = <<>> /\ tab.intros = <<>>
    BY Rests
  <2>2. tab.cur = last
    BY <2>1, SeenAtRest
  <2>3. ASSUME tab.phase.kind = "idle" PROVE tab.active = Target(last)
    BY <2>1, <2>3, LedAtRest
  <2>4. ASSUME tab.phase.kind = "idle", tab.active = "game", ~tab.cut
        PROVE  /\ tab.faces = MyDiceKey(last)
               /\ tab.round = last.round
               /\ last.hits < Dice => tab.locked = last.hits /\ tab.loose = Dice - last.hits
    <3>1. tab.key = MyDiceKey(last)
      BY <2>1, <2>3, <2>4, SeenAtRest
    <3>2. tab.key[1] = last.round
      BY <2>1, <3>1, KeyOf
    <3>3. Board(tab, last)
      BY <2>1 DEF Home
    <3>4. ~tab.tumbling
      BY <2>4, <3>3 DEF Board
    <3> QED
      BY <2>4, <3>1, <3>2, <3>3, <3>4 DEF Board
  <2> QED
    BY <2>2, <2>3, <2>4
<1> QED
  BY <1>1, RollAlways, PTL

\* Once all is quiet, the winner overlay is up exactly while a round is celebrated, and the
\* pause overlay only in a game that is paused (showFor, completeReveal, hidePaused).
THEOREM DialogsTell == Spec => []DialogsTrue
<1>1. PageInv /\ RollInv => DialogsTrue
  <2> SUFFICES ASSUME PageInv, RollInv, AtRest, Playing, ~tab.skipped
               PROVE  /\ "winner" \in tab.dialogs <=> tab.phase.kind = "celebrating"
                      /\ "pause" \in tab.dialogs /\ tab.phase.kind = "idle" => last.paused
    BY DEF DialogsTrue
  <2>1. /\ Overlays(tab, last) /\ tab.phase.kind \in {"idle", "celebrating"}
        /\ tab.delays = {} /\ Commits(tab.soon)
    BY Rests
  <2> QED
    BY <2>1 DEF Overlays
<1> QED
  BY <1>1, RollAlways, PTL

================================================================================
