--------------------------------- MODULE Radar ---------------------------------
(***************************************************************************)
(* The radar of nearby games: components/nearby-screen.js and geo.js.      *)
(* Entering the screen asks for a position, polls the server once and then *)
(* at an interval, while the screen may be left, entered again, or put     *)
(* back by a refused join, which shows it without entering it.  The        *)
(* compass turns the scope, one animation frame at a time.                 *)
(***************************************************************************)
EXTENDS Naturals, SequencesExt

CONSTANTS Nearby,      \* codes of the games around
          MaxEntries,  \* bound: entries to the screen
          MaxLists     \* bound: lists the server answers with, one after the other

ASSUME RadarBounds ==
  IsFiniteSet(Nearby) /\ MaxEntries \in Nat /\ MaxLists \in Nat \ {0}

VARIABLES radar,   \* the screen
          polls,   \* requests in flight: entry, number of the list, and who awaits it
          served   \* the lists the server has had so far, the last one in force

radarVars == <<radar, polls, served>>

None == "none"

Lists == {q \in UNION {[1..n -> Nearby] : n \in 0..Cardinality(Nearby)} : IsInjective(q)}

Reasons == {"permission", "unavailable", "timeout", "unsupported"}

\* rot and settling: the custom property and the class that turn the scope; settle
\* and frame: the timer and the animation frame that are pending.  Ghost: unentered,
\* the screen was shown again without enter().
Radar ==
  [active : BOOLEAN, entry : 0..MaxEntries, locating : SUBSET (1..MaxEntries),
   pos : BOOLEAN, timer : 0..MaxEntries, payload : 0..MaxLists,
   rows : Lists, blips : SUBSET Nearby, selected : Nearby \cup {None},
   lit : SUBSET Nearby, error : BOOLEAN, retry : BOOLEAN, denied : BOOLEAN,
   compass : BOOLEAN, asking : BOOLEAN, rot : {None, "north", "turned"},
   settling : BOOLEAN, settle : BOOLEAN, frame : BOOLEAN, unentered : BOOLEAN]

RadarTypeOK ==
  /\ radar \in Radar
  /\ polls \subseteq [entry : 1..MaxEntries, list : 1..MaxLists, by : {"enter", "timer"}]
  /\ served \in Seq(Lists)

RadarInit ==
  /\ radar = [active |-> FALSE, entry |-> 0, locating |-> {}, pos |-> FALSE, timer |-> 0,
              payload |-> 0, rows |-> <<>>, blips |-> {}, selected |-> None, lit |-> {},
              error |-> FALSE, retry |-> FALSE, denied |-> FALSE,
              compass |-> FALSE, asking |-> FALSE, rot |-> None, settling |-> FALSE,
              settle |-> FALSE, frame |-> FALSE, unentered |-> FALSE]
  /\ polls = {}
  /\ \E q \in Lists : served = <<q>>

-----------------------------------------------------------------------------
(* The compass.                                                            *)

CancelSettle(r) == [r EXCEPT !.settle = FALSE, !.settling = FALSE]

\* #stopCompass(animate): eased by a transition, or at once.
StopCompass(r, animate) ==
  CASE ~r.compass -> r
    [] r.compass /\ animate ->
         [r EXCEPT !.compass = FALSE, !.rot = "north", !.settling = TRUE, !.settle = TRUE]
    [] OTHER -> [CancelSettle(r) EXCEPT !.compass = FALSE, !.rot = None]

\* A tap turns it off, or asks for permission where that is needed.
ToggleCompass ==
  /\ radar.active
  /\ radar' = IF radar.compass THEN StopCompass(radar, TRUE)
              ELSE [CancelSettle(radar) EXCEPT !.asking = TRUE]
  /\ UNCHANGED <<polls, served>>

CompassAnswer ==
  /\ radar.asking
  /\ \E granted \in BOOLEAN :
       radar' = [radar EXCEPT !.asking = FALSE, !.error = ~granted,
                              !.compass = granted \/ radar.compass]
  /\ UNCHANGED <<polls, served>>

\* #onOrient, throttled to a frame.
Orient ==
  /\ radar.compass /\ radar.active /\ ~radar.frame
  /\ radar' = [radar EXCEPT !.frame = TRUE]
  /\ UNCHANGED <<polls, served>>

\* Mutant: the frame does not look whether the compass is still on.
TurnedAlways(r) == [r EXCEPT !.frame = FALSE, !.rot = "turned"]

\* The frame may find the compass off by now.
Turned(r) == [r EXCEPT !.frame = FALSE, !.rot = IF r.compass THEN "turned" ELSE @]

TurnFrame == radar.frame /\ radar' = Turned(radar) /\ UNCHANGED <<polls, served>>

SettleDone ==
  /\ radar.settle
  /\ radar' = [CancelSettle(radar) EXCEPT !.rot = None]
  /\ UNCHANGED <<polls, served>>

-----------------------------------------------------------------------------
(* Polling.                                                                *)

StopPolling(r) == [r EXCEPT !.timer = 0]

LeaveRadar ==
  /\ radar.active
  /\ radar' = [CancelSettle(StopCompass(StopPolling(radar), FALSE)) EXCEPT !.active = FALSE]
  /\ UNCHANGED <<polls, served>>

\* enter(), with the screen up: everything on it is cleared, a new position asked for.
Entered(r) ==
  [StopPolling(r) EXCEPT !.active = TRUE, !.selected = None, !.payload = 0, !.rows = <<>>,
     !.blips = {}, !.lit = {}, !.error = FALSE, !.retry = FALSE, !.denied = FALSE,
     !.entry = @ + 1, !.locating = @ \cup {r.entry + 1}, !.unentered = FALSE]

\* A tap, a URL or Back, or the Try again button.
EnterRadar ==
  /\ radar.entry < MaxEntries
  /\ radar.active => radar.retry
  /\ radar' = Entered(radar)
  /\ UNCHANGED <<polls, served>>

\* net.js handleError: a join from the list was refused.
ShowRadarAgain ==
  /\ ~radar.active /\ radar.entry > 0
  /\ radar' = [radar EXCEPT !.active = TRUE, !.unentered = TRUE]
  /\ UNCHANGED <<polls, served>>

\* getPosition has failed; the Permissions API decides whether that was a denial.
Lost(e) ==
  /\ e \in radar.locating
  /\ \E reason \in Reasons :
       radar' = IF e # radar.entry THEN [radar EXCEPT !.locating = @ \ {e}]
                ELSE [radar EXCEPT !.locating = @ \ {e}, !.error = TRUE, !.denied = TRUE,
                                   !.retry = reason \in {"timeout", "unavailable"}]
  /\ UNCHANGED <<polls, served>>

\* What enter() does after its first poll.  Mutant: it does not look whether the
\* screen is still the active one.
KeepPollingBlindly(r, e) == IF e = r.entry THEN [r EXCEPT !.timer = e] ELSE r

KeepPolling(r, e) == IF e = r.entry /\ r.active THEN [r EXCEPT !.timer = e] ELSE r

Request(by) == polls' = polls \cup {[entry |-> radar.entry, list |-> Len(served), by |-> by]}

\* The position is there: a poll, unless the screen was left meanwhile.
Located(e) ==
  /\ e \in radar.locating
  /\ LET r == [radar EXCEPT !.locating = @ \ {e}, !.pos = TRUE]
     IN  \/ e = radar.entry /\ radar.active /\ Request("enter") /\ radar' = r
         \/ /\ e = radar.entry /\ ~radar.active
            /\ radar' = KeepPolling(StopPolling(r), e) /\ UNCHANGED polls
         \/ e # radar.entry /\ radar' = r /\ UNCHANGED polls
  /\ UNCHANGED served

Tick ==
  /\ radar.timer # 0 /\ radar.pos
  /\ IF radar.active THEN Request("timer") /\ UNCHANGED radar
     ELSE radar' = StopPolling(radar) /\ UNCHANGED polls
  /\ UNCHANGED served

\* Mutant: a selection outlives its game.
SelectedKept(r, games) == r.selected

\* The selection, unless its game is gone.
SelectedStill(r, games) == IF r.selected \in ToSet(games) THEN r.selected ELSE None

\* #renderList: rows are patched in place by code, in the order of the answer, and
\* the selected one stands out in list and scope.
RenderList(r, games) == [r EXCEPT !.rows = games, !.lit = {r.selected} \cap ToSet(games)]

\* #render: the blips, then the list.
RenderRadar(r, games) ==
  RenderList([r EXCEPT !.selected = SelectedStill(r, games), !.blips = ToSet(games)], games)

\* An answer, in time or not, or a failure: the last view stays.
PollAnswer ==
  /\ \E p \in polls :
       /\ polls' = polls \ {p}
       /\ LET r == IF p.entry # radar.entry \/ p.list = radar.payload THEN radar
                   ELSE RenderRadar([radar EXCEPT !.payload = p.list], served[p.list])
          IN  \E seen \in {r, radar} :
                radar' = IF p.by = "enter" THEN KeepPolling(seen, p.entry) ELSE seen
  /\ UNCHANGED served

SelectBlip ==
  /\ radar.active
  /\ \E code \in radar.blips : radar' = [radar EXCEPT !.selected = code, !.lit = {code}]
  /\ UNCHANGED <<polls, served>>

\* Games appear and go.
Around ==
  /\ Len(served) < MaxLists
  /\ \E q \in Lists \ {Last(served)} : served' = Append(served, q)
  /\ UNCHANGED <<radar, polls>>

RadarNext ==
  \/ ToggleCompass \/ CompassAnswer \/ Orient \/ TurnFrame \/ SettleDone
  \/ LeaveRadar \/ EnterRadar \/ ShowRadarAgain
  \/ \E e \in 1..MaxEntries : Lost(e) \/ Located(e)
  \/ Tick \/ PollAnswer \/ SelectBlip \/ Around

RadarSpec == RadarInit /\ [][RadarNext]_radarVars

-----------------------------------------------------------------------------
(* Properties.                                                             *)

\* Only the screen in view polls, for its latest entry.  And once its position is
\* known it does poll, for as long as it is in view: nothing but a refused join, which
\* shows it without entering, leaves it with a list that no longer changes.
RadarPolls ==
  /\ radar.timer # 0 => radar.active /\ radar.timer = radar.entry
  /\ radar.active /\ radar.locating = {} /\ ~radar.denied /\ ~radar.unentered
       => radar.timer # 0 \/ \E p \in polls : p.by = "enter" /\ p.entry = radar.entry

\* With the compass off and no frame or transition left the scope points north.
ScopeNorth ==
  ~radar.compass /\ ~radar.frame /\ ~radar.settle =>
    radar.rot # "turned" /\ ~radar.settling

\* Scope and list show the same games, one answer of the server to this entry, and
\* the highlighted game is the selected one and among them.
ScopeMatchesList ==
  /\ radar.rows = IF radar.payload = 0 THEN <<>> ELSE served[radar.payload]
  /\ radar.blips = ToSet(radar.rows)
  /\ radar.selected # None => radar.lit = {radar.selected} /\ radar.lit \subseteq radar.blips

===============================================================================
