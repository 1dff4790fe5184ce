------------------------------- MODULE Sessions -------------------------------
(***************************************************************************)
(* One tab's saved session (session.js) and the sockets it opens (net.js): *)
(* the intents create and join, the loop that resumes a lost session, and  *)
(* what the frames of each socket save or forget.                          *)
(*                                                                         *)
(* The server grants a seat for an intent, takes it away from one who is   *)
(* gone, and ends games; how it does so is the subject of Seats.           *)
(***************************************************************************)
EXTENDS Integers, Sequences

CONSTANT MaxWires  \* bound: sockets opened, reloads included

ASSUME SessionConstants == MaxWires \in Nat

Wires == 1..MaxWires

\* A socket's number is also the pid, the token and the code the server draws for it.
NoId == 0
AccountId == MaxWires + 1
Theirs == MaxWires + 2
Drawn == 0..(MaxWires + 2)

VARIABLES tab,     \* localStorage and the page
          wires,   \* its sockets, with the server's end of each
          seats    \* the server's seats

sessionVars == <<tab, wires, seats>>

NoSession == [pid |-> NoId, code |-> NoId, token |-> NoId]

HasSession(t) == t.saved.pid # NoId /\ t.saved.code # NoId

\* asked: what the socket was opened for (an intent's code, NoId to create one; or the
\* session to resume).  wired: which onmessage it has.  seat: whom the server's
\* connections map it to.
NoWire == [phase |-> "none", wired |-> "dispatch", onclose |-> "off", asked |-> NoSession,
           seat |-> NoSession, inbox |-> <<>>]

\* timers: retries waiting, with the session they captured and the socket they follow.
\* Ghost mixed: an intent was made over a session held, or with another or a loop under
\* way, or the close of a socket the page had replaced went on to a loop of its own.
SessionsInit ==
  /\ tab \in [saved : {NoSession}, held : {FALSE}, reconnecting : {FALSE}, ws : {NoId},
              screen : {"landing"}, timers : {{}}, signedIn : BOOLEAN, mixed : {FALSE}]
  /\ wires = [w \in Wires |-> NoWire]
  /\ seats = {}

Message(type, seat) == [type |-> type, seat |-> seat]

SessionsTypeOK ==
  /\ tab.saved \in [pid : Drawn, code : Drawn, token : Drawn]
  /\ tab.ws \in Wires \cup {NoId}
  /\ tab.screen \in {"landing", "loading", "game"}
  /\ tab.timers \subseteq [pid : Drawn, code : Drawn, by : Wires]
  /\ \A w \in Wires : wires[w].phase \in {"none", "opening", "open", "closed", "done"}
  /\ seats \subseteq [pid : Drawn, code : Drawn, token : Drawn]

-----------------------------------------------------------------------------
(* The page.                                                               *)

Unused == {w \in Wires : wires[w].phase = "none" /\ \A v \in 1..(w - 1) : wires[v].phase # "none"}

Opening(wired, onclose, asked) ==
  [NoWire EXCEPT !.phase = "opening", !.wired = wired, !.onclose = onclose, !.asked = asked]

\* A handler leaves page t and sockets ws.
Becoming(t, ws) == tab' = t /\ wires' = ws

\* Mutant: an attempt does not become the page's socket.
AttemptAside(t, ws, pid, code, w) ==
  Becoming(t, [ws EXCEPT ![w] = Opening("attempt", "retry",
                                        [pid |-> pid, code |-> code, token |-> t.saved.token])])

\* attemptReconnect, within the deadline; the token is read anew.
Attempt(t, ws, pid, code, w) ==
  Becoming([t EXCEPT !.ws = w],
           [ws EXCEPT ![w] = Opening("attempt", "retry",
                                     [pid |-> pid, code |-> code, token |-> t.saved.token])])

MaybeReconnect(t, ws, w) ==
  IF t.reconnecting \/ ~HasSession(t) THEN Becoming(t, ws)
  ELSE Attempt([t EXCEPT !.reconnecting = TRUE, !.screen = "loading"], ws,
               t.saved.pid, t.saved.code, w)

\* expireSession, and a fatal error once the session is live.
ExpireSession(t) == [t EXCEPT !.reconnecting = FALSE, !.saved = NoSession, !.held = FALSE,
                       !.screen = "landing"]

\* Mutant: the pid of an account is not saved.
SavingGuest(saved, f) ==
  CASE f.type = "welcome" -> [saved EXCEPT !.pid = f.seat.pid]
    [] f.type = "reconnect_token" -> [saved EXCEPT !.token = f.seat.token]
    [] f.type = "state" -> [saved EXCEPT !.code = f.seat.code]
    [] f.type = "game_ended" -> NoSession
    [] OTHER -> saved

Saving(saved, f) ==
  CASE f.type \in {"welcome", "auth_ok"} -> [saved EXCEPT !.pid = f.seat.pid]
    [] f.type = "reconnect_token" -> [saved EXCEPT !.token = f.seat.token]
    [] f.type = "state" -> [saved EXCEPT !.code = f.seat.code]
    [] f.type = "game_ended" -> NoSession
    [] OTHER -> saved

\* handleMessage and handleError, as far as the session goes.
HandleMessage(t, f) ==
  LET saving == [t EXCEPT !.saved = Saving(@, f)]
  IN  CASE f.type = "state" -> [saving EXCEPT !.held = TRUE, !.screen = "game"]
        [] f.type = "game_ended" -> [saving EXCEPT !.held = FALSE, !.screen = "landing"]
        [] f.type = "error" /\ ~t.held -> [t EXCEPT !.screen = "landing"]
        [] f.type = "fatal" -> ExpireSession(t)
        [] OTHER -> saving

Read(w) == [wires EXCEPT ![w].inbox = Tail(wires[w].inbox)]

Hung(ws, w) == [ws EXCEPT ![w].phase = "closed", ![w].inbox = <<>>, ![w].seat = NoSession]

Dispatched(w) ==
  /\ wires[w].wired = "dispatch"
  /\ Becoming(HandleMessage(tab, Head(wires[w].inbox)), Read(w))

\* The onmessage of an attempt: the first frame but a welcome or a refusal makes the
\* session live, a ping included.
AttemptHears(w) ==
  LET f == Head(wires[w].inbox)
  IN  /\ wires[w].wired = "attempt"
      /\ CASE f.type = "welcome" -> Becoming(tab, Read(w))
           [] f.type = "fatal" -> Becoming(ExpireSession(tab), Hung(wires, w))
           [] OTHER ->
                Becoming(HandleMessage([tab EXCEPT !.reconnecting = FALSE], f),
                         [Read(w) EXCEPT ![w].wired = "dispatch", ![w].onclose = "handle"])

Hear(w) ==
  /\ wires[w].inbox # <<>>
  /\ Dispatched(w) \/ AttemptHears(w)
  /\ UNCHANGED seats

\* Mutant: only an attempt that the server has answered is followed by another.
RetryAnswered(t, w) ==
  IF t.reconnecting /\ wires[w].seat # NoSession
  THEN [t EXCEPT !.timers = @ \cup {[pid |-> wires[w].asked.pid, code |-> wires[w].asked.code,
                                     by |-> w]}]
  ELSE t

\* The onclose of an attempt.
Retry(t, w) ==
  IF t.reconnecting
  THEN [t EXCEPT !.timers = @ \cup {[pid |-> wires[w].asked.pid, code |-> wires[w].asked.code,
                                     by |-> w]}]
  ELSE t

\* Socket w is not the page's any more, and yet its close event acts.
Stale(t, w, acts) == [t EXCEPT !.mixed = @ \/ (w # t.ws /\ acts)]

\* The close event follows the last message.
WireCloses(w) ==
  LET gone == [wires EXCEPT ![w] = [NoWire EXCEPT !.phase = "done"]]
  IN  /\ wires[w].phase = "closed" /\ wires[w].inbox = <<>>
      /\ \/ wires[w].onclose = "off" /\ Becoming(tab, gone)
         \/ wires[w].onclose = "retry"
            /\ Becoming(Retry(Stale(tab, w, tab.reconnecting), w), gone)
         \/ \E v \in Unused :
              wires[w].onclose = "handle"
              /\ MaybeReconnect(Stale(tab, w, HasSession(tab) /\ ~tab.reconnecting), gone, v)
      /\ UNCHANGED seats

\* attemptReconnect again, before the deadline or after it; what arrived within the
\* window has been read by its end.
RetryFires(timer) ==
  LET fired == [tab EXCEPT !.timers = @ \ {timer}]
  IN  /\ \/ /\ \A w \in Wires : wires[w].inbox = <<>>
            /\ Becoming(ExpireSession(fired), wires)
         \/ \E v \in Unused : Attempt(fired, wires, timer.pid, timer.code, v)
      /\ UNCHANGED seats

UnderWay ==
  \/ tab.reconnecting \/ tab.timers # {}
  \/ \E w \in Wires : wires[w].phase = "opening" \/ wires[w].inbox # <<>>

\* connectWs with create, or join of a game of others.
TapIntent ==
  /\ tab.screen = "landing"
  /\ \E w \in Unused, code \in {NoId, Theirs} :
       /\ tab' = [tab EXCEPT !.screen = "loading", !.ws = w,
                             !.mixed = @ \/ HasSession(tab) \/ UnderWay]
       /\ wires' = [wires EXCEPT ![w] = Opening("dispatch", "handle",
                                                [NoSession EXCEPT !.code = code])]
  /\ UNCHANGED seats

\* A socket that is still connecting cannot be written to: the handler ends there.
LeaveGame ==
  /\ tab.screen = "game" /\ (tab.ws # NoId => wires[tab.ws].phase # "opening")
  /\ tab' = [tab EXCEPT !.saved = NoSession, !.reconnecting = FALSE, !.held = FALSE,
                        !.ws = NoId, !.screen = "landing"]
  /\ IF tab.ws # NoId /\ wires[tab.ws].phase # "done"
     THEN /\ wires' = [Hung(wires, tab.ws) EXCEPT ![tab.ws].onclose = "off"]
          /\ seats' = {s \in seats : ~(s.pid = wires[tab.ws].seat.pid
                                       /\ s.code = wires[tab.ws].seat.code)}
     ELSE UNCHANGED <<wires, seats>>

\* A step back in the history while a game or a loading screen is up.
BackToLanding ==
  /\ tab.screen # "landing"
  /\ tab' = [tab EXCEPT !.screen = "landing"]
  /\ UNCHANGED <<wires, seats>>

\* bootstrap: resume, or stay on the landing for a route of its own or another game's link.
ReloadTab ==
  LET booted == [tab EXCEPT !.held = FALSE, !.reconnecting = FALSE, !.ws = NoId,
                            !.screen = "landing", !.timers = {}]
      shut == [w \in Wires |-> IF wires[w].phase = "none" THEN NoWire
                               ELSE [NoWire EXCEPT !.phase = "done"]]
  IN  /\ \E w \in Wires : wires[w].phase \notin {"none", "done"}
      /\ \/ Becoming(booted, shut)
         \/ \E v \in Unused : MaybeReconnect(booted, shut, v)
      /\ UNCHANGED seats

-----------------------------------------------------------------------------
(* The server and the network.                                             *)

Pid(w) == IF tab.signedIn THEN AccountId ELSE w

Introduced(w) ==
  <<Message("welcome", [NoSession EXCEPT !.pid = w])>>
  \o (IF tab.signedIn THEN <<Message("auth_ok", [NoSession EXCEPT !.pid = AccountId])>> ELSE <<>>)

\* The server's connections map a player to one socket.
Seated(w, seat, frames) ==
  [v \in Wires |->
     IF v = w THEN [wires[v] EXCEPT !.phase = "open", !.seat = seat, !.inbox = frames]
     ELSE IF wires[v].seat.pid = seat.pid /\ wires[v].seat.code = seat.code
          THEN [wires[v] EXCEPT !.seat = NoSession]
          ELSE wires[v]]

Answered(w, frames) == [wires EXCEPT ![w].phase = "open", ![w].inbox = frames]

\* handle_auth and handle_create or handle_join.
Grant(w) ==
  LET code == IF wires[w].asked.code = NoId THEN w ELSE wires[w].asked.code
      seat == [pid |-> Pid(w), code |-> code, token |-> w]
  IN  /\ wires[w].phase = "opening" /\ wires[w].wired = "dispatch"
      /\ seats' = {s \in seats : ~(s.pid = seat.pid /\ s.code = code)} \cup {seat}
      /\ wires' = Seated(w, seat, Introduced(w) \o <<Message("reconnect_token", seat),
                                                     Message("state", seat)>>)
      /\ UNCHANGED tab

Refuse(w) ==
  /\ wires[w].phase = "opening" /\ wires[w].wired = "dispatch"
  /\ wires' = Answered(w, Introduced(w) \o <<Message("error", NoSession)>>)
  /\ UNCHANGED <<tab, seats>>

\* handle_reconnect; a ping comes first when it takes longer than PING_INTERVAL.
ServeReconnect(w) ==
  LET welcome == <<Message("welcome", [NoSession EXCEPT !.pid = w])>>
      seat == wires[w].asked
  IN  /\ wires[w].phase = "opening" /\ wires[w].wired = "attempt"
      /\ \E late \in {<<>>, <<Message("ping", NoSession)>>} :
           wires' = IF seat \in seats
                    THEN Seated(w, seat, welcome \o late \o <<Message("state", seat)>>)
                    ELSE Answered(w, welcome \o late \o <<Message("fatal", NoSession)>>)
      /\ UNCHANGED <<tab, seats>>

\* A socket never opens, or is lost with the frames under way.
LoseWire(w) ==
  /\ wires[w].phase \in {"opening", "open"}
  /\ \E n \in 0..Len(wires[w].inbox) :
       wires' = [wires EXCEPT ![w].phase = "closed", ![w].seat = NoSession,
                              ![w].inbox = SubSeq(wires[w].inbox, 1, n)]
  /\ UNCHANGED <<tab, seats>>

\* The grace of one who is away has run out.
DropSeat(seat) ==
  /\ \A w \in Wires : ~(wires[w].seat.pid = seat.pid /\ wires[w].seat.code = seat.code)
  /\ seats' = seats \ {seat}
  /\ UNCHANGED <<tab, wires>>

\* The host ends a game.
EndsGame(seat) ==
  /\ seats' = {s \in seats : s.code # seat.code}
  /\ wires' = [w \in Wires |->
                 IF wires[w].phase = "open" /\ wires[w].seat.code = seat.code
                 THEN [wires[w] EXCEPT !.inbox = Append(@, Message("game_ended", seat)),
                                       !.seat = NoSession]
                 ELSE wires[w]]
  /\ UNCHANGED tab

SessionsNext ==
  \/ TapIntent \/ LeaveGame \/ BackToLanding \/ ReloadTab
  \/ \E w \in Wires : Hear(w) \/ WireCloses(w)
  \/ \E timer \in tab.timers : RetryFires(timer)
  \/ \E w \in Wires : Grant(w) \/ Refuse(w) \/ ServeReconnect(w) \/ LoseWire(w)
  \/ \E seat \in seats : DropSeat(seat) \/ EndsGame(seat)

SessionsSpec == SessionsInit /\ [][SessionsNext]_sessionVars

-----------------------------------------------------------------------------
(* Properties, up to an intent that mixes a session with another.          *)

\* A session that would be resumed is one seat's: pid, code and token, saved one at a
\* time by different frames of sockets that come and go, were granted together, and no
\* newer token has replaced the one saved.
SessionFits ==
  HasSession(tab) /\ ~tab.mixed =>
    /\ tab.saved.token # NoId
    /\ tab.saved.pid = Pid(tab.saved.token)
    /\ tab.saved.code \in {tab.saved.token, Theirs}
    /\ \A s \in seats : s.pid = tab.saved.pid /\ s.code = tab.saved.code
                        => s.token = tab.saved.token

AtRest ==
  /\ ~tab.reconnecting
  /\ \A w \in Wires : wires[w].phase \notin {"opening", "closed"} /\ wires[w].inbox = <<>>

\* Once the sockets are quiet, a tab with a game in hand and its session saved sends its
\* taps on the socket the server has for its player.
InTouch ==
  AtRest /\ tab.held /\ HasSession(tab) /\ ~tab.mixed =>
    /\ tab.ws # NoId
    /\ wires[tab.ws].seat.pid = tab.saved.pid /\ wires[tab.ws].seat.code = tab.saved.code

\* "Reconnecting" never waits for nothing: an attempt is under way or a retry is due.
ReconnectingEnds ==
  tab.reconnecting =>
    \/ tab.timers # {}
    \/ \E w \in Wires : wires[w].onclose = "retry"
                        /\ (wires[w].phase \in {"opening", "closed"} \/ wires[w].inbox # <<>>)

===============================================================================
