---------------------------- MODULE SessionsProofs ----------------------------
(***************************************************************************)
(* Proofs about what frames leave behind in the page.  Module Sessions,    *)
(* for any number of sockets: that the saved session is one seat's, that a *)
(* game in hand is in touch with its seat, and that a loop that reconnects *)
(* has something to wait for.  Module Roster, for any guests, frames and   *)
(* animations: that the lobby's list settles on the last frame.            *)
(***************************************************************************)
EXTENDS Sessions, Roster, TLAPS

-----------------------------------------------------------------------------
(* The saved session.                                                      *)

Seat == [pid : Drawn, code : Drawn, token : Drawn]

Types == {"welcome", "auth_ok", "reconnect_token", "state", "error", "fatal", "ping", "game_ended"}

Tab ==
  [saved : Seat, held : BOOLEAN, reconnecting : BOOLEAN, ws : Wires \cup {NoId},
   screen : {"landing", "loading", "game"},
   timers : SUBSET [pid : Drawn, code : Drawn, by : Wires], signedIn : BOOLEAN, mixed : BOOLEAN]

Frame == [type : Types, seat : Seat]

Wire ==
  [phase : {"none", "opening", "open", "closed", "done"}, wired : {"dispatch", "attempt"},
   onclose : {"off", "handle", "retry"}, asked : Seat, seat : Seat, inbox : Seq(Frame)]

\* An attempt that the server has served waits for its answer, and what is not in use is
\* empty.
WireSound(p) ==
  /\ p.phase \in {"none", "done"}
       => p.onclose = "off" /\ p.wired = "dispatch" /\ p.inbox = <<>> /\ p.seat = NoSession
  /\ p.phase = "opening" => p.inbox = <<>> /\ p.seat = NoSession
  /\ p.phase = "opening" /\ p.wired = "dispatch" => p.asked.code \in {NoId, Theirs}
  /\ p.phase = "closed" => p.seat = NoSession
  /\ p.onclose = "retry" => p.wired = "attempt"
  /\ p.wired = "attempt" => p.onclose \in {"retry", "off"}
  /\ p.wired = "attempt" /\ p.phase = "open"
       => \E i \in 1..Len(p.inbox) : p.inbox[i].type \in {"state", "fatal"}

\* Pid, code and token of one grant.
Granted(t, s) ==
  /\ s.token \in Wires
  /\ s.pid = IF t.signedIn THEN AccountId ELSE s.token
  /\ s.code \in {s.token, Theirs}

Newest(s, ss) == \A r \in ss : r.pid = s.pid /\ r.code = s.code => r.token = s.token

-----------------------------------------------------------------------------
(* The page's own socket, p, in an unmixed tab t.                          *)

SavedFits(t, ss) == t.saved.code # NoId => Granted(t, t.saved) /\ Newest(t.saved, ss)

\* A retry waits alone: the socket it follows is done.
TimerAlone(t, p) ==
  \A r \in t.timers :
    /\ t.timers = {r}
    /\ p.phase \in {"none", "done"}
    /\ t.reconnecting => r.pid = t.saved.pid /\ r.code = t.saved.code
    /\ ~t.reconnecting => t.saved = NoSession

\* The loop resumes the session that is saved, or none is.
LoopFits(t, p) ==
  /\ t.reconnecting => t.saved.code # NoId /\ (t.timers # {} \/ p.onclose = "retry")
  /\ p.onclose = "retry" =>
       /\ t.reconnecting => p.asked = t.saved
       /\ ~t.reconnecting => t.saved = NoSession
       /\ p.phase = "opening" => p.asked.token = NoId \/ p.asked = t.saved
  /\ p.onclose = "off" => p.phase \in {"none", "done"}

Fresh == {"welcome", "auth_ok", "reconnect_token"}

Matches(t, s) ==
  t.saved.pid = s.pid /\ t.saved.token = s.token /\ t.saved.code \in {NoId, s.code}

\* What a frame under way will save completes what the page has, or what the frame before
\* it will have saved.
OpeningFits(t, p, i) ==
  LET f == p.inbox[i]
  IN  /\ f.type = "welcome" => i = 1
      /\ f.type \in {"auth_ok", "reconnect_token"} => p.wired = "dispatch"
      /\ f.type \in Fresh /\ p.wired = "dispatch" => t.saved.code = NoId

TokenFits(t, p, i) ==
  LET q == p.inbox
  IN  q[i].type = "reconnect_token" =>
        /\ Granted(t, q[i].seat)
        /\ \/ i = 1 /\ t.saved.pid = q[i].seat.pid
           \/ /\ i > 1 /\ q[i - 1].type \in {"welcome", "auth_ok"}
              /\ q[i - 1].seat.pid = q[i].seat.pid

StateFits(t, p, i, ss) ==
  LET q == p.inbox
  IN  q[i].type = "state" =>
        /\ Granted(t, q[i].seat) /\ Newest(q[i].seat, ss)
        /\ \/ i > 1 /\ q[i - 1].type = "reconnect_token" /\ q[i - 1].seat = q[i].seat
           \/ /\ Matches(t, q[i].seat)
              /\ \A j \in 1..Len(q) :
                   q[j].type \in Fresh => q[j].type = "welcome" /\ p.wired = "attempt"
        /\ \A j \in 1..Len(q) : j > i => q[j].type = "game_ended"
        /\ \/ p.phase # "open" \/ p.seat = q[i].seat
           \/ \E j \in 1..Len(q) : q[j].type = "game_ended"

EndFits(p, i) ==
  p.inbox[i].type \in {"game_ended", "fatal"} => i = Len(p.inbox) /\ p.seat = NoSession

FrameFits(t, p, i, ss) ==
  OpeningFits(t, p, i) /\ TokenFits(t, p, i) /\ StateFits(t, p, i, ss) /\ EndFits(p, i)

InboxFits(t, p, ss) ==
  /\ p.phase = "opening" /\ p.wired = "dispatch" => t.saved.code = NoId
  /\ \A i \in 1..Len(p.inbox) : FrameFits(t, p, i, ss)

\* A seat the server maps to the socket is the one saved, or is about to be.
SeatFits(t, p) ==
  p.seat # NoSession =>
    /\ Granted(t, p.seat)
    /\ \/ t.saved.pid = p.seat.pid /\ t.saved.code = p.seat.code
       \/ \E i \in 1..Len(p.inbox) : p.inbox[i].type = "state"

\* A game in hand is played on the socket, unless the page is about to hear that it is not.
HeldFits(t, p) ==
  t.held /\ t.saved.code # NoId /\ ~t.reconnecting =>
    \/ p.seat.pid = t.saved.pid /\ p.seat.code = t.saved.code
    \/ p.phase = "closed" /\ p.onclose = "handle"
    \/ \E i \in 1..Len(p.inbox) : p.inbox[i].type \in {"game_ended", "fatal"}

Fits(t, p, ss) ==
  /\ SavedFits(t, ss) /\ TimerAlone(t, p) /\ LoopFits(t, p)
  /\ InboxFits(t, p, ss) /\ SeatFits(t, p) /\ HeldFits(t, p)

\* The page's socket, or what stands for none.
PageWire(t, ws) == IF t.ws = NoId THEN NoWire ELSE ws[t.ws]

Quiet(p) == p.phase # "opening" /\ p.inbox = <<>> /\ p.seat = NoSession

\* Only the page's socket has anything to say.
Tied(t, ws, ss) ==
  (\A v \in Wires \ {t.ws} : Quiet(ws[v])) /\ Fits(t, PageWire(t, ws), ss)

Ending(p) ==
  p.onclose = "retry" /\ (p.phase \in {"opening", "closed"} \/ p.inbox # <<>>)

Looping(t, ws) == t.reconnecting => t.timers # {} \/ \E v \in Wires : Ending(ws[v])

Sound(t, ws, ss) ==
  /\ t \in Tab /\ ws \in [Wires -> Wire] /\ ss \in SUBSET Seat
  /\ \A v \in Wires : WireSound(ws[v])
  /\ \A s \in ss : Granted(t, s)

Good(t, ws, ss) == Sound(t, ws, ss) /\ Looping(t, ws) /\ (t.mixed \/ Tied(t, ws, ss))

SessionInv == Good(tab, wires, seats)

-----------------------------------------------------------------------------

LEMMA Ids ==
  /\ NoId \in Drawn /\ AccountId \in Drawn /\ Theirs \in Drawn /\ Wires \subseteq Drawn
  /\ NoId \notin Wires /\ AccountId \notin Wires /\ Theirs \notin Wires
  /\ AccountId # NoId /\ Theirs # NoId /\ Wires \subseteq Nat
  /\ NoSession \in Seat /\ NoSession.pid = NoId /\ NoSession.code = NoId
  /\ NoSession.token = NoId
BY SessionConstants DEF NoId, Drawn, AccountId, Theirs, Wires, NoSession, Seat

LEMMA Blank == NoWire \in Wire /\ WireSound(NoWire)
<1>1. <<>> \in Seq(Frame)
  OBVIOUS
<1> QED
  BY <1>1, Ids DEF NoWire, Wire, WireSound

LEMMA GrantedIds ==
  ASSUME NEW t \in Tab, NEW s \in Seat, Granted(t, s)
  PROVE  s.pid # NoId /\ s.code # NoId /\ s.token # NoId /\ s # NoSession
BY Ids DEF Granted

LEMMA First ==
  ASSUME NEW q \in Seq(Frame), q # <<>>
  PROVE  /\ Head(q) \in Frame /\ Head(q) = q[1] /\ Len(q) \in Nat /\ Len(q) >= 1
         /\ Tail(q) \in Seq(Frame) /\ Len(Tail(q)) = Len(q) - 1
         /\ \A i \in 1..Len(Tail(q)) : Tail(q)[i] = q[i + 1] /\ i + 1 \in 1..Len(q)
         /\ \A i \in 1..Len(q) : i # 1 => i - 1 \in 1..Len(Tail(q)) /\ Tail(q)[i - 1] = q[i]
         /\ \A i \in 1..Len(q) : q[i] \in Frame
OBVIOUS

\* What reading frame f makes of the page.
LEMMA Handled ==
  ASSUME NEW t \in Tab, NEW f \in Frame
  PROVE  /\ HandleMessage(t, f) \in Tab
         /\ HandleMessage(t, f).ws = t.ws /\ HandleMessage(t, f).timers = t.timers
         /\ HandleMessage(t, f).signedIn = t.signedIn /\ HandleMessage(t, f).mixed = t.mixed
         /\ f.type # "fatal" => HandleMessage(t, f).reconnecting = t.reconnecting
         /\ f.type \in {"welcome", "auth_ok"} =>
              /\ HandleMessage(t, f).saved = [t.saved EXCEPT !.pid = f.seat.pid]
              /\ HandleMessage(t, f).held = t.held
         /\ f.type = "reconnect_token" =>
              /\ HandleMessage(t, f).saved = [t.saved EXCEPT !.token = f.seat.token]
              /\ HandleMessage(t, f).held = t.held
         /\ f.type = "state" =>
              HandleMessage(t, f).saved = [t.saved EXCEPT !.code = f.seat.code]
         /\ f.type \in {"error", "ping"} =>
              HandleMessage(t, f).saved = t.saved /\ HandleMessage(t, f).held = t.held
         /\ f.type = "game_ended" => HandleMessage(t, f).saved = NoSession
         /\ f.type = "fatal" =>
              HandleMessage(t, f).saved = NoSession /\ ~HandleMessage(t, f).reconnecting
<1>1. f.type \in Types /\ f.seat \in Seat /\ t.saved \in Seat
  BY DEF Frame, Tab
<1>2. CASE f.type \in {"welcome", "auth_ok"}
  BY <1>1, <1>2 DEF HandleMessage, Saving, Tab, Seat
<1>3. CASE f.type = "reconnect_token"
  BY <1>1, <1>3 DEF HandleMessage, Saving, Tab, Seat
<1>4. CASE f.type = "state"
  BY <1>1, <1>4 DEF HandleMessage, Saving, Tab, Seat
<1>5. CASE f.type \in {"error", "ping"}
  BY <1>1, <1>5 DEF HandleMessage, Saving, Tab, Seat
<1>6. CASE f.type = "game_ended"
  BY <1>1, <1>6, Ids DEF HandleMessage, Saving, Tab
<1>7. CASE f.type = "fatal"
  BY <1>1, <1>7, Ids DEF HandleMessage, ExpireSession, Tab
<1> QED
  BY <1>1, <1>2, <1>3, <1>4, <1>5, <1>6, <1>7 DEF Types

\* What a frame of r, the i-th, needs of the page or of the one before it, in p.
Awaited(u, p, r, i) ==
  LET f == r.inbox[i]
  IN  /\ f.type = "reconnect_token" /\ i = 1 => u.saved.pid = f.seat.pid
      /\ f.type = "state" =>
           \/ i > 1 /\ p.inbox[i].type = "reconnect_token" /\ p.inbox[i].seat = f.seat
           \/ /\ Matches(u, f.seat)
              /\ \A j \in 1..Len(r.inbox) :
                   r.inbox[j].type \in Fresh => r.inbox[j].type = "welcome" /\ r.wired = "attempt"

\* A frame that is not the first fits after the first has been read, given what its
\* predecessor, or the page, now tells.
LEMMA Onward ==
  ASSUME NEW t \in Tab, NEW p \in Wire, NEW ss \in SUBSET Seat, NEW u \in Tab, NEW r \in Wire,
         p.inbox # <<>>, r.inbox = Tail(p.inbox), u.signedIn = t.signedIn,
         r.seat = p.seat, r.phase = p.phase,
         InboxFits(t, p, ss), NEW i \in 1..Len(r.inbox), OpeningFits(u, r, i), Awaited(u, p, r, i)
  PROVE  FrameFits(u, r, i, ss)
<1> DEFINE q == p.inbox
           n == r.inbox
<1>1. /\ q \in Seq(Frame) /\ Len(q) \in Nat /\ Len(n) = Len(q) - 1 /\ i \in Nat /\ i >= 1
      /\ \A j \in 1..Len(n) : n[j] = q[j + 1]
      /\ i + 1 \in 1..Len(q) /\ i + 1 > 1 /\ (i + 1) - 1 = i
      /\ i > 1 => i - 1 \in 1..Len(n) /\ n[i - 1] = q[i]
      /\ n[i] = q[i + 1] /\ n[i] \in Frame
  <2>1. q \in Seq(Frame)
    BY DEF Wire
  <2>2. Len(n) = Len(q) - 1 /\ (\A j \in 1..Len(n) : n[j] = q[j + 1]) /\ Len(q) \in Nat
    BY <2>1, First
  <2>3. \A j \in 1..Len(q) : q[j] \in Frame
    BY <2>1, First
  <2> HIDE DEF q, n
  <2> QED
    BY <2>1, <2>2, <2>3 DEF n
<1>2. /\ OpeningFits(t, p, i + 1) /\ TokenFits(t, p, i + 1) /\ StateFits(t, p, i + 1, ss)
      /\ EndFits(p, i + 1)
  BY <1>1 DEF FrameFits, InboxFits
<1>3. OpeningFits(u, r, i) /\ EndFits(r, i)
  BY <1>1, <1>2 DEF EndFits
<1>4. TokenFits(u, r, i)
  <2>1. SUFFICES ASSUME n[i].type = "reconnect_token" PROVE TokenFits(u, r, i)
    BY DEF TokenFits
  <2>2. Granted(t, n[i].seat) /\ q[i].type \in {"welcome", "auth_ok"} /\ q[i].seat.pid = n[i].seat.pid
    BY <1>1, <1>2, <2>1 DEF TokenFits
  <2>3. Granted(u, n[i].seat)
    BY <2>2 DEF Granted
  <2> QED
    BY <1>1, <2>1, <2>2, <2>3 DEF TokenFits, Awaited
<1>5. StateFits(u, r, i, ss)
  <2>1. SUFFICES ASSUME n[i].type = "state" PROVE StateFits(u, r, i, ss)
    BY DEF StateFits
  <2>2. /\ Granted(t, n[i].seat) /\ Newest(n[i].seat, ss)
        /\ \A j \in 1..Len(q) : j > i + 1 => q[j].type = "game_ended"
        /\ \/ p.phase # "open" \/ p.seat = n[i].seat
           \/ \E j \in 1..Len(q) : q[j].type = "game_ended"
    BY <1>1, <1>2, <2>1 DEF StateFits
  <2>3. Granted(u, n[i].seat)
    BY <2>2 DEF Granted
  <2>4. \A j \in 1..Len(n) : j > i => n[j].type = "game_ended"
    BY <1>1, <2>2
  <2>5. \/ r.phase # "open" \/ r.seat = n[i].seat
        \/ \E j \in 1..Len(n) : n[j].type = "game_ended"
    <3>1. ASSUME NEW j \in 1..Len(q), q[j].type = "game_ended"
          PROVE  n[Len(n)].type = "game_ended" /\ Len(n) \in 1..Len(n)
      <4>1. j = Len(q)
        BY <3>1 DEF FrameFits, EndFits, InboxFits
      <4> HIDE DEF q, n
      <4>2. Len(n) \in 1..Len(n) /\ Len(n) + 1 = Len(q)
        BY <1>1
      <4>3. n[Len(n)] = q[Len(n) + 1]
        BY <1>1, <4>2
      <4> QED
        BY <3>1, <4>1, <4>2, <4>3
    <3> QED
      BY <2>2, <3>1
  <2>6. i > 1 /\ q[i].type = "reconnect_token" /\ q[i].seat = n[i].seat =>
          i > 1 /\ n[i - 1].type = "reconnect_token" /\ n[i - 1].seat = n[i].seat
    BY <1>1
  <2> QED
    BY <2>1, <2>2, <2>3, <2>4, <2>5, <2>6 DEF StateFits, Awaited
<1> QED
  BY <1>3, <1>4, <1>5 DEF FrameFits

LEMMA SeatOnward ==
  ASSUME NEW t \in Tab, NEW p \in Wire, NEW u \in Tab, NEW r \in Wire,
         p.inbox # <<>>, r.inbox = Tail(p.inbox), u.signedIn = t.signedIn, r.seat = p.seat,
         SeatFits(t, p), p.inbox[1].type # "state",
         t.saved.code # NoId => u.saved.pid = t.saved.pid /\ u.saved.code = t.saved.code
  PROVE  SeatFits(u, r)
<1>1. SUFFICES ASSUME p.seat # NoSession PROVE SeatFits(u, r)
  BY DEF SeatFits
<1>2. Granted(t, p.seat) /\ p.seat \in Seat
  BY <1>1 DEF SeatFits, Wire
<1>3. Granted(u, r.seat) /\ p.seat.code # NoId
  BY <1>2, GrantedIds DEF Granted
<1>4. ASSUME NEW i \in 1..Len(p.inbox), p.inbox[i].type = "state"
      PROVE  \E j \in 1..Len(r.inbox) : r.inbox[j].type = "state"
  <2>1. p.inbox \in Seq(Frame) /\ i # 1
    BY <1>4 DEF Wire
  <2>2. i - 1 \in 1..Len(r.inbox) /\ r.inbox[i - 1] = p.inbox[i]
    BY <2>1, First
  <2> QED
    BY <1>4, <2>2
<1> QED
  BY <1>1, <1>3, <1>4 DEF SeatFits

\* The page reads the first frame of a socket whose frames go to handleMessage.
LEMMA Dispatches ==
  ASSUME NEW t \in Tab, NEW p \in Wire, NEW ss \in SUBSET Seat, NEW u \in Tab,
         NEW r \in Wire, NEW f,
         WireSound(p), Fits(t, p, ss), p.wired = "dispatch", p.inbox # <<>>,
         f = p.inbox[1], u = HandleMessage(t, f),
         r = [p EXCEPT !.inbox = Tail(p.inbox)]
  PROVE  Fits(u, r, ss)
<1> DEFINE q == p.inbox
           n == r.inbox
<1>0. /\ f \in Frame /\ f.type \in Types /\ f.seat \in Seat /\ t.saved \in Seat
      /\ q \in Seq(Frame) /\ Len(q) \in Nat /\ Len(q) >= 1 /\ q[1] = f
  <2>1. p.inbox \in Seq(Frame) /\ f \in Frame /\ t.saved \in Seat
    BY First DEF Wire, Tab
  <2> QED
    BY <2>1, First DEF Frame
<1>1. /\ u.ws = t.ws /\ u.timers = t.timers /\ u.signedIn = t.signedIn
      /\ r.phase = p.phase /\ r.wired = p.wired /\ r.onclose = p.onclose
      /\ r.asked = p.asked /\ r.seat = p.seat /\ n = Tail(q)
  BY <1>0, Handled DEF Wire
<1>2. /\ p.phase \in {"open", "closed"} /\ t.timers = {} /\ p.onclose = "handle" /\ p.wired = "dispatch"
      /\ ~t.reconnecting
  BY DEF WireSound, Fits, TimerAlone, LoopFits, Wire
<1>3. ~u.reconnecting /\ u.timers = {}
  BY <1>0, <1>1, <1>2, Handled
<1>4. /\ OpeningFits(t, p, 1) /\ TokenFits(t, p, 1) /\ StateFits(t, p, 1, ss) /\ EndFits(p, 1)
      /\ 1 \in 1..Len(q)
  BY <1>0 DEF Fits, InboxFits, FrameFits
<1>5. TimerAlone(u, r) /\ LoopFits(u, r)
  BY <1>1, <1>2, <1>3 DEF TimerAlone, LoopFits
<1>6. /\ Len(n) = Len(q) - 1
      /\ \A i \in 1..Len(n) : n[i] = q[i + 1] /\ i + 1 \in 1..Len(q)
      /\ \A i \in 1..Len(q) : i # 1 => i - 1 \in 1..Len(n) /\ n[i - 1] = q[i]
      /\ \A i \in 1..Len(q) : q[i] \in Frame
  BY <1>0, <1>1, First
<1>7. /\ \A i \in 1..Len(q) : FrameFits(t, p, i, ss)
      /\ SavedFits(t, ss) /\ SeatFits(t, p) /\ HeldFits(t, p)
  BY DEF Fits, InboxFits
<1>8. ASSUME SavedFits(u, ss), SeatFits(u, r), HeldFits(u, r),
             \A i \in 1..Len(n) : FrameFits(u, r, i, ss)
      PROVE  Fits(u, r, ss)
  BY <1>1, <1>2, <1>5, <1>8 DEF Fits, InboxFits
\* What follows the first frame, to be read with what the page has then.
<1>9. ASSUME NEW i \in 1..Len(n)
      PROVE  /\ OpeningFits(t, p, i + 1) /\ TokenFits(t, p, i + 1)
             /\ StateFits(t, p, i + 1, ss) /\ EndFits(p, i + 1)
             /\ i \in Nat /\ i >= 1 /\ i + 1 > 1 /\ (i + 1) - 1 = i /\ n[i] = q[i + 1] /\ n[i] \in Frame
             /\ i + 1 \in 1..Len(q)
  BY <1>0, <1>6, <1>7 DEF FrameFits
<1>15. ASSUME NEW i \in 1..Len(n), n[i].type = "reconnect_token"
       PROVE  q[i].type \in {"welcome", "auth_ok"} /\ q[i].seat.pid = n[i].seat.pid
  <2>1. TokenFits(t, p, i + 1) /\ (i + 1) - 1 = i /\ i + 1 > 1 /\ n[i] = q[i + 1]
    BY <1>9
  <2> QED
    BY <1>15, <2>1 DEF TokenFits
<1>16. ASSUME NEW i \in 1..Len(n), n[i].type = "state"
       PROVE  /\ \/ q[i].type = "reconnect_token" /\ q[i].seat = n[i].seat
                 \/ /\ Matches(t, n[i].seat)
                    /\ \A j \in 1..Len(q) : q[j].type \notin Fresh
              /\ \A j \in 1..Len(q) : j > i + 1 => q[j].type = "game_ended"
  <2>1. StateFits(t, p, i + 1, ss) /\ (i + 1) - 1 = i /\ n[i] = q[i + 1]
    BY <1>9
  <2> QED
    BY <1>2, <1>16, <2>1 DEF StateFits
<1>17. ASSUME NEW i \in 1..Len(n), OpeningFits(u, r, i), Awaited(u, p, r, i)
       PROVE  FrameFits(u, r, i, ss)
  BY <1>1, <1>17, Onward DEF Fits
<1> HIDE DEF q, n
<1>10. CASE f.type \in {"welcome", "auth_ok"}
  <2>1. u.saved = [t.saved EXCEPT !.pid = f.seat.pid] /\ t.saved.code = NoId
    BY <1>0, <1>4, <1>10, Handled DEF OpeningFits, Fresh, q
  <2>2. u.saved.pid = f.seat.pid /\ u.saved.code = NoId
    BY <1>0, <2>1 DEF Seat
  <2>3. SavedFits(u, ss) /\ HeldFits(u, r)
    BY <2>2 DEF SavedFits, HeldFits
  <2>4. SeatFits(u, r)
    BY <1>0, <1>1, <1>7, <1>10, <2>2, <2>1, SeatOnward DEF q, n
  <2>5. ASSUME NEW i \in 1..Len(n) PROVE FrameFits(u, r, i, ss)
    <3>1. OpeningFits(u, r, i)
      BY <1>0, <1>1, <1>9, <2>2 DEF OpeningFits, q, n
    <3>2. n[i].type = "reconnect_token" /\ i = 1 => u.saved.pid = n[i].seat.pid
      BY <1>0, <1>15, <2>2 DEF n
    <3>3. n[i].type = "state" => i > 1 /\ q[i].type = "reconnect_token" /\ q[i].seat = n[i].seat
      <4>1. i \in Nat /\ i >= 1
        BY <1>9
      <4>2. q[1].type \in Fresh /\ q[1].type # "reconnect_token"
        BY <1>0, <1>10 DEF Fresh
      <4> QED
        BY <1>4, <1>16, <4>1, <4>2
    <3> QED
      BY <1>17, <3>1, <3>2, <3>3 DEF Awaited, n, q
  <2> QED
    BY <1>8, <2>3, <2>4, <2>5
<1>11. CASE f.type = "reconnect_token"
  <2>1. u.saved = [t.saved EXCEPT !.token = f.seat.token] /\ t.saved.code = NoId
    BY <1>0, <1>4, <1>11, Handled DEF OpeningFits, Fresh, q
  <2>2. u.saved.pid = t.saved.pid /\ u.saved.token = f.seat.token /\ u.saved.code = NoId
    BY <1>0, <2>1 DEF Seat
  <2>3. SavedFits(u, ss) /\ HeldFits(u, r)
    BY <2>2 DEF SavedFits, HeldFits
  <2>4. SeatFits(u, r)
    BY <1>0, <1>1, <1>7, <1>11, <2>2, <2>1, SeatOnward DEF q, n
  <2>5. t.saved.pid = f.seat.pid
    BY <1>0, <1>4, <1>11 DEF TokenFits, q
  <2>6. ASSUME NEW i \in 1..Len(n) PROVE FrameFits(u, r, i, ss)
    <3>1. OpeningFits(u, r, i)
      BY <1>0, <1>1, <1>9, <2>2 DEF OpeningFits, q, n
    <3>2. ~(n[i].type = "reconnect_token" /\ i = 1)
      BY <1>0, <1>11, <1>15
    <3>3. ASSUME n[i].type = "state"
          PROVE  \/ i > 1 /\ q[i].type = "reconnect_token" /\ q[i].seat = n[i].seat
                 \/ /\ Matches(u, n[i].seat)
                    /\ \A j \in 1..Len(n) : n[j].type \notin Fresh
      <4>1. i \in Nat /\ i >= 1
        BY <1>9
      <4>2. \A j \in 1..Len(q) : j > i + 1 => q[j].type = "game_ended"
        BY <1>16, <3>3
      <4>3. f.type \in Fresh
        BY <1>11 DEF Fresh
      <4>4. q[i].type = "reconnect_token" /\ q[i].seat = n[i].seat
        BY <1>0, <1>4, <1>16, <3>3, <4>3
      <4>5. CASE i = 1
        <5>1. Matches(u, n[i].seat)
          BY <1>0, <2>2, <2>5, <4>4, <4>5 DEF Matches
        <5>2. ASSUME NEW j \in 1..Len(n) PROVE n[j].type \notin Fresh
          <6>1. n[j] = q[j + 1] /\ j + 1 \in 1..Len(q) /\ (j = 1 \/ j + 1 > i + 1)
            BY <1>0, <1>6, <4>5
          <6> QED
            BY <3>3, <4>2, <4>5, <6>1 DEF Fresh
        <5> QED
          BY <5>1, <5>2
      <4> QED
        BY <4>1, <4>4, <4>5
    <3> QED
      BY <1>17, <3>1, <3>2, <3>3 DEF Awaited, n, q
  <2> QED
    BY <1>8, <2>3, <2>4, <2>6
<1>12. CASE f.type = "state"
  <2>1. /\ u.saved = [t.saved EXCEPT !.code = f.seat.code]
        /\ Granted(t, f.seat) /\ Newest(f.seat, ss) /\ Matches(t, f.seat)
        /\ \A j \in 1..Len(q) : j > 1 => q[j].type = "game_ended"
        /\ \/ p.phase # "open" \/ p.seat = f.seat
           \/ \E j \in 1..Len(q) : q[j].type = "game_ended"
    BY <1>0, <1>4, <1>12, Handled DEF StateFits, q
  <2>2. u.saved = f.seat
    BY <1>0, <2>1 DEF Seat, Matches
  <2>3. SavedFits(u, ss)
    BY <1>1, <2>1, <2>2 DEF SavedFits, Granted
  <2>4. \/ p.phase = "closed"
        \/ p.seat = f.seat
        \/ \E j \in 1..Len(n) : n[j].type = "game_ended"
    BY <1>0, <1>2, <1>6, <1>12, <2>1
  <2>5. ASSUME NEW j \in 1..Len(n), n[j].type = "game_ended" PROVE p.seat = NoSession
    BY <1>9, <2>5 DEF EndFits, q
  <2>6. SeatFits(u, r)
    <3>1. p.phase = "closed" => p.seat = NoSession
      BY DEF WireSound
    <3> QED
      BY <1>1, <2>1, <2>2, <2>4, <2>5, <3>1 DEF SeatFits, Granted
  <2>7. HeldFits(u, r)
    BY <1>1, <1>2, <2>2, <2>4 DEF HeldFits, n
  <2>8. ASSUME NEW i \in 1..Len(n) PROVE FrameFits(u, r, i, ss)
    <3>1. n[i].type = "game_ended"
      BY <1>9, <2>1
    <3> QED
      BY <1>17, <3>1 DEF Awaited, OpeningFits, Fresh, n
  <2> QED
    BY <1>8, <2>3, <2>6, <2>7, <2>8
<1>13. CASE f.type \in {"error", "ping"}
  <2>1. u.saved = t.saved /\ u.held = t.held
    BY <1>0, <1>13, Handled
  <2>2. SavedFits(u, ss)
    BY <1>1, <1>7, <2>1 DEF SavedFits, Granted
  <2>3. SeatFits(u, r)
    BY <1>0, <1>1, <1>7, <1>13, <2>1, SeatOnward DEF q, n
  <2>4. HeldFits(u, r)
    <3>1. ASSUME NEW i \in 1..Len(q), q[i].type \in {"game_ended", "fatal"}
          PROVE  \E j \in 1..Len(n) : n[j].type \in {"game_ended", "fatal"}
      BY <1>0, <1>6, <1>13, <3>1
    <3> QED
      BY <1>1, <1>2, <1>3, <1>7, <2>1, <3>1 DEF HeldFits, q, n
  <2>5. ASSUME NEW i \in 1..Len(n) PROVE FrameFits(u, r, i, ss)
    <3>1. OpeningFits(u, r, i)
      BY <1>0, <1>1, <1>9, <2>1 DEF OpeningFits, q, n
    <3>2. ~(n[i].type = "reconnect_token" /\ i = 1)
      BY <1>0, <1>13, <1>15
    <3>3. ASSUME n[i].type = "state"
          PROVE  \/ i > 1 /\ q[i].type = "reconnect_token" /\ q[i].seat = n[i].seat
                 \/ /\ Matches(u, n[i].seat)
                    /\ \A j \in 1..Len(n) : n[j].type \notin Fresh
      <4>1. CASE q[i].type = "reconnect_token" /\ q[i].seat = n[i].seat
        <5>1. i \in Nat /\ i >= 1 /\ i # 1
          BY <1>0, <1>9, <1>13, <4>1
        <5> QED
          BY <4>1, <5>1
      <4>2. CASE Matches(t, n[i].seat) /\ \A j \in 1..Len(q) : q[j].type \notin Fresh
        BY <1>6, <2>1, <4>2 DEF Matches
      <4> QED
        BY <1>16, <3>3, <4>1, <4>2
    <3> QED
      BY <1>17, <3>1, <3>2, <3>3 DEF Awaited, n, q
  <2> QED
    BY <1>8, <2>2, <2>3, <2>4, <2>5
<1>14. CASE f.type \in {"game_ended", "fatal"}
  <2>1. u.saved = NoSession /\ p.seat = NoSession /\ Len(q) = 1
    BY <1>0, <1>4, <1>14, Handled DEF EndFits, q
  <2>2. u.saved.code = NoId /\ Len(n) = 0
    BY <1>6, <2>1, Ids
  <2>3. SavedFits(u, ss) /\ SeatFits(u, r) /\ HeldFits(u, r)
    BY <1>1, <2>1, <2>2 DEF SavedFits, SeatFits, HeldFits
  <2>4. 1..Len(n) = {}
    BY <2>2
  <2> QED
    BY <1>8, <2>3, <2>4
<1> QED
  BY <1>0, <1>10, <1>11, <1>12, <1>13, <1>14 DEF Types

\* The frames an attempt still has to hear, n after the first: no token is among them.
Unheard(t, p, ss, n) ==
  LET q == p.inbox
  IN  /\ q \in Seq(Frame) /\ Len(q) \in Nat /\ Len(q) >= 1 /\ 1 \in 1..Len(q)
      /\ q[1] \in Frame /\ q[1].type \in Types /\ q[1].seat \in Seat
      /\ n \in Seq(Frame) /\ Len(n) = Len(q) - 1
      /\ \A i \in 1..Len(q) :
           /\ OpeningFits(t, p, i) /\ StateFits(t, p, i, ss) /\ EndFits(p, i)
           /\ q[i].type \notin {"auth_ok", "reconnect_token"}
           /\ q[i].type = "state" => Matches(t, q[i].seat)
           /\ i # 1 => i - 1 \in 1..Len(n) /\ n[i - 1] = q[i]
      /\ \A i \in 1..Len(n) :
           /\ n[i] = q[i + 1] /\ i + 1 \in 1..Len(q) /\ i >= 1 /\ i \in Nat
           /\ n[i].type \notin Fresh

LEMMA AttemptUnheard ==
  ASSUME NEW t \in Tab, NEW p \in Wire, NEW ss \in SUBSET Seat,
         InboxFits(t, p, ss), p.inbox # <<>>, p.wired = "attempt"
  PROVE  Unheard(t, p, ss, Tail(p.inbox))
<1> DEFINE n == Tail(p.inbox)
<1> DEFINE q == p.inbox
<1>1. q \in Seq(Frame)
  BY DEF Wire
<1>2. /\ Len(q) \in Nat /\ Len(q) >= 1 /\ q[1] \in Frame /\ 1 \in 1..Len(q)
      /\ n \in Seq(Frame) /\ Len(n) = Len(q) - 1
      /\ \A i \in 1..Len(n) : n[i] = q[i + 1] /\ i + 1 \in 1..Len(q)
      /\ \A i \in 1..Len(q) : i # 1 => i - 1 \in 1..Len(n) /\ n[i - 1] = q[i]
  BY <1>1, First
<1>3. ASSUME NEW i \in 1..Len(q)
      PROVE  /\ OpeningFits(t, p, i) /\ StateFits(t, p, i, ss) /\ EndFits(p, i)
             /\ q[i].type \notin {"auth_ok", "reconnect_token"}
             /\ q[i].type = "welcome" => i = 1
  BY <1>3 DEF InboxFits, FrameFits, OpeningFits
<1>4. ASSUME NEW i \in 1..Len(q), q[i].type = "state"
      PROVE  Matches(t, q[i].seat)
  <2>1. CASE i > 1
    <3>1. i - 1 \in 1..Len(q)
      BY <1>2, <2>1
    <3> QED
      BY <1>3, <1>4, <3>1 DEF StateFits
  <2>2. CASE ~(i > 1)
    BY <1>3, <1>4, <2>2 DEF StateFits
  <2> QED
    BY <2>1, <2>2
<1> HIDE DEF q, n
<1>5. ASSUME NEW i \in 1..Len(n)
      PROVE  i >= 1 /\ i \in Nat /\ n[i].type \notin Fresh
  <2>1. n[i] = q[i + 1] /\ i + 1 \in 1..Len(q) /\ i + 1 # 1 /\ i >= 1 /\ i \in Nat
    BY <1>2
  <2> QED
    BY <1>3, <2>1 DEF Fresh
<1>6. q[1].type \in Types /\ q[1].seat \in Seat
  BY <1>2 DEF Frame
<1> QED
  BY <1>1, <1>2, <1>3, <1>4, <1>5, <1>6 DEF Unheard, q, n

\* The first frame of an attempt: a welcome is passed over, a refusal ends the session, and
\* any other makes it live.
LEMMA WelcomePassed ==
  ASSUME NEW t \in Tab, NEW p \in Wire, NEW ss \in SUBSET Seat, NEW r \in Wire,
         Fits(t, p, ss), p.inbox # <<>>, p.inbox[1].type = "welcome", p.wired = "attempt",
         r = [p EXCEPT !.inbox = Tail(p.inbox)]
  PROVE  Fits(t, r, ss)
<1> DEFINE q == p.inbox
           n == r.inbox
<1>1. /\ r.phase = p.phase /\ r.wired = p.wired /\ r.onclose = p.onclose
      /\ r.asked = p.asked /\ r.seat = p.seat /\ n = Tail(q)
  BY DEF Wire
<1>2. InboxFits(t, p, ss) /\ SeatFits(t, p) /\ HeldFits(t, p)
  BY DEF Fits
<1>8. Unheard(t, p, ss, n)
  BY <1>1, <1>2, AttemptUnheard
<1>3. SavedFits(t, ss) /\ TimerAlone(t, r) /\ LoopFits(t, r)
  BY <1>1 DEF Fits, TimerAlone, LoopFits
<1>4. SeatFits(t, r)
  BY <1>1, <1>2, SeatOnward
<1>5. HeldFits(t, r)
  <2>1. ASSUME NEW i \in 1..Len(q), q[i].type \in {"game_ended", "fatal"}
        PROVE  \E j \in 1..Len(n) : n[j].type \in {"game_ended", "fatal"}
    BY <1>8, <1>1, <1>2, <2>1 DEF Unheard
  <2> QED
    BY <1>1, <1>2, <2>1 DEF HeldFits
<1>6. ASSUME NEW i \in 1..Len(n) PROVE FrameFits(t, r, i, ss)
  <2>1. OpeningFits(t, r, i)
    BY <1>8, <1>1, <1>2 DEF OpeningFits, Fresh, Unheard
  <2>2. Awaited(t, p, r, i)
    BY <1>8, <1>1, <1>2 DEF Awaited, Fresh, Unheard
  <2> QED
    BY <1>1, <1>2, <2>1, <2>2, Onward
<1>7. InboxFits(t, r, ss)
  BY <1>1, <1>2, <1>6 DEF InboxFits
<1> QED
  BY <1>3, <1>4, <1>5, <1>7 DEF Fits

LEMMA Refused ==
  ASSUME NEW t \in Tab, NEW p \in Wire, NEW ss \in SUBSET Seat, NEW u \in Tab, NEW r \in Wire,
         Fits(t, p, ss), p.wired = "attempt", p.phase \in {"open", "closed"}, WireSound(p),
         u = ExpireSession(t),
         r = [p EXCEPT !.phase = "closed", !.inbox = <<>>, !.seat = NoSession]
  PROVE  Fits(u, r, ss)
<1>1. /\ u.saved = NoSession /\ u.saved.code = NoId /\ ~u.reconnecting /\ ~u.held
      /\ u.timers = t.timers
  BY Ids DEF ExpireSession, Tab
<1>2. r.phase = "closed" /\ r.inbox = <<>> /\ r.seat = NoSession /\ r.onclose = p.onclose
  BY DEF Wire
<1>3. t.timers = {} /\ p.onclose = "retry"
  BY DEF Fits, TimerAlone, LoopFits, WireSound
<1> QED
  BY <1>1, <1>2, <1>3
     DEF Fits, SavedFits, TimerAlone, LoopFits, InboxFits, SeatFits, HeldFits

LEMMA Live ==
  ASSUME NEW t \in Tab, NEW p \in Wire, NEW ss \in SUBSET Seat, NEW u \in Tab,
         NEW r \in Wire, NEW f,
         WireSound(p), Fits(t, p, ss), p.wired = "attempt", p.inbox # <<>>,
         f = p.inbox[1], f.type \notin {"welcome", "fatal"},
         NEW v \in Tab, v = [t EXCEPT !.reconnecting = FALSE], u = HandleMessage(v, f),
         r = [p EXCEPT !.inbox = Tail(p.inbox), !.wired = "dispatch", !.onclose = "handle"]
  PROVE  Fits(u, r, ss)
<1> DEFINE q == p.inbox
           n == r.inbox
<1>1. /\ r.phase = p.phase /\ r.wired = "dispatch" /\ r.onclose = "handle"
      /\ r.seat = p.seat /\ n = Tail(q)
  BY DEF Wire
<1>2. /\ InboxFits(t, p, ss) /\ SeatFits(t, p) /\ SavedFits(t, ss)
      /\ p.phase \in {"open", "closed"} /\ t.timers = {}
  BY DEF Fits, WireSound, TimerAlone, LoopFits, Wire
<1>14. Unheard(t, p, ss, n)
  BY <1>1, <1>2, AttemptUnheard
<1>3. /\ f \in Frame /\ f.type \in {"state", "error", "ping", "game_ended"} /\ f.seat \in Seat
      /\ t.saved \in Seat
  BY <1>14, <1>1, <1>2 DEF Types, Tab, Unheard
<1>4. v.saved = t.saved /\ v.held = t.held /\ v.timers = t.timers /\ v.ws = t.ws
      /\ v.signedIn = t.signedIn /\ ~v.reconnecting
  BY DEF Tab
<1>5. u.reconnecting = v.reconnecting /\ u.timers = v.timers /\ u.signedIn = v.signedIn
  BY <1>3, Handled
<1>6. ~u.reconnecting /\ u.timers = {} /\ u.signedIn = t.signedIn
  BY <1>2, <1>4, <1>5
<1>7. TimerAlone(u, r) /\ LoopFits(u, r)
  BY <1>1, <1>6 DEF TimerAlone, LoopFits
<1>8. ASSUME NEW i \in 1..Len(n) PROVE OpeningFits(u, r, i)
  BY <1>14, <1>1, <1>2 DEF OpeningFits, Fresh, Unheard
<1>9. ASSUME NEW i \in 1..Len(n), Awaited(u, p, r, i)
      PROVE  FrameFits(u, r, i, ss)
  BY <1>1, <1>2, <1>6, <1>8, <1>9, Onward
<1>10. ASSUME SavedFits(u, ss), SeatFits(u, r), HeldFits(u, r),
              \A i \in 1..Len(n) : FrameFits(u, r, i, ss)
       PROVE  Fits(u, r, ss)
  BY <1>1, <1>2, <1>7, <1>10 DEF Fits, InboxFits
<1>11. CASE f.type = "state"
  <2>1. u.saved = [t.saved EXCEPT !.code = f.seat.code]
    <3>1. u.saved = [v.saved EXCEPT !.code = f.seat.code]
      BY <1>3, <1>11, Handled
    <3> QED
      BY <1>4, <3>1
  <2>2. /\ Granted(t, f.seat) /\ Newest(f.seat, ss) /\ Matches(t, f.seat)
        /\ \A j \in 1..Len(q) : j > 1 => q[j].type = "game_ended"
        /\ \/ p.phase # "open" \/ p.seat = f.seat
           \/ \E j \in 1..Len(q) : q[j].type = "game_ended"
    BY <1>14, <1>1, <1>2, <1>11 DEF StateFits, Unheard
  <2>3. u.saved = f.seat
    BY <1>3, <2>1, <2>2 DEF Seat, Matches
  <2>4. SavedFits(u, ss)
    BY <1>6, <2>2, <2>3 DEF SavedFits, Granted
  <2>5. \/ p.phase = "closed"
        \/ p.seat = f.seat
        \/ \E j \in 1..Len(n) : n[j].type = "game_ended"
    BY <1>14, <1>1, <1>2, <1>11, <2>2 DEF Unheard
  <2>6. ASSUME NEW j \in 1..Len(n), n[j].type = "game_ended" PROVE p.seat = NoSession
    BY <1>14, <1>1, <1>2, <2>6 DEF EndFits, Unheard
  <2>7. SeatFits(u, r)
    <3>1. p.phase = "closed" => p.seat = NoSession
      BY DEF WireSound
    <3> QED
      BY <1>1, <1>6, <2>2, <2>3, <2>5, <2>6, <3>1 DEF SeatFits, Granted
  <2>8. HeldFits(u, r)
    BY <1>1, <2>3, <2>5 DEF HeldFits
  <2>9. ASSUME NEW i \in 1..Len(n) PROVE FrameFits(u, r, i, ss)
    <3>1. n[i].type = "game_ended"
      BY <1>14, <1>1, <1>2, <2>2 DEF Unheard
    <3> QED
      BY <1>9, <3>1 DEF Awaited
  <2> QED
    BY <1>10, <2>4, <2>7, <2>8, <2>9
<1>12. CASE f.type \in {"error", "ping"}
  <2>1. u.saved = t.saved /\ u.held = t.held
    BY <1>3, <1>4, <1>12, Handled
  <2>2. SavedFits(u, ss)
    BY <1>2, <1>6, <2>1 DEF SavedFits, Granted
  <2>3. SeatFits(u, r)
    BY <1>1, <1>2, <1>6, <1>12, <2>1, SeatOnward
  <2>4. HeldFits(u, r)
    <3>1. SUFFICES ASSUME t.saved.code # NoId, p.phase = "open"
                   PROVE  \/ p.seat.pid = t.saved.pid /\ p.seat.code = t.saved.code
                          \/ \E j \in 1..Len(n) : n[j].type \in {"game_ended", "fatal"}
      BY <1>1, <1>2, <2>1 DEF HeldFits
    <3>2. PICK i \in 1..Len(q) : q[i].type \in {"state", "fatal"}
      BY <3>1 DEF WireSound
    <3>3. CASE q[i].type = "fatal"
      BY <1>14, <1>1, <1>2, <1>12, <3>3 DEF Unheard
    <3>4. CASE q[i].type = "state"
      <4>1. /\ Matches(t, q[i].seat)
            /\ p.seat = q[i].seat \/ \E j \in 1..Len(q) : q[j].type = "game_ended"
        BY <1>14, <1>1, <1>2, <3>1, <3>4 DEF StateFits, Unheard
      <4>2. CASE p.seat = q[i].seat
        BY <3>1, <4>1, <4>2 DEF Matches
      <4>3. ASSUME NEW j \in 1..Len(q), q[j].type = "game_ended"
            PROVE  \E k \in 1..Len(n) : n[k].type \in {"game_ended", "fatal"}
        BY <1>14, <1>1, <1>2, <1>12, <4>3 DEF Unheard
      <4> QED
        BY <4>1, <4>2, <4>3
    <3> QED
      BY <3>2, <3>3, <3>4
  <2>5. ASSUME NEW i \in 1..Len(n) PROVE FrameFits(u, r, i, ss)
    <3>1. n[i].type \notin Fresh /\ (n[i].type = "state" => Matches(u, n[i].seat))
      BY <1>14, <1>1, <1>2, <2>1 DEF Matches, Unheard
    <3>2. \A j \in 1..Len(n) : n[j].type \notin Fresh
      BY <1>14, <1>1, <1>2 DEF Unheard
    <3> QED
      BY <1>9, <3>1, <3>2 DEF Awaited, Fresh
  <2> QED
    BY <1>10, <2>2, <2>3, <2>4, <2>5
<1>13. CASE f.type = "game_ended"
  <2>1. u.saved = NoSession /\ p.seat = NoSession /\ Len(q) = 1
    BY <1>14, <1>1, <1>2, <1>3, <1>4, <1>13, Handled DEF EndFits, Unheard
  <2>2. u.saved.code = NoId /\ Len(n) = 0
    BY <1>14, <1>1, <1>2, <2>1, Ids DEF Unheard
  <2>3. SavedFits(u, ss) /\ SeatFits(u, r) /\ HeldFits(u, r)
    BY <1>1, <2>1, <2>2 DEF SavedFits, SeatFits, HeldFits
  <2>4. ASSUME NEW i \in 1..Len(n) PROVE FrameFits(u, r, i, ss)
    <3> HIDE DEF n
    <3> QED
      BY <2>2
  <2> QED
    BY <1>10, <2>3, <2>4
<1> QED
  BY <1>3, <1>11, <1>12, <1>13

-----------------------------------------------------------------------------
(* What the network, the server and the timers do to the page's socket.    *)

LEMMA Bare ==
  ASSUME NEW t \in Tab, NEW p \in Wire, NEW ss \in SUBSET Seat,
         p.inbox = <<>>, p.seat = NoSession,
         SavedFits(t, ss), TimerAlone(t, p), LoopFits(t, p),
         p.phase = "opening" /\ p.wired = "dispatch" => t.saved.code = NoId,
         ~t.held \/ t.saved.code = NoId \/ t.reconnecting
           \/ (p.phase = "closed" /\ p.onclose = "handle")
  PROVE  Fits(t, p, ss)
BY DEF Fits, InboxFits, SeatFits, HeldFits

LEMMA FewerSeats ==
  ASSUME NEW t \in Tab, NEW p \in Wire, NEW ss \in SUBSET Seat, NEW tt \in SUBSET ss,
         Fits(t, p, ss)
  PROVE  Fits(t, p, tt)
<1>1. \A s : Newest(s, ss) => Newest(s, tt)
  BY DEF Newest
<1>2. SavedFits(t, tt)
  BY <1>1 DEF Fits, SavedFits
<1>3. InboxFits(t, p, tt)
  BY <1>1 DEF Fits, InboxFits, FrameFits, StateFits
<1> QED
  BY <1>2, <1>3 DEF Fits

LEMMA Lost ==
  ASSUME NEW t \in Tab, NEW p \in Wire, NEW ss \in SUBSET Seat, NEW r \in Wire,
         Fits(t, p, ss), WireSound(p), p.phase \in {"opening", "open"},
         NEW k \in 0..Len(p.inbox),
         r = [p EXCEPT !.phase = "closed", !.seat = NoSession, !.inbox = SubSeq(p.inbox, 1, k)]
  PROVE  Fits(t, r, ss)
<1> DEFINE q == p.inbox
           n == r.inbox
<1>1. /\ r.phase = "closed" /\ r.wired = p.wired /\ r.onclose = p.onclose
      /\ r.asked = p.asked /\ r.seat = NoSession /\ n = SubSeq(q, 1, k) /\ q \in Seq(Frame)
  BY DEF Wire
<1>2. Len(q) \in Nat /\ Len(n) = k /\ k \in Nat /\ \A i \in 1..k : n[i] = q[i] /\ i \in 1..Len(q)
  BY <1>1
<1>3. t.timers = {} /\ p.onclose # "off"
  BY DEF Fits, TimerAlone, LoopFits
<1>4. SavedFits(t, ss) /\ TimerAlone(t, r) /\ LoopFits(t, r) /\ SeatFits(t, r)
  BY <1>1, <1>3 DEF Fits, TimerAlone, LoopFits, SeatFits
<1>5. HeldFits(t, r)
  <2>1. CASE p.onclose = "handle"
    BY <1>1, <2>1 DEF HeldFits
  <2>2. CASE p.onclose = "retry"
    BY <2>2, Ids DEF Fits, LoopFits, HeldFits
  <2> QED
    BY <1>3, <2>1, <2>2 DEF Wire
<1>6. ASSUME NEW i \in 1..Len(n) PROVE FrameFits(t, r, i, ss)
  <2>1. /\ n[i] = q[i] /\ i \in 1..Len(q) /\ i \in Nat /\ i <= k
        /\ i > 1 => i - 1 \in 1..k /\ n[i - 1] = q[i - 1]
        /\ \A j \in 1..Len(n) : n[j] = q[j] /\ j \in 1..Len(q)
    <3> HIDE DEF q, n
    <3>1. i \in Nat /\ i <= k /\ (i > 1 => i - 1 \in 1..k)
      BY <1>2
    <3> QED
      BY <1>2, <3>1
  <2>2. OpeningFits(t, p, i) /\ TokenFits(t, p, i) /\ StateFits(t, p, i, ss) /\ EndFits(p, i)
    BY <2>1 DEF Fits, InboxFits, FrameFits
  <2>3. OpeningFits(t, r, i)
    BY <1>1, <2>1, <2>2 DEF OpeningFits
  <2>4. TokenFits(t, r, i)
    BY <1>1, <2>1, <2>2 DEF TokenFits
  <2>5. StateFits(t, r, i, ss)
    <3>1. SUFFICES ASSUME n[i].type = "state" PROVE StateFits(t, r, i, ss)
      BY DEF StateFits
    <3>2. /\ Granted(t, n[i].seat) /\ Newest(n[i].seat, ss)
          /\ \A j \in 1..Len(n) : j > i => n[j].type = "game_ended"
          /\ \/ i > 1 /\ n[i - 1].type = "reconnect_token" /\ n[i - 1].seat = n[i].seat
             \/ /\ Matches(t, n[i].seat)
                /\ \A j \in 1..Len(n) :
                     n[j].type \in Fresh => n[j].type = "welcome" /\ r.wired = "attempt"
      <4>1. /\ Granted(t, q[i].seat) /\ Newest(q[i].seat, ss)
            /\ \A j \in 1..Len(q) : j > i => q[j].type = "game_ended"
            /\ \/ i > 1 /\ q[i - 1].type = "reconnect_token" /\ q[i - 1].seat = q[i].seat
               \/ /\ Matches(t, q[i].seat)
                  /\ \A j \in 1..Len(q) :
                       q[j].type \in Fresh => q[j].type = "welcome" /\ r.wired = "attempt"
        BY <1>1, <2>1, <2>2, <3>1 DEF StateFits
      <4> HIDE DEF q, n
      <4> QED
        BY <2>1, <4>1
    <3> QED
      BY <1>1, <3>2 DEF StateFits
  <2>6. EndFits(r, i)
    BY <1>1, <1>2, <2>1, <2>2 DEF EndFits
  <2> QED
    BY <2>3, <2>4, <2>5, <2>6 DEF FrameFits
<1> QED
  BY <1>1, <1>4, <1>5, <1>6 DEF Fits, InboxFits

LEMMA Ended ==
  ASSUME NEW t \in Tab, NEW p \in Wire, NEW ss \in SUBSET Seat, NEW r \in Wire, NEW f \in Frame,
         Fits(t, p, ss), p.phase = "open", p.seat # NoSession, f.type = "game_ended",
         r = [p EXCEPT !.inbox = Append(p.inbox, f), !.seat = NoSession]
  PROVE  Fits(t, r, ss)
<1> DEFINE q == p.inbox
           n == r.inbox
           k == Len(q) + 1
<1>1. /\ r.phase = "open" /\ r.wired = p.wired /\ r.onclose = p.onclose
      /\ r.asked = p.asked /\ r.seat = NoSession /\ n = Append(q, f) /\ q \in Seq(Frame)
  BY DEF Wire
<1>2. /\ Len(q) \in Nat /\ Len(n) = k /\ n[k] = f /\ k \in 1..Len(n)
      /\ \A i \in 1..Len(q) : n[i] = q[i] /\ i \in 1..Len(n)
      /\ \A i \in 1..Len(n) : i = k \/ i \in 1..Len(q)
  BY <1>1
<1> HIDE DEF k
<1>3. SavedFits(t, ss) /\ TimerAlone(t, r) /\ LoopFits(t, r) /\ SeatFits(t, r)
  BY <1>1 DEF Fits, TimerAlone, LoopFits, SeatFits
<1>4. HeldFits(t, r)
  BY <1>1, <1>2 DEF HeldFits
<1>5. ASSUME NEW i \in 1..Len(q) PROVE FrameFits(t, r, i, ss)
  <2>1. /\ n[i] = q[i] /\ i \in Nat
        /\ i > 1 => i - 1 \in 1..Len(q) /\ n[i - 1] = q[i - 1]
    BY <1>2
  <2>2. OpeningFits(t, p, i) /\ TokenFits(t, p, i) /\ StateFits(t, p, i, ss) /\ EndFits(p, i)
    BY DEF Fits, InboxFits, FrameFits
  <2>3. OpeningFits(t, r, i)
    BY <1>1, <2>1, <2>2 DEF OpeningFits
  <2>4. TokenFits(t, r, i)
    BY <1>1, <2>1, <2>2 DEF TokenFits
  <2>5. StateFits(t, r, i, ss)
    BY <1>1, <1>2, <2>1, <2>2 DEF StateFits, Fresh
  <2>6. EndFits(r, i)
    BY <2>1, <2>2 DEF EndFits
  <2> QED
    BY <2>3, <2>4, <2>5, <2>6 DEF FrameFits
<1>6. FrameFits(t, r, k, ss)
  BY <1>1, <1>2 DEF FrameFits, OpeningFits, TokenFits, StateFits, EndFits, Fresh
<1> QED
  BY <1>1, <1>2, <1>3, <1>4, <1>5, <1>6 DEF Fits, InboxFits

LEMMA GrantHeard ==
  ASSUME NEW t \in Tab, NEW p \in Wire, NEW ss \in SUBSET Seat, NEW tt \in SUBSET Seat,
         NEW r \in Wire, NEW s \in Seat, NEW k \in {1, 2}, NEW q \in Seq(Frame),
         Fits(t, p, ss), WireSound(p), p.phase = "opening", p.wired = "dispatch",
         Granted(t, s), Newest(s, tt),
         Len(q) = k + 2, q[1].type = "welcome", k = 2 => q[2].type = "auth_ok",
         q[k].seat.pid = s.pid, q[k + 1] = Message("reconnect_token", s),
         q[k + 2] = Message("state", s),
         r = [p EXCEPT !.phase = "open", !.seat = s, !.inbox = q]
  PROVE  Fits(t, r, tt)
<1>1. /\ r.phase = "open" /\ r.wired = "dispatch" /\ r.onclose = p.onclose
      /\ r.asked = p.asked /\ r.seat = s /\ r.inbox = q
  BY DEF Wire
<1>2. /\ t.timers = {} /\ t.saved.code = NoId /\ p.onclose = "handle" /\ ~t.reconnecting
      /\ s # NoSession
  BY GrantedIds DEF Fits, TimerAlone, LoopFits, InboxFits, WireSound, Wire
<1>3. /\ q[k + 1].type = "reconnect_token" /\ q[k + 1].seat = s
      /\ q[k + 2].type = "state" /\ q[k + 2].seat = s
      /\ q[k].type \in {"welcome", "auth_ok"} /\ (k + 1) - 1 = k /\ (k + 2) - 1 = k + 1
      /\ k + 1 > 1 /\ k + 2 > 1 /\ k + 2 \in 1..Len(q)
      /\ \A i \in 1..Len(q) : i = 1 \/ (k = 2 /\ i = 2) \/ i = k + 1 \/ i = k + 2
  BY DEF Message
<1>4. SavedFits(t, tt) /\ TimerAlone(t, r) /\ LoopFits(t, r) /\ HeldFits(t, r)
  BY <1>1, <1>2 DEF SavedFits, TimerAlone, LoopFits, HeldFits
<1>5. SeatFits(t, r)
  BY <1>1, <1>3 DEF SeatFits
<1>6. ASSUME NEW i \in 1..Len(q) PROVE FrameFits(t, r, i, tt)
  <2>1. CASE i = 1 \/ (k = 2 /\ i = 2)
    <3>1. q[i].type = IF i = 1 THEN "welcome" ELSE "auth_ok"
      BY <2>1
    <3> QED
      BY <1>1, <1>2, <2>1, <3>1
         DEF FrameFits, OpeningFits, TokenFits, StateFits, EndFits, Fresh
  <2>2. CASE i = k + 1
    BY <1>1, <1>2, <1>3, <2>2
       DEF FrameFits, OpeningFits, TokenFits, StateFits, EndFits, Fresh
  <2>3. CASE i = k + 2
    <3>1. \A j \in 1..Len(q) : ~(j > i)
      BY <2>3
    <3> QED
      BY <1>1, <1>2, <1>3, <2>3, <3>1
         DEF FrameFits, OpeningFits, TokenFits, StateFits, EndFits, Fresh
  <2> QED
    BY <1>3, <2>1, <2>2, <2>3
<1> QED
  BY <1>1, <1>4, <1>5, <1>6 DEF Fits, InboxFits

LEMMA RefusalHeard ==
  ASSUME NEW t \in Tab, NEW p \in Wire, NEW ss \in SUBSET Seat, NEW r \in Wire,
         NEW k \in {1, 2}, NEW q \in Seq(Frame),
         Fits(t, p, ss), WireSound(p), p.phase = "opening", p.wired = "dispatch",
         Len(q) = k + 1, q[1].type = "welcome", k = 2 => q[2].type = "auth_ok",
         q[k + 1].type = "error",
         r = [p EXCEPT !.phase = "open", !.inbox = q]
  PROVE  Fits(t, r, ss)
<1>1. /\ r.phase = "open" /\ r.wired = "dispatch" /\ r.onclose = p.onclose
      /\ r.asked = p.asked /\ r.seat = NoSession /\ r.inbox = q
  BY DEF Wire, WireSound
<1>2. t.timers = {} /\ t.saved.code = NoId /\ p.onclose = "handle" /\ ~t.reconnecting
  BY DEF Fits, TimerAlone, LoopFits, InboxFits, WireSound, Wire
<1>3. \A i \in 1..Len(q) : i = 1 \/ (k = 2 /\ i = 2) \/ i = k + 1
  OBVIOUS
<1>4. SavedFits(t, ss) /\ TimerAlone(t, r) /\ LoopFits(t, r) /\ HeldFits(t, r) /\ SeatFits(t, r)
  BY <1>1, <1>2 DEF SavedFits, TimerAlone, LoopFits, HeldFits, SeatFits
<1>5. ASSUME NEW i \in 1..Len(q) PROVE FrameFits(t, r, i, ss)
  <2>1. q[i].type \in {"welcome", "auth_ok", "error"} /\ (q[i].type = "welcome" => i = 1)
    BY <1>3
  <2> QED
    BY <1>1, <1>2, <2>1 DEF FrameFits, OpeningFits, TokenFits, StateFits, EndFits, Fresh
<1> QED
  BY <1>1, <1>4, <1>5 DEF Fits, InboxFits

LEMMA AnswerHeard ==
  ASSUME NEW t \in Tab, NEW p \in Wire, NEW ss \in SUBSET Seat, NEW r \in Wire,
         NEW s \in Seat, NEW k \in {1, 2}, NEW q \in Seq(Frame),
         Fits(t, p, ss), WireSound(p), p.phase = "opening", p.wired = "attempt",
         \A x \in ss : Granted(t, x),
         Len(q) = k + 1, q[1].type = "welcome", k = 2 => q[2].type = "ping",
         \/ /\ s = p.asked /\ s \in ss /\ q[k + 1] = Message("state", s)
         \/ /\ s = NoSession /\ q[k + 1].type = "fatal",
         r = [p EXCEPT !.phase = "open", !.seat = s, !.inbox = q]
  PROVE  Fits(t, r, ss)
<1>1. /\ r.phase = "open" /\ r.wired = "attempt" /\ r.onclose = p.onclose
      /\ r.asked = p.asked /\ r.seat = s /\ r.inbox = q
  BY DEF Wire
<1>2. /\ t.timers = {} /\ p.onclose = "retry" /\ LoopFits(t, p) /\ SavedFits(t, ss)
  BY DEF Fits, TimerAlone, LoopFits, WireSound, Wire
<1>3. /\ \A i \in 1..Len(q) : i = 1 \/ (k = 2 /\ i = 2) \/ i = k + 1
      /\ k + 1 \in 1..Len(q) /\ \A j \in 1..Len(q) : ~(j > k + 1)
  OBVIOUS
<1>4. s # NoSession =>
        /\ Granted(t, s) /\ Newest(s, ss) /\ t.saved = s
        /\ q[k + 1].type = "state" /\ q[k + 1].seat = s
  <2>1. SUFFICES ASSUME s # NoSession, s = p.asked, s \in ss, q[k + 1] = Message("state", s)
                 PROVE  /\ Granted(t, s) /\ Newest(s, ss) /\ t.saved = s
                        /\ q[k + 1].type = "state" /\ q[k + 1].seat = s
    OBVIOUS
  <2>2. Granted(t, s) /\ s.token # NoId /\ s.code # NoId
    BY <2>1, GrantedIds
  <2>3. t.saved = s
    BY <1>2, <2>1, <2>2 DEF LoopFits
  <2> QED
    BY <1>2, <2>1, <2>2, <2>3 DEF SavedFits, Message
<1>5. TimerAlone(t, r) /\ LoopFits(t, r)
  BY <1>1, <1>2 DEF TimerAlone, LoopFits
<1>6. SeatFits(t, r)
  BY <1>1, <1>4 DEF SeatFits
<1>7. HeldFits(t, r)
  BY <1>2, Ids DEF HeldFits, LoopFits
<1>8. ASSUME NEW i \in 1..Len(q) PROVE FrameFits(t, r, i, ss)
  <2>1. CASE i = 1 \/ (k = 2 /\ i = 2)
    <3>1. q[i].type = IF i = 1 THEN "welcome" ELSE "ping"
      BY <2>1
    <3> QED
      BY <1>1, <2>1, <3>1 DEF FrameFits, OpeningFits, TokenFits, StateFits, EndFits, Fresh
  <2>2. CASE i = k + 1 /\ s = NoSession
    <3>1. q[i].type = "fatal"
      <4>1. \A x \in ss : x # NoSession
        BY GrantedIds
      <4> QED
        BY <2>2, <4>1
    <3> QED
      BY <1>1, <2>2, <3>1 DEF FrameFits, OpeningFits, TokenFits, StateFits, EndFits, Fresh
  <2>3. CASE i = k + 1 /\ s # NoSession
    <3>1. q[i].type = "state" /\ q[i].seat = s /\ Matches(t, q[i].seat)
      BY <1>4, <2>3 DEF Matches
    <3>2. \A j \in 1..Len(q) : q[j].type \in Fresh => q[j].type = "welcome"
      BY <1>3, <2>3, <3>1 DEF Fresh
    <3> QED
      BY <1>1, <1>3, <1>4, <2>3, <3>1, <3>2
         DEF FrameFits, OpeningFits, TokenFits, StateFits, EndFits, Fresh
  <2> QED
    BY <1>3, <2>1, <2>2, <2>3
<1> QED
  BY <1>1, <1>2, <1>5, <1>6, <1>7, <1>8 DEF Fits, InboxFits

-----------------------------------------------------------------------------
(* The page and its sockets together.                                      *)

\* What Fits looks at.
LEMMA SameFits ==
  ASSUME NEW t \in Tab, NEW u \in Tab, NEW p \in Wire, NEW ss \in SUBSET Seat, Fits(t, p, ss),
         u.saved = t.saved, u.held = t.held, u.reconnecting = t.reconnecting,
         u.timers = t.timers, u.signedIn = t.signedIn
  PROVE  Fits(u, p, ss)
<1>1. \A s : Granted(t, s) => Granted(u, s)
  BY DEF Granted
<1>2. SavedFits(u, ss) /\ TimerAlone(u, p) /\ LoopFits(u, p)
  BY <1>1 DEF Fits, SavedFits, TimerAlone, LoopFits
<1>3. ASSUME NEW i \in 1..Len(p.inbox) PROVE FrameFits(u, p, i, ss)
  <2>1. OpeningFits(t, p, i) /\ TokenFits(t, p, i) /\ StateFits(t, p, i, ss) /\ EndFits(p, i)
    BY DEF Fits, InboxFits, FrameFits
  <2>2. OpeningFits(u, p, i) /\ TokenFits(u, p, i)
    BY <1>1, <2>1 DEF OpeningFits, TokenFits
  <2>3. StateFits(u, p, i, ss)
    BY <1>1, <2>1 DEF StateFits, Matches
  <2> QED
    BY <2>1, <2>2, <2>3 DEF FrameFits
<1>4. InboxFits(u, p, ss)
  BY <1>3 DEF Fits, InboxFits
<1>5. SeatFits(u, p) /\ HeldFits(u, p)
  BY <1>1 DEF Fits, SeatFits, HeldFits
<1> QED
  BY <1>2, <1>4, <1>5 DEF Fits

LEMMA SoundPage ==
  ASSUME NEW t, NEW ws, NEW ss, Sound(t, ws, ss)
  PROVE  /\ PageWire(t, ws) \in Wire /\ WireSound(PageWire(t, ws))
         /\ t.ws = NoId \/ t.ws \in Wires
BY Blank DEF Sound, PageWire, Tab

LEMMA SoundPut ==
  ASSUME NEW t, NEW ws, NEW ss, Sound(t, ws, ss), NEW u \in Tab, u.signedIn = t.signedIn,
         NEW w \in Wires, NEW r \in Wire, WireSound(r)
  PROVE  Sound(u, [ws EXCEPT ![w] = r], ss)
<1>1. \A s : Granted(t, s) => Granted(u, s)
  BY DEF Granted
<1> QED
  BY <1>1 DEF Sound

\* The page's own socket becomes r, or a socket with nothing to say does.
LEMMA TiedPut ==
  ASSUME NEW t, NEW ws, NEW ss, Sound(t, ws, ss), Tied(t, ws, ss),
         NEW u \in Tab, u.ws = t.ws, NEW w \in Wires, NEW r \in Wire,
         IF w = t.ws THEN Fits(u, r, ss)
         ELSE Quiet(r) /\ Fits(u, PageWire(t, ws), ss)
  PROVE  Tied(u, [ws EXCEPT ![w] = r], ss)
<1> DEFINE vs == [ws EXCEPT ![w] = r]
<1>1. ws \in [Wires -> Wire] /\ (t.ws = NoId \/ t.ws \in Wires) /\ NoId \notin Wires
  BY SoundPage, Ids DEF Sound
<1>2. ASSUME NEW v \in Wires \ {u.ws} PROVE Quiet(vs[v])
  BY <1>1 DEF Tied
<1>3. PageWire(u, vs) = IF w = t.ws THEN r ELSE PageWire(t, ws)
  BY <1>1 DEF PageWire
<1> QED
  BY <1>2, <1>3 DEF Tied

\* The page turns to socket w.
LEMMA TiedNew ==
  ASSUME NEW t, NEW ws, NEW ss, Sound(t, ws, ss),
         \A v \in Wires \ {t.ws} : Quiet(ws[v]), Quiet(PageWire(t, ws)),
         NEW u \in Tab, NEW w \in Wires, u.ws = w, NEW r \in Wire, Fits(u, r, ss)
  PROVE  Tied(u, [ws EXCEPT ![w] = r], ss)
<1>1. ws \in [Wires -> Wire] /\ (t.ws = NoId \/ t.ws \in Wires) /\ NoId \notin Wires
  BY SoundPage, Ids DEF Sound
<1>2. \A v \in Wires : Quiet(ws[v])
  BY <1>1 DEF PageWire
<1> QED
  BY <1>1, <1>2 DEF Tied, PageWire

\* A new attempt, from a page whose sockets have nothing to say.
Hushed(t, ws, ss) ==
  /\ \A v \in Wires \ {t.ws} : Quiet(ws[v])
  /\ Quiet(PageWire(t, ws)) /\ SavedFits(t, ss) /\ t.timers = {}

Resumes(t, pid, code) ==
  /\ t.reconnecting => t.saved.code # NoId /\ pid = t.saved.pid /\ code = t.saved.code
  /\ ~t.reconnecting => t.saved = NoSession

LEMMA Attempted ==
  ASSUME NEW t, NEW ws, NEW ss, Sound(t, ws, ss), NEW pid \in Drawn, NEW code \in Drawn,
         NEW w \in Wires, Attempt(t, ws, pid, code, w),
         t.mixed \/ (Hushed(t, ws, ss) /\ Resumes(t, pid, code))
  PROVE  Good(tab', wires', ss)
<1> DEFINE s == [pid |-> pid, code |-> code, token |-> t.saved.token]
           r == Opening("attempt", "retry", s)
           u == [t EXCEPT !.ws = w]
<1>1. t \in Tab /\ t.saved \in Seat /\ s \in Seat
  BY DEF Sound, Tab, Seat
<1>2. /\ u \in Tab /\ u.signedIn = t.signedIn /\ u.saved = t.saved /\ u.timers = t.timers
      /\ u.reconnecting = t.reconnecting /\ u.mixed = t.mixed /\ u.ws = w /\ u.held = t.held
  BY <1>1 DEF Tab
<1>3. /\ r \in Wire /\ r.phase = "opening" /\ r.onclose = "retry" /\ r.asked = s
      /\ r.inbox = <<>> /\ r.seat = NoSession /\ r.wired = "attempt"
  BY <1>1, Blank DEF Opening, NoWire, Wire
<1>4. WireSound(r)
  BY <1>3 DEF WireSound
<1>5. tab' = u /\ wires' = [ws EXCEPT ![w] = r]
  BY DEF Attempt, Becoming
<1> HIDE DEF r, u
<1>6. Sound(tab', wires', ss)
  BY <1>2, <1>3, <1>4, <1>5, SoundPut
<1>7. Looping(tab', wires')
  <2>1. Ending(wires'[w])
    BY <1>3, <1>5 DEF Ending, Sound
  <2> QED
    BY <2>1 DEF Looping
<1>8. ASSUME ~t.mixed PROVE Tied(tab', wires', ss)
  <2>1. Hushed(t, ws, ss) /\ Resumes(t, pid, code)
    BY <1>8
  <2>2. t.reconnecting => s = t.saved
    BY <1>1, <2>1 DEF Resumes, Seat
  <2> HIDE DEF s
  <2>3. SavedFits(u, ss) /\ TimerAlone(u, r)
    BY <1>2, <2>1 DEF SavedFits, Hushed, Granted, TimerAlone
  <2>4. LoopFits(u, r)
    <3>1. ~t.reconnecting => s.token = NoId
      BY <2>1, Ids DEF Resumes, s
    <3> QED
      BY <1>2, <1>3, <2>1, <2>2, <3>1 DEF LoopFits, Resumes
  <2>5. Fits(u, r, ss)
    <3>1. ~t.held \/ t.saved.code = NoId \/ t.reconnecting
      BY <2>1, Ids DEF Resumes
    <3> QED
      BY <1>2, <1>3, <2>3, <2>4, <3>1, Bare DEF Sound
  <2> QED
    BY <1>2, <1>3, <1>5, <2>1, <2>5, TiedNew DEF Hushed
<1> QED
  BY <1>2, <1>5, <1>6, <1>7, <1>8 DEF Good

\* The end of a socket or of a page may start the loop, on the session that is saved.
LEMMA Maybe ==
  ASSUME NEW t, NEW ws, NEW ss, Sound(t, ws, ss), NEW w \in Wires, MaybeReconnect(t, ws, w),
         Looping(t, ws),
         t.mixed \/ IF t.reconnecting \/ ~HasSession(t) THEN Tied(t, ws, ss)
                   ELSE Hushed(t, ws, ss)
  PROVE  Good(tab', wires', ss)
<1>1. CASE t.reconnecting \/ ~HasSession(t)
  <2>1. tab' = t /\ wires' = ws
    BY <1>1 DEF MaybeReconnect, Becoming
  <2> QED
    BY <1>1, <2>1 DEF Good
<1>2. CASE ~(t.reconnecting \/ ~HasSession(t))
  <2> DEFINE u == [t EXCEPT !.reconnecting = TRUE, !.screen = "loading"]
  <2>1. /\ u \in Tab /\ u.signedIn = t.signedIn /\ u.saved = t.saved /\ u.timers = t.timers
        /\ u.reconnecting /\ u.mixed = t.mixed /\ u.ws = t.ws
        /\ t.saved.pid \in Drawn /\ t.saved.code \in Drawn /\ t.saved.code # NoId
    BY <1>2 DEF Sound, Tab, HasSession, Seat
  <2>2. Attempt(u, ws, t.saved.pid, t.saved.code, w)
    BY <1>2 DEF MaybeReconnect
  <2> HIDE DEF u
  <2>3. Sound(u, ws, ss)
    BY <2>1 DEF Sound, Granted
  <2>4. ASSUME ~u.mixed PROVE Hushed(u, ws, ss) /\ Resumes(u, t.saved.pid, t.saved.code)
    <3>1. Hushed(t, ws, ss)
      BY <1>2, <2>1, <2>4
    <3>2. Hushed(u, ws, ss)
      BY <2>1, <3>1 DEF Hushed, PageWire, SavedFits, Granted
    <3> QED
      BY <2>1, <3>2 DEF Resumes
  <2> QED
    BY <2>1, <2>2, <2>3, <2>4, Attempted
<1> QED
  BY <1>1, <1>2

-----------------------------------------------------------------------------
(* The steps of the page.                                                  *)

LEMMA UnusedWires ==
  ASSUME NEW v \in Unused
  PROVE  v \in Wires /\ wires[v].phase = "none"
BY DEF Unused

LEMMA TapKeeps ==
  ASSUME SessionInv, TapIntent
  PROVE  SessionInv'
<1>1. PICK w \in Unused, code \in {NoId, Theirs} :
        /\ tab' = [tab EXCEPT !.screen = "loading", !.ws = w,
                              !.mixed = tab.mixed \/ HasSession(tab) \/ UnderWay]
        /\ wires' = [wires EXCEPT ![w] = Opening("dispatch", "handle",
                                                 [NoSession EXCEPT !.code = code])]
  BY DEF TapIntent
<1> DEFINE s == [NoSession EXCEPT !.code = code]
           r == Opening("dispatch", "handle", s)
           u == [tab EXCEPT !.screen = "loading", !.ws = w,
                            !.mixed = tab.mixed \/ HasSession(tab) \/ UnderWay]
<1>2. w \in Wires /\ wires[w].phase = "none" /\ seats' = seats
  BY UnusedWires DEF TapIntent
<1>3. Sound(tab, wires, seats) /\ Looping(tab, wires) /\ tab \in Tab
  BY DEF SessionInv, Good, Sound
<1>4. s \in Seat /\ s.code = code
  BY Ids DEF NoSession, Seat
<1>5. /\ r \in Wire /\ r.phase = "opening" /\ r.onclose = "handle" /\ r.asked = s
      /\ r.inbox = <<>> /\ r.seat = NoSession /\ r.wired = "dispatch"
  BY <1>4, Blank DEF Opening, NoWire, Wire
<1>6. (tab.mixed \/ HasSession(tab) \/ UnderWay) \in BOOLEAN
  BY <1>3 DEF Tab, HasSession, UnderWay
<1>7. /\ u \in Tab /\ u.signedIn = tab.signedIn /\ u.saved = tab.saved /\ u.timers = tab.timers
      /\ u.reconnecting = tab.reconnecting /\ u.ws = w /\ u.held = tab.held
      /\ u.mixed = (tab.mixed \/ HasSession(tab) \/ UnderWay)
  BY <1>2, <1>3, <1>6 DEF Tab
<1>8. tab' = u /\ wires' = [wires EXCEPT ![w] = r]
  BY <1>1
<1> HIDE DEF u, r, s
<1>9. WireSound(r)
  BY <1>4, <1>5 DEF WireSound
<1>10. Sound(tab', wires', seats')
  BY <1>2, <1>3, <1>5, <1>7, <1>8, <1>9, SoundPut
<1>11. Looping(tab', wires')
  <2>1. \A v \in Wires : Ending(wires[v]) => v # w
    BY <1>2, <1>3 DEF Ending, Sound, WireSound
  <2>2. \A v \in Wires : v # w => wires'[v] = wires[v]
    BY <1>3, <1>8 DEF Sound
  <2> QED
    BY <1>3, <1>7, <1>8, <2>1, <2>2 DEF Looping
<1>12. ASSUME ~u.mixed PROVE Tied(tab', wires', seats')
  <2> DEFINE p == PageWire(tab, wires)
  <2>1. ~tab.mixed /\ ~HasSession(tab) /\ ~UnderWay /\ Tied(tab, wires, seats)
    BY <1>7, <1>12 DEF SessionInv, Good
  <2>2. p \in Wire /\ WireSound(p) /\ (tab.ws = NoId \/ tab.ws \in Wires) /\ Fits(tab, p, seats)
    BY <1>3, <2>1, SoundPage DEF Tied
  <2>3. p.phase # "opening" /\ p.inbox = <<>>
    <3>1. NoWire.phase # "opening" /\ NoWire.inbox = <<>>
      BY DEF NoWire
    <3> QED
      BY <2>1, <2>2, <3>1 DEF PageWire, UnderWay
  <2>4. tab.saved.code = NoId
    BY <1>3, <2>1, <2>2, GrantedIds DEF Fits, SavedFits, HasSession, Tab
  <2>5. p.seat = NoSession
    <3>1. Len(p.inbox) = 0
      BY <2>3
    <3>2. p.seat # NoSession => tab.saved.code = p.seat.code /\ Granted(tab, p.seat)
      BY <2>2, <3>1 DEF Fits, SeatFits
    <3> HIDE DEF p
    <3> QED
      BY <1>3, <2>2, <2>4, <3>2, GrantedIds DEF Wire
  <2>6. Fits(u, r, seats)
    <3>1. SavedFits(u, seats)
      BY <1>7, <2>4 DEF SavedFits
    <3>2. u.timers = {} /\ ~u.reconnecting
      BY <1>7, <2>1 DEF UnderWay
    <3>3. TimerAlone(u, r) /\ LoopFits(u, r)
      BY <1>5, <3>2 DEF TimerAlone, LoopFits
    <3> QED
      BY <1>3, <1>5, <1>7, <2>4, <3>1, <3>3, Bare DEF Sound
  <2>7. Quiet(p) /\ \A v \in Wires \ {tab.ws} : Quiet(wires[v])
    BY <2>1, <2>3, <2>5 DEF Quiet, Tied
  <2> QED
    BY <1>2, <1>3, <1>5, <1>7, <1>8, <2>6, <2>7, TiedNew
<1> QED
  BY <1>7, <1>8, <1>10, <1>11, <1>12 DEF SessionInv, Good

LEMMA LeaveKeeps ==
  ASSUME SessionInv, LeaveGame
  PROVE  SessionInv'
<1> DEFINE u == [tab EXCEPT !.saved = NoSession, !.reconnecting = FALSE, !.held = FALSE,
                            !.ws = NoId, !.screen = "landing"]
<1>1. Sound(tab, wires, seats) /\ tab \in Tab /\ tab' = u
  BY DEF SessionInv, Good, Sound, LeaveGame
<1>2. /\ u \in Tab /\ u.signedIn = tab.signedIn /\ u.saved = NoSession
      /\ u.timers = tab.timers /\ ~u.reconnecting /\ u.ws = NoId /\ ~u.held
      /\ u.mixed = tab.mixed
  BY <1>1, Ids DEF Tab
<1> HIDE DEF u
<1>3. Looping(tab', wires')
  BY <1>1, <1>2 DEF Looping
<1>4. /\ Sound(tab', wires', seats')
      /\ ~tab.mixed => \A v \in Wires : Quiet(wires'[v])
  <2>1. CASE tab.ws # NoId /\ wires[tab.ws].phase # "done"
    <3> DEFINE r == [wires[tab.ws] EXCEPT !.phase = "closed", !.inbox = <<>>,
                                          !.seat = NoSession, !.onclose = "off"]
    <3>1. /\ tab.ws \in Wires /\ wires[tab.ws] \in Wire /\ WireSound(wires[tab.ws])
      BY <1>1, <2>1, SoundPage DEF Sound
    <3>2. /\ r \in Wire /\ r.phase = "closed" /\ r.inbox = <<>> /\ r.seat = NoSession
          /\ r.onclose = "off"
      BY <3>1, Blank DEF Wire, NoWire
    <3>3. wires' = [wires EXCEPT ![tab.ws] = r]
      BY <1>1, <2>1, <3>1 DEF LeaveGame, Hung, Sound, Wire
    <3> HIDE DEF r
    <3>4. WireSound(r) /\ Quiet(r)
      BY <3>2 DEF WireSound, Quiet
    <3>5. Sound(u, wires', seats)
      BY <1>1, <1>2, <3>1, <3>2, <3>3, <3>4, SoundPut
    <3>6. seats' \subseteq seats
      BY <2>1 DEF LeaveGame
    <3>7. Sound(tab', wires', seats')
      BY <1>1, <3>5, <3>6 DEF Sound
    <3>8. ASSUME ~tab.mixed, NEW v \in Wires PROVE Quiet(wires'[v])
      BY <1>1, <3>1, <3>3, <3>4, <3>8 DEF SessionInv, Good, Tied, Sound
    <3> QED
      BY <3>7, <3>8
  <2>2. CASE ~(tab.ws # NoId /\ wires[tab.ws].phase # "done")
    <3>1. wires' = wires /\ seats' = seats
      BY <2>2 DEF LeaveGame
    <3>2. Sound(tab', wires', seats')
      BY <1>1, <1>2, <3>1 DEF Sound, Granted
    <3>3. ASSUME ~tab.mixed, NEW v \in Wires PROVE Quiet(wires'[v])
      <4>1. CASE v = tab.ws
        BY <1>1, <2>2, <3>1, <4>1, Ids DEF Sound, WireSound, Quiet
      <4>2. CASE v # tab.ws
        BY <3>1, <3>3, <4>2 DEF SessionInv, Good, Tied
      <4> QED
        BY <4>1, <4>2
    <3> QED
      BY <3>2, <3>3
  <2> QED
    BY <2>1, <2>2
<1>5. ASSUME ~tab.mixed PROVE Tied(tab', wires', seats')
  <2>1. PageWire(u, wires') = NoWire
    BY <1>2 DEF PageWire
  <2>2. TimerAlone(tab, PageWire(tab, wires))
    BY <1>5 DEF SessionInv, Good, Tied, Fits
  <2>3. /\ NoWire.inbox = <<>> /\ NoWire.seat = NoSession /\ NoWire.phase = "none"
        /\ NoWire.onclose = "off"
    BY DEF NoWire
  <2>4. SavedFits(u, seats') /\ TimerAlone(u, NoWire) /\ LoopFits(u, NoWire)
    BY <1>2, <2>2, <2>3, Ids DEF SavedFits, TimerAlone, LoopFits
  <2>5. Fits(u, NoWire, seats')
    BY <1>1, <1>2, <1>4, <2>3, <2>4, Blank, Bare DEF Sound
  <2> QED
    BY <1>1, <1>4, <1>5, <2>1, <2>5 DEF Tied
<1> QED
  BY <1>1, <1>2, <1>3, <1>4, <1>5 DEF SessionInv, Good

LEMMA BackKeeps ==
  ASSUME SessionInv, BackToLanding
  PROVE  SessionInv'
<1> DEFINE u == [tab EXCEPT !.screen = "landing"]
<1>1. /\ Sound(tab, wires, seats) /\ Looping(tab, wires) /\ tab \in Tab /\ tab' = u
      /\ wires' = wires /\ seats' = seats
  BY DEF SessionInv, Good, Sound, BackToLanding
<1>2. /\ u \in Tab /\ u.signedIn = tab.signedIn /\ u.saved = tab.saved /\ u.timers = tab.timers
      /\ u.reconnecting = tab.reconnecting /\ u.ws = tab.ws /\ u.held = tab.held
      /\ u.mixed = tab.mixed
  BY <1>1 DEF Tab
<1> HIDE DEF u
<1>3. Sound(tab', wires', seats')
  BY <1>1, <1>2 DEF Sound, Granted
<1>4. Looping(tab', wires')
  BY <1>1, <1>2 DEF Looping
<1>5. ASSUME ~tab.mixed PROVE Tied(tab', wires', seats')
  <2>1. Fits(tab, PageWire(tab, wires), seats) /\ PageWire(tab', wires') = PageWire(tab, wires)
    BY <1>1, <1>2, <1>5 DEF SessionInv, Good, Tied, PageWire
  <2>2. Fits(u, PageWire(tab, wires), seats)
    BY <1>1, <1>2, <2>1, SoundPage, SameFits DEF Sound
  <2> QED
    BY <1>1, <1>2, <1>5, <2>1, <2>2 DEF SessionInv, Good, Tied
<1> QED
  BY <1>1, <1>2, <1>3, <1>4, <1>5 DEF SessionInv, Good

LEMMA ReloadKeeps ==
  ASSUME SessionInv, ReloadTab
  PROVE  SessionInv'
<1> DEFINE u == [tab EXCEPT !.held = FALSE, !.reconnecting = FALSE, !.ws = NoId,
                            !.screen = "landing", !.timers = {}]
           done == [NoWire EXCEPT !.phase = "done"]
           shut == [v \in Wires |-> IF wires[v].phase = "none" THEN NoWire ELSE done]
<1>1. Sound(tab, wires, seats) /\ tab \in Tab /\ seats' = seats
  BY DEF SessionInv, Good, Sound, ReloadTab
<1>2. /\ u \in Tab /\ u.signedIn = tab.signedIn /\ u.saved = tab.saved /\ u.timers = {}
      /\ ~u.reconnecting /\ u.ws = NoId /\ ~u.held /\ u.mixed = tab.mixed
  BY <1>1, Ids DEF Tab
<1>3. /\ done \in Wire /\ done.phase = "done" /\ done.inbox = <<>> /\ done.seat = NoSession
      /\ done.onclose = "off" /\ done.wired = "dispatch"
  BY Blank DEF NoWire, Wire
<1>4. /\ NoWire.inbox = <<>> /\ NoWire.seat = NoSession /\ NoWire.phase = "none"
      /\ NoWire.onclose = "off"
  BY DEF NoWire
<1>5. \/ tab' = u /\ wires' = shut
      \/ \E v \in Unused : MaybeReconnect(u, shut, v)
  BY DEF ReloadTab, Becoming
<1> HIDE DEF u, done
<1>6. WireSound(done) /\ Quiet(done) /\ Quiet(NoWire)
  BY <1>3, <1>4 DEF WireSound, Quiet
<1>7. Sound(u, shut, seats) /\ \A v \in Wires : Quiet(shut[v])
  BY <1>1, <1>2, <1>3, <1>6, Blank DEF Sound, Granted
<1> HIDE DEF shut
<1>8. Looping(u, shut) /\ PageWire(u, shut) = NoWire
  BY <1>2 DEF Looping, PageWire
<1>9. ASSUME ~u.mixed PROVE Hushed(u, shut, seats) /\ Tied(u, shut, seats)
  <2>1. SavedFits(tab, seats)
    BY <1>2, <1>9 DEF SessionInv, Good, Tied, Fits
  <2>2. SavedFits(u, seats)
    BY <1>2, <2>1 DEF SavedFits, Granted
  <2>3. TimerAlone(u, NoWire) /\ LoopFits(u, NoWire)
    BY <1>2, <1>4 DEF TimerAlone, LoopFits
  <2>4. Fits(u, NoWire, seats)
    BY <1>1, <1>2, <1>4, <2>2, <2>3, Blank, Bare DEF Sound
  <2> QED
    BY <1>2, <1>6, <1>7, <1>8, <2>2, <2>4 DEF Hushed, Tied
<1>10. CASE tab' = u /\ wires' = shut
  BY <1>1, <1>7, <1>8, <1>9, <1>10 DEF SessionInv, Good
<1>11. ASSUME NEW v \in Unused, MaybeReconnect(u, shut, v) PROVE SessionInv'
  BY <1>1, <1>7, <1>8, <1>9, <1>11, UnusedWires, Maybe DEF SessionInv
<1> QED
  BY <1>5, <1>10, <1>11

LEMMA TimerKeeps ==
  ASSUME SessionInv, NEW timer \in tab.timers, RetryFires(timer)
  PROVE  SessionInv'
<1> DEFINE u == [tab EXCEPT !.timers = tab.timers \ {timer}]
           e == ExpireSession(u)
           p == PageWire(tab, wires)
<1>1. Sound(tab, wires, seats) /\ tab \in Tab /\ seats' = seats
  BY DEF SessionInv, Good, Sound, RetryFires
<1>2. /\ u \in Tab /\ u.signedIn = tab.signedIn /\ u.saved = tab.saved
      /\ u.timers = tab.timers \ {timer} /\ u.reconnecting = tab.reconnecting
      /\ u.ws = tab.ws /\ u.held = tab.held /\ u.mixed = tab.mixed
      /\ timer.pid \in Drawn /\ timer.code \in Drawn
  BY <1>1 DEF Tab
<1>3. \/ tab' = e /\ wires' = wires
      \/ \E v \in Unused : Attempt(u, wires, timer.pid, timer.code, v)
  BY DEF RetryFires, Becoming
<1> HIDE DEF u
<1>4. Sound(u, wires, seats) /\ PageWire(u, wires) = p
  BY <1>1, <1>2 DEF Sound, Granted, PageWire
<1>5. ASSUME ~u.mixed
      PROVE  Hushed(u, wires, seats) /\ Resumes(u, timer.pid, timer.code)
  <2>1. Fits(tab, p, seats) /\ p \in Wire /\ WireSound(p) /\ NoSession.code = NoId
    BY <1>1, <1>2, <1>5, SoundPage, Ids DEF SessionInv, Good, Tied
  <2>2. p.phase \in {"none", "done"} /\ u.timers = {}
    BY <1>2, <2>1 DEF Fits, TimerAlone
  <2> HIDE DEF p
  <2>3. Quiet(p)
    BY <2>1, <2>2 DEF WireSound, Quiet
  <2>4. SavedFits(u, seats)
    BY <1>2, <2>1 DEF Fits, SavedFits, Granted
  <2>5. Resumes(u, timer.pid, timer.code)
    BY <1>2, <2>1 DEF Fits, TimerAlone, LoopFits, Resumes
  <2>6. \A v \in Wires \ {u.ws} : Quiet(wires[v])
    BY <1>2, <1>5 DEF SessionInv, Good, Tied
  <2> QED
    BY <1>4, <2>2, <2>3, <2>4, <2>5, <2>6 DEF Hushed
<1>6. CASE tab' = e /\ wires' = wires
  <2>1. /\ e \in Tab /\ e.signedIn = tab.signedIn /\ e.saved = NoSession /\ e.timers = u.timers
        /\ ~e.reconnecting /\ e.ws = tab.ws /\ ~e.held /\ e.mixed = tab.mixed
    BY <1>2, Ids DEF Tab, ExpireSession
  <2> HIDE DEF e
  <2>2. Sound(e, wires, seats) /\ Looping(e, wires) /\ PageWire(e, wires) = p
    BY <1>1, <2>1 DEF Sound, Granted, Looping, PageWire
  <2>3. ASSUME ~tab.mixed PROVE Tied(e, wires, seats)
    <3>1. Hushed(u, wires, seats) /\ p \in Wire /\ Fits(tab, p, seats)
      BY <1>1, <1>2, <1>5, <2>3, SoundPage DEF SessionInv, Good, Tied
    <3>2. Quiet(p) /\ u.timers = {} /\ \A v \in Wires \ {e.ws} : Quiet(wires[v])
      BY <1>2, <1>4, <2>1, <3>1 DEF Hushed
    <3> HIDE DEF p
    <3>3. SavedFits(e, seats) /\ TimerAlone(e, p)
      BY <2>1, <3>2, Ids DEF SavedFits, TimerAlone
    <3>4. LoopFits(e, p)
      BY <2>1, <3>1, <3>2, Ids DEF Fits, LoopFits, Quiet
    <3>5. Fits(e, p, seats)
      BY <1>1, <2>1, <3>1, <3>2, <3>3, <3>4, Bare DEF Sound, Quiet
    <3> QED
      BY <2>2, <3>2, <3>5 DEF Tied
  <2> QED
    BY <1>1, <1>6, <2>1, <2>2, <2>3 DEF SessionInv, Good
<1>7. ASSUME NEW v \in Unused, Attempt(u, wires, timer.pid, timer.code, v)
      PROVE  SessionInv'
  BY <1>1, <1>2, <1>4, <1>5, <1>7, UnusedWires, Attempted DEF SessionInv
<1> QED
  BY <1>3, <1>6, <1>7

\* A page that has not mixed two sessions and hears a socket close, r what is left of it.
LEMMA Closing ==
  ASSUME SessionInv, ~tab.mixed, NEW w \in Wires, wires[w].phase = "closed",
         wires[w].inbox = <<>>, NEW r \in Wire, r.phase = "done", r.inbox = <<>>,
         r.seat = NoSession, r.onclose = "off"
  PROVE  /\ Fits(tab, PageWire(tab, wires), seats) /\ Quiet(r)
         /\ w = tab.ws => /\ PageWire(tab, wires) = wires[w] /\ tab.timers = {}
                          /\ wires[w].onclose # "off"
                          /\ tab.reconnecting => wires[w].onclose = "retry"
         /\ w # tab.ws => Tied(tab, [wires EXCEPT ![w] = r], seats)
<1>1. /\ Sound(tab, wires, seats) /\ Tied(tab, wires, seats) /\ tab \in Tab
      /\ Fits(tab, PageWire(tab, wires), seats)
  BY DEF SessionInv, Good, Sound, Tied
<1>2. Quiet(r)
  BY DEF Quiet
<1>3. w # tab.ws => Tied(tab, [wires EXCEPT ![w] = r], seats)
  BY <1>1, <1>2, TiedPut
<1>4. ASSUME w = tab.ws
      PROVE  /\ PageWire(tab, wires) = wires[w] /\ tab.timers = {}
             /\ wires[w].onclose # "off"
             /\ tab.reconnecting => wires[w].onclose = "retry"
  <2>1. PageWire(tab, wires) = wires[w]
    BY <1>4, Ids DEF PageWire
  <2> QED
    BY <1>1, <2>1 DEF Fits, TimerAlone, LoopFits
<1> QED
  BY <1>1, <1>2, <1>3, <1>4

LEMMA Staled ==
  ASSUME NEW t \in Tab, NEW w, NEW acts \in BOOLEAN
  PROVE  LET u == Stale(t, w, acts)
         IN  /\ u \in Tab /\ u.signedIn = t.signedIn /\ u.saved = t.saved
             /\ u.timers = t.timers /\ u.reconnecting = t.reconnecting /\ u.ws = t.ws
             /\ u.held = t.held /\ u.mixed = (t.mixed \/ (w # t.ws /\ acts))
             /\ w = t.ws \/ ~acts => u = t
BY DEF Stale, Tab

LEMMA ClosesKeeps ==
  ASSUME SessionInv, NEW w \in Wires, WireCloses(w)
  PROVE  SessionInv'
<1> DEFINE r == [NoWire EXCEPT !.phase = "done"]
           gone == [wires EXCEPT ![w] = r]
           t1 == Stale(tab, w, tab.reconnecting)
           acts == HasSession(tab) /\ ~tab.reconnecting
           t2 == Stale(tab, w, acts)
           u == Retry(t1, w)
<1>1. /\ Sound(tab, wires, seats) /\ Looping(tab, wires) /\ tab \in Tab /\ seats' = seats
      /\ wires \in [Wires -> Wire]
  BY DEF SessionInv, Good, Sound, WireCloses
<1>2. /\ r \in Wire /\ r.phase = "done" /\ r.inbox = <<>> /\ r.seat = NoSession
      /\ r.onclose = "off" /\ r.wired = "dispatch"
  BY Blank DEF NoWire, Wire
<1>3. wires[w].phase = "closed" /\ wires[w].inbox = <<>>
  BY DEF WireCloses
<1>4. \/ wires[w].onclose = "off" /\ tab' = tab /\ wires' = gone
      \/ wires[w].onclose = "retry" /\ tab' = u /\ wires' = gone
      \/ \E v \in Unused : wires[w].onclose = "handle" /\ MaybeReconnect(t2, gone, v)
  BY DEF WireCloses, Becoming
<1>5. /\ t1 \in Tab /\ t1.signedIn = tab.signedIn /\ t1.timers = tab.timers
      /\ t1.saved = tab.saved
      /\ t1.reconnecting = tab.reconnecting /\ t1.mixed = (tab.mixed \/ (w # tab.ws /\ tab.reconnecting))
      /\ w = tab.ws \/ ~tab.reconnecting => t1 = tab
  <2>1. tab.reconnecting \in BOOLEAN
    BY <1>1 DEF Tab
  <2> QED
    BY <1>1, <2>1, Staled
<1>6. /\ t2 \in Tab /\ t2.signedIn = tab.signedIn /\ t2.timers = tab.timers
      /\ t2.saved = tab.saved /\ t2.ws = tab.ws /\ t2.reconnecting = tab.reconnecting
      /\ t2.mixed = (tab.mixed \/ (w # tab.ws /\ HasSession(tab) /\ ~tab.reconnecting))
      /\ w = tab.ws \/ ~(HasSession(tab) /\ ~tab.reconnecting) => t2 = tab
  <2>1. acts \in BOOLEAN
    BY <1>1 DEF Tab, HasSession
  <2>2. acts = (HasSession(tab) /\ ~tab.reconnecting)
    OBVIOUS
  <2> HIDE DEF acts
  <2>3. /\ t2 \in Tab /\ t2.signedIn = tab.signedIn /\ t2.timers = tab.timers
        /\ t2.saved = tab.saved /\ t2.ws = tab.ws /\ t2.reconnecting = tab.reconnecting
        /\ t2.mixed = (tab.mixed \/ (w # tab.ws /\ acts))
        /\ w = tab.ws \/ ~acts => t2 = tab
    BY <1>1, <2>1, Staled
  <2> QED
    BY <2>2, <2>3
<1>7. WireSound(r)
  BY <1>2 DEF WireSound
<1> HIDE DEF r
<1>8. ASSUME ~tab.mixed
      PROVE  /\ Fits(tab, PageWire(tab, wires), seats) /\ Quiet(r)
             /\ w = tab.ws => /\ PageWire(tab, wires) = wires[w] /\ tab.timers = {}
                              /\ wires[w].onclose # "off"
                              /\ tab.reconnecting => wires[w].onclose = "retry"
             /\ w # tab.ws => Tied(tab, gone, seats)
  BY <1>2, <1>3, <1>8, Closing
<1>9. ASSUME NEW v \in Tab, v.signedIn = tab.signedIn PROVE Sound(v, gone, seats)
  BY <1>1, <1>2, <1>7, <1>9, SoundPut
<1>10. ASSUME NEW v \in Wires, v # w PROVE gone[v] = wires[v]
  BY <1>1, <1>10
<1>11. gone[w] = r
  BY <1>1
<1> HIDE DEF gone, t1, t2, u
<1>12. CASE wires[w].onclose = "off" /\ tab' = tab /\ wires' = gone
  <2>1. Looping(tab, gone)
    BY <1>1, <1>10, <1>12 DEF Looping, Ending
  <2>2. ~tab.mixed => Tied(tab, gone, seats)
    BY <1>8, <1>12
  <2> QED
    BY <1>1, <1>9, <1>12, <2>1, <2>2 DEF SessionInv, Good
<1>13. CASE wires[w].onclose = "retry" /\ tab' = u /\ wires' = gone
  <2> DEFINE k == [pid |-> wires[w].asked.pid, code |-> wires[w].asked.code, by |-> w]
  <2>1. u = IF tab.reconnecting THEN [t1 EXCEPT !.timers = t1.timers \cup {k}] ELSE t1
    BY <1>5 DEF u, Retry
  <2>2. k \in [pid : Drawn, code : Drawn, by : Wires]
    BY <1>1 DEF Wire, Seat
  <2>3. /\ k.pid = wires[w].asked.pid /\ k.code = wires[w].asked.code
    OBVIOUS
  <2> HIDE DEF k
  <2>4. CASE tab.reconnecting
    <3>1. /\ u \in Tab /\ u.signedIn = tab.signedIn /\ u.timers = tab.timers \cup {k}
          /\ u.mixed = (tab.mixed \/ w # tab.ws)
      BY <1>5, <2>1, <2>2, <2>4 DEF Tab
    <3>2. Looping(u, gone)
      BY <3>1 DEF Looping
    <3>3. ASSUME ~u.mixed PROVE Tied(u, gone, seats)
      <4>1. /\ w = tab.ws /\ ~tab.mixed /\ t1 = tab /\ tab.timers = {}
            /\ Fits(tab, wires[w], seats) /\ Quiet(r)
        BY <1>5, <1>8, <3>1, <3>3
      <4>2. /\ u.saved = tab.saved /\ u.ws = tab.ws /\ u.reconnecting /\ u.timers = {k}
            /\ u.held = tab.held
        BY <1>1, <2>1, <2>4, <4>1 DEF Tab
      <4>3. SavedFits(u, seats)
        BY <3>1, <4>1, <4>2 DEF Fits, SavedFits, Granted
      <4>4. TimerAlone(u, r) /\ LoopFits(u, r)
        BY <1>2, <1>13, <2>3, <2>4, <4>1, <4>2 DEF Fits, TimerAlone, LoopFits
      <4>5. Fits(u, r, seats)
        BY <1>1, <1>2, <3>1, <4>2, <4>3, <4>4, Bare DEF Sound
      <4>6. SessionInv => Tied(tab, wires, seats)
        BY <4>1 DEF SessionInv, Good
      <4> QED
        BY <1>1, <1>2, <3>1, <4>1, <4>2, <4>5, <4>6, TiedPut DEF gone
    <3> QED
      BY <1>1, <1>9, <1>13, <3>1, <3>2, <3>3 DEF SessionInv, Good
  <2>5. CASE ~tab.reconnecting
    <3>1. u = tab
      BY <1>5, <2>1, <2>5
    <3>2. Looping(tab, gone)
      BY <2>5 DEF Looping
    <3>3. ASSUME ~tab.mixed PROVE Tied(tab, gone, seats)
      <4>1. CASE w # tab.ws
        BY <1>8, <3>3, <4>1
      <4>2. CASE w = tab.ws
        <5>1. /\ tab.timers = {} /\ Fits(tab, wires[w], seats) /\ Tied(tab, wires, seats)
          BY <1>8, <3>3, <4>2 DEF SessionInv, Good
        <5>2. tab.saved.code = NoId
          BY <1>13, <2>5, <5>1, Ids DEF Fits, LoopFits
        <5>3. SavedFits(tab, seats) /\ TimerAlone(tab, r) /\ LoopFits(tab, r)
          BY <1>2, <2>5, <5>1, <5>2 DEF SavedFits, TimerAlone, LoopFits
        <5>4. Fits(tab, r, seats)
          BY <1>1, <1>2, <5>2, <5>3, Bare DEF Sound
        <5> QED
          BY <1>1, <1>2, <4>2, <5>1, <5>4, TiedPut DEF gone
      <4> QED
        BY <4>1, <4>2
    <3> QED
      BY <1>1, <1>9, <1>13, <3>1, <3>2, <3>3 DEF SessionInv, Good
  <2> QED
    BY <2>4, <2>5
<1>14. ASSUME NEW v \in Unused, wires[w].onclose = "handle", MaybeReconnect(t2, gone, v)
       PROVE  SessionInv'
  <2>1. Sound(t2, gone, seats)
    BY <1>6, <1>9
  <2>2. Looping(t2, gone)
    BY <1>1, <1>6, <1>10, <1>14 DEF Looping, Ending
  <2>3. ASSUME ~t2.mixed
        PROVE  IF t2.reconnecting \/ ~HasSession(t2) THEN Tied(t2, gone, seats)
               ELSE Hushed(t2, gone, seats)
    <3>1. ~tab.mixed /\ t2 = tab
      BY <1>6, <2>3
    <3>2. CASE w # tab.ws
      BY <1>6, <1>8, <2>3, <3>1, <3>2
    <3>3. CASE w = tab.ws
      <4>1. /\ tab.timers = {} /\ ~tab.reconnecting /\ Fits(tab, wires[w], seats)
            /\ Tied(tab, wires, seats) /\ Quiet(r)
        BY <1>8, <1>14, <3>1, <3>3 DEF SessionInv, Good
      <4>2. SavedFits(tab, seats) /\ TimerAlone(tab, r) /\ LoopFits(tab, r)
        BY <1>2, <4>1 DEF Fits, TimerAlone, LoopFits
      <4>3. PageWire(tab, gone) = r
        BY <1>11, <3>3, Ids DEF PageWire
      <4>4. Hushed(tab, gone, seats)
        BY <1>10, <3>3, <4>1, <4>2, <4>3 DEF Hushed, Tied
      <4>5. ASSUME ~HasSession(tab) PROVE Tied(tab, gone, seats)
        <5>1. tab.saved.code = NoId
          BY <1>1, <4>2, <4>5, GrantedIds DEF SavedFits, HasSession, Tab
        <5>2. Fits(tab, r, seats)
          BY <1>1, <1>2, <4>2, <5>1, Bare DEF Sound
        <5> QED
          BY <1>1, <1>2, <3>3, <4>1, <5>2, TiedPut DEF gone
      <4> QED
        BY <3>1, <4>1, <4>4, <4>5
    <3> QED
      BY <3>2, <3>3
  <2> QED
    BY <1>1, <1>14, <2>1, <2>2, <2>3, UnusedWires, Maybe DEF SessionInv
<1> QED
  BY <1>4, <1>12, <1>13, <1>14

\* Socket w becomes r, the page u: both fit, if it is the page's, or there is nothing to fit.
LEMMA Steps ==
  ASSUME SessionInv, NEW u \in Tab, u.signedIn = tab.signedIn, u.ws = tab.ws,
         NEW w \in Wires, NEW r \in Wire, WireSound(r),
         tab' = u, wires' = [wires EXCEPT ![w] = r], seats' = seats,
         Looping(u, [wires EXCEPT ![w] = r]),
         ~u.mixed => ~tab.mixed,
         ~u.mixed /\ w = tab.ws => Fits(u, r, seats),
         ~u.mixed /\ w # tab.ws => Quiet(r) /\ u = tab
  PROVE  SessionInv'
<1>1. Sound(tab, wires, seats)
  BY DEF SessionInv, Good
<1>2. Sound(tab', wires', seats')
  BY <1>1, SoundPut
<1>3. ASSUME ~u.mixed PROVE Tied(tab', wires', seats')
  <2>1. Tied(tab, wires, seats) /\ Fits(tab, PageWire(tab, wires), seats)
    BY <1>3 DEF SessionInv, Good, Tied
  <2>2. IF w = tab.ws THEN Fits(u, r, seats) ELSE Quiet(r) /\ Fits(u, PageWire(tab, wires), seats)
    BY <1>3, <2>1
  <2> QED
    BY <1>1, <2>1, <2>2, TiedPut
<1> QED
  BY <1>2, <1>3 DEF SessionInv, Good

\* A socket of which something is heard is the page's, unless it has mixed two sessions.
LEMMA Heard ==
  ASSUME SessionInv, NEW w \in Wires, ~Quiet(wires[w]), ~tab.mixed
  PROVE  w = tab.ws /\ Fits(tab, wires[w], seats)
<1>1. w = tab.ws
  BY DEF SessionInv, Good, Tied
<1>2. PageWire(tab, wires) = wires[w]
  BY <1>1, Ids DEF PageWire
<1> QED
  BY <1>1, <1>2 DEF SessionInv, Good, Tied

LEMMA HearKeeps ==
  ASSUME SessionInv, NEW w \in Wires, Hear(w)
  PROVE  SessionInv'
<1> DEFINE p == wires[w]
           f == p.inbox[1]
<1>1. /\ Sound(tab, wires, seats) /\ Looping(tab, wires) /\ tab \in Tab /\ seats' = seats
      /\ wires \in [Wires -> Wire] /\ p \in Wire /\ WireSound(p) /\ seats \in SUBSET Seat
  BY DEF SessionInv, Good, Sound, Hear
<1>2. /\ p.inbox # <<>> /\ p.inbox \in Seq(Frame) /\ f = Head(p.inbox) /\ f \in Frame
      /\ p.phase \in {"open", "closed"} /\ Tail(p.inbox) \in Seq(Frame)
  <2>1. p.inbox # <<>> /\ p.inbox \in Seq(Frame)
    BY <1>1 DEF Hear, Wire
  <2>2. p.phase \in {"open", "closed"}
    BY <1>1, <2>1 DEF WireSound, Wire
  <2> HIDE DEF p
  <2> QED
    BY <2>1, <2>2, First
<1>3. ~tab.mixed => w = tab.ws /\ Fits(tab, p, seats)
  BY <1>2, Heard DEF Quiet
<1>4. \/ p.wired = "dispatch" /\ tab' = HandleMessage(tab, f) /\ wires' = Read(w)
      \/ p.wired = "attempt" /\ f.type = "welcome" /\ tab' = tab /\ wires' = Read(w)
      \/ /\ p.wired = "attempt" /\ f.type = "fatal"
         /\ tab' = ExpireSession(tab) /\ wires' = Hung(wires, w)
      \/ /\ p.wired = "attempt" /\ f.type \notin {"welcome", "fatal"}
         /\ tab' = HandleMessage([tab EXCEPT !.reconnecting = FALSE], f)
         /\ wires' = [Read(w) EXCEPT ![w].wired = "dispatch", ![w].onclose = "handle"]
  BY <1>2 DEF Hear, Dispatched, AttemptHears, Becoming
<1>5. CASE p.wired = "dispatch" /\ tab' = HandleMessage(tab, f) /\ wires' = Read(w)
  <2> DEFINE r == [p EXCEPT !.inbox = Tail(p.inbox)]
             u == HandleMessage(tab, f)
  <2>1. /\ r \in Wire /\ r.phase = p.phase /\ r.wired = p.wired /\ r.onclose = p.onclose
        /\ r.seat = p.seat /\ r.inbox = Tail(p.inbox)
    BY <1>1, <1>2 DEF Wire
  <2>2. wires' = [wires EXCEPT ![w] = r]
    BY <1>1, <1>5 DEF Read
  <2>3. /\ u \in Tab /\ u.signedIn = tab.signedIn /\ u.ws = tab.ws /\ u.mixed = tab.mixed
        /\ u.timers = tab.timers
        /\ u.reconnecting => tab.reconnecting
    BY <1>1, <1>2, Handled
  <2>4. ~tab.mixed => Fits(u, r, seats)
    BY <1>1, <1>2, <1>3, <1>5, <2>1, <2>3, Dispatches
  <2> HIDE DEF r, u
  <2>5. WireSound(r)
    BY <1>1, <1>2, <1>5, <2>1 DEF WireSound
  <2>6. Looping(u, [wires EXCEPT ![w] = r])
    <3>1. p.onclose # "retry"
      BY <1>1, <1>5 DEF WireSound
    <3> HIDE DEF p
    <3>2. \A v \in Wires : Ending(wires[v]) => v # w
      BY <3>1 DEF Ending, p
    <3> QED
      BY <1>1, <2>3, <3>2 DEF Looping
  <2> QED
    BY <1>1, <1>3, <1>5, <2>1, <2>2, <2>3, <2>4, <2>5, <2>6, Steps DEF u
<1>6. CASE p.wired = "attempt" /\ f.type = "welcome" /\ tab' = tab /\ wires' = Read(w)
  <2> DEFINE r == [p EXCEPT !.inbox = Tail(p.inbox)]
  <2>1. /\ r \in Wire /\ r.phase = p.phase /\ r.wired = p.wired /\ r.onclose = p.onclose
        /\ r.seat = p.seat /\ r.inbox = Tail(p.inbox)
    BY <1>1, <1>2 DEF Wire
  <2>2. wires' = [wires EXCEPT ![w] = r]
    BY <1>1, <1>6 DEF Read
  <2>3. ~tab.mixed => Fits(tab, r, seats)
    BY <1>1, <1>2, <1>3, <1>6, <2>1, WelcomePassed
  <2> HIDE DEF r
  <2>4. p.phase = "open" => \E i \in 1..Len(r.inbox) : r.inbox[i].type \in {"state", "fatal"}
    <3>1. SUFFICES ASSUME p.phase = "open"
                   PROVE  \E i \in 1..Len(r.inbox) : r.inbox[i].type \in {"state", "fatal"}
      OBVIOUS
    <3>2. PICK i \in 1..Len(p.inbox) : p.inbox[i].type \in {"state", "fatal"}
      BY <1>1, <1>6, <3>1 DEF WireSound
    <3>3. i # 1
      BY <1>6, <3>2
    <3> HIDE DEF p
    <3>4. i - 1 \in 1..Len(r.inbox) /\ r.inbox[i - 1] = p.inbox[i]
      BY <1>2, <2>1, <3>3, First
    <3> QED
      BY <3>2, <3>4
  <2>5. WireSound(r)
    BY <1>1, <1>2, <1>6, <2>1, <2>4 DEF WireSound
  <2>6. Looping(tab, [wires EXCEPT ![w] = r])
    <3>1. Ending(p) => Ending(r)
      <4>1. (\E i \in 1..Len(r.inbox) : r.inbox[i].type \in {"state", "fatal"}) => r.inbox # <<>>
        <5>1. r.inbox = <<>> => Len(r.inbox) = 0
          OBVIOUS
        <5> QED
          BY <5>1
      <4> QED
        BY <1>2, <2>1, <2>4, <4>1 DEF Ending
    <3> HIDE DEF p
    <3>2. \A v \in Wires : Ending(wires[v]) => Ending([wires EXCEPT ![w] = r][v])
      BY <1>1, <3>1 DEF p
    <3> QED
      BY <1>1, <3>2 DEF Looping
  <2> QED
    BY <1>1, <1>3, <1>6, <2>1, <2>2, <2>3, <2>5, <2>6, Steps
<1>7. CASE /\ p.wired = "attempt" /\ f.type = "fatal"
           /\ tab' = ExpireSession(tab) /\ wires' = Hung(wires, w)
  <2> DEFINE r == [p EXCEPT !.phase = "closed", !.inbox = <<>>, !.seat = NoSession]
             u == ExpireSession(tab)
  <2>1. /\ r \in Wire /\ r.phase = "closed" /\ r.wired = p.wired /\ r.onclose = p.onclose
        /\ r.seat = NoSession /\ r.inbox = <<>>
    BY <1>1, Blank DEF Wire, NoWire
  <2>2. wires' = [wires EXCEPT ![w] = r]
    BY <1>1, <1>7 DEF Hung, Wire
  <2>3. /\ u \in Tab /\ u.signedIn = tab.signedIn /\ u.ws = tab.ws /\ u.mixed = tab.mixed
        /\ ~u.reconnecting
    BY <1>1, Ids DEF ExpireSession, Tab
  <2>4. ~tab.mixed => Fits(u, r, seats)
    BY <1>1, <1>2, <1>3, <1>7, <2>1, <2>3, Refused
  <2> HIDE DEF r, u
  <2>5. WireSound(r)
    BY <1>1, <1>7, <2>1 DEF WireSound
  <2>6. Looping(u, [wires EXCEPT ![w] = r])
    BY <2>3 DEF Looping
  <2> QED
    BY <1>1, <1>3, <1>7, <2>1, <2>2, <2>3, <2>4, <2>5, <2>6, Steps DEF u
<1>8. CASE /\ p.wired = "attempt" /\ f.type \notin {"welcome", "fatal"}
           /\ tab' = HandleMessage([tab EXCEPT !.reconnecting = FALSE], f)
           /\ wires' = [Read(w) EXCEPT ![w].wired = "dispatch", ![w].onclose = "handle"]
  <2> DEFINE r == [p EXCEPT !.inbox = Tail(p.inbox), !.wired = "dispatch", !.onclose = "handle"]
             t == [tab EXCEPT !.reconnecting = FALSE]
             u == HandleMessage(t, f)
  <2>1. /\ r \in Wire /\ r.phase = p.phase /\ r.wired = "dispatch" /\ r.onclose = "handle"
        /\ r.seat = p.seat /\ r.inbox = Tail(p.inbox)
    BY <1>1, <1>2 DEF Wire
  <2>2. wires' = [wires EXCEPT ![w] = r]
    BY <1>1, <1>8 DEF Read, Wire
  <2>3. /\ t \in Tab /\ t.signedIn = tab.signedIn /\ t.ws = tab.ws /\ t.mixed = tab.mixed
        /\ ~t.reconnecting
    BY <1>1 DEF Tab
  <2>4. /\ u \in Tab /\ u.signedIn = tab.signedIn /\ u.ws = tab.ws /\ u.mixed = tab.mixed
        /\ ~u.reconnecting
    <3> HIDE DEF t
    <3> QED
      BY <1>2, <1>8, <2>3, Handled
  <2>5. ~tab.mixed => Fits(u, r, seats)
    BY <1>1, <1>2, <1>3, <1>8, <2>1, <2>3, <2>4, Live
  <2>6. tab' = u
    BY <1>8
  <2> HIDE DEF r, u, t
  <2>7. WireSound(r)
    BY <1>1, <1>2, <2>1 DEF WireSound
  <2>8. Looping(u, [wires EXCEPT ![w] = r])
    BY <2>4 DEF Looping
  <2> QED
    BY <1>1, <1>3, <2>1, <2>2, <2>4, <2>5, <2>6, <2>7, <2>8, Steps
<1> QED
  BY <1>4, <1>5, <1>6, <1>7, <1>8

-----------------------------------------------------------------------------
(* The steps of the server and of the network.                             *)

LEMMA NoSeat ==
  ASSUME NEW p \in Wire, WireSound(p), NEW r, r = [p EXCEPT !.seat = NoSession]
  PROVE  /\ r \in Wire /\ WireSound(r) /\ Ending(r) = Ending(p)
         /\ Quiet(p) => Quiet(r)
<1>1. /\ r \in Wire /\ r.phase = p.phase /\ r.wired = p.wired /\ r.onclose = p.onclose
      /\ r.asked = p.asked /\ r.inbox = p.inbox /\ r.seat = NoSession
  BY Ids DEF Wire
<1> QED
  BY <1>1 DEF WireSound, Ending, Quiet

\* Of the sockets vs, w is r, and the others may have lost their seats.
SeatsOne(w, vs, r) ==
  /\ r \in Wire /\ vs[w] = r /\ vs \in [Wires -> Wire]
  /\ \A v \in Wires \ {w} : vs[v] = wires[v] \/ vs[v] = [wires[v] EXCEPT !.seat = NoSession]

\* The server answers socket w.
LEMMA Answers ==
  ASSUME SessionInv, NEW w \in Wires, wires[w].phase = "opening", NEW r \in Wire, WireSound(r),
         Ending(wires[w]) => Ending(r), NEW vs, SeatsOne(w, vs, r),
         NEW ss \in SUBSET Seat, \A s \in ss : Granted(tab, s),
         ~tab.mixed /\ Fits(tab, wires[w], seats) => Fits(tab, r, ss)
  PROVE  Good(tab, vs, ss)
<1>1. /\ Sound(tab, wires, seats) /\ Looping(tab, wires) /\ tab \in Tab
      /\ wires \in [Wires -> Wire] /\ \A v \in Wires : WireSound(wires[v])
  BY DEF SessionInv, Good, Sound
<1>6. /\ vs \in [Wires -> Wire] /\ vs[w] = r
      /\ \A v \in Wires \ {w} :
           vs[v] = wires[v] \/ vs[v] = [wires[v] EXCEPT !.seat = NoSession]
  BY DEF SeatsOne
<1>2. ASSUME NEW v \in Wires
      PROVE  /\ WireSound(vs[v]) /\ (Ending(wires[v]) => Ending(vs[v]))
             /\ v # w /\ Quiet(wires[v]) => Quiet(vs[v])
  <2>1. CASE v = w
    BY <1>6, <2>1
  <2>2. CASE v # w /\ vs[v] = wires[v]
    BY <1>1, <2>2
  <2>3. CASE v # w /\ vs[v] = [wires[v] EXCEPT !.seat = NoSession]
    BY <1>1, <2>3, NoSeat
  <2> QED
    BY <1>6, <2>1, <2>2, <2>3
<1>3. Sound(tab, vs, ss)
  BY <1>1, <1>2, <1>6 DEF Sound
<1>4. Looping(tab, vs)
  BY <1>1, <1>2 DEF Looping
<1>5. ASSUME ~tab.mixed PROVE Tied(tab, vs, ss)
  <2>1. w = tab.ws /\ Fits(tab, wires[w], seats)
    BY <1>5, Heard DEF Quiet
  <2>2. PageWire(tab, vs) = r
    BY <1>6, <2>1, Ids DEF PageWire
  <2>3. \A v \in Wires \ {tab.ws} : Quiet(vs[v])
    BY <1>2, <1>5, <2>1 DEF SessionInv, Good, Tied
  <2> QED
    BY <1>5, <2>1, <2>2, <2>3 DEF Tied
<1> QED
  BY <1>3, <1>4, <1>5 DEF Good

LEMMA SeatedWires ==
  ASSUME wires \in [Wires -> Wire], NEW w \in Wires, NEW s \in Seat, NEW q \in Seq(Frame),
         NEW r, r = [wires[w] EXCEPT !.phase = "open", !.seat = s, !.inbox = q],
         NEW vs, vs = Seated(w, s, q)
  PROVE  SeatsOne(w, vs, r)
<1>1. r \in Wire
  BY DEF Wire
<1>2. \A v \in Wires : [wires[v] EXCEPT !.seat = NoSession] \in Wire
  BY Ids DEF Wire
<1> QED
  BY <1>1, <1>2 DEF Seated, SeatsOne

LEMMA Joined ==
  ASSUME NEW x \in Seq(Frame), NEW q \in Seq(Frame)
  PROVE  /\ x \o q \in Seq(Frame) /\ Len(x \o q) = Len(x) + Len(q) /\ Len(q) \in Nat
         /\ \A j \in 1..Len(x) : (x \o q)[j] = x[j]
         /\ \A j \in 1..Len(q) : (x \o q)[Len(x) + j] = q[j]
<1>1. /\ x \o q \in Seq(Frame) /\ Len(x \o q) = Len(x) + Len(q) /\ Len(q) \in Nat
      /\ Len(x) \in Nat
  OBVIOUS
<1>2. \A j \in 1..Len(x) : (x \o q)[j] = x[j]
  BY <1>1
<1>3. \A j \in 1..Len(q) : (x \o q)[Len(x) + j] = q[j]
  BY <1>1
<1> QED
  BY <1>1, <1>2, <1>3

LEMMA Paired ==
  ASSUME NEW a \in Frame, NEW b \in Frame, NEW q \in Seq(Frame)
  PROVE  LET i == (<<a>> \o <<b>>) \o q
         IN  /\ i \in Seq(Frame) /\ Len(i) = 2 + Len(q) /\ i[1] = a /\ i[2] = b
             /\ \A j \in 1..Len(q) : i[2 + j] = q[j]
<1> DEFINE x == <<a>> \o <<b>>
<1>1. x \in Seq(Frame) /\ Len(x) = 2 /\ x[1] = a /\ x[2] = b
  OBVIOUS
<1> HIDE DEF x
<1> DEFINE i == x \o q
<1>2. i \in Seq(Frame) /\ Len(i) = 2 + Len(q) /\ i[1] = a /\ i[2] = b
  BY <1>1, Joined
<1>3. \A j \in 1..Len(q) : i[2 + j] = q[j]
  <2>1. \A j \in 1..Len(q) : i[Len(x) + j] = q[j]
    BY <1>1, Joined
  <2> HIDE DEF i
  <2> QED
    BY <1>1, <2>1
<1>4. i = (<<a>> \o <<b>>) \o q
  BY DEF x
<1> HIDE DEF i
<1> QED
  BY <1>2, <1>3, <1>4

\* The frames that greet a player.
Greets(i, k, q, s) ==
  /\ i \in Seq(Frame) /\ Len(i) = k + Len(q) /\ k \in {1, 2}
  /\ i[1].type = "welcome" /\ (k = 2 => i[2].type = "auth_ok")
  /\ i[k].seat.pid = s.pid
  /\ \A j \in 1..Len(q) : i[k + j] = q[j]

LEMMA Greeting ==
  ASSUME tab \in Tab, NEW w \in Wires, NEW s \in Seat, s.pid = Pid(w), NEW q \in Seq(Frame),
         NEW k, k = IF tab.signedIn THEN 2 ELSE 1, NEW i, i = Introduced(w) \o q
  PROVE  Greets(i, k, q, s)
<1> DEFINE a == Message("welcome", [NoSession EXCEPT !.pid = w])
           b == Message("auth_ok", [NoSession EXCEPT !.pid = AccountId])
<1>1. /\ a \in Frame /\ a.type = "welcome" /\ a.seat.pid = w
      /\ b \in Frame /\ b.type = "auth_ok" /\ b.seat.pid = AccountId
  BY Ids DEF Message, Frame, Types, Seat, NoSession
<1>2. tab.signedIn \in BOOLEAN
  BY DEF Tab
<1>3. Introduced(w) = IF tab.signedIn THEN <<a>> \o <<b>> ELSE <<a>> \o <<>>
  BY DEF Introduced
<1> HIDE DEF a, b
<1>4. CASE tab.signedIn
  <2>1. k = 2 /\ s.pid = b.seat.pid
    BY <1>1, <1>4 DEF Pid
  <2> DEFINE y == (<<a>> \o <<b>>) \o q
  <2>2. /\ y \in Seq(Frame) /\ Len(y) = 2 + Len(q) /\ y[1] = a /\ y[2] = b
        /\ \A j \in 1..Len(q) : y[2 + j] = q[j]
    BY <1>1, Paired
  <2>3. i = y
    BY <1>3, <1>4
  <2> HIDE DEF y
  <2> QED
    BY <1>1, <2>1, <2>2, <2>3 DEF Greets
<1>5. CASE ~tab.signedIn
  <2>1. k = 1 /\ s.pid = a.seat.pid
    BY <1>1, <1>5 DEF Pid
  <2>2. <<a>> \o <<>> = <<a>>
    BY <1>1
  <2>3. Introduced(w) = <<a>>
    BY <1>3, <1>5, <2>2
  <2> QED
    BY <1>1, <2>1, <2>3 DEF Greets
<1> QED
  BY <1>2, <1>4, <1>5

LEMMA GrantKeeps ==
  ASSUME SessionInv, NEW w \in Wires, Grant(w)
  PROVE  SessionInv'
<1> DEFINE p == wires[w]
           code == IF p.asked.code = NoId THEN w ELSE p.asked.code
           s == [pid |-> Pid(w), code |-> code, token |-> w]
           q == <<Message("reconnect_token", s), Message("state", s)>>
           i == Introduced(w) \o q
           r == [p EXCEPT !.phase = "open", !.seat = s, !.inbox = i]
           vs == Seated(w, s, i)
           ss == {x \in seats : ~(x.pid = s.pid /\ x.code = code)} \cup {s}
           k == IF tab.signedIn THEN 2 ELSE 1
<1>1. /\ Sound(tab, wires, seats) /\ tab \in Tab /\ wires \in [Wires -> Wire]
      /\ p \in Wire /\ WireSound(p) /\ seats \in SUBSET Seat /\ \A x \in seats : Granted(tab, x)
  BY DEF SessionInv, Good, Sound
<1>2. p.phase = "opening" /\ p.wired = "dispatch"
  BY DEF Grant
<1>3. tab' = tab /\ seats' = ss /\ wires' = vs
  BY DEF Grant
<1>4. code \in {w, Theirs}
  BY <1>1, <1>2 DEF WireSound
<1>5. s \in Seat /\ Granted(tab, s) /\ s.pid = Pid(w) /\ s.code = code /\ s.token = w
  BY <1>4, Ids DEF Seat, Granted, Pid
<1> HIDE DEF code, s
<1>6. /\ q \in Seq(Frame) /\ Len(q) = 2 /\ q[1] = Message("reconnect_token", s)
      /\ q[2] = Message("state", s)
  <2>1. Message("reconnect_token", s) \in Frame /\ Message("state", s) \in Frame
    BY <1>5 DEF Message, Frame, Types
  <2> QED
    BY <2>1
<1> HIDE DEF q
<1>14. i = Introduced(w) \o q /\ k = IF tab.signedIn THEN 2 ELSE 1
  OBVIOUS
<1> HIDE DEF i, k
<1>7. /\ i \in Seq(Frame) /\ Len(i) = k + 2 /\ k \in {1, 2} /\ i[1].type = "welcome"
      /\ k = 2 => i[2].type = "auth_ok"
      /\ i[k].seat.pid = s.pid
      /\ i[k + 1] = Message("reconnect_token", s) /\ i[k + 2] = Message("state", s)
  <2>1. Greets(i, k, q, s)
    BY <1>1, <1>5, <1>6, <1>14, Greeting
  <2> QED
    BY <1>6, <2>1 DEF Greets
<1>15. r = [wires[w] EXCEPT !.phase = "open", !.seat = s, !.inbox = i] /\ vs = Seated(w, s, i)
  OBVIOUS
<1> HIDE DEF r, vs
<1>8. SeatsOne(w, vs, r) /\ r \in Wire
  <2>1. SeatsOne(w, vs, r)
    BY <1>1, <1>5, <1>7, <1>15, SeatedWires
  <2> QED
    BY <2>1 DEF SeatsOne
<1>9. r.phase = "open" /\ r.wired = "dispatch" /\ r.onclose = p.onclose
  BY <1>1, <1>2, <1>15 DEF Wire
<1>10. WireSound(r) /\ ~Ending(p)
  BY <1>1, <1>2, <1>9 DEF WireSound, Ending
<1>11. ss \in SUBSET Seat /\ (\A x \in ss : Granted(tab, x)) /\ Newest(s, ss)
  BY <1>1, <1>5 DEF Newest
<1>12. ~tab.mixed /\ Fits(tab, p, seats) => Fits(tab, r, ss)
  <2>2. r = [p EXCEPT !.phase = "open", !.seat = s, !.inbox = i]
    BY <1>15
  <2> HIDE DEF p, ss
  <2>1. ASSUME Fits(tab, p, seats) PROVE Fits(tab, r, ss)
    BY <1>1, <1>2, <1>5, <1>7, <1>8, <1>11, <2>1, <2>2, GrantHeard
  <2> QED
    BY <2>1
<1> HIDE DEF ss
<1>13. Good(tab, vs, ss)
  BY <1>2, <1>8, <1>10, <1>11, <1>12, Answers
<1> QED
  BY <1>3, <1>13, <1>15 DEF SessionInv

LEMMA RefuseKeeps ==
  ASSUME SessionInv, NEW w \in Wires, Refuse(w)
  PROVE  SessionInv'
<1> DEFINE p == wires[w]
           s == [NoSession EXCEPT !.pid = Pid(w)]
           q == <<Message("error", NoSession)>>
           i == Introduced(w) \o q
           r == [p EXCEPT !.phase = "open", !.inbox = i]
           k == IF tab.signedIn THEN 2 ELSE 1
<1>1. /\ Sound(tab, wires, seats) /\ tab \in Tab /\ wires \in [Wires -> Wire]
      /\ p \in Wire /\ WireSound(p) /\ seats \in SUBSET Seat /\ \A x \in seats : Granted(tab, x)
  BY DEF SessionInv, Good, Sound
<1>2. p.phase = "opening" /\ p.wired = "dispatch"
  BY DEF Refuse
<1>3. tab' = tab /\ seats' = seats /\ wires' = Answered(w, i)
  BY DEF Refuse
<1>4. s \in Seat /\ s.pid = Pid(w)
  BY Ids DEF Seat, Pid, NoSession
<1> HIDE DEF s
<1>5. q \in Seq(Frame) /\ Len(q) = 1 /\ q[1].type = "error"
  <2>1. Message("error", NoSession) \in Frame /\ Message("error", NoSession).type = "error"
    BY Ids DEF Message, Frame, Types
  <2> QED
    BY <2>1
<1> HIDE DEF q
<1>13. i = Introduced(w) \o q /\ k = IF tab.signedIn THEN 2 ELSE 1
  OBVIOUS
<1> HIDE DEF i, k
<1>6. /\ i \in Seq(Frame) /\ Len(i) = k + 1 /\ k \in {1, 2} /\ i[1].type = "welcome"
      /\ k = 2 => i[2].type = "auth_ok"
      /\ i[k + 1].type = "error"
  <2>1. Greets(i, k, q, s)
    BY <1>1, <1>4, <1>5, <1>13, Greeting
  <2> QED
    BY <1>5, <2>1 DEF Greets
<1>7. r \in Wire /\ r.phase = "open" /\ r.wired = "dispatch" /\ r.onclose = p.onclose
  BY <1>1, <1>2, <1>6 DEF Wire
<1>8. Answered(w, i) = [wires EXCEPT ![w] = r]
  BY <1>1 DEF Answered, Wire
<1>9. WireSound(r) /\ ~Ending(p)
  BY <1>1, <1>2, <1>7 DEF WireSound, Ending
<1>10. ~tab.mixed /\ Fits(tab, p, seats) => Fits(tab, r, seats)
  <2> HIDE DEF p
  <2>1. ASSUME Fits(tab, p, seats) PROVE Fits(tab, r, seats)
    BY <1>1, <1>2, <1>6, <1>7, <2>1, RefusalHeard
  <2> QED
    BY <2>1
<1> HIDE DEF r
<1> DEFINE vs == [wires EXCEPT ![w] = r]
<1>11. SeatsOne(w, vs, r)
  BY <1>1, <1>7 DEF SeatsOne
<1> HIDE DEF vs
<1>12. Good(tab, vs, seats)
  BY <1>1, <1>2, <1>7, <1>9, <1>10, <1>11, Answers
<1> QED
  BY <1>3, <1>8, <1>12 DEF SessionInv, vs

\* What an attempt is answered: its welcome, a ping or none, and the frame f.
LEMMA Reply ==
  ASSUME NEW a \in Frame, a.type = "welcome", NEW f \in Frame, NEW late,
         late = <<>> \/ late = <<Message("ping", NoSession)>>
  PROVE  \E k \in {1, 2}, i \in Seq(Frame) :
           /\ i = (<<a>> \o late) \o <<f>>
           /\ Len(i) = k + 1 /\ i[1].type = "welcome" /\ (k = 2 => i[2].type = "ping")
           /\ i[k + 1] = f
<1> DEFINE g == Message("ping", NoSession)
<1>1. g \in Frame /\ g.type = "ping"
  BY Ids DEF Message, Frame, Types
<1> HIDE DEF g
<1>2. <<f>> \in Seq(Frame) /\ Len(<<f>>) = 1 /\ <<f>>[1] = f /\ 1 \in 1..1
  OBVIOUS
<1>3. CASE late = <<>>
  <2>1. <<a>> \o late = <<a>>
    BY <1>3
  <2>2. <<a>> \o <<f>> \in Seq(Frame) /\ Len(<<a>> \o <<f>>) = 2
    OBVIOUS
  <2>3. (<<a>> \o <<f>>)[1] = a /\ (<<a>> \o <<f>>)[2] = f
    OBVIOUS
  <2> WITNESS 1 \in {1, 2}
  <2> WITNESS <<a>> \o <<f>> \in Seq(Frame)
  <2> QED
    BY <2>1, <2>2, <2>3
<1>4. CASE late = <<g>>
  <2> DEFINE i == (<<a>> \o <<g>>) \o <<f>>
  <2>1. /\ i \in Seq(Frame) /\ Len(i) = 2 + Len(<<f>>) /\ i[1] = a /\ i[2] = g
        /\ \A j \in 1..Len(<<f>>) : i[2 + j] = <<f>>[j]
    BY <1>1, Paired
  <2>2. i = (<<a>> \o late) \o <<f>>
    BY <1>4
  <2> HIDE DEF i
  <2>3. Len(i) = 3 /\ i[3] = f
    BY <1>2, <2>1
  <2>4. 2 \in {1, 2} /\ i \in Seq(Frame)
    BY <2>1
  <2>5. i[2 + 1] = f /\ Len(i) = 2 + 1
    BY <2>3
  <2> QED
    BY <1>1, <2>1, <2>2, <2>4, <2>5
<1> QED
  BY <1>3, <1>4 DEF g

LEMMA ServeKeeps ==
  ASSUME SessionInv, NEW w \in Wires, ServeReconnect(w)
  PROVE  SessionInv'
<1> DEFINE p == wires[w]
           s == p.asked
           a == Message("welcome", [NoSession EXCEPT !.pid = w])
           f == IF s \in seats THEN Message("state", s) ELSE Message("fatal", NoSession)
           z == IF s \in seats THEN s ELSE NoSession
<1>1. /\ Sound(tab, wires, seats) /\ tab \in Tab /\ wires \in [Wires -> Wire]
      /\ p \in Wire /\ WireSound(p) /\ seats \in SUBSET Seat /\ \A x \in seats : Granted(tab, x)
  BY DEF SessionInv, Good, Sound
<1>2. p.phase = "opening" /\ p.wired = "attempt" /\ tab' = tab /\ seats' = seats
  BY DEF ServeReconnect
<1>3. PICK late : /\ late = <<>> \/ late = <<Message("ping", NoSession)>>
                  /\ wires' = IF s \in seats
                              THEN Seated(w, s, (<<a>> \o late) \o <<f>>)
                              ELSE Answered(w, (<<a>> \o late) \o <<f>>)
  BY DEF ServeReconnect
<1>4. /\ a \in Frame /\ a.type = "welcome" /\ f \in Frame /\ s \in Seat /\ z \in Seat
  BY <1>1, Ids DEF Message, Frame, Types, Seat, NoSession, Wire
<1>5. /\ s \in seats => z = s /\ f = Message("state", s) /\ f.type = "state"
      /\ s \notin seats => z = NoSession /\ f.type = "fatal"
  BY DEF Message
<1> HIDE DEF a, f, z
<1>6. PICK k \in {1, 2}, i \in Seq(Frame) :
           /\ i = (<<a>> \o late) \o <<f>>
           /\ Len(i) = k + 1 /\ i[1].type = "welcome" /\ (k = 2 => i[2].type = "ping")
           /\ i[k + 1] = f
  BY <1>3, <1>4, Reply
<1> DEFINE r == [p EXCEPT !.phase = "open", !.seat = z, !.inbox = i]
<1>7. /\ r \in Wire /\ r.phase = "open" /\ r.wired = "attempt" /\ r.onclose = p.onclose
      /\ r.inbox = i
  BY <1>1, <1>2, <1>4 DEF Wire
<1>8. r = [wires[w] EXCEPT !.phase = "open", !.seat = z, !.inbox = i]
  OBVIOUS
<1> HIDE DEF r
<1>9. SeatsOne(w, wires', r)
  <2>1. CASE s \in seats
    <3>1. wires' = Seated(w, z, i)
      BY <1>3, <1>5, <1>6, <2>1
    <3> QED
      BY <1>1, <1>4, <1>8, <3>1, SeatedWires
  <2>2. CASE s \notin seats
    <3>1. wires' = Answered(w, i) /\ z = NoSession /\ p.seat = NoSession
      BY <1>1, <1>2, <1>3, <1>5, <1>6, <2>2 DEF WireSound
    <3>2. wires' = [wires EXCEPT ![w] = r]
      BY <1>1, <1>8, <3>1 DEF Answered, Wire
    <3> QED
      BY <1>1, <1>7, <3>2 DEF SeatsOne
  <2> QED
    BY <2>1, <2>2
<1>10. WireSound(r) /\ (Ending(p) => Ending(r))
  <2>1. k + 1 \in 1..Len(i) /\ i[k + 1].type \in {"state", "fatal"} /\ i # <<>>
    BY <1>5, <1>6
  <2> QED
    BY <1>1, <1>2, <1>7, <2>1 DEF WireSound, Ending
<1>11. ASSUME Fits(tab, p, seats) PROVE Fits(tab, r, seats)
  <2>1. \/ z = p.asked /\ z \in seats /\ i[k + 1] = Message("state", z)
        \/ z = NoSession /\ i[k + 1].type = "fatal"
    BY <1>5, <1>6
  <2>2. r = [p EXCEPT !.phase = "open", !.seat = z, !.inbox = i]
    BY <1>8
  <2> HIDE DEF p
  <2> QED
    BY <1>1, <1>2, <1>4, <1>6, <1>7, <1>11, <2>1, <2>2, AnswerHeard
<1>12. Good(tab, wires', seats)
  BY <1>1, <1>2, <1>7, <1>9, <1>10, <1>11, Answers
<1> QED
  BY <1>2, <1>12 DEF SessionInv

LEMMA LoseKeeps ==
  ASSUME SessionInv, NEW w \in Wires, LoseWire(w)
  PROVE  SessionInv'
<1> DEFINE p == wires[w]
<1>1. /\ Sound(tab, wires, seats) /\ Looping(tab, wires) /\ tab \in Tab
      /\ wires \in [Wires -> Wire] /\ p \in Wire /\ WireSound(p) /\ seats \in SUBSET Seat
  BY DEF SessionInv, Good, Sound
<1>2. /\ p.phase \in {"opening", "open"} /\ tab' = tab /\ seats' = seats
      /\ p.inbox \in Seq(Frame)
  BY <1>1 DEF LoseWire, Wire
<1>3. PICK k \in 0..Len(p.inbox) :
        wires' = [wires EXCEPT ![w].phase = "closed", ![w].seat = NoSession,
                               ![w].inbox = SubSeq(p.inbox, 1, k)]
  BY DEF LoseWire
<1> DEFINE r == [p EXCEPT !.phase = "closed", !.seat = NoSession, !.inbox = SubSeq(p.inbox, 1, k)]
<1>4. SubSeq(p.inbox, 1, k) \in Seq(Frame) /\ (p.inbox = <<>> => SubSeq(p.inbox, 1, k) = <<>>)
  BY <1>2
<1>5. /\ r \in Wire /\ r.phase = "closed" /\ r.wired = p.wired /\ r.onclose = p.onclose
      /\ r.seat = NoSession /\ r.inbox = SubSeq(p.inbox, 1, k)
  BY <1>1, <1>4, Ids DEF Wire
<1>6. wires' = [wires EXCEPT ![w] = r]
  BY <1>1, <1>3 DEF Wire
<1>7. r = [p EXCEPT !.phase = "closed", !.seat = NoSession, !.inbox = SubSeq(p.inbox, 1, k)]
  OBVIOUS
<1> HIDE DEF r
<1>8. WireSound(r)
  BY <1>1, <1>5 DEF WireSound
<1>9. Looping(tab, [wires EXCEPT ![w] = r])
  <2>1. Ending(p) => Ending(r)
    BY <1>5 DEF Ending
  <2>2. \A v \in Wires : Ending(wires[v]) => Ending([wires EXCEPT ![w] = r][v])
    BY <1>1, <2>1
  <2> QED
    BY <1>1, <2>2 DEF Looping
<1>10. ASSUME ~tab.mixed, w = tab.ws PROVE Fits(tab, r, seats)
  <2>1. Fits(tab, p, seats)
    BY <1>10, Ids DEF SessionInv, Good, Tied, PageWire
  <2> HIDE DEF p
  <2> QED
    BY <1>1, <1>2, <1>5, <1>7, <2>1, Lost
<1>11. ASSUME ~tab.mixed, w # tab.ws PROVE Quiet(r)
  <2>1. Quiet(p)
    BY <1>11 DEF SessionInv, Good, Tied
  <2> QED
    BY <1>4, <1>5, <2>1 DEF Quiet
<1> QED
  BY <1>1, <1>2, <1>5, <1>6, <1>8, <1>9, <1>10, <1>11, Steps

LEMMA DropKeeps ==
  ASSUME SessionInv, NEW seat \in seats, DropSeat(seat)
  PROVE  SessionInv'
<1>1. tab' = tab /\ wires' = wires /\ seats' \subseteq seats
  BY DEF DropSeat
<1>2. Sound(tab, wires, seats) /\ Looping(tab, wires) /\ tab \in Tab /\ seats \in SUBSET Seat
  BY DEF SessionInv, Good, Sound
<1>3. Sound(tab, wires, seats')
  BY <1>1, <1>2 DEF Sound
<1>4. ASSUME ~tab.mixed PROVE Tied(tab, wires, seats')
  BY <1>1, <1>2, <1>4, SoundPage, FewerSeats DEF SessionInv, Good, Tied
<1> QED
  BY <1>1, <1>2, <1>3, <1>4 DEF SessionInv, Good

LEMMA EndKeeps ==
  ASSUME SessionInv, NEW seat \in seats, EndsGame(seat)
  PROVE  SessionInv'
<1> DEFINE f == Message("game_ended", seat)
           Struck(v) == wires[v].phase = "open" /\ wires[v].seat.code = seat.code
           Told(v) == [wires[v] EXCEPT !.inbox = Append(wires[v].inbox, f), !.seat = NoSession]
           ss == {x \in seats : x.code # seat.code}
<1>1. /\ Sound(tab, wires, seats) /\ Looping(tab, wires) /\ tab \in Tab
      /\ wires \in [Wires -> Wire] /\ seats \in SUBSET Seat
      /\ \A v \in Wires : WireSound(wires[v])
      /\ \A x \in seats : Granted(tab, x)
  BY DEF SessionInv, Good, Sound
<1>2. /\ tab' = tab /\ seats' = ss /\ ss \in SUBSET seats /\ ss \in SUBSET Seat
      /\ wires' = [v \in Wires |-> IF Struck(v) THEN Told(v) ELSE wires[v]]
  BY <1>1 DEF EndsGame
<1>3. f \in Frame /\ f.type = "game_ended" /\ seat.code # NoId
  BY <1>1, GrantedIds DEF Message, Frame, Types
<1> HIDE DEF f
<1>4. ASSUME NEW v \in Wires, Struck(v)
      PROVE  /\ Told(v) \in Wire /\ WireSound(Told(v)) /\ (Ending(wires[v]) => Ending(Told(v)))
             /\ wires[v].seat # NoSession
  <2> DEFINE p == wires[v]
             q == Append(p.inbox, f)
             r == [p EXCEPT !.inbox = q, !.seat = NoSession]
  <2>1. p \in Wire /\ WireSound(p) /\ p.phase = "open" /\ p.inbox \in Seq(Frame)
    BY <1>1, <1>4 DEF Wire
  <2>2. /\ q \in Seq(Frame) /\ q # <<>> /\ Len(q) = Len(p.inbox) + 1
        /\ \A i \in 1..Len(p.inbox) : q[i] = p.inbox[i] /\ i \in 1..Len(q)
    BY <1>3, <2>1
  <2> HIDE DEF q
  <2>3. /\ r \in Wire /\ r.phase = "open" /\ r.wired = p.wired /\ r.onclose = p.onclose
        /\ r.inbox = q /\ r.seat = NoSession
    BY <2>1, <2>2, Ids DEF Wire
  <2>4. WireSound(r)
    BY <2>1, <2>2, <2>3 DEF WireSound
  <2>5. Ending(p) => Ending(r)
    BY <2>2, <2>3 DEF Ending
  <2>6. p.seat # NoSession
    BY <1>3, <1>4, Ids
  <2> QED
    BY <2>3, <2>4, <2>5, <2>6 DEF q
<1>5. ASSUME NEW v \in Wires
      PROVE  /\ wires'[v] = IF Struck(v) THEN Told(v) ELSE wires[v]
             /\ WireSound(wires'[v]) /\ (Ending(wires[v]) => Ending(wires'[v]))
             /\ wires'[v] \in Wire
  <2>1. wires'[v] = IF Struck(v) THEN Told(v) ELSE wires[v]
    BY <1>2
  <2> HIDE DEF Struck, Told
  <2>2. CASE Struck(v)
    BY <1>4, <2>1, <2>2
  <2>3. CASE ~Struck(v)
    BY <1>1, <2>1, <2>3
  <2> QED
    BY <2>1, <2>2, <2>3
<1>6. Sound(tab', wires', seats')
  <2>1. wires' \in [Wires -> Wire]
    <3>1. DOMAIN wires' = Wires /\ wires' = [v \in Wires |-> wires'[v]]
      BY <1>2
    <3> QED
      BY <1>5, <3>1
  <2> QED
    BY <1>1, <1>2, <1>5, <2>1 DEF Sound
<1>7. Looping(tab', wires')
  BY <1>1, <1>2, <1>5 DEF Looping
<1>8. ASSUME ~tab.mixed PROVE Tied(tab', wires', seats')
  <2>1. Tied(tab, wires, seats) /\ (tab.ws = NoId \/ tab.ws \in Wires) /\ NoId \notin Wires
    BY <1>1, <1>8, SoundPage, Ids DEF SessionInv, Good
  <2>2. ASSUME NEW v \in Wires \ {tab.ws} PROVE Quiet(wires'[v])
    <3>1. Quiet(wires[v])
      BY <2>1 DEF Tied
    <3>2. ~Struck(v)
      BY <1>4, <3>1 DEF Quiet
    <3> QED
      BY <1>5, <3>1, <3>2
  <2>3. Fits(tab, PageWire(tab, wires), seats)
    BY <2>1 DEF Tied
  <2>4. Fits(tab, PageWire(tab, wires'), ss)
    <3>1. CASE tab.ws = NoId
      BY <1>1, <1>2, <2>3, <3>1, Blank, FewerSeats DEF PageWire
    <3>2. CASE tab.ws \in Wires
      <4> DEFINE p == wires[tab.ws]
      <4>1. /\ PageWire(tab, wires) = p /\ PageWire(tab, wires') = wires'[tab.ws]
            /\ Fits(tab, p, seats) /\ p \in Wire
        BY <1>1, <2>1, <2>3, <3>2 DEF PageWire
      <4>2. Fits(tab, p, ss)
        BY <1>1, <1>2, <4>1, FewerSeats
      <4>3. CASE ~Struck(tab.ws)
        BY <1>5, <3>2, <4>1, <4>2, <4>3
      <4>4. CASE Struck(tab.ws)
        <5> DEFINE r == Told(tab.ws)
        <5>1. r \in Wire /\ p.seat # NoSession /\ p.phase = "open" /\ wires'[tab.ws] = r
          BY <1>4, <1>5, <3>2, <4>4
        <5>2. r = [p EXCEPT !.inbox = Append(p.inbox, f), !.seat = NoSession]
          OBVIOUS
        <5> HIDE DEF r, p, Struck, Told
        <5>3. Fits(tab, r, ss)
          BY <1>1, <1>2, <1>3, <4>1, <4>2, <5>1, <5>2, Ended
        <5> QED
          BY <4>1, <5>1, <5>3
      <4> QED
        BY <4>3, <4>4
    <3> QED
      BY <2>1, <3>1, <3>2
  <2> QED
    BY <1>2, <2>2, <2>4 DEF Tied
<1> QED
  BY <1>2, <1>6, <1>7, <1>8 DEF SessionInv, Good

-----------------------------------------------------------------------------

LEMMA SessionStarts == SessionsInit => SessionInv
<1> SUFFICES ASSUME SessionsInit PROVE SessionInv
  OBVIOUS
<1>1. /\ tab \in Tab /\ tab.saved = NoSession /\ tab.held = FALSE /\ tab.reconnecting = FALSE
      /\ tab.ws = NoId /\ tab.timers = {} /\ seats = {} /\ wires = [v \in Wires |-> NoWire]
  BY Ids DEF SessionsInit, Tab
<1>2. /\ NoWire.inbox = <<>> /\ NoWire.seat = NoSession /\ NoWire.phase = "none"
      /\ NoWire.onclose = "off"
  BY DEF NoWire
<1>3. Sound(tab, wires, seats) /\ Looping(tab, wires)
  BY <1>1, Blank DEF Sound, Looping
<1>4. Tied(tab, wires, seats)
  <2>1. SavedFits(tab, seats) /\ TimerAlone(tab, NoWire) /\ LoopFits(tab, NoWire)
    BY <1>1, <1>2, Ids DEF SavedFits, TimerAlone, LoopFits
  <2>2. Fits(tab, NoWire, seats)
    BY <1>1, <1>2, <2>1, Blank, Bare
  <2> QED
    BY <1>1, <1>2, <2>2 DEF Tied, PageWire, Quiet
<1> QED
  BY <1>3, <1>4 DEF SessionInv, Good

LEMMA SessionStep == SessionInv /\ [SessionsNext]_sessionVars => SessionInv'
<1> SUFFICES ASSUME SessionInv, [SessionsNext]_sessionVars PROVE SessionInv'
  OBVIOUS
<1>1. CASE UNCHANGED sessionVars
  BY <1>1 DEF sessionVars, SessionInv
<1>2. CASE TapIntent
  BY <1>2, TapKeeps
<1>3. CASE LeaveGame
  BY <1>3, LeaveKeeps
<1>4. CASE BackToLanding
  BY <1>4, BackKeeps
<1>5. CASE ReloadTab
  BY <1>5, ReloadKeeps
<1>6. ASSUME NEW w \in Wires, Hear(w) PROVE SessionInv'
  BY <1>6, HearKeeps
<1>7. ASSUME NEW w \in Wires, WireCloses(w) PROVE SessionInv'
  BY <1>7, ClosesKeeps
<1>8. ASSUME NEW timer \in tab.timers, RetryFires(timer) PROVE SessionInv'
  BY <1>8, TimerKeeps
<1>9. ASSUME NEW w \in Wires, Grant(w) PROVE SessionInv'
  BY <1>9, GrantKeeps
<1>10. ASSUME NEW w \in Wires, Refuse(w) PROVE SessionInv'
  BY <1>10, RefuseKeeps
<1>11. ASSUME NEW w \in Wires, ServeReconnect(w) PROVE SessionInv'
  BY <1>11, ServeKeeps
<1>12. ASSUME NEW w \in Wires, LoseWire(w) PROVE SessionInv'
  BY <1>12, LoseKeeps
<1>13. ASSUME NEW seat \in seats, DropSeat(seat) PROVE SessionInv'
  BY <1>13, DropKeeps
<1>14. ASSUME NEW seat \in seats, EndsGame(seat) PROVE SessionInv'
  BY <1>14, EndKeeps
<1> QED
  BY <1>1, <1>2, <1>3, <1>4, <1>5, <1>6, <1>7, <1>8, <1>9, <1>10, <1>11, <1>12, <1>13, <1>14
     DEF SessionsNext

LEMMA SessionAlways == SessionsSpec => []SessionInv
BY SessionStarts, SessionStep, PTL DEF SessionsSpec

\* The session that would be resumed is one seat's: pid, code and token were granted
\* together, and no newer token has replaced the one saved (session.js).
THEOREM SessionsFit == SessionsSpec => []SessionFits
<1>1. SessionInv => SessionFits
  <2> SUFFICES ASSUME SessionInv, HasSession(tab), ~tab.mixed PROVE SessionFits
    BY DEF SessionFits
  <2>1. SavedFits(tab, seats) /\ tab \in Tab
    BY DEF SessionInv, Good, Sound, Tied, Fits
  <2>2. Granted(tab, tab.saved) /\ Newest(tab.saved, seats)
    BY <2>1 DEF SavedFits, HasSession
  <2> QED
    BY <2>2, Ids DEF SessionFits, Granted, Newest, Pid
<1> QED
  BY <1>1, SessionAlways, PTL

\* Once the sockets are quiet, a game in hand is played on the socket that the server maps
\* to its player (handleWsClose and the attempts of net.js).
THEOREM TouchKept == SessionsSpec => []InTouch
<1>1. SessionInv => InTouch
  <2> SUFFICES ASSUME SessionInv, AtRest, tab.held, HasSession(tab), ~tab.mixed
               PROVE  /\ tab.ws # NoId
                      /\ wires[tab.ws].seat.pid = tab.saved.pid
                      /\ wires[tab.ws].seat.code = tab.saved.code
    BY DEF InTouch
  <2> DEFINE p == PageWire(tab, wires)
  <2>1. HeldFits(tab, p) /\ (tab.ws = NoId \/ tab.ws \in Wires)
    BY SoundPage DEF SessionInv, Good, Tied, Fits
  <2>2. p.inbox = <<>> /\ p.phase # "closed"
    BY <2>1 DEF PageWire, AtRest, NoWire
  <2> HIDE DEF p
  <2>3. Len(p.inbox) = 0
    BY <2>2
  <2>4. p.seat.pid = tab.saved.pid /\ p.seat.code = tab.saved.code
    BY <2>1, <2>2, <2>3 DEF HeldFits, AtRest, HasSession
  <2>5. tab.ws # NoId
    BY <2>4, Ids DEF p, PageWire, NoWire, HasSession
  <2> QED
    BY <2>4, <2>5 DEF p, PageWire
<1> QED
  BY <1>1, SessionAlways, PTL

\* "Reconnecting" never waits for nothing, not even in a tab that has mixed two sessions:
\* an attempt is under way or a retry is due (attemptReconnect).
THEOREM LoopsEnd == SessionsSpec => []ReconnectingEnds
<1>1. SessionInv => ReconnectingEnds
  BY DEF SessionInv, Good, Looping, Ending, ReconnectingEnds
<1> QED
  BY <1>1, SessionAlways, PTL

-----------------------------------------------------------------------------
(* The list of the lobby.                                                  *)

\* A roster as the module builds it.
RosterShape(r) ==
  /\ DOMAIN r = {"children", "leaving", "sectionEmpty", "hidden", "fading", "hint", "host",
                 "hideTimer", "ends", "frames"}
  /\ r.sectionEmpty \in BOOLEAN /\ r.hidden \in BOOLEAN /\ r.fading \in BOOLEAN
  /\ r.hint \in BOOLEAN /\ r.host \in BOOLEAN /\ r.hideTimer \in BOOLEAN
  /\ r.frames \in Nat

\* The section as #syncEmptyState, the timer and the fades leave it: in view with nothing
\* to hide it once it has a row, and else out of view or about to be.
SectionFits(r) ==
  /\ ~r.sectionEmpty => ~r.hidden /\ ~r.fading /\ ~r.hideTimer
  /\ ~r.hidden => ~r.hint
  /\ r.sectionEmpty /\ r.frames > 0 => r.hidden \/ r.hideTimer

\* What the section believes of its rows, and the hint of the host, are true.
Believes(r) ==
  /\ r.sectionEmpty <=> r.children = <<>> /\ r.leaving = {}
  /\ ~r.sectionEmpty => ~r.hint
  /\ r.hidden => (r.hint <=> r.host)

\* The rows of the registry are those of the players of the last frame, in order.
RowsOf(children, others) ==
  /\ others = [i \in DOMAIN others |-> others[i]]
  /\ [i \in DOMAIN children |-> children[i].pid] = others
  /\ (children = <<>>) <=> (others = <<>>)

RosterInv == RosterShape(roster) /\ SectionFits(roster) /\ Believes(roster)
             /\ RowsOf(roster.children, guests)

LEMMA NoneIs ==
  ASSUME NEW f, f = [i \in DOMAIN f |-> f[i]]
  PROVE  (f = <<>>) <=> (DOMAIN f = {})
OBVIOUS

\* Whatever became of the rows, the section follows.
LEMMA SyncIs ==
  ASSUME NEW r, RosterShape(r),
         ~r.sectionEmpty => ~r.hidden /\ ~r.fading /\ ~r.hideTimer,
         ~r.hidden => ~r.hint, NEW t, t = SyncEmptyState(r)
  PROVE  /\ RosterShape(t) /\ SectionFits(t) /\ Believes(t)
         /\ t.children = r.children
<1> DEFINE empty == r.children = <<>> /\ r.leaving = {}
<1>1. CASE empty /\ ~r.sectionEmpty
  <2>1. t = [r EXCEPT !.sectionEmpty = TRUE, !.hint = FALSE, !.fading = TRUE,
                      !.ends = r.ends + 1, !.hideTimer = TRUE]
    BY <1>1 DEF SyncEmptyState
  <2>2. /\ DOMAIN t = DOMAIN r /\ t.children = r.children /\ t.leaving = r.leaving
        /\ t.sectionEmpty = TRUE /\ t.hidden = r.hidden /\ t.fading = TRUE /\ t.hint = FALSE
        /\ t.host = r.host /\ t.hideTimer = TRUE /\ t.frames = r.frames
    BY <2>1 DEF RosterShape
  <2> QED
    BY <1>1, <2>2 DEF RosterShape, SectionFits, Believes
<1>2. CASE ~empty /\ r.sectionEmpty
  <2>1. t = [r EXCEPT !.sectionEmpty = FALSE, !.hint = FALSE, !.hidden = FALSE,
                      !.fading = FALSE, !.hideTimer = FALSE]
    BY <1>2 DEF SyncEmptyState
  <2>2. /\ DOMAIN t = DOMAIN r /\ t.children = r.children /\ t.leaving = r.leaving
        /\ t.sectionEmpty = FALSE /\ t.hidden = FALSE /\ t.fading = FALSE /\ t.hint = FALSE
        /\ t.host = r.host /\ t.hideTimer = FALSE /\ t.frames = r.frames
    BY <2>1 DEF RosterShape
  <2> QED
    BY <1>2, <2>2 DEF RosterShape, SectionFits, Believes
<1>3. CASE empty /\ r.sectionEmpty
  <2>1. t = [r EXCEPT !.hidden = TRUE, !.hint = r.host]
    BY <1>3 DEF SyncEmptyState
  <2>2. /\ DOMAIN t = DOMAIN r /\ t.children = r.children /\ t.leaving = r.leaving
        /\ t.sectionEmpty = r.sectionEmpty /\ t.hidden = TRUE /\ t.fading = r.fading
        /\ t.hint = r.host /\ t.host = r.host /\ t.hideTimer = r.hideTimer
        /\ t.frames = r.frames
    BY <2>1 DEF RosterShape
  <2> QED
    BY <1>3, <2>2 DEF RosterShape, SectionFits, Believes
<1>4. CASE ~empty /\ ~r.sectionEmpty
  <2>1. t = [r EXCEPT !.hint = FALSE]
    BY <1>4 DEF SyncEmptyState
  <2>2. /\ DOMAIN t = DOMAIN r /\ t.children = r.children /\ t.leaving = r.leaving
        /\ t.sectionEmpty = r.sectionEmpty /\ t.hidden = r.hidden /\ t.fading = r.fading
        /\ t.hint = FALSE /\ t.host = r.host /\ t.hideTimer = r.hideTimer
        /\ t.frames = r.frames
    BY <2>1 DEF RosterShape
  <2> QED
    BY <1>4, <2>2 DEF RosterShape, SectionFits, Believes
<1> QED
  BY <1>1, <1>2, <1>3, <1>4

LEMMA FrameKeepsRoster == RosterInv /\ LobbyFrame => RosterInv'
<1> SUFFICES ASSUME RosterInv, LobbyFrame PROVE RosterInv'
  OBVIOUS
<1>1. PICK pids \in SUBSET Guests : \E others \in SetToSeqs(pids), host \in BOOLEAN :
        roster' = RenderRoster(roster, others, host) /\ guests' = others
  BY DEF LobbyFrame
<1>2. PICK others \in SetToSeqs(pids), host \in BOOLEAN :
        roster' = RenderRoster(roster, others, host) /\ guests' = others
  BY <1>1
<1> DEFINE frame == roster.frames + 1
           live == ToSet(roster.children)
           row(pid) == IF \E x \in live : x.pid = pid THEN CHOOSE x \in live : x.pid = pid
                       ELSE [pid |-> pid, built |-> frame]
           shown == [i \in DOMAIN others |-> row(others[i])]
           left == roster.leaving \cup (live \ ToSet(shown))
           r == [roster EXCEPT !.frames = frame, !.children = shown, !.host = host,
                               !.leaving = left]
<1>3. others = [i \in DOMAIN others |-> others[i]]
  BY DEF SetToSeqs
<1>4. \A pid : row(pid).pid = pid
  OBVIOUS
<1>5. DOMAIN shown = DOMAIN others /\ \A i \in DOMAIN others : shown[i].pid = others[i]
  BY <1>4
<1>6. shown = [i \in DOMAIN shown |-> shown[i]]
  OBVIOUS
<1>7. roster' = SyncEmptyState(r)
  BY <1>2 DEF RenderRoster
<1> HIDE DEF shown, live, row, left
<1>8. RowsOf(shown, others)
  <2>1. [i \in DOMAIN shown |-> shown[i].pid] = others
    BY <1>3, <1>5
  <2>2. (shown = <<>>) <=> (others = <<>>)
    BY <1>3, <1>5, <1>6, NoneIs
  <2> QED
    BY <1>3, <2>1, <2>2 DEF RowsOf
<1>9. RosterShape(roster) /\ SectionFits(roster)
  BY DEF RosterInv
<1>10. /\ DOMAIN r = DOMAIN roster /\ r.frames = roster.frames + 1 /\ r.children = shown
       /\ r.host = host /\ r.leaving = left /\ r.sectionEmpty = roster.sectionEmpty
       /\ r.hidden = roster.hidden /\ r.fading = roster.fading /\ r.hint = roster.hint
       /\ r.hideTimer = roster.hideTimer
  BY <1>9 DEF RosterShape
<1> HIDE DEF r
<1>11. RosterShape(r)
  BY <1>9, <1>10 DEF RosterShape
<1>12. /\ RosterShape(roster') /\ SectionFits(roster') /\ Believes(roster')
       /\ roster'.children = r.children
  BY <1>7, <1>9, <1>10, <1>11, SyncIs DEF SectionFits
<1> QED
  BY <1>2, <1>8, <1>10, <1>12 DEF RosterInv

LEMMA RowGoneKeeps == RosterInv /\ RowGone => RosterInv'
<1> SUFFICES ASSUME RosterInv, RowGone PROVE RosterInv'
  OBVIOUS
<1>1. PICK x \in roster.leaving :
        /\ guests' = guests
        /\ roster' = SyncEmptyState([roster EXCEPT !.leaving = roster.leaving \ {x}])
  BY DEF RowGone
<1> DEFINE r == [roster EXCEPT !.leaving = roster.leaving \ {x}]
<1>2. RosterShape(roster) /\ SectionFits(roster) /\ RowsOf(roster.children, guests)
  BY DEF RosterInv
<1>3. /\ DOMAIN r = DOMAIN roster /\ r.frames = roster.frames /\ r.children = roster.children
      /\ r.host = roster.host /\ r.sectionEmpty = roster.sectionEmpty
      /\ r.hidden = roster.hidden /\ r.fading = roster.fading /\ r.hint = roster.hint
      /\ r.hideTimer = roster.hideTimer
  BY <1>2 DEF RosterShape
<1>4. roster' = SyncEmptyState(r)
  BY <1>1
<1> HIDE DEF r
<1>5. RosterShape(r)
  BY <1>2, <1>3 DEF RosterShape
<1>6. /\ RosterShape(roster') /\ SectionFits(roster') /\ Believes(roster')
      /\ roster'.children = r.children
  BY <1>2, <1>3, <1>4, <1>5, SyncIs DEF SectionFits
<1> QED
  BY <1>1, <1>2, <1>3, <1>6 DEF RosterInv

\* The end of a fade, told by the timer or by the section.
LEMMA FadeKeeps == RosterInv /\ (HideTimer \/ FadeEnd) => RosterInv'
<1> SUFFICES ASSUME RosterInv, HideTimer \/ FadeEnd PROVE RosterInv'
  OBVIOUS
<1>1. /\ RosterShape(roster) /\ SectionFits(roster) /\ Believes(roster)
      /\ RowsOf(roster.children, guests)
  BY DEF RosterInv
<1>2. PICK r : /\ roster' = Reveal(r) /\ guests' = guests
               /\ \/ r = [roster EXCEPT !.hideTimer = FALSE]
                  \/ r = [roster EXCEPT !.ends = 0]
  BY DEF HideTimer, FadeEnd
<1>3. /\ DOMAIN r = DOMAIN roster /\ r.frames = roster.frames /\ r.children = roster.children
      /\ r.leaving = roster.leaving
      /\ r.host = roster.host /\ r.sectionEmpty = roster.sectionEmpty
      /\ r.hidden = roster.hidden /\ r.fading = roster.fading /\ r.hint = roster.hint
      /\ r.hideTimer \in BOOLEAN /\ (r.hideTimer => roster.hideTimer)
  BY <1>1, <1>2 DEF RosterShape
<1>4. RosterShape(r)
  BY <1>1, <1>3 DEF RosterShape
<1>5. CASE r.sectionEmpty
  <2>1. roster' = [r EXCEPT !.hidden = TRUE, !.hint = r.host]
    BY <1>2, <1>5 DEF Reveal
  <2>2. /\ DOMAIN roster' = DOMAIN r /\ roster'.frames = r.frames
        /\ roster'.children = r.children /\ roster'.leaving = r.leaving
        /\ roster'.host = r.host /\ roster'.sectionEmpty = r.sectionEmpty
        /\ roster'.hidden = TRUE /\ roster'.fading = r.fading /\ roster'.hint = r.host
        /\ roster'.hideTimer = r.hideTimer
    BY <1>4, <2>1 DEF RosterShape
  <2>3. RosterShape(roster') /\ SectionFits(roster') /\ Believes(roster')
    BY <1>1, <1>3, <1>4, <1>5, <2>2 DEF RosterShape, SectionFits, Believes
  <2> QED
    BY <1>1, <1>2, <1>3, <2>2, <2>3 DEF RosterInv
<1>6. CASE ~r.sectionEmpty
  <2>1. roster' = r
    BY <1>2, <1>6 DEF Reveal
  <2>2. SectionFits(r) /\ Believes(r)
    BY <1>1, <1>3, <1>6 DEF SectionFits, Believes
  <2> QED
    BY <1>1, <1>2, <1>3, <1>4, <2>1, <2>2 DEF RosterInv
<1> QED
  BY <1>5, <1>6

LEMMA RosterStarts == RosterInit => RosterInv
<1> SUFFICES ASSUME RosterInit PROVE RosterInv
  OBVIOUS
<1>1. /\ DOMAIN roster = {"children", "leaving", "sectionEmpty", "hidden", "fading", "hint",
                          "host", "hideTimer", "ends", "frames"}
      /\ roster.children = <<>> /\ roster.leaving = {} /\ roster.sectionEmpty = TRUE
      /\ roster.hidden = FALSE /\ roster.fading = FALSE /\ roster.hint = FALSE
      /\ roster.host = FALSE /\ roster.hideTimer = FALSE /\ roster.frames = 0
      /\ guests = <<>>
  BY DEF RosterInit
<1>2. RowsOf(<<>>, <<>>)
  BY DEF RowsOf
<1>3. RosterShape(roster)
  <2>1. roster.frames \in Nat
    BY <1>1
  <2> QED
    BY <1>1, <2>1, Zenon DEF RosterShape
<1>4. SectionFits(roster) /\ Believes(roster)
  BY <1>1 DEF SectionFits, Believes
<1>5. RowsOf(roster.children, guests)
  BY <1>1, <1>2
<1> QED
  BY <1>3, <1>4, <1>5 DEF RosterInv

LEMMA RosterStep == RosterInv /\ [RosterNext]_rosterVars => RosterInv'
<1>1. CASE UNCHANGED rosterVars
  BY <1>1 DEF rosterVars, RosterInv
<1> QED
  BY <1>1, FrameKeepsRoster, RowGoneKeeps, FadeKeeps DEF RosterNext

\* However frames, collapsing rows, timers and ends of fades follow each other, an older
\* fade's listener among them: once nothing moves, list, section and hint are those of the
\* last frame.
THEOREM RosterKept == RosterSpec => []RosterSettles
<1>1. RosterInv => RosterSettles
  BY DEF RosterInv, RosterShape, SectionFits, Believes, RowsOf, RosterSettles
<1> QED
  BY <1>1, RosterStarts, RosterStep, PTL DEF RosterSpec

===============================================================================
