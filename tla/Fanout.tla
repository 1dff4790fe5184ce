-------------------------------- MODULE Fanout --------------------------------
(***************************************************************************)
(* How the state of one game reaches its players: handlers write, take a   *)
(* snapshot and publish it (broadcast.py), every instance delivers what is *)
(* published to the sockets in its connections (fanout.py), and a roll is  *)
(* answered directly first and published when its reveal is acknowledged   *)
(* or has waited long enough.  A roll that wins is followed by an advance; *)
(* one that completes ten dice too late is answered and not published.     *)
(*                                                                         *)
(* The state of the game is a version that a handler's last write          *)
(* increases; a frame is the version its snapshot saw.                     *)
(***************************************************************************)
EXTENDS Integers, Sequences, FiniteSets

CONSTANTS Instances, Players,
          MaxSockets,  \* bound: sockets, the players' first ones included
          MaxRolls,    \* bound: rolls
          MaxWrites    \* bound: writes, those of reconnects and closes included, of deals not

ASSUME FanoutConstants ==
  /\ MaxSockets \in Nat /\ MaxRolls \in Nat /\ MaxWrites \in Nat
  /\ IsFiniteSet(Players) /\ Cardinality(Players) <= MaxSockets

Sockets == 1..MaxSockets
Rolls == 1..MaxRolls
NoSocket == 0
NoRoll == 0

VARIABLES game,      \* what Redis holds of the game, as far as frames go
          sockets,   \* the sockets, their handler, and what their client shows
          instances, \* connections, ack_events, the backlog and the delivery of each
          rolls      \* the delayed broadcasts

fanoutVars == <<game, sockets, instances, rolls>>

\* owner: the socket with the newest connection generation.  round: round_over.  doing, roll:
\* the handler of the socket, and what kind of roll it serves.  todo, dead: the sockets a
\* delivery still sends to, and the players it could not send to.  Ghosts: crossed, the
\* players whose newest connection met an older one on its instance: it entered while a
\* delivery to the older one was under way, or the older one entered after it; order, "lost"
\* once a client was shown an older version after a newer, or a roll that a broadcast
\* follows was served on a socket that its player's reconnect had replaced.
NoFrame == [version |-> 0, exclude |-> {}]

First == CHOOSE first \in [Players -> 1..Cardinality(Players)] :
           \A p, q \in Players : first[p] = first[q] => p = q

Somewhere == CHOOSE i \in Instances : TRUE
Somebody == CHOOSE p \in Players : TRUE

FanoutInit ==
  \E home \in [Players -> Instances] :
    /\ \E p \in Players : First[p] = 1 /\ home[p] = Somewhere
    /\ game = [version |-> 0, owner |-> First, round |-> "open", crossed |-> {}, order |-> "kept"]
    /\ sockets = [s \in Sockets |->
         IF \E p \in Players : First[p] = s
         THEN LET p == CHOOSE q \in Players : First[q] = s
              IN  [phase |-> "open", player |-> p, at |-> home[p], doing |-> "idle",
                   roll |-> "none", sees |-> 0, shows |-> 0]
         ELSE [phase |-> "none", player |-> Somebody,
               at |-> Somewhere, doing |-> "idle", roll |-> "none",
               sees |-> 0, shows |-> 0]]
    /\ instances = [i \in Instances |->
         [connections |-> [p \in Players |-> IF home[p] = i THEN First[p] ELSE NoSocket],
          acks |-> [p \in Players |-> NoRoll], latest |-> [p \in Players |-> NoRoll],
          backlog |-> <<>>, frame |-> NoFrame,
          todo |-> {}, dead |-> {}]]
    /\ rolls = [r \in Rolls |-> [pc |-> "none", by |-> Somebody, at |-> Somewhere,
                                  win |-> FALSE, sees |-> 0]]

Versions == 0..(MaxWrites + MaxRolls)

FanoutTypeOK ==
  /\ game \in [version : Versions, owner : [Players -> Sockets], round : {"open", "over"},
               crossed : SUBSET Players, order : {"kept", "lost"}]
  /\ sockets \in [Sockets -> [phase : {"none", "open", "broken", "closed"}, player : Players,
                              at : Instances,
                              doing : {"idle", "rolling", "wrote", "read", "claimed",
                                       "closing", "marking"},
                              roll : {"none", "plain", "won", "late"},
                              sees : Versions, shows : Versions]]
  /\ \A i \in Instances : instances[i].connections \in [Players -> 0..MaxSockets]
  /\ rolls \in [Rolls -> [pc : {"none", "exists", "waiting", "woken", "read", "won", "reopened",
                                "dealt", "fresh", "over"},
                          by : Players, at : Instances, win : BOOLEAN, sees : Versions]]

-----------------------------------------------------------------------------
(* Helpers.                                                                *)

Does(s, from, to) == sockets[s].doing = from /\ sockets' = [sockets EXCEPT ![s].doing = to]

Write == game.version < MaxWrites /\ game' = [game EXCEPT !.version = @ + 1]

Publish(version, exclude) ==
  instances' = [i \in Instances |->
    [instances[i] EXCEPT !.backlog = Append(@, [version |-> version, exclude |-> exclude])]]

\* A handler is over; with it a closed socket.
Rested(s) == [sockets[s] EXCEPT !.doing = "idle", !.sees = 0,
                                !.at = IF sockets[s].phase = "closed" THEN Somewhere ELSE @]

Serving(s) == sockets[s].phase \in {"open", "broken"}

-----------------------------------------------------------------------------
(* Handlers, one at a time for a socket.                                   *)

\* Any handler that writes, but a roll's.
HandlerWrites(s) ==
  /\ Serving(s) /\ Does(s, "idle", "wrote")
  /\ Write
  /\ UNCHANGED <<instances, rolls>>

\* The sockets whose handlers can be in a roll besides that of s.
Others(s) == {t \in Sockets \ {s} : Serving(t) /\ sockets[t].doing = "idle"}

Written(s, roll, stalled) ==
  [t \in Sockets |-> IF t = s THEN [sockets[s] EXCEPT !.doing = "wrote", !.roll = roll]
                     ELSE IF t \in stalled THEN [sockets[t] EXCEPT !.doing = "rolling"]
                     ELSE sockets[t]]

\* handle_roll's last write: of the dice, or try_finish_round and incr_wins.  It has found the
\* round open some time before, which matters to those only whom a win overtakes in between:
\* they go on (rolling), and if they complete ten dice it is too late.
RollWrites(s) ==
  /\ game.version < MaxWrites /\ \E r \in Rolls : rolls[r].pc = "none"
  /\ \/ Serving(s) /\ sockets[s].doing = "idle" /\ game.round = "open"
     \/ sockets[s].doing = "rolling"
  /\ \E roll \in {"plain", IF game.round = "open" THEN "won" ELSE "late"} :
       /\ \E stalled \in IF roll = "won" THEN SUBSET Others(s) ELSE {{}} :
            sockets' = Written(s, roll, stalled)
       /\ game' = IF roll = "won" THEN [game EXCEPT !.version = @ + 1, !.round = "over"]
                                  ELSE [game EXCEPT !.version = @ + 1]
  /\ UNCHANGED <<instances, rolls>>

HandlerSnapshot(s) ==
  /\ sockets[s].doing = "wrote"
  /\ sockets' = [sockets EXCEPT ![s] = [@ EXCEPT !.doing = "read", !.sees = game.version]]
  /\ UNCHANGED <<game, instances, rolls>>

\* Mutant: the player whose handler publishes is left out.
PublishToOthers(s) == Publish(sockets[s].sees, {sockets[s].player})

PublishToAll(s) == Publish(sockets[s].sees, {})

HandlerPublish(s) ==
  /\ sockets[s].doing = "read" /\ sockets[s].roll = "none"
  /\ sockets' = [sockets EXCEPT ![s] = Rested(s)]
  /\ PublishToAll(s)
  /\ UNCHANGED <<game, rolls>>

Superseded(s) == game.owner[sockets[s].player] # s

\* The task that a plain roll or a win starts; a late one starts none.
Starts(s) ==
  IF sockets[s].roll = "late" THEN UNCHANGED rolls
  ELSE \E r \in Rolls :
         /\ rolls[r].pc = "none" /\ \A q \in 1..(r - 1) : rolls[q].pc # "none"
         /\ rolls' = [rolls EXCEPT ![r] = [pc |-> "exists", by |-> sockets[s].player,
                                            at |-> sockets[s].at, sees |-> 0,
                                            win |-> sockets[s].roll = "won"]]

\* handle_roll's answer, to the roller alone; a send that fails ends the handler.
Reply(s) ==
  /\ sockets[s].roll # "none" /\ sockets[s].doing = "read"
  /\ \/ /\ sockets[s].phase = "open" /\ Starts(s)
        /\ sockets' = [sockets EXCEPT ![s] = [@ EXCEPT !.doing = "idle", !.roll = "none",
                                                       !.shows = sockets[s].sees, !.sees = 0]]
     \/ /\ sockets[s].phase = "broken" /\ UNCHANGED rolls
        /\ sockets' = [sockets EXCEPT ![s] = [@ EXCEPT !.doing = "closing", !.roll = "none",
                                                       !.sees = 0]]
  /\ game' = [game EXCEPT !.order =
       IF \/ sockets[s].phase = "open" /\ sockets[s].sees < sockets[s].shows
          \/ sockets[s].roll # "late" /\ Superseded(s)
       THEN "lost" ELSE @]
  /\ UNCHANGED instances

\* handle_reconnect on a new socket: the claim, then the entry in connections.
Claim(s) ==
  /\ sockets[s].phase = "none" /\ \A t \in 1..(s - 1) : sockets[t].phase # "none"
  /\ game.version < MaxWrites
  /\ \E p \in Players, i \in Instances :
       /\ sockets' = [sockets EXCEPT ![s] = [@ EXCEPT !.phase = "open", !.player = p, !.at = i,
                                                      !.doing = "claimed"]]
       /\ game' = [game EXCEPT !.version = @ + 1, !.owner[p] = s]
  /\ UNCHANGED <<instances, rolls>>

\* A delivery of instance i is under way that counts on an older socket of player p.
Underway(i, p) ==
  /\ instances[i].todo # {}
  /\ p \in instances[i].dead \/ \E t \in instances[i].todo : sockets[t].player = p

Connect(s) ==
  /\ Does(s, "claimed", "wrote")
  /\ LET p == sockets[s].player
         at == sockets[s].at
     IN  /\ instances' = [instances EXCEPT ![at].connections[p] = s]
         /\ game' = [game EXCEPT !.crossed =
              IF Superseded(s) THEN IF sockets[game.owner[p]].at = at THEN @ \cup {p} ELSE @
              ELSE IF Underway(at, p) THEN @ \cup {p} ELSE @ \ {p}]
  /\ UNCHANGED rolls

\* The peer is gone; the server finds out when it sends, or later.
Break(s) ==
  /\ sockets[s].phase = "open"
  /\ sockets' = [sockets EXCEPT ![s] = [@ EXCEPT !.phase = "broken", !.shows = 0]]
  /\ UNCHANGED <<game, instances, rolls>>

\* Mutant: whoever is in connections under that player goes.
UnmappedPlayer(s) ==
  [instances EXCEPT ![sockets[s].at].connections[sockets[s].player] = NoSocket]

Unmapped(s) ==
  IF instances[sockets[s].at].connections[sockets[s].player] = s
  THEN [instances EXCEPT ![sockets[s].at].connections[sockets[s].player] = NoSocket]
  ELSE instances

\* The receive loop of websocket_endpoint ends, and its finally block begins.
Close(s) ==
  /\ Serving(s) /\ sockets[s].doing \in {"idle", "closing"}
  /\ sockets' = [sockets EXCEPT ![s] = [@ EXCEPT !.phase = "closed", !.doing = "marking",
                                                 !.shows = 0]]
  /\ instances' = Unmapped(s)
  /\ UNCHANGED <<game, rolls>>

\* mark_disconnected_if_current.
Mark(s) ==
  /\ \/ game.owner[sockets[s].player] = s /\ Does(s, "marking", "wrote") /\ Write
     \/ /\ sockets[s].doing = "marking" /\ game.owner[sockets[s].player] # s
        /\ sockets' = [sockets EXCEPT ![s] = Rested(s)]
        /\ UNCHANGED game
  /\ UNCHANGED <<instances, rolls>>

-----------------------------------------------------------------------------
(* delayed_broadcast of roll r.                                            *)

Passes(r, from, to) == rolls[r].pc = from /\ rolls' = [rolls EXCEPT ![r].pc = to]

Reads(r, from, to) ==
  /\ rolls[r].pc = from
  /\ rolls' = [rolls EXCEPT ![r] = [@ EXCEPT !.pc = to, !.sees = game.version]]

Roller(r) == rolls[r].by
HomeOf(r) == rolls[r].at

Register(r) ==
  /\ Passes(r, "exists", "waiting")
  /\ instances' = [instances EXCEPT ![HomeOf(r)] =
                     [@ EXCEPT !.acks[Roller(r)] = r, !.latest[Roller(r)] = r]]
  /\ UNCHANGED <<game, sockets>>

\* handle_roll_done: the event set is the one registered now.
RollDone(s) ==
  LET r == instances[sockets[s].at].acks[sockets[s].player]
  IN  /\ Serving(s) /\ sockets[s].doing = "idle"
      /\ r # NoRoll /\ Passes(r, "waiting", "woken")
      /\ UNCHANGED <<game, sockets, instances>>

AckTimeout(r) == Passes(r, "waiting", "woken") /\ UNCHANGED <<game, sockets, instances>>

\* Mutant: the entry goes, whichever roll's it is.
ReleasedAnyway(r) == [instances EXCEPT ![HomeOf(r)].acks[Roller(r)] = NoRoll]

Released(r) ==
  IF instances[HomeOf(r)].acks[Roller(r)] = r
  THEN [instances EXCEPT ![HomeOf(r)] =
          [@ EXCEPT !.acks[Roller(r)] = NoRoll, !.latest[Roller(r)] = NoRoll]]
  ELSE instances

RollSnapshot(r) ==
  /\ Reads(r, "woken", "read")
  /\ instances' = Released(r)
  /\ UNCHANGED <<game, sockets>>

Spent == [pc |-> "over", by |-> Somebody, at |-> Somewhere, win |-> FALSE, sees |-> 0]

RollPublish(r) ==
  /\ rolls[r].pc = "read"
  /\ rolls' = [rolls EXCEPT ![r] = IF rolls[r].win THEN [@ EXCEPT !.pc = "won", !.sees = 0]
                                    ELSE Spent]
  /\ Publish(rolls[r].sees, {Roller(r)})
  /\ UNCHANGED <<game, sockets>>

\* advance_round, by the task of the win or by the resume it was deferred to: the round is
\* open again, then dealt, and everyone is told.
Reopen(r) ==
  /\ Passes(r, "won", "reopened") /\ game' = [game EXCEPT !.round = "open"]
  /\ UNCHANGED <<sockets, instances>>

Deal(r) ==
  /\ Passes(r, "reopened", "dealt") /\ game' = [game EXCEPT !.version = @ + 1]
  /\ UNCHANGED <<sockets, instances>>

AdvanceSnapshot(r) ==
  Reads(r, "dealt", "fresh") /\ UNCHANGED <<game, sockets, instances>>

AdvancePublish(r) ==
  /\ rolls[r].pc = "fresh" /\ rolls' = [rolls EXCEPT ![r] = Spent]
  /\ Publish(rolls[r].sees, {})
  /\ UNCHANGED <<game, sockets>>

-----------------------------------------------------------------------------
(* The subscriber of instance i.                                           *)

Take(i) ==
  LET frame == Head(instances[i].backlog)
      local == {s \in Sockets : \E p \in Players \ frame.exclude :
                                   instances[i].connections[p] = s}
  IN  /\ instances[i].backlog # <<>> /\ instances[i].todo = {}
      /\ instances' = [instances EXCEPT ![i] =
           [@ EXCEPT !.backlog = Tail(instances[i].backlog), !.todo = local,
                     !.frame = IF local = {} THEN NoFrame ELSE frame]]
      /\ UNCHANGED <<game, sockets, rolls>>

\* The entries of dead go, whatever socket they hold by then.
Cleaned(connections, dead) ==
  [p \in Players |-> IF p \in dead THEN NoSocket ELSE connections[p]]

\* _deliver: one send; after the last the dead are removed.
Send(i, s) ==
  LET here == instances[i]
      failed == sockets[s].phase # "open"
      dead == IF failed THEN here.dead \cup {sockets[s].player} ELSE here.dead
      last == here.todo = {s}
  IN  /\ s \in here.todo
      /\ sockets' = IF sockets[s].phase = "open"
                    THEN [sockets EXCEPT ![s].shows = here.frame.version] ELSE sockets
      /\ instances' = [instances EXCEPT ![i] =
           IF last
           THEN [here EXCEPT !.todo = {}, !.dead = {}, !.frame = NoFrame,
                             !.connections = Cleaned(here.connections, dead)]
           ELSE [here EXCEPT !.todo = here.todo \ {s}, !.dead = dead]]
      /\ game' = [game EXCEPT !.order =
           IF sockets[s].phase = "open" /\ here.frame.version < sockets[s].shows
           THEN "lost" ELSE @]
      /\ UNCHANGED rolls

-----------------------------------------------------------------------------

FanoutNext ==
  \/ \E s \in Sockets : \/ HandlerWrites(s) \/ RollWrites(s)
                        \/ HandlerSnapshot(s) \/ HandlerPublish(s) \/ Reply(s)
                        \/ Claim(s) \/ Connect(s) \/ Break(s) \/ Close(s) \/ Mark(s)
                        \/ RollDone(s)
  \/ \E r \in Rolls : \/ Register(r) \/ AckTimeout(r) \/ RollSnapshot(r) \/ RollPublish(r)
                      \/ Reopen(r) \/ Deal(r) \/ AdvanceSnapshot(r) \/ AdvancePublish(r)
  \/ \E i \in Instances : Take(i) \/ \E s \in Sockets : Send(i, s)

FanoutSpec == FanoutInit /\ [][FanoutNext]_fanoutVars

-----------------------------------------------------------------------------
(* Properties.                                                             *)

\* Whoever holds a seat on an open socket is in its instance's connections: the late close
\* of an older socket leaves the entry alone, wherever it was, and a clean-up takes it only
\* if the connection was made while a delivery to the older socket was under way (crossed,
\* which the next reconnect puts right).
Reachable ==
  \A p \in Players \ game.crossed :
    LET s == game.owner[p]
    IN  sockets[s].phase = "open" /\ sockets[s].doing # "claimed"
          => instances[sockets[s].at].connections[p] = s

Settled ==
  /\ game.round = "open"
  /\ \A s \in Sockets : sockets[s].doing = "idle"
  /\ \A r \in Rolls : rolls[r].pc \in {"none", "over"}
  /\ \A i \in Instances : instances[i].backlog = <<>> /\ instances[i].todo = {}

\* Once everything has been sent and a round that was won has been followed by the next,
\* every player who is reachable sees the newest version: the roller, whom the broadcast of
\* the roll leaves out, and the others, who are not told of a roll that came too late.  As
\* long as no frame reaches a client after a newer one (order).
CaughtUp ==
  game.order = "kept" /\ Settled =>
    \A p \in Players \ game.crossed :
      sockets[game.owner[p]].phase = "open" => sockets[game.owner[p]].shows = game.version

\* The wait a player's roll registered last can be ended by roll_done: waits that began
\* before and end after it leave its entry alone.
LatestCanBeAcked ==
  \A i \in Instances, p \in Players :
    LET r == instances[i].latest[p]
    IN  r # NoRoll /\ rolls[r].pc = "waiting" => instances[i].acks[p] = r

===============================================================================
