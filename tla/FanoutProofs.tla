----------------------------- MODULE FanoutProofs ------------------------------
(***************************************************************************)
(* Proofs about the way of a game's state to its players, for any number   *)
(* of instances, players, sockets, rolls and writes: who holds a seat on   *)
(* an open socket is reachable, everyone ends up with the newest state,    *)
(* and the latest reveal can be acknowledged.                              *)
(***************************************************************************)
EXTENDS Fanout, FunctionTheorems, FiniteSetTheorems, SequenceTheorems, TLAPS

-----------------------------------------------------------------------------
(* Types.                                                                  *)

Frame == [version : Nat, exclude : SUBSET Players]

Socket == [phase : {"none", "open", "broken", "closed"}, player : Players, at : Instances,
           doing : {"idle", "rolling", "wrote", "read", "claimed", "closing", "marking"},
           roll : {"none", "plain", "won", "late"}, sees : Nat, shows : Nat]

Instance == [connections : [Players -> Sockets \cup {NoSocket}],
             acks : [Players -> Rolls \cup {NoRoll}], latest : [Players -> Rolls \cup {NoRoll}],
             backlog : Seq(Frame), frame : Frame, todo : SUBSET Sockets, dead : SUBSET Players]

Delayed == [pc : {"none", "exists", "waiting", "woken", "read", "won", "reopened", "dealt",
                  "fresh", "over"},
            by : Players, at : Instances, win : BOOLEAN, sees : Nat]

Game == [version : Nat, owner : [Players -> Sockets], round : {"open", "over"},
         crossed : SUBSET Players, order : {"kept", "lost"}]

GameTyped == game \in Game
SocketsTyped == sockets \in [Sockets -> Socket]
InstancesTyped == instances \in [Instances -> Instance]
RollsTyped == rolls \in [Rolls -> Delayed]

FanoutTyped == GameTyped /\ SocketsTyped /\ InstancesTyped /\ RollsTyped

LEMMA SomewhereIs == ASSUME NEW i \in Instances PROVE Somewhere \in Instances
BY DEF Somewhere

LEMMA SomebodyIs == ASSUME NEW p \in Players PROVE Somebody \in Players
BY DEF Somebody

LEMMA RestedTyped ==
  ASSUME SocketsTyped, NEW s \in Sockets
  PROVE  /\ Rested(s) \in Socket
         /\ Rested(s).phase = sockets[s].phase /\ Rested(s).player = sockets[s].player
         /\ Rested(s).doing = "idle" /\ Rested(s).sees = 0
         /\ Rested(s).shows = sockets[s].shows /\ Rested(s).roll = sockets[s].roll
         /\ sockets[s].phase # "closed" => Rested(s).at = sockets[s].at
<1>1. sockets[s] \in Socket /\ sockets[s].at \in Instances
  BY DEF SocketsTyped, Socket
<1>2. Somewhere \in Instances
  BY <1>1, SomewhereIs
<1> QED
  BY <1>1, <1>2 DEF Rested, Socket

\* Frame f is in the backlog of every instance, behind what was there.
Posted(f) ==
  /\ f \in Frame
  /\ \A i \in Instances : /\ instances'[i].connections = instances[i].connections
                          /\ instances'[i].acks = instances[i].acks
                          /\ instances'[i].latest = instances[i].latest
                          /\ instances'[i].frame = instances[i].frame
                          /\ instances'[i].todo = instances[i].todo
                          /\ instances'[i].dead = instances[i].dead
                          /\ instances'[i].backlog = Append(instances[i].backlog, f)

LEMMA PublishTyped ==
  ASSUME InstancesTyped, NEW version \in Nat, NEW exclude \in SUBSET Players,
         Publish(version, exclude)
  PROVE  InstancesTyped' /\ Posted([version |-> version, exclude |-> exclude])
<1> DEFINE new == [version |-> version, exclude |-> exclude]
<1>1. new \in Frame
  BY DEF Frame
<1> HIDE DEF new
<1>2. instances' = [i \in Instances |->
                      [instances[i] EXCEPT !.backlog = Append(instances[i].backlog, new)]]
  BY DEF Publish, new
<1>3. ASSUME NEW i \in Instances PROVE Append(instances[i].backlog, new) \in Seq(Frame)
  BY <1>1 DEF InstancesTyped, Instance
<1>4. ASSUME NEW i \in Instances
      PROVE  /\ instances'[i] \in Instance
             /\ instances'[i].connections = instances[i].connections
             /\ instances'[i].acks = instances[i].acks
             /\ instances'[i].latest = instances[i].latest
             /\ instances'[i].frame = instances[i].frame
             /\ instances'[i].todo = instances[i].todo
             /\ instances'[i].dead = instances[i].dead
             /\ instances'[i].backlog = Append(instances[i].backlog, new)
  <2>1. instances[i] \in Instance
    BY DEF InstancesTyped
  <2>2. instances'[i] = [instances[i] EXCEPT !.backlog = Append(instances[i].backlog, new)]
    BY <1>2
  <2> QED
    BY <1>3, <2>1, <2>2 DEF Instance
<1> QED
  BY <1>1, <1>2, <1>4 DEF InstancesTyped, Posted, new

LEMMA FrameTyped ==
  ASSUME InstancesTyped, NEW i \in Instances
  PROVE  /\ instances[i].backlog \in Seq(Frame)
         /\ \A k \in DOMAIN instances[i].backlog : instances[i].backlog[k] \in Frame
         /\ instances[i].frame \in Frame
BY DEF InstancesTyped, Instance

-----------------------------------------------------------------------------
(* What the steps do to a socket.                                          *)

Only(s) == \A t \in Sockets \ {s} : sockets'[t] = sockets[t]

\* Socket s goes on, where it is, as given; the others are left alone.
Turns(s, phase, doing, roll, sees, shows) ==
  /\ SocketsTyped' /\ Only(s)
  /\ sockets'[s].player = sockets[s].player /\ sockets'[s].at = sockets[s].at
  /\ sockets'[s].phase = phase /\ sockets'[s].doing = doing /\ sockets'[s].roll = roll
  /\ sockets'[s].sees = sees /\ sockets'[s].shows = shows

LEMMA SocketBecomes ==
  ASSUME SocketsTyped, NEW s \in Sockets, NEW new \in Socket,
         sockets' = [sockets EXCEPT ![s] = new]
  PROVE  SocketsTyped' /\ Only(s) /\ sockets'[s] = new
BY DEF SocketsTyped, Only

LEMMA WritesTurns ==
  ASSUME SocketsTyped, NEW s \in Sockets, HandlerWrites(s)
  PROVE  Turns(s, sockets[s].phase, "wrote", sockets[s].roll, sockets[s].sees, sockets[s].shows)
<1> DEFINE new == [sockets[s] EXCEPT !.doing = "wrote"]
<1>2. sockets[s] \in Socket
  BY DEF SocketsTyped
<1>3. /\ new \in Socket
      /\ new.player = sockets[s].player /\ new.at = sockets[s].at
      /\ new.phase = sockets[s].phase /\ new.doing = "wrote" /\ new.roll = sockets[s].roll
      /\ new.sees = sockets[s].sees /\ new.shows = sockets[s].shows
  BY <1>2 DEF Socket
<1>4. sockets' = [sockets EXCEPT ![s] = new]
  BY DEF HandlerWrites, Does, SocketsTyped
<1> HIDE DEF new
<1> QED
  BY <1>3, <1>4, SocketBecomes DEF Turns

\* Socket s writes for its roll; others may be overtaken by it, and are otherwise left alone.
LEMMA RollWritesDoes ==
  ASSUME FanoutTyped, NEW s \in Sockets, RollWrites(s)
  PROVE  /\ SocketsTyped' /\ GameTyped'
         /\ sockets[s].doing \in {"idle", "rolling"}
         /\ sockets[s].doing = "idle" => Serving(s)
         /\ sockets'[s].doing = "wrote"
         /\ sockets'[s].roll = "late" => game.round = "over"
         /\ \A t \in Sockets :
              /\ sockets'[t].phase = sockets[t].phase
              /\ sockets'[t].player = sockets[t].player /\ sockets'[t].at = sockets[t].at
              /\ sockets'[t].sees = sockets[t].sees /\ sockets'[t].shows = sockets[t].shows
         /\ \A t \in Sockets \ {s} :
              /\ sockets'[t].roll = sockets[t].roll
              /\ \/ sockets'[t].doing = sockets[t].doing
                 \/ sockets[t].doing = "idle" /\ sockets'[t].doing = "rolling" /\ Serving(t)
         /\ game'.version = game.version + 1 /\ game'.owner = game.owner
         /\ game.round = "over" => game'.round = "over"
         /\ game'.crossed = game.crossed /\ game'.order = game.order
<1>0. game \in Game /\ \A t \in Sockets : sockets[t] \in Socket
  BY DEF FanoutTyped, GameTyped, SocketsTyped
<1>1. PICK roll \in {"plain", IF game.round = "open" THEN "won" ELSE "late"} :
        /\ \E stalled \in IF roll = "won" THEN SUBSET Others(s) ELSE {{}} :
             sockets' = Written(s, roll, stalled)
        /\ game' = IF roll = "won" THEN [game EXCEPT !.version = @ + 1, !.round = "over"]
                                   ELSE [game EXCEPT !.version = @ + 1]
  BY DEF RollWrites
<1>10. PICK stalled \in SUBSET Others(s) : sockets' = Written(s, roll, stalled)
  BY <1>1
<1>2. roll \in {"none", "plain", "won", "late"} /\ (roll = "late" => game.round = "over")
  BY <1>0 DEF Game
<1> DEFINE mine == [sockets[s] EXCEPT !.doing = "wrote", !.roll = roll]
           other(t) == [sockets[t] EXCEPT !.doing = "rolling"]
<1>3. /\ mine \in Socket /\ mine.doing = "wrote" /\ mine.roll = roll
      /\ mine.phase = sockets[s].phase /\ mine.player = sockets[s].player
      /\ mine.at = sockets[s].at /\ mine.sees = sockets[s].sees
      /\ mine.shows = sockets[s].shows
  BY <1>0, <1>2 DEF Socket
<1>4. ASSUME NEW t \in Sockets
      PROVE  /\ other(t) \in Socket /\ other(t).doing = "rolling"
             /\ other(t).roll = sockets[t].roll
             /\ other(t).phase = sockets[t].phase /\ other(t).player = sockets[t].player
             /\ other(t).at = sockets[t].at /\ other(t).sees = sockets[t].sees
             /\ other(t).shows = sockets[t].shows
  BY <1>0 DEF Socket
<1>5. sockets' = [t \in Sockets |-> IF t = s THEN mine
                                    ELSE IF t \in stalled THEN other(t) ELSE sockets[t]]
  BY <1>10 DEF Written
<1> HIDE DEF mine, other
<1>6. SocketsTyped' /\ sockets'[s] = mine
  BY <1>0, <1>3, <1>4, <1>5 DEF SocketsTyped
<1>7. \A t \in Sockets \ {s} :
        \/ sockets'[t] = sockets[t]
        \/ /\ sockets'[t] = other(t) /\ sockets[t].doing = "idle" /\ Serving(t)
  BY <1>10, <1>5 DEF Others
<1>8. /\ game' \in Game /\ game'.version = game.version + 1 /\ game'.owner = game.owner
      /\ game.round = "over" => game'.round = "over"
      /\ game'.crossed = game.crossed /\ game'.order = game.order
  <2>1. CASE roll = "won"
    <3>1. game' = [game EXCEPT !.version = game.version + 1, !.round = "over"]
      BY <1>1, <2>1
    <3>2. game' = [version |-> game.version + 1, owner |-> game.owner, round |-> "over",
                   crossed |-> game.crossed, order |-> game.order]
      BY <1>0, <3>1 DEF Game
    <3> QED
      BY <1>0, <3>2 DEF Game
  <2>2. CASE roll # "won"
    <3>1. game' = [game EXCEPT !.version = game.version + 1]
      BY <1>0, <1>1, <2>2 DEF Game
    <3> QED
      BY <1>0, <3>1 DEF Game
  <2> QED
    BY <2>1, <2>2
<1>9. /\ sockets[s].doing \in {"idle", "rolling"}
      /\ sockets[s].doing = "idle" => Serving(s)
  BY DEF RollWrites
<1> QED
  BY <1>2, <1>3, <1>4, <1>6, <1>7, <1>8, <1>9 DEF GameTyped

LEMMA SnapshotTurns ==
  ASSUME SocketsTyped, GameTyped, NEW s \in Sockets, HandlerSnapshot(s)
  PROVE  Turns(s, sockets[s].phase, "read", sockets[s].roll, game.version, sockets[s].shows)
<1> DEFINE new == [sockets[s] EXCEPT !.doing = "read", !.sees = game.version]
<1>2. sockets[s] \in Socket /\ game.version \in Nat
  BY DEF SocketsTyped, GameTyped, Game
<1>3. /\ new \in Socket
      /\ new.player = sockets[s].player /\ new.at = sockets[s].at
      /\ new.phase = sockets[s].phase /\ new.doing = "read" /\ new.roll = sockets[s].roll
      /\ new.sees = game.version /\ new.shows = sockets[s].shows
  BY <1>2 DEF Socket
<1>4. sockets' = [sockets EXCEPT ![s] = new]
  BY DEF HandlerSnapshot, SocketsTyped
<1> HIDE DEF new
<1> QED
  BY <1>3, <1>4, SocketBecomes DEF Turns

\* The answer to a roll reaches the client, or the handler fails.
LEMMA ReplyTurns ==
  ASSUME SocketsTyped, NEW s \in Sockets, Reply(s)
  PROVE  \/ /\ sockets[s].phase = "open"
            /\ Turns(s, "open", "idle", "none", 0, sockets[s].sees)
         \/ /\ sockets[s].phase = "broken" /\ UNCHANGED rolls
            /\ Turns(s, "broken", "closing", "none", 0, sockets[s].shows)
<1>0. sockets[s] \in Socket
  BY DEF SocketsTyped
<1>1. CASE sockets[s].phase = "open"
  <2> DEFINE new == [sockets[s] EXCEPT !.doing = "idle", !.roll = "none",
                                       !.shows = sockets[s].sees, !.sees = 0]
  <2>1. /\ new \in Socket
        /\ new.player = sockets[s].player /\ new.at = sockets[s].at
        /\ new.phase = sockets[s].phase /\ new.doing = "idle"
        /\ new.roll = "none" /\ new.sees = 0 /\ new.shows = sockets[s].sees
    BY <1>0 DEF Socket
  <2>2. sockets' = [sockets EXCEPT ![s] = new]
    BY <1>1 DEF Reply, SocketsTyped
  <2> HIDE DEF new
  <2> QED
    BY <1>1, <2>1, <2>2, SocketBecomes DEF Turns
<1>2. CASE sockets[s].phase = "broken"
  <2> DEFINE new == [sockets[s] EXCEPT !.doing = "closing", !.roll = "none", !.sees = 0]
  <2>1. /\ new \in Socket
        /\ new.player = sockets[s].player /\ new.at = sockets[s].at
        /\ new.phase = sockets[s].phase /\ new.doing = "closing" /\ new.roll = "none"
        /\ new.sees = 0 /\ new.shows = sockets[s].shows
    BY <1>0 DEF Socket
  <2>2. sockets' = [sockets EXCEPT ![s] = new]
    BY <1>2 DEF Reply, SocketsTyped
  <2> HIDE DEF new
  <2> QED
    BY <1>2, <2>1, <2>2, SocketBecomes DEF Turns, Reply
<1> QED
  BY <1>1, <1>2 DEF Reply

LEMMA ClaimTurns ==
  ASSUME SocketsTyped, NEW s \in Sockets, Claim(s)
  PROVE  \E p \in Players :
           /\ SocketsTyped' /\ Only(s)
           /\ sockets'[s].player = p /\ sockets'[s].phase = "open"
           /\ sockets'[s].doing = "claimed" /\ sockets'[s].roll = sockets[s].roll
           /\ sockets'[s].sees = sockets[s].sees /\ sockets'[s].shows = sockets[s].shows
           /\ game' = [game EXCEPT !.version = @ + 1, !.owner[p] = s]
<1>1. PICK p \in Players, i \in Instances :
        /\ sockets' = [sockets EXCEPT ![s] = [sockets[s] EXCEPT !.phase = "open", !.player = p,
                                                !.at = i, !.doing = "claimed"]]
        /\ game' = [game EXCEPT !.version = @ + 1, !.owner[p] = s]
  BY Zenon DEF Claim
<1> DEFINE new == [sockets[s] EXCEPT !.phase = "open", !.player = p, !.at = i,
                                     !.doing = "claimed"]
<1>2. sockets[s] \in Socket
  BY DEF SocketsTyped
<1>3. /\ new \in Socket
      /\ new.player = p /\ new.phase = "open" /\ new.doing = "claimed"
      /\ new.roll = sockets[s].roll
      /\ new.sees = sockets[s].sees /\ new.shows = sockets[s].shows
  BY <1>2 DEF Socket
<1>4. sockets' = [sockets EXCEPT ![s] = new]
  BY <1>1, Zenon
<1> HIDE DEF new
<1> QED
  BY <1>1, <1>3, <1>4, SocketBecomes, Zenon

\* A socket whose handler, or whose phase, alone changes.
LEMMA PlainTurns ==
  ASSUME SocketsTyped, NEW s \in Sockets
  PROVE  /\ \A from \in {"claimed", "marking"} : Does(s, from, "wrote") =>
              Turns(s, sockets[s].phase, "wrote", sockets[s].roll, sockets[s].sees,
                    sockets[s].shows)
         /\ Break(s) => Turns(s, "broken", sockets[s].doing, sockets[s].roll, sockets[s].sees, 0)
         /\ Close(s) => Turns(s, "closed", "marking", sockets[s].roll, sockets[s].sees, 0)
<1>0. sockets[s] \in Socket
  BY DEF SocketsTyped
<1>1. ASSUME NEW from \in {"claimed", "marking"}, Does(s, from, "wrote")
      PROVE  Turns(s, sockets[s].phase, "wrote", sockets[s].roll, sockets[s].sees, sockets[s].shows)
  <2> DEFINE new == [sockets[s] EXCEPT !.doing = "wrote"]
  <2>1. /\ new \in Socket
        /\ new.player = sockets[s].player /\ new.at = sockets[s].at
        /\ new.phase = sockets[s].phase /\ new.doing = "wrote"
        /\ new.roll = sockets[s].roll
        /\ new.sees = sockets[s].sees /\ new.shows = sockets[s].shows
    BY <1>0 DEF Socket
  <2>2. sockets' = [sockets EXCEPT ![s] = new]
    BY <1>1 DEF Does, SocketsTyped
  <2> HIDE DEF new
  <2> QED
    BY <2>1, <2>2, SocketBecomes DEF Turns
<1>2. ASSUME Break(s)
      PROVE  Turns(s, "broken", sockets[s].doing, sockets[s].roll, sockets[s].sees, 0)
  <2> DEFINE new == [sockets[s] EXCEPT !.phase = "broken", !.shows = 0]
  <2>1. /\ new \in Socket
        /\ new.player = sockets[s].player /\ new.at = sockets[s].at
        /\ new.phase = "broken" /\ new.doing = sockets[s].doing
        /\ new.roll = sockets[s].roll /\ new.sees = sockets[s].sees /\ new.shows = 0
    BY <1>0 DEF Socket
  <2>2. sockets' = [sockets EXCEPT ![s] = new]
    BY <1>2 DEF Break, SocketsTyped
  <2> HIDE DEF new
  <2> QED
    BY <2>1, <2>2, SocketBecomes DEF Turns
<1>3. ASSUME Close(s) PROVE Turns(s, "closed", "marking", sockets[s].roll, sockets[s].sees, 0)
  <2> DEFINE new == [sockets[s] EXCEPT !.phase = "closed", !.doing = "marking", !.shows = 0]
  <2>1. /\ new \in Socket
        /\ new.player = sockets[s].player /\ new.at = sockets[s].at
        /\ new.phase = "closed" /\ new.doing = "marking"
        /\ new.roll = sockets[s].roll /\ new.sees = sockets[s].sees /\ new.shows = 0
    BY <1>0 DEF Socket
  <2>2. sockets' = [sockets EXCEPT ![s] = new]
    BY <1>3 DEF Close, SocketsTyped
  <2> HIDE DEF new
  <2> QED
    BY <2>1, <2>2, SocketBecomes DEF Turns
<1> QED
  BY <1>1, <1>2, <1>3

\* A handler is over.
LEMMA RestTurns ==
  ASSUME SocketsTyped, NEW s \in Sockets, sockets' = [sockets EXCEPT ![s] = Rested(s)]
  PROVE  /\ SocketsTyped' /\ Only(s)
         /\ sockets'[s].player = sockets[s].player
         /\ sockets[s].phase # "closed" => sockets'[s].at = sockets[s].at
         /\ sockets'[s].phase = sockets[s].phase /\ sockets'[s].doing = "idle"
         /\ sockets'[s].roll = sockets[s].roll
         /\ sockets'[s].sees = 0 /\ sockets'[s].shows = sockets[s].shows
BY RestedTyped, SocketBecomes

-----------------------------------------------------------------------------
(* What the steps do to an instance.                                       *)

\* The instances are as they were but for the connections.
OnlyConnections ==
  \A j \in Instances : /\ instances'[j].acks = instances[j].acks
                       /\ instances'[j].latest = instances[j].latest
                       /\ instances'[j].backlog = instances[j].backlog
                       /\ instances'[j].frame = instances[j].frame
                       /\ instances'[j].todo = instances[j].todo
                       /\ instances'[j].dead = instances[j].dead

\* They are as they were but for the waits for acknowledgements.
OnlyAcks ==
  \A j \in Instances : /\ instances'[j].connections = instances[j].connections
                       /\ instances'[j].backlog = instances[j].backlog
                       /\ instances'[j].frame = instances[j].frame
                       /\ instances'[j].todo = instances[j].todo
                       /\ instances'[j].dead = instances[j].dead

LEMMA InstanceBecomes ==
  ASSUME InstancesTyped, NEW i \in Instances, NEW new \in Instance,
         instances' = [instances EXCEPT ![i] = new]
  PROVE  /\ InstancesTyped' /\ instances'[i] = new
         /\ \A j \in Instances \ {i} : instances'[j] = instances[j]
BY DEF InstancesTyped

Entered(i, p, t) == [instances EXCEPT ![i].connections[p] = t]

LEMMA EntryTyped ==
  ASSUME InstancesTyped, NEW i \in Instances, NEW p \in Players,
         NEW t \in Sockets \cup {NoSocket}, instances' = Entered(i, p, t)
  PROVE  /\ InstancesTyped' /\ OnlyConnections
         /\ \A j \in Instances, q \in Players :
              instances'[j].connections[q] =
                IF j = i /\ q = p THEN t ELSE instances[j].connections[q]
<1> DEFINE entries == [instances[i].connections EXCEPT ![p] = t]
           new == [instances[i] EXCEPT !.connections = entries]
<1>0. instances[i] \in Instance
  BY DEF InstancesTyped
<1>1. entries \in [Players -> Sockets \cup {NoSocket}]
  BY <1>0 DEF Instance
<1>2. \A q \in Players : entries[q] = IF q = p THEN t ELSE instances[i].connections[q]
  BY <1>0 DEF Instance
<1>3. instances' = [instances EXCEPT ![i] = new]
  BY DEF InstancesTyped, Entered
<1> HIDE DEF entries
<1>4. /\ new \in Instance /\ new.connections = entries
      /\ new.acks = instances[i].acks /\ new.latest = instances[i].latest
      /\ new.backlog = instances[i].backlog /\ new.frame = instances[i].frame
      /\ new.todo = instances[i].todo /\ new.dead = instances[i].dead
  BY <1>0, <1>1 DEF Instance
<1> HIDE DEF new
<1>5. /\ InstancesTyped' /\ instances'[i] = new
      /\ \A j \in Instances \ {i} : instances'[j] = instances[j]
  BY <1>3, <1>4, InstanceBecomes
<1>6. OnlyConnections
  BY <1>4, <1>5 DEF OnlyConnections
<1>7. ASSUME NEW j \in Instances, NEW q \in Players
      PROVE  instances'[j].connections[q] =
               IF j = i /\ q = p THEN t ELSE instances[j].connections[q]
  BY <1>2, <1>4, <1>5
<1> QED
  BY <1>5, <1>6, <1>7

LEMMA UnmappedTyped ==
  ASSUME InstancesTyped, SocketsTyped, NEW s \in Sockets, instances' = Unmapped(s)
  PROVE  /\ InstancesTyped' /\ OnlyConnections
         /\ \A j \in Instances, q \in Players :
              \/ instances'[j].connections[q] = instances[j].connections[q]
              \/ /\ instances'[j].connections[q] = NoSocket
                 /\ instances[j].connections[q] = s
         /\ instances'[sockets[s].at].connections[sockets[s].player] # s
<1> DEFINE i == sockets[s].at
           p == sockets[s].player
<1>1. i \in Instances /\ p \in Players /\ NoSocket \in Sockets \cup {NoSocket}
  BY DEF SocketsTyped, Socket
<1>2. CASE instances[i].connections[p] = s
  <2>1. instances' = Entered(i, p, NoSocket)
    BY <1>2 DEF Unmapped, Entered
  <2> HIDE DEF i, p
  <2>2. /\ InstancesTyped' /\ OnlyConnections
        /\ \A j \in Instances, q \in Players :
             instances'[j].connections[q] =
               IF j = i /\ q = p THEN NoSocket ELSE instances[j].connections[q]
    BY <1>1, <2>1, EntryTyped
  <2>3. NoSocket # s
    BY DEF NoSocket, Sockets
  <2> QED
    BY <1>1, <1>2, <2>2, <2>3 DEF i, p
<1>3. CASE instances[i].connections[p] # s
  <2>1. instances' = instances
    BY <1>3 DEF Unmapped
  <2> QED
    BY <1>3, <2>1 DEF InstancesTyped, OnlyConnections
<1> QED
  BY <1>2, <1>3

\* The wait of player p on instance i becomes r.
Awaiting(i, p, r) == [instances EXCEPT ![i] = [@ EXCEPT !.acks[p] = r, !.latest[p] = r]]

LEMMA AcksTyped ==
  ASSUME InstancesTyped, NEW i \in Instances, NEW p \in Players, NEW r \in Rolls \cup {NoRoll},
         instances' = Awaiting(i, p, r)
  PROVE  /\ InstancesTyped' /\ OnlyAcks
         /\ \A j \in Instances, q \in Players :
              /\ instances'[j].acks[q] = IF j = i /\ q = p THEN r ELSE instances[j].acks[q]
              /\ instances'[j].latest[q] = IF j = i /\ q = p THEN r ELSE instances[j].latest[q]
<1> DEFINE acks == [instances[i].acks EXCEPT ![p] = r]
           latest == [instances[i].latest EXCEPT ![p] = r]
           new == [instances[i] EXCEPT !.acks = acks, !.latest = latest]
<1>0. instances[i] \in Instance
  BY DEF InstancesTyped
<1>1. acks \in [Players -> Rolls \cup {NoRoll}] /\ latest \in [Players -> Rolls \cup {NoRoll}]
  BY <1>0 DEF Instance
<1>2. \A q \in Players : /\ acks[q] = IF q = p THEN r ELSE instances[i].acks[q]
                         /\ latest[q] = IF q = p THEN r ELSE instances[i].latest[q]
  BY <1>0 DEF Instance
<1>3. instances' = [instances EXCEPT ![i] = new]
  BY DEF InstancesTyped, Awaiting
<1> HIDE DEF acks, latest
<1>4. /\ new \in Instance /\ new.acks = acks /\ new.latest = latest
      /\ new.connections = instances[i].connections
      /\ new.backlog = instances[i].backlog /\ new.frame = instances[i].frame
      /\ new.todo = instances[i].todo /\ new.dead = instances[i].dead
  BY <1>0, <1>1 DEF Instance
<1> HIDE DEF new
<1>5. /\ InstancesTyped' /\ instances'[i] = new
      /\ \A j \in Instances \ {i} : instances'[j] = instances[j]
  BY <1>3, <1>4, InstanceBecomes
<1>6. OnlyAcks
  BY <1>4, <1>5 DEF OnlyAcks
<1>7. ASSUME NEW j \in Instances, NEW q \in Players
      PROVE  /\ instances'[j].acks[q] = IF j = i /\ q = p THEN r ELSE instances[j].acks[q]
             /\ instances'[j].latest[q] = IF j = i /\ q = p THEN r ELSE instances[j].latest[q]
  BY <1>2, <1>4, <1>5
<1> QED
  BY <1>5, <1>6, <1>7

\* A delivery begins.
LEMMA TakeTyped ==
  ASSUME InstancesTyped, NEW i \in Instances, Take(i)
  PROVE  LET frame == Head(instances[i].backlog)
             local == {s \in Sockets : \E p \in Players \ frame.exclude :
                                          instances[i].connections[p] = s}
         IN  /\ InstancesTyped' /\ frame \in Frame /\ instances[i].backlog # <<>>
             /\ \A j \in Instances : /\ instances'[j].connections = instances[j].connections
                                     /\ instances'[j].acks = instances[j].acks
                                     /\ instances'[j].latest = instances[j].latest
                                     /\ instances'[j].dead = instances[j].dead
             /\ instances'[i].backlog = Tail(instances[i].backlog)
             /\ instances'[i].todo = local
             /\ instances'[i].frame = IF local = {} THEN NoFrame ELSE frame
             /\ \A j \in Instances \ {i} : instances'[j] = instances[j]
<1> DEFINE frame == Head(instances[i].backlog)
           local == {s \in Sockets : \E p \in Players \ frame.exclude :
                                        instances[i].connections[p] = s}
           shown == IF local = {} THEN NoFrame ELSE frame
           new == [instances[i] EXCEPT !.backlog = Tail(instances[i].backlog), !.todo = local,
                                       !.frame = shown]
<1>0. instances[i] \in Instance /\ instances[i].backlog \in Seq(Frame)
      /\ instances[i].backlog # <<>>
  BY DEF InstancesTyped, Instance, Take
<1>1. frame \in Frame /\ Tail(instances[i].backlog) \in Seq(Frame)
  BY <1>0
<1>2. local \in SUBSET Sockets /\ NoFrame \in Frame
  BY DEF NoFrame, Frame
<1>3. instances' = [instances EXCEPT ![i] = new]
  BY DEF Take
<1> HIDE DEF frame, local
<1>4. shown \in Frame
  BY <1>1, <1>2
<1> HIDE DEF shown
<1>5. /\ new \in Instance /\ new.connections = instances[i].connections
      /\ new.acks = instances[i].acks /\ new.latest = instances[i].latest
      /\ new.dead = instances[i].dead
      /\ new.backlog = Tail(instances[i].backlog) /\ new.todo = local /\ new.frame = shown
  BY <1>0, <1>1, <1>2, <1>4 DEF Instance
<1> HIDE DEF new
<1>6. /\ InstancesTyped' /\ instances'[i] = new
      /\ \A j \in Instances \ {i} : instances'[j] = instances[j]
  BY <1>3, <1>5, InstanceBecomes
<1>7. \A j \in Instances : /\ instances'[j].connections = instances[j].connections
                           /\ instances'[j].acks = instances[j].acks
                           /\ instances'[j].latest = instances[j].latest
                           /\ instances'[j].dead = instances[j].dead
  BY <1>5, <1>6
<1> QED
  BY <1>0, <1>1, <1>5, <1>6, <1>7 DEF frame, local, shown

\* Of the game, at most the order changes, and that from kept to lost.
OnlyOrder ==
  /\ GameTyped' /\ game'.version = game.version /\ game'.owner = game.owner
  /\ game'.round = game.round /\ game'.crossed = game.crossed
  /\ game'.order = "kept" => game.order = "kept"

\* One send of a delivery, and after the last the clean-up.
LEMMA SendDoes ==
  ASSUME FanoutTyped, NEW i \in Instances, NEW s \in Sockets, Send(i, s)
  PROVE  /\ InstancesTyped' /\ SocketsTyped' /\ OnlyOrder /\ rolls' = rolls
         /\ \A j \in Instances \ {i} : instances'[j] = instances[j]
         /\ \A j \in Instances : /\ instances'[j].acks = instances[j].acks
                                 /\ instances'[j].latest = instances[j].latest
                                 /\ instances'[j].backlog = instances[j].backlog
         /\ s \in instances[i].todo /\ instances'[i].todo = instances[i].todo \ {s}
         /\ instances[i].todo # {s} => /\ instances'[i].frame = instances[i].frame
                                       /\ instances'[i].connections = instances[i].connections
         /\ instances[i].todo = {s} => instances'[i].frame = NoFrame /\ instances'[i].dead = {}
         /\ \A p \in Players :
              /\ p \in instances'[i].dead =>
                   p \in instances[i].dead \/ (sockets[s].phase # "open" /\ sockets[s].player = p)
              /\ \/ instances'[i].connections[p] = instances[i].connections[p]
                 \/ /\ instances'[i].connections[p] = NoSocket
                    /\ \/ p \in instances[i].dead
                       \/ sockets[s].phase # "open" /\ sockets[s].player = p
         /\ game'.order = "kept" /\ sockets[s].phase = "open" =>
              sockets[s].shows <= instances[i].frame.version
         /\ IF sockets[s].phase = "open"
            THEN Turns(s, "open", sockets[s].doing, sockets[s].roll, sockets[s].sees,
                       instances[i].frame.version)
            ELSE sockets' = sockets
<1> DEFINE here == instances[i]
           failed == sockets[s].phase # "open"
           dead == IF failed THEN here.dead \cup {sockets[s].player} ELSE here.dead
           last == here.todo = {s}
           swept == [here EXCEPT !.todo = {}, !.dead = {}, !.frame = NoFrame,
                                 !.connections = Cleaned(here.connections, dead)]
           sent == [here EXCEPT !.todo = here.todo \ {s}, !.dead = dead]
           shown == [sockets[s] EXCEPT !.shows = here.frame.version]
<1>0. /\ here \in Instance /\ sockets[s] \in Socket /\ here.frame \in Frame
      /\ here.frame.version \in Nat
  BY DEF FanoutTyped, InstancesTyped, SocketsTyped, Instance, Frame
<1>1. /\ s \in here.todo /\ rolls' = rolls
      /\ instances' = [instances EXCEPT ![i] = IF last THEN swept ELSE sent]
      /\ sockets[s].phase = "open" => sockets' = [sockets EXCEPT ![s] = shown]
      /\ sockets[s].phase # "open" => sockets' = sockets
  BY DEF Send, FanoutTyped, SocketsTyped
<1>2. game' = [game EXCEPT !.order =
         IF sockets[s].phase = "open" /\ here.frame.version < sockets[s].shows
         THEN "lost" ELSE @]
  BY DEF Send
<1>3. /\ dead \in SUBSET Players
      /\ \A p \in dead : p \in here.dead \/ (sockets[s].phase # "open" /\ sockets[s].player = p)
  BY <1>0 DEF Instance, Socket
<1>4. /\ Cleaned(here.connections, dead) \in [Players -> Sockets \cup {NoSocket}]
      /\ \A p \in Players : Cleaned(here.connections, dead)[p] =
                              IF p \in dead THEN NoSocket ELSE here.connections[p]
  BY <1>0 DEF Cleaned, Instance
<1> HIDE DEF dead, last
<1>5. /\ OnlyOrder
      /\ game'.order = "kept" =>
           ~(sockets[s].phase = "open" /\ here.frame.version < sockets[s].shows)
  BY <1>2 DEF OnlyOrder, FanoutTyped, GameTyped, Game
<1>6. sockets[s].shows \in Nat
  BY <1>0 DEF Socket
<1>7. IF sockets[s].phase = "open"
      THEN Turns(s, "open", sockets[s].doing, sockets[s].roll, sockets[s].sees,
                 here.frame.version)
      ELSE sockets' = sockets
  <2>1. CASE sockets[s].phase = "open"
    <3>1. /\ shown \in Socket /\ shown.phase = "open" /\ shown.player = sockets[s].player
          /\ shown.at = sockets[s].at /\ shown.doing = sockets[s].doing
          /\ shown.roll = sockets[s].roll
          /\ shown.sees = sockets[s].sees /\ shown.shows = here.frame.version
      BY <1>0, <2>1 DEF Socket
    <3> HIDE DEF shown
    <3> QED
      BY <1>1, <2>1, <3>1, SocketBecomes DEF Turns, FanoutTyped
  <2> QED
    BY <1>1, <2>1
<1>8. SocketsTyped'
  BY <1>7 DEF Turns, FanoutTyped, SocketsTyped
<1>9. game'.order = "kept" /\ sockets[s].phase = "open" =>
        sockets[s].shows <= here.frame.version
  BY <1>0, <1>5, <1>6
<1>10. CASE last
  <2>1. here.todo = {s}
    BY <1>10 DEF last
  <2>2. /\ swept \in Instance /\ swept.acks = here.acks /\ swept.latest = here.latest
        /\ swept.backlog = here.backlog /\ swept.todo = {} /\ swept.frame = NoFrame
        /\ swept.dead = {} /\ swept.connections = Cleaned(here.connections, dead)
    BY <1>0, <1>4 DEF Instance, NoFrame, Frame
  <2>3. instances' = [instances EXCEPT ![i] = swept]
    BY <1>1, <1>10
  <2> HIDE DEF swept
  <2>4. /\ InstancesTyped' /\ instances'[i] = swept
        /\ \A j \in Instances \ {i} : instances'[j] = instances[j]
    BY <2>2, <2>3, InstanceBecomes DEF FanoutTyped
  <2>5. \A p \in Players :
          instances'[i].connections[p] = IF p \in dead THEN NoSocket ELSE here.connections[p]
    BY <1>4, <2>2, <2>4
  <2>6. \A j \in Instances : /\ instances'[j].acks = instances[j].acks
                             /\ instances'[j].latest = instances[j].latest
                             /\ instances'[j].backlog = instances[j].backlog
    BY <2>2, <2>4
  <2>7. instances'[i].todo = {} /\ instances'[i].frame = NoFrame /\ instances'[i].dead = {}
    BY <2>2, <2>4
  <2> QED
    BY <1>1, <1>3, <1>5, <1>7, <1>8, <1>9, <2>1, <2>4, <2>5, <2>6, <2>7
<1>11. CASE ~last
  <2>1. here.todo # {s}
    BY <1>11 DEF last
  <2>2. /\ sent \in Instance /\ sent.acks = here.acks /\ sent.latest = here.latest
        /\ sent.backlog = here.backlog /\ sent.todo = here.todo \ {s} /\ sent.frame = here.frame
        /\ sent.connections = here.connections /\ sent.dead = dead
    BY <1>0, <1>3 DEF Instance
  <2>3. instances' = [instances EXCEPT ![i] = sent]
    BY <1>1, <1>11
  <2> HIDE DEF sent
  <2>4. /\ InstancesTyped' /\ instances'[i] = sent
        /\ \A j \in Instances \ {i} : instances'[j] = instances[j]
    BY <2>2, <2>3, InstanceBecomes DEF FanoutTyped
  <2>5. \A j \in Instances : /\ instances'[j].acks = instances[j].acks
                             /\ instances'[j].latest = instances[j].latest
                             /\ instances'[j].backlog = instances[j].backlog
    BY <2>2, <2>4
  <2> QED
    BY <1>1, <1>3, <1>5, <1>7, <1>8, <1>9, <2>1, <2>2, <2>4, <2>5
<1> QED
  BY <1>10, <1>11

-----------------------------------------------------------------------------
(* What the steps do to a roll.                                            *)

OnlyRoll(r) == \A q \in Rolls \ {r} : rolls'[q] = rolls[q]

LEMMA RollBecomes ==
  ASSUME RollsTyped, NEW r \in Rolls, NEW new \in Delayed,
         rolls' = [rolls EXCEPT ![r] = new]
  PROVE  RollsTyped' /\ OnlyRoll(r) /\ rolls'[r] = new
BY DEF RollsTyped, OnlyRoll

LEMMA PassesDoes ==
  ASSUME RollsTyped, NEW r \in Rolls, NEW from,
         NEW to \in {"waiting", "woken", "reopened", "dealt"}, Passes(r, from, to)
  PROVE  /\ RollsTyped' /\ OnlyRoll(r)
         /\ rolls[r].pc = from /\ rolls'[r].pc = to /\ rolls'[r].by = rolls[r].by
         /\ rolls'[r].sees = rolls[r].sees
<1> DEFINE new == [rolls[r] EXCEPT !.pc = to]
<1>1. rolls[r] \in Delayed /\ rolls' = [rolls EXCEPT ![r] = new] /\ rolls[r].pc = from
  BY DEF RollsTyped, Passes
<1>2. /\ new \in Delayed /\ new.pc = to /\ new.by = rolls[r].by /\ new.sees = rolls[r].sees
  BY <1>1 DEF Delayed
<1> HIDE DEF new
<1> QED
  BY <1>1, <1>2, RollBecomes

\* What an answer says of the order of frames.
LEMMA ReplyOrder ==
  ASSUME FanoutTyped, NEW s \in Sockets, Reply(s)
  PROVE  /\ OnlyOrder
         /\ game'.order = "kept" =>
              /\ sockets[s].phase = "open" => sockets[s].shows <= sockets[s].sees
              /\ sockets[s].roll # "late" => game.owner[sockets[s].player] = s
<1>1. sockets[s].shows \in Nat /\ sockets[s].sees \in Nat
  BY DEF FanoutTyped, SocketsTyped, Socket
<1>2. game' = [game EXCEPT !.order =
        IF \/ sockets[s].phase = "open" /\ sockets[s].sees < sockets[s].shows
           \/ sockets[s].roll # "late" /\ Superseded(s)
        THEN "lost" ELSE @]
  BY DEF Reply
<1>3. /\ OnlyOrder
      /\ game'.order = "kept" =>
           /\ ~(sockets[s].phase = "open" /\ sockets[s].sees < sockets[s].shows)
           /\ ~(sockets[s].roll # "late" /\ Superseded(s))
  BY <1>2 DEF OnlyOrder, FanoutTyped, GameTyped, Game
<1> QED
  BY <1>1, <1>3 DEF Superseded

\* The task of an answered roll is there, unless the roll came too late.
LEMMA ReplyStarts ==
  ASSUME FanoutTyped, NEW s \in Sockets, Reply(s), sockets[s].phase = "open"
  PROVE  /\ RollsTyped'
         /\ \/ sockets[s].roll = "late" /\ rolls' = rolls
            \/ \E r \in Rolls :
                 /\ rolls[r].pc = "none" /\ OnlyRoll(r)
                 /\ rolls'[r].pc = "exists" /\ rolls'[r].by = sockets[s].player
                 /\ rolls'[r].sees = 0
<1>0. sockets[s].player \in Players /\ sockets[s].at \in Instances
  BY DEF FanoutTyped, SocketsTyped, Socket
<1>1. Starts(s)
  BY DEF Reply
<1>2. CASE sockets[s].roll = "late"
  BY <1>1, <1>2 DEF Starts, FanoutTyped, RollsTyped
<1>3. CASE sockets[s].roll # "late"
  <2> DEFINE new == [pc |-> "exists", by |-> sockets[s].player, at |-> sockets[s].at,
                     sees |-> 0, win |-> sockets[s].roll = "won"]
  <2>1. PICK r \in Rolls : rolls[r].pc = "none" /\ rolls' = [rolls EXCEPT ![r] = new]
    BY <1>1, <1>3 DEF Starts
  <2>2. /\ new \in Delayed /\ new.pc = "exists" /\ new.by = sockets[s].player
        /\ new.sees = 0
    BY <1>0 DEF Delayed
  <2> HIDE DEF new
  <2> QED
    BY <2>1, <2>2, RollBecomes DEF FanoutTyped
<1> QED
  BY <1>2, <1>3

LEMMA RegisterDoes ==
  ASSUME FanoutTyped, NEW r \in Rolls, Register(r)
  PROVE  /\ InstancesTyped' /\ OnlyAcks
         /\ \A j \in Instances, q \in Players :
              /\ instances'[j].acks[q] =
                   IF j = HomeOf(r) /\ q = Roller(r) THEN r ELSE instances[j].acks[q]
              /\ instances'[j].latest[q] =
                   IF j = HomeOf(r) /\ q = Roller(r) THEN r ELSE instances[j].latest[q]
<1>1. HomeOf(r) \in Instances /\ Roller(r) \in Players /\ r \in Rolls \cup {NoRoll}
  BY DEF HomeOf, Roller, FanoutTyped, RollsTyped, Delayed
<1>2. instances' = Awaiting(HomeOf(r), Roller(r), r)
  BY DEF Register, Awaiting
<1> QED
  BY <1>1, <1>2, AcksTyped DEF FanoutTyped

LEMMA ReleasedDoes ==
  ASSUME FanoutTyped, NEW r \in Rolls, instances' = Released(r)
  PROVE  /\ InstancesTyped' /\ OnlyAcks
         /\ \A j \in Instances, q \in Players :
              \/ /\ instances'[j].acks[q] = instances[j].acks[q]
                 /\ instances'[j].latest[q] = instances[j].latest[q]
              \/ instances'[j].latest[q] = NoRoll
<1>1. HomeOf(r) \in Instances /\ Roller(r) \in Players /\ NoRoll \in Rolls \cup {NoRoll}
  BY DEF HomeOf, Roller, FanoutTyped, RollsTyped, Delayed
<1>2. CASE instances[HomeOf(r)].acks[Roller(r)] = r
  <2>1. instances' = Awaiting(HomeOf(r), Roller(r), NoRoll)
    BY <1>2 DEF Released, Awaiting
  <2>2. /\ InstancesTyped' /\ OnlyAcks
        /\ \A j \in Instances, q \in Players :
             /\ instances'[j].acks[q] = IF j = HomeOf(r) /\ q = Roller(r) THEN NoRoll
                                        ELSE instances[j].acks[q]
             /\ instances'[j].latest[q] = IF j = HomeOf(r) /\ q = Roller(r) THEN NoRoll
                                          ELSE instances[j].latest[q]
    BY <1>1, <2>1, AcksTyped DEF FanoutTyped
  <2> QED
    BY <2>2
<1>3. CASE instances[HomeOf(r)].acks[Roller(r)] # r
  <2>1. instances' = instances
    BY <1>3 DEF Released
  <2> QED
    BY <2>1 DEF FanoutTyped, InstancesTyped, OnlyAcks
<1> QED
  BY <1>2, <1>3

\* A roll takes its snapshot, that of the roll or of the advance.
LEMMA RollReads ==
  ASSUME FanoutTyped, NEW r \in Rolls, NEW from, NEW to \in {"read", "fresh"},
         Reads(r, from, to)
  PROVE  /\ RollsTyped' /\ OnlyRoll(r)
         /\ rolls[r].pc = from /\ rolls'[r].pc = to /\ rolls'[r].by = rolls[r].by
         /\ rolls'[r].sees = game.version
<1> DEFINE new == [rolls[r] EXCEPT !.pc = to, !.sees = game.version]
<1>1. rolls[r] \in Delayed /\ rolls' = [rolls EXCEPT ![r] = new] /\ rolls[r].pc = from
  BY DEF Reads, FanoutTyped, RollsTyped
<1>2. game.version \in Nat
  BY DEF FanoutTyped, GameTyped, Game
<1>3. /\ new \in Delayed /\ new.pc = to /\ new.by = rolls[r].by /\ new.sees = game.version
  BY <1>1, <1>2 DEF Delayed
<1> HIDE DEF new
<1> QED
  BY <1>1, <1>3, RollBecomes DEF FanoutTyped

LEMMA SpentIs ==
  ASSUME FanoutTyped, NEW r \in Rolls
  PROVE  Spent \in Delayed /\ Spent.pc = "over" /\ Spent.sees = 0
<1>1. rolls[r].by \in Players /\ rolls[r].at \in Instances
  BY DEF FanoutTyped, RollsTyped, Delayed
<1> QED
  BY <1>1, SomebodyIs, SomewhereIs DEF Spent, Delayed

\* A roll publishes what it saw; a win's task goes on.
LEMMA RollPublishes ==
  ASSUME FanoutTyped, NEW r \in Rolls, RollPublish(r) \/ AdvancePublish(r)
  PROVE  /\ RollsTyped' /\ OnlyRoll(r)
         /\ rolls'[r].pc \in {"won", "over"} /\ rolls'[r].sees = 0
         /\ rolls[r].sees \in Nat /\ Roller(r) \in Players
<1>1. rolls[r] \in Delayed
  BY DEF FanoutTyped, RollsTyped
<1>2. rolls[r].sees \in Nat /\ Roller(r) \in Players
  BY <1>1 DEF Delayed, Roller
<1> DEFINE won == [rolls[r] EXCEPT !.pc = "won", !.sees = 0]
<1>3. won \in Delayed /\ won.pc = "won" /\ won.sees = 0
  BY <1>1 DEF Delayed
<1>4. rolls' = [rolls EXCEPT ![r] = won] \/ rolls' = [rolls EXCEPT ![r] = Spent]
  BY DEF RollPublish, AdvancePublish, FanoutTyped, RollsTyped
<1> HIDE DEF won
<1> QED
  BY <1>2, <1>3, <1>4, SpentIs, RollBecomes DEF FanoutTyped

\* What the publishing steps publish.
LEMMA StepsPost ==
  ASSUME FanoutTyped
  PROVE  /\ \A s \in Sockets : HandlerPublish(s) =>
              InstancesTyped' /\ Posted([version |-> sockets[s].sees, exclude |-> {}])
         /\ \A r \in Rolls : RollPublish(r) =>
              InstancesTyped' /\ Posted([version |-> rolls[r].sees, exclude |-> {Roller(r)}])
         /\ \A r \in Rolls : AdvancePublish(r) =>
              InstancesTyped' /\ Posted([version |-> rolls[r].sees, exclude |-> {}])
<1>0. InstancesTyped
  BY DEF FanoutTyped
<1>1. ASSUME NEW s \in Sockets, HandlerPublish(s)
      PROVE  InstancesTyped' /\ Posted([version |-> sockets[s].sees, exclude |-> {}])
  <2>1. sockets[s].sees \in Nat /\ {} \in SUBSET Players
    BY DEF FanoutTyped, SocketsTyped, Socket
  <2>2. Publish(sockets[s].sees, {})
    BY <1>1 DEF HandlerPublish, PublishToAll
  <2> QED
    BY <1>0, <2>1, <2>2, PublishTyped
<1>2. ASSUME NEW r \in Rolls, RollPublish(r)
      PROVE  InstancesTyped' /\ Posted([version |-> rolls[r].sees, exclude |-> {Roller(r)}])
  <2>1. rolls[r].sees \in Nat /\ {Roller(r)} \in SUBSET Players
    BY <1>2, RollPublishes
  <2>2. Publish(rolls[r].sees, {Roller(r)})
    BY <1>2 DEF RollPublish
  <2> QED
    BY <1>0, <2>1, <2>2, PublishTyped
<1>3. ASSUME NEW r \in Rolls, AdvancePublish(r)
      PROVE  InstancesTyped' /\ Posted([version |-> rolls[r].sees, exclude |-> {}])
  <2>1. rolls[r].sees \in Nat /\ {} \in SUBSET Players
    BY <1>3, RollPublishes
  <2>2. Publish(rolls[r].sees, {})
    BY <1>3 DEF AdvancePublish
  <2> QED
    BY <1>0, <2>1, <2>2, PublishTyped
<1> QED
  BY <1>1, <1>2, <1>3

-----------------------------------------------------------------------------

LEMMA Stays ==
  /\ FanoutTyped /\ UNCHANGED game => GameTyped' /\ OnlyOrder
  /\ FanoutTyped /\ UNCHANGED sockets => SocketsTyped'
  /\ FanoutTyped /\ UNCHANGED instances => InstancesTyped' /\ OnlyConnections /\ OnlyAcks
  /\ FanoutTyped /\ UNCHANGED rolls => RollsTyped'
BY DEF FanoutTyped, GameTyped, SocketsTyped, InstancesTyped, RollsTyped, OnlyOrder,
   OnlyConnections, OnlyAcks

LEMMA WriteTyped ==
  ASSUME FanoutTyped, game' = [game EXCEPT !.version = @ + 1]
  PROVE  /\ GameTyped' /\ game'.version = game.version + 1 /\ game'.owner = game.owner
         /\ game'.round = game.round /\ game'.crossed = game.crossed
         /\ game'.order = game.order
BY DEF FanoutTyped, GameTyped, Game

LEMMA ReopenTyped ==
  ASSUME FanoutTyped, game' = [game EXCEPT !.round = "open"]
  PROVE  /\ GameTyped' /\ game'.version = game.version /\ game'.owner = game.owner
         /\ game'.crossed = game.crossed /\ game'.order = game.order
BY DEF FanoutTyped, GameTyped, Game

\* A reconnect on socket s takes the seat of player p.
LEMMA ClaimOwns ==
  ASSUME FanoutTyped, NEW s \in Sockets, NEW p \in Players,
         game' = [game EXCEPT !.version = @ + 1, !.owner[p] = s]
  PROVE  /\ GameTyped' /\ game'.version = game.version + 1
         /\ game'.round = game.round /\ game'.crossed = game.crossed
         /\ game'.order = game.order
         /\ \A q \in Players : game'.owner[q] = IF q = p THEN s ELSE game.owner[q]
<1> DEFINE owner == [game.owner EXCEPT ![p] = s]
<1>1. game \in Game
  BY DEF FanoutTyped, GameTyped
<1>2. /\ owner \in [Players -> Sockets]
      /\ \A q \in Players : owner[q] = IF q = p THEN s ELSE game.owner[q]
  BY <1>1 DEF Game
<1>3. game' = [version |-> game.version + 1, owner |-> owner, round |-> game.round,
               crossed |-> game.crossed, order |-> game.order]
  BY <1>1 DEF Game
<1> HIDE DEF owner
<1> QED
  BY <1>1, <1>2, <1>3 DEF GameTyped, Game

\* What a connection says of its player: it may have crossed an older one.
LEMMA ConnectTyped ==
  ASSUME FanoutTyped, NEW s \in Sockets, Connect(s)
  PROVE  LET p == sockets[s].player
             at == sockets[s].at
         IN  /\ GameTyped' /\ game'.version = game.version /\ game'.owner = game.owner
             /\ game'.round = game.round /\ game'.order = game.order
             /\ \A q \in Players \ {p} : q \in game'.crossed <=> q \in game.crossed
             /\ p \notin game'.crossed =>
                  \/ game.owner[p] = s /\ ~Underway(at, p)
                  \/ /\ game.owner[p] # s /\ sockets[game.owner[p]].at # at
                     /\ p \notin game.crossed
<1> DEFINE p == sockets[s].player
           at == sockets[s].at
           crossed == IF game.owner[p] # s
                      THEN IF sockets[game.owner[p]].at = at THEN game.crossed \cup {p}
                                                            ELSE game.crossed
                      ELSE IF Underway(at, p) THEN game.crossed \cup {p} ELSE game.crossed \ {p}
<1>1. game \in Game /\ game.crossed \in SUBSET Players /\ p \in Players
  BY DEF FanoutTyped, GameTyped, Game, SocketsTyped, Socket
<1>2. game' = [game EXCEPT !.crossed = crossed]
  BY <1>1 DEF Connect, Superseded, Game
<1> HIDE DEF p, at
<1>3. crossed \in SUBSET Players
  BY <1>1
<1>4. /\ \A q \in Players \ {p} : q \in crossed <=> q \in game.crossed
      /\ p \notin crossed =>
           \/ game.owner[p] = s /\ ~Underway(at, p)
           \/ /\ game.owner[p] # s /\ sockets[game.owner[p]].at # at
              /\ p \notin game.crossed
  OBVIOUS
<1> HIDE DEF crossed
<1>5. /\ game' \in Game /\ game'.version = game.version /\ game'.owner = game.owner
      /\ game'.round = game.round /\ game'.order = game.order /\ game'.crossed = crossed
  BY <1>1, <1>2, <1>3 DEF Game
<1> QED
  BY <1>4, <1>5 DEF GameTyped, p, at

\* The parts of the state that a step leaves alone stay well typed.
LEMMA TypesStay ==
  ASSUME FanoutTyped, GameTyped' \/ UNCHANGED game, SocketsTyped' \/ UNCHANGED sockets,
         InstancesTyped' \/ UNCHANGED instances, RollsTyped' \/ UNCHANGED rolls
  PROVE  FanoutTyped'
BY Stays DEF FanoutTyped

LEMMA TypeNext == FanoutTyped /\ FanoutNext => FanoutTyped'
<1> SUFFICES ASSUME FanoutTyped, FanoutNext PROVE FanoutTyped'
  OBVIOUS
<1>0. GameTyped /\ SocketsTyped /\ InstancesTyped /\ RollsTyped
  BY DEF FanoutTyped
<1>1. ASSUME NEW s \in Sockets, HandlerWrites(s) \/ HandlerSnapshot(s) \/ Break(s) \/ Claim(s)
      PROVE  FanoutTyped'
  <2>1. CASE HandlerWrites(s)
    <3>1. SocketsTyped'
      BY <1>0, <2>1, WritesTurns DEF Turns
    <3>2. GameTyped'
      BY <2>1, WriteTyped DEF HandlerWrites, Write
    <3> QED
      BY <2>1, <3>1, <3>2, TypesStay DEF HandlerWrites
  <2>2. CASE HandlerSnapshot(s)
    <3>1. SocketsTyped'
      BY <1>0, <2>2, SnapshotTurns DEF Turns
    <3> QED
      BY <2>2, <3>1, TypesStay DEF HandlerSnapshot
  <2>3. CASE Break(s)
    <3>1. SocketsTyped'
      BY <1>0, <2>3, PlainTurns DEF Turns
    <3> QED
      BY <2>3, <3>1, TypesStay DEF Break
  <2>4. CASE Claim(s)
    <3>1. PICK p \in Players :
            /\ SocketsTyped' /\ game' = [game EXCEPT !.version = @ + 1, !.owner[p] = s]
      BY <1>0, <2>4, ClaimTurns, Zenon
    <3>2. GameTyped'
      BY <3>1, ClaimOwns, Zenon
    <3> QED
      BY <2>4, <3>1, <3>2, TypesStay, Zenon DEF Claim
  <2> QED
    BY <1>1, <2>1, <2>2, <2>3, <2>4
<1>2. ASSUME NEW s \in Sockets, HandlerPublish(s) PROVE FanoutTyped'
  <2>1. SocketsTyped'
    BY <1>0, <1>2, RestTurns DEF HandlerPublish
  <2>2. InstancesTyped'
    BY <1>2, StepsPost
  <2> QED
    BY <1>2, <2>1, <2>2, TypesStay DEF HandlerPublish
<1>3. ASSUME NEW s \in Sockets, Reply(s) PROVE FanoutTyped'
  <2>1. UNCHANGED instances /\ GameTyped'
    BY <1>3, ReplyOrder, Zenon DEF Reply, OnlyOrder
  <2>2. SocketsTyped'
    BY <1>0, <1>3, ReplyTurns DEF Turns
  <2>3. RollsTyped'
    BY <1>0, <1>3, ReplyTurns, ReplyStarts, Stays
  <2> QED
    BY <2>1, <2>2, <2>3, TypesStay
<1>4. ASSUME NEW s \in Sockets, Connect(s) PROVE FanoutTyped'
  <2>1. SocketsTyped' /\ UNCHANGED rolls
    BY <1>0, <1>4, PlainTurns DEF Connect, Turns
  <2>2. sockets[s].at \in Instances /\ sockets[s].player \in Players
    BY <1>0 DEF SocketsTyped, Socket
  <2>3. instances' = Entered(sockets[s].at, sockets[s].player, s)
    BY <1>4 DEF Connect, Entered
  <2>4. InstancesTyped'
    BY <1>0, <2>2, <2>3, EntryTyped
  <2>5. GameTyped'
    BY <1>4, ConnectTyped
  <2> QED
    BY <2>1, <2>4, <2>5, TypesStay
<1>5. ASSUME NEW s \in Sockets, Close(s) PROVE FanoutTyped'
  <2>1. UNCHANGED rolls /\ UNCHANGED game /\ instances' = Unmapped(s)
    BY <1>5 DEF Close
  <2>2. SocketsTyped'
    BY <1>0, <1>5, PlainTurns DEF Turns
  <2>3. InstancesTyped'
    BY <1>0, <2>1, UnmappedTyped
  <2> QED
    BY <2>1, <2>2, <2>3, TypesStay
<1>6. ASSUME NEW s \in Sockets, Mark(s) PROVE FanoutTyped'
  <2>1. UNCHANGED instances /\ UNCHANGED rolls
    BY <1>6 DEF Mark
  <2>2. CASE Does(s, "marking", "wrote") /\ Write
    <3>1. SocketsTyped' /\ GameTyped'
      BY <1>0, <2>2, PlainTurns, WriteTyped DEF Write, Turns
    <3> QED
      BY <2>1, <3>1, TypesStay
  <2>3. CASE sockets' = [sockets EXCEPT ![s] = Rested(s)] /\ UNCHANGED game
    <3>1. SocketsTyped'
      BY <1>0, <2>3, RestTurns
    <3> QED
      BY <2>1, <2>3, <3>1, TypesStay
  <2> QED
    BY <1>6, <2>2, <2>3 DEF Mark
<1>7. ASSUME NEW s \in Sockets, RollDone(s) PROVE FanoutTyped'
  <2>1. PICK r : r # NoRoll /\ Passes(r, "waiting", "woken")
                 /\ r = instances[sockets[s].at].acks[sockets[s].player]
    BY <1>7 DEF RollDone
  <2>2. r \in Rolls
    BY <1>0, <2>1 DEF SocketsTyped, Socket, InstancesTyped, Instance
  <2>3. RollsTyped'
    BY <1>0, <2>1, <2>2, PassesDoes
  <2> QED
    BY <1>7, <2>3, TypesStay DEF RollDone
<1>8. ASSUME NEW r \in Rolls,
             \/ Register(r) \/ AckTimeout(r) \/ RollSnapshot(r) \/ RollPublish(r)
             \/ Reopen(r) \/ Deal(r) \/ AdvanceSnapshot(r) \/ AdvancePublish(r)
      PROVE  FanoutTyped'
  <2>1. CASE Register(r)
    <3>1. RollsTyped'
      BY <1>0, <2>1, PassesDoes DEF Register
    <3>2. InstancesTyped'
      BY <2>1, RegisterDoes
    <3> QED
      BY <2>1, <3>1, <3>2, TypesStay DEF Register
  <2>2. CASE AckTimeout(r)
    <3>1. RollsTyped'
      BY <1>0, <2>2, PassesDoes DEF AckTimeout
    <3> QED
      BY <2>2, <3>1, TypesStay DEF AckTimeout
  <2>3. CASE RollSnapshot(r)
    <3>1. RollsTyped'
      BY <2>3, RollReads DEF RollSnapshot
    <3>2. InstancesTyped'
      BY <2>3, ReleasedDoes DEF RollSnapshot
    <3> QED
      BY <2>3, <3>1, <3>2, TypesStay DEF RollSnapshot
  <2>4. CASE RollPublish(r) \/ AdvancePublish(r)
    <3>1. RollsTyped'
      BY <2>4, RollPublishes
    <3>3. InstancesTyped'
      BY <2>4, StepsPost
    <3>4. UNCHANGED game /\ UNCHANGED sockets
      BY <2>4 DEF RollPublish, AdvancePublish
    <3> QED
      BY <3>1, <3>3, <3>4, TypesStay
  <2>5. CASE Reopen(r)
    <3>1. RollsTyped' /\ GameTyped'
      BY <1>0, <2>5, PassesDoes, ReopenTyped DEF Reopen
    <3> QED
      BY <2>5, <3>1, TypesStay DEF Reopen
  <2>6. CASE Deal(r)
    <3>1. RollsTyped' /\ GameTyped'
      BY <1>0, <2>6, PassesDoes, WriteTyped DEF Deal
    <3> QED
      BY <2>6, <3>1, TypesStay DEF Deal
  <2>7. CASE AdvanceSnapshot(r)
    <3>1. RollsTyped'
      BY <2>7, RollReads DEF AdvanceSnapshot
    <3> QED
      BY <2>7, <3>1, TypesStay DEF AdvanceSnapshot
  <2> QED
    BY <1>8, <2>1, <2>2, <2>3, <2>4, <2>5, <2>6, <2>7
<1>9. ASSUME NEW i \in Instances, Take(i) PROVE FanoutTyped'
  <2>1. InstancesTyped'
    BY <1>0, <1>9, TakeTyped
  <2> QED
    BY <1>9, <2>1, TypesStay DEF Take
<1>10. ASSUME NEW i \in Instances, NEW s \in Sockets, Send(i, s) PROVE FanoutTyped'
  BY <1>0, <1>10, SendDoes, TypesStay DEF OnlyOrder
<1>11. ASSUME NEW s \in Sockets, RollWrites(s) PROVE FanoutTyped'
  BY <1>11, RollWritesDoes, TypesStay DEF RollWrites
<1> QED
  BY <1>1, <1>2, <1>3, <1>4, <1>5, <1>6, <1>7, <1>8, <1>9, <1>10, <1>11 DEF FanoutNext

-----------------------------------------------------------------------------
(* The waits for acknowledgements.                                         *)

\* The wait registered last is the one an acknowledgement ends.
Acked ==
  \A i \in Instances, p \in Players :
    instances[i].latest[p] # NoRoll => instances[i].acks[p] = instances[i].latest[p]

WaitsKept ==
  \A j \in Instances : /\ instances'[j].acks = instances[j].acks
                       /\ instances'[j].latest = instances[j].latest

LEMMA AckedNext == FanoutTyped /\ Acked /\ FanoutNext => Acked'
<1> SUFFICES ASSUME FanoutTyped, Acked, FanoutNext PROVE Acked'
  OBVIOUS
<1>0. GameTyped /\ SocketsTyped /\ InstancesTyped /\ RollsTyped
  BY DEF FanoutTyped
<1>1. WaitsKept => Acked'
  BY DEF WaitsKept, Acked
<1>2. ASSUME NEW s \in Sockets,
             \/ HandlerWrites(s) \/ RollWrites(s) \/ HandlerSnapshot(s) \/ Reply(s)
             \/ Claim(s) \/ Break(s) \/ Mark(s) \/ RollDone(s)
      PROVE  WaitsKept
  <2>1. UNCHANGED instances
    BY <1>2, Zenon
       DEF HandlerWrites, RollWrites, HandlerSnapshot, Reply, Claim, Break, Mark, RollDone
  <2> QED
    BY <2>1 DEF WaitsKept
<1>3. ASSUME NEW s \in Sockets, HandlerPublish(s) PROVE WaitsKept
  BY <1>3, StepsPost DEF Posted, WaitsKept
<1>4. ASSUME NEW s \in Sockets, Connect(s) PROVE WaitsKept
  <2>1. sockets[s].at \in Instances /\ sockets[s].player \in Players
    BY <1>0 DEF SocketsTyped, Socket
  <2>2. instances' = Entered(sockets[s].at, sockets[s].player, s)
    BY <1>4 DEF Connect, Entered
  <2> QED
    BY <1>0, <2>1, <2>2, EntryTyped DEF OnlyConnections, WaitsKept
<1>5. ASSUME NEW s \in Sockets, Close(s) PROVE WaitsKept
  <2>1. instances' = Unmapped(s)
    BY <1>5 DEF Close
  <2> QED
    BY <1>0, <2>1, UnmappedTyped DEF OnlyConnections, WaitsKept
<1>6. ASSUME NEW r \in Rolls, Register(r) PROVE Acked'
  BY <1>6, RegisterDoes DEF Acked
<1>7. ASSUME NEW r \in Rolls,
             \/ AckTimeout(r) \/ RollPublish(r) \/ AdvancePublish(r)
             \/ Reopen(r) \/ Deal(r) \/ AdvanceSnapshot(r)
      PROVE  WaitsKept
  <2>1. CASE RollPublish(r) \/ AdvancePublish(r)
    BY <2>1, StepsPost DEF Posted, WaitsKept
  <2> QED
    BY <1>7, <2>1 DEF AckTimeout, Reopen, Deal, AdvanceSnapshot, WaitsKept
<1>8. ASSUME NEW r \in Rolls, RollSnapshot(r) PROVE Acked'
  <2>1. \A j \in Instances, q \in Players :
           \/ /\ instances'[j].acks[q] = instances[j].acks[q]
              /\ instances'[j].latest[q] = instances[j].latest[q]
           \/ instances'[j].latest[q] = NoRoll
    BY <1>8, ReleasedDoes DEF RollSnapshot
  <2> QED
    BY <2>1 DEF Acked
<1>9. ASSUME NEW i \in Instances, Take(i) PROVE WaitsKept
  BY <1>0, <1>9, TakeTyped DEF WaitsKept
<1>10. ASSUME NEW i \in Instances, NEW s \in Sockets, Send(i, s) PROVE WaitsKept
  BY <1>10, SendDoes DEF WaitsKept
<1> QED
  BY <1>1, <1>2, <1>3, <1>4, <1>5, <1>6, <1>7, <1>8, <1>9, <1>10 DEF FanoutNext

-----------------------------------------------------------------------------
(* Who is in the connections.                                              *)

\* An entry is that of a live socket of the player, on this instance, that has got past its
\* claim.
Mapped ==
  \A i \in Instances, p \in Players :
    LET t == instances[i].connections[p]
    IN  t # NoSocket => /\ sockets[t].player = p /\ sockets[t].at = i
                        /\ sockets[t].phase \in {"open", "broken"}
                        /\ sockets[t].doing # "claimed"

OwnerIs ==
  \A p \in Players : /\ sockets[game.owner[p]].player = p
                     /\ sockets[game.owner[p]].phase # "none"

Claiming == \A s \in Sockets : sockets[s].doing = "claimed" => Serving(s)

\* No delivery holds anything against a player's newest socket, if it has got past its claim
\* and has not crossed an older one.
Spared ==
  \A p \in Players \ game.crossed :
    LET s == game.owner[p]
        here == instances[sockets[s].at]
    IN  sockets[s].phase = "open" /\ sockets[s].doing # "claimed"
          => p \notin here.dead /\ \A t \in here.todo : sockets[t].player = p => t = s

\* Between deliveries nobody is to be cleaned up.
NoneDead == \A i \in Instances : instances[i].todo = {} => instances[i].dead = {}

Seated == Mapped /\ OwnerIs /\ Claiming /\ Reachable /\ Spared /\ NoneDead

\* Sockets are who and where they were, none is new, and none gets past its claim.
Same ==
  /\ SocketsTyped' /\ game'.owner = game.owner /\ game'.crossed = game.crossed
  /\ \A t \in Sockets :
       /\ sockets'[t].player = sockets[t].player
       /\ sockets'[t].phase = "none" <=> sockets[t].phase = "none"
       /\ sockets'[t].phase = "open" => sockets[t].phase = "open"
       /\ sockets[t].phase # "closed" => sockets'[t].at = sockets[t].at
       /\ sockets'[t].doing = "claimed" <=> sockets[t].doing = "claimed"
       /\ sockets[t].doing = "claimed" /\ sockets[t].phase \in {"open", "broken"}
            => sockets'[t].phase \in {"open", "broken"}

\* An entry stays with its live socket, or goes.
Thinned ==
  \A i \in Instances, p \in Players :
    LET t == instances[i].connections[p]
    IN  \/ /\ instances'[i].connections[p] = t
           /\ t \in Sockets /\ sockets[t].phase \in {"open", "broken"}
                => sockets'[t].phase \in {"open", "broken"}
        \/ instances'[i].connections[p] = NoSocket

\* It goes only if its socket is not open.
OpenStay ==
  \A i \in Instances, p \in Players :
    LET t == instances[i].connections[p]
    IN  \/ instances'[i].connections[p] = t
        \/ t = NoSocket \/ sockets'[t].phase # "open"

NoDelivery ==
  \A i \in Instances : /\ instances'[i].todo = instances[i].todo
                       /\ instances'[i].dead = instances[i].dead

Steady == Same /\ Thinned /\ OpenStay

LEMMA SameMapped ==
  ASSUME FanoutTyped, Mapped, OwnerIs, Claiming, Same, Thinned
  PROVE  Mapped' /\ OwnerIs' /\ Claiming'
<1>1. \A p \in Players : game.owner[p] \in Sockets
  BY DEF FanoutTyped, GameTyped, Game
<1>2. \A i \in Instances, p \in Players : instances[i].connections[p] \in Sockets \cup {NoSocket}
  BY DEF FanoutTyped, InstancesTyped, Instance
<1>3. OwnerIs'
  BY <1>1 DEF OwnerIs, Same
<1>4. Claiming'
  BY DEF Claiming, Serving, Same
<1>5. Mapped'
  <2>1. ASSUME NEW i \in Instances, NEW p \in Players, NEW t, t # NoSocket,
               instances'[i].connections[p] = t
        PROVE  /\ sockets'[t].player = p /\ sockets'[t].at = i
               /\ sockets'[t].phase \in {"open", "broken"} /\ sockets'[t].doing # "claimed"
    <3>1. instances[i].connections[p] = t /\ t \in Sockets
      BY <1>2, <2>1 DEF Thinned
    <3>2. /\ sockets[t].player = p /\ sockets[t].at = i
          /\ sockets[t].phase \in {"open", "broken"} /\ sockets[t].doing # "claimed"
          /\ sockets[t].phase # "closed"
      BY <2>1, <3>1 DEF Mapped
    <3>3. sockets'[t].phase \in {"open", "broken"}
      BY <2>1, <3>1, <3>2 DEF Thinned
    <3> QED
      BY <3>1, <3>2, <3>3 DEF Same
  <2> QED
    BY <2>1 DEF Mapped
<1> QED
  BY <1>3, <1>4, <1>5

\* What is so of a seat's open socket after such a step was so before.
LEMMA SameSeat ==
  ASSUME FanoutTyped, Same, NEW p \in Players \ game'.crossed, NEW s, s = game'.owner[p],
         sockets'[s].phase = "open", sockets'[s].doing # "claimed"
  PROVE  /\ p \in Players \ game.crossed
         /\ s = game.owner[p] /\ s \in Sockets /\ s # NoSocket
         /\ sockets[s].phase = "open" /\ sockets[s].doing # "claimed"
         /\ sockets'[s].at = sockets[s].at /\ sockets[s].at \in Instances
<1>1. s = game.owner[p] /\ s \in Sockets /\ p \in Players \ game.crossed
  BY DEF Same, FanoutTyped, GameTyped, Game
<1>2. s # NoSocket
  BY <1>1 DEF NoSocket, Sockets
<1>3. sockets[s].phase = "open" /\ sockets[s].doing # "claimed"
  BY <1>1 DEF Same
<1>4. sockets'[s].at = sockets[s].at
  BY <1>1, <1>3 DEF Same
<1>5. sockets[s].at \in Instances
  BY <1>1 DEF FanoutTyped, SocketsTyped, Socket
<1> QED
  BY <1>1, <1>2, <1>3, <1>4, <1>5

LEMMA SteadyReaches ==
  ASSUME FanoutTyped, Reachable, Same, OpenStay
  PROVE  Reachable'
<1>1. ASSUME NEW p \in Players \ game'.crossed, NEW s, s = game'.owner[p],
             sockets'[s].phase = "open", sockets'[s].doing # "claimed"
      PROVE  instances'[sockets'[s].at].connections[p] = s
  <2>1. /\ p \in Players \ game.crossed
        /\ s = game.owner[p] /\ s # NoSocket
        /\ sockets[s].phase = "open" /\ sockets[s].doing # "claimed"
        /\ sockets'[s].at = sockets[s].at /\ sockets[s].at \in Instances
    BY <1>1, SameSeat
  <2>2. instances[sockets[s].at].connections[p] = s
    BY <2>1 DEF Reachable
  <2> QED
    BY <1>1, <2>1, <2>2 DEF OpenStay
<1> QED
  BY <1>1 DEF Reachable

LEMMA SteadySpares ==
  ASSUME FanoutTyped, Spared, NoneDead, Same, NoDelivery
  PROVE  Spared' /\ NoneDead'
<1>1. ASSUME NEW p \in Players \ game'.crossed, NEW s, s = game'.owner[p],
             sockets'[s].phase = "open", sockets'[s].doing # "claimed"
      PROVE  /\ p \notin instances'[sockets'[s].at].dead
             /\ \A t \in instances'[sockets'[s].at].todo : sockets'[t].player = p => t = s
  <2>1. /\ p \in Players \ game.crossed
        /\ s = game.owner[p]
        /\ sockets[s].phase = "open" /\ sockets[s].doing # "claimed"
        /\ sockets'[s].at = sockets[s].at /\ sockets[s].at \in Instances
    BY <1>1, SameSeat
  <2> DEFINE i == sockets[s].at
  <2>2. /\ p \notin instances[i].dead
        /\ \A t \in instances[i].todo : sockets[t].player = p => t = s
    BY <2>1 DEF Spared
  <2>3. /\ instances'[i].todo = instances[i].todo /\ instances'[i].dead = instances[i].dead
        /\ instances[i].todo \subseteq Sockets
    BY <2>1 DEF NoDelivery, FanoutTyped, InstancesTyped, Instance
  <2>4. \A t \in Sockets : sockets'[t].player = sockets[t].player
    BY DEF Same
  <2> QED
    BY <2>1, <2>2, <2>3, <2>4
<1>2. NoneDead'
  BY DEF NoneDead, NoDelivery
<1> QED
  BY <1>1, <1>2 DEF Spared

LEMMA SteadySeats ==
  ASSUME FanoutTyped, Seated, Steady, NoDelivery
  PROVE  Seated'
BY SameMapped, SteadyReaches, SteadySpares DEF Seated, Steady

\* The seats are whose they were.
SeatsStay == game'.owner = game.owner /\ game'.crossed = game.crossed

\* The connections are as they were, and the deliveries.
Calm ==
  \A i \in Instances : /\ instances'[i].connections = instances[i].connections
                       /\ instances'[i].todo = instances[i].todo
                       /\ instances'[i].dead = instances[i].dead

\* A step of a socket that stays alive, with the connections left alone.
LEMMA TurnsSteady ==
  ASSUME FanoutTyped, NEW s \in Sockets,
         NEW phase, NEW doing, NEW roll, NEW sees, NEW shows,
         Turns(s, phase, doing, roll, sees, shows), SeatsStay, Calm,
         phase = sockets[s].phase \/ (phase = "broken" /\ sockets[s].phase = "open"),
         doing = "claimed" <=> sockets[s].doing = "claimed"
  PROVE  Steady /\ NoDelivery
<1>1. Same
  BY DEF Turns, Only, Same, SeatsStay
<1>2. \A t \in Sockets : sockets[t].phase \in {"open", "broken"}
                           => sockets'[t].phase \in {"open", "broken"}
  BY DEF Turns, Only
<1> QED
  BY <1>1, <1>2 DEF Steady, Thinned, OpenStay, NoDelivery, Calm

\* A step that leaves the sockets alone.
LEMMA CalmSteady ==
  ASSUME FanoutTyped, UNCHANGED sockets, SeatsStay, Calm
  PROVE  Steady /\ NoDelivery
BY DEF FanoutTyped, SocketsTyped, Steady, Same, Thinned, OpenStay, NoDelivery, SeatsStay, Calm

LEMMA Unmoved ==
  /\ UNCHANGED instances => Calm
  /\ UNCHANGED game => SeatsStay
  /\ FanoutTyped /\ Write => SeatsStay
  /\ \A f : Posted(f) => Calm
  /\ OnlyAcks => Calm
<1>1. FanoutTyped /\ Write => SeatsStay
  BY WriteTyped DEF Write, SeatsStay
<1> QED
  BY <1>1 DEF Calm, SeatsStay, Posted, OnlyAcks

\* The handlers' steps but a claim and a connect.
LEMMA HandlersSteady ==
  ASSUME FanoutTyped, Seated, NEW s \in Sockets,
         \/ HandlerWrites(s) \/ RollWrites(s) \/ HandlerSnapshot(s) \/ HandlerPublish(s)
         \/ Reply(s) \/ Break(s) \/ Close(s) \/ Mark(s) \/ RollDone(s)
  PROVE  Steady /\ NoDelivery
<1>0. GameTyped /\ SocketsTyped /\ InstancesTyped /\ RollsTyped
  BY DEF FanoutTyped
<1>1. CASE HandlerWrites(s)
  <2>1. /\ Turns(s, sockets[s].phase, "wrote", sockets[s].roll, sockets[s].sees,
                 sockets[s].shows)
        /\ sockets[s].doing = "idle" /\ SeatsStay /\ Calm
    BY <1>0, <1>1, WritesTurns, Unmoved DEF HandlerWrites, Does
  <2> QED
    BY <2>1, TurnsSteady
<1>2. CASE HandlerSnapshot(s)
  <2>1. Turns(s, sockets[s].phase, "read", sockets[s].roll, game.version, sockets[s].shows)
    BY <1>0, <1>2, SnapshotTurns
  <2>2. sockets[s].doing = "wrote" /\ UNCHANGED <<game, instances>>
    BY <1>2, Zenon DEF HandlerSnapshot
  <2> QED
    BY <2>1, <2>2, TurnsSteady, Unmoved
<1>3. ASSUME sockets' = [sockets EXCEPT ![s] = Rested(s)], sockets[s].doing # "claimed",
             SeatsStay, Calm
      PROVE  Steady /\ NoDelivery
  <2>1. /\ SocketsTyped' /\ Only(s)
        /\ sockets'[s].player = sockets[s].player
        /\ sockets[s].phase # "closed" => sockets'[s].at = sockets[s].at
        /\ sockets'[s].phase = sockets[s].phase /\ sockets'[s].doing = "idle"
    BY <1>0, <1>3, RestTurns
  <2>2. Same
    BY <1>3, <2>1 DEF Same, SeatsStay, Only
  <2>3. \A t \in Sockets : sockets'[t].phase = sockets[t].phase
    BY <2>1 DEF Only
  <2> QED
    BY <1>3, <2>2, <2>3 DEF Steady, Thinned, OpenStay, NoDelivery, Calm
<1>4. CASE HandlerPublish(s)
  BY <1>3, <1>4, StepsPost, Unmoved DEF HandlerPublish
<1>5. CASE Reply(s)
  <2>1. sockets[s].doing = "read" /\ Calm
    BY <1>5, Unmoved DEF Reply
  <2>2. SeatsStay
    BY <1>5, ReplyOrder DEF OnlyOrder, SeatsStay
  <2>3. \/ Turns(s, "open", "idle", "none", 0, sockets[s].sees) /\ sockets[s].phase = "open"
        \/ Turns(s, "broken", "closing", "none", 0, sockets[s].shows)
           /\ sockets[s].phase = "broken"
    BY <1>0, <1>5, ReplyTurns
  <2> QED
    BY <2>1, <2>2, <2>3, TurnsSteady
<1>6. CASE Break(s)
  <2>1. Turns(s, "broken", sockets[s].doing, sockets[s].roll, sockets[s].sees, 0)
    BY <1>0, <1>6, PlainTurns
  <2>2. sockets[s].phase = "open" /\ UNCHANGED <<game, instances>>
    BY <1>6, Zenon DEF Break
  <2> QED
    BY <2>1, <2>2, TurnsSteady, Unmoved
<1>7. CASE Close(s)
  <2>0. Turns(s, "closed", "marking", sockets[s].roll, sockets[s].sees, 0)
    BY <1>0, <1>7, PlainTurns
  <2>1. /\ sockets[s].phase \in {"open", "broken"}
        /\ sockets[s].doing # "claimed" /\ instances' = Unmapped(s)
        /\ game'.owner = game.owner /\ game'.crossed = game.crossed
    BY <1>7 DEF Close, Serving
  <2>2. Same
    <3>1. ASSUME NEW t \in Sockets
          PROVE  /\ sockets'[t].player = sockets[t].player
                 /\ sockets'[t].phase = "none" <=> sockets[t].phase = "none"
                 /\ sockets'[t].phase = "open" => sockets[t].phase = "open"
                 /\ sockets'[t].at = sockets[t].at
                 /\ sockets'[t].doing = "claimed" <=> sockets[t].doing = "claimed"
                 /\ sockets[t].doing # "claimed" \/ sockets'[t] = sockets[t]
      BY <2>0, <2>1 DEF Turns, Only
    <3>2. SocketsTyped'
      BY <2>0 DEF Turns
    <3> QED
      BY <2>1, <3>1, <3>2 DEF Same
  <2>3. /\ OnlyConnections
        /\ \A j \in Instances, q \in Players :
             \/ instances'[j].connections[q] = instances[j].connections[q]
             \/ /\ instances'[j].connections[q] = NoSocket
                /\ instances[j].connections[q] = s
        /\ instances'[sockets[s].at].connections[sockets[s].player] # s
    BY <1>0, <2>1, UnmappedTyped
  <2>4. ASSUME NEW j \in Instances, NEW q \in Players, instances[j].connections[q] = s
        PROVE  instances'[j].connections[q] = NoSocket
    <3>1. s # NoSocket
      BY DEF Sockets, NoSocket
    <3>2. sockets[s].player = q /\ sockets[s].at = j
      BY <2>4, <3>1 DEF Seated, Mapped
    <3> QED
      BY <2>3, <2>4, <3>2
  <2>5. /\ sockets'[s].phase = "closed"
        /\ \A t \in Sockets \ {s} : sockets'[t] = sockets[t]
    BY <2>0 DEF Turns, Only
  <2>6. Thinned
    BY <2>3, <2>4, <2>5 DEF Thinned
  <2>7. OpenStay
    BY <2>3, <2>5 DEF OpenStay
  <2>8. NoDelivery
    BY <2>3 DEF OnlyConnections, NoDelivery
  <2> QED
    BY <2>2, <2>6, <2>7, <2>8 DEF Steady
<1>8. CASE Mark(s)
  <2>1. Calm /\ sockets[s].doing = "marking" /\ SeatsStay
    BY <1>8, Unmoved DEF Mark, Does
  <2>2. CASE Does(s, "marking", "wrote")
    <3>1. Turns(s, sockets[s].phase, "wrote", sockets[s].roll, sockets[s].sees,
                sockets[s].shows)
      BY <1>0, <2>2, PlainTurns
    <3> QED
      BY <2>1, <3>1, TurnsSteady
  <2>3. CASE sockets' = [sockets EXCEPT ![s] = Rested(s)]
    BY <1>3, <2>1, <2>3
  <2> QED
    BY <1>8, <2>2, <2>3 DEF Mark
<1>9. CASE RollDone(s)
  BY <1>9, CalmSteady, Unmoved DEF RollDone
<1>10. CASE RollWrites(s)
  <2>1. SeatsStay /\ Calm
    BY <1>10, RollWritesDoes, Unmoved DEF RollWrites, SeatsStay
  <2>2. /\ SocketsTyped' /\ sockets[s].doing # "claimed" /\ sockets'[s].doing # "claimed"
        /\ \A t \in Sockets :
             /\ sockets'[t].phase = sockets[t].phase
             /\ sockets'[t].player = sockets[t].player /\ sockets'[t].at = sockets[t].at
        /\ \A t \in Sockets \ {s} :
             sockets'[t].doing = "claimed" <=> sockets[t].doing = "claimed"
    BY <1>10, RollWritesDoes
  <2>3. Same
    BY <2>1, <2>2 DEF Same, SeatsStay
  <2> QED
    BY <2>1, <2>2, <2>3 DEF Steady, Thinned, OpenStay, NoDelivery, Calm
<1> QED
  BY <1>1, <1>2, <1>4, <1>5, <1>6, <1>7, <1>8, <1>9, <1>10

\* The rolls' steps.
LEMMA RollsSteady ==
  ASSUME FanoutTyped, NEW r \in Rolls,
         \/ Register(r) \/ AckTimeout(r) \/ RollSnapshot(r) \/ RollPublish(r)
         \/ Reopen(r) \/ Deal(r) \/ AdvanceSnapshot(r) \/ AdvancePublish(r)
  PROVE  Steady /\ NoDelivery
<1>1. UNCHANGED sockets
  BY DEF Register, AckTimeout, RollSnapshot, RollPublish, Reopen, Deal, AdvanceSnapshot,
         AdvancePublish
<1>2. SeatsStay
  <2>1. CASE Reopen(r)
    BY <2>1, ReopenTyped DEF Reopen, SeatsStay
  <2>2. CASE Deal(r)
    BY <2>2, WriteTyped DEF Deal, SeatsStay
  <2>3. CASE ~Reopen(r) /\ ~Deal(r)
    BY <2>3, Unmoved DEF Register, AckTimeout, RollSnapshot, RollPublish, AdvanceSnapshot,
                         AdvancePublish
  <2> QED
    BY <2>1, <2>2, <2>3
<1>3. Calm
  <2>1. CASE Register(r) \/ RollSnapshot(r)
    BY <2>1, RegisterDoes, ReleasedDoes, Unmoved DEF RollSnapshot
  <2>2. CASE RollPublish(r) \/ AdvancePublish(r)
    BY <2>2, StepsPost, Unmoved
  <2>3. CASE AckTimeout(r) \/ Reopen(r) \/ Deal(r) \/ AdvanceSnapshot(r)
    BY <2>3, Unmoved DEF AckTimeout, Reopen, Deal, AdvanceSnapshot
  <2> QED
    BY <2>1, <2>2, <2>3
<1> QED
  BY <1>1, <1>2, <1>3, CalmSteady

\* A delivery begins, to those in the connections.
LEMMA TakeSeats ==
  ASSUME FanoutTyped, Seated, NEW i \in Instances, Take(i)
  PROVE  Seated'
<1>0. InstancesTyped /\ SocketsTyped
  BY DEF FanoutTyped
<1>1. UNCHANGED sockets /\ UNCHANGED game /\ instances[i].todo = {}
  BY DEF Take
<1>2. /\ \A j \in Instances : /\ instances'[j].connections = instances[j].connections
                              /\ instances'[j].dead = instances[j].dead
      /\ \A t \in instances'[i].todo :
           t \in Sockets /\ \E p \in Players : instances[i].connections[p] = t
      /\ \A j \in Instances \ {i} : instances'[j] = instances[j]
  BY <1>0, TakeTyped
<1>3. Same /\ Thinned /\ OpenStay
  BY <1>0, <1>1, <1>2 DEF Same, Thinned, OpenStay, SocketsTyped
<1>4. instances[i].dead = {}
  BY <1>1 DEF Seated, NoneDead
<1>5. Spared'
  <2>1. ASSUME NEW p \in Players \ game'.crossed, NEW s, s = game'.owner[p],
               sockets'[s].phase = "open", sockets'[s].doing # "claimed"
        PROVE  /\ p \notin instances'[sockets'[s].at].dead
               /\ \A t \in instances'[sockets'[s].at].todo : sockets'[t].player = p => t = s
    <3>1. /\ p \in Players \ game.crossed
          /\ s = game.owner[p] /\ s # NoSocket
          /\ sockets[s].phase = "open" /\ sockets[s].doing # "claimed"
          /\ sockets'[s].at = sockets[s].at /\ sockets[s].at \in Instances
      BY <1>3, <2>1, SameSeat
    <3>2. CASE sockets[s].at # i
      BY <1>1, <1>2, <3>1, <3>2 DEF Seated, Spared
    <3>3. CASE sockets[s].at = i
      <4>1. instances[i].connections[p] = s
        BY <3>1, <3>3 DEF Seated, Reachable
      <4>2. ASSUME NEW t \in instances'[i].todo, sockets[t].player = p PROVE t = s
        <5>1. PICK q \in Players : instances[i].connections[q] = t
          BY <1>2
        <5>2. t # NoSocket
          BY <1>2 DEF Sockets, NoSocket
        <5>3. sockets[t].player = q
          BY <5>1, <5>2 DEF Seated, Mapped
        <5> QED
          BY <4>1, <4>2, <5>1, <5>3
      <4> QED
        BY <1>1, <1>2, <1>4, <3>1, <3>3, <4>2
    <3> QED
      BY <3>2, <3>3
  <2> QED
    BY <2>1 DEF Spared
<1>6. NoneDead'
  BY <1>2, <1>4 DEF Seated, NoneDead
<1> QED
  BY <1>3, <1>5, <1>6, SameMapped, SteadyReaches DEF Seated

\* A send, and after the last the clean-up, which finds nothing against a newest socket that
\* has not crossed an older one.
LEMMA SendSeats ==
  ASSUME FanoutTyped, Seated, NEW i \in Instances, NEW t \in Sockets, Send(i, t)
  PROVE  Seated'
<1>0. SocketsTyped
  BY DEF FanoutTyped
<1>1. /\ SocketsTyped' /\ OnlyOrder
      /\ \A j \in Instances \ {i} : instances'[j] = instances[j]
      /\ t \in instances[i].todo /\ instances'[i].todo = instances[i].todo \ {t}
      /\ instances[i].todo = {t} => instances'[i].dead = {}
      /\ \A p \in Players :
           /\ p \in instances'[i].dead =>
                p \in instances[i].dead \/ (sockets[t].phase # "open" /\ sockets[t].player = p)
           /\ \/ instances'[i].connections[p] = instances[i].connections[p]
              \/ /\ instances'[i].connections[p] = NoSocket
                 /\ \/ p \in instances[i].dead
                    \/ sockets[t].phase # "open" /\ sockets[t].player = p
  BY SendDoes
<1>2. IF sockets[t].phase = "open"
      THEN Turns(t, "open", sockets[t].doing, sockets[t].roll, sockets[t].sees,
                 instances[i].frame.version)
      ELSE sockets' = sockets
  BY SendDoes
<1>3. \A u \in Sockets : /\ sockets'[u].phase = sockets[u].phase
                         /\ sockets'[u].player = sockets[u].player
                         /\ sockets'[u].at = sockets[u].at
                         /\ sockets'[u].doing = sockets[u].doing
  BY <1>2 DEF Turns, Only
<1>4. Same
  BY <1>1, <1>3 DEF Same, OnlyOrder
<1>5. Thinned
  BY <1>1, <1>3 DEF Thinned
<1>6. ASSUME NEW p \in Players \ game'.crossed, NEW s, s = game'.owner[p],
             sockets'[s].phase = "open", sockets'[s].doing # "claimed"
      PROVE  /\ instances'[sockets'[s].at].connections[p] = s
             /\ p \notin instances'[sockets'[s].at].dead
             /\ \A u \in instances'[sockets'[s].at].todo : sockets'[u].player = p => u = s
  <2>1. /\ p \in Players \ game.crossed
        /\ s = game.owner[p] /\ s \in Sockets
        /\ sockets[s].phase = "open" /\ sockets[s].doing # "claimed"
        /\ sockets'[s].at = sockets[s].at /\ sockets[s].at \in Instances
    BY <1>4, <1>6, SameSeat
  <2>2. instances[sockets[s].at].connections[p] = s
    BY <2>1 DEF Seated, Reachable
  <2>3. /\ p \notin instances[sockets[s].at].dead
        /\ \A u \in instances[sockets[s].at].todo : sockets[u].player = p => u = s
    BY <2>1 DEF Seated, Spared
  <2>4. instances[sockets[s].at].todo \subseteq Sockets
    BY <2>1 DEF FanoutTyped, InstancesTyped, Instance
  <2>5. CASE sockets[s].at # i
    <3>1. instances'[sockets[s].at] = instances[sockets[s].at]
      BY <1>1, <2>1, <2>5
    <3>2. \A u \in Sockets : sockets'[u].player = sockets[u].player
      BY <1>3
    <3> QED
      BY <2>1, <2>2, <2>3, <2>4, <3>1, <3>2
  <2>6. CASE sockets[s].at = i
    <3>1. ~(sockets[t].phase # "open" /\ sockets[t].player = p)
      BY <1>1, <2>1, <2>3, <2>6
    <3> QED
      BY <1>1, <1>3, <2>1, <2>2, <2>3, <2>4, <2>6, <3>1
  <2> QED
    BY <2>5, <2>6
<1>7. Reachable' /\ Spared'
  BY <1>6 DEF Reachable, Spared
<1>8. NoneDead'
  BY <1>1 DEF Seated, NoneDead
<1> QED
  BY <1>4, <1>5, <1>7, <1>8, SameMapped DEF Seated

\* A new socket takes its player's seat, and is reachable once it is past its claim.
LEMMA ClaimSeats ==
  ASSUME FanoutTyped, Seated, NEW s \in Sockets, Claim(s)
  PROVE  Seated'
<1>0. GameTyped /\ SocketsTyped /\ InstancesTyped
  BY DEF FanoutTyped
<1>1. sockets[s].phase = "none" /\ instances' = instances
  BY DEF Claim
<1>2. PICK p \in Players :
        /\ SocketsTyped' /\ Only(s)
        /\ sockets'[s].player = p /\ sockets'[s].phase = "open" /\ sockets'[s].doing = "claimed"
        /\ game' = [game EXCEPT !.version = @ + 1, !.owner[p] = s]
  BY <1>0, ClaimTurns, Zenon
<1>3. /\ \A q \in Players : game'.owner[q] = IF q = p THEN s ELSE game.owner[q]
      /\ game'.crossed = game.crossed
  BY <1>2, ClaimOwns, Zenon
<1>4. \A q \in Players : game.owner[q] \in Sockets /\ game.owner[q] # s
  BY <1>0, <1>1 DEF GameTyped, Game, Seated, OwnerIs
<1>5. OwnerIs'
  <2>1. ASSUME NEW q \in Players
        PROVE  /\ sockets'[game'.owner[q]].player = q
               /\ sockets'[game'.owner[q]].phase # "none"
    <3>1. CASE q = p
      <4>1. game'.owner[q] = s
        BY <1>3, <3>1
      <4> QED
        BY <1>2, <3>1, <4>1
    <3>2. CASE q # p
      <4>1. game'.owner[q] = game.owner[q] /\ sockets'[game.owner[q]] = sockets[game.owner[q]]
        BY <1>2, <1>3, <1>4, <3>2 DEF Only
      <4> QED
        BY <4>1 DEF Seated, OwnerIs
    <3> QED
      BY <3>1, <3>2
  <2> QED
    BY <2>1 DEF OwnerIs
<1>6. Claiming'
  BY <1>2 DEF Seated, Claiming, Serving, Only
<1>7. Mapped'
  <2>1. ASSUME NEW i \in Instances, NEW q \in Players, NEW t, t # NoSocket,
               instances'[i].connections[q] = t
        PROVE  /\ sockets'[t].player = q /\ sockets'[t].at = i
               /\ sockets'[t].phase \in {"open", "broken"} /\ sockets'[t].doing # "claimed"
    <3>1. t \in Sockets
      BY <1>0, <1>1, <2>1 DEF InstancesTyped, Instance
    <3>2. /\ sockets[t].player = q /\ sockets[t].at = i
          /\ sockets[t].phase \in {"open", "broken"} /\ sockets[t].doing # "claimed"
      BY <1>1, <2>1 DEF Seated, Mapped
    <3>3. t # s
      BY <1>1, <3>2
    <3> QED
      BY <1>2, <3>1, <3>2, <3>3 DEF Only
  <2> QED
    BY <2>1 DEF Mapped
<1>8. ASSUME NEW q \in Players \ game'.crossed, NEW t, t = game'.owner[q],
             sockets'[t].phase = "open", sockets'[t].doing # "claimed"
      PROVE  /\ q # p /\ q \in Players \ game.crossed
             /\ t = game.owner[q] /\ t \in Sockets /\ sockets'[t] = sockets[t]
             /\ sockets[t].at \in Instances
  <2>1. q # p /\ q \in Players \ game.crossed /\ t = game.owner[q] /\ t \in Sockets /\ t # s
    BY <1>2, <1>3, <1>4, <1>8
  <2>2. sockets'[t] = sockets[t]
    BY <1>2, <2>1 DEF Only
  <2> QED
    BY <1>0, <2>1, <2>2 DEF SocketsTyped, Socket
<1>9. Reachable'
  BY <1>1, <1>8 DEF Seated, Reachable
<1>10. Spared'
  <2>1. ASSUME NEW q \in Players \ game'.crossed, NEW t, t = game'.owner[q],
               sockets'[t].phase = "open", sockets'[t].doing # "claimed"
        PROVE  /\ q \notin instances'[sockets'[t].at].dead
               /\ \A u \in instances'[sockets'[t].at].todo : sockets'[u].player = q => u = t
    <3>1. /\ q # p /\ q \in Players \ game.crossed
          /\ t = game.owner[q] /\ sockets'[t] = sockets[t] /\ sockets[t].at \in Instances
      BY <1>8, <2>1
    <3>2. /\ q \notin instances[sockets[t].at].dead
          /\ \A u \in instances[sockets[t].at].todo : sockets[u].player = q => u = t
      BY <2>1, <3>1 DEF Seated, Spared
    <3>3. instances[sockets[t].at].todo \subseteq Sockets
      BY <1>0, <3>1 DEF InstancesTyped, Instance
    <3>4. \A u \in Sockets : sockets'[u].player = q => sockets[u].player = q
      BY <1>2, <3>1 DEF Only
    <3> QED
      BY <1>1, <3>1, <3>2, <3>3, <3>4
  <2> QED
    BY <2>1 DEF Spared
<1>11. NoneDead'
  BY <1>1 DEF Seated, NoneDead
<1> QED
  BY <1>5, <1>6, <1>7, <1>9, <1>10, <1>11 DEF Seated

\* The entry of the new socket: it counts for its player unless it is overtaken, or a delivery
\* that may hold an older socket against it is under way (crossed).
LEMMA ConnectSeats ==
  ASSUME FanoutTyped, Seated, NEW s \in Sockets, Connect(s)
  PROVE  Seated'
<1> DEFINE p == sockets[s].player
           at == sockets[s].at
<1>0. /\ SocketsTyped /\ InstancesTyped /\ p \in Players /\ at \in Instances
      /\ \A t \in Sockets : sockets[t].at \in Instances
      /\ s # NoSocket
  BY DEF FanoutTyped, SocketsTyped, Socket, Sockets, NoSocket
<1>1. /\ \A t \in Sockets : /\ sockets'[t].phase = sockets[t].phase
                            /\ sockets'[t].player = sockets[t].player
                            /\ sockets'[t].at = sockets[t].at
      /\ \A t \in Sockets \ {s} : sockets'[t] = sockets[t]
      /\ sockets'[s].doing = "wrote"
  BY <1>0, PlainTurns DEF Connect, Turns, Only
<1>2. sockets[s].doing = "claimed" /\ Serving(s)
  BY DEF Connect, Does, Seated, Claiming
<1>3. instances' = Entered(at, p, s)
  BY DEF Connect, Entered
<1>4. /\ \A i \in Instances : /\ instances'[i].todo = instances[i].todo
                              /\ instances'[i].dead = instances[i].dead
                              /\ instances[i].todo \subseteq Sockets
      /\ \A i \in Instances, q \in Players :
           instances'[i].connections[q] =
             IF i = at /\ q = p THEN s ELSE instances[i].connections[q]
  <2> HIDE DEF p, at
  <2>1. /\ OnlyConnections
        /\ \A i \in Instances, q \in Players :
             instances'[i].connections[q] =
               IF i = at /\ q = p THEN s ELSE instances[i].connections[q]
    BY <1>0, <1>3, EntryTyped
  <2> QED
    BY <1>0, <2>1 DEF OnlyConnections, InstancesTyped, Instance
<1>5. /\ game'.owner = game.owner
      /\ \A q \in Players \ {p} : q \in game'.crossed <=> q \in game.crossed
      /\ p \notin game'.crossed =>
           \/ game.owner[p] = s /\ ~Underway(at, p)
           \/ game.owner[p] # s /\ sockets[game.owner[p]].at # at /\ p \notin game.crossed
  BY ConnectTyped
<1>6. \A q \in Players : game.owner[q] \in Sockets /\ sockets[game.owner[q]].player = q
  BY DEF FanoutTyped, GameTyped, Game, Seated, OwnerIs
<1>7. Mapped'
  <2>1. ASSUME NEW i \in Instances, NEW q \in Players, NEW t, t # NoSocket,
               instances'[i].connections[q] = t
        PROVE  /\ sockets'[t].player = q /\ sockets'[t].at = i
               /\ sockets'[t].phase \in {"open", "broken"} /\ sockets'[t].doing # "claimed"
    <3>1. CASE i = at /\ q = p
      <4>1. t = s
        BY <1>4, <2>1, <3>1
      <4> QED
        BY <1>1, <1>2, <3>1, <4>1 DEF Serving
    <3>2. CASE ~(i = at /\ q = p)
      <4>1. instances[i].connections[q] = t
        BY <1>4, <2>1, <3>2
      <4>2. /\ sockets[t].player = q /\ sockets[t].at = i
            /\ sockets[t].phase \in {"open", "broken"} /\ sockets[t].doing # "claimed"
        BY <2>1, <4>1 DEF Seated, Mapped
      <4>3. t \in Sockets \ {s}
        BY <1>0, <1>2, <2>1, <4>1, <4>2 DEF InstancesTyped, Instance
      <4> QED
        BY <1>1, <4>2, <4>3
    <3> QED
      BY <3>1, <3>2
  <2> QED
    BY <2>1 DEF Mapped
<1>8. OwnerIs'
  <2>1. ASSUME NEW q \in Players
        PROVE  sockets'[game'.owner[q]].player = q /\ sockets'[game'.owner[q]].phase # "none"
    BY <1>1, <1>5, <1>6 DEF Seated, OwnerIs
  <2> QED
    BY <2>1 DEF OwnerIs
<1>9. Claiming'
  <2>1. ASSUME NEW t \in Sockets, sockets'[t].doing = "claimed"
        PROVE  sockets'[t].phase \in {"open", "broken"}
    BY <1>1, <2>1 DEF Seated, Claiming, Serving
  <2> QED
    BY <2>1 DEF Claiming, Serving
<1>10. ASSUME NEW q \in Players \ game'.crossed, NEW u, u = game'.owner[q],
              sockets'[u].phase = "open", sockets'[u].doing # "claimed"
       PROVE  /\ instances'[sockets'[u].at].connections[q] = u
              /\ q \notin instances'[sockets'[u].at].dead
              /\ \A t \in instances'[sockets'[u].at].todo : sockets'[t].player = q => t = u
  <2>1. u = game.owner[q] /\ u \in Sockets /\ sockets[u].player = q /\ sockets[u].phase = "open"
    BY <1>1, <1>5, <1>6, <1>10
  <2>2. CASE q = p /\ u = s
    <3>1. ~Underway(at, p)
      BY <1>5, <1>10, <2>1, <2>2
    <3>2. instances[at].todo = {} => instances[at].dead = {}
      BY <1>0 DEF Seated, NoneDead
    <3>3. p \notin instances[at].dead /\ \A t \in instances[at].todo : sockets[t].player # p
      BY <3>1, <3>2 DEF Underway
    <3>4. /\ sockets'[u].at = at /\ instances'[at].connections[p] = s
          /\ instances'[at].todo = instances[at].todo /\ instances'[at].dead = instances[at].dead
          /\ \A t \in instances[at].todo : sockets'[t].player = sockets[t].player
      BY <1>0, <1>1, <1>4, <2>2
    <3> QED
      BY <2>2, <3>3, <3>4
  <2>3. CASE ~(q = p /\ u = s)
    <3>1. u # s /\ q \in Players \ game.crossed
      BY <1>5, <1>10, <2>1, <2>3
    <3>2. ~(sockets[u].at = at /\ q = p)
      BY <1>5, <1>10, <2>1, <3>1
    <3>3. sockets'[u] = sockets[u] /\ sockets[u].at \in Instances
      BY <1>0, <1>1, <2>1, <3>1
    <3>4. /\ instances[sockets[u].at].connections[q] = u
          /\ q \notin instances[sockets[u].at].dead
          /\ \A t \in instances[sockets[u].at].todo : sockets[t].player = q => t = u
      BY <1>10, <2>1, <3>1, <3>3 DEF Seated, Reachable, Spared
    <3>5. /\ instances'[sockets[u].at].connections[q] = u
          /\ instances'[sockets[u].at].todo = instances[sockets[u].at].todo
          /\ instances'[sockets[u].at].dead = instances[sockets[u].at].dead
          /\ \A t \in instances[sockets[u].at].todo : sockets'[t].player = sockets[t].player
      BY <1>1, <1>4, <3>2, <3>3, <3>4
    <3> QED
      BY <3>3, <3>4, <3>5
  <2> QED
    BY <2>2, <2>3
<1>11. Reachable' /\ Spared'
  BY <1>10 DEF Reachable, Spared
<1>12. NoneDead'
  BY <1>4 DEF Seated, NoneDead
<1> QED
  BY <1>7, <1>8, <1>9, <1>11, <1>12 DEF Seated

LEMMA SeatedNext == FanoutTyped /\ Seated /\ FanoutNext => Seated'
<1> SUFFICES ASSUME FanoutTyped, Seated, FanoutNext PROVE Seated'
  OBVIOUS
<1>1. ASSUME NEW s \in Sockets,
             \/ HandlerWrites(s) \/ RollWrites(s) \/ HandlerSnapshot(s) \/ HandlerPublish(s)
             \/ Reply(s) \/ Break(s) \/ Close(s) \/ Mark(s) \/ RollDone(s)
      PROVE  Seated'
  BY <1>1, HandlersSteady, SteadySeats
<1>2. ASSUME NEW s \in Sockets, Claim(s) \/ Connect(s) PROVE Seated'
  BY <1>2, ClaimSeats, ConnectSeats
<1>3. ASSUME NEW r \in Rolls,
             \/ Register(r) \/ AckTimeout(r) \/ RollSnapshot(r) \/ RollPublish(r)
             \/ Reopen(r) \/ Deal(r) \/ AdvanceSnapshot(r) \/ AdvancePublish(r)
      PROVE  Seated'
  BY <1>3, RollsSteady, SteadySeats
<1>4. ASSUME NEW i \in Instances, Take(i) \/ \E s \in Sockets : Send(i, s) PROVE Seated'
  BY <1>4, TakeSeats, SendSeats
<1> QED
  BY <1>1, <1>2, <1>3, <1>4 DEF FanoutNext

-----------------------------------------------------------------------------
(* Frames are not newer than the game.                                     *)

Frames(backlog) == {backlog[k] : k \in DOMAIN backlog}

LEMMA AppendFrames ==
  ASSUME NEW b \in Seq(Frame), NEW f \in Frame
  PROVE  Frames(Append(b, f)) = Frames(b) \cup {f}
<1> DEFINE a == Append(b, f)
<1>1. /\ DOMAIN a = 1..(Len(b) + 1) /\ DOMAIN b = 1..Len(b) /\ Len(b) \in Nat
      /\ \A k \in 1..Len(b) : a[k] = b[k]
      /\ a[Len(b) + 1] = f
  OBVIOUS
<1> HIDE DEF a
<1> QED
  BY <1>1 DEF Frames

LEMMA TailFrames ==
  ASSUME NEW b \in Seq(Frame), b # <<>>
  PROVE  Frames(b) = Frames(Tail(b)) \cup {Head(b)}
<1> DEFINE t == Tail(b)
<1>1. /\ DOMAIN b = 1..Len(b) /\ Len(b) \in Nat \ {0} /\ DOMAIN t = 1..(Len(b) - 1)
      /\ \A k \in 1..(Len(b) - 1) : t[k] = b[k + 1]
      /\ Head(b) = b[1]
  OBVIOUS
<1> HIDE DEF t
<1>2. ASSUME NEW k \in DOMAIN b PROVE b[k] \in Frames(t) \cup {Head(b)}
  <2>1. CASE k = 1
    BY <1>1, <2>1
  <2>2. CASE k # 1
    <3>1. k - 1 \in DOMAIN t /\ t[k - 1] = b[k]
      BY <1>1, <2>2
    <3> QED
      BY <3>1 DEF Frames
  <2> QED
    BY <2>1, <2>2
<1>3. ASSUME NEW k \in DOMAIN t PROVE t[k] \in Frames(b)
  <2>1. k + 1 \in DOMAIN b /\ t[k] = b[k + 1]
    BY <1>1
  <2> QED
    BY <2>1 DEF Frames
<1>4. Head(b) \in Frames(b)
  BY <1>1 DEF Frames
<1> QED
  BY <1>2, <1>3, <1>4 DEF Frames, t

\* Nothing read, shown or published is newer than the game.
Bounded ==
  /\ \A u \in Sockets : sockets[u].sees <= game.version /\ sockets[u].shows <= game.version
  /\ \A r \in Rolls : rolls[r].sees <= game.version
  /\ \A i \in Instances :
       /\ instances[i].frame.version <= game.version
       /\ \A f \in Frames(instances[i].backlog) : f.version <= game.version

\* The version goes on or stays, and so does what was bounded by it.
LEMMA BoundedStep ==
  ASSUME FanoutTyped, FanoutTyped', Bounded, game.version <= game'.version,
         \A u \in Sockets :
           \/ sockets'[u] = sockets[u]
           \/ sockets'[u].sees <= game'.version /\ sockets'[u].shows <= game'.version,
         \A r \in Rolls : rolls'[r] = rolls[r] \/ rolls'[r].sees <= game'.version,
         \A i \in Instances :
           \/ instances'[i].frame = instances[i].frame
           \/ instances'[i].frame.version <= game'.version,
         \A i \in Instances : \A f \in Frames(instances'[i].backlog) :
           f \in Frames(instances[i].backlog) \/ f.version <= game'.version
  PROVE  Bounded'
<1>1. game.version \in Nat /\ game'.version \in Nat
  BY DEF FanoutTyped, GameTyped, Game
<1>2. \A u \in Sockets : sockets[u].sees \in Nat /\ sockets[u].shows \in Nat
  BY DEF FanoutTyped, SocketsTyped, Socket
<1>3. \A r \in Rolls : rolls[r].sees \in Nat
  BY DEF FanoutTyped, RollsTyped, Delayed
<1>4. \A i \in Instances : /\ instances[i].frame.version \in Nat
                           /\ \A f \in Frames(instances[i].backlog) : f.version \in Nat
  <2>1. ASSUME NEW i \in Instances, NEW f \in Frames(instances[i].backlog) PROVE f \in Frame
    BY FrameTyped DEF FanoutTyped, Frames
  <2> QED
    BY <2>1, FrameTyped DEF FanoutTyped, Frame
<1>5. \A u \in Sockets : sockets'[u].sees <= game'.version /\ sockets'[u].shows <= game'.version
  BY <1>1, <1>2 DEF Bounded
<1>6. \A r \in Rolls : rolls'[r].sees <= game'.version
  BY <1>1, <1>3 DEF Bounded
<1>7. \A i \in Instances :
        /\ instances'[i].frame.version <= game'.version
        /\ \A f \in Frames(instances'[i].backlog) : f.version <= game'.version
  BY <1>1, <1>4 DEF Bounded
<1> QED
  BY <1>5, <1>6, <1>7 DEF Bounded

LEMMA PostedFrames ==
  ASSUME InstancesTyped, NEW f, Posted(f)
  PROVE  \A i \in Instances :
           Frames(instances'[i].backlog) = Frames(instances[i].backlog) \cup {f}
BY FrameTyped, AppendFrames DEF Posted

LEMMA BoundedNext ==
  ASSUME FanoutTyped, Bounded, FanoutNext
  PROVE  Bounded'
<1>0. /\ GameTyped /\ SocketsTyped /\ InstancesTyped /\ RollsTyped /\ FanoutTyped'
      /\ game.version \in Nat
  BY TypeNext DEF FanoutTyped, GameTyped, Game
<1>1. \A u \in Sockets : /\ sockets[u].sees \in Nat /\ sockets[u].shows \in Nat
                         /\ sockets[u].sees <= game.version /\ sockets[u].shows <= game.version
  BY <1>0 DEF SocketsTyped, Socket, Bounded
<1>2. ASSUME NEW s \in Sockets, NEW phase, NEW doing, NEW roll, NEW sees, NEW shows,
             Turns(s, phase, doing, roll, sees, shows), UNCHANGED instances, UNCHANGED rolls,
             game.version <= game'.version,
             sees <= game'.version, shows <= game'.version
      PROVE  Bounded'
  BY <1>0, <1>2, BoundedStep DEF Turns, Only
<1>3. ASSUME NEW s \in Sockets, HandlerWrites(s) PROVE Bounded'
  <2>1. /\ Turns(s, sockets[s].phase, "wrote", sockets[s].roll, sockets[s].sees,
                 sockets[s].shows)
        /\ UNCHANGED instances /\ UNCHANGED rolls /\ game'.version = game.version + 1
    BY <1>0, <1>3, WritesTurns, WriteTyped DEF HandlerWrites, Write
  <2>2. /\ game.version <= game'.version
        /\ sockets[s].sees <= game'.version /\ sockets[s].shows <= game'.version
    BY <1>0, <1>1, <2>1
  <2> QED
    BY <1>2, <2>1, <2>2
<1>4. ASSUME NEW s \in Sockets, HandlerSnapshot(s) PROVE Bounded'
  <2>0. Turns(s, sockets[s].phase, "read", sockets[s].roll, game.version, sockets[s].shows)
    BY <1>0, <1>4, SnapshotTurns
  <2>1. UNCHANGED instances /\ UNCHANGED rolls /\ game' = game
    BY <1>4, Zenon DEF HandlerSnapshot
  <2>2. game.version <= game'.version /\ sockets[s].shows <= game'.version
    BY <1>0, <1>1, <2>1
  <2> QED
    BY <1>2, <2>0, <2>1, <2>2
<1>5. ASSUME NEW f, Posted(f), f.version <= game.version, game' = game,
             \A u \in Sockets :
               \/ sockets'[u] = sockets[u]
               \/ sockets'[u].sees <= game.version /\ sockets'[u].shows <= game.version,
             \A r \in Rolls : rolls'[r] = rolls[r] \/ rolls'[r].sees = 0
      PROVE  Bounded'
  <2>1. \A i \in Instances : Frames(instances'[i].backlog) =
          Frames(instances[i].backlog) \cup {f}
    BY <1>0, <1>5, PostedFrames
  <2>2. \A i \in Instances : instances'[i].frame = instances[i].frame
    BY <1>5 DEF Posted
  <2> QED
    BY <1>0, <1>5, <2>1, <2>2, BoundedStep
<1>6. ASSUME NEW s \in Sockets, Reply(s) PROVE Bounded'
  <2>1. UNCHANGED instances /\ game'.version = game.version
    BY <1>6, ReplyOrder, Zenon DEF Reply, OnlyOrder
  <2>2. CASE sockets[s].phase = "open"
    <3>1. Turns(s, "open", "idle", "none", 0, sockets[s].sees)
      BY <1>0, <1>6, <2>2, ReplyTurns, Zenon
    <3>2. \A r \in Rolls : rolls'[r] = rolls[r] \/ rolls'[r].sees = 0
      BY <1>6, <2>2, ReplyStarts DEF OnlyRoll
    <3> QED
      BY <1>0, <1>1, <2>1, <3>1, <3>2, BoundedStep DEF Turns, Only
  <2>3. CASE sockets[s].phase # "open"
    <3>1. Turns(s, "broken", "closing", "none", 0, sockets[s].shows) /\ UNCHANGED rolls
      BY <1>0, <1>6, <2>3, ReplyTurns
    <3> QED
      BY <1>0, <1>1, <1>2, <2>1, <3>1
  <2> QED
    BY <2>2, <2>3
<1>7. ASSUME NEW s \in Sockets, Claim(s) PROVE Bounded'
  <2>1. UNCHANGED instances /\ UNCHANGED rolls
    BY <1>7 DEF Claim
  <2>2. PICK p \in Players :
          /\ Only(s)
          /\ sockets'[s].sees = sockets[s].sees /\ sockets'[s].shows = sockets[s].shows
          /\ game' = [game EXCEPT !.version = @ + 1, !.owner[p] = s]
    BY <1>0, <1>7, ClaimTurns, Zenon
  <2>3. game'.version = game.version + 1
    BY <2>2, ClaimOwns, Zenon
  <2>4. \A u \in Sockets :
          \/ sockets'[u] = sockets[u]
          \/ sockets'[u].sees <= game'.version /\ sockets'[u].shows <= game'.version
    BY <1>0, <1>1, <2>2, <2>3 DEF Only
  <2> QED
    BY <1>0, <2>1, <2>3, <2>4, BoundedStep
<1>8. ASSUME NEW s \in Sockets, Connect(s) PROVE Bounded'
  <2>1. /\ Turns(s, sockets[s].phase, "wrote", sockets[s].roll, sockets[s].sees,
                 sockets[s].shows)
        /\ UNCHANGED rolls
    BY <1>0, <1>8, PlainTurns DEF Connect
  <2>4. game'.version = game.version
    BY <1>8, ConnectTyped
  <2>2. /\ sockets[s].at \in Instances /\ sockets[s].player \in Players
        /\ instances' = Entered(sockets[s].at, sockets[s].player, s)
    BY <1>0, <1>8 DEF Connect, Entered, SocketsTyped, Socket
  <2>3. \A j \in Instances : instances'[j].backlog = instances[j].backlog
                             /\ instances'[j].frame = instances[j].frame
    BY <1>0, <2>2, EntryTyped DEF OnlyConnections
  <2> QED
    BY <1>0, <1>1, <2>1, <2>3, <2>4, BoundedStep DEF Turns, Only
<1>9. ASSUME NEW s \in Sockets, Break(s) PROVE Bounded'
  <2>0. Turns(s, "broken", sockets[s].doing, sockets[s].roll, sockets[s].sees, 0)
    BY <1>0, <1>9, PlainTurns
  <2>1. UNCHANGED instances /\ UNCHANGED rolls /\ game' = game
    BY <1>9, Zenon DEF Break
  <2>2. game.version <= game'.version /\ sockets[s].sees <= game'.version /\ 0 <= game'.version
    BY <1>0, <1>1, <2>1
  <2> QED
    BY <1>2, <2>0, <2>1, <2>2
<1>10. ASSUME NEW s \in Sockets, Close(s) PROVE Bounded'
  <2>0. Turns(s, "closed", "marking", sockets[s].roll, sockets[s].sees, 0)
    BY <1>0, <1>10, PlainTurns
  <2>1. UNCHANGED rolls /\ game' = game /\ instances' = Unmapped(s)
    BY <1>10, Zenon DEF Close
  <2>2. \A j \in Instances : instances'[j].backlog = instances[j].backlog
                             /\ instances'[j].frame = instances[j].frame
    BY <1>0, <2>1, UnmappedTyped DEF OnlyConnections
  <2> QED
    BY <1>0, <1>1, <2>0, <2>1, <2>2, BoundedStep DEF Turns, Only
<1>11. ASSUME NEW s \in Sockets, Mark(s) PROVE Bounded'
  <2>1. UNCHANGED instances /\ UNCHANGED rolls
    BY <1>11 DEF Mark
  <2>2. CASE Does(s, "marking", "wrote") /\ Write
    <3>1. /\ Turns(s, sockets[s].phase, "wrote", sockets[s].roll, sockets[s].sees,
                   sockets[s].shows)
          /\ game'.version = game.version + 1
      BY <1>0, <2>2, PlainTurns, WriteTyped DEF Write
    <3> QED
      BY <1>0, <1>1, <1>2, <2>1, <3>1
  <2>3. CASE sockets' = [sockets EXCEPT ![s] = Rested(s)] /\ UNCHANGED game
    <3>1. Only(s) /\ sockets'[s].sees = 0 /\ sockets'[s].shows = sockets[s].shows
      BY <1>0, <2>3, RestTurns
    <3> QED
      BY <1>0, <1>1, <2>1, <2>3, <3>1, BoundedStep DEF Only
  <2> QED
    BY <1>11, <2>2, <2>3 DEF Mark
<1>12. ASSUME NEW s \in Sockets, RollDone(s) PROVE Bounded'
  <2>1. PICK r : r # NoRoll /\ Passes(r, "waiting", "woken")
                 /\ r = instances[sockets[s].at].acks[sockets[s].player]
    BY <1>12 DEF RollDone
  <2>2. r \in Rolls
    BY <1>0, <2>1 DEF SocketsTyped, Socket, InstancesTyped, Instance
  <2>3. OnlyRoll(r) /\ rolls'[r].sees = rolls[r].sees
    BY <1>0, <2>1, <2>2, PassesDoes
  <2>4. \A q \in Rolls : rolls'[q].sees <= game.version
    BY <2>2, <2>3 DEF Bounded, OnlyRoll
  <2>5. UNCHANGED <<game, sockets, instances>>
    BY <1>12, Zenon DEF RollDone
  <2> QED
    BY <1>0, <2>4, <2>5, BoundedStep
<1>13. ASSUME NEW r \in Rolls,
              \/ Register(r) \/ AckTimeout(r) \/ RollSnapshot(r)
              \/ Reopen(r) \/ Deal(r) \/ AdvanceSnapshot(r)
       PROVE  Bounded'
  <2>1. UNCHANGED sockets
    BY <1>13 DEF Register, AckTimeout, RollSnapshot, Reopen, Deal, AdvanceSnapshot
  <2>2. rolls[r].sees \in Nat /\ rolls[r].sees <= game.version
    BY <1>0 DEF Bounded, RollsTyped, Delayed
  <2>3. game'.version \in {game.version, game.version + 1}
    <3>1. CASE Reopen(r)
      BY <3>1, ReopenTyped DEF Reopen
    <3>2. CASE Deal(r)
      BY <3>2, WriteTyped DEF Deal
    <3>3. CASE Register(r) \/ AckTimeout(r) \/ RollSnapshot(r) \/ AdvanceSnapshot(r)
      BY <3>3 DEF Register, AckTimeout, RollSnapshot, AdvanceSnapshot
    <3> QED
      BY <1>13, <3>1, <3>2, <3>3
  <2>4. OnlyRoll(r) /\ rolls'[r].sees \in {rolls[r].sees, game.version}
    <3>1. CASE Register(r) \/ AckTimeout(r) \/ Reopen(r) \/ Deal(r)
      BY <1>0, <3>1, PassesDoes DEF Register, AckTimeout, Reopen, Deal
    <3>2. CASE RollSnapshot(r) \/ AdvanceSnapshot(r)
      BY <3>2, RollReads DEF RollSnapshot, AdvanceSnapshot
    <3> QED
      BY <1>13, <3>1, <3>2
  <2>5. \A j \in Instances : instances'[j].backlog = instances[j].backlog
                             /\ instances'[j].frame = instances[j].frame
    <3>1. CASE Register(r) \/ RollSnapshot(r)
      BY <3>1, RegisterDoes, ReleasedDoes DEF RollSnapshot, OnlyAcks
    <3>2. CASE AckTimeout(r) \/ Reopen(r) \/ Deal(r) \/ AdvanceSnapshot(r)
      BY <3>2 DEF AckTimeout, Reopen, Deal, AdvanceSnapshot
    <3> QED
      BY <1>13, <3>1, <3>2
  <2>6. game.version <= game'.version /\ rolls'[r].sees <= game'.version
    BY <1>0, <2>2, <2>3, <2>4
  <2> QED
    BY <1>0, <2>1, <2>4, <2>5, <2>6, BoundedStep DEF OnlyRoll
<1>14. ASSUME NEW r \in Rolls, RollPublish(r) \/ AdvancePublish(r) PROVE Bounded'
  <2>1. UNCHANGED sockets /\ game' = game
    BY <1>14 DEF RollPublish, AdvancePublish
  <2>2. OnlyRoll(r) /\ rolls'[r].sees = 0 /\ rolls[r].sees <= game.version
    BY <1>14, RollPublishes DEF Bounded
  <2>3. \E exclude \in SUBSET Players :
          Posted([version |-> rolls[r].sees, exclude |-> exclude])
    BY <1>14, RollPublishes, StepsPost
  <2> QED
    BY <1>5, <2>1, <2>2, <2>3 DEF OnlyRoll
<1>15. ASSUME NEW i \in Instances, Take(i) PROVE Bounded'
  <2>1. UNCHANGED sockets /\ game' = game /\ UNCHANGED rolls
    BY <1>15 DEF Take
  <2>2. /\ instances[i].backlog \in Seq(Frame) /\ instances[i].backlog # <<>>
        /\ \A j \in Instances \ {i} : instances'[j] = instances[j]
        /\ instances'[i].backlog = Tail(instances[i].backlog)
        /\ instances'[i].frame \in {NoFrame, Head(instances[i].backlog)}
    BY <1>0, <1>15, TakeTyped, FrameTyped
  <2>3. Frames(instances[i].backlog) =
          Frames(instances'[i].backlog) \cup {Head(instances[i].backlog)}
    BY <2>2, TailFrames
  <2>4. Head(instances[i].backlog).version <= game.version
    BY <2>3 DEF Bounded
  <2>5. instances'[i].frame.version <= game.version
    BY <1>0, <2>2, <2>4 DEF NoFrame
  <2> QED
    BY <1>0, <2>1, <2>2, <2>3, <2>5, BoundedStep
<1>16. ASSUME NEW i \in Instances, NEW s \in Sockets, Send(i, s) PROVE Bounded'
  <2>1. /\ OnlyOrder /\ rolls' = rolls
        /\ \A j \in Instances \ {i} : instances'[j] = instances[j]
        /\ instances'[i].backlog = instances[i].backlog
        /\ instances'[i].frame \in {NoFrame, instances[i].frame}
        /\ IF sockets[s].phase = "open"
           THEN Turns(s, "open", sockets[s].doing, sockets[s].roll, sockets[s].sees,
                      instances[i].frame.version)
           ELSE sockets' = sockets
    BY <1>16, SendDoes
  <2>2. instances[i].frame.version <= game.version
    BY DEF Bounded
  <2>3. instances'[i].frame.version <= game.version
    BY <1>0, <2>1, <2>2 DEF NoFrame
  <2>4. \A u \in Sockets :
           \/ sockets'[u] = sockets[u]
           \/ sockets'[u].sees <= game.version /\ sockets'[u].shows <= game.version
    BY <1>1, <2>1, <2>2 DEF Turns, Only
  <2> QED
    BY <1>0, <2>1, <2>3, <2>4, BoundedStep DEF OnlyOrder
<1>17. ASSUME NEW s \in Sockets, HandlerPublish(s) PROVE Bounded'
  <2>1. Posted([version |-> sockets[s].sees, exclude |-> {}])
    BY <1>17, StepsPost
  <2>2. /\ Only(s) /\ sockets'[s].sees = 0 /\ sockets'[s].shows = sockets[s].shows
        /\ UNCHANGED rolls /\ game' = game
    BY <1>0, <1>17, RestTurns DEF HandlerPublish
  <2>3. \A u \in Sockets :
          \/ sockets'[u] = sockets[u]
          \/ sockets'[u].sees <= game.version /\ sockets'[u].shows <= game.version
    BY <1>0, <1>1, <2>2 DEF Only
  <2> QED
    BY <1>1, <1>5, <2>1, <2>2, <2>3
<1>18. ASSUME NEW s \in Sockets, RollWrites(s) PROVE Bounded'
  <2>1. UNCHANGED instances /\ UNCHANGED rolls
    BY <1>18 DEF RollWrites
  <2>2. /\ game'.version = game.version + 1
        /\ \A u \in Sockets : /\ sockets'[u].sees = sockets[u].sees
                               /\ sockets'[u].shows = sockets[u].shows
    BY <1>18, RollWritesDoes
  <2>3. \A u \in Sockets : sockets'[u].sees <= game'.version /\ sockets'[u].shows <= game'.version
    BY <1>0, <1>1, <2>2
  <2> QED
    BY <1>0, <2>1, <2>2, <2>3, BoundedStep
<1> QED
  BY <1>3, <1>4, <1>6, <1>7, <1>8, <1>9, <1>10, <1>11, <1>12, <1>13, <1>14, <1>15, <1>16, <1>17,
     <1>18 DEF FanoutNext

-----------------------------------------------------------------------------
(* What handlers serve.                                                    *)

\* A roll is served from its write to its answer, and a socket that is yet to come serves
\* nothing.
Served ==
  \A u \in Sockets : /\ sockets[u].phase = "none" => sockets[u].doing = "idle"
                     /\ sockets[u].roll # "none" => sockets[u].doing \in {"wrote", "read"}

LEMMA ServedTurn ==
  ASSUME Served, NEW s \in Sockets, Only(s),
         sockets'[s].phase = "none" => sockets'[s].doing = "idle",
         sockets'[s].roll # "none" => sockets'[s].doing \in {"wrote", "read"}
  PROVE  Served'
BY DEF Served, Only

LEMMA ServedNext ==
  ASSUME FanoutTyped, Served, FanoutNext
  PROVE  Served'
<1>0. GameTyped /\ SocketsTyped
  BY DEF FanoutTyped
<1>1. ASSUME NEW s \in Sockets, HandlerWrites(s) PROVE Served'
  <2>1. Turns(s, sockets[s].phase, "wrote", sockets[s].roll, sockets[s].sees, sockets[s].shows)
    BY <1>0, <1>1, WritesTurns
  <2>2. sockets[s].phase # "none"
    BY <1>1 DEF HandlerWrites, Serving
  <2> QED
    BY <2>1, <2>2, ServedTurn DEF Turns
<1>2. ASSUME NEW s \in Sockets, HandlerSnapshot(s) PROVE Served'
  <2>1. Turns(s, sockets[s].phase, "read", sockets[s].roll, game.version, sockets[s].shows)
    BY <1>0, <1>2, SnapshotTurns
  <2>2. sockets[s].doing = "wrote"
    BY <1>2, Zenon DEF HandlerSnapshot
  <2> QED
    BY <2>1, <2>2, ServedTurn DEF Turns, Served
<1>3. ASSUME NEW s \in Sockets, sockets' = [sockets EXCEPT ![s] = Rested(s)],
             sockets[s].roll = "none"
      PROVE  Served'
  <2>1. Only(s) /\ sockets'[s].doing = "idle" /\ sockets'[s].roll = "none"
    BY <1>0, <1>3, RestTurns
  <2> QED
    BY <2>1, ServedTurn
<1>4. ASSUME NEW s \in Sockets, HandlerPublish(s) PROVE Served'
  BY <1>3, <1>4 DEF HandlerPublish
<1>5. ASSUME NEW s \in Sockets, Reply(s) PROVE Served'
  <2>1. Only(s) /\ sockets'[s].roll = "none" /\ sockets'[s].phase # "none"
    BY <1>0, <1>5, ReplyTurns DEF Turns
  <2> QED
    BY <2>1, ServedTurn
<1>6. ASSUME NEW s \in Sockets, Claim(s) PROVE Served'
  <2>1. /\ Only(s) /\ sockets'[s].phase = "open" /\ sockets'[s].roll = sockets[s].roll
        /\ sockets[s].phase = "none"
    BY <1>0, <1>6, ClaimTurns, Zenon DEF Claim
  <2>2. sockets[s].roll = "none"
    BY <2>1 DEF Served
  <2> QED
    BY <2>1, <2>2, ServedTurn
<1>7. ASSUME NEW s \in Sockets, NEW from \in {"claimed", "marking"}, Does(s, from, "wrote")
      PROVE  Served'
  <2>1. Turns(s, sockets[s].phase, "wrote", sockets[s].roll, sockets[s].sees, sockets[s].shows)
    BY <1>0, <1>7, PlainTurns
  <2>2. sockets[s].phase # "none"
    BY <1>7 DEF Does, Served
  <2> QED
    BY <2>1, <2>2, ServedTurn DEF Turns
<1>8. ASSUME NEW s \in Sockets, Connect(s) PROVE Served'
  BY <1>7, <1>8 DEF Connect
<1>9. ASSUME NEW s \in Sockets, Break(s) PROVE Served'
  <2>1. Turns(s, "broken", sockets[s].doing, sockets[s].roll, sockets[s].sees, 0)
    BY <1>0, <1>9, PlainTurns
  <2> QED
    BY <2>1, ServedTurn DEF Turns, Served
<1>10. ASSUME NEW s \in Sockets, Close(s) PROVE Served'
  <2>1. Turns(s, "closed", "marking", sockets[s].roll, sockets[s].sees, 0)
    BY <1>0, <1>10, PlainTurns
  <2>2. sockets[s].doing \in {"idle", "closing"}
    BY <1>10 DEF Close
  <2>3. sockets[s].roll = "none"
    BY <2>2 DEF Served
  <2> QED
    BY <2>1, <2>3, ServedTurn DEF Turns
<1>11. ASSUME NEW s \in Sockets, Mark(s) PROVE Served'
  <2>1. sockets[s].doing = "marking"
    BY <1>11 DEF Mark, Does
  <2>2. sockets[s].roll = "none"
    BY <2>1 DEF Served
  <2> QED
    BY <1>3, <1>7, <1>11, <2>2 DEF Mark
<1>12. ASSUME NEW s \in Sockets, RollWrites(s) PROVE Served'
  <2>1. /\ sockets[s].doing \in {"idle", "rolling"} /\ sockets[s].doing = "idle" => Serving(s)
        /\ sockets'[s].doing = "wrote"
        /\ \A t \in Sockets : sockets'[t].phase = sockets[t].phase
        /\ \A t \in Sockets \ {s} :
             /\ sockets'[t].roll = sockets[t].roll
             /\ \/ sockets'[t].doing = sockets[t].doing
                \/ sockets[t].doing = "idle" /\ Serving(t)
    BY <1>12, RollWritesDoes
  <2>2. sockets[s].phase # "none"
    BY <2>1 DEF Served, Serving
  <2>3. ASSUME NEW t \in Sockets
        PROVE  /\ sockets'[t].phase = "none" => sockets'[t].doing = "idle"
               /\ sockets'[t].roll # "none" => sockets'[t].doing \in {"wrote", "read"}
    <3>1. CASE t = s
      BY <2>1, <2>2, <3>1
    <3>2. CASE t # s
      BY <2>1, <3>2 DEF Served, Serving
    <3> QED
      BY <3>1, <3>2
  <2> QED
    BY <2>3 DEF Served
<1>13. ASSUME NEW i \in Instances, NEW s \in Sockets, Send(i, s) PROVE Served'
  <2>1. \/ Turns(s, "open", sockets[s].doing, sockets[s].roll, sockets[s].sees,
                 instances[i].frame.version)
        \/ sockets' = sockets
    BY <1>13, SendDoes
  <2> QED
    BY <2>1, ServedTurn DEF Turns, Served
<1>14. ASSUME UNCHANGED sockets PROVE Served'
  BY <1>14 DEF Served
<1>15. ASSUME NEW s \in Sockets, RollDone(s) PROVE Served'
  BY <1>14, <1>15 DEF RollDone
<1>16. ASSUME NEW r \in Rolls,
              \/ Register(r) \/ AckTimeout(r) \/ RollSnapshot(r) \/ RollPublish(r)
              \/ Reopen(r) \/ Deal(r) \/ AdvanceSnapshot(r) \/ AdvancePublish(r)
       PROVE  Served'
  BY <1>14, <1>16 DEF Register, AckTimeout, RollSnapshot, RollPublish, Reopen, Deal,
                      AdvanceSnapshot, AdvancePublish
<1>17. ASSUME NEW i \in Instances, Take(i) PROVE Served'
  BY <1>14, <1>17 DEF Take
<1> QED
  BY <1>1, <1>2, <1>4, <1>5, <1>6, <1>8, <1>9, <1>10, <1>11, <1>12, <1>13, <1>15, <1>16, <1>17
     DEF FanoutNext

-----------------------------------------------------------------------------
(* The newest version is on its way to whoever does not show it.           *)

\* The handler of u has still to publish the newest version, or to write a newer one; what a
\* late roll has written is left to the advance.
Newest(u) ==
  \/ sockets[u].doing = "claimed"
  \/ sockets[u].doing = "wrote" /\ sockets[u].roll # "late"
  \/ /\ sockets[u].doing = "read" /\ sockets[u].roll # "late"
     /\ sockets[u].sees = game.version
  \/ sockets[u].doing \in {"closing", "marking"} /\ game.owner[sockets[u].player] = u

\* The task of r has still to publish it to player p: what a roll saw to all but the roller,
\* what the advance leads to to all.
Carries(r, p) ==
  \/ /\ rolls[r].by # p
     /\ \/ rolls[r].pc \in {"exists", "waiting", "woken"}
        \/ rolls[r].pc = "read" /\ rolls[r].sees = game.version
  \/ rolls[r].pc \in {"reopened", "dealt"}
  \/ rolls[r].pc = "fresh" /\ rolls[r].sees = game.version

\* The newest frame for p is in the backlog of its instance, or being delivered.
FrameCarries(p) ==
  LET s == game.owner[p]
      here == instances[sockets[s].at]
  IN  \/ \E f \in Frames(here.backlog) : f.version = game.version /\ p \notin f.exclude
      \/ s \in here.todo /\ here.frame.version = game.version

CoveredFor(p) ==
  sockets[game.owner[p]].phase = "open" =>
    \/ sockets[game.owner[p]].shows = game.version
    \/ \E u \in Sockets : Newest(u)
    \/ \E r \in Rolls : Carries(r, p)
    \/ FrameCarries(p)

Covered == \A p \in Players \ game.crossed : CoveredFor(p)

\* What a step leaves of it.
NewestStay == \A u \in Sockets : Newest(u) => Newest(u)'

CarriesStay(p) == \A r \in Rolls : Carries(r, p) => Carries(r, p)'

FramesStay ==
  \A i \in Instances : /\ Frames(instances[i].backlog) \subseteq Frames(instances'[i].backlog)
                       /\ instances'[i].todo = instances[i].todo
                       /\ instances'[i].frame = instances[i].frame

SameGame ==
  /\ game'.version = game.version /\ game'.owner = game.owner
  /\ game'.crossed = game.crossed

ShowsStay ==
  /\ SameGame
  /\ \A t \in Sockets : sockets'[t].phase = "open" =>
       /\ sockets[t].phase = "open" /\ sockets'[t].at = sockets[t].at
       /\ sockets[t].shows = game.version => sockets'[t].shows = game.version

LEMMA OwnerTyped ==
  ASSUME FanoutTyped, NEW p \in Players
  PROVE  /\ game.owner[p] \in Sockets
         /\ sockets[game.owner[p]].at \in Instances
BY DEF FanoutTyped, GameTyped, Game, SocketsTyped, Socket

LEMMA NewestCovers ==
  ASSUME NEW u \in Sockets, Newest(u)'
  PROVE  Covered'
BY DEF Covered, CoveredFor

\* The same, said of the player's socket and where it is.
LEMMA CarriedAt ==
  ASSUME NEW p, NEW s, NEW at, s = game.owner[p], at = sockets[s].at
  PROVE  FrameCarries(p) <=>
           \/ \E f \in Frames(instances[at].backlog) :
                f.version = game.version /\ p \notin f.exclude
           \/ s \in instances[at].todo /\ instances[at].frame.version = game.version
BY DEF FrameCarries

LEMMA CarriedThen ==
  ASSUME NEW p, NEW s, NEW at, s = game'.owner[p], at = sockets'[s].at
  PROVE  FrameCarries(p)' <=>
           \/ \E f \in Frames(instances'[at].backlog) :
                f.version = game'.version /\ p \notin f.exclude
           \/ s \in instances'[at].todo /\ instances'[at].frame.version = game'.version
BY DEF FrameCarries

LEMMA FramesCarry ==
  ASSUME FanoutTyped, NEW p \in Players, FrameCarries(p), FramesStay, ShowsStay,
         sockets'[game.owner[p]].phase = "open"
  PROVE  FrameCarries(p)'
<1> DEFINE s == game.owner[p]
           i == sockets[s].at
<1>1. s \in Sockets /\ i \in Instances
  BY OwnerTyped
<1>2. game'.version = game.version /\ game'.owner[p] = s /\ sockets'[s].at = i
  BY <1>1 DEF ShowsStay, SameGame
<1>3. \/ \E f \in Frames(instances[i].backlog) : f.version = game.version /\ p \notin f.exclude
      \/ s \in instances[i].todo /\ instances[i].frame.version = game.version
  BY DEF FrameCarries
<1> HIDE DEF s, i
<1>4. \/ \E f \in Frames(instances'[i].backlog) : f.version = game.version /\ p \notin f.exclude
      \/ s \in instances'[i].todo /\ instances'[i].frame.version = game.version
  BY <1>1, <1>3 DEF FramesStay
<1> QED
  BY <1>2, <1>4 DEF FrameCarries

LEMMA StaysCovered ==
  ASSUME FanoutTyped, NEW p \in Players, CoveredFor(p), ShowsStay, NewestStay, CarriesStay(p),
         FrameCarries(p) /\ sockets'[game.owner[p]].phase = "open" => FrameCarries(p)'
  PROVE  CoveredFor(p)'
<1> SUFFICES ASSUME sockets'[game'.owner[p]].phase = "open"
             PROVE  \/ sockets'[game'.owner[p]].shows = game'.version
                    \/ \E u \in Sockets : Newest(u)'
                    \/ \E r \in Rolls : Carries(r, p)'
                    \/ FrameCarries(p)'
  BY DEF CoveredFor
<1> DEFINE s == game.owner[p]
<1>1. s \in Sockets /\ game'.owner[p] = s /\ game'.version = game.version
  BY OwnerTyped DEF ShowsStay, SameGame
<1>2. /\ sockets[s].phase = "open"
      /\ sockets[s].shows = game.version => sockets'[s].shows = game.version
  BY <1>1 DEF ShowsStay
<1>3. \/ sockets[s].shows = game.version
      \/ \E u \in Sockets : Newest(u)
      \/ \E r \in Rolls : Carries(r, p)
      \/ FrameCarries(p)
  BY <1>2 DEF CoveredFor
<1>4. CASE sockets[s].shows = game.version
  BY <1>1, <1>2, <1>4
<1>5. CASE \E u \in Sockets : Newest(u)
  BY <1>5 DEF NewestStay
<1>6. CASE \E r \in Rolls : Carries(r, p)
  BY <1>6 DEF CarriesStay
<1>7. CASE FrameCarries(p)
  BY <1>1, <1>7
<1> QED
  BY <1>3, <1>4, <1>5, <1>6, <1>7

LEMMA AllStayCovered ==
  ASSUME FanoutTyped, Covered, ShowsStay, NewestStay, FramesStay,
         \A p \in Players : CarriesStay(p)
  PROVE  Covered'
<1>1. \A p \in Players : CoveredFor(p) => CoveredFor(p)'
  BY StaysCovered, FramesCarry
<1> QED
  BY <1>1 DEF Covered, ShowsStay, SameGame

\* The steps that leave the game, and the sockets or the rolls, alone.
LEMMA CalmStays ==
  ASSUME FanoutTyped, SameGame
  PROVE  /\ UNCHANGED sockets => ShowsStay /\ NewestStay
         /\ UNCHANGED rolls => \A p \in Players : CarriesStay(p)
<1>1. UNCHANGED sockets => ShowsStay /\ NewestStay
  BY DEF SameGame, ShowsStay, NewestStay, Newest
<1>2. UNCHANGED rolls => \A p \in Players : CarriesStay(p)
  BY DEF SameGame, CarriesStay, Carries
<1> QED
  BY <1>1, <1>2

LEMMA UnchangedGame == UNCHANGED game => SameGame
BY DEF SameGame

\* The step of one socket s.
LEMMA TurnStays ==
  ASSUME FanoutTyped, NEW s \in Sockets, Only(s),
         SameGame,
         sockets'[s].phase = "open" =>
           /\ sockets[s].phase = "open" /\ sockets'[s].at = sockets[s].at
           /\ sockets[s].shows = game.version => sockets'[s].shows = game.version
  PROVE  /\ ShowsStay
         /\ (Newest(s) => Newest(s)') => NewestStay
<1>1. ShowsStay
  BY DEF ShowsStay, Only
<1>2. \A u \in Sockets \ {s} : Newest(u) => Newest(u)'
  BY DEF Newest, Only, SameGame
<1> QED
  BY <1>1, <1>2 DEF NewestStay

\* A frame with the newest version for all is published.
LEMMA PostCovers ==
  ASSUME FanoutTyped, FanoutTyped', NEW p \in Players, NEW f, Posted(f),
         f.version = game'.version, p \notin f.exclude
  PROVE  CoveredFor(p)'
<1>1. game'.owner[p] \in Sockets /\ sockets'[game'.owner[p]].at \in Instances
  BY DEF FanoutTyped, GameTyped, Game, SocketsTyped, Socket
<1>2. f \in Frames(instances'[sockets'[game'.owner[p]].at].backlog)
  BY <1>1, PostedFrames DEF FanoutTyped
<1>3. FrameCarries(p)'
  BY <1>2 DEF FrameCarries
<1> QED
  BY <1>3 DEF CoveredFor

LEMMA PostStays ==
  ASSUME FanoutTyped, NEW f, Posted(f)
  PROVE  FramesStay
BY PostedFrames DEF FanoutTyped, Posted, FramesStay

LEMMA HandlersCovered ==
  ASSUME FanoutTyped, Served, Bounded, Covered, NEW s \in Sockets,
         HandlerWrites(s) \/ RollWrites(s) \/ HandlerSnapshot(s) \/ HandlerPublish(s),
         game'.round = "open"
  PROVE  Covered'
<1>0. GameTyped /\ SocketsTyped /\ InstancesTyped /\ FanoutTyped'
  BY TypeNext DEF FanoutTyped, FanoutNext
<1>1. CASE HandlerWrites(s)
  <2>1. sockets'[s].doing = "wrote" /\ sockets'[s].roll = sockets[s].roll
    BY <1>0, <1>1, WritesTurns DEF Turns
  <2>2. sockets[s].roll = "none"
    BY <1>1 DEF HandlerWrites, Does, Served
  <2> QED
    BY <2>1, <2>2, NewestCovers DEF Newest
<1>2. CASE RollWrites(s)
  <2>1. sockets'[s].doing = "wrote" /\ sockets'[s].roll # "late"
    BY <1>2, RollWritesDoes
  <2> QED
    BY <2>1, NewestCovers DEF Newest
<1>3. CASE HandlerSnapshot(s)
  <2>1. UNCHANGED instances /\ UNCHANGED rolls /\ game' = game /\ sockets[s].doing = "wrote"
    BY <1>3, Zenon DEF HandlerSnapshot
  <2>2. Turns(s, sockets[s].phase, "read", sockets[s].roll, game.version, sockets[s].shows)
    BY <1>0, <1>3, SnapshotTurns
  <2>3. Newest(s) => Newest(s)'
    BY <2>1, <2>2 DEF Newest, Turns
  <2>4. ShowsStay /\ NewestStay
    BY <2>1, <2>2, <2>3, TurnStays, UnchangedGame DEF Turns
  <2>5. FramesStay
    BY <2>1 DEF FramesStay
  <2> QED
    BY <2>1, <2>4, <2>5, CalmStays, AllStayCovered, UnchangedGame
<1>4. CASE HandlerPublish(s)
  <2> DEFINE new == [version |-> sockets[s].sees, exclude |-> {}]
  <2>1. Posted(new) /\ FramesStay
    BY <1>4, StepsPost, PostStays
  <2>2. /\ Only(s) /\ UNCHANGED rolls /\ game' = game
        /\ sockets[s].phase # "closed" => sockets'[s].at = sockets[s].at
        /\ sockets'[s].phase = sockets[s].phase /\ sockets'[s].shows = sockets[s].shows
        /\ sockets[s].doing = "read"
    BY <1>0, <1>4, RestTurns DEF HandlerPublish
  <2>3. CASE sockets[s].sees = game.version
    <3>1. new.version = game'.version /\ \A p \in Players : p \notin new.exclude
      BY <2>2, <2>3
    <3> HIDE DEF new
    <3>2. \A p \in Players : CoveredFor(p)'
      BY <1>0, <2>1, <3>1, PostCovers
    <3> QED
      BY <3>2 DEF Covered
  <2>4. CASE sockets[s].sees # game.version
    <3>1. ~Newest(s)
      BY <2>2, <2>4 DEF Newest
    <3>2. ShowsStay /\ NewestStay
      BY <2>2, <3>1, TurnStays, UnchangedGame
    <3> QED
      BY <2>1, <2>2, <3>2, CalmStays, AllStayCovered, UnchangedGame
  <2> QED
    BY <2>3, <2>4
<1> QED
  BY <1>1, <1>2, <1>3, <1>4

\* An answer: the roller has been shown what it saw, the others are told by the task that it
\* starts; one that came too late is older news by the time its round is over.
LEMMA ReplyCovered ==
  ASSUME FanoutTyped, Bounded, Covered, NEW s \in Sockets, Reply(s), game'.order = "kept"
  PROVE  Covered'
<1> DEFINE mine == sockets[s].player
<1>0. /\ sockets[s].sees \in Nat /\ sockets[s].shows \in Nat /\ game.version \in Nat
      /\ sockets[s].sees <= game.version /\ sockets[s].shows <= game.version
  BY DEF FanoutTyped, SocketsTyped, Socket, GameTyped, Game, Bounded
<1>1. SocketsTyped /\ UNCHANGED instances /\ sockets[s].doing = "read"
  BY Zenon DEF Reply, FanoutTyped
<1>2. /\ SameGame
      /\ sockets[s].phase = "open" => sockets[s].shows <= sockets[s].sees
      /\ sockets[s].roll # "late" => game.owner[mine] = s
  BY ReplyOrder DEF OnlyOrder, SameGame
<1>3. FramesStay
  BY <1>1 DEF FramesStay
<1>4. CASE sockets[s].phase = "open"
  <2>1. Turns(s, "open", "idle", "none", 0, sockets[s].sees)
    BY <1>1, <1>4, ReplyTurns, Zenon
  <2>2. /\ Only(s) /\ sockets'[s].phase = "open" /\ sockets'[s].at = sockets[s].at
        /\ sockets'[s].shows = sockets[s].sees
    BY <2>1 DEF Turns
  <2>3. sockets[s].shows = game.version => sockets'[s].shows = game.version
    BY <1>0, <1>2, <1>4, <2>2
  <2>4. ASSUME ~Newest(s) PROVE ShowsStay /\ NewestStay
    BY <1>2, <1>4, <2>2, <2>3, <2>4, TurnStays
  <2>5. CASE sockets[s].roll = "late" /\ UNCHANGED rolls
    <3>1. ~Newest(s)
      BY <1>1, <2>5 DEF Newest
    <3> QED
      BY <1>2, <1>3, <2>4, <2>5, <3>1, CalmStays, AllStayCovered
  <2>6. CASE /\ sockets[s].roll # "late"
             /\ \E r \in Rolls : /\ rolls[r].pc = "none" /\ OnlyRoll(r)
                                 /\ rolls'[r].pc = "exists" /\ rolls'[r].by = mine
    <3>1. PICK r \in Rolls : /\ rolls[r].pc = "none" /\ OnlyRoll(r)
                             /\ rolls'[r].pc = "exists" /\ rolls'[r].by = mine
      BY <2>6
    <3> HIDE DEF mine
    <3>2. CASE sockets[s].sees = game.version
      <4>1. ASSUME NEW p \in Players PROVE CoveredFor(p)'
        <5>1. CASE p = mine
          BY <1>2, <2>2, <2>6, <3>2, <5>1 DEF CoveredFor, SameGame
        <5>2. CASE p # mine
          <6>1. Carries(r, p)'
            BY <3>1, <5>2 DEF Carries
          <6> QED
            BY <6>1 DEF CoveredFor
        <5> QED
          BY <5>1, <5>2
      <4> QED
        BY <4>1 DEF Covered
    <3>3. CASE sockets[s].sees # game.version
      <4>1. ~Newest(s)
        BY <1>1, <3>3 DEF Newest
      <4>2. \A p \in Players : CarriesStay(p)
        BY <1>2, <3>1 DEF CarriesStay, Carries, OnlyRoll, SameGame
      <4> QED
        BY <1>3, <2>4, <4>1, <4>2, AllStayCovered
    <3> QED
      BY <3>2, <3>3
  <2>7. \/ sockets[s].roll = "late" /\ UNCHANGED rolls
        \/ \E r \in Rolls : /\ rolls[r].pc = "none" /\ OnlyRoll(r)
                            /\ rolls'[r].pc = "exists" /\ rolls'[r].by = mine
    BY <1>4, ReplyStarts
  <2>8. sockets[s].roll = "late" => UNCHANGED rolls
    BY <1>4 DEF Reply, Starts
  <2> QED
    BY <2>5, <2>6, <2>7, <2>8
<1>5. CASE sockets[s].phase # "open"
  <2>1. /\ UNCHANGED rolls /\ Turns(s, "broken", "closing", "none", 0, sockets[s].shows)
    BY <1>1, <1>5, ReplyTurns
  <2>2. CASE sockets[s].roll = "late"
    <3>1. ~Newest(s)
      BY <1>1, <2>2 DEF Newest
    <3>2. ShowsStay /\ NewestStay
      BY <1>2, <2>1, <3>1, TurnStays DEF Turns
    <3> QED
      BY <1>2, <1>3, <2>1, <3>2, CalmStays, AllStayCovered
  <2>3. CASE sockets[s].roll # "late"
    <3>1. Newest(s)'
      BY <1>2, <2>1, <2>3 DEF Newest, Turns, SameGame
    <3> QED
      BY <3>1, NewestCovers
  <2> QED
    BY <2>2, <2>3
<1> QED
  BY <1>4, <1>5

LEMMA SocketsCovered ==
  ASSUME FanoutTyped, Served, Bounded, Covered, NEW s \in Sockets,
         Claim(s) \/ Connect(s) \/ Break(s) \/ Close(s) \/ Mark(s)
  PROVE  Covered'
<1>0. GameTyped /\ SocketsTyped /\ InstancesTyped
  BY DEF FanoutTyped
<1>1. CASE Claim(s)
  <2>1. sockets'[s].doing = "claimed"
    BY <1>0, <1>1, ClaimTurns, Zenon
  <2> QED
    BY <2>1, NewestCovers DEF Newest
<1>2. ASSUME NEW from \in {"claimed", "marking"}, Does(s, from, "wrote") PROVE Covered'
  <2>1. sockets'[s].doing = "wrote" /\ sockets'[s].roll = sockets[s].roll
    BY <1>0, <1>2, PlainTurns DEF Turns
  <2>2. sockets[s].roll = "none"
    BY <1>2 DEF Does, Served
  <2> QED
    BY <2>1, <2>2, NewestCovers DEF Newest
<1>3. CASE Connect(s)
  BY <1>2, <1>3 DEF Connect
<1>4. CASE Break(s)
  <2>1. UNCHANGED instances /\ UNCHANGED rolls /\ game' = game /\ SameGame
    BY <1>4, UnchangedGame, Zenon DEF Break
  <2>2. Turns(s, "broken", sockets[s].doing, sockets[s].roll, sockets[s].sees, 0)
    BY <1>0, <1>4, PlainTurns
  <2>3. Newest(s) => Newest(s)'
    BY <2>1, <2>2 DEF Newest, Turns
  <2>4. ShowsStay /\ NewestStay
    BY <2>1, <2>2, <2>3, TurnStays DEF Turns
  <2>5. FramesStay
    BY <2>1 DEF FramesStay
  <2> QED
    BY <2>1, <2>4, <2>5, CalmStays, AllStayCovered
<1>5. CASE Close(s)
  <2>1. /\ UNCHANGED rolls /\ game' = game /\ SameGame /\ instances' = Unmapped(s)
        /\ sockets[s].doing \in {"idle", "closing"}
    BY <1>5, UnchangedGame, Zenon DEF Close
  <2>2. Turns(s, "closed", "marking", sockets[s].roll, sockets[s].sees, 0)
    BY <1>0, <1>5, PlainTurns
  <2>3. Newest(s) => Newest(s)'
    BY <2>1, <2>2 DEF Newest, Turns
  <2>4. ShowsStay /\ NewestStay
    BY <2>1, <2>2, <2>3, TurnStays DEF Turns
  <2>5. FramesStay
    BY <1>0, <2>1, UnmappedTyped DEF FramesStay, OnlyConnections
  <2> QED
    BY <2>1, <2>4, <2>5, CalmStays, AllStayCovered
<1>6. CASE Mark(s)
  <2>1. CASE Does(s, "marking", "wrote")
    BY <1>2, <2>1
  <2>2. CASE /\ sockets[s].doing = "marking" /\ game.owner[sockets[s].player] # s
             /\ sockets' = [sockets EXCEPT ![s] = Rested(s)] /\ UNCHANGED game
    <3>1. UNCHANGED instances /\ UNCHANGED rolls /\ SameGame
      BY <1>6, <2>2, UnchangedGame DEF Mark
    <3>2. /\ Only(s)
          /\ sockets[s].phase # "closed" => sockets'[s].at = sockets[s].at
          /\ sockets'[s].phase = sockets[s].phase /\ sockets'[s].shows = sockets[s].shows
      BY <1>0, <2>2, RestTurns
    <3>3. ~Newest(s)
      BY <2>2 DEF Newest
    <3>4. ShowsStay /\ NewestStay
      BY <3>1, <3>2, <3>3, TurnStays
    <3>5. FramesStay
      BY <3>1 DEF FramesStay
    <3> QED
      BY <3>1, <3>4, <3>5, CalmStays, AllStayCovered
  <2> QED
    BY <1>6, <2>1, <2>2 DEF Mark
<1> QED
  BY <1>1, <1>3, <1>4, <1>5, <1>6

LEMMA RollsCovered ==
  ASSUME FanoutTyped, Covered, NEW r \in Rolls,
         \/ Passes(r, "waiting", "woken") /\ UNCHANGED <<game, sockets, instances>>
         \/ Register(r) \/ RollSnapshot(r) \/ RollPublish(r) \/ AdvancePublish(r)
  PROVE  Covered'
<1>0. RollsTyped
  BY DEF FanoutTyped
<1>1. UNCHANGED sockets /\ UNCHANGED game /\ SameGame
  BY UnchangedGame DEF Register, RollSnapshot, RollPublish, AdvancePublish
<1>2. ShowsStay /\ NewestStay
  BY <1>1, CalmStays
<1>3. ASSUME NEW p \in Players, OnlyRoll(r), Carries(r, p) => Carries(r, p)'
      PROVE  CarriesStay(p)
  BY <1>1, <1>3 DEF CarriesStay, OnlyRoll, Carries
<1>4. CASE Passes(r, "waiting", "woken") /\ UNCHANGED <<game, sockets, instances>>
  <2>1. /\ OnlyRoll(r) /\ rolls'[r].by = rolls[r].by /\ rolls[r].pc = "waiting"
        /\ rolls'[r].pc = "woken"
    BY <1>0, <1>4, PassesDoes
  <2>2. \A p \in Players : CarriesStay(p)
    BY <1>3, <2>1 DEF Carries
  <2>3. FramesStay
    BY <1>4 DEF FramesStay
  <2> QED
    BY <1>2, <2>2, <2>3, AllStayCovered
<1>5. CASE Register(r)
  <2>1. /\ OnlyRoll(r) /\ rolls'[r].by = rolls[r].by /\ rolls[r].pc = "exists"
        /\ rolls'[r].pc = "waiting"
    BY <1>0, <1>5, PassesDoes DEF Register
  <2>2. \A p \in Players : CarriesStay(p)
    BY <1>3, <2>1 DEF Carries
  <2>3. FramesStay
    BY <1>5, RegisterDoes DEF FramesStay, OnlyAcks
  <2> QED
    BY <1>2, <2>2, <2>3, AllStayCovered
<1>6. CASE RollSnapshot(r)
  <2>1. /\ OnlyRoll(r) /\ rolls'[r].by = rolls[r].by /\ rolls[r].pc = "woken"
        /\ rolls'[r].pc = "read" /\ rolls'[r].sees = game'.version
    BY <1>1, <1>6, RollReads DEF RollSnapshot
  <2>2. \A p \in Players : CarriesStay(p)
    BY <1>3, <2>1 DEF Carries
  <2>3. FramesStay
    BY <1>6, ReleasedDoes DEF RollSnapshot, FramesStay, OnlyAcks
  <2> QED
    BY <1>2, <2>2, <2>3, AllStayCovered
<1>7. ASSUME NEW f, Posted(f), OnlyRoll(r),
             \A p \in Players : Carries(r, p) => f.version = game.version /\ p \notin f.exclude
      PROVE  Covered'
  <2>1. FramesStay
    BY <1>7, PostStays
  <2>2. ASSUME NEW p \in Players, CoveredFor(p) PROVE CoveredFor(p)'
    <3>1. CASE Carries(r, p)
      <4>1. f.version = game'.version /\ p \notin f.exclude
        BY <1>1, <1>7, <3>1
      <4>2. /\ game'.owner[p] = game.owner[p] /\ sockets' = sockets
            /\ game.owner[p] \in Sockets /\ sockets[game.owner[p]].at \in Instances
        BY <1>1, OwnerTyped
      <4>3. f \in Frames(instances'[sockets'[game'.owner[p]].at].backlog)
        BY <1>7, <4>2, PostedFrames DEF FanoutTyped
      <4>4. FrameCarries(p)'
        BY <4>1, <4>3 DEF FrameCarries
      <4> QED
        BY <4>4 DEF CoveredFor
    <3>2. CASE ~Carries(r, p)
      <4>1. CarriesStay(p)
        BY <1>3, <1>7, <3>2
      <4>2. FrameCarries(p) /\ sockets'[game.owner[p]].phase = "open" => FrameCarries(p)'
        BY <1>2, <2>1, FramesCarry
      <4> QED
        BY <1>2, <2>2, <4>1, <4>2, StaysCovered
    <3> QED
      BY <3>1, <3>2
  <2> QED
    BY <1>1, <2>2 DEF Covered
<1>8. CASE RollPublish(r)
  <2> DEFINE new == [version |-> rolls[r].sees, exclude |-> {Roller(r)}]
  <2>0. rolls[r].pc = "read"
    BY <1>8, Zenon DEF RollPublish
  <2>1. OnlyRoll(r) /\ Posted(new)
    BY <1>8, RollPublishes, StepsPost
  <2>2. \A p \in Players : Carries(r, p) => new.version = game.version /\ p \notin new.exclude
    BY <2>0 DEF Carries, Roller
  <2> HIDE DEF new
  <2> QED
    BY <1>7, <2>1, <2>2
<1>9. CASE AdvancePublish(r)
  <2> DEFINE new == [version |-> rolls[r].sees, exclude |-> {}]
  <2>0. rolls[r].pc = "fresh"
    BY <1>9, Zenon DEF AdvancePublish
  <2>1. OnlyRoll(r) /\ Posted(new)
    BY <1>9, RollPublishes, StepsPost
  <2>2. \A p \in Players : Carries(r, p) => new.version = game.version /\ p \notin new.exclude
    BY <2>0 DEF Carries
  <2> HIDE DEF new
  <2> QED
    BY <1>7, <2>1, <2>2
<1> QED
  BY <1>4, <1>5, <1>6, <1>8, <1>9

\* The advance that a win leads to tells everyone of all that was written before it, what
\* came too late included.
LEMMA AdvanceCovers ==
  ASSUME FanoutTyped, NEW r \in Rolls, Reopen(r) \/ Deal(r) \/ AdvanceSnapshot(r)
  PROVE  Covered'
<1>0. RollsTyped
  BY DEF FanoutTyped
<1>1. CASE Reopen(r) \/ Deal(r)
  <2>1. rolls'[r].pc \in {"reopened", "dealt"}
    BY <1>0, <1>1, PassesDoes DEF Reopen, Deal
  <2> QED
    BY <2>1 DEF Covered, CoveredFor, Carries
<1>2. CASE AdvanceSnapshot(r)
  <2>1. rolls'[r].pc = "fresh" /\ rolls'[r].sees = game'.version
    BY <1>2, RollReads DEF AdvanceSnapshot
  <2> QED
    BY <2>1 DEF Covered, CoveredFor, Carries
<1> QED
  BY <1>1, <1>2

\* A delivery begins: the frame goes to everyone it is for who is in the connections, so to
\* every seat's open socket of this instance that is past its claim.
LEMMA TakeCovered ==
  ASSUME FanoutTyped, Reachable, Covered, NEW i \in Instances, Take(i)
  PROVE  Covered'
<1>0. InstancesTyped
  BY DEF FanoutTyped
<1>1. UNCHANGED sockets /\ UNCHANGED game /\ UNCHANGED rolls /\ instances[i].todo = {}
  BY DEF Take
<1>2. /\ ShowsStay /\ NewestStay
      /\ \A p \in Players : CarriesStay(p)
  BY <1>1, CalmStays, UnchangedGame
<1> DEFINE head == Head(instances[i].backlog)
           local == {s \in Sockets : \E p \in Players \ head.exclude :
                                        instances[i].connections[p] = s}
<1>3. /\ instances[i].backlog \in Seq(Frame) /\ instances[i].backlog # <<>>
      /\ instances'[i].backlog = Tail(instances[i].backlog)
      /\ instances'[i].todo = local
      /\ instances'[i].frame = IF local = {} THEN NoFrame ELSE head
      /\ \A j \in Instances \ {i} : instances'[j] = instances[j]
  BY <1>0, TakeTyped, FrameTyped
<1>4. Frames(instances[i].backlog) = Frames(instances'[i].backlog) \cup {head}
  BY <1>3, TailFrames
<1>5. ASSUME NEW p \in Players \ game.crossed, FrameCarries(p),
             sockets[game.owner[p]].phase = "open"
      PROVE  CoveredFor(p)'
  <2> DEFINE s == game.owner[p]
             at == sockets[s].at
  <2>1. s \in Sockets /\ at \in Instances
    BY OwnerTyped
  <2>2. \/ \E f \in Frames(instances[at].backlog) : f.version = game.version /\ p \notin f.exclude
        \/ s \in instances[at].todo /\ instances[at].frame.version = game.version
    BY <1>5, CarriedAt
  <2>3. CASE at # i
    <3>1. instances'[at] = instances[at]
      BY <1>3, <2>1, <2>3
    <3>2. FrameCarries(p)'
      BY <1>1, <2>2, <3>1, CarriedThen
    <3> QED
      BY <3>2 DEF CoveredFor
  <2>4. CASE at = i /\ \E f \in Frames(instances'[i].backlog) :
                         f.version = game.version /\ p \notin f.exclude
    <3>1. FrameCarries(p)'
      BY <1>1, <2>4 DEF FrameCarries
    <3> QED
      BY <3>1 DEF CoveredFor
  <2>5. CASE at = i /\ head.version = game.version /\ p \notin head.exclude
    <3>1. CASE sockets[s].doing = "claimed"
      <4>1. \E u \in Sockets : Newest(u)'
        BY <1>1, <2>1, <3>1 DEF Newest
      <4> QED
        BY <4>1 DEF CoveredFor
    <3>2. CASE sockets[s].doing # "claimed"
      <4>1. instances[i].connections[p] = s
        BY <1>5, <2>5, <3>2 DEF Reachable
      <4>2. s \in local
        BY <2>1, <2>5, <4>1
      <4>3. s \in instances'[i].todo /\ instances'[i].frame = head
        BY <1>3, <4>2
      <4>4. FrameCarries(p)'
        BY <1>1, <2>5, <4>3 DEF FrameCarries
      <4> QED
        BY <4>4 DEF CoveredFor
    <3> QED
      BY <3>1, <3>2
  <2> QED
    BY <1>1, <1>4, <2>2, <2>3, <2>4, <2>5
<1>6. ASSUME NEW p \in Players \ game.crossed PROVE CoveredFor(p)'
  <2>1. CASE FrameCarries(p) /\ sockets[game.owner[p]].phase = "open"
    BY <1>5, <2>1
  <2>2. CASE ~(FrameCarries(p) /\ sockets[game.owner[p]].phase = "open")
    <3>1. ~(FrameCarries(p) /\ sockets'[game.owner[p]].phase = "open")
      BY <1>1, <2>2
    <3> QED
      BY <1>2, <3>1, StaysCovered DEF Covered
  <2> QED
    BY <2>1, <2>2
<1> QED
  BY <1>1, <1>6 DEF Covered

LEMMA SendCovered ==
  ASSUME FanoutTyped, Bounded, Covered, game'.order = "kept",
         NEW i \in Instances, NEW t \in Sockets, Send(i, t)
  PROVE  Covered'
<1>0. GameTyped /\ SocketsTyped /\ InstancesTyped
  BY DEF FanoutTyped
<1>1. /\ OnlyOrder /\ rolls' = rolls
      /\ \A j \in Instances \ {i} : instances'[j] = instances[j]
      /\ instances'[i].backlog = instances[i].backlog
      /\ t \in instances[i].todo /\ instances'[i].todo = instances[i].todo \ {t}
      /\ instances[i].todo # {t} => instances'[i].frame = instances[i].frame
      /\ sockets[t].phase = "open" => sockets[t].shows <= instances[i].frame.version
      /\ IF sockets[t].phase = "open"
         THEN Turns(t, "open", sockets[t].doing, sockets[t].roll, sockets[t].sees,
                    instances[i].frame.version)
         ELSE sockets' = sockets
  BY SendDoes
<1>2. SameGame /\ game'.version = game.version /\ game'.owner = game.owner
  BY <1>1 DEF OnlyOrder, SameGame
<1>3. \A p \in Players : CarriesStay(p)
  BY <1>1, <1>2, CalmStays
<1>4. ShowsStay /\ NewestStay
  <2>1. CASE sockets[t].phase = "open"
    <3>1. instances[i].frame \in Frame /\ instances[i].frame.version <= game.version
      BY <1>0, FrameTyped DEF Bounded
    <3>2. sockets[t].shows = game.version => instances[i].frame.version = game.version
      BY <1>0, <1>1, <2>1, <3>1 DEF Frame, GameTyped, Game
    <3>3. Turns(t, "open", sockets[t].doing, sockets[t].roll, sockets[t].sees,
                instances[i].frame.version)
      BY <1>1, <2>1
    <3>4. Newest(t) => Newest(t)'
      BY <1>2, <3>3 DEF Newest, Turns
    <3> QED
      BY <1>2, <2>1, <3>2, <3>3, <3>4, TurnStays DEF Turns
  <2>2. CASE sockets[t].phase # "open"
    BY <1>1, <1>2, <2>2, CalmStays
  <2> QED
    BY <2>1, <2>2
<1>5. ASSUME NEW p \in Players, FrameCarries(p), sockets'[game.owner[p]].phase = "open"
      PROVE  CoveredFor(p)'
  <2> DEFINE s == game.owner[p]
             at == sockets[s].at
  <2>1. s \in Sockets /\ at \in Instances
    BY OwnerTyped
  <2>2. \/ \E f \in Frames(instances[at].backlog) : f.version = game.version /\ p \notin f.exclude
        \/ s \in instances[at].todo /\ instances[at].frame.version = game.version
    BY <1>5, CarriedAt
  <2>3. sockets[s].phase = "open" /\ sockets'[s].at = at /\ game'.owner[p] = s
    BY <1>2, <1>4, <1>5, <2>1 DEF ShowsStay
  <2>4. CASE at # i
    <3>1. instances'[at] = instances[at]
      BY <1>1, <2>1, <2>4
    <3>2. FrameCarries(p)'
      BY <1>2, <2>2, <2>3, <3>1, CarriedThen
    <3> QED
      BY <3>2 DEF CoveredFor
  <2>5. CASE at = i /\ \E f \in Frames(instances[i].backlog) :
                         f.version = game.version /\ p \notin f.exclude
    <3>1. FrameCarries(p)'
      BY <1>1, <1>2, <2>3, <2>5 DEF FrameCarries
    <3> QED
      BY <3>1 DEF CoveredFor
  <2>6. CASE at = i /\ s \in instances[i].todo /\ instances[i].frame.version = game.version
    <3>1. CASE s = t
      <4>1. sockets'[s].shows = game'.version
        BY <1>1, <1>2, <2>3, <2>6, <3>1 DEF Turns
      <4> QED
        BY <2>3, <4>1 DEF CoveredFor
    <3>2. CASE s # t
      <4>1. s \in instances'[i].todo /\ instances'[i].frame = instances[i].frame
        BY <1>1, <2>6, <3>2
      <4>2. FrameCarries(p)'
        BY <1>2, <2>3, <2>6, <4>1 DEF FrameCarries
      <4> QED
        BY <4>2 DEF CoveredFor
    <3> QED
      BY <3>1, <3>2
  <2> QED
    BY <2>2, <2>4, <2>5, <2>6
<1>6. ASSUME NEW p \in Players \ game.crossed PROVE CoveredFor(p)'
  <2>1. CASE FrameCarries(p) /\ sockets'[game.owner[p]].phase = "open"
    BY <1>5, <2>1
  <2>2. CASE ~(FrameCarries(p) /\ sockets'[game.owner[p]].phase = "open")
    BY <1>3, <1>4, <2>2, StaysCovered DEF Covered
  <2> QED
    BY <2>1, <2>2
<1> QED
  BY <1>2, <1>6 DEF Covered, SameGame

LEMMA CoveredNext ==
  ASSUME FanoutTyped, Reachable, Served, Bounded, game.round = "open" => Covered,
         FanoutNext, game'.order = "kept", game'.round = "open"
  PROVE  Covered'
<1>1. ASSUME NEW r \in Rolls, Reopen(r) \/ Deal(r) \/ AdvanceSnapshot(r) PROVE Covered'
  BY <1>1, AdvanceCovers
<1>2. CASE game.round = "over"
  <2>1. game'.round # game.round
    BY <1>2
  <2>10. \A s \in Sockets : ~RollWrites(s)
    BY <1>2, RollWritesDoes
  <2>2. \A s \in Sockets : HandlerWrites(s) \/ Mark(s) => game'.round = game.round
    BY WriteTyped DEF HandlerWrites, Mark, Write
  <2>3. \A s \in Sockets : Reply(s) => game'.round = game.round
    BY ReplyOrder DEF OnlyOrder
  <2>4. \A s \in Sockets : Claim(s) => game'.round = game.round
    BY ClaimTurns, ClaimOwns, Zenon DEF FanoutTyped
  <2>5. \A s \in Sockets : Connect(s) => game'.round = game.round
    BY ConnectTyped
  <2>6. \A i \in Instances, s \in Sockets : Send(i, s) => game'.round = game.round
    BY SendDoes DEF OnlyOrder
  <2>7. ASSUME NEW s \in Sockets,
               \/ HandlerSnapshot(s) \/ HandlerPublish(s) \/ Break(s) \/ Close(s) \/ RollDone(s)
        PROVE  game' = game
    BY <2>7 DEF HandlerSnapshot, HandlerPublish, Break, Close, RollDone
  <2>8. ASSUME NEW r \in Rolls,
               \/ Register(r) \/ AckTimeout(r) \/ RollSnapshot(r) \/ RollPublish(r)
               \/ AdvancePublish(r)
        PROVE  game' = game
    BY <2>8 DEF Register, AckTimeout, RollSnapshot, RollPublish, AdvancePublish
  <2>9. \A i \in Instances : Take(i) => game' = game
    BY DEF Take
  <2> QED
    <3>1. \E r \in Rolls : Reopen(r) \/ Deal(r) \/ AdvanceSnapshot(r)
      BY <2>1, <2>2, <2>3, <2>4, <2>5, <2>6, <2>7, <2>8, <2>9, <2>10, Zenon DEF FanoutNext
    <3> QED
      BY <1>1, <3>1
<1>3. CASE Covered
  <2>1. ASSUME NEW s \in Sockets,
               HandlerWrites(s) \/ RollWrites(s) \/ HandlerSnapshot(s) \/ HandlerPublish(s)
        PROVE  Covered'
    BY <1>3, <2>1, HandlersCovered
  <2>2. ASSUME NEW s \in Sockets, Reply(s) PROVE Covered'
    BY <1>3, <2>2, ReplyCovered
  <2>3. ASSUME NEW s \in Sockets, Claim(s) \/ Connect(s) \/ Break(s) \/ Close(s) \/ Mark(s)
        PROVE  Covered'
    BY <1>3, <2>3, SocketsCovered
  <2>4. ASSUME NEW s \in Sockets, RollDone(s) PROVE Covered'
    <3>1. PICK r : r # NoRoll /\ Passes(r, "waiting", "woken")
                   /\ r = instances[sockets[s].at].acks[sockets[s].player]
      BY <2>4 DEF RollDone
    <3>2. r \in Rolls
      BY <3>1 DEF FanoutTyped, SocketsTyped, Socket, InstancesTyped, Instance
    <3> QED
      BY <1>3, <2>4, <3>1, <3>2, RollsCovered DEF RollDone
  <2>5. ASSUME NEW r \in Rolls,
               \/ Register(r) \/ AckTimeout(r) \/ RollSnapshot(r) \/ RollPublish(r)
               \/ AdvancePublish(r)
        PROVE  Covered'
    BY <1>3, <2>5, RollsCovered DEF AckTimeout
  <2>6. ASSUME NEW i \in Instances, Take(i) PROVE Covered'
    BY <1>3, <2>6, TakeCovered
  <2>7. ASSUME NEW i \in Instances, NEW s \in Sockets, Send(i, s) PROVE Covered'
    BY <1>3, <2>7, SendCovered
  <2> QED
    BY <1>1, <2>1, <2>2, <2>3, <2>4, <2>5, <2>6, <2>7 DEF FanoutNext
<1>4. game.round \in {"open", "over"}
  BY DEF FanoutTyped, GameTyped, Game
<1> QED
  BY <1>2, <1>3, <1>4

-----------------------------------------------------------------------------
(* The invariant.                                                          *)

\* Frames may be out of order, or the round over: then not everyone need be covered, but who
\* is seated is reachable all the same.
FanoutInv ==
  /\ FanoutTyped /\ Acked /\ Seated /\ Served /\ Bounded
  /\ game.order = "kept" /\ game.round = "open" => Covered

\* The players start on sockets of their own.
LEMMA FirstIs ==
  /\ First \in [Players -> Sockets]
  /\ \A p, q \in Players : First[p] = First[q] => p = q
<1> DEFINE n == Cardinality(Players)
           Apart(first) == \A p, q \in Players : first[p] = first[q] => p = q
<1>1. n \in Nat /\ n <= MaxSockets /\ MaxSockets \in Nat /\ ExistsBijection(1..n, Players)
  BY FanoutConstants, FS_CardinalityType
<1>2. ExistsBijection(Players, 1..n)
  BY <1>1, Fun_ExistsBijSymmetric
<1> HIDE DEF n
<1>3. PICK f \in [Players -> 1..n] : Apart(f)
  BY <1>2 DEF ExistsBijection, Bijection, Injection, IsInjective
<1> HIDE DEF Apart
<1>4. First = CHOOSE first \in [Players -> 1..n] : Apart(first)
  BY DEF First, n, Apart
<1>5. First \in [Players -> 1..n] /\ Apart(First)
  BY <1>3, <1>4
<1>6. 1..n \subseteq Sockets
  BY <1>1 DEF Sockets
<1>7. First \in [Players -> Sockets]
  BY <1>5, <1>6
<1> QED
  BY <1>5, <1>7 DEF Apart

LEMMA InitHolds == FanoutInit => FanoutInv
<1> SUFFICES ASSUME FanoutInit PROVE FanoutInv
  OBVIOUS
<1> DEFINE Owned(s) == \E p \in Players : First[p] = s
           HolderOf(s) == CHOOSE q \in Players : First[q] = s
<1>1. PICK home \in [Players -> Instances] :
        /\ \E p \in Players : First[p] = 1 /\ home[p] = Somewhere
        /\ game = [version |-> 0, owner |-> First, round |-> "open", crossed |-> {},
                   order |-> "kept"]
        /\ sockets = [s \in Sockets |->
             IF Owned(s)
             THEN [phase |-> "open", player |-> HolderOf(s), at |-> home[HolderOf(s)],
                   doing |-> "idle", roll |-> "none", sees |-> 0, shows |-> 0]
             ELSE [phase |-> "none", player |-> Somebody, at |-> Somewhere,
                   doing |-> "idle", roll |-> "none", sees |-> 0, shows |-> 0]]
        /\ instances = [i \in Instances |->
             [connections |-> [p \in Players |-> IF home[p] = i THEN First[p] ELSE NoSocket],
              acks |-> [p \in Players |-> NoRoll], latest |-> [p \in Players |-> NoRoll],
              backlog |-> <<>>, frame |-> NoFrame, todo |-> {}, dead |-> {}]]
        /\ rolls = [r \in Rolls |-> [pc |-> "none", by |-> Somebody, at |-> Somewhere,
                                     win |-> FALSE, sees |-> 0]]
  BY DEF FanoutInit
<1>2. Somebody \in Players /\ Somewhere \in Instances
  BY <1>1, SomebodyIs, SomewhereIs
<1>3. \A p \in Players : /\ First[p] \in Sockets /\ Owned(First[p]) /\ HolderOf(First[p]) = p
                         /\ home[p] \in Instances
  BY FirstIs
<1>4. \A s \in Sockets : Owned(s) => HolderOf(s) \in Players /\ home[HolderOf(s)] \in Instances
  OBVIOUS
<1>5. GameTyped
  BY <1>1, FirstIs DEF GameTyped, Game
<1> HIDE DEF Owned, HolderOf
<1>6. SocketsTyped
  BY <1>1, <1>2, <1>4 DEF SocketsTyped, Socket
<1>7. InstancesTyped
  <2>1. ASSUME NEW i \in Instances PROVE instances[i] \in Instance
    <3>1. [p \in Players |-> IF home[p] = i THEN First[p] ELSE NoSocket]
            \in [Players -> Sockets \cup {NoSocket}]
      BY <1>3
    <3>2. [p \in Players |-> NoRoll] \in [Players -> Rolls \cup {NoRoll}]
      OBVIOUS
    <3>3. <<>> \in Seq(Frame) /\ NoFrame \in Frame
      BY DEF NoFrame, Frame
    <3> QED
      BY <1>1, <3>1, <3>2, <3>3 DEF Instance
  <2> QED
    BY <1>1, <2>1 DEF InstancesTyped
<1>8. RollsTyped
  BY <1>1, <1>2 DEF RollsTyped, Delayed
<1>9. Acked
  BY <1>1 DEF Acked
<1>10. \A p \in Players : /\ game.owner[p] = First[p]
                          /\ sockets[First[p]].player = p /\ sockets[First[p]].at = home[p]
                          /\ sockets[First[p]].phase = "open"
                          /\ sockets[First[p]].shows = 0
  BY <1>1, <1>3
<1>11. \A i \in Instances, p \in Players :
         instances[i].connections[p] = IF home[p] = i THEN First[p] ELSE NoSocket
  BY <1>1
<1>12. /\ game.version = 0
       /\ \A s \in Sockets : /\ sockets[s].doing = "idle" /\ sockets[s].roll = "none"
                             /\ sockets[s].sees = 0 /\ sockets[s].shows = 0
       /\ \A r \in Rolls : rolls[r].sees = 0
       /\ \A i \in Instances : /\ instances[i].backlog = <<>> /\ instances[i].frame.version = 0
                               /\ instances[i].todo = {} /\ instances[i].dead = {}
  BY <1>1 DEF NoFrame
<1>13. Mapped
  BY <1>3, <1>10, <1>11, <1>12 DEF Mapped
<1>14. OwnerIs /\ Claiming /\ Served
  BY <1>10, <1>12 DEF OwnerIs, Claiming, Served
<1>17. Reachable
  BY <1>3, <1>10, <1>11 DEF Reachable
<1>18. Spared /\ NoneDead
  BY <1>3, <1>10, <1>12 DEF Spared, NoneDead
<1>15. Bounded
  BY <1>12 DEF Bounded, Frames
<1>16. Covered
  BY <1>10, <1>12 DEF Covered, CoveredFor
<1> QED
  BY <1>5, <1>6, <1>7, <1>8, <1>9, <1>13, <1>14, <1>15, <1>16, <1>17, <1>18
     DEF FanoutInv, FanoutTyped, Seated

LEMMA OrderNext ==
  ASSUME FanoutTyped, FanoutNext
  PROVE  game'.order = "kept" => game.order = "kept"
<1>1. ASSUME NEW s \in Sockets, HandlerWrites(s) \/ Mark(s) PROVE game'.order = game.order
  BY <1>1, WriteTyped DEF HandlerWrites, Mark, Write
<1>2. ASSUME NEW s \in Sockets, RollWrites(s) \/ Connect(s) PROVE game'.order = game.order
  BY <1>2, RollWritesDoes, ConnectTyped
<1>3. ASSUME NEW s \in Sockets, Claim(s) PROVE game'.order = game.order
  <2>1. PICK p \in Players : game' = [game EXCEPT !.version = @ + 1, !.owner[p] = s]
    BY <1>3, ClaimTurns, Zenon DEF FanoutTyped
  <2> QED
    BY <2>1, ClaimOwns, Zenon
<1>4. ASSUME NEW s \in Sockets, Reply(s)
      PROVE  game'.order = "kept" => game.order = "kept"
  BY <1>4, ReplyOrder DEF OnlyOrder
<1>5. ASSUME NEW i \in Instances, NEW s \in Sockets, Send(i, s)
      PROVE  game'.order = "kept" => game.order = "kept"
  BY <1>5, SendDoes DEF OnlyOrder
<1>6. ASSUME NEW s \in Sockets,
             \/ HandlerSnapshot(s) \/ HandlerPublish(s) \/ Break(s) \/ Close(s) \/ RollDone(s)
      PROVE  game' = game
  BY <1>6 DEF HandlerSnapshot, HandlerPublish, Break, Close, RollDone
<1>7. ASSUME NEW r \in Rolls,
             \/ Register(r) \/ AckTimeout(r) \/ RollSnapshot(r) \/ RollPublish(r)
             \/ AdvanceSnapshot(r) \/ AdvancePublish(r)
      PROVE  game' = game
  BY <1>7 DEF Register, AckTimeout, RollSnapshot, RollPublish, AdvanceSnapshot, AdvancePublish
<1>8. ASSUME NEW r \in Rolls, Reopen(r) \/ Deal(r) PROVE game'.order = game.order
  BY <1>8, ReopenTyped, WriteTyped DEF Reopen, Deal
<1>9. ASSUME NEW i \in Instances, Take(i) PROVE game' = game
  BY <1>9 DEF Take
<1> QED
  BY <1>1, <1>2, <1>3, <1>4, <1>5, <1>6, <1>7, <1>8, <1>9 DEF FanoutNext

LEMMA InvNext == FanoutInv /\ [FanoutNext]_fanoutVars => FanoutInv'
<1> SUFFICES ASSUME FanoutInv, [FanoutNext]_fanoutVars PROVE FanoutInv'
  OBVIOUS
<1>1. CASE FanoutNext
  <2>1. FanoutTyped' /\ Acked' /\ Seated' /\ Served' /\ Bounded'
    BY <1>1, TypeNext, AckedNext, SeatedNext, ServedNext, BoundedNext DEF FanoutInv
  <2>2. game'.order = "kept" => game.order = "kept"
    BY <1>1, OrderNext DEF FanoutInv
  <2>3. ASSUME game'.order = "kept", game'.round = "open" PROVE Covered'
    <3>1. game.round = "open" => Covered
      BY <2>2, <2>3 DEF FanoutInv
    <3> QED
      BY <1>1, <2>3, <3>1, CoveredNext DEF FanoutInv, Seated
  <2> QED
    BY <2>1, <2>3 DEF FanoutInv
<1>2. CASE UNCHANGED fanoutVars
  <2>1. UNCHANGED game /\ UNCHANGED sockets /\ UNCHANGED instances /\ UNCHANGED rolls
    BY <1>2 DEF fanoutVars
  <2>2. FanoutTyped' /\ Acked'
    BY <2>1 DEF FanoutInv, FanoutTyped, GameTyped, SocketsTyped, InstancesTyped, RollsTyped, Acked
  <2>3. Seated => Seated'
    <3>1. Mapped /\ OwnerIs /\ Claiming => Mapped' /\ OwnerIs' /\ Claiming'
      BY <2>1 DEF Mapped, OwnerIs, Claiming, Serving
    <3>2. Reachable /\ Spared /\ NoneDead => Reachable' /\ Spared' /\ NoneDead'
      BY <2>1 DEF Reachable, Spared, NoneDead
    <3> QED
      BY <3>1, <3>2 DEF Seated
  <2>4. Served => Served'
    BY <2>1 DEF Served
  <2>5. Bounded => Bounded'
    BY <2>1 DEF Bounded
  <2>6. Covered => Covered'
    BY <2>1 DEF Covered, CoveredFor, Newest, Carries, FrameCarries
  <2> QED
    BY <2>1, <2>2, <2>3, <2>4, <2>5, <2>6 DEF FanoutInv
<1> QED
  BY <1>1, <1>2

LEMMA InvHolds == FanoutSpec => []FanoutInv
BY InitHolds, InvNext, PTL DEF FanoutSpec

\* Whoever holds a seat on an open socket, and has got past the claim, is in its instance's
\* connections, in whatever order the older sockets of the player close and deliveries meet
\* them, unless the connection itself met one of them there (crossed): the check of ws.py's
\* finally block, and the clean-up of fanout.py's _deliver.
THEOREM ReachableKept == FanoutSpec => []Reachable
<1>1. FanoutInv => Reachable
  BY DEF FanoutInv, Seated
<1> QED
  BY <1>1, InvHolds, PTL

\* Once everything has been sent, and a round that was won has been followed by the next,
\* every player who is reachable sees the newest version: a frame that leaves someone out
\* leaves out only who has been shown it, or a newer one is on its way; what a roll wrote too
\* late, which only its player is told, goes out with the advance (ws.py's handlers and
\* handle_roll, broadcast.py's delayed_broadcast and advance_round, fanout.py's _deliver).
THEOREM EveryoneCaughtUp == FanoutSpec => []CaughtUp
<1>1. ASSUME FanoutInv, game.order = "kept", Settled, NEW p \in Players \ game.crossed,
             sockets[game.owner[p]].phase = "open"
      PROVE  sockets[game.owner[p]].shows = game.version
  <2>1. CoveredFor(p) /\ FanoutTyped
    BY <1>1 DEF FanoutInv, Covered, Settled
  <2>2. sockets[game.owner[p]].at \in Instances
    BY <2>1, OwnerTyped
  <2>3. \A u \in Sockets : ~Newest(u)
    BY <1>1 DEF Settled, Newest
  <2>4. \A r \in Rolls : ~Carries(r, p)
    BY <1>1 DEF Settled, Carries
  <2>5. ~FrameCarries(p)
    BY <1>1, <2>2 DEF Settled, FrameCarries, Frames
  <2> QED
    BY <1>1, <2>1, <2>3, <2>4, <2>5 DEF CoveredFor
<1>2. FanoutInv => CaughtUp
  BY <1>1 DEF CaughtUp
<1> QED
  BY <1>2, InvHolds, PTL

\* The wait that a player's roll registered last is the one roll_done ends: the release of an
\* older roll's wait leaves the newer one's entry alone (ws.py's delayed_broadcast).
THEOREM LatestKept == FanoutSpec => []LatestCanBeAcked
<1>1. FanoutInv => LatestCanBeAcked
  BY DEF FanoutInv, Acked, LatestCanBeAcked
<1> QED
  BY <1>1, InvHolds, PTL

===============================================================================
