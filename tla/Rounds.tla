-------------------------------- MODULE Rounds --------------------------------
(***************************************************************************)
(* The rounds of one started game: the roll, start and pause handlers of   *)
(* server/ws.py, and delayed_broadcast and advance_round of                *)
(* server/broadcast.py, over the round half of the game's Redis hash       *)
(* (server/gamestore.py).  As in Seats, an action is what a coroutine does *)
(* from one Redis call to the next, and everything interleaves.            *)
(*                                                                         *)
(* The players are those of the roster; they keep their seats (Seats).  A  *)
(* player may have several connections: its old one lives on for a while   *)
(* beside the one that reconnects.  A connection that ends comes back as a *)
(* new one that has nothing under way, so none is ever removed.            *)
(***************************************************************************)
EXTENDS Integers, FiniteSets, Functions

CONSTANTS Conns,       \* connections
          Players,     \* the roster
          Owner,       \* the player of each connection
          Host,        \* the player who holds the host role
          Dice,        \* ten in the code
          None,        \* no connection
          MaxRounds,   \* bound: no roll is begun in this round or later
          MaxToggles,  \* bound: how often the pause control is used
          MaxFails     \* bound: crashes and failed sends

ASSUME RoundsAssumption ==
  /\ IsFiniteSet(Conns)
  /\ IsFiniteSet(Players)
  /\ Owner \in [Conns -> Players]
  /\ Host \in Players
  /\ None \notin Conns
  /\ {MaxRounds, MaxToggles, MaxFails} \subseteq Nat

VARIABLES game,     \* the scalars of the hash
          hand,     \* p:{pid}:dice and :locked: what each locked die shows
          recent,   \* players whose last roll is within MIN_ROLL_INTERVAL
          wins,     \* p:{pid}:wins
          conn,     \* per connection: its place in a handler, its locals
          tasks,    \* delayed_broadcast tasks of wins, and advances under way
          toggles,  \* uses of the pause control so far
          fails     \* crashes and failed sends so far

vars == <<game, hand, recent, wins, conn, tasks, toggles, fails>>

-----------------------------------------------------------------------------
Targets == 1..6

Unlocked == 0

\* The dice a player holds.  Whatever an unlocked die shows is rolled away.
Hand == [Dice -> Targets \cup {Unlocked}]

NoLocks == [d \in Dice |-> Unlocked]

Free(h) == {d \in Dice : h[d] = Unlocked}

\* dealt: the first deal has been written, dice is no longer the empty list.
Game == [started : BOOLEAN, dealt : BOOLEAN, paused : BOOLEAN, over : BOOLEAN,
         num : Nat \ {0}, target : Targets, pending : BOOLEAN]

Pcs == {"idle", "roll", "write", "finish", "wins", "send", "start", "pause",
        "resume", "pop", "clear", "await"}

\* seen, target and hand are handle_roll's locals: the round and its target as
\* first read, the dice as rolled.  won is the round it has claimed.
Conn == [pc : Pcs, seen : Nat, target : Targets, hand : Hand, won : Nat]

NoHandler == [pc |-> "idle", seen |-> 0, target |-> 1, hand |-> NoLocks, won |-> 0]

(***************************************************************************)
(* A delayed_broadcast task waits for the reveal and the win delay         *)
(* ("wait"), then records the deferral ("defer") or goes through           *)
(* advance_round: about to read the round ("meta"), to write the next one  *)
(* ("bump"), to deal ("deal").  by is the connection that awaits a resume's *)
(* advance or a start's deal, None for a task.                             *)
(***************************************************************************)
Task == [by : Conns \cup {None}, round : Nat, target : Targets,
         st : {"wait", "defer", "meta", "bump", "deal"}]

TypeOK ==
  /\ game \in Game
  /\ hand \in [Players -> Hand]
  /\ recent \in SUBSET Players
  /\ wins \in [Players -> Nat]
  /\ conn \in [Conns -> Conn]
  /\ tasks \in SUBSET Task
  /\ toggles \in Nat
  /\ fails \in Nat

Init ==
  /\ game = [started |-> FALSE, dealt |-> FALSE, paused |-> FALSE, over |-> FALSE,
             num |-> 1, target |-> 1, pending |-> FALSE]
  /\ hand = [p \in Players |-> NoLocks]
  /\ recent = {}
  /\ wins = [p \in Players |-> 0]
  /\ conn = [c \in Conns |-> NoHandler]
  /\ tasks = {}
  /\ toggles = 0
  /\ fails = 0

At(c, pc) == conn[c].pc = pc

Goto(c, pc) == conn' = [conn EXCEPT ![c].pc = pc]

Return(c) == conn' = [conn EXCEPT ![c] = NoHandler]

\* The target climbs from 1 to 6 and back down, ten rounds to the wave.
TargetForRound(n) ==
  LET m == (n - 1) % 10 IN IF m <= 5 THEN m + 1 ELSE 11 - m

-----------------------------------------------------------------------------
(* Rolling.                                                                *)

RollRead(c) ==
  /\ At(c, "idle")
  /\ game.started
  /\ ~game.over
  /\ ~game.paused
  /\ game.num < MaxRounds
  /\ conn' = [conn EXCEPT ![c].pc = "roll", ![c].seen = game.num, ![c].target = game.target]
  /\ UNCHANGED <<game, hand, recent, wins, tasks, toggles, fails>>

\* Too soon after the last roll, or before the first deal, when apply_roll
\* runs off the empty list and the connection ends.
RollRefused(c) ==
  /\ At(c, "roll")
  /\ Owner[c] \in recent \/ ~game.dealt
  /\ Return(c)
  /\ UNCHANGED <<game, hand, recent, wins, tasks, toggles, fails>>

\* Mutant: a roll that starts from an empty board.
RollPlayerAfresh(c, matches) ==
  /\ At(c, "roll")
  /\ Owner[c] \notin recent
  /\ game.dealt
  /\ conn' = [conn EXCEPT ![c].pc = "write",
                ![c].hand = [d \in Dice |-> IF d \in matches THEN conn[c].target
                                            ELSE Unlocked]]
  /\ UNCHANGED <<game, hand, recent, wins, tasks, toggles, fails>>

\* get_player, and apply_roll on the copy: some of the free dice match.
RollPlayer(c, matches) ==
  /\ At(c, "roll")
  /\ Owner[c] \notin recent
  /\ game.dealt
  /\ matches \subseteq Free(hand[Owner[c]])
  /\ conn' = [conn EXCEPT ![c].pc = "write",
                ![c].hand = [d \in Dice |-> IF d \in matches THEN conn[c].target
                                            ELSE hand[Owner[c]][d]]]
  /\ UNCHANGED <<game, hand, recent, wins, tasks, toggles, fails>>

\* set_player_after_roll.  The roll that does not win sends its snapshot and
\* leaves the rest of the table to a delayed broadcast without effect here.
RollWrite(c) ==
  /\ At(c, "write")
  /\ hand' = [hand EXCEPT ![Owner[c]] = conn[c].hand]
  /\ recent' = recent \cup {Owner[c]}
  /\ IF Free(conn[c].hand) = {} THEN Goto(c, "finish") ELSE Return(c)
  /\ UNCHANGED <<game, wins, tasks, toggles, fails>>

\* Mutant: the round is claimed without looking whether it is open.
ClaimUnchecked(c) ==
  /\ At(c, "finish")
  /\ game' = [game EXCEPT !.over = TRUE]
  /\ conn' = [conn EXCEPT ![c].pc = "wins", ![c].won = game.num]
  /\ UNCHANGED <<hand, recent, wins, tasks, toggles, fails>>

\* _FINISH_LUA lets one connection through.
ClaimWin(c) ==
  /\ At(c, "finish")
  /\ ~game.over
  /\ game' = [game EXCEPT !.over = TRUE]
  /\ conn' = [conn EXCEPT ![c].pc = "wins", ![c].won = game.num]
  /\ UNCHANGED <<hand, recent, wins, tasks, toggles, fails>>

\* Mutant: the one who comes second is credited too.
ClaimLostCredits(c) ==
  /\ At(c, "finish")
  /\ game.over
  /\ Goto(c, "wins")
  /\ UNCHANGED <<game, hand, recent, wins, tasks, toggles, fails>>

ClaimLost(c) ==
  /\ At(c, "finish")
  /\ game.over
  /\ Return(c)
  /\ UNCHANGED <<game, hand, recent, wins, tasks, toggles, fails>>

CreditWin(c) ==
  /\ At(c, "wins")
  /\ wins' = [wins EXCEPT ![Owner[c]] = @ + 1]
  /\ Goto(c, "send")
  /\ UNCHANGED <<game, hand, recent, tasks, toggles, fails>>

\* The winner is told, then the task that will tell the others is created.
AnnounceWin(c) ==
  /\ At(c, "send")
  /\ tasks' = tasks \cup {[by |-> None, round |-> conn[c].won, target |-> 1, st |-> "wait"]}
  /\ Return(c)
  /\ UNCHANGED <<game, hand, recent, wins, toggles, fails>>

\* The winner's socket is gone: the send raises and no task is created.
SendFails(c) ==
  /\ At(c, "send")
  /\ fails < MaxFails
  /\ fails' = fails + 1
  /\ Return(c)
  /\ UNCHANGED <<game, hand, recent, wins, tasks, toggles>>

IntervalElapses(p) ==
  /\ p \in recent
  /\ recent' = recent \ {p}
  /\ UNCHANGED <<game, hand, wins, conn, tasks, toggles, fails>>

-----------------------------------------------------------------------------
(* The host's controls.                                                    *)

\* Mutant: what is awaited has no target yet.
AwaitUntargeted(c, st) == [by |-> c, round |-> 0, target |-> 0, st |-> st]

Await(c, st) == [by |-> c, round |-> 0, target |-> 1, st |-> st]

StartRead(c) ==
  /\ At(c, "idle")
  /\ Owner[c] = Host
  /\ ~game.started
  /\ Goto(c, "start")
  /\ UNCHANGED <<game, hand, recent, wins, tasks, toggles, fails>>

StartCommit(c) ==
  /\ At(c, "start")
  /\ game' = [game EXCEPT !.started = TRUE]
  /\ tasks' = tasks \cup {Await(c, "deal")}
  /\ Goto(c, "await")
  /\ UNCHANGED <<hand, recent, wins, toggles, fails>>

PauseRead(c) ==
  /\ At(c, "idle")
  /\ Owner[c] = Host
  /\ game.started
  /\ toggles < MaxToggles
  /\ toggles' = toggles + 1
  /\ Goto(c, IF game.paused THEN "resume" ELSE "pause")
  /\ UNCHANGED <<game, hand, recent, wins, tasks, fails>>

PauseCommit(c) ==
  /\ At(c, "pause")
  /\ game' = [game EXCEPT !.paused = TRUE]
  /\ Return(c)
  /\ UNCHANGED <<hand, recent, wins, tasks, toggles, fails>>

\* Then come the grace periods of those who were away (Seats).
ResumeCommit(c) ==
  /\ At(c, "resume")
  /\ game' = [game EXCEPT !.paused = FALSE]
  /\ Goto(c, "pop")
  /\ UNCHANGED <<hand, recent, wins, tasks, toggles, fails>>

\* pop_round_advance_pending reads the flag, and clears it in a second call.
PopRead(c) ==
  /\ At(c, "pop")
  /\ Goto(c, IF game.pending THEN "clear" ELSE "idle")
  /\ UNCHANGED <<game, hand, recent, wins, tasks, toggles, fails>>

PopClear(c) ==
  /\ At(c, "clear")
  /\ game' = [game EXCEPT !.pending = FALSE]
  /\ tasks' = tasks \cup {Await(c, "meta")}
  /\ Goto(c, "await")
  /\ UNCHANGED <<hand, recent, wins, toggles, fails>>

-----------------------------------------------------------------------------
(* The task of a win, and the advance.                                     *)

Becomes(t, st) == tasks' = (tasks \ {t}) \cup {[t EXCEPT !.st = st]}

\* The roller's acknowledgement or its timeout, the announcement and
\* ROUND_WIN_DELAY have passed; is the game paused?
WaitOver(t) ==
  /\ t.st = "wait"
  /\ Becomes(t, IF game.paused THEN "defer" ELSE "meta")
  /\ UNCHANGED <<game, hand, recent, wins, conn, toggles, fails>>

\* Mutant: the deferral is not recorded.
DeferForgets(t) ==
  /\ t.st = "defer"
  /\ tasks' = tasks \ {t}
  /\ UNCHANGED <<game, hand, recent, wins, conn, toggles, fails>>

Defer(t) ==
  /\ t.st = "defer"
  /\ game' = [game EXCEPT !.pending = TRUE]
  /\ tasks' = tasks \ {t}
  /\ UNCHANGED <<hand, recent, wins, conn, toggles, fails>>

AdvanceRead(t) ==
  /\ t.st = "meta"
  /\ tasks' = (tasks \ {t}) \cup
                {[t EXCEPT !.st = "bump", !.target = TargetForRound(game.num + 1)]}
  /\ UNCHANGED <<game, hand, recent, wins, conn, toggles, fails>>

AdvanceCommit(t) ==
  /\ t.st = "bump"
  /\ game' = [game EXCEPT !.num = @ + 1, !.target = t.target, !.over = FALSE]
  /\ Becomes(t, "deal")
  /\ UNCHANGED <<hand, recent, wins, conn, toggles, fails>>

\* The roster does not change, so reading it is no step of its own.
Deal(t) ==
  /\ t.st = "deal"
  /\ game' = [game EXCEPT !.dealt = TRUE]
  /\ hand' = [p \in Players |-> NoLocks]
  /\ recent' = {}
  /\ tasks' = tasks \ {t}
  /\ conn' = [c \in Conns |-> IF c = t.by THEN NoHandler ELSE conn[c]]
  /\ UNCHANGED <<wins, toggles, fails>>

\* An instance dies: its handlers, what they await, and its tasks with it.
Crash(gone, lost) ==
  /\ fails < MaxFails
  /\ fails' = fails + 1
  /\ conn' = [c \in Conns |-> IF c \in gone THEN NoHandler ELSE conn[c]]
  /\ tasks' = {t \in tasks : t.by \notin gone /\ t \notin lost}
  /\ UNCHANGED <<game, hand, recent, wins, toggles>>

-----------------------------------------------------------------------------
RollNext(c) ==
  \/ RollRead(c)
  \/ RollRefused(c)
  \/ \E matches \in SUBSET Dice : RollPlayer(c, matches)
  \/ RollWrite(c)
  \/ ClaimWin(c)
  \/ ClaimLost(c)
  \/ CreditWin(c)
  \/ AnnounceWin(c)
  \/ SendFails(c)

HostNext(c) ==
  \/ StartRead(c)
  \/ StartCommit(c)
  \/ PauseRead(c)
  \/ PauseCommit(c)
  \/ ResumeCommit(c)
  \/ PopRead(c)
  \/ PopClear(c)

TaskNext(t) ==
  \/ WaitOver(t)
  \/ Defer(t)
  \/ AdvanceRead(t)
  \/ AdvanceCommit(t)
  \/ Deal(t)

Next ==
  \/ \E c \in Conns : RollNext(c) \/ HostNext(c)
  \/ \E t \in tasks : TaskNext(t)
  \/ \E p \in Players : IntervalElapses(p)
  \/ \E gone \in SUBSET Conns : \E lost \in SUBSET {t \in tasks : t.by = None} :
       Crash(gone, lost)

Spec == Init /\ [][Next]_vars

-----------------------------------------------------------------------------
(* What must hold, as long as the host has one connection at a time.       *)

SoleHost == \A c, d \in Conns : Owner[c] = Host /\ Owner[d] = Host => c = d

Clock == INSTANCE RoundClock WITH
           num <- game.num, over <- game.over, target <- game.target

\* Every round is won once and followed by the next one, by whichever of the
\* win's task, a deferral and a resume the advance is carried out, and no
\* advance is carried out twice (_FINISH_LUA, the pending flag, advance_round).
ClockSpec == Clock!Spec

\* No win is credited twice and none that was claimed is forgotten, except by
\* a crash (try_finish_round and incr_wins are two calls).
Credited ==
  fails = 0 =>
    SumFunction(wins) + Cardinality({c \in Conns : At(c, "wins")})
      = game.num - (IF game.over THEN 0 ELSE 1)

\* A locked die stays as it is until the next deal: "only this player ever
\* writes these fields, so the write-back never contends" (ws.py:389-390), as
\* long as the player has one connection at a time.
LocksKept ==
  [][\A p \in Players : hand'[p] # NoLocks =>
       \A d \in Dice \ Free(hand[p]) : hand'[p][d] = hand[p][d]]_vars

\* Who wins the round it rolled in has dice that all show the round's target:
\* "Dice that match the target lock automatically", "First player to lock all
\* ten wins the round" (README.md:39-40).
WinnerHasTarget ==
  [][\A c \in Conns : ClaimWin(c) /\ conn[c].seen = game.num =>
       \A d \in Dice : hand[Owner[c]][d] = game.target]_vars

-----------------------------------------------------------------------------
(* What must happen.  A handler that has begun goes on, tasks are run, the *)
(* reveal's wait is bounded by ROLL_ACK_TIMEOUT.  Nobody has to roll or    *)
(* press a button.                                                         *)

Continues(c) ==
  \/ RollRefused(c)
  \/ \E matches \in SUBSET Dice : RollPlayer(c, matches)
  \/ RollWrite(c)
  \/ ClaimWin(c)
  \/ ClaimLost(c)
  \/ CreditWin(c)
  \/ AnnounceWin(c)
  \/ StartCommit(c)
  \/ PauseCommit(c)
  \/ ResumeCommit(c)
  \/ PopRead(c)
  \/ PopClear(c)

Fairness ==
  /\ \A c \in Conns : WF_vars(Continues(c))
  /\ WF_vars(\E t \in tasks : TaskNext(t))

FairSpec == Spec /\ Fairness

\* A round that was won is advanced, or its advance is on record for the
\* resume of a pause, unless a crash or a failed send took the task away.
WonIsAdvanced ==
  game.over ~> (~game.over \/ game.paused \/ game.pending \/ fails > 0)

\* A pause only freezes a round that was won: "Freeze here; handle_pause()
\* advances on resume" (broadcast.py:104-105).
FrozenAdvancesOnResume ==
  game.over ~> (~game.over \/ game.paused)

=============================================================================
