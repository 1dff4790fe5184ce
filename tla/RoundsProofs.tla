----------------------------- MODULE RoundsProofs -----------------------------
(***************************************************************************)
(* Proofs about module Rounds, for any roster, any connections, any number *)
(* of dice and any bounds: its types, that it implements RoundClock when   *)
(* the host has one connection at a time, and that a locked die stays      *)
(* locked when every player has.                                           *)
(***************************************************************************)
EXTENDS Rounds, FiniteSetTheorems, TLAPS

-----------------------------------------------------------------------------
(* The wave of targets.                                                    *)

\* The target of every round is a face of a die, and the next round's is one
\* up or one down (target_for_round).
THEOREM TargetWave ==
  ASSUME NEW n \in Nat \ {0}
  PROVE  /\ TargetForRound(n) \in Targets
         /\ TargetForRound(n + 1) \in {TargetForRound(n) - 1, TargetForRound(n) + 1}
<1> DEFINE m == (n - 1) % 10
<1>1. m \in 0..9
  OBVIOUS
<1>2. n % 10 = IF m = 9 THEN 0 ELSE m + 1
  OBVIOUS
<1>3. (n + 1) - 1 = n
  OBVIOUS
<1> QED
  BY <1>1, <1>2, <1>3 DEF TargetForRound, Targets

-----------------------------------------------------------------------------
(* Types.                                                                  *)

LEMMA HandTypes ==
  /\ NoLocks \in Hand
  /\ NoHandler \in Conn
  BY DEF NoLocks, Hand, NoHandler, Conn, Pcs, Targets, Unlocked

LEMMA InitTyped == Init => TypeOK
  BY HandTypes, RoundsAssumption DEF Init, TypeOK, Game, Targets

\* A connection moves to another place of its handler, or returns.
LEMMA MovesTyped ==
  ASSUME TypeOK, NEW c \in Conns, NEW pc \in Pcs
  PROVE  /\ Goto(c, pc) => conn' \in [Conns -> Conn]
         /\ Return(c) => conn' \in [Conns -> Conn]
  BY HandTypes DEF TypeOK, Conn, Goto, Return

LEMMA BecomesTyped ==
  ASSUME TypeOK, NEW t \in tasks, NEW st \in {"wait", "defer", "meta", "bump", "deal"}
  PROVE  Becomes(t, st) => tasks' \in SUBSET Task
  BY DEF TypeOK, Becomes, Task

LEMMA AwaitTyped ==
  ASSUME NEW c \in Conns, NEW st \in {"wait", "defer", "meta", "bump", "deal"}
  PROVE  Await(c, st) \in Task
  BY DEF Await, Task, Targets

LEMMA RollTyped ==
  ASSUME TypeOK, NEW c \in Conns, RollNext(c)
  PROVE  TypeOK'
<1> USE DEF TypeOK
<1>1. CASE RollRead(c)
  <2>1. game.num \in Nat /\ game.target \in Targets
    BY DEF Game
  <2> DEFINE session == [conn[c] EXCEPT !.pc = "roll", !.seen = game.num,
                                        !.target = game.target]
  <2>2. session \in Conn
    BY <2>1 DEF Conn, Pcs
  <2>3. conn' = [conn EXCEPT ![c] = session]
    BY <1>1 DEF RollRead, Conn
  <2> HIDE DEF session
  <2> QED
    BY <1>1, <2>2, <2>3 DEF RollRead
<1>2. CASE RollRefused(c)
  BY <1>2, MovesTyped DEF RollRefused, Pcs
<1>3. ASSUME NEW matches \in SUBSET Dice, RollPlayer(c, matches) PROVE TypeOK'
  <2>1. Owner[c] \in Players /\ conn[c].target \in Targets
    BY RoundsAssumption DEF Conn
  <2>2. [d \in Dice |-> IF d \in matches THEN conn[c].target ELSE hand[Owner[c]][d]] \in Hand
    BY <2>1 DEF Hand
  <2> QED
    BY <1>3, <2>2 DEF RollPlayer, Conn, Pcs
<1>4. CASE RollWrite(c)
  <2>1. Owner[c] \in Players /\ conn[c].hand \in Hand
    BY RoundsAssumption DEF Conn
  <2>2. conn' \in [Conns -> Conn]
    BY <1>4, MovesTyped DEF RollWrite, Pcs
  <2> QED
    BY <1>4, <2>1, <2>2 DEF RollWrite
<1>5. CASE ClaimWin(c)
  <2>1. game' \in Game
    BY <1>5 DEF ClaimWin, Game
  <2>2. conn' \in [Conns -> Conn]
    <3>1. game.num \in Nat /\ "wins" \in Pcs
      BY DEF Game, Pcs
    <3> QED
      BY <1>5, <3>1 DEF ClaimWin, Conn
  <2> QED
    BY <1>5, <2>1, <2>2 DEF ClaimWin
<1>6. CASE ClaimLost(c)
  BY <1>6, MovesTyped DEF ClaimLost, Pcs
<1>7. CASE CreditWin(c)
  <2>1. conn' \in [Conns -> Conn]
    BY <1>7, MovesTyped DEF CreditWin, Pcs
  <2> QED
    BY <1>7, <2>1, RoundsAssumption DEF CreditWin
<1>8. CASE AnnounceWin(c)
  <2>1. [by |-> None, round |-> conn[c].won, target |-> 1, st |-> "wait"] \in Task
    BY DEF Conn, Task, Targets
  <2> QED
    BY <1>8, <2>1, MovesTyped DEF AnnounceWin, Pcs
<1>9. CASE SendFails(c)
  BY <1>9, MovesTyped DEF SendFails, Pcs
<1> QED
  BY <1>1, <1>2, <1>3, <1>4, <1>5, <1>6, <1>7, <1>8, <1>9 DEF RollNext

LEMMA HostTyped ==
  ASSUME TypeOK, NEW c \in Conns, HostNext(c)
  PROVE  TypeOK'
<1> USE DEF TypeOK
<1>1. CASE StartRead(c)
  BY <1>1, MovesTyped DEF StartRead, Pcs
<1>2. CASE StartCommit(c)
  BY <1>2, MovesTyped, AwaitTyped DEF StartCommit, Pcs, Game
<1>3. CASE PauseRead(c)
  BY <1>3, MovesTyped DEF PauseRead, Pcs
<1>4. CASE PauseCommit(c)
  BY <1>4, MovesTyped DEF PauseCommit, Pcs, Game
<1>5. CASE ResumeCommit(c)
  BY <1>5, MovesTyped DEF ResumeCommit, Pcs, Game
<1>6. CASE PopRead(c)
  BY <1>6, MovesTyped DEF PopRead, Pcs
<1>7. CASE PopClear(c)
  BY <1>7, MovesTyped, AwaitTyped DEF PopClear, Pcs, Game
<1> QED
  BY <1>1, <1>2, <1>3, <1>4, <1>5, <1>6, <1>7 DEF HostNext

LEMMA TaskTyped ==
  ASSUME TypeOK, NEW t \in tasks, TaskNext(t)
  PROVE  TypeOK'
<1> USE DEF TypeOK
<1>1. CASE WaitOver(t)
  BY <1>1, BecomesTyped DEF WaitOver
<1>2. CASE Defer(t)
  BY <1>2 DEF Defer, Game
<1>3. CASE AdvanceRead(t)
  <2>1. game.num + 1 \in Nat \ {0}
    BY DEF Game
  <2>2. TargetForRound(game.num + 1) \in Targets
    BY <2>1, TargetWave
  <2> QED
    BY <1>3, <2>2 DEF AdvanceRead, Task
<1>4. CASE AdvanceCommit(t)
  <2>1. t.target \in Targets
    BY DEF Task
  <2>2. tasks' \in SUBSET Task
    BY <1>4, BecomesTyped DEF AdvanceCommit
  <2>3. game.num + 1 \in Nat \ {0}
    BY DEF Game
  <2>4. game' \in Game
    BY <1>4, <2>1, <2>3 DEF AdvanceCommit, Game
  <2> QED
    BY <1>4, <2>2, <2>4 DEF AdvanceCommit
<1>5. CASE Deal(t)
  BY <1>5, HandTypes DEF Deal, Game
<1> QED
  BY <1>1, <1>2, <1>3, <1>4, <1>5 DEF TaskNext

LEMMA NextTyped == TypeOK /\ [Next]_vars => TypeOK'
<1> SUFFICES ASSUME TypeOK, [Next]_vars PROVE TypeOK'
  OBVIOUS
<1>1. ASSUME NEW c \in Conns, RollNext(c) \/ HostNext(c) PROVE TypeOK'
  BY <1>1, RollTyped, HostTyped
<1>2. ASSUME NEW t \in tasks, TaskNext(t) PROVE TypeOK'
  BY <1>2, TaskTyped
<1>3. ASSUME NEW p \in Players, IntervalElapses(p) PROVE TypeOK'
  BY <1>3 DEF IntervalElapses, TypeOK
<1>4. ASSUME NEW gone, NEW lost, Crash(gone, lost) PROVE TypeOK'
  BY <1>4, HandTypes DEF Crash, TypeOK
<1>5. CASE UNCHANGED vars
  BY <1>5 DEF vars, TypeOK
<1> QED
  BY <1>1, <1>2, <1>3, <1>4, <1>5 DEF Next

\* Every state of the rounds is well typed.
THEOREM RoundsTyped == Spec => []TypeOK
<1> QED
  BY InitTyped, NextTyped, PTL DEF Spec

-----------------------------------------------------------------------------
(* Whoever is to advance a round that was won.                             *)

\* A connection that has claimed the win and not yet created its task, or that
\* has taken a deferral; a task that has not yet written the next round.
Charged(c) == conn[c].pc \in {"wins", "send", "clear"}

Carrying(t) == t.st # "deal"

\* Only the host's connection resumes, and takes a deferral that is on record.
HostResumes ==
  \A c \in Conns :
    /\ conn[c].pc \in {"pause", "resume", "pop", "clear"} => Owner[c] = Host
    /\ conn[c].pc = "clear" => game.pending

\* A round that was won has at most one of: a connection in charge, a task
\* that carries it, a deferral on record that nobody has taken.
OneCharge ==
  /\ \A c, d \in Conns : Charged(c) /\ Charged(d) => c = d
  /\ \A t, u \in tasks : Carrying(t) /\ Carrying(u) => t = u
  /\ \A c \in Conns, t \in tasks : ~(Charged(c) /\ Carrying(t))
  /\ game.pending => /\ \A t \in tasks : ~Carrying(t)
                     /\ \A c \in Conns : Charged(c) => conn[c].pc = "clear"

\* Only a round that was won is in anybody's charge.
ChargeOver ==
  /\ \A c \in Conns : Charged(c) => game.over
  /\ \A t \in tasks : Carrying(t) => game.over
  /\ game.pending => game.over

\* The target is that of the round, and the one about to be written is that of
\* the next round.
OnTarget ==
  /\ game.target = TargetForRound(game.num)
  /\ \A t \in tasks : t.st = "bump" => t.target = TargetForRound(game.num + 1)

ChargeInv ==
  /\ TypeOK
  /\ HostResumes
  /\ OneCharge
  /\ ChargeOver
  /\ OnTarget

LEMMA InitCharge == Init => ChargeInv
<1> SUFFICES ASSUME Init PROVE ChargeInv
  OBVIOUS
<1>1. HostResumes /\ OneCharge /\ ChargeOver
  BY DEF Init, HostResumes, OneCharge, ChargeOver, Charged, Carrying, NoHandler
<1>2. OnTarget
  BY DEF Init, OnTarget, TargetForRound
<1> QED
  BY <1>1, <1>2, InitTyped DEF ChargeInv

\* Steps that charge nobody: one connection goes where it has no charge, or
\* keeps the one it has, and the round and the tasks stay as they are.
LEMMA Uncharged ==
  ASSUME ChargeInv, NEW c \in Conns,
         \A d \in Conns \ {c} : conn'[d].pc = conn[d].pc,
         \/ conn'[c].pc \notin {"wins", "send", "clear", "pause", "resume", "pop"}
         \/ conn[c].pc = "wins" /\ conn'[c].pc = "send"
         \/ Owner[c] = Host /\ conn'[c].pc \in {"pause", "resume", "pop"},
         tasks' \subseteq tasks \cup [by : Conns, round : {0}, target : {1}, st : {"deal"}],
         game'.over = game.over, game'.num = game.num,
         game'.target = game.target, game'.pending = game.pending
  PROVE  HostResumes' /\ OneCharge' /\ ChargeOver' /\ OnTarget'
<1> USE DEF ChargeInv
<1>1. \A d \in Conns : Charged(d)' => Charged(d)
  BY DEF Charged
<1>2. \A t \in tasks' : Carrying(t)' => t \in tasks /\ Carrying(t)
  BY DEF Carrying
<1>3. HostResumes'
  BY DEF HostResumes
<1>4. OneCharge'
  BY <1>1, <1>2 DEF OneCharge, Charged
<1>5. ChargeOver'
  BY <1>1, <1>2 DEF ChargeOver
<1>6. OnTarget'
  BY DEF OnTarget
<1> QED
  BY <1>3, <1>4, <1>5, <1>6

LEMMA RollCharge ==
  ASSUME ChargeInv, NEW c \in Conns, RollNext(c)
  PROVE  HostResumes' /\ OneCharge' /\ ChargeOver' /\ OnTarget'
<1> USE DEF At, Goto, Return
<1>0. TypeOK /\ NoHandler.pc = "idle"
  BY DEF ChargeInv, NoHandler
<1>1. CASE RollRead(c)
  BY <1>0, <1>1, Uncharged DEF RollRead, TypeOK, Conn
<1>2. CASE RollRefused(c)
  BY <1>0, <1>2, Uncharged DEF RollRefused, TypeOK, Conn
<1>3. ASSUME NEW matches \in SUBSET Dice, RollPlayer(c, matches)
      PROVE  HostResumes' /\ OneCharge' /\ ChargeOver' /\ OnTarget'
  <2>1. conn'[c].pc = "write" /\ \A d \in Conns \ {c} : conn'[d].pc = conn[d].pc
    BY <1>0, <1>3 DEF RollPlayer, TypeOK, Conn
  <2> QED
    BY <1>3, <2>1, Uncharged DEF RollPlayer
<1>4. CASE RollWrite(c)
  <2>1. conn'[c].pc \in {"finish", "idle"} /\ \A d \in Conns \ {c} : conn'[d].pc = conn[d].pc
    BY <1>0, <1>4 DEF RollWrite, TypeOK, Conn
  <2> QED
    BY <1>4, <2>1, Uncharged DEF RollWrite
<1>5. CASE ClaimWin(c)
  <2>1. conn'[c].pc = "wins" /\ \A d \in Conns \ {c} : conn'[d].pc = conn[d].pc
    BY <1>0, <1>5 DEF ClaimWin, TypeOK, Conn
  <2>2. /\ ~game.over /\ game'.over /\ tasks' = tasks
        /\ game'.num = game.num /\ game'.target = game.target /\ game'.pending = game.pending
    BY <1>0, <1>5 DEF ClaimWin, TypeOK, Game
  <2>3. /\ ~game.pending
        /\ \A d \in Conns : ~Charged(d)
        /\ \A t \in tasks : ~Carrying(t)
    BY <2>2 DEF ChargeInv, ChargeOver
  <2>4. HostResumes'
    BY <2>1, <2>2 DEF ChargeInv, HostResumes
  <2>5. \A d \in Conns : Charged(d)' => d = c
    BY <2>1, <2>3 DEF Charged
  <2>6. \A t \in tasks' : ~Carrying(t)
    BY <2>2, <2>3
  <2>7. OneCharge'
    BY <2>2, <2>3, <2>5, <2>6 DEF OneCharge, Carrying
  <2>8. ChargeOver' /\ OnTarget'
    BY <2>2 DEF ChargeInv, ChargeOver, OnTarget
  <2> QED
    BY <2>4, <2>7, <2>8
<1>6. CASE ClaimLost(c)
  BY <1>0, <1>6, Uncharged DEF ClaimLost, TypeOK, Conn
<1>7. CASE CreditWin(c)
  BY <1>0, <1>7, Uncharged DEF CreditWin, TypeOK, Conn
<1>8. CASE AnnounceWin(c)
  <2> DEFINE new == [by |-> None, round |-> conn[c].won, target |-> 1, st |-> "wait"]
  <2>1. conn'[c].pc = "idle" /\ \A d \in Conns \ {c} : conn'[d].pc = conn[d].pc
    BY <1>0, <1>8 DEF AnnounceWin, TypeOK, Conn
  <2>2. tasks' = tasks \cup {new} /\ game' = game /\ Charged(c)
    BY <1>8 DEF AnnounceWin, Charged
  <2>3. conn[c].pc = "send" /\ new.st = "wait"
    BY <1>8 DEF AnnounceWin
  <2> HIDE DEF new
  <2>4. /\ game.over /\ ~game.pending
        /\ \A t \in tasks : ~Carrying(t)
        /\ \A d \in Conns : Charged(d) => d = c
    BY <2>2, <2>3 DEF ChargeInv, OneCharge, ChargeOver
  <2>5. \A d \in Conns : ~Charged(d)'
    BY <2>1, <2>4 DEF Charged
  <2>6. \A t \in tasks' : Carrying(t) => t = new
    BY <2>2, <2>4
  <2>7. HostResumes'
    BY <2>1, <2>2 DEF ChargeInv, HostResumes
  <2>8. OneCharge'
    BY <2>2, <2>4, <2>5, <2>6 DEF OneCharge, Carrying
  <2>9. ChargeOver'
    BY <2>2, <2>4, <2>5 DEF ChargeOver
  <2>10. OnTarget'
    BY <2>2, <2>3 DEF ChargeInv, OnTarget
  <2> QED
    BY <2>7, <2>8, <2>9, <2>10
<1>9. CASE SendFails(c)
  BY <1>0, <1>9, Uncharged DEF SendFails, TypeOK, Conn
<1> QED
  BY <1>1, <1>2, <1>3, <1>4, <1>5, <1>6, <1>7, <1>8, <1>9 DEF RollNext

LEMMA HostCharge ==
  ASSUME SoleHost, ChargeInv, NEW c \in Conns, HostNext(c)
  PROVE  HostResumes' /\ OneCharge' /\ ChargeOver' /\ OnTarget'
<1> USE DEF At, Goto, Return
<1>0. TypeOK /\ NoHandler.pc = "idle"
  BY DEF ChargeInv, NoHandler
<1>1. CASE StartRead(c)
  BY <1>0, <1>1, Uncharged DEF StartRead, TypeOK, Conn
<1>2. CASE StartCommit(c)
  <2>1. conn'[c].pc = "await" /\ \A d \in Conns \ {c} : conn'[d].pc = conn[d].pc
    BY <1>0, <1>2 DEF StartCommit, TypeOK, Conn
  <2>2. /\ game'.num = game.num /\ game'.target = game.target
        /\ game'.pending = game.pending /\ game'.over = game.over
    BY <1>0, <1>2 DEF StartCommit, TypeOK, Game
  <2>3. tasks' \subseteq tasks \cup [by : Conns, round : {0}, target : {1}, st : {"deal"}]
    BY <1>2 DEF StartCommit, Await
  <2> QED
    BY <2>1, <2>2, <2>3, Uncharged
<1>3. CASE PauseRead(c)
  <2>1. conn'[c].pc \in {"resume", "pause"} /\ \A d \in Conns \ {c} : conn'[d].pc = conn[d].pc
    BY <1>0, <1>3 DEF PauseRead, TypeOK, Conn
  <2> QED
    BY <1>3, <2>1, Uncharged DEF PauseRead
<1>4. CASE PauseCommit(c)
  <2>1. conn'[c].pc = "idle" /\ \A d \in Conns \ {c} : conn'[d].pc = conn[d].pc
    BY <1>0, <1>4 DEF PauseCommit, TypeOK, Conn
  <2>2. /\ game'.num = game.num /\ game'.target = game.target
        /\ game'.pending = game.pending /\ game'.over = game.over
    BY <1>0, <1>4 DEF PauseCommit, TypeOK, Game
  <2> QED
    BY <1>4, <2>1, <2>2, Uncharged DEF PauseCommit
<1>5. CASE ResumeCommit(c)
  <2>1. conn'[c].pc = "pop" /\ \A d \in Conns \ {c} : conn'[d].pc = conn[d].pc
    BY <1>0, <1>5 DEF ResumeCommit, TypeOK, Conn
  <2>2. /\ game'.num = game.num /\ game'.target = game.target
        /\ game'.pending = game.pending /\ game'.over = game.over
    BY <1>0, <1>5 DEF ResumeCommit, TypeOK, Game
  <2>3. Owner[c] = Host
    BY <1>5 DEF ResumeCommit, ChargeInv, HostResumes
  <2> QED
    BY <1>5, <2>1, <2>2, <2>3, Uncharged DEF ResumeCommit
<1>6. CASE PopRead(c)
  <2>1. Owner[c] = Host /\ conn[c].pc = "pop"
    BY <1>6 DEF PopRead, ChargeInv, HostResumes
  <2>2. \A d \in Conns : conn[d].pc # "clear"
    BY <2>1 DEF SoleHost, ChargeInv, HostResumes
  <2>3. CASE ~game.pending
    BY <1>0, <1>6, <2>3, Uncharged DEF PopRead, TypeOK, Conn
  <2>4. CASE game.pending
    <3>1. conn'[c].pc = "clear" /\ \A d \in Conns \ {c} : conn'[d].pc = conn[d].pc
      BY <1>0, <1>6, <2>4 DEF PopRead, TypeOK, Conn
    <3>2. game' = game /\ tasks' = tasks
      BY <1>6 DEF PopRead
    <3>3. \A d \in Conns : Charged(d)' => d = c
      BY <2>2, <2>4, <3>1 DEF ChargeInv, OneCharge, Charged
    <3>4. HostResumes'
      BY <2>1, <2>4, <3>1, <3>2 DEF ChargeInv, HostResumes
    <3>5. OneCharge'
      BY <2>4, <3>1, <3>2, <3>3 DEF ChargeInv, OneCharge, Carrying
    <3>6. ChargeOver' /\ OnTarget'
      BY <2>4, <3>2 DEF ChargeInv, ChargeOver, OnTarget, Carrying
    <3> QED
      BY <3>4, <3>5, <3>6
  <2> QED
    BY <2>3, <2>4
<1>7. CASE PopClear(c)
  <2> DEFINE new == Await(c, "meta")
  <2>1. conn'[c].pc = "await" /\ \A d \in Conns \ {c} : conn'[d].pc = conn[d].pc
    BY <1>0, <1>7 DEF PopClear, TypeOK, Conn
  <2>2. /\ ~game'.pending /\ game'.over = game.over
        /\ game'.num = game.num /\ game'.target = game.target
    BY <1>0, <1>7 DEF PopClear, TypeOK, Game
  <2>3. tasks' = tasks \cup {new} /\ new.st = "meta" /\ conn[c].pc = "clear"
    BY <1>7 DEF PopClear, Await
  <2> HIDE DEF new
  <2>4. /\ game.over
        /\ \A t \in tasks : ~Carrying(t)
        /\ \A d \in Conns : Charged(d) => d = c
    BY <2>3 DEF ChargeInv, OneCharge, ChargeOver, Charged
  <2>5. \A d \in Conns : ~Charged(d)'
    BY <2>1, <2>4 DEF Charged
  <2>6. \A t \in tasks' : Carrying(t) => t = new
    BY <2>3, <2>4
  <2>7. HostResumes'
    BY <2>1, <2>5 DEF ChargeInv, HostResumes, Charged
  <2>8. OneCharge'
    BY <2>2, <2>5, <2>6 DEF OneCharge, Carrying
  <2>9. ChargeOver'
    BY <2>2, <2>4, <2>5 DEF ChargeOver
  <2>10. OnTarget'
    BY <2>2, <2>3 DEF ChargeInv, OnTarget
  <2> QED
    BY <2>7, <2>8, <2>9, <2>10
<1> QED
  BY <1>1, <1>2, <1>3, <1>4, <1>5, <1>6, <1>7 DEF HostNext

\* A task goes on to its next step, and the charge with it.
LEMMA TaskMoves ==
  ASSUME ChargeInv, NEW t \in tasks, Carrying(t), NEW u, Carrying(u),
         u.st = "bump" => u.target = TargetForRound(game.num + 1),
         tasks' = (tasks \ {t}) \cup {u},
         UNCHANGED <<game, conn>>
  PROVE  HostResumes' /\ OneCharge' /\ ChargeOver' /\ OnTarget'
<1>1. /\ game.over /\ ~game.pending
      /\ \A d \in Conns : ~Charged(d)
      /\ \A x \in tasks : Carrying(x) => x = t
  BY DEF ChargeInv, OneCharge, ChargeOver
<1>2. \A x \in tasks' : Carrying(x) => x = u
  BY <1>1
<1>3. \A d \in Conns : ~Charged(d)'
  BY <1>1 DEF Charged
<1>4. HostResumes'
  BY DEF ChargeInv, HostResumes
<1>5. OneCharge'
  BY <1>1, <1>2, <1>3 DEF OneCharge, Carrying
<1>6. ChargeOver'
  BY <1>1, <1>3 DEF ChargeOver
<1>7. OnTarget'
  <2>1. \A x \in tasks' : x.st = "bump" => x = u
    BY <1>2 DEF Carrying
  <2> QED
    BY <2>1 DEF ChargeInv, OnTarget
<1> QED
  BY <1>4, <1>5, <1>6, <1>7

LEMMA TaskCharge ==
  ASSUME ChargeInv, NEW t \in tasks, TaskNext(t)
  PROVE  HostResumes' /\ OneCharge' /\ ChargeOver' /\ OnTarget'
<1>0. TypeOK /\ t \in Task
  BY DEF ChargeInv, TypeOK
<1>1. CASE WaitOver(t)
  <2> DEFINE u == [t EXCEPT !.st = IF game.paused THEN "defer" ELSE "meta"]
  <2>1. u.st \in {"defer", "meta"} /\ Carrying(t)
    BY <1>0, <1>1 DEF WaitOver, Task, Carrying
  <2>2. tasks' = (tasks \ {t}) \cup {u} /\ UNCHANGED <<game, conn>>
    BY <1>1 DEF WaitOver, Becomes
  <2> HIDE DEF u
  <2>3. Carrying(u)
    BY <2>1 DEF Carrying
  <2> QED
    BY <2>1, <2>2, <2>3, TaskMoves
<1>2. CASE Defer(t)
  <2>1. /\ game'.pending /\ game'.over = game.over
        /\ game'.num = game.num /\ game'.target = game.target
    BY <1>0, <1>2 DEF Defer, TypeOK, Game
  <2>2. Carrying(t) /\ tasks' = tasks \ {t} /\ conn' = conn
    BY <1>2 DEF Defer, Carrying
  <2>3. /\ game.over
        /\ \A d \in Conns : ~Charged(d)
        /\ \A x \in tasks : Carrying(x) => x = t
    BY <2>2 DEF ChargeInv, OneCharge, ChargeOver
  <2>4. \A x \in tasks' : ~Carrying(x)
    BY <2>2, <2>3
  <2>5. \A d \in Conns : ~Charged(d)'
    BY <2>2, <2>3 DEF Charged
  <2>6. HostResumes'
    BY <2>1, <2>2 DEF ChargeInv, HostResumes
  <2>7. OneCharge'
    BY <2>4, <2>5 DEF OneCharge, Carrying
  <2>8. ChargeOver' /\ OnTarget'
    BY <2>1, <2>2, <2>3, <2>4, <2>5 DEF ChargeOver, ChargeInv, OnTarget
  <2> QED
    BY <2>6, <2>7, <2>8
<1>3. CASE AdvanceRead(t)
  <2> DEFINE u == [t EXCEPT !.st = "bump", !.target = TargetForRound(game.num + 1)]
  <2>1. u.st = "bump" /\ u.target = TargetForRound(game.num + 1)
    BY <1>0 DEF Task
  <2>2. tasks' = (tasks \ {t}) \cup {u} /\ UNCHANGED <<game, conn>> /\ Carrying(t)
    BY <1>3 DEF AdvanceRead, Carrying
  <2> HIDE DEF u
  <2>3. Carrying(u)
    BY <2>1 DEF Carrying
  <2> QED
    BY <2>1, <2>2, <2>3, TaskMoves
<1>4. CASE AdvanceCommit(t)
  <2> DEFINE u == [t EXCEPT !.st = "deal"]
  <2>1. u.st = "deal"
    BY <1>0 DEF Task
  <2>2. /\ tasks' = (tasks \ {t}) \cup {u} /\ conn' = conn
        /\ Carrying(t) /\ t.target = TargetForRound(game.num + 1)
    BY <1>4 DEF AdvanceCommit, Becomes, Carrying, ChargeInv, OnTarget
  <2> HIDE DEF u
  <2>3. /\ ~game'.over /\ game'.pending = game.pending
        /\ game'.num = game.num + 1 /\ game'.target = t.target
    BY <1>0, <1>4 DEF AdvanceCommit, TypeOK, Game
  <2>4. /\ ~game.pending
        /\ \A d \in Conns : ~Charged(d)
        /\ \A x \in tasks : Carrying(x) => x = t
    BY <2>2 DEF ChargeInv, OneCharge, ChargeOver
  <2>5. \A x \in tasks' : ~Carrying(x)
    BY <2>1, <2>2, <2>4 DEF Carrying
  <2>6. \A d \in Conns : ~Charged(d)'
    BY <2>2, <2>4 DEF Charged
  <2>7. HostResumes'
    BY <2>2, <2>3 DEF ChargeInv, HostResumes
  <2>8. OneCharge' /\ ChargeOver'
    BY <2>3, <2>4, <2>5, <2>6 DEF OneCharge, ChargeOver, Carrying
  <2>9. OnTarget'
    BY <2>2, <2>3, <2>5 DEF OnTarget, Carrying
  <2> QED
    BY <2>7, <2>8, <2>9
<1>5. CASE Deal(t)
  <2>1. /\ game'.pending = game.pending /\ game'.over = game.over
        /\ game'.num = game.num /\ game'.target = game.target
    BY <1>0, <1>5 DEF Deal, TypeOK, Game
  <2>2. \A d \in Conns : conn'[d].pc \in {conn[d].pc, "idle"}
    BY <1>5 DEF Deal, NoHandler
  <2>3. tasks' \subseteq tasks
    BY <1>5 DEF Deal
  <2> QED
    BY <2>1, <2>2, <2>3 DEF ChargeInv, HostResumes, OneCharge, ChargeOver, OnTarget,
                            Charged, Carrying
<1> QED
  BY <1>1, <1>2, <1>3, <1>4, <1>5 DEF TaskNext

\* Connections and tasks that go take their charge with them.
LEMMA LossCharge ==
  ASSUME ChargeInv, UNCHANGED game, tasks' \subseteq tasks,
         \A c \in Conns : conn'[c].pc \in {conn[c].pc, "idle"}
  PROVE  HostResumes' /\ OneCharge' /\ ChargeOver' /\ OnTarget'
  BY DEF ChargeInv, HostResumes, OneCharge, ChargeOver, OnTarget, Charged, Carrying

LEMMA ChargeNext == SoleHost /\ ChargeInv /\ [Next]_vars => ChargeInv'
<1> SUFFICES ASSUME SoleHost, ChargeInv, [Next]_vars
             PROVE  HostResumes' /\ OneCharge' /\ ChargeOver' /\ OnTarget'
  BY NextTyped DEF ChargeInv
<1>1. ASSUME NEW c \in Conns, RollNext(c) \/ HostNext(c)
      PROVE  HostResumes' /\ OneCharge' /\ ChargeOver' /\ OnTarget'
  BY <1>1, RollCharge, HostCharge
<1>2. ASSUME NEW t \in tasks, TaskNext(t)
      PROVE  HostResumes' /\ OneCharge' /\ ChargeOver' /\ OnTarget'
  BY <1>2, TaskCharge
<1>3. ASSUME NEW p \in Players, IntervalElapses(p)
      PROVE  HostResumes' /\ OneCharge' /\ ChargeOver' /\ OnTarget'
  BY <1>3, LossCharge DEF IntervalElapses
<1>4. ASSUME NEW gone, NEW lost, Crash(gone, lost)
      PROVE  HostResumes' /\ OneCharge' /\ ChargeOver' /\ OnTarget'
  BY <1>4, LossCharge DEF Crash, NoHandler
<1>5. CASE UNCHANGED vars
  BY <1>5, LossCharge DEF vars
<1> QED
  BY <1>1, <1>2, <1>3, <1>4, <1>5 DEF Next

-----------------------------------------------------------------------------
(* The clock.                                                              *)

LEMMA ClockNext ==
  ASSUME ChargeInv, [Next]_vars
  PROVE  [Clock!Next]_(Clock!clock)
<1> USE DEF Clock!clock
<1>0. TypeOK
  BY DEF ChargeInv
<1>1. ASSUME NEW c \in Conns, ClaimWin(c) PROVE Clock!Win
  BY <1>0, <1>1 DEF ClaimWin, Clock!Win, TypeOK, Game
<1>2. ASSUME NEW t \in tasks, AdvanceCommit(t) PROVE Clock!Advance
  <2>1. /\ game.over /\ t.target = TargetForRound(game.num + 1)
        /\ game.target = TargetForRound(game.num)
    BY <1>2 DEF AdvanceCommit, ChargeInv, ChargeOver, OnTarget, Carrying
  <2>2. /\ ~game'.over /\ game'.num = game.num + 1 /\ game'.target = t.target
    BY <1>0, <1>2 DEF AdvanceCommit, TypeOK, Game
  <2>3. game.num \in Nat \ {0} /\ game.num + 1 \in Nat \ {0}
    BY <1>0 DEF TypeOK, Game
  <2>4. t.target \in Targets /\ t.target \in {game.target - 1, game.target + 1}
    BY <2>1, <2>3, TargetWave
  <2>5. (~game.over)' /\ game.over /\ game'.over = FALSE
    BY <1>0, <1>2, <2>1 DEF AdvanceCommit, TypeOK, Game
  <2> QED
    BY <2>2, <2>4, <2>5 DEF Clock!Advance, Targets
<1>3. ASSUME NEW c \in Conns, RollNext(c) \/ HostNext(c), ~ClaimWin(c)
      PROVE  UNCHANGED <<game.num, game.over, game.target>>
  BY <1>0, <1>3 DEF RollNext, RollRead, RollRefused, RollPlayer, RollWrite, ClaimLost,
     CreditWin, AnnounceWin, SendFails, HostNext, StartRead, StartCommit, PauseRead,
     PauseCommit, ResumeCommit, PopRead, PopClear, TypeOK, Game
<1>4. ASSUME NEW t \in tasks, TaskNext(t), ~AdvanceCommit(t)
      PROVE  UNCHANGED <<game.num, game.over, game.target>>
  BY <1>0, <1>4 DEF TaskNext, WaitOver, Defer, AdvanceRead, Deal, TypeOK, Game
<1>5. ASSUME NEW p \in Players, IntervalElapses(p)
      PROVE  UNCHANGED <<game.num, game.over, game.target>>
  BY <1>5 DEF IntervalElapses
<1>6. ASSUME NEW gone, NEW lost, Crash(gone, lost)
      PROVE  UNCHANGED <<game.num, game.over, game.target>>
  BY <1>6 DEF Crash
<1>7. CASE UNCHANGED vars
  BY <1>7 DEF vars
<1> QED
  BY <1>1, <1>2, <1>3, <1>4, <1>5, <1>6, <1>7 DEF Next, Clock!Next

\* When the host has one connection at a time, the rounds follow each other as
\* RoundClock says: each won once and advanced at most once per win, whatever
\* pauses, resumes, crashes and late rolls do (_FINISH_LUA, advance_round).
THEOREM RoundsKeepClock == SoleHost => (Spec => ClockSpec)
<1> SUFFICES ASSUME SoleHost PROVE Spec => ClockSpec
  OBVIOUS
<1>1. Init => Clock!Init
  BY DEF Init, Clock!Init
<1>2. ChargeInv /\ [Next]_vars => ChargeInv'
  BY ChargeNext
<1>3. ChargeInv /\ [Next]_vars => [Clock!Next]_(Clock!clock)
  BY ClockNext
<1> QED
  BY <1>1, <1>2, <1>3, InitCharge, PTL DEF Spec, ClockSpec, Clock!Spec

-----------------------------------------------------------------------------
(* Locked dice.                                                            *)

OneConnEach == \A c, d \in Conns : Owner[c] = Owner[d] => c = d

\* A hand about to be written back has every die that is locked in the hash.
CarriesLocks ==
  \A c \in Conns : conn[c].pc = "write" =>
    \A d \in Dice \ Free(hand[Owner[c]]) : conn[c].hand[d] = hand[Owner[c]][d]

LocksInv == TypeOK /\ CarriesLocks

\* Steps that leave the hands alone and bring nobody to the write.
LEMMA NoNewWrite ==
  ASSUME LocksInv, UNCHANGED hand,
         \A c \in Conns : conn'[c].pc = "write" => conn'[c] = conn[c]
  PROVE  CarriesLocks'
  BY DEF LocksInv, CarriesLocks

LEMMA LocksNext == OneConnEach /\ LocksInv /\ [Next]_vars => LocksInv'
<1> SUFFICES ASSUME OneConnEach, LocksInv, [Next]_vars PROVE CarriesLocks'
  BY NextTyped DEF LocksInv
<1>0. /\ TypeOK
      /\ Owner \in [Conns -> Players]
      /\ NoHandler.pc = "idle"
  BY RoundsAssumption DEF LocksInv, NoHandler
<1>1. ASSUME NEW c \in Conns, RollNext(c) PROVE CarriesLocks'
  <2>1. ASSUME NEW matches \in SUBSET Dice, RollPlayer(c, matches) PROVE CarriesLocks'
    <3>1. /\ hand' = hand
          /\ \A e \in Conns \ {c} : conn'[e] = conn[e]
          /\ conn'[c].hand = [d \in Dice |-> IF d \in matches THEN conn[c].target
                                             ELSE hand[Owner[c]][d]]
          /\ matches \subseteq Free(hand[Owner[c]])
      BY <1>0, <2>1 DEF RollPlayer, TypeOK, Conn
    <3>2. \A d \in Dice \ Free(hand[Owner[c]]) : conn'[c].hand[d] = hand[Owner[c]][d]
      BY <3>1
    <3> QED
      BY <3>1, <3>2 DEF LocksInv, CarriesLocks
  <2>2. CASE RollWrite(c)
    <3>1. /\ \A e \in Conns \ {c} : conn'[e] = conn[e]
          /\ conn'[c].pc \in {"finish", "idle"}
      BY <1>0, <2>2 DEF RollWrite, Goto, Return, TypeOK, Conn
    <3>2. \A e \in Conns \ {c} : hand'[Owner[e]] = hand[Owner[e]]
      BY <1>0, <2>2 DEF RollWrite, OneConnEach, TypeOK
    <3> QED
      BY <3>1, <3>2 DEF LocksInv, CarriesLocks
  <2>3. CASE RollRead(c) \/ RollRefused(c) \/ ClaimWin(c) \/ ClaimLost(c)
               \/ CreditWin(c) \/ AnnounceWin(c) \/ SendFails(c)
    <3>1. hand' = hand
      BY <2>3 DEF RollRead, RollRefused, ClaimWin, ClaimLost, CreditWin, AnnounceWin, SendFails
    <3>2. \A e \in Conns : conn'[e].pc = "write" => conn'[e] = conn[e]
      BY <1>0, <2>3 DEF RollRead, RollRefused, ClaimWin, ClaimLost, CreditWin, AnnounceWin,
         SendFails, Goto, Return, TypeOK, Conn
    <3> QED
      BY <3>1, <3>2, NoNewWrite
  <2> QED
    BY <1>1, <2>1, <2>2, <2>3 DEF RollNext
<1>2. ASSUME NEW c \in Conns, HostNext(c) PROVE CarriesLocks'
  <2>1. hand' = hand
    BY <1>2 DEF HostNext, StartRead, StartCommit, PauseRead, PauseCommit, ResumeCommit,
       PopRead, PopClear
  <2>2. \A e \in Conns : conn'[e].pc = "write" => conn'[e] = conn[e]
    BY <1>0, <1>2 DEF HostNext, StartRead, StartCommit, PauseRead, PauseCommit,
       ResumeCommit, PopRead, PopClear, Goto, Return, TypeOK, Conn
  <2> QED
    BY <2>1, <2>2, NoNewWrite
<1>3. ASSUME NEW t \in tasks, TaskNext(t) PROVE CarriesLocks'
  <2>1. CASE Deal(t)
    <3>1. \A c \in Conns : Free(hand'[Owner[c]]) = Dice
      BY <1>0, <2>1 DEF Deal, Free, NoLocks
    <3> QED
      BY <3>1 DEF CarriesLocks, Free
  <2>2. CASE WaitOver(t) \/ Defer(t) \/ AdvanceRead(t) \/ AdvanceCommit(t)
    BY <2>2, NoNewWrite DEF WaitOver, Defer, AdvanceRead, AdvanceCommit
  <2> QED
    BY <1>3, <2>1, <2>2 DEF TaskNext
<1>4. ASSUME NEW p \in Players, IntervalElapses(p) PROVE CarriesLocks'
  BY <1>4, NoNewWrite DEF IntervalElapses
<1>5. ASSUME NEW gone, NEW lost, Crash(gone, lost) PROVE CarriesLocks'
  BY <1>0, <1>5, NoNewWrite DEF Crash
<1>6. CASE UNCHANGED vars
  BY <1>6, NoNewWrite DEF vars
<1> QED
  BY <1>1, <1>2, <1>3, <1>4, <1>5, <1>6 DEF Next

LEMMA LocksStep ==
  ASSUME LocksInv, [Next]_vars, NEW p \in Players, hand'[p] # NoLocks,
         NEW d \in Dice \ Free(hand[p])
  PROVE  hand'[p][d] = hand[p][d]
<1>1. ASSUME NEW c \in Conns, RollWrite(c) PROVE hand'[p][d] = hand[p][d]
  <2>1. CASE p = Owner[c]
    BY <1>1, <2>1 DEF RollWrite, At, LocksInv, CarriesLocks, TypeOK
  <2>2. CASE p # Owner[c]
    BY <1>1, <2>2 DEF RollWrite, LocksInv, TypeOK
  <2> QED
    BY <2>1, <2>2
<1>2. ASSUME NEW t \in tasks, Deal(t) PROVE hand'[p][d] = hand[p][d]
  BY <1>2 DEF Deal
<1>3. ASSUME ~\E c \in Conns : RollWrite(c), ~\E t \in tasks : Deal(t)
      PROVE  hand' = hand
  BY <1>3 DEF Next, vars, RollNext, RollRead, RollRefused, RollPlayer, ClaimWin, ClaimLost,
     CreditWin, AnnounceWin, SendFails, HostNext, StartRead, StartCommit, PauseRead,
     PauseCommit, ResumeCommit, PopRead, PopClear, TaskNext, WaitOver, Defer, AdvanceRead,
     AdvanceCommit, IntervalElapses, Crash
<1> QED
  BY <1>1, <1>2, <1>3

\* When every player has one connection at a time, no die that is locked is
\* lost or changed between two deals (handle_roll's write-back).
THEOREM RoundsKeepLocks == OneConnEach => (Spec => LocksKept)
<1> SUFFICES ASSUME OneConnEach PROVE Spec => LocksKept
  OBVIOUS
<1>1. Init => LocksInv
  <2>1. ASSUME Init PROVE CarriesLocks
    BY <2>1 DEF Init, CarriesLocks, NoHandler
  <2> QED
    BY <2>1, InitTyped DEF LocksInv
<1>2. LocksInv /\ [Next]_vars => LocksInv'
  BY LocksNext
<1>3. LocksInv /\ [Next]_vars =>
        [\A p \in Players : hand'[p] # NoLocks =>
           \A d \in Dice \ Free(hand[p]) : hand'[p][d] = hand[p][d]]_vars
  BY LocksStep
<1> QED
  BY <1>1, <1>2, <1>3, PTL DEF Spec, LocksKept

-----------------------------------------------------------------------------
(* Sums.  SumFunction adds up in an order it chooses; what is needed of it *)
(* is that one more at one place is one more in all.                       *)

LEMMA Least ==
  ASSUME NEW T \in SUBSET Nat, T # {}
  PROVE  \E n \in T : \A m \in T : n <= m
<1>1. PICK n \in T : \A m \in T : ~(<<m, n>> \in OpToRel(<, Nat))
  BY NatLessThanWellFounded, WFMin
<1>2. ASSUME NEW m \in T PROVE n <= m
  <2>1. m \in Nat /\ n \in Nat
    OBVIOUS
  <2>2. ~(m < n)
    BY <1>1, <2>1 DEF OpToRel
  <2> QED
    BY <2>1, <2>2
<1> QED
  BY <1>1, <1>2

\* Of the subsets of a finite set that have some property one has no smaller one.
LEMMA Smallest ==
  ASSUME NEW I, IsFiniteSet(I), NEW B \in SUBSET SUBSET I, B # {}
  PROVE  \E s \in B : \A x \in s : s \ {x} \notin B
<1> DEFINE sizes == {Cardinality(s) : s \in B}
<1>1. ASSUME NEW s \in B PROVE IsFiniteSet(s) /\ Cardinality(s) \in Nat
  BY FS_Subset, FS_CardinalityType
<1>2. sizes \in SUBSET Nat /\ sizes # {}
  BY <1>1
<1>3. PICK n \in sizes : \A m \in sizes : n <= m
  BY <1>2, Least
<1>4. PICK s \in B : Cardinality(s) = n
  OBVIOUS
<1>5. ASSUME NEW x \in s, s \ {x} \in B PROVE FALSE
  <2>1. Cardinality(s \ {x}) = Cardinality(s) - 1
    BY <1>1, FS_RemoveElement
  <2>2. n <= Cardinality(s \ {x})
    BY <1>3, <1>5
  <2> QED
    BY <1>1, <1>4, <2>1, <2>2
<1> QED
  BY <1>5

Pick(s) == CHOOSE x \in s : TRUE

\* g adds up f over the subsets in S.
AddsUp(f, S, g) ==
  g = [s \in S |-> IF s = {} THEN 0 ELSE f[Pick(s)] + g[s \ {Pick(s)}]]

LEMMA PickIn == ASSUME NEW s, s # {} PROVE Pick(s) \in s
BY DEF Pick

\* There is such a function.
LEMMA AddsUpExists ==
  ASSUME NEW I, IsFiniteSet(I), NEW f
  PROVE  \E g : AddsUp(f, SUBSET I, g)
<1> DEFINE small(n) == {s \in SUBSET I : Cardinality(s) <= n}
           bad == {n \in Nat : ~ \E g : AddsUp(f, small(n), g)}
<1>1. ASSUME NEW s \in SUBSET I PROVE IsFiniteSet(s) /\ Cardinality(s) \in Nat
  BY FS_Subset, FS_CardinalityType
<1>2. ASSUME NEW s \in SUBSET I, s # {}
      PROVE  /\ Pick(s) \in s /\ s \ {Pick(s)} \in SUBSET I
             /\ Cardinality(s \ {Pick(s)}) = Cardinality(s) - 1
  BY <1>1, <1>2, PickIn, FS_RemoveElement
<1>3. bad = {}
  <2> SUFFICES ASSUME bad # {} PROVE FALSE
    OBVIOUS
  <2>1. PICK n \in bad : \A m \in bad : n <= m
    BY Least
  <2>2. CASE n = 0
    <3> DEFINE g == [s \in small(0) |-> 0]
    <3>1. ASSUME NEW s \in small(0) PROVE s = {}
      BY <1>1, <3>1, FS_EmptySet
    <3>2. AddsUp(f, small(0), g)
      BY <3>1 DEF AddsUp
    <3> QED
      BY <2>2, <3>2
  <2>3. CASE n # 0
    <3>1. n \in Nat /\ n - 1 \in Nat /\ n - 1 \notin bad
      <4>1. n \in Nat /\ n - 1 \in Nat /\ ~(n <= n - 1)
        BY <2>3
      <4> HIDE DEF bad
      <4> QED
        BY <2>1, <4>1
    <3>2. PICK h : AddsUp(f, small(n - 1), h)
      BY <3>1
    <3> DEFINE g == [s \in small(n) |-> IF s = {} THEN 0 ELSE f[Pick(s)] + h[s \ {Pick(s)}]]
    <3>3. ASSUME NEW s \in small(n - 1) PROVE g[s] = h[s]
      <4>1. s \in small(n)
        BY <1>1, <3>1
      <4>2. h[s] = IF s = {} THEN 0 ELSE f[Pick(s)] + h[s \ {Pick(s)}]
        BY <3>2 DEF AddsUp
      <4> QED
        BY <4>1, <4>2
    <3>4. ASSUME NEW s \in small(n), s # {} PROVE s \ {Pick(s)} \in small(n - 1)
      <4>1. Cardinality(s) \in Nat /\ Cardinality(s) <= n
        BY <1>1
      <4> QED
        BY <1>2, <3>1, <3>4, <4>1
    <3>5. AddsUp(f, small(n), g)
      <4>1. \A s \in small(n) :
               g[s] = IF s = {} THEN 0 ELSE f[Pick(s)] + g[s \ {Pick(s)}]
        BY <3>3, <3>4
      <4> HIDE DEF small
      <4>2. g = [s \in small(n) |-> g[s]]
        OBVIOUS
      <4> HIDE DEF g
      <4> QED
        BY <4>1, <4>2 DEF AddsUp
    <3> QED
      BY <2>1, <3>5
  <2> QED
    BY <2>2, <2>3
<1>4. small(Cardinality(I)) = SUBSET I
  <2>1. ASSUME NEW s \in SUBSET I PROVE Cardinality(s) <= Cardinality(I)
    BY FS_Subset
  <2> QED
    BY <2>1
<1>5. Cardinality(I) \in Nat
  BY FS_CardinalityType
<1> HIDE DEF small
<1> QED
  BY <1>3, <1>4, <1>5

LEMMA SumIs ==
  ASSUME NEW I, IsFiniteSet(I), NEW f, DOMAIN f = I
  PROVE  \E g : AddsUp(f, SUBSET I, g) /\ SumFunction(f) = g[I]
<1> DEFINE g == CHOOSE iter : AddsUp(f, SUBSET I, iter)
<1>1. SumFunction(f) = g[I]
  BY DEF SumFunction, SumFunctionOnSet, FoldFunctionOnSet, MapThenFoldSet, AddsUp, Pick
<1>2. AddsUp(f, SUBSET I, g)
  BY AddsUpExists
<1> QED
  BY <1>1, <1>2

LEMMA AddsUpAt ==
  ASSUME NEW I, NEW f, NEW g, AddsUp(f, SUBSET I, g), NEW s \in SUBSET I
  PROVE  g[s] = IF s = {} THEN 0 ELSE f[Pick(s)] + g[s \ {Pick(s)}]
BY DEF AddsUp

LEMMA SumOfZeros ==
  ASSUME NEW I, IsFiniteSet(I)
  PROVE  SumFunction([i \in I |-> 0]) = 0
<1> DEFINE f == [i \in I |-> 0]
<1>1. PICK g : AddsUp(f, SUBSET I, g) /\ SumFunction(f) = g[I]
  BY SumIs
<1> DEFINE bad == {s \in SUBSET I : g[s] # 0}
<1>2. bad = {}
  <2> SUFFICES ASSUME bad # {} PROVE FALSE
    OBVIOUS
  <2>1. PICK s \in bad : \A x \in s : s \ {x} \notin bad
    BY Smallest
  <2>2. s # {}
    BY <1>1, AddsUpAt
  <2>3. Pick(s) \in s /\ g[s \ {Pick(s)}] = 0 /\ f[Pick(s)] = 0
    BY <2>1, <2>2, PickIn
  <2>4. g[s] = f[Pick(s)] + g[s \ {Pick(s)}]
    <3>1. s \in SUBSET I
      OBVIOUS
    <3> HIDE DEF f, bad
    <3> QED
      BY <1>1, <2>2, <3>1, AddsUpAt
  <2> QED
    BY <2>1, <2>3, <2>4
<1> QED
  BY <1>1, <1>2

\* One more at one place is one more in all.
LEMMA SumGrows ==
  ASSUME NEW I, IsFiniteSet(I), NEW f \in [I -> Nat], NEW p \in I
  PROVE  /\ SumFunction(f) \in Nat
         /\ SumFunction([f EXCEPT ![p] = @ + 1]) = SumFunction(f) + 1
<1> DEFINE e == [f EXCEPT ![p] = @ + 1]
<1>1. PICK g : AddsUp(f, SUBSET I, g) /\ SumFunction(f) = g[I]
  BY SumIs
<1>2. PICK h : AddsUp(e, SUBSET I, h) /\ SumFunction(e) = h[I]
  BY SumIs
<1> DEFINE more(s) == IF p \in s THEN 1 ELSE 0
           bad == {s \in SUBSET I : ~(g[s] \in Nat /\ h[s] = g[s] + more(s))}
<1>3. bad = {}
  <2> SUFFICES ASSUME bad # {} PROVE FALSE
    OBVIOUS
  <2>1. PICK s \in bad : \A x \in s : s \ {x} \notin bad
    BY Smallest
  <2>2. s # {}
    <3>1. {} \in SUBSET I => g[{}] = 0 /\ h[{}] = 0
      BY <1>1, <1>2, AddsUpAt
    <3> QED
      BY <2>1, <3>1
  <2> DEFINE x == Pick(s)
             rest == s \ {x}
  <2>3. x \in s /\ x \in I
    BY <2>2, PickIn
  <2>4. g[rest] \in Nat /\ h[rest] = g[rest] + more(rest)
    BY <2>1, <2>3
  <2>5. g[s] = f[x] + g[rest] /\ h[s] = e[x] + h[rest]
    <3>1. s \in SUBSET I
      OBVIOUS
    <3> HIDE DEF e, bad, x, rest
    <3>2. /\ g[s] = f[Pick(s)] + g[s \ {Pick(s)}]
          /\ h[s] = e[Pick(s)] + h[s \ {Pick(s)}]
      BY <1>1, <1>2, <2>2, <3>1, AddsUpAt
    <3> QED
      BY <3>2 DEF x, rest
  <2>6. f[x] \in Nat /\ e[x] = IF x = p THEN f[x] + 1 ELSE f[x]
    BY <2>3
  <2>7. more(s) = IF x = p THEN more(rest) + 1 ELSE more(rest)
    BY <2>3
  <2>8. more(rest) \in Nat
    OBVIOUS
  <2>9. ~(g[s] \in Nat /\ h[s] = g[s] + more(s))
    OBVIOUS
  <2> HIDE DEF more, rest, x, e, bad
  <2> QED
    BY <2>4, <2>5, <2>6, <2>7, <2>8, <2>9
<1>4. more(I) = 1
  OBVIOUS
<1> QED
  BY <1>1, <1>2, <1>3, <1>4

-----------------------------------------------------------------------------
(* Credit.                                                                 *)

Winners == {c \in Conns : At(c, "wins")}

\* A connection awaits what was created for it, and that alone.
Awaiting ==
  /\ \A t \in tasks : t.by \in Conns => conn[t.by].pc = "await"
  /\ \A t, u \in tasks : t.by \in Conns /\ u.by = t.by => t = u

CreditInv == ChargeInv /\ Awaiting /\ Credited

LEMMA WinnersFinite == IsFiniteSet(Winners) /\ Cardinality(Winners) \in Nat
<1>1. Winners \subseteq Conns
  BY DEF Winners
<1> QED
  BY <1>1, RoundsAssumption, FS_Subset, FS_CardinalityType

\* One connection goes on in its handler; what it awaits is created with it.
LEMMA AwaitingKept ==
  ASSUME Awaiting, NEW c \in Conns, conn[c].pc # "await",
         \A d \in Conns \ {c} : conn'[d].pc = conn[d].pc,
         \/ tasks' = tasks
         \/ \E new : tasks' = tasks \cup {new} /\ new.by \notin Conns
         \/ \E new : tasks' = tasks \cup {new} /\ new.by = c /\ conn'[c].pc = "await"
  PROVE  Awaiting'
<1>1. \A t \in tasks : t.by # c
  BY DEF Awaiting
<1> QED
  BY <1>1 DEF Awaiting

\* Nobody is credited and no round is won or opened.
LEMMA CreditStays ==
  ASSUME Credited, wins' = wins, fails' = fails,
         game'.num = game.num, game'.over = game.over,
         \A c \in Conns : conn'[c].pc = "wins" <=> conn[c].pc = "wins"
  PROVE  Credited'
<1>1. {c \in Conns : At(c, "wins")}' = {c \in Conns : At(c, "wins")}
  BY DEF At
<1> QED
  BY <1>1 DEF Credited

LEMMA RollCredit ==
  ASSUME CreditInv, NEW c \in Conns, RollNext(c)
  PROVE  Awaiting' /\ Credited'
<1> USE DEF At, Goto, Return
<1>0. TypeOK /\ NoHandler.pc = "idle" /\ Awaiting /\ Credited
  BY DEF CreditInv, ChargeInv, NoHandler
<1>1. CASE RollRead(c)
  BY <1>0, <1>1, AwaitingKept, CreditStays DEF RollRead, TypeOK, Conn
<1>2. CASE RollRefused(c)
  BY <1>0, <1>2, AwaitingKept, CreditStays DEF RollRefused, TypeOK, Conn
<1>3. ASSUME NEW matches \in SUBSET Dice, RollPlayer(c, matches)
      PROVE  Awaiting' /\ Credited'
  <2>1. conn'[c].pc = "write" /\ \A d \in Conns \ {c} : conn'[d].pc = conn[d].pc
    BY <1>0, <1>3 DEF RollPlayer, TypeOK, Conn
  <2> QED
    BY <1>0, <1>3, <2>1, AwaitingKept, CreditStays DEF RollPlayer
<1>4. CASE RollWrite(c)
  <2>1. conn'[c].pc \in {"finish", "idle"} /\ \A d \in Conns \ {c} : conn'[d].pc = conn[d].pc
    BY <1>0, <1>4 DEF RollWrite, TypeOK, Conn
  <2> QED
    BY <1>0, <1>4, <2>1, AwaitingKept, CreditStays DEF RollWrite
<1>5. CASE ClaimWin(c)
  <2>1. /\ conn[c].pc = "finish" /\ conn'[c].pc = "wins"
        /\ \A d \in Conns \ {c} : conn'[d].pc = conn[d].pc
    BY <1>0, <1>5 DEF ClaimWin, TypeOK, Conn
  <2>2. /\ ~game.over /\ game'.over /\ game'.num = game.num /\ game.num \in Nat \ {0}
        /\ UNCHANGED <<wins, tasks, fails>>
    BY <1>0, <1>5 DEF ClaimWin, TypeOK, Game
  <2>3. Winners' = Winners \cup {c} /\ c \notin Winners
    BY <2>1 DEF Winners
  <2>4. Cardinality(Winners') = Cardinality(Winners) + 1
    BY <2>3, WinnersFinite, FS_AddElement
  <2>5. SumFunction(wins) \in Nat
    BY <1>0, RoundsAssumption, SumGrows DEF TypeOK
  <2>6. Credited'
    BY <1>0, <2>2, <2>4, <2>5, WinnersFinite DEF Credited, Winners
  <2> QED
    BY <1>0, <2>1, <2>2, <2>6, AwaitingKept
<1>6. CASE ClaimLost(c)
  BY <1>0, <1>6, AwaitingKept, CreditStays DEF ClaimLost, TypeOK, Conn
<1>7. CASE CreditWin(c)
  <2>1. /\ conn[c].pc = "wins" /\ conn'[c].pc = "send"
        /\ \A d \in Conns \ {c} : conn'[d].pc = conn[d].pc
    BY <1>0, <1>7 DEF CreditWin, TypeOK, Conn
  <2>2. wins' = [wins EXCEPT ![Owner[c]] = @ + 1] /\ UNCHANGED <<game, tasks, fails>>
    BY <1>7 DEF CreditWin
  <2>3. Winners' = Winners \ {c} /\ c \in Winners
    BY <2>1 DEF Winners
  <2>4. Cardinality(Winners') = Cardinality(Winners) - 1
    BY <2>3, WinnersFinite, FS_RemoveElement
  <2>5. SumFunction(wins) \in Nat /\ SumFunction(wins') = SumFunction(wins) + 1
    <3>1. Owner[c] \in Players /\ wins \in [Players -> Nat]
      BY <1>0, RoundsAssumption DEF TypeOK
    <3> QED
      BY <2>2, <3>1, RoundsAssumption, SumGrows
  <2>6. Credited'
    BY <1>0, <2>2, <2>4, <2>5, WinnersFinite DEF Credited, Winners
  <2> QED
    BY <1>0, <2>1, <2>2, <2>6, AwaitingKept
<1>8. CASE AnnounceWin(c)
  <2> DEFINE new == [by |-> None, round |-> conn[c].won, target |-> 1, st |-> "wait"]
  <2>1. /\ conn[c].pc = "send" /\ conn'[c].pc = "idle"
        /\ \A d \in Conns \ {c} : conn'[d].pc = conn[d].pc
    BY <1>0, <1>8 DEF AnnounceWin, TypeOK, Conn
  <2>2. tasks' = tasks \cup {new} /\ new.by \notin Conns
    BY <1>8, RoundsAssumption DEF AnnounceWin
  <2>3. UNCHANGED <<game, wins, fails>>
    BY <1>8 DEF AnnounceWin
  <2> HIDE DEF new
  <2> QED
    BY <1>0, <2>1, <2>2, <2>3, AwaitingKept, CreditStays
<1>9. CASE SendFails(c)
  <2>1. /\ conn[c].pc = "send" /\ tasks' = tasks
        /\ \A d \in Conns \ {c} : conn'[d].pc = conn[d].pc
    BY <1>0, <1>9 DEF SendFails, TypeOK, Conn
  <2>2. fails' # 0
    BY <1>0, <1>9 DEF SendFails, TypeOK
  <2> QED
    BY <1>0, <2>1, <2>2, AwaitingKept DEF Credited
<1> QED
  BY <1>1, <1>2, <1>3, <1>4, <1>5, <1>6, <1>7, <1>8, <1>9 DEF RollNext

LEMMA HostCredit ==
  ASSUME CreditInv, NEW c \in Conns, HostNext(c)
  PROVE  Awaiting' /\ Credited'
<1> USE DEF At, Goto, Return
<1>0. TypeOK /\ NoHandler.pc = "idle" /\ Awaiting /\ Credited
  BY DEF CreditInv, ChargeInv, NoHandler
<1>1. /\ conn[c].pc \in {"idle", "start", "pause", "resume", "pop", "clear"}
      /\ conn'[c].pc # "wins" /\ UNCHANGED <<wins, fails>>
      /\ \A d \in Conns \ {c} : conn'[d].pc = conn[d].pc
      /\ game'.num = game.num /\ game'.over = game.over
  BY <1>0 DEF HostNext, StartRead, StartCommit, PauseRead, PauseCommit, ResumeCommit,
     PopRead, PopClear, TypeOK, Conn, Game
<1>2. Credited'
  BY <1>0, <1>1, CreditStays
<1>3. ASSUME NEW st, tasks' = tasks \cup {Await(c, st)}, Goto(c, "await") PROVE Awaiting'
  <2>1. Await(c, st).by = c /\ conn'[c].pc = "await"
    BY <1>0, <1>3 DEF Await, TypeOK, Conn
  <2> QED
    BY <1>0, <1>1, <1>3, <2>1, AwaitingKept
<1>4. CASE StartCommit(c) \/ PopClear(c)
  BY <1>2, <1>3, <1>4 DEF StartCommit, PopClear
<1>5. CASE ~(StartCommit(c) \/ PopClear(c))
  <2>1. tasks' = tasks
    BY <1>5 DEF HostNext, StartRead, PauseRead, PauseCommit, ResumeCommit, PopRead
  <2> QED
    BY <1>0, <1>1, <1>2, <2>1, AwaitingKept
<1> QED
  BY <1>4, <1>5

LEMMA TaskCredit ==
  ASSUME CreditInv, NEW t \in tasks, TaskNext(t)
  PROVE  Awaiting' /\ Credited'
<1>0. TypeOK /\ NoHandler.pc = "idle" /\ Awaiting /\ Credited /\ t \in Task
  BY DEF CreditInv, ChargeInv, TypeOK, NoHandler
<1>1. ASSUME NEW u, u.by = t.by, tasks' = (tasks \ {t}) \cup {u}, conn' = conn
      PROVE  Awaiting'
  BY <1>0, <1>1 DEF Awaiting
<1>2. ASSUME tasks' \subseteq tasks, conn' = conn PROVE Awaiting'
  BY <1>0, <1>2 DEF Awaiting
<1>3. ASSUME UNCHANGED <<conn, wins, fails>>, game'.num = game.num, game'.over = game.over
      PROVE  Credited'
  BY <1>0, <1>3, CreditStays
<1>4. CASE WaitOver(t) \/ AdvanceRead(t)
  <2>1. \E u : u.by = t.by /\ tasks' = (tasks \ {t}) \cup {u}
    BY <1>0, <1>4 DEF WaitOver, AdvanceRead, Becomes, Task
  <2> QED
    BY <1>1, <1>3, <1>4, <2>1 DEF WaitOver, AdvanceRead
<1>5. CASE Defer(t)
  <2>1. game'.num = game.num /\ game'.over = game.over
    BY <1>0, <1>5 DEF Defer, TypeOK, Game
  <2> QED
    BY <1>2, <1>3, <1>5, <2>1 DEF Defer
<1>6. CASE AdvanceCommit(t)
  <2>1. \E u : u.by = t.by /\ tasks' = (tasks \ {t}) \cup {u}
    BY <1>0, <1>6 DEF AdvanceCommit, Becomes, Task
  <2>2. game.over
    BY <1>6 DEF AdvanceCommit, CreditInv, ChargeInv, ChargeOver, Carrying
  <2>3. /\ game'.num = game.num + 1 /\ ~game'.over /\ game.num \in Nat \ {0}
        /\ UNCHANGED <<conn, wins, fails>>
    BY <1>0, <1>6 DEF AdvanceCommit, TypeOK, Game
  <2>4. Credited'
    <3>1. {c \in Conns : At(c, "wins")}' = {c \in Conns : At(c, "wins")}
      BY <2>3 DEF At
    <3>2. fails = 0 => SumFunction(wins) + Cardinality({c \in Conns : At(c, "wins")})
                         = game.num
      BY <1>0, <2>2, <2>3 DEF Credited
    <3>3. game'.num - 1 = game.num
      BY <2>3
    <3> QED
      BY <2>3, <3>1, <3>2, <3>3 DEF Credited
  <2> QED
    BY <1>1, <2>1, <2>3, <2>4
<1>7. CASE Deal(t)
  <2>1. /\ tasks' = tasks \ {t} /\ UNCHANGED <<wins, fails>>
        /\ game'.num = game.num /\ game'.over = game.over
        /\ \A c \in Conns : conn'[c] = IF c = t.by THEN NoHandler ELSE conn[c]
    BY <1>0, <1>7 DEF Deal, TypeOK, Game
  <2>2. \A c \in Conns : c = t.by => conn[c].pc = "await"
    BY <1>0 DEF Awaiting
  <2>3. Credited'
    <3>1. \A c \in Conns : conn'[c].pc = "wins" <=> conn[c].pc = "wins"
      BY <1>0, <2>1, <2>2
    <3> QED
      BY <1>0, <2>1, <3>1, CreditStays
  <2>4. Awaiting'
    BY <1>0, <2>1 DEF Awaiting
  <2> QED
    BY <2>3, <2>4
<1> QED
  BY <1>4, <1>5, <1>6, <1>7 DEF TaskNext

LEMMA CreditNext == SoleHost /\ CreditInv /\ [Next]_vars => CreditInv'
<1> SUFFICES ASSUME SoleHost, CreditInv, [Next]_vars PROVE Awaiting' /\ Credited'
  BY ChargeNext DEF CreditInv
<1>0. Awaiting /\ Credited /\ fails \in Nat
  BY DEF CreditInv, ChargeInv, TypeOK
<1>1. ASSUME NEW c \in Conns, RollNext(c) \/ HostNext(c) PROVE Awaiting' /\ Credited'
  BY <1>1, RollCredit, HostCredit
<1>2. ASSUME NEW t \in tasks, TaskNext(t) PROVE Awaiting' /\ Credited'
  BY <1>2, TaskCredit
<1>3. CASE UNCHANGED <<game, wins, conn, tasks, fails>>
  <2>1. Credited'
    BY <1>0, <1>3, CreditStays
  <2>2. Awaiting'
    BY <1>0, <1>3 DEF Awaiting
  <2> QED
    BY <2>1, <2>2
<1>4. ASSUME NEW gone, NEW lost, Crash(gone, lost) PROVE Awaiting' /\ Credited'
  <2>1. Credited'
    BY <1>0, <1>4 DEF Crash, Credited
  <2>2. /\ \A t \in tasks' : t \in tasks /\ t.by \notin gone
        /\ \A c \in Conns : c \notin gone => conn'[c] = conn[c]
    BY <1>4 DEF Crash
  <2>3. Awaiting'
    BY <1>0, <2>2 DEF Awaiting
  <2> QED
    BY <2>1, <2>3
<1> QED
  BY <1>1, <1>2, <1>3, <1>4 DEF Next, IntervalElapses, vars

\* Every round that was won is credited to one player once, however the rolls of several
\* connections, pauses and deferrals interleave, unless a crash or a failed send takes the
\* credit away (try_finish_round and incr_wins are two calls).
THEOREM RoundsCreditWins == SoleHost => (Spec => []Credited)
<1> SUFFICES ASSUME SoleHost PROVE Spec => []Credited
  OBVIOUS
<1>1. Init => CreditInv
  <2> SUFFICES ASSUME Init PROVE Awaiting /\ Credited
    BY InitCharge DEF CreditInv
  <2>1. {c \in Conns : At(c, "wins")} = {}
    BY DEF Init, At, NoHandler
  <2>2. Awaiting
    BY DEF Init, Awaiting
  <2>3. SumFunction(wins) = 0
    BY RoundsAssumption, SumOfZeros DEF Init
  <2>4. Credited
    BY <2>1, <2>3, FS_EmptySet DEF Init, Credited
  <2> QED
    BY <2>2, <2>4
<1>2. CreditInv /\ [Next]_vars => CreditInv'
  BY CreditNext
<1>3. CreditInv => Credited
  BY DEF CreditInv
<1> QED
  BY <1>1, <1>2, <1>3, PTL DEF Spec

===============================================================================
