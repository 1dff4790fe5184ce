-------------------------------- MODULE Seats --------------------------------
(***************************************************************************)
(* Who holds a seat in one game: the create, join, reconnect, start,       *)
(* pause, end and leave handlers of server/ws.py and its disconnect        *)
(* cleanup, do_drop of server/broadcast.py and the sweep of                *)
(* server/reaper.py, run by several instances against one Redis hash.      *)
(*                                                                         *)
(* An action is what a coroutine does from one Redis call to the next.  A  *)
(* connection runs one handler at a time; connections, grace tasks, the    *)
(* reapers and their do_drop calls interleave, on one instance or several. *)
(* A crashed instance loses its connections, its tasks and its calls, and  *)
(* cleans up nothing; it restarts empty.                                   *)
(***************************************************************************)
EXTENDS SeatStore

CONSTANTS Insts,       \* server instances
          MaxPlayers,  \* MAX_PLAYERS_PER_GAME
          MaxToggles,  \* bound: how often the pause control is used
          MaxCalls     \* bound: do_drop calls of tasks and reapers under way

ASSUME SeatsAssumption ==
  /\ None \notin Insts
  /\ {MaxPlayers, MaxToggles, MaxCalls} \subseteq Nat

VARIABLES hash,     \* the game's hash (SeatStore)
          born,     \* create has run: its code is not drawn a second time
          sess,     \* per connection: its Session and its place in a handler
          timers,   \* grace tasks asleep: state.drop_tasks of each instance
          drops,    \* do_drop calls under way
          toggles,  \* uses of the pause control so far
          claims    \* history: the live connections that took each seat since
                    \* its player last joined, was dropped or lost the game

vars == <<hash, born, sess, timers, drops, toggles, claims>>

-----------------------------------------------------------------------------
Pcs == {"idle", "claim", "start", "deal", "dealing", "pause", "resume",
        "resumed", "restamp", "end", "leave"}

Session == [life : {"new", "open", "closing", "closed"}, inst : Insts \cup {None},
            pid : Pids, seated : BOOLEAN, seq : Nat, pc : Pcs, todo : SUBSET Pids]

\* Mutant: a Session that has not drawn its uuid.
NoSessionNoPid(s, life) == [life |-> life, inst |-> None, pid |-> None, seated |-> FALSE,
                            seq |-> 0, pc |-> "idle", todo |-> {}]

NoSession(s, life) == [life |-> life, inst |-> None, pid |-> s, seated |-> FALSE,
                       seq |-> 0, pc |-> "idle", todo |-> {}]

\* due: the grace this task sleeps for may have run out although the seat's
\* stamp is fresh, because the stamp was renewed after the task was scheduled.
Timer == [inst : Insts, pid : Pids, due : BOOLEAN]

(***************************************************************************)
(* A do_drop call: about to read its snapshot ("call"), to run _DROP_LUA   *)
(* ("lua") or to hand the host role to heir ("give").  sock is the leaving *)
(* connection that awaits it, None for a task or a reaper; only a leave    *)
(* passes grace_ms = 0.                                                    *)
(***************************************************************************)
Drop == [pid : Pids, sock : Socks \cup {None},
         st : {"call", "lua", "give"}, heir : Pids \cup {None}]

TypeOK ==
  /\ hash \in Hash
  /\ born \in BOOLEAN
  /\ sess \in [Socks -> Session]
  /\ timers \in SUBSET Timer
  /\ drops \in SUBSET Drop
  /\ toggles \in Nat
  /\ claims \in [Pids -> SUBSET Socks]

Init ==
  /\ hash = NoHash
  /\ born = FALSE
  /\ sess = [s \in Socks |-> NoSession(s, "new")]
  /\ timers = {}
  /\ drops = {}
  /\ toggles = 0
  /\ claims = [p \in Pids |-> {}]

At(s, pc) == sess[s].life = "open" /\ sess[s].pc = pc

Goto(s, pc) == sess' = [sess EXCEPT ![s].pc = pc]

(***************************************************************************)
(* The last thing a handler does is snapshot and broadcast: a KeyError in  *)
(* state_msg leaves the receive loop for its finally block.                *)
(***************************************************************************)
AfterPrint(session, h) ==
  [session EXCEPT !.pc = "idle", !.life = IF Unprintable(h) THEN "closing" ELSE @]

Host(s) == hash.host = sess[s].pid

\* A grace task is cancelled by the instance that holds it; one is scheduled
\* with a new stamp, which every other task of that player predates.
Cancel(i, p) == {t \in timers : t.inst # i \/ t.pid # p}

Overtaken(ts, p) == {[t EXCEPT !.due = t.due \/ t.pid = p] : t \in ts}

Schedule(i, p) ==
  Overtaken(Cancel(i, p), p) \cup {[inst |-> i, pid |-> p, due |-> FALSE]}

-----------------------------------------------------------------------------
(* Connecting and taking a seat.  The client opens a socket per intent:    *)
(* auth if it is signed in, then one create, join or reconnect.            *)

Open(s, i) ==
  /\ sess[s].life = "new"
  /\ sess' = [sess EXCEPT ![s].life = "open", ![s].inst = i]
  /\ UNCHANGED <<hash, born, timers, drops, toggles, claims>>

Auth(s, a) ==
  /\ At(s, "idle")
  /\ ~sess[s].seated
  /\ sess' = [sess EXCEPT ![s].pid = a]
  /\ UNCHANGED <<hash, born, timers, drops, toggles, claims>>

Create(s) ==
  /\ At(s, "idle")
  /\ ~sess[s].seated
  /\ ~born
  /\ hash' = CreateLua(sess[s].pid)
  /\ born' = TRUE
  /\ sess' = [sess EXCEPT ![s].seated = TRUE]
  /\ claims' = [claims EXCEPT ![sess[s].pid] = {s}]
  /\ UNCHANGED <<timers, drops, toggles>>

Join(s) ==
  /\ At(s, "idle")
  /\ ~sess[s].seated
  /\ JoinAllowed(hash, MaxPlayers)
  /\ LET h == JoinLua(hash, sess[s].pid)
     IN /\ hash' = h
        /\ sess' = [sess EXCEPT ![s] = AfterPrint([@ EXCEPT !.seated = TRUE], h)]
  /\ claims' = [claims EXCEPT ![sess[s].pid] = {s}]
  /\ UNCHANGED <<born, timers, drops, toggles>>

\* A refused join changes nothing, but on a bare hash the script fails on the
\* missing "order" and the exception ends the connection.
JoinFails(s) ==
  /\ At(s, "idle")
  /\ ~sess[s].seated
  /\ hash.key = "bare"
  /\ ~hash.started
  /\ sess' = [sess EXCEPT ![s].life = "closing"]
  /\ UNCHANGED <<hash, born, timers, drops, toggles, claims>>

\* get_player finds a name and the token verifies; the local grace task is
\* cancelled, and the Session takes the player over before the next await.
ReconnectRead(s, p) ==
  /\ At(s, "idle")
  /\ ~sess[s].seated
  /\ hash.seat[p].rec = "named"
  /\ timers' = Cancel(sess[s].inst, p)
  /\ sess' = [sess EXCEPT ![s].pid = p, ![s].seated = TRUE, ![s].pc = "claim"]
  /\ UNCHANGED <<hash, born, drops, toggles, claims>>

ReconnectClaim(s) ==
  /\ At(s, "claim")
  /\ LET p == sess[s].pid
         h == ClaimConnLua(hash, p)
     IN /\ hash' = h
        /\ sess' = [sess EXCEPT ![s] = AfterPrint([@ EXCEPT !.seq = h.seat[p].gen], h)]
        /\ claims' = [claims EXCEPT ![p] = @ \cup {s}]
  /\ UNCHANGED <<born, timers, drops, toggles>>

-----------------------------------------------------------------------------
(* The host's controls.                                                    *)

StartRead(s) ==
  /\ At(s, "idle")
  /\ sess[s].seated
  /\ Host(s)
  /\ ~hash.started
  /\ Goto(s, "start")
  /\ UNCHANGED <<hash, born, timers, drops, toggles, claims>>

StartCommit(s) ==
  /\ At(s, "start")
  /\ hash' = SetStarted(hash)
  /\ Goto(s, "deal")
  /\ UNCHANGED <<born, timers, drops, toggles, claims>>

DealRead(s) ==
  /\ At(s, "deal")
  /\ sess' = [sess EXCEPT ![s].pc = "dealing", ![s].todo = Listed(hash)]
  /\ UNCHANGED <<hash, born, timers, drops, toggles, claims>>

Deal(s) ==
  /\ At(s, "dealing")
  /\ LET h == DealWrite(hash, sess[s].todo)
     IN /\ hash' = h
        /\ sess' = [sess EXCEPT ![s] = AfterPrint([@ EXCEPT !.todo = {}], h)]
  /\ UNCHANGED <<born, timers, drops, toggles, claims>>

\* A toggle: which way it goes is decided by the value read here.
PauseRead(s) ==
  /\ At(s, "idle")
  /\ sess[s].seated
  /\ Host(s)
  /\ hash.started
  /\ toggles < MaxToggles
  /\ toggles' = toggles + 1
  /\ Goto(s, IF hash.paused THEN "resume" ELSE "pause")
  /\ UNCHANGED <<hash, born, timers, drops, claims>>

PauseCommit(s) ==
  /\ At(s, "pause")
  /\ hash' = SetPaused(hash)
  /\ sess' = [sess EXCEPT ![s] = AfterPrint(@, SetPaused(hash))]
  /\ UNCHANGED <<born, timers, drops, toggles, claims>>

ResumeCommit(s) ==
  /\ At(s, "resume")
  /\ hash' = SetResumed(hash)
  /\ Goto(s, "resumed")
  /\ UNCHANGED <<born, timers, drops, toggles, claims>>

ResumeRead(s) ==
  /\ At(s, "resumed")
  /\ sess' = IF hash.key = "absent" THEN [sess EXCEPT ![s].pc = "idle"]
             ELSE [sess EXCEPT ![s].pc = "restamp",
                     ![s].todo = {p \in Pids : hash.seat[p].conn = "off"}]
  /\ UNCHANGED <<hash, born, timers, drops, toggles, claims>>

\* One turn of the loop over the players who were away: a new stamp, if still
\* away, and a new grace task in the place of this instance's old one.
ResumeRestamp(s, p) ==
  /\ At(s, "restamp")
  /\ p \in sess[s].todo
  /\ hash' = RestampLua(hash, p)
  /\ timers' = Schedule(sess[s].inst, p)
  /\ sess' = [sess EXCEPT ![s].todo = @ \ {p}]
  /\ UNCHANGED <<born, drops, toggles, claims>>

\* The frame is built from ResumeRead's snapshot or, when a deferred round
\* advances, from a new one; if that raises, Close follows.
ResumeDone(s) ==
  /\ At(s, "restamp")
  /\ sess[s].todo = {}
  /\ Goto(s, "idle")
  /\ UNCHANGED <<hash, born, timers, drops, toggles, claims>>

\* The final frame is built, with every player's name, before the delete.
EndRead(s) ==
  /\ At(s, "idle")
  /\ sess[s].seated
  /\ Host(s)
  /\ hash.started
  /\ sess' = IF Unprintable(hash) THEN [sess EXCEPT ![s].life = "closing"]
             ELSE [sess EXCEPT ![s].pc = "end"]
  /\ UNCHANGED <<hash, born, timers, drops, toggles, claims>>

EndCommit(s) ==
  /\ At(s, "end")
  /\ hash' = NoHash
  /\ claims' = [p \in Pids |-> {}]
  /\ Goto(s, "idle")
  /\ UNCHANGED <<born, timers, drops, toggles>>

-----------------------------------------------------------------------------
(* Going away.                                                             *)

\* The unconditional mark of a voluntary leave; the handler then awaits do_drop.
Leave(s) ==
  /\ At(s, "idle")
  /\ sess[s].seated
  /\ hash' = MarkDisconnected(hash, sess[s].pid)
  /\ timers' = Overtaken(Cancel(sess[s].inst, sess[s].pid), sess[s].pid)
  /\ Goto(s, "leave")
  /\ UNCHANGED <<born, drops, toggles, claims>>

\* The peer is gone, or sending to it failed after the handler's last write.
Close(s) ==
  /\ At(s, "idle")
  /\ sess' = [sess EXCEPT ![s].life = "closing"]
  /\ UNCHANGED <<hash, born, timers, drops, toggles, claims>>

\* The finally block: only the current generation may mark its player.
CloseMark(s) ==
  /\ sess[s].life = "closing"
  /\ LET p == sess[s].pid
     IN /\ IF sess[s].seated /\ MarkDiscIfCurrent(hash, p, sess[s].seq)
           THEN /\ hash' = MarkDisconnected(hash, p)
                /\ timers' = Schedule(sess[s].inst, p)
           ELSE UNCHANGED <<hash, timers>>
        /\ claims' = [claims EXCEPT ![p] = @ \ {s}]
  /\ sess' = [sess EXCEPT ![s] = NoSession(s, "closed")]
  /\ UNCHANGED <<born, drops, toggles>>

Connected(h) == {q \in Players(h) : h.seat[q].conn # "off"}

\* next(...) over the players dict: the listed ones in order, then the rest.
HandoverTo(h, p) ==
  LET near == {e \in h.order : e.pid \in Connected(h) \ {p}}
  IN IF near # {} THEN Firsts(near) ELSE Connected(h) \ {p}

\* The end of a do_drop call that sock awaits; raised: with an exception,
\* which a leaving connection does not survive.
Ended(sock, raised) ==
  [s \in Socks |-> IF s # sock THEN sess[s]
                   ELSE [sess[s] EXCEPT !.pc = "idle",
                                        !.life = IF raised THEN "closing" ELSE @]]

Finish(d, raised) ==
  /\ drops' = drops \ {d}
  /\ sess' = Ended(d.sock, raised)

\* do_drop's snapshot and the branch it takes; others are the calls under way
\* besides this one.
DropRead(p, sock, others) ==
  LET Call(st, heir) == [pid |-> p, sock |-> sock, st |-> st, heir |-> heir]
      Returns(raised) == drops' = others /\ sess' = Ended(sock, raised)
      away == hash.seat[p].conn = "off"
      heirs == IF hash.host = p THEN HandoverTo(hash, p) ELSE {}
  IN \/ ~away /\ Returns(FALSE)
     \/ away /\ hash.paused /\ heirs = {} /\ Returns(FALSE)
     \/ /\ away /\ hash.paused
        /\ \E q \in heirs : drops' = others \cup {Call("give", q)}
        /\ UNCHANGED sess
     \/ away /\ ~hash.paused /\ hash.seat[p].rec # "named" /\ Returns(TRUE)
     \/ /\ away /\ ~hash.paused /\ hash.seat[p].rec = "named"
        /\ drops' = others \cup {Call("lua", None)}
        /\ UNCHANGED sess

LeaveDrop(s) ==
  /\ At(s, "leave")
  /\ ~ \E d \in drops : d.sock = s
  /\ DropRead(sess[s].pid, s, drops)
  /\ UNCHANGED <<hash, born, timers, toggles, claims>>

Background == {d \in drops : d.sock = None}

\* A grace task wakes.
GraceTask(t) ==
  /\ t \in timers
  /\ t.due \/ hash.seat[t.pid].stamp # "fresh"
  /\ Cardinality(Background) < MaxCalls
  /\ timers' = timers \ {t}
  /\ DropRead(t.pid, None, drops)
  /\ UNCHANGED <<hash, born, toggles, claims>>

\* Mutant: a sweep that passes by the paused games.
ReapUnpaused(p) ==
  /\ hash.key # "absent"
  /\ hash.seat[p].conn = "off"
  /\ ~hash.paused
  /\ Cardinality(Background) < MaxCalls
  /\ drops' = drops \cup {[pid |-> p, sock |-> None, st |-> "call", heir |-> None]}
  /\ UNCHANGED <<hash, born, sess, timers, toggles, claims>>

\* A sweep's snapshot shows p away: do_drop will be called.  Of a paused game
\* only the host, past its grace, and not if the pause itself is over.
Reap(p) ==
  /\ hash.key # "absent"
  /\ hash.seat[p].conn = "off"
  /\ hash.paused => hash.host = p /\ hash.seat[p].stamp = "past" /\ hash.deadline # "past"
  /\ Cardinality(Background) < MaxCalls
  /\ drops' = drops \cup {[pid |-> p, sock |-> None, st |-> "call", heir |-> None]}
  /\ UNCHANGED <<hash, born, sess, timers, toggles, claims>>

ReapDrop(d) ==
  /\ d \in drops
  /\ d.st = "call"
  /\ DropRead(d.pid, None, drops \ {d})
  /\ UNCHANGED <<hash, born, timers, toggles, claims>>

DropGive(d) ==
  /\ d \in drops
  /\ d.st = "give"
  /\ hash' = TransferHost(hash, d.heir)
  /\ Finish(d, Unprintable(TransferHost(hash, d.heir)))
  /\ UNCHANGED <<born, timers, toggles, claims>>

DropRefused(d) ==
  /\ d \in drops
  /\ d.st = "lua"
  /\ ~DropAllowed(hash, d.pid, d.sock # None)
  /\ Finish(d, FALSE)
  /\ UNCHANGED <<hash, born, timers, toggles, claims>>

\* On a bare hash the script passes its checks and then fails on "order".
DropFails(d) ==
  /\ d \in drops
  /\ d.st = "lua"
  /\ DropAllowed(hash, d.pid, d.sock # None)
  /\ hash.key = "bare"
  /\ Finish(d, TRUE)
  /\ UNCHANGED <<hash, born, timers, toggles, claims>>

DropRemoves(d, heir) ==
  /\ d \in drops
  /\ d.st = "lua"
  /\ DropAllowed(hash, d.pid, d.sock # None)
  /\ hash.key = "game"
  /\ Kept(hash, d.pid) # {}
  /\ heir \in Firsts(Kept(hash, d.pid))
  /\ hash' = DropLua(hash, d.pid, heir)
  /\ Finish(d, Unprintable(DropLua(hash, d.pid, heir)))
  /\ claims' = [claims EXCEPT ![d.pid] = {}]
  /\ UNCHANGED <<born, timers, toggles>>

\* The last player: the game goes with it.
DropDeletes(d) ==
  /\ d \in drops
  /\ d.st = "lua"
  /\ DropAllowed(hash, d.pid, d.sock # None)
  /\ hash.key = "game"
  /\ Kept(hash, d.pid) = {}
  /\ hash' = NoHash
  /\ Finish(d, FALSE)
  /\ claims' = [p \in Pids |-> {}]
  /\ UNCHANGED <<born, timers, toggles>>

-----------------------------------------------------------------------------
(* Time and failures.                                                      *)

GraceElapses(p) ==
  /\ hash.seat[p].stamp = "fresh"
  /\ hash' = [hash EXCEPT !.seat[p].stamp = "past"]
  /\ UNCHANGED <<born, sess, timers, drops, toggles, claims>>

PauseElapses ==
  /\ hash.deadline = "ahead"
  /\ hash' = [hash EXCEPT !.deadline = "past"]
  /\ UNCHANGED <<born, sess, timers, drops, toggles, claims>>

\* end_if_paused_over, of the local watchdog or of any reaper: the script
\* decides, the snapshot before it only spares the call.
EndPaused ==
  /\ hash.key # "absent"
  /\ EndPausedAllowed(hash)
  /\ hash' = NoHash
  /\ claims' = [p \in Pids |-> {}]
  /\ UNCHANGED <<born, sess, timers, drops, toggles>>

\* Background calls are not told apart by instance: any of them may be lost.
Crash(i) ==
  LET gone == {s \in Socks : sess[s].inst = i}
  IN /\ gone # {} \/ \E t \in timers : t.inst = i
     /\ sess' = [s \in Socks |-> IF s \in gone THEN NoSession(s, "closed") ELSE sess[s]]
     /\ timers' = {t \in timers : t.inst # i}
     /\ \E lost \in SUBSET Background :
          drops' = {d \in drops : d.sock \notin gone} \ lost
     /\ claims' = [p \in Pids |-> claims[p] \ gone]
     /\ UNCHANGED <<hash, born, toggles>>

-----------------------------------------------------------------------------
SocketNext(s) ==
  \/ \E i \in Insts : Open(s, i)
  \/ \E a \in Accounts : Auth(s, a)
  \/ Create(s)
  \/ Join(s)
  \/ JoinFails(s)
  \/ \E p \in Pids : ReconnectRead(s, p)
  \/ ReconnectClaim(s)
  \/ StartRead(s)
  \/ StartCommit(s)
  \/ DealRead(s)
  \/ Deal(s)
  \/ PauseRead(s)
  \/ PauseCommit(s)
  \/ ResumeCommit(s)
  \/ ResumeRead(s)
  \/ \E p \in Pids : ResumeRestamp(s, p)
  \/ ResumeDone(s)
  \/ EndRead(s)
  \/ EndCommit(s)
  \/ Leave(s)
  \/ LeaveDrop(s)
  \/ Close(s)
  \/ CloseMark(s)

CallNext(d) ==
  \/ ReapDrop(d)
  \/ DropGive(d)
  \/ DropRefused(d)
  \/ DropFails(d)
  \/ \E heir \in Pids : DropRemoves(d, heir)
  \/ DropDeletes(d)

Next ==
  \/ \E s \in Socks : SocketNext(s)
  \/ \E t \in timers : GraceTask(t)
  \/ \E p \in Pids : Reap(p)
  \/ \E d \in drops : CallNext(d)
  \/ \E p \in Pids : GraceElapses(p)
  \/ PauseElapses
  \/ EndPaused
  \/ \E i \in Insts : Crash(i)

Spec == Init /\ [][Next]_vars

-----------------------------------------------------------------------------
(* What must hold.                                                         *)

\* Two live connections that took the same seat never hold the same
\* generation of it, nor one that was never handed out: at most one of them
\* can mark the player disconnected when it closes (the conn_seq of
\* _CLAIM_CONN_LUA, read back by _MARK_DISC_IF_CURRENT_LUA).
OneOwner ==
  \A p \in Pids : \A s \in claims[p] :
    /\ sess[s].seq <= hash.seat[p].gen
    /\ \A t \in claims[p] : sess[s].seq = sess[t].seq => s = t

\* A connection that a reconnect has superseded changes nothing when it
\* closes: the cleanup in websocket_endpoint's finally block is refused.
SupersededCloseIsNoop ==
  [][\A p \in Pids : \A s, t \in claims[p] :
       sess[s].seq < sess[t].seq /\ CloseMark(s) => UNCHANGED hash]_vars

\* The same of any earlier connection of a player whose seat a later one has
\* taken since, however it took it: "a stale close can never mark the new
\* connection disconnected" (ws.py:719-720).
StaleCloseIsNoop ==
  [][\A s \in Socks : LET p == sess[s].pid
                      IN /\ claims[p] \ {s} # {}
                         /\ s \notin claims[p]
                         /\ CloseMark(s)
                         => UNCHANGED hash]_vars

\* A reconnect that was accepted keeps its seat: no grace task or reaper takes
\* it away on the way to the claim, "the conn_seq bump below makes its drop a
\* no-op anyway" (ws.py:335).
ReconnectKeepsSeat ==
  [][\A s \in Socks, d \in Background :
       At(s, "claim") /\ sess[s].pid = d.pid /\ d.pid \in Listed(hash) /\ CallNext(d)
       => d.pid \in Listed(hash')]_vars

\* The host of a game is one of its players: do_drop hands the role "to a
\* still-connected player so the game stays recoverable" (broadcast.py:206-207).
HostSeated == hash.key = "game" => hash.host \in Listed(hash)

\* The seats as their players see them.  A leave in flight may end a seat at
\* once, whatever its stamp.
Leaving(p) == \E s \in Socks : At(s, "leave") /\ sess[s].pid = p

Standing(p) ==
  IF p \notin Listed(hash) THEN "absent"
  ELSE IF hash.seat[p].conn # "off" THEN "present"
  ELSE IF hash.seat[p].stamp = "past" \/ Leaving(p) THEN "lapsed"
  ELSE "away"

Ledger == INSTANCE SeatLedger WITH
            seat <- [p \in Pids |-> Standing(p)],
            frozen <- hash.key = "game" /\ hash.paused

\* Every step of every connection, task and reaper is one the ledger allows:
\* no seat is lost by a connected player, by one still in its grace, or in a
\* paused game (_DROP_LUA's checks), and nobody joins a paused game.
LedgerSpec == Ledger!Spec

-----------------------------------------------------------------------------
(* What must happen.  Time passes; each sweep of a reaper visits every     *)
(* game and player (strong fairness: MaxCalls may close the door at times, *)
(* the reaper does not); a call under way goes on.  Nobody has to connect, *)
(* close or press a button.                                                *)

Fairness ==
  /\ \A p \in Pids : WF_vars(GraceElapses(p)) /\ SF_vars(Reap(p))
  /\ \A p \in Pids : WF_vars(\E d \in drops : d.pid = p /\ CallNext(d))
  /\ WF_vars(EndPaused)

FairSpec == Spec /\ Fairness

\* A player who is away does not keep its seat for ever, even when the
\* instance that held its grace task has crashed: it comes back, is dropped,
\* or the game is paused or over (_sweep's backstop).
AwayIsSettled ==
  \A p \in Pids :
    Standing(p) \in {"away", "lapsed"} ~> (Standing(p) \in {"absent", "present"} \/ hash.paused)

\* A paused game is not held hostage by a host who is away: if another player
\* is connected, the role moves, the host returns, or the game resumes or ends
\* (do_drop's paused branch and its backstop in _sweep).
HostHandedOver ==
  \A p \in Pids :
    LET hostage == /\ hash.key = "game" /\ hash.paused
                   /\ hash.host = p /\ hash.seat[p].conn = "off"
                   /\ Connected(hash) # {}
    IN hostage ~> ~hostage

=============================================================================
