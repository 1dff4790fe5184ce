---------------------------- MODULE ConnectionCap -----------------------------
(***************************************************************************)
(* The cap on the connections of one address: websocket_endpoint counts a  *)
(* socket in Redis before it serves it, refuses it above the cap and takes *)
(* it off the count when it ends (ws.py, gamestore.py), on instances that  *)
(* may crash.  The counter is read and written in separate calls.          *)
(***************************************************************************)
EXTENDS Integers, FiniteSets

CONSTANTS Hosts,     \* the instances
          Cap,       \* MAX_CONNECTIONS_PER_IP
          MaxPeers   \* bound: connections

ASSUME CapConstants == Hosts # {} /\ Cap \in Nat /\ MaxPeers \in Nat

Peers == 1..MaxPeers

VARIABLES counter,  \* the key of the address
          peers     \* its connections

capVars == <<counter, peers>>

Home == CHOOSE h \in Hosts : TRUE

\* Ghosts: leaked, the count holds a connection that ended without giving it back; lapsed,
\* the key went while a connection still counted on it.
CapInit ==
  /\ counter = [n |-> 0, expires |-> FALSE, leaked |-> FALSE, lapsed |-> FALSE]
  /\ peers = [c \in Peers |-> [pc |-> "none", host |-> Home, n |-> 0]]

CapTypeOK ==
  /\ counter \in [n : (-MaxPeers)..MaxPeers, expires : BOOLEAN, leaked : BOOLEAN,
                  lapsed : BOOLEAN]
  /\ peers \in [Peers -> [pc : {"none", "counted", "refused", "welcoming", "open", "ending",
                                "emptying", "gone"},
                          host : Hosts, n : (-MaxPeers)..MaxPeers]]

Holds(c) == peers[c].pc \in {"counted", "refused", "welcoming", "open", "ending"}
Holding == {c \in Peers : Holds(c)}

Gone == [pc |-> "gone", host |-> Home, n |-> 0]

Becomes(c, pc) ==
  peers' = [peers EXCEPT ![c] = IF pc = "gone" THEN Gone ELSE [@ EXCEPT !.pc = pc, !.n = 0]]

-----------------------------------------------------------------------------

\* conn_incr: INCR, and the key's expiry in a second call.
Incr(c) ==
  /\ peers[c].pc = "none" /\ \A d \in 1..(c - 1) : peers[d].pc # "none"
  /\ counter' = [counter EXCEPT !.n = @ + 1]
  /\ \E h \in Hosts : peers' = [peers EXCEPT ![c] = [pc |-> "counted", host |-> h,
                                                     n |-> counter.n + 1]]

\* Mutant: a connection refused does not give its count back.
VerdictKeeping(c) == IF peers[c].n > Cap THEN "gone" ELSE "welcoming"

Verdict(c) == IF peers[c].n > Cap THEN "refused" ELSE "welcoming"

Admit(c) ==
  /\ peers[c].pc = "counted"
  /\ counter' = [counter EXCEPT !.expires = counter.n # 0]
  /\ Becomes(c, Verdict(c))

\* The welcome is sent before the handler that gives the count back is in place.
Welcome(c) ==
  /\ peers[c].pc = "welcoming"
  /\ \/ Becomes(c, "open") /\ UNCHANGED counter
     \/ Becomes(c, "gone") /\ counter' = [counter EXCEPT !.leaked = TRUE]

Disconnect(c) == peers[c].pc = "open" /\ Becomes(c, "ending") /\ UNCHANGED counter

\* conn_decr: DECR, and DELETE in a second call if nothing is left.
Decr(c) ==
  /\ peers[c].pc \in {"ending", "refused"}
  /\ counter' = [counter EXCEPT !.n = @ - 1]
  /\ Becomes(c, IF counter.n - 1 <= 0 THEN "emptying" ELSE "gone")

KeyGone(others) ==
  [counter EXCEPT !.n = 0, !.expires = FALSE, !.leaked = FALSE,
                  !.lapsed = @ \/ others # {}]

Delete(c) ==
  /\ peers[c].pc = "emptying"
  /\ counter' = KeyGone(Holding)
  /\ Becomes(c, "gone")

\* An hour without a new connection.
KeyExpires ==
  /\ counter.expires
  /\ counter' = KeyGone(Holding)
  /\ UNCHANGED peers

Crash(h) ==
  LET lost == {c \in Peers : peers[c].host = h /\ peers[c].pc \notin {"none", "gone"}}
  IN  /\ lost # {}
      /\ peers' = [c \in Peers |-> IF c \in lost THEN Gone ELSE peers[c]]
      /\ counter' = [counter EXCEPT !.leaked = @ \/ lost \cap Holding # {}]

CapNext ==
  \/ \E c \in Peers : \/ Incr(c) \/ Admit(c) \/ Welcome(c)
                      \/ Disconnect(c) \/ Decr(c) \/ Delete(c)
  \/ KeyExpires
  \/ \E h \in Hosts : Crash(h)

CapSpec == CapInit /\ [][CapNext]_capVars

-----------------------------------------------------------------------------

\* No more connections are served than the cap allows, unless the key went under some of
\* them; and the count never exceeds the connections there are, so nobody is turned away
\* for one that has ended, unless an instance died or a welcome failed since the key was
\* last gone.
CapIsExact ==
  /\ \/ counter.lapsed
     \/ Cardinality({c \in Peers : peers[c].pc \in {"welcoming", "open"}}) <= Cap
  /\ counter.leaked \/ counter.n <= Cardinality(Holding)

===============================================================================
