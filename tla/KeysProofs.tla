------------------------------ MODULE KeysProofs ------------------------------
(***************************************************************************)
(* Proofs about what the server keeps beside the games: the count of an    *)
(* address (ConnectionCap), for any number of connections, instances and   *)
(* any cap; a game's place on the radar and in the index (Discovery), for  *)
(* any number of handlers under way; and whose history a row holds         *)
(* (Signup), for any number of sign-ups, players and names.                *)
(***************************************************************************)
EXTENDS ConnectionCap, Discovery, Signup, FiniteSetTheorems, TLAPS

-----------------------------------------------------------------------------
(* The count of an address.                                                *)

Admitted ==
  {c \in Peers : \/ peers[c].pc \in {"welcoming", "open"}
                 \/ peers[c].pc = "counted" /\ peers[c].n <= Cap}

CountTyped ==
  /\ counter \in [n : Int, expires : BOOLEAN, leaked : BOOLEAN, lapsed : BOOLEAN]
  /\ peers \in [Peers -> [pc : {"none", "counted", "refused", "welcoming", "open", "ending",
                                "emptying", "gone"},
                          host : Hosts, n : Int]]

\* Every connection that holds a count is in the count, and whoever was or will be let in
\* was within the cap when it was counted.
CountInv ==
  /\ CountTyped
  /\ counter.lapsed \/ Cardinality(Holding) <= counter.n
  /\ counter.lapsed \/ Cardinality(Admitted) <= Cap
  /\ counter.leaked \/ counter.n <= Cardinality(Holding)

LEMMA HoldingFinite ==
  ASSUME CountTyped
  PROVE  /\ IsFiniteSet(Holding) /\ Cardinality(Holding) \in Nat
         /\ IsFiniteSet(Admitted) /\ Cardinality(Admitted) \in Nat
         /\ Admitted \subseteq Holding
         /\ Cardinality(Admitted) <= Cardinality(Holding)
<1>1. IsFiniteSet(Peers)
  BY CapConstants, FS_Interval DEF Peers
<1>2. Holding \in SUBSET Peers /\ Admitted \in SUBSET Holding
  BY DEF Holding, Holds, Admitted
<1>3. IsFiniteSet(Holding)
  BY <1>1, <1>2, FS_Subset
<1>4. IsFiniteSet(Admitted) /\ Cardinality(Admitted) <= Cardinality(Holding)
  BY <1>2, <1>3, FS_Subset
<1> QED
  BY <1>2, <1>3, <1>4, FS_CardinalityType

\* Holders may go and fewer be admitted, while the count stays as it is or goes with one
\* that held it.
LEMMA FewerHold ==
  ASSUME CountInv, CountTyped', Holding' \subseteq Holding, Admitted' \subseteq Admitted,
         counter.lapsed => counter'.lapsed,
         \/ counter'.n = counter.n
         \/ \E c \in Holding : counter'.n = counter.n - 1 /\ Holding' = Holding \ {c},
         \/ Cardinality(Holding') = Cardinality(Holding) + counter'.n - counter.n
            /\ (counter.leaked => counter'.leaked)
         \/ counter'.leaked
  PROVE  CountInv'
<1>1. /\ CountTyped /\ Cap \in Nat
      /\ IsFiniteSet(Holding) /\ Cardinality(Holding) \in Nat
      /\ IsFiniteSet(Admitted) /\ Cardinality(Admitted) \in Nat
  BY HoldingFinite, CapConstants DEF CountInv
<1>2. /\ Cardinality(Admitted') <= Cardinality(Admitted)
      /\ Cardinality(Holding') <= Cardinality(Holding)
      /\ IsFiniteSet(Admitted') /\ IsFiniteSet(Holding')
  BY <1>1, FS_Subset
<1>3. Cardinality(Admitted') \in Nat /\ Cardinality(Holding') \in Nat
  BY <1>2, FS_CardinalityType
<1>4. ASSUME NEW c \in Holding, Holding' = Holding \ {c}
      PROVE  Cardinality(Holding') = Cardinality(Holding) - 1
  BY <1>1, <1>4, FS_RemoveElement
<1>5. counter.n \in Int /\ counter'.n \in Int
  BY DEF CountInv, CountTyped
<1> QED
  BY <1>1, <1>2, <1>3, <1>4, <1>5 DEF CountInv

LEMMA KeyGoneTyped ==
  ASSUME CountTyped, NEW others, counter' = KeyGone(others)
  PROVE  counter' \in [n : Int, expires : BOOLEAN, leaked : BOOLEAN, lapsed : BOOLEAN]
<1>1. /\ counter' = [n |-> 0, expires |-> FALSE, leaked |-> FALSE,
                     lapsed |-> counter.lapsed \/ others # {}]
  BY DEF KeyGone, CountTyped
<1>2. (counter.lapsed \/ others # {}) \in BOOLEAN
  OBVIOUS
<1> QED
  BY <1>1, <1>2

\* The key is gone, and with it what anybody knew of the connections.
LEMMA KeyGoneSound ==
  ASSUME CountInv, counter' = KeyGone(Holding), CountTyped',
         Holding' \subseteq Holding, Admitted' \subseteq Admitted
  PROVE  CountInv'
<1>1. /\ IsFiniteSet(Holding) /\ CountTyped /\ Cap \in Nat
  BY HoldingFinite, CapConstants DEF CountInv
<1>2. IsFiniteSet(Holding') /\ Cardinality(Holding') \in Nat
  BY <1>1, FS_Subset, FS_CardinalityType
<1>3. counter'.n = 0 /\ (Holding # {} => counter'.lapsed) /\ (counter.lapsed => counter'.lapsed)
  BY <1>1 DEF KeyGone, CountTyped
<1>4. CASE Holding = {}
  <2>1. Holding' = {} /\ Admitted' = {}
    BY <1>1, <1>4, HoldingFinite
  <2> QED
    BY <1>1, <1>3, <2>1, FS_EmptySet DEF CountInv
<1>5. CASE Holding # {}
  <2>1. counter'.lapsed /\ counter'.n <= Cardinality(Holding')
    BY <1>2, <1>3, <1>5
  <2> QED
    BY <2>1 DEF CountInv
<1> QED
  BY <1>4, <1>5

LEMMA IncrSound ==
  ASSUME CountInv, NEW c \in Peers, Incr(c)
  PROVE  CountInv'
<1>1. /\ IsFiniteSet(Holding) /\ Cardinality(Holding) \in Nat
      /\ IsFiniteSet(Admitted) /\ Cardinality(Admitted) \in Nat
      /\ Cardinality(Admitted) <= Cardinality(Holding)
      /\ CountTyped /\ Cap \in Nat
  BY HoldingFinite, CapConstants DEF CountInv
<1>2. PICK h \in Hosts :
        peers' = [peers EXCEPT ![c] = [pc |-> "counted", host |-> h, n |-> counter.n + 1]]
  BY DEF Incr
<1>3. /\ counter'.n = counter.n + 1 /\ counter.n \in Int
      /\ counter'.lapsed = counter.lapsed /\ counter'.leaked = counter.leaked
      /\ peers[c].pc = "none"
  BY <1>1 DEF Incr, CountTyped
<1>4. CountTyped'
  BY <1>1, <1>2 DEF Incr, CountTyped
<1>5. c \notin Holding /\ Holding' = Holding \cup {c}
  BY <1>1, <1>2, <1>3 DEF Holding, Holds, CountTyped
<1>6. c \notin Admitted /\ Admitted' = IF counter.n + 1 <= Cap THEN Admitted \cup {c} ELSE Admitted
  BY <1>1, <1>2, <1>3 DEF Admitted, CountTyped
<1>7. Cardinality(Holding') = Cardinality(Holding) + 1
  BY <1>1, <1>5, FS_AddElement
<1>8. Cardinality(Admitted') = IF counter.n + 1 <= Cap THEN Cardinality(Admitted) + 1
                               ELSE Cardinality(Admitted)
  BY <1>1, <1>6, FS_AddElement
<1> QED
  BY <1>1, <1>3, <1>4, <1>7, <1>8 DEF CountInv

\* What becomes of a connection that holds a count when it goes on to pc.
LEMMA PeerBecomes ==
  ASSUME CountTyped, NEW c \in Peers, NEW pc, Becomes(c, pc),
         pc \in {"refused", "welcoming", "open", "ending", "emptying", "gone"}
  PROVE  /\ peers' \in [Peers -> [pc : {"none", "counted", "refused", "welcoming", "open",
                                        "ending", "emptying", "gone"},
                                  host : Hosts, n : Int]]
         /\ peers'[c].pc = pc
         /\ \A d \in Peers \ {c} : peers'[d] = peers[d]
<1> DEFINE after == IF pc = "gone" THEN Gone ELSE [peers[c] EXCEPT !.pc = pc, !.n = 0]
<1>1. Home \in Hosts
  BY CapConstants DEF Home
<1>2. /\ after \in [pc : {"none", "counted", "refused", "welcoming", "open", "ending",
                          "emptying", "gone"},
                    host : Hosts, n : Int]
      /\ after.pc = pc
  <2>1. CASE pc = "gone"
    BY <1>1, <2>1 DEF Gone
  <2>2. CASE pc # "gone"
    <3>1. /\ peers[c].host \in Hosts
          /\ after = [pc |-> pc, host |-> peers[c].host, n |-> 0]
      BY <2>2 DEF CountTyped
    <3> HIDE DEF after
    <3> QED
      BY <3>1
  <2> QED
    BY <2>1, <2>2
<1>3. peers' = [peers EXCEPT ![c] = after]
  BY DEF Becomes, CountTyped
<1> HIDE DEF after
<1> QED
  BY <1>2, <1>3 DEF CountTyped

LEMMA PeerSound ==
  ASSUME CountInv, NEW c \in Peers,
         Admit(c) \/ Welcome(c) \/ Disconnect(c) \/ Decr(c) \/ Delete(c)
  PROVE  CountInv'
<1>0. CountTyped /\ Cap \in Nat /\ IsFiniteSet(Holding)
  BY CapConstants, HoldingFinite DEF CountInv
<1>1. CASE Admit(c)
  <2>1. /\ peers[c].pc = "counted" /\ Becomes(c, Verdict(c))
        /\ Verdict(c) = IF peers[c].n > Cap THEN "refused" ELSE "welcoming"
    BY <1>1 DEF Admit, Verdict
  <2>2. /\ peers'[c].pc = Verdict(c) /\ \A d \in Peers \ {c} : peers'[d] = peers[d]
        /\ CountTyped'
    BY <1>0, <1>1, <2>1, PeerBecomes DEF CountTyped, Admit
  <2>3. Holding' = Holding
    BY <2>1, <2>2 DEF Holding, Holds
  <2>4. peers[c].n \in Int
    BY <1>0 DEF CountTyped
  <2>5. Admitted' \subseteq Admitted
    BY <1>0, <2>1, <2>2, <2>4 DEF Admitted
  <2>6. counter'.n = counter.n /\ counter'.lapsed = counter.lapsed /\ counter'.leaked = counter.leaked
    BY <1>0, <1>1 DEF Admit, CountTyped
  <2>7. Cardinality(Holding') = Cardinality(Holding) + counter'.n - counter.n
    BY <1>0, <2>3, <2>6, FS_CardinalityType DEF CountTyped
  <2> QED
    BY <2>2, <2>3, <2>5, <2>6, <2>7, FewerHold
<1>2. CASE Welcome(c)
  <2>1. CASE Becomes(c, "open") /\ UNCHANGED counter
    <3>1. /\ peers'[c].pc = "open" /\ \A d \in Peers \ {c} : peers'[d] = peers[d]
          /\ CountTyped'
      BY <1>0, <2>1, PeerBecomes DEF CountTyped
    <3>2. Holding' = Holding /\ Admitted' \subseteq Admitted
      BY <1>2, <3>1 DEF Welcome, Holding, Holds, Admitted
    <3>3. Cardinality(Holding') = Cardinality(Holding) + counter'.n - counter.n
      BY <1>0, <2>1, <3>2, FS_CardinalityType DEF CountTyped
    <3> QED
      BY <2>1, <3>1, <3>2, <3>3, FewerHold
  <2>2. CASE Becomes(c, "gone") /\ counter' = [counter EXCEPT !.leaked = TRUE]
    <3>1. /\ peers'[c].pc = "gone" /\ \A d \in Peers \ {c} : peers'[d] = peers[d]
          /\ CountTyped'
      BY <1>0, <2>2, PeerBecomes DEF CountTyped
    <3>2. Holding' \subseteq Holding /\ Admitted' \subseteq Admitted
      BY <3>1 DEF Holding, Holds, Admitted
    <3>3. counter'.leaked /\ counter'.n = counter.n /\ counter'.lapsed = counter.lapsed
      BY <1>0, <2>2 DEF CountTyped
    <3> QED
      BY <3>1, <3>2, <3>3, FewerHold
  <2> QED
    BY <1>2, <2>1, <2>2 DEF Welcome
<1>3. CASE Disconnect(c)
  <2>1. /\ peers'[c].pc = "ending" /\ \A d \in Peers \ {c} : peers'[d] = peers[d]
        /\ CountTyped' /\ counter' = counter
    BY <1>0, <1>3, PeerBecomes DEF CountTyped, Disconnect
  <2>2. Holding' = Holding /\ Admitted' \subseteq Admitted
    BY <1>3, <2>1 DEF Disconnect, Holding, Holds, Admitted
  <2>3. Cardinality(Holding') = Cardinality(Holding) + counter'.n - counter.n
    BY <1>0, <2>1, <2>2, FS_CardinalityType DEF CountTyped
  <2> QED
    BY <2>1, <2>2, <2>3, FewerHold
<1>4. CASE Decr(c)
  <2>1. /\ peers'[c].pc \in {"emptying", "gone"}
        /\ \A d \in Peers \ {c} : peers'[d] = peers[d]
        /\ CountTyped'
    BY <1>0, <1>4, PeerBecomes DEF CountTyped, Decr
  <2>2. /\ c \in Holding /\ Holding' = Holding \ {c} /\ Admitted' \subseteq Admitted
    BY <1>4, <2>1 DEF Decr, Holding, Holds, Admitted
  <2>3. /\ counter'.n = counter.n - 1 /\ counter.n \in Int
        /\ counter'.lapsed = counter.lapsed /\ counter'.leaked = counter.leaked
    BY <1>0, <1>4 DEF Decr, CountTyped
  <2>4. Cardinality(Holding') = Cardinality(Holding) + counter'.n - counter.n
    BY <1>0, <2>2, <2>3, FS_RemoveElement, FS_CardinalityType
  <2> QED
    BY <2>1, <2>2, <2>3, <2>4, FewerHold
<1>5. CASE Delete(c)
  <2>1. /\ peers'[c].pc = "gone" /\ \A d \in Peers \ {c} : peers'[d] = peers[d]
        /\ counter' = KeyGone(Holding)
        /\ CountTyped'
    BY <1>0, <1>5, PeerBecomes, KeyGoneTyped DEF CountTyped, Delete
  <2>2. Holding' \subseteq Holding /\ Admitted' \subseteq Admitted
    BY <2>1 DEF Holding, Holds, Admitted
  <2> QED
    BY <2>1, <2>2, KeyGoneSound
<1> QED
  BY <1>1, <1>2, <1>3, <1>4, <1>5

LEMMA CrashSound ==
  ASSUME CountInv, NEW h \in Hosts, Crash(h)
  PROVE  CountInv'
<1> DEFINE lost == {c \in Peers : peers[c].host = h /\ peers[c].pc \notin {"none", "gone"}}
<1>0. CountTyped /\ IsFiniteSet(Holding)
  BY HoldingFinite DEF CountInv
<1>1. /\ counter' = [counter EXCEPT !.leaked = @ \/ lost \cap Holding # {}]
      /\ peers' = [c \in Peers |-> IF c \in lost THEN Gone ELSE peers[c]]
  BY DEF Crash
<1>2. Gone \in [pc : {"gone"}, host : Hosts, n : Int]
  BY CapConstants DEF Gone, Home
<1> HIDE DEF lost
<1>3. CountTyped'
  BY <1>0, <1>1, <1>2 DEF CountTyped
<1>4. Holding' = Holding \ lost /\ Admitted' \subseteq Admitted
  BY <1>1, <1>2 DEF Holding, Holds, Admitted
<1>5. /\ counter'.n = counter.n /\ counter.n \in Int /\ counter'.lapsed = counter.lapsed
      /\ counter'.leaked = (counter.leaked \/ lost \cap Holding # {})
  BY <1>0, <1>1 DEF CountTyped
<1>6. lost \cap Holding = {} => Cardinality(Holding') = Cardinality(Holding) + counter'.n - counter.n
  <2>1. SUFFICES ASSUME lost \cap Holding = {}
                 PROVE  Cardinality(Holding') = Cardinality(Holding) + counter'.n - counter.n
    OBVIOUS
  <2>2. Holding' = Holding
    BY <1>4, <2>1
  <2>3. Cardinality(Holding) \in Nat
    BY <1>0, FS_CardinalityType
  <2> QED
    BY <1>5, <2>2, <2>3
<1> QED
  BY <1>3, <1>4, <1>5, <1>6, FewerHold

LEMMA CountNext == CountInv /\ [CapNext]_capVars => CountInv'
<1> SUFFICES ASSUME CountInv, [CapNext]_capVars PROVE CountInv'
  OBVIOUS
<1>1. ASSUME NEW c \in Peers, Incr(c) PROVE CountInv'
  BY <1>1, IncrSound
<1>2. ASSUME NEW c \in Peers, Admit(c) \/ Welcome(c) \/ Disconnect(c) \/ Decr(c) \/ Delete(c)
      PROVE  CountInv'
  BY <1>2, PeerSound
<1>3. CASE KeyExpires
  <2>1. CountTyped /\ counter' = KeyGone(Holding) /\ peers' = peers
    BY <1>3 DEF KeyExpires, CountInv
  <2>2. CountTyped' /\ Holding' = Holding /\ Admitted' = Admitted
    BY <2>1, KeyGoneTyped DEF CountTyped, Holding, Holds, Admitted
  <2> QED
    BY <2>1, <2>2, KeyGoneSound
<1>4. ASSUME NEW h \in Hosts, Crash(h) PROVE CountInv'
  BY <1>4, CrashSound
<1>5. CASE UNCHANGED capVars
  BY <1>5 DEF capVars, CountInv, CountTyped, Holding, Holds, Admitted
<1> QED
  BY <1>1, <1>2, <1>3, <1>4, <1>5 DEF CapNext

\* No more connections of an address are served than MAX_CONNECTIONS_PER_IP while its key
\* lives, and no count outlives its connection unless an instance died or a welcome failed
\* (conn_incr, conn_decr, websocket_endpoint's admission).
THEOREM CapKept == CapSpec => []CapIsExact
<1>1. CapInit => CountInv
  <2> SUFFICES ASSUME CapInit PROVE CountInv
    OBVIOUS
  <2>1. CountTyped
    BY CapConstants DEF CapInit, CountTyped, Home
  <2>2. Holding = {} /\ Admitted = {}
    BY DEF CapInit, Holding, Holds, Admitted
  <2> QED
    BY <2>1, <2>2, FS_EmptySet, CapConstants DEF CapInit, CountInv
<1>2. CountInv => CapIsExact
  <2> SUFFICES ASSUME CountInv PROVE CapIsExact
    OBVIOUS
  <2> DEFINE served == {c \in Peers : peers[c].pc \in {"welcoming", "open"}}
  <2>1. served \in SUBSET Admitted /\ IsFiniteSet(Admitted) /\ Cardinality(Admitted) \in Nat
    BY HoldingFinite DEF CountInv, Admitted
  <2>2. Cardinality(served) <= Cardinality(Admitted) /\ IsFiniteSet(served)
    BY <2>1, FS_Subset
  <2>3. Cardinality(served) \in Nat
    BY <2>2, FS_CardinalityType
  <2> HIDE DEF served
  <2>4. counter.lapsed \/ Cardinality(served) <= Cap
    BY <2>1, <2>2, <2>3, CapConstants DEF CountInv
  <2> QED
    BY <2>4 DEF CapIsExact, CountInv, served
<1> QED
  BY <1>1, <1>2, CountNext, PTL DEF CapSpec

-----------------------------------------------------------------------------
(* A game on the radar.                                                    *)

Pcs == {"idle", "resolve", "clear", "start", "drop", "read", "write",
        "delete", "unplot", "members", "exists", "prune"}

VenueTyped ==
  /\ venue \in [hash : SUBSET {"game", "started", "place"}, listed : BOOLEAN, blip : BOOLEAN]
  /\ handlers \in [Handlers -> [pc : Pcs, found : BOOLEAN]]
  /\ calm \in {"no", "sweep", "yes"}

\* What the sweep leaves behind once it has been through the index.
Swept ==
  /\ venue.listed => venue.hash # {}
  /\ venue.listed /\ "started" \in venue.hash => ~venue.blip

\* How far the one sweep under way has got, by what it does next.
SweptUpTo(pc) ==
  \/ pc = "delete" /\ venue.listed /\ venue.hash = {}
  \/ pc = "unplot" /\ venue.listed /\ "started" \in venue.hash
  \/ pc \in {"members", "exists"} /\ Swept
  \/ pc = "prune" /\ Swept /\ venue.hash = {}

AllIdle == \A h \in Handlers : handlers[h].pc = "idle"

DiscoveryInv ==
  /\ VenueTyped
  /\ "game" \in venue.hash => venue.listed
  /\ calm = "sweep" => \E h \in Handlers : Alone(h) /\ SweptUpTo(handlers[h].pc)
  /\ calm = "yes" => AllIdle /\ Swept /\ (venue.blip => venue.hash # {})

\* Handler h takes a step, to anywhere.
Moves(h) == \E from \in Pcs, to \in Pcs, found \in BOOLEAN : Step(h, from, to, found)

LEMMA GoesMoves ==
  ASSUME NEW h, NEW from \in Pcs, NEW to \in Pcs, Goes(h, from, to)
  PROVE  Moves(h)
BY DEF Goes, Moves

LEMMA MovesTyped ==
  ASSUME VenueTyped, NEW h \in Handlers, Moves(h)
  PROVE  handlers' \in [Handlers -> [pc : Pcs, found : BOOLEAN]]
BY DEF VenueTyped, Moves, Step

LEMMA HandlerMoves ==
  ASSUME VenueTyped, NEW h \in Handlers, HandlerStep(h)
  PROVE  Moves(h)
<1>1. CASE RecomputeRead(h) \/ DropHost(h)
  <2>1. ("place" \in venue.hash) \in BOOLEAN
    OBVIOUS
  <2> QED
    BY <1>1, <2>1 DEF RecomputeRead, DropHost, Moves, Pcs
<1>2. CASE HandlerDies(h)
  <2>1. handlers[h].pc \in Pcs
    BY DEF VenueTyped
  <2> QED
    BY <1>2, <2>1, GoesMoves DEF HandlerDies, Pcs
<1>3. CASE CheckIn(h) \/ Resolved(h) \/ StopBroadcast(h) \/ StartGame(h)
  BY <1>3, GoesMoves DEF CheckIn, Resolved, StopBroadcast, StartGame, Pcs
<1>4. CASE Started(h) \/ ClearPlace(h) \/ RecomputeWrite(h)
  BY <1>4, GoesMoves DEF Started, ClearPlace, RecomputeWrite, Pcs
<1>5. CASE Drops(h)
  BY <1>5, GoesMoves DEF Drops, Pcs
<1> QED
  BY <1>1, <1>2, <1>3, <1>4, <1>5 DEF HandlerStep

\* The handlers never take a code from the index while its game has a hash.
LEMMA HandlersKeepListed ==
  ASSUME DiscoveryInv, calm' = "no",
         EndsStarted \/ ExpireHash \/ \E h \in Handlers : HandlerStep(h)
  PROVE  DiscoveryInv'
<1>0. VenueTyped /\ ("game" \in venue.hash => venue.listed)
  BY DEF DiscoveryInv
<1>1. CASE EndsStarted \/ ExpireHash
  <2>1. VenueTyped' /\ ("game" \in venue.hash => venue.listed)'
    BY <1>0, <1>1 DEF EndsStarted, ExpireHash, Deleted, VenueTyped
  <2> QED
    BY <2>1 DEF DiscoveryInv
<1>2. ASSUME NEW h \in Handlers, HandlerStep(h) PROVE DiscoveryInv'
  <2>1. /\ venue' \in [hash : SUBSET {"game", "started", "place"}, listed : BOOLEAN,
                       blip : BOOLEAN]
        /\ "game" \in venue'.hash => venue'.listed
    <3>1. \/ venue' = venue
          \/ \E group \in {"place", "started"} : venue' = [venue EXCEPT !.hash = @ \cup {group}]
          \/ venue' = [venue EXCEPT !.hash = @ \ {"place"}]
          \/ venue' = [venue EXCEPT !.blip = handlers[h].found]
          \/ venue' = Deleted
      BY <1>2 DEF HandlerStep, CheckIn, Resolved, StopBroadcast, StartGame, Started, ClearPlace,
         RecomputeRead, RecomputeWrite, DropHost, Drops, HandlerDies
    <3>2. handlers[h].found \in BOOLEAN
      BY <1>0 DEF VenueTyped
    <3>3. CASE venue' = [venue EXCEPT !.blip = handlers[h].found]
      BY <1>0, <3>2, <3>3 DEF VenueTyped
    <3>4. CASE venue' = Deleted
      BY <1>0, <3>4 DEF VenueTyped, Deleted
    <3>5. ASSUME NEW group \in {"place", "started"},
                 venue' = [venue EXCEPT !.hash = @ \cup {group}]
          PROVE  <2>1!1 /\ <2>1!2
      BY <1>0, <3>5 DEF VenueTyped
    <3>6. CASE venue' = venue \/ venue' = [venue EXCEPT !.hash = @ \ {"place"}]
      BY <1>0, <3>6 DEF VenueTyped
    <3> QED
      BY <3>1, <3>3, <3>4, <3>5, <3>6
  <2>3. VenueTyped'
    BY <1>0, <1>2, <2>1, HandlerMoves, MovesTyped DEF VenueTyped
  <2> QED
    BY <2>1, <2>3 DEF DiscoveryInv
<1> QED
  BY <1>1, <1>2

\* An undisturbed sweep gets on with what it set out to do.
LEMMA SweepGoesOn ==
  ASSUME DiscoveryInv, NEW h \in Handlers, SweepStep(h),
         calm' = IF ~Alone(h) THEN "no"
                 ELSE IF handlers[h].pc = "idle" THEN "sweep"
                 ELSE IF handlers'[h].pc = "idle" /\ calm = "sweep" THEN "yes"
                 ELSE calm
  PROVE  DiscoveryInv'
<1>0. VenueTyped /\ ("game" \in venue.hash => venue.listed)
  BY DEF DiscoveryInv
<1>1. Moves(h)
  BY GoesMoves DEF SweepStep, Sweep, SweepFor, DeleteGone, Unplot, Members, Exists, Prune, Pcs
<1>2. /\ venue' \in [hash : SUBSET {"game", "started", "place"}, listed : BOOLEAN,
                     blip : BOOLEAN]
      /\ \/ venue' = venue
         \/ venue' = [venue EXCEPT !.blip = FALSE]
         \/ venue' = Deleted
  <2>1. \/ venue' = venue
        \/ venue' = [venue EXCEPT !.blip = FALSE]
        \/ venue' = Deleted
    BY DEF SweepStep, Sweep, DeleteGone, Unplot, Members, Exists, Prune
  <2> QED
    BY <1>0, <2>1 DEF VenueTyped, Deleted
<1>3. "game" \in venue'.hash => venue'.listed
  BY <1>0, <1>2 DEF VenueTyped, Deleted
<1>4. /\ \A g \in Handlers \ {h} : handlers'[g] = handlers[g]
      /\ handlers'[h].pc \in Pcs
  BY <1>0, <1>1 DEF Moves, Step, VenueTyped
<1>5. calm' \in {"no", "sweep", "yes"} /\ VenueTyped'
  BY <1>0, <1>1, <1>2, MovesTyped DEF VenueTyped
<1>a. /\ ~Alone(h) => calm' = "no"
      /\ Alone(h) /\ handlers[h].pc = "idle" => calm' = "sweep"
      /\ Alone(h) /\ handlers[h].pc # "idle" =>
           calm' = IF handlers'[h].pc = "idle" /\ calm = "sweep" THEN "yes" ELSE calm
  <2>1. CASE ~Alone(h)
    BY <2>1 DEF Alone
  <2>2. CASE Alone(h)
    BY <2>2 DEF Alone
  <2> QED
    BY <2>1, <2>2
<1>6. CASE ~Alone(h)
  BY <1>3, <1>5, <1>6, <1>a DEF DiscoveryInv
<1>7. CASE Alone(h) /\ handlers[h].pc = "idle"
  <2>1. calm' = "sweep" /\ Alone(h)'
    BY <1>4, <1>7, <1>a DEF Alone
  <2>2. Sweep(h)
    BY <1>7 DEF SweepStep, DeleteGone, Unplot, Members, Exists, Prune, Goes, Step
  <2>3. handlers'[h].pc = SweepFor /\ venue' = venue
    BY <1>0, <2>2 DEF Sweep, Goes, Step, VenueTyped
  <2>4. SweptUpTo(handlers[h].pc)'
    BY <2>3 DEF SweptUpTo, Swept, SweepFor
  <2> QED
    BY <1>3, <1>5, <2>1, <2>4 DEF DiscoveryInv
<1>8. CASE Alone(h) /\ handlers[h].pc # "idle" /\ calm = "sweep"
  <2>1. SweptUpTo(handlers[h].pc)
    <3>1. PICK g \in Handlers : Alone(g) /\ SweptUpTo(handlers[g].pc)
      BY <1>8 DEF DiscoveryInv
    <3>2. g = h
      BY <1>8, <3>1 DEF Alone
    <3> QED
      BY <3>1, <3>2
  <2>2. IF handlers'[h].pc = "idle"
        THEN Swept' /\ (venue'.blip => venue'.hash # {})
        ELSE SweptUpTo(handlers[h].pc)'
    <3>1. CASE DeleteGone(h)
      BY <1>0, <3>1 DEF DeleteGone, Goes, Step, Deleted, SweptUpTo, Swept, VenueTyped
    <3>2. CASE Unplot(h)
      BY <1>0, <2>1, <3>2 DEF Unplot, Goes, Step, SweptUpTo, Swept, VenueTyped
    <3>3. CASE Members(h)
      BY <1>0, <2>1, <3>3 DEF Members, Goes, Step, SweptUpTo, Swept, VenueTyped
    <3>4. CASE Exists(h)
      BY <1>0, <2>1, <3>4 DEF Exists, Goes, Step, SweptUpTo, Swept, VenueTyped
    <3>5. CASE Prune(h)
      BY <1>0, <2>1, <3>5 DEF Prune, Goes, Step, SweptUpTo, Swept, VenueTyped
    <3> QED
      BY <1>8, <3>1, <3>2, <3>3, <3>4, <3>5 DEF SweepStep, Sweep, Goes, Step
  <2>3. CASE handlers'[h].pc # "idle"
    <3>1. calm' = "sweep" /\ Alone(h)' /\ SweptUpTo(handlers[h].pc)'
      BY <1>4, <1>8, <1>a, <2>2, <2>3 DEF Alone
    <3> QED
      BY <1>3, <1>5, <3>1 DEF DiscoveryInv
  <2>4. CASE handlers'[h].pc = "idle"
    <3>1. calm' = "yes"
      BY <1>8, <1>a, <2>4
    <3>2. AllIdle' /\ Swept' /\ (venue'.blip => venue'.hash # {})
      BY <1>4, <1>8, <2>2, <2>4 DEF AllIdle, Alone
    <3> QED
      BY <1>3, <1>5, <3>1, <3>2 DEF DiscoveryInv
  <2> QED
    BY <2>3, <2>4
<1>9. CASE Alone(h) /\ handlers[h].pc # "idle" /\ calm # "sweep"
  <2>1. calm' = calm
    BY <1>9, <1>a
  <2>2. calm # "yes"
    BY <1>9 DEF DiscoveryInv, AllIdle
  <2> QED
    BY <1>3, <1>5, <1>9, <2>1, <2>2 DEF DiscoveryInv
<1> QED
  BY <1>6, <1>7, <1>8, <1>9

LEMMA DiscoveryKept == DiscoverySpec => []DiscoveryInv
<1>1. DiscoveryInit => DiscoveryInv
  BY DEF DiscoveryInit, DiscoveryInv, VenueTyped, Pcs
<1>2. DiscoveryInv /\ [DiscoveryNext]_discoveryVars => DiscoveryInv'
  <2> SUFFICES ASSUME DiscoveryInv, [DiscoveryNext]_discoveryVars PROVE DiscoveryInv'
    OBVIOUS
  <2>1. CASE UNCHANGED discoveryVars
    BY <2>1 DEF discoveryVars, DiscoveryInv, VenueTyped, Alone, AllIdle, SweptUpTo, Swept
  <2> QED
    BY <2>1, HandlersKeepListed, SweepGoesOn DEF DiscoveryNext
<1> QED
  BY <1>1, <1>2, PTL DEF DiscoverySpec

\* Whatever raced or crashed before: after one undisturbed sweep an entry of the radar
\* stands for a game that can still be joined (_sweep, prune_orphan_geo).
THEOREM RadarKept == DiscoverySpec => []RadarSettles
<1>1. DiscoveryInv => RadarSettles
  BY DEF DiscoveryInv, VenueTyped, Swept, RadarSettles, InLobby, Revived
<1> QED
  BY <1>1, DiscoveryKept, PTL

\* And a code in the index of games stands for a game (_sweep, delete_game).
THEOREM IndexKept == DiscoverySpec => []IndexSettles
<1>1. DiscoveryInv => IndexSettles
  BY DEF DiscoveryInv, VenueTyped, Swept, IndexSettles, Revived
<1> QED
  BY <1>1, DiscoveryKept, PTL

-----------------------------------------------------------------------------
(* Sign-ups: whose history a row holds.                                    *)

Deciding(s) == signups[s].pc \in {"selected", "inserted", "moved"}
Inserted(s) == signups[s].pc \in {"inserted", "moved"}

\* What SELECT has made of the player id: a guest's, or none, and the same in the row to
\* insert and in the statement that moves the history.
ClaimsGuest ==
  \A s \in AccountIds :
    /\ signups[s].pc \in {"asked", "popped"}
         => signups[s].legacy \in Pids \cup Registered \cup {NoPid}
    /\ Deciding(s) => /\ signups[s].legacy \in Pids \cup {NoPid}
                      /\ signups[s].claim = signups[s].legacy

\* The unique index: rows committed and rows under way claim different players.
RowsUnique ==
  /\ \A u, v \in users : u.claim = v.claim /\ u.claim # NoPid => u = v
  /\ \A s \in AccountIds : Inserted(s) /\ signups[s].claim # NoPid
       => /\ \A u \in users : u.claim # signups[s].claim
          /\ \A t \in AccountIds : Inserted(t) /\ signups[t].claim = signups[s].claim => t = s

\* A row that is moved holds nothing but its player's own history.
MovesOwn ==
  \A s \in AccountIds :
    signups[s].moved # {} => /\ signups[s].pc = "moved"
                             /\ signups[s].legacy \in Pids
                             /\ signups[s].moved = {signups[s].legacy}

OwnedHistory ==
  \A k \in Keys : \A played \in history[k] :
    played = k \/ (played \in Pids /\ Claimed(k, played))

SignupInv == SignupTypeOK /\ ClaimsGuest /\ RowsUnique /\ MovesOwn /\ OwnedHistory

-----------------------------------------------------------------------------

LEMMA KeysApart ==
  /\ NoPid \notin Keys
  /\ \A p \in Pids : p \notin AccountIds
  /\ \A s \in AccountIds : s \in Keys
BY SignupConstants DEF NoPid, Keys, AccountIds

\* A row of another player than the ones that signed up holds that player's play only.
LEMMA GuestsOwn ==
  ASSUME SignupInv, NEW p \in Pids
  PROVE  history[p] \subseteq {p}
<1>1. \A q : ~Claimed(p, q)
  BY KeysApart DEF SignupInv, SignupTypeOK, Claimed
<1> QED BY <1>1, KeysApart DEF SignupInv, SignupTypeOK, OwnedHistory, Keys

\* A request that only moves on or gives up, with users and history as they were.
LEMMA RequestSound ==
  ASSUME SignupInv, UNCHANGED <<users, history>>, NEW s \in AccountIds, NEW r,
         signups' = [signups EXCEPT ![s] = r],
         r \in [pc : {"none", "asked", "popped", "selected", "inserted", "moved", "over"},
                name : Names, legacy : Keys \cup {NoPid}, claim : Keys \cup {NoPid},
                moved : SUBSET Keys],
         r.pc \in {"asked", "popped"} => r.legacy \in Pids \cup Registered \cup {NoPid},
         r.pc \in {"selected", "inserted", "moved"}
           => r.legacy \in Pids \cup {NoPid} /\ r.claim = r.legacy,
         r.pc \in {"inserted", "moved"} /\ r.claim # NoPid
           => /\ \A u \in users : u.claim # r.claim
              /\ \A t \in AccountIds \ {s} : Inserted(t) => signups[t].claim # r.claim,
         r.moved # {} => r.pc = "moved" /\ r.legacy \in Pids /\ r.moved = {r.legacy}
  PROVE  SignupInv'
<1> USE DEF SignupInv
<1>1. signups'[s] = r /\ \A t \in AccountIds \ {s} : signups'[t] = signups[t]
  BY DEF SignupTypeOK
<1>2. SignupTypeOK'
  BY DEF SignupTypeOK
<1>3. ClaimsGuest'
  BY <1>1 DEF ClaimsGuest, Deciding, Registered
<1>4. RowsUnique'
  BY <1>1 DEF RowsUnique, Inserted
<1>5. MovesOwn'
  BY <1>1 DEF MovesOwn
<1>6. OwnedHistory'
  BY DEF OwnedHistory, Claimed
<1> QED BY <1>2, <1>3, <1>4, <1>5, <1>6

-----------------------------------------------------------------------------

LEMMA SignupStarts == SignupInit => SignupInv
<1> SUFFICES ASSUME SignupInit PROVE SignupInv
  OBVIOUS
<1>1. (CHOOSE n \in Names : TRUE) \in Names
  BY SignupConstants
<1> QED BY <1>1 DEF SignupInit, SignupInv, SignupTypeOK, ClaimsGuest, RowsUnique, MovesOwn,
                   OwnedHistory, Deciding, Inserted

LEMMA OverSound ==
  ASSUME SignupInv, UNCHANGED <<users, history>>, NEW s \in AccountIds, Over(s)
  PROVE  SignupInv'
<1> DEFINE r == [pc |-> "over", name |-> signups[s].name, legacy |-> NoPid,
                 claim |-> NoPid, moved |-> {}]
<1>1. signups[s].name \in Names
  BY DEF SignupInv, SignupTypeOK
<1>2. signups' = [signups EXCEPT ![s] = r]
  BY DEF Over
<1> QED BY <1>1, <1>2, RequestSound

LEMMA RegisterSound ==
  ASSUME SignupInv, NEW s \in AccountIds, RegisterOptions(s)
  PROVE  SignupInv'
<1>1. PICK name \in Names, legacy \in Pids \cup Registered \cup {NoPid} :
        signups' = [signups EXCEPT ![s].pc = "asked", ![s].name = name, ![s].legacy = legacy]
  BY DEF RegisterOptions
<1> DEFINE r == [signups[s] EXCEPT !.pc = "asked", !.name = name, !.legacy = legacy]
<1>2. signups' = [signups EXCEPT ![s] = r]
  BY <1>1, Zenon DEF SignupInv, SignupTypeOK
<1>3. legacy \in Keys \cup {NoPid}
  BY DEF SignupInv, SignupTypeOK, Registered, Keys
<1>4. signups[s].pc = "none" /\ UNCHANGED <<users, history>>
  BY DEF RegisterOptions
<1>5. r.moved = {}
  BY <1>4 DEF SignupInv, MovesOwn, SignupTypeOK
<1> QED BY <1>2, <1>3, <1>4, <1>5, RequestSound DEF SignupInv, SignupTypeOK

LEMMA PopSound ==
  ASSUME SignupInv, NEW s \in AccountIds, PopChallenge(s)
  PROVE  SignupInv'
<1> DEFINE r == [signups[s] EXCEPT !.pc = "popped"]
<1>1. signups[s].pc = "asked" /\ UNCHANGED <<users, history>>
  BY DEF PopChallenge
<1>2. CASE Over(s)
  BY <1>1, <1>2, OverSound
<1>3. CASE signups' = [signups EXCEPT ![s] = r]
  <2>1. r.moved = {} /\ r.legacy \in Pids \cup Registered \cup {NoPid}
    BY <1>1 DEF SignupInv, MovesOwn, ClaimsGuest, SignupTypeOK
  <2> QED BY <1>1, <1>3, <2>1, RequestSound DEF SignupInv, SignupTypeOK
<1>4. signups' = [signups EXCEPT ![s] = r] \/ Over(s)
  BY DEF PopChallenge
<1> QED BY <1>2, <1>3, <1>4

LEMMA SelectSound ==
  ASSUME SignupInv, NEW s \in AccountIds, SelectTaken(s)
  PROVE  SignupInv'
<1> DEFINE taken == \/ signups[s].legacy \in Registered
                    \/ \E u \in users : u.claim = signups[s].legacy
           legacy == IF taken THEN NoPid ELSE signups[s].legacy
           r == [signups[s] EXCEPT !.pc = "selected", !.legacy = legacy, !.claim = legacy]
<1>1. /\ signups[s].pc = "popped" /\ UNCHANGED <<users, history>>
      /\ signups' = [signups EXCEPT ![s] = r]
  BY DEF SelectTaken, SignupInv, SignupTypeOK
<1>2. legacy \in Pids \cup {NoPid} /\ r.moved = {}
  BY <1>1 DEF SignupInv, MovesOwn, ClaimsGuest, SignupTypeOK
<1> QED BY <1>1, <1>2, RequestSound DEF SignupInv, SignupTypeOK, Keys

\* The database lets a row in only when it has waited for those that claim the same, and
\* found no such row: this is where the claims stay unique.
LEMMA InsertSound ==
  ASSUME SignupInv, NEW s \in AccountIds, InsertUser(s)
  PROVE  SignupInv'
<1>1. /\ signups[s].pc = "selected" /\ UNCHANGED <<users, history>>
      /\ \A t \in Pending(s) : ~SameClaim(s, signups[t])
  BY DEF InsertUser
<1>2. signups[s].moved = {} /\ signups[s].legacy \in Pids \cup {NoPid}
      /\ signups[s].claim = signups[s].legacy
  BY <1>1 DEF SignupInv, MovesOwn, ClaimsGuest, Deciding
<1>3. CASE /\ ~\E u \in users : SameName(s, u) \/ SameClaim(s, u)
           /\ signups' = [signups EXCEPT ![s].pc = "inserted"]
  <2> DEFINE r == [signups[s] EXCEPT !.pc = "inserted"]
  <2>1. signups' = [signups EXCEPT ![s] = r]
    BY <1>3
  <2>2. r.claim # NoPid
          => /\ \A u \in users : u.claim # r.claim
             /\ \A t \in AccountIds \ {s} : Inserted(t) => signups[t].claim # r.claim
    BY <1>1, <1>3 DEF Pending, SameClaim, Inserted, SignupInv, SignupTypeOK
  <2> QED BY <1>1, <1>2, <2>1, <2>2, RequestSound DEF SignupInv, SignupTypeOK
<1>4. CASE signups' = [signups EXCEPT ![s] = WithoutHistory(s)]
  <2>1. WithoutHistory(s) = [signups[s] EXCEPT !.legacy = NoPid, !.claim = NoPid]
    BY DEF WithoutHistory
  <2> QED BY <1>1, <1>2, <1>4, <2>1, RequestSound DEF SignupInv, SignupTypeOK
<1>5. CASE Over(s)
  BY <1>1, <1>5, OverSound
<1> QED BY <1>3, <1>4, <1>5 DEF InsertUser

LEMMA MoveSound ==
  ASSUME SignupInv, NEW s \in AccountIds, MoveStats(s)
  PROVE  SignupInv'
<1> DEFINE own == IF signups[s].legacy = NoPid THEN {} ELSE history[signups[s].legacy]
           r == [signups[s] EXCEPT !.pc = "moved", !.moved = own]
<1>1. /\ signups[s].pc = "inserted" /\ UNCHANGED <<users, history>>
      /\ signups' = [signups EXCEPT ![s] = r]
  BY DEF MoveStats, SignupInv, SignupTypeOK
<1>2. signups[s].legacy \in Pids \cup {NoPid} /\ signups[s].claim = signups[s].legacy
  BY <1>1 DEF SignupInv, ClaimsGuest, Deciding
<1>3. own # {} => signups[s].legacy \in Pids /\ own = {signups[s].legacy}
  BY <1>2, GuestsOwn
<1>4. own \in SUBSET Keys
  BY <1>2, <1>3 DEF Keys
<1>5. r.claim # NoPid
        => /\ \A u \in users : u.claim # r.claim
           /\ \A t \in AccountIds \ {s} : Inserted(t) => signups[t].claim # r.claim
  BY <1>1 DEF SignupInv, RowsUnique, Inserted, SignupTypeOK
<1> QED BY <1>1, <1>2, <1>3, <1>4, <1>5, RequestSound DEF SignupInv, SignupTypeOK

LEMMA CommitSound ==
  ASSUME SignupInv, NEW s \in AccountIds, CommitUser(s)
  PROVE  SignupInv'
<1> USE DEF SignupInv
<1> DEFINE new == signups[s]
           row == [id |-> s, name |-> new.name, claim |-> new.claim]
<1>1. /\ new.pc = "moved" /\ users' = users \cup {row}
      /\ history' = IF new.moved = {} THEN history
                    ELSE [history EXCEPT ![s] = new.moved, ![new.legacy] = {}]
  BY DEF CommitUser
<1>2. /\ new.legacy \in Pids \cup {NoPid} /\ new.claim = new.legacy
      /\ new.moved # {} => new.legacy \in Pids /\ new.moved = {new.legacy}
  BY <1>1 DEF ClaimsGuest, Deciding, MovesOwn
<1>3. /\ signups'[s] = [pc |-> "over", name |-> new.name, legacy |-> NoPid,
                        claim |-> NoPid, moved |-> {}]
      /\ \A t \in AccountIds \ {s} : signups'[t] = signups[t]
  BY DEF CommitUser, Over, SignupTypeOK
<1>4. SignupTypeOK'
  <2>1. users' \subseteq [id : AccountIds, name : Names, claim : Keys \cup {NoPid}]
    BY <1>1 DEF SignupTypeOK
  <2>2. history' \in [Keys -> SUBSET Keys]
    BY <1>1, <1>2, KeysApart DEF SignupTypeOK
  <2>3. signups' = [signups EXCEPT ![s] = [pc |-> "over", name |-> new.name,
                                           legacy |-> NoPid, claim |-> NoPid, moved |-> {}]]
    BY DEF CommitUser, Over
  <2> QED BY <2>1, <2>2, <2>3 DEF SignupTypeOK
<1>5. ClaimsGuest'
  BY <1>1, <1>3 DEF ClaimsGuest, Deciding, Registered
<1>6. RowsUnique'
  BY <1>1, <1>3 DEF RowsUnique, Inserted
<1>7. MovesOwn'
  BY <1>3 DEF MovesOwn
<1>8. OwnedHistory'
  <2>1. \A k, q : Claimed(k, q) => Claimed(k, q)'
    BY <1>1 DEF Claimed
  <2>2. \A q : q = new.claim => Claimed(s, q)'
    <3>1. row \in users' /\ row.id = s /\ row.claim = new.claim
      BY <1>1
    <3> QED BY <3>1 DEF Claimed
  <2>3. \A k \in Keys : \/ history'[k] = history[k] \/ history'[k] = {}
                        \/ /\ k = s /\ new.legacy \in Pids
                           /\ history'[k] = {new.legacy}
    BY <1>1, <1>2 DEF SignupTypeOK
  <2> QED BY <1>2, <2>1, <2>2, <2>3 DEF OwnedHistory
<1> QED BY <1>4, <1>5, <1>6, <1>7, <1>8

LEMMA WriteSound ==
  ASSUME SignupInv, NEW k \in Keys, WriteHistory(k)
  PROVE  SignupInv'
<1> USE DEF SignupInv
<1>1. UNCHANGED <<users, signups>> /\ history' = [history EXCEPT ![k] = @ \cup {k}]
  BY DEF WriteHistory
<1>2. SignupTypeOK'
  BY <1>1 DEF SignupTypeOK
<1>3. ClaimsGuest' /\ RowsUnique' /\ MovesOwn'
  BY <1>1 DEF ClaimsGuest, Deciding, Registered, RowsUnique, Inserted, MovesOwn
<1>4. OwnedHistory'
  BY <1>1 DEF OwnedHistory, Claimed, SignupTypeOK
<1> QED BY <1>2, <1>3, <1>4

LEMMA SignupNextSound ==
  ASSUME SignupInv, [SignupNext]_signupVars
  PROVE  SignupInv'
<1>1. CASE UNCHANGED signupVars
  BY <1>1 DEF signupVars, SignupInv, SignupTypeOK, ClaimsGuest, Deciding, Registered, RowsUnique,
              Inserted, MovesOwn, OwnedHistory, Claimed
<1>2. ASSUME NEW s \in AccountIds, Abort(s) PROVE SignupInv'
  BY <1>2, OverSound DEF Abort
<1> QED BY <1>1, <1>2, RegisterSound, PopSound, SelectSound, InsertSound, MoveSound,
           CommitSound, WriteSound DEF SignupNext

LEMMA SignupKeeps == SignupInv => HistoryKeepsOwner
<1> SUFFICES ASSUME SignupInv PROVE HistoryKeepsOwner
  OBVIOUS
<1>1. \A k, l \in Keys, pid \in Pids : Claimed(k, pid) /\ Claimed(l, pid) => k = l
  BY KeysApart DEF SignupInv, RowsUnique, Claimed, Keys
<1> QED BY <1>1 DEF SignupInv, OwnedHistory, HistoryKeepsOwner

\* However many browsers sign up at once, with the same player id or not, and whatever the
\* telemetry writer adds meanwhile: what someone has played stays under their id or moves
\* to the one account that claimed it (register_verify, auth.py).
THEOREM HistoriesKept == SignupSpec => []HistoryKeepsOwner
<1>1. SignupInit => SignupInv
  BY SignupStarts
<1>2. SignupInv /\ [SignupNext]_signupVars => SignupInv'
  BY SignupNextSound
<1>3. SignupInv => HistoryKeepsOwner
  BY SignupKeeps
<1> QED BY <1>1, <1>2, <1>3, PTL DEF SignupSpec

===============================================================================
