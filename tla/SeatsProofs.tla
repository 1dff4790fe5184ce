----------------------------- MODULE SeatsProofs -----------------------------
(***************************************************************************)
(* Proofs about module Seats, for any number of connections, accounts,     *)
(* instances, toggles and calls: its types, that a seat has one owner,     *)
(* that a superseded connection closes in silence, and that every step is  *)
(* a step of SeatLedger, or none.                                          *)
(***************************************************************************)
EXTENDS Seats, FiniteSetTheorems, TLAPS

-----------------------------------------------------------------------------
(* What the scripts of SeatStore preserve and change: each keeps a hash a  *)
(* hash, touches the list of players only where its code does, and hands   *)
(* out generations that only grow.                                         *)

GoodHash(h) == h \in Hash /\ IsFiniteSet(h.order)

\* Nobody's generation goes back from h to k.
GenGrows(h, k) == \A p \in Pids : h.seat[p].gen <= k.seat[p].gen

-----------------------------------------------------------------------------
\* One more entry lists one more player.
LEMMA ListedAdd ==
  ASSUME NEW h, NEW k, NEW x, k.order = h.order \cup {x}
  PROVE  Listed(k) = Listed(h) \cup {x.pid}
<1>1. ASSUME NEW q PROVE q \in Listed(k) <=> q \in Listed(h) \/ q = x.pid
  BY DEF Listed
<1> QED
  BY <1>1

\* The empty hash of a game that is not there.
LEMMA NoHashGood == GoodHash(NoHash) /\ Listed(NoHash) = {}
  BY FS_EmptySet DEF GoodHash, NoHash, Hash, NoSeat, Seat, Entry, Listed

\* A game just created lists its host alone.
LEMMA CreateLuaGood ==
  ASSUME NEW p \in Pids
  PROVE  GoodHash(CreateLua(p)) /\ Listed(CreateLua(p)) = {p}
<1> DEFINE o == {[at |-> 1, pid |-> p]}
<1>1. IsFiniteSet(o)
  BY FS_Singleton
<1>2. CreateLua(p) = [NoHash EXCEPT !.key = "game", !.order = o, !.host = p,
                                    !.seat[p] = Fresh]
  BY DEF CreateLua
<1>3. CreateLua(p).order = o
  BY <1>2 DEF NoHash
<1>4. CreateLua(p) \in Hash
  <2>1. o \in SUBSET Entry
    BY DEF Entry
  <2>2. Fresh \in Seat /\ [NoHash.seat EXCEPT ![p] = Fresh] \in [Pids -> Seat]
    BY DEF NoHash, NoSeat, Fresh, Seat
  <2>3. CreateLua(p) = [key |-> "game", order |-> o, host |-> p, started |-> FALSE,
                        paused |-> FALSE, deadline |-> "none",
                        seat |-> [NoHash.seat EXCEPT ![p] = Fresh]]
    BY <1>2 DEF NoHash
  <2> QED
    BY <2>1, <2>2, <2>3 DEF Hash
<1>5. Listed(CreateLua(p)) = {p}
  BY <1>3 DEF Listed
<1> QED
  BY <1>1, <1>3, <1>4, <1>5 DEF GoodHash

\* JOIN lists its player and moves nobody's generation.
LEMMA JoinLuaGood ==
  ASSUME NEW h, GoodHash(h), NEW p \in Pids
  PROVE  /\ GoodHash(JoinLua(h, p))
         /\ Listed(JoinLua(h, p)) = Listed(h) \cup {p}
         /\ GenGrows(h, JoinLua(h, p))
<1> DEFINE e == [at |-> Cardinality(h.order) + 1, pid |-> p]
<1>1. Cardinality(h.order) \in Nat
  BY FS_CardinalityType DEF GoodHash
<1>2. e \in Entry
  BY <1>1 DEF Entry
<1>3. /\ IsFiniteSet(h.order \cup {e})
      /\ h.order \cup {e} \in SUBSET Entry
  BY <1>2, FS_AddElement DEF GoodHash, Hash
<1>4. JoinLua(h, p).order = h.order \cup {e}
  BY DEF JoinLua, GoodHash, Hash
<1>5. JoinLua(h, p) \in Hash
  <2>1. JoinLua(h, p) = [h EXCEPT !.order = h.order \cup {e}, !.seat = JoinLua(h, p).seat]
    BY DEF GoodHash, Hash, JoinLua
  <2>2. JoinLua(h, p).seat \in [Pids -> Seat]
    BY DEF GoodHash, Hash, JoinLua, Seat
  <2> QED
    BY <1>3, <2>1, <2>2 DEF GoodHash, Hash
<1>6. GenGrows(h, JoinLua(h, p))
  BY DEF GoodHash, Hash, JoinLua, Seat, GenGrows
<1>7. Listed(JoinLua(h, p)) = Listed(h) \cup {p}
  <2>1. e.pid = p
    OBVIOUS
  <2> HIDE DEF e
  <2>2. Listed(JoinLua(h, p)) = Listed(h) \cup {e.pid}
    BY <1>4, ListedAdd
  <2> QED
    BY <2>1, <2>2
<1> QED
  BY <1>3, <1>4, <1>5, <1>6, <1>7 DEF GoodHash

-----------------------------------------------------------------------------
(* The writes that leave the list of players alone.                        *)

\* k is a hash with h's players, and generations at least h's.
Rewrites(h, k) == GoodHash(k) /\ k.order = h.order /\ GenGrows(h, k)

\* What a reader sees of the roster depends on the entries alone.
LEMMA SameListed ==
  ASSUME NEW h, NEW k, k.order = h.order
  PROVE  Listed(k) = Listed(h)
  BY DEF Listed

\* Touching a hash adds no player.
LEMMA TouchGood ==
  ASSUME NEW h, GoodHash(h)
  PROVE  Rewrites(h, Touch(h)) /\ Touch(h).seat = h.seat
  BY DEF Rewrites, GoodHash, GenGrows, Hash, Seat, Touch

\* Touching a player's fields adds an empty record at most.
LEMMA TouchSeatGood ==
  ASSUME NEW h, GoodHash(h), NEW p \in Pids
  PROVE  /\ Rewrites(h, TouchSeat(h, p))
         /\ TouchSeat(h, p).seat[p].gen = h.seat[p].gen
<1>1. Rewrites(h, Touch(h)) /\ Touch(h).seat = h.seat
  BY TouchGood
<1>2. /\ Rewrites(h, TouchSeat(h, p))
      /\ TouchSeat(h, p).seat[p].gen = h.seat[p].gen
  <2>1. CASE h.seat[p].rec # "none"
    BY <1>1, <2>1 DEF TouchSeat
  <2>2. CASE h.seat[p].rec = "none"
    <3> DEFINE k == Touch(h)
               r == [k.seat[p] EXCEPT !.rec = "bare"]
    <3>1. k \in Hash /\ k.order = h.order /\ k.seat = h.seat
      BY <1>1 DEF Rewrites, GoodHash
    <3>2. TouchSeat(h, p) = [k EXCEPT !.seat = [k.seat EXCEPT ![p] = r]]
      BY <2>2, <3>1 DEF TouchSeat, Hash
    <3>3. r \in Seat /\ r.gen = h.seat[p].gen
      BY <3>1 DEF Hash, Seat
    <3> HIDE DEF k, r
    <3>4. TouchSeat(h, p) \in Hash /\ TouchSeat(h, p).order = h.order
      BY <3>1, <3>2, <3>3 DEF Hash
    <3>5. \A q \in Pids : TouchSeat(h, p).seat[q].gen = h.seat[q].gen
      BY <3>1, <3>2, <3>3 DEF Hash
    <3>6. \A q \in Pids : h.seat[q].gen <= TouchSeat(h, p).seat[q].gen
      BY <3>1, <3>5 DEF Hash, Seat
    <3> QED
      BY <3>4, <3>5, <3>6 DEF Rewrites, GoodHash, GenGrows
  <2> QED
    BY <2>1, <2>2
<1> QED
  BY <1>2

\* One record of a hash is replaced by another of no smaller generation.
LEMMA SeatGood ==
  ASSUME NEW h, NEW k, NEW r \in Seat, NEW p \in Pids,
         Rewrites(h, k), GoodHash(h), k.seat[p].gen <= r.gen
  PROVE  Rewrites(h, [k EXCEPT !.seat = [k.seat EXCEPT ![p] = r]])
<1> DEFINE m == [k EXCEPT !.seat = [k.seat EXCEPT ![p] = r]]
<1>1. m \in Hash /\ m.order = h.order
  BY DEF Rewrites, GoodHash, Hash
<1>2. \A q \in Pids : m.seat[q] = IF q = p THEN r ELSE k.seat[q]
  BY DEF Rewrites, GoodHash, Hash
<1>3. \A q \in Pids : h.seat[q].gen \in Nat /\ k.seat[q].gen \in Nat
                      /\ r.gen \in Nat /\ h.seat[q].gen <= k.seat[q].gen
  BY DEF Rewrites, GoodHash, GenGrows, Hash, Seat
<1> HIDE DEF m
<1>4. \A q \in Pids : h.seat[q].gen <= m.seat[q].gen
  BY <1>2, <1>3
<1>5. Rewrites(h, m)
  BY <1>1, <1>4 DEF Rewrites, GoodHash, GenGrows
<1> QED
  BY <1>5 DEF m

\* The records a claim and a mark write.
Claimed(x) == [x EXCEPT !.gen = @ + 1, !.conn = "on", !.stamp = "none"]

Marked(x) == [x EXCEPT !.conn = "off", !.stamp = "fresh"]

LEMMA RecordWrites ==
  ASSUME NEW x \in Seat
  PROVE  /\ Claimed(x) \in Seat
         /\ Claimed(x).conn = "on"
         /\ Claimed(x).gen = x.gen + 1
         /\ x.gen <= Claimed(x).gen
         /\ Marked(x) \in Seat
         /\ Marked(x).conn = "off"
         /\ Marked(x).stamp = "fresh"
         /\ x.gen <= Marked(x).gen
<1>1. x.gen \in Nat
  BY DEF Seat
<1>2. Claimed(x).conn = "on" /\ Claimed(x).gen = x.gen + 1
  BY DEF Claimed, Seat
<1>5. Claimed(x) \in Seat
  <2> DEFINE n == x.gen + 1
  <2>1. n \in Nat
    BY <1>1
  <2>2. Claimed(x) = [x EXCEPT !.gen = n, !.conn = "on", !.stamp = "none"]
    BY DEF Claimed
  <2> HIDE DEF n
  <2> QED
    BY <2>1, <2>2 DEF Seat
<1>3. Marked(x).conn = "off" /\ Marked(x).stamp = "fresh" /\ Marked(x).gen = x.gen
  BY DEF Marked, Seat
<1>4. Marked(x) \in Seat
  BY DEF Marked, Seat
<1> QED
  BY <1>1, <1>2, <1>3, <1>4, <1>5

\* The claim of a reconnect is the next generation of its player's seat.
LEMMA ClaimConnLuaGood ==
  ASSUME NEW h, GoodHash(h), NEW p \in Pids
  PROVE  /\ Rewrites(h, ClaimConnLua(h, p))
         /\ ClaimConnLua(h, p).seat[p].gen = h.seat[p].gen + 1
         /\ ClaimConnLua(h, p).seat[p].conn = "on"
<1> DEFINE k == TouchSeat(h, p)
           r == Claimed(k.seat[p])
<1>1. Rewrites(h, k) /\ k.seat[p].gen = h.seat[p].gen
  BY TouchSeatGood
<1> HIDE DEF k
<1>2. k.seat[p] \in Seat /\ k \in Hash
  BY <1>1 DEF Rewrites, GoodHash, Hash
<1>3. r \in Seat /\ k.seat[p].gen <= r.gen /\ r.gen = k.seat[p].gen + 1 /\ r.conn = "on"
  BY <1>2, RecordWrites
<1>4. ClaimConnLua(h, p) = [k EXCEPT !.seat = [k.seat EXCEPT ![p] = r]]
  BY <1>2 DEF ClaimConnLua, Claimed, k, Hash
<1>5. ClaimConnLua(h, p).seat[p] = r
  BY <1>2, <1>4 DEF Hash
<1> HIDE DEF r
<1> QED
  BY <1>1, <1>3, <1>4, <1>5, SeatGood

\* Marking a player away keeps its generation.
LEMMA MarkDisconnectedGood ==
  ASSUME NEW h, GoodHash(h), NEW p \in Pids
  PROVE  /\ Rewrites(h, MarkDisconnected(h, p))
         /\ MarkDisconnected(h, p).seat[p].conn = "off"
         /\ MarkDisconnected(h, p).seat[p].stamp = "fresh"
<1> DEFINE k == TouchSeat(h, p)
           r == Marked(k.seat[p])
<1>1. Rewrites(h, k)
  BY TouchSeatGood
<1> HIDE DEF k
<1>2. k.seat[p] \in Seat /\ k \in Hash
  BY <1>1 DEF Rewrites, GoodHash, Hash
<1>3. r \in Seat /\ k.seat[p].gen <= r.gen /\ r.conn = "off" /\ r.stamp = "fresh"
  BY <1>2, RecordWrites
<1>4. MarkDisconnected(h, p) = [k EXCEPT !.seat = [k.seat EXCEPT ![p] = r]]
  BY <1>2 DEF MarkDisconnected, Marked, k, Hash
<1>5. MarkDisconnected(h, p).seat[p] = r
  BY <1>2, <1>4 DEF Hash
<1> HIDE DEF r
<1> QED
  BY <1>1, <1>3, <1>4, <1>5, SeatGood

\* So do a new stamp and the passing of the grace.
LEMMA StampGood ==
  ASSUME NEW h, GoodHash(h), NEW p \in Pids
  PROVE  /\ Rewrites(h, RestampLua(h, p))
         /\ Rewrites(h, [h EXCEPT !.seat[p].stamp = "past"])
<1>1. ASSUME NEW t \in {"fresh", "past"}
      PROVE  Rewrites(h, [h EXCEPT !.seat[p].stamp = t])
  <2> DEFINE r == [h.seat[p] EXCEPT !.stamp = t]
  <2>1. h.seat[p] \in Seat /\ Rewrites(h, h) /\ h \in Hash
    BY DEF Rewrites, GoodHash, GenGrows, Hash, Seat
  <2>2. r \in Seat /\ h.seat[p].gen <= r.gen
    BY <2>1 DEF Seat
  <2>3. [h EXCEPT !.seat[p].stamp = t] = [h EXCEPT !.seat = [h.seat EXCEPT ![p] = r]]
    BY <2>1 DEF Hash
  <2> HIDE DEF r
  <2> QED
    BY <2>1, <2>2, <2>3, SeatGood
<1>2. Rewrites(h, h)
  BY DEF Rewrites, GoodHash, GenGrows, Hash, Seat
<1> QED
  BY <1>1, <1>2 DEF RestampLua

\* The writes of the host's controls leave every player's fields as they are.
LEMMA ControlsGood ==
  ASSUME NEW h, GoodHash(h), NEW p \in Pids
  PROVE  /\ Rewrites(h, SetPaused(h)) /\ SetPaused(h).seat = h.seat
         /\ Rewrites(h, SetResumed(h)) /\ SetResumed(h).seat = h.seat
         /\ Rewrites(h, SetStarted(h)) /\ SetStarted(h).seat = h.seat
         /\ Rewrites(h, TransferHost(h, p)) /\ TransferHost(h, p).seat = h.seat
         /\ Rewrites(h, [h EXCEPT !.deadline = "past"])
<1> DEFINE k == Touch(h)
<1>1. Rewrites(h, k) /\ k.seat = h.seat
  BY TouchGood
<1>2. k \in Hash /\ IsFiniteSet(k.order) /\ k.order = h.order /\ GenGrows(h, k)
  BY <1>1 DEF Rewrites, GoodHash
<1> HIDE DEF k
<1>3. Rewrites(h, SetPaused(h)) /\ SetPaused(h).seat = h.seat
  BY <1>1, <1>2 DEF SetPaused, k, Rewrites, GoodHash, GenGrows, Hash
<1>4. Rewrites(h, SetResumed(h)) /\ SetResumed(h).seat = h.seat
  BY <1>1, <1>2 DEF SetResumed, k, Rewrites, GoodHash, GenGrows, Hash
<1>5. Rewrites(h, SetStarted(h)) /\ SetStarted(h).seat = h.seat
  BY <1>1, <1>2 DEF SetStarted, k, Rewrites, GoodHash, GenGrows, Hash
<1>6. Rewrites(h, TransferHost(h, p)) /\ TransferHost(h, p).seat = h.seat
  BY <1>1, <1>2 DEF TransferHost, k, Rewrites, GoodHash, GenGrows, Hash
<1>7. Rewrites(h, [h EXCEPT !.deadline = "past"])
  BY DEF Rewrites, GoodHash, GenGrows, Hash, Seat
<1> QED
  BY <1>3, <1>4, <1>5, <1>6, <1>7

\* A deal gives dice, not names, connections or generations.
LEMMA DealWriteGood ==
  ASSUME NEW h, GoodHash(h), NEW pids \in SUBSET Pids
  PROVE  /\ Rewrites(h, DealWrite(h, pids))
         /\ \A p \in Pids : /\ DealWrite(h, pids).seat[p].conn = h.seat[p].conn
                            /\ DealWrite(h, pids).seat[p].stamp = h.seat[p].stamp
<1> DEFINE k == Touch(h)
           f == [p \in Pids |-> IF p \in pids /\ k.seat[p].rec = "none"
                                THEN [k.seat[p] EXCEPT !.rec = "bare"] ELSE k.seat[p]]
<1>1. k \in Hash /\ IsFiniteSet(k.order) /\ k.order = h.order /\ k.seat = h.seat
  BY TouchGood DEF Rewrites, GoodHash
<1>2. DealWrite(h, pids) = [k EXCEPT !.seat = f]
  BY DEF DealWrite
<1> HIDE DEF k
<1>3. \A p \in Pids : /\ f[p] \in Seat /\ f[p].gen = k.seat[p].gen /\ f[p].gen \in Nat
                      /\ f[p].conn = k.seat[p].conn /\ f[p].stamp = k.seat[p].stamp
  BY <1>1 DEF Hash, Seat
<1>4. DealWrite(h, pids).seat = f /\ DealWrite(h, pids).order = h.order
  BY <1>1, <1>2 DEF Hash
<1>5. DealWrite(h, pids) \in Hash
  BY <1>1, <1>2, <1>3 DEF Hash
<1> HIDE DEF f
<1>6. GenGrows(h, DealWrite(h, pids))
  BY <1>1, <1>3, <1>4 DEF GenGrows
<1> QED
  BY <1>1, <1>3, <1>4, <1>5, <1>6 DEF Rewrites, GoodHash

-----------------------------------------------------------------------------
\* Removing one of several players unlists that one and renumbers the rest.
LEMMA DropLuaGood ==
  ASSUME NEW h, GoodHash(h), NEW p \in Pids, NEW heir \in Pids, Kept(h, p) # {}
  PROVE  /\ GoodHash(DropLua(h, p, heir))
         /\ Listed(DropLua(h, p, heir)) = Listed(h) \ {p}
         /\ \A q \in Pids \ {p} : DropLua(h, p, heir).seat[q] = h.seat[q]
<1> DEFINE K == Kept(h, p)
           num(e) == [at |-> Cardinality({f \in K : f.at <= e.at}), pid |-> e.pid]
           N == Renumbered(K)
<1>1. K \subseteq h.order /\ h.order \subseteq Entry /\ IsFiniteSet(K)
  BY FS_Subset DEF Kept, GoodHash, Hash
<1>2. \A e \in K : num(e) \in Entry
  <2> SUFFICES ASSUME NEW e \in K PROVE num(e) \in Entry
    OBVIOUS
  <2>1. IsFiniteSet({f \in K : f.at <= e.at})
    BY <1>1, FS_Subset
  <2>2. Cardinality({f \in K : f.at <= e.at}) \in Nat
    BY <2>1, FS_CardinalityType
  <2> QED
    BY <1>1, <2>2 DEF Entry
<1>3. N = {num(e) : e \in K}
  BY DEF Renumbered
<1>4. N \in SUBSET Entry
  BY <1>2, <1>3
<1>5. IsFiniteSet(N)
  <2> DEFINE g == [e \in K |-> num(e)]
  <2>1. g \in Surjection(K, N)
    BY <1>3 DEF Surjection
  <2> HIDE DEF K, N, g
  <2> QED
    BY <1>1, <2>1, FS_Surjection
<1>6. \A q : (\E n \in N : n.pid = q) <=> (\E e \in h.order : e.pid = q /\ q # p)
  <2>1. \A e : num(e).pid = e.pid
    OBVIOUS
  <2>2. \A e : e \in K <=> e \in h.order /\ e.pid # p
    BY DEF Kept
  <2> HIDE DEF K, N, num
  <2> QED
    BY <1>3, <2>1, <2>2
<1> DEFINE k == DropLua(h, p, heir)
           f == [h.seat EXCEPT ![p] = NoSeat]
           new == IF h.host = p THEN heir ELSE h.host
<1> HIDE DEF K, N
<1>7. k = [h EXCEPT !.order = N, !.seat = f, !.host = new]
  BY DEF DropLua, K, N, GoodHash, Hash
<1>8. k.order = N /\ k.seat = f
  BY <1>7 DEF GoodHash, Hash
<1>9. f \in [Pids -> Seat] /\ \A q \in Pids \ {p} : f[q] = h.seat[q]
  BY DEF GoodHash, Hash, NoSeat, Seat
<1>10. new \in Pids \cup {None}
  BY DEF GoodHash, Hash
<1> HIDE DEF k, f, new
<1>11. k \in Hash
  BY <1>4, <1>7, <1>9, <1>10 DEF GoodHash, Hash
<1>12. Listed(k) = Listed(h) \ {p}
  <2>1. ASSUME NEW q PROVE q \in Listed(k) <=> q \in Listed(h) \ {p}
    BY <1>6, <1>8 DEF Listed
  <2> QED
    BY <2>1
<1> QED
  BY <1>5, <1>8, <1>9, <1>11, <1>12 DEF GoodHash, k

-----------------------------------------------------------------------------
\* k is a game exactly when h is one, as started and as paused as h.
SamePhase(h, k) ==
  /\ k.key = "game" <=> h.key = "game"
  /\ k.started = h.started
  /\ k.paused = h.paused

\* No write about players starts, pauses, makes or ends a game.
LEMMA PlayersKeepPhase ==
  ASSUME NEW h, GoodHash(h), NEW p \in Pids, NEW q \in Pids \cup {None},
         NEW pids \in SUBSET Pids
  PROVE  /\ SamePhase(h, JoinLua(h, p))
         /\ SamePhase(h, ClaimConnLua(h, p))
         /\ SamePhase(h, MarkDisconnected(h, p))
         /\ SamePhase(h, RestampLua(h, p))
         /\ SamePhase(h, [h EXCEPT !.seat[p].stamp = "past"])
         /\ SamePhase(h, TransferHost(h, q))
         /\ SamePhase(h, DealWrite(h, pids))
         /\ Kept(h, p) # {} => SamePhase(h, DropLua(h, p, q))
<1>1. SamePhase(h, Touch(h)) /\ Touch(h) \in Hash
  BY TouchGood DEF SamePhase, Touch, GoodHash, Hash, Rewrites
<1>2. SamePhase(h, TouchSeat(h, p)) /\ TouchSeat(h, p) \in Hash
  BY <1>1, TouchSeatGood DEF SamePhase, TouchSeat, Rewrites, GoodHash, Hash
<1> HIDE DEF SamePhase
<1>3. SamePhase(h, ClaimConnLua(h, p)) /\ SamePhase(h, MarkDisconnected(h, p))
  BY <1>2 DEF SamePhase, ClaimConnLua, MarkDisconnected, Hash
<1>4. SamePhase(h, TransferHost(h, q)) /\ SamePhase(h, DealWrite(h, pids))
  BY <1>1 DEF SamePhase, TransferHost, DealWrite, Hash
<1>5. /\ SamePhase(h, JoinLua(h, p))
      /\ SamePhase(h, RestampLua(h, p))
      /\ SamePhase(h, [h EXCEPT !.seat[p].stamp = "past"])
  BY DEF SamePhase, JoinLua, RestampLua, GoodHash, Hash
<1>6. Kept(h, p) # {} => SamePhase(h, DropLua(h, p, q))
  BY DEF SamePhase, DropLua, GoodHash, Hash
<1> QED
  BY <1>3, <1>4, <1>5, <1>6

\* The host's controls change the phase in the one field they write.
LEMMA ControlsPhase ==
  ASSUME NEW h, GoodHash(h)
  PROVE  /\ SetStarted(h).key = "game" <=> h.key = "game"
         /\ SetStarted(h).started = TRUE /\ SetStarted(h).paused = h.paused
         /\ SetPaused(h).key = "game" <=> h.key = "game"
         /\ SetPaused(h).started = h.started /\ SetPaused(h).paused = TRUE
         /\ SetResumed(h).key = "game" <=> h.key = "game"
         /\ SetResumed(h).started = h.started /\ SetResumed(h).paused = FALSE
         /\ SamePhase(h, [h EXCEPT !.deadline = "past"])
<1>1. SamePhase(h, Touch(h)) /\ Touch(h) \in Hash
  BY TouchGood DEF SamePhase, Touch, GoodHash, Hash, Rewrites
<1>2. SamePhase(h, [h EXCEPT !.deadline = "past"])
  BY DEF SamePhase, GoodHash, Hash
<1> QED
  BY <1>1, <1>2 DEF SamePhase, SetStarted, SetPaused, SetResumed, Hash

-----------------------------------------------------------------------------
(* The inductive invariant.                                                *)

\* A connection that has not sent create, join or reconnect holds nothing.
Unseated ==
  \A s \in Socks : ~sess[s].seated => sess[s].pc = "idle" /\ sess[s].seq = 0

\* The claims on a seat are those of connections that carry its player and
\* have their generation.
ClaimsHeld ==
  \A p \in Pids : \A s \in claims[p] :
    sess[s].seated /\ sess[s].pid = p /\ sess[s].pc # "claim"

\* Before its create, a game has left no trace.
Unborn ==
  ~born => /\ hash = NoHash
           /\ timers = {} /\ drops = {}
           /\ \A s \in Socks : ~sess[s].seated

\* Only a game has players, and only a started one can be paused.
PausedStarted ==
  /\ hash.key # "game" => hash.order = {}
  /\ hash.key = "game" /\ hash.paused => hash.started
  /\ \A s \in Socks : hash.key = "game" /\ sess[s].pc = "pause" => hash.started

\* A leaving connection's do_drop is about its own player, and is awaited.
CallsAwaited ==
  \A d \in drops : d.sock # None =>
    /\ At(d.sock, "leave")
    /\ sess[d.sock].pid = d.pid
    /\ \A e \in drops : e.sock = d.sock => e = d

\* Every connection that has been opened runs on an instance.
Placed == \A s \in Socks : sess[s].life \in {"open", "closing"} => sess[s].inst \in Insts

IInv ==
  /\ TypeOK
  /\ IsFiniteSet(hash.order)
  /\ Unseated
  /\ ClaimsHeld
  /\ OneOwner
  /\ Unborn
  /\ PausedStarted
  /\ CallsAwaited
  /\ Placed

-----------------------------------------------------------------------------
(* Types, one variable at a time.                                          *)

LEMMA InitInv == Init => IInv
<1> SUFFICES ASSUME Init PROVE IInv
  OBVIOUS
<1>1. TypeOK /\ IsFiniteSet(hash.order)
  BY NoHashGood, FS_EmptySet DEF Init, TypeOK, GoodHash, NoSession, Session, Pcs, NoHash, Pids
<1>2. Unseated /\ ClaimsHeld /\ OneOwner /\ Unborn /\ CallsAwaited /\ Placed
  BY DEF Init, Unseated, ClaimsHeld, OneOwner, Unborn, CallsAwaited, Placed, NoSession
<1>3. PausedStarted
  BY DEF Init, PausedStarted, NoHash
<1> QED
  BY <1>1, <1>2, <1>3 DEF IInv

\* The end of a handler.
LEMMA AfterPrintType ==
  ASSUME NEW x \in Session, NEW h
  PROVE  /\ AfterPrint(x, h) \in Session
         /\ AfterPrint(x, h).pid = x.pid
         /\ AfterPrint(x, h).seated = x.seated
         /\ AfterPrint(x, h).seq = x.seq
         /\ AfterPrint(x, h).pc = "idle"
  BY DEF AfterPrint, Session, Pcs

\* The end of an awaited do_drop touches the connection that awaits it alone.
LEMMA EndedType ==
  ASSUME NEW sock \in Socks \cup {None}, NEW raised \in BOOLEAN, TypeOK
  PROVE  /\ Ended(sock, raised) \in [Socks -> Session]
         /\ \A s \in Socks :
              LET x == Ended(sock, raised)[s]
              IN /\ x.pid = sess[s].pid /\ x.seated = sess[s].seated
                 /\ x.seq = sess[s].seq /\ x.inst = sess[s].inst
                 /\ x.pc \in {"idle", sess[s].pc}
                 /\ x.life \in {"closing", sess[s].life}
                 /\ s # sock => x = sess[s]
<1>1. ASSUME NEW s \in Socks
      PROVE  /\ Ended(sock, raised)[s] \in Session
             /\ LET x == Ended(sock, raised)[s]
                IN /\ x.pid = sess[s].pid /\ x.seated = sess[s].seated
                   /\ x.seq = sess[s].seq /\ x.inst = sess[s].inst
                   /\ x.pc \in {"idle", sess[s].pc}
                   /\ x.life \in {"closing", sess[s].life}
                   /\ s # sock => x = sess[s]
  BY DEF TypeOK, Session, Pcs, Ended
<1>2. Ended(sock, raised) = [s \in Socks |-> Ended(sock, raised)[s]]
  BY DEF Ended
<1> QED
  BY <1>1, <1>2

\* do_drop's first step adds one call at most, about its player.
LEMMA DropReadType ==
  ASSUME TypeOK, NEW p \in Pids, NEW sock \in Socks \cup {None},
         NEW others \in SUBSET Drop, DropRead(p, sock, others)
  PROVE  /\ drops' \in SUBSET Drop
         /\ \E c \in Drop : c.sock = sock /\ c.pid = p /\ drops' \subseteq others \cup {c}
         /\ \/ sess' = sess
            \/ drops' = others /\ \E raised \in BOOLEAN : sess' = Ended(sock, raised)
<1> DEFINE Call(st, heir) == [pid |-> p, sock |-> sock, st |-> st, heir |-> heir]
           heirs == IF hash.host = p THEN HandoverTo(hash, p) ELSE {}
<1>1. Call("lua", None) \in Drop
  BY DEF Drop
<1>2. \A q \in heirs : q \in Pids
  BY DEF TypeOK, HandoverTo, Firsts, Connected, Players, Listed, Hash, Entry
<1>3. \A q \in Pids : Call("give", q) \in Drop
  BY DEF Drop
<1>4. Call("lua", None).sock = sock /\ Call("lua", None).pid = p
  OBVIOUS
<1>5. CASE \/ drops' = others /\ sess' = Ended(sock, FALSE)
           \/ drops' = others /\ sess' = Ended(sock, TRUE)
  BY <1>1, <1>4, <1>5
<1>6. ASSUME sess' = sess, NEW q \in heirs, drops' = others \cup {Call("give", q)}
      PROVE  /\ drops' \in SUBSET Drop
             /\ \E c \in Drop : c.sock = sock /\ c.pid = p /\ drops' \subseteq others \cup {c}
  <2>1. Call("give", q) \in Drop /\ Call("give", q).sock = sock /\ Call("give", q).pid = p
    BY <1>2, <1>3, <1>6
  <2> QED
    BY <1>6, <2>1
<1>7. CASE sess' = sess /\ drops' = others \cup {Call("lua", None)}
  BY <1>1, <1>4, <1>7
<1> QED
  BY <1>5, <1>6, <1>7 DEF DropRead

TypedState == TypeOK /\ IsFiniteSet(hash.order)

\* The parts of a typed state.
LEMMA Parts ==
  TypedState <=> /\ GoodHash(hash)
                 /\ born \in BOOLEAN
                 /\ sess \in [Socks -> Session]
                 /\ timers \in SUBSET Timer
                 /\ drops \in SUBSET Drop
                 /\ toggles \in Nat
                 /\ claims \in [Pids -> SUBSET Socks]
  BY DEF TypedState, TypeOK, GoodHash

\* And of the state after a step.
LEMMA NextParts ==
  TypedState' <=> /\ GoodHash(hash')
                  /\ born' \in BOOLEAN
                  /\ sess' \in [Socks -> Session]
                  /\ timers' \in SUBSET Timer
                  /\ drops' \in SUBSET Drop
                  /\ toggles' \in Nat
                  /\ claims' \in [Pids -> SUBSET Socks]
  BY DEF TypedState, TypeOK, GoodHash

\* Cancelling, overtaking and scheduling keep the grace tasks well formed.
LEMMA TimersType ==
  ASSUME TypeOK, NEW i \in Insts, NEW p \in Pids
  PROVE  /\ Cancel(i, p) \in SUBSET Timer
         /\ Overtaken(Cancel(i, p), p) \in SUBSET Timer
         /\ Schedule(i, p) \in SUBSET Timer
<1>1. ASSUME NEW ts \in SUBSET Timer PROVE Overtaken(ts, p) \in SUBSET Timer
  BY DEF Overtaken, Timer
<1>2. Cancel(i, p) \in SUBSET Timer
  BY DEF TypeOK, Cancel
<1>3. [inst |-> i, pid |-> p, due |-> FALSE] \in Timer
  BY DEF Timer
<1> QED
  BY <1>1, <1>2, <1>3 DEF Schedule

\* What connections do keeps the types.
LEMMA SocketTyped ==
  ASSUME TypedState, Placed, NEW s \in Socks, SocketNext(s)
  PROVE  TypedState'
<1> USE Parts, NextParts
<1>0. sess[s] \in Session /\ sess[s].pid \in Pids
  BY DEF Session
<1>1. ASSUME NEW i \in Insts, Open(s, i) PROVE TypedState'
  BY <1>0, <1>1 DEF Open, Session
<1>2. ASSUME NEW a \in Accounts, Auth(s, a) PROVE TypedState'
  BY <1>0, <1>2 DEF Auth, Session, Pids
<1>3. CASE Create(s)
  BY <1>0, <1>3, CreateLuaGood DEF Create, Session
<1>4. CASE Join(s)
  <2> DEFINE h == JoinLua(hash, sess[s].pid)
             x == [sess[s] EXCEPT !.seated = TRUE]
  <2>1. x \in Session
    BY <1>0 DEF Session
  <2>2. AfterPrint(x, h) \in Session
    BY <2>1, AfterPrintType
  <2>3. sess' = [sess EXCEPT ![s] = AfterPrint(x, h)] /\ hash' = h
    BY <1>4 DEF Join
  <2>4. GoodHash(h)
    BY <1>0, JoinLuaGood
  <2> HIDE DEF h, x
  <2> QED
    BY <1>0, <1>4, <2>2, <2>3, <2>4 DEF Join
<1>5. CASE JoinFails(s)
  BY <1>0, <1>5 DEF JoinFails, Session
<1>6. ASSUME NEW p \in Pids, ReconnectRead(s, p) PROVE TypedState'
  BY <1>0, <1>6, TimersType DEF ReconnectRead, At, Placed, Session, Pcs, TypedState
<1>7. CASE ReconnectClaim(s)
  <2> DEFINE h == ClaimConnLua(hash, sess[s].pid)
             g == h.seat[sess[s].pid].gen
             x == [sess[s] EXCEPT !.seq = g]
  <2>1. GoodHash(h) /\ g \in Nat
    BY <1>0, ClaimConnLuaGood DEF Rewrites, GoodHash, Hash, Seat
  <2>2. sess' = [sess EXCEPT ![s] = AfterPrint(x, h)] /\ hash' = h
    BY <1>7 DEF ReconnectClaim
  <2> HIDE DEF h, g
  <2>3. x \in Session
    BY <1>0, <2>1 DEF Session
  <2>4. AfterPrint(x, h) \in Session
    BY <2>3, AfterPrintType
  <2> HIDE DEF x
  <2> QED
    BY <1>0, <1>7, <2>1, <2>2, <2>4 DEF ReconnectClaim
<1>8. CASE StartRead(s)
  BY <1>0, <1>8 DEF StartRead, Goto, Session, Pcs
<1>9. CASE StartCommit(s)
  BY <1>0, <1>9, ControlsGood DEF StartCommit, Goto, Session, Pcs, Rewrites
<1>10. CASE DealRead(s)
  <2>1. Listed(hash) \in SUBSET Pids
    BY DEF Listed, GoodHash, Hash, Entry
  <2> QED
    BY <1>0, <1>10, <2>1 DEF DealRead, Session, Pcs
<1>11. CASE Deal(s)
  <2> DEFINE h == DealWrite(hash, sess[s].todo)
             x == [sess[s] EXCEPT !.todo = {}]
  <2>1. sess[s].todo \in SUBSET Pids /\ x \in Session
    BY <1>0 DEF Session
  <2>2. GoodHash(h)
    BY <2>1, DealWriteGood DEF Rewrites
  <2>3. AfterPrint(x, h) \in Session
    BY <2>1, AfterPrintType
  <2>4. sess' = [sess EXCEPT ![s] = AfterPrint(x, h)] /\ hash' = h
    BY <1>11 DEF Deal
  <2> HIDE DEF h, x
  <2> QED
    BY <1>11, <2>2, <2>3, <2>4 DEF Deal
<1>12. CASE PauseRead(s)
  BY <1>0, <1>12 DEF PauseRead, Goto, Session, Pcs
<1>13. CASE PauseCommit(s)
  BY <1>0, <1>13, ControlsGood, AfterPrintType DEF PauseCommit, Rewrites
<1>14. CASE ResumeCommit(s)
  BY <1>0, <1>14, ControlsGood DEF ResumeCommit, Goto, Session, Pcs, Rewrites
<1>15. CASE ResumeRead(s)
  BY <1>0, <1>15 DEF ResumeRead, Session, Pcs
<1>16. ASSUME NEW p \in Pids, ResumeRestamp(s, p) PROVE TypedState'
  <2>1. sess[s].inst \in Insts
    BY <1>16 DEF ResumeRestamp, At, Placed
  <2>2. Schedule(sess[s].inst, p) \in SUBSET Timer
    BY <2>1, TimersType DEF TypedState
  <2>3. GoodHash(RestampLua(hash, p))
    BY StampGood DEF Rewrites
  <2> QED
    BY <1>0, <1>16, <2>2, <2>3 DEF ResumeRestamp, Session
<1>17. CASE ResumeDone(s)
  BY <1>0, <1>17 DEF ResumeDone, Goto, Session, Pcs
<1>18. CASE EndRead(s)
  BY <1>0, <1>18 DEF EndRead, Session, Pcs
<1>19. CASE EndCommit(s)
  BY <1>0, <1>19, NoHashGood DEF EndCommit, Goto, Session, Pcs
<1>20. CASE Leave(s)
  <2>1. sess[s].inst \in Insts
    BY <1>20 DEF Leave, At, Placed
  <2>2. Overtaken(Cancel(sess[s].inst, sess[s].pid), sess[s].pid) \in SUBSET Timer
    BY <1>0, <2>1, TimersType DEF TypedState
  <2>3. GoodHash(MarkDisconnected(hash, sess[s].pid))
    BY <1>0, MarkDisconnectedGood DEF Rewrites
  <2> QED
    BY <1>0, <1>20, <2>2, <2>3 DEF Leave, Goto, Session, Pcs
<1>21. CASE LeaveDrop(s)
  <2>1. /\ drops' \in SUBSET Drop
        /\ sess' = sess \/ \E raised \in BOOLEAN : sess' = Ended(s, raised)
    BY <1>0, <1>21, DropReadType DEF LeaveDrop, TypedState
  <2>2. sess' \in [Socks -> Session]
    BY <2>1, EndedType DEF TypedState
  <2> QED
    BY <1>21, <2>1, <2>2 DEF LeaveDrop
<1>22. CASE Close(s)
  BY <1>0, <1>22 DEF Close, Session
<1>23. CASE CloseMark(s)
  <2>1. sess[s].inst \in Insts
    BY <1>23 DEF CloseMark, Placed
  <2>2. Schedule(sess[s].inst, sess[s].pid) \in SUBSET Timer
    BY <1>0, <2>1, TimersType DEF TypedState
  <2>3. GoodHash(MarkDisconnected(hash, sess[s].pid))
    BY <1>0, MarkDisconnectedGood DEF Rewrites
  <2>4. NoSession(s, "closed") \in Session
    BY DEF NoSession, Session, Pcs, Pids
  <2>5. claims' \in [Pids -> SUBSET Socks]
    BY <1>0, <1>23 DEF CloseMark
  <2>6. GoodHash(hash') /\ timers' \in SUBSET Timer
    BY <1>23, <2>2, <2>3 DEF CloseMark
  <2>7. sess' \in [Socks -> Session]
    BY <1>23, <2>4 DEF CloseMark
  <2> QED
    BY <1>23, <2>5, <2>6, <2>7 DEF CloseMark
<1> QED
  BY <1>1, <1>2, <1>3, <1>4, <1>5, <1>6, <1>7, <1>8, <1>9, <1>10, <1>11, <1>12, <1>13, <1>14,
     <1>15, <1>16, <1>17, <1>18, <1>19, <1>20, <1>21, <1>22, <1>23 DEF SocketNext

\* What a do_drop call under way does keeps the types.
LEMMA CallTyped ==
  ASSUME TypedState, NEW d \in drops, CallNext(d)
  PROVE  TypedState'
<1> USE Parts, NextParts
<1>0. d \in Drop /\ d.pid \in Pids /\ d.sock \in Socks \cup {None}
      /\ d.heir \in Pids \cup {None} /\ d.st \in {"call", "lua", "give"}
  BY DEF Drop
<1>1. ASSUME NEW raised \in BOOLEAN, Finish(d, raised)
      PROVE  drops' \in SUBSET Drop /\ sess' \in [Socks -> Session]
  BY <1>0, <1>1, EndedType DEF Finish, TypedState
<1>2. CASE ReapDrop(d)
  <2>1. drops \ {d} \in SUBSET Drop
    OBVIOUS
  <2>2. /\ drops' \in SUBSET Drop
        /\ sess' = sess \/ \E raised \in BOOLEAN : sess' = Ended(None, raised)
    BY <1>0, <1>2, <2>1, DropReadType DEF ReapDrop, TypedState
  <2>3. TypeOK /\ None \in Socks \cup {None}
    BY DEF TypedState
  <2>4. \A raised \in BOOLEAN : Ended(None, raised) \in [Socks -> Session]
    BY <2>3, EndedType
  <2>5. sess' \in [Socks -> Session]
    BY <2>2, <2>4
  <2> QED
    BY <1>2, <2>2, <2>5 DEF ReapDrop
<1>3. CASE DropGive(d)
  <2>1. CASE d.heir \in Pids
    <3>1. GoodHash(TransferHost(hash, d.heir))
      BY <2>1, ControlsGood DEF Rewrites
    <3>2. Unprintable(TransferHost(hash, d.heir)) \in BOOLEAN
      BY DEF Unprintable
    <3> QED
      BY <1>1, <1>3, <3>1, <3>2 DEF DropGive
  <2>2. CASE d.heir = None
    <3>1. GoodHash(TransferHost(hash, None))
      BY TouchGood DEF TransferHost, Rewrites, GoodHash, Hash
    <3>2. Unprintable(TransferHost(hash, None)) \in BOOLEAN
      BY DEF Unprintable
    <3> QED
      BY <1>1, <1>3, <2>2, <3>1, <3>2 DEF DropGive
  <2> QED
    BY <1>0, <2>1, <2>2
<1>4. CASE DropRefused(d)
  BY <1>1, <1>4 DEF DropRefused
<1>5. CASE DropFails(d)
  BY <1>1, <1>5 DEF DropFails
<1>6. ASSUME NEW heir \in Pids, DropRemoves(d, heir) PROVE TypedState'
  <2>1. GoodHash(DropLua(hash, d.pid, heir))
    BY <1>0, <1>6, DropLuaGood DEF DropRemoves
  <2>2. Unprintable(DropLua(hash, d.pid, heir)) \in BOOLEAN
    BY DEF Unprintable
  <2>3. claims' \in [Pids -> SUBSET Socks]
    BY <1>6 DEF DropRemoves
  <2> QED
    BY <1>1, <1>6, <2>1, <2>2, <2>3 DEF DropRemoves
<1>7. CASE DropDeletes(d)
  BY <1>1, <1>7, NoHashGood DEF DropDeletes
<1> QED
  BY <1>2, <1>3, <1>4, <1>5, <1>6, <1>7 DEF CallNext

\* So do the tasks, the reapers, time and failures.
LEMMA BackgroundTyped ==
  ASSUME TypedState,
         \/ \E t \in timers : GraceTask(t)
         \/ \E p \in Pids : Reap(p) \/ GraceElapses(p)
         \/ PauseElapses \/ EndPaused
         \/ \E i \in Insts : Crash(i)
  PROVE  TypedState'
<1> USE Parts, NextParts
<1>1. ASSUME NEW t \in timers, GraceTask(t) PROVE TypedState'
  <2>1. t.pid \in Pids
    BY DEF Timer
  <2>2. /\ drops' \in SUBSET Drop
        /\ sess' = sess \/ \E raised \in BOOLEAN : sess' = Ended(None, raised)
    BY <1>1, <2>1, DropReadType DEF GraceTask, TypedState
  <2>3. TypeOK /\ None \in Socks \cup {None}
    BY DEF TypedState
  <2>4. \A raised \in BOOLEAN : Ended(None, raised) \in [Socks -> Session]
    BY <2>3, EndedType
  <2>5. sess' \in [Socks -> Session]
    BY <2>2, <2>4
  <2> QED
    BY <1>1, <2>2, <2>5 DEF GraceTask
<1>2. ASSUME NEW p \in Pids, Reap(p) PROVE TypedState'
  BY <1>2 DEF Reap, Drop
<1>3. ASSUME NEW p \in Pids, GraceElapses(p) PROVE TypedState'
  BY <1>3, StampGood DEF GraceElapses, Rewrites
<1>4. CASE PauseElapses
  BY <1>4 DEF PauseElapses, GoodHash, Hash
<1>5. CASE EndPaused
  BY <1>5, NoHashGood DEF EndPaused
<1>6. ASSUME NEW i \in Insts, Crash(i) PROVE TypedState'
  <2> DEFINE gone == {s \in Socks : sess[s].inst = i}
  <2>1. \A s \in Socks : NoSession(s, "closed") \in Session
    BY DEF NoSession, Session, Pcs, Pids
  <2>2. sess' \in [Socks -> Session]
    BY <1>6, <2>1 DEF Crash
  <2>3. timers' \in SUBSET Timer /\ drops' \in SUBSET Drop
    BY <1>6 DEF Crash
  <2>4. claims' \in [Pids -> SUBSET Socks]
    BY <1>6 DEF Crash
  <2> QED
    BY <1>6, <2>2, <2>3, <2>4 DEF Crash
<1> QED
  BY <1>1, <1>2, <1>3, <1>4, <1>5, <1>6

\* Every step keeps the types.
LEMMA NextTyped ==
  ASSUME TypedState, Placed, Next
  PROVE  TypedState'
  BY SocketTyped, CallTyped, BackgroundTyped DEF Next

-----------------------------------------------------------------------------
(* The other parts of the invariant, under the steps of connections.       *)

\* Owners stay owners when the generations of their seats only grow, nobody
\* claims a seat, and the connections that did stay what they were.
LEMMA OwnersKept ==
  ASSUME IInv, TypedState',
         \A p \in Pids : claims'[p] # {} => hash.seat[p].gen <= hash'.seat[p].gen,
         \A p \in Pids : claims'[p] \subseteq claims[p],
         \A p \in Pids : \A s \in claims'[p] :
           /\ sess'[s].seated = sess[s].seated
           /\ sess'[s].pid = sess[s].pid
           /\ sess'[s].seq = sess[s].seq
           /\ sess'[s].pc # "claim"
  PROVE  ClaimsHeld' /\ OneOwner'
<1>1. ClaimsHeld'
  BY DEF IInv, ClaimsHeld
<1>2. ASSUME NEW p \in Pids, NEW s \in claims'[p]
      PROVE  sess'[s].seq <= hash'.seat[p].gen
  <2>1. s \in Socks /\ s \in claims[p]
    BY DEF IInv, TypeOK
  <2>2. sess[s].seq \in Nat /\ hash.seat[p].gen \in Nat /\ hash'.seat[p].gen \in Nat
    BY <2>1, NextParts DEF IInv, TypeOK, Session, GoodHash, Hash, Seat
  <2>3. sess[s].seq <= hash.seat[p].gen /\ hash.seat[p].gen <= hash'.seat[p].gen
    BY <2>1 DEF IInv, OneOwner
  <2> QED
    BY <2>2, <2>3
<1>3. ASSUME NEW p \in Pids, NEW s \in claims'[p], NEW t \in claims'[p],
             sess'[s].seq = sess'[t].seq
      PROVE  s = t
  BY <1>3 DEF IInv, OneOwner
<1> QED
  BY <1>1, <1>2, <1>3 DEF OneOwner

\* At most, connection s leaves the handler it is in.
Idles(s) ==
  /\ sess'[s].inst = sess[s].inst
  /\ sess'[s].seated = sess[s].seated
  /\ sess'[s].seq = sess[s].seq
  /\ sess'[s].pid = sess[s].pid
  /\ sess'[s].pc = "idle" \/ sess'[s].pc = sess[s].pc
  /\ sess'[s].life = "closing" \/ sess'[s].life = sess[s].life

\* A leaving connection starts its do_drop and waits, or is done with it.
LEMMA LeaveDropEffect ==
  ASSUME TypeOK, NEW s \in Socks, LeaveDrop(s)
  PROVE  /\ Idles(s)
         /\ \A t \in Socks \ {s} : sess'[t] = sess[t]
         /\ \E c \in Drop : c.sock = s /\ c.pid = sess[s].pid /\ drops' \subseteq drops \cup {c}
         /\ sess' = sess \/ drops' = drops
<1>1. /\ sess[s].pid \in Pids /\ s \in Socks \cup {None} /\ drops \in SUBSET Drop
      /\ DropRead(sess[s].pid, s, drops)
  BY DEF LeaveDrop, TypeOK, Session
<1>2. /\ \E c \in Drop : c.sock = s /\ c.pid = sess[s].pid /\ drops' \subseteq drops \cup {c}
      /\ \/ sess' = sess
         \/ drops' = drops /\ \E raised \in BOOLEAN : sess' = Ended(s, raised)
  BY <1>1, DropReadType
<1>3. CASE sess' = sess
  BY <1>2, <1>3 DEF Idles
<1>4. ASSUME drops' = drops, NEW raised \in BOOLEAN, sess' = Ended(s, raised)
      PROVE  Idles(s) /\ \A t \in Socks \ {s} : sess'[t] = sess[t]
  BY <1>1, <1>4, EndedType DEF Idles
<1> QED
  BY <1>2, <1>3, <1>4

\* Connections stay placed, and without a seat hold nothing.
LEMMA SocketSound ==
  ASSUME IInv, TypedState', NEW s \in Socks, SocketNext(s)
  PROVE  Unseated' /\ Placed'
<1> USE DEF IInv
<1>0. /\ sess \in [Socks -> Session] /\ sess' \in [Socks -> Session]
      /\ sess[s] \in Session /\ sess[s].pid \in Pids
  BY NextParts DEF TypeOK, Session
<1>1. ASSUME NEW i \in Insts, Open(s, i) PROVE Unseated' /\ Placed'
  BY <1>0, <1>1 DEF Open, Unseated, Placed, At, Goto, AfterPrint, NoSession, Session
<1>2. ASSUME NEW a \in Accounts, Auth(s, a) PROVE Unseated' /\ Placed'
  BY <1>0, <1>2 DEF Auth, Unseated, Placed, At, Goto, AfterPrint, NoSession, Session
<1>3. CASE Create(s)
  BY <1>0, <1>3 DEF Create, Unseated, Placed, At, Goto, AfterPrint, NoSession, Session
<1>4. CASE Join(s)
  BY <1>0, <1>4 DEF Join, Unseated, Placed, At, Goto, AfterPrint, NoSession, Session
<1>5. CASE JoinFails(s)
  BY <1>0, <1>5 DEF JoinFails, Unseated, Placed, At, Goto, AfterPrint, NoSession, Session
<1>6. ASSUME NEW p \in Pids, ReconnectRead(s, p) PROVE Unseated' /\ Placed'
  BY <1>0, <1>6 DEF ReconnectRead, Unseated, Placed, At, Goto, AfterPrint, NoSession, Session
<1>7. CASE ReconnectClaim(s)
  <2> DEFINE h == ClaimConnLua(hash, sess[s].pid)
             x == [sess[s] EXCEPT !.seq = h.seat[sess[s].pid].gen]
  <2>1. sess' = [sess EXCEPT ![s] = AfterPrint(x, h)]
    BY <1>7 DEF ReconnectClaim
  <2>2. /\ x.seated = sess[s].seated /\ x.inst = sess[s].inst
    BY <1>0 DEF Session
  <2>3. sess[s].seated /\ sess[s].inst \in Insts
    BY <1>7 DEF ReconnectClaim, At, Unseated, Placed
  <2> HIDE DEF h
  <2>4. AfterPrint(x, h).seated /\ AfterPrint(x, h).inst \in Insts
    BY <1>0, <2>2, <2>3 DEF AfterPrint, Session
  <2> HIDE DEF x
  <2> QED
    BY <1>0, <2>1, <2>4 DEF Unseated, Placed
<1>8. CASE StartRead(s)
  BY <1>0, <1>8 DEF StartRead, Unseated, Placed, At, Goto, AfterPrint, NoSession, Session
<1>9. CASE StartCommit(s)
  BY <1>0, <1>9 DEF StartCommit, Unseated, Placed, At, Goto, AfterPrint, NoSession, Session
<1>10. CASE DealRead(s)
  BY <1>0, <1>10 DEF DealRead, Unseated, Placed, At, Goto, AfterPrint, NoSession, Session
<1>11. CASE Deal(s)
  BY <1>0, <1>11 DEF Deal, Unseated, Placed, At, Goto, AfterPrint, NoSession, Session
<1>12. CASE PauseRead(s)
  BY <1>0, <1>12 DEF PauseRead, Unseated, Placed, At, Goto, AfterPrint, NoSession, Session
<1>13. CASE PauseCommit(s)
  BY <1>0, <1>13 DEF PauseCommit, Unseated, Placed, At, Goto, AfterPrint, NoSession, Session
<1>14. CASE ResumeCommit(s)
  BY <1>0, <1>14 DEF ResumeCommit, Unseated, Placed, At, Goto, AfterPrint, NoSession, Session
<1>15. CASE ResumeRead(s)
  BY <1>0, <1>15 DEF ResumeRead, Unseated, Placed, At, Goto, AfterPrint, NoSession, Session
<1>16. ASSUME NEW p \in Pids, ResumeRestamp(s, p) PROVE Unseated' /\ Placed'
  BY <1>0, <1>16 DEF ResumeRestamp, Unseated, Placed, At, Goto, AfterPrint, NoSession, Session
<1>17. CASE ResumeDone(s)
  BY <1>0, <1>17 DEF ResumeDone, Unseated, Placed, At, Goto, AfterPrint, NoSession, Session
<1>18. CASE EndRead(s)
  BY <1>0, <1>18 DEF EndRead, Unseated, Placed, At, Goto, AfterPrint, NoSession, Session
<1>19. CASE EndCommit(s)
  BY <1>0, <1>19 DEF EndCommit, Unseated, Placed, At, Goto, AfterPrint, NoSession, Session
<1>20. CASE Leave(s)
  BY <1>0, <1>20 DEF Leave, Unseated, Placed, At, Goto, AfterPrint, NoSession, Session
<1>21. CASE LeaveDrop(s)
  <2>2. TypeOK
    OBVIOUS
  <2>3. sess[s].seated /\ sess[s].inst \in Insts
    BY <1>21 DEF LeaveDrop, At, Unseated, Placed
  <2> QED
    BY <1>21, <2>2, <2>3, LeaveDropEffect DEF Idles, Unseated, Placed
<1>22. CASE Close(s)
  BY <1>0, <1>22 DEF Close, Unseated, Placed, At, Goto, AfterPrint, NoSession, Session
<1>23. CASE CloseMark(s)
  BY <1>0, <1>23 DEF CloseMark, Unseated, Placed, At, Goto, AfterPrint, NoSession, Session
<1> QED
  BY <1>1, <1>2, <1>3, <1>4, <1>5, <1>6, <1>7, <1>8, <1>9, <1>10, <1>11, <1>12, <1>13, <1>14,
     <1>15, <1>16, <1>17, <1>18, <1>19, <1>20, <1>21, <1>22, <1>23 DEF SocketNext

\* A connection that awaits its do_drop does nothing else meanwhile.
LEMMA SocketCalls ==
  ASSUME IInv, TypedState', NEW s \in Socks, SocketNext(s)
  PROVE  CallsAwaited'
<1> USE DEF IInv
<1>0. /\ sess \in [Socks -> Session] /\ sess' \in [Socks -> Session]
      /\ sess[s] \in Session /\ sess[s].pid \in Pids
  BY NextParts DEF TypeOK, Session
<1>a. \A d \in drops : d.sock # None => d.sock \in Socks
  BY DEF TypeOK, Drop
<1>b. ASSUME ~At(s, "leave"), drops' = drops, \A t \in Socks \ {s} : sess'[t] = sess[t]
      PROVE  CallsAwaited'
  BY <1>a, <1>b DEF CallsAwaited, At
<1>1. ASSUME NEW i \in Insts, Open(s, i) PROVE CallsAwaited'
  BY <1>0, <1>1, <1>b DEF Open, At, Goto
<1>2. ASSUME NEW a \in Accounts, Auth(s, a) PROVE CallsAwaited'
  BY <1>0, <1>2, <1>b DEF Auth, At, Goto
<1>3. CASE Create(s)
  BY <1>0, <1>3, <1>b DEF Create, At, Goto
<1>4. CASE Join(s)
  BY <1>0, <1>4, <1>b DEF Join, At, Goto
<1>5. CASE JoinFails(s)
  BY <1>0, <1>5, <1>b DEF JoinFails, At, Goto
<1>6. ASSUME NEW p \in Pids, ReconnectRead(s, p) PROVE CallsAwaited'
  BY <1>0, <1>6, <1>b DEF ReconnectRead, At, Goto
<1>7. CASE ReconnectClaim(s)
  BY <1>0, <1>7, <1>b DEF ReconnectClaim, At, Goto
<1>8. CASE StartRead(s)
  BY <1>0, <1>8, <1>b DEF StartRead, At, Goto
<1>9. CASE StartCommit(s)
  BY <1>0, <1>9, <1>b DEF StartCommit, At, Goto
<1>10. CASE DealRead(s)
  BY <1>0, <1>10, <1>b DEF DealRead, At, Goto
<1>11. CASE Deal(s)
  BY <1>0, <1>11, <1>b DEF Deal, At, Goto
<1>12. CASE PauseRead(s)
  BY <1>0, <1>12, <1>b DEF PauseRead, At, Goto
<1>13. CASE PauseCommit(s)
  BY <1>0, <1>13, <1>b DEF PauseCommit, At, Goto
<1>14. CASE ResumeCommit(s)
  BY <1>0, <1>14, <1>b DEF ResumeCommit, At, Goto
<1>15. CASE ResumeRead(s)
  BY <1>0, <1>15, <1>b DEF ResumeRead, At, Goto
<1>16. ASSUME NEW p \in Pids, ResumeRestamp(s, p) PROVE CallsAwaited'
  BY <1>0, <1>16, <1>b DEF ResumeRestamp, At, Goto
<1>17. CASE ResumeDone(s)
  BY <1>0, <1>17, <1>b DEF ResumeDone, At, Goto
<1>18. CASE EndRead(s)
  BY <1>0, <1>18, <1>b DEF EndRead, At, Goto
<1>19. CASE EndCommit(s)
  BY <1>0, <1>19, <1>b DEF EndCommit, At, Goto
<1>20. CASE Leave(s)
  BY <1>0, <1>20, <1>b DEF Leave, At, Goto
<1>21. CASE LeaveDrop(s)
  <2>2. TypeOK
    OBVIOUS
  <2>3. \A d \in drops : d.sock # s
    BY <1>21 DEF LeaveDrop
  <2>4. CASE drops' = drops
    BY <1>a, <1>21, <2>2, <2>3, <2>4, LeaveDropEffect DEF Idles, CallsAwaited, At
  <2>5. CASE sess' = sess
    BY <1>a, <1>21, <2>2, <2>5, LeaveDropEffect DEF LeaveDrop, CallsAwaited, At
  <2> QED
    BY <1>21, <2>2, <2>4, <2>5, LeaveDropEffect
<1>22. CASE Close(s)
  BY <1>0, <1>22, <1>b DEF Close, At, Goto
<1>23. CASE CloseMark(s)
  BY <1>0, <1>23, <1>b DEF CloseMark, At, Goto
<1> QED
  BY <1>1, <1>2, <1>3, <1>4, <1>5, <1>6, <1>7, <1>8, <1>9, <1>10, <1>11, <1>12, <1>13, <1>14,
     <1>15, <1>16, <1>17, <1>18, <1>19, <1>20, <1>21, <1>22, <1>23 DEF SocketNext

\* Seats keep their one owner: a claim is a new generation, a join a new tenancy.
LEMMA SocketOwners ==
  ASSUME IInv, TypedState', NEW s \in Socks, SocketNext(s)
  PROVE  ClaimsHeld' /\ OneOwner'
<1> USE DEF IInv
<1>0. /\ sess \in [Socks -> Session] /\ sess' \in [Socks -> Session]
      /\ sess[s] \in Session /\ sess[s].pid \in Pids
  BY NextParts DEF TypeOK, Session
<1>a. GenGrows(hash, hash)
  BY DEF GenGrows, TypeOK, Hash, Seat
<1>b. ASSUME claims' = claims, GenGrows(hash, hash'),
             \A t \in Socks \ {s} : sess'[t] = sess[t],
             sess[s].seated => /\ sess'[s].seated /\ sess'[s].pid = sess[s].pid
                               /\ sess'[s].seq = sess[s].seq
                               /\ sess'[s].pc # "claim" \/ sess'[s].pc = sess[s].pc
      PROVE  ClaimsHeld' /\ OneOwner'
  <2>1. \A p \in Pids : \A t \in claims'[p] :
           /\ sess'[t].seated = sess[t].seated
           /\ sess'[t].pid = sess[t].pid
           /\ sess'[t].seq = sess[t].seq
           /\ sess'[t].pc # "claim"
    <3> SUFFICES ASSUME NEW p \in Pids, NEW t \in claims[p]
                 PROVE  /\ sess'[t].seated = sess[t].seated
                        /\ sess'[t].pid = sess[t].pid
                        /\ sess'[t].seq = sess[t].seq
                        /\ sess'[t].pc # "claim"
      BY <1>b
    <3>1. t \in Socks /\ sess[t].seated /\ sess[t].pc # "claim"
      BY DEF ClaimsHeld, TypeOK
    <3>2. sess[t].seated \in BOOLEAN /\ sess'[t].seated \in BOOLEAN
      BY <1>0, <3>1 DEF Session
    <3> QED
      BY <1>b, <3>1, <3>2
  <2>2. \A p \in Pids : claims'[p] \subseteq claims[p]
    BY <1>b
  <2> QED
    BY <1>b, <2>1, <2>2, OwnersKept DEF GenGrows
<1>1. ASSUME NEW i \in Insts, Open(s, i) PROVE ClaimsHeld' /\ OneOwner'
  BY <1>0, <1>1, <1>a, <1>b DEF Open, At, Goto, Session
<1>2. ASSUME NEW a \in Accounts, Auth(s, a) PROVE ClaimsHeld' /\ OneOwner'
  BY <1>0, <1>2, <1>a, <1>b DEF Auth, At, Goto, Session
<1>3. CASE Create(s)
  <2>1. \A p \in Pids : claims[p] = {}
    BY <1>3 DEF Create, Unborn, ClaimsHeld, TypeOK
  <2>2. claims' = [claims EXCEPT ![sess[s].pid] = {s}]
    BY <1>3 DEF Create
  <2>3. sess'[s].seq = 0 /\ sess'[s].seated /\ sess'[s].pid = sess[s].pid /\ sess'[s].pc = "idle"
    BY <1>0, <1>3 DEF Create, At, Unseated, Session
  <2>4. \A p \in Pids : hash'.seat[p].gen \in Nat
    BY NextParts DEF GoodHash, Hash, Seat
  <2> QED
    BY <1>0, <2>1, <2>2, <2>3, <2>4 DEF TypeOK, ClaimsHeld, OneOwner
<1>4. CASE Join(s)
  <2> DEFINE P == sess[s].pid
             h == JoinLua(hash, P)
             x == [sess[s] EXCEPT !.seated = TRUE]
  <2>1. /\ sess' = [sess EXCEPT ![s] = AfterPrint(x, h)]
        /\ claims' = [claims EXCEPT ![P] = {s}]
        /\ hash' = h
    BY <1>4 DEF Join
  <2>2. x \in Session /\ x.seq = 0 /\ x.seated /\ x.pid = P
    BY <1>0, <1>4 DEF Join, At, Unseated, Session
  <2>3. GenGrows(hash, hash')
    BY <1>0, <2>1, JoinLuaGood DEF TypeOK, GoodHash
  <2> HIDE DEF x, h
  <2>4. sess'[s].seq = 0 /\ sess'[s].seated /\ sess'[s].pid = P /\ sess'[s].pc = "idle"
    BY <1>0, <2>1, <2>2, AfterPrintType
  <2>5. \A p \in Pids : hash'.seat[p].gen \in Nat /\ hash.seat[p].gen \in Nat
                        /\ hash.seat[p].gen <= hash'.seat[p].gen
    BY <2>3, NextParts DEF GoodHash, Hash, Seat, GenGrows, TypeOK
  <2>6. ASSUME NEW p \in Pids, NEW t \in claims'[p], p # P
        PROVE  t # s /\ sess'[t] = sess[t] /\ t \in claims[p] /\ t \in Socks
    <3>1. t \in claims[p] /\ t \in Socks
      BY <2>1, <2>6 DEF TypeOK
    <3>2. ~sess[s].seated
      BY <1>4 DEF Join
    <3> QED
      BY <2>1, <3>1, <3>2 DEF ClaimsHeld, TypeOK
  <2>7. claims'[P] = {s}
    BY <1>0, <2>1 DEF TypeOK
  <2>8. ClaimsHeld'
    BY <2>4, <2>6, <2>7 DEF ClaimsHeld
  <2>9. ASSUME NEW p \in Pids, p # P, NEW t \in claims'[p]
        PROVE  /\ sess'[t].seq <= hash'.seat[p].gen
               /\ \A u \in claims'[p] : sess'[t].seq = sess'[u].seq => t = u
    <3>1. sess[t].seq \in Nat /\ sess[t].seq <= hash.seat[p].gen
      BY <2>6, <2>9 DEF OneOwner, TypeOK, Session
    <3>2. sess'[t].seq <= hash'.seat[p].gen
      BY <2>5, <2>6, <2>9, <3>1
    <3> QED
      BY <2>6, <2>9, <3>2 DEF OneOwner
  <2>10. OneOwner'
    BY <2>4, <2>5, <2>7, <2>9 DEF OneOwner
  <2> QED
    BY <2>8, <2>10
<1>5. CASE JoinFails(s)
  BY <1>0, <1>5, <1>a, <1>b DEF JoinFails, At, Goto, Session
<1>6. ASSUME NEW p \in Pids, ReconnectRead(s, p) PROVE ClaimsHeld' /\ OneOwner'
  BY <1>0, <1>6, <1>a, <1>b DEF ReconnectRead, At, Goto, Session
<1>7. CASE ReconnectClaim(s)
  <2> DEFINE P == sess[s].pid
             h == ClaimConnLua(hash, P)
             g == h.seat[P].gen
             x == [sess[s] EXCEPT !.seq = g]
  <2>1. /\ sess' = [sess EXCEPT ![s] = AfterPrint(x, h)]
        /\ claims' = [claims EXCEPT ![P] = @ \cup {s}]
        /\ hash' = h
    BY <1>7 DEF ReconnectClaim
  <2>2. GenGrows(hash, hash') /\ g = hash.seat[P].gen + 1
    BY <1>0, <2>1, ClaimConnLuaGood DEF TypeOK, GoodHash, Rewrites
  <2>3. \A p \in Pids : hash'.seat[p].gen \in Nat /\ hash.seat[p].gen \in Nat
                        /\ hash.seat[p].gen <= hash'.seat[p].gen
    BY <2>2, NextParts DEF GoodHash, Hash, Seat, GenGrows, TypeOK
  <2>4. hash'.seat[P].gen = g
    BY <2>1
  <2>5. sess[s].seated /\ \A p \in Pids : s \notin claims[p]
    BY <1>7 DEF ReconnectClaim, At, Unseated, ClaimsHeld
  <2> HIDE DEF h, g
  <2>6. x \in Session /\ x.seq = g /\ x.seated /\ x.pid = P
    BY <1>0, <2>2, <2>3, <2>5 DEF Session
  <2> HIDE DEF x
  <2>7. sess'[s].seq = g /\ sess'[s].seated /\ sess'[s].pid = P /\ sess'[s].pc = "idle"
    BY <1>0, <2>1, <2>6, AfterPrintType
  <2>8. ASSUME NEW p \in Pids, NEW t \in claims'[p], t # s
        PROVE  /\ t \in claims[p] /\ t \in Socks /\ sess'[t] = sess[t]
               /\ sess'[t].seq \in Nat /\ sess'[t].seq <= hash.seat[p].gen
    <3>1. t \in claims[p] /\ t \in Socks
      BY <2>1, <2>8 DEF TypeOK
    <3>2. sess'[t] = sess[t]
      BY <1>0, <2>1, <2>8, <3>1
    <3> QED
      BY <3>1, <3>2 DEF OneOwner, TypeOK, Session
  <2>9. ASSUME NEW p \in Pids, s \in claims'[p] PROVE p = P
    BY <2>1, <2>5, <2>9 DEF TypeOK
  <2>10. ClaimsHeld'
    <3> SUFFICES ASSUME NEW p \in Pids, NEW t \in claims'[p]
                 PROVE  sess'[t].seated /\ sess'[t].pid = p /\ sess'[t].pc # "claim"
      BY DEF ClaimsHeld
    <3>1. CASE t = s
      BY <2>7, <2>9, <3>1
    <3>2. CASE t # s
      BY <2>8, <3>2 DEF ClaimsHeld
    <3> QED
      BY <3>1, <3>2
  <2>11. OneOwner'
    <3> SUFFICES ASSUME NEW p \in Pids, NEW t \in claims'[p]
                 PROVE  /\ sess'[t].seq <= hash'.seat[p].gen
                        /\ \A u \in claims'[p] : sess'[t].seq = sess'[u].seq => t = u
      BY DEF OneOwner
    <3>1. sess'[t].seq <= hash'.seat[p].gen
      BY <2>3, <2>4, <2>7, <2>8, <2>9
    <3>2. ASSUME NEW u \in claims'[p], sess'[t].seq = sess'[u].seq PROVE t = u
      <4>1. CASE t = s
        BY <2>2, <2>3, <2>7, <2>8, <2>9, <3>2, <4>1
      <4>2. CASE u = s
        BY <2>2, <2>3, <2>7, <2>8, <2>9, <3>2, <4>2
      <4>3. CASE t # s /\ u # s
        BY <2>8, <3>2, <4>3 DEF OneOwner
      <4> QED
        BY <4>1, <4>2, <4>3
    <3> QED
      BY <3>1, <3>2
  <2> QED
    BY <2>10, <2>11
<1>8. CASE StartRead(s)
  BY <1>0, <1>8, <1>a, <1>b DEF StartRead, At, Goto, Session
<1>9. CASE StartCommit(s)
  <2>1. GenGrows(hash, hash')
    BY <1>0, <1>9, ControlsGood DEF StartCommit, Rewrites, TypeOK, GoodHash, Session
  <2> QED
    BY <1>0, <1>9, <1>b, <2>1, AfterPrintType DEF StartCommit, At, Goto, Session
<1>10. CASE DealRead(s)
  BY <1>0, <1>10, <1>a, <1>b DEF DealRead, At, Goto, Session
<1>11. CASE Deal(s)
  <2> DEFINE h == DealWrite(hash, sess[s].todo)
             x == [sess[s] EXCEPT !.todo = {}]
  <2>1. GenGrows(hash, h)
    BY <1>0, DealWriteGood DEF Rewrites, TypeOK, GoodHash, Session
  <2>2. x \in Session /\ x.seated = sess[s].seated /\ x.pid = sess[s].pid /\ x.seq = sess[s].seq
    BY <1>0 DEF Session
  <2>3. sess' = [sess EXCEPT ![s] = AfterPrint(x, h)] /\ hash' = h /\ claims' = claims
    BY <1>11 DEF Deal
  <2> HIDE DEF h, x
  <2> QED
    BY <1>0, <1>b, <2>1, <2>2, <2>3, AfterPrintType
<1>12. CASE PauseRead(s)
  BY <1>0, <1>12, <1>a, <1>b DEF PauseRead, At, Goto, Session
<1>13. CASE PauseCommit(s)
  <2>1. GenGrows(hash, hash')
    BY <1>0, <1>13, ControlsGood DEF PauseCommit, Rewrites, TypeOK, GoodHash, Session
  <2> QED
    BY <1>0, <1>13, <1>b, <2>1, AfterPrintType DEF PauseCommit, At, Goto, Session
<1>14. CASE ResumeCommit(s)
  <2>1. GenGrows(hash, hash')
    BY <1>0, <1>14, ControlsGood DEF ResumeCommit, Rewrites, TypeOK, GoodHash, Session
  <2> QED
    BY <1>0, <1>14, <1>b, <2>1, AfterPrintType DEF ResumeCommit, At, Goto, Session
<1>15. CASE ResumeRead(s)
  BY <1>0, <1>15, <1>a, <1>b DEF ResumeRead, At, Goto, Session
<1>16. ASSUME NEW p \in Pids, ResumeRestamp(s, p) PROVE ClaimsHeld' /\ OneOwner'
  <2>1. GenGrows(hash, hash')
    BY <1>0, <1>16, StampGood DEF ResumeRestamp, Rewrites, TypeOK, GoodHash, Session
  <2> QED
    BY <1>0, <1>16, <1>b, <2>1, AfterPrintType DEF ResumeRestamp, At, Goto, Session
<1>17. CASE ResumeDone(s)
  BY <1>0, <1>17, <1>a, <1>b DEF ResumeDone, At, Goto, Session
<1>18. CASE EndRead(s)
  BY <1>0, <1>18, <1>a, <1>b DEF EndRead, At, Goto, Session
<1>19. CASE EndCommit(s)
  BY <1>19 DEF EndCommit, ClaimsHeld, OneOwner
<1>20. CASE Leave(s)
  <2>1. GenGrows(hash, hash')
    BY <1>0, <1>20, MarkDisconnectedGood DEF Leave, Rewrites, TypeOK, GoodHash, Session
  <2> QED
    BY <1>0, <1>20, <1>b, <2>1, AfterPrintType DEF Leave, At, Goto, Session
<1>21. CASE LeaveDrop(s)
  <2>1. Idles(s) /\ \A t \in Socks \ {s} : sess'[t] = sess[t]
    BY <1>21, LeaveDropEffect
  <2>2. sess[s].pc = "leave" /\ hash' = hash /\ claims' = claims
    BY <1>21 DEF LeaveDrop, At
  <2>3. GenGrows(hash, hash')
    BY <1>a, <2>2
  <2> QED
    BY <1>b, <2>1, <2>2, <2>3 DEF Idles
<1>22. CASE Close(s)
  BY <1>0, <1>22, <1>a, <1>b DEF Close, At, Goto, Session
<1>23. CASE CloseMark(s)
  <2>1. GenGrows(hash, hash')
    BY <1>0, <1>23, <1>a, MarkDisconnectedGood DEF CloseMark, Rewrites, TypeOK, GoodHash
  <2>2. \A p \in Pids : claims'[p] \subseteq claims[p] /\ s \notin claims'[p]
    BY <1>0, <1>23 DEF CloseMark, ClaimsHeld, TypeOK
  <2>3. \A t \in Socks \ {s} : sess'[t] = sess[t]
    BY <1>0, <1>23 DEF CloseMark
  <2>4. \A p \in Pids : \A t \in claims'[p] :
           /\ sess'[t].seated = sess[t].seated /\ sess'[t].pid = sess[t].pid
           /\ sess'[t].seq = sess[t].seq /\ sess'[t].pc # "claim"
    BY <2>2, <2>3 DEF ClaimsHeld, TypeOK
  <2>5. \A p \in Pids : claims'[p] \subseteq claims[p]
    BY <2>2
  <2> QED
    BY <2>1, <2>4, <2>5, OwnersKept DEF GenGrows
<1> QED
  BY <1>1, <1>2, <1>3, <1>4, <1>5, <1>6, <1>7, <1>8, <1>9, <1>10, <1>11, <1>12, <1>13, <1>14,
     <1>15, <1>16, <1>17, <1>18, <1>19, <1>20, <1>21, <1>22, <1>23 DEF SocketNext

\* A game stays started while paused when a step keeps its phase and its
\* entries, and sends nobody to pause it.
LEMMA PausedKept ==
  ASSUME IInv, SamePhase(hash, hash'), hash'.order = hash.order \/ hash.key = "game",
         \A t \in Socks : sess'[t].pc = "pause" => sess[t].pc = "pause"
  PROVE  PausedStarted'
  BY DEF IInv, PausedStarted, SamePhase

\* A game is born once, has players while it lives, and is paused only once started.
LEMMA SocketPhase ==
  ASSUME IInv, TypedState', NEW s \in Socks, SocketNext(s)
  PROVE  Unborn' /\ PausedStarted'
<1> USE DEF IInv
<1>0. /\ sess \in [Socks -> Session] /\ sess' \in [Socks -> Session]
      /\ sess[s] \in Session /\ sess[s].pid \in Pids
  BY NextParts DEF TypeOK, Session
<1>a. sess[s].seated \/ sess[s].pc # "idle" => born
  BY DEF Unborn, Unseated
<1>b. hash.key # "absent" => born
  BY DEF Unborn, NoHash
<1>c. GoodHash(hash) /\ SamePhase(hash, hash)
  BY DEF TypeOK, GoodHash, SamePhase
<1>d. born /\ born' = born => Unborn'
  BY DEF Unborn
<1>1. ASSUME NEW i \in Insts, Open(s, i) PROVE Unborn' /\ PausedStarted'
  <2>1. \A t \in Socks : sess'[t].pc = "pause" => sess[t].pc = "pause"
    BY <1>0, <1>1 DEF Open, Goto, Session
  <2>2. PausedStarted'
    BY <1>1, <1>c, <2>1, PausedKept DEF Open
  <2> QED
    BY <1>0, <1>1, <1>a, <1>b, <1>d, <2>2 DEF Open, At, Unborn, Session
<1>2. ASSUME NEW a \in Accounts, Auth(s, a) PROVE Unborn' /\ PausedStarted'
  <2>1. \A t \in Socks : sess'[t].pc = "pause" => sess[t].pc = "pause"
    BY <1>0, <1>2 DEF Auth, Goto, Session
  <2>2. PausedStarted'
    BY <1>2, <1>c, <2>1, PausedKept DEF Auth
  <2> QED
    BY <1>0, <1>2, <1>a, <1>b, <1>d, <2>2 DEF Auth, At, Unborn, Session
<1>3. CASE Create(s)
  <2>1. hash'.key = "game" /\ ~hash'.paused /\ born'
    BY <1>3 DEF Create, CreateLua, NoHash
  <2>2. \A t \in Socks : sess'[t].pc = "idle"
    BY <1>0, <1>3 DEF Create, Unborn, Unseated, Session
  <2> QED
    BY <2>1, <2>2 DEF PausedStarted, Unborn
<1>4. CASE Join(s)
  <2>1. SamePhase(hash, hash') /\ hash.key = "game"
    BY <1>0, <1>4, <1>c, PlayersKeepPhase DEF Join, JoinAllowed
  <2>2. \A t \in Socks : sess'[t].pc = "pause" => sess[t].pc = "pause"
    <3> DEFINE x == [sess[s] EXCEPT !.seated = TRUE]
    <3>1. x \in Session
      BY <1>0 DEF Session
    <3> HIDE DEF x
    <3>2. AfterPrint(x, JoinLua(hash, sess[s].pid)).pc = "idle"
      BY <3>1, AfterPrintType
    <3> QED
      BY <1>0, <1>4, <3>2 DEF Join, x
  <2> QED
    BY <1>4, <1>b, <1>d, <2>1, <2>2, PausedKept DEF Join
<1>5. CASE JoinFails(s)
  <2>1. \A t \in Socks : sess'[t].pc = "pause" => sess[t].pc = "pause"
    BY <1>0, <1>5 DEF JoinFails, Goto, Session
  <2>2. PausedStarted'
    BY <1>5, <1>c, <2>1, PausedKept DEF JoinFails
  <2> QED
    BY <1>0, <1>5, <1>a, <1>b, <1>d, <2>2 DEF JoinFails, At, Unborn, Session
<1>6. ASSUME NEW p \in Pids, ReconnectRead(s, p) PROVE Unborn' /\ PausedStarted'
  <2>1. \A t \in Socks : sess'[t].pc = "pause" => sess[t].pc = "pause"
    BY <1>0, <1>6 DEF ReconnectRead, Session
  <2>2. PausedStarted'
    BY <1>6, <1>c, <2>1, PausedKept DEF ReconnectRead
  <2>3. born
    BY <1>6 DEF ReconnectRead, Unborn, NoHash, NoSeat
  <2> QED
    BY <1>6, <1>d, <2>2, <2>3 DEF ReconnectRead
<1>7. CASE ReconnectClaim(s)
  <2>1. SamePhase(hash, hash') /\ hash'.order = hash.order
    BY <1>0, <1>7, <1>c, PlayersKeepPhase, ClaimConnLuaGood DEF ReconnectClaim, Rewrites
  <2>2. \A t \in Socks : sess'[t].pc = "pause" => sess[t].pc = "pause"
    <3> DEFINE h == ClaimConnLua(hash, sess[s].pid)
               x == [sess[s] EXCEPT !.seq = h.seat[sess[s].pid].gen]
    <3>1. h.seat[sess[s].pid].gen \in Nat
      BY <1>0, <1>c, ClaimConnLuaGood DEF Rewrites, GoodHash, Hash, Seat
    <3>2. sess' = [sess EXCEPT ![s] = AfterPrint(x, h)]
      BY <1>7 DEF ReconnectClaim
    <3> HIDE DEF h
    <3>3. x \in Session
      BY <1>0, <3>1 DEF Session
    <3> HIDE DEF x
    <3> QED
      BY <1>0, <3>2, <3>3, AfterPrintType
  <2> QED
    BY <1>7, <1>a, <1>d, <2>1, <2>2, PausedKept DEF ReconnectClaim, At
<1>8. CASE StartRead(s)
  <2>1. \A t \in Socks : sess'[t].pc = "pause" => sess[t].pc = "pause"
    BY <1>0, <1>8 DEF StartRead, Goto, Session
  <2>2. PausedStarted'
    BY <1>8, <1>c, <2>1, PausedKept DEF StartRead
  <2> QED
    BY <1>0, <1>8, <1>a, <1>b, <1>d, <2>2 DEF StartRead, At, Unborn, Session
<1>9. CASE StartCommit(s)
  <2>1. /\ hash'.key = "game" <=> hash.key = "game"
        /\ hash'.started = TRUE
    BY <1>9, <1>c, ControlsPhase DEF StartCommit
  <2>2. hash'.order = hash.order
    BY <1>0, <1>9, <1>c, ControlsGood DEF StartCommit, Rewrites
  <2> QED
    BY <1>0, <1>9, <1>a, <1>d, <2>1, <2>2 DEF StartCommit, PausedStarted, At
<1>10. CASE DealRead(s)
  <2>1. \A t \in Socks : sess'[t].pc = "pause" => sess[t].pc = "pause"
    BY <1>0, <1>10 DEF DealRead, Goto, Session
  <2>2. PausedStarted'
    BY <1>10, <1>c, <2>1, PausedKept DEF DealRead
  <2> QED
    BY <1>0, <1>10, <1>a, <1>b, <1>d, <2>2 DEF DealRead, At, Unborn, Session
<1>11. CASE Deal(s)
  <2> DEFINE h == DealWrite(hash, sess[s].todo)
             x == [sess[s] EXCEPT !.todo = {}]
  <2>1. SamePhase(hash, h) /\ h.order = hash.order
    BY <1>0, <1>c, PlayersKeepPhase, DealWriteGood DEF Rewrites, Session
  <2>2. x \in Session
    BY <1>0 DEF Session
  <2>3. sess' = [sess EXCEPT ![s] = AfterPrint(x, h)] /\ hash' = h
    BY <1>11 DEF Deal
  <2> HIDE DEF h, x
  <2>4. \A t \in Socks : sess'[t].pc = "pause" => sess[t].pc = "pause"
    BY <1>0, <2>2, <2>3, AfterPrintType
  <2> QED
    BY <1>11, <1>a, <1>d, <2>1, <2>3, <2>4, PausedKept DEF Deal, At
<1>12. CASE PauseRead(s)
  <2>1. \A t \in Socks : sess'[t].pc = "pause" => sess[t].pc = "pause" \/ hash.started
    BY <1>0, <1>12 DEF PauseRead, Goto
  <2> QED
    BY <1>12, <1>a, <1>d, <2>1 DEF PauseRead, PausedStarted
<1>13. CASE PauseCommit(s)
  <2>1. /\ hash'.key = "game" <=> hash.key = "game"
        /\ hash'.started = hash.started
    BY <1>13, <1>c, ControlsPhase DEF PauseCommit
  <2>2. hash'.order = hash.order
    BY <1>0, <1>13, <1>c, ControlsGood DEF PauseCommit, Rewrites
  <2>3. \A t \in Socks : sess'[t].pc = "pause" => sess[t].pc = "pause"
    BY <1>0, <1>13, AfterPrintType DEF PauseCommit
  <2> QED
    BY <1>0, <1>13, <1>a, <1>d, <2>1, <2>2, <2>3 DEF PauseCommit, PausedStarted, At
<1>14. CASE ResumeCommit(s)
  <2>1. /\ hash'.key = "game" <=> hash.key = "game"
        /\ hash'.started = hash.started /\ hash'.paused = FALSE
    BY <1>14, <1>c, ControlsPhase DEF ResumeCommit
  <2>2. hash'.order = hash.order
    BY <1>0, <1>14, <1>c, ControlsGood DEF ResumeCommit, Rewrites
  <2> QED
    BY <1>0, <1>14, <1>a, <1>d, <2>1, <2>2 DEF ResumeCommit, Goto, PausedStarted, At
<1>15. CASE ResumeRead(s)
  <2>1. \A t \in Socks : sess'[t].pc = "pause" => sess[t].pc = "pause"
    BY <1>0, <1>15 DEF ResumeRead, Goto, Session
  <2>2. PausedStarted'
    BY <1>15, <1>c, <2>1, PausedKept DEF ResumeRead
  <2> QED
    BY <1>0, <1>15, <1>a, <1>b, <1>d, <2>2 DEF ResumeRead, At, Unborn, Session
<1>16. ASSUME NEW p \in Pids, ResumeRestamp(s, p) PROVE Unborn' /\ PausedStarted'
  <2>1. SamePhase(hash, hash') /\ hash'.order = hash.order
    BY <1>0, <1>16, <1>c, StampGood, PlayersKeepPhase DEF ResumeRestamp, Rewrites, Session
  <2>2. \A t \in Socks : sess'[t].pc = "pause" => sess[t].pc = "pause"
    BY <1>0, <1>16, AfterPrintType DEF ResumeRestamp, Goto, Session
  <2> QED
    BY <1>16, <1>a, <1>d, <2>1, <2>2, PausedKept DEF ResumeRestamp, At
<1>17. CASE ResumeDone(s)
  <2>1. \A t \in Socks : sess'[t].pc = "pause" => sess[t].pc = "pause"
    BY <1>0, <1>17 DEF ResumeDone, Goto, Session
  <2>2. PausedStarted'
    BY <1>17, <1>c, <2>1, PausedKept DEF ResumeDone
  <2> QED
    BY <1>0, <1>17, <1>a, <1>b, <1>d, <2>2 DEF ResumeDone, At, Unborn, Session
<1>18. CASE EndRead(s)
  <2>1. \A t \in Socks : sess'[t].pc = "pause" => sess[t].pc = "pause"
    BY <1>0, <1>18 DEF EndRead, Goto, Session
  <2>2. PausedStarted'
    BY <1>18, <1>c, <2>1, PausedKept DEF EndRead
  <2> QED
    BY <1>0, <1>18, <1>a, <1>b, <1>d, <2>2 DEF EndRead, At, Unborn, Session
<1>19. CASE EndCommit(s)
  BY <1>0, <1>19, <1>a, <1>d DEF EndCommit, PausedStarted, NoHash, At
<1>20. CASE Leave(s)
  <2>1. SamePhase(hash, hash') /\ hash'.order = hash.order
    BY <1>0, <1>20, <1>c, MarkDisconnectedGood, PlayersKeepPhase DEF Leave, Rewrites, Session
  <2>2. \A t \in Socks : sess'[t].pc = "pause" => sess[t].pc = "pause"
    BY <1>0, <1>20, AfterPrintType DEF Leave, Goto, Session
  <2> QED
    BY <1>20, <1>a, <1>d, <2>1, <2>2, PausedKept DEF Leave, At
<1>21. CASE LeaveDrop(s)
  <2>1. \A t \in Socks : sess'[t].pc = "pause" => sess[t].pc = "pause"
    BY <1>21, LeaveDropEffect DEF Idles
  <2> QED
    BY <1>21, <1>a, <1>c, <1>d, <2>1, PausedKept DEF LeaveDrop, At
<1>22. CASE Close(s)
  <2>1. \A t \in Socks : sess'[t].pc = "pause" => sess[t].pc = "pause"
    BY <1>0, <1>22 DEF Close, Goto, Session
  <2>2. PausedStarted'
    BY <1>22, <1>c, <2>1, PausedKept DEF Close
  <2> QED
    BY <1>0, <1>22, <1>a, <1>b, <1>d, <2>2 DEF Close, At, Unborn, Session
<1>23. CASE CloseMark(s)
  <2>1. SamePhase(hash, hash') /\ hash'.order = hash.order
    BY <1>0, <1>23, <1>c, MarkDisconnectedGood, PlayersKeepPhase DEF CloseMark, Rewrites
  <2>2. \A t \in Socks : sess'[t].pc = "pause" => sess[t].pc = "pause"
    BY <1>0, <1>23 DEF CloseMark, NoSession
  <2>3. ~sess[s].seated => Unborn'
    BY <1>0, <1>23 DEF CloseMark, Unborn, NoSession
  <2> QED
    BY <1>23, <1>a, <1>d, <2>1, <2>2, <2>3, PausedKept DEF CloseMark
<1> QED
  BY <1>1, <1>2, <1>3, <1>4, <1>5, <1>6, <1>7, <1>8, <1>9, <1>10, <1>11, <1>12, <1>13, <1>14,
     <1>15, <1>16, <1>17, <1>18, <1>19, <1>20, <1>21, <1>22, <1>23 DEF SocketNext

-----------------------------------------------------------------------------
(* And under the steps of everything else.                                 *)

\* do_drop's first step, wherever it runs: the connection that awaits it may
\* be done with it, nobody else is affected.
LEMMA DropReadEffect ==
  ASSUME TypeOK, NEW p \in Pids, NEW sock \in Socks \cup {None},
         NEW others \in SUBSET Drop, DropRead(p, sock, others)
  PROVE  /\ \A s \in Socks : Idles(s) /\ (s # sock => sess'[s] = sess[s])
         /\ \E c \in Drop : c.sock = sock /\ c.pid = p /\ drops' \subseteq others \cup {c}
         /\ sess' = sess \/ drops' = others
<1>1. /\ \E c \in Drop : c.sock = sock /\ c.pid = p /\ drops' \subseteq others \cup {c}
      /\ \/ sess' = sess
         \/ drops' = others /\ \E raised \in BOOLEAN : sess' = Ended(sock, raised)
  BY DropReadType
<1>2. CASE sess' = sess
  BY <1>1, <1>2 DEF Idles
<1>3. ASSUME drops' = others, NEW raised \in BOOLEAN, sess' = Ended(sock, raised)
      PROVE  \A s \in Socks : Idles(s) /\ (s # sock => sess'[s] = sess[s])
  BY <1>3, EndedType DEF Idles
<1> QED
  BY <1>1, <1>2, <1>3

\* The next step of a call is about its player and its connection.
LEMMA CallEffect ==
  ASSUME TypeOK, NEW d \in drops, CallNext(d)
  PROVE  /\ \A s \in Socks : Idles(s) /\ (s # d.sock => sess'[s] = sess[s])
         /\ \E c \in Drop : /\ c.sock \in {None, d.sock} /\ c.pid = d.pid
                            /\ drops' \subseteq (drops \ {d}) \cup {c}
         /\ sess' = sess \/ drops' = drops \ {d}
         /\ UNCHANGED <<born, timers>>
<1>0. /\ d \in Drop /\ d.pid \in Pids /\ d.sock \in Socks \cup {None}
      /\ drops \ {d} \in SUBSET Drop
  BY DEF TypeOK, Drop
<1>1. CASE ReapDrop(d)
  <2>1. DropRead(d.pid, None, drops \ {d}) /\ None \in Socks \cup {None}
    BY <1>1 DEF ReapDrop
  <2>2. \A s \in Socks : s # None
    BY SeatStoreAssumption
  <2> QED
    BY <1>0, <1>1, <2>1, <2>2, DropReadEffect DEF ReapDrop
<1>2. ASSUME NEW raised \in BOOLEAN, Finish(d, raised), UNCHANGED <<born, timers>>
      PROVE  /\ \A s \in Socks : Idles(s) /\ (s # d.sock => sess'[s] = sess[s])
             /\ drops' = drops \ {d}
  BY <1>0, <1>2, EndedType DEF Finish, Idles
<1>3. \A h : Unprintable(h) \in BOOLEAN
  BY DEF Unprintable
<1>4. CASE ~ReapDrop(d)
  <2>1. \E raised \in BOOLEAN : Finish(d, raised) /\ UNCHANGED <<born, timers>>
    BY <1>3, <1>4 DEF CallNext, DropGive, DropRefused, DropFails, DropRemoves, DropDeletes
  <2> QED
    BY <1>0, <1>2, <2>1
<1> QED
  BY <1>1, <1>4

\* A call that goes on is still awaited by its connection, if by any.
LEMMA CallSound ==
  ASSUME IInv, TypedState', NEW d \in drops, CallNext(d)
  PROVE  Unseated' /\ Placed' /\ CallsAwaited'
<1> USE DEF IInv
<1>1. /\ \A s \in Socks : Idles(s) /\ (s # d.sock => sess'[s] = sess[s])
      /\ sess' = sess \/ drops' = drops \ {d}
  BY CallEffect
<1>2. PICK c \in Drop : /\ c.sock \in {None, d.sock} /\ c.pid = d.pid
                        /\ drops' \subseteq (drops \ {d}) \cup {c}
  BY CallEffect
<1>3. Unseated'
  BY <1>1 DEF Unseated, Idles
<1>4. Placed'
  <2> SUFFICES ASSUME NEW s \in Socks, sess'[s].life \in {"open", "closing"}
               PROVE  sess'[s].inst \in Insts
    BY DEF Placed
  <2>1. CASE s # d.sock
    BY <1>1, <2>1 DEF Placed
  <2>2. CASE s = d.sock
    <3>1. At(s, "leave")
      BY <2>2, SeatStoreAssumption DEF CallsAwaited
    <3> QED
      BY <1>1, <3>1 DEF At, Placed, Idles
  <2> QED
    BY <2>1, <2>2
<1>5. CallsAwaited'
  <2>1. \A e \in drops : e.sock # None => e.sock \in Socks
    BY DEF TypeOK, Drop
  <2>2. \A e \in drops \ {d} : e.sock # None => e.sock # d.sock
    BY DEF CallsAwaited
  <2>3. CASE sess' = sess
    BY <1>2, <2>2, <2>3 DEF CallsAwaited, At
  <2>4. CASE drops' = drops \ {d}
    BY <1>1, <2>1, <2>2, <2>4 DEF CallsAwaited, At
  <2> QED
    BY <1>1, <2>3, <2>4
<1> QED
  BY <1>3, <1>4, <1>5

\* Removing a player ends its tenancy with its generation, and no other's.
LEMMA CallOwners ==
  ASSUME IInv, TypedState', NEW d \in drops, CallNext(d)
  PROVE  ClaimsHeld' /\ OneOwner'
<1> USE DEF IInv
<1>0. /\ d \in Drop /\ d.pid \in Pids /\ d.heir \in Pids \cup {None}
      /\ GoodHash(hash) /\ GenGrows(hash, hash)
  BY DEF TypeOK, Drop, GoodHash, GenGrows, Hash, Seat
<1>1. ASSUME \A p \in Pids : claims'[p] # {} => hash.seat[p].gen <= hash'.seat[p].gen,
             \A p \in Pids : claims'[p] \subseteq claims[p]
      PROVE  ClaimsHeld' /\ OneOwner'
  <2>1. \A s \in Socks : Idles(s)
    BY CallEffect
  <2>2. \A p \in Pids : \A s \in claims'[p] :
          /\ sess'[s].seated = sess[s].seated /\ sess'[s].pid = sess[s].pid
          /\ sess'[s].seq = sess[s].seq /\ sess'[s].pc # "claim"
    BY <1>1, <2>1 DEF Idles, ClaimsHeld, TypeOK
  <2> QED
    BY <1>1, <2>2, OwnersKept
<1>2. ASSUME claims' = claims, GenGrows(hash, hash') PROVE ClaimsHeld' /\ OneOwner'
  BY <1>1, <1>2 DEF GenGrows
<1>3. CASE ReapDrop(d) \/ DropRefused(d) \/ DropFails(d)
  BY <1>0, <1>2, <1>3 DEF ReapDrop, DropRefused, DropFails
<1>4. CASE DropGive(d)
  <2>1. GenGrows(hash, TransferHost(hash, d.heir))
    BY <1>0, TouchGood DEF TransferHost, Rewrites, GenGrows, GoodHash, Hash
  <2> QED
    BY <1>2, <1>4, <2>1 DEF DropGive
<1>5. ASSUME NEW heir \in Pids, DropRemoves(d, heir) PROVE ClaimsHeld' /\ OneOwner'
  <2>1. \A p \in Pids \ {d.pid} : hash'.seat[p] = hash.seat[p]
    BY <1>0, <1>5, DropLuaGood DEF DropRemoves
  <2>2. \A p \in Pids : claims'[p] = IF p = d.pid THEN {} ELSE claims[p]
    BY <1>5 DEF DropRemoves, TypeOK
  <2> QED
    BY <1>0, <1>1, <2>1, <2>2 DEF GenGrows
<1>6. CASE DropDeletes(d)
  BY <1>1, <1>6 DEF DropDeletes
<1> QED
  BY <1>3, <1>4, <1>5, <1>6 DEF CallNext

\* A call only ever hands over, removes or deletes.
LEMMA CallPhase ==
  ASSUME IInv, TypedState', NEW d \in drops, CallNext(d)
  PROVE  Unborn' /\ PausedStarted'
<1> USE DEF IInv
<1>0. /\ d \in Drop /\ d.pid \in Pids /\ d.heir \in Pids \cup {None}
      /\ GoodHash(hash) /\ SamePhase(hash, hash)
  BY DEF TypeOK, Drop, GoodHash, SamePhase
<1>1. Unborn'
  BY CallEffect DEF Unborn
<1>2. \A t \in Socks : sess'[t].pc = "pause" => sess[t].pc = "pause"
  BY CallEffect DEF Idles
<1>3. CASE ReapDrop(d) \/ DropRefused(d) \/ DropFails(d)
  <2>1. hash' = hash
    BY <1>3 DEF ReapDrop, DropRefused, DropFails
  <2> QED
    BY <1>0, <1>1, <1>2, <2>1, PausedKept
<1>4. CASE DropGive(d)
  <2>1. SamePhase(hash, TransferHost(hash, d.heir))
    BY <1>0, PlayersKeepPhase
  <2>2. TransferHost(hash, d.heir).order = hash.order
    BY <1>0, TouchGood DEF TransferHost, Rewrites, GoodHash, Hash
  <2>3. SamePhase(hash, hash') /\ hash'.order = hash.order
    BY <1>4, <2>1, <2>2 DEF DropGive
  <2> QED
    BY <1>1, <1>2, <2>3, PausedKept
<1>5. ASSUME NEW heir \in Pids, DropRemoves(d, heir) PROVE PausedStarted'
  <2>1. SamePhase(hash, hash') /\ hash.key = "game"
    BY <1>0, <1>5, PlayersKeepPhase DEF DropRemoves
  <2> QED
    BY <1>2, <2>1, PausedKept
<1>6. CASE DropDeletes(d)
  BY <1>1, <1>6 DEF DropDeletes, PausedStarted, NoHash
<1> QED
  BY <1>1, <1>3, <1>4, <1>5, <1>6 DEF CallNext

\* What happens in the background takes no seat and gives none back, and the
\* connections a crash leaves alone are as they were.
LEMMA BackgroundSound ==
  ASSUME IInv, TypedState',
         \/ \E t \in timers : GraceTask(t)
         \/ \E p \in Pids : Reap(p) \/ GraceElapses(p)
         \/ PauseElapses \/ EndPaused
         \/ \E i \in Insts : Crash(i)
  PROVE  IInv'
<1> USE DEF IInv
<1>0. /\ GoodHash(hash) /\ GenGrows(hash, hash) /\ SamePhase(hash, hash)
      /\ TypeOK' /\ IsFiniteSet(hash.order)'
  BY DEF TypeOK, GoodHash, GenGrows, Hash, Seat, SamePhase, TypedState
<1>a. \A d \in drops : d.sock # None => d.sock \in Socks
  BY DEF TypeOK, Drop
<1>b. hash.key # "absent" => born
  BY DEF Unborn, NoHash
<1>c. ASSUME sess' = sess, claims' = claims, GenGrows(hash, hash')
      PROVE  Unseated' /\ Placed' /\ ClaimsHeld' /\ OneOwner'
  <2>1. Unseated' /\ Placed'
    BY <1>c DEF Unseated, Placed
  <2>2. \A p \in Pids : \A s \in claims'[p] : sess'[s].pc # "claim"
    BY <1>c DEF ClaimsHeld
  <2> QED
    BY <1>c, <2>1, <2>2, OwnersKept DEF GenGrows
<1>d. ASSUME \E p \in Pids : GraceElapses(p) \/ Reap(p) PROVE born
  BY <1>d, <1>b DEF GraceElapses, Reap, Unborn, NoHash, NoSeat
<1>1. ASSUME NEW t \in timers, GraceTask(t) PROVE IInv'
  <2>1. t.pid \in Pids /\ None \in Socks \cup {None} /\ drops \in SUBSET Drop
        /\ DropRead(t.pid, None, drops)
    BY <1>1 DEF TypeOK, Timer, GraceTask
  <2>2. \A s \in Socks : s # None
    BY SeatStoreAssumption
  <2>3. /\ \A s \in Socks : sess'[s] = sess[s]
        /\ \E c \in Drop : c.sock = None /\ drops' \subseteq drops \cup {c}
    BY <2>1, <2>2, DropReadEffect
  <2>4. sess' = sess
    BY <2>3, NextParts DEF TypeOK
  <2>5. CallsAwaited'
    BY <2>3, <2>4 DEF CallsAwaited, At
  <2>6. Unborn' /\ PausedStarted'
    BY <1>0, <1>1, <2>4, PausedKept DEF GraceTask, Unborn
  <2> QED
    BY <1>0, <1>1, <1>c, <2>4, <2>5, <2>6 DEF GraceTask
<1>2. ASSUME NEW p \in Pids, Reap(p) PROVE IInv'
  <2>1. CallsAwaited'
    BY <1>2 DEF Reap, CallsAwaited, At
  <2>2. Unborn' /\ PausedStarted'
    BY <1>0, <1>2, <1>d, PausedKept DEF Reap, Unborn
  <2> QED
    BY <1>0, <1>2, <1>c, <2>1, <2>2 DEF Reap
<1>3. ASSUME NEW p \in Pids, GraceElapses(p) PROVE IInv'
  <2>1. GenGrows(hash, hash') /\ SamePhase(hash, hash') /\ hash'.order = hash.order
    BY <1>0, <1>3, StampGood, PlayersKeepPhase DEF GraceElapses, Rewrites
  <2>2. CallsAwaited' /\ Unborn' /\ PausedStarted'
    BY <1>3, <1>d, <2>1, PausedKept DEF GraceElapses, CallsAwaited, At, Unborn
  <2> QED
    BY <1>0, <1>3, <1>c, <2>1, <2>2 DEF GraceElapses
<1>4. CASE PauseElapses
  <2>1. GenGrows(hash, hash') /\ SamePhase(hash, hash') /\ hash'.order = hash.order
    BY <1>0, <1>4 DEF PauseElapses, GoodHash, Hash, GenGrows, SamePhase
  <2>2. born
    BY <1>4 DEF PauseElapses, Unborn, NoHash
  <2>3. CallsAwaited' /\ Unborn' /\ PausedStarted'
    BY <1>4, <2>1, <2>2, PausedKept DEF PauseElapses, CallsAwaited, At, Unborn
  <2> QED
    BY <1>0, <1>4, <1>c, <2>1, <2>3 DEF PauseElapses
<1>5. CASE EndPaused
  <2>1. Unseated' /\ Placed' /\ ClaimsHeld' /\ OneOwner' /\ CallsAwaited'
    BY <1>5 DEF EndPaused, Unseated, Placed, ClaimsHeld, OneOwner, CallsAwaited, At
  <2>2. Unborn' /\ PausedStarted'
    BY <1>5, <1>b DEF EndPaused, Unborn, PausedStarted, NoHash
  <2> QED
    BY <1>0, <2>1, <2>2
<1>6. ASSUME NEW i \in Insts, Crash(i) PROVE IInv'
  <2> DEFINE gone == {s \in Socks : sess[s].inst = i}
  <2>1. \A s \in Socks : /\ s \in gone => /\ sess'[s].life = "closed"
                                         /\ ~sess'[s].seated /\ sess'[s].seq = 0
                                         /\ sess'[s].pc = "idle"
                         /\ s \notin gone => sess'[s] = sess[s]
    BY <1>6 DEF Crash, NoSession
  <2>2. /\ \A d \in drops' : d \in drops /\ d.sock \notin gone
        /\ \A p \in Pids : claims'[p] = claims[p] \ gone
        /\ UNCHANGED <<hash, born>>
        /\ timers' \subseteq timers
    BY <1>6 DEF Crash
  <2> HIDE DEF gone
  <2>3. Unseated' /\ Placed'
    BY <2>1 DEF Unseated, Placed
  <2>4. CallsAwaited'
    BY <1>a, <2>1, <2>2 DEF CallsAwaited, At
  <2>5. Unborn'
    BY <2>1, <2>2 DEF Unborn
  <2>6. \A s \in Socks : sess'[s].pc = "pause" => sess[s].pc = "pause"
    BY <2>1
  <2>7. PausedStarted'
    BY <1>0, <2>2, <2>6, PausedKept
  <2>8. \A p \in Pids : \A s \in claims'[p] : sess'[s] = sess[s] /\ sess[s].pc # "claim"
    BY <2>1, <2>2 DEF ClaimsHeld, TypeOK
  <2>9. ClaimsHeld' /\ OneOwner'
    BY <1>0, <2>2, <2>8, OwnersKept DEF GenGrows
  <2> QED
    BY <1>0, <2>3, <2>4, <2>5, <2>7, <2>9
<1> QED
  BY <1>1, <1>2, <1>3, <1>4, <1>5, <1>6

-----------------------------------------------------------------------------
(* The theorems.                                                           *)

\* IInv is inductive.
LEMMA NextInv == IInv /\ [Next]_vars => IInv'
<1> SUFFICES ASSUME IInv, [Next]_vars PROVE IInv'
  OBVIOUS
<1>1. CASE UNCHANGED vars
  BY <1>1 DEF vars, IInv, TypeOK, Unseated, ClaimsHeld, OneOwner, Unborn, PausedStarted,
              CallsAwaited, Placed, At
<1>2. CASE Next
  <2>1. TypedState'
    BY <1>2, NextTyped DEF IInv, TypedState
  <2>2. TypeOK' /\ IsFiniteSet(hash.order)'
    BY <2>1 DEF TypedState
  <2>3. ASSUME NEW s \in Socks, SocketNext(s) PROVE IInv'
    BY <2>1, <2>2, <2>3, SocketSound, SocketCalls, SocketOwners, SocketPhase DEF IInv
  <2>4. ASSUME NEW d \in drops, CallNext(d) PROVE IInv'
    BY <2>1, <2>2, <2>4, CallSound, CallOwners, CallPhase DEF IInv
  <2> QED
    BY <1>2, <2>1, <2>3, <2>4, BackgroundSound DEF Next
<1> QED
  BY <1>1, <1>2

\* Whatever connections, tasks, reapers and crashes do, the state keeps its
\* types and a seat has one owner: no two live claims on it carry the same
\* generation (handle_reconnect's claim, websocket_endpoint's finally).
THEOREM SeatsSafe == Spec => [](TypeOK /\ OneOwner)
<1>1. Init => IInv
  BY InitInv
<1>2. IInv /\ [Next]_vars => IInv'
  BY NextInv
<1>3. IInv => TypeOK /\ OneOwner
  BY DEF IInv
<1> QED
  BY <1>1, <1>2, <1>3, PTL DEF Spec

\* Whatever handlers, tasks, sweeps and crashes leave in the hash, each field stays within
\* what the code reads it as, the records without a name that a late write makes included.
THEOREM SeatsTyped == Spec => []TypeOK
<1>1. TypeOK /\ OneOwner => TypeOK
  OBVIOUS
<1> QED
  BY <1>1, SeatsSafe, PTL

\* A connection that a reconnect has superseded changes nothing when it
\* closes, for any number of connections and in any order of their steps.
THEOREM SupersededCloses == Spec => SupersededCloseIsNoop
<1> DEFINE Quiet == \A p \in Pids : \A s, t \in claims[p] :
                      sess[s].seq < sess[t].seq /\ CloseMark(s) => UNCHANGED hash
<1>1. IInv => Quiet
  <2> SUFFICES ASSUME IInv, NEW p \in Pids, NEW s \in claims[p], NEW t \in claims[p],
                      sess[s].seq < sess[t].seq, CloseMark(s)
               PROVE  UNCHANGED hash
    OBVIOUS
  <2>1. s \in Socks /\ t \in Socks /\ sess[s].pid = p
    BY DEF IInv, TypeOK, ClaimsHeld
  <2>2. sess[s].seq \in Nat /\ sess[t].seq \in Nat /\ hash.seat[p].gen \in Nat
    BY <2>1 DEF IInv, TypeOK, Session, Hash, Seat
  <2>3. sess[t].seq <= hash.seat[p].gen
    BY DEF IInv, OneOwner
  <2>4. hash.seat[p].gen # sess[s].seq
    BY <2>2, <2>3
  <2> QED
    BY <2>1, <2>4 DEF CloseMark, MarkDiscIfCurrent
<1>2. Init => IInv
  BY InitInv
<1>3. IInv /\ [Next]_vars => IInv'
  BY NextInv
<1> QED
  BY <1>1, <1>2, <1>3, PTL DEF Spec, SupersededCloseIsNoop

-----------------------------------------------------------------------------
(* The ledger the game keeps.                                              *)

Frozen == hash.key = "game" /\ hash.paused

LedgerStep == [Ledger!Next]_(Ledger!ledger)

-----------------------------------------------------------------------------
(* What the ledger sees of a step.                                         *)

LEMMA StandingType == \A p \in Pids : Standing(p) \in {"absent", "present", "away", "lapsed"}
  BY DEF Standing

\* Nothing.
LEMMA LedgerStays ==
  ASSUME \A p \in Pids : Standing(p)' = Standing(p), Frozen' <=> Frozen
  PROVE  LedgerStep
<1>1. [p \in Pids |-> Standing(p)]' = [p \in Pids |-> Standing(p)]
  OBVIOUS
<1>2. (hash.key = "game" /\ hash.paused)' = (hash.key = "game" /\ hash.paused)
  BY DEF Frozen
<1> QED
  BY <1>1, <1>2 DEF LedgerStep, Ledger!ledger

\* One player who has a seat and keeps it.
LEMMA LedgerMoves ==
  ASSUME NEW p \in Pids, Frozen' <=> Frozen,
         \A q \in Pids \ {p} : Standing(q)' = Standing(q),
         Standing(p) = "absent" <=> Standing(p)' = "absent"
  PROVE  LedgerStep
<1>1. CASE Standing(p) = "absent"
  BY <1>1, LedgerStays
<1>2. CASE Standing(p) # "absent"
  <2>1. Standing(p)' \in {"absent", "present", "away", "lapsed"}
    BY DEF Standing
  <2>2. [q \in Pids |-> Standing(q)]' =
          [[q \in Pids |-> Standing(q)] EXCEPT ![p] = Standing(p)']
    OBVIOUS
  <2>3. (hash.key = "game" /\ hash.paused)' = (hash.key = "game" /\ hash.paused)
    BY DEF Frozen
  <2>4. Ledger!Move(p, Standing(p)')
    BY <1>2, <2>2, <2>3 DEF Ledger!Move
  <2>5. Standing(p)' \in Ledger!Standing
    BY <2>1 DEF Ledger!Standing
  <2> QED
    BY <2>4, <2>5 DEF LedgerStep, Ledger!Next
<1> QED
  BY <1>1, <1>2

\* One player who takes a seat.
LEMMA LedgerTakes ==
  ASSUME NEW p \in Pids, ~Frozen, ~Frozen',
         \A q \in Pids \ {p} : Standing(q)' = Standing(q), Standing(p)' = "present"
  PROVE  LedgerStep
<1>1. [q \in Pids |-> Standing(q)]' = [[q \in Pids |-> Standing(q)] EXCEPT ![p] = "present"]
  OBVIOUS
<1>2. (hash.key = "game" /\ hash.paused)' = (hash.key = "game" /\ hash.paused)
  BY DEF Frozen
<1>3. Ledger!Take(p)
  BY <1>1, <1>2 DEF Ledger!Take, Frozen
<1> QED
  BY <1>3 DEF LedgerStep, Ledger!Next

\* One player whose seat is taken away.
LEMMA LedgerRemoves ==
  ASSUME NEW p \in Pids, ~Frozen, ~Frozen',
         \A q \in Pids \ {p} : Standing(q)' = Standing(q),
         Standing(p) = "lapsed", Standing(p)' = "absent"
  PROVE  LedgerStep
<1>1. [q \in Pids |-> Standing(q)]' = [[q \in Pids |-> Standing(q)] EXCEPT ![p] = "absent"]
  OBVIOUS
<1>2. (hash.key = "game" /\ hash.paused)' = (hash.key = "game" /\ hash.paused)
  BY DEF Frozen
<1>3. Ledger!Remove(p)
  BY <1>1, <1>2 DEF Ledger!Remove, Frozen
<1> QED
  BY <1>3 DEF LedgerStep, Ledger!Next

\* The pause control.
LEMMA LedgerToggles ==
  ASSUME \A p \in Pids : Standing(p)' = Standing(p)
  PROVE  LedgerStep
<1>1. CASE Frozen' <=> Frozen
  BY <1>1, LedgerStays
<1>2. CASE ~(Frozen' <=> Frozen)
  <2>1. [p \in Pids |-> Standing(p)]' = [p \in Pids |-> Standing(p)]
    OBVIOUS
  <2>2. (hash.key = "game" /\ hash.paused)' = ~(hash.key = "game" /\ hash.paused)
    BY <1>2 DEF Frozen
  <2>3. Ledger!Toggle
    BY <2>1, <2>2 DEF Ledger!Toggle
  <2> QED
    BY <2>3 DEF LedgerStep, Ledger!Next
<1> QED
  BY <1>1, <1>2

\* The end of the game.
LEMMA LedgerDisbands ==
  ASSUME hash' = NoHash
  PROVE  LedgerStep
<1>1. \A p \in Pids : Standing(p)' = "absent"
  BY DEF Standing, Listed, NoHash
<1>2. [p \in Pids |-> Standing(p)]' = [p \in Pids |-> "absent"]
  BY <1>1
<1>3. (hash.key = "game" /\ hash.paused)' = FALSE
  BY DEF NoHash
<1>4. Ledger!Disband
  BY <1>2, <1>3 DEF Ledger!Disband
<1> QED
  BY <1>4 DEF LedgerStep, Ledger!Next

-----------------------------------------------------------------------------
(* What changes a standing.                                                *)

\* The seat's fields, its place in the list, and a leave under way: nothing else.
LEMMA StandingSame ==
  ASSUME NEW p \in Pids, p \in Listed(hash') <=> p \in Listed(hash),
         hash'.seat[p].conn = hash.seat[p].conn, hash'.seat[p].stamp = hash.seat[p].stamp,
         Leaving(p)' <=> Leaving(p)
  PROVE  Standing(p)' = Standing(p)
  BY DEF Standing

LEMMA AbsentSame ==
  ASSUME NEW p \in Pids, p \in Listed(hash') <=> p \in Listed(hash)
  PROVE  Standing(p) = "absent" <=> Standing(p)' = "absent"
  BY DEF Standing

\* A connection that neither leaves nor has been leaving.
LEMMA LeavingSame ==
  ASSUME NEW s \in Socks, \A t \in Socks \ {s} : sess'[t] = sess[t],
         ~At(s, "leave"), ~At(s, "leave")'
  PROVE  \A p \in Pids : Leaving(p)' <=> Leaving(p)
  BY DEF Leaving, At

\* A connection that begins or ends its leave concerns its own player alone.
LEMMA LeavingOther ==
  ASSUME NEW s \in Socks, \A t \in Socks \ {s} : sess'[t] = sess[t],
         sess'[s].pid = sess[s].pid
  PROVE  \A p \in Pids \ {sess[s].pid} : Leaving(p)' <=> Leaving(p)
  BY DEF Leaving, At

\* A step that leaves the hash alone, and nobody's leave begins or ends.
LEMMA HashAlone ==
  ASSUME UNCHANGED hash, \A p \in Pids : Leaving(p)' <=> Leaving(p)
  PROVE  LedgerStep
<1>1. \A p \in Pids : Standing(p)' = Standing(p)
  BY StandingSame
<1> QED
  BY <1>1, LedgerStays DEF Frozen

\* A step that writes to one player's seat, or ends that player's leave.
LEMMA SeatAlone ==
  ASSUME NEW p \in Pids, Frozen' <=> Frozen, Listed(hash') = Listed(hash),
         \A q \in Pids \ {p} : /\ hash'.seat[q].conn = hash.seat[q].conn
                               /\ hash'.seat[q].stamp = hash.seat[q].stamp
                               /\ Leaving(q)' <=> Leaving(q)
  PROVE  LedgerStep
<1>1. \A q \in Pids \ {p} : Standing(q)' = Standing(q)
  BY StandingSame
<1>2. Standing(p) = "absent" <=> Standing(p)' = "absent"
  BY AbsentSame
<1> QED
  BY <1>1, <1>2, LedgerMoves

\* The scripts and pipelines that write to one seat.
LEMMA SeatWrites ==
  ASSUME TypeOK, NEW p \in Pids,
         \/ hash' = ClaimConnLua(hash, p)
         \/ hash' = MarkDisconnected(hash, p)
         \/ hash' = RestampLua(hash, p)
         \/ hash' = [hash EXCEPT !.seat[p].stamp = "past"]
  PROVE  /\ Frozen' <=> Frozen
         /\ Listed(hash') = Listed(hash)
         /\ \A q \in Pids \ {p} : /\ hash'.seat[q].conn = hash.seat[q].conn
                                  /\ hash'.seat[q].stamp = hash.seat[q].stamp
<1>1. hash \in Hash
  BY DEF TypeOK
<1>2. CASE hash' = ClaimConnLua(hash, p)
  BY <1>1, <1>2 DEF ClaimConnLua, TouchSeat, Touch, Frozen, Listed, Hash, Seat
<1>3. CASE hash' = MarkDisconnected(hash, p)
  BY <1>1, <1>3 DEF MarkDisconnected, TouchSeat, Touch, Frozen, Listed, Hash, Seat
<1>4. CASE hash' = RestampLua(hash, p)
  BY <1>1, <1>4 DEF RestampLua, Frozen, Listed, Hash, Seat
<1>5. CASE hash' = [hash EXCEPT !.seat[p].stamp = "past"]
  BY <1>1, <1>5 DEF Frozen, Listed, Hash, Seat
<1> QED
  BY <1>2, <1>3, <1>4, <1>5

\* Those that write to no seat's connection.
LEMMA OtherWrites ==
  ASSUME TypeOK, NEW p, NEW pids \in SUBSET Pids,
         \/ hash' = SetStarted(hash) \/ hash' = DealWrite(hash, pids)
         \/ hash' = TransferHost(hash, p) \/ hash' = SetPaused(hash)
         \/ hash' = SetResumed(hash) \/ hash' = [hash EXCEPT !.deadline = "past"]
  PROVE  /\ Listed(hash') = Listed(hash)
         /\ \A q \in Pids : /\ hash'.seat[q].conn = hash.seat[q].conn
                            /\ hash'.seat[q].stamp = hash.seat[q].stamp
<1>1. hash \in Hash
  BY DEF TypeOK
<1>2. CASE hash' = SetStarted(hash)
  BY <1>1, <1>2 DEF SetStarted, Touch, Listed, Hash
<1>3. CASE hash' = DealWrite(hash, pids)
  <2>1. hash'.order = hash.order
    BY <1>1, <1>3 DEF DealWrite, Touch, Hash
  <2>2. \A q \in Pids : hash'.seat[q] = IF q \in pids /\ hash.seat[q].rec = "none"
                                        THEN [hash.seat[q] EXCEPT !.rec = "bare"]
                                        ELSE hash.seat[q]
    BY <1>1, <1>3 DEF DealWrite, Touch, Hash
  <2>3. \A q \in Pids : hash.seat[q] \in Seat
    BY <1>1 DEF Hash
  <2>4. \A q \in Pids : /\ hash'.seat[q].conn = hash.seat[q].conn
                        /\ hash'.seat[q].stamp = hash.seat[q].stamp
    BY <2>2, <2>3 DEF Seat
  <2> QED
    BY <2>1, <2>4 DEF Listed
<1>4. CASE hash' = TransferHost(hash, p)
  BY <1>1, <1>4 DEF TransferHost, Touch, Listed, Hash
<1>5. CASE hash' = SetPaused(hash)
  BY <1>1, <1>5 DEF SetPaused, Touch, Listed, Hash
<1>6. CASE hash' = SetResumed(hash)
  BY <1>1, <1>6 DEF SetResumed, Touch, Listed, Hash
<1>7. CASE hash' = [hash EXCEPT !.deadline = "past"]
  BY <1>1, <1>7 DEF Listed, Hash
<1> QED
  BY <1>2, <1>3, <1>4, <1>5, <1>6, <1>7

\* Such a step of the server, when nobody's leave begins or ends.
LEMMA NoSeatWritten ==
  ASSUME Listed(hash') = Listed(hash),
         \A q \in Pids : /\ hash'.seat[q].conn = hash.seat[q].conn
                         /\ hash'.seat[q].stamp = hash.seat[q].stamp
                         /\ Leaving(q)' <=> Leaving(q)
  PROVE  LedgerStep
<1>1. \A q \in Pids : Standing(q)' = Standing(q)
  BY StandingSame
<1> QED
  BY <1>1, LedgerToggles

-----------------------------------------------------------------------------
(* The steps of connections.                                               *)

LEMMA CreateLedger ==
  ASSUME IInv, NEW s \in Socks, NEW p \in Pids, p = sess[s].pid, Create(s)
  PROVE  LedgerStep
<1>1. hash = NoHash /\ hash' = CreateLua(p)
  BY DEF IInv, Unborn, Create
<1>2. \A q \in Pids : Standing(q) = "absent"
  BY <1>1 DEF Standing, Listed, NoHash
<1>3. Listed(hash') = {p} /\ hash'.seat[p].conn = "on" /\ ~hash'.paused
  BY <1>1 DEF CreateLua, NoHash, NoSeat, Fresh, Listed
<1>4. \A q \in Pids \ {p} : Standing(q)' = "absent"
  BY <1>3 DEF Standing
<1>5. Standing(p)' = "present"
  BY <1>3 DEF Standing
<1>6. ~Frozen /\ ~Frozen'
  BY <1>1, <1>3 DEF Frozen, NoHash
<1> QED
  BY <1>1, <1>2, <1>4, <1>5, <1>6, LedgerTakes

LEMMA JoinLedger ==
  ASSUME IInv, NEW s \in Socks, NEW p \in Pids, p = sess[s].pid, Join(s)
  PROVE  LedgerStep
<1> DEFINE x == [sess[s] EXCEPT !.seated = TRUE]
<1>1. /\ GoodHash(hash) /\ hash' = JoinLua(hash, p)
      /\ hash.key = "game" /\ ~hash.started
      /\ sess' = [sess EXCEPT ![s] = AfterPrint(x, hash')]
      /\ sess \in [Socks -> Session] /\ sess[s].pc = "idle"
  BY DEF IInv, TypeOK, GoodHash, Join, JoinAllowed, At
<1>2. ~Frozen /\ ~Frozen'
  BY <1>1 DEF IInv, PausedStarted, Frozen, JoinLua, GoodHash, Hash
<1>3. Listed(hash') = Listed(hash) \cup {p}
  BY <1>1, JoinLuaGood
<1>4. /\ hash'.seat[p].conn = "on"
      /\ \A q \in Pids \ {p} : /\ hash'.seat[q].conn = hash.seat[q].conn
                               /\ hash'.seat[q].stamp = hash.seat[q].stamp
  BY <1>1 DEF JoinLua, GoodHash, Hash, Seat
<1>5. \A q \in Pids : Leaving(q)' <=> Leaving(q)
  <2>1. sess'[s].pc = "idle" /\ \A t \in Socks \ {s} : sess'[t] = sess[t]
    BY <1>1 DEF AfterPrint, Session
  <2> QED
    BY <1>1, <2>1, LeavingSame DEF At
<1>6. \A q \in Pids \ {p} : Standing(q)' = Standing(q)
  BY <1>3, <1>4, <1>5, StandingSame
<1>7. Standing(p)' = "present"
  BY <1>3, <1>4 DEF Standing
<1> QED
  BY <1>1, <1>2, <1>6, <1>7, LedgerTakes

\* Connecting, refusals and reads: the hash is left alone, and no leave begins or ends.
LEMMA ReadsLedger ==
  ASSUME IInv, NEW s \in Socks,
         \/ \E a \in Accounts : Auth(s, a)
         \/ \E p \in Pids : ReconnectRead(s, p)
         \/ JoinFails(s) \/ StartRead(s) \/ DealRead(s) \/ PauseRead(s)
         \/ ResumeRead(s) \/ ResumeDone(s) \/ EndRead(s) \/ Close(s)
  PROVE  LedgerStep
<1>1. sess \in [Socks -> Session] /\ sess[s] \in Session
  BY DEF IInv, TypeOK
<1>2. /\ hash' = hash
      /\ \A t \in Socks \ {s} : sess'[t] = sess[t]
      /\ sess[s].pc # "leave" /\ sess'[s].pc # "leave"
  <2>1. ASSUME NEW a \in Accounts, Auth(s, a)
        PROVE  /\ hash' = hash
               /\ \A t \in Socks \ {s} : sess'[t] = sess[t]
               /\ sess[s].pc # "leave" /\ sess'[s].pc # "leave"
    BY <1>1, <2>1 DEF Auth, At, Session
  <2>5. ASSUME NEW p \in Pids, ReconnectRead(s, p)
        PROVE  /\ hash' = hash
               /\ \A t \in Socks \ {s} : sess'[t] = sess[t]
               /\ sess[s].pc # "leave" /\ sess'[s].pc # "leave"
    BY <1>1, <2>5 DEF ReconnectRead, At, Session
  <2>2. CASE JoinFails(s) \/ EndRead(s) \/ Close(s)
    BY <1>1, <2>2 DEF JoinFails, EndRead, Close, At, Session
  <2>3. CASE StartRead(s) \/ DealRead(s) \/ PauseRead(s)
    BY <1>1, <2>3 DEF StartRead, DealRead, PauseRead, At, Goto, Session
  <2>4. CASE ResumeRead(s) \/ ResumeDone(s)
    BY <1>1, <2>4 DEF ResumeRead, ResumeDone, At, Goto, Session
  <2> QED
    BY <2>1, <2>2, <2>3, <2>4, <2>5
<1>3. \A p \in Pids : Leaving(p)' <=> Leaving(p)
  BY <1>2, LeavingSame DEF At
<1> QED
  BY <1>2, <1>3, HashAlone

\* The host's writes, none of them to a seat's connection.
LEMMA ControlsLedger ==
  ASSUME IInv, NEW s \in Socks,
         StartCommit(s) \/ Deal(s) \/ PauseCommit(s) \/ ResumeCommit(s)
  PROVE  LedgerStep
<1>1. sess \in [Socks -> Session] /\ sess[s] \in Session /\ sess[s].todo \in SUBSET Pids
  BY DEF IInv, TypeOK, Session
<1>2. \/ hash' = SetStarted(hash) \/ hash' = DealWrite(hash, sess[s].todo)
      \/ hash' = SetPaused(hash) \/ hash' = SetResumed(hash)
  BY DEF StartCommit, Deal, PauseCommit, ResumeCommit
<1>3. /\ Listed(hash') = Listed(hash)
      /\ \A q \in Pids : /\ hash'.seat[q].conn = hash.seat[q].conn
                         /\ hash'.seat[q].stamp = hash.seat[q].stamp
  BY <1>1, <1>2, OtherWrites DEF IInv
<1>4. /\ \A t \in Socks \ {s} : sess'[t] = sess[t]
      /\ sess[s].pc # "leave" /\ sess'[s].pc # "leave"
  <2>1. CASE StartCommit(s) \/ ResumeCommit(s)
    BY <1>1, <2>1 DEF StartCommit, ResumeCommit, At, Goto, Session
  <2>2. CASE PauseCommit(s)
    BY <1>1, <2>2, AfterPrintType DEF PauseCommit, At
  <2>3. CASE Deal(s)
    <3> DEFINE x == [sess[s] EXCEPT !.todo = {}]
               h == DealWrite(hash, sess[s].todo)
    <3>1. x \in Session
      BY <1>1 DEF Session
    <3>2. sess' = [sess EXCEPT ![s] = AfterPrint(x, h)] /\ sess[s].pc = "dealing"
      BY <2>3 DEF Deal, At
    <3> HIDE DEF x, h
    <3>3. AfterPrint(x, h).pc = "idle"
      BY <3>1, AfterPrintType
    <3> QED
      BY <1>1, <3>2, <3>3
  <2> QED
    BY <2>1, <2>2, <2>3
<1>5. \A q \in Pids : Leaving(q)' <=> Leaving(q)
  BY <1>4, LeavingSame DEF At
<1> QED
  BY <1>3, <1>5, NoSeatWritten

\* The writes to one seat: a reconnect's claim, a resume's new stamp, the mark of a leave
\* or of a close.
LEMMA MarksLedger ==
  ASSUME IInv, NEW s \in Socks, NEW p \in Pids,
         \/ ResumeRestamp(s, p)
         \/ p = sess[s].pid /\ (ReconnectClaim(s) \/ Leave(s) \/ CloseMark(s))
  PROVE  LedgerStep
<1>1. TypeOK /\ sess \in [Socks -> Session] /\ sess[s] \in Session
  BY DEF IInv, TypeOK
<1>2. \/ hash' = ClaimConnLua(hash, p) \/ hash' = MarkDisconnected(hash, p)
      \/ hash' = RestampLua(hash, p) \/ hash' = hash
  BY DEF ResumeRestamp, ReconnectClaim, Leave, CloseMark
<1>3. /\ Frozen' <=> Frozen
      /\ Listed(hash') = Listed(hash)
      /\ \A q \in Pids \ {p} : /\ hash'.seat[q].conn = hash.seat[q].conn
                               /\ hash'.seat[q].stamp = hash.seat[q].stamp
  BY <1>1, <1>2, SeatWrites DEF Frozen
<1>4. \A q \in Pids \ {p} : Leaving(q)' <=> Leaving(q)
  <2>1. \A t \in Socks \ {s} : sess'[t] = sess[t]
    BY <1>1 DEF ResumeRestamp, ReconnectClaim, Leave, CloseMark, Goto
  <2>2. CASE ResumeRestamp(s, p)
    BY <1>1, <2>1, <2>2, LeavingSame DEF ResumeRestamp, At, Session
  <2>3. CASE ReconnectClaim(s)
    <3>1. ~At(s, "leave") /\ ~At(s, "leave")'
      BY <1>1, <2>3 DEF ReconnectClaim, AfterPrint, At, Session
    <3> QED
      BY <2>1, <3>1, LeavingSame
  <2>4. CASE CloseMark(s)
    BY <1>1, <2>1, <2>4, LeavingSame DEF CloseMark, NoSession, At
  <2>5. CASE p = sess[s].pid /\ Leave(s)
    <3>1. sess'[s].pid = sess[s].pid
      BY <1>1, <2>5 DEF Leave, Goto, Session
    <3> QED
      BY <2>1, <2>5, <3>1, LeavingOther
  <2> QED
    BY <2>2, <2>3, <2>4, <2>5
<1> QED
  BY <1>3, <1>4, SeatAlone

LEMMA SocketLedger ==
  ASSUME IInv, NEW s \in Socks, SocketNext(s)
  PROVE  LedgerStep
<1>0. /\ TypeOK /\ sess \in [Socks -> Session]
      /\ sess[s] \in Session /\ sess[s].pid \in Pids
  BY DEF IInv, TypeOK, Session
<1>1. ASSUME NEW i \in Insts, Open(s, i) PROVE LedgerStep
  <2>1. hash' = hash /\ sess'[s].pid = sess[s].pid /\ \A t \in Socks \ {s} : sess'[t] = sess[t]
    BY <1>0, <1>1 DEF Open, Session
  <2>2. \A q \in Pids \ {sess[s].pid} : Leaving(q)' <=> Leaving(q)
    BY <2>1, LeavingOther
  <2> QED
    BY <1>0, <2>1, <2>2, SeatAlone DEF Frozen
<1>2. CASE LeaveDrop(s)
  <2>1. hash' = hash /\ sess'[s].pid = sess[s].pid /\ \A t \in Socks \ {s} : sess'[t] = sess[t]
    BY <1>0, <1>2, LeaveDropEffect DEF LeaveDrop, Idles
  <2>2. \A q \in Pids \ {sess[s].pid} : Leaving(q)' <=> Leaving(q)
    BY <2>1, LeavingOther
  <2> QED
    BY <1>0, <2>1, <2>2, SeatAlone DEF Frozen
<1>3. CASE Create(s) \/ Join(s)
  BY <1>0, <1>3, CreateLedger, JoinLedger
<1>4. CASE EndCommit(s)
  BY <1>4, LedgerDisbands DEF EndCommit
<1>5. CASE ReconnectClaim(s) \/ Leave(s) \/ CloseMark(s)
  BY <1>0, <1>5, MarksLedger
<1>6. ASSUME NEW p \in Pids, ResumeRestamp(s, p) PROVE LedgerStep
  BY <1>6, MarksLedger
<1> QED
  BY <1>1, <1>2, <1>3, <1>4, <1>5, <1>6, ReadsLedger, ControlsLedger DEF SocketNext

-----------------------------------------------------------------------------
(* The steps of calls, tasks, reapers, time and failures.                  *)

\* The script drops a player who may go, and so may the ledger: after its grace, or on its
\* own request, which the leaving connection that awaits this call stands for.
LEMMA RemovesLedger ==
  ASSUME IInv, NEW d \in drops, NEW p \in Pids, p = d.pid, NEW heir \in Pids,
         DropRemoves(d, heir), \A q \in Pids \ {p} : Leaving(q)' <=> Leaving(q)
  PROVE  LedgerStep
<1>1. /\ GoodHash(hash) /\ d \in Drop /\ hash' = DropLua(hash, p, heir)
      /\ hash.key = "game" /\ Kept(hash, p) # {}
      /\ DropAllowed(hash, p, d.sock # None)
  BY DEF IInv, TypeOK, GoodHash, DropRemoves
<1>2. /\ Listed(hash') = Listed(hash) \ {p}
      /\ \A q \in Pids \ {p} : hash'.seat[q] = hash.seat[q]
  BY <1>1, DropLuaGood
<1>3. ~Frozen /\ ~Frozen'
  BY <1>1 DEF Frozen, DropAllowed, DropLua, GoodHash, Hash
<1>4. \A q \in Pids \ {p} : Standing(q)' = Standing(q)
  BY <1>2, StandingSame
<1>5. Standing(p)' = "absent"
  BY <1>2 DEF Standing
<1>6. CASE p \notin Listed(hash)
  <2>1. Standing(p) = "absent"
    BY <1>6 DEF Standing
  <2> QED
    BY <1>3, <1>4, <1>5, <2>1, LedgerMoves
<1>7. CASE p \in Listed(hash)
  <2>1. hash.seat[p].conn = "off" /\ (hash.seat[p].stamp = "past" \/ d.sock # None)
    BY <1>1 DEF DropAllowed
  <2>2. d.sock # None => Leaving(p)
    BY <1>1 DEF IInv, CallsAwaited, Leaving, Drop
  <2>3. Standing(p) = "lapsed"
    BY <1>7, <2>1, <2>2 DEF Standing
  <2> QED
    BY <1>3, <1>4, <1>5, <2>3, LedgerRemoves
<1> QED
  BY <1>6, <1>7

LEMMA CallLedger ==
  ASSUME IInv, NEW d \in drops, CallNext(d)
  PROVE  LedgerStep
<1>0. /\ TypeOK /\ d \in Drop /\ d.pid \in Pids /\ d.sock \in Socks \cup {None}
      /\ sess \in [Socks -> Session]
  BY DEF IInv, TypeOK, Drop
<1>1. \A s \in Socks : sess'[s].pid = sess[s].pid /\ (s # d.sock => sess'[s] = sess[s])
  BY <1>0, CallEffect DEF Idles
<1>2. \A q \in Pids \ {d.pid} : Leaving(q)' <=> Leaving(q)
  <2>1. CASE d.sock = None
    <3>1. \A s \in Socks : sess'[s] = sess[s]
      BY <1>1, <2>1, SeatStoreAssumption
    <3> QED
      BY <3>1 DEF Leaving, At
  <2>2. CASE d.sock \in Socks
    <3>1. sess[d.sock].pid = d.pid
      BY <2>2, SeatStoreAssumption DEF IInv, CallsAwaited
    <3> QED
      BY <1>1, <2>2, <3>1, LeavingOther
  <2> QED
    BY <1>0, <2>1, <2>2
<1>3. CASE ReapDrop(d) \/ DropRefused(d) \/ DropFails(d)
  BY <1>0, <1>2, <1>3, SeatAlone DEF ReapDrop, DropRefused, DropFails, Frozen
<1>4. CASE DropGive(d)
  <2>1. hash' = TransferHost(hash, d.heir)
    BY <1>4 DEF DropGive
  <2>2. Frozen' <=> Frozen
    BY <1>0, <2>1 DEF TransferHost, Touch, Frozen, TypeOK, Hash
  <2>3. /\ Listed(hash') = Listed(hash)
        /\ \A q \in Pids : /\ hash'.seat[q].conn = hash.seat[q].conn
                           /\ hash'.seat[q].stamp = hash.seat[q].stamp
    BY <1>0, <2>1, OtherWrites
  <2> QED
    BY <1>0, <1>2, <2>2, <2>3, SeatAlone
<1>5. ASSUME NEW heir \in Pids, DropRemoves(d, heir) PROVE LedgerStep
  BY <1>0, <1>2, <1>5, RemovesLedger
<1>6. CASE DropDeletes(d)
  BY <1>6, LedgerDisbands DEF DropDeletes
<1> QED
  BY <1>3, <1>4, <1>5, <1>6 DEF CallNext

\* A crash forgets the requests to leave that its connections had made.
LEMMA CrashLedger ==
  ASSUME IInv, NEW i \in Insts, Crash(i)
  PROVE  LedgerStep
<1> DEFINE spared == {p \in Pids : Standing(p)' # Standing(p)}
<1>1. /\ hash' = hash
      /\ \A s \in Socks : sess'[s] = sess[s] \/ sess'[s] = NoSession(s, "closed")
  BY DEF Crash
<1>2. ASSUME NEW p \in Pids, Leaving(p)'
      PROVE  Leaving(p)
  <2>1. PICK s \in Socks : sess'[s].life = "open" /\ sess'[s].pc = "leave" /\ sess'[s].pid = p
    BY <1>2 DEF Leaving, At
  <2>2. NoSession(s, "closed").pc = "idle"
    BY DEF NoSession
  <2>3. sess'[s] = sess[s]
    BY <1>1, <2>1, <2>2
  <2> QED
    BY <2>1, <2>3 DEF Leaving, At
<1>3. \A p \in spared : Standing(p) = "lapsed" /\ Standing(p)' = "away"
  BY <1>1, <1>2 DEF Standing
<1>4. [p \in Pids |-> Standing(p)]' =
        [p \in Pids |-> IF p \in spared THEN "away" ELSE [q \in Pids |-> Standing(q)][p]]
  BY <1>3
<1>5. \A p \in spared : [q \in Pids |-> Standing(q)][p] = "lapsed"
  BY <1>3
<1>6. (hash.key = "game" /\ hash.paused)' = (hash.key = "game" /\ hash.paused)
  BY <1>1
<1> HIDE DEF spared
<1>7. Ledger!Spare(spared)
  BY <1>4, <1>5, <1>6 DEF Ledger!Spare
<1>8. spared \in SUBSET Pids
  BY DEF spared
<1> QED
  BY <1>7, <1>8 DEF LedgerStep, Ledger!Next

LEMMA NextLedger == IInv /\ [Next]_vars => LedgerStep
<1> SUFFICES ASSUME IInv, [Next]_vars PROVE LedgerStep
  OBVIOUS
<1>0. TypeOK
  BY DEF IInv
<1>1. CASE UNCHANGED vars
  <2>1. hash' = hash /\ \A p \in Pids : Leaving(p)' <=> Leaving(p)
    BY <1>1 DEF vars, Leaving, At
  <2> QED
    BY <2>1, HashAlone
<1>2. ASSUME NEW t \in timers, GraceTask(t) PROVE LedgerStep
  <2>1. /\ t.pid \in Pids /\ drops \in SUBSET Drop /\ None \in Socks \cup {None}
        /\ hash' = hash /\ DropRead(t.pid, None, drops)
    BY <1>0, <1>2 DEF TypeOK, Timer, GraceTask
  <2>2. \A s \in Socks : sess'[s] = sess[s]
    BY <1>0, <2>1, DropReadEffect, SeatStoreAssumption
  <2>3. \A p \in Pids : Leaving(p)' <=> Leaving(p)
    BY <2>2 DEF Leaving, At
  <2> QED
    BY <2>1, <2>3, HashAlone
<1>3. ASSUME NEW p \in Pids, Reap(p) PROVE LedgerStep
  <2>1. hash' = hash /\ \A q \in Pids : Leaving(q)' <=> Leaving(q)
    BY <1>3 DEF Reap, Leaving, At
  <2> QED
    BY <2>1, HashAlone
<1>4. ASSUME NEW p \in Pids, GraceElapses(p) PROVE LedgerStep
  <2>1. hash' = [hash EXCEPT !.seat[p].stamp = "past"]
        /\ \A q \in Pids : Leaving(q)' <=> Leaving(q)
    BY <1>4 DEF GraceElapses, Leaving, At
  <2> QED
    BY <1>0, <2>1, SeatWrites, SeatAlone
<1>5. CASE PauseElapses
  <2>1. hash' = [hash EXCEPT !.deadline = "past"]
        /\ \A q \in Pids : Leaving(q)' <=> Leaving(q)
    BY <1>5 DEF PauseElapses, Leaving, At
  <2> QED
    BY <1>0, <2>1, OtherWrites, NoSeatWritten
<1>6. CASE EndPaused
  BY <1>6, LedgerDisbands DEF EndPaused
<1> QED
  BY <1>1, <1>2, <1>3, <1>4, <1>5, <1>6, SocketLedger, CallLedger, CrashLedger DEF Next

\* Whatever connections, tasks, reapers and crashes do, players may rely on the ledger: a
\* seat goes only from one who asked to leave or whose grace has run out, never in a paused
\* game, or with the whole game (_DROP_LUA's checks), and none is taken in a paused game.
THEOREM SeatsKeepLedger == Spec => LedgerSpec
<1>1. Init => Ledger!Init
  <2> SUFFICES ASSUME Init PROVE Ledger!Init
    OBVIOUS
  <2>1. \A p \in Pids : Standing(p) = "absent"
    BY DEF Init, Standing, Listed, NoHash
  <2> QED
    BY <2>1 DEF Init, Ledger!Init, NoHash
<1>2. IInv /\ [Next]_vars => IInv'
  BY NextInv
<1>3. IInv /\ [Next]_vars => [Ledger!Next]_(Ledger!ledger)
  BY NextLedger DEF LedgerStep
<1> QED
  BY <1>1, <1>2, <1>3, InitInv, PTL DEF Spec, LedgerSpec, Ledger!Spec

=============================================================================
