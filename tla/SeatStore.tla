------------------------------ MODULE SeatStore ------------------------------
(***************************************************************************)
(* The seat half of one game's Redis hash, and the scripts and pipelines   *)
(* of server/gamestore.py that write it.  Redis runs each of them          *)
(* atomically, so each is one operator from a hash to a hash; everything a *)
(* handler does between two of them interleaves (module Seats).            *)
(*                                                                         *)
(* The JSON array "order" is a set of numbered entries, renumbered when    *)
(* one is removed: the array's positions and nothing else.  A player who   *)
(* joins twice is listed twice, as in the array.                           *)
(*                                                                         *)
(* Time is two-valued: a stamp is "fresh" until DISCONNECT_GRACE has gone  *)
(* by and "past" afterwards; the pause deadline is "ahead" or "past".      *)
(***************************************************************************)
EXTENDS Naturals, FiniteSets

CONSTANTS Socks,      \* the connections the run can see, each used once
          Accounts,   \* account ids, which several connections may carry
          None        \* no player, no socket, a null or absent field

ASSUME SeatStoreAssumption ==
  /\ None \notin Socks \cup Accounts
  /\ IsFiniteSet(Socks)

(***************************************************************************)
(* A socket that is not signed in is its own player: Session draws a fresh *)
(* uuid per connection.                                                    *)
(***************************************************************************)
Pids == Socks \cup Accounts

Entry == [at : Nat, pid : Pids]

(***************************************************************************)
(* rec  - the p:{pid}:* fields: none, with a name, or others but no name   *)
(* conn - p:{pid}:disconnected: absent, 0 ("on") or 1 ("off")              *)
(* gen  - p:{pid}:conn_seq, 0 when absent                                  *)
(***************************************************************************)
Seat == [rec : {"none", "named", "bare"}, conn : {"none", "on", "off"},
         stamp : {"none", "fresh", "past"}, gen : Nat]

(***************************************************************************)
(* key - "game" between create and delete; "bare" when some late HSET has  *)
(* re-created the key of a deleted game, with that write's fields only.    *)
(***************************************************************************)
Hash == [key : {"absent", "game", "bare"}, order : SUBSET Entry,
         host : Pids \cup {None}, started : BOOLEAN, paused : BOOLEAN,
         deadline : {"none", "ahead", "past"}, seat : [Pids -> Seat]]

NoSeat == [rec |-> "none", conn |-> "none", stamp |-> "none", gen |-> 0]

NoHash == [key |-> "absent", order |-> {}, host |-> None, started |-> FALSE,
           paused |-> FALSE, deadline |-> "none",
           seat |-> [p \in Pids |-> NoSeat]]

-----------------------------------------------------------------------------
(* Reading a hash.                                                         *)

Listed(h) == {e.pid : e \in h.order}

\* The players dict of snapshot(): the listed ones, then any with a field.
Players(h) == Listed(h) \cup {p \in Pids : h.seat[p].rec # "none"}

\* The pid of the first of these entries.
Firsts(entries) == {e.pid : e \in {f \in entries : \A g \in entries : f.at <= g.at}}

\* state_msg() raises KeyError: no "host" or no "target" in the hash, or a
\* player without a "name".
Unprintable(h) ==
  \/ h.key = "bare"
  \/ \E p \in Players(h) : h.seat[p].rec # "named"

\* A plain HSET or HINCRBY creates the key when it is not there.
Touch(h) == IF h.key = "absent" THEN [h EXCEPT !.key = "bare"] ELSE h

\* The same, on the fields of one player.
TouchSeat(h, p) ==
  IF h.seat[p].rec = "none" THEN [Touch(h) EXCEPT !.seat[p].rec = "bare"] ELSE Touch(h)

-----------------------------------------------------------------------------
(* Writing it.                                                             *)

Fresh == [rec |-> "named", conn |-> "on", stamp |-> "none", gen |-> 0]

CreateLua(p) ==
  [NoHash EXCEPT !.key = "game", !.order = {[at |-> 1, pid |-> p]}, !.host = p,
                 !.seat[p] = Fresh]

\* Guarded by JoinAllowed.  HSET overwrites what JOIN names and nothing else:
\* conn_seq and a stale disconnected_at_ms survive.
JoinAllowed(h, cap) == h.key = "game" /\ ~h.started /\ Cardinality(h.order) < cap

JoinLua(h, p) ==
  [h EXCEPT !.order = @ \cup {[at |-> Cardinality(@) + 1, pid |-> p]},
            !.seat[p].rec = "named", !.seat[p].conn = "on"]

\* Mutant: a claim that keeps the generation.
ClaimConnLuaSameGen(h, p) ==
  [TouchSeat(h, p) EXCEPT !.seat[p].conn = "on", !.seat[p].stamp = "none"]

ClaimConnLua(h, p) ==
  [TouchSeat(h, p) EXCEPT !.seat[p].gen = @ + 1, !.seat[p].conn = "on",
                          !.seat[p].stamp = "none"]

\* Mutant: a mark without its stamp.
MarkDisconnectedUnstamped(h, p) ==
  [TouchSeat(h, p) EXCEPT !.seat[p].conn = "off", !.seat[p].stamp = "none"]

MarkDisconnected(h, p) ==
  [TouchSeat(h, p) EXCEPT !.seat[p].conn = "off", !.seat[p].stamp = "fresh"]

\* Mutant: any generation may mark.
MarkDiscIfAny(h, p, seq) ==
  /\ h.seat[p].rec = "named"
  /\ h.seat[p].conn # "off"

MarkDiscIfCurrent(h, p, seq) ==
  /\ h.seat[p].rec = "named"
  /\ h.seat[p].conn # "off"
  /\ h.seat[p].gen = seq

RestampLua(h, p) ==
  IF h.seat[p].conn = "off" THEN [h EXCEPT !.seat[p].stamp = "fresh"] ELSE h

\* Mutant: a pause does not hold the seats.
DropAllowedPaused(h, p, graceless) ==
  /\ h.key # "absent"
  /\ h.seat[p].conn = "off"
  /\ h.seat[p].stamp # "none"
  /\ graceless \/ h.seat[p].stamp = "past"

\* What _DROP_LUA checks before it removes anything.
DropAllowed(h, p, graceless) ==
  /\ h.key # "absent"
  /\ ~h.paused
  /\ h.seat[p].conn = "off"
  /\ h.seat[p].stamp # "none"
  /\ graceless \/ h.seat[p].stamp = "past"

Kept(h, p) == {e \in h.order : e.pid # p}

Renumbered(entries) ==
  {[at |-> Cardinality({f \in entries : f.at <= e.at}), pid |-> e.pid] : e \in entries}

\* heir is kept[1]: an element of Firsts(Kept(h, p)).
DropLua(h, p, heir) ==
  IF Kept(h, p) = {} THEN NoHash
  ELSE [h EXCEPT !.order = Renumbered(Kept(h, p)), !.seat[p] = NoSeat,
                 !.host = IF @ = p THEN heir ELSE @]

SetPaused(h) == [Touch(h) EXCEPT !.paused = TRUE, !.deadline = "ahead"]

SetResumed(h) == [Touch(h) EXCEPT !.paused = FALSE, !.deadline = "none"]

EndPausedAllowed(h) == h.paused /\ h.deadline = "past"

TransferHost(h, p) == [Touch(h) EXCEPT !.host = p]

SetStarted(h) == [Touch(h) EXCEPT !.started = TRUE]

\* deal() writes dice for the pids it read from "order" a moment ago.
DealWrite(h, pids) ==
  [Touch(h) EXCEPT !.seat = [p \in Pids |->
     IF p \in pids /\ @[p].rec = "none" THEN [@[p] EXCEPT !.rec = "bare"] ELSE @[p]]]

=============================================================================
