------------------------------- MODULE Discovery -------------------------------
(***************************************************************************)
(* One game on the radar: the place fields of its hash, its entry in the   *)
(* GEO index and its code in the index of games (gamestore.py), written by *)
(* check-in, check-out, start, drop and deletion, and tidied by the sweep. *)
(*                                                                         *)
(* Every handler is cut where it awaits Redis or the places service.  Any  *)
(* of them may run beside any other: an old socket's handler outlives the  *)
(* socket, and do_drop and the sweep run on instances of their own.        *)
(***************************************************************************)
EXTENDS Integers

CONSTANT MaxHandlers  \* bound: handlers under way at once

ASSUME DiscoveryConstants == MaxHandlers \in Nat

Handlers == 1..MaxHandlers

VARIABLES venue,     \* the three keys
          handlers,  \* handlers under way
          calm       \* ghost: a whole sweep has run since the last other step

discoveryVars == <<venue, handlers, calm>>

\* hash: which groups of fields the game's key has; a hash without fields is no key.
\* "game": what create writes; "started": the flag, once it is 1; "place": the check-in.
\* found: what the handler has read.
DiscoveryInit ==
  /\ venue = [hash |-> {"game"}, listed |-> TRUE, blip |-> FALSE]
  /\ handlers = [h \in Handlers |-> [pc |-> "idle", found |-> FALSE]]
  /\ calm = "no"

DiscoveryTypeOK ==
  /\ venue \in [hash : SUBSET {"game", "started", "place"}, listed : BOOLEAN, blip : BOOLEAN]
  /\ handlers \in [Handlers -> [pc : {"idle", "resolve", "clear", "start", "drop", "read", "write",
                                      "delete", "unplot", "members", "exists", "prune"},
                                found : BOOLEAN]]
  /\ calm \in {"no", "sweep", "yes"}

Step(h, from, to, found) ==
  /\ handlers[h].pc = from
  /\ handlers' = [handlers EXCEPT ![h] = [pc |-> to, found |-> found]]

Goes(h, from, to) == Step(h, from, to, FALSE)

InLobby(hash) == "game" \in hash /\ "started" \notin hash

\* Mutant: the index keeps the code.
DeletedListed == [venue EXCEPT !.hash = {}, !.blip = FALSE]

Deleted == [venue EXCEPT !.hash = {}, !.listed = FALSE, !.blip = FALSE]

-----------------------------------------------------------------------------
(* The host's handlers.                                                    *)

\* handle_checkin: the guard, and then the places service.
CheckIn(h) ==
  /\ InLobby(venue.hash)
  /\ Goes(h, "idle", "resolve") /\ UNCHANGED venue

\* The service answers, with a place or without; set_place writes whatever is there now.
Resolved(h) ==
  \/ Goes(h, "resolve", "idle") /\ UNCHANGED venue
  \/ Goes(h, "resolve", "read") /\ venue' = [venue EXCEPT !.hash = @ \cup {"place"}]

\* handle_stop_broadcast.
StopBroadcast(h) ==
  /\ "game" \in venue.hash
  /\ Goes(h, "idle", "clear") /\ UNCHANGED venue

StartGame(h) ==
  /\ InLobby(venue.hash)
  /\ Goes(h, "idle", "start") /\ UNCHANGED venue

\* handle_start goes on to checkout_game.
Started(h) ==
  /\ Goes(h, "start", "clear")
  /\ venue' = [venue EXCEPT !.hash = @ \cup {"started"}]

\* clear_place; a hash that loses its last field is gone.
ClearPlace(h) ==
  /\ Goes(h, "clear", "read")
  /\ venue' = [venue EXCEPT !.hash = @ \ {"place"}]

\* _recompute_geo reads the place and then writes the entry.
RecomputeRead(h) ==
  /\ Step(h, "read", "write", "place" \in venue.hash) /\ UNCHANGED venue

RecomputeWrite(h) ==
  /\ Goes(h, "write", "idle")
  /\ venue' = [venue EXCEPT !.blip = handlers[h].found]

\* do_drop of a host or of the last player: the check-in is read first, for after.
DropHost(h) ==
  /\ "game" \in venue.hash
  /\ Step(h, "idle", "drop", "place" \in venue.hash) /\ UNCHANGED venue

Drops(h) ==
  \/ Goes(h, "drop", "idle") /\ UNCHANGED venue
  \/ /\ "game" \in venue.hash
     /\ Goes(h, "drop", IF handlers[h].found THEN "clear" ELSE "idle") /\ UNCHANGED venue
  \/ "game" \in venue.hash /\ Goes(h, "drop", "idle") /\ venue' = Deleted

\* handle_end_game of the host, and _END_PAUSED_LUA, which leaves the GEO index alone.
EndsStarted ==
  /\ {"game", "started"} \subseteq venue.hash
  /\ venue' \in {Deleted, [Deleted EXCEPT !.blip = venue.blip]}
  /\ UNCHANGED handlers

\* The hash outlives GAME_TTL; a key that only a late check-in has written has none.
ExpireHash ==
  /\ venue.hash \cap {"game", "started"} # {}
  /\ venue' = [venue EXCEPT !.hash = {}]
  /\ UNCHANGED handlers

-----------------------------------------------------------------------------
(* _sweep, as far as this game goes: the snapshot of a code in the index,  *)
(* and prune_orphan_geo.                                                   *)

\* Mutant: entries of started games are left to the handlers.
SweepForGone == IF venue.listed /\ venue.hash = {} THEN "delete" ELSE "members"

SweepFor == CASE venue.listed /\ venue.hash = {} -> "delete"
              [] venue.listed /\ "started" \in venue.hash -> "unplot"
              [] OTHER -> "members"

Sweep(h) == Goes(h, "idle", SweepFor) /\ UNCHANGED venue

\* delete_game for a code without a hash.
DeleteGone(h) == Goes(h, "delete", "members") /\ venue' = Deleted

\* geo_remove for a started game.
Unplot(h) == Goes(h, "unplot", "members") /\ venue' = [venue EXCEPT !.blip = FALSE]

Members(h) == Goes(h, "members", IF venue.blip THEN "exists" ELSE "idle") /\ UNCHANGED venue

Exists(h) == Goes(h, "exists", IF venue.hash = {} THEN "prune" ELSE "idle") /\ UNCHANGED venue

Prune(h) == Goes(h, "prune", "idle") /\ venue' = [venue EXCEPT !.blip = FALSE]

-----------------------------------------------------------------------------

\* An instance dies with a handler under way.
HandlerDies(h) == handlers[h].pc # "idle" /\ Goes(h, handlers[h].pc, "idle") /\ UNCHANGED venue

HandlerStep(h) ==
  \/ CheckIn(h) \/ Resolved(h) \/ StopBroadcast(h) \/ StartGame(h) \/ Started(h)
  \/ ClearPlace(h) \/ RecomputeRead(h) \/ RecomputeWrite(h) \/ DropHost(h) \/ Drops(h)
  \/ HandlerDies(h)

SweepStep(h) ==
  Sweep(h) \/ DeleteGone(h) \/ Unplot(h) \/ Members(h) \/ Exists(h) \/ Prune(h)

Alone(h) == \A g \in Handlers \ {h} : handlers[g].pc = "idle"

DiscoveryNext ==
  \/ (EndsStarted \/ ExpireHash \/ \E h \in Handlers : HandlerStep(h)) /\ calm' = "no"
  \/ \E h \in Handlers :
       /\ SweepStep(h)
       /\ calm' = IF ~Alone(h) THEN "no"
                  ELSE IF handlers[h].pc = "idle" THEN "sweep"
                  ELSE IF handlers'[h].pc = "idle" /\ calm = "sweep" THEN "yes"
                  ELSE calm

DiscoverySpec == DiscoveryInit /\ [][DiscoveryNext]_discoveryVars

-----------------------------------------------------------------------------
(* Properties.  A late check-in may re-create the key of a deleted game    *)
(* with nothing but place fields; nothing tidies that away.                *)

Revived == venue.hash # {} /\ "game" \notin venue.hash

\* Whatever raced or crashed: after one undisturbed sweep an entry of the radar stands
\* for a game that can still be joined.
RadarSettles == calm = "yes" /\ venue.blip => InLobby(venue.hash) \/ Revived

\* And a code that counts against MAX_GAMES stands for a game.
IndexSettles == calm = "yes" /\ venue.listed => "game" \in venue.hash \/ Revived

===============================================================================
