------------------------------ MODULE SeatLedger ------------------------------
(***************************************************************************)
(* What the players of one game may rely on about their seats, with no     *)
(* connections, tasks or scripts in sight: a seat is lost only by one who  *)
(* asked to leave or whose grace has run out, never while the game is      *)
(* frozen, or with the game itself; and no seat is taken while frozen.     *)
(* Module Seats implements it.                                             *)
(***************************************************************************)
CONSTANT Pids

VARIABLES seat,   \* each player's standing in the game
          frozen  \* the game is paused

ledger == <<seat, frozen>>

(***************************************************************************)
(* present - counted as connected                                          *)
(* away    - not connected, the seat is held                               *)
(* lapsed  - not connected, and the seat may be taken away                 *)
(***************************************************************************)
Standing == {"absent", "present", "away", "lapsed"}

Init ==
  /\ seat = [p \in Pids |-> "absent"]
  /\ frozen = FALSE

Take(p) ==
  /\ ~frozen
  /\ seat' = [seat EXCEPT ![p] = "present"]
  /\ UNCHANGED frozen

\* Go away, come back, run out of grace, be given a new one.
Move(p, standing) ==
  /\ seat[p] # "absent"
  /\ standing # "absent"
  /\ seat' = [seat EXCEPT ![p] = standing]
  /\ UNCHANGED frozen

\* Requests to leave are lost with their instance.
Spare(players) ==
  /\ \A p \in players : seat[p] = "lapsed"
  /\ seat' = [p \in Pids |-> IF p \in players THEN "away" ELSE seat[p]]
  /\ UNCHANGED frozen

Remove(p) ==
  /\ ~frozen
  /\ seat[p] = "lapsed"
  /\ seat' = [seat EXCEPT ![p] = "absent"]
  /\ UNCHANGED frozen

Toggle ==
  /\ frozen' = ~frozen
  /\ UNCHANGED seat

\* The host ends the game, or its pause lasts too long.
Disband ==
  /\ seat' = [p \in Pids |-> "absent"]
  /\ frozen' = FALSE

Next ==
  \/ \E p \in Pids : Take(p)
  \/ \E p \in Pids, standing \in Standing : Move(p, standing)
  \/ \E players \in SUBSET Pids : Spare(players)
  \/ \E p \in Pids : Remove(p)
  \/ Toggle
  \/ Disband

Spec == Init /\ [][Next]_ledger

===============================================================================
