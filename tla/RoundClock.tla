------------------------------ MODULE RoundClock ------------------------------
(***************************************************************************)
(* What the players of a game may rely on about its rounds, with no        *)
(* connections, tasks or dice in sight: a round is open until someone wins *)
(* it, is won once, and is followed by the next one, whose target is one   *)
(* up or one down.  Module Rounds implements it.                           *)
(***************************************************************************)
EXTENDS Integers

VARIABLES num,    \* the round
          over,   \* it has been won
          target  \* the value its dice must show

clock == <<num, over, target>>

Init ==
  /\ num = 1
  /\ over = FALSE
  /\ target = 1

Win ==
  /\ ~over
  /\ over' = TRUE
  /\ UNCHANGED <<num, target>>

Advance ==
  /\ over
  /\ over' = FALSE
  /\ num' = num + 1
  /\ target' \in {target - 1, target + 1} \cap 1..6

Next == Win \/ Advance

Spec == Init /\ [][Next]_clock

===============================================================================
