----------------------------- MODULE MCRollClient -----------------------------
(***************************************************************************)
(* RollClient for TLC.                                                     *)
(***************************************************************************)
EXTENDS RollClient, TLC

\* Bound: only in the first round does a roll come after another player's win.
TooLate == game.over = "won" /\ game'.snap.rolls > game.snap.rolls
MCNext == Next /\ (TooLate => game.snap.round = 1)

MCSpec == Init /\ [][MCNext]_vars /\ WF_vars(Timers)

===============================================================================
