------------------------------- MODULE MCRounds -------------------------------
(***************************************************************************)
(* Rounds for TLC: a host h and a guest g with one connection each.        *)
(***************************************************************************)
EXTENDS Rounds, TLC

CONSTANTS ch, cg, h, g

OwnerPairs == (ch :> h) @@ (cg :> g)

\* The target of a round over three waves, against the README's count.
ASSUME \A n \in 1..10 :
         /\ TargetForRound(n) = (<<1, 2, 3, 4, 5, 6, 5, 4, 3, 2>>)[n]
         /\ TargetForRound(n + 10) = TargetForRound(n)

===============================================================================
