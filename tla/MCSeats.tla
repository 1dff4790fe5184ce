------------------------------- MODULE MCSeats -------------------------------
(***************************************************************************)
(* Seats for TLC.  Connections are interchangeable and so are instances:   *)
(* no definition tells one from another, and an entry of "order" holds its *)
(* position itself.  Runs with liveness properties use no symmetry.        *)
(***************************************************************************)
EXTENDS Seats, TLC

CONSTANTS s1, s2, s3, a, i1, i2

Symmetry == Permutations(Socks) \cup Permutations(Insts)

=============================================================================
