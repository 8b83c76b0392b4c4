----------------------------- MODULE MCSeating -----------------------------
(* Seating at the real number of seats, for one player more than fit. *)
EXTENDS Seating, TLC

CONSTANTS p1, p2, p3, p4, p5

MCPlayers == {p1, p2, p3, p4, p5}
PlayerSymmetry == Permutations(MCPlayers)
=============================================================================
