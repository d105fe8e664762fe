--------------------------- MODULE MCPointsService ---------------------------
(* PointsService for TLC. *)
EXTENDS PointsService, TLC

Symmetry == Permutations(Users) \cup Permutations(Jobs) \cup Permutations(Slots)
=============================================================================
