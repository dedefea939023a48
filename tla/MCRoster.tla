------------------------------ MODULE MCRoster ------------------------------
(* Roster for TLC. *)
EXTENDS Roster, TLC

Symmetry == Permutations(Users) \cup Permutations(Teams)
=============================================================================
