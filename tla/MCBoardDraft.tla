---------------------------- MODULE MCBoardDraft ----------------------------
(* BoardDraft for TLC. *)
EXTENDS BoardDraft, TLC

Symmetry == Permutations(Nodes) \cup Permutations(Meanings) \cup Permutations(Extras) \cup Permutations(Admins)
=============================================================================
