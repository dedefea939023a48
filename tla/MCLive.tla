------------------------------- MODULE MCLive -------------------------------
(* LiveUpdates for TLC. *)
EXTENDS LiveUpdates, TLC

CONSTANTS u1, u2, b1, b2, k1

\* A Bingo to watch besides the one that changes, and two users, one with a tab: what is for u2 alone must not hide what is for u1.
MCOccurring ==
    LET Event(type, bingo, about, names, to) == [type |-> type, bingo |-> bingo, about |-> about, names |-> names, to |-> to]
    IN  {Event("access_changed", b1, None, {u}, Users) : u \in Users}
        \cup {Event("draft_rating_changed", b1, k1, {}, {u}) : u \in Users}
=============================================================================
