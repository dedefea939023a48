----------------------------- MODULE Coalescing -----------------------------
(***************************************************************************)
(* How the events of a burst are held together (broadcastCoalescing): the  *)
(* first of a kind goes out at once, the rest of its window as one. What   *)
(* is here has no state: a table of windows is a function that whoever     *)
(* broadcasts keeps in a variable.                                         *)
(*                                                                         *)
(* An event is [type, bingo, about, names]: `about` is the Team or user    *)
(* its payload is for, `names` the users or submissions it lists. On its   *)
(* way out it has `to`, its listeners' users, or everyone.                 *)
(***************************************************************************)
EXTENDS FiniteSets

CONSTANTS
    Users,
    Bingos,
    Teams,
    None            \* no Bingo, no Team; a window that isn't open or holds nothing

-----------------------------------------------------------------------------
(* COALESCE_RULES *)

\* Sent as they come: a listener uses what they say.
EachTypes == {"stage_changed", "draft_pick", "draft_pick_undone", "bug_report_changed"}

\* Held apart by whom they are about.
KeyedTypes == {"draft_rating_changed", "submission_reactions_changed", "achievements_changed"}

\* What they list adds up.
AddedTypes == {"submission_reviewed", "submission_reactions_changed", "access_changed"}

\* The next wins: clients only refetch.
LatestTypes == {
    "submission_created", "gp_values_updated", "wrapped_published", "draft_started", "draft_order_shuffled",
    "draft_order_set", "draft_rating_changed", "tile_interest_changed", "team_updated", "signup_changed",
    "bingo_changed", "board_draft_changed", "mods_changed", "questions_changed", "superlative_categories_changed",
    "wrapped_art_changed", "audit_appended", "achievements_changed", "superlative_votes_changed",
    "restrictions_changed", "player_renamed"}

EventTypes == EachTypes \cup AddedTypes \cup LatestTypes

Everyone == Users

Events == [
    type : EventTypes, bingo : Bingos \cup {None}, about : Teams \cup Users \cup {None}, names : SUBSET Users,
    to : SUBSET Users]

\* windowKey. A site-wide event is never held.
IsHeld(event) == event.bingo # None /\ event.type \notin EachTypes

WindowKey(event) == <<event.bingo, event.type, IF event.type \in KeyedTypes THEN event.about ELSE None>>

\* Mutation: the next event wins, whatever was held.
MergeLatest(held, next) == [next EXCEPT !.to = held.to \cup next.to]

\* mergeOutgoing: for everyone either of them was for.
Merge(held, next) ==
    [next EXCEPT !.names = IF next.type \in AddedTypes THEN held.names \cup next.names ELSE next.names,
                 !.to = held.to \cup next.to]

-----------------------------------------------------------------------------
(* createCoalescer. A window is shut (None) or open, holding one event or none. *)

Windows == {None} \cup [held : {None} \cup Events]

Empty == [held |-> None]

\* Whether push sends it at once.
GoesOut(windows, out) == ~IsHeld(out) \/ windows[WindowKey(out)] = None

\* The windows after push.
Pushed(windows, out) ==
    IF ~IsHeld(out) THEN windows
    ELSE LET key == WindowKey(out)
         IN  [windows EXCEPT ![key] =
                IF @ = None THEN Empty
                ELSE [held |-> IF @.held = None THEN out ELSE Merge(@.held, out)]]

\* The windows after key's timer: what was held goes out and the next waits for the window after it.
Fired(windows, key) == [windows EXCEPT ![key] = IF @.held = None THEN None ELSE Empty]
=============================================================================
