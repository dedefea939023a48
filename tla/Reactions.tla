----------------------------- MODULE Reactions ------------------------------
(***************************************************************************)
(* Reactions to a Team's submissions: what a member's tab shows of them    *)
(* (reactionsCache, useSetSubmissionReaction) as clicks, their answers,    *)
(* the broadcasts and the fetches of the whole list overtake each other.   *)
(*                                                                         *)
(* There is one emoji. Every member has one tab, which stays connected.    *)
(***************************************************************************)
EXTENDS Naturals, Sequences, FiniteSets

CONSTANTS
    Users,          \* the Team
    Submissions,
    None,           \* a window that is shut, no change, no answer yet, no fetch
    Refused,        \* the answer to a click the server refuses
    Asked,          \* a fetch the server hasn't read for yet
    MaxClicks,      \* bound
    MaxRefused,     \* bound: clicks refused, for a Restriction or the write limit
    MaxFetches      \* bound: fetches of the list that something else asks for

VARIABLES
    reacted,        \* the submissionReactions rows: who reacted to each submission
    window,         \* the coalescer's, for this Team's reactions
    wire,           \* the broadcasts on their way to each tab
    shown,          \* what each tab's cached list has
    clicks,         \* each tab's mutations that are pending
    fetch,          \* each tab's fetch of the list
    clicked, refused, fetched

vars == <<reacted, window, wire, shown, clicks, fetch, clicked, refused, fetched>>
bounds == <<clicked, refused, fetched>>

Lists == [Submissions -> SUBSET Users]
NoChange == [s \in Submissions |-> None]

Init ==
    /\ reacted = [s \in Submissions |-> {}]
    /\ window = None
    /\ wire = [u \in Users |-> <<>>]
    /\ shown = [u \in Users |-> reacted]
    /\ clicks = [u \in Users |-> {}]
    /\ fetch = [u \in Users |-> None]
    /\ clicked = 0 /\ refused = 0 /\ fetched = 0

\* reactionsOnTheirWay
OnTheirWay(u, s) == {c \in clicks[u] : c.submission = s}

\* toggleReaction
Toggled(users, u, on) == IF on THEN users \cup {u} ELSE users \ {u}

-----------------------------------------------------------------------------
(* A click. *)

\* onMutate: it shows at once, and a fetch under way is cancelled.
Click(u, s) ==
    LET on == u \notin shown[u][s] IN
    /\ clicked < MaxClicks
    /\ clicked' = clicked + 1
    /\ clicks' = [clicks EXCEPT ![u] = @ \cup {[at |-> clicked, submission |-> s, on |-> on, answer |-> None]}]
    /\ shown' = [shown EXCEPT ![u][s] = Toggled(@, u, on)]
    /\ fetch' = [fetch EXCEPT ![u] = None]
    /\ UNCHANGED <<reacted, window, wire, refused, fetched>>

\* A tab's requests arrive, and its answers land, in the order of its clicks.
Eldest(c, pending) == c \in pending /\ \A d \in pending : c.at <= d.at

Unanswered(u) == {c \in clicks[u] : c.answer = None}

Answered(u, c, answer) == clicks' = [clicks EXCEPT ![u] = (@ \ {c}) \cup {[c EXCEPT !.answer = answer]}]

\* push: the first change of a window goes to every tab at once, the latest of each submission waits for its end.
Broadcast(changes) ==
    IF window = None
    THEN /\ window' = NoChange
         /\ wire' = [u \in Users |-> Append(wire[u], changes)]
    ELSE /\ window' = [s \in Submissions |-> IF changes[s] = None THEN window[s] ELSE changes[s]]
         /\ UNCHANGED wire

\* PUT /submissions/:id/reactions. One that is already so is told to nobody.
Serve(u, c) ==
    /\ Eldest(c, Unanswered(u))
    /\ reacted' = [reacted EXCEPT ![c.submission] = Toggled(@, u, c.on)]
    /\ IF reacted' = reacted THEN UNCHANGED <<window, wire>>
       ELSE Broadcast([NoChange EXCEPT ![c.submission] = reacted'[c.submission]])
    /\ Answered(u, c, reacted'[c.submission])
    /\ UNCHANGED <<shown, fetch, bounds>>

Refuse(u, c) ==
    /\ refused < MaxRefused
    /\ refused' = refused + 1
    /\ Eldest(c, Unanswered(u))
    /\ Answered(u, c, Refused)
    /\ UNCHANGED <<reacted, window, wire, shown, fetch, clicked, fetched>>

\* onSuccess, onError: an answer is left alone while another click on the submission is on its way.
Land(u, c) ==
    LET last == OnTheirWay(u, c.submission) = {c} IN
    /\ Eldest(c, clicks[u]) /\ c.answer # None
    /\ clicks' = [clicks EXCEPT ![u] = @ \ {c}]
    /\ fetch' = IF last /\ c.answer = Refused THEN [fetch EXCEPT ![u] = Asked] ELSE fetch
    /\ shown' = IF last /\ c.answer # Refused THEN [shown EXCEPT ![u][c.submission] = c.answer] ELSE shown
    /\ UNCHANGED <<reacted, window, wire, bounds>>

-----------------------------------------------------------------------------
(* What reaches a tab besides. *)

WindowEnds ==
    /\ window # None
    /\ window' = IF window = NoChange THEN None ELSE NoChange
    /\ wire' = IF window = NoChange THEN wire ELSE [u \in Users |-> Append(wire[u], window)]
    /\ UNCHANGED <<reacted, shown, clicks, fetch, bounds>>

\* applyReactionChanges: a submission this tab is still reacting to is left as it shows it.
Hear(u) ==
    /\ wire[u] # <<>>
    /\ shown' = [shown EXCEPT ![u] = [s \in Submissions |->
        IF Head(wire[u])[s] = None \/ OnTheirWay(u, s) # {} THEN @[s] ELSE Head(wire[u])[s]]]
    /\ wire' = [wire EXCEPT ![u] = Tail(@)]
    /\ UNCHANGED <<reacted, window, clicks, fetch, bounds>>

\* Another event, or the page opened again.
AskFetch(u) ==
    /\ fetched < MaxFetches
    /\ fetched' = fetched + 1
    /\ fetch' = [fetch EXCEPT ![u] = Asked]
    /\ UNCHANGED <<reacted, window, wire, shown, clicks, clicked, refused>>

FetchReads(u) ==
    /\ fetch[u] = Asked
    /\ fetch' = [fetch EXCEPT ![u] = reacted]
    /\ UNCHANGED <<reacted, window, wire, shown, clicks, bounds>>

FetchLands(u) ==
    /\ fetch[u] \notin {None, Asked}
    /\ shown' = [shown EXCEPT ![u] = fetch[u]]
    /\ fetch' = [fetch EXCEPT ![u] = None]
    /\ UNCHANGED <<reacted, window, wire, clicks, bounds>>

Next ==
    \/ WindowEnds
    \/ \E u \in Users :
        \/ Hear(u) \/ AskFetch(u) \/ FetchReads(u) \/ FetchLands(u)
        \/ \E s \in Submissions : Click(u, s)
        \/ \E c \in clicks[u] : Serve(u, c) \/ Refuse(u, c) \/ Land(u, c)

Spec == Init /\ [][Next]_vars

-----------------------------------------------------------------------------
(* What the comments say and the code does not keep. *)

Settled(u) == clicks[u] = {} /\ wire[u] = <<>> /\ fetch[u] = None /\ window \in {None, NoChange}

\* useSetSubmissionReaction: "the server's answer puts the submission's reactions in as they stand", and "a refused one
\* goes back to what the server has". Once nothing is on its way to a tab, it shows what the server has.
ShowsServer == \A u \in Users : Settled(u) => shown[u] = reacted

=============================================================================
