----------------------------- MODULE StatsCache -----------------------------
(***************************************************************************)
(* The Bingos' stats, worked out once and shared for a while               *)
(* (statsCache): a kept copy is forgotten when a change to what it is made *)
(* from is broadcast, and is no good after a time in any case. Working     *)
(* them out is one step of the server's one thread.                        *)
(*                                                                         *)
(* What stats say is the number of changes they are made from. An Admin's  *)
(* change is broadcast when its response has been sent, and changes of one *)
(* Bingo may be told in another order than they were made.                 *)
(***************************************************************************)
EXTENDS Naturals, FiniteSets

CONSTANTS
    Bingos,
    None,
    KeptFor,        \* STATS_CACHE_MS
    MaxTime,        \* bound
    MaxChanges,     \* bound: how many changes each Bingo sees
    MaxUntold       \* bound: how many Admins' responses are on their way at once

Copies == [asOf : Nat, until : Nat]

\* What is assumed of them.
Assumption == KeptFor \in Nat /\ None \notin Copies

VARIABLES
    now,
    listening,      \* the server takes sockets: not in a server made for tests or a script
    data,           \* how many changes each Bingo's stats are made from
    untold,         \* the Admins' changes whose response isn't sent yet: <<bingo, its number>>
    kept,           \* kept: the copy, and until when
    told            \* history: the newest change each Bingo's clients were told of

vars == <<now, listening, data, untold, kept, told>>

TypeOK ==
    /\ now \in Nat
    /\ listening \in BOOLEAN
    /\ data \in [Bingos -> Nat]
    /\ untold \subseteq Bingos \X Nat
    /\ kept \in [Bingos -> Copies \cup {None}]
    /\ told \in [Bingos -> Nat]

Init ==
    /\ now = 0
    /\ listening \in BOOLEAN
    /\ data = [b \in Bingos |-> 0]
    /\ untold = {}
    /\ kept = [b \in Bingos |-> None]
    /\ told = [b \in Bingos |-> 0]

-----------------------------------------------------------------------------

Fresh(b) == kept[b] # None /\ kept[b].until > now

\* Mutation: a server with nobody to tell forgets nothing.
BroadcastToSome(b, number) ==
    /\ kept' = IF listening THEN [kept EXCEPT ![b] = None] ELSE kept
    /\ told' = [told EXCEPT ![b] = IF number > @ THEN number ELSE @]

\* broadcast of a change to a Bingo's stats. forgetStatsOn comes first, sockets or not.
Broadcast(b, number) ==
    /\ kept' = [kept EXCEPT ![b] = None]
    /\ told' = [told EXCEPT ![b] = IF number > @ THEN number ELSE @]

Changed(b) == data[b] < MaxChanges /\ data' = [data EXCEPT ![b] = @ + 1]

\* A handler that broadcasts its own change: a review, a stage, a pick of the Draft.
Change(b) ==
    /\ Changed(b)
    /\ Broadcast(b, data'[b])
    /\ UNCHANGED <<now, listening, untold>>

\* A write of routes/admin: its change is there before it is told of,
AdminWrite(b) ==
    /\ Cardinality(untold) < MaxUntold
    /\ Changed(b)
    /\ untold' = untold \cup {<<b, data'[b]>>}
    /\ UNCHANGED <<now, listening, kept, told>>

\* when its response is finished.
Finish(u) ==
    /\ untold' = untold \ {u}
    /\ Broadcast(u[1], u[2])
    /\ UNCHANGED <<now, listening, data>>

\* A Wise Old Man read changes them and nobody is told.
QuietChange(b) ==
    /\ Changed(b)
    /\ UNCHANGED <<now, listening, untold, kept, told>>

\* getStatsForViewer: keptStats and, with nothing fresh, getStats.
Read(b) ==
    /\ IF Fresh(b) THEN UNCHANGED kept
       ELSE kept' = [kept EXCEPT ![b] = [asOf |-> data[b], until |-> now + KeptFor]]
    /\ UNCHANGED <<now, listening, data, untold, told>>

Tick ==
    /\ now < MaxTime
    /\ now' = now + 1
    /\ UNCHANGED <<listening, data, untold, kept, told>>

Next ==
    \/ \E b \in Bingos : Change(b) \/ AdminWrite(b) \/ QuietChange(b) \/ Read(b)
    \/ \E u \in untold : Finish(u)
    \/ Tick

Spec == Init /\ [][Next]_vars

-----------------------------------------------------------------------------

\* "forgotten as soon as something it's made from changes ... forgetting its stats on these is what keeps a kept copy
\* right": a copy that would be handed out is no older than what its readers have been told of.
KeptCurrent == \A b \in Bingos : Fresh(b) => kept[b].asOf >= told[b]
=============================================================================
