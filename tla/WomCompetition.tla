--------------------------- MODULE WomCompetition ---------------------------
(***************************************************************************)
(* The Bingo's competition on Wise Old Man (womCompetitionService): made   *)
(* as its Draft is left, then brought up to date after every change of its *)
(* name, its dates and its Teams. Nobody waits for a sync, several may run *)
(* at once, and any of its requests may fail.                              *)
(*                                                                         *)
(* The Teams with their names and members are one value, and so is the     *)
(* name. The start comes before every end. The group and its code are set. *)
(***************************************************************************)
EXTENDS Integers, Sequences, FiniteSets

CONSTANTS
    Names,
    Rosters,        \* what the Teams and their members can be
    Nobody,         \* the Teams have no members: not one of Rosters
    None,
    TwoWeeks,       \* the end given to a competition of a Bingo without one
    MaxTime,        \* bound
    MaxChanges,     \* bound: how many changes are made to the Bingo and on Wise Old Man
    MaxFaults,      \* bound: how many requests fail
    MaxCalls        \* bound: how many syncs run at once

Ends == 1..MaxTime
Competitions == [name : Names, hours : BOOLEAN, end : Ends \cup {TwoWeeks}, roster : Rosters]

\* What is assumed of them.
Assumption ==
    /\ {TwoWeeks, MaxTime, MaxChanges, MaxFaults, MaxCalls} \subseteq Nat
    /\ TwoWeeks > MaxTime
    /\ None \notin Nat \cup Competitions /\ Nobody \notin Rosters

VARIABLES
    now,
    name, end,      \* bingos.name, endsAt: None for null
    roster,         \* the Teams
    drafting,       \* the stage is the Draft
    competition,    \* womCompetitionId, None for null
    failed,         \* womSyncError is set
    wom,            \* Wise Old Man's competitions
    calls,          \* the syncs that are running
    apart,          \* history: something changed that no sync has had to itself since
    changes, faults \* for the bounds

bingoVars == <<name, end, roster, drafting>>
vars == <<now, bingoVars, competition, failed, wom, calls, apart, changes, faults>>

\* What a sync knows: the Bingo's row and, once it has them, Wise Old Man's and what it sends there.
Calls == [id : 1..MaxCalls, step : {"create", "created", "look", "compare", "edit"}, name : Names, end : Ends \cup {TwoWeeks, None},
          of : Nat \cup {None}, roster : Rosters \cup {Nobody, None}, seen : Competitions \cup {None}]

TypeOK ==
    /\ now \in 0..MaxTime
    /\ name \in Names /\ end \in Ends \cup {None}
    /\ roster \in Rosters \cup {Nobody}
    /\ drafting \in BOOLEAN /\ failed \in BOOLEAN /\ apart \in BOOLEAN
    /\ competition \in (DOMAIN wom) \cup {None}
    /\ wom \in Seq(Competitions)
    /\ calls \subseteq Calls
    /\ changes \in Nat /\ faults \in Nat

Init ==
    /\ now = 0
    /\ name \in Names /\ end \in Ends \cup {None}
    /\ roster = Nobody
    /\ drafting = TRUE
    /\ competition = None
    /\ failed = FALSE
    /\ wom = <<>>
    /\ calls = {}
    /\ apart = FALSE
    /\ changes = 0 /\ faults = 0

-----------------------------------------------------------------------------
(* A sync begins: in the handler of the change it follows. *)

FreeId == CHOOSE i \in 1..MaxCalls : \A c \in calls : c.id # i

Begin(c) == calls' = calls \cup {c} /\ apart' = (calls # {})

\* syncWomCompetitionAfterDraft up to its await.
BeginCreate ==
    IF competition = None /\ roster # Nobody
    THEN /\ Cardinality(calls) < MaxCalls
         /\ Begin([id |-> FreeId, step |-> "create", name |-> name, end |-> end, of |-> None, roster |-> roster, seen |-> None])
    ELSE UNCHANGED <<calls, apart>>

\* syncWomCompetition up to its first await. A sync that finds no competition is over.
BeginSync(newName, newEnd) ==
    IF competition # None
    THEN /\ Cardinality(calls) < MaxCalls
         /\ Begin([id |-> FreeId, step |-> "look", name |-> newName, end |-> newEnd, of |-> competition, roster |-> None, seen |-> None])
    ELSE apart' = (apart \/ calls # {}) /\ UNCHANGED calls

MayChange == changes < MaxChanges /\ changes' = changes + 1

\* PATCH settings.
Settings(newName, newEnd) ==
    /\ MayChange
    /\ newName # name \/ newEnd # end
    /\ name' = newName /\ end' = newEnd
    /\ BeginSync(newName, newEnd)
    /\ UNCHANGED <<now, roster, drafting, competition, failed, wom, faults>>

\* A Team made, renamed or deleted, a member added or removed, a Late signup onto a Team.
ChangeTeams(newRoster) ==
    /\ MayChange
    /\ newRoster # roster
    /\ roster' = newRoster
    /\ BeginSync(name, end)
    /\ UNCHANGED <<now, name, end, drafting, competition, failed, wom, faults>>

\* A pick of the Draft, or one taken back: no sync follows it.
DraftTeams(newRoster) ==
    /\ MayChange
    /\ drafting
    /\ newRoster # roster
    /\ roster' = newRoster
    /\ apart' = TRUE
    /\ UNCHANGED <<now, name, end, drafting, competition, failed, wom, calls, faults>>

\* afterStageChange
LeaveDraft ==
    /\ drafting
    /\ drafting' = FALSE
    /\ BeginCreate
    /\ UNCHANGED <<now, name, end, roster, competition, failed, wom, changes, faults>>

BackToDraft ==
    /\ MayChange
    /\ ~drafting
    /\ drafting' = TRUE
    /\ UNCHANGED <<now, name, end, roster, competition, failed, wom, calls, apart, faults>>

GoLive ==
    /\ MayChange
    /\ ~drafting
    /\ BeginSync(name, end)
    /\ UNCHANGED <<now, bingoVars, competition, failed, wom, faults>>

-----------------------------------------------------------------------------
(* A sync goes on. *)

GoesOn(c, next) == calls' = (calls \ {c}) \cup {next}
Over(c) == calls' = calls \ {c}

\* Wise Old Man makes the competition,
CreateLands(c) ==
    /\ c.step = "create"
    /\ wom' = Append(wom, [name |-> c.name, hours |-> TRUE, end |-> IF c.end = None THEN TwoWeeks ELSE c.end, roster |-> c.roster])
    /\ GoesOn(c, [c EXCEPT !.step = "created", !.of = Len(wom')])
    /\ UNCHANGED <<now, bingoVars, competition, failed, apart, changes, faults>>

\* and its answer is noted.
Created(c) ==
    /\ c.step = "created"
    /\ competition' = c.of
    /\ failed' = FALSE
    /\ Over(c)
    /\ UNCHANGED <<now, bingoVars, wom, apart, changes, faults>>

\* getCompetitionState, as Wise Old Man has it,
Look(c) ==
    /\ c.step = "look"
    /\ GoesOn(c, [c EXCEPT !.step = "compare", !.seen = wom[c.of]])
    /\ UNCHANGED <<now, bingoVars, competition, failed, wom, apart, changes, faults>>

\* A competition that has ended keeps its end.
EndFor(c) == IF c.seen.end <= now \/ c.end = None THEN c.seen.end ELSE c.end

\* Mutation: only Teams that Wise Old Man doesn't have are sent.
WantedLess(c) == [name |-> c.name, hours |-> TRUE, end |-> EndFor(c), roster |-> c.seen.roster]

\* What it should be. The row was read before the answer came, the Teams after it; none with a member, none are sent.
Wanted(c) == [name |-> c.name, hours |-> TRUE, end |-> EndFor(c), roster |-> IF roster = Nobody THEN c.seen.roster ELSE roster]

\* and what differs, if anything does, is sent.
Compare(c) ==
    /\ c.step = "compare"
    /\ IF Wanted(c) = c.seen
       THEN failed' = FALSE /\ Over(c)
       ELSE GoesOn(c, [c EXCEPT !.step = "edit", !.name = Wanted(c).name, !.end = Wanted(c).end, !.roster = Wanted(c).roster])
            /\ UNCHANGED failed
    /\ UNCHANGED <<now, bingoVars, competition, wom, apart, changes, faults>>

\* editCompetition: only the fields that differed.
Edited(c) ==
    LET there == wom[c.of] IN
    [name   |-> IF c.name # c.seen.name THEN c.name ELSE there.name,
     hours  |-> there.hours \/ ~c.seen.hours,
     end    |-> IF c.end # c.seen.end THEN c.end ELSE there.end,
     roster |-> IF c.roster # c.seen.roster THEN c.roster ELSE there.roster]

Edit(c) ==
    /\ c.step = "edit"
    /\ wom' = [wom EXCEPT ![c.of] = Edited(c)]
    /\ failed' = FALSE
    /\ Over(c)
    /\ UNCHANGED <<now, bingoVars, competition, apart, changes, faults>>

Fault == faults < MaxFaults /\ faults' = faults + 1

\* Wise Old Man can't be reached, or turns the request down; a competition was made or edited and the answer is lost.
Fails(c) ==
    /\ Fault
    /\ failed' = TRUE
    /\ Over(c)
    /\ \/ UNCHANGED wom
       \/ c.step = "edit" /\ wom' = [wom EXCEPT ![c.of] = Edited(c)]
    /\ UNCHANGED <<now, bingoVars, competition, apart, changes>>

\* On Wise Old Man, someone changes the competition, or ends it.
Elsewhere(there) ==
    /\ MayChange
    /\ competition # None
    /\ there # wom[competition]
    /\ wom' = [wom EXCEPT ![competition] = there]
    /\ apart' = TRUE
    /\ UNCHANGED <<now, bingoVars, competition, failed, calls, faults>>

Tick ==
    /\ now < MaxTime
    /\ now' = now + 1
    /\ UNCHANGED <<bingoVars, competition, failed, wom, calls, apart, changes, faults>>

Next ==
    \/ \E n \in Names, e \in Ends \cup {None} : Settings(n, e)
    \/ \E r \in Rosters \cup {Nobody} : ChangeTeams(r) \/ DraftTeams(r)
    \/ LeaveDraft \/ BackToDraft \/ GoLive
    \/ \E c \in calls : CreateLands(c) \/ Created(c) \/ Look(c) \/ Compare(c) \/ Edit(c) \/ Fails(c)
    \/ \E there \in Competitions : Elsewhere(there)
    \/ Tick

Spec == Init /\ [][Next]_vars

-----------------------------------------------------------------------------

InStep(there) ==
    /\ there.name = name
    /\ there.hours
    /\ end # None => there.end = end \/ there.end <= now
    /\ roster # Nobody => there.roster = roster

\* "kept in sync after that: the bingo's name, its start and end dates, and every team's name and members". With no sync
\* running and no error to show, the competition is as the Bingo is, unless a sync crossed another or a change that
\* starts none.
KeptInSync == competition # None /\ calls = {} /\ ~failed /\ ~apart => InStep(wom[competition])

=============================================================================
