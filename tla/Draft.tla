------------------------------- MODULE Draft --------------------------------
(***************************************************************************)
(* The Draft (draftService): the pick order, the picks and taking one      *)
(* back, who is cut so that every Team drafts the same, and what the Team  *)
(* on the clock may take, together with everything an Admin or Moderator   *)
(* can do to the roster meanwhile (Roster).                                *)
(*                                                                         *)
(* Whoever picks for the Team on the clock may: its leads, or an Admin.    *)
(* The two seconds in which a shuffled order is revealed are one bit.      *)
(***************************************************************************)
EXTENDS Roster

CONSTANT MaxChanges \* bound: how many changes are made to the roster and the settings

ASSUME ChangesAssumption == MaxChanges \in Nat

VARIABLES
    order,          \* teams.draftOrder, 0 for null
    locked,         \* bingos.draftOrderLockedUntil is ahead
    cutMode,        \* bingos.cutMode
    steady,         \* history: since the Draft was started, only the Draft has changed the pool or taken anyone off a Team,
                    \* and who was drafted is still signed up
    changes         \* how many changes were made, for the bound

draftVars == <<order, locked, cutMode, steady, changes>>
vars == <<rvars, draftVars>>

CutModes == {"none", "even"} \cup (IF Duo THEN {"pairs_only"} ELSE {})

DraftTypeOK ==
    /\ TypeOK
    /\ order \in [Teams -> Nat]
    /\ locked \in BOOLEAN
    /\ cutMode \in CutModes
    /\ steady \in BOOLEAN
    /\ changes \in Nat

Init ==
    /\ RosterInit
    /\ order = [t \in Teams |-> 0]
    /\ locked = FALSE
    /\ cutMode \in CutModes
    /\ steady = FALSE
    /\ changes = 0

-----------------------------------------------------------------------------
(* The order. *)

TeamCount == Cardinality(Made)

\* isDraftOrderReady
OrderReady == TeamCount >= 2 /\ {order[t] : t \in Made} = 1..TeamCount

Numbers == {p.number : p \in picks}
LastNumber == CHOOSE n \in Numbers : \A m \in Numbers : m <= n

\* A pair shares one number, so the next is max + 1 rather than row count + 1.
NextNumber == IF Numbers = {} THEN 1 ELSE LastNumber + 1

\* Mutation: every round in the same order.
StraightIndex(count, number) == (number - 1) % count

\* pickOrderTeamIndex, counting from 0.
SnakeIndex(count, number) ==
    LET round == (number + count - 1) \div count
        place == (number - 1) % count
    IN  IF round % 2 = 1 THEN place ELSE count - 1 - place

OnTheClock == CHOOSE t \in Made : order[t] = SnakeIndex(TeamCount, NextNumber) + 1

-----------------------------------------------------------------------------
(* The pool, in units of one pick: an accepted pair, or a single. *)

Pool == {u \in active : ~OnATeam(u)}

\* groupIntoUnits: a pair whose other half isn't in the pool falls back to a single.
PairUnits == {p \in pairs : p \subseteq Pool}
SingleUnits == {{u} : u \in Pool \ UNION PairUnits}

PicksNumbered(n) == {p \in picks : p.number = n}
PairPicks == {n \in Numbers : Cardinality(PicksNumbered(n)) > 1}
NumbersOf(t) == {p.number : p \in {q \in picks : q.team = t}}
PairPicksOf(t) == NumbersOf(t) \cap PairPicks
SinglePicksOf(t) == NumbersOf(t) \ PairPicks

\* A unit is as new as its latest sign-up.
Newer(a, b) == \E u \in a : \A v \in b : <<v, u>> \in earlier
Newest(units, k) == {a \in units : Cardinality({b \in units : Newer(b, a)}) < k}

-----------------------------------------------------------------------------
(* markCuts *)

HasShares == cutMode # "none" /\ TeamCount >= 2

\* Mutation: what was drafted doesn't count.
UndraftedPairs == Cardinality(PairUnits)

\* Drafted picks count, so the answer holds as the Draft goes.
AllPairs == Cardinality(PairPicks) + Cardinality(PairUnits)
AllSingles == Cardinality(Numbers \ PairPicks) + Cardinality(SingleUnits)

PairShare == AllPairs \div TeamCount
SingleShare == IF cutMode = "pairs_only" THEN 0 ELSE AllSingles \div TeamCount

CutUnits ==
    IF ~HasShares THEN {}
    ELSE Newest(PairUnits, AllPairs - PairShare * TeamCount) \cup Newest(SingleUnits, AllSingles - SingleShare * TeamCount)

AvailablePairs == PairUnits \ CutUnits
AvailableSingles == SingleUnits \ CutUnits
Available == AvailablePairs \cup AvailableSingles

-----------------------------------------------------------------------------
(* teamTakes *)

ShortOfPairs(t) == HasShares => Cardinality(PairPicksOf(t)) < PairShare
ShortOfSingles(t) == HasShares => Cardinality(SinglePicksOf(t)) < SingleShare

\* Mutation: a Team that has its share takes nothing more.
NothingLeftNever(t) == FALSE

\* Nothing left that the Team is short of: rather than stall the Draft, it takes whatever is left.
NothingLeftFor(t) == ~(ShortOfPairs(t) /\ AvailablePairs # {}) /\ ~(ShortOfSingles(t) /\ AvailableSingles # {})

TakesPairs(t) == ShortOfPairs(t) \/ NothingLeftFor(t)
TakesSingles(t) == ShortOfSingles(t) \/ NothingLeftFor(t)

PairsFirst(t) == Duo /\ TakesPairs(t) /\ TakesSingles(t) /\ AvailablePairs # {}

Takes(t) ==
    (IF TakesPairs(t) THEN AvailablePairs ELSE {})
    \cup (IF TakesSingles(t) /\ ~PairsFirst(t) THEN AvailableSingles ELSE {})

-----------------------------------------------------------------------------
(* The Draft's steps. *)

OrderEditable == stage = "draft" /\ ~started /\ picks = {} /\ TeamCount >= 2

\* shuffleDraftOrder and setDraftOrder.
OrderTeams(newOrder, reveal) ==
    /\ OrderEditable
    /\ {newOrder[t] : t \in Made} = 1..TeamCount
    /\ \A t \in Teams \ Made : newOrder[t] = 0
    /\ order' = newOrder
    /\ locked' = reveal
    /\ UNCHANGED <<rvars, cutMode, steady, changes>>

LockExpires ==
    /\ locked
    /\ locked' = FALSE
    /\ UNCHANGED <<rvars, order, cutMode, steady, changes>>

StartDraft ==
    /\ stage = "draft"
    /\ ~started
    /\ OrderReady
    /\ picks = {}
    /\ started' = TRUE
    /\ steady' = TRUE
    /\ UNCHANGED <<rosterVars, picks, order, locked, cutMode, changes>>

PickedWith(u) == IF Paired(u) THEN CHOOSE p \in pairs : u \in p ELSE {u}

\* makePick's checks, the unique index on a drafted player's pick included.
MayPick(u) ==
    /\ stage = "draft" /\ started /\ OrderReady /\ ~locked
    /\ PickedWith(u) \subseteq Pool
    /\ PickedWith(u) \in Takes(OnTheClock)
    /\ \A p \in picks : p.user \notin PickedWith(u)

MakePick(u) ==
    /\ MayPick(u)
    /\ picks' = picks \cup {[number |-> NextNumber, team |-> OnTheClock, user |-> v] : v \in PickedWith(u)}
    /\ members' = members \cup {[team |-> OnTheClock, user |-> v, role |-> "player"] : v \in PickedWith(u)}
    /\ UNCHANGED <<stage, active, earlier, asks, pairs, requests, captain, started, remade, draftVars>>

UndoLastPick ==
    /\ stage = "draft"
    /\ picks # {}
    /\ LET undone == PicksNumbered(LastNumber) IN
        /\ picks' = picks \ undone
        /\ members' = {m \in members : \A p \in undone : m.team # p.team \/ m.user # p.user}
    /\ UNCHANGED <<stage, active, earlier, asks, pairs, requests, captain, started, remade, draftVars>>

\* The settings form, at any stage.
SetCutMode(mode) ==
    /\ changes < MaxChanges
    /\ changes' = changes + 1
    /\ mode # cutMode
    /\ cutMode' = mode
    /\ steady' = FALSE
    /\ UNCHANGED <<rvars, order, locked>>

\* A step of the roster. A Team that goes takes its place in the order with it.
RosterStep ==
    /\ changes < MaxChanges
    /\ changes' = changes + 1
    /\ RosterNext
    /\ order' = [t \in Teams |-> IF captain'[t] = None THEN 0 ELSE order[t]]
    /\ steady' = (steady /\ Pool' = Pool /\ pairs' = pairs /\ members \subseteq members' /\ {p.user : p \in picks} \subseteq active')
    /\ UNCHANGED <<locked, cutMode>>

DraftNext ==
    \/ \E newOrder \in [Teams -> 0..Cardinality(Teams)], reveal \in BOOLEAN : OrderTeams(newOrder, reveal)
    \/ LockExpires \/ StartDraft \/ UndoLastPick
    \/ \E u \in Users : MakePick(u)
    \/ \E mode \in CutModes : SetCutMode(mode)

Next == RosterStep \/ DraftNext

Spec == Init /\ [][Next]_vars

-----------------------------------------------------------------------------
(* Safety. *)

Round(number) == (number - 1) \div TeamCount

\* The Draft is a snake: the picks are numbered without a gap, a number is one Team's, and each round has every Team once,
\* in the order set before the start or its reverse, round by round.
PicksInOrder ==
    /\ Numbers = 1..Cardinality(Numbers)
    /\ \A p, q \in picks :
        /\ p.number = q.number => p.team = q.team
        /\ p.number < q.number /\ Round(p.number) = Round(q.number) =>
            IF Round(p.number) % 2 = 0 THEN order[p.team] < order[q.team] ELSE order[p.team] > order[q.team]

\* removeTeamMember: "drafted Players stay put", so that a pick and its membership never part until Board revealed.
DraftedStayPut == remade = {} /\ stage \notin TeamsSet => \A p \in picks : \E m \in members : m.team = p.team /\ m.user = p.user

\* CONTEXT.md: a Duo "must be drafted onto the same team as a single unit".
DuosDraftedTogether == \A d \in pairs : \A p \in picks : p.user \in d => \A u \in d : \E q \in picks : q.number = p.number /\ q.user = u

\* teamTakes: "the pool left always holds exactly what the teams still need". While only picks (and picks taken back)
\* change the pool, no Team gets more than its share, the Team on the clock is short of something in the pool, and when
\* nobody is left every Team has its share.
SharesHold ==
    steady /\ HasShares =>
        /\ \A t \in Made : Cardinality(PairPicksOf(t)) <= PairShare /\ Cardinality(SinglePicksOf(t)) <= SingleShare
        /\ IF Available # {} THEN ~NothingLeftFor(OnTheClock)
           ELSE \A t \in Made : Cardinality(PairPicksOf(t)) = PairShare /\ Cardinality(SinglePicksOf(t)) = SingleShare

\* No pair has one half in the pool and one on a Team, and nobody in the pool has a pick from before.
PoolIsWhole ==
    /\ \A p \in pairs : p \subseteq Pool \/ p \cap Pool = {}
    /\ \A p \in picks : p.user \notin Pool

OnClock == stage = "draft" /\ started /\ OrderReady /\ ~locked /\ Available # {}

\* teamTakes: it "takes whatever is left rather than stalling the draft". Whatever an Admin does to the sign-ups, Teams
\* and cut mode in the middle of the Draft, someone can be picked while someone is left.
ClockCanPick == OnClock /\ PoolIsWhole => \E u \in Users : MayPick(u)

-----------------------------------------------------------------------------
(* What a comment says and the code does not keep. *)

\* teamTakes: "so the team on the clock always has something to take".
ClockAlwaysCanPick == OnClock => \E u \in Users : MayPick(u)

=============================================================================
