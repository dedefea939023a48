----------------------------- MODULE CutReview ------------------------------
(***************************************************************************)
(* The Cut review: cutPlanner's count of the players each plan would leave *)
(* cut, cutReviewService, which applies one, and the move into the Draft,  *)
(* which waits for a review while a cut can be avoided, around everything  *)
(* that changes the roster (Draft).                                        *)
(*                                                                         *)
(* A plan is counted by how many pairs and singles it leaves; who of them  *)
(* it prefers is not part of the count. What an Admin applies is any plan. *)
(***************************************************************************)
EXTENDS Draft

VARIABLES
    reviewed,       \* bingos.cutReviewFingerprint, None for null
    told            \* history: how many players the last applied plan was said to leave cut

reviewVars == <<reviewed, told>>
cutVars == <<vars, reviewVars>>

ASSUME ReviewAssumption == None \notin [units : SUBSET SUBSET Users, mode : CutModes, teams : Nat]

CutInit ==
    /\ Init
    /\ reviewed = None
    /\ told = 0

-----------------------------------------------------------------------------
(* cutPlanner: what a pool of p pairs and s singles loses to count Teams. *)

\* scoreArrangement, before anything is drafted.
ScoreArrangement(mode, count, p, s) ==
    IF mode = "none" \/ count < 2 THEN 0
    ELSE 2 * (p % count) + (IF mode = "pairs_only" THEN s ELSE s % count)

CutCount(count, p, s) == ScoreArrangement(cutMode, count, p, s)

PairCount == Cardinality(PairUnits)
SingleCount == Cardinality(SingleUnits)

LeadsOf(t) == {m.user : m \in {n \in members : n.team = t /\ n.role # "player"}}

\* totalPlayersOf
Players == Cardinality(Pool) + Cardinality(UNION {LeadsOf(t) : t \in Made})

MinTeamSize(players) == IF players <= 19 THEN 3 ELSE IF players <= 49 THEN 4 ELSE 5

\* poolsAfterTeamChange: a new Team's Captain leaves the pool, in a duo Bingo with their partner.
WithTeamAdded(p, s) ==
    IF Duo THEN {<<p - 1, s>> : one \in {1} \cap 1..p} ELSE {<<p, s - 1>> : one \in {1} \cap 1..s}

\* A removed Team's leads come back, as a pair if they are one.
WithTeamRemoved(t, p, s) == IF LedByPair(t) THEN <<p + 1, s>> ELSE <<p, s + Cardinality(LeadsOf(t))>>

PoolsAt(count, p, s) ==
    IF count > TeamCount THEN WithTeamAdded(p, s)
    ELSE IF count < TeamCount THEN {WithTeamRemoved(t, p, s) : t \in Made}
    ELSE {<<p, s>>}

\* teamCountCandidates
TeamCounts ==
    {TeamCount} \cup {count \in 2..TeamCount + 1 : count + 1 >= TeamCount /\ Players >= count * MinTeamSize(Players)}

\* planCutChanges, what each plan of k pairings, m splits and a Team more or less comes to.
PlannedCuts ==
    UNION {{CutCount(count, pool[1], pool[2]) : pool \in PoolsAt(count, PairCount + k - m, SingleCount - 2 * k + 2 * m)} :
        count \in TeamCounts,
        k \in 0..(IF Duo THEN SingleCount \div 2 ELSE 0),
        m \in 0..(IF Duo /\ cutMode # "pairs_only" THEN PairCount ELSE 0)}

Avoidable == \E cut \in PlannedCuts : cut < CutCount(TeamCount, PairCount, SingleCount)

-----------------------------------------------------------------------------
(* cutReviewService *)

\* Mutation: the cut mode and the Teams are left out.
FingerprintOfPool == [units |-> PairUnits \cup SingleUnits]

Fingerprint == [units |-> PairUnits \cup SingleUnits, mode |-> cutMode, teams |-> TeamCount]

\* assertCutReviewSatisfied
ReviewSatisfied == reviewed = Fingerprint \/ ~Avoidable

CutPlayers == UNION CutUnits

\* A step of the roster or the Draft. advanceStage refuses the Draft until the review is satisfied.
DraftStep ==
    /\ Next
    /\ stage # "draft" /\ stage' = "draft" => ReviewSatisfied
    /\ UNCHANGED reviewVars

TwoSets(users) == {{u, v} : u, v \in users} \ {{u} : u \in users}

\* The pairings and splits of a plan, as unpair and adminPair take them.
MayRepair(splits, joins) ==
    /\ splits \cup joins # {} => ModsPair
    /\ \A p \in splits : \A u \in p : ~OnATeam(u)
    /\ \A j \in joins : \A u \in j : ~OnATeam(u) /\ \A p \in pairs \ splits : u \notin p

\* partnerOf, once the plan's pairings are made.
PartnerAmong(ps, c) == (UNION {p \in ps : c \in p}) \ {c}

\* createTeam for the plan's Captain.
TeamAdded(t, c, co) ==
    /\ ~started /\ captain[t] = None
    /\ c \in active /\ ~OnATeam(c)
    /\ Duo => co # {}
    /\ \A u \in co : u \in active /\ ~OnATeam(u)
    /\ captain' = [captain EXCEPT ![t] = c]
    /\ members' = members \cup {[team |-> t, user |-> c, role |-> "captain"]} \cup {[team |-> t, user |-> u, role |-> "co"] : u \in co}
    /\ UNCHANGED <<order, remade>>

\* deleteTeam
TeamRemoved(t) ==
    /\ ~started /\ t \in Made
    /\ \A p \in picks : p.team # t
    /\ captain' = [captain EXCEPT ![t] = None]
    /\ members' = {m \in members : m.team # t}
    /\ order' = [order EXCEPT ![t] = 0]
    /\ remade' = remade \ {t}

\* What the plan's review says it leaves cut: scoreChanges. It knows of no members but the leads of a Team it removes:
\* with others on it, what applyCutReview answers counts.
Foretold(p, s, team, adds) ==
    IF team = None THEN CutCount(TeamCount, p, s)
    ELSE IF adds THEN CutCount(TeamCount + 1, IF Duo THEN p - 1 ELSE p, IF Duo THEN s ELSE s - 1)
    ELSE IF \A m \in members : m.team = team => m.role # "player"
         THEN LET pool == WithTeamRemoved(team, p, s) IN CutCount(TeamCount - 1, pool[1], pool[2])
         ELSE Cardinality(CutPlayers')

\* applyCutReview: every change of the plan in one transaction, the Team's last. None at all keeps the cuts there are.
\* It is offered until the Draft begins.
ApplyCutReview(splits, joins, team, c) ==
    /\ stage \in BeforeDraft
    /\ MayRepair(splits, joins)
    /\ pairs' = (pairs \ splits) \cup joins
    /\ requests' = RequestsWithout(UNION joins)
    /\ IF team = None THEN UNCHANGED <<captain, members, order, remade>>
       ELSE IF c = None THEN TeamRemoved(team) ELSE TeamAdded(team, c, PartnerAmong((pairs \ splits) \cup joins, c))
    /\ UNCHANGED <<stage, active, earlier, asks, picks, started, locked, cutMode>>
    /\ steady' = (steady /\ Pool' = Pool /\ pairs' = pairs)
    /\ reviewed' = Fingerprint'
    /\ told' = Foretold(PairCount + Cardinality(joins) - Cardinality(splits),
                        SingleCount + 2 * Cardinality(splits) - 2 * Cardinality(joins), team, c # None)

OneOrNone(S) == {{}} \cup {{x} : x \in S}

\* Bounds: a plan splits one pair and makes one at most, and one that changes anything is one of the changes made.
ReviewCuts ==
    /\ stage \in BeforeDraft
    /\ \E splits \in OneOrNone(PairUnits), team \in Teams \cup {None} :
        \E joins \in OneOrNone(TwoSets(UNION (SingleUnits \cup splits))) :
            IF splits \cup joins = {} /\ team = None
            THEN ApplyCutReview({}, {}, None, None) /\ UNCHANGED changes
            ELSE /\ changes < MaxChanges
                 /\ changes' = changes + 1
                 /\ \E c \in IF team = None THEN {None} ELSE Pool \cup {None} : ApplyCutReview(splits, joins, team, c)

CutNext == DraftStep \/ ReviewCuts

CutSpec == CutInit /\ [][CutNext]_cutVars

-----------------------------------------------------------------------------
(* Safety. *)

\* assertCutReviewSatisfied: moving into the Draft is refused "while any cut is Avoidable and no review has been applied
\* since the roster last changed". Whoever is then cut, there are as many of them as the review said, or no plan leaves
\* fewer: the planner's count and the plan's operations agree with markCuts, whatever changed in between.
CutsAsReviewed ==
    [][stage # "draft" /\ stage' = "draft" /\ picks = {} =>
        \/ reviewed # None /\ told = Cardinality(CutPlayers)
        \/ \A cut \in PlannedCuts : Cardinality(CutPlayers) <= cut]_cutVars

=============================================================================
