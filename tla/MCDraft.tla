------------------------------ MODULE MCDraft -------------------------------
(* Draft with its Cut review, and with the Superlatives, for TLC.           *)
(*                                                                         *)
(* The Draft: the Teams led and the others who signed up paired up in every *)
(* way they can, from a Bingo that has just been moved into the Draft, with *)
(* a few who signed up and a change at any point (two if nobody but the     *)
(* leads is paired), or with all and none; and from one before it, with all *)
(* and one change, or a few and two.                                        *)
(* Voting: two drafted Teams of a Live Bingo, from before the first vote.   *)
(* Polls: the votes of a Team whose Bingo is Finished, in three categories, *)
(* three of it for any of three others.                                     *)
EXTENDS CutReview, Superlatives

CONSTANTS
    c1, c2, d1, d2,         \* Captains, and their partners
    p1, p2, p3, p4, p5, p6,
    Parts                   \* what is explored: "draft", "voting", "polls"

VARIABLE part               \* what this behaviour is of

Captains == <<c1, c2>>
Partner == <<d1, d2>>
TeamsMade == SetToSeq(Teams)
Places == DOMAIN Captains

AllSignUps == <<c1, d1, c2, p1, p2, d2, p3, p4, p5, p6>>
FewSignUps == <<c1, d1, c2, p1, p2, d2, p3, p4>>

Pairings(players) == {ps \in SUBSET {{u, v} : u, v \in players} :
    /\ \A p \in ps : Cardinality(p) = 2
    /\ \A p, q \in ps : p \cap q # {} => p = q}

Row(i, user, role) == [team |-> TeamsMade[i], user |-> user, role |-> role]

SignedUp(signUps) ==
    /\ active = Range(signUps)
    /\ earlier = {<<signUps[i], signUps[j]>> : <<i, j>> \in {x \in (DOMAIN signUps) \X (DOMAIN signUps) : x[1] < x[2]}}

OthersOf(signUps) == Range(signUps) \ Range(Captains \o Partner)

PairedAs(ps) == pairs = ps \cup {{Captains[i], Partner[i]} : i \in Places}

StartsInDraft ==
    /\ stage = "draft"
    /\ \/ SignedUp(AllSignUps) /\ changes = MaxChanges /\ \E ps \in Pairings(OthersOf(AllSignUps)) : PairedAs(ps)
       \/ SignedUp(FewSignUps) /\ changes = MaxChanges - 1 /\ \E ps \in Pairings(OthersOf(FewSignUps)) : PairedAs(ps)
       \/ SignedUp(FewSignUps) /\ changes = 0 /\ PairedAs({})

StartsBeforeDraft ==
    /\ stage = "captains"
    /\ \/ SignedUp(AllSignUps) /\ changes = MaxChanges - 1 /\ \E ps \in {{{p1, p4}}, {{p1, p4}, {p2, p6}, {p3, p5}}} : PairedAs(ps)
       \/ SignedUp(FewSignUps) /\ changes = 0 /\ PairedAs({{p1, p4}})

\* The Captains' and their partners' rows, and nothing under way.
TeamsLed ==
    /\ asks = {}
    /\ requests = {}
    /\ captain = [t \in Teams |-> IF \E i \in Places : TeamsMade[i] = t THEN Captains[CHOOSE i \in Places : TeamsMade[i] = t] ELSE None]
    /\ remade = {}
    /\ locked = FALSE
    /\ steady = FALSE
    /\ reviewed = None
    /\ told = 0

LeadRows == {Row(i, Captains[i], "captain") : i \in Places} \cup {Row(i, Partner[i], "co") : i \in Places}

DraftInit ==
    /\ StartsInDraft \/ StartsBeforeDraft
    /\ members = LeadRows
    /\ picks = {}
    /\ started = FALSE
    /\ order = [t \in Teams |-> 0]
    /\ cutMode \in CutModes
    /\ place = <<>> /\ votes = {} /\ oneEach = FALSE

TeamSignUps == <<c1, d1, c2, p1, p2, d2>>
FirstPicks == <<p1, p2>>

VotingInit ==
    /\ stage = "live"
    /\ SignedUp(TeamSignUps) /\ PairedAs({})
    /\ members = LeadRows \cup {Row(i, FirstPicks[i], "player") : i \in Places}
    /\ picks = {[number |-> i, team |-> TeamsMade[i], user |-> FirstPicks[i]] : i \in Places}
    /\ started = TRUE
    /\ order = [t \in Teams |-> IF \E i \in Places : TeamsMade[i] = t THEN CHOOSE i \in Places : TeamsMade[i] = t ELSE 0]
    /\ cutMode = "none"
    /\ changes = 1
    /\ place = <<0>> /\ votes = {} /\ oneEach \in BOOLEAN

\* Of three voters, so many for each of three.
Nominees == <<c1, d1, p1>>
Voters == <<p2, p3, p4>>
Ballots == {n \in [1..3 -> 0..3] : n[1] + n[2] + n[3] <= 3}
Cast(c, n) ==
    {[category |-> c, team |-> TeamsMade[1], voter |-> Voters[i],
      nominee |-> Nominees[IF i <= n[1] THEN 1 ELSE IF i <= n[1] + n[2] THEN 2 ELSE 3]] : i \in 1..(n[1] + n[2] + n[3])}

PollsInit ==
    /\ stage = "complete"
    /\ SignedUp(AllSignUps) /\ PairedAs({})
    /\ members = LeadRows \cup {Row(1, u, "player") : u \in {p1} \cup Range(Voters)}
    /\ picks = {}
    /\ started = FALSE
    /\ order = [t \in Teams |-> 0]
    /\ cutMode = "none"
    /\ changes = MaxChanges
    /\ place = <<0, 1, 2>>
    /\ \E n \in [1..3 -> Ballots] :
        /\ n[1][1] >= n[1][2] /\ n[1][2] >= n[1][3]     \* the three are interchangeable
        /\ votes = UNION {Cast(c, n[c]) : c \in 1..3}
    /\ oneEach = TRUE

MCInit ==
    /\ TeamsLed
    /\ unmade = FALSE
    /\ part \in Parts
    /\ CASE part = "draft" -> DraftInit
         [] part = "voting" -> VotingInit
         [] part = "polls" -> PollsInit

MCNext ==
    \/ part = "draft" /\ CutNext /\ UNCHANGED <<voteVars, part>>
    \/ part = "voting" /\ VotingNext /\ UNCHANGED <<reviewVars, part>>

mcVars == <<cutVars, voteVars, part>>

\* Bound: a Bingo that was reviewed is followed until its Draft is started.
UntilStarted == reviewed # None => ~started

MCSpec == MCInit /\ [][MCNext]_mcVars
=============================================================================
