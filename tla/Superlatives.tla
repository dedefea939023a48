---------------------------- MODULE Superlatives ----------------------------
(***************************************************************************)
(* Superlatives (superlativeService): the categories an Admin keeps, the   *)
(* votes that a Team's Players cast in them while the Bingo is Live, and   *)
(* who wins, around everything that puts people on Teams and takes them    *)
(* off (Draft).                                                            *)
(*                                                                         *)
(* A category is known by its row's number. Names, the ballot, turnout and *)
(* the Admin's counts are left out: they are read from the same rows.      *)
(***************************************************************************)
EXTENDS Draft, FiniteSetsExt, SequencesExt

CONSTANTS
    MaxCategories,          \* MAX_SUPERLATIVE_CATEGORIES
    MaxRows, MaxVotes       \* bounds: the rows' numbers, and the votes that stand at once

ASSUME SuperlativesAssumption == {MaxCategories, MaxRows, MaxVotes} \subseteq Nat

VARIABLES
    place,          \* superlativeCategories: each one's sortOrder
    votes,          \* superlativeVotes
    oneEach,        \* bingos.superlativesOneEach
    unmade          \* history: a pick was taken back of someone who had voted or was voted for

voteVars == <<place, votes, oneEach, unmade>>
superlativeVars == <<vars, voteVars>>

Categories == DOMAIN place
Votes == [category : Categories, team : Teams, voter : Users, nominee : Users]

\* A nominee has to be on the voter's Team, a voter has one vote in a category, and no category is without its row.
VotesTypeOK ==
    /\ place \in [Categories -> Nat]
    /\ votes \subseteq Votes
    /\ oneEach \in BOOLEAN /\ unmade \in BOOLEAN

-----------------------------------------------------------------------------
(* Categories: at any stage. Renaming one changes nothing here. *)

CategoriesOnly == UNCHANGED <<vars, oneEach, unmade>>

NewRow == 1 + Max(Categories \cup {0})

\* createCategory
CreateCategory ==
    /\ Cardinality(Categories) < MaxCategories
    /\ NewRow <= MaxRows
    /\ place' = [c \in Categories \cup {NewRow} |-> IF c = NewRow THEN Cardinality(Categories) ELSE place[c]]
    /\ UNCHANGED votes
    /\ CategoriesOnly

\* deleteCategory
DeleteCategory(c) ==
    /\ place' = [d \in Categories \ {c} |-> place[d]]
    /\ votes' = {v \in votes : v.category # c}
    /\ CategoriesOnly

\* reorderCategories, by a list that may be older than the categories: one it doesn't name stays where it is.
ReorderCategories(listed) ==
    /\ place' = [c \in Categories |-> IF Contains(listed, c) THEN (CHOOSE i \in DOMAIN listed : listed[i] = c) - 1 ELSE place[c]]
    /\ UNCHANGED votes
    /\ CategoriesOnly

\* getCategories: in the order of their places, older first.
Before(c, d) == place[c] < place[d] \/ (place[c] = place[d] /\ c < d)

\* The settings form, at any stage.
SetOneEach ==
    /\ oneEach' = ~oneEach
    /\ UNCHANGED <<vars, place, votes, unmade>>

-----------------------------------------------------------------------------
(* Votes. *)

OnTeam(t, u) == \E m \in members : m.team = t /\ m.user = u
VotesOf(u, c) == {v \in votes : v.voter = u /\ v.category = c}

\* setVote, for the Team the voter is on. A vote that stands changes its nominee.
SetVote(u, c, nominee) ==
    /\ stage = "live"
    /\ nominee # u
    /\ \E t \in Made :
        /\ OnTeam(t, u) /\ OnTeam(t, nominee)
        /\ votes' = IF VotesOf(u, c) = {} THEN votes \cup {[category |-> c, team |-> t, voter |-> u, nominee |-> nominee]}
                    ELSE (votes \ VotesOf(u, c)) \cup {[v EXCEPT !.nominee = nominee] : v \in VotesOf(u, c)}
    /\ Cardinality(votes') <= MaxVotes
    /\ UNCHANGED <<vars, place, oneEach, unmade>>

\* clearVote
ClearVote(u, c) ==
    /\ stage = "live"
    /\ \E t \in Made : OnTeam(t, u)
    /\ votes' = votes \ VotesOf(u, c)
    /\ UNCHANGED <<vars, place, oneEach, unmade>>

-----------------------------------------------------------------------------
(* The Teams change. *)

\* Mutation: only what the removed Player cast goes.
CastBy(m) == {v \in votes : v.team = m.team /\ v.voter = m.user}

\* removeTeamMember: the votes cast in the Team by and for its member.
VotesAbout(m) == {v \in votes : v.team = m.team /\ m.user \in {v.voter, v.nominee}}

\* Whoever this step takes off a Team, with whatever role they had.
TakenOff == {m \in members : \A n \in members' : n.team # m.team \/ n.user # m.user}

\* A step of the roster. deleteTeam leaves a Team's votes, whose foreign key then refuses to let the Team go.
VotersChange ==
    /\ RosterStep
    /\ votes' = votes \ UNION {VotesAbout(m) : m \in {n \in TakenOff : captain'[n.team] # None}}
    /\ \A v \in votes' : captain'[v.team] # None
    /\ UNCHANGED <<place, oneEach, unmade>>

\* The Draft, to which a Live Bingo can be moved back. Taking back a pick leaves the votes (undoLastPick).
VotersDrafted ==
    /\ DraftNext
    /\ unmade' = (unmade \/ \E m \in TakenOff : VotesAbout(m) # {})
    /\ UNCHANGED <<place, votes, oneEach>>

-----------------------------------------------------------------------------
(* computeWinners *)

\* A Team's counts: in each category, of each nominee.
Tally(t) ==
    [c \in Categories |-> [u \in Users |-> Cardinality({v \in votes : v.team = t /\ v.category = c /\ v.nominee = u})]]

Eligible(poll, c, won) == {u \in Users \ won : poll[c][u] > 0}
Leaders(poll, c, won) == {u \in Eligible(poll, c, won) : \A v \in Eligible(poll, c, won) : poll[c][v] <= poll[c][u]}

\* A tie for the lead has no margin.
Margin(poll, c, won) ==
    LET leaders == Leaders(poll, c, won)
        others == Eligible(poll, c, won) \ leaders
    IN  IF Cardinality(leaders) > 1 THEN 0
        ELSE Max({poll[c][u] : u \in leaders}) - Max({poll[c][u] : u \in others} \cup {0})

Tied(poll) == UNION {{c} \X Leaders(poll, c, {}) : c \in Categories}

\* The next to be awarded: by the biggest margin, and of those the first.
Best(poll, open, won) ==
    CHOOSE c \in open : \A d \in open \ {c} :
        \/ Margin(poll, c, won) > Margin(poll, d, won)
        \/ Margin(poll, c, won) = Margin(poll, d, won) /\ Before(c, d)

WhoWon(before) == {a[2] : a \in before}
StillOpen(poll, before) == {c \in Categories \ {a[1] : a \in before} : Eligible(poll, c, WhoWon(before)) # {}}

\* One round: of what can still be awarded, the best goes to its leaders.
OneRound(poll, before) ==
    IF StillOpen(poll, before) = {} THEN before
    ELSE before \cup LET c == Best(poll, StillOpen(poll, before), WhoWon(before)) IN {c} \X Leaders(poll, c, WhoWon(before))

\* awardOneEach: one category a round, the margins worked out anew without whoever has won.
OneEach(poll) ==
    LET awarded[round \in 0..Cardinality(Categories)] == IF round = 0 THEN {} ELSE OneRound(poll, awarded[round - 1])
    IN  awarded[Cardinality(Categories)]

\* Who wins what on a Team.
Winners(t) == IF oneEach THEN OneEach(Tally(t)) ELSE Tied(Tally(t))

-----------------------------------------------------------------------------

VotingNext ==
    \/ CreateCategory \/ SetOneEach
    \/ \E c \in Categories : DeleteCategory(c)
    \/ \E named \in SUBSET (1..MaxRows) : \E listed \in SetToSeqs(named) : ReorderCategories(listed)
    \/ \E m \in members, c \in Categories : ClearVote(m.user, c) \/ \E n \in members : SetVote(m.user, c, n.user)
    \/ VotersChange
    \/ VotersDrafted

\* A new Bingo has no categories.
SuperlativesInit ==
    /\ Init
    /\ place = <<>>
    /\ votes = {}
    /\ oneEach = FALSE
    /\ unmade = FALSE

SuperlativesSpec == SuperlativesInit /\ [][VotingNext]_superlativeVars

-----------------------------------------------------------------------------
(* Safety. *)

\* CONTEXT.md: "Each Team votes on its own members and gets its own winners", of whom nobody wins two if the Bingo says so.
\* Unless a pick was taken back (undoLastPick leaves the votes that removeTeamMember drops), a Team's winners are on it,
\* whoever was taken off after voting or being voted for. With one each, whoever had votes in a category and doesn't win it
\* either won another or had fewer than its winners, and nobody shares a category who alone had the most votes in another:
\* that one is theirs.
WinnersFair ==
    \A t \in Made :
        LET poll == Tally(t)
            winners == Winners(t)
            Won(u) == {c \in Categories : <<c, u>> \in winners}
        IN  /\ ~unmade => \A w \in winners : OnTeam(t, w[2])
            /\ oneEach =>
                /\ \A u \in Users : Cardinality(Won(u)) <= 1
                /\ \A c \in Categories, u \in Users : poll[c][u] > 0 /\ c \notin Won(u) =>
                    Won(u) # {} \/ \E w \in winners : w[1] = c /\ poll[c][w[2]] > poll[c][u]
                /\ \A w, x \in winners : w[1] = x[1] /\ w[2] # x[2] => \A c \in Categories : Leaders(poll, c, {}) # {w[2]}

=============================================================================
