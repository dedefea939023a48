------------------------------- MODULE Roster -------------------------------
(***************************************************************************)
(* Who takes part in a Bingo and with whom: Signups (signupService), Duo   *)
(* pairings and their requests (pairingService), and the Teams             *)
(* (teamService), as Players, Moderators and Admins change them at every   *)
(* stage. The Draft's own steps are in Draft, which extends this module:   *)
(* here they have made no picks.                                           *)
(*                                                                         *)
(* Every change is one transaction. A sign-up first asks the clan who its  *)
(* member is: it is decided by the stage its request read before that.     *)
(* Sign-ups are a second or more apart. RSNs, answers, buy-ins and what a  *)
(* request's closing is called are left out. applyCutReview makes some of  *)
(* these changes in one transaction.                                       *)
(***************************************************************************)
EXTENDS Naturals, FiniteSets

CONSTANTS
    Users,          \* the clan members
    Teams,          \* the ids Teams are made with
    Duo,            \* bingos.signupMode: fixed once anyone has signed up
    None,           \* no Captain: a Team that isn't there; and no Team
    MovesTo,        \* bound: the stages an Admin moves the Bingo to
    MaxAsks         \* bound: how many sign-ups are looked up at once

ASSUME DuoAssumption == Duo \in BOOLEAN
ASSUME NoneAssumption == None \notin Users \cup Teams
ASSUME BoundsAssumption ==
    /\ MovesTo \subseteq {"planning", "signup", "captains", "draft", "reveal", "live", "complete"}
    /\ MaxAsks \in Nat

VARIABLES
    stage,          \* bingos.stage
    active,         \* who has an active Signup
    earlier,        \* <<u, v>>: u's active Signup is older than v's (createdAt, then rowid)
    asks,           \* sign-ups waiting for the clan's answer
    pairs,          \* the accepted pairings
    requests,       \* the pending ones: <<requester, target>>
    captain,        \* teams.captainUserId, None for no such Team
    members,        \* the teamMembers rows
    picks,          \* the draftPicks rows
    started,        \* bingos.draftStarted
    remade          \* history: the Teams that Remove from Team took a lead off

rosterVars == <<stage, active, earlier, asks, pairs, requests, captain, members, remade>>
rvars == <<rosterVars, picks, started>>

Stages == {"planning", "signup", "captains", "draft", "reveal", "live", "complete"}
BeforeDraft == {"planning", "signup", "captains"}
TeamsSet == {"reveal", "live"}

\* A Player's own sign-up, and a Late signup by an Admin: onto a Team, or into the pool.
Asks == [user : Users, late : BOOLEAN, team : Teams \cup {None}]
Members == [team : Teams, user : Users, role : {"captain", "co", "player"}]
Picks == [number : Nat \ {0}, team : Teams, user : Users]

TypeOK ==
    /\ stage \in Stages
    /\ active \subseteq Users
    /\ earlier \subseteq active \X active
    /\ asks \subseteq Asks
    /\ pairs \subseteq SUBSET Users
    /\ requests \subseteq Users \X Users
    /\ captain \in [Teams -> Users \cup {None}]
    /\ members \subseteq Members
    /\ picks \subseteq Picks
    /\ started \in BOOLEAN
    /\ remade \subseteq Teams

RosterInit ==
    /\ stage = "planning"
    /\ active = {}
    /\ earlier = {}
    /\ asks = {}
    /\ pairs = {}
    /\ requests = {}
    /\ captain = [t \in Teams |-> None]
    /\ members = {}
    /\ picks = {}
    /\ started = FALSE
    /\ remade = {}

-----------------------------------------------------------------------------
(* What the code asks of the tables. *)

Made == {t \in Teams : captain[t] # None}
OnATeam(u) == \E m \in members : m.user = u
Leads(u) == \E m \in members : m.user = u /\ m.role # "player"
Paired(u) == \E p \in pairs : u \in p
Partners(u, v) == {u, v} \in pairs

\* Mutation: a drafted Player's membership is like any other.
NeverDrafted(t, u) == FALSE

Drafted(t, u) == \E p \in picks : p.team = t /\ p.user = u

\* teamsNotLedByPairs, of one Team: its Captain and co-captain are an accepted pair.
LedByPair(t) == \E m \in members : m.team = t /\ m.role = "co" /\ Partners(captain[t], m.user)

\* The pairings and requests left when these players' are gone.
PairsWithout(us) == {p \in pairs : p \cap us = {}}
RequestsWithout(us) == {r \in requests : r[1] \notin us /\ r[2] \notin us}

\* A Signup that goes: dissolveForUser ends its pairing and every request to or from it.
WithdrawSignupOf(u) ==
    /\ active' = active \ {u}
    /\ earlier' = {e \in earlier : e[1] # u /\ e[2] # u}
    /\ pairs' = PairsWithout({u})
    /\ requests' = RequestsWithout({u})

-----------------------------------------------------------------------------
(* Signups. *)

\* POST /signup up to its await: assertSignupOpen looks at this stage.
AskToSignUp(u) ==
    /\ stage = "signup"
    /\ asks' = asks \cup {[user |-> u, late |-> FALSE, team |-> None]}

\* POST /late-signups up to its await: into the pool while Signups are closed, onto a Team from the Draft on.
AskLateSignup(u, t) ==
    /\ stage \in {"captains", "draft", "reveal", "live"}
    /\ t = None <=> stage = "captains"
    /\ t # None => t \in Made
    /\ asks' = asks \cup {[user |-> u, late |-> TRUE, team |-> t]}

Ask(u) ==
    /\ Cardinality(asks) < MaxAsks
    /\ AskToSignUp(u) \/ \E t \in Teams \cup {None} : AskLateSignup(u, t)
    /\ UNCHANGED <<stage, active, earlier, pairs, requests, captain, members, picks, started, remade>>

\* Mutation: a Late signup that doesn't look for a Team of theirs.
LandsUnchecked(ask) ==
    /\ ask.user \notin active
    /\ ask.late => (ask.team # None => ask.team \in Made)

\* The checks of createSignup and createLateSignup that run after the await.
Lands(ask) ==
    /\ ask.user \notin active
    /\ ask.late => ~OnATeam(ask.user) /\ (ask.team # None => ask.team \in Made)

\* createSignup, createLateSignup. A Withdrawn Signup made again is as new as any.
SignUp(ask) ==
    /\ Lands(ask)
    /\ active' = active \cup {ask.user}
    /\ earlier' = earlier \cup (active \X {ask.user})
    /\ members' = IF ask.team = None THEN members
                  ELSE members \cup {[team |-> ask.team, user |-> ask.user, role |-> "player"]}
    /\ asks' = asks \ {ask}
    /\ UNCHANGED <<stage, pairs, requests, captain, picks, started, remade>>

\* A request whose member the clan doesn't know, or that one of the checks refuses.
Refused(ask) ==
    /\ asks' = asks \ {ask}
    /\ UNCHANGED <<stage, active, earlier, pairs, requests, captain, members, picks, started, remade>>

\* withdrawSignup, by the player and by a Moderator.
MayWithdraw(u) ==
    \/ stage \in {"signup", "captains"}
    \/ stage = "draft" /\ ~OnATeam(u)

Withdraw(u) ==
    /\ u \in active
    /\ MayWithdraw(u)
    /\ ~Leads(u)
    /\ WithdrawSignupOf(u)
    /\ UNCHANGED <<stage, asks, captain, members, picks, started, remade>>

-----------------------------------------------------------------------------
(* Pairing. *)

PlayersPair == Duo /\ stage = "signup"
ModsPair == Duo /\ stage \in BeforeDraft

\* Mutation: who already has a Team can still be paired.
UnspokenPairs(u) == ~Paired(u)

Unspoken(u) == ~Paired(u) /\ ~OnATeam(u)

\* Mutation: only the answered request is closed.
PairUpAlone(u, v) ==
    /\ pairs' = pairs \cup {{u, v}}
    /\ requests' = requests \ {<<u, v>>, <<v, u>>}

\* accept, adminPair: both halves are spoken for, so everything else either had open is closed.
PairUp(u, v) ==
    /\ pairs' = pairs \cup {{u, v}}
    /\ requests' = RequestsWithout({u, v})

PairingOnly == UNCHANGED <<stage, active, earlier, asks, captain, members, picks, started, remade>>

\* A request to someone who has asked the requester pairs the two at once.
RequestPairing(u, v) ==
    /\ PlayersPair
    /\ u # v
    /\ u \in active
    /\ Unspoken(u) /\ Unspoken(v)
    /\ \A w \in Users : <<u, w>> \notin requests
    /\ IF <<v, u>> \in requests THEN PairUp(u, v)
       ELSE requests' = requests \cup {<<u, v>>} /\ UNCHANGED pairs
    /\ PairingOnly

\* respondToRequest. It doesn't ask whether the requester has a partner by now.
AcceptRequest(u, v) ==
    /\ PlayersPair
    /\ <<u, v>> \in requests
    /\ v \in active /\ Unspoken(v)
    /\ u \in active /\ ~OnATeam(u)
    /\ PairUp(u, v)
    /\ PairingOnly

\* cancelRequest by the requester, and a respondToRequest that declines.
CloseRequest(u, v) ==
    /\ PlayersPair
    /\ <<u, v>> \in requests
    /\ requests' = requests \ {<<u, v>>}
    /\ UNCHANGED pairs
    /\ PairingOnly

\* Mutation: an accepted pairing is left like a request is cancelled.
MayLeaveAnyway(p) == p \in pairs

\* A pair that leads a Team stays one.
MayLeave(p) == \A u \in p : ~Leads(u)

LeavePairing(p) ==
    /\ PlayersPair
    /\ MayLeave(p)
    /\ pairs' = pairs \ {p}
    /\ UNCHANGED requests
    /\ PairingOnly

AdminPair(u, v) ==
    /\ ModsPair
    /\ u # v
    /\ {u, v} \subseteq active
    /\ Unspoken(u) /\ Unspoken(v)
    /\ PairUp(u, v)
    /\ PairingOnly

Unpair(p) ==
    /\ ModsPair
    /\ \A u \in p : ~OnATeam(u)
    /\ pairs' = pairs \ {p}
    /\ UNCHANGED requests
    /\ PairingOnly

-----------------------------------------------------------------------------
(* Teams. *)

\* The leads createTeam accepts: co is None for a Captain alone. Duo pairs stay together.
MayLead(c, co) ==
    /\ c \in active /\ ~OnATeam(c)
    /\ \A t \in Made : captain[t] # c
    /\ co # None => co # c /\ co \in active /\ ~OnATeam(co)
    /\ Duo => Paired(c)
    /\ Paired(c) => co # None /\ Partners(c, co)
    /\ co # None /\ Paired(co) => Partners(c, co)

\* createTeam, at any stage until the Draft is started.
CreateTeam(t, c, co) ==
    /\ ~started
    /\ captain[t] = None
    /\ MayLead(c, co)
    /\ captain' = [captain EXCEPT ![t] = c]
    /\ members' = members \cup {[team |-> t, user |-> c, role |-> "captain"]}
                          \cup {[team |-> t, user |-> u, role |-> "co"] : u \in {co} \ {None}}
    /\ UNCHANGED <<stage, active, earlier, asks, pairs, requests, picks, started, remade>>

\* Only a Team with no history can go. One with Submissions or adjustments stays: the Admin's choice here.
DeleteTeam(t) ==
    /\ ~started
    /\ t \in Made
    /\ \A p \in picks : p.team # t
    /\ captain' = [captain EXCEPT ![t] = None]
    /\ members' = {m \in members : m.team # t}
    /\ remade' = remade \ {t}
    /\ UNCHANGED <<stage, active, earlier, asks, pairs, requests, picks, started>>

AddTeamMember(t, u) ==
    /\ stage # "complete"
    /\ t \in Made
    /\ u \in active
    /\ ~OnATeam(u)
    /\ members' = members \cup {[team |-> t, user |-> u, role |-> "player"]}
    /\ UNCHANGED <<stage, active, earlier, asks, pairs, requests, captain, picks, started, remade>>

IsCaptain(m) == captain[m.team] = m.user

\* removeTeamMember until Board revealed: it only undoes a membership, and not a lead's or a drafted Player's.
UndoMembership(m) ==
    /\ stage \notin TeamsSet \cup {"complete"}
    /\ ~IsCaptain(m) /\ m.role # "co"
    /\ ~Drafted(m.team, m.user)
    /\ members' = members \ {m}
    /\ UNCHANGED <<stage, active, earlier, asks, pairs, requests, captain, picks, started, remade>>

\* Mutation: a co-captain named as the Captain keeps the role they had.
PromotedFromPlayer(m, r, role) == (members \ {m, r}) \cup {[r EXCEPT !.role = IF @ = "player" THEN role ELSE @]}

\* The rows once r takes this role over from m.
Promoted(m, r, role) == (members \ {m, r}) \cup {[r EXCEPT !.role = role]}

\* A lead names another member of the Team to take the role; a co-captain who moves up leaves theirs empty.
TakesOver(m, r) ==
    /\ r.team = m.team /\ r.user # m.user
    /\ IF IsCaptain(m)
       THEN /\ members' = Promoted(m, r, "captain")
            /\ captain' = [captain EXCEPT ![m.team] = r.user]
       ELSE /\ ~IsCaptain(r) /\ r.role # "captain"
            /\ members' = Promoted(m, r, "co")
            /\ UNCHANGED captain
    /\ remade' = remade \cup {m.team}

\* Remove from Team, of a lead and of anyone else: the Signup is Withdrawn too.
RemoveLead(m, r) ==
    /\ stage \in TeamsSet
    /\ IsCaptain(m) \/ m.role = "co"
    /\ TakesOver(m, r)
    /\ WithdrawSignupOf(m.user)
    /\ UNCHANGED <<stage, asks, picks, started>>

RemovePlayer(m) ==
    /\ stage \in TeamsSet
    /\ ~IsCaptain(m) /\ m.role # "co"
    /\ members' = members \ {m}
    /\ WithdrawSignupOf(m.user)
    /\ UNCHANGED <<stage, asks, captain, picks, started, remade>>

-----------------------------------------------------------------------------
(* The stage. *)

\* advanceStage, to any stage from any. Its Cut review only ever refuses the move to the Draft: the Admin's choice here.
MoveStage(to) ==
    /\ to # stage
    /\ to = "draft" /\ Duo /\ stage \in BeforeDraft => \A t \in Made : LedByPair(t)
    /\ stage' = to
    /\ UNCHANGED <<active, earlier, asks, pairs, requests, captain, members, picks, started, remade>>

SignupNext ==
    \/ \E u \in Users : Ask(u) \/ Withdraw(u)
    \/ \E ask \in asks : SignUp(ask) \/ Refused(ask)

PairingNext ==
    \/ \E u, v \in Users : RequestPairing(u, v) \/ AcceptRequest(u, v) \/ CloseRequest(u, v) \/ AdminPair(u, v)
    \/ \E p \in pairs : LeavePairing(p) \/ Unpair(p)

TeamNext ==
    \/ \E t \in Teams, c \in Users, co \in Users \cup {None} : CreateTeam(t, c, co)
    \/ \E t \in Teams : DeleteTeam(t) \/ \E u \in Users : AddTeamMember(t, u)
    \/ \E m \in members : UndoMembership(m) \/ RemovePlayer(m) \/ \E r \in members : RemoveLead(m, r)

RosterNext ==
    \/ SignupNext
    \/ PairingNext
    \/ TeamNext
    \/ \E to \in MovesTo : MoveStage(to)

RosterSpec == RosterInit /\ [][RosterNext]_rvars

-----------------------------------------------------------------------------
(* Safety. *)

\* teamService: "a user belongs to at most one team per bingo", which no table enforces: Captains, Late signups, Add
\* member and the Draft each look for another row first, some of them around an await.
OneTeam == \A m, n \in members : m.user = n.user => m = n

\* pairingService.accept: "both halves are spoken for". Pairs are of two signed-up players and share nobody, and no
\* request of a paired player stays open: respondToRequest counts on it. Only who is signed up asks.
PairsSpokenFor ==
    /\ \A p \in pairs : \E u, v \in active : u # v /\ p = {u, v}
    /\ \A p, q \in pairs : p \cap q # {} => p = q
    /\ \A r \in requests : r[1] \in active /\ ~Paired(r[1]) /\ ~Paired(r[2])

\* Who leads a Team is kept twice, on the Team and on its rows. The two agree: a Team has one Captain, who is on it, and
\* no more than one co-captain; no row is left of a Team that is gone.
LeadsAgree ==
    /\ \A m \in members : m.team \in Made /\ (m.role = "captain" <=> IsCaptain(m))
    /\ \A t \in Made : \E m \in members : m.team = t /\ m.role = "captain"
    /\ \A m, n \in members : m.team = n.team /\ m.role = "co" /\ n.role = "co" => m = n

\* teamsNotLedByPairs: "in a duo bingo every Team is led by a pair", however its leads and others try to leave, until a
\* Remove from Team takes one of them off.
DuoTeamsLedByPairs == Duo => \A t \in Made \ remade : LedByPair(t)
=============================================================================
