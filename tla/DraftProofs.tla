----------------------------- MODULE DraftProofs -----------------------------
(***************************************************************************)
(* What Roster keeps, and what Draft keeps with every operation of Roster  *)
(* between two picks, for any number of players, Teams and changes.        *)
(*                                                                         *)
(* Roster, in a solo and in a duo Bingo: Inv is inductive. Every operation *)
(* that puts someone on a Team looks for a membership first, which gives   *)
(* OneTeam; a lead's replacement is on that Team and no other because of   *)
(* it, which gives LeadsAgree; and since leads are on one Team and as such *)
(* can't leave their pairing, DuoTeamsLedByPairs. A request has two ends,  *)
(* neither of whom has a partner: what accepting one counts on.            *)
(*                                                                         *)
(* Draft: the order is safe because nothing can make or delete a Team once *)
(* the Draft is started (OrderInv). That drafted Players stay put, and     *)
(* duos go together, is kept until Board revealed (DraftedInv): nobody on  *)
(* a Team can be paired, so the pair of someone drafted is the pair it     *)
(* was. The shares of pairs and singles are kept while only picks change   *)
(* the pool (SharesInv): a pick takes as much off the pool as it puts on a *)
(* Team, whoever is cut next, and a Team on the clock has had at most one  *)
(* turn in each full round (ClockTurns).                                   *)
(*                                                                         *)
(* Superlatives: a vote stands only while both its ends are on the Team,   *)
(* unless a pick was taken back (VotesInv); how they are awarded is fair   *)
(* of any Team's counts (OneEachGivesFairly).                              *)
(*                                                                         *)
(* The Cut review: before anything is drafted markCuts leaves as many cut  *)
(* as the planner counts (CutsAreCounted), and what a plan is said to      *)
(* leave is counted again once it is applied (ToldIsCounted); a Team it    *)
(* removes gives back a pair because its leads are one, as long as nothing *)
(* has taken them off it (PlanInv). So a review that still fits the roster *)
(* still says how many are cut (CutInv).                                   *)
(***************************************************************************)
EXTENDS CutReview, Superlatives, FiniteSetTheorems, WellFoundedInduction, TLAPS

\* A player's own sign-up is never onto a Team.
OwnSignupsTeamless == \A ask \in asks : ~ask.late => ask.team = None

\* Nobody asks themselves.
RequestsApart == \A r \in requests : r[1] # r[2]

Inv ==
    /\ TypeOK /\ OwnSignupsTeamless /\ RequestsApart
    /\ OneTeam /\ PairsSpokenFor /\ LeadsAgree /\ DuoTeamsLedByPairs

-----------------------------------------------------------------------------
(* Which operations can disturb what. *)

\* Memberships change by a sign-up or an operation on Teams.
LEMMA MembersChange ==
    ASSUME [RosterNext]_rvars
    PROVE  UNCHANGED <<members, captain>> \/ (\E ask \in asks : SignUp(ask)) \/ TeamNext
<1>1. CASE SignupNext
  BY <1>1 DEF SignupNext, Ask, Withdraw, Refused
<1>2. CASE PairingNext
  BY <1>2 DEF PairingNext, RequestPairing, AcceptRequest, CloseRequest, AdminPair, LeavePairing, Unpair, PairingOnly
<1>3. CASE \E to \in MovesTo : MoveStage(to)
  BY <1>3 DEF MoveStage
<1>4. CASE UNCHANGED rvars
  BY <1>4 DEF rvars, rosterVars
<1>5. QED
  BY <1>1, <1>2, <1>3, <1>4 DEF RosterNext

\* A Signup goes with its pairing and requests, whoever ends it.
Leaves(u) ==
    /\ active' = active \ {u}
    /\ pairs' = PairsWithout({u})
    /\ requests' = RequestsWithout({u})

\* What the pairing rules read changes by a sign-up, a Signup that goes, or an operation on pairings.
LEMMA PairsChange ==
    ASSUME [RosterNext]_rvars
    PROVE  \/ UNCHANGED <<pairs, requests, active>>
           \/ \E ask \in asks : SignUp(ask)
           \/ \E u \in Users : Withdraw(u)
           \/ \E m \in members : RemovePlayer(m) \/ \E r \in members : RemoveLead(m, r)
           \/ PairingNext
<1>1. CASE SignupNext
  BY <1>1 DEF SignupNext, Ask, Refused
<1>2. CASE TeamNext
  BY <1>2 DEF TeamNext, CreateTeam, DeleteTeam, AddTeamMember, UndoMembership
<1>3. CASE \E to \in MovesTo : MoveStage(to)
  BY <1>3 DEF MoveStage
<1>4. CASE UNCHANGED rvars
  BY <1>4 DEF rvars, rosterVars
<1>5. QED
  BY <1>1, <1>2, <1>3, <1>4 DEF RosterNext

LEMMA Leaving ==
    ASSUME NEW u, \/ Withdraw(u)
                  \/ \E m \in members : m.user = u /\ (RemovePlayer(m) \/ \E r \in members : RemoveLead(m, r))
    PROVE  Leaves(u)
BY DEF Leaves, Withdraw, RemovePlayer, RemoveLead, WithdrawSignupOf

\* A member who takes a role over keeps their Team: the rows are those of before but the leaver's, with r's role changed.
LEMMA TakeoverRows ==
    ASSUME TypeOK, NEW m \in members, NEW r \in members, NEW role \in {"captain", "co"}
    PROVE  /\ Promoted(m, r, role) = (members \ {m, r}) \cup {[team |-> r.team, user |-> r.user, role |-> role]}
           /\ Promoted(m, r, role) \subseteq Members
<1>1. r \in Members
  BY DEF TypeOK
<1>2. [r EXCEPT !.role = role] = [team |-> r.team, user |-> r.user, role |-> role]
  BY <1>1 DEF Members
<1>3. [team |-> r.team, user |-> r.user, role |-> role] \in Members
  BY <1>1 DEF Members
<1>4. QED
  BY <1>2, <1>3 DEF Promoted, TypeOK

-----------------------------------------------------------------------------
(* Types. *)

LEMMA WithdrawTyped ==
    ASSUME TypeOK, NEW u, WithdrawSignupOf(u)
    PROVE  /\ active' \subseteq Users
           /\ earlier' \subseteq active' \X active'
           /\ pairs' \subseteq SUBSET Users
           /\ requests' \subseteq Users \X Users
<1>1. ASSUME NEW e \in earlier' PROVE e \in active' \X active'
  <2>1. e \in active \X active /\ e[1] # u /\ e[2] # u
    BY <1>1 DEF TypeOK, WithdrawSignupOf
  <2>2. QED
    BY <2>1 DEF WithdrawSignupOf
<1>2. QED
  BY <1>1 DEF TypeOK, WithdrawSignupOf, PairsWithout, RequestsWithout

LEMMA PairUpTyped ==
    ASSUME TypeOK, NEW u \in Users, NEW v \in Users, PairUp(u, v)
    PROVE  pairs' \subseteq SUBSET Users /\ requests' \subseteq Users \X Users
BY DEF TypeOK, PairUp, RequestsWithout

LEMMA SignupTyped == ASSUME TypeOK, SignupNext PROVE TypeOK'
<1>1. CASE \E u \in Users : Ask(u)
  <2>1. PICK u \in Users : Ask(u)
    BY <1>1
  <2>2. \A late \in BOOLEAN, t \in Teams \cup {None} : [user |-> u, late |-> late, team |-> t] \in Asks
    BY DEF Asks
  <2>3. \E late \in BOOLEAN, t \in Teams \cup {None} : asks' = asks \cup {[user |-> u, late |-> late, team |-> t]}
    BY <2>1, Zenon DEF Ask, AskToSignUp, AskLateSignup
  <2>4. asks' \subseteq Asks
    BY <2>2, <2>3 DEF TypeOK
  <2>5. QED
    BY <2>1, <2>4 DEF Ask, TypeOK
<1>2. CASE \E u \in Users : Withdraw(u)
  <2>1. PICK u \in Users : Withdraw(u)
    BY <1>2
  <2>2. QED
    BY <2>1, WithdrawTyped DEF Withdraw, TypeOK
<1>3. CASE \E ask \in asks : SignUp(ask)
  <2>1. PICK ask \in asks : SignUp(ask)
    BY <1>3
  <2>2. ask.user \in Users /\ ask.team \in Teams \cup {None}
    BY DEF TypeOK, Asks
  <2>3. earlier' \subseteq active' \X active' /\ active' \subseteq Users
    BY <2>1, <2>2 DEF SignUp, TypeOK
  <2>4. members' \subseteq Members
    BY <2>1, <2>2 DEF SignUp, TypeOK, Members
  <2>5. QED
    BY <2>1, <2>3, <2>4 DEF SignUp, TypeOK
<1>4. CASE \E ask \in asks : Refused(ask)
  BY <1>4 DEF Refused, TypeOK
<1>5. QED
  BY <1>1, <1>2, <1>3, <1>4 DEF SignupNext

LEMMA PairingTyped == ASSUME TypeOK, PairingNext PROVE TypeOK'
<1>1. PairingOnly => stage' \in Stages /\ active' \subseteq Users /\ earlier' \subseteq active' \X active'
                     /\ asks' \subseteq Asks /\ captain' \in [Teams -> Users \cup {None}] /\ members' \subseteq Members
                     /\ picks' \subseteq Picks /\ started' \in BOOLEAN /\ remade' \subseteq Teams
  BY DEF PairingOnly, TypeOK
<1>2. PairingOnly /\ pairs' \subseteq SUBSET Users /\ requests' \subseteq Users \X Users
  <2>1. ASSUME NEW u \in Users, NEW v \in Users, RequestPairing(u, v) \/ AcceptRequest(u, v) \/ AdminPair(u, v)
        PROVE  PairingOnly /\ pairs' \subseteq SUBSET Users /\ requests' \subseteq Users \X Users
    <3>1. CASE PairUp(u, v)
      BY <2>1, <3>1, PairUpTyped DEF RequestPairing, AcceptRequest, AdminPair
    <3>2. CASE ~PairUp(u, v)
      BY <2>1, <3>2 DEF RequestPairing, AcceptRequest, AdminPair, TypeOK
    <3>3. QED
      BY <3>1, <3>2
  <2>2. ASSUME NEW u \in Users, NEW v \in Users, CloseRequest(u, v)
        PROVE  PairingOnly /\ pairs' \subseteq SUBSET Users /\ requests' \subseteq Users \X Users
    BY <2>2 DEF CloseRequest, TypeOK
  <2>3. ASSUME NEW p \in pairs, LeavePairing(p) \/ Unpair(p)
        PROVE  PairingOnly /\ pairs' \subseteq SUBSET Users /\ requests' \subseteq Users \X Users
    BY <2>3 DEF LeavePairing, Unpair, TypeOK
  <2>4. QED
    BY <2>1, <2>2, <2>3 DEF PairingNext
<1>3. QED
  BY <1>1, <1>2 DEF TypeOK

LEMMA TeamTyped == ASSUME TypeOK, TeamNext PROVE TypeOK'
<1>1. CASE \E t \in Teams, c \in Users, co \in Users \cup {None} : CreateTeam(t, c, co)
  <2>1. PICK t \in Teams, c \in Users, co \in Users \cup {None} : CreateTeam(t, c, co)
    BY <1>1
  <2>2. members' \subseteq Members
    BY <2>1 DEF CreateTeam, Members, TypeOK
  <2>3. captain' \in [Teams -> Users \cup {None}]
    BY <2>1 DEF CreateTeam, TypeOK
  <2>4. QED
    BY <2>1, <2>2, <2>3 DEF CreateTeam, TypeOK
<1>2. CASE \E t \in Teams : DeleteTeam(t)
  <2>1. PICK t \in Teams : DeleteTeam(t)
    BY <1>2
  <2>2. captain' \in [Teams -> Users \cup {None}]
    BY <2>1 DEF DeleteTeam, TypeOK
  <2>3. QED
    BY <2>1, <2>2 DEF DeleteTeam, TypeOK
<1>3. CASE \E t \in Teams, u \in Users : AddTeamMember(t, u)
  <2>1. PICK t \in Teams, u \in Users : AddTeamMember(t, u)
    BY <1>3
  <2>2. [team |-> t, user |-> u, role |-> "player"] \in Members
    BY DEF Members
  <2>3. QED
    BY <2>1, <2>2 DEF AddTeamMember, TypeOK
<1>4. CASE \E m \in members : UndoMembership(m)
  BY <1>4 DEF UndoMembership, TypeOK
<1>5. CASE \E m \in members : RemovePlayer(m)
  <2>1. PICK m \in members : RemovePlayer(m)
    BY <1>5
  <2>2. QED
    BY <2>1, WithdrawTyped DEF RemovePlayer, TypeOK
<1>6. CASE \E m, r \in members : RemoveLead(m, r)
  <2>1. PICK m \in members, r \in members : RemoveLead(m, r)
    BY <1>6
  <2>2. m.team \in Teams /\ r.user \in Users
    BY DEF TypeOK, Members
  <2>3. members' \subseteq Members
    BY <2>1, TakeoverRows DEF RemoveLead, TakesOver
  <2>4. captain' \in [Teams -> Users \cup {None}]
    BY <2>1, <2>2 DEF RemoveLead, TakesOver, TypeOK
  <2>5. remade' \subseteq Teams
    BY <2>1, <2>2 DEF RemoveLead, TakesOver, TypeOK
  <2>6. QED
    BY <2>1, <2>3, <2>4, <2>5, WithdrawTyped DEF RemoveLead, TypeOK
<1>7. QED
  BY <1>1, <1>2, <1>3, <1>4, <1>5, <1>6 DEF TeamNext

LEMMA Typed == ASSUME TypeOK, [RosterNext]_rvars PROVE TypeOK'
<1>1. CASE \E to \in MovesTo : MoveStage(to)
  BY <1>1, BoundsAssumption DEF MoveStage, TypeOK, Stages
<1>2. CASE UNCHANGED rvars
  BY <1>2 DEF rvars, rosterVars, TypeOK
<1>3. QED
  BY <1>1, <1>2, SignupTyped, PairingTyped, TeamTyped DEF RosterNext

-----------------------------------------------------------------------------
(* Sign-ups and requests. *)

LEMMA OwnSignupsStep == ASSUME OwnSignupsTeamless, [RosterNext]_rvars PROVE OwnSignupsTeamless'
<1>1. CASE \E u \in Users : Ask(u)
  <2>1. PICK u \in Users : Ask(u)
    BY <1>1
  <2>2. \E late \in BOOLEAN, t \in Teams \cup {None} :
            asks' = asks \cup {[user |-> u, late |-> late, team |-> t]} /\ (~late => t = None)
    BY <2>1, Zenon DEF Ask, AskToSignUp, AskLateSignup
  <2>3. QED
    BY <2>2 DEF OwnSignupsTeamless
<1>2. CASE asks' \subseteq asks
  BY <1>2 DEF OwnSignupsTeamless
<1>3. CASE SignupNext
  BY <1>1, <1>2, <1>3 DEF SignupNext, Withdraw, SignUp, Refused
<1>4. CASE PairingNext
  BY <1>2, <1>4 DEF PairingNext, RequestPairing, AcceptRequest, CloseRequest, AdminPair, LeavePairing, Unpair, PairingOnly
<1>5. CASE TeamNext
  BY <1>2, <1>5 DEF TeamNext, CreateTeam, DeleteTeam, AddTeamMember, UndoMembership, RemovePlayer, RemoveLead
<1>6. CASE UNCHANGED rvars \/ \E to \in MovesTo : MoveStage(to)
  BY <1>2, <1>6 DEF rvars, rosterVars, MoveStage
<1>7. QED
  BY <1>3, <1>4, <1>5, <1>6 DEF RosterNext

LEMMA RequestsApartStep == ASSUME RequestsApart, [RosterNext]_rvars PROVE RequestsApart'
<1>1. CASE requests' \subseteq requests
  BY <1>1 DEF RequestsApart
<1>2. CASE \E ask \in asks : SignUp(ask)
  BY <1>1, <1>2 DEF SignUp
<1>3. ASSUME NEW u, Leaves(u) PROVE RequestsApart'
  BY <1>1, <1>3 DEF Leaves, RequestsWithout
<1>4. CASE PairingNext
  <2>1. ASSUME NEW u \in Users, NEW v \in Users, RequestPairing(u, v) \/ AcceptRequest(u, v) \/ AdminPair(u, v)
        PROVE  RequestsApart'
    <3>1. CASE PairUp(u, v)
      BY <1>1, <3>1 DEF PairUp, RequestsWithout
    <3>2. CASE ~PairUp(u, v)
      <4>1. u # v /\ requests' = requests \cup {<<u, v>>}
        BY <2>1, <3>2 DEF RequestPairing, AcceptRequest, AdminPair
      <4>2. QED
        BY <4>1 DEF RequestsApart
    <3>3. QED
      BY <3>1, <3>2
  <2>2. ASSUME NEW u \in Users, NEW v \in Users, CloseRequest(u, v) PROVE RequestsApart'
    BY <1>1, <2>2 DEF CloseRequest
  <2>3. ASSUME NEW p \in pairs, LeavePairing(p) \/ Unpair(p) PROVE RequestsApart'
    BY <1>1, <2>3 DEF LeavePairing, Unpair
  <2>4. QED
    BY <1>4, <2>1, <2>2, <2>3 DEF PairingNext
<1>5. CASE UNCHANGED <<pairs, requests, active>>
  BY <1>1, <1>5
<1>6. QED
  BY <1>2, <1>3, <1>4, <1>5, PairsChange, Leaving

-----------------------------------------------------------------------------
(* Pairings. *)

\* The parts of PairsSpokenFor.
TwoActive == \A p \in pairs : \E u, v \in active : u # v /\ p = {u, v}
PairsApart == \A p, q \in pairs : p \cap q # {} => p = q
RequestsOpen == \A r \in requests : r[1] \in active /\ ~Paired(r[1]) /\ ~Paired(r[2])

LEMMA PairsParts == PairsSpokenFor <=> TwoActive /\ PairsApart /\ RequestsOpen
BY DEF PairsSpokenFor, TwoActive, PairsApart, RequestsOpen

LEMMA PairUpSpokenFor ==
    ASSUME PairsSpokenFor, NEW u \in active, NEW v \in active, u # v, ~Paired(u), ~Paired(v), PairUp(u, v), UNCHANGED active
    PROVE  PairsSpokenFor'
<1>1. TwoActive /\ PairsApart /\ RequestsOpen
  BY PairsParts
<1>2. TwoActive'
  BY <1>1 DEF TwoActive, PairUp
<1>3. PairsApart'
  <2>1. \A p \in pairs : u \notin p /\ v \notin p
    BY DEF Paired
  <2>2. SUFFICES ASSUME NEW p \in pairs', NEW q \in pairs', NEW w, w \in p, w \in q PROVE p = q
    BY DEF PairsApart
  <2>3. CASE w = u \/ w = v
    BY <2>1, <2>2, <2>3 DEF PairUp
  <2>4. CASE w # u /\ w # v
    <3>1. p \in pairs /\ q \in pairs
      BY <2>2, <2>4 DEF PairUp
    <3>2. QED
      BY <1>1, <2>2, <3>1 DEF PairsApart
  <2>5. QED
    BY <2>3, <2>4
<1>4. RequestsOpen'
  BY <1>1 DEF RequestsOpen, PairUp, Paired, RequestsWithout
<1>5. QED
  BY <1>2, <1>3, <1>4 DEF PairsSpokenFor, TwoActive, PairsApart, RequestsOpen

\* Fewer pairings and requests, among as many.
LEMMA FewerSpokenFor ==
    ASSUME PairsSpokenFor, pairs' \subseteq pairs, requests' \subseteq requests, active \subseteq active'
    PROVE  PairsSpokenFor'
<1>1. TwoActive /\ PairsApart /\ RequestsOpen
  BY PairsParts
<1>2. TwoActive'
  BY <1>1 DEF TwoActive
<1>3. PairsApart'
  BY <1>1 DEF PairsApart
<1>4. RequestsOpen'
  BY <1>1 DEF RequestsOpen, Paired
<1>5. QED
  BY <1>2, <1>3, <1>4 DEF PairsSpokenFor, TwoActive, PairsApart, RequestsOpen

LEMMA LeavesSpokenFor == ASSUME PairsSpokenFor, NEW u, Leaves(u) PROVE PairsSpokenFor'
<1>1. TwoActive /\ PairsApart /\ RequestsOpen
  BY PairsParts
<1>2. TwoActive'
  <2>1. ASSUME NEW p \in pairs' PROVE \E v, w \in active' : v # w /\ p = {v, w}
    <3>1. p \in pairs /\ p \cap {u} = {}
      BY <2>1 DEF Leaves, PairsWithout
    <3>2. PICK v \in active, w \in active : v # w /\ p = {v, w}
      BY <1>1, <3>1 DEF TwoActive
    <3>3. v # u /\ w # u
      BY <3>1, <3>2
    <3>4. QED
      BY <3>2, <3>3 DEF Leaves
  <2>2. QED
    BY <2>1 DEF TwoActive
<1>3. PairsApart'
  BY <1>1 DEF PairsApart, Leaves, PairsWithout
<1>4. RequestsOpen'
  BY <1>1 DEF RequestsOpen, Leaves, Paired, PairsWithout, RequestsWithout
<1>5. QED
  BY <1>2, <1>3, <1>4 DEF PairsSpokenFor, TwoActive, PairsApart, RequestsOpen

LEMMA PairsStep == ASSUME TypeOK, RequestsApart, PairsSpokenFor, [RosterNext]_rvars PROVE PairsSpokenFor'
<1>1. CASE UNCHANGED <<pairs, requests, active>>
  BY <1>1, FewerSpokenFor
<1>2. CASE \E ask \in asks : SignUp(ask)
  BY <1>2, FewerSpokenFor DEF SignUp
<1>3. ASSUME NEW u, Leaves(u) PROVE PairsSpokenFor'
  BY <1>3, LeavesSpokenFor
<1>4. CASE PairingNext
  <2>1. UNCHANGED active
    BY <1>4 DEF PairingNext, RequestPairing, AcceptRequest, CloseRequest, AdminPair, LeavePairing, Unpair, PairingOnly
  <2>2. ASSUME NEW u \in Users, NEW v \in Users, RequestPairing(u, v) PROVE PairsSpokenFor'
    <3>1. u # v /\ u \in active /\ ~Paired(u) /\ ~Paired(v)
      BY <2>2 DEF RequestPairing, Unspoken
    <3>2. CASE <<v, u>> \in requests
      <4>1. v \in active
        BY <3>2, PairsParts DEF RequestsOpen
      <4>2. PairUp(u, v)
        BY <2>2, <3>2 DEF RequestPairing
      <4>3. QED
        BY <2>1, <3>1, <4>1, <4>2, PairUpSpokenFor
    <3>3. CASE <<v, u>> \notin requests
      <4>1. requests' = requests \cup {<<u, v>>} /\ pairs' = pairs
        BY <2>2, <3>3 DEF RequestPairing
      <4>2. RequestsOpen'
        BY <2>1, <3>1, <4>1, PairsParts DEF RequestsOpen, Paired
      <4>3. TwoActive' /\ PairsApart'
        BY <2>1, <4>1, PairsParts DEF TwoActive, PairsApart
      <4>4. QED
        BY <4>2, <4>3 DEF PairsSpokenFor, TwoActive, PairsApart, RequestsOpen
    <3>4. QED
      BY <3>2, <3>3
  <2>3. ASSUME NEW u \in Users, NEW v \in Users, AcceptRequest(u, v) PROVE PairsSpokenFor'
    <3>1. <<u, v>> \in requests /\ u \in active /\ v \in active /\ ~Paired(v) /\ PairUp(u, v)
      BY <2>3 DEF AcceptRequest, Unspoken
    <3>2. u # v /\ ~Paired(u)
      BY <3>1, PairsParts DEF RequestsApart, RequestsOpen
    <3>3. QED
      BY <2>1, <3>1, <3>2, PairUpSpokenFor
  <2>4. ASSUME NEW u \in Users, NEW v \in Users, AdminPair(u, v) PROVE PairsSpokenFor'
    <3>1. u # v /\ u \in active /\ v \in active /\ ~Paired(u) /\ ~Paired(v) /\ PairUp(u, v)
      BY <2>4 DEF AdminPair, Unspoken
    <3>2. QED
      BY <2>1, <3>1, PairUpSpokenFor
  <2>5. ASSUME NEW u \in Users, NEW v \in Users, CloseRequest(u, v) PROVE PairsSpokenFor'
    BY <2>1, <2>5, FewerSpokenFor DEF CloseRequest
  <2>6. ASSUME NEW p \in pairs, LeavePairing(p) \/ Unpair(p) PROVE PairsSpokenFor'
    BY <2>1, <2>6, FewerSpokenFor DEF LeavePairing, Unpair
  <2>7. QED
    BY <1>4, <2>2, <2>3, <2>4, <2>5, <2>6 DEF PairingNext
<1>5. QED
  BY <1>1, <1>2, <1>3, <1>4, PairsChange, Leaving

-----------------------------------------------------------------------------
(* Teams. *)

Row(t, u, role) == [team |-> t, user |-> u, role |-> role]

\* A Late signup and Add member put someone on a Team there is, who has none.
Joins(t, u) ==
    /\ captain[t] # None
    /\ ~OnATeam(u)
    /\ members' = members \cup {Row(t, u, "player")}
    /\ UNCHANGED captain

\* A membership that is undone, or ended, is not a lead's.
Goes(m) ==
    /\ captain[m.team] # m.user /\ m.role # "co"
    /\ members' = members \ {m}
    /\ UNCHANGED captain

LEMMA MembershipSteps ==
    ASSUME TypeOK, OwnSignupsTeamless, [RosterNext]_rvars
    PROVE  \/ UNCHANGED <<members, captain>>
           \/ \E t \in Teams, u \in Users : Joins(t, u)
           \/ \E t \in Teams, c \in Users, co \in Users \cup {None} : CreateTeam(t, c, co)
           \/ \E t \in Teams : DeleteTeam(t)
           \/ \E m \in members : Goes(m)
           \/ \E m, r \in members : RemoveLead(m, r)
<1>1. ASSUME NEW ask \in asks, SignUp(ask)
      PROVE  UNCHANGED <<members, captain>> \/ \E t \in Teams, u \in Users : Joins(t, u)
  <2>1. CASE ask.team = None
    BY <1>1, <2>1 DEF SignUp
  <2>2. CASE ask.team # None
    <3>1. ask.team \in Teams /\ ask.user \in Users /\ ask.late
      BY <2>2 DEF TypeOK, Asks, OwnSignupsTeamless
    <3>2. Joins(ask.team, ask.user)
      BY <1>1, <2>2, <3>1 DEF SignUp, Lands, Made, Joins, Row
    <3>3. QED
      BY <3>1, <3>2
  <2>3. QED
    BY <2>1, <2>2
<1>2. ASSUME NEW t \in Teams, NEW u \in Users, AddTeamMember(t, u) PROVE Joins(t, u)
  BY <1>2 DEF AddTeamMember, Made, Joins, Row
<1>3. ASSUME NEW m \in members, UndoMembership(m) \/ RemovePlayer(m) PROVE Goes(m)
  BY <1>3 DEF UndoMembership, RemovePlayer, IsCaptain, Goes
<1>4. QED
  BY <1>1, <1>2, <1>3, MembersChange DEF TeamNext

\* What RemoveLead leaves: r has m's role, or the one m had as a co-captain, and m's rows are gone.
Replaces(m, r, role) ==
    /\ m \in members /\ r \in members /\ r.team = m.team /\ r.user # m.user
    /\ members' = (members \ {m, r}) \cup {Row(r.team, r.user, role)}
    /\ \/ role = "captain" /\ captain[m.team] = m.user /\ captain' = [captain EXCEPT ![m.team] = r.user]
       \/ role = "co" /\ captain[m.team] # m.user /\ captain[m.team] # r.user /\ m.role = "co" /\ UNCHANGED captain

LEMMA Replacing ==
    ASSUME TypeOK, NEW m \in members, NEW r \in members, RemoveLead(m, r)
    PROVE  \E role \in {"captain", "co"} : Replaces(m, r, role)
<1>1. CASE IsCaptain(m)
  <2>1. Replaces(m, r, "captain")
    BY <1>1, TakeoverRows DEF RemoveLead, TakesOver, IsCaptain, Replaces, Row
  <2>2. QED
    BY <2>1
<1>2. CASE ~IsCaptain(m)
  <2>1. Replaces(m, r, "co")
    BY <1>2, TakeoverRows DEF RemoveLead, TakesOver, IsCaptain, Replaces, Row
  <2>2. QED
    BY <2>1
<1>3. QED
  BY <1>1, <1>2

\* The rows a new Team starts with.
LEMMA Creating ==
    ASSUME NEW t \in Teams, NEW c \in Users, NEW co \in Users \cup {None}, CreateTeam(t, c, co)
    PROVE  /\ ~OnATeam(c)
           /\ co # None => co # c /\ ~OnATeam(co)
           /\ captain[t] = None
           /\ captain' = [captain EXCEPT ![t] = c]
           /\ \/ co = None /\ members' = members \cup {Row(t, c, "captain")}
              \/ co # None /\ members' = members \cup {Row(t, c, "captain"), Row(t, co, "co")}
<1>1. CASE co = None
  BY <1>1 DEF CreateTeam, MayLead, Row
<1>2. CASE co # None
  <2>1. {co} \ {None} = {co}
    BY <1>2
  <2>2. {[team |-> t, user |-> u, role |-> "co"] : u \in {co}} = {Row(t, co, "co")}
    BY DEF Row
  <2>3. QED
    BY <1>2, <2>1, <2>2 DEF CreateTeam, MayLead, Row
<1>3. QED
  BY <1>1, <1>2

LEMMA OneTeamStep == ASSUME TypeOK, OwnSignupsTeamless, OneTeam, [RosterNext]_rvars PROVE OneTeam'
<1>1. CASE members' \subseteq members
  BY <1>1 DEF OneTeam
<1>2. ASSUME NEW t \in Teams, NEW u \in Users, Joins(t, u) PROVE OneTeam'
  BY <1>2 DEF OneTeam, Joins, OnATeam, Row
<1>3. ASSUME NEW t \in Teams, NEW c \in Users, NEW co \in Users \cup {None}, CreateTeam(t, c, co) PROVE OneTeam'
  <2>1. ~OnATeam(c) /\ (co # None => co # c /\ ~OnATeam(co))
    BY <1>3, Creating
  <2>2. CASE members' = members \cup {Row(t, c, "captain")}
    BY <2>1, <2>2 DEF OneTeam, OnATeam, Row
  <2>3. CASE co # None /\ members' = members \cup {Row(t, c, "captain"), Row(t, co, "co")}
    BY <2>1, <2>3 DEF OneTeam, OnATeam, Row
  <2>4. QED
    BY <1>3, <2>2, <2>3, Creating
<1>4. ASSUME NEW m \in members, NEW r \in members, NEW role \in {"captain", "co"}, Replaces(m, r, role) PROVE OneTeam'
  BY <1>4 DEF OneTeam, Replaces, Row
<1>5. QED
  BY <1>1, <1>2, <1>3, <1>4, MembershipSteps, Replacing DEF DeleteTeam, Goes

\* The parts of LeadsAgree.
TeamsThere == \A m \in members : m.team \in Teams /\ captain[m.team] # None
CaptainsAgree == \A m \in members : m.role = "captain" <=> captain[m.team] = m.user
CaptainsOnTeam == \A t \in Teams : captain[t] # None => \E m \in members : m.team = t /\ m.user = captain[t]
OneCo == \A m, n \in members : m.team = n.team /\ m.role = "co" /\ n.role = "co" => m = n

LEMMA LeadsParts == LeadsAgree <=> TeamsThere /\ CaptainsAgree /\ CaptainsOnTeam /\ OneCo
<1>1. LeadsAgree => TeamsThere /\ CaptainsAgree /\ CaptainsOnTeam /\ OneCo
  BY DEF LeadsAgree, Made, IsCaptain, TeamsThere, CaptainsAgree, CaptainsOnTeam, OneCo
<1>2. TeamsThere /\ CaptainsAgree /\ CaptainsOnTeam /\ OneCo => LeadsAgree
  BY DEF LeadsAgree, Made, IsCaptain, TeamsThere, CaptainsAgree, CaptainsOnTeam, OneCo
<1>3. QED
  BY <1>1, <1>2

LEMMA LeadsPartsAfter == TeamsThere' /\ CaptainsAgree' /\ CaptainsOnTeam' /\ OneCo' => LeadsAgree'
BY DEF LeadsAgree, Made, IsCaptain, TeamsThere, CaptainsAgree, CaptainsOnTeam, OneCo

LEMMA LeadsStep ==
    ASSUME TypeOK, OwnSignupsTeamless, OneTeam, LeadsAgree, [RosterNext]_rvars
    PROVE  LeadsAgree'
<1>1. TeamsThere /\ CaptainsAgree /\ CaptainsOnTeam /\ OneCo
  BY LeadsParts
<1>2. captain \in [Teams -> Users \cup {None}]
  BY DEF TypeOK
<1>3. CASE UNCHANGED <<members, captain>>
  BY <1>1, <1>3, LeadsPartsAfter DEF TeamsThere, CaptainsAgree, CaptainsOnTeam, OneCo
<1>4. ASSUME NEW t \in Teams, NEW u \in Users, Joins(t, u) PROVE LeadsAgree'
  <2>1. captain[t] # u
    BY <1>1, <1>4 DEF Joins, OnATeam, CaptainsOnTeam
  <2>2. TeamsThere' /\ CaptainsOnTeam'
    BY <1>1, <1>4 DEF Joins, Row, TeamsThere, CaptainsOnTeam
  <2>3. CaptainsAgree' /\ OneCo'
    BY <1>1, <1>4, <2>1 DEF Joins, Row, CaptainsAgree, OneCo
  <2>4. QED
    BY <2>2, <2>3, LeadsPartsAfter
<1>5. ASSUME NEW t \in Teams, NEW c \in Users, NEW co \in Users \cup {None}, CreateTeam(t, c, co) PROVE LeadsAgree'
  <2>1. captain[t] = None /\ captain' = [captain EXCEPT ![t] = c] /\ c # None /\ (co # None => co # c)
    BY <1>5, Creating, NoneAssumption
  <2>2. \A m \in members : m.team # t
    BY <1>1, <2>1 DEF TeamsThere
  <2>3. captain'[t] = c /\ \A other \in Teams : other # t => captain'[other] = captain[other]
    BY <1>2, <2>1
  <2>4. \A m \in members' : m \in members \/ m = Row(t, c, "captain") \/ (co # None /\ m = Row(t, co, "co"))
    BY <1>5, Creating
  <2>5. members \subseteq members' /\ Row(t, c, "captain") \in members'
    BY <1>5, Creating
  <2>6. TeamsThere'
    BY <1>1, <2>1, <2>2, <2>3, <2>4 DEF TeamsThere, Row
  <2>7. CaptainsAgree'
    BY <1>1, <2>1, <2>2, <2>3, <2>4 DEF CaptainsAgree, TeamsThere, Row
  <2>8. CaptainsOnTeam'
    BY <1>1, <2>3, <2>5 DEF CaptainsOnTeam, Row
  <2>9. OneCo'
    BY <1>1, <2>2, <2>4 DEF OneCo, Row
  <2>10. QED
    BY <2>6, <2>7, <2>8, <2>9, LeadsPartsAfter
<1>6. ASSUME NEW t \in Teams, DeleteTeam(t) PROVE LeadsAgree'
  <2>1. captain'[t] = None /\ \A other \in Teams : other # t => captain'[other] = captain[other]
    BY <1>2, <1>6 DEF DeleteTeam
  <2>2. \A m : m \in members' <=> m \in members /\ m.team # t
    BY <1>6 DEF DeleteTeam
  <2>3. TeamsThere' /\ CaptainsAgree'
    BY <1>1, <2>1, <2>2 DEF TeamsThere, CaptainsAgree
  <2>4. CaptainsOnTeam' /\ OneCo'
    BY <1>1, <2>1, <2>2 DEF CaptainsOnTeam, OneCo
  <2>5. QED
    BY <2>3, <2>4, LeadsPartsAfter
<1>7. ASSUME NEW m \in members, Goes(m) PROVE LeadsAgree'
  <2>1. TeamsThere' /\ CaptainsAgree' /\ OneCo'
    BY <1>1, <1>7 DEF Goes, TeamsThere, CaptainsAgree, OneCo
  <2>2. CaptainsOnTeam'
    BY <1>1, <1>7 DEF Goes, CaptainsOnTeam
  <2>3. QED
    BY <2>1, <2>2, LeadsPartsAfter
<1>8. ASSUME NEW m \in members, NEW r \in members, NEW role \in {"captain", "co"}, Replaces(m, r, role) PROVE LeadsAgree'
  <2>1. /\ r.team = m.team /\ m.team \in Teams /\ r.user # m.user /\ r.user \in Users /\ r.user # None
        /\ members' = (members \ {m, r}) \cup {Row(m.team, r.user, role)}
    BY <1>8, NoneAssumption DEF Replaces, TypeOK, Members
  <2>2. \A n \in members : n # r => n.user # r.user
    BY DEF OneTeam
  <2>3. CASE role = "captain"
    <3>1. captain[m.team] = m.user /\ captain'[m.team] = r.user
          /\ \A other \in Teams : other # m.team => captain'[other] = captain[other]
      BY <1>2, <1>8, <2>1, <2>3 DEF Replaces
    <3>2. \A n \in members : n # m => n.user # m.user
      BY DEF OneTeam
    <3>3. TeamsThere'
      BY <1>1, <2>1, <3>1 DEF TeamsThere, Row
    <3>4. CaptainsAgree'
      BY <1>1, <2>1, <2>2, <2>3, <3>1, <3>2 DEF CaptainsAgree, TeamsThere, Row
    <3>5. CaptainsOnTeam'
      <4>1. SUFFICES ASSUME NEW t \in Teams, captain'[t] # None
                     PROVE  \E n \in members' : n.team = t /\ n.user = captain'[t]
        BY DEF CaptainsOnTeam
      <4>2. CASE t = m.team
        <5>1. Row(m.team, r.user, role) \in members'
          BY <2>1
        <5>2. Row(m.team, r.user, role).team = t /\ Row(m.team, r.user, role).user = captain'[t]
          BY <3>1, <4>2 DEF Row
        <5>3. QED
          BY <5>1, <5>2
      <4>3. CASE t # m.team
        <5>1. PICK n \in members : n.team = t /\ n.user = captain[t]
          BY <1>1, <3>1, <4>1, <4>3 DEF CaptainsOnTeam
        <5>2. n \in members'
          BY <2>1, <4>3, <5>1
        <5>3. QED
          BY <3>1, <4>3, <5>1, <5>2
      <4>4. QED
        BY <4>2, <4>3
    <3>6. OneCo'
      BY <1>1, <2>1, <2>3 DEF OneCo, Row
    <3>7. QED
      BY <3>3, <3>4, <3>5, <3>6, LeadsPartsAfter
  <2>4. CASE role = "co"
    <3>1. captain[m.team] # m.user /\ captain[m.team] # r.user /\ m.role = "co" /\ captain' = captain
      BY <1>8, <2>4 DEF Replaces
    <3>2. TeamsThere' /\ CaptainsAgree'
      BY <1>1, <2>1, <2>4, <3>1 DEF TeamsThere, CaptainsAgree, Row
    <3>3. CaptainsOnTeam'
      BY <1>1, <2>1, <3>1 DEF CaptainsOnTeam
    <3>4. OneCo'
      BY <1>1, <2>1, <2>4, <3>1 DEF OneCo, Row
    <3>5. QED
      BY <3>2, <3>3, <3>4, LeadsPartsAfter
  <2>5. QED
    BY <2>3, <2>4
<1>9. QED
  BY <1>3, <1>4, <1>5, <1>6, <1>7, <1>8, MembershipSteps, Replacing

-----------------------------------------------------------------------------
(* Duo Teams. *)

\* Both halves of the pair lead, and on that Team only.
LEMMA PairLeads ==
    ASSUME TypeOK, OneTeam, LeadsAgree, NEW t \in Made, NEW n \in members, n.team = t, n.role = "co"
    PROVE  /\ Leads(captain[t]) /\ Leads(n.user)
           /\ OnATeam(captain[t]) /\ OnATeam(n.user)
           /\ \A m \in members : m.user \in {captain[t], n.user} =>
                  m.team = t /\ (captain[t] = m.user \/ m.role = "co")
<1>1. PICK c \in members : c.team = t /\ c.role = "captain" /\ c.user = captain[t]
  <2>1. PICK c \in members : c.team = t /\ c.role = "captain"
    BY DEF LeadsAgree
  <2>2. c.user = captain[t]
    BY <2>1 DEF LeadsAgree, IsCaptain
  <2>3. QED
    BY <2>1, <2>2
<1>2. ASSUME NEW m \in members, m.user \in {captain[t], n.user} PROVE m = c \/ m = n
  BY <1>1, <1>2 DEF OneTeam
<1>3. QED
  BY <1>1, <1>2 DEF Leads, OnATeam

\* A step that keeps a Team's leads and their pairing keeps it led by a pair.
LEMMA StaysLed ==
    ASSUME NEW t \in Made, LedByPair(t), captain'[t] = captain[t],
           \A n \in members : n.team = t /\ n.role = "co" => n \in members',
           \A n \in members : n.team = t /\ n.role = "co" /\ {captain[t], n.user} \in pairs => {captain[t], n.user} \in pairs'
    PROVE  LedByPair(t)'
BY DEF LedByPair, Partners

LEMMA DuoStep ==
    ASSUME TypeOK, OwnSignupsTeamless, OneTeam, LeadsAgree, DuoTeamsLedByPairs, [RosterNext]_rvars, Duo,
           NEW t \in Teams, t \in Made', t \notin remade'
    PROVE  LedByPair(t)'
<1>1. captain \in [Teams -> Users \cup {None}] /\ captain'[t] # None
  BY DEF TypeOK, Made
<1>2. ASSUME NEW c \in Users, NEW co \in Users \cup {None}, CreateTeam(t, c, co) PROVE LedByPair(t)'
  <2>1. co # None /\ Partners(c, co) /\ UNCHANGED pairs
    BY <1>2 DEF CreateTeam, MayLead
  <2>2. captain'[t] = c /\ Row(t, co, "co") \in members'
    BY <1>1, <1>2, <2>1, Creating
  <2>3. Row(t, co, "co").team = t /\ Row(t, co, "co").role = "co" /\ Row(t, co, "co").user = co
    BY DEF Row
  <2>4. QED
    BY <2>1, <2>2, <2>3 DEF LedByPair, Partners
<1>3. CASE t \in Made /\ t \notin remade
  <2>1. LedByPair(t)
    BY <1>3 DEF DuoTeamsLedByPairs
  <2> DEFINE Co == {n \in members : n.team = t /\ n.role = "co"}
  <2>2. CASE captain'[t] = captain[t] /\ Co \subseteq members' /\ pairs \subseteq pairs'
    BY <1>3, <2>1, <2>2, StaysLed
  <2>3. ASSUME NEW u, Leaves(u), captain'[t] = captain[t], Co \subseteq members', \A n \in Co : u \notin {captain[t], n.user}
        PROVE  LedByPair(t)'
    <3>1. ASSUME NEW n \in Co, {captain[t], n.user} \in pairs PROVE {captain[t], n.user} \in pairs'
      BY <2>3, <3>1 DEF Leaves, PairsWithout
    <3>2. QED
      BY <1>3, <2>1, <2>3, <3>1, StaysLed
  <2>4. CASE SignupNext
    <3>1. UNCHANGED captain
      BY <2>4 DEF SignupNext, Ask, Withdraw, SignUp, Refused
    <3>2. Co \subseteq members'
      BY <2>4 DEF SignupNext, Ask, Withdraw, SignUp, Refused
    <3>3. CASE \E u \in Users : Withdraw(u)
      <4>1. PICK u \in Users : Withdraw(u)
        BY <3>3
      <4>2. \A n \in Co : u \notin {captain[t], n.user}
        BY <1>3, <4>1, PairLeads DEF Withdraw
      <4>3. QED
        BY <2>3, <3>1, <3>2, <4>1, <4>2, Leaving
    <3>4. CASE ~\E u \in Users : Withdraw(u)
      <4>1. UNCHANGED pairs
        BY <2>4, <3>4 DEF SignupNext, Ask, SignUp, Refused
      <4>2. QED
        BY <2>2, <3>1, <3>2, <4>1
    <3>5. QED
      BY <3>3, <3>4
  <2>5. CASE PairingNext
    <3>1. UNCHANGED <<captain, members>>
      BY <2>5 DEF PairingNext, RequestPairing, AcceptRequest, CloseRequest, AdminPair, LeavePairing, Unpair, PairingOnly
    <3>2. CASE \E p \in pairs : LeavePairing(p) \/ Unpair(p)
      <4>1. PICK p \in pairs : LeavePairing(p) \/ Unpair(p)
        BY <3>2
      <4>2. ASSUME NEW n \in Co, {captain[t], n.user} \in pairs PROVE {captain[t], n.user} \in pairs'
        <5>1. Leads(n.user) /\ OnATeam(n.user)
          BY <1>3, PairLeads
        <5>2. n.user \notin p
          BY <4>1, <5>1 DEF LeavePairing, MayLeave, Unpair
        <5>3. QED
          BY <4>1, <4>2, <5>2 DEF LeavePairing, Unpair
      <4>3. QED
        BY <1>3, <2>1, <3>1, <4>2, StaysLed
    <3>3. CASE ~\E p \in pairs : LeavePairing(p) \/ Unpair(p)
      <4>1. pairs \subseteq pairs'
        BY <2>5, <3>3 DEF PairingNext, RequestPairing, AcceptRequest, CloseRequest, AdminPair, PairUp
      <4>2. QED
        BY <2>2, <3>1, <4>1
    <3>4. QED
      BY <3>2, <3>3
  <2>6. CASE \E other \in Teams, c \in Users, co \in Users \cup {None} : CreateTeam(other, c, co)
    <3>1. PICK other \in Teams, c \in Users, co \in Users \cup {None} : CreateTeam(other, c, co)
      BY <2>6
    <3>2. other # t
      BY <1>3, <3>1, Creating DEF Made
    <3>3. captain'[t] = captain[t] /\ members \subseteq members' /\ UNCHANGED pairs
      BY <1>1, <3>1, <3>2 DEF CreateTeam
    <3>4. QED
      BY <2>2, <3>3
  <2>7. CASE \E other \in Teams : DeleteTeam(other)
    <3>1. PICK other \in Teams : DeleteTeam(other)
      BY <2>7
    <3>2. other # t
      BY <1>1, <3>1 DEF DeleteTeam
    <3>3. captain'[t] = captain[t] /\ Co \subseteq members' /\ UNCHANGED pairs
      BY <1>1, <3>1, <3>2 DEF DeleteTeam
    <3>4. QED
      BY <2>2, <3>3
  <2>8. CASE \E other \in Teams, u \in Users : AddTeamMember(other, u)
    BY <2>2, <2>8 DEF AddTeamMember
  <2>9. CASE \E m \in members : UndoMembership(m)
    BY <2>2, <2>9 DEF UndoMembership
  <2>10. CASE \E m \in members : RemovePlayer(m)
    <3>1. PICK m \in members : RemovePlayer(m)
      BY <2>10
    <3>2. captain[m.team] # m.user /\ m.role # "co"
      BY <3>1 DEF RemovePlayer, IsCaptain
    <3>3. \A n \in Co : m.user \notin {captain[t], n.user}
      BY <1>3, <3>2, PairLeads
    <3>4. captain'[t] = captain[t] /\ Co \subseteq members'
      BY <3>1, <3>2 DEF RemovePlayer
    <3>5. QED
      BY <2>3, <3>1, <3>3, <3>4, Leaving
  <2>11. CASE \E m, r \in members : RemoveLead(m, r)
    <3>1. PICK m \in members, r \in members : RemoveLead(m, r)
      BY <2>11
    <3>2. m.team # t
      BY <3>1 DEF RemoveLead, TakesOver
    <3>3. \A n \in Co : m.user \notin {captain[t], n.user}
      BY <1>3, <3>2, PairLeads
    <3>4. PICK role \in {"captain", "co"} : Replaces(m, r, role)
      BY <3>1, Replacing
    <3>5. captain'[t] = captain[t] /\ Co \subseteq members'
      BY <1>1, <3>2, <3>4 DEF Replaces
    <3>6. QED
      BY <2>3, <3>1, <3>3, <3>5, Leaving
  <2>12. CASE (\E to \in MovesTo : MoveStage(to)) \/ UNCHANGED rvars
    BY <2>2, <2>12 DEF MoveStage, rvars, rosterVars
  <2>13. QED
    BY <2>4, <2>5, <2>6, <2>7, <2>8, <2>9, <2>10, <2>11, <2>12 DEF RosterNext, TeamNext
<1>4. CASE t \in Made /\ t \in remade
  <2>1. \E other \in Teams : DeleteTeam(other) /\ other = t
    BY <1>4 DEF RosterNext, SignupNext, PairingNext, TeamNext, Ask, Withdraw, SignUp, Refused, RequestPairing, AcceptRequest,
        CloseRequest, AdminPair, LeavePairing, Unpair, PairingOnly, CreateTeam, DeleteTeam, AddTeamMember, UndoMembership,
        RemovePlayer, RemoveLead, TakesOver, MoveStage, rvars, rosterVars
  <2>2. QED
    BY <1>1, <2>1 DEF DeleteTeam
<1>5. CASE t \notin Made
  <2>1. captain[t] = None
    BY <1>5 DEF Made
  <2>2. captain'[t] # captain[t]
    BY <1>1, <2>1
  <2>3. ~UNCHANGED <<members, captain>> /\ (\A other \in Teams, u \in Users : ~Joins(other, u)) /\ (\A m \in members : ~Goes(m))
    BY <2>2 DEF Joins, Goes
  <2>4. \A other \in Teams : ~DeleteTeam(other)
    BY <1>1, <2>1, <2>2 DEF DeleteTeam
  <2>5. \A m, r \in members : ~RemoveLead(m, r)
    <3>1. SUFFICES ASSUME NEW m \in members, NEW r \in members, RemoveLead(m, r) PROVE FALSE
      OBVIOUS
    <3>2. captain[m.team] # None
      BY DEF LeadsAgree, Made
    <3>3. QED
      BY <1>1, <2>1, <2>2, <3>1, <3>2, Replacing DEF Replaces
  <2>6. PICK other \in Teams, c \in Users, co \in Users \cup {None} : CreateTeam(other, c, co)
    BY <2>3, <2>4, <2>5, MembershipSteps
  <2>7. other = t
    BY <1>1, <2>2, <2>6, Creating
  <2>8. QED
    BY <1>2, <2>6, <2>7
<1>6. QED
  BY <1>3, <1>4, <1>5

-----------------------------------------------------------------------------
(* The theorems. *)

LEMMA Initially == RosterInit => Inv
<1> SUFFICES ASSUME RosterInit PROVE Inv
  OBVIOUS
<1>1. captain = [t \in Teams |-> None] /\ Made = {}
  BY DEF RosterInit, Made
<1>2. TypeOK
  BY <1>1 DEF RosterInit, TypeOK, Stages
<1>3. OwnSignupsTeamless /\ RequestsApart /\ OneTeam
  BY DEF RosterInit, OwnSignupsTeamless, RequestsApart, OneTeam
<1>4. PairsSpokenFor
  BY DEF RosterInit, PairsSpokenFor
<1>5. LeadsAgree /\ DuoTeamsLedByPairs
  BY <1>1 DEF RosterInit, LeadsAgree, DuoTeamsLedByPairs
<1>6. QED
  BY <1>2, <1>3, <1>4, <1>5 DEF Inv

LEMMA Inductive == Inv /\ [RosterNext]_rvars => Inv'
<1> SUFFICES ASSUME Inv, [RosterNext]_rvars PROVE Inv'
  OBVIOUS
<1>1. TypeOK' /\ OwnSignupsTeamless' /\ RequestsApart'
  BY Typed, OwnSignupsStep, RequestsApartStep DEF Inv
<1>2. OneTeam' /\ PairsSpokenFor' /\ LeadsAgree'
  BY OneTeamStep, PairsStep, LeadsStep DEF Inv
<1>3. ASSUME Duo, NEW t \in Teams, t \in Made', t \notin remade' PROVE LedByPair(t)'
  BY <1>3, DuoStep DEF Inv
<1>4. DuoTeamsLedByPairs'
  <2>1. ASSUME NEW t \in (Made \ remade)' PROVE t \in Teams
    BY DEF Made
  <2>2. QED
    BY <1>3, <2>1 DEF DuoTeamsLedByPairs
<1>5. QED
  BY <1>1, <1>2, <1>4 DEF Inv

LEMMA Always == RosterSpec => []Inv
BY Initially, Inductive, PTL DEF RosterSpec

\* TypeOK: every table keeps its type, for any number of players and Teams; a Signup that goes leaves nobody older than it.
THEOREM Typing == RosterSpec => []TypeOK
<1>1. Inv => TypeOK
  BY DEF Inv
<1>2. QED
  BY <1>1, Always, PTL

\* OneTeam: whichever of the operations that put someone on a Team come in whatever order, around the clan lookup of a
\* sign-up too, nobody is on two Teams of a Bingo.
THEOREM OnOneTeam == RosterSpec => []OneTeam
<1>1. Inv => OneTeam
  BY DEF Inv
<1>2. QED
  BY <1>1, Always, PTL

\* PairsSpokenFor: pairs are of two signed-up players and share nobody, and a paired player's requests are closed, which
\* is what respondToRequest takes for granted of the requester.
THEOREM PairsHold == RosterSpec => []PairsSpokenFor
<1>1. Inv => PairsSpokenFor
  BY DEF Inv
<1>2. QED
  BY <1>1, Always, PTL

\* LeadsAgree: the Captain a Team names and the roles of its members' rows never part, whoever takes a role over.
THEOREM LeadsKept == RosterSpec => []LeadsAgree
<1>1. Inv => LeadsAgree
  BY DEF Inv
<1>2. QED
  BY <1>1, Always, PTL

\* DuoTeamsLedByPairs: a duo Bingo's Team stays led by a pair until Remove from Team takes one of its leads off.
THEOREM PairsLead == RosterSpec => []DuoTeamsLedByPairs
<1>1. Inv => DuoTeamsLedByPairs
  BY DEF Inv
<1>2. QED
  BY <1>1, Always, PTL

-----------------------------------------------------------------------------
(* Arithmetic. *)

LEMMA RoundAndPlace ==
    ASSUME NEW count \in Nat \ {0}, NEW n \in Nat \ {0}
    PROVE  /\ (n - 1) \div count \in Nat
           /\ (n - 1) % count = (n - 1) - count * ((n - 1) \div count)
           /\ (n - 1) % count \in 0..count - 1
           /\ (n + count - 1) \div count = ((n - 1) \div count) + 1
OBVIOUS

LEMMA SnakeInRange ==
    ASSUME NEW count \in Nat \ {0}, NEW n \in Nat \ {0}
    PROVE  SnakeIndex(count, n) \in 0..count - 1
BY RoundAndPlace DEF SnakeIndex

\* Within a round the snake goes one way.
LEMMA SnakeTurns ==
    ASSUME NEW count \in Nat \ {0}, NEW m \in Nat \ {0}, NEW n \in Nat \ {0}, m < n, (m - 1) \div count = (n - 1) \div count
    PROVE  IF ((m - 1) \div count) % 2 = 0 THEN SnakeIndex(count, m) < SnakeIndex(count, n)
           ELSE SnakeIndex(count, m) > SnakeIndex(count, n)
<1> DEFINE round == (m - 1) \div count
<1>1. round \in Nat
  BY RoundAndPlace
<1>2. (round + 1) % 2 = 1 <=> round % 2 = 0
  BY <1>1
<1>3. /\ (m - 1) % count = (m - 1) - count * round /\ (m - 1) % count \in 0..count - 1
      /\ (n - 1) % count = (n - 1) - count * round /\ (n - 1) % count \in 0..count - 1
      /\ (m + count - 1) \div count = round + 1
      /\ (n + count - 1) \div count = round + 1
  BY RoundAndPlace
<1>4. (m - 1) % count < (n - 1) % count
  <2>1. count * round \in Nat
    BY <1>1
  <2> HIDE DEF round
  <2> QED BY <1>3, <2>1
<1> HIDE DEF round
<1>5. SnakeIndex(count, m) = IF round % 2 = 0 THEN (m - 1) % count ELSE count - 1 - ((m - 1) % count)
  BY <1>2, <1>3 DEF SnakeIndex
<1>6. SnakeIndex(count, n) = IF round % 2 = 0 THEN (n - 1) % count ELSE count - 1 - ((n - 1) % count)
  BY <1>2, <1>3 DEF SnakeIndex
<1>7. IF round % 2 = 0 THEN SnakeIndex(count, m) < SnakeIndex(count, n) ELSE SnakeIndex(count, m) > SnakeIndex(count, n)
  BY <1>3, <1>4, <1>5, <1>6
<1> QED BY <1>7 DEF round

-----------------------------------------------------------------------------
(* Types. *)

LEMMA MadeCount == ASSUME IsFiniteSet(Teams) PROVE IsFiniteSet(Made) /\ TeamCount \in Nat /\ IsFiniteSet(Made)' /\ TeamCount' \in Nat
<1>1. Made \subseteq Teams /\ Made' \subseteq Teams
  BY DEF Made
<1> QED BY <1>1, FS_Subset, FS_CardinalityType DEF TeamCount

\* The Team on the clock is one of the Teams made.
LEMMA ClockTeam ==
    ASSUME IsFiniteSet(Teams), OrderReady, NextNumber \in Nat \ {0}
    PROVE  /\ OnTheClock \in Made
           /\ order[OnTheClock] = SnakeIndex(TeamCount, NextNumber) + 1
<1>1. TeamCount \in Nat /\ TeamCount >= 2
  BY MadeCount DEF OrderReady
<1>2. SnakeIndex(TeamCount, NextNumber) \in 0..TeamCount - 1
  BY <1>1, SnakeInRange
<1>3. SnakeIndex(TeamCount, NextNumber) + 1 \in 1..TeamCount
  <2> DEFINE count == TeamCount
             index == SnakeIndex(TeamCount, NextNumber)
  <2>1. count \in Nat /\ index \in 0..count - 1
    BY <1>1, <1>2
  <2> HIDE DEF count, index
  <2>2. index + 1 \in 1..count
    BY <2>1
  <2> QED BY <2>2 DEF count, index
<1>4. SnakeIndex(TeamCount, NextNumber) + 1 \in {order[t] : t \in Made}
  BY <1>3 DEF OrderReady
<1> HIDE DEF Made
<1> QED BY <1>4 DEF OnTheClock

\* The picks are numbered from 1 on.
Gapless == \E k \in Nat : Numbers = 1..k

LEMMA NextIsOneMore == ASSUME NEW k \in Nat, Numbers = 1..k PROVE NextNumber = k + 1 /\ (k # 0 => LastNumber = k)
<1>1. CASE k = 0
  BY <1>1 DEF NextNumber
<1>2. CASE k # 0
  <2>1. k \in Numbers /\ \A m \in Numbers : m <= k
    BY <1>2
  <2>2. LastNumber \in Numbers /\ \A m \in Numbers : m <= LastNumber
    BY <2>1 DEF LastNumber
  <2>3. LastNumber = k
    BY <2>1, <2>2
  <2> QED BY <1>2, <2>3 DEF NextNumber
<1> QED BY <1>1, <1>2

\* A pick puts its own number, the Team on the clock and one player or two in the rows.
Rows(n, t, us) == {[number |-> n, team |-> t, user |-> v] : v \in us}

LEMMA PickRows ==
    ASSUME NEW u \in Users, MakePick(u)
    PROVE  /\ picks' = picks \cup Rows(NextNumber, OnTheClock, PickedWith(u))
           /\ members' = members \cup {[team |-> OnTheClock, user |-> v, role |-> "player"] : v \in PickedWith(u)}
           /\ UNCHANGED <<stage, active, earlier, asks, pairs, requests, captain, started, remade, order>>
BY DEF MakePick, Rows, draftVars

-----------------------------------------------------------------------------
(* The order. *)

\* No Team is made or deleted once the Draft is started, so the order it was started with stands.
OrderInv ==
    /\ order \in [Teams -> Nat]
    /\ captain \in [Teams -> Users \cup {None}]
    /\ picks \subseteq Picks
    /\ picks # {} => started
    /\ started => OrderReady
    /\ Gapless
    /\ \A p \in picks : p.team \in Made /\ order[p.team] = SnakeIndex(TeamCount, p.number) + 1
    /\ \A p, q \in picks : p.number = q.number => p.team = q.team

\* The same Teams, in the same order, and nobody new drafted.
LEMMA SameOrder ==
    ASSUME OrderInv, Made' = Made, captain' \in [Teams -> Users \cup {None}], order' \in [Teams -> Nat],
           \A t \in Made : order'[t] = order[t], UNCHANGED <<picks, started>>
    PROVE  OrderInv'
<1>1. TeamCount' = TeamCount /\ {order'[t] : t \in Made'} = {order[t] : t \in Made}
  BY DEF TeamCount
<1>2. Gapless'
  BY DEF OrderInv, Gapless, Numbers
<1>3. OrderReady' <=> OrderReady
  BY <1>1 DEF OrderReady
<1>4. \A p \in picks' : p.team \in Made' /\ order'[p.team] = SnakeIndex(TeamCount', p.number) + 1
  BY <1>1 DEF OrderInv
<1> QED BY <1>2, <1>3, <1>4 DEF OrderInv

\* Before the Draft is started there are no picks, and anything may happen to Teams and order.
LEMMA NotStarted ==
    ASSUME OrderInv, ~started, captain' \in [Teams -> Users \cup {None}], order' \in [Teams -> Nat], UNCHANGED <<picks, started>>
    PROVE  OrderInv'
BY DEF OrderInv, Gapless, Numbers

LEMMA RosterKeepsPicks == ASSUME RosterNext PROVE UNCHANGED <<picks, started>>
<1>1. CASE SignupNext
  BY <1>1 DEF SignupNext, Ask, Withdraw, SignUp, Refused
<1>2. CASE PairingNext
  BY <1>2 DEF PairingNext, RequestPairing, AcceptRequest, CloseRequest, AdminPair, LeavePairing, Unpair, PairingOnly
<1>3. CASE TeamNext
  BY <1>3 DEF TeamNext, CreateTeam, DeleteTeam, AddTeamMember, UndoMembership, RemovePlayer, RemoveLead
<1>4. CASE \E to \in MovesTo : MoveStage(to)
  BY <1>4 DEF MoveStage
<1> QED BY <1>1, <1>2, <1>3, <1>4 DEF RosterNext

\* A lead who takes over is Captain of the same Team.
LEMMA RosterKeepsTeams == ASSUME TypeOK, OwnSignupsTeamless, RosterNext, started PROVE Made' = Made
<1>1. CASE UNCHANGED captain
  BY <1>1 DEF Made
<1>2. ASSUME NEW t \in Teams, NEW u \in Users, Joins(t, u) PROVE UNCHANGED captain
  BY <1>2 DEF Joins
<1>3. ASSUME NEW m \in members, Goes(m) PROVE UNCHANGED captain
  BY <1>3 DEF Goes
<1>4. ASSUME NEW t \in Teams, DeleteTeam(t) PROVE FALSE
  BY <1>4 DEF DeleteTeam
<1>5. ASSUME NEW t \in Teams, NEW c \in Users, NEW co \in Users \cup {None}, CreateTeam(t, c, co) PROVE FALSE
  BY <1>5 DEF CreateTeam
<1>6. ASSUME NEW m \in members, NEW r \in members, RemoveLead(m, r) PROVE Made' = Made
  <2>1. m.user \in Users /\ r.user \in Users /\ m.team \in Teams
    BY DEF TypeOK, Members
  <2>2. \/ UNCHANGED captain
        \/ captain[m.team] = m.user /\ captain' = [captain EXCEPT ![m.team] = r.user]
    BY <1>6 DEF RemoveLead, TakesOver, IsCaptain
  <2>3. captain \in [Teams -> Users \cup {None}] /\ m.user # None /\ r.user # None
    BY <2>1, NoneAssumption DEF TypeOK
  <2> QED BY <2>1, <2>2, <2>3 DEF Made
<1>7. UNCHANGED <<members, captain>> => UNCHANGED captain
  OBVIOUS
<1> QED BY <1>1, <1>2, <1>3, <1>4, <1>5, <1>6, <1>7, MembershipSteps

-----------------------------------------------------------------------------
(* Typing and pairs, around the roster's steps and the Draft's own. *)

BaseInv == TypeOK /\ OwnSignupsTeamless /\ RequestsApart /\ OneTeam /\ PairsSpokenFor /\ OrderInv

\* The rest of a Draft step leaves the sign-ups and pairs alone.
LEMMA PairsUntouched ==
    ASSUME OwnSignupsTeamless, RequestsApart, PairsSpokenFor, UNCHANGED <<asks, active, pairs, requests>>
    PROVE  OwnSignupsTeamless' /\ RequestsApart' /\ PairsSpokenFor'
BY DEF OwnSignupsTeamless, RequestsApart, PairsSpokenFor, Paired

LEMMA PickedFromPool ==
    ASSUME BaseInv, IsFiniteSet(Teams), NEW u \in Users, MakePick(u)
    PROVE  /\ OnTheClock \in Made /\ OnTheClock \in Teams
           /\ NextNumber \in Nat \ {0} /\ \A n \in Numbers : n < NextNumber
           /\ Numbers' = Numbers \cup {NextNumber} /\ Gapless'
           /\ order[OnTheClock] = SnakeIndex(TeamCount, NextNumber) + 1
           /\ u \in PickedWith(u) /\ PickedWith(u) \subseteq Pool /\ Pool \subseteq Users
           /\ started /\ OrderReady
<1>1. MayPick(u) /\ started /\ OrderReady /\ PickedWith(u) \subseteq Pool
  BY DEF MakePick, MayPick
<1>2. Pool \subseteq Users
  BY DEF BaseInv, TypeOK, Pool
<1>3. u \in PickedWith(u)
  BY DEF PickedWith, Paired
<1>4. PICK k \in Nat : Numbers = 1..k
  BY DEF BaseInv, OrderInv, Gapless
<1>5. NextNumber = k + 1
  BY <1>4, NextIsOneMore
<1>6. NextNumber \in Nat \ {0} /\ \A n \in Numbers : n < NextNumber
  BY <1>4, <1>5
<1>7. OnTheClock \in Made /\ order[OnTheClock] = SnakeIndex(TeamCount, NextNumber) + 1
  BY <1>1, <1>6, ClockTeam
<1>8. Numbers' = Numbers \cup {NextNumber}
  <2>1. \A r \in Rows(NextNumber, OnTheClock, PickedWith(u)) : r.number = NextNumber
    BY DEF Rows
  <2>2. [number |-> NextNumber, team |-> OnTheClock, user |-> u] \in Rows(NextNumber, OnTheClock, PickedWith(u))
    BY <1>3 DEF Rows
  <2>3. \E r \in Rows(NextNumber, OnTheClock, PickedWith(u)) : r.number = NextNumber
    BY <2>1, <2>2
  <2>4. picks' = picks \cup Rows(NextNumber, OnTheClock, PickedWith(u))
    BY PickRows
  <2>5. Numbers' = {p.number : p \in picks'}
    BY DEF Numbers
  <2> QED BY <2>1, <2>3, <2>4, <2>5 DEF Numbers
<1>9. Gapless'
  <2>1. Numbers' = 1..(k + 1) /\ k + 1 \in Nat
    BY <1>4, <1>5, <1>8
  <2> QED BY <2>1 DEF Gapless
<1>10. OnTheClock \in Teams
  BY <1>7 DEF Made
<1> QED BY <1>1, <1>2, <1>3, <1>6, <1>7, <1>8, <1>9, <1>10

LEMMA UndoneLast ==
    ASSUME BaseInv, UndoLastPick
    PROVE  /\ picks' = {p \in picks : p.number # LastNumber} /\ Gapless'
           /\ members' \subseteq members
           /\ UNCHANGED <<stage, active, earlier, asks, pairs, requests, captain, started, remade, order>>
<1>1. picks' = {p \in picks : p.number # LastNumber}
  BY DEF UndoLastPick, PicksNumbered
<1>2. PICK k \in Nat : Numbers = 1..k
  BY DEF BaseInv, OrderInv, Gapless
<1>3. k # 0
  <2>1. Numbers # {}
    BY DEF UndoLastPick, Numbers
  <2> QED BY <1>2, <2>1
<1>4. LastNumber = k
  BY <1>2, <1>3, NextIsOneMore
<1>5. Numbers' = Numbers \ {k}
  BY <1>1, <1>4 DEF Numbers
<1>6. Gapless'
  <2>1. Numbers' = 1..(k - 1) /\ k - 1 \in Nat
    BY <1>2, <1>3, <1>5
  <2> QED BY <2>1 DEF Gapless
<1> QED BY <1>1, <1>6 DEF UndoLastPick, draftVars

LEMMA MakePickKeepsBase == ASSUME BaseInv, IsFiniteSet(Teams), NEW u \in Users, MakePick(u) PROVE BaseInv'
<1> DEFINE n == NextNumber
           t == OnTheClock
           us == PickedWith(u)
<1>1. /\ t \in Made /\ t \in Teams /\ n \in Nat \ {0} /\ (\A m \in Numbers : m < n)
      /\ order[t] = SnakeIndex(TeamCount, n) + 1 /\ us \subseteq Pool /\ us \subseteq Users /\ Gapless' /\ started
  BY PickedFromPool
<1>2. /\ picks' = picks \cup Rows(n, t, us)
      /\ members' = members \cup {[team |-> t, user |-> v, role |-> "player"] : v \in us}
      /\ UNCHANGED <<stage, active, earlier, asks, pairs, requests, captain, started, remade, order>>
  BY PickRows
<1> HIDE DEF n, t, us
<1>3. \A r \in Rows(n, t, us) : r \in Picks /\ r.number = n /\ r.team = t
  BY <1>1 DEF Rows, Picks
<1>4. \A m \in {[team |-> t, user |-> v, role |-> "player"] : v \in us} : m \in Members /\ m.user \in us /\ m.team = t /\ m.role = "player"
  BY <1>1 DEF Members
<1>5. TypeOK'
  BY <1>2, <1>3, <1>4 DEF BaseInv, TypeOK
<1>6. OwnSignupsTeamless' /\ RequestsApart' /\ PairsSpokenFor'
  BY <1>2, PairsUntouched DEF BaseInv
<1>7. OneTeam'
  <2>1. \A m \in members : m.user \notin us
    BY <1>1 DEF Pool, OnATeam
  <2>2. \A m, o \in {[team |-> t, user |-> v, role |-> "player"] : v \in us} : m.user = o.user => m = o
    OBVIOUS
  <2> QED BY <1>2, <1>4, <2>1, <2>2 DEF BaseInv, OneTeam
<1>8. Made' = Made /\ TeamCount' = TeamCount
  BY <1>2 DEF Made, TeamCount
<1>9. \A p \in picks' : p.team \in Made' /\ order'[p.team] = SnakeIndex(TeamCount', p.number) + 1
  BY <1>1, <1>2, <1>3, <1>8 DEF BaseInv, OrderInv
<1>10. \A p, q \in picks' : p.number = q.number => p.team = q.team
  <2>1. \A p \in picks : p.number # n
    BY <1>1 DEF Numbers
  <2> QED BY <1>2, <1>3, <2>1 DEF BaseInv, OrderInv
<1>11. OrderReady' <=> OrderReady
  BY <1>2, <1>8 DEF OrderReady
<1>12. OrderInv'
  BY <1>1, <1>2, <1>5, <1>9, <1>10, <1>11 DEF BaseInv, OrderInv, TypeOK
<1> QED BY <1>5, <1>6, <1>7, <1>12 DEF BaseInv

LEMMA UndoKeepsBase == ASSUME BaseInv, UndoLastPick PROVE BaseInv'
<1>1. /\ picks' \subseteq picks /\ Gapless' /\ members' \subseteq members
      /\ UNCHANGED <<stage, active, earlier, asks, pairs, requests, captain, started, remade, order>>
  BY UndoneLast
<1>2. TypeOK'
  BY <1>1 DEF BaseInv, TypeOK
<1>3. OwnSignupsTeamless' /\ RequestsApart' /\ PairsSpokenFor'
  BY <1>1, PairsUntouched DEF BaseInv
<1>4. OneTeam'
  BY <1>1 DEF BaseInv, OneTeam
<1>5. Made' = Made /\ TeamCount' = TeamCount /\ (OrderReady' <=> OrderReady)
  BY <1>1 DEF Made, TeamCount, OrderReady
<1>6. OrderInv'
  BY <1>1, <1>5 DEF BaseInv, OrderInv
<1> QED BY <1>2, <1>3, <1>4, <1>6 DEF BaseInv

LEMMA NextKeepsBase == ASSUME IsFiniteSet(Teams), BaseInv, [Next]_vars PROVE BaseInv'
<1>1. CASE UNCHANGED <<rvars, order>>
  <2>1. [RosterNext]_rvars /\ UNCHANGED <<picks, started, captain, order>>
    BY <1>1 DEF rvars, rosterVars
  <2>2. Made' = Made
    BY <2>1 DEF Made
  <2>3. OrderInv'
    BY <2>1, <2>2, SameOrder DEF BaseInv, OrderInv
  <2> QED BY <2>1, <2>3, Typed, OwnSignupsStep, RequestsApartStep, OneTeamStep, PairsStep DEF BaseInv
<1>2. CASE RosterStep
  <2>1. RosterNext /\ order' = [t \in Teams |-> IF captain'[t] = None THEN 0 ELSE order[t]]
    BY <1>2 DEF RosterStep
  <2>2. TypeOK' /\ OwnSignupsTeamless' /\ RequestsApart' /\ OneTeam' /\ PairsSpokenFor'
    BY <2>1, Typed, OwnSignupsStep, RequestsApartStep, OneTeamStep, PairsStep DEF BaseInv
  <2>3. UNCHANGED <<picks, started>>
    BY <2>1, RosterKeepsPicks
  <2>4. captain' \in [Teams -> Users \cup {None}] /\ order' \in [Teams -> Nat]
    BY <2>1, <2>2 DEF BaseInv, OrderInv, TypeOK
  <2>5. CASE ~started
    BY <2>2, <2>3, <2>4, <2>5, NotStarted DEF BaseInv
  <2>6. CASE started
    <3>1. Made' = Made
      BY <2>1, <2>6, RosterKeepsTeams DEF BaseInv
    <3>2. \A t \in Made : order'[t] = order[t]
      BY <2>1, <3>1 DEF Made
    <3> QED BY <2>2, <2>3, <2>4, <3>1, <3>2, SameOrder DEF BaseInv
  <2> QED BY <2>5, <2>6
<1>3. ASSUME NEW newOrder \in [Teams -> 0..Cardinality(Teams)], NEW reveal \in BOOLEAN, OrderTeams(newOrder, reveal) PROVE BaseInv'
  <2>1. ~started /\ order' \in [Teams -> Nat] /\ UNCHANGED rvars
    BY <1>3 DEF OrderTeams, OrderEditable
  <2>2. [RosterNext]_rvars /\ UNCHANGED <<picks, started, captain>>
    BY <2>1 DEF rvars, rosterVars
  <2>3. OrderInv'
    BY <2>1, <2>2, NotStarted DEF BaseInv, OrderInv
  <2> QED BY <2>2, <2>3, Typed, OwnSignupsStep, RequestsApartStep, OneTeamStep, PairsStep DEF BaseInv
<1>4. CASE StartDraft
  <2>1. picks = {} /\ OrderReady /\ started' = TRUE /\ UNCHANGED <<rosterVars, picks, order>>
    BY <1>4 DEF StartDraft
  <2>2. TypeOK'
    BY <2>1 DEF BaseInv, TypeOK, rosterVars
  <2>3. OwnSignupsTeamless' /\ RequestsApart' /\ PairsSpokenFor'
    BY <2>1, PairsUntouched DEF BaseInv, rosterVars
  <2>4. OneTeam'
    BY <2>1 DEF BaseInv, OneTeam, rosterVars
  <2>5. Gapless' /\ (OrderReady' <=> OrderReady)
    BY <2>1 DEF BaseInv, OrderInv, Gapless, Numbers, OrderReady, TeamCount, Made, rosterVars
  <2>6. OrderInv'
    BY <2>1, <2>5 DEF BaseInv, OrderInv, rosterVars
  <2> QED BY <2>2, <2>3, <2>4, <2>6 DEF BaseInv
<1>5. CASE UndoLastPick
  BY <1>5, UndoKeepsBase
<1>6. ASSUME NEW u \in Users, MakePick(u) PROVE BaseInv'
  BY <1>6, MakePickKeepsBase
<1>7. CASE LockExpires \/ (\E mode \in CutModes : SetCutMode(mode)) \/ UNCHANGED vars
  BY <1>1, <1>7 DEF LockExpires, SetCutMode, vars, draftVars
<1> QED BY <1>2, <1>3, <1>4, <1>5, <1>6, <1>7 DEF Next, DraftNext

LEMMA InitIsBase == ASSUME Init PROVE BaseInv
<1>1. RosterInit /\ order = [t \in Teams |-> 0]
  BY DEF Init
<1>2. TypeOK /\ OwnSignupsTeamless /\ RequestsApart /\ OneTeam /\ PairsSpokenFor
  BY <1>1, Initially DEF Inv
<1>3. Numbers = 1..0
  BY <1>1 DEF RosterInit, Numbers
<1>4. OrderInv
  BY <1>1, <1>2, <1>3 DEF RosterInit, OrderInv, Gapless, TypeOK
<1> QED BY <1>2, <1>4 DEF BaseInv

LEMMA BaseHolds == ASSUME IsFiniteSet(Teams) PROVE Spec => []BaseInv
<1>1. Init => BaseInv
  BY InitIsBase
<1>2. BaseInv /\ [Next]_vars => BaseInv'
  BY NextKeepsBase
<1> QED BY <1>1, <1>2, PTL DEF Spec

\* The Draft is a snake through the order it was started with, without a gap in its numbers, whatever is done to sign-ups,
\* Teams and stage meanwhile and however many picks are taken back.
THEOREM DraftInOrder == ASSUME IsFiniteSet(Teams) PROVE Spec => []PicksInOrder
<1>1. BaseInv => PicksInOrder
  <2> SUFFICES ASSUME BaseInv PROVE PicksInOrder
    OBVIOUS
  <2>1. PICK k \in Nat : Numbers = 1..k
    BY DEF BaseInv, OrderInv, Gapless
  <2>2. Cardinality(Numbers) = k
    BY <2>1, FS_Interval
  <2>3. ASSUME NEW p \in picks, NEW q \in picks, p.number < q.number, Round(p.number) = Round(q.number)
        PROVE  IF Round(p.number) % 2 = 0 THEN order[p.team] < order[q.team] ELSE order[p.team] > order[q.team]
    <3>1. p.number \in Nat \ {0} /\ q.number \in Nat \ {0}
      BY DEF BaseInv, TypeOK, Picks
    <3>2. started /\ OrderReady
      BY DEF BaseInv, OrderInv
    <3>3. TeamCount \in Nat \ {0}
      BY <3>2, MadeCount DEF OrderReady
    <3> DEFINE a == SnakeIndex(TeamCount, p.number)
               b == SnakeIndex(TeamCount, q.number)
    <3>4. IF Round(p.number) % 2 = 0 THEN a < b ELSE a > b
      BY <2>3, <3>1, <3>3, SnakeTurns DEF Round
    <3>5. a \in Int /\ b \in Int
      BY <3>1, <3>3, SnakeInRange
    <3>6. order[p.team] = a + 1 /\ order[q.team] = b + 1
      BY DEF BaseInv, OrderInv
    <3> HIDE DEF a, b
    <3> QED BY <3>4, <3>5, <3>6
  <2>4. \A p, q \in picks : p.number = q.number => p.team = q.team
    BY DEF BaseInv, OrderInv
  <2> QED BY <2>1, <2>2, <2>3, <2>4 DEF PicksInOrder
<1> QED BY <1>1, BaseHolds, PTL

\* Nor does the Draft put anyone on a second Team.
THEOREM DraftOnOneTeam == ASSUME IsFiniteSet(Teams) PROVE Spec => []OneTeam
<1>1. BaseInv => OneTeam
  BY DEF BaseInv
<1> QED BY <1>1, BaseHolds, PTL

-----------------------------------------------------------------------------
(* The drafted, until Board revealed. *)

\* A Bingo that no Admin moves on to Board revealed or Live.
BeforeReveal == MovesTo \cap TeamsSet = {}

DraftedInv ==
    /\ stage \notin TeamsSet
    /\ remade = {}
    /\ \A p, q \in picks : p.user = q.user => p = q
    /\ DraftedStayPut
    /\ DuosDraftedTogether

\* Whoever is newly paired is on no Team.
LEMMA NewPairs ==
    ASSUME RosterNext, NEW d \in pairs', d \notin pairs
    PROVE  \A u \in d : ~OnATeam(u)
<1>1. CASE PairingNext
  <2>1. PICK u \in Users, v \in Users : (RequestPairing(u, v) \/ AcceptRequest(u, v) \/ AdminPair(u, v)) /\ pairs' = pairs \cup {{u, v}}
    BY <1>1 DEF PairingNext, RequestPairing, AcceptRequest, CloseRequest, AdminPair, LeavePairing, Unpair, PairUp
  <2>2. ~OnATeam(u) /\ ~OnATeam(v)
    BY <2>1 DEF RequestPairing, AcceptRequest, AdminPair, Unspoken
  <2> QED BY <2>1, <2>2
<1>2. CASE SignupNext
  BY <1>2 DEF SignupNext, Ask, Withdraw, WithdrawSignupOf, SignUp, Refused, PairsWithout
<1>3. CASE TeamNext
  BY <1>3 DEF TeamNext, CreateTeam, DeleteTeam, AddTeamMember, UndoMembership, RemovePlayer, RemoveLead, WithdrawSignupOf, PairsWithout
<1>4. CASE \E to \in MovesTo : MoveStage(to)
  BY <1>4 DEF MoveStage
<1> QED BY <1>1, <1>2, <1>3, <1>4 DEF RosterNext

\* A drafted Player's membership outlives every step of the roster.
LEMMA RosterKeepsDrafted ==
    ASSUME RosterNext, stage \notin TeamsSet, NEW p \in picks, NEW m \in members, m.team = p.team, m.user = p.user
    PROVE  m \in members'
<1>1. CASE SignupNext
  BY <1>1 DEF SignupNext, Ask, Withdraw, SignUp, Refused
<1>2. CASE PairingNext
  BY <1>2 DEF PairingNext, RequestPairing, AcceptRequest, CloseRequest, AdminPair, LeavePairing, Unpair, PairingOnly
<1>3. CASE TeamNext
  <2>1. ASSUME NEW t \in Teams, NEW c \in Users, NEW co \in Users \cup {None}, CreateTeam(t, c, co) PROVE m \in members'
    BY <2>1 DEF CreateTeam
  <2>2. ASSUME NEW t \in Teams, DeleteTeam(t) PROVE m \in members'
    BY <2>2 DEF DeleteTeam
  <2>3. ASSUME NEW t \in Teams, NEW u \in Users, AddTeamMember(t, u) PROVE m \in members'
    BY <2>3 DEF AddTeamMember
  <2>4. ASSUME NEW n \in members, UndoMembership(n) PROVE m \in members'
    BY <2>4 DEF UndoMembership, Drafted
  <2>5. ASSUME NEW n \in members, RemovePlayer(n) \/ \E r \in members : RemoveLead(n, r) PROVE FALSE
    BY <2>5 DEF RemovePlayer, RemoveLead
  <2> QED BY <1>3, <2>1, <2>2, <2>3, <2>4, <2>5 DEF TeamNext
<1>4. CASE \E to \in MovesTo : MoveStage(to)
  BY <1>4 DEF MoveStage
<1> QED BY <1>1, <1>2, <1>3, <1>4 DEF RosterNext

LEMMA RosterStaysBefore ==
    ASSUME BeforeReveal, RosterNext, stage \notin TeamsSet, remade = {}
    PROVE  stage' \notin TeamsSet /\ remade' = {}
<1>1. CASE SignupNext
  BY <1>1 DEF SignupNext, Ask, Withdraw, SignUp, Refused
<1>2. CASE PairingNext
  BY <1>2 DEF PairingNext, RequestPairing, AcceptRequest, CloseRequest, AdminPair, LeavePairing, Unpair, PairingOnly
<1>3. CASE TeamNext
  BY <1>3 DEF TeamNext, CreateTeam, DeleteTeam, AddTeamMember, UndoMembership, RemovePlayer, RemoveLead
<1>4. CASE \E to \in MovesTo : MoveStage(to)
  BY <1>4 DEF MoveStage, BeforeReveal
<1> QED BY <1>1, <1>2, <1>3, <1>4 DEF RosterNext

LEMMA RosterKeepsDraftedInv == ASSUME BeforeReveal, DraftedInv, RosterNext PROVE DraftedInv'
<1>1. UNCHANGED picks /\ stage' \notin TeamsSet /\ remade' = {}
  BY RosterKeepsPicks, RosterStaysBefore DEF DraftedInv
<1>2. \A p \in picks : \E m \in members : m.team = p.team /\ m.user = p.user
  BY DEF DraftedInv, DraftedStayPut
<1>3. DraftedStayPut'
  BY <1>1, <1>2, RosterKeepsDrafted DEF DraftedInv, DraftedStayPut
<1>4. DuosDraftedTogether'
  <2> SUFFICES ASSUME NEW d \in pairs', NEW p \in picks, p.user \in d, NEW u \in d
               PROVE  \E q \in picks : q.number = p.number /\ q.user = u
    BY <1>1 DEF DuosDraftedTogether
  <2>1. OnATeam(p.user)
    BY <1>2 DEF OnATeam
  <2>2. d \in pairs
    BY <2>1, NewPairs
  <2> QED BY <2>2 DEF DraftedInv, DuosDraftedTogether
<1> QED BY <1>1, <1>3, <1>4 DEF DraftedInv

\* Whoever is in a pair with someone picked is picked with them.
LEMMA PickedAsPair ==
    ASSUME PairsSpokenFor, NEW u, NEW d \in pairs, NEW v \in d, v \in PickedWith(u)
    PROVE  d = PickedWith(u)
<1>1. CASE Paired(u)
  <2>1. PickedWith(u) \in pairs
    BY <1>1 DEF PickedWith, Paired
  <2>2. d \cap PickedWith(u) # {}
    OBVIOUS
  <2> QED BY <2>1, <2>2 DEF PairsSpokenFor
<1>2. CASE ~Paired(u)
  <2>1. v = u
    BY <1>2 DEF PickedWith
  <2> QED BY <1>2, <2>1 DEF Paired
<1> QED BY <1>1, <1>2

LEMMA MakePickKeepsDrafted == ASSUME BaseInv, DraftedInv, NEW u \in Users, MakePick(u) PROVE DraftedInv'
<1> DEFINE n == NextNumber
           t == OnTheClock
           us == PickedWith(u)
<1>1. /\ picks' = picks \cup Rows(n, t, us)
      /\ members' = members \cup {[team |-> t, user |-> v, role |-> "player"] : v \in us}
      /\ UNCHANGED <<stage, pairs, remade>>
  BY PickRows
<1>2. \A p \in picks : p.user \notin us
  BY DEF MakePick, MayPick
<1>3. \A d \in pairs : \A v \in d : v \in us => d = us
  BY PickedAsPair DEF BaseInv
<1> HIDE DEF n, t, us
<1>4. /\ \A r \in Rows(n, t, us) : r = [number |-> n, team |-> t, user |-> r.user] /\ r.user \in us
      /\ \A v \in us : [number |-> n, team |-> t, user |-> v] \in Rows(n, t, us)
  BY DEF Rows
<1>5. \A p, q \in picks' : p.user = q.user => p = q
  BY <1>1, <1>2, <1>4, Zenon DEF DraftedInv
<1>6. DraftedStayPut'
  <2> SUFFICES ASSUME NEW p \in picks' PROVE \E m \in members' : m.team = p.team /\ m.user = p.user
    BY DEF DraftedStayPut
  <2>1. CASE p \in picks
    BY <1>1, <2>1 DEF DraftedInv, DraftedStayPut
  <2>2. CASE p \in Rows(n, t, us)
    <3>1. p.team = t /\ p.user \in us
      BY <1>4, <2>2
    <3>2. [team |-> t, user |-> p.user, role |-> "player"] \in members'
      BY <1>1, <3>1
    <3> QED BY <3>1, <3>2
  <2> QED BY <1>1, <2>1, <2>2
<1>7. DuosDraftedTogether'
  <2> SUFFICES ASSUME NEW d \in pairs, NEW p \in picks', p.user \in d, NEW v \in d
               PROVE  \E q \in picks' : q.number = p.number /\ q.user = v
    BY <1>1 DEF DuosDraftedTogether
  <2>1. CASE p \in picks
    BY <1>1, <2>1 DEF DraftedInv, DuosDraftedTogether
  <2>2. CASE p \in Rows(n, t, us)
    <3>1. p.number = n /\ v \in us
      BY <1>3, <1>4, <2>2
    <3>2. [number |-> n, team |-> t, user |-> v] \in picks'
      BY <1>1, <1>4, <3>1
    <3> QED BY <3>1, <3>2
  <2> QED BY <1>1, <2>1, <2>2
<1> QED BY <1>1, <1>5, <1>6, <1>7 DEF DraftedInv

LEMMA UndoKeepsDrafted == ASSUME BaseInv, DraftedInv, UndoLastPick PROVE DraftedInv'
<1>1. picks' = {p \in picks : p.number # LastNumber} /\ UNCHANGED <<stage, pairs, remade>>
  BY UndoneLast
<1>2. members' = {m \in members : \A p \in PicksNumbered(LastNumber) : m.team # p.team \/ m.user # p.user}
  BY DEF UndoLastPick
<1>3. DraftedStayPut'
  <2> SUFFICES ASSUME NEW q \in picks, q.number # LastNumber PROVE \E m \in members' : m.team = q.team /\ m.user = q.user
    BY <1>1 DEF DraftedStayPut
  <2>1. PICK m \in members : m.team = q.team /\ m.user = q.user
    BY DEF DraftedInv, DraftedStayPut
  <2>2. \A p \in PicksNumbered(LastNumber) : m.user # p.user
    BY <2>1 DEF PicksNumbered, DraftedInv
  <2> QED BY <1>2, <2>1, <2>2
<1>4. DuosDraftedTogether'
  BY <1>1 DEF DraftedInv, DuosDraftedTogether
<1> QED BY <1>1, <1>3, <1>4 DEF DraftedInv

LEMMA NextKeepsDrafted == ASSUME BeforeReveal, BaseInv, DraftedInv, [Next]_vars PROVE DraftedInv'
<1>1. CASE UNCHANGED <<stage, remade, picks, members, pairs>>
  BY <1>1 DEF DraftedInv, DraftedStayPut, DuosDraftedTogether
<1>2. CASE RosterStep
  BY <1>2, RosterKeepsDraftedInv DEF RosterStep
<1>3. CASE LockExpires \/ StartDraft \/ (\E mode \in CutModes : SetCutMode(mode)) \/ UNCHANGED vars
  BY <1>1, <1>3 DEF LockExpires, StartDraft, SetCutMode, vars, rvars, rosterVars
<1>4. CASE \E newOrder \in [Teams -> 0..Cardinality(Teams)], reveal \in BOOLEAN : OrderTeams(newOrder, reveal)
  BY <1>1, <1>4 DEF OrderTeams, rvars, rosterVars
<1> QED BY <1>2, <1>3, <1>4, MakePickKeepsDrafted, UndoKeepsDrafted DEF Next, DraftNext

LEMMA DraftedHolds == ASSUME IsFiniteSet(Teams), BeforeReveal PROVE Spec => []DraftedInv
<1>1. Init => DraftedInv
  BY DEF Init, RosterInit, DraftedInv, DraftedStayPut, DuosDraftedTogether, TeamsSet
<1>2. BaseInv /\ DraftedInv /\ [Next]_vars => DraftedInv'
  BY NextKeepsDrafted
<1> QED BY <1>1, <1>2, BaseHolds, PTL DEF Spec

\* Until Board revealed a drafted Player is on the Team that drafted them, whoever is taken off a Team, whichever Team is
\* deleted and whichever picks are taken back.
THEOREM DraftedStay == ASSUME IsFiniteSet(Teams), BeforeReveal PROVE Spec => []DraftedStayPut
<1>1. DraftedInv => DraftedStayPut
  BY DEF DraftedInv
<1> QED BY <1>1, DraftedHolds, PTL

\* A duo is drafted with one pick, and nobody is paired with someone drafted without them: not even when the Bingo goes
\* back to an earlier stage, where pairs are made.
THEOREM DuosStayTogether == ASSUME IsFiniteSet(Teams), BeforeReveal PROVE Spec => []DuosDraftedTogether
<1>1. DraftedInv => DuosDraftedTogether
  BY DEF DraftedInv
<1> QED BY <1>1, DraftedHolds, PTL

-----------------------------------------------------------------------------
(* Whoever is left can be picked. *)

\* A pair, or a single, is picked as such.
LEMMA PairIsPicked ==
    ASSUME PairsSpokenFor, NEW p \in PairUnits
    PROVE  \E u \in active : u \in p /\ PickedWith(u) = p
<1>1. p \in pairs /\ p \subseteq Pool
  BY DEF PairUnits
<1>2. PICK u, v \in active : u # v /\ p = {u, v}
  BY <1>1, PairsParts DEF TwoActive
<1>3. Paired(u) /\ \A q \in pairs : u \in q => q = p
  BY <1>1, <1>2, PairsParts DEF PairsApart, Paired
<1>4. PickedWith(u) = p
  BY <1>1, <1>2, <1>3 DEF PickedWith
<1> QED BY <1>2, <1>4

LEMMA SingleIsPicked ==
    ASSUME PoolIsWhole, NEW s \in SingleUnits
    PROVE  \E u \in Pool : s = {u} /\ PickedWith(u) = s
<1>1. PICK u \in Pool \ UNION PairUnits : s = {u}
  BY DEF SingleUnits
<1>2. ~Paired(u)
  <2> SUFFICES ASSUME NEW p \in pairs, u \in p PROVE FALSE
    BY DEF Paired
  <2>1. p \subseteq Pool
    BY <1>1 DEF PoolIsWhole
  <2> QED BY <1>1, <2>1 DEF PairUnits
<1> QED BY <1>1, <1>2 DEF PickedWith

LEMMA SomeoneIsTaken ==
    ASSUME NEW t, Available # {}
    PROVE  \/ AvailablePairs # {} /\ AvailablePairs \subseteq Takes(t)
           \/ AvailableSingles # {} /\ AvailableSingles \subseteq Takes(t)
<1>1. CASE AvailablePairs # {} /\ TakesPairs(t)
  BY <1>1 DEF Takes
<1>2. CASE AvailableSingles # {} /\ TakesSingles(t) /\ ~(AvailablePairs # {} /\ TakesPairs(t))
  BY <1>2 DEF Takes, PairsFirst
<1>3. (AvailablePairs # {} /\ TakesPairs(t)) \/ (AvailableSingles # {} /\ TakesSingles(t))
  BY DEF Available, TakesPairs, TakesSingles, NothingLeftFor
<1> QED BY <1>1, <1>2, <1>3

\* Whatever was changed in the middle of the Draft, the Team on the clock can pick someone while someone is left whom it may
\* (teamTakes, makePick).
THEOREM ClockPicks == ASSUME IsFiniteSet(Teams) PROVE Spec => []ClockCanPick
<1>1. BaseInv => ClockCanPick
  <2> SUFFICES ASSUME BaseInv, OnClock, PoolIsWhole PROVE \E u \in Users : MayPick(u)
    BY DEF ClockCanPick
  <2>1. active \subseteq Users /\ PairsSpokenFor /\ Pool \subseteq active
    BY DEF BaseInv, TypeOK, Pool
  <2>2. ASSUME NEW u \in active, PickedWith(u) \subseteq Pool, PickedWith(u) \in Takes(OnTheClock) PROVE MayPick(u)
    <3>1. stage = "draft" /\ started /\ OrderReady /\ ~locked
      BY DEF OnClock, BaseInv, OrderInv
    <3>2. \A p \in picks : p.user \notin PickedWith(u)
      BY <2>2 DEF PoolIsWhole
    <3> QED BY <2>2, <3>1, <3>2 DEF MayPick
  <2>3. ASSUME NEW p \in AvailablePairs, p \in Takes(OnTheClock) PROVE \E u \in Users : MayPick(u)
    <3>1. p \in PairUnits /\ p \subseteq Pool
      BY DEF AvailablePairs, PairUnits
    <3>2. PICK u \in active : u \in p /\ PickedWith(u) = p
      BY <2>1, <3>1, PairIsPicked
    <3> QED BY <2>1, <2>2, <2>3, <3>1, <3>2
  <2>4. ASSUME NEW s \in AvailableSingles, s \in Takes(OnTheClock) PROVE \E u \in Users : MayPick(u)
    <3>1. PICK u \in Pool : s = {u} /\ PickedWith(u) = s
      BY SingleIsPicked DEF AvailableSingles
    <3> QED BY <2>1, <2>2, <2>4, <3>1
  <2>5. Available # {}
    BY DEF OnClock
  <2> QED BY <2>3, <2>4, <2>5, SomeoneIsTaken
<1> QED BY <1>1, BaseHolds, PTL

-----------------------------------------------------------------------------
(* Who signed up first. *)

\* The active Signups are in one order.
EarlierOrder ==
    /\ \A u \in active : <<u, u>> \notin earlier
    /\ \A u, v, w \in active : <<u, v>> \in earlier /\ <<v, w>> \in earlier => <<u, w>> \in earlier
    /\ \A u, v \in active : u # v => <<u, v>> \in earlier \/ <<v, u>> \in earlier

LEMMA SignUpKeepsOrder == ASSUME TypeOK, EarlierOrder, NEW ask \in asks, SignUp(ask) PROVE EarlierOrder'
<1>1. PICK u : u \notin active /\ active' = active \cup {u} /\ earlier' = earlier \cup (active \X {u})
  BY DEF SignUp, Lands
<1>2. \A v, w : <<v, w>> \in earlier' <=> <<v, w>> \in earlier \/ (v \in active /\ w = u)
  BY <1>1
<1>3. \A v, w : <<v, w>> \in earlier => v \in active /\ w \in active
  BY DEF TypeOK
<1> QED BY <1>1, <1>2, <1>3 DEF EarlierOrder

LEMMA LeavesKeepsOrder == ASSUME EarlierOrder, NEW u, WithdrawSignupOf(u) PROVE EarlierOrder'
<1>1. \A v, w : <<v, w>> \in earlier' <=> <<v, w>> \in earlier /\ v # u /\ w # u
  BY DEF WithdrawSignupOf
<1>2. active' = active \ {u}
  BY DEF WithdrawSignupOf
<1> QED BY <1>1, <1>2 DEF EarlierOrder

LEMMA RosterKeepsOrder == ASSUME TypeOK, EarlierOrder, [RosterNext]_rvars PROVE EarlierOrder'
<1>1. CASE UNCHANGED <<active, earlier>>
  BY <1>1 DEF EarlierOrder
<1>2. CASE SignupNext
  BY <1>1, <1>2, SignUpKeepsOrder, LeavesKeepsOrder DEF SignupNext, Ask, Withdraw, Refused
<1>3. CASE PairingNext
  BY <1>1, <1>3 DEF PairingNext, RequestPairing, AcceptRequest, CloseRequest, AdminPair, LeavePairing, Unpair, PairingOnly
<1>4. CASE TeamNext
  BY <1>1, <1>4, LeavesKeepsOrder DEF TeamNext, CreateTeam, DeleteTeam, AddTeamMember, UndoMembership, RemovePlayer, RemoveLead
<1>5. CASE \E to \in MovesTo : MoveStage(to)
  BY <1>1, <1>5 DEF MoveStage
<1>6. CASE UNCHANGED rvars
  BY <1>1, <1>6 DEF rvars, rosterVars
<1> QED BY <1>2, <1>3, <1>4, <1>5, <1>6 DEF RosterNext

-----------------------------------------------------------------------------
(* The newest units. *)

\* A unit of the pool has a latest sign-up.
Latest(u, a) == u \in a /\ \A v \in a : v = u \/ <<v, u>> \in earlier

\* Units that share nobody, each with a latest sign-up.
UnitsApart(units) ==
    /\ \A a \in units : a \subseteq active /\ \E u : Latest(u, a)
    /\ \A a, b \in units : a # b => a \cap b = {}

LEMMA NewerOrder ==
    ASSUME EarlierOrder, NEW units, UnitsApart(units)
    PROVE  /\ \A a \in units : ~Newer(a, a)
           /\ \A a, b, c \in units : Newer(a, b) /\ Newer(b, c) => Newer(a, c)
           /\ \A a, b \in units : a # b => Newer(a, b) \/ Newer(b, a)
<1>1. ASSUME NEW a \in units PROVE ~Newer(a, a)
  BY DEF Newer, UnitsApart, EarlierOrder
<1>2. ASSUME NEW a \in units, NEW b \in units, NEW c \in units, Newer(a, b), Newer(b, c) PROVE Newer(a, c)
  <2>1. a \subseteq active /\ b \subseteq active /\ c \subseteq active
    BY DEF UnitsApart
  <2>2. PICK u \in a : \A v \in b : <<v, u>> \in earlier
    BY <1>2 DEF Newer
  <2>3. PICK w \in b : \A v \in c : <<v, w>> \in earlier
    BY <1>2 DEF Newer
  <2>4. \A v \in c : <<v, u>> \in earlier
    BY <2>1, <2>2, <2>3 DEF EarlierOrder
  <2> QED BY <2>2, <2>4 DEF Newer
<1>3. ASSUME NEW a \in units, NEW b \in units, a # b PROVE Newer(a, b) \/ Newer(b, a)
  <2>1. a \subseteq active /\ b \subseteq active /\ a \cap b = {}
    BY <1>3 DEF UnitsApart
  <2>2. PICK u : Latest(u, a)
    BY DEF UnitsApart
  <2>3. PICK w : Latest(w, b)
    BY DEF UnitsApart
  <2>4. u \in active /\ w \in active /\ u # w /\ u \in a /\ w \in b
    BY <2>1, <2>2, <2>3 DEF Latest
  <2>5. CASE <<w, u>> \in earlier
    <3>1. \A v \in b : <<v, u>> \in earlier
      BY <2>1, <2>3, <2>4, <2>5 DEF Latest, EarlierOrder
    <3> QED BY <2>4, <3>1 DEF Newer
  <2>6. CASE <<u, w>> \in earlier
    <3>1. \A v \in a : <<v, w>> \in earlier
      BY <2>1, <2>2, <2>4, <2>6 DEF Latest, EarlierOrder
    <3> QED BY <2>4, <3>1 DEF Newer
  <2> QED BY <2>4, <2>5, <2>6 DEF EarlierOrder
<1> QED BY <1>1, <1>2, <1>3

LEMMA SmallestOf ==
    ASSUME NEW S \in SUBSET Nat, S # {}
    PROVE  \E n \in S : \A m \in S : n <= m
<1>1. PICK n \in S : \A m \in S : ~(<<m, n>> \in OpToRel(<, Nat))
  BY WFMin, NatLessThanWellFounded
<1>2. ASSUME NEW m \in S PROVE n <= m
  <2>1. <<m, n>> \in Nat \X Nat /\ n \in Nat /\ m \in Nat
    OBVIOUS
  <2>2. ~(m < n)
    BY <1>1, <2>1 DEF OpToRel
  <2> QED BY <2>1, <2>2
<1> QED BY <1>2

\* The newest k of the units are all of them only if k is how many there are.
LEMMA AllAreNewest ==
    ASSUME EarlierOrder, NEW units, UnitsApart(units), IsFiniteSet(units), NEW k \in Nat, k <= Cardinality(units)
    PROVE  units \ Newest(units, k) = {} <=> k = Cardinality(units)
<1> DEFINE newer(a) == {b \in units : Newer(b, a)}
           size == Cardinality(units)
<1>1. size \in Nat
  BY FS_CardinalityType
<1>2. ASSUME NEW a \in units
      PROVE  IsFiniteSet(newer(a)) /\ Cardinality(newer(a)) \in Nat /\ Cardinality(newer(a)) < size
  <2>1. newer(a) \subseteq units /\ newer(a) # units
    BY NewerOrder
  <2>2. IsFiniteSet(newer(a)) /\ Cardinality(newer(a)) \in Nat /\ Cardinality(newer(a)) <= size /\ Cardinality(newer(a)) # size
    BY <2>1, FS_Subset, FS_CardinalityType
  <2> QED BY <1>1, <2>2
<1>3. CASE k = size
  <2>1. \A a \in units : a \in Newest(units, k)
    BY <1>2, <1>3 DEF Newest
  <2> QED BY <1>3, <2>1
<1>4. CASE k # size
  <2> DEFINE after == {size - Cardinality(newer(a)) : a \in units}
  <2>1. units # {}
    BY <1>1, <1>4, FS_EmptySet
  <2>2. after \subseteq Nat /\ after # {}
    <3>1. ASSUME NEW a \in units PROVE size - Cardinality(newer(a)) \in Nat
      <4> HIDE DEF newer, size
      <4> QED BY <1>1, <1>2
    <3> HIDE DEF newer, size
    <3> QED BY <2>1, <3>1
  <2>3. PICK n \in after : \A m \in after : n <= m
    <3> HIDE DEF after
    <3> QED BY <2>2, SmallestOf
  <2>4. PICK a \in units : n = size - Cardinality(newer(a))
    BY <2>3
  <2>5. \A c \in units : Cardinality(newer(c)) <= Cardinality(newer(a))
    <3> SUFFICES ASSUME NEW c \in units PROVE Cardinality(newer(c)) <= Cardinality(newer(a))
      OBVIOUS
    <3>1. size - Cardinality(newer(a)) <= size - Cardinality(newer(c))
      BY <2>3, <2>4
    <3>2. Cardinality(newer(a)) \in Nat /\ Cardinality(newer(c)) \in Nat
      BY <1>2
    <3> HIDE DEF newer, size
    <3> QED BY <1>1, <3>1, <3>2
  <2>6. ASSUME NEW c \in units, c # a, ~Newer(c, a) PROVE FALSE
    <3>1. Newer(a, c)
      BY <2>6, NewerOrder
    <3>2. newer(a) \subseteq newer(c) /\ a \in newer(c) /\ a \notin newer(a)
      BY <3>1, NewerOrder
    <3>3. newer(a) # newer(c)
      BY <3>2
    <3>4. Cardinality(newer(a)) <= Cardinality(newer(c)) /\ Cardinality(newer(a)) # Cardinality(newer(c))
      <4>1. IsFiniteSet(newer(c)) /\ newer(a) \in SUBSET newer(c)
        BY <1>2, <3>2
      <4> HIDE DEF newer
      <4> QED BY <3>3, <4>1, FS_Subset
    <3>5. Cardinality(newer(a)) \in Nat /\ Cardinality(newer(c)) \in Nat /\ Cardinality(newer(c)) <= Cardinality(newer(a))
      BY <1>2, <2>5
    <3> HIDE DEF newer
    <3> QED BY <3>4, <3>5
  <2>7. newer(a) = units \ {a}
    BY <2>6, NewerOrder
  <2>8. Cardinality(newer(a)) = size - 1
    BY <2>7, FS_RemoveElement
  <2>9. ~(Cardinality(newer(a)) < k)
    <3> HIDE DEF newer, size
    <3> QED BY <1>1, <1>4, <2>8 DEF size
  <2>10. a \notin Newest(units, k)
    BY <2>9 DEF Newest
  <2> QED BY <1>4, <2>10
<1> QED BY <1>3, <1>4

-----------------------------------------------------------------------------
(* Shares. *)

LEMMA DisjointUnion ==
    ASSUME NEW S, IsFiniteSet(S), NEW T, IsFiniteSet(T), S \cap T = {}
    PROVE  IsFiniteSet(S \cup T) /\ Cardinality(S \cup T) = Cardinality(S) + Cardinality(T)
<1>1. Cardinality(S \cap T) = 0
  BY FS_EmptySet
<1> QED BY <1>1, FS_Union, FS_CardinalityType

Share(f, D, t) == {d \in D : f[d] = t}

\* What each Team has, when none has more than s: no more than s each in all, and that just if each has s.
LEMMA SharesSum ==
    ASSUME NEW T, IsFiniteSet(T), NEW D, IsFiniteSet(D), NEW f \in [D -> T], NEW s \in Nat,
           \A t \in T : Cardinality(Share(f, D, t)) <= s
    PROVE  /\ Cardinality(D) <= Cardinality(T) * s
           /\ Cardinality(D) = Cardinality(T) * s <=> \A t \in T : Cardinality(Share(f, D, t)) = s
<1> USE DEF Share
<1> DEFINE Of(t) == {d \in D : f[d] = t}
           In(A) == {d \in D : f[d] \in A}
           Good(A) == /\ Cardinality(In(A)) <= Cardinality(A) * s
                      /\ Cardinality(In(A)) = Cardinality(A) * s <=> \A t \in A : Cardinality(Of(t)) = s
           bad == {Cardinality(A) : A \in {B \in SUBSET T : ~Good(B)}}
<1>1. \A A \in SUBSET T : IsFiniteSet(A) /\ Cardinality(A) \in Nat
  BY FS_Subset, FS_CardinalityType
<1>2. \A A \in SUBSET T : IsFiniteSet(In(A)) /\ Cardinality(In(A)) \in Nat
  <2> SUFFICES ASSUME NEW A \in SUBSET T PROVE IsFiniteSet(In(A)) /\ Cardinality(In(A)) \in Nat
    OBVIOUS
  <2>1. In(A) \in SUBSET D
    OBVIOUS
  <2> HIDE DEF In
  <2> QED BY <2>1, FS_Subset, FS_CardinalityType
<1>3. \A t \in T : IsFiniteSet(Of(t)) /\ Cardinality(Of(t)) \in Nat /\ Cardinality(Of(t)) <= s
  <2> SUFFICES ASSUME NEW t \in T PROVE IsFiniteSet(Of(t)) /\ Cardinality(Of(t)) \in Nat /\ Cardinality(Of(t)) <= s
    OBVIOUS
  <2>1. Of(t) \in SUBSET D /\ Cardinality(Of(t)) <= s
    OBVIOUS
  <2> HIDE DEF Of
  <2> QED BY <2>1, FS_Subset, FS_CardinalityType
<1>4. ASSUME NEW A \in SUBSET T, ~Good(A) PROVE FALSE
  <2>1. bad \subseteq Nat /\ bad # {}
    <3> HIDE DEF Good
    <3> QED BY <1>1, <1>4
  <2>2. PICK n \in bad : \A m \in bad : n <= m
    <3> HIDE DEF bad
    <3> QED BY <2>1, SmallestOf
  <2>3. PICK B \in SUBSET T : ~Good(B) /\ \A C \in SUBSET T : ~Good(C) => Cardinality(B) <= Cardinality(C)
    <3> HIDE DEF Good
    <3> QED BY <2>2
  <2>4. CASE B = {}
    <3>1. Cardinality(B) = 0
      BY <2>4, FS_EmptySet
    <3>2. In(B) = {}
      BY <2>4
    <3>3. Cardinality(In(B)) = 0
      <4> HIDE DEF In
      <4> QED BY <3>2, FS_EmptySet
    <3> HIDE DEF In
    <3> QED BY <2>3, <2>4, <3>1, <3>3
  <2>5. ASSUME NEW t \in B PROVE FALSE
    <3> DEFINE C == B \ {t}
    <3>1. IsFiniteSet(B) /\ Cardinality(B) \in Nat /\ C \in SUBSET T /\ t \notin C /\ t \in T
      BY <1>1
    <3>2. Cardinality(C) = Cardinality(B) - 1 /\ Cardinality(C) \in Nat
      <4>1. Cardinality(C) = Cardinality(B) - 1
        BY <3>1, FS_RemoveElement
      <4> QED BY <1>1, <3>1, <4>1
    <3>3. In(B) = In(C) \cup Of(t) /\ In(C) \cap Of(t) = {}
      BY <2>5
    <3>4. Good(C)
      <4> HIDE DEF Good, C
      <4>1. ~(Cardinality(B) <= Cardinality(C))
        BY <3>1, <3>2
      <4> QED BY <2>3, <3>1, <4>1
    <3>5. IsFiniteSet(In(C)) /\ IsFiniteSet(Of(t)) /\ Cardinality(In(C)) \in Nat /\ Cardinality(Of(t)) \in Nat /\ Cardinality(Of(t)) <= s
      <4> HIDE DEF In, Of, C
      <4> QED BY <1>2, <1>3, <3>1
    <3>6. Cardinality(In(B)) = Cardinality(In(C)) + Cardinality(Of(t))
      <4> HIDE DEF In, Of, C
      <4> QED BY <3>3, <3>5, DisjointUnion
    <3>7. Cardinality(B) * s = Cardinality(C) * s + s /\ Cardinality(C) * s \in Nat
      <4> DEFINE b == Cardinality(B)
                 c == Cardinality(C)
      <4>1. b \in Nat /\ c \in Nat /\ b = c + 1
        BY <3>1, <3>2
      <4> HIDE DEF b, c
      <4>2. b * s = c * s + s /\ c * s \in Nat
        BY <4>1
      <4> QED BY <4>2 DEF b, c
    <3>8. Cardinality(In(B)) <= Cardinality(B) * s
      <4> HIDE DEF In, Of, C
      <4> QED BY <3>4, <3>5, <3>6, <3>7
    <3>9. ASSUME Cardinality(In(B)) = Cardinality(B) * s PROVE \A u \in B : Cardinality(Of(u)) = s
      <4>1. Cardinality(In(C)) = Cardinality(C) * s /\ Cardinality(Of(t)) = s
        <5> HIDE DEF In, Of, C
        <5> QED BY <3>4, <3>5, <3>6, <3>7, <3>9
      <4>2. \A u \in C : Cardinality(Of(u)) = s
        BY <3>4, <4>1
      <4> HIDE DEF Of
      <4> QED BY <4>1, <4>2
    <3>10. ASSUME \A u \in B : Cardinality(Of(u)) = s PROVE Cardinality(In(B)) = Cardinality(B) * s
      <4>1. Cardinality(In(C)) = Cardinality(C) * s /\ Cardinality(Of(t)) = s
        BY <2>5, <3>4, <3>10
      <4> HIDE DEF In, Of, C
      <4> QED BY <3>5, <3>6, <3>7, <4>1
    <3> QED BY <2>3, <3>8, <3>9, <3>10
  <2> QED BY <2>4, <2>5
<1>5. In(T) = D
  OBVIOUS
<1>6. Good(T)
  BY <1>4
<1> QED BY <1>5, <1>6

-----------------------------------------------------------------------------
(* A pick's number and its unit. *)

NumsOf(K) == {p.number : p \in K}
Numbered(K, n) == {p \in K : p.number = n}
UsersOf(K, n) == {p.user : p \in Numbered(K, n)}
PairNums(K) == {n \in NumsOf(K) : Cardinality(Numbered(K, n)) > 1}
TeamNums(K, t) == {p.number : p \in {q \in K : q.team = t}}

\* A pair, or a player without one.
IsUnit(us) == us \in pairs \/ \E u : us = {u} /\ ~Paired(u)

\* Rows as the Draft makes them.
Orderly(K) ==
    /\ K \subseteq Picks
    /\ \A p, q \in K : p.number = q.number => p.team = q.team
    /\ \A n \in NumsOf(K) : IsUnit(UsersOf(K, n))

LEMMA NumbersAre ==
    /\ Numbers = NumsOf(picks) /\ PairPicks = PairNums(picks)
    /\ \A n : PicksNumbered(n) = Numbered(picks, n)
    /\ \A t : NumbersOf(t) = TeamNums(picks, t)
BY DEF Numbers, NumsOf, PicksNumbered, Numbered, PairPicks, PairNums, NumbersOf, TeamNums

LEMMA UnitOfPick ==
    ASSUME PairsSpokenFor, NEW us, IsUnit(us)
    PROVE  IF us \in pairs THEN \E u, v \in active : u # v /\ us = {u, v} ELSE \E u : us = {u} /\ ~Paired(u)
BY DEF PairsSpokenFor, IsUnit

\* Two rows, or one.
LEMMA PairNumber ==
    ASSUME PairsSpokenFor, NEW K, Orderly(K), NEW n \in NumsOf(K)
    PROVE  n \in PairNums(K) <=> UsersOf(K, n) \in pairs
<1>1. \A p, q \in Numbered(K, n) : p.user = q.user => p = q
  <2> SUFFICES ASSUME NEW p \in Numbered(K, n), NEW q \in Numbered(K, n), p.user = q.user PROVE p = q
    OBVIOUS
  <2>1. p \in Picks /\ q \in Picks /\ p.number = q.number /\ p.team = q.team
    BY DEF Orderly, Numbered
  <2> QED BY <2>1 DEF Picks
<1>2. IsUnit(UsersOf(K, n))
  BY DEF Orderly
<1>3. CASE UsersOf(K, n) \in pairs
  <2>1. PICK u, v \in active : u # v /\ UsersOf(K, n) = {u, v}
    BY <1>2, <1>3, UnitOfPick
  <2>2. PICK p \in Numbered(K, n), q \in Numbered(K, n) : p.user = u /\ q.user = v
    BY <2>1 DEF UsersOf
  <2>3. \A r \in Numbered(K, n) : r = p \/ r = q
    BY <1>1, <2>1, <2>2 DEF UsersOf
  <2>4. Numbered(K, n) = {p} \cup {q} /\ q \notin {p}
    BY <2>1, <2>2, <2>3
  <2>5. Cardinality(Numbered(K, n)) = 2
    <3>1. IsFiniteSet({p}) /\ Cardinality({p}) = 1
      BY FS_Singleton
    <3>2. Cardinality({p} \cup {q}) = 2
      BY <2>4, <3>1, FS_AddElement
    <3> QED BY <2>4, <3>2
  <2> QED BY <1>3, <2>5 DEF PairNums
<1>4. CASE UsersOf(K, n) \notin pairs
  <2>1. PICK u : UsersOf(K, n) = {u}
    BY <1>2, <1>4, UnitOfPick
  <2>2. PICK p \in Numbered(K, n) : p.user = u
    BY <2>1 DEF UsersOf
  <2>3. Numbered(K, n) = {p}
    BY <1>1, <2>1, <2>2 DEF UsersOf
  <2>4. Cardinality(Numbered(K, n)) = 1
    BY <2>3, FS_Singleton
  <2> QED BY <1>4, <2>4 DEF PairNums
<1> QED BY <1>3, <1>4

\* What a pick adds.
Adds(K, more, n, t, us) == more = K \cup Rows(n, t, us)

LEMMA OneMorePick ==
    ASSUME PairsSpokenFor, NEW K, Orderly(K), NEW n \in Nat \ {0}, n \notin NumsOf(K), NEW t \in Teams,
           NEW us \in SUBSET Users, IsUnit(us), NEW more, Adds(K, more, n, t, us)
    PROVE  /\ Orderly(more)
           /\ NumsOf(more) = NumsOf(K) \cup {n}
           /\ PairNums(more) = IF us \in pairs THEN PairNums(K) \cup {n} ELSE PairNums(K)
           /\ TeamNums(more, t) = TeamNums(K, t) \cup {n}
           /\ \A other : other # t => TeamNums(more, other) = TeamNums(K, other)
<1>1. \A r : r \in more <=> r \in K \/ \E v \in us : r = [number |-> n, team |-> t, user |-> v]
  BY DEF Adds, Rows
<1>2. PICK first : first \in us
  BY UnitOfPick
<1>3. \A p \in K : p.number # n
  BY DEF NumsOf
<1>4. [number |-> n, team |-> t, user |-> first] \in more
  BY <1>1, <1>2
<1>5. \A r \in more : r \in K \/ (r.number = n /\ r.team = t /\ r.user \in us /\ r \in Picks)
  BY <1>1 DEF Picks
<1>6. K \subseteq more /\ \A v \in us : \E r \in more : r.number = n /\ r.team = t /\ r.user = v
  <2>1. \A v \in us : [number |-> n, team |-> t, user |-> v] \in more
    BY <1>1
  <2> QED BY <1>1, <2>1
<1>7. NumsOf(more) = NumsOf(K) \cup {n}
  BY <1>2, <1>5, <1>6 DEF NumsOf
<1>8. \A m \in NumsOf(K) : Numbered(more, m) = Numbered(K, m) /\ UsersOf(more, m) = UsersOf(K, m) /\ m # n
  BY <1>3, <1>5, <1>6 DEF NumsOf, Numbered, UsersOf
<1>9. UsersOf(more, n) = us
  BY <1>3, <1>5, <1>6 DEF Numbered, UsersOf
<1>10. Orderly(more)
  <2>1. more \subseteq Picks
    BY <1>5 DEF Orderly
  <2>2. \A p, q \in more : p.number = q.number => p.team = q.team
    BY <1>3, <1>5 DEF Orderly
  <2>3. \A m \in NumsOf(more) : IsUnit(UsersOf(more, m))
    BY <1>7, <1>8, <1>9 DEF Orderly
  <2> QED BY <2>1, <2>2, <2>3 DEF Orderly
<1>11. PairNums(more) = IF us \in pairs THEN PairNums(K) \cup {n} ELSE PairNums(K)
  <2>1. \A m : m \in PairNums(more) <=> m \in NumsOf(more) /\ UsersOf(more, m) \in pairs
    BY <1>10, PairNumber DEF PairNums
  <2>2. \A m : m \in PairNums(K) <=> m \in NumsOf(K) /\ UsersOf(K, m) \in pairs
    BY PairNumber DEF PairNums
  <2> QED BY <1>7, <1>8, <1>9, <2>1, <2>2
<1>12. TeamNums(more, t) = TeamNums(K, t) \cup {n}
  BY <1>2, <1>5, <1>6 DEF TeamNums
<1>13. \A other : other # t => TeamNums(more, other) = TeamNums(K, other)
  BY <1>5, <1>6 DEF TeamNums
<1> QED BY <1>7, <1>10, <1>11, <1>12, <1>13

-----------------------------------------------------------------------------
(* The units of the pool. *)

PairsIn(P) == {p \in pairs : p \subseteq P}
SinglesIn(P) == {{u} : u \in P \ UNION PairsIn(P)}

LEMMA UnitsAre == PairUnits = PairsIn(Pool) /\ SingleUnits = SinglesIn(Pool)
BY DEF PairUnits, SingleUnits, PairsIn, SinglesIn

LEMMA UnitsFinite ==
    ASSUME IsFiniteSet(Users), NEW P \in SUBSET Users
    PROVE  /\ IsFiniteSet(PairsIn(P)) /\ Cardinality(PairsIn(P)) \in Nat
           /\ IsFiniteSet(SinglesIn(P)) /\ Cardinality(SinglesIn(P)) \in Nat
<1>1. IsFiniteSet(SUBSET Users)
  BY FS_SUBSET
<1>2. PairsIn(P) \in SUBSET (SUBSET Users) /\ SinglesIn(P) \in SUBSET (SUBSET Users)
  BY DEF PairsIn, SinglesIn
<1> QED BY <1>1, <1>2, FS_Subset, FS_CardinalityType

\* What a pick takes away.
LEMMA OneUnitLess ==
    ASSUME PairsSpokenFor, NEW P, NEW us \in SUBSET P, IsUnit(us)
    PROVE  IF us \in pairs
           THEN us \in PairsIn(P) /\ PairsIn(P \ us) = PairsIn(P) \ {us} /\ SinglesIn(P \ us) = SinglesIn(P)
           ELSE us \in SinglesIn(P) /\ SinglesIn(P \ us) = SinglesIn(P) \ {us} /\ PairsIn(P \ us) = PairsIn(P)
<1>1. TwoActive /\ PairsApart
  BY PairsParts
<1>2. CASE us \in pairs
  <2>1. \A p \in pairs : p # us => p \cap us = {}
    BY <1>1, <1>2 DEF PairsApart
  <2>2. PICK u \in us : TRUE
    BY <1>1, <1>2 DEF TwoActive
  <2>3. us \in PairsIn(P) /\ PairsIn(P \ us) = PairsIn(P) \ {us}
    BY <1>2, <2>1, <2>2 DEF PairsIn
  <2>4. (P \ us) \ UNION PairsIn(P \ us) = P \ UNION PairsIn(P)
    BY <2>3
  <2> QED BY <1>2, <2>3, <2>4 DEF SinglesIn
<1>3. CASE us \notin pairs
  <2>1. PICK u : us = {u} /\ ~Paired(u)
    BY <1>3, UnitOfPick
  <2>2. \A p \in pairs : u \notin p
    BY <2>1 DEF Paired
  <2>3. PairsIn(P \ us) = PairsIn(P) /\ u \notin UNION PairsIn(P)
    BY <2>1, <2>2 DEF PairsIn
  <2>4. \A v, w : {v} = {w} => v = w
    OBVIOUS
  <2>5. us \in SinglesIn(P) /\ SinglesIn(P \ us) = SinglesIn(P) \ {us}
    BY <2>1, <2>3, <2>4 DEF SinglesIn
  <2> QED BY <1>3, <2>3, <2>5
<1> QED BY <1>2, <1>3

LEMMA OneMoves ==
    ASSUME NEW A, IsFiniteSet(A), NEW B, IsFiniteSet(B), NEW a, a \notin A, NEW b \in B
    PROVE  Cardinality(A \cup {a}) + Cardinality(B \ {b}) = Cardinality(A) + Cardinality(B)
<1>1. Cardinality(A) \in Nat /\ Cardinality(B) \in Nat
  BY FS_CardinalityType
<1>2. Cardinality(A \cup {a}) = Cardinality(A) + 1
  BY FS_AddElement
<1>3. Cardinality(B \ {b}) = Cardinality(B) - 1
  BY FS_RemoveElement
<1> QED BY <1>1, <1>2, <1>3

\* So the units that are or were in the pool are as many after a pick as before.
LEMMA AsManyUnits ==
    ASSUME PairsSpokenFor, IsFiniteSet(Users), NEW K, Orderly(K), IsFiniteSet(NumsOf(K)), NEW n \in Nat \ {0}, n \notin NumsOf(K),
           NEW t \in Teams, NEW P \in SUBSET Users, NEW us \in SUBSET P, IsUnit(us), NEW more, Adds(K, more, n, t, us)
    PROVE  /\ Cardinality(PairNums(more)) + Cardinality(PairsIn(P \ us)) = Cardinality(PairNums(K)) + Cardinality(PairsIn(P))
           /\ Cardinality(NumsOf(more) \ PairNums(more)) + Cardinality(SinglesIn(P \ us))
              = Cardinality(NumsOf(K) \ PairNums(K)) + Cardinality(SinglesIn(P))
<1>1. us \in SUBSET Users
  OBVIOUS
<1>2. /\ NumsOf(more) = NumsOf(K) \cup {n}
      /\ PairNums(more) = IF us \in pairs THEN PairNums(K) \cup {n} ELSE PairNums(K)
  BY <1>1, OneMorePick
<1>3. /\ IsFiniteSet(PairsIn(P)) /\ Cardinality(PairsIn(P)) \in Nat
      /\ IsFiniteSet(SinglesIn(P)) /\ Cardinality(SinglesIn(P)) \in Nat
  BY UnitsFinite
<1>4. PairNums(K) \in SUBSET NumsOf(K) /\ NumsOf(K) \ PairNums(K) \in SUBSET NumsOf(K)
  BY DEF PairNums
<1>5. /\ IsFiniteSet(PairNums(K)) /\ Cardinality(PairNums(K)) \in Nat
      /\ IsFiniteSet(NumsOf(K) \ PairNums(K)) /\ Cardinality(NumsOf(K) \ PairNums(K)) \in Nat
  BY <1>4, FS_Subset, FS_CardinalityType
<1>6. CASE us \in pairs
  <2>1. us \in PairsIn(P) /\ PairsIn(P \ us) = PairsIn(P) \ {us} /\ SinglesIn(P \ us) = SinglesIn(P)
    BY <1>6, OneUnitLess
  <2>2. PairNums(more) = PairNums(K) \cup {n} /\ n \notin PairNums(K) /\ NumsOf(more) \ PairNums(more) = NumsOf(K) \ PairNums(K)
    BY <1>2, <1>4, <1>6
  <2>3. Cardinality(PairNums(K) \cup {n}) + Cardinality(PairsIn(P) \ {us}) = Cardinality(PairNums(K)) + Cardinality(PairsIn(P))
    BY <1>3, <1>5, <2>1, <2>2, OneMoves
  <2> QED BY <2>1, <2>2, <2>3
<1>7. CASE us \notin pairs
  <2>1. us \in SinglesIn(P) /\ SinglesIn(P \ us) = SinglesIn(P) \ {us} /\ PairsIn(P \ us) = PairsIn(P)
    BY <1>7, OneUnitLess
  <2>2. PairNums(more) = PairNums(K)
        /\ NumsOf(more) \ PairNums(more) = (NumsOf(K) \ PairNums(K)) \cup {n} /\ n \notin NumsOf(K) \ PairNums(K)
    BY <1>2, <1>4, <1>7
  <2>3. Cardinality((NumsOf(K) \ PairNums(K)) \cup {n}) + Cardinality(SinglesIn(P) \ {us})
        = Cardinality(NumsOf(K) \ PairNums(K)) + Cardinality(SinglesIn(P))
    <3> DEFINE singles == NumsOf(K) \ PairNums(K)
    <3>1. IsFiniteSet(singles) /\ n \notin singles
      BY <1>5, <2>2
    <3> HIDE DEF singles
    <3>2. Cardinality(singles \cup {n}) + Cardinality(SinglesIn(P) \ {us}) = Cardinality(singles) + Cardinality(SinglesIn(P))
      BY <1>3, <2>1, <3>1, OneMoves
    <3> QED BY <3>2 DEF singles
  <2> QED BY <2>1, <2>2, <2>3
<1> QED BY <1>6, <1>7

-----------------------------------------------------------------------------
(* While only picks change the pool. *)

\* Since the Draft was started, who was drafted is signed up and on that Team, and drafted once.
SteadyInv ==
    steady =>
        /\ started
        /\ \A p \in picks : p.user \in active /\ \E m \in members : m.team = p.team /\ m.user = p.user
        /\ \A p, q \in picks : p.user = q.user => p = q
        /\ Orderly(picks)

LEMMA PickMoves ==
    ASSUME BaseInv, SteadyInv, steady, IsFiniteSet(Teams), NEW u \in Users, MakePick(u)
    PROVE  /\ PickedWith(u) \in SUBSET Pool /\ Pool \in SUBSET Users /\ IsUnit(PickedWith(u))
           /\ NextNumber \in Nat \ {0} /\ NextNumber \notin NumsOf(picks) /\ OnTheClock \in Teams
           /\ Adds(picks, picks', NextNumber, OnTheClock, PickedWith(u))
           /\ Pool' = Pool \ PickedWith(u)
           /\ pairs' = pairs /\ Made' = Made /\ TeamCount' = TeamCount
           /\ SteadyInv'
<1> DEFINE n == NextNumber
           t == OnTheClock
           us == PickedWith(u)
<1>1. us \in SUBSET Pool /\ Pool \in SUBSET Users /\ n \in Nat \ {0} /\ t \in Teams /\ \A m \in Numbers : m < n
  BY PickedFromPool
<1>2. /\ picks' = picks \cup Rows(n, t, us)
      /\ members' = members \cup {[team |-> t, user |-> v, role |-> "player"] : v \in us}
      /\ UNCHANGED <<active, pairs, captain, started>>
  BY PickRows
<1>3. IsUnit(us)
  BY DEF IsUnit, PickedWith, Paired
<1>4. n \notin NumsOf(picks)
  BY <1>1, NumbersAre
<1>5. \A p \in picks : p.user \notin us
  BY DEF MakePick, MayPick
<1>6. steady' = steady
  BY DEF MakePick, draftVars
<1> HIDE DEF n, t, us
<1>7. Pool' = Pool \ us
  <2>1. \A v : OnATeam(v)' <=> OnATeam(v) \/ v \in us
    <3>1. \A v \in us : [team |-> t, user |-> v, role |-> "player"] \in members'
      BY <1>2
    <3>2. \A m \in members' : m \in members \/ m.user \in us
      BY <1>2
    <3>3. members \subseteq members'
      BY <1>2
    <3>4. \A v : OnATeam(v)' <=> \E m \in members' : m.user = v
      BY DEF OnATeam
    <3> QED BY <3>1, <3>2, <3>3, <3>4 DEF OnATeam
  <2>2. \A v : v \in Pool' <=> v \in active /\ ~OnATeam(v)'
    BY <1>2 DEF Pool
  <2> QED BY <2>1, <2>2 DEF Pool
<1>8. Adds(picks, picks', n, t, us)
  BY <1>2 DEF Adds
<1>9. Made' = Made /\ TeamCount' = TeamCount
  BY <1>2 DEF Made, TeamCount
<1>10. SteadyInv'
  <2>1. Orderly(picks')
    BY <1>1, <1>3, <1>4, <1>8, OneMorePick DEF SteadyInv, BaseInv
  <2>2. Orderly(picks)'
    BY <1>2, <2>1 DEF Orderly, IsUnit, Paired, NumsOf, UsersOf, Numbered
  <2>3. \A r \in Rows(n, t, us) : r.user \in us /\ r = [number |-> n, team |-> t, user |-> r.user]
    BY DEF Rows
  <2>4. \A p \in picks' : p.user \in active
    <3>1. us \subseteq active
      BY <1>1 DEF Pool
    <3> QED BY <1>2, <2>3, <3>1 DEF SteadyInv
  <2>5. ASSUME NEW p \in picks' PROVE \E m \in members' : m.team = p.team /\ m.user = p.user
    <3>1. CASE p \in picks
      BY <1>2, <3>1 DEF SteadyInv
    <3>2. CASE p \in Rows(n, t, us)
      <4>1. p.team = t /\ p.user \in us
        BY <2>3, <3>2
      <4>2. [team |-> t, user |-> p.user, role |-> "player"] \in members'
        BY <1>2, <4>1
      <4> QED BY <4>1, <4>2
    <3> QED BY <1>2, <3>1, <3>2
  <2>6. \A p, q \in picks' : p.user = q.user => p = q
    BY <1>2, <1>5, <2>3, Zenon DEF SteadyInv
  <2> QED BY <1>2, <1>6, <2>2, <2>4, <2>5, <2>6 DEF SteadyInv
<1> QED BY <1>1, <1>2, <1>3, <1>4, <1>7, <1>8, <1>9, <1>10 DEF n, t, us

LEMMA UndoMoves ==
    ASSUME BaseInv, SteadyInv, steady, UndoLastPick
    PROVE  /\ \E n \in Nat \ {0}, t \in Teams, us \in SUBSET Pool' :
                  n \notin NumsOf(picks') /\ IsUnit(us) /\ Adds(picks', picks, n, t, us) /\ Pool = Pool' \ us
           /\ Pool' \in SUBSET Users /\ Orderly(picks')
           /\ pairs' = pairs /\ Made' = Made /\ TeamCount' = TeamCount
           /\ SteadyInv'
<1> DEFINE n == LastNumber
           us == UsersOf(picks, n)
<1>1. /\ picks' = {p \in picks : p.number # n} /\ members' \subseteq members
      /\ UNCHANGED <<active, pairs, captain, started>>
  BY UndoneLast
<1>2. members' = {m \in members : \A p \in Numbered(picks, n) : m.team # p.team \/ m.user # p.user}
  BY DEF UndoLastPick, PicksNumbered, Numbered
<1>3. steady' = steady
  BY DEF UndoLastPick, draftVars
<1>4. n \in Numbers
  <2>1. PICK k \in Nat : Numbers = 1..k
    BY DEF BaseInv, OrderInv, Gapless
  <2>2. k # 0
    BY <2>1 DEF UndoLastPick, Numbers
  <2> QED BY <2>1, <2>2, NextIsOneMore
<1>5. PICK last \in picks : last.number = n
  BY <1>4 DEF Numbers
<1>6. last \in Picks /\ n \in Nat \ {0} /\ last.team \in Teams
  BY <1>5 DEF BaseInv, TypeOK, Picks
<1> DEFINE t == last.team
<1>7. \A p \in picks : p.number = n => p \in Picks /\ p.team = t
  BY <1>5 DEF BaseInv, TypeOK, OrderInv
<1>8. IsUnit(us)
  BY <1>4, NumbersAre DEF SteadyInv, Orderly
<1> HIDE DEF n, us, t
<1>9. Adds(picks', picks, n, t, us)
  <2>1. \A r \in picks : r.number = n => r = [number |-> n, team |-> t, user |-> r.user] /\ r.user \in us
    BY <1>7 DEF Picks, us, UsersOf, Numbered
  <2>2. \A v \in us : \E r \in picks : r.number = n /\ r.user = v
    BY DEF us, UsersOf, Numbered
  <2>3. \A v \in us : [number |-> n, team |-> t, user |-> v] \in picks
    BY <2>1, <2>2
  <2>4. picks = picks' \cup Rows(n, t, us)
    BY <1>1, <2>1, <2>3 DEF Rows
  <2> QED BY <2>4 DEF Adds
<1>10. n \notin NumsOf(picks')
  BY <1>1 DEF NumsOf
<1>11. Pool = Pool' \ us /\ us \in SUBSET Pool' /\ Pool' \in SUBSET Users
  <2>1. \A m \in members : m \notin members' <=> \E p \in picks : p.number = n /\ m.team = p.team /\ m.user = p.user
    BY <1>2 DEF Numbered
  <2>2. \A v \in us : OnATeam(v) /\ v \in active
    BY DEF SteadyInv, us, UsersOf, Numbered, OnATeam
  <2>3. \A v \in us : ~\E m \in members' : m.user = v
    <3> SUFFICES ASSUME NEW v \in us, NEW m \in members', m.user = v PROVE FALSE
      OBVIOUS
    <3>1. PICK p \in picks : p.number = n /\ p.user = v
      BY DEF us, UsersOf, Numbered
    <3>2. PICK o \in members : o.team = p.team /\ o.user = p.user
      BY DEF SteadyInv
    <3>3. o = m
      BY <1>1, <3>1, <3>2 DEF BaseInv, OneTeam
    <3> QED BY <2>1, <3>1, <3>2, <3>3
  <2>4. \A v : v \notin us => (OnATeam(v) <=> \E m \in members' : m.user = v)
    BY <1>1, <2>1 DEF us, UsersOf, Numbered, OnATeam
  <2>5. \A v : v \in Pool' <=> v \in active /\ ~\E m \in members' : m.user = v
    BY <1>1 DEF Pool, OnATeam
  <2>6. active \subseteq Users
    BY DEF BaseInv, TypeOK
  <2> QED BY <2>2, <2>3, <2>4, <2>5, <2>6 DEF Pool
<1>12. Orderly(picks')
  <2>1. picks' \subseteq Picks /\ \A p, q \in picks' : p.number = q.number => p.team = q.team
    BY <1>1 DEF SteadyInv, Orderly
  <2>2. \A m \in NumsOf(picks') : m \in NumsOf(picks) /\ UsersOf(picks', m) = UsersOf(picks, m)
    BY <1>1 DEF NumsOf, UsersOf, Numbered
  <2> QED BY <2>1, <2>2 DEF SteadyInv, Orderly
<1>13. Made' = Made /\ TeamCount' = TeamCount
  BY <1>1 DEF Made, TeamCount
<1>14. SteadyInv'
  <2>1. Orderly(picks)'
    BY <1>1, <1>12 DEF Orderly, IsUnit, Paired, NumsOf, UsersOf, Numbered
  <2>2. ASSUME NEW p \in picks' PROVE \E m \in members' : m.team = p.team /\ m.user = p.user
    <3>1. PICK m \in members : m.team = p.team /\ m.user = p.user
      BY <1>1 DEF SteadyInv
    <3>2. \A q \in Numbered(picks, n) : m.user # q.user
      BY <1>1, <3>1 DEF SteadyInv, Numbered
    <3> QED BY <1>2, <3>1, <3>2
  <2> QED BY <1>1, <1>3, <2>1, <2>2 DEF SteadyInv
<1> QED BY <1>1, <1>6, <1>8, <1>9, <1>10, <1>11, <1>12, <1>13, <1>14 DEF t

-----------------------------------------------------------------------------
(* Everyone's share. *)

SharesKept ==
    steady /\ HasShares =>
        \A t \in Made : Cardinality(PairPicksOf(t)) <= PairShare /\ Cardinality(SinglePicksOf(t)) <= SingleShare

LEMMA NumbersFinite == ASSUME BaseInv PROVE IsFiniteSet(Numbers) /\ Cardinality(Numbers) \in Nat
<1>1. PICK k \in Nat : Numbers = 1..k
  BY DEF BaseInv, OrderInv, Gapless
<1> QED BY <1>1, FS_Interval

LEMMA PicksFinite ==
    ASSUME BaseInv
    PROVE  /\ IsFiniteSet(PairPicks) /\ Cardinality(PairPicks) \in Nat
           /\ IsFiniteSet(Numbers \ PairPicks) /\ Cardinality(Numbers \ PairPicks) \in Nat
           /\ Cardinality(PairPicks) + Cardinality(Numbers \ PairPicks) = Cardinality(Numbers)
           /\ \A t : /\ IsFiniteSet(PairPicksOf(t)) /\ Cardinality(PairPicksOf(t)) \in Nat
                     /\ IsFiniteSet(SinglePicksOf(t)) /\ Cardinality(SinglePicksOf(t)) \in Nat
                     /\ Cardinality(NumbersOf(t)) = Cardinality(PairPicksOf(t)) + Cardinality(SinglePicksOf(t))
<1>1. \A D \in SUBSET Numbers : IsFiniteSet(D) /\ Cardinality(D) \in Nat
  BY NumbersFinite, FS_Subset, FS_CardinalityType
<1>2. PairPicks \in SUBSET Numbers
  BY DEF PairPicks
<1>3. Cardinality(PairPicks \cup (Numbers \ PairPicks)) = Cardinality(PairPicks) + Cardinality(Numbers \ PairPicks)
  <2>1. IsFiniteSet(PairPicks) /\ IsFiniteSet(Numbers \ PairPicks) /\ PairPicks \cap (Numbers \ PairPicks) = {}
    BY <1>1, <1>2
  <2> QED BY <2>1, DisjointUnion
<1>4. PairPicks \cup (Numbers \ PairPicks) = Numbers
  BY <1>2
<1>5. ASSUME NEW t
      PROVE  /\ IsFiniteSet(PairPicksOf(t)) /\ Cardinality(PairPicksOf(t)) \in Nat
             /\ IsFiniteSet(SinglePicksOf(t)) /\ Cardinality(SinglePicksOf(t)) \in Nat
             /\ Cardinality(NumbersOf(t)) = Cardinality(PairPicksOf(t)) + Cardinality(SinglePicksOf(t))
  <2>1. NumbersOf(t) \in SUBSET Numbers
    BY DEF NumbersOf, Numbers
  <2>2. PairPicksOf(t) \in SUBSET Numbers /\ SinglePicksOf(t) \in SUBSET Numbers
        /\ PairPicksOf(t) \cap SinglePicksOf(t) = {} /\ PairPicksOf(t) \cup SinglePicksOf(t) = NumbersOf(t)
    BY <2>1 DEF PairPicksOf, SinglePicksOf
  <2> QED BY <1>1, <2>2, DisjointUnion
<1> QED BY <1>1, <1>2, <1>3, <1>4, <1>5

\* A number is one Team's, so what the Teams have of any picks adds up.
LEMMA TeamsShares ==
    ASSUME BaseInv, IsFiniteSet(Teams), NEW D \in SUBSET Numbers, NEW s \in Nat, \A t \in Made : Cardinality(NumbersOf(t) \cap D) <= s
    PROVE  /\ Cardinality(D) <= TeamCount * s
           /\ Cardinality(D) = TeamCount * s => \A t \in Made : Cardinality(NumbersOf(t) \cap D) = s
<1> DEFINE f == [m \in D |-> CHOOSE t \in Made : m \in NumbersOf(t)]
<1>1. ASSUME NEW m \in D PROVE f[m] \in Made /\ m \in NumbersOf(f[m]) /\ \A t : m \in NumbersOf(t) => t = f[m]
  <2>1. PICK p \in picks : p.number = m
    BY DEF Numbers
  <2>2. p.team \in Made /\ m \in NumbersOf(p.team)
    BY <2>1 DEF BaseInv, OrderInv, NumbersOf
  <2>3. \A t : m \in NumbersOf(t) => t = p.team
    BY <2>1 DEF BaseInv, OrderInv, NumbersOf
  <2> QED BY <2>2, <2>3
<1>2. f \in [D -> Made]
  BY <1>1
<1>3. \A t \in Made : Share(f, D, t) = NumbersOf(t) \cap D
  BY <1>1 DEF Share
<1>4. IsFiniteSet(Made) /\ IsFiniteSet(D)
  BY NumbersFinite, MadeCount, FS_Subset
<1> HIDE DEF f
<1>5. \A t \in Made : Cardinality(Share(f, D, t)) <= s
  BY <1>3
<1>6. /\ Cardinality(D) <= Cardinality(Made) * s
      /\ Cardinality(D) = Cardinality(Made) * s => \A t \in Made : Cardinality(Share(f, D, t)) = s
  BY <1>2, <1>4, <1>5, SharesSum
<1> QED BY <1>3, <1>6 DEF TeamCount

\* The Team on the clock has had a turn in each full round and none in this one.
LEMMA ClockTurns ==
    ASSUME BaseInv, IsFiniteSet(Teams), OrderReady, NextNumber \in Nat \ {0}
    PROVE  Cardinality(NumbersOf(OnTheClock)) * TeamCount <= Cardinality(Numbers)
<1> DEFINE t == OnTheClock
           count == TeamCount
           round(m) == (m - 1) \div count
<1>1. PICK k \in Nat : Numbers = 1..k
  BY DEF BaseInv, OrderInv, Gapless
<1>2. NextNumber = k + 1 /\ Cardinality(Numbers) = k
  BY <1>1, NextIsOneMore, FS_Interval
<1>3. count \in Nat \ {0} /\ order[t] = SnakeIndex(count, k + 1) + 1
  BY <1>2, MadeCount, ClockTeam DEF OrderReady
<1>4. ASSUME NEW m \in NumbersOf(t) PROVE m \in 1..k /\ SnakeIndex(count, m) = SnakeIndex(count, k + 1)
  <2>1. PICK p \in picks : p.number = m /\ p.team = t
    BY DEF NumbersOf
  <2>2. m \in 1..k
    BY <1>1, <2>1 DEF Numbers
  <2>3. order[t] = SnakeIndex(count, m) + 1
    BY <2>1 DEF BaseInv, OrderInv
  <2>4. SnakeIndex(count, m) \in Int /\ SnakeIndex(count, k + 1) \in Int
    BY <1>3, <2>2, SnakeInRange
  <2> QED BY <1>3, <2>2, <2>3, <2>4
<1> HIDE DEF t, count
<1>5. ASSUME NEW m \in Nat \ {0}, NEW n \in Nat \ {0}, m < n, round(m) = round(n), SnakeIndex(count, m) = SnakeIndex(count, n)
      PROVE  FALSE
  <2>1. SnakeIndex(count, m) \in Int
    BY <1>3, SnakeInRange
  <2>2. SnakeIndex(count, m) < SnakeIndex(count, n) \/ SnakeIndex(count, m) > SnakeIndex(count, n)
    BY <1>3, <1>5, SnakeTurns
  <2> QED BY <1>5, <2>1, <2>2
<1> DEFINE rounds == round(k + 1)
           f == [m \in NumbersOf(t) |-> round(m) + 1]
<1>6. rounds \in Nat /\ rounds * count <= k
  <2>1. k \div count \in Nat /\ (k \div count) * count <= k
    <3>1. k % count \in 0..count - 1 /\ k = count * (k \div count) + (k % count) /\ k \div count \in Nat
      BY <1>3
    <3> DEFINE q == k \div count
               r == k % count
    <3>2. q \in Nat /\ r \in Nat /\ k = count * q + r
      BY <1>3, <3>1
    <3> HIDE DEF q, r
    <3>3. q * count <= k
      BY <1>3, <3>2
    <3> QED BY <3>1, <3>3 DEF q
  <2> QED BY <2>1
<1>7. ASSUME NEW m \in NumbersOf(t) PROVE round(m) \in Nat /\ round(m) < rounds
  <2>1. m \in Nat \ {0} /\ m < k + 1 /\ k + 1 \in Nat \ {0} /\ m <= k
    BY <1>4
  <2>2. round(m) # rounds
    BY <1>4, <1>5, <2>1
  <2>3. round(m) \in Nat /\ round(m) <= rounds
    <3>1. (m - 1) \div count \in Nat /\ (m - 1) \div count <= k \div count
      BY <1>3, <2>1
    <3> QED BY <3>1
  <2> HIDE DEF round, rounds
  <2> QED BY <1>6, <2>2, <2>3
<1>8. f \in [NumbersOf(t) -> 1..rounds]
  <2> HIDE DEF round, rounds
  <2> QED BY <1>6, <1>7
<1>9. ASSUME NEW m \in NumbersOf(t), NEW n \in NumbersOf(t), f[m] = f[n] PROVE m = n
  <2>1. m \in Nat \ {0} /\ n \in Nat \ {0} /\ SnakeIndex(count, m) = SnakeIndex(count, n)
    BY <1>4
  <2>2. round(m) = round(n)
    <3>1. round(m) + 1 = round(n) + 1
      BY <1>9
    <3>2. round(m) \in Nat /\ round(n) \in Nat
      BY <1>7
    <3> HIDE DEF round
    <3> QED BY <3>1, <3>2
  <2>3. m < n \/ n < m \/ m = n
    BY <2>1
  <2> HIDE DEF round
  <2> QED BY <1>5, <2>1, <2>2, <2>3
<1> HIDE DEF f, rounds, round
<1>10. f \in Injection(NumbersOf(t), 1..rounds)
  BY <1>8, <1>9 DEF Injection, IsInjective
<1>11. Cardinality(NumbersOf(t)) <= rounds /\ Cardinality(NumbersOf(t)) \in Nat
  <2>1. IsFiniteSet(1..rounds) /\ Cardinality(1..rounds) = rounds
    BY <1>6, FS_Interval
  <2> QED BY <1>10, <2>1, FS_Injection, FS_CardinalityType
<1>12. Cardinality(NumbersOf(t)) * count <= rounds * count
  <2> DEFINE c == Cardinality(NumbersOf(t))
  <2>1. c \in Nat /\ rounds \in Nat /\ count \in Nat /\ c <= rounds
    BY <1>3, <1>6, <1>11
  <2> HIDE DEF c
  <2>2. PICK more \in Nat : rounds = c + more
    <3>1. rounds - c \in Nat /\ rounds = c + (rounds - c)
      BY <2>1
    <3> QED BY <3>1
  <2>3. (c + more) * count = c * count + more * count /\ more * count \in Nat /\ c * count \in Nat
    BY <2>1, <2>2
  <2> QED BY <2>2, <2>3 DEF c
<1>13. Cardinality(NumbersOf(t)) * count <= k
  <2>1. Cardinality(NumbersOf(t)) * count \in Nat /\ rounds * count \in Nat
    BY <1>3, <1>6, <1>11
  <2> QED BY <1>6, <1>12, <2>1
<1> QED BY <1>2, <1>13 DEF t, count

LEMMA PoolUnits ==
    ASSUME BaseInv, EarlierOrder, IsFiniteSet(Users)
    PROVE  /\ UnitsApart(PairUnits) /\ IsFiniteSet(PairUnits) /\ Cardinality(PairUnits) \in Nat
           /\ UnitsApart(SingleUnits) /\ IsFiniteSet(SingleUnits) /\ Cardinality(SingleUnits) \in Nat
           /\ PairUnits \subseteq pairs /\ SingleUnits \cap pairs = {} /\ PairUnits \cap SingleUnits = {}
<1>1. Pool \in SUBSET Users /\ Pool \subseteq active
  BY DEF BaseInv, TypeOK, Pool
<1>2. TwoActive /\ PairsApart
  BY PairsParts DEF BaseInv
<1>3. /\ IsFiniteSet(PairUnits) /\ Cardinality(PairUnits) \in Nat
      /\ IsFiniteSet(SingleUnits) /\ Cardinality(SingleUnits) \in Nat
  BY <1>1, UnitsFinite, UnitsAre
<1>4. PairUnits \subseteq pairs /\ SingleUnits \cap pairs = {}
  BY <1>2 DEF PairUnits, SingleUnits, TwoActive
<1>5. UnitsApart(PairUnits)
  <2>1. ASSUME NEW a \in PairUnits PROVE a \subseteq active /\ \E u : Latest(u, a)
    <3>1. PICK u \in active, v \in active : u # v /\ a = {u, v}
      BY <1>2, <1>4 DEF TwoActive
    <3>2. Latest(u, a) \/ Latest(v, a)
      BY <3>1 DEF Latest, EarlierOrder
    <3> QED BY <3>1, <3>2
  <2>2. \A a, b \in PairUnits : a # b => a \cap b = {}
    BY <1>2, <1>4 DEF PairsApart
  <2> QED BY <2>1, <2>2 DEF UnitsApart
<1>6. UnitsApart(SingleUnits)
  BY <1>1 DEF UnitsApart, SingleUnits, Latest
<1> QED BY <1>3, <1>4, <1>5, <1>6

\* A share is what divides; the rest is cut.
LEMMA ShareParts ==
    ASSUME BaseInv, IsFiniteSet(Teams), IsFiniteSet(Users), EarlierOrder, HasShares
    PROVE  /\ TeamCount \in Nat /\ TeamCount >= 2 /\ AllPairs \in Nat /\ AllSingles \in Nat
           /\ PairShare \in Nat /\ PairShare * TeamCount \in Nat /\ PairShare * TeamCount <= AllPairs
           /\ SingleShare \in Nat /\ SingleShare * TeamCount \in Nat /\ SingleShare * TeamCount <= AllSingles
<1>1. TeamCount \in Nat /\ TeamCount >= 2
  BY MadeCount DEF HasShares
<1>2. AllPairs \in Nat /\ AllSingles \in Nat
  BY PicksFinite, PoolUnits DEF AllPairs, AllSingles
<1>3. ASSUME NEW a \in Nat, NEW n \in Nat, n >= 2
      PROVE  a \div n \in Nat /\ (a \div n) * n \in Nat /\ (a \div n) * n <= a
  <2> DEFINE q == a \div n
             r == a % n
  <2>1. q \in Nat /\ r \in Nat /\ a = n * q + r
    BY <1>3
  <2> HIDE DEF q, r
  <2>2. q * n \in Nat /\ q * n <= a
    BY <2>1
  <2> QED BY <2>1, <2>2 DEF q
<1>4. PairShare \in Nat /\ PairShare * TeamCount \in Nat /\ PairShare * TeamCount <= AllPairs
  BY <1>1, <1>2, <1>3 DEF PairShare
<1>5. SingleShare \in Nat /\ SingleShare * TeamCount \in Nat /\ SingleShare * TeamCount <= AllSingles
  <2>1. CASE cutMode = "pairs_only"
    BY <1>1, <1>2, <2>1 DEF SingleShare
  <2>2. CASE cutMode # "pairs_only"
    BY <1>1, <1>2, <1>3, <2>2 DEF SingleShare
  <2> QED BY <2>1, <2>2
<1> QED BY <1>1, <1>2, <1>4, <1>5

\* A kind runs out when every Team has its share of it, and only then.
LEMMA RunsOut ==
    ASSUME BaseInv, IsFiniteSet(Teams), IsFiniteSet(Users), EarlierOrder, HasShares,
           \A t \in Made : Cardinality(PairPicksOf(t)) <= PairShare /\ Cardinality(SinglePicksOf(t)) <= SingleShare
    PROVE  /\ Cardinality(PairPicks) <= PairShare * TeamCount
           /\ AvailablePairs = {} <=> Cardinality(PairPicks) = PairShare * TeamCount
           /\ AvailablePairs = {} => \A t \in Made : Cardinality(PairPicksOf(t)) = PairShare
           /\ Cardinality(Numbers \ PairPicks) <= SingleShare * TeamCount
           /\ AvailableSingles = {} <=> Cardinality(Numbers \ PairPicks) = SingleShare * TeamCount
           /\ AvailableSingles = {} => \A t \in Made : Cardinality(SinglePicksOf(t)) = SingleShare
<1> DEFINE pp == Cardinality(PairPicks)
           sp == Cardinality(Numbers \ PairPicks)
           pu == Cardinality(PairUnits)
           su == Cardinality(SingleUnits)
           ps == PairShare * TeamCount
           ss == SingleShare * TeamCount
           cutPairs == Newest(PairUnits, AllPairs - ps)
           cutSingles == Newest(SingleUnits, AllSingles - ss)
<1>1. /\ pp \in Nat /\ sp \in Nat /\ pu \in Nat /\ su \in Nat
      /\ AllPairs = pp + pu /\ AllSingles = sp + su
  BY PicksFinite, PoolUnits DEF AllPairs, AllSingles
<1>2. ps \in Nat /\ ps <= AllPairs /\ ss \in Nat /\ ss <= AllSingles /\ PairShare \in Nat /\ SingleShare \in Nat /\ TeamCount \in Nat
  BY ShareParts
<1>3. TeamCount * PairShare = ps /\ TeamCount * SingleShare = ss
  BY <1>2
<1>4. pp <= ps /\ (pp = ps => \A t \in Made : Cardinality(PairPicksOf(t)) = PairShare)
  <2>1. PairPicks \in SUBSET Numbers /\ \A t : PairPicksOf(t) = NumbersOf(t) \cap PairPicks
    BY DEF PairPicks, PairPicksOf
  <2>2. \A t \in Made : Cardinality(NumbersOf(t) \cap PairPicks) <= PairShare
    BY <2>1
  <2>3. /\ Cardinality(PairPicks) <= TeamCount * PairShare
        /\ Cardinality(PairPicks) = TeamCount * PairShare => \A t \in Made : Cardinality(NumbersOf(t) \cap PairPicks) = PairShare
    BY <1>2, <2>1, <2>2, TeamsShares
  <2> QED BY <1>3, <2>1, <2>3
<1>5. sp <= ss /\ (sp = ss => \A t \in Made : Cardinality(SinglePicksOf(t)) = SingleShare)
  <2> DEFINE D == Numbers \ PairPicks
  <2>1. D \in SUBSET Numbers /\ \A t : SinglePicksOf(t) = NumbersOf(t) \cap D
    BY DEF PairPicks, SinglePicksOf, NumbersOf, Numbers
  <2> HIDE DEF D
  <2>2. \A t \in Made : Cardinality(NumbersOf(t) \cap D) <= SingleShare
    BY <2>1
  <2>3. /\ Cardinality(D) <= TeamCount * SingleShare
        /\ Cardinality(D) = TeamCount * SingleShare => \A t \in Made : Cardinality(NumbersOf(t) \cap D) = SingleShare
    BY <1>2, <2>1, <2>2, TeamsShares
  <2> QED BY <1>3, <2>1, <2>3 DEF D
<1>6. CutUnits = cutPairs \cup cutSingles /\ cutPairs \subseteq PairUnits /\ cutSingles \subseteq SingleUnits
  BY DEF CutUnits, Newest
<1>7. AvailablePairs = PairUnits \ cutPairs /\ AvailableSingles = SingleUnits \ cutSingles
  <2> HIDE DEF cutPairs, cutSingles
  <2>1. PairUnits \cap SingleUnits = {}
    BY PoolUnits
  <2> QED BY <1>6, <2>1 DEF AvailablePairs, AvailableSingles
<1>8. AllPairs - ps \in Nat /\ AllPairs - ps <= pu /\ (AllPairs - ps = pu <=> pp = ps)
  <2> HIDE DEF pp, pu, ps
  <2> QED BY <1>1, <1>2, <1>4
<1>9. AllSingles - ss \in Nat /\ AllSingles - ss <= su /\ (AllSingles - ss = su <=> sp = ss)
  <2> HIDE DEF sp, su, ss
  <2> QED BY <1>1, <1>2, <1>5
<1>10. PairUnits \ cutPairs = {} <=> pp = ps
  <2>1. PairUnits \ Newest(PairUnits, AllPairs - ps) = {} <=> AllPairs - ps = Cardinality(PairUnits)
    <3> HIDE DEF ps
    <3> QED BY <1>8, PoolUnits, AllAreNewest
  <2> QED BY <1>8, <2>1
<1>11. SingleUnits \ cutSingles = {} <=> sp = ss
  <2>1. SingleUnits \ Newest(SingleUnits, AllSingles - ss) = {} <=> AllSingles - ss = Cardinality(SingleUnits)
    <3> HIDE DEF ss
    <3> QED BY <1>9, PoolUnits, AllAreNewest
  <2> QED BY <1>9, <2>1
<1> QED BY <1>4, <1>5, <1>7, <1>10, <1>11

LEMMA Balanced ==
    ASSUME BaseInv, IsFiniteSet(Teams), IsFiniteSet(Users), EarlierOrder, SteadyInv, SharesKept
    PROVE  SharesHold
<1> SUFFICES ASSUME steady, HasShares PROVE SharesHold
  BY DEF SharesHold
<1>1. \A t \in Made : Cardinality(PairPicksOf(t)) <= PairShare /\ Cardinality(SinglePicksOf(t)) <= SingleShare
  BY DEF SharesKept
<1>2. CASE Available = {}
  <2>1. AvailablePairs = {} /\ AvailableSingles = {}
    BY <1>2 DEF Available
  <2> QED BY <1>1, <1>2, <2>1, RunsOut DEF SharesHold
<1>3. ASSUME Available # {} PROVE ~NothingLeftFor(OnTheClock)
  <2> DEFINE t == OnTheClock
             a == Cardinality(PairPicksOf(t))
             b == Cardinality(SinglePicksOf(t))
             pp == Cardinality(PairPicks)
             sp == Cardinality(Numbers \ PairPicks)
             ps == PairShare
             ss == SingleShare
             n == TeamCount
  <2>1. OrderReady /\ NextNumber \in Nat \ {0}
    <3>1. PICK k \in Nat : Numbers = 1..k
      BY DEF BaseInv, OrderInv, Gapless
    <3> QED BY <3>1, NextIsOneMore DEF SteadyInv, BaseInv, OrderInv
  <2>2. t \in Made
    BY <2>1, ClockTeam
  <2>3. a \in Nat /\ b \in Nat /\ Cardinality(NumbersOf(t)) = a + b /\ pp \in Nat /\ sp \in Nat /\ Cardinality(Numbers) = pp + sp
    BY PicksFinite
  <2>4. a <= ps /\ b <= ss
    BY <1>1, <2>2
  <2>5. Cardinality(NumbersOf(t)) * n <= Cardinality(Numbers)
    BY <2>1, ClockTurns
  <2>6. n \in Nat /\ ps \in Nat /\ ss \in Nat
    BY ShareParts
  <2>7. pp <= ps * n /\ (AvailablePairs = {} <=> pp = ps * n) /\ (AvailablePairs = {} => a = ps)
        /\ sp <= ss * n /\ (AvailableSingles = {} <=> sp = ss * n) /\ (AvailableSingles = {} => b = ss)
    BY <1>1, <2>2, RunsOut
  <2>8. ShortOfPairs(t) <=> a < ps
    BY DEF ShortOfPairs
  <2>9. ShortOfSingles(t) <=> b < ss
    BY DEF ShortOfSingles
  <2>10. a < ps \/ b < ss
    <3> SUFFICES ASSUME a = ps, b = ss PROVE FALSE
      <4> HIDE DEF a, b, ps, ss
      <4> QED BY <2>3, <2>4, <2>6
    <3>1. (ps + ss) * n <= pp + sp
      <4> HIDE DEF a, b, ps, ss, pp, sp
      <4> QED BY <2>3, <2>5
    <3>2. pp = ps * n /\ sp = ss * n
      <4> HIDE DEF a, b, ps, ss, pp, sp, n
      <4>1. (ps + ss) * n = ps * n + ss * n /\ ps * n \in Nat /\ ss * n \in Nat
        BY <2>6
      <4> QED BY <2>3, <2>7, <3>1, <4>1
    <3>3. AvailablePairs = {} /\ AvailableSingles = {}
      BY <2>7, <3>2
    <3> QED BY <1>3, <3>3 DEF Available
  <2>11. CASE a < ps
    <3>1. AvailablePairs # {}
      <4> HIDE DEF a, ps
      <4> QED BY <2>3, <2>6, <2>7, <2>11
    <3> QED BY <2>8, <2>11, <3>1 DEF NothingLeftFor
  <2>12. CASE b < ss
    <3>1. AvailableSingles # {}
      <4> HIDE DEF b, ss
      <4> QED BY <2>3, <2>6, <2>7, <2>12
    <3> QED BY <2>9, <2>12, <3>1 DEF NothingLeftFor
  <2> QED BY <2>10, <2>11, <2>12
<1> QED BY <1>1, <1>2, <1>3 DEF SharesHold

\* As many pairs and singles as before, and the same Teams: the same shares.
SameShares ==
    /\ AllPairs' = AllPairs /\ AllSingles' = AllSingles
    /\ TeamCount' = TeamCount /\ cutMode' = cutMode

LEMMA SharesStay ==
    ASSUME SameShares
    PROVE  (HasShares' <=> HasShares) /\ PairShare' = PairShare /\ SingleShare' = SingleShare
BY DEF SameShares, HasShares, PairShare, SingleShare

\* Numbers and units after a step that leaves the pairs alone.
LEMMA CountsAfter ==
    ASSUME pairs' = pairs
    PROVE  /\ AllPairs' = Cardinality(PairNums(picks')) + Cardinality(PairsIn(Pool'))
           /\ AllSingles' = Cardinality(NumsOf(picks') \ PairNums(picks')) + Cardinality(SinglesIn(Pool'))
           /\ \A t : /\ PairPicksOf(t)' = TeamNums(picks', t) \cap PairNums(picks')
                     /\ SinglePicksOf(t)' = TeamNums(picks', t) \ PairNums(picks')
BY DEF AllPairs, AllSingles, PairPicks, PicksNumbered, PairUnits, SingleUnits, PairsIn, SinglesIn, PairPicksOf, SinglePicksOf,
       NumbersOf, Numbers, NumsOf, PairNums, Numbered, TeamNums

LEMMA CountsBefore ==
    /\ AllPairs = Cardinality(PairNums(picks)) + Cardinality(PairsIn(Pool))
    /\ AllSingles = Cardinality(NumsOf(picks) \ PairNums(picks)) + Cardinality(SinglesIn(Pool))
    /\ \A t : /\ PairPicksOf(t) = TeamNums(picks, t) \cap PairNums(picks)
              /\ SinglePicksOf(t) = TeamNums(picks, t) \ PairNums(picks)
BY NumbersAre, UnitsAre DEF AllPairs, AllSingles, PairPicksOf, SinglePicksOf

LEMMA PickKeepsShares ==
    ASSUME BaseInv, IsFiniteSet(Teams), IsFiniteSet(Users), EarlierOrder, SteadyInv, SharesKept, steady, NEW u \in Users, MakePick(u)
    PROVE  SharesKept'
<1> DEFINE n == NextNumber
           clock == OnTheClock
           us == PickedWith(u)
<1>1. /\ us \in SUBSET Pool /\ Pool \in SUBSET Users /\ IsUnit(us)
      /\ n \in Nat \ {0} /\ n \notin NumsOf(picks) /\ clock \in Teams /\ Adds(picks, picks', n, clock, us)
      /\ Pool' = Pool \ us /\ pairs' = pairs /\ Made' = Made /\ TeamCount' = TeamCount
  BY PickMoves
<1>2. Orderly(picks) /\ IsFiniteSet(NumsOf(picks)) /\ PairsSpokenFor
  BY NumbersFinite, NumbersAre DEF SteadyInv, BaseInv
<1>3. us \in Takes(clock) /\ cutMode' = cutMode
  BY DEF MakePick, MayPick, draftVars
<1> HIDE DEF n, clock, us
<1>4. SameShares
  <2>1. /\ Cardinality(PairNums(picks')) + Cardinality(PairsIn(Pool \ us)) = Cardinality(PairNums(picks)) + Cardinality(PairsIn(Pool))
        /\ Cardinality(NumsOf(picks') \ PairNums(picks')) + Cardinality(SinglesIn(Pool \ us))
           = Cardinality(NumsOf(picks) \ PairNums(picks)) + Cardinality(SinglesIn(Pool))
    <3>1. PICK K, more, P, m, t, unit : K = picks /\ more = picks' /\ P = Pool /\ m = n /\ t = clock /\ unit = us
      OBVIOUS
    <3>2. /\ Cardinality(PairNums(more)) + Cardinality(PairsIn(P \ unit)) = Cardinality(PairNums(K)) + Cardinality(PairsIn(P))
          /\ Cardinality(NumsOf(more) \ PairNums(more)) + Cardinality(SinglesIn(P \ unit))
             = Cardinality(NumsOf(K) \ PairNums(K)) + Cardinality(SinglesIn(P))
      <4>1. Orderly(K) /\ IsFiniteSet(NumsOf(K)) /\ PairsSpokenFor /\ P \in SUBSET Users /\ unit \in SUBSET P /\ IsUnit(unit)
            /\ m \in Nat \ {0} /\ m \notin NumsOf(K) /\ t \in Teams /\ Adds(K, more, m, t, unit)
        BY <1>1, <1>2, <3>1
      <4> QED BY <4>1, AsManyUnits
    <3> QED BY <3>1, <3>2
  <2> QED BY <1>1, <1>3, <2>1, CountsAfter, CountsBefore DEF SameShares
<1>5. SUFFICES ASSUME HasShares PROVE SharesKept'
  BY <1>4, SharesStay DEF SharesKept
<1>6. SharesHold
  BY Balanced
<1>7. \A t \in Made : Cardinality(PairPicksOf(t)) <= PairShare /\ Cardinality(SinglePicksOf(t)) <= SingleShare
  BY <1>5 DEF SharesKept
<1>8. us \in Available /\ ~NothingLeftFor(clock)
  <2>1. us \in Available
    BY <1>3 DEF Takes, Available
  <2> QED BY <1>5, <1>6, <2>1 DEF SharesHold, clock
<1>9. IF us \in pairs THEN Cardinality(PairPicksOf(clock)) < PairShare ELSE Cardinality(SinglePicksOf(clock)) < SingleShare
  <2>1. AvailablePairs \subseteq pairs /\ AvailableSingles \cap pairs = {}
    BY PoolUnits DEF AvailablePairs, AvailableSingles
  <2>2. us \in pairs => ShortOfPairs(clock)
    BY <1>3, <1>8, <2>1 DEF Takes, TakesPairs
  <2>3. us \notin pairs => ShortOfSingles(clock)
    BY <1>3, <1>8, <2>1 DEF Takes, TakesSingles
  <2> QED BY <1>5, <2>2, <2>3 DEF ShortOfPairs, ShortOfSingles
<1>10. us \in SUBSET Users
  BY <1>1
<1>11. /\ NumsOf(picks') = NumsOf(picks) \cup {n}
       /\ PairNums(picks') = IF us \in pairs THEN PairNums(picks) \cup {n} ELSE PairNums(picks)
       /\ TeamNums(picks', clock) = TeamNums(picks, clock) \cup {n}
       /\ \A other : other # clock => TeamNums(picks', other) = TeamNums(picks, other)
  BY <1>1, <1>2, <1>10, OneMorePick
<1>12. \A t : n \notin TeamNums(picks, t) /\ n \notin PairNums(picks)
  BY <1>1 DEF TeamNums, NumsOf, PairNums
<1>13. ASSUME NEW t \in Made
       PROVE  Cardinality(PairPicksOf(t)') <= PairShare /\ Cardinality(SinglePicksOf(t)') <= SingleShare
  <2>1. /\ PairPicksOf(t)' = TeamNums(picks', t) \cap PairNums(picks') /\ SinglePicksOf(t)' = TeamNums(picks', t) \ PairNums(picks')
        /\ PairPicksOf(t) = TeamNums(picks, t) \cap PairNums(picks) /\ SinglePicksOf(t) = TeamNums(picks, t) \ PairNums(picks)
    BY <1>1, CountsAfter, CountsBefore
  <2>2. CASE t # clock
    <3>1. PairPicksOf(t)' = PairPicksOf(t) /\ SinglePicksOf(t)' = SinglePicksOf(t)
      BY <1>11, <1>12, <2>1, <2>2
    <3> QED BY <1>7, <3>1
  <2>3. /\ IsFiniteSet(PairPicksOf(t)) /\ Cardinality(PairPicksOf(t)) \in Nat
        /\ IsFiniteSet(SinglePicksOf(t)) /\ Cardinality(SinglePicksOf(t)) \in Nat
    BY PicksFinite
  <2>4. PairShare \in Nat /\ SingleShare \in Nat
    BY <1>5, ShareParts
  <2>5. CASE t = clock /\ us \in pairs
    <3>1. PairPicksOf(t)' = PairPicksOf(t) \cup {n} /\ SinglePicksOf(t)' = SinglePicksOf(t) /\ n \notin PairPicksOf(t)
      BY <1>11, <1>12, <2>1, <2>5
    <3>2. Cardinality(PairPicksOf(t) \cup {n}) = Cardinality(PairPicksOf(t)) + 1
      BY <2>3, <3>1, FS_AddElement
    <3> QED BY <1>7, <1>9, <2>3, <2>4, <2>5, <3>1, <3>2
  <2>6. CASE t = clock /\ us \notin pairs
    <3>1. PairPicksOf(t)' = PairPicksOf(t) /\ SinglePicksOf(t)' = SinglePicksOf(t) \cup {n} /\ n \notin SinglePicksOf(t)
      BY <1>11, <1>12, <2>1, <2>6
    <3>2. Cardinality(SinglePicksOf(t) \cup {n}) = Cardinality(SinglePicksOf(t)) + 1
      BY <2>3, <3>1, FS_AddElement
    <3> QED BY <1>7, <1>9, <2>3, <2>4, <2>6, <3>1, <3>2
  <2> QED BY <2>2, <2>5, <2>6
<1> QED BY <1>1, <1>4, <1>13, SharesStay DEF SharesKept

LEMMA UndoKeepsShares ==
    ASSUME BaseInv, IsFiniteSet(Teams), IsFiniteSet(Users), SteadyInv, SharesKept, steady, UndoLastPick
    PROVE  SharesKept'
<1>1. PICK n \in Nat \ {0}, clock \in Teams, us \in SUBSET Pool' :
          n \notin NumsOf(picks') /\ IsUnit(us) /\ Adds(picks', picks, n, clock, us) /\ Pool = Pool' \ us
  BY UndoMoves
<1>2. Pool' \in SUBSET Users /\ Orderly(picks') /\ pairs' = pairs /\ Made' = Made /\ TeamCount' = TeamCount
  BY UndoMoves
<1>3. us \in SUBSET Users /\ PairsSpokenFor /\ cutMode' = cutMode
  BY <1>2 DEF BaseInv, UndoLastPick, draftVars
<1>4. /\ NumsOf(picks) = NumsOf(picks') \cup {n}
      /\ PairNums(picks) = IF us \in pairs THEN PairNums(picks') \cup {n} ELSE PairNums(picks')
      /\ TeamNums(picks, clock) = TeamNums(picks', clock) \cup {n}
      /\ \A other : other # clock => TeamNums(picks, other) = TeamNums(picks', other)
  BY <1>1, <1>2, <1>3, OneMorePick
<1>5. IsFiniteSet(NumsOf(picks'))
  BY <1>4, NumbersFinite, NumbersAre, FS_Subset
<1>6. SameShares
  <2>1. /\ Cardinality(PairNums(picks)) + Cardinality(PairsIn(Pool' \ us))
           = Cardinality(PairNums(picks')) + Cardinality(PairsIn(Pool'))
        /\ Cardinality(NumsOf(picks) \ PairNums(picks)) + Cardinality(SinglesIn(Pool' \ us))
           = Cardinality(NumsOf(picks') \ PairNums(picks')) + Cardinality(SinglesIn(Pool'))
    BY <1>1, <1>2, <1>3, <1>5, AsManyUnits
  <2> QED BY <1>1, <1>2, <1>3, <2>1, CountsAfter, CountsBefore DEF SameShares
<1>7. SUFFICES ASSUME HasShares PROVE SharesKept'
  BY <1>6, SharesStay DEF SharesKept
<1>8. ASSUME NEW t \in Made
      PROVE  Cardinality(PairPicksOf(t)') <= PairShare /\ Cardinality(SinglePicksOf(t)') <= SingleShare
  <2>1. /\ PairPicksOf(t)' = TeamNums(picks', t) \cap PairNums(picks') /\ SinglePicksOf(t)' = TeamNums(picks', t) \ PairNums(picks')
        /\ PairPicksOf(t) = TeamNums(picks, t) \cap PairNums(picks) /\ SinglePicksOf(t) = TeamNums(picks, t) \ PairNums(picks)
    BY <1>2, CountsAfter, CountsBefore
  <2>2. TeamNums(picks', t) \subseteq TeamNums(picks, t) /\ TeamNums(picks', t) \subseteq NumsOf(picks')
    BY <1>4 DEF TeamNums, NumsOf
  <2>3. PairPicksOf(t)' \in SUBSET PairPicksOf(t) /\ SinglePicksOf(t)' \in SUBSET SinglePicksOf(t)
    BY <1>1, <1>4, <2>1, <2>2
  <2>4. /\ IsFiniteSet(PairPicksOf(t)) /\ Cardinality(PairPicksOf(t)) \in Nat
        /\ IsFiniteSet(SinglePicksOf(t)) /\ Cardinality(SinglePicksOf(t)) \in Nat
    BY PicksFinite
  <2>5. /\ Cardinality(PairPicksOf(t)') <= Cardinality(PairPicksOf(t)) /\ Cardinality(PairPicksOf(t)') \in Nat
        /\ Cardinality(SinglePicksOf(t)') <= Cardinality(SinglePicksOf(t)) /\ Cardinality(SinglePicksOf(t)') \in Nat
    <3>1. IsFiniteSet(PairPicksOf(t)') /\ IsFiniteSet(SinglePicksOf(t)')
      BY <2>3, <2>4, FS_Subset
    <3> QED BY <2>3, <2>4, <3>1, FS_Subset, FS_CardinalityType
  <2>6. Cardinality(PairPicksOf(t)) <= PairShare /\ Cardinality(SinglePicksOf(t)) <= SingleShare
    BY <1>7 DEF SharesKept
  <2>7. PairShare \in Int /\ SingleShare \in Int
    <3>1. AllPairs \in Nat /\ AllSingles \in Nat /\ TeamCount \in Nat /\ TeamCount >= 2
      <4>1. Pool \in SUBSET Users
        BY <1>1, <1>2
      <4> QED BY <1>7, <4>1, MadeCount, PicksFinite, UnitsFinite, UnitsAre DEF HasShares, AllPairs, AllSingles
    <3> QED BY <3>1 DEF PairShare, SingleShare
  <2> QED BY <2>4, <2>5, <2>6, <2>7
<1> QED BY <1>2, <1>6, <1>8, SharesStay DEF SharesKept

-----------------------------------------------------------------------------
(* Every step. *)

SharesInv == EarlierOrder /\ SteadyInv /\ SharesKept

LEMMA NextKeepsShares ==
    ASSUME BaseInv, IsFiniteSet(Teams), IsFiniteSet(Users), SharesInv, [Next]_vars
    PROVE  SharesInv'
<1>1. ASSUME UNCHANGED <<rvars, cutMode, steady>> PROVE SharesInv'
  <2>1. UNCHANGED <<active, earlier, pairs, members, captain, picks, started>>
    BY <1>1 DEF rvars, rosterVars
  <2>2. EarlierOrder'
    BY <2>1 DEF SharesInv, EarlierOrder
  <2>3. SteadyInv'
    BY <1>1, <2>1 DEF SharesInv, SteadyInv, Orderly, IsUnit, Paired
  <2>4. Pool' = Pool /\ Made' = Made
    BY <2>1 DEF Pool, OnATeam, Made
  <2>5. SameShares /\ \A t : PairPicksOf(t)' = PairPicksOf(t) /\ SinglePicksOf(t)' = SinglePicksOf(t)
    BY <1>1, <2>1, <2>4, CountsAfter, CountsBefore DEF SameShares, TeamCount
  <2>6. SharesKept'
    BY <1>1, <2>4, <2>5, SharesStay DEF SharesInv, SharesKept
  <2> QED BY <2>2, <2>3, <2>6 DEF SharesInv
<1>2. CASE RosterStep
  <2>1. EarlierOrder'
    BY <1>2, RosterKeepsOrder DEF RosterStep, SharesInv, BaseInv
  <2>2. SUFFICES ASSUME steady' PROVE SteadyInv' /\ SharesKept'
    BY <2>1 DEF SharesInv, SteadyInv, SharesKept
  <2>3. RosterNext /\ steady /\ Pool' = Pool /\ pairs' = pairs /\ members \subseteq members' /\ {p.user : p \in picks} \subseteq active'
        /\ cutMode' = cutMode
    BY <1>2, <2>2 DEF RosterStep
  <2>4. UNCHANGED <<picks, started>> /\ started
    BY <2>3, RosterKeepsPicks DEF SharesInv, SteadyInv
  <2>5. Made' = Made /\ TeamCount' = TeamCount
    BY <2>3, <2>4, RosterKeepsTeams DEF BaseInv, TeamCount
  <2>6. SteadyInv'
    <3>1. Orderly(picks)'
      BY <2>3, <2>4 DEF SharesInv, SteadyInv, Orderly, IsUnit, Paired
    <3>2. \A p \in picks : p.user \in active' /\ \E m \in members' : m.team = p.team /\ m.user = p.user
      BY <2>3 DEF SharesInv, SteadyInv
    <3> QED BY <2>3, <2>4, <3>1, <3>2 DEF SharesInv, SteadyInv
  <2>7. AllPairs' = AllPairs /\ AllSingles' = AllSingles /\ \A t : PairPicksOf(t)' = PairPicksOf(t) /\ SinglePicksOf(t)' = SinglePicksOf(t)
    BY <2>3, <2>4, CountsAfter, CountsBefore
  <2>8. SameShares
    BY <2>3, <2>5, <2>7 DEF SameShares
  <2>9. SharesKept'
    BY <2>3, <2>5, <2>7, <2>8, SharesStay DEF SharesInv, SharesKept
  <2> QED BY <2>6, <2>9
<1>3. CASE StartDraft
  <2>1. picks = {} /\ started' = TRUE /\ UNCHANGED <<rosterVars, picks, cutMode>>
    BY <1>3 DEF StartDraft
  <2>2. EarlierOrder'
    BY <2>1 DEF SharesInv, EarlierOrder, rosterVars
  <2>3. SteadyInv'
    BY <2>1 DEF SteadyInv, Orderly, NumsOf
  <2>4. \A t : PairPicksOf(t)' = {} /\ SinglePicksOf(t)' = {}
    BY <2>1 DEF PairPicksOf, SinglePicksOf, NumbersOf
  <2>5. SameShares /\ Made' = Made
    BY <2>1 DEF SameShares, AllPairs, AllSingles, PairPicks, PicksNumbered, Numbers, PairUnits, SingleUnits, Pool, OnATeam, TeamCount, Made,
                rosterVars
  <2>6. HasShares => PairShare \in Nat /\ SingleShare \in Nat
    BY ShareParts DEF SharesInv
  <2>7. Cardinality({}) = 0
    BY FS_EmptySet
  <2>8. SharesKept'
    BY <2>4, <2>5, <2>6, <2>7, SharesStay DEF SharesKept
  <2> QED BY <2>2, <2>3, <2>8 DEF SharesInv
<1>4. ASSUME NEW u \in Users, MakePick(u) PROVE SharesInv'
  <2>1. EarlierOrder' /\ steady' = steady
    BY <1>4 DEF MakePick, draftVars, SharesInv, EarlierOrder
  <2>2. SUFFICES ASSUME steady PROVE SteadyInv' /\ SharesKept'
    BY <2>1 DEF SharesInv, SteadyInv, SharesKept
  <2> QED BY <1>4, <2>2, PickMoves, PickKeepsShares DEF SharesInv
<1>5. CASE UndoLastPick
  <2>1. EarlierOrder' /\ steady' = steady
    BY <1>5 DEF UndoLastPick, draftVars, SharesInv, EarlierOrder
  <2>2. SUFFICES ASSUME steady PROVE SteadyInv' /\ SharesKept'
    BY <2>1 DEF SharesInv, SteadyInv, SharesKept
  <2> QED BY <1>5, <2>2, UndoMoves, UndoKeepsShares DEF SharesInv
<1>6. ASSUME NEW mode \in CutModes, SetCutMode(mode) PROVE SharesInv'
  BY <1>6 DEF SetCutMode, SharesInv, EarlierOrder, SteadyInv, SharesKept, rvars, rosterVars
<1>7. CASE LockExpires \/ UNCHANGED vars
  BY <1>1, <1>7 DEF LockExpires, vars, draftVars
<1>8. ASSUME NEW newOrder \in [Teams -> 0..Cardinality(Teams)], NEW reveal \in BOOLEAN, OrderTeams(newOrder, reveal) PROVE SharesInv'
  BY <1>1, <1>8 DEF OrderTeams
<1> QED BY <1>2, <1>3, <1>4, <1>5, <1>6, <1>7, <1>8 DEF Next, DraftNext

\* While, since the Draft was started, only picks and taking them back change the pool: no Team gets more pairs or singles
\* than its share, the Team on the clock is short of something that is left, and when nobody is left every Team has its
\* share (markCuts, teamTakes).
THEOREM SharesAreHeld == ASSUME IsFiniteSet(Teams), IsFiniteSet(Users) PROVE Spec => []SharesHold
<1>1. Init => SharesInv
  BY DEF Init, RosterInit, SharesInv, EarlierOrder, SteadyInv, SharesKept
<1>2. BaseInv /\ SharesInv /\ [Next]_vars => SharesInv'
  BY NextKeepsShares
<1>3. BaseInv /\ SharesInv => SharesHold
  BY Balanced DEF SharesInv
<1> QED BY <1>1, <1>2, <1>3, BaseHolds, PTL DEF Spec

-----------------------------------------------------------------------------
(* The Superlatives. Who wins with one each is awarded in rounds: what is    *)
(* fair of the first ones stays so (FairSoFar), and after as many rounds as  *)
(* there are categories nothing is left to award.                            *)

\* The first n rounds.
Rounds(poll, g, n) == g = [round \in 0..n |-> IF round = 0 THEN {} ELSE OneRound(poll, g[round - 1])]

LEMMA RoundsExist == ASSUME NEW poll, NEW n \in Nat PROVE \E g : Rounds(poll, g, n)
<1> DEFINE bad == {m \in Nat : ~\E g : Rounds(poll, g, m)}
<1> SUFFICES ASSUME bad # {} PROVE FALSE
  OBVIOUS
<1>1. PICK m \in bad : \A k \in bad : m <= k
  BY SmallestOf
<1>2. CASE m = 0
  <2> DEFINE g == [round \in 0..0 |-> {}]
  <2>1. g = [round \in 0..m |-> IF round = 0 THEN {} ELSE OneRound(poll, g[round - 1])]
    BY <1>2
  <2> QED BY <1>1, <2>1 DEF Rounds
<1>3. CASE m # 0
  <2>1. m - 1 \in Nat /\ m - 1 \notin bad
    BY <1>1, <1>3
  <2>2. PICK g : Rounds(poll, g, m - 1)
    BY <2>1
  <2> DEFINE h == [round \in 0..m |-> IF round = 0 THEN {} ELSE OneRound(poll, g[round - 1])]
  <2>3. \A round \in 0..m : h[round] = IF round = 0 THEN {} ELSE OneRound(poll, g[round - 1])
    OBVIOUS
  <2>4. \A round \in 0..m - 1 : g[round] = IF round = 0 THEN {} ELSE OneRound(poll, g[round - 1])
    BY <2>1, <2>2 DEF Rounds
  <2>5. \A round \in 0..m : (IF round = 0 THEN {} ELSE OneRound(poll, g[round - 1])) = (IF round = 0 THEN {} ELSE OneRound(poll, h[round - 1]))
    <3> SUFFICES ASSUME NEW round \in 0..m, round # 0 PROVE g[round - 1] = h[round - 1]
      OBVIOUS
    <3>1. round - 1 \in 0..m - 1 /\ round - 1 \in 0..m
      BY <2>1
    <3> QED BY <2>3, <2>4, <3>1
  <2>6. h = [round \in 0..m |-> IF round = 0 THEN {} ELSE OneRound(poll, h[round - 1])]
    <3>1. h = [round \in 0..m |-> h[round]]
      OBVIOUS
    <3> HIDE DEF h
    <3> QED BY <2>3, <2>5, <3>1
  <2> QED BY <1>1, <2>6 DEF Rounds
<1> QED BY <1>2, <1>3

LEMMA OneEachIs ==
    ASSUME NEW poll, Cardinality(Categories) \in Nat
    PROVE  \E g : Rounds(poll, g, Cardinality(Categories)) /\ OneEach(poll) = g[Cardinality(Categories)]
<1> DEFINE awarded == CHOOSE g : g = [round \in 0..Cardinality(Categories) |-> IF round = 0 THEN {} ELSE OneRound(poll, g[round - 1])]
<1>1. Rounds(poll, awarded, Cardinality(Categories))
  BY RoundsExist DEF Rounds
<1>2. OneEach(poll) = awarded[Cardinality(Categories)]
  BY Zenon DEF OneEach
<1> QED BY <1>1, <1>2

-----------------------------------------------------------------------------

\* c is before d by more and, of equals, by its place and its number.
Ahead(more, at, c, d) == more[c] > more[d] \/ (more[c] = more[d] /\ (at[c] < at[d] \/ (at[c] = at[d] /\ c < d)))
HasBest(more, at, S) == \E c \in S : \A d \in S \ {c} : Ahead(more, at, c, d)

LEMMA BestOf ==
    ASSUME NEW S \in SUBSET Nat, IsFiniteSet(S), S # {}, NEW more \in [S -> Int], NEW at \in [S -> Nat]
    PROVE  HasBest(more, at, S)
<1> DEFINE bad == {n \in Nat : \E T \in SUBSET S : T # {} /\ Cardinality(T) = n /\ ~HasBest(more, at, T)}
<1>0. \A T \in SUBSET S : IsFiniteSet(T) /\ Cardinality(T) \in Nat
  BY FS_Subset, FS_CardinalityType
<1>1. SUFFICES ASSUME bad # {} PROVE FALSE
  <2> SUFFICES ASSUME ~HasBest(more, at, S) PROVE bad # {}
    OBVIOUS
  <2>1. Cardinality(S) \in bad
    BY <1>0
  <2> QED BY <2>1
<1>2. PICK n \in bad : \A m \in bad : n <= m
  BY <1>1, SmallestOf
<1>3. PICK T \in SUBSET S : T # {} /\ Cardinality(T) = n /\ ~HasBest(more, at, T)
  BY <1>2
<1>4. PICK e \in T : TRUE
  BY <1>3
<1>5. IsFiniteSet(T \ {e}) /\ Cardinality(T \ {e}) = n - 1 /\ n - 1 \in Nat
  <2>1. Cardinality(T \ {e}) = Cardinality(T) - 1
    BY <1>0, <1>3, <1>4, FS_RemoveElement
  <2>2. T \ {e} \in SUBSET S
    BY <1>3
  <2>3. Cardinality(T \ {e}) \in Nat /\ IsFiniteSet(T \ {e})
    BY <1>0, <2>2
  <2> QED BY <1>3, <2>1, <2>3
<1>6. n - 1 \notin bad
  BY <1>2, <1>5
<1>7. T \ {e} = {} \/ HasBest(more, at, T \ {e})
  BY <1>3, <1>5, <1>6
<1>8. CASE T \ {e} = {}
  BY <1>3, <1>4, <1>8 DEF HasBest
<1>9. CASE HasBest(more, at, T \ {e})
  <2>1. PICK c \in T \ {e} : \A d \in (T \ {e}) \ {c} : Ahead(more, at, c, d)
    BY <1>9 DEF HasBest
  <2>2. /\ c \in Nat /\ e \in Nat /\ c # e
        /\ more[c] \in Int /\ more[e] \in Int /\ at[c] \in Nat /\ at[e] \in Nat
    BY <1>3, <1>4, <2>1
  <2>3. Ahead(more, at, c, e) \/ Ahead(more, at, e, c)
    BY <2>2 DEF Ahead
  <2>4. CASE Ahead(more, at, c, e)
    <3>1. \A d \in T \ {c} : Ahead(more, at, c, d)
      BY <2>1, <2>4
    <3> QED BY <1>3, <2>1, <3>1 DEF HasBest
  <2>5. CASE Ahead(more, at, e, c)
    <3>1. ASSUME NEW d \in T \ {e} PROVE Ahead(more, at, e, d)
      <4>1. CASE d = c
        BY <2>5, <4>1
      <4>2. CASE d # c
        <5>1. Ahead(more, at, c, d)
          BY <2>1, <4>2
        <5>2. d \in Nat /\ more[d] \in Int /\ at[d] \in Nat
          BY <1>3
        <5> QED BY <2>2, <2>5, <5>1, <5>2 DEF Ahead
      <4> QED BY <4>1, <4>2
    <3> QED BY <1>3, <1>4, <3>1 DEF HasBest
  <2> QED BY <2>3, <2>4, <2>5
<1> QED BY <1>7, <1>8, <1>9

LEMMA MaxOf ==
    ASSUME NEW S \in SUBSET Nat, IsFiniteSet(S), S # {}
    PROVE  Max(S) \in S /\ \A n \in S : n <= Max(S)
<1> DEFINE more == [n \in S |-> n]
<1>1. HasBest(more, more, S)
  <2> more \in [S -> Int] /\ more \in [S -> Nat]
    OBVIOUS
  <2> HIDE DEF more
  <2> QED BY BestOf
<1>2. PICK n \in S : \A m \in S \ {n} : more[n] > more[m] \/ (more[n] = more[m] /\ (more[n] < more[m] \/ (more[n] = more[m] /\ n < m)))
  BY <1>1 DEF HasBest, Ahead
<1>3. \A m \in S : n >= m
  BY <1>2
<1> QED BY <1>3 DEF Max

LEMMA FiniteCounts ==
    ASSUME NEW S, IsFiniteSet(S), NEW count, \A u \in S : count[u] \in Nat
    PROVE  {count[u] : u \in S} \in SUBSET Nat /\ IsFiniteSet({count[u] : u \in S})
<1> DEFINE f == [u \in S |-> count[u]]
           T == {count[u] : u \in S}
<1>1. f \in Surjection(S, T)
  <2>1. f \in [S -> T] /\ \A x \in T : \E u \in S : f[u] = x
    OBVIOUS
  <2> QED BY <2>1 DEF Surjection
<1>2. IsFiniteSet(T)
  <2> HIDE DEF f, T
  <2> QED BY <1>1, FS_Surjection
<1> QED BY <1>2

-----------------------------------------------------------------------------

\* A Team's counts.
Poll(poll) == /\ Categories \in SUBSET Nat /\ IsFiniteSet(Categories) /\ place \in [Categories -> Nat]
              /\ IsFiniteSet(Users) /\ poll \in [Categories -> [Users -> Nat]]

LEMMA LeadersOf ==
    ASSUME NEW poll, Poll(poll), NEW c \in Categories, NEW won, Eligible(poll, c, won) # {}
    PROVE  /\ Leaders(poll, c, won) # {} /\ IsFiniteSet(Leaders(poll, c, won))
           /\ Leaders(poll, c, won) \subseteq Eligible(poll, c, won)
           /\ Eligible(poll, c, won) \subseteq Users \ won
           /\ \A u \in Eligible(poll, c, won) \ Leaders(poll, c, won), w \in Leaders(poll, c, won) : poll[c][w] > poll[c][u]
           /\ \A u, w \in Leaders(poll, c, won) : poll[c][w] = poll[c][u]
<1> DEFINE S == Eligible(poll, c, won)
           counts == {poll[c][u] : u \in S}
<1>1. S \subseteq Users \ won /\ IsFiniteSet(S)
  <2>1. S \subseteq Users
    BY DEF Eligible
  <2> QED BY <2>1, FS_Subset DEF Eligible, Poll
<1>2. \A u \in S : poll[c][u] \in Nat
  BY <1>1 DEF Poll
<1>3. counts \in SUBSET Nat /\ IsFiniteSet(counts) /\ counts # {}
  <2>1. counts # {}
    OBVIOUS
  <2> HIDE DEF S
  <2> QED BY <1>1, <1>2, <2>1, FiniteCounts
<1>4. PICK n \in counts : \A m \in counts : m <= n
  <2> HIDE DEF counts
  <2> QED BY <1>3, MaxOf
<1>5. PICK u \in S : n = poll[c][u]
  BY <1>4
<1>6. u \in Leaders(poll, c, won)
  BY <1>4, <1>5 DEF Leaders
<1>7. Leaders(poll, c, won) \subseteq S
  BY DEF Leaders
<1>8. IsFiniteSet(Leaders(poll, c, won))
  BY <1>1, <1>7, FS_Subset
<1>9. \A v \in S \ Leaders(poll, c, won), w \in Leaders(poll, c, won) : poll[c][w] > poll[c][v]
  <2> SUFFICES ASSUME NEW v \in S, v \notin Leaders(poll, c, won), NEW w \in Leaders(poll, c, won) PROVE poll[c][w] > poll[c][v]
    OBVIOUS
  <2>1. PICK x \in S : ~(poll[c][x] <= poll[c][v])
    BY DEF Leaders
  <2>2. w \in S /\ poll[c][x] <= poll[c][w]
    BY DEF Leaders
  <2> QED BY <1>2, <2>1, <2>2
<1>10. \A v, w \in Leaders(poll, c, won) : poll[c][w] = poll[c][v]
  <2> SUFFICES ASSUME NEW v \in Leaders(poll, c, won), NEW w \in Leaders(poll, c, won) PROVE poll[c][w] = poll[c][v]
    OBVIOUS
  <2>1. v \in S /\ w \in S /\ poll[c][v] <= poll[c][w] /\ poll[c][w] <= poll[c][v]
    BY DEF Leaders
  <2> QED BY <1>2, <2>1
<1> QED BY <1>1, <1>6, <1>7, <1>8, <1>9, <1>10

LEMMA MarginOf ==
    ASSUME NEW poll, Poll(poll), NEW c \in Categories, NEW won, Eligible(poll, c, won) # {}
    PROVE  /\ Margin(poll, c, won) \in Int
           /\ Cardinality(Leaders(poll, c, won)) > 1 => Margin(poll, c, won) = 0
           /\ Cardinality(Leaders(poll, c, won)) = 1 => Margin(poll, c, won) > 0
<1> DEFINE L == Leaders(poll, c, won)
           E == Eligible(poll, c, won)
           firsts == {poll[c][u] : u \in L}
           nexts == {poll[c][u] : u \in E \ L}
           others == nexts \cup {0}
<1>1. /\ L # {} /\ IsFiniteSet(L) /\ L \subseteq E /\ E \subseteq Users
      /\ \A u \in E \ L, w \in L : poll[c][w] > poll[c][u]
  <2> HIDE DEF L, E
  <2> QED BY LeadersOf DEF L, E
<1>2. \A u \in E : poll[c][u] \in Nat /\ poll[c][u] > 0
  BY <1>1 DEF Eligible, Poll
<1>3. IsFiniteSet(E) /\ IsFiniteSet(E \ L)
  <2>1. E \ L \subseteq Users
    BY <1>1
  <2> HIDE DEF L, E
  <2> QED BY <1>1, <2>1, FS_Subset DEF Poll
<1>4. firsts \in SUBSET Nat /\ IsFiniteSet(firsts) /\ firsts # {}
  <2>1. firsts # {}
    BY <1>1
  <2>2. \A u \in L : poll[c][u] \in Nat
    BY <1>1, <1>2
  <2> HIDE DEF L, E
  <2> QED BY <1>1, <2>1, <2>2, FiniteCounts
<1>5. others \in SUBSET Nat /\ IsFiniteSet(others) /\ others # {}
  <2>1. \A u \in E \ L : poll[c][u] \in Nat
    BY <1>2
  <2>2. nexts \in SUBSET Nat /\ IsFiniteSet(nexts)
    <3> HIDE DEF L, E
    <3> QED BY <1>3, <2>1, FiniteCounts
  <2>3. IsFiniteSet(others)
    <3> HIDE DEF nexts
    <3> QED BY <2>2, FS_AddElement
  <2> QED BY <2>2, <2>3
<1>6. Max(firsts) \in firsts /\ Max(others) \in others
  <2> HIDE DEF firsts, others
  <2> QED BY <1>4, <1>5, MaxOf
<1>7. Max(firsts) > Max(others) /\ Max(firsts) \in Nat /\ Max(others) \in Nat
  <2>1. PICK w \in L : Max(firsts) = poll[c][w]
    BY <1>6
  <2>2. poll[c][w] \in Nat /\ poll[c][w] > 0
    BY <1>1, <1>2
  <2>3. \A n \in others : n = 0 \/ \E u \in E \ L : n = poll[c][u]
    OBVIOUS
  <2>4. \A n \in others : n < poll[c][w]
    BY <1>1, <2>2, <2>3
  <2> HIDE DEF firsts, others, L, E
  <2> QED BY <1>4, <1>5, <1>6, <2>1, <2>4
<1>8. Margin(poll, c, won) = IF Cardinality(L) > 1 THEN 0 ELSE Max(firsts) - Max(others)
  BY Zenon DEF Margin
<1>9. Cardinality(L) \in Nat
  BY <1>1, FS_CardinalityType
<1> HIDE DEF L, E, firsts, others
<1>10. /\ Margin(poll, c, won) \in Int
       /\ Cardinality(L) > 1 => Margin(poll, c, won) = 0
       /\ Cardinality(L) = 1 => Margin(poll, c, won) > 0
  BY <1>7, <1>8, <1>9
<1> QED BY <1>10 DEF L

LEMMA BestIs ==
    ASSUME NEW poll, Poll(poll), NEW won, NEW open \in SUBSET Categories, open # {}, \A c \in open : Eligible(poll, c, won) # {}
    PROVE  LET c == Best(poll, open, won) IN
           c \in open /\ \A d \in open : Margin(poll, c, won) >= Margin(poll, d, won)
<1> DEFINE more == [c \in open |-> Margin(poll, c, won)]
           at == [c \in open |-> place[c]]
<1>0. \A c \in open : Margin(poll, c, won) \in Int /\ c \in Categories /\ c \in Nat /\ place[c] \in Nat
  <2>1. \A c \in open : c \in Categories /\ c \in Nat /\ place[c] \in Nat
    BY DEF Poll
  <2> QED BY <2>1, MarginOf
<1>1. HasBest(more, at, open)
  <2>1. open \in SUBSET Nat /\ IsFiniteSet(open) /\ more \in [open -> Int] /\ at \in [open -> Nat]
    BY <1>0, FS_Subset DEF Poll
  <2> HIDE DEF more, at
  <2> QED BY <2>1, BestOf
<1>2. PICK c \in open : \A d \in open \ {c} : Ahead(more, at, c, d)
  BY <1>1 DEF HasBest
<1>3. \A d \in open \ {c} : \/ Margin(poll, c, won) > Margin(poll, d, won)
                            \/ Margin(poll, c, won) = Margin(poll, d, won) /\ Before(c, d)
  BY <1>2 DEF Ahead, Before
<1>4. /\ Best(poll, open, won) \in open
      /\ \A d \in open \ {Best(poll, open, won)} :
           \/ Margin(poll, Best(poll, open, won), won) > Margin(poll, d, won)
           \/ Margin(poll, Best(poll, open, won), won) = Margin(poll, d, won) /\ Before(Best(poll, open, won), d)
  BY Zenon, <1>2, <1>3 DEF Best
<1> QED BY <1>0, <1>4

\* What has been awarded so far is fair.
Given(B) == {a[1] : a \in B}
FairSoFar(poll, B) ==
    /\ B \in SUBSET (Categories \X Users)
    /\ \A a \in B : poll[a[1]][a[2]] > 0
    /\ \A a, b \in B : a[2] = b[2] => a = b
    /\ \A c \in Given(B), u \in Users :
        poll[c][u] > 0 /\ <<c, u>> \notin B => u \in WhoWon(B) \/ \E b \in B : b[1] = c /\ poll[c][b[2]] > poll[c][u]
    /\ \A a, b \in B : a[1] = b[1] /\ a # b => \A c \in Categories : Leaders(poll, c, {}) # {a[2]}
    /\ \A c \in Given(B), u \in Users : Leaders(poll, c, {}) = {u} => u \in WhoWon(B)

LEMMA TwoOf == ASSUME NEW x, NEW y, x # y PROVE Cardinality({x, y}) = 2
<1>1. Cardinality({x}) = 1 /\ IsFiniteSet({x})
  BY FS_Singleton
<1>2. Cardinality({x} \cup {y}) = Cardinality({x}) + 1
  <2>1. y \notin {x}
    OBVIOUS
  <2> QED BY <1>1, <2>1, FS_AddElement
<1>3. {x} \cup {y} = {x, y}
  OBVIOUS
<1> QED BY <1>1, <1>2, <1>3

LEMMA RoundIsFair ==
    ASSUME NEW poll, Poll(poll), NEW B, FairSoFar(poll, B), StillOpen(poll, B) # {}
    PROVE  /\ FairSoFar(poll, OneRound(poll, B))
           /\ Cardinality(Given(OneRound(poll, B))) = Cardinality(Given(B)) + 1
<1> DEFINE won == WhoWon(B)
           open == StillOpen(poll, B)
<1>1. open \in SUBSET Categories /\ \A c \in open : Eligible(poll, c, won) # {} /\ c \notin Given(B)
  BY DEF StillOpen, Given
<1>2. PICK c \in open : c = Best(poll, open, won) /\ \A d \in open : Margin(poll, c, won) >= Margin(poll, d, won)
  <2> HIDE DEF open, won
  <2> QED BY <1>1, BestIs DEF open
<1>3. PICK L : L = Leaders(poll, c, won)
  OBVIOUS
<1>4. OneRound(poll, B) = B \cup ({c} \X L)
  BY Zenon, <1>2, <1>3 DEF OneRound
<1>5. /\ L # {} /\ L \subseteq Eligible(poll, c, won) /\ Eligible(poll, c, won) \subseteq Users \ won /\ IsFiniteSet(L)
      /\ \A u \in Eligible(poll, c, won) \ L, w \in L : poll[c][w] > poll[c][u]
  <2> HIDE DEF won, open
  <2> QED BY <1>1, <1>2, <1>3, LeadersOf
<1>6. PICK A : A = OneRound(poll, B)
  OBVIOUS
<1>7. A = B \cup ({c} \X L) /\ c \in Categories /\ c \notin Given(B) /\ B \in SUBSET (Categories \X Users)
  BY <1>1, <1>2, <1>4, <1>6 DEF FairSoFar
<1>8. \A a \in {c} \X L : a[1] = c /\ a[2] \in L /\ a = <<c, a[2]>>
  OBVIOUS
<1>9. Given(A) = Given(B) \cup {c} /\ WhoWon(A) = WhoWon(B) \cup L
  <2>1. Given({c} \X L) = {c} /\ WhoWon({c} \X L) = L
    <3>1. ASSUME NEW u \in L PROVE <<c, u>> \in {c} \X L /\ <<c, u>>[1] = c /\ <<c, u>>[2] = u
      OBVIOUS
    <3>2. L \subseteq WhoWon({c} \X L) /\ {c} \subseteq Given({c} \X L)
      BY <1>5, <3>1 DEF Given, WhoWon
    <3>3. WhoWon({c} \X L) \subseteq L /\ Given({c} \X L) \subseteq {c}
      BY <1>8 DEF Given, WhoWon
    <3> QED BY <3>2, <3>3
  <2>2. Given(A) = Given(B) \cup Given({c} \X L) /\ WhoWon(A) = WhoWon(B) \cup WhoWon({c} \X L)
    BY <1>7 DEF Given, WhoWon
  <2> QED BY <2>1, <2>2
<1>10. \A a \in B : a[1] \in Given(B) /\ a[2] \in won /\ a[1] # c /\ a[2] \notin L
  BY <1>5, <1>7 DEF Given, WhoWon
<1> HIDE DEF won, open
\* Whoever alone has the most votes in a category, and has won nothing yet, leads it.
<1>11. ASSUME NEW d \in Categories, NEW u \in Users, Leaders(poll, d, {}) = {u}, u \notin won
       PROVE  Eligible(poll, d, won) # {} /\ Leaders(poll, d, won) = {u}
  <2>1. u \in Eligible(poll, d, {}) /\ \A v \in Eligible(poll, d, {}) : poll[d][v] <= poll[d][u]
    BY <1>11 DEF Leaders
  <2>2. u \in Eligible(poll, d, won) /\ Eligible(poll, d, won) \subseteq Eligible(poll, d, {})
    BY <1>11, <2>1 DEF Eligible
  <2>3. u \in Leaders(poll, d, won)
    BY <2>1, <2>2 DEF Leaders
  <2>4. ASSUME NEW v \in Leaders(poll, d, won), v # u PROVE FALSE
    <3>1. v \in Eligible(poll, d, {}) /\ v \notin Leaders(poll, d, {})
      BY <1>11, <2>2, <2>4 DEF Leaders
    <3>2. poll[d][u] > poll[d][v]
      BY <1>11, <3>1, LeadersOf
    <3>3. poll[d][u] <= poll[d][v]
      BY <2>2, <2>4 DEF Leaders
    <3>4. poll[d][u] \in Nat /\ poll[d][v] \in Nat
      BY <3>1 DEF Poll, Eligible
    <3> QED BY <3>2, <3>3, <3>4
  <2> QED BY <2>2, <2>3, <2>4
<1>12. A \in SUBSET (Categories \X Users)
  BY <1>5, <1>7
<1>13. \A a \in A : poll[a[1]][a[2]] > 0
  <2>1. \A a \in B : poll[a[1]][a[2]] > 0
    BY DEF FairSoFar
  <2>2. \A u \in L : poll[c][u] > 0
    BY <1>5 DEF Eligible
  <2> QED BY <1>7, <1>8, <2>1, <2>2
<1>14. \A a, b \in A : a[2] = b[2] => a = b
  <2>1. \A a, b \in B : a[2] = b[2] => a = b
    BY DEF FairSoFar
  <2> QED BY <1>7, <1>8, <1>10, <2>1
<1>15. ASSUME NEW d \in Given(A), NEW u \in Users, poll[d][u] > 0, <<d, u>> \notin A
       PROVE  u \in WhoWon(A) \/ \E b \in A : b[1] = d /\ poll[d][b[2]] > poll[d][u]
  <2>1. CASE d \in Given(B)
    <3>1. u \in WhoWon(B) \/ \E b \in B : b[1] = d /\ poll[d][b[2]] > poll[d][u]
      BY <1>7, <1>15, <2>1 DEF FairSoFar
    <3> QED BY <1>7, <1>9, <3>1
  <2>2. CASE d = c
    <3>1. u \notin L
      BY <1>7, <1>15, <2>2
    <3>2. CASE u \in won
      BY <1>9, <3>2 DEF won
    <3>3. CASE u \notin won
      <4>1. u \in Eligible(poll, c, won)
        BY <1>15, <2>2, <3>3 DEF Eligible
      <4>2. PICK w \in L : TRUE
        BY <1>5
      <4>3. poll[c][w] > poll[c][u] /\ <<c, w>> \in A
        BY <1>5, <1>7, <3>1, <4>1
      <4>4. <<c, w>>[1] = d /\ poll[d][<<c, w>>[2]] > poll[d][u]
        BY <2>2, <4>3
      <4> QED BY <4>3, <4>4
    <3> QED BY <3>2, <3>3
  <2> QED BY <1>9, <2>1, <2>2
<1>16. ASSUME NEW a \in A, NEW b \in A, a[1] = b[1], a # b, NEW d \in Categories, Leaders(poll, d, {}) = {a[2]}
       PROVE  FALSE
  <2>1. CASE a \in B /\ b \in B
    BY <1>16, <2>1 DEF FairSoFar
  <2>2. CASE a \in {c} \X L /\ b \in {c} \X L
    <3>1. a[2] \in L /\ b[2] \in L /\ a[2] # b[2]
      BY <1>8, <1>16, <2>2
    <3>2. Cardinality(L) > 1
      <4>1. {a[2], b[2]} \subseteq L /\ Cardinality({a[2], b[2]}) = 2
        BY <3>1, TwoOf
      <4>2. Cardinality({a[2], b[2]}) <= Cardinality(L) /\ Cardinality(L) \in Nat
        BY <1>5, <4>1, FS_Subset, FS_CardinalityType
      <4> QED BY <4>1, <4>2
    <3>3. a[2] \in Users /\ a[2] \notin won
      BY <1>5, <3>1
    <3>4. Eligible(poll, d, won) # {} /\ Leaders(poll, d, won) = {a[2]}
      BY <1>11, <1>16, <3>3
    <3>5. d \notin Given(B)
      BY <1>16, <3>3 DEF FairSoFar, won
    <3>6. d \in open
      BY <3>4, <3>5 DEF open, StillOpen, Given, won
    <3>7. Margin(poll, c, won) >= Margin(poll, d, won)
      BY <1>2, <3>6
    <3>8. Margin(poll, c, won) = 0
      BY <1>1, <1>2, <1>3, <3>2, MarginOf
    <3>9. Margin(poll, d, won) > 0 /\ Margin(poll, d, won) \in Int
      <4>1. Cardinality({a[2]}) = 1
        BY FS_Singleton
      <4> QED BY <1>1, <3>4, <3>6, <4>1, MarginOf
    <3> QED BY <3>7, <3>8, <3>9
  <2> QED BY <1>7, <1>8, <1>10, <1>16, <2>1, <2>2
<1>17. ASSUME NEW d \in Given(A), NEW u \in Users, Leaders(poll, d, {}) = {u} PROVE u \in WhoWon(A)
  <2>1. CASE d \in Given(B)
    BY <1>9, <1>17, <2>1 DEF FairSoFar
  <2>2. CASE d = c
    <3>1. CASE u \in won
      BY <1>9, <3>1 DEF won
    <3>2. CASE u \notin won
      BY <1>3, <1>7, <1>9, <1>11, <1>17, <2>2, <3>2
    <3> QED BY <3>1, <3>2
  <2> QED BY <1>9, <2>1, <2>2
<1>18. FairSoFar(poll, A)
  BY <1>12, <1>14, <1>15, <1>16, <1>17, <1>13 DEF FairSoFar
<1>19. Cardinality(Given(A)) = Cardinality(Given(B)) + 1
  <2>1. Given(B) \subseteq Categories
    BY <1>7 DEF Given
  <2>2. IsFiniteSet(Given(B))
    BY <2>1, FS_Subset DEF Poll
  <2> QED BY <1>7, <1>9, <2>2, FS_AddElement
<1> QED BY <1>6, <1>18, <1>19

LEMMA OneEachIsFair ==
    ASSUME NEW poll, Poll(poll)
    PROVE  FairSoFar(poll, OneEach(poll)) /\ StillOpen(poll, OneEach(poll)) = {}
<1> DEFINE N == Cardinality(Categories)
<1>1. N \in Nat
  BY FS_CardinalityType DEF Poll
<1>2. PICK g : Rounds(poll, g, N) /\ OneEach(poll) = g[N]
  BY <1>1, OneEachIs
<1> HIDE DEF N
<1>3. \A r \in 0..N : g[r] = IF r = 0 THEN {} ELSE OneRound(poll, g[r - 1])
  BY <1>2 DEF Rounds
<1> DEFINE Good(r) == FairSoFar(poll, g[r]) /\ (StillOpen(poll, g[r]) = {} \/ Cardinality(Given(g[r])) = r)
           bad == {r \in 0..N : ~Good(r)}
<1>4. bad = {}
  <2> SUFFICES ASSUME bad # {} PROVE FALSE
    OBVIOUS
  <2>1. PICK r \in bad : \A m \in bad : r <= m
    <3> bad \in SUBSET Nat
      OBVIOUS
    <3> HIDE DEF bad
    <3> QED BY SmallestOf
  <2>2. CASE r = 0
    <3>1. g[0] = {}
      BY <1>1, <1>3
    <3>2. FairSoFar(poll, {}) /\ Given({}) = {}
      BY DEF FairSoFar, Given
    <3>3. Cardinality({}) = 0
      BY FS_EmptySet
    <3> QED BY <2>1, <2>2, <3>1, <3>2, <3>3
  <2>3. CASE r # 0
    <3>1. r - 1 \in 0..N /\ Good(r - 1) /\ r \in Nat
      BY <1>1, <2>1, <2>3
    <3>2. g[r] = OneRound(poll, g[r - 1])
      BY <1>3, <2>1, <2>3
    <3>3. CASE StillOpen(poll, g[r - 1]) = {}
      <4>1. g[r] = g[r - 1]
        BY <3>2, <3>3 DEF OneRound
      <4> QED BY <2>1, <3>1, <3>3, <4>1
    <3>4. CASE StillOpen(poll, g[r - 1]) # {}
      <4>1. FairSoFar(poll, g[r]) /\ Cardinality(Given(g[r])) = Cardinality(Given(g[r - 1])) + 1
        BY <3>1, <3>2, <3>4, RoundIsFair
      <4> QED BY <2>1, <3>1, <3>4, <4>1
    <3> QED BY <3>3, <3>4
  <2> QED BY <2>2, <2>3
<1>5. Good(N)
  <2>1. N \in 0..N
    BY <1>1
  <2> QED BY <1>4, <2>1
<1>6. CASE Cardinality(Given(g[N])) = N
  <2>1. Given(g[N]) \subseteq Categories
    BY <1>5 DEF FairSoFar, Given
  <2>2. Given(g[N]) = Categories
    BY <1>6, <2>1, FS_Subset DEF Poll, N
  <2>3. StillOpen(poll, g[N]) = {}
    BY <2>2 DEF StillOpen, Given
  <2> QED BY <1>2, <1>5, <2>3
<1> QED BY <1>2, <1>5, <1>6

\* What computeWinners promises of a Team's counts with one Superlative each.
LEMMA OneEachGivesFairly ==
    ASSUME NEW poll, Poll(poll)
    PROVE  /\ OneEach(poll) \in SUBSET (Categories \X Users)
           /\ \A a \in OneEach(poll) : poll[a[1]][a[2]] > 0
           /\ \A a, b \in OneEach(poll) : a[2] = b[2] => a = b
           /\ \A c \in Categories, u \in Users :
                poll[c][u] > 0 /\ <<c, u>> \notin OneEach(poll) =>
                    u \in WhoWon(OneEach(poll)) \/ \E b \in OneEach(poll) : b[1] = c /\ poll[c][b[2]] > poll[c][u]
           /\ \A a, b \in OneEach(poll) : a[1] = b[1] /\ a[2] # b[2] => \A c \in Categories : Leaders(poll, c, {}) # {a[2]}
<1>1. PICK B : B = OneEach(poll)
  OBVIOUS
<1>2. FairSoFar(poll, B) /\ StillOpen(poll, B) = {}
  BY <1>1, OneEachIsFair
<1>3. ASSUME NEW c \in Categories, NEW u \in Users, poll[c][u] > 0, <<c, u>> \notin B
      PROVE  u \in WhoWon(B) \/ \E b \in B : b[1] = c /\ poll[c][b[2]] > poll[c][u]
  <2>1. CASE c \in Given(B)
    BY <1>2, <1>3, <2>1 DEF FairSoFar
  <2>2. CASE c \notin Given(B)
    <3>1. Eligible(poll, c, WhoWon(B)) = {}
      BY <1>2, <2>2 DEF StillOpen, Given
    <3> QED BY <1>3, <3>1 DEF Eligible
  <2> QED BY <2>1, <2>2
<1>4. \A a, b \in B : a[1] = b[1] /\ a[2] # b[2] => \A c \in Categories : Leaders(poll, c, {}) # {a[2]}
  BY <1>2 DEF FairSoFar
<1> QED BY <1>1, <1>2, <1>3, <1>4 DEF FairSoFar

-----------------------------------------------------------------------------

\* The votes that stand are of people who are on the Team they voted in.
VotesInv ==
    /\ VotesTypeOK
    /\ Categories \in SUBSET (1..MaxRows)
    /\ IsFiniteSet(votes)
    /\ ~unmade => \A v \in votes : OnTeam(v.team, v.voter) /\ OnTeam(v.team, v.nominee)

LEMMA DraftGoesOn == ASSUME [VotingNext]_superlativeVars PROVE [Next]_vars
BY DEF VotingNext, superlativeVars, CreateCategory, CategoriesOnly, SetOneEach, DeleteCategory, ReorderCategories, ClearVote, SetVote,
       VotersChange, VotersDrafted, Next

\* A vote stands when its Team's rows stay, and with it both whom it is by and whom it is for.
LEMMA SameVoters ==
    ASSUME NEW S, NEW T, T \subseteq S, members' = members, \A v \in S : OnTeam(v.team, v.voter) /\ OnTeam(v.team, v.nominee)
    PROVE  \A v \in T : OnTeam(v.team, v.voter)' /\ OnTeam(v.team, v.nominee)'
BY DEF OnTeam

\* Whoever was on a Team and is in no row of it was taken off it.
LEMMA WasTakenOff ==
    ASSUME NEW t, NEW u, OnTeam(t, u), ~OnTeam(t, u)'
    PROVE  \E m \in TakenOff : m.team = t /\ m.user = u
BY DEF OnTeam, TakenOff

LEMMA NewRowIs == ASSUME Categories \in SUBSET (1..MaxRows) PROVE NewRow \in Nat \ {0}
<1> DEFINE rows == Categories \cup {0}
<1>1. MaxRows \in Nat
  BY SuperlativesAssumption
<1>2. rows \in SUBSET Nat /\ IsFiniteSet(rows) /\ rows # {}
  <2>1. IsFiniteSet(1..MaxRows)
    BY <1>1, FS_Interval
  <2>2. IsFiniteSet(Categories)
    BY <2>1, FS_Subset
  <2>3. IsFiniteSet(rows)
    BY <2>2, FS_AddElement
  <2> QED BY <1>1, <2>3
<1>3. Max(rows) \in Nat
  <2> HIDE DEF rows
  <2> QED BY <1>2, MaxOf
<1> QED BY <1>3 DEF NewRow

LEMMA CategoriesFinite == ASSUME Categories \in SUBSET (1..MaxRows) PROVE IsFiniteSet(Categories) /\ Cardinality(Categories) \in Nat
<1>1. IsFiniteSet(1..MaxRows)
  BY SuperlativesAssumption, FS_Interval
<1> QED BY <1>1, FS_Subset, FS_CardinalityType

LEMMA CreateKeepsVotes == ASSUME VotesInv, CreateCategory PROVE VotesInv'
<1>1. PICK n : n = NewRow
  OBVIOUS
<1>2. n \in 1..MaxRows /\ Cardinality(Categories) \in Nat
  BY <1>1, NewRowIs, CategoriesFinite, SuperlativesAssumption DEF VotesInv, CreateCategory
<1>3. PICK k \in Nat : k = Cardinality(Categories)
  BY <1>2
<1>4. place' = [c \in Categories \cup {n} |-> IF c = n THEN k ELSE place[c]] /\ UNCHANGED <<votes, members, oneEach, unmade>>
  BY <1>1, <1>3 DEF CreateCategory, CategoriesOnly, vars, rvars, rosterVars
<1>5. place' \in [(Categories \cup {n}) -> Nat]
  <2>1. place \in [Categories -> Nat]
    BY DEF VotesInv, VotesTypeOK
  <2> QED BY <1>4, <2>1
<1>6. Categories' = Categories \cup {n}
  BY <1>5 DEF Categories
<1>7. Votes \subseteq Votes'
  BY <1>6 DEF Votes
<1>8. VotesTypeOK'
  BY <1>4, <1>5, <1>6, <1>7 DEF VotesInv, VotesTypeOK
<1>9. Categories' \in SUBSET (1..MaxRows)
  BY <1>2, <1>6 DEF VotesInv
<1>10. (~unmade => \A v \in votes : OnTeam(v.team, v.voter) /\ OnTeam(v.team, v.nominee))'
  BY <1>4 DEF VotesInv, OnTeam
<1> QED BY <1>4, <1>8, <1>9, <1>10 DEF VotesInv

LEMMA DeleteKeepsVotes == ASSUME VotesInv, NEW c \in Categories, DeleteCategory(c) PROVE VotesInv'
<1>1. place' = [d \in Categories \ {c} |-> place[d]] /\ votes' = {v \in votes : v.category # c} /\ UNCHANGED <<members, oneEach, unmade>>
  BY DEF DeleteCategory, CategoriesOnly, vars, rvars, rosterVars
<1>2. Categories' = Categories \ {c}
  BY <1>1 DEF Categories
<1>3. place' \in [Categories' -> Nat]
  BY <1>1, <1>2 DEF VotesInv, VotesTypeOK
<1>4. votes' \subseteq Votes'
  BY <1>1, <1>2 DEF VotesInv, VotesTypeOK, Votes
<1>5. IsFiniteSet(votes')
  <2>1. votes' \subseteq votes
    BY <1>1
  <2> QED BY <2>1, FS_Subset DEF VotesInv
<1>6. (~unmade => \A v \in votes : OnTeam(v.team, v.voter) /\ OnTeam(v.team, v.nominee))'
  BY <1>1 DEF VotesInv, OnTeam
<1> QED BY <1>1, <1>2, <1>3, <1>4, <1>5, <1>6 DEF VotesInv, VotesTypeOK

LEMMA ReorderKeepsVotes ==
    ASSUME VotesInv, NEW named \in SUBSET (1..MaxRows), NEW listed \in SetToSeqs(named), ReorderCategories(listed)
    PROVE  VotesInv'
<1>1. place' = [c \in Categories |-> IF Contains(listed, c) THEN (CHOOSE i \in DOMAIN listed : listed[i] = c) - 1 ELSE place[c]]
      /\ UNCHANGED <<votes, members, oneEach, unmade>>
  BY DEF ReorderCategories, CategoriesOnly, vars, rvars, rosterVars
<1>2. Categories' = Categories
  BY <1>1 DEF Categories
<1>3. \A c \in Categories : Contains(listed, c) => (CHOOSE i \in DOMAIN listed : listed[i] = c) \in Nat \ {0}
  <2> SUFFICES ASSUME NEW c \in Categories, Contains(listed, c) PROVE (CHOOSE i \in DOMAIN listed : listed[i] = c) \in Nat \ {0}
    OBVIOUS
  <2>1. (CHOOSE i \in DOMAIN listed : listed[i] = c) \in DOMAIN listed
    BY DEF Contains
  <2>2. PICK n \in Nat : listed \in [1..n -> named]
    <3>1. IsFiniteSet(1..MaxRows)
      BY SuperlativesAssumption, FS_Interval
    <3>2. Cardinality(named) \in Nat
      BY <3>1, FS_Subset, FS_CardinalityType
    <3> QED BY <3>2 DEF SetToSeqs
  <2>3. DOMAIN listed = 1..n
    BY <2>2
  <2>4. PICK at : at = CHOOSE i \in DOMAIN listed : listed[i] = c
    OBVIOUS
  <2>5. at \in DOMAIN listed
    BY <2>1, <2>4
  <2>6. at \in Nat \ {0}
    BY <2>3, <2>5
  <2> QED BY <2>4, <2>6
<1>4. place' \in [Categories -> Nat]
  BY <1>1, <1>3 DEF VotesInv, VotesTypeOK
<1>5. (~unmade => \A v \in votes : OnTeam(v.team, v.voter) /\ OnTeam(v.team, v.nominee))'
  BY <1>1 DEF VotesInv, OnTeam
<1> QED BY <1>1, <1>2, <1>4, <1>5 DEF VotesInv, VotesTypeOK, Votes

LEMMA SetKeepsVotes ==
    ASSUME TypeOK, OneTeam, VotesInv, NEW c \in Categories, NEW m \in members, NEW n \in members, SetVote(m.user, c, n.user)
    PROVE  VotesInv'
<1>1. PICK u \in Users, w \in Users : u = m.user /\ w = n.user
  BY DEF TypeOK, Members
<1>2. PICK t \in Made : OnTeam(t, u) /\ OnTeam(t, w)
                     /\ votes' = IF VotesOf(u, c) = {} THEN votes \cup {[category |-> c, team |-> t, voter |-> u, nominee |-> w]}
                                 ELSE (votes \ VotesOf(u, c)) \cup {[v EXCEPT !.nominee = w] : v \in VotesOf(u, c)}
  BY <1>1 DEF SetVote
<1>3. UNCHANGED <<place, oneEach, unmade, members>>
  BY DEF SetVote, vars, rvars, rosterVars
<1>4. Categories' = Categories /\ Votes' = Votes
  BY <1>3 DEF Categories, Votes
<1> DEFINE new == IF VotesOf(u, c) = {} THEN {[category |-> c, team |-> t, voter |-> u, nominee |-> w]}
                  ELSE {[v EXCEPT !.nominee = w] : v \in VotesOf(u, c)}
<1>5. VotesOf(u, c) \subseteq votes /\ IsFiniteSet(VotesOf(u, c))
  <2>1. VotesOf(u, c) \subseteq votes
    BY DEF VotesOf
  <2> QED BY <2>1, FS_Subset DEF VotesInv
<1>6. IsFiniteSet(new)
  <2>1. IsFiniteSet({[category |-> c, team |-> t, voter |-> u, nominee |-> w]})
    BY FS_Singleton
  <2>2. IsFiniteSet({[v EXCEPT !.nominee = w] : v \in VotesOf(u, c)})
    <3> DEFINE f == [v \in VotesOf(u, c) |-> [v EXCEPT !.nominee = w]]
               T == {[v EXCEPT !.nominee = w] : v \in VotesOf(u, c)}
    <3>1. f \in [VotesOf(u, c) -> T] /\ \A x \in T : \E v \in VotesOf(u, c) : f[v] = x
      OBVIOUS
    <3>2. f \in Surjection(VotesOf(u, c), T)
      BY <3>1 DEF Surjection
    <3> HIDE DEF f, T
    <3>3. IsFiniteSet(T)
      BY <1>5, <3>2, FS_Surjection
    <3> QED BY <3>3 DEF T
  <2> QED BY <2>1, <2>2
<1>7. votes' \subseteq votes \cup new
  BY <1>2
<1>8. \A v \in new : v \in Votes /\ v.voter = u /\ v.nominee = w /\ (v.team = t \/ \E x \in votes : x.team = v.team /\ x.voter = u)
  <2>1. CASE VotesOf(u, c) = {}
    <3>1. t \in Teams
      BY DEF Made
    <3> QED BY <2>1, <3>1 DEF Votes
  <2>2. CASE VotesOf(u, c) # {}
    <3> SUFFICES ASSUME NEW x \in VotesOf(u, c), NEW v, v = [x EXCEPT !.nominee = w]
                 PROVE  v \in Votes /\ v.voter = u /\ v.nominee = w /\ \E y \in votes : y.team = v.team /\ y.voter = u
      BY <2>2
    <3>1. x \in votes /\ x \in Votes /\ x.voter = u
      BY DEF VotesOf, VotesInv, VotesTypeOK
    <3>2. v \in Votes /\ v.voter = u /\ v.nominee = w /\ v.team = x.team
      BY <3>1 DEF Votes
    <3> QED BY <3>1, <3>2
  <2> QED BY <2>1, <2>2
<1>9. IsFiniteSet(votes')
  <2>1. IsFiniteSet(votes \cup new)
    <3> HIDE DEF new
    <3> QED BY <1>6, FS_Union DEF VotesInv
  <2> HIDE DEF new
  <2> QED BY <1>7, <2>1, FS_Subset
<1>10. votes' \subseteq Votes
  BY <1>7, <1>8 DEF VotesInv, VotesTypeOK
<1>11. ASSUME ~unmade, NEW v \in votes' PROVE OnTeam(v.team, v.voter) /\ OnTeam(v.team, v.nominee)
  <2>1. CASE v \in votes
    BY <1>11, <2>1 DEF VotesInv
  <2>2. CASE v \in new
    <3>1. v.voter = u /\ v.nominee = w
      BY <1>8, <2>2
    <3>2. v.team = t
      <4>1. CASE \E x \in votes : x.team = v.team /\ x.voter = u
        <5>1. OnTeam(v.team, u)
          BY <1>11, <4>1 DEF VotesInv
        <5> QED BY <1>2, <5>1 DEF OnTeam, OneTeam
      <4> QED BY <1>8, <2>2, <4>1
    <3> QED BY <1>2, <3>1, <3>2
  <2> QED BY <1>7, <2>1, <2>2
<1>12. (~unmade => \A v \in votes : OnTeam(v.team, v.voter) /\ OnTeam(v.team, v.nominee))'
  BY <1>3, <1>11 DEF OnTeam
<1> QED BY <1>3, <1>4, <1>9, <1>10, <1>12 DEF VotesInv, VotesTypeOK

LEMMA FewerVotes ==
    ASSUME VotesInv, votes' \subseteq votes, UNCHANGED <<place, oneEach>>, unmade' \in BOOLEAN,
           ~unmade' => ~unmade /\ \A v \in votes' : OnTeam(v.team, v.voter)' /\ OnTeam(v.team, v.nominee)'
    PROVE  VotesInv'
<1>1. Categories' = Categories /\ Votes' = Votes
  BY DEF Categories, Votes
<1>2. IsFiniteSet(votes')
  BY FS_Subset DEF VotesInv
<1> QED BY <1>1, <1>2 DEF VotesInv, VotesTypeOK

LEMMA ChangeKeepsVotes == ASSUME VotesInv, VotersChange PROVE VotesInv'
<1>1. votes' \subseteq votes /\ UNCHANGED <<place, oneEach, unmade>>
  BY DEF VotersChange
<1>2. ASSUME ~unmade, NEW v \in votes', NEW u \in {v.voter, v.nominee}, ~OnTeam(v.team, u)' PROVE FALSE
  <2>1. v \in votes /\ OnTeam(v.team, v.voter) /\ OnTeam(v.team, v.nominee)
    BY <1>1, <1>2 DEF VotesInv
  <2>2. PICK m \in TakenOff : m.team = v.team /\ m.user = u
    BY <1>2, <2>1, WasTakenOff
  <2>3. captain'[v.team] # None
    BY DEF VotersChange
  <2>4. v \in VotesAbout(m) /\ m \in {n \in TakenOff : captain'[n.team] # None}
    BY <1>2, <2>1, <2>2, <2>3 DEF VotesAbout
  <2>5. v \in UNION {VotesAbout(x) : x \in {n \in TakenOff : captain'[n.team] # None}}
    BY <2>4
  <2> QED BY <2>5 DEF VotersChange
<1>3. unmade' \in BOOLEAN
  BY <1>1 DEF VotesInv, VotesTypeOK
<1> QED BY <1>1, <1>2, <1>3, FewerVotes

LEMMA DraftKeepsVotes == ASSUME VotesInv, VotersDrafted PROVE VotesInv'
<1>1. UNCHANGED <<place, votes, oneEach>> /\ unmade' = (unmade \/ \E m \in TakenOff : VotesAbout(m) # {})
  BY DEF VotersDrafted
<1>2. ASSUME ~unmade', NEW v \in votes', NEW u \in {v.voter, v.nominee}, ~OnTeam(v.team, u)' PROVE FALSE
  <2>1. v \in votes /\ OnTeam(v.team, v.voter) /\ OnTeam(v.team, v.nominee)
    BY <1>1, <1>2 DEF VotesInv
  <2>2. PICK m \in TakenOff : m.team = v.team /\ m.user = u
    BY <1>2, <2>1, WasTakenOff
  <2>3. v \in VotesAbout(m)
    BY <1>2, <2>1, <2>2 DEF VotesAbout
  <2> QED BY <1>1, <1>2, <2>2, <2>3
<1>3. unmade' \in BOOLEAN /\ (~unmade' => ~unmade)
  <2>1. (unmade \/ \E m \in TakenOff : VotesAbout(m) # {}) \in BOOLEAN
    OBVIOUS
  <2> QED BY <1>1, <2>1
<1> QED BY <1>1, <1>2, <1>3, FewerVotes

LEMMA NextKeepsVotes == ASSUME TypeOK, OneTeam, VotesInv, [VotingNext]_superlativeVars PROVE VotesInv'
<1>1. CASE CreateCategory
  BY <1>1, CreateKeepsVotes
<1>2. CASE SetOneEach
  <2>1. votes' \subseteq votes /\ UNCHANGED <<place, unmade, members>> /\ oneEach' \in BOOLEAN
    <3>1. (~oneEach) \in BOOLEAN
      OBVIOUS
    <3> QED BY <1>2, <3>1 DEF SetOneEach, vars, rvars, rosterVars
  <2>2. votes' = votes /\ Categories' = Categories /\ Votes' = Votes
    BY <1>2, <2>1 DEF SetOneEach, Categories, Votes
  <2> QED BY <2>1, <2>2 DEF VotesInv, VotesTypeOK, OnTeam
<1>3. ASSUME NEW c \in Categories, DeleteCategory(c) PROVE VotesInv'
  BY <1>3, DeleteKeepsVotes
<1>4. ASSUME NEW named \in SUBSET (1..MaxRows), NEW listed \in SetToSeqs(named), ReorderCategories(listed) PROVE VotesInv'
  BY <1>4, ReorderKeepsVotes
<1>5. ASSUME NEW m \in members, NEW c \in Categories, ClearVote(m.user, c) PROVE VotesInv'
  <2>1. votes' \subseteq votes /\ UNCHANGED <<place, oneEach, unmade, members>>
    BY <1>5 DEF ClearVote, vars, rvars, rosterVars
  <2>2. unmade' \in BOOLEAN /\ (~unmade' => ~unmade /\ \A v \in votes' : OnTeam(v.team, v.voter)' /\ OnTeam(v.team, v.nominee)')
    BY <2>1 DEF VotesInv, VotesTypeOK, OnTeam
  <2> QED BY <2>1, <2>2, FewerVotes
<1>6. ASSUME NEW m \in members, NEW c \in Categories, NEW n \in members, SetVote(m.user, c, n.user) PROVE VotesInv'
  BY <1>6, SetKeepsVotes
<1>7. CASE VotersChange
  BY <1>7, ChangeKeepsVotes
<1>8. CASE VotersDrafted
  BY <1>8, DraftKeepsVotes
<1>9. CASE UNCHANGED superlativeVars
  <2>1. UNCHANGED <<place, votes, oneEach, unmade, members>>
    BY <1>9 DEF superlativeVars, voteVars, vars, rvars, rosterVars
  <2>2. unmade' \in BOOLEAN /\ (~unmade' => ~unmade /\ \A v \in votes' : OnTeam(v.team, v.voter)' /\ OnTeam(v.team, v.nominee)')
    BY <2>1 DEF VotesInv, VotesTypeOK, OnTeam
  <2> QED BY <2>1, <2>2, FewerVotes
<1> QED BY <1>1, <1>2, <1>3, <1>4, <1>5, <1>6, <1>7, <1>8, <1>9 DEF VotingNext

LEMMA TallyIs ==
    ASSUME VotesInv, IsFiniteSet(Users), NEW t \in Teams
    PROVE  Poll(Tally(t)) /\ \A c \in Categories, u \in Users : Tally(t)[c][u] > 0 => \E v \in votes : v.team = t /\ v.nominee = u
<1>1. ASSUME NEW c \in Categories, NEW u \in Users
      PROVE  /\ Tally(t)[c][u] = Cardinality({v \in votes : v.team = t /\ v.category = c /\ v.nominee = u})
             /\ Tally(t)[c][u] \in Nat
             /\ Tally(t)[c][u] > 0 => \E v \in votes : v.team = t /\ v.nominee = u
  <2> DEFINE counted == {v \in votes : v.team = t /\ v.category = c /\ v.nominee = u}
  <2>1. Tally(t)[c][u] = Cardinality(counted)
    BY DEF Tally
  <2>2. IsFiniteSet(counted)
    <3>1. counted \subseteq votes
      OBVIOUS
    <3> HIDE DEF counted
    <3> QED BY <3>1, FS_Subset DEF VotesInv
  <2>3. Cardinality(counted) \in Nat /\ (Cardinality(counted) > 0 => counted # {})
    <3> HIDE DEF counted
    <3> QED BY <2>2, FS_CardinalityType, FS_EmptySet
  <2> QED BY <2>1, <2>3
<1>2. Tally(t) \in [Categories -> [Users -> Nat]]
  <2>1. Tally(t) = [c \in Categories |-> [u \in Users |-> Tally(t)[c][u]]]
    BY DEF Tally
  <2> QED BY <1>1, <2>1
<1>3. Poll(Tally(t))
  <2>1. Categories \in SUBSET Nat /\ place \in [Categories -> Nat]
    BY SuperlativesAssumption DEF VotesInv, VotesTypeOK
  <2> QED BY <1>2, <2>1, CategoriesFinite DEF Poll, VotesInv
<1> QED BY <1>1, <1>3

LEMMA VotesGiveFairly == ASSUME VotesInv, IsFiniteSet(Users), NEW t \in Made PROVE
    LET poll == Tally(t)
        winners == Winners(t)
        Won(u) == {c \in Categories : <<c, u>> \in winners}
    IN  /\ ~unmade => \A w \in winners : OnTeam(t, w[2])
        /\ oneEach =>
            /\ \A u \in Users : Cardinality(Won(u)) <= 1
            /\ \A c \in Categories, u \in Users : poll[c][u] > 0 /\ c \notin Won(u) =>
                Won(u) # {} \/ \E w \in winners : w[1] = c /\ poll[c][w[2]] > poll[c][u]
            /\ \A w, x \in winners : w[1] = x[1] /\ w[2] # x[2] => \A c \in Categories : Leaders(poll, c, {}) # {w[2]}
<1>0. t \in Teams
  BY DEF Made
<1>1. PICK poll, winners : poll = Tally(t) /\ winners = Winners(t)
  OBVIOUS
<1>2. Poll(poll) /\ \A c \in Categories, u \in Users : poll[c][u] > 0 => \E v \in votes : v.team = t /\ v.nominee = u
  BY <1>0, <1>1, TallyIs
<1>3. winners \in SUBSET (Categories \X Users) /\ \A w \in winners : poll[w[1]][w[2]] > 0
  <2>1. CASE oneEach
    BY <1>1, <1>2, <2>1, OneEachGivesFairly DEF Winners
  <2>2. CASE ~oneEach
    BY <1>1, <2>2 DEF Winners, Tied, Leaders, Eligible
  <2> QED BY <2>1, <2>2
<1>4. ASSUME ~unmade, NEW w \in winners PROVE OnTeam(t, w[2])
  <2>1. w[1] \in Categories /\ w[2] \in Users /\ poll[w[1]][w[2]] > 0
    BY <1>3
  <2>2. PICK v \in votes : v.team = t /\ v.nominee = w[2]
    BY <1>2, <2>1
  <2> QED BY <1>4, <2>2 DEF VotesInv
<1> DEFINE Won(u) == {c \in Categories : <<c, u>> \in winners}
<1>5. ASSUME oneEach
      PROVE  /\ \A u \in Users : Cardinality(Won(u)) <= 1
             /\ \A c \in Categories, u \in Users : poll[c][u] > 0 /\ c \notin Won(u) =>
                  Won(u) # {} \/ \E w \in winners : w[1] = c /\ poll[c][w[2]] > poll[c][u]
             /\ \A w, x \in winners : w[1] = x[1] /\ w[2] # x[2] => \A c \in Categories : Leaders(poll, c, {}) # {w[2]}
  <2>1. winners = OneEach(poll)
    BY <1>1, <1>5 DEF Winners
  <2>2. ASSUME NEW u \in Users PROVE Cardinality(Won(u)) <= 1
    <3>1. \A c, d \in Won(u) : c = d
      <4> SUFFICES ASSUME NEW c \in Won(u), NEW d \in Won(u) PROVE c = d
        OBVIOUS
      <4>1. <<c, u>> \in winners /\ <<d, u>> \in winners /\ <<c, u>>[2] = <<d, u>>[2]
        OBVIOUS
      <4>2. <<c, u>> = <<d, u>>
        BY <1>2, <2>1, <4>1, OneEachGivesFairly
      <4> QED BY <4>2
    <3>2. Won(u) = {} \/ \E c : Won(u) = {c}
      BY <3>1
    <3>3. PICK S : S = Won(u)
      OBVIOUS
    <3>4. Cardinality(S) = 0 \/ Cardinality(S) = 1
      BY <3>2, <3>3, FS_EmptySet, FS_Singleton
    <3> QED BY <3>3, <3>4
  <2>3. ASSUME NEW c \in Categories, NEW u \in Users, poll[c][u] > 0, c \notin Won(u)
        PROVE  Won(u) # {} \/ \E w \in winners : w[1] = c /\ poll[c][w[2]] > poll[c][u]
    <3>1. <<c, u>> \notin winners
      BY <2>3
    <3>2. u \in WhoWon(winners) \/ \E w \in winners : w[1] = c /\ poll[c][w[2]] > poll[c][u]
      BY <1>2, <2>1, <2>3, <3>1, OneEachGivesFairly
    <3>3. CASE u \in WhoWon(winners)
      <4>1. PICK w \in winners : w[2] = u
        BY <3>3 DEF WhoWon
      <4>2. w[1] \in Categories /\ w = <<w[1], u>>
        BY <1>3, <4>1
      <4>3. w[1] \in Won(u)
        BY <4>2
      <4> QED BY <4>3
    <3> QED BY <3>2, <3>3
  <2>4. \A w, x \in winners : w[1] = x[1] /\ w[2] # x[2] => \A c \in Categories : Leaders(poll, c, {}) # {w[2]}
    BY <1>2, <2>1, OneEachGivesFairly
  <2> QED BY <2>2, <2>3, <2>4
<1> QED BY <1>1, <1>4, <1>5

\* Whatever the Admin does to the categories, the Players to their votes, and anyone to the Teams: unless a pick was taken back
\* of someone with votes, a Team's winners are on it, and with one Superlative each they are shared out fairly.
THEOREM WinnersAreFair == ASSUME IsFiniteSet(Teams), IsFiniteSet(Users) PROVE SuperlativesSpec => []WinnersFair
<1>1. SuperlativesInit => VotesInv
  <2> SUFFICES ASSUME SuperlativesInit PROVE VotesInv
    OBVIOUS
  <2>1. place = <<>> /\ votes = {} /\ oneEach = FALSE /\ unmade = FALSE
    BY DEF SuperlativesInit
  <2>2. Categories = {} /\ place \in [Categories -> Nat]
    BY <2>1 DEF Categories
  <2> QED BY <2>1, <2>2, FS_EmptySet DEF VotesInv, VotesTypeOK
<1>2. SuperlativesSpec => []BaseInv
  <2>1. SuperlativesInit => Init
    BY DEF SuperlativesInit
  <2>2. [VotingNext]_superlativeVars => [Next]_vars
    BY DraftGoesOn
  <2> QED BY <2>1, <2>2, BaseHolds, PTL DEF SuperlativesSpec, Spec
<1>3. BaseInv /\ VotesInv /\ [VotingNext]_superlativeVars => VotesInv'
  BY NextKeepsVotes DEF BaseInv
<1>4. VotesInv => WinnersFair
  BY VotesGiveFairly DEF WinnersFair
<1> QED BY <1>1, <1>2, <1>3, <1>4, PTL DEF SuperlativesSpec

-----------------------------------------------------------------------------
(* How many are cut. *)

\* The newest k of the units are k.
LEMMA NewestCount ==
    ASSUME EarlierOrder, NEW units, UnitsApart(units), IsFiniteSet(units), NEW k \in Nat, k <= Cardinality(units)
    PROVE  Newest(units, k) \subseteq units /\ IsFiniteSet(Newest(units, k)) /\ Cardinality(Newest(units, k)) = k
<1> DEFINE newer(a) == {b \in units : Newer(b, a)}
           size == Cardinality(units)
           rank == [a \in units |-> Cardinality(newer(a))]
           chosen == Newest(units, k)
           chosenRank == [a \in chosen |-> rank[a]]
<1>1. size \in Nat
  BY FS_CardinalityType
<1>2. ASSUME NEW a \in units
      PROVE  IsFiniteSet(newer(a)) /\ Cardinality(newer(a)) \in 0..size - 1
  <2>1. newer(a) \subseteq units /\ newer(a) # units
    BY NewerOrder
  <2>2. IsFiniteSet(newer(a)) /\ Cardinality(newer(a)) \in Nat /\ Cardinality(newer(a)) <= size /\ Cardinality(newer(a)) # size
    BY <2>1, FS_Subset, FS_CardinalityType
  <2> HIDE DEF newer, size
  <2> QED BY <1>1, <2>2
<1>3. ASSUME NEW a \in units, NEW b \in units, Newer(a, b) PROVE Cardinality(newer(a)) # Cardinality(newer(b))
  <2>1. newer(a) \in SUBSET newer(b) /\ a \in newer(b) /\ a \notin newer(a)
    BY <1>3, NewerOrder
  <2>2. newer(a) # newer(b)
    BY <2>1
  <2>3. IsFiniteSet(newer(b))
    BY <1>2
  <2> HIDE DEF newer
  <2> QED BY <2>1, <2>2, <2>3, FS_Subset
<1>4. ASSUME NEW a \in units, NEW b \in units, a # b PROVE Cardinality(newer(a)) # Cardinality(newer(b))
  <2>1. CASE Newer(a, b)
    BY <1>3, <2>1
  <2>2. CASE Newer(b, a)
    BY <1>3, <2>2
  <2> QED BY <1>4, <2>1, <2>2, NewerOrder
<1>5. rank \in Injection(units, 0..size - 1)
  <2> HIDE DEF newer, size
  <2> QED BY <1>2, <1>4 DEF Injection, IsInjective
<1>6. rank \in Surjection(units, 0..size - 1)
  <2>1. IsFiniteSet(0..size - 1) /\ Cardinality(0..size - 1) = size
    <3> HIDE DEF size
    <3>1. 0 \in Int /\ size - 1 \in Int /\ (IF 0 > size - 1 THEN 0 ELSE (size - 1) - 0 + 1) = size
      BY <1>1
    <3> QED BY <3>1, FS_Interval
  <2> HIDE DEF rank
  <2> QED BY <1>5, <2>1, FS_Injection
<1>7. \A a \in units : rank[a] = Cardinality(newer(a)) /\ (a \in chosen <=> rank[a] < k)
  BY DEF Newest
<1>8. chosen \subseteq units /\ IsFiniteSet(chosen)
  <2>1. chosen \in SUBSET units
    BY DEF Newest
  <2> HIDE DEF chosen
  <2> QED BY <2>1, FS_Subset
<1>9. chosenRank \in Injection(chosen, 0..k - 1) /\ chosenRank \in Surjection(chosen, 0..k - 1)
  <2> HIDE DEF newer, chosen
  <2>1. \A a \in chosen : rank[a] \in 0..k - 1
    <3> SUFFICES ASSUME NEW a \in chosen PROVE rank[a] \in 0..k - 1
      OBVIOUS
    <3>1. rank[a] \in 0..size - 1 /\ rank[a] < k
      BY <1>2, <1>7, <1>8
    <3> QED BY <3>1
  <2>2. \A i \in 0..k - 1 : \E a \in chosen : rank[a] = i
    <3> SUFFICES ASSUME NEW i \in 0..k - 1 PROVE \E a \in chosen : rank[a] = i
      OBVIOUS
    <3>1. i \in 0..size - 1 /\ i < k
      BY <1>1
    <3>2. PICK a \in units : rank[a] = i
      <4> HIDE DEF rank
      <4> QED BY <1>6, <3>1 DEF Surjection
    <3> QED BY <1>7, <3>1, <3>2
  <2>3. \A a, b \in chosen : rank[a] = rank[b] => a = b
    BY <1>4, <1>7, <1>8
  <2> HIDE DEF rank
  <2>4. chosenRank \in [chosen -> 0..k - 1]
    BY <2>1
  <2>5. chosenRank \in Injection(chosen, 0..k - 1)
    BY <2>3, <2>4 DEF Injection, IsInjective
  <2>6. chosenRank \in Surjection(chosen, 0..k - 1)
    BY <2>2, <2>4 DEF Surjection
  <2> QED BY <2>5, <2>6
<1>10. IsFiniteSet(0..k - 1) /\ Cardinality(0..k - 1) = k
  <2>1. 0 \in Int /\ k - 1 \in Int /\ (IF 0 > k - 1 THEN 0 ELSE (k - 1) - 0 + 1) = k
    OBVIOUS
  <2> QED BY <2>1, FS_Interval
<1>11. Cardinality(chosen) = k
  <2> HIDE DEF chosen, chosenRank
  <2> QED BY <1>9, <1>10, FS_Injection
<1> QED BY <1>8, <1>11

\* Units of the same size that share nobody have that many players each.
LEMMA PlayersOfUnits ==
    ASSUME NEW units, IsFiniteSet(units), NEW s \in Nat, \A x \in units : IsFiniteSet(x) /\ Cardinality(x) = s,
           \A x, y \in units : x # y => x \cap y = {}
    PROVE  IsFiniteSet(UNION units) /\ Cardinality(UNION units) = Cardinality(units) * s
<1> DEFINE players == UNION units
           unitOf == [u \in players |-> CHOOSE x \in units : u \in x]
<1>1. IsFiniteSet(players)
  BY FS_UNION
<1>2. \A u \in players : unitOf[u] \in units /\ u \in unitOf[u]
  OBVIOUS
<1>3. unitOf \in [players -> units]
  OBVIOUS
<1>4. ASSUME NEW x \in units PROVE Share(unitOf, players, x) = x
  <2>1. \A u \in x : u \in players /\ unitOf[u] = x
    <3> SUFFICES ASSUME NEW u \in x PROVE u \in players /\ unitOf[u] = x
      OBVIOUS
    <3>1. u \in players
      OBVIOUS
    <3>2. unitOf[u] \in units /\ u \in unitOf[u]
      BY <1>2, <3>1
    <3> HIDE DEF unitOf
    <3> QED BY <3>1, <3>2
  <2>2. \A u \in players : unitOf[u] = x => u \in x
    BY <1>2
  <2> HIDE DEF unitOf, players
  <2> QED BY <2>1, <2>2 DEF Share
<1>5. \A x \in units : Cardinality(Share(unitOf, players, x)) = s /\ Cardinality(Share(unitOf, players, x)) <= s
  <2> SUFFICES ASSUME NEW x \in units
               PROVE  Cardinality(Share(unitOf, players, x)) = s /\ Cardinality(Share(unitOf, players, x)) <= s
    OBVIOUS
  <2>1. Share(unitOf, players, x) = x
    BY <1>4
  <2> HIDE DEF unitOf, players
  <2> QED BY <2>1
<1>6. Cardinality(players) = Cardinality(units) * s
  <2> HIDE DEF unitOf, players
  <2> QED BY <1>1, <1>3, <1>5, SharesSum
<1> QED BY <1>1, <1>6

\* Before anything is drafted, markCuts leaves as many cut as the planner counts for the pool as it is.
LEMMA CutsAreCounted ==
    ASSUME BaseInv, EarlierOrder, IsFiniteSet(Teams), IsFiniteSet(Users), picks = {}
    PROVE  Cardinality(CutPlayers) \in Nat /\ Cardinality(CutPlayers) = CutCount(TeamCount, PairCount, SingleCount)
<1> DEFINE p == Cardinality(PairUnits)
           s == Cardinality(SingleUnits)
           n == TeamCount
<1>1. AllPairs = p /\ AllSingles = s
  <2>1. Numbers = {} /\ PairPicks = {} /\ Numbers \ PairPicks = {}
    BY DEF Numbers, PairPicks
  <2>2. p \in Nat /\ s \in Nat
    BY PoolUnits
  <2>3. Cardinality(PairPicks) = 0 /\ Cardinality(Numbers \ PairPicks) = 0
    BY <2>1, FS_EmptySet
  <2> QED BY <2>2, <2>3 DEF AllPairs, AllSingles
<1>2. CASE ~HasShares
  <2>1. CutPlayers = {}
    BY <1>2 DEF CutPlayers, CutUnits
  <2>2. CutCount(n, PairCount, SingleCount) = 0
    <3>1. n \in Nat
      BY MadeCount
    <3> HIDE DEF n
    <3> QED BY <1>2, <3>1 DEF HasShares, CutCount, ScoreArrangement, n
  <2> QED BY <2>1, <2>2, FS_EmptySet
<1>3. CASE HasShares
  <2> DEFINE r == AllPairs - PairShare * n
             q == AllSingles - SingleShare * n
             cutPairs == Newest(PairUnits, r)
             cutSingles == Newest(SingleUnits, q)
  <2>1. n \in Nat /\ n >= 2 /\ p \in Nat /\ s \in Nat
    BY <1>3, ShareParts, PoolUnits
  <2>2. \A a \in Nat : a - (a \div n) * n = a % n /\ a % n \in Nat /\ a % n <= a
    <3> HIDE DEF n
    <3> SUFFICES ASSUME NEW a \in Nat PROVE a - (a \div n) * n = a % n /\ a % n \in Nat /\ a % n <= a
      OBVIOUS
    <3> DEFINE d == a \div n
               m == a % n
    <3>1. d \in Nat /\ m \in Nat /\ a = n * d + m
      BY <2>1
    <3> HIDE DEF d, m
    <3>2. d * n = n * d /\ n * d \in Nat
      BY <2>1, <3>1
    <3>3. a - d * n = m /\ m <= a
      BY <3>1, <3>2
    <3> QED BY <3>1, <3>3 DEF d, m
  <2>3. r = p % n /\ r \in Nat /\ r <= p
    <3> HIDE DEF p, s, n
    <3> QED BY <1>1, <2>1, <2>2 DEF PairShare, n
  <2>4. q = (IF cutMode = "pairs_only" THEN s ELSE s % n) /\ q \in Nat /\ q <= s
    <3>1. CASE cutMode = "pairs_only"
      <4>1. SingleShare = 0
        BY <3>1 DEF SingleShare
      <4> HIDE DEF p, s, n
      <4> QED BY <1>1, <2>1, <3>1, <4>1
    <3>2. CASE cutMode # "pairs_only"
      <4>1. SingleShare = AllSingles \div n
        BY <3>2 DEF SingleShare
      <4> HIDE DEF p, s, n
      <4> QED BY <1>1, <2>1, <2>2, <3>2, <4>1
    <3> QED BY <3>1, <3>2
  <2>5. UnitsApart(PairUnits) /\ IsFiniteSet(PairUnits) /\ UnitsApart(SingleUnits) /\ IsFiniteSet(SingleUnits)
    BY PoolUnits
  <2>6. cutPairs \subseteq PairUnits /\ IsFiniteSet(cutPairs) /\ Cardinality(cutPairs) = r
    <3> HIDE DEF r
    <3> QED BY <2>3, <2>5, NewestCount DEF p
  <2>7. cutSingles \subseteq SingleUnits /\ IsFiniteSet(cutSingles) /\ Cardinality(cutSingles) = q
    <3> HIDE DEF q
    <3> QED BY <2>4, <2>5, NewestCount DEF s
  <2>8. CutPlayers = (UNION cutPairs) \cup (UNION cutSingles)
    BY <1>3 DEF CutPlayers, CutUnits
  <2>9. (UNION cutPairs) \cap (UNION cutSingles) = {}
    <3>1. \A x \in PairUnits, y \in SingleUnits : x \cap y = {}
      BY DEF SingleUnits
    <3> QED BY <2>6, <2>7, <3>1
  <2>10. IsFiniteSet(UNION cutPairs) /\ Cardinality(UNION cutPairs) = r * 2
    <3>1. ASSUME NEW x \in cutPairs PROVE IsFiniteSet(x) /\ Cardinality(x) = 2
      <4>1. x \in pairs
        BY <2>6 DEF PairUnits
      <4>2. PICK u, v : u # v /\ x = {u, v}
        BY <4>1 DEF BaseInv, PairsSpokenFor
      <4>3. IsFiniteSet({v}) /\ {u, v} = {v} \cup {u}
        BY FS_Singleton
      <4>4. IsFiniteSet({u, v})
        BY <4>3, FS_AddElement
      <4> QED BY <4>2, <4>4, TwoOf
    <3>2. \A x, y \in cutPairs : x # y => x \cap y = {}
      BY <2>5, <2>6 DEF UnitsApart
    <3> HIDE DEF cutPairs, r
    <3> QED BY <2>6, <3>1, <3>2, PlayersOfUnits
  <2>11. IsFiniteSet(UNION cutSingles) /\ Cardinality(UNION cutSingles) = q * 1
    <3>1. ASSUME NEW x \in cutSingles PROVE IsFiniteSet(x) /\ Cardinality(x) = 1
      <4>1. x \in SingleUnits
        BY <2>7
      <4>2. PICK u : x = {u}
        BY <4>1 DEF SingleUnits
      <4> QED BY <4>2, FS_Singleton
    <3>2. \A x, y \in cutSingles : x # y => x \cap y = {}
      BY <2>5, <2>7 DEF UnitsApart
    <3> HIDE DEF cutSingles, q
    <3> QED BY <2>7, <3>1, <3>2, PlayersOfUnits
  <2>12. Cardinality(CutPlayers) = r * 2 + q * 1
    <3> HIDE DEF cutPairs, cutSingles, r, q
    <3> QED BY <2>8, <2>9, <2>10, <2>11, DisjointUnion
  <2>13. CutCount(n, PairCount, SingleCount) = 2 * r + q
    <3>1. cutMode # "none" /\ ~(n < 2) /\ PairCount = p /\ SingleCount = s
      BY <1>3, <2>1 DEF HasShares, PairCount, SingleCount
    <3>2. ScoreArrangement(cutMode, n, p, s) = 2 * (p % n) + (IF cutMode = "pairs_only" THEN s ELSE s % n)
      <4> HIDE DEF n, p, s
      <4> QED BY <3>1 DEF ScoreArrangement
    <3> HIDE DEF n, p, s, r, q
    <3> QED BY <2>3, <2>4, <3>1, <3>2 DEF CutCount
  <2> HIDE DEF r, q
  <2> QED BY <2>3, <2>4, <2>12, <2>13
<1> QED BY <1>2, <1>3

NothingDrafted == BaseInv /\ EarlierOrder /\ picks = {}
CutAsCounted == Cardinality(CutPlayers) = CutCount(TeamCount, PairCount, SingleCount)

LEMMA CutsAreCountedNext == ASSUME IsFiniteSet(Teams), IsFiniteSet(Users) PROVE NothingDrafted' => CutAsCounted'
<1>1. NothingDrafted => CutAsCounted
  BY CutsAreCounted DEF NothingDrafted, CutAsCounted
<1> QED BY <1>1, PTL

-----------------------------------------------------------------------------
(* The units of a pool, as its pairs and its players change. *)

PairsWithin(ps, P) == {p \in ps : p \subseteq P}
SinglesWithin(ps, P) == {{u} : u \in P \ UNION PairsWithin(ps, P)}

PairsLeft(ps, P) == Cardinality(PairsWithin(ps, P))
SinglesLeft(ps, P) == Cardinality(SinglesWithin(ps, P))

TwoPlayers(x) == \E u, v \in x : u # v

LEMMA UnitsWithin ==
    /\ PairUnits = PairsWithin(pairs, Pool) /\ SingleUnits = SinglesWithin(pairs, Pool)
    /\ PairCount = PairsLeft(pairs, Pool) /\ SingleCount = SinglesLeft(pairs, Pool)
BY DEF PairUnits, SingleUnits, PairsWithin, SinglesWithin, PairCount, SingleCount, PairsLeft, SinglesLeft

LEMMA WithinFinite ==
    ASSUME NEW P, IsFiniteSet(P), NEW ps
    PROVE  /\ IsFiniteSet(PairsWithin(ps, P)) /\ PairsLeft(ps, P) \in Nat
           /\ IsFiniteSet(SinglesWithin(ps, P)) /\ SinglesLeft(ps, P) \in Nat
<1>1. IsFiniteSet(SUBSET P)
  BY FS_SUBSET
<1>2. PairsWithin(ps, P) \in SUBSET (SUBSET P) /\ SinglesWithin(ps, P) \in SUBSET (SUBSET P)
  BY DEF PairsWithin, SinglesWithin
<1> QED BY <1>1, <1>2, FS_Subset, FS_CardinalityType DEF PairsLeft, SinglesLeft

\* Two players are paired: a pair more, and two singles less.
LEMMA OnePairMore ==
    ASSUME NEW P, IsFiniteSet(P), NEW ps, NEW a \in P, NEW b \in P, a # b, \A p \in ps : a \notin p /\ b \notin p
    PROVE  /\ PairsLeft(ps \cup {{a, b}}, P) = PairsLeft(ps, P) + 1
           /\ SinglesLeft(ps \cup {{a, b}}, P) = SinglesLeft(ps, P) - 2
<1> DEFINE j == {a, b}
           more == ps \cup {j}
<1>1. PairsWithin(more, P) = PairsWithin(ps, P) \cup {j} /\ j \notin PairsWithin(ps, P)
  BY DEF PairsWithin
<1>2. IsFiniteSet(PairsWithin(ps, P)) /\ IsFiniteSet(SinglesWithin(ps, P)) /\ SinglesLeft(ps, P) \in Nat
  BY WithinFinite
<1>3. Cardinality(PairsWithin(more, P)) = Cardinality(PairsWithin(ps, P)) + 1
  <2> HIDE DEF more, j
  <2> QED BY <1>1, <1>2, FS_AddElement
<1>4. {a} \in SinglesWithin(ps, P) /\ {b} \in SinglesWithin(ps, P) /\ {a} # {b}
  BY DEF SinglesWithin, PairsWithin
<1>5. SinglesWithin(more, P) = (SinglesWithin(ps, P) \ {{a}}) \ {{b}}
  <2>1. P \ UNION PairsWithin(more, P) = ((P \ UNION PairsWithin(ps, P)) \ {a}) \ {b}
    BY <1>1
  <2>2. \A u, v : {u} = {v} => u = v
    OBVIOUS
  <2> HIDE DEF more, j
  <2> QED BY <2>1, <2>2 DEF SinglesWithin
<1>6. Cardinality(SinglesWithin(more, P)) = Cardinality(SinglesWithin(ps, P)) - 2
  <2> DEFINE S == SinglesWithin(ps, P)
             R == S \ {{a}}
  <2>1. IsFiniteSet(R) /\ Cardinality(R) = Cardinality(S) - 1 /\ {b} \in R /\ Cardinality(S) \in Nat
    <3> HIDE DEF more, j
    <3> QED BY <1>2, <1>4, FS_RemoveElement DEF SinglesLeft
  <2>2. Cardinality(R \ {{b}}) = Cardinality(R) - 1
    <3> HIDE DEF R
    <3> QED BY <2>1, FS_RemoveElement
  <2> HIDE DEF more, j, S, R
  <2> QED BY <1>5, <2>1, <2>2 DEF S, R
<1> QED BY <1>3, <1>6 DEF PairsLeft, SinglesLeft

\* A pair leaves the pool: a pair less.
LEMMA PairOutOfPool ==
    ASSUME NEW P, IsFiniteSet(P), NEW ps, NEW p \in ps, p # {}, p \subseteq P, \A q \in ps : p \cap q # {} => p = q
    PROVE  /\ PairsLeft(ps, P \ p) = PairsLeft(ps, P) - 1
           /\ SinglesLeft(ps, P \ p) = SinglesLeft(ps, P)
<1>1. PICK u : u \in p
  OBVIOUS
<1>2. p \in PairsWithin(ps, P)
  BY DEF PairsWithin
<1>3. PairsWithin(ps, P \ p) = PairsWithin(ps, P) \ {p}
  <2>1. \A q \in ps : q # p => q \cap p = {}
    OBVIOUS
  <2>2. \A q \in ps : q \subseteq P \ p <=> q \subseteq P /\ q # p
    BY <1>1, <2>1
  <2> QED BY <2>2 DEF PairsWithin
<1>4. (P \ p) \ UNION PairsWithin(ps, P \ p) = P \ UNION PairsWithin(ps, P)
  BY <1>2, <1>3
<1>5. SinglesWithin(ps, P \ p) = SinglesWithin(ps, P)
  BY <1>4 DEF SinglesWithin
<1>6. Cardinality(PairsWithin(ps, P) \ {p}) = Cardinality(PairsWithin(ps, P)) - 1
  BY <1>2, WithinFinite, FS_RemoveElement
<1> QED BY <1>3, <1>5, <1>6 DEF PairsLeft, SinglesLeft

\* Where nobody is paired there are as many singles as players.
LEMMA NobodyPaired ==
    ASSUME NEW P, IsFiniteSet(P)
    PROVE  PairsLeft({}, P) = 0 /\ SinglesLeft({}, P) = Cardinality(P)
<1>1. PairsWithin({}, P) = {}
  BY DEF PairsWithin
<1>2. SinglesWithin({}, P) = {{u} : u \in P}
  BY <1>1 DEF SinglesWithin
<1> DEFINE S == SinglesWithin({}, P)
<1>3. IsFiniteSet(S)
  BY WithinFinite
<1>4. UNION S = P
  BY <1>2
<1>5. ASSUME NEW x \in S PROVE IsFiniteSet(x) /\ Cardinality(x) = 1
  <2>1. PICK u : x = {u}
    BY <1>2
  <2> QED BY <2>1, FS_Singleton
<1>6. \A x, y \in S : x # y => x \cap y = {}
  BY <1>2
<1>7. Cardinality(UNION S) = Cardinality(S) * 1 /\ Cardinality(S) \in Nat
  <2> HIDE DEF S
  <2> QED BY <1>3, <1>5, <1>6, PlayersOfUnits, FS_CardinalityType
<1>8. Cardinality(P) = Cardinality(S)
  <2>1. Cardinality(UNION S) = Cardinality(P)
    BY <1>4
  <2> HIDE DEF S
  <2> QED BY <1>7, <2>1
<1> QED BY <1>1, <1>8, FS_EmptySet DEF PairsLeft, SinglesLeft

-----------------------------------------------------------------------------
(* A plan's pairings and splits. *)

After(splits, joins) == (pairs \ splits) \cup joins

Twos(ps) == \A p \in ps : \E u, v \in active : u # v /\ p = {u, v}
Disjoint(ps) == \A p, q \in ps : p \cap q # {} => p = q

\* What a plan may make and split.
Plans(splits, joins) ==
    /\ splits \in OneOrNone(PairUnits)
    /\ joins \in OneOrNone(TwoSets(UNION (SingleUnits \cup splits)))
    /\ MayRepair(splits, joins)

LEMMA PlannedPair ==
    ASSUME BaseInv, NEW splits, NEW joins, Plans(splits, joins), NEW j \in joins
    PROVE  joins = {j} /\ \E a, b \in Pool : a # b /\ j = {a, b} /\ \A p \in pairs \ splits : a \notin p /\ b \notin p
<1>1. joins = {j} /\ j \in TwoSets(UNION (SingleUnits \cup splits))
  BY DEF Plans, OneOrNone
<1>2. UNION (SingleUnits \cup splits) \subseteq Pool
  <2>1. UNION SingleUnits \subseteq Pool
    BY DEF SingleUnits
  <2>2. UNION splits \subseteq Pool
    BY DEF Plans, OneOrNone, PairUnits
  <2> QED BY <2>1, <2>2
<1>3. PICK a \in Pool, b \in Pool : a # b /\ j = {a, b}
  BY <1>1, <1>2 DEF TwoSets
<1>4. \A u \in j : \A p \in pairs \ splits : u \notin p
  BY DEF Plans, MayRepair
<1> QED BY <1>1, <1>3, <1>4

LEMMA PlannedPairs ==
    ASSUME BaseInv, NEW splits, NEW joins, Plans(splits, joins)
    PROVE  /\ Twos(After(splits, joins)) /\ Disjoint(After(splits, joins))
           /\ splits \subseteq PairUnits /\ UNION joins \subseteq Pool
<1>1. TwoActive /\ PairsApart /\ Pool \subseteq active
  BY PairsParts DEF BaseInv, Pool
<1>2. splits \subseteq PairUnits
  BY DEF Plans, OneOrNone
<1>3. UNION joins \subseteq Pool
  BY PlannedPair
<1>4. Twos(After(splits, joins))
  <2>1. ASSUME NEW p \in joins PROVE \E u, v \in active : u # v /\ p = {u, v}
    BY <1>1, PlannedPair
  <2> QED BY <1>1, <2>1 DEF Twos, After, TwoActive
<1>5. Disjoint(After(splits, joins))
  <2>1. ASSUME NEW j \in joins, NEW p \in pairs \ splits PROVE j \cap p = {}
    BY PlannedPair
  <2>2. \A j, q \in joins : j = q
    BY PlannedPair
  <2> QED BY <1>1, <2>1, <2>2 DEF Disjoint, After, PairsApart
<1> QED BY <1>2, <1>3, <1>4, <1>5

\* A split is a pair less and two singles more, a pairing the other way round.
LEMMA PlannedCounts ==
    ASSUME BaseInv, IsFiniteSet(Users), NEW splits, NEW joins, Plans(splits, joins)
    PROVE  /\ PairsLeft(After(splits, joins), Pool) = PairCount + Cardinality(joins) - Cardinality(splits)
           /\ SinglesLeft(After(splits, joins), Pool) = SingleCount + 2 * Cardinality(splits) - 2 * Cardinality(joins)
<1> DEFINE mid == pairs \ splits
<1>1. IsFiniteSet(Pool) /\ Pool \subseteq Users
  <2>1. Pool \in SUBSET Users
    BY DEF BaseInv, TypeOK, Pool
  <2> QED BY <2>1, FS_Subset
<1>2. /\ PairsLeft(pairs, Pool) \in Nat /\ SinglesLeft(pairs, Pool) \in Nat
      /\ PairsLeft(mid, Pool) \in Nat /\ SinglesLeft(mid, Pool) \in Nat
  <2> HIDE DEF mid
  <2> QED BY <1>1, WithinFinite
<1>3. PairCount = PairsLeft(pairs, Pool) /\ SingleCount = SinglesLeft(pairs, Pool)
  BY UnitsWithin
<1>4. /\ PairsLeft(mid, Pool) = PairsLeft(pairs, Pool) - Cardinality(splits)
      /\ SinglesLeft(mid, Pool) = SinglesLeft(pairs, Pool) + 2 * Cardinality(splits)
      /\ Cardinality(splits) \in Nat
  <2>1. CASE splits = {}
    <3>1. mid = pairs /\ Cardinality(splits) = 0
      BY <2>1, FS_EmptySet
    <3> HIDE DEF mid
    <3> QED BY <1>2, <3>1
  <2>2. ASSUME NEW p \in PairUnits, splits = {p} PROVE <1>4!1 /\ <1>4!2 /\ <1>4!3
    <3>1. TwoActive /\ PairsApart /\ p \in pairs /\ p \subseteq Pool
      BY PairsParts DEF BaseInv, PairUnits
    <3>2. PICK a \in Pool, b \in Pool : a # b /\ p = {a, b}
      BY <3>1 DEF TwoActive
    <3>3. \A q \in mid : a \notin q /\ b \notin q
      BY <2>2, <3>1, <3>2 DEF PairsApart
    <3>4. mid \cup {{a, b}} = pairs
      BY <2>2, <3>1, <3>2
    <3>5. PairsLeft(mid \cup {{a, b}}, Pool) = PairsLeft(mid, Pool) + 1 /\ SinglesLeft(mid \cup {{a, b}}, Pool) = SinglesLeft(mid, Pool) - 2
      <4> HIDE DEF mid
      <4> QED BY <1>1, <3>2, <3>3, OnePairMore
    <3>6. PairsLeft(pairs, Pool) = PairsLeft(mid, Pool) + 1 /\ SinglesLeft(pairs, Pool) = SinglesLeft(mid, Pool) - 2
      <4> DEFINE whole == mid \cup {{a, b}}
      <4>1. whole = pairs
        BY <3>4
      <4>2. PairsLeft(whole, Pool) = PairsLeft(mid, Pool) + 1 /\ SinglesLeft(whole, Pool) = SinglesLeft(mid, Pool) - 2
        BY <3>5
      <4> HIDE DEF whole, mid
      <4> QED BY <4>1, <4>2
    <3>7. Cardinality(splits) = 1
      BY <2>2, FS_Singleton
    <3> HIDE DEF mid
    <3> QED BY <1>2, <3>6, <3>7
  <2> QED BY <2>1, <2>2 DEF Plans, OneOrNone
<1>5. /\ PairsLeft(mid \cup joins, Pool) = PairsLeft(mid, Pool) + Cardinality(joins)
      /\ SinglesLeft(mid \cup joins, Pool) = SinglesLeft(mid, Pool) - 2 * Cardinality(joins)
      /\ Cardinality(joins) \in Nat
  <2>1. CASE joins = {}
    <3>1. mid \cup joins = mid /\ Cardinality(joins) = 0
      BY <2>1, FS_EmptySet
    <3> HIDE DEF mid
    <3> QED BY <1>2, <3>1
  <2>2. ASSUME NEW j \in joins PROVE <1>5!1 /\ <1>5!2 /\ <1>5!3
    <3>1. joins = {j} /\ \E a, b \in Pool : a # b /\ j = {a, b} /\ \A p \in mid : a \notin p /\ b \notin p
      BY PlannedPair
    <3>2. PICK a \in Pool, b \in Pool : a # b /\ j = {a, b} /\ \A p \in mid : a \notin p /\ b \notin p
      BY <3>1
    <3>3. PairsLeft(mid \cup {{a, b}}, Pool) = PairsLeft(mid, Pool) + 1 /\ SinglesLeft(mid \cup {{a, b}}, Pool) = SinglesLeft(mid, Pool) - 2
      <4> HIDE DEF mid
      <4> QED BY <1>1, <3>2, OnePairMore
    <3>4. Cardinality(joins) = 1 /\ joins = {{a, b}}
      BY <3>1, <3>2, FS_Singleton
    <3> HIDE DEF mid
    <3> QED BY <1>2, <3>3, <3>4
  <2> QED BY <2>1, <2>2
<1>6. After(splits, joins) = mid \cup joins
  BY DEF After
<1> HIDE DEF mid
<1> QED BY <1>2, <1>3, <1>4, <1>5, <1>6

-----------------------------------------------------------------------------
(* What is kept around reviews. *)

LeadsSignedUp == \A m \in members : m.role # "player" => m.user \in active

\* Until the Draft is started, leads are as Teams have them, in a duo Bingo a pair, and signed up.
LeadsInv == ~started => LeadsAgree /\ DuoTeamsLedByPairs /\ LeadsSignedUp

SolosUnpaired == ~Duo => pairs = {}

PlanInv ==
    /\ BaseInv /\ EarlierOrder /\ LeadsInv /\ SolosUnpaired
    /\ stage \notin TeamsSet /\ remade = {}
    /\ cutMode \in CutModes

\* A plan is applied.
Reviews(splits, joins, team, c) ==
    /\ Plans(splits, joins)
    /\ team \in Teams \cup {None} /\ c \in Pool \cup {None}
    /\ team = None => c = None
    /\ ApplyCutReview(splits, joins, team, c)

LEMMA PlanApplied == ASSUME ReviewCuts PROVE \E splits, joins, team, c : Reviews(splits, joins, team, c)
<1>1. PICK splits \in OneOrNone(PairUnits), team \in Teams \cup {None} :
        \E joins \in OneOrNone(TwoSets(UNION (SingleUnits \cup splits))) :
            IF splits \cup joins = {} /\ team = None
            THEN ApplyCutReview({}, {}, None, None)
            ELSE \E c \in IF team = None THEN {None} ELSE Pool \cup {None} : ApplyCutReview(splits, joins, team, c)
  BY DEF ReviewCuts
<1>2. PICK joins \in OneOrNone(TwoSets(UNION (SingleUnits \cup splits))) :
            IF splits \cup joins = {} /\ team = None
            THEN ApplyCutReview({}, {}, None, None)
            ELSE \E c \in IF team = None THEN {None} ELSE Pool \cup {None} : ApplyCutReview(splits, joins, team, c)
  BY <1>1
<1>3. CASE splits \cup joins = {} /\ team = None
  <2>1. splits = {} /\ joins = {} /\ ApplyCutReview(splits, joins, team, None)
    BY <1>2, <1>3
  <2>2. MayRepair(splits, joins)
    BY <2>1 DEF ApplyCutReview
  <2> QED BY <1>2, <1>3, <2>1, <2>2 DEF Reviews, Plans
<1>4. CASE ~(splits \cup joins = {} /\ team = None)
  <2>1. PICK c \in IF team = None THEN {None} ELSE Pool \cup {None} : ApplyCutReview(splits, joins, team, c)
    BY <1>2, <1>4
  <2>2. MayRepair(splits, joins)
    BY <2>1 DEF ApplyCutReview
  <2>3. c \in Pool \cup {None} /\ (team = None => c = None)
    BY <2>1
  <2> QED BY <1>2, <2>1, <2>2, <2>3 DEF Reviews, Plans
<1> QED BY <1>3, <1>4

LEMMA PlanPairs ==
    ASSUME PlanInv, NEW splits, NEW joins, NEW team, NEW c, Reviews(splits, joins, team, c)
    PROVE  /\ pairs' = After(splits, joins) /\ requests' = RequestsWithout(UNION joins)
           /\ active' = active /\ earlier' = earlier /\ asks' = asks /\ picks' = picks /\ started' = started
           /\ stage' = stage /\ cutMode' = cutMode
           /\ Twos(pairs') /\ Disjoint(pairs')
           /\ splits \subseteq PairUnits /\ UNION joins \subseteq Pool
           /\ ~Duo => pairs' = {} /\ splits = {} /\ joins = {}
<1>1. /\ pairs' = After(splits, joins) /\ requests' = RequestsWithout(UNION joins)
      /\ active' = active /\ earlier' = earlier /\ asks' = asks /\ picks' = picks /\ started' = started
      /\ stage' = stage /\ cutMode' = cutMode
  BY DEF Reviews, ApplyCutReview, After
<1>2. Twos(After(splits, joins)) /\ Disjoint(After(splits, joins)) /\ splits \subseteq PairUnits /\ UNION joins \subseteq Pool
  BY PlannedPairs DEF Reviews, PlanInv
<1>3. ASSUME ~Duo PROVE pairs' = {} /\ splits = {} /\ joins = {}
  <2>1. splits \cup joins = {}
    BY <1>3 DEF Reviews, Plans, MayRepair, ModsPair
  <2> QED BY <1>1, <1>3, <2>1 DEF PlanInv, SolosUnpaired, After
<1>4. Twos(pairs') /\ Disjoint(pairs')
  BY <1>1, <1>2
<1> QED BY <1>1, <1>2, <1>3, <1>4

\* The rows of a new Team.
Seated(team, c) ==
    IF Duo THEN \E x \in Pool : /\ x # c /\ {c, x} \in pairs'
                               /\ members' = members \cup {Row(team, c, "captain"), Row(team, x, "co")}
    ELSE members' = members \cup {Row(team, c, "captain")}

\* The Team a plan adds: its Captain, in a duo Bingo with their partner, both from the pool.
LEMMA PlannedTeam ==
    ASSUME PlanInv, NEW splits, NEW joins, NEW team, NEW c, Reviews(splits, joins, team, c), c # None
    PROVE  /\ team \in Teams /\ captain[team] = None /\ ~started /\ c \in Pool
           /\ captain' = [captain EXCEPT ![team] = c] /\ order' = order /\ remade' = remade
           /\ Seated(team, c)
<1> DEFINE co == PartnerAmong((pairs \ splits) \cup joins, c)
<1>1. team # None /\ team \in Teams /\ c \in Pool
  BY DEF Reviews
<1>2. TeamAdded(team, c, co)
  BY <1>1 DEF Reviews, ApplyCutReview
<1>3. /\ pairs' = After(splits, joins) /\ Twos(pairs') /\ Disjoint(pairs') /\ (~Duo => pairs' = {})
      /\ \A x : x \in co <=> x # c /\ \E p \in pairs' : c \in p /\ x \in p
  <2>1. pairs' = After(splits, joins) /\ Twos(pairs') /\ Disjoint(pairs') /\ (~Duo => pairs' = {})
    BY PlanPairs
  <2>2. co = (UNION {p \in pairs' : c \in p}) \ {c}
    BY <2>1 DEF PartnerAmong, After
  <2>3. \A x : x \in (UNION {p \in pairs' : c \in p}) \ {c} <=> x # c /\ \E p \in pairs' : c \in p /\ x \in p
    OBVIOUS
  <2>4. \A x : x \in co <=> x # c /\ \E p \in pairs' : c \in p /\ x \in p
    <3> HIDE DEF co
    <3> QED BY <2>2, <2>3
  <2> HIDE DEF co
  <2> QED BY <2>1, <2>4
<1>4. /\ captain[team] = None /\ ~started
      /\ captain' = [captain EXCEPT ![team] = c] /\ order' = order /\ remade' = remade
      /\ members' = members \cup {Row(team, c, "captain")} \cup {Row(team, u, "co") : u \in co}
      /\ \A u \in co : u \in Pool
      /\ Duo => co # {}
  BY <1>2 DEF TeamAdded, Row, Pool
<1>5. ASSUME ~Duo PROVE members' = members \cup {Row(team, c, "captain")}
  <2>1. co = {}
    <3> HIDE DEF co
    <3> QED BY <1>3, <1>5
  <2> HIDE DEF co
  <2> QED BY <1>4, <2>1
<1>6. ASSUME Duo PROVE \E x \in Pool : /\ x # c /\ {c, x} \in pairs'
                                        /\ members' = members \cup {Row(team, c, "captain"), Row(team, x, "co")}
  <2> HIDE DEF co
  <2>1. PICK x \in co : x \in Pool
    BY <1>4, <1>6
  <2>2. x # c /\ \E p \in pairs' : c \in p /\ x \in p
    BY <1>3, <2>1
  <2>3. PICK p \in pairs' : c \in p /\ x \in p
    BY <2>2
  <2>4. p = {c, x}
    <3>1. PICK u \in active, v \in active : u # v /\ p = {u, v}
      BY <1>3, <2>3 DEF Twos
    <3> QED BY <2>2, <2>3, <3>1
  <2>5. \A q \in pairs' : c \in q => q = p
    BY <1>3, <2>3 DEF Disjoint
  <2>6. co = {x}
    BY <1>3, <2>2, <2>3, <2>4, <2>5
  <2>7. members' = members \cup {Row(team, c, "captain")} \cup {Row(team, u, "co") : u \in {x}}
    BY <1>4, <2>6
  <2>8. members' = members \cup {Row(team, c, "captain"), Row(team, x, "co")}
    BY <2>7
  <2> QED BY <2>1, <2>2, <2>3, <2>4, <2>8
<1>7. Seated(team, c)
  BY <1>5, <1>6 DEF Seated
<1> HIDE DEF co
<1> QED BY <1>1, <1>4, <1>7

LEMMA PlannedRemoval ==
    ASSUME PlanInv, NEW splits, NEW joins, NEW team, NEW c, Reviews(splits, joins, team, c), team # None, c = None
    PROVE  /\ team \in Made /\ ~started
           /\ captain' = [captain EXCEPT ![team] = None] /\ members' = {m \in members : m.team # team}
           /\ order' = [order EXCEPT ![team] = 0] /\ remade' = remade \ {team}
BY DEF Reviews, ApplyCutReview, TeamRemoved

LEMMA PlannedStill ==
    ASSUME PlanInv, NEW splits, NEW joins, NEW team, NEW c, Reviews(splits, joins, team, c), team = None
    PROVE  UNCHANGED <<captain, members, order, remade>>
BY DEF Reviews, ApplyCutReview

LEMMA PlanKeepsPairs ==
    ASSUME PlanInv, NEW splits, NEW joins, NEW team, NEW c, Reviews(splits, joins, team, c)
    PROVE  PairsSpokenFor' /\ RequestsApart' /\ OwnSignupsTeamless' /\ EarlierOrder' /\ SolosUnpaired'
<1>1. /\ pairs' = After(splits, joins) /\ requests' = RequestsWithout(UNION joins)
      /\ active' = active /\ earlier' = earlier /\ asks' = asks /\ Twos(pairs') /\ Disjoint(pairs') /\ (~Duo => pairs' = {})
  BY PlanPairs
<1>2. RequestsOpen /\ RequestsApart /\ OwnSignupsTeamless /\ EarlierOrder
  BY PairsParts DEF PlanInv, BaseInv
<1>3. requests' \subseteq requests
  BY <1>1 DEF RequestsWithout
<1>4. RequestsOpen'
  <2>1. SUFFICES ASSUME NEW r \in requests' PROVE r[1] \in active' /\ ~Paired(r[1])' /\ ~Paired(r[2])'
    BY DEF RequestsOpen
  <2>2. r \in requests /\ r[1] \notin UNION joins /\ r[2] \notin UNION joins
    BY <1>1 DEF RequestsWithout
  <2>3. r[1] \in active /\ ~Paired(r[1]) /\ ~Paired(r[2])
    BY <1>2, <2>2 DEF RequestsOpen
  <2> QED BY <1>1, <2>2, <2>3 DEF Paired, After
<1>5. TwoActive' /\ PairsApart'
  BY <1>1 DEF TwoActive, PairsApart, Twos, Disjoint
<1>6. PairsSpokenFor'
  BY <1>4, <1>5 DEF PairsSpokenFor, TwoActive, PairsApart, RequestsOpen
<1>7. RequestsApart' /\ OwnSignupsTeamless' /\ EarlierOrder' /\ SolosUnpaired'
  BY <1>1, <1>2, <1>3 DEF RequestsApart, OwnSignupsTeamless, EarlierOrder, SolosUnpaired
<1> QED BY <1>6, <1>7

LEMMA PlanKeepsTypes ==
    ASSUME PlanInv, NEW splits, NEW joins, NEW team, NEW c, Reviews(splits, joins, team, c)
    PROVE  TypeOK' /\ order' \in [Teams -> Nat]
<1>1. /\ pairs' = After(splits, joins) /\ requests' = RequestsWithout(UNION joins)
      /\ active' = active /\ earlier' = earlier /\ asks' = asks /\ picks' = picks /\ started' = started /\ stage' = stage
      /\ Twos(pairs')
  BY PlanPairs
<1>2. TypeOK /\ order \in [Teams -> Nat]
  BY DEF PlanInv, BaseInv, OrderInv
<1>3. pairs' \subseteq SUBSET Users
  <2>1. active \subseteq Users
    BY <1>2 DEF TypeOK
  <2> QED BY <1>1, <2>1 DEF Twos
<1>4. requests' \subseteq Users \X Users
  BY <1>1, <1>2 DEF TypeOK, RequestsWithout
<1>5. Pool \subseteq Users
  BY <1>2 DEF TypeOK, Pool
<1>6. captain' \in [Teams -> Users \cup {None}] /\ members' \subseteq Members /\ remade' \subseteq Teams /\ order' \in [Teams -> Nat]
  <2>1. CASE team = None
    BY <1>2, <2>1, PlannedStill DEF TypeOK
  <2>2. CASE c # None
    <3>1. /\ team \in Teams /\ c \in Pool
          /\ captain' = [captain EXCEPT ![team] = c] /\ order' = order /\ remade' = remade /\ Seated(team, c)
      BY <2>2, PlannedTeam
    <3>2. c \in Users
      BY <1>5, <3>1
    <3>3. \A x \in Pool : Row(team, x, "co") \in Members
      BY <1>5, <3>1 DEF Row, Members
    <3>4. Row(team, c, "captain") \in Members
      BY <3>1, <3>2 DEF Row, Members
    <3>5. members' \subseteq Members
      <4>1. members \subseteq Members
        BY <1>2 DEF TypeOK
      <4>2. CASE Duo
        <5>1. PICK x \in Pool : members' = members \cup {Row(team, c, "captain"), Row(team, x, "co")}
          BY <3>1, <4>2 DEF Seated
        <5> QED BY <3>3, <3>4, <4>1, <5>1
      <4>3. CASE ~Duo
        BY <3>1, <3>4, <4>1, <4>3 DEF Seated
      <4> QED BY <4>2, <4>3
    <3> QED BY <1>2, <3>1, <3>2, <3>5 DEF TypeOK
  <2>3. CASE team # None /\ c = None
    BY <1>2, <2>3, PlannedRemoval DEF TypeOK
  <2> QED BY <2>1, <2>2, <2>3
<1> QED BY <1>1, <1>2, <1>3, <1>4, <1>6 DEF TypeOK

LEMMA PlanKeepsOneTeam ==
    ASSUME PlanInv, NEW splits, NEW joins, NEW team, NEW c, Reviews(splits, joins, team, c)
    PROVE  OneTeam'
<1>1. OneTeam
  BY DEF PlanInv, BaseInv
<1>2. CASE team = None
  BY <1>1, <1>2, PlannedStill DEF OneTeam
<1>3. CASE c # None
  <2>1. c \in Pool /\ Seated(team, c)
    BY <1>3, PlannedTeam
  <2>2. \A u \in Pool : \A m \in members : m.user # u
    BY DEF Pool, OnATeam
  <2>3. CASE ~Duo
    BY <1>1, <2>1, <2>2, <2>3 DEF OneTeam, Row, Seated
  <2>4. CASE Duo
    <3>1. PICK x \in Pool : x # c /\ members' = members \cup {Row(team, c, "captain"), Row(team, x, "co")}
      BY <2>1, <2>4 DEF Seated
    <3>2. \A m \in members : m.user # c /\ m.user # x
      BY <2>1, <2>2
    <3> QED BY <1>1, <3>1, <3>2 DEF OneTeam, Row
  <2> QED BY <2>3, <2>4
<1>4. CASE team # None /\ c = None
  BY <1>1, <1>4, PlannedRemoval DEF OneTeam
<1> QED BY <1>2, <1>3, <1>4

LEMMA PlanKeepsOrder ==
    ASSUME PlanInv, NEW splits, NEW joins, NEW team, NEW c, Reviews(splits, joins, team, c)
    PROVE  OrderInv'
<1>1. OrderInv /\ UNCHANGED <<picks, started>>
  BY PlanPairs DEF PlanInv, BaseInv
<1>2. captain' \in [Teams -> Users \cup {None}] /\ order' \in [Teams -> Nat]
  BY PlanKeepsTypes DEF TypeOK
<1>3. CASE team = None
  <2>1. UNCHANGED <<captain, order>>
    BY <1>3, PlannedStill
  <2>2. Made' = Made
    BY <2>1 DEF Made
  <2> QED BY <1>1, <1>2, <2>1, <2>2, SameOrder
<1>4. CASE team # None
  <2>1. ~started
    BY <1>4, PlannedTeam, PlannedRemoval
  <2> QED BY <1>1, <1>2, <2>1, NotStarted
<1> QED BY <1>3, <1>4

\* The leads of the Teams that stay are on them and keep their pairing, which is none of the pool's.
LEMMA OthersStayLed ==
    ASSUME PlanInv, ~started, Duo, NEW splits, NEW joins, NEW team, NEW c, Reviews(splits, joins, team, c),
           NEW t \in Made, captain'[t] = captain[t],
           \A n \in members : n.team = t => n \in members'
    PROVE  LedByPair(t)'
<1>1. TypeOK /\ OneTeam /\ LeadsAgree /\ DuoTeamsLedByPairs /\ remade = {}
  BY DEF PlanInv, BaseInv, LeadsInv
<1>2. LedByPair(t)
  BY <1>1 DEF DuoTeamsLedByPairs
<1>3. pairs' = After(splits, joins) /\ splits \subseteq PairUnits
  BY PlanPairs
<1>4. ASSUME NEW n \in members, n.team = t, n.role = "co", {captain[t], n.user} \in pairs PROVE {captain[t], n.user} \in pairs'
  <2>1. {captain[t], n.user} \notin PairUnits
    BY DEF PairUnits, Pool, OnATeam
  <2> QED BY <1>3, <1>4, <2>1 DEF After
<1> QED BY <1>2, <1>4, StaysLed

\* The rows of a Team's new leads: its Captain's and one co's at most, in a duo Bingo the Captain's partner.
Leading(new, team, c) ==
    /\ Row(team, c, "captain") \in new
    /\ \A n \in new : n.team = team /\ n.user \in Pool
    /\ \A n \in new : n.role = "captain" <=> n.user = c
    /\ \A m, n \in new : m.role = "co" /\ n.role = "co" => m = n
    /\ Duo => \E n \in new : n.role = "co" /\ {c, n.user} \in pairs'

LEMMA PlanKeepsLeads ==
    ASSUME PlanInv, NEW splits, NEW joins, NEW team, NEW c, Reviews(splits, joins, team, c), ~started
    PROVE  LeadsAgree' /\ DuoTeamsLedByPairs' /\ LeadsSignedUp'
<1>1. TypeOK /\ OneTeam /\ LeadsAgree /\ DuoTeamsLedByPairs /\ LeadsSignedUp /\ remade = {}
  BY DEF PlanInv, BaseInv, LeadsInv
<1>2. TeamsThere /\ CaptainsAgree /\ CaptainsOnTeam /\ OneCo
  BY <1>1, LeadsParts
<1>3. captain \in [Teams -> Users \cup {None}] /\ members \subseteq Members /\ active \subseteq Users /\ None \notin Users
  BY <1>1, NoneAssumption DEF TypeOK
<1>4. active' = active
  BY PlanPairs
<1>5. CASE team = None
  <2>1. UNCHANGED <<captain, members, remade>>
    BY <1>5, PlannedStill
  <2>2. LeadsAgree' /\ LeadsSignedUp'
    BY <1>1, <1>4, <2>1 DEF LeadsAgree, Made, IsCaptain, LeadsSignedUp
  <2>3. DuoTeamsLedByPairs'
    <3>1. SUFFICES ASSUME Duo, NEW t \in Made' PROVE LedByPair(t)'
      BY DEF DuoTeamsLedByPairs
    <3>2. t \in Made
      BY <2>1, <3>1 DEF Made
    <3> QED BY <2>1, <3>1, <3>2, OthersStayLed
  <2> QED BY <2>2, <2>3
<1>6. CASE c # None
  <2>1. /\ team \in Teams /\ captain[team] = None /\ c \in Pool
        /\ captain' = [captain EXCEPT ![team] = c] /\ remade' = remade /\ Seated(team, c)
    BY <1>6, PlannedTeam
  <2>2. Pool \subseteq active /\ Pool \subseteq Users /\ \A m \in members : m.user \notin Pool /\ m.team # team
    <3>1. Pool \subseteq active /\ \A m \in members : m.user \notin Pool
      BY DEF Pool, OnATeam
    <3>2. \A m \in members : m.team # team
      BY <1>2, <2>1 DEF TeamsThere
    <3> QED BY <1>3, <3>1, <3>2
  <2>3. PICK new : members' = members \cup new /\ Leading(new, team, c)
    <3>1. CASE Duo
      <4>1. PICK x \in Pool : x # c /\ {c, x} \in pairs' /\ members' = members \cup {Row(team, c, "captain"), Row(team, x, "co")}
        BY <2>1, <3>1 DEF Seated
      <4>2. Leading({Row(team, c, "captain"), Row(team, x, "co")}, team, c)
        BY <2>1, <4>1 DEF Row, Leading
      <4> QED BY <4>1, <4>2
    <3>2. CASE ~Duo
      <4>1. members' = members \cup {Row(team, c, "captain")}
        BY <2>1, <3>2 DEF Seated
      <4>2. Leading({Row(team, c, "captain")}, team, c)
        BY <2>1, <3>2 DEF Row, Leading
      <4> QED BY <4>1, <4>2
    <3> QED BY <3>1, <3>2
  <2>11. /\ members' = members \cup new
         /\ Row(team, c, "captain") \in new
         /\ \A n \in new : n.team = team /\ n.user \in Pool
         /\ \A n \in new : n.role = "captain" <=> n.user = c
         /\ \A m, n \in new : m.role = "co" /\ n.role = "co" => m = n
         /\ Duo => \E n \in new : n.role = "co" /\ {c, n.user} \in pairs'
    BY <2>3 DEF Leading
  <2>4. \A t \in Teams : captain'[t] = IF t = team THEN c ELSE captain[t]
    BY <1>3, <2>1
  <2>5. c # None
    BY <1>6
  <2>6. TeamsThere' /\ CaptainsAgree'
    BY <1>2, <2>1, <2>2, <2>11, <2>4, <2>5 DEF TeamsThere, CaptainsAgree
  <2>7. CaptainsOnTeam' /\ OneCo'
    <3>1. CaptainsOnTeam'
      BY <1>2, <2>1, <2>11, <2>4 DEF CaptainsOnTeam, Row
    <3>2. OneCo'
      BY <1>2, <2>2, <2>11 DEF OneCo
    <3> QED BY <3>1, <3>2
  <2>8. LeadsAgree'
    BY <2>6, <2>7, LeadsPartsAfter
  <2>9. LeadsSignedUp'
    BY <1>1, <1>4, <2>2, <2>11 DEF LeadsSignedUp
  <2>10. DuoTeamsLedByPairs'
    <3>1. SUFFICES ASSUME Duo, NEW t \in Made' PROVE LedByPair(t)'
      BY DEF DuoTeamsLedByPairs
    <3>2. CASE t = team
      <4>1. captain'[t] = c
        BY <2>1, <2>4, <3>2
      <4> QED BY <2>11, <3>1, <3>2, <4>1 DEF LedByPair, Partners
    <3>3. CASE t # team
      <4>1. t \in Made /\ captain'[t] = captain[t]
        BY <2>4, <3>1, <3>3 DEF Made
      <4> QED BY <2>11, <3>1, <4>1, OthersStayLed
    <3> QED BY <3>2, <3>3
  <2> QED BY <2>8, <2>9, <2>10
<1>7. CASE team # None /\ c = None
  <2>1. /\ team \in Made /\ captain' = [captain EXCEPT ![team] = None]
        /\ members' = {m \in members : m.team # team} /\ remade' = {}
    BY <1>1, <1>7, PlannedRemoval
  <2>2. \A t \in Teams : captain'[t] = IF t = team THEN None ELSE captain[t]
    BY <1>3, <2>1
  <2>3. TeamsThere' /\ CaptainsAgree' /\ OneCo'
    BY <1>2, <2>1, <2>2 DEF TeamsThere, CaptainsAgree, OneCo
  <2>4. CaptainsOnTeam'
    BY <1>2, <2>1, <2>2 DEF CaptainsOnTeam
  <2>5. LeadsAgree'
    BY <2>3, <2>4, LeadsPartsAfter
  <2>6. LeadsSignedUp'
    BY <1>1, <1>4, <2>1 DEF LeadsSignedUp
  <2>7. DuoTeamsLedByPairs'
    <3>1. SUFFICES ASSUME Duo, NEW t \in Made' PROVE LedByPair(t)'
      BY DEF DuoTeamsLedByPairs
    <3>2. t \in Made /\ captain'[t] = captain[t] /\ t # team
      BY <2>2, <3>1 DEF Made
    <3> QED BY <2>1, <3>1, <3>2, OthersStayLed
  <2> QED BY <2>5, <2>6, <2>7
<1> QED BY <1>5, <1>6, <1>7

LEMMA PlanKeepsInv == ASSUME PlanInv, ReviewCuts PROVE PlanInv'
<1>1. PICK splits, joins, team, c : Reviews(splits, joins, team, c)
  BY PlanApplied
<1>2. BaseInv' /\ EarlierOrder' /\ SolosUnpaired'
  BY <1>1, PlanKeepsPairs, PlanKeepsTypes, PlanKeepsOneTeam, PlanKeepsOrder DEF BaseInv
<1>3. stage' = stage /\ started' = started /\ cutMode' = cutMode
  BY <1>1, PlanPairs
<1>4. LeadsInv'
  BY <1>1, <1>3, PlanKeepsLeads DEF LeadsInv
<1>5. remade' = {}
  <2>1. remade = {}
    BY DEF PlanInv
  <2>2. remade' \subseteq remade
    BY <1>1, PlannedStill, PlannedTeam, PlannedRemoval
  <2> QED BY <2>1, <2>2
<1> QED BY <1>2, <1>3, <1>4, <1>5 DEF PlanInv

-----------------------------------------------------------------------------
(* What every other step keeps of it. *)

LEMMA LeadsStaySignedUp ==
    ASSUME TypeOK, OwnSignupsTeamless, stage \notin TeamsSet, LeadsSignedUp, RosterNext
    PROVE  LeadsSignedUp'
<1>1. CASE SignupNext
  <2>1. CASE \E u \in Users : Ask(u)
    BY <2>1 DEF Ask, LeadsSignedUp
  <2>2. ASSUME NEW u \in Users, Withdraw(u) PROVE LeadsSignedUp'
    BY <2>2 DEF Withdraw, WithdrawSignupOf, LeadsSignedUp, Leads
  <2>3. ASSUME NEW ask \in asks, SignUp(ask) PROVE LeadsSignedUp'
    <3>1. \A m \in members' : m.role # "player" => m \in members
      BY <2>3 DEF SignUp
    <3> QED BY <2>3, <3>1 DEF SignUp, LeadsSignedUp
  <2>4. ASSUME NEW ask \in asks, Refused(ask) PROVE LeadsSignedUp'
    BY <2>4 DEF Refused, LeadsSignedUp
  <2> QED BY <1>1, <2>1, <2>2, <2>3, <2>4 DEF SignupNext
<1>2. CASE PairingNext
  <2>1. UNCHANGED <<members, active>>
    BY <1>2 DEF PairingNext, RequestPairing, AcceptRequest, CloseRequest, AdminPair, LeavePairing, Unpair, PairingOnly
  <2> QED BY <2>1 DEF LeadsSignedUp
<1>3. CASE TeamNext
  <2>1. ASSUME NEW t \in Teams, NEW c \in Users, NEW co \in Users \cup {None}, CreateTeam(t, c, co) PROVE LeadsSignedUp'
    <3>1. c \in active /\ (co # None => co \in active) /\ active' = active
      BY <2>1 DEF CreateTeam, MayLead
    <3>2. \/ co = None /\ members' = members \cup {Row(t, c, "captain")}
          \/ co # None /\ members' = members \cup {Row(t, c, "captain"), Row(t, co, "co")}
      BY <2>1, Creating
    <3> QED BY <3>1, <3>2 DEF LeadsSignedUp, Row
  <2>2. ASSUME NEW t \in Teams, DeleteTeam(t) PROVE LeadsSignedUp'
    BY <2>2 DEF DeleteTeam, LeadsSignedUp
  <2>3. ASSUME NEW t \in Teams, NEW u \in Users, AddTeamMember(t, u) PROVE LeadsSignedUp'
    BY <2>3 DEF AddTeamMember, LeadsSignedUp
  <2>4. ASSUME NEW m \in members, UndoMembership(m) PROVE LeadsSignedUp'
    BY <2>4 DEF UndoMembership, LeadsSignedUp
  <2>5. \A m \in members : ~RemovePlayer(m) /\ \A r \in members : ~RemoveLead(m, r)
    BY DEF RemovePlayer, RemoveLead
  <2> QED BY <1>3, <2>1, <2>2, <2>3, <2>4, <2>5 DEF TeamNext
<1>4. CASE \E to \in MovesTo : MoveStage(to)
  BY <1>4 DEF MoveStage, LeadsSignedUp
<1> QED BY <1>1, <1>2, <1>3, <1>4 DEF RosterNext

LEMMA SolosStayUnpaired == ASSUME SolosUnpaired, RosterNext PROVE SolosUnpaired'
<1>1. SUFFICES ASSUME ~Duo PROVE pairs' \subseteq pairs
  BY DEF SolosUnpaired
<1>2. CASE SignupNext
  BY <1>2 DEF SignupNext, Ask, Withdraw, WithdrawSignupOf, PairsWithout, SignUp, Refused
<1>3. CASE PairingNext
  BY <1>1, <1>3 DEF PairingNext, RequestPairing, AcceptRequest, CloseRequest, AdminPair, LeavePairing, Unpair, PlayersPair, ModsPair
<1>4. CASE TeamNext
  BY <1>4 DEF TeamNext, CreateTeam, DeleteTeam, AddTeamMember, UndoMembership, RemovePlayer, RemoveLead, WithdrawSignupOf, PairsWithout
<1>5. CASE \E to \in MovesTo : MoveStage(to)
  BY <1>5 DEF MoveStage
<1> QED BY <1>2, <1>3, <1>4, <1>5 DEF RosterNext

\* What the Draft's own steps leave alone.
LEMMA DraftLeaves ==
    ASSUME OrderInv, DraftNext
    PROVE  /\ UNCHANGED <<stage, active, earlier, asks, pairs, requests, captain, remade>>
           /\ ~started' => UNCHANGED members
           /\ started => started'
           /\ cutMode \in CutModes => cutMode' \in CutModes
<1>1. ASSUME NEW newOrder, NEW reveal, OrderTeams(newOrder, reveal) PROVE UNCHANGED <<rvars, cutMode>>
  BY <1>1 DEF OrderTeams
<1>2. ASSUME LockExpires PROVE UNCHANGED <<rvars, cutMode>>
  BY <1>2 DEF LockExpires
<1>3. ASSUME StartDraft PROVE UNCHANGED <<rosterVars, cutMode>> /\ started'
  BY <1>3 DEF StartDraft
<1>4. ASSUME UndoLastPick
      PROVE  UNCHANGED <<stage, active, earlier, asks, pairs, requests, captain, remade, started, cutMode>> /\ started
  BY <1>4 DEF UndoLastPick, OrderInv, draftVars
<1>5. ASSUME NEW u, MakePick(u)
      PROVE  UNCHANGED <<stage, active, earlier, asks, pairs, requests, captain, remade, started, cutMode>> /\ started
  BY <1>5 DEF MakePick, MayPick, draftVars
<1>6. ASSUME NEW mode \in CutModes, SetCutMode(mode) PROVE UNCHANGED rvars /\ cutMode' \in CutModes
  BY <1>6 DEF SetCutMode
<1>7. OrderInv => (picks # {} => started)
  BY DEF OrderInv
<1> QED BY <1>1, <1>2, <1>3, <1>4, <1>5, <1>6, <1>7 DEF DraftNext, rvars, rosterVars, CutModes

LEMMA RosterKeepsPlans ==
    ASSUME BeforeReveal, PlanInv, RosterStep
    PROVE  EarlierOrder' /\ LeadsInv' /\ SolosUnpaired' /\ stage' \notin TeamsSet /\ remade' = {} /\ cutMode' \in CutModes
<1>1. RosterNext /\ UNCHANGED cutMode
  BY DEF RosterStep
<1>2. BaseInv /\ TypeOK /\ OwnSignupsTeamless /\ RequestsApart /\ OneTeam /\ PairsSpokenFor /\ EarlierOrder /\ stage \notin TeamsSet /\ remade = {}
  BY DEF PlanInv, BaseInv
<1>3. EarlierOrder'
  BY <1>1, <1>2, RosterKeepsOrder
<1>4. stage' \notin TeamsSet /\ remade' = {}
  BY <1>1, <1>2, RosterStaysBefore
<1>5. LeadsInv'
  <2>1. SUFFICES ASSUME ~started' PROVE LeadsAgree' /\ DuoTeamsLedByPairs' /\ LeadsSignedUp'
    BY DEF LeadsInv
  <2>2. ~started
    BY <1>1, <2>1, RosterKeepsPicks
  <2>3. LeadsAgree /\ DuoTeamsLedByPairs /\ LeadsSignedUp
    BY <2>2 DEF PlanInv, LeadsInv
  <2>4. Inv
    BY <1>2, <2>3 DEF Inv
  <2>5. Inv'
    BY <1>1, <2>4, Inductive
  <2> QED BY <1>1, <1>2, <2>3, <2>5, LeadsStaySignedUp DEF Inv
<1>6. SolosUnpaired'
  BY <1>1, SolosStayUnpaired DEF PlanInv
<1>7. cutMode' \in CutModes
  BY <1>1 DEF PlanInv, CutModes
<1> QED BY <1>3, <1>4, <1>5, <1>6, <1>7

LEMMA DraftKeepsPlans ==
    ASSUME PlanInv, DraftNext
    PROVE  EarlierOrder' /\ LeadsInv' /\ SolosUnpaired' /\ stage' \notin TeamsSet /\ remade' = {} /\ cutMode' \in CutModes
<1>1. OrderInv /\ EarlierOrder /\ LeadsInv /\ SolosUnpaired /\ stage \notin TeamsSet /\ remade = {} /\ cutMode \in CutModes
  BY DEF PlanInv, BaseInv
<1>2. /\ UNCHANGED <<stage, active, earlier, asks, pairs, requests, captain, remade>>
      /\ ~started' => UNCHANGED members
      /\ started => started'
      /\ cutMode' \in CutModes
  BY <1>1, DraftLeaves
<1>3. LeadsInv'
  <2>1. SUFFICES ASSUME ~started' PROVE LeadsAgree' /\ DuoTeamsLedByPairs' /\ LeadsSignedUp'
    BY DEF LeadsInv
  <2>2. UNCHANGED <<members, captain, active, pairs, remade>> /\ LeadsAgree /\ DuoTeamsLedByPairs /\ LeadsSignedUp
    BY <1>1, <1>2, <2>1 DEF LeadsInv
  <2> QED BY <2>2 DEF LeadsAgree, DuoTeamsLedByPairs, LeadsSignedUp, Made, IsCaptain, LedByPair, Partners
<1>4. EarlierOrder' /\ SolosUnpaired'
  BY <1>1, <1>2 DEF EarlierOrder, SolosUnpaired
<1> QED BY <1>1, <1>2, <1>3, <1>4

LEMMA NextKeepsPlans == ASSUME IsFiniteSet(Teams), BeforeReveal, PlanInv, [Next]_vars PROVE PlanInv'
<1>1. BaseInv'
  BY NextKeepsBase DEF PlanInv
<1>2. CASE RosterStep
  BY <1>1, <1>2, RosterKeepsPlans DEF PlanInv
<1>3. CASE DraftNext
  BY <1>1, <1>3, DraftKeepsPlans DEF PlanInv
<1>4. CASE UNCHANGED vars
  <2>1. UNCHANGED <<stage, active, earlier, pairs, captain, members, remade, started, cutMode>>
    BY <1>4 DEF vars, rvars, rosterVars, draftVars
  <2>2. EarlierOrder' /\ LeadsInv' /\ SolosUnpaired'
    BY <2>1 DEF PlanInv, EarlierOrder, LeadsInv, SolosUnpaired, LeadsAgree, DuoTeamsLedByPairs, LeadsSignedUp, Made, IsCaptain, LedByPair, Partners
  <2> QED BY <1>1, <2>1, <2>2 DEF PlanInv, CutModes
<1> QED BY <1>2, <1>3, <1>4 DEF Next

-----------------------------------------------------------------------------
(* What a plan comes to once it is applied. *)

LEMMA UnitsWithinAfter == PairCount' = PairsLeft(pairs', Pool') /\ SingleCount' = SinglesLeft(pairs', Pool')
BY DEF PairUnits, SingleUnits, PairsWithin, SinglesWithin, PairCount, SingleCount, PairsLeft, SinglesLeft

PairsPlanned(splits, joins) == PairCount + Cardinality(joins) - Cardinality(splits)
SinglesPlanned(splits, joins) == SingleCount + 2 * Cardinality(splits) - 2 * Cardinality(joins)

LEMMA PoolFinite == ASSUME TypeOK, IsFiniteSet(Users) PROVE IsFiniteSet(Pool) /\ Pool \subseteq Users
<1>1. Pool \in SUBSET Users
  BY DEF TypeOK, Pool
<1> QED BY <1>1, FS_Subset

LEMMA PlannedAre ==
    ASSUME PlanInv, IsFiniteSet(Users), NEW splits, NEW joins, NEW team, NEW c, Reviews(splits, joins, team, c)
    PROVE  /\ PairsLeft(pairs', Pool) = PairsPlanned(splits, joins) /\ PairsLeft(pairs', Pool) \in Nat
           /\ SinglesLeft(pairs', Pool) = SinglesPlanned(splits, joins) /\ SinglesLeft(pairs', Pool) \in Nat
<1>1. pairs' = After(splits, joins)
  BY PlanPairs
<1>2. IsFiniteSet(Pool)
  BY PoolFinite DEF PlanInv, BaseInv
<1>3. /\ PairsLeft(After(splits, joins), Pool) = PairsPlanned(splits, joins)
      /\ SinglesLeft(After(splits, joins), Pool) = SinglesPlanned(splits, joins)
  BY PlannedCounts DEF PlanInv, Reviews, PairsPlanned, SinglesPlanned
<1>4. PairsLeft(After(splits, joins), Pool) \in Nat /\ SinglesLeft(After(splits, joins), Pool) \in Nat
  BY <1>2, WithinFinite
<1> QED BY <1>1, <1>3, <1>4

\* The counts after a plan: of the Teams, the pairs and the singles.
Counted(count, p, s) == TeamCount' = count /\ PairCount' = p /\ SingleCount' = s

LEMMA CountedStill ==
    ASSUME PlanInv, IsFiniteSet(Users), NEW splits, NEW joins, NEW team, NEW c, Reviews(splits, joins, team, c), team = None
    PROVE  Counted(TeamCount, PairsPlanned(splits, joins), SinglesPlanned(splits, joins))
<1>1. UNCHANGED <<captain, members, active>>
  BY PlannedStill, PlanPairs
<1>2. Pool' = Pool /\ TeamCount' = TeamCount
  BY <1>1 DEF Pool, OnATeam, TeamCount, Made
<1> QED BY <1>2, PlannedAre, UnitsWithinAfter DEF Counted

LEMMA CountedAdded ==
    ASSUME PlanInv, IsFiniteSet(Users), IsFiniteSet(Teams), NEW splits, NEW joins, NEW team, NEW c, Reviews(splits, joins, team, c), c # None
    PROVE  Counted(TeamCount + 1,
                   IF Duo THEN PairsPlanned(splits, joins) - 1 ELSE PairsPlanned(splits, joins),
                   IF Duo THEN SinglesPlanned(splits, joins) ELSE SinglesPlanned(splits, joins) - 1)
<1>1. /\ team \in Teams /\ captain[team] = None /\ c \in Pool
      /\ captain' = [captain EXCEPT ![team] = c] /\ Seated(team, c)
  BY PlannedTeam
<1>2. /\ PairsLeft(pairs', Pool) = PairsPlanned(splits, joins) /\ PairsLeft(pairs', Pool) \in Nat
      /\ SinglesLeft(pairs', Pool) = SinglesPlanned(splits, joins) /\ SinglesLeft(pairs', Pool) \in Nat
  BY PlannedAre
<1>3. /\ active' = active /\ Twos(pairs') /\ Disjoint(pairs') /\ (~Duo => pairs' = {})
  BY PlanPairs
<1>4. TypeOK /\ IsFiniteSet(Pool)
  BY PoolFinite DEF PlanInv, BaseInv
<1>5. TeamCount' = TeamCount + 1
  <2>1. Made' = Made \cup {team} /\ team \notin Made
    BY <1>1, <1>4 DEF Made, TypeOK
  <2>2. IsFiniteSet(Made)
    BY MadeCount
  <2>3. Cardinality(Made \cup {team}) = Cardinality(Made) + 1
    BY <2>1, <2>2, FS_AddElement
  <2> QED BY <2>1, <2>3 DEF TeamCount
<1>6. CASE Duo
  <2>1. PICK x \in Pool : x # c /\ {c, x} \in pairs' /\ members' = members \cup {Row(team, c, "captain"), Row(team, x, "co")}
    BY <1>1, <1>6 DEF Seated
  <2> DEFINE p == {c, x}
  <2>2. Pool' = Pool \ p
    <3>1. \A u : OnATeam(u)' <=> OnATeam(u) \/ u = c \/ u = x
      <4>1. \A m : m \in members' <=> m \in members \/ m = Row(team, c, "captain") \/ m = Row(team, x, "co")
        BY <2>1
      <4>2. Row(team, c, "captain").user = c /\ Row(team, x, "co").user = x
        BY DEF Row
      <4> QED BY <4>1, <4>2 DEF OnATeam
    <3> QED BY <1>3, <3>1 DEF Pool
  <2>3. p \in pairs' /\ p # {} /\ p \subseteq Pool /\ \A q \in pairs' : p \cap q # {} => p = q
    BY <1>1, <1>3, <2>1 DEF Disjoint
  <2>4. PairsLeft(pairs', Pool \ p) = PairsLeft(pairs', Pool) - 1 /\ SinglesLeft(pairs', Pool \ p) = SinglesLeft(pairs', Pool)
    <3> HIDE DEF p
    <3>1. PICK ps : ps = pairs'
      OBVIOUS
    <3>2. PairsLeft(ps, Pool \ p) = PairsLeft(ps, Pool) - 1 /\ SinglesLeft(ps, Pool \ p) = SinglesLeft(ps, Pool)
      BY <1>4, <2>3, <3>1, PairOutOfPool
    <3> QED BY <3>1, <3>2
  <2> HIDE DEF p
  <2> QED BY <1>2, <1>5, <1>6, <2>2, <2>4, UnitsWithinAfter DEF Counted
<1>7. CASE ~Duo
  <2>1. members' = members \cup {Row(team, c, "captain")} /\ pairs' = {}
    BY <1>1, <1>3, <1>7 DEF Seated
  <2>2. Pool' = Pool \ {c}
    <3>1. \A u : OnATeam(u)' <=> OnATeam(u) \/ u = c
      <4>1. \A m : m \in members' <=> m \in members \/ m = Row(team, c, "captain")
        BY <2>1
      <4>2. Row(team, c, "captain").user = c
        BY DEF Row
      <4> QED BY <4>1, <4>2 DEF OnATeam
    <3> QED BY <1>3, <3>1 DEF Pool
  <2>3. IsFiniteSet(Pool \ {c}) /\ Cardinality(Pool \ {c}) = Cardinality(Pool) - 1
    BY <1>1, <1>4, FS_RemoveElement
  <2>4. /\ PairsLeft({}, Pool) = 0 /\ SinglesLeft({}, Pool) = Cardinality(Pool)
        /\ PairsLeft({}, Pool \ {c}) = 0 /\ SinglesLeft({}, Pool \ {c}) = Cardinality(Pool \ {c})
    BY <1>4, <2>3, NobodyPaired
  <2>5. PairsLeft(pairs', Pool') = PairsLeft(pairs', Pool) /\ SinglesLeft(pairs', Pool') = SinglesLeft(pairs', Pool) - 1
    BY <2>1, <2>2, <2>3, <2>4
  <2> QED BY <1>2, <1>5, <1>7, <2>5, UnitsWithinAfter DEF Counted
<1> QED BY <1>6, <1>7

LEMMA CountedRemoved ==
    ASSUME PlanInv, IsFiniteSet(Users), IsFiniteSet(Teams), NEW splits, NEW joins, NEW team, NEW c, Reviews(splits, joins, team, c),
           team # None, c = None, \A m \in members : m.team = team => m.role # "player"
    PROVE  LET pool == WithTeamRemoved(team, PairsPlanned(splits, joins), SinglesPlanned(splits, joins))
           IN  Counted(TeamCount - 1, pool[1], pool[2])
<1>1. /\ team \in Made /\ ~started /\ captain' = [captain EXCEPT ![team] = None] /\ members' = {m \in members : m.team # team}
  BY PlannedRemoval
<1>2. /\ PairsLeft(pairs', Pool) = PairsPlanned(splits, joins) /\ PairsLeft(pairs', Pool) \in Nat
      /\ SinglesLeft(pairs', Pool) = SinglesPlanned(splits, joins) /\ SinglesLeft(pairs', Pool) \in Nat
  BY PlannedAre
<1>3. /\ active' = active /\ Twos(pairs') /\ Disjoint(pairs') /\ (~Duo => pairs' = {})
      /\ pairs' = After(splits, joins) /\ splits \subseteq PairUnits
  BY PlanPairs
<1>4. TypeOK /\ IsFiniteSet(Pool) /\ OneTeam /\ LeadsAgree /\ DuoTeamsLedByPairs /\ LeadsSignedUp /\ remade = {} /\ SolosUnpaired
  BY <1>1, PoolFinite DEF PlanInv, BaseInv, LeadsInv
<1>5. TeamCount' = TeamCount - 1
  <2>1. Made' = Made \ {team}
    BY <1>1, <1>4 DEF Made, TypeOK
  <2>2. IsFiniteSet(Made)
    BY MadeCount
  <2>3. Cardinality(Made \ {team}) = Cardinality(Made) - 1
    BY <1>1, <2>2, FS_RemoveElement
  <2> QED BY <2>1, <2>3 DEF TeamCount
<1> DEFINE back == LeadsOf(team)
<1>6. Pool' = Pool \cup back /\ Pool \cap back = {} /\ back \subseteq Users
  <2>1. \A u : u \in back <=> \E m \in members : m.team = team /\ m.user = u
    BY DEF LeadsOf
  <2>2. \A m, n \in members : m.user = n.user => m.team = n.team
    BY <1>4 DEF OneTeam
  <2>3. back \subseteq active
    BY <1>4 DEF LeadsSignedUp, LeadsOf
  <2>4. active \subseteq Users
    BY <1>4 DEF TypeOK
  <2> HIDE DEF back
  <2>5. \A u : u \in Pool' <=> u \in active /\ \A m \in members : m.user = u => m.team = team
    BY <1>1, <1>3 DEF Pool, OnATeam
  <2>6. \A u : u \in Pool <=> u \in active /\ \A m \in members : m.user # u
    BY DEF Pool, OnATeam
  <2> QED BY <2>1, <2>2, <2>3, <2>4, <2>5, <2>6
<1>7. CASE Duo
  <2>1. LedByPair(team)
    BY <1>1, <1>4, <1>7 DEF DuoTeamsLedByPairs
  <2>2. PICK co \in members : co.team = team /\ co.role = "co" /\ {captain[team], co.user} \in pairs
    BY <2>1 DEF LedByPair, Partners
  <2> DEFINE p == {captain[team], co.user}
  <2>3. back = p
    <3>1. \A n \in members : n.team = team => n.role = "captain" \/ n.role = "co"
      BY <1>4 DEF TypeOK, Members
    <3>2. \A n \in members : n.team = team /\ n.role = "captain" => n.user = captain[team]
      BY <1>4 DEF LeadsAgree, IsCaptain
    <3>3. \A n \in members : n.team = team /\ n.role = "co" => n = co
      BY <1>4, <2>2 DEF LeadsAgree
    <3>4. \E n \in members : n.team = team /\ n.role = "captain"
      BY <1>1, <1>4 DEF LeadsAgree
    <3>5. \A u : u \in back <=> \E n \in members : n.team = team /\ n.user = u
      BY DEF LeadsOf
    <3> HIDE DEF back
    <3> QED BY <2>2, <3>1, <3>2, <3>3, <3>4, <3>5
  <2>4. p \in pairs'
    <3>1. p \notin PairUnits
      BY <1>6, <2>3 DEF PairUnits
    <3> QED BY <1>3, <2>2, <3>1 DEF After
  <2>5. Pool' \ p = Pool /\ p \subseteq Pool' /\ p # {} /\ \A q \in pairs' : p \cap q # {} => p = q
    <3>1. Pool' = Pool \cup p /\ Pool \cap p = {}
      BY <1>6, <2>3
    <3> QED BY <1>3, <2>4, <3>1 DEF Disjoint
  <2>6. IsFiniteSet(Pool')
    <3>1. Pool' \in SUBSET Users
      BY <1>4, <1>6, PoolFinite
    <3> QED BY <3>1, FS_Subset
  <2>7. PairsLeft(pairs', Pool) = PairsLeft(pairs', Pool') - 1 /\ SinglesLeft(pairs', Pool) = SinglesLeft(pairs', Pool')
    <3>1. PICK ps, P : ps = pairs' /\ P = Pool'
      OBVIOUS
    <3> HIDE DEF p
    <3>2. PairsLeft(ps, P \ p) = PairsLeft(ps, P) - 1 /\ SinglesLeft(ps, P \ p) = SinglesLeft(ps, P)
      BY <2>4, <2>5, <2>6, <3>1, PairOutOfPool
    <3> QED BY <2>5, <3>1, <3>2
  <2>8. PairsLeft(pairs', Pool') \in Nat
    <3>1. PICK ps, P : ps = pairs' /\ P = Pool'
      OBVIOUS
    <3> QED BY <2>6, <3>1, WithinFinite
  <2>9. PairCount' = PairsPlanned(splits, joins) + 1 /\ SingleCount' = SinglesPlanned(splits, joins)
    BY <1>2, <2>7, <2>8, UnitsWithinAfter
  <2>10. WithTeamRemoved(team, PairsPlanned(splits, joins), SinglesPlanned(splits, joins)) = <<PairsPlanned(splits, joins) + 1, SinglesPlanned(splits, joins)>>
    BY <2>1 DEF WithTeamRemoved
  <2> HIDE DEF back, p
  <2> QED BY <1>5, <2>9, <2>10 DEF Counted
<1>8. CASE ~Duo
  <2>1. pairs = {} /\ pairs' = {}
    BY <1>3, <1>4, <1>8 DEF SolosUnpaired
  <2>2. ~LedByPair(team)
    BY <2>1 DEF LedByPair, Partners
  <2>3. IsFiniteSet(back)
    <3>1. back \in SUBSET Users
      BY <1>6
    <3> HIDE DEF back
    <3> QED BY <3>1, FS_Subset
  <2>4. IsFiniteSet(Pool \cup back) /\ Cardinality(Pool \cup back) = Cardinality(Pool) + Cardinality(back)
    <3> HIDE DEF back
    <3> QED BY <1>4, <1>6, <2>3, DisjointUnion
  <2>5. /\ PairsLeft({}, Pool) = 0 /\ SinglesLeft({}, Pool) = Cardinality(Pool)
        /\ PairsLeft({}, Pool \cup back) = 0 /\ SinglesLeft({}, Pool \cup back) = Cardinality(Pool \cup back)
    <3> HIDE DEF back
    <3> QED BY <1>4, <2>4, NobodyPaired
  <2>6. PairCount' = PairsPlanned(splits, joins) /\ SingleCount' = SinglesPlanned(splits, joins) + Cardinality(back)
    <3> HIDE DEF back
    <3> QED BY <1>2, <1>6, <2>1, <2>4, <2>5, UnitsWithinAfter
  <2>7. WithTeamRemoved(team, PairsPlanned(splits, joins), SinglesPlanned(splits, joins))
        = <<PairsPlanned(splits, joins), SinglesPlanned(splits, joins) + Cardinality(LeadsOf(team))>>
    BY <2>2 DEF WithTeamRemoved
  <2> QED BY <1>5, <2>6, <2>7 DEF Counted
<1> QED BY <1>7, <1>8

\* What a plan is said to leave cut is what is counted once it is applied.
LEMMA ToldIsCounted ==
    ASSUME PlanInv, IsFiniteSet(Users), IsFiniteSet(Teams), NEW splits, NEW joins, NEW team, NEW c, Reviews(splits, joins, team, c)
    PROVE  told' = ScoreArrangement(cutMode', TeamCount', PairCount', SingleCount')
<1> DEFINE p == PairsPlanned(splits, joins)
           s == SinglesPlanned(splits, joins)
<1>1. told' = Foretold(p, s, team, c # None) /\ cutMode' = cutMode /\ (team = None => c = None) /\ picks' = picks
  BY DEF Reviews, ApplyCutReview, PairsPlanned, SinglesPlanned
<1>2. CASE team = None
  <2>1. told' = CutCount(TeamCount, p, s)
    <3> HIDE DEF p, s
    <3> QED BY <1>1, <1>2 DEF Foretold
  <2> HIDE DEF p, s
  <2> QED BY <1>1, <1>2, <2>1, CountedStill DEF Counted, CutCount, p, s
<1>3. CASE c # None
  <2>1. told' = CutCount(TeamCount + 1, IF Duo THEN p - 1 ELSE p, IF Duo THEN s ELSE s - 1)
    <3> HIDE DEF p, s
    <3> QED BY <1>1, <1>3 DEF Foretold
  <2>2. Counted(TeamCount + 1, IF Duo THEN p - 1 ELSE p, IF Duo THEN s ELSE s - 1)
    BY <1>3, CountedAdded
  <2> HIDE DEF p, s
  <2> QED BY <1>1, <2>1, <2>2 DEF Counted, CutCount
<1>4. CASE team # None /\ c = None /\ \A m \in members : m.team = team => m.role # "player"
  <2> DEFINE pool == WithTeamRemoved(team, p, s)
  <2>1. told' = CutCount(TeamCount - 1, pool[1], pool[2])
    <3> HIDE DEF p, s
    <3> QED BY <1>1, <1>4 DEF Foretold
  <2>2. Counted(TeamCount - 1, pool[1], pool[2])
    BY <1>4, CountedRemoved
  <2> HIDE DEF pool
  <2> QED BY <1>1, <2>1, <2>2 DEF Counted, CutCount
<1>5. CASE team # None /\ c = None /\ ~\A m \in members : m.team = team => m.role # "player"
  <2>1. told' = Cardinality(CutPlayers')
    <3> HIDE DEF p, s
    <3> QED BY <1>1, <1>5 DEF Foretold
  <2>2. picks = {}
    <3>1. ~started
      BY <1>5, PlannedRemoval
    <3> QED BY <3>1 DEF PlanInv, BaseInv, OrderInv
  <2>3. BaseInv' /\ EarlierOrder'
    BY PlanKeepsPairs, PlanKeepsTypes, PlanKeepsOneTeam, PlanKeepsOrder DEF BaseInv
  <2>4. NothingDrafted'
    BY <1>1, <2>2, <2>3 DEF NothingDrafted
  <2>5. CutAsCounted'
    BY <2>4, CutsAreCountedNext
  <2> QED BY <2>1, <2>5 DEF CutAsCounted, CutCount
<1> QED BY <1>1, <1>2, <1>3, <1>4, <1>5

-----------------------------------------------------------------------------
(* A review that fits the roster. *)

\* The units of two players and of one, told apart by their size: a Fingerprint has them together.
TwosOf(units) == {x \in units : TwoPlayers(x)}

SaidOf(f) == ScoreArrangement(f.mode, f.teams, Cardinality(TwosOf(f.units)), Cardinality(f.units \ TwosOf(f.units)))

LEMMA FingerprintSays ==
    ASSUME PairsSpokenFor
    PROVE  SaidOf(Fingerprint) = CutCount(TeamCount, PairCount, SingleCount)
<1>1. \A p \in PairUnits : TwoPlayers(p)
  BY DEF PairsSpokenFor, PairUnits, TwoPlayers
<1>2. \A x \in SingleUnits : ~TwoPlayers(x)
  BY DEF SingleUnits, TwoPlayers
<1> DEFINE units == PairUnits \cup SingleUnits
<1>3. TwosOf(units) = PairUnits /\ units \ TwosOf(units) = SingleUnits
  BY <1>1, <1>2 DEF TwosOf
<1>4. Fingerprint.units = units /\ Fingerprint.mode = cutMode /\ Fingerprint.teams = TeamCount
  BY DEF Fingerprint
<1> HIDE DEF units
<1> QED BY <1>3, <1>4 DEF SaidOf, CutCount, PairCount, SingleCount

FingerprintIsRight == PairsSpokenFor => SaidOf(Fingerprint) = CutCount(TeamCount, PairCount, SingleCount)

LEMMA FingerprintSaysNext == FingerprintIsRight'
<1>1. FingerprintIsRight
  BY FingerprintSays DEF FingerprintIsRight
<1> QED BY <1>1, PTL

ToldRight == reviewed # None => told = SaidOf(reviewed)

CutInv == PlanInv /\ ToldRight

LEMMA CutInitially == ASSUME IsFiniteSet(Teams) PROVE CutInit => CutInv
<1> SUFFICES ASSUME CutInit PROVE CutInv
  OBVIOUS
<1>1. RosterInit /\ Init /\ reviewed = None
  BY DEF CutInit, Init
<1>2. Inv
  BY <1>1, Initially
<1>3. BaseInv
  BY <1>1, InitIsBase
<1>4. EarlierOrder /\ SolosUnpaired /\ stage \notin TeamsSet /\ remade = {} /\ cutMode \in CutModes /\ members = {}
  BY <1>1 DEF RosterInit, Init, EarlierOrder, SolosUnpaired, TeamsSet
<1>5. LeadsInv
  BY <1>2, <1>4 DEF LeadsInv, Inv, LeadsSignedUp
<1> QED BY <1>1, <1>3, <1>4, <1>5 DEF CutInv, PlanInv, ToldRight

LEMMA CutKeeps ==
    ASSUME BeforeReveal, IsFiniteSet(Teams), IsFiniteSet(Users), CutInv, [CutNext]_cutVars
    PROVE  CutInv'
<1>1. PlanInv /\ ToldRight
  BY DEF CutInv
<1>2. CASE DraftStep
  <2>1. Next /\ UNCHANGED reviewVars
    BY <1>2 DEF DraftStep
  <2>2. PlanInv'
    BY <1>1, <2>1, NextKeepsPlans
  <2>3. ToldRight'
    BY <1>1, <2>1 DEF reviewVars, ToldRight
  <2> QED BY <2>2, <2>3 DEF CutInv
<1>3. CASE ReviewCuts
  <2>1. PlanInv'
    BY <1>1, <1>3, PlanKeepsInv
  <2>2. PICK splits, joins, team, c : Reviews(splits, joins, team, c)
    BY <1>3, PlanApplied
  <2>3. reviewed' = Fingerprint'
    BY <2>2 DEF Reviews, ApplyCutReview
  <2>4. told' = ScoreArrangement(cutMode', TeamCount', PairCount', SingleCount')
    BY <1>1, <2>2, ToldIsCounted
  <2>5. SaidOf(Fingerprint)' = CutCount(TeamCount, PairCount, SingleCount)'
    BY <2>1, FingerprintSaysNext DEF FingerprintIsRight, PlanInv, BaseInv
  <2>6. ToldRight'
    BY <2>3, <2>4, <2>5 DEF ToldRight, CutCount
  <2> QED BY <2>1, <2>6 DEF CutInv
<1>4. CASE UNCHANGED cutVars
  <2>1. UNCHANGED vars /\ UNCHANGED reviewVars
    BY <1>4 DEF cutVars
  <2>2. PlanInv'
    BY <1>1, <2>1, NextKeepsPlans
  <2>3. ToldRight'
    BY <1>1, <2>1 DEF reviewVars, ToldRight
  <2> QED BY <2>2, <2>3 DEF CutInv
<1> QED BY <1>2, <1>3, <1>4 DEF CutNext

\* The planner's counts are numbers.
LEMMA CountIsNumber == ASSUME NEW count \in Nat, NEW p \in Int, NEW s \in Int PROVE CutCount(count, p, s) \in Int
<1>1. CASE cutMode = "none" \/ count < 2
  BY <1>1 DEF CutCount, ScoreArrangement
<1>2. CASE ~(cutMode = "none" \/ count < 2)
  <2>1. p % count \in Int /\ s % count \in Int
    BY <1>2
  <2> QED BY <1>2, <2>1 DEF CutCount, ScoreArrangement
<1> QED BY <1>1, <1>2

LEMMA PlannedAreNumbers ==
    ASSUME PlanInv, IsFiniteSet(Teams), IsFiniteSet(Users)
    PROVE  \A cut \in PlannedCuts : cut \in Int
<1>1. SUFFICES ASSUME NEW cut \in PlannedCuts PROVE cut \in Int
  OBVIOUS
<1>2. PairCount \in Nat /\ SingleCount \in Nat
  BY PoolUnits DEF PlanInv, PairCount, SingleCount
<1>3. TeamCount \in Nat
  BY MadeCount
<1>4. PICK count \in TeamCounts, k \in 0..(IF Duo THEN SingleCount \div 2 ELSE 0),
           m \in 0..(IF Duo /\ cutMode # "pairs_only" THEN PairCount ELSE 0) :
        \E pool \in PoolsAt(count, PairCount + k - m, SingleCount - 2 * k + 2 * m) : cut = CutCount(count, pool[1], pool[2])
  BY <1>1 DEF PlannedCuts
<1> DEFINE p == PairCount + k - m
           s == SingleCount - 2 * k + 2 * m
<1>5. k \in Int /\ m \in Int
  OBVIOUS
<1>6. p \in Int /\ s \in Int
  BY <1>2, <1>5
<1>7. count \in Nat
  BY <1>3 DEF TeamCounts
<1>8. PICK pool \in PoolsAt(count, p, s) : cut = CutCount(count, pool[1], pool[2])
  BY <1>4
<1>9. pool[1] \in Int /\ pool[2] \in Int
  <2> HIDE DEF p, s
  <2>1. CASE count > TeamCount
    <3>1. pool \in WithTeamAdded(p, s)
      BY <1>8, <2>1 DEF PoolsAt
    <3>2. pool = <<p - 1, s>> \/ pool = <<p, s - 1>>
      BY <3>1 DEF WithTeamAdded
    <3> QED BY <1>6, <3>2
  <2>2. CASE count < TeamCount
    <3>1. ~(count > TeamCount)
      BY <1>3, <1>7, <2>2
    <3>2. PICK t \in Made : pool = WithTeamRemoved(t, p, s)
      BY <1>8, <2>2, <3>1 DEF PoolsAt
    <3>3. LeadsOf(t) \in SUBSET Users
      BY DEF LeadsOf, PlanInv, BaseInv, TypeOK, Members
    <3>4. Cardinality(LeadsOf(t)) \in Nat
      BY <3>3, FS_Subset, FS_CardinalityType
    <3>5. pool = <<p + 1, s>> \/ pool = <<p, s + Cardinality(LeadsOf(t))>>
      BY <3>2 DEF WithTeamRemoved
    <3> QED BY <1>6, <3>4, <3>5
  <2>3. CASE ~(count > TeamCount) /\ ~(count < TeamCount)
    <3>1. pool = <<p, s>>
      BY <1>8, <2>3 DEF PoolsAt
    <3> QED BY <1>6, <3>1
  <2> QED BY <2>1, <2>2, <2>3
<1> QED BY <1>7, <1>8, <1>9, CountIsNumber

LEMMA IntoTheDraft ==
    ASSUME IsFiniteSet(Teams), IsFiniteSet(Users), CutInv, [CutNext]_cutVars, stage # "draft", stage' = "draft", picks = {}
    PROVE  \/ reviewed # None /\ told = Cardinality(CutPlayers)
           \/ \A cut \in PlannedCuts : Cardinality(CutPlayers) <= cut
<1>1. PlanInv /\ ToldRight
  BY DEF CutInv
<1>2. ReviewSatisfied
  <2>1. CASE DraftStep
    BY <2>1 DEF DraftStep
  <2>2. ~ReviewCuts
    <3>1. ReviewCuts => stage' = stage
      <4>1. ASSUME ReviewCuts PROVE stage' = stage
        BY <1>1, <4>1, PlanApplied, PlanPairs
      <4> QED BY <4>1
    <3> QED BY <3>1
  <2>3. ~UNCHANGED cutVars
    BY DEF cutVars, vars, rvars, rosterVars
  <2> QED BY <2>1, <2>2, <2>3 DEF CutNext
<1>3. Cardinality(CutPlayers) \in Nat /\ Cardinality(CutPlayers) = CutCount(TeamCount, PairCount, SingleCount)
  BY <1>1, CutsAreCounted DEF PlanInv
<1>4. CASE reviewed = Fingerprint
  <2>1. Fingerprint \in [units : SUBSET SUBSET Users, mode : CutModes, teams : Nat]
    <3>1. Pool \subseteq Users
      BY <1>1, PoolFinite DEF PlanInv, BaseInv
    <3>2. PairUnits \cup SingleUnits \in SUBSET SUBSET Users
      BY <3>1 DEF PairUnits, SingleUnits
    <3>3. TeamCount \in Nat /\ cutMode \in CutModes
      BY <1>1, MadeCount DEF PlanInv
    <3> QED BY <3>2, <3>3 DEF Fingerprint
  <2>2. reviewed # None
    BY <1>4, <2>1, ReviewAssumption
  <2>3. told = SaidOf(Fingerprint)
    BY <1>1, <1>4, <2>2 DEF ToldRight
  <2>4. SaidOf(Fingerprint) = CutCount(TeamCount, PairCount, SingleCount)
    BY <1>1, FingerprintSays DEF PlanInv, BaseInv
  <2> QED BY <1>3, <2>2, <2>3, <2>4
<1>5. CASE ~Avoidable
  <2>1. ASSUME NEW cut \in PlannedCuts PROVE Cardinality(CutPlayers) <= cut
    <3>1. ~(cut < Cardinality(CutPlayers))
      BY <1>3, <1>5 DEF Avoidable
    <3>2. cut \in Int
      BY <1>1, PlannedAreNumbers
    <3> QED BY <1>3, <3>1, <3>2
  <2> QED BY <2>1
<1> QED BY <1>2, <1>4, <1>5 DEF ReviewSatisfied

\* assertCutReviewSatisfied: whoever is cut when the Bingo moves into the Draft, there are as many of them as the applied
\* review said, or no plan leaves fewer. A Bingo that has not been moved to Board revealed, with finitely many members.
THEOREM CutsReviewed == ASSUME BeforeReveal, IsFiniteSet(Teams), IsFiniteSet(Users) PROVE CutSpec => CutsAsReviewed
<1>1. CutInit => CutInv
  BY CutInitially
<1>2. CutInv /\ [CutNext]_cutVars => CutInv'
  BY CutKeeps
<1>3. CutInv /\ [CutNext]_cutVars =>
        [stage # "draft" /\ stage' = "draft" /\ picks = {} =>
            \/ reviewed # None /\ told = Cardinality(CutPlayers)
            \/ \A cut \in PlannedCuts : Cardinality(CutPlayers) <= cut]_cutVars
  BY IntoTheDraft
<1> QED BY <1>1, <1>2, <1>3, PTL DEF CutSpec, CutsAsReviewed

=============================================================================
