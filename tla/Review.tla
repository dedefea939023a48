------------------------------- MODULE Review -------------------------------
(***************************************************************************)
(* Submissions of a Bingo from the upload to the score: a Player's POST,   *)
(* whose screenshot is still uploading after the Bingo row was read; a     *)
(* Moderator's review (approveSubmission, rejectSubmission) and edit from  *)
(* a form that may be out of date (editSubmission); a Publish; and the     *)
(* score stored for each Team, rebuilt by whatever can change it.          *)
(*                                                                         *)
(* The clock counts seconds, which is what the database keeps. The Freeze  *)
(* Period, the credit, the notes and the Drop value are left out; so are   *)
(* an edit's warnings, which a Moderator can save over.                    *)
(***************************************************************************)
EXTENDS Engine

CONSTANTS
    Teams,
    SubIds,         \* submissions.id
    Uploaders,      \* requests that may be uploading a screenshot at once
    Boards,         \* the boards a Publish can put up
    LayoutOf(_),    \* each one as a record of Engine
    ClaimLists,     \* what a post or a form claims: sequences of [node, qty], no node twice
    ProofNodes,     \* what forms post a proof for
    MaxTime,        \* bound: the last second of the model
    MaxRows         \* bound: claims rows there are at once, and the last row's number

ASSUME BoundsAssumption == MaxTime \in Nat /\ MaxRows \in Nat

Times == 0..MaxTime
Layout == [b \in Boards |-> LayoutOf(b)]
AllNodes == UNION {Layout[b].nodes : b \in Boards}

ASSUME ClaimListsAssumption == \A list \in ClaimLists :
    /\ \A k \in DOMAIN list : list[k] \in [node : AllNodes, qty : Int]
    /\ \A j, k \in DOMAIN list : list[j].node = list[k].node => j = k
ASSUME ProofNodesAssumption == ProofNodes \subseteq AllNodes
ASSUME LayoutAssumption ==
    \A b \in Boards : IsBoard(Layout[b]) /\ Layout[b].tiles \cup Layout[b].needsProof \subseteq Layout[b].nodes

VARIABLES
    clock,
    open,           \* bingos.stage is live, and the Bingo has started
    board,          \* the Published board and its Exclusive Item rules
    subs,           \* submissions: each row, or None
    claims,         \* claims: a function from the rows there are, numbered as inserted
    scores,         \* teamNodeState: each Team's complete nodes
    uploads,        \* of each POST whose screenshot is uploading: what it posts, and the Bingo row it read; or None
    form            \* a Moderator's edit form, with what it shows and when it was opened; or None

Published == Layout[board]

vars == <<clock, open, board, subs, claims, scores, uploads, form>>

\* A proof has the Task or Tile it proves instead of Claims. A pending submission has no review, any other has one.
Submission ==
    [team : Teams, proof : AllNodes \cup {None}, status : {"pending"}, reviewedAt : {None}, updatedAt : Times]
    \cup [team : Teams, proof : AllNodes \cup {None}, status : {"approved", "rejected"}, reviewedAt : Times, updatedAt : Times]
Upload ==
    [team : Teams, list : ClaimLists, proof : {None}, open : BOOLEAN, board : Boards]
    \cup [team : Teams, list : {<<>>}, proof : AllNodes, open : BOOLEAN, board : Boards]
Contents ==
    [proof : AllNodes \cup {None}, status : {"pending", "approved", "rejected"}, claims : SUBSET [node : AllNodes, qty : Int]]
Form == [sub : SubIds, shown : Contents, updatedAt : Times, openedAt : Times]

ASSUME NoneAssumption == None \notin Nat \cup AllNodes \cup Submission \cup Upload \cup Form

ClaimsIn(cc, s) == {[node |-> cc[i].node, qty |-> cc[i].qty] : i \in {j \in DOMAIN cc : cc[j].sub = s}}
ClaimsOf(s) == ClaimsIn(claims, s)
Shown(s) == [proof |-> subs[s].proof, status |-> subs[s].status, claims |-> ClaimsOf(s)]

\* getApprovedClaims, of these tables: a Team's approved Claims, dated by their review, in the order of their rows.
ApprovedIn(ss, cc, t) ==
    [i \in {j \in DOMAIN cc : ss[cc[j].sub].team = t /\ ss[cc[j].sub].status = "approved"} |->
        [node |-> cc[i].node, qty |-> cc[i].qty, at |-> ss[cc[i].sub].reviewedAt]]
Approved(t) == ApprovedIn(subs, claims, t)

TypeOK ==
    /\ clock \in Times
    /\ open \in BOOLEAN
    /\ board \in Boards
    /\ subs \in [SubIds -> Submission \cup {None}]
    /\ \A i \in DOMAIN claims : claims[i] \in [sub : SubIds, node : AllNodes, qty : Int] /\ subs[claims[i].sub] # None
    /\ DOMAIN scores = Teams
    /\ uploads \in [Uploaders -> Upload \cup {None}]
    /\ form \in Form \cup {None}
    /\ form # None => subs[form.sub] # None

Init ==
    /\ clock = 0
    /\ open = TRUE
    /\ board \in Boards
    /\ subs = [s \in SubIds |-> None]
    /\ claims = [i \in {} |-> None]
    /\ scores = [t \in Teams |-> Score(Published, Approved(t))]
    /\ uploads = [u \in Uploaders |-> None]
    /\ form = None

-----------------------------------------------------------------------------
(* Posting. *)

\* Mutation: a pending Claim locks nothing.
LiveNodesApproved(t, except) ==
    {claims[i].node : i \in {j \in DOMAIN claims :
        subs[claims[j].sub].team = t /\ subs[claims[j].sub].status = "approved" /\ claims[j].sub # except}}

\* liveClaimNodeIds: what a Team has pending or approved, one submission left out.
LiveNodes(t, except) ==
    {claims[i].node : i \in {j \in DOMAIN claims :
        subs[claims[j].sub].team = t /\ subs[claims[j].sub].status # "rejected" /\ claims[j].sub # except}}

NodesOf(list) == {list[i].node : i \in DOMAIN list}

\* The leaves are on one Tile.
OnOneTile(nodes) == \E tile \in Published.tiles : nodes \subseteq Below(Published)[tile] \cap Leaves(Published)

\* The row after the last.
NextRow == Max({0} \cup DOMAIN claims) + 1

\* claims with these of a list inserted for a submission, in the list's order.
Insert(s, list, new) ==
    [i \in DOMAIN claims \cup {NextRow + k - 1 : k \in new} |->
        IF i \in DOMAIN claims THEN claims[i]
        ELSE LET k == CHOOSE k \in new : i = NextRow + k - 1 IN [sub |-> s, node |-> list[k].node, qty |-> list[k].qty]]

\* requireBingo reads the Bingo, its stage and Exclusive Item rules; then the screenshot is awaited.
PostBegins(u, t, list) ==
    /\ uploads[u] = None
    /\ uploads' = [uploads EXCEPT ![u] = [team |-> t, list |-> list, proof |-> None, open |-> open, board |-> board]]
    /\ UNCHANGED <<clock, open, board, subs, claims, scores, form>>

ProofPostBegins(u, t, node) ==
    /\ uploads[u] = None
    /\ uploads' = [uploads EXCEPT ![u] = [team |-> t, list |-> <<>>, proof |-> node, open |-> open, board |-> board]]
    /\ UNCHANGED <<clock, open, board, subs, claims, scores, form>>

\* createSubmission: the stage and rules as read, the board, the gates and the Team's Claims as they are now.
DropAccepted(post) ==
    LET nodes == NodesOf(post.list) IN
    /\ nodes # {}
    /\ OnOneTile(nodes)
    /\ \A n \in nodes : ~GateBlocked(Published, DOMAIN scores[post.team])[n]
    /\ Conflicts(Published, Layout[post.board].rules, LiveNodes(post.team, None), nodes) = {}

\* A Tile-wide requirement takes the proof of any of its Tasks.
ProofOf(node) ==
    LET wide == {t \in Published.tiles \cap Published.needsProof : node \in {t} \cup Published.children[t]} IN
    IF wide = {} THEN node ELSE CHOOSE t \in wide : TRUE

\* createProofSubmission: only where the board asks for one.
Accepted(post) ==
    post.open /\ IF post.proof = None THEN DropAccepted(post) ELSE ProofOf(post.proof) \in Published.needsProof

PostLands(u, s) ==
    LET post == uploads[u] IN
    /\ post # None
    /\ subs[s] = None
    /\ Accepted(post)
    /\ subs' = [subs EXCEPT ![s] = [team |-> post.team, proof |-> IF post.proof = None THEN None ELSE ProofOf(post.proof),
                                    status |-> "pending", reviewedAt |-> None, updatedAt |-> clock]]
    /\ claims' = Insert(s, post.list, DOMAIN post.list)
    /\ DOMAIN claims' \subseteq 1..MaxRows
    /\ uploads' = [uploads EXCEPT ![u] = None]
    /\ UNCHANGED <<clock, open, board, scores, form>>

PostRefused(u) ==
    /\ uploads[u] # None
    /\ ~Accepted(uploads[u])
    /\ uploads' = [uploads EXCEPT ![u] = None]
    /\ UNCHANGED <<clock, open, board, subs, claims, scores, form>>

-----------------------------------------------------------------------------
(* Reviewing. *)

\* Stores what a Team's approved Claims score, as the transaction has left them.
Rescore(t) ==
    \E approved \in {ApprovedIn(subs', claims', t)} : scores' = [scores EXCEPT ![t] = Score(Published, approved)]

\* Mutation: a review that leaves updatedAt alone.
ReviewedSameUpdate(s, status) == [subs[s] EXCEPT !.status = status, !.reviewedAt = clock]

Reviewed(s, status) == [subs[s] EXCEPT !.status = status, !.reviewedAt = clock, !.updatedAt = clock]

Approve(s) ==
    /\ subs[s] # None
    /\ subs[s].status = "pending"
    /\ subs' = [subs EXCEPT ![s] = Reviewed(s, "approved")]
    /\ UNCHANGED <<clock, open, board, claims, uploads, form>>
    /\ Rescore(subs[s].team)

Reject(s) ==
    /\ subs[s] # None
    /\ subs[s].status = "pending"
    /\ subs' = [subs EXCEPT ![s] = Reviewed(s, "rejected")]
    /\ UNCHANGED <<clock, open, board, claims, scores, uploads, form>>

-----------------------------------------------------------------------------
(* Editing. *)

OpenForm(s) ==
    /\ form = None
    /\ subs[s] # None
    /\ form' = [sub |-> s, shown |-> Shown(s), updatedAt |-> subs[s].updatedAt, openedAt |-> clock]
    /\ UNCHANGED <<clock, open, board, subs, claims, scores, uploads>>

CloseForm ==
    /\ form # None
    /\ form' = None
    /\ UNCHANGED <<clock, open, board, subs, claims, scores, uploads>>

\* readClaims: quantities are 1 or more, a leaf it already claims may have left the board since, anything new is on it,
\* and all on one Tile.
ListReadable(s, list) ==
    /\ list # <<>>
    /\ \A k \in DOMAIN list : list[k].qty >= 1
    /\ LET kept == {c.node : c \in ClaimsOf(s)} IN
       OnOneTile({n \in NodesOf(list) : n \notin kept \/ n \in Published.nodes})

\* readProof: a Tile of the board or one of its Tasks.
ProofReadable(node) == node \in Published.tiles \cup UNION {Published.children[t] : t \in Published.tiles}

\* applyClaims: a leaf claimed before keeps its row, the others are inserted, and what is no longer claimed goes.
WithClaims(s, list) ==
    LET kept == {c.node : c \in ClaimsOf(s)}
        inserted == Insert(s, list, {k \in DOMAIN list : list[k].node \notin kept})
        stays(c) == c.sub # s \/ c.node \in NodesOf(list)
    IN [i \in {j \in DOMAIN inserted : stays(inserted[j])} |->
           IF inserted[i].sub # s THEN inserted[i]
           ELSE [inserted[i] EXCEPT !.qty = list[CHOOSE k \in DOMAIN list : list[k].node = inserted[i].node].qty]]

Edited(s, proof, status) ==
    [subs[s] EXCEPT !.proof = proof, !.status = status, !.updatedAt = clock,
                    !.reviewedAt = IF status = "pending" THEN None
                                   ELSE IF status = subs[s].status THEN subs[s].reviewedAt ELSE clock]

\* Mutation: only a change of status re-scores.
RescoresOnStatus(s, status) == {subs[s].status, status} \cap {"approved"} # {} /\ status # subs[s].status

\* What an edit re-scores for: it counted before or counts now, and its status or its Claims changed.
Rescores(s, status) ==
    /\ "approved" \in {subs[s].status, status}
    /\ status # subs[s].status \/ ClaimsIn(claims', s) # ClaimsOf(s)

\* The form names a Task or Tile for a proof (what the proof was for already stays as it was) or a list of Claims. The
\* credit, the notes and the submitted time may be edited besides: only an edit of nothing at all leaves the row alone.
SaveEdit(list, node, status) ==
    LET s == form.sub
        proof == IF node \in {None, subs[s].proof} THEN node ELSE ProofOf(node)
    IN
    /\ form # None
    /\ form.updatedAt = subs[s].updatedAt
    /\ IF node = None THEN ListReadable(s, list) ELSE list = <<>> /\ ProofReadable(node)
    /\ claims' = WithClaims(s, list)
    /\ DOMAIN claims' \subseteq 1..MaxRows
    /\ \/ subs' = [subs EXCEPT ![s] = Edited(s, proof, status)]
       \/ subs[s].proof = proof /\ subs[s].status = status /\ ClaimsIn(claims', s) = ClaimsOf(s) /\ subs' = subs
    /\ IF Rescores(s, status) THEN Rescore(subs[s].team) ELSE scores' = scores
    /\ form' = None
    /\ UNCHANGED <<clock, open, board, uploads>>

-----------------------------------------------------------------------------
(* The Bingo around them. *)

\* Every Team is scored again, on the board being put up.
RescoreAll(b) ==
    \E approved \in {[t \in Teams |-> Approved(t)]} : scores' = [t \in Teams |-> Score(Layout[b], approved[t])]

\* publishDraft, as BoardDraft has it: a claimed node in both boards asks for the same, and a node proved stays.
Publish(b) ==
    LET next == Layout[b] IN
    /\ b # board
    /\ \A i \in DOMAIN claims : LET n == claims[i].node IN
           n \in next.nodes \cap Published.nodes => next.kind[n] = Published.kind[n] /\ next.item[n] = Published.item[n]
    /\ \A s \in SubIds : subs[s] # None /\ subs[s].proof # None => subs[s].proof \in next.nodes
    /\ board' = b
    /\ RescoreAll(b)
    /\ UNCHANGED <<clock, open, subs, claims, uploads, form>>

\* A stage change by an Admin, at any time.
ChangeStage ==
    /\ open' = ~open
    /\ UNCHANGED <<clock, board, subs, claims, scores, uploads, form>>

Tick ==
    /\ clock < MaxTime
    /\ clock' = clock + 1
    /\ UNCHANGED <<open, board, subs, claims, scores, uploads, form>>

Next ==
    \/ \E u \in Uploaders, t \in Teams : \E list \in ClaimLists : PostBegins(u, t, list)
    \/ \E u \in Uploaders, t \in Teams : \E n \in ProofNodes : ProofPostBegins(u, t, n)
    \/ \E u \in Uploaders, s \in SubIds : PostLands(u, s)
    \/ \E u \in Uploaders : PostRefused(u)
    \/ \E s \in SubIds : Approve(s) \/ Reject(s) \/ OpenForm(s)
    \/ CloseForm
    \/ \E list \in ClaimLists \cup {<<>>}, node \in ProofNodes \cup {None},
          status \in {"pending", "approved", "rejected"} : SaveEdit(list, node, status)
    \/ \E b \in Boards : Publish(b)
    \/ ChangeStage
    \/ Tick

Spec == Init /\ [][Next]_vars

-----------------------------------------------------------------------------
(* Properties. *)

\* What is stored for every Team is what its approved Claims score on the board as it is: no review, edit or Publish
\* leaves teamNodeState behind.
ScoresCurrent == \A t \in Teams : scores[t] = Score(Published, Approved(t))

OnePlace ==
    \A t \in Teams : \A n, m \in LiveNodes(t, None) : ~Clash(Published, Published.rules, n, m)

\* CONTEXT.md "Exclusive Item": a pending or approved Claim locks the Item, a rejection frees it. Posts and reviews by
\* themselves, in whatever order, never let a Team use an Item in two places; only a Publish, a post that read the
\* rules before one, and an edit saved over the warning do.
PostsKeepOnePlace ==
    [][subs' # subs /\ board' = board /\ form' = form /\ (\A u \in Uploaders : uploads[u] # None => Layout[uploads[u].board].rules = Published.rules)
        => (OnePlace => OnePlace')]_vars

\* An approval in a later second than any other review, of no Claim below 0, costs a Team nothing: every node it had
\* completed stays, no later and with its points or more, the Exclusive Items it breaks included. When none of the
\* Team's Claims is below 1 it stays at its time too: a Claim of nothing does not date what a later one completes.
ApprovalsOnlyAdd ==
    [][\A s \in SubIds :
        LET t == subs[s].team
            real == \A c \in ClaimsOf(s) \cup {Approved(t)[i] : i \in DOMAIN Approved(t)} : c.qty >= 1
        IN
        Approve(s) /\ (\A i \in DOMAIN Approved(t) : Approved(t)[i].at < clock) /\ (\A c \in ClaimsOf(s) : c.qty >= 0) =>
            \A n \in DOMAIN scores[t] :
                /\ n \in DOMAIN scores'[t]
                /\ scores'[t][n].at <= scores[t][n].at /\ scores'[t][n].points >= scores[t][n].points
                /\ real => scores'[t][n].at = scores[t][n].at]_vars

\* editSubmission refuses a form that is out of date: an edit can undo what the form did not show only when the form was
\* opened in the second of the change before it.
StaleEditOnlySameSecond ==
    [][form # None /\ form' = None /\ subs' # subs /\ form.shown # Shown(form.sub) => form.openedAt = form.updatedAt]_vars
=============================================================================
