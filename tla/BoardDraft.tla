------------------------------ MODULE BoardDraft ------------------------------
(***************************************************************************)
(* The two copies of a Bingo's Board (boardDraftService): Admins edit the  *)
(* Draft board, and an open Publish screen applies it to the Published     *)
(* board, while Players claim Items and post Proof screenshots on the      *)
(* board they see. Every request is one transaction, so requests           *)
(* interleave whole; what is stale is what a screen shows.                 *)
(*                                                                         *)
(* A board is what each node of it asks for, and the rest of its rows      *)
(* (points, labels, Tiles, Lines, tags, Exclusive Item rules) as one value *)
(* that every edit may change. Tiles, whose root is a node, are not kept   *)
(* apart. Edits and publishes are refused once the Bingo is Finished, in   *)
(* the same synchronous step: an Admin who asks for nothing stands for it. *)
(***************************************************************************)
EXTENDS Naturals, FiniteSets

CONSTANTS
    Nodes,          \* node ids, which both copies share
    Meanings,       \* what a node can ask for: its kind and its item
    Extras,         \* the rest of a board
    Admins,
    None,           \* no row, no draft, no screen
    MaxRevisions    \* bound: how many revisions of the draft are minted

ASSUME BoundsAssumption == MaxRevisions \in Nat

Boards == [at : [Nodes -> Meanings \cup {None}], rest : Extras]
Drafts == [board : Boards, revision : Nat]
Screens == [from : Boards, to : Boards, revision : Nat]
Rows == [meaning : Meanings, removed : BOOLEAN]

ASSUME NoneAssumption == None \notin Meanings \cup Drafts \cup Screens \cup Rows

VARIABLES
    rows,           \* the nodes table: a node a Publish took off the board keeps its row while claimed (removedAt)
    rest,           \* the rest of the Published board
    draft,          \* the draft_* tables and the boardDrafts row, or None
    revisions,      \* how many revisions have been minted
    screens,        \* each Admin's open Publish screen: the change it shows, and its revision
    claims,         \* claims rows: the node, and the item as it was claimed
    proofs          \* the nodes Proof screenshots were posted for

vars == <<rows, rest, draft, revisions, screens, claims, proofs>>

TypeOK ==
    /\ rows \in [Nodes -> Rows \cup {None}]
    /\ rest \in Extras
    /\ draft \in Drafts \cup {None}
    /\ revisions \in Nat
    /\ screens \in [Admins -> Screens \cup {None}]
    /\ claims \subseteq Nodes \X Meanings
    /\ proofs \subseteq Nodes

\* loadRows of the Published board: the nodes not removed, and the rest.
OnBoard(n) == rows[n] # None /\ ~rows[n].removed
Published == [at |-> [n \in Nodes |-> IF OnBoard(n) THEN rows[n].meaning ELSE None], rest |-> rest]

Claimed(n) == \E c \in claims : c[1] = n

Init ==
    /\ rows \in [Nodes -> [meaning : Meanings, removed : {FALSE}] \cup {None}]
    /\ rest \in Extras
    /\ draft = None
    /\ revisions = 0
    /\ screens = [a \in Admins |-> None]
    /\ claims = {}
    /\ proofs = {}

-----------------------------------------------------------------------------
(* Players: a Submission claims and proves what is on the Published board. *)
(* An edit of one may take its claim or its Task back, or keep one it has  *)
(* on a node that left the board since, at the item that node's row names. *)

Claim(n) ==
    /\ OnBoard(n) \/ Claimed(n)
    /\ claims' = claims \cup {<<n, rows[n].meaning>>}
    /\ UNCHANGED <<rows, rest, draft, revisions, screens, proofs>>

DropClaim(c) ==
    /\ claims' = claims \ {c}
    /\ UNCHANGED <<rows, rest, draft, revisions, screens, proofs>>

Prove(n) ==
    /\ OnBoard(n)
    /\ proofs' = proofs \cup {n}
    /\ UNCHANGED <<rows, rest, draft, revisions, screens, claims>>

DropProof(n) ==
    /\ proofs' = proofs \ {n}
    /\ UNCHANGED <<rows, rest, draft, revisions, screens, claims>>

-----------------------------------------------------------------------------
(* Editing. *)

\* What an edit starts from: ensureDraft copies the Published board when there is no draft.
Editing == IF draft = None THEN Published ELSE draft.board

\* assertClaimedNodeKeepsMeaning: a node in both boards that asks for something else is not claimed.
KeepsMeaning(from, to) ==
    \A n \in Nodes : from.at[n] # None /\ to.at[n] # None /\ from.at[n] # to.at[n] => ~Claimed(n)

\* assertNoProofsFor: a node the change takes off has no Proof posted for it.
KeepsProofs(from, to) == \A n \in Nodes : from.at[n] # None /\ to.at[n] = None => n \notin proofs

\* sameBoard of the edited copy and the Published board.
SameAsPublished(board) == board = Published

\* Mutation: an edit that leaves the revision of an existing draft alone.
NextRevisionOfNew == IF draft = None THEN revisions + 1 ELSE draft.revision

\* settleDraft mints a new one with every edit.
NextRevision == revisions + 1

\* One admin edit that leaves the copy as `board`. (One that finds nothing to change leaves the draft as it was.)
EditDraft(board) ==
    /\ revisions < MaxRevisions
    /\ KeepsMeaning(Editing, board)
    /\ KeepsProofs(Editing, board)
    /\ draft' = IF SameAsPublished(board) THEN None ELSE [board |-> board, revision |-> NextRevision]
    /\ revisions' = revisions + 1
    /\ UNCHANGED <<rows, rest, screens, claims, proofs>>

\* A Tile made, changed or deleted: nodes come and go with it, those that stay ask for what they did.
EditTiles(board) ==
    /\ \A n \in Nodes : None \in {Editing.at[n], board.at[n]} \/ Editing.at[n] = board.at[n]
    /\ EditDraft(board)

\* A Task made, changed or deleted, and with it what the nodes of its tree ask for.
EditTasks(board) ==
    /\ board.at # Editing.at
    /\ EditDraft(board)

\* Lines made, changed or deleted, whose nodes nobody claims; and likewise Categories, points, an order, the rules.
EditRest(board) ==
    /\ board.at = Editing.at
    /\ EditDraft(board)

Discard ==
    /\ draft # None
    /\ draft' = None
    /\ UNCHANGED <<rows, rest, revisions, screens, claims, proofs>>

-----------------------------------------------------------------------------
(* Publishing. *)

OpenScreen(a) ==
    /\ draft # None
    /\ screens' = [screens EXCEPT ![a] = [from |-> Published, to |-> draft.board, revision |-> draft.revision]]
    /\ UNCHANGED <<rows, rest, draft, revisions, claims, proofs>>

\* Mutations: what teams posted since the edit is not looked at again.
PublishableDespiteClaims == KeepsProofs(Published, draft.board)
PublishableDespiteProofs == KeepsMeaning(Published, draft.board)

\* assertPublishable: the edits were checked against what teams had posted by then, so all of it is checked again.
Publishable == KeepsProofs(Published, draft.board) /\ KeepsMeaning(Published, draft.board)

\* applyDraft on one node: a removed node keeps its row while it is claimed, and is back when the draft names its id.
Applied(n, meaning) ==
    IF meaning # None THEN [meaning |-> meaning, removed |-> FALSE]
    ELSE CASE ~OnBoard(n) -> rows[n]
           [] OnBoard(n) /\ Claimed(n) -> [rows[n] EXCEPT !.removed = TRUE]
           [] OTHER -> None

Publish(a) ==
    /\ draft # None
    /\ screens[a] # None
    /\ screens[a].revision = draft.revision
    /\ Publishable
    /\ rows' = [n \in Nodes |-> Applied(n, draft.board.at[n])]
    /\ rest' = draft.board.rest
    /\ draft' = None
    /\ screens' = [screens EXCEPT ![a] = None]
    /\ UNCHANGED <<revisions, claims, proofs>>

Next ==
    \/ \E n \in Nodes : Claim(n) \/ Prove(n)
    \/ \E c \in claims : DropClaim(c)
    \/ \E n \in proofs : DropProof(n)
    \/ \E board \in Boards : EditTiles(board) \/ EditTasks(board) \/ EditRest(board)
    \/ Discard
    \/ \E a \in Admins : OpenScreen(a) \/ Publish(a)

Spec == Init /\ [][Next]_vars

-----------------------------------------------------------------------------
(* Safety. *)

\* boardDraftService: "a draft exists exactly while there's something to publish". Nothing may level the two boards
\* behind the draft's back, and no edit that undoes another leaves an empty draft.
DraftDiffers == draft # None => draft.board # Published

\* publishDraft: "what's published is exactly what was previewed". However edits, discards and other Admins' publishes
\* come in between, the Published board only ever changes from the board to the board that the publishing Admin's
\* screen shows.
PublishedIsPreviewed ==
    [][Published' # Published =>
        \E a \in Admins :
            /\ screens[a] # None /\ screens'[a] = None
            /\ screens[a].from = Published /\ screens[a].to = Published']_vars

\* A Proof screenshot names its Task, "so a Task one was posted for stays on the board": also when it is posted after
\* the draft took the Task off.
ProofsStayOnBoard == \A n \in proofs : OnBoard(n)

\* Publishing keeps what Claims point at: the row of a claimed node never goes, and while it stays on the board or goes
\* off it, it asks for what it did, Claims made after the draft was edited included.
ClaimedRowsKept ==
    [][\A c \in claims \cap claims' :
        /\ rows'[c[1]] # None
        /\ ~rows[c[1]].removed => rows'[c[1]].meaning = rows[c[1]].meaning]_vars

-----------------------------------------------------------------------------
(* What a comment says and the code does not keep. *)

\* graphService.assertClaimedNodeKeepsMeaning: an edit that keeps a claimed node's id but changes what it asks for
\* "would quietly count teams' old proof toward the new requirement".
ClaimMeansItsNode == \A c \in claims : OnBoard(c[1]) => rows[c[1]].meaning = c[2]
=============================================================================
