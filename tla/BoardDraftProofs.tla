--------------------------- MODULE BoardDraftProofs ---------------------------
(***************************************************************************)
(* What BoardDraft keeps for every board, number of Admins and number of   *)
(* edits. Inv is inductive: a Publish leaves the boards as the publishing  *)
(* screen shows them because a screen of the draft's own revision shows    *)
(* what the boards are now, and no revision is minted twice; and Claims    *)
(* keep a row to point at because a node is only deleted while unclaimed.  *)
(***************************************************************************)
EXTENDS BoardDraft, TLAPS

\* Every Claim has a row of the nodes table to point at.
ClaimsHaveRows == \A c \in claims : rows[c[1]] # None

\* No revision is ahead of those minted.
RevisionsMinted ==
    /\ draft # None => draft.revision <= revisions
    /\ \A a \in Admins : screens[a] # None => screens[a].revision <= revisions

\* A Publish screen of the draft's revision shows both boards as they are.
ScreensCurrent ==
    \A a \in Admins :
        draft # None /\ screens[a] # None /\ screens[a].revision = draft.revision
            => screens[a].from = Published /\ screens[a].to = draft.board

Inv == TypeOK /\ ClaimsHaveRows /\ RevisionsMinted /\ ScreensCurrent

LEMMA PublishedIsBoard == TypeOK => Published \in Boards
<1> SUFFICES ASSUME TypeOK, NEW n \in Nodes PROVE OnBoard(n) => rows[n].meaning \in Meanings
  BY DEF Published, Boards, TypeOK
<1> QED
  BY DEF TypeOK, OnBoard, Rows

\* What depends on the board alone stays while its rows do.
LEMMA PublishedStays == UNCHANGED <<rows, rest>> => Published' = Published /\ \A n \in Nodes : OnBoard(n)' = OnBoard(n)
BY DEF Published, OnBoard

\* applyDraft writes a row, or none: it deletes only a node nothing claims, and changes no claimed node's row that it
\* takes off the board.
LEMMA AppliedRow ==
    ASSUME TypeOK, ClaimsHaveRows, NEW n \in Nodes, NEW meaning \in Meanings \cup {None}
    PROVE  /\ Applied(n, meaning) \in Rows \cup {None}
           /\ Claimed(n) => Applied(n, meaning) # None
           /\ meaning # None => Applied(n, meaning) = [meaning |-> meaning, removed |-> FALSE]
           /\ meaning = None /\ rows[n] # None /\ Applied(n, meaning) # None
                => Applied(n, meaning).meaning = rows[n].meaning
           /\ meaning = None /\ Applied(n, meaning) # None => Applied(n, meaning).removed
<1>1. rows[n] \in Rows \cup {None}
  BY DEF TypeOK
<1>2. \A m \in Meanings : [meaning |-> m, removed |-> FALSE] \in Rows
  BY DEF Rows
<1>3. CASE meaning # None
  BY <1>2, <1>3, NoneAssumption DEF Applied
<1>4. CASE meaning = None /\ ~OnBoard(n)
  <2>1. Applied(n, meaning) = rows[n]
    BY <1>4 DEF Applied
  <2>2. Claimed(n) => rows[n] # None
    BY DEF Claimed, ClaimsHaveRows
  <2>3. rows[n] # None => rows[n].removed
    BY <1>4 DEF OnBoard
  <2>4. QED
    BY <1>1, <1>4, <2>1, <2>2, <2>3
<1>5. CASE meaning = None /\ OnBoard(n) /\ Claimed(n)
  <2>1. Applied(n, meaning) = [rows[n] EXCEPT !.removed = TRUE]
    BY <1>5 DEF Applied
  <2>2. rows[n] \in Rows
    BY <1>1, <1>5 DEF OnBoard
  <2>3. Applied(n, meaning) \in Rows /\ Applied(n, meaning).meaning = rows[n].meaning /\ Applied(n, meaning).removed
    BY <2>1, <2>2 DEF Rows
  <2>4. Applied(n, meaning) # None
    BY <2>3, NoneAssumption
  <2>5. QED
    BY <1>5, <2>3, <2>4
<1>6. CASE meaning = None /\ OnBoard(n) /\ ~Claimed(n)
  <2>1. Applied(n, meaning) = None
    BY <1>6 DEF Applied
  <2>2. QED
    BY <1>6, <2>1
<1>7. QED
  BY <1>3, <1>4, <1>5, <1>6

\* A Publish leaves the Published board exactly the draft's.
LEMMA PublishApplies ==
    ASSUME Inv, NEW a \in Admins, Publish(a)
    PROVE  Published' = draft.board /\ \A n \in Nodes : OnBoard(n)' <=> draft.board.at[n] # None
<1>1. draft.board \in Boards
  BY DEF Publish, Inv, TypeOK, Drafts
<1>2. ASSUME NEW n \in Nodes PROVE rows'[n] = Applied(n, draft.board.at[n]) /\ draft.board.at[n] \in Meanings \cup {None}
  BY <1>1 DEF Publish, Boards
<1>3. ASSUME NEW n \in Nodes
      PROVE  /\ OnBoard(n)' <=> draft.board.at[n] # None
             /\ draft.board.at[n] # None => rows'[n].meaning = draft.board.at[n]
  <2>1. CASE draft.board.at[n] # None
    <3>1. rows'[n] = [meaning |-> draft.board.at[n], removed |-> FALSE]
      BY <1>2, <2>1, AppliedRow DEF Inv
    <3>2. rows'[n] \in Rows
      BY <1>2, <2>1, <3>1 DEF Rows
    <3>3. rows'[n] # None
      BY <3>2, NoneAssumption
    <3>4. QED
      BY <2>1, <3>1, <3>3 DEF OnBoard
  <2>2. CASE draft.board.at[n] = None
    <3>1. rows'[n] = None \/ rows'[n].removed
      BY <1>2, <2>2, AppliedRow DEF Inv
    <3>2. QED
      BY <2>2, <3>1 DEF OnBoard
  <2>3. QED
    BY <2>1, <2>2
<1>4. [n \in Nodes |-> IF OnBoard(n)' THEN rows'[n].meaning ELSE None] = draft.board.at
  <2>1. draft.board.at = [n \in Nodes |-> draft.board.at[n]]
    BY <1>1 DEF Boards
  <2>2. \A n \in Nodes : (IF OnBoard(n)' THEN rows'[n].meaning ELSE None) = draft.board.at[n]
    BY <1>3
  <2>3. QED
    BY <2>1, <2>2
<1>5. draft.board = [at |-> draft.board.at, rest |-> draft.board.rest]
  BY <1>1 DEF Boards
<1>6. rest' = draft.board.rest
  BY DEF Publish
<1>7. QED
  BY <1>3, <1>4, <1>5, <1>6 DEF Published
-----------------------------------------------------------------------------
(* The inductive invariant. *)

\* Players' Submissions leave both boards, the draft and the screens alone.
LEMMA PlayersKeepInv ==
    ASSUME Inv, UNCHANGED <<rows, rest, draft, revisions, screens>>,
           claims' \subseteq Nodes \X Meanings, proofs' \subseteq Nodes, \A c \in claims' : rows[c[1]] # None
    PROVE  Inv'
<1>1. TypeOK'
  BY DEF Inv, TypeOK
<1>2. ClaimsHaveRows'
  BY DEF ClaimsHaveRows
<1>3. RevisionsMinted'
  BY DEF Inv, RevisionsMinted
<1>4. ScreensCurrent'
  BY PublishedStays DEF Inv, ScreensCurrent
<1>5. QED
  BY <1>1, <1>2, <1>3, <1>4 DEF Inv

LEMMA EditKeepsInv ==
    ASSUME Inv, NEW board \in Boards, EditDraft(board)
    PROVE  Inv'
<1>1. revisions' = revisions + 1 /\ revisions \in Nat
  BY DEF EditDraft, Inv, TypeOK
<1>2. draft' # None => draft' = [board |-> board, revision |-> revisions + 1]
  BY DEF EditDraft, NextRevision
<1>3. draft' \in Drafts \cup {None}
  BY <1>1, <1>2 DEF Drafts
<1>4. TypeOK'
  BY <1>1, <1>3 DEF EditDraft, Inv, TypeOK
<1>5. ClaimsHaveRows'
  BY DEF EditDraft, Inv, ClaimsHaveRows
<1>6. \A a \in Admins : screens'[a] # None => screens'[a].revision \in Nat /\ screens'[a].revision < revisions'
  <2> SUFFICES ASSUME NEW a \in Admins, screens[a] # None PROVE screens[a].revision \in Nat /\ screens[a].revision <= revisions
    BY <1>1 DEF EditDraft
  <2>1. screens[a] \in Screens
    BY DEF Inv, TypeOK
  <2>2. QED
    BY <2>1 DEF Inv, RevisionsMinted, Screens
<1>7. RevisionsMinted'
  BY <1>1, <1>2, <1>6 DEF RevisionsMinted
\* The revision is one no open screen shows.
<1>8. ScreensCurrent'
  BY <1>1, <1>2, <1>6 DEF ScreensCurrent
<1>9. QED
  BY <1>4, <1>5, <1>7, <1>8 DEF Inv

LEMMA OpenScreenKeepsInv ==
    ASSUME Inv, NEW a \in Admins, OpenScreen(a)
    PROVE  Inv'
<1> DEFINE screen == [from |-> Published, to |-> draft.board, revision |-> draft.revision]
<1>1. draft \in Drafts
  BY DEF OpenScreen, Inv, TypeOK
<1>2. screen \in Screens
  BY <1>1, PublishedIsBoard DEF Inv, Screens, Drafts
<1>3. screens' \in [Admins -> Screens \cup {None}]
  BY <1>2 DEF OpenScreen, Inv, TypeOK
<1>4. screens'[a] = screen /\ \A b \in Admins \ {a} : screens'[b] = screens[b]
  BY DEF OpenScreen, Inv, TypeOK
<1>5. TypeOK'
  BY <1>3 DEF OpenScreen, Inv, TypeOK
<1>6. ClaimsHaveRows'
  BY DEF OpenScreen, Inv, ClaimsHaveRows
<1>7. RevisionsMinted'
  BY <1>4 DEF OpenScreen, Inv, RevisionsMinted
<1>8. ScreensCurrent'
  <2>1. Published' = Published /\ draft' = draft
    BY PublishedStays DEF OpenScreen
  <2>2. QED
    BY <1>4, <2>1 DEF Inv, ScreensCurrent
<1>9. QED
  BY <1>5, <1>6, <1>7, <1>8 DEF Inv

LEMMA PublishKeepsInv ==
    ASSUME Inv, NEW a \in Admins, Publish(a)
    PROVE  Inv'
<1>1. draft.board \in Boards
  BY DEF Publish, Inv, TypeOK, Drafts
<1>2. ASSUME NEW n \in Nodes
      PROVE  rows'[n] = Applied(n, draft.board.at[n]) /\ rows'[n] \in Rows \cup {None} /\ (Claimed(n) => rows'[n] # None)
  <2>1. rows'[n] = Applied(n, draft.board.at[n]) /\ draft.board.at[n] \in Meanings \cup {None}
    BY <1>1 DEF Publish, Boards
  <2>2. QED
    BY <2>1, AppliedRow DEF Inv
<1>3. rows' \in [Nodes -> Rows \cup {None}]
  BY <1>2 DEF Publish
<1>4. screens' \in [Admins -> Screens \cup {None}] /\ \A b \in Admins : screens'[b] \in {screens[b], None}
  BY DEF Publish, Inv, TypeOK
<1>5. TypeOK'
  BY <1>1, <1>3, <1>4 DEF Publish, Inv, TypeOK, Boards
<1>6. ClaimsHaveRows'
  <2> SUFFICES ASSUME NEW c \in claims PROVE rows'[c[1]] # None
    BY DEF Publish, ClaimsHaveRows
  <2>1. c[1] \in Nodes /\ Claimed(c[1])
    BY DEF Inv, TypeOK, Claimed
  <2>2. QED
    BY <1>2, <2>1
<1>7. RevisionsMinted'
  BY <1>4 DEF Publish, Inv, RevisionsMinted
<1>8. ScreensCurrent'
  BY DEF Publish, ScreensCurrent
<1>9. QED
  BY <1>5, <1>6, <1>7, <1>8 DEF Inv

LEMMA NextKeepsInv == Inv /\ [Next]_vars => Inv'
<1> SUFFICES ASSUME Inv, [Next]_vars PROVE Inv'
  OBVIOUS
<1>1. ASSUME NEW n \in Nodes, Claim(n) PROVE Inv'
  <2>1. rows[n] # None
    BY <1>1 DEF Claim, OnBoard, Claimed, Inv, ClaimsHaveRows
  <2>2. rows[n].meaning \in Meanings
    BY <2>1 DEF Inv, TypeOK, Rows
  <2>3. claims' \subseteq Nodes \X Meanings /\ proofs' \subseteq Nodes
    BY <1>1, <2>2 DEF Claim, Inv, TypeOK
  <2>4. \A c \in claims' : rows[c[1]] # None
    BY <1>1, <2>1 DEF Claim, Inv, ClaimsHaveRows
  <2>5. QED
    BY <1>1, <2>3, <2>4, PlayersKeepInv DEF Claim
<1>2. ASSUME NEW n \in Nodes, Prove(n) PROVE Inv'
  BY <1>2, PlayersKeepInv DEF Prove, Inv, TypeOK, ClaimsHaveRows
<1>3. ASSUME NEW c \in claims, DropClaim(c) PROVE Inv'
  BY <1>3, PlayersKeepInv DEF DropClaim, Inv, TypeOK, ClaimsHaveRows
<1>4. ASSUME NEW n \in proofs, DropProof(n) PROVE Inv'
  BY <1>4, PlayersKeepInv DEF DropProof, Inv, TypeOK, ClaimsHaveRows
<1>5. ASSUME NEW board \in Boards, EditDraft(board) PROVE Inv'
  BY <1>5, EditKeepsInv
<1>6. CASE Discard
  BY <1>6 DEF Discard, Inv, TypeOK, ClaimsHaveRows, RevisionsMinted, ScreensCurrent
<1>7. ASSUME NEW a \in Admins, OpenScreen(a) PROVE Inv'
  BY <1>7, OpenScreenKeepsInv
<1>8. ASSUME NEW a \in Admins, Publish(a) PROVE Inv'
  BY <1>8, PublishKeepsInv
<1>9. CASE UNCHANGED vars
  BY <1>9, PlayersKeepInv DEF vars, Inv, TypeOK, ClaimsHaveRows
<1>10. QED
  BY <1>1, <1>2, <1>3, <1>4, <1>5, <1>6, <1>7, <1>8, <1>9 DEF Next, EditTiles, EditTasks, EditRest

LEMMA InitInv == Init => Inv
<1> SUFFICES ASSUME Init PROVE Inv
  OBVIOUS
<1>1. rows \in [Nodes -> Rows \cup {None}]
  BY DEF Init, Rows
<1>2. \A a \in Admins : screens[a] = None
  BY DEF Init
<1>3. TypeOK
  BY <1>1 DEF Init, TypeOK
<1>4. QED
  BY <1>2, <1>3 DEF Init, Inv, ClaimsHaveRows, RevisionsMinted, ScreensCurrent

\* Every variable keeps its type, for all boards and any number of Admins and edits.
THEOREM Typing == Spec => []TypeOK
<1>1. Inv => TypeOK
  BY DEF Inv
<1>2. QED
  BY <1>1, InitInv, NextKeepsInv, PTL DEF Spec

-----------------------------------------------------------------------------
(* Drafts and Proofs. *)

\* A draft is never level with the Published board: a draft exists exactly while there is something to publish.
THEOREM DraftHasChanges == Spec => []DraftDiffers
<1>1. Init => DraftDiffers
  BY DEF Init, DraftDiffers
<1>2. DraftDiffers /\ [Next]_vars => DraftDiffers'
  <2> SUFFICES ASSUME DraftDiffers, [Next]_vars PROVE DraftDiffers'
    OBVIOUS
  <2>1. CASE UNCHANGED <<rows, rest, draft>>
    BY <2>1, PublishedStays DEF DraftDiffers
  <2>2. ASSUME NEW board \in Boards, EditDraft(board) PROVE DraftDiffers'
    BY <2>2, PublishedStays DEF EditDraft, SameAsPublished, DraftDiffers
  <2>3. CASE draft' = None
    BY <2>3 DEF DraftDiffers
  <2>4. QED
    BY <2>1, <2>2, <2>3 DEF Next, Claim, Prove, DropClaim, DropProof, EditTiles, EditTasks, EditRest, Discard, OpenScreen, Publish, vars
<1>3. QED
  BY <1>1, <1>2, PTL DEF Spec

\* Whatever is posted after an edit, no Publish takes a Task a Proof was posted for off the board.
THEOREM ProofsKept == Spec => []ProofsStayOnBoard
<1>1. Init => ProofsStayOnBoard
  BY DEF Init, ProofsStayOnBoard
<1>2. Inv /\ ProofsStayOnBoard /\ [Next]_vars => ProofsStayOnBoard'
  <2> SUFFICES ASSUME Inv, ProofsStayOnBoard, [Next]_vars PROVE ProofsStayOnBoard'
    OBVIOUS
  <2>1. CASE UNCHANGED rows /\ proofs' \subseteq proofs
    BY <2>1 DEF ProofsStayOnBoard, OnBoard
  <2>2. ASSUME NEW n \in Nodes, Prove(n) PROVE ProofsStayOnBoard'
    BY <2>2 DEF Prove, ProofsStayOnBoard, OnBoard
  <2>3. ASSUME NEW a \in Admins, Publish(a) PROVE ProofsStayOnBoard'
    <3> SUFFICES ASSUME NEW n \in proofs PROVE OnBoard(n)'
      BY <2>3 DEF Publish, ProofsStayOnBoard
    <3>1. n \in Nodes /\ OnBoard(n)
      BY DEF Inv, TypeOK, ProofsStayOnBoard
    <3>2. Published.at[n] # None
      <4>1. rows[n] \in Rows
        BY <3>1 DEF Inv, TypeOK, OnBoard
      <4>2. QED
        BY <3>1, <4>1, NoneAssumption DEF Published, Rows
    <3>3. draft.board.at[n] # None
      BY <2>3, <3>1, <3>2 DEF Publish, Publishable, KeepsProofs
    <3>4. QED
      BY <2>3, <3>1, <3>3, PublishApplies
  <2>4. QED
    BY <2>1, <2>2, <2>3 DEF Next, Claim, DropClaim, DropProof, EditTiles, EditTasks, EditRest, EditDraft, Discard, OpenScreen, vars
<1>3. QED
  BY <1>1, <1>2, InitInv, NextKeepsInv, PTL DEF Spec

-----------------------------------------------------------------------------
(* Publishing. *)

\* The Published board only ever changes from the board to the board that the publishing Admin's screen shows.
THEOREM PublishesPreview == Spec => PublishedIsPreviewed
<1>1. Inv /\ [Next]_vars =>
        (Published' # Published =>
            \E a \in Admins :
                /\ screens[a] # None /\ screens'[a] = None
                /\ screens[a].from = Published /\ screens[a].to = Published')
  <2> SUFFICES ASSUME Inv, [Next]_vars, Published' # Published
               PROVE  \E a \in Admins :
                          /\ screens[a] # None /\ screens'[a] = None
                          /\ screens[a].from = Published /\ screens[a].to = Published'
    OBVIOUS
  <2>1. ~UNCHANGED <<rows, rest>>
    BY PublishedStays
  <2>2. PICK a \in Admins : Publish(a)
    BY <2>1 DEF Next, Claim, Prove, DropClaim, DropProof, EditTiles, EditTasks, EditRest, EditDraft, Discard, OpenScreen, vars
  <2>3. screens[a] # None /\ screens'[a] = None
    BY <2>2 DEF Publish, Inv, TypeOK
  <2>4. screens[a].from = Published /\ screens[a].to = draft.board
    BY <2>2 DEF Publish, Inv, ScreensCurrent
  <2>5. QED
    BY <2>2, <2>3, <2>4, PublishApplies
<1>2. QED
  BY <1>1, InitInv, NextKeepsInv, PTL DEF Spec, PublishedIsPreviewed

\* A claimed node's row outlives every Publish, asking for what it asked for as long as it is on the board.
THEOREM ClaimsKeepRows == Spec => ClaimedRowsKept
<1>1. Inv /\ [Next]_vars =>
        \A c \in claims \cap claims' :
            /\ rows'[c[1]] # None
            /\ ~rows[c[1]].removed => rows'[c[1]].meaning = rows[c[1]].meaning
  <2> SUFFICES ASSUME Inv, [Next]_vars, NEW c \in claims \cap claims'
               PROVE  /\ rows'[c[1]] # None
                      /\ ~rows[c[1]].removed => rows'[c[1]].meaning = rows[c[1]].meaning
    OBVIOUS
  <2> DEFINE n == c[1]
  <2>1. n \in Nodes /\ Claimed(n) /\ rows[n] # None /\ rows[n] \in Rows
    BY DEF Inv, TypeOK, ClaimsHaveRows, Claimed
  <2> HIDE DEF n
  <2>2. CASE UNCHANGED rows
    BY <2>1, <2>2 DEF n
  <2>3. ASSUME NEW a \in Admins, Publish(a)
        PROVE rows'[n] # None /\ (~rows[n].removed => rows'[n].meaning = rows[n].meaning)
    <3>1. draft.board \in Boards
      BY <2>3 DEF Publish, Inv, TypeOK, Drafts
    <3>2. rows'[n] = Applied(n, draft.board.at[n]) /\ draft.board.at[n] \in Meanings \cup {None}
      BY <2>1, <2>3, <3>1 DEF Publish, Boards
    <3>3. rows'[n] # None
      BY <2>1, <3>2, AppliedRow DEF Inv
    <3>4. CASE draft.board.at[n] = None
      BY <2>1, <3>2, <3>3, <3>4, AppliedRow DEF Inv
    <3>5. CASE draft.board.at[n] # None /\ ~rows[n].removed
      <4>1. Published.at[n] = rows[n].meaning /\ rows[n].meaning # None
        BY <2>1, <3>5, NoneAssumption DEF Published, OnBoard, Rows
      <4>2. Published.at[n] = draft.board.at[n]
        BY <2>1, <2>3, <3>5, <4>1 DEF Publish, Publishable, KeepsMeaning
      <4>3. rows'[n].meaning = draft.board.at[n]
        BY <2>1, <3>2, <3>5, AppliedRow DEF Inv
      <4>4. QED
        BY <3>3, <4>1, <4>2, <4>3
    <3>6. QED
      BY <3>3, <3>4, <3>5
  <2>4. QED
    BY <2>2, <2>3 DEF Next, Claim, Prove, DropClaim, DropProof, EditTiles, EditTasks, EditRest, EditDraft, Discard, OpenScreen, vars, n
<1>2. QED
  BY <1>1, InitInv, NextKeepsInv, PTL DEF Spec, ClaimedRowsKept
=============================================================================
