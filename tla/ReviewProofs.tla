---------------------------- MODULE ReviewProofs ----------------------------
(***************************************************************************)
(* What Review and the engine keep for any number of Teams, submissions,   *)
(* boards and requests.                                                    *)
(*                                                                         *)
(* The stored score is current because every action either leaves the      *)
(* approved Claims of a Team as they are, row by row, or scores that Team  *)
(* again. An edit whose Claims read the same re-scores nothing, which is   *)
(* right only because no submission claims a node twice (NodesOnce).       *)
(*                                                                         *)
(* The engine computes by recursion over the board (when a node was        *)
(* completed, what a gate blocks) and over the reviews (which Claims on an *)
(* Exclusive Item count). BottomUp gives each recursion a function: the    *)
(* largest part of the board it is known on could be larger, as no nodes   *)
(* are all under each other. Two such functions are the same: of the nodes *)
(* they differ on, one has no child among them.                            *)
(*                                                                         *)
(* A node is completed by t exactly when it is complete with the reviews   *)
(* made by t (DoneBy). That needs totals that never fall again, or t after *)
(* every review (Settled): a Claim below 1 is accepted in a POST. So what  *)
(* is reviewed later changes neither what counts (CountedStays) nor, with  *)
(* no Claim below 1, when (CompletedStays); and a later Claim that does    *)
(* not subtract leaves what was complete so, no later (CompletedKept): an  *)
(* approval takes nothing away.                                            *)
(***************************************************************************)
EXTENDS MCReview, SequenceTheorems, FiniteSetTheorems, WellFoundedInduction, TLAPS

\* No submission has two rows for one node.
NodesOnce ==
    \A i, j \in DOMAIN claims : claims[i].sub = claims[j].sub /\ claims[i].node = claims[j].node => i = j

Inv == TypeOK /\ NodesOnce /\ ScoresCurrent

-----------------------------------------------------------------------------
(* The rows an insert and an edit leave. *)

LEMMA InsertedRows ==
    ASSUME NEW s, NEW list, NEW new
    PROVE  /\ DOMAIN claims \subseteq DOMAIN Insert(s, list, new)
           /\ \A i \in DOMAIN claims : Insert(s, list, new)[i] = claims[i]
           /\ \A i \in DOMAIN Insert(s, list, new) \ DOMAIN claims : \E k \in new :
                 /\ i = NextRow + k - 1
                 /\ Insert(s, list, new)[i] = [sub |-> s, node |-> list[k].node, qty |-> list[k].qty]
<1> DEFINE ins == Insert(s, list, new)
<1>1. DOMAIN ins = DOMAIN claims \cup {NextRow + k - 1 : k \in new}
  BY DEF Insert
<1>2. \A i \in DOMAIN claims : ins[i] = claims[i]
  BY DEF Insert
<1>3. ASSUME NEW i \in DOMAIN ins \ DOMAIN claims
      PROVE  \E k \in new : i = NextRow + k - 1 /\ ins[i] = [sub |-> s, node |-> list[k].node, qty |-> list[k].qty]
  <2> DEFINE k == CHOOSE k \in new : i = NextRow + k - 1
  <2>1. \E j \in new : i = NextRow + j - 1
    BY <1>1, <1>3
  <2>2. k \in new /\ i = NextRow + k - 1
    BY <2>1
  <2>3. ins[i] = [sub |-> s, node |-> list[k].node, qty |-> list[k].qty]
    BY <1>1, <1>3 DEF Insert
  <2>4. QED
    BY <2>2, <2>3
<1>4. QED
  BY <1>1, <1>2, <1>3

\* An edit keeps every other submission's rows, keeps those of its own that it still claims, with what it now claims of
\* them, and adds rows for what it did not claim.
LEMMA EditedRows ==
    ASSUME NEW s, NEW list \in ClaimLists \cup {<<>>}
    PROVE  LET after == WithClaims(s, list) IN
           /\ \A i \in DOMAIN claims : claims[i].sub # s => i \in DOMAIN after /\ after[i] = claims[i]
           /\ \A i \in DOMAIN after :
                 \/ i \in DOMAIN claims /\ claims[i].sub # s /\ after[i] = claims[i]
                 \/ /\ i \in DOMAIN claims /\ claims[i].sub = s
                    /\ \E k \in DOMAIN list :
                           list[k].node = claims[i].node /\ after[i] = [claims[i] EXCEPT !.qty = list[k].qty]
                 \/ /\ i \notin DOMAIN claims
                    /\ \E k \in DOMAIN list :
                           /\ list[k].node \notin {c.node : c \in ClaimsOf(s)}
                           /\ i = NextRow + k - 1
                           /\ after[i] = [sub |-> s, node |-> list[k].node, qty |-> list[k].qty]
           /\ \A i \in DOMAIN claims : claims[i].sub = s /\ claims[i].node \in NodesOf(list) => i \in DOMAIN after
<1> DEFINE after == WithClaims(s, list)
           new == {k \in DOMAIN list : list[k].node \notin {c.node : c \in ClaimsOf(s)}}
           ins == Insert(s, list, new)
           stays(c) == c.sub # s \/ c.node \in NodesOf(list)
           at(i) == CHOOSE k \in DOMAIN list : list[k].node = ins[i].node
<1>1. /\ DOMAIN after = {i \in DOMAIN ins : stays(ins[i])}
      /\ \A i \in DOMAIN after :
             after[i] = IF ins[i].sub # s THEN ins[i] ELSE [ins[i] EXCEPT !.qty = list[at(i)].qty]
  BY DEF WithClaims
<1> HIDE DEF new
<1>2. /\ DOMAIN claims \subseteq DOMAIN ins
      /\ \A i \in DOMAIN claims : ins[i] = claims[i]
      /\ \A i \in DOMAIN ins \ DOMAIN claims : \E k \in new :
             i = NextRow + k - 1 /\ ins[i] = [sub |-> s, node |-> list[k].node, qty |-> list[k].qty]
  BY InsertedRows
<1> HIDE DEF after, ins
<1> USE DEF new
<1>3. ASSUME NEW i \in DOMAIN claims, claims[i].sub # s
      PROVE  i \in DOMAIN after /\ after[i] = claims[i]
  BY <1>1, <1>2, <1>3
<1>4. ASSUME NEW i \in DOMAIN claims, claims[i].sub = s, claims[i].node \in NodesOf(list)
      PROVE  i \in DOMAIN after
  BY <1>1, <1>2, <1>4
<1>5. ASSUME NEW i \in DOMAIN after, i \in DOMAIN claims, claims[i].sub = s
      PROVE  \E k \in DOMAIN list :
                 list[k].node = claims[i].node /\ after[i] = [claims[i] EXCEPT !.qty = list[k].qty]
  <2>1. ins[i] = claims[i]
    BY <1>2, <1>5
  <2>2. claims[i].node \in NodesOf(list)
    BY <1>1, <1>5, <2>1
  <2>3. \E k \in DOMAIN list : list[k].node = ins[i].node
    BY <2>1, <2>2 DEF NodesOf
  <2>4. at(i) \in DOMAIN list /\ list[at(i)].node = ins[i].node
    BY <2>3
  <2>5. QED
    BY <1>1, <1>5, <2>1, <2>4
<1>6. ASSUME NEW i \in DOMAIN after, i \notin DOMAIN claims
      PROVE  \E k \in new : i = NextRow + k - 1 /\ after[i] = [sub |-> s, node |-> list[k].node, qty |-> list[k].qty]
  <2>1. i \in DOMAIN ins
    BY <1>1
  <2>2. PICK k \in new : i = NextRow + k - 1 /\ ins[i] = [sub |-> s, node |-> list[k].node, qty |-> list[k].qty]
    BY <1>2, <1>6, <2>1
  <2>3. at(i) \in DOMAIN list /\ list[at(i)].node = list[k].node
    BY <2>2
  <2>4. at(i) = k
    BY <2>2, <2>3, ClaimListsAssumption
  <2>5. after[i] = [sub |-> s, node |-> list[k].node, qty |-> list[k].qty]
    BY <1>1, <2>2, <2>4
  <2>6. QED
    BY <2>2, <2>5
<1>7. QED
  BY <1>3, <1>4, <1>5, <1>6 DEF after

-----------------------------------------------------------------------------
(* Typing. *)

LEMMA ReviewedTyped ==
    ASSUME TypeOK, NEW s \in SubIds, subs[s] # None, NEW status \in {"approved", "rejected"}
    PROVE  /\ Reviewed(s, status) \in Submission
           /\ Reviewed(s, status).team = subs[s].team
           /\ Reviewed(s, status).status = status
           /\ Reviewed(s, status).proof = subs[s].proof
           /\ Reviewed(s, status).reviewedAt = clock
           /\ Reviewed(s, status).updatedAt = clock
<1>1. subs[s] \in Submission /\ clock \in Times
  BY DEF TypeOK
<1>2. QED
  BY <1>1 DEF Reviewed, Submission

LEMMA EditedTyped ==
    ASSUME TypeOK, NEW s \in SubIds, subs[s] # None, NEW proof \in AllNodes \cup {None},
           NEW status \in {"pending", "approved", "rejected"}
    PROVE  /\ Edited(s, proof, status) \in Submission
           /\ Edited(s, proof, status).team = subs[s].team
           /\ Edited(s, proof, status).status = status
           /\ Edited(s, proof, status).proof = proof
           /\ Edited(s, proof, status).updatedAt = clock
           /\ status = subs[s].status => Edited(s, proof, status).reviewedAt = subs[s].reviewedAt
<1>1. subs[s] \in Submission /\ clock \in Times
  BY DEF TypeOK
<1>2. CASE status = "pending"
  BY <1>1, <1>2 DEF Edited, Submission
<1>3. CASE status # "pending" /\ status = subs[s].status
  BY <1>1, <1>3 DEF Edited, Submission
<1>4. CASE status # "pending" /\ status # subs[s].status
  BY <1>1, <1>4 DEF Edited, Submission
<1>5. QED
  BY <1>2, <1>3, <1>4

\* What an edit's proof is for is on some board.
LEMMA ProofTyped ==
    ASSUME TypeOK, NEW node \in AllNodes
    PROVE  ProofOf(node) \in AllNodes
<1>1. \A t \in Published.tiles : t \in AllNodes
  BY LayoutAssumption DEF TypeOK, Published, AllNodes
<1>2. QED
  BY <1>1 DEF ProofOf

\* Posting writes a pending submission where there was none, and rows of its own after those there are.
LEMMA Posted ==
    ASSUME TypeOK, NEW u \in Uploaders, NEW s \in SubIds, PostLands(u, s)
    PROVE  /\ \A r \in SubIds : r # s => subs'[r] = subs[r]
           /\ subs'[s] \in Submission /\ subs'[s].status = "pending" /\ subs'[s].team = uploads[u].team
           /\ subs'[s] # None
           /\ \A i \in DOMAIN claims : i \in DOMAIN claims' /\ claims'[i] = claims[i] /\ claims[i].sub # s
           /\ \A i \in DOMAIN claims' \ DOMAIN claims : \E k \in DOMAIN uploads[u].list :
                 /\ i = NextRow + k - 1
                 /\ claims'[i] = [sub |-> s, node |-> uploads[u].list[k].node, qty |-> uploads[u].list[k].qty]
<1> DEFINE post == uploads[u]
           row == [team |-> post.team, proof |-> IF post.proof = None THEN None ELSE ProofOf(post.proof),
                   status |-> "pending", reviewedAt |-> None, updatedAt |-> clock]
<1>1. post \in Upload
  BY DEF TypeOK, PostLands
<1>2. post.proof # None => ProofOf(post.proof) \in AllNodes
  BY <1>1, ProofTyped DEF Upload
<1>3. clock \in Times
  BY DEF TypeOK
<1>4. row \in Submission /\ row.status = "pending" /\ row.team = post.team
  BY <1>1, <1>2, <1>3 DEF Submission, Upload
<1>5. subs' = [subs EXCEPT ![s] = row]
  BY DEF PostLands
<1>6. subs'[s] = row /\ \A r \in SubIds : r # s => subs'[r] = subs[r]
  BY <1>5 DEF TypeOK
<1>7. row # None
  BY <1>4, NoneAssumption
<1>8. claims' = Insert(s, post.list, DOMAIN post.list)
  BY DEF PostLands
<1>9. \A i \in DOMAIN claims : claims[i].sub # s
  BY DEF TypeOK, PostLands
<1> HIDE DEF row
<1>10. DOMAIN claims \subseteq DOMAIN claims' /\ \A i \in DOMAIN claims : claims'[i] = claims[i]
  BY <1>8, InsertedRows
<1>11. \A i \in DOMAIN claims' \ DOMAIN claims : \E k \in DOMAIN uploads[u].list :
           /\ i = NextRow + k - 1
           /\ claims'[i] = [sub |-> s, node |-> uploads[u].list[k].node, qty |-> uploads[u].list[k].qty]
  BY <1>8, InsertedRows
<1>12. QED
  BY <1>4, <1>6, <1>7, <1>9, <1>10, <1>11

\* An edit writes its own submission, which stays its Team's.
LEMMA Saved ==
    ASSUME TypeOK, NEW list \in ClaimLists \cup {<<>>}, NEW node \in ProofNodes \cup {None},
           NEW status \in {"pending", "approved", "rejected"}, SaveEdit(list, node, status)
    PROVE  /\ form # None /\ form.sub \in SubIds /\ subs[form.sub] \in Submission
           /\ \A r \in SubIds : r # form.sub => subs'[r] = subs[r]
           /\ subs'[form.sub] \in Submission /\ subs'[form.sub] # None
           /\ subs'[form.sub].team = subs[form.sub].team
           /\ subs'[form.sub].status = status
           /\ status = subs[form.sub].status => subs'[form.sub].reviewedAt = subs[form.sub].reviewedAt
           /\ subs' = subs \/ subs'[form.sub].updatedAt = clock
<1> DEFINE s == form.sub
           proof == IF node \in {None, subs[s].proof} THEN node ELSE ProofOf(node)
           row == Edited(s, proof, status)
<1>1. form # None /\ s \in SubIds /\ subs[s] # None /\ subs[s] \in Submission
  BY DEF TypeOK, SaveEdit, Form
<1>2. proof \in AllNodes \cup {None}
  BY ProofTyped, ProofNodesAssumption
<1>3. /\ row \in Submission /\ row.team = subs[s].team /\ row.status = status /\ row.updatedAt = clock
      /\ status = subs[s].status => row.reviewedAt = subs[s].reviewedAt
  BY <1>1, <1>2, EditedTyped
<1>4. row # None
  BY <1>3, NoneAssumption
<1>5. \/ subs' = [subs EXCEPT ![s] = row]
      \/ subs' = subs /\ subs[s].status = status
  BY DEF SaveEdit
<1> HIDE DEF row
<1>6. CASE subs' = [subs EXCEPT ![s] = row]
  <2>1. subs'[s] = row /\ \A r \in SubIds : r # s => subs'[r] = subs[r]
    BY <1>1, <1>6 DEF TypeOK
  <2>2. QED
    BY <1>1, <1>3, <1>4, <2>1
<1>7. CASE subs' = subs /\ subs[s].status = status
  BY <1>1, <1>7
<1>8. QED
  BY <1>5, <1>6, <1>7

LEMMA TypingStep == TypeOK /\ [Next]_vars => TypeOK'
<1> SUFFICES ASSUME TypeOK, [Next]_vars PROVE TypeOK'
  OBVIOUS
<1> USE DEF TypeOK
<1>1. ASSUME NEW u \in Uploaders, NEW t \in Teams, NEW list \in ClaimLists, PostBegins(u, t, list) PROVE TypeOK'
  <2>1. [team |-> t, list |-> list, proof |-> None, open |-> open, board |-> board] \in Upload
    BY DEF Upload
  <2>2. QED
    BY <1>1, <2>1 DEF PostBegins
<1>2. ASSUME NEW u \in Uploaders, NEW t \in Teams, NEW node \in ProofNodes, ProofPostBegins(u, t, node) PROVE TypeOK'
  <2>1. [team |-> t, list |-> <<>>, proof |-> node, open |-> open, board |-> board] \in Upload
    BY ProofNodesAssumption DEF Upload
  <2>2. QED
    BY <1>2, <2>1 DEF ProofPostBegins
<1>3. ASSUME NEW u \in Uploaders, NEW s \in SubIds, PostLands(u, s) PROVE TypeOK'
  <2>1. uploads[u] \in Upload /\ UNCHANGED <<clock, open, board, scores, form>>
    BY <1>3 DEF PostLands
  <2>2. uploads' \in [Uploaders -> Upload \cup {None}]
    BY <1>3 DEF PostLands
  <2>3. subs' \in [SubIds -> Submission \cup {None}] /\ \A r \in SubIds : subs[r] # None => subs'[r] # None
    <3>1. DOMAIN subs' = SubIds /\ subs' = [r \in DOMAIN subs' |-> subs'[r]]
      BY <1>3 DEF PostLands
    <3>2. \A r \in SubIds : subs'[r] \in Submission \cup {None}
      BY <1>3, Posted
    <3>3. \A r \in SubIds : subs[r] # None => subs'[r] # None
      BY <1>3, Posted
    <3>4. QED
      BY <3>1, <3>2, <3>3
  <2>4. ASSUME NEW i \in DOMAIN claims'
        PROVE  claims'[i] \in [sub : SubIds, node : AllNodes, qty : Int] /\ subs'[claims'[i].sub] # None
    <3>1. CASE i \in DOMAIN claims
      <4>1. claims'[i] = claims[i] /\ claims[i].sub \in SubIds
        BY <1>3, <3>1, Posted
      <4>2. QED
        BY <2>3, <3>1, <4>1
    <3>2. CASE i \notin DOMAIN claims
      <4>1. PICK k \in DOMAIN uploads[u].list :
                claims'[i] = [sub |-> s, node |-> uploads[u].list[k].node, qty |-> uploads[u].list[k].qty]
        BY <1>3, <2>4, <3>2, Posted
      <4>2. uploads[u].list[k] \in [node : AllNodes, qty : Int]
        <5>1. uploads[u].list \in ClaimLists
          BY <2>1, <4>1 DEF Upload
        <5>2. QED
          BY <4>1, <5>1, ClaimListsAssumption
      <4>3. subs'[s] # None
        BY <1>3, Posted
      <4>4. QED
        BY <4>1, <4>2, <4>3
    <3>3. QED
      BY <3>1, <3>2
  <2>5. form' # None => subs'[form'.sub] # None
    BY <2>1, <2>3 DEF Form
  <2>6. QED
    BY <2>1, <2>2, <2>3, <2>4, <2>5
<1>4. ASSUME NEW u \in Uploaders, PostRefused(u) PROVE TypeOK'
  BY <1>4 DEF PostRefused
<1>5. ASSUME NEW s \in SubIds, Approve(s) PROVE TypeOK'
  <2>1. Reviewed(s, "approved") \in Submission /\ Reviewed(s, "approved") # None
    BY <1>5, ReviewedTyped, NoneAssumption DEF Approve
  <2>2. /\ subs' \in [SubIds -> Submission \cup {None}]
        /\ \A r \in SubIds : subs[r] # None => subs'[r] # None
    BY <1>5, <2>1 DEF Approve
  <2>3. DOMAIN scores' = Teams /\ UNCHANGED <<clock, open, board, claims, uploads, form>>
    BY <1>5 DEF Approve, Rescore
  <2>4. QED
    BY <2>2, <2>3 DEF Form
<1>6. ASSUME NEW s \in SubIds, Reject(s) PROVE TypeOK'
  <2>1. Reviewed(s, "rejected") \in Submission /\ Reviewed(s, "rejected") # None
    BY <1>6, ReviewedTyped, NoneAssumption DEF Reject
  <2>2. /\ subs' \in [SubIds -> Submission \cup {None}]
        /\ \A r \in SubIds : subs[r] # None => subs'[r] # None
    BY <1>6, <2>1 DEF Reject
  <2>3. UNCHANGED <<clock, open, board, claims, scores, uploads, form>>
    BY <1>6 DEF Reject
  <2>4. QED
    BY <2>2, <2>3 DEF Form
<1>7. ASSUME NEW s \in SubIds, OpenForm(s) PROVE TypeOK'
  <2>1. subs[s] \in Submission
    BY <1>7 DEF OpenForm
  <2>2. ClaimsOf(s) \in SUBSET [node : AllNodes, qty : Int]
    BY DEF ClaimsOf, ClaimsIn
  <2>3. Shown(s) \in Contents
    BY <2>1, <2>2 DEF Shown, Contents, Submission
  <2>4. subs[s].updatedAt \in Times
    BY <2>1 DEF Submission
  <2>5. form' \in Form /\ form'.sub = s
    BY <1>7, <2>3, <2>4 DEF OpenForm, Form
  <2>6. QED
    BY <1>7, <2>5 DEF OpenForm
<1>8. CASE CloseForm
  BY <1>8 DEF CloseForm
<1>9. ASSUME NEW list \in ClaimLists \cup {<<>>}, NEW node \in ProofNodes \cup {None},
             NEW status \in {"pending", "approved", "rejected"}, SaveEdit(list, node, status)
      PROVE  TypeOK'
  <2> DEFINE s == form.sub
  <2>1. /\ s \in SubIds
        /\ \A r \in SubIds : r # s => subs'[r] = subs[r]
        /\ subs'[s] \in Submission /\ subs'[s] # None
    <3> HIDE DEF TypeOK
    <3>1. QED
      BY <1>9, Saved
  <2>2. form' = None /\ DOMAIN scores' = Teams /\ UNCHANGED <<clock, open, board, uploads>>
    BY <1>9 DEF SaveEdit, Rescore
  <2>3. subs' \in [SubIds -> Submission \cup {None}] /\ \A r \in SubIds : subs[r] # None => subs'[r] # None
    <3>1. DOMAIN subs' = SubIds /\ subs' = [r \in DOMAIN subs' |-> subs'[r]]
      BY <1>9 DEF SaveEdit
    <3>2. QED
      BY <2>1, <3>1
  <2>4. ASSUME NEW i \in DOMAIN claims'
        PROVE  claims'[i] \in [sub : SubIds, node : AllNodes, qty : Int] /\ subs'[claims'[i].sub] # None
    <3>1. claims' = WithClaims(s, list)
      BY <1>9 DEF SaveEdit
    <3>2. \A k \in DOMAIN list : list[k] \in [node : AllNodes, qty : Int]
      <4>1. list = <<>> => DOMAIN list = {}
        OBVIOUS
      <4>2. QED
        BY <4>1, ClaimListsAssumption
    <3>3. CASE i \in DOMAIN claims /\ claims'[i] = claims[i]
      BY <2>3, <3>3
    <3>4. CASE i \in DOMAIN claims /\ claims[i].sub = s /\ \E k \in DOMAIN list : claims'[i] = [claims[i] EXCEPT !.qty = list[k].qty]
      BY <2>1, <3>2, <3>4
    <3>5. CASE \E k \in DOMAIN list : claims'[i] = [sub |-> s, node |-> list[k].node, qty |-> list[k].qty]
      BY <2>1, <3>2, <3>5
    <3>6. QED
      BY <3>1, <3>3, <3>4, <3>5, EditedRows
  <2>5. QED
    BY <2>2, <2>3, <2>4
<1>10. ASSUME NEW b \in Boards, Publish(b) PROVE TypeOK'
  BY <1>10 DEF Publish, RescoreAll
<1>11. CASE ChangeStage
  BY <1>11 DEF ChangeStage
<1>12. CASE Tick
  BY <1>12, BoundsAssumption DEF Tick, Times
<1>13. CASE UNCHANGED vars
  BY <1>13 DEF vars
<1>14. QED
  BY <1>1, <1>2, <1>3, <1>4, <1>5, <1>6, <1>7, <1>8, <1>9, <1>10, <1>11, <1>12, <1>13 DEF Next

\* Every variable keeps its type: a pending submission has no review and any other has one, every row of claims is of a
\* submission there is, and so is an open form.
THEOREM Typing == Spec => []TypeOK
<1>1. Init => TypeOK
  BY BoundsAssumption DEF Init, TypeOK, Times
<1>2. TypeOK /\ [Next]_vars => TypeOK'
  BY TypingStep
<1>3. QED
  BY <1>1, <1>2, PTL DEF Spec

-----------------------------------------------------------------------------
(* No node twice. *)

LEMMA NodesOnceStep == TypeOK /\ NodesOnce /\ [Next]_vars => NodesOnce'
<1> SUFFICES ASSUME TypeOK, NodesOnce, [Next]_vars, NEW i \in DOMAIN claims', NEW j \in DOMAIN claims',
                    claims'[i].sub = claims'[j].sub, claims'[i].node = claims'[j].node
             PROVE  i = j
  BY DEF NodesOnce
<1>1. ASSUME NEW u \in Uploaders, NEW s \in SubIds, PostLands(u, s) PROVE i = j
  <2> DEFINE list == uploads[u].list
             isNew(h) == h \notin DOMAIN claims /\ \E k \in DOMAIN list :
                             h = NextRow + k - 1 /\ claims'[h] = [sub |-> s, node |-> list[k].node, qty |-> list[k].qty]
             isOld(h) == h \in DOMAIN claims /\ claims'[h] = claims[h] /\ claims[h].sub # s
  <2>1. \A h \in DOMAIN claims' : isNew(h) \/ isOld(h)
    BY <1>1, Posted
  <2>2. \A k, l \in DOMAIN list : list[k].node = list[l].node => k = l
    <3>1. list \in ClaimLists \/ list = <<>>
      BY <1>1 DEF PostLands, TypeOK, Upload
    <3>2. list = <<>> => DOMAIN list = {}
      OBVIOUS
    <3>3. QED
      BY <3>1, <3>2, ClaimListsAssumption
  <2>3. CASE isNew(i) /\ isNew(j)
    BY <2>2, <2>3
  <2>4. CASE isOld(i) /\ isOld(j)
    BY <2>4 DEF NodesOnce
  <2>5. QED
    BY <2>1, <2>3, <2>4
<1>2. ASSUME NEW list \in ClaimLists \cup {<<>>}, NEW node \in ProofNodes \cup {None},
             NEW status \in {"pending", "approved", "rejected"}, SaveEdit(list, node, status)
      PROVE  i = j
  <2> DEFINE s == form.sub
             isKept(h) == /\ h \in DOMAIN claims
                          /\ claims'[h].sub = claims[h].sub /\ claims'[h].node = claims[h].node
             isNew(h) == h \notin DOMAIN claims /\ \E k \in DOMAIN list :
                             /\ list[k].node \notin {c.node : c \in ClaimsOf(s)}
                             /\ h = NextRow + k - 1
                             /\ claims'[h] = [sub |-> s, node |-> list[k].node, qty |-> list[k].qty]
  <2>1. claims' = WithClaims(s, list)
    BY <1>2 DEF SaveEdit
  <2>2. \A h \in DOMAIN claims' : isKept(h) \/ isNew(h)
    <3> SUFFICES ASSUME NEW h \in DOMAIN claims' PROVE isKept(h) \/ isNew(h)
      OBVIOUS
    <3>1. CASE h \in DOMAIN claims /\ claims'[h] = claims[h]
      BY <3>1
    <3>2. CASE h \in DOMAIN claims /\ \E k \in DOMAIN list : claims'[h] = [claims[h] EXCEPT !.qty = list[k].qty]
      <4>1. claims[h] \in [sub : SubIds, node : AllNodes, qty : Int]
        BY <3>2 DEF TypeOK
      <4>2. QED
        BY <3>2, <4>1
    <3>3. CASE h \notin DOMAIN claims
      BY <2>1, <3>3, EditedRows
    <3>4. QED
      BY <2>1, <3>1, <3>2, <3>3, EditedRows
  <2>3. \A k, l \in DOMAIN list : list[k].node = list[l].node => k = l
    <3>1. list = <<>> => DOMAIN list = {}
      OBVIOUS
    <3>2. QED
      BY <3>1, ClaimListsAssumption
  <2>4. CASE isKept(i) /\ isKept(j)
    BY <2>4 DEF NodesOnce
  <2>5. CASE isNew(i) /\ isNew(j)
    BY <2>3, <2>5
  <2>6. ASSUME NEW g \in DOMAIN claims', NEW h \in DOMAIN claims', isKept(g), isNew(h), claims'[g].sub = claims'[h].sub
        PROVE  claims'[g].node # claims'[h].node
    <3>1. PICK k \in DOMAIN list :
              /\ list[k].node \notin {c.node : c \in ClaimsOf(s)}
              /\ claims'[h] = [sub |-> s, node |-> list[k].node, qty |-> list[k].qty]
      BY <2>6
    <3>2. claims[g].sub = s
      BY <2>6, <3>1
    <3>3. claims[g].node \in {c.node : c \in ClaimsOf(s)}
      <4>1. [node |-> claims[g].node, qty |-> claims[g].qty] \in ClaimsOf(s)
        BY <2>6, <3>2 DEF ClaimsOf, ClaimsIn
      <4>2. [node |-> claims[g].node, qty |-> claims[g].qty].node = claims[g].node
        OBVIOUS
      <4>3. QED
        BY <4>1, <4>2
    <3>4. QED
      BY <2>6, <3>1, <3>3
  <2>7. QED
    BY <2>2, <2>4, <2>5, <2>6
<1>3. CASE UNCHANGED claims
  BY <1>3 DEF NodesOnce
<1>4. QED
  BY <1>1, <1>2, <1>3 DEF Next, vars, PostBegins, ProofPostBegins, PostRefused, Approve, Reject, OpenForm, CloseForm, Publish,
     ChangeStage, Tick

-----------------------------------------------------------------------------
(* Scores. *)

\* A Team's approved Claims are the same when the same rows count and they say the same.
LEMMA SameApproved ==
    ASSUME NEW ss, NEW cc, NEW ss2, NEW cc2, NEW t,
           \A i : (i \in DOMAIN cc /\ ss[cc[i].sub].team = t /\ ss[cc[i].sub].status = "approved")
                 <=> (i \in DOMAIN cc2 /\ ss2[cc2[i].sub].team = t /\ ss2[cc2[i].sub].status = "approved"),
           \A i : i \in DOMAIN cc /\ ss[cc[i].sub].team = t /\ ss[cc[i].sub].status = "approved" =>
                 /\ cc[i].node = cc2[i].node /\ cc[i].qty = cc2[i].qty
                 /\ ss[cc[i].sub].reviewedAt = ss2[cc2[i].sub].reviewedAt
    PROVE  ApprovedIn(ss, cc, t) = ApprovedIn(ss2, cc2, t)
<1> DEFINE rows == {j \in DOMAIN cc : ss[cc[j].sub].team = t /\ ss[cc[j].sub].status = "approved"}
           rows2 == {j \in DOMAIN cc2 : ss2[cc2[j].sub].team = t /\ ss2[cc2[j].sub].status = "approved"}
<1>1. rows = rows2
  OBVIOUS
<1>2. \A i \in rows :
          [node |-> cc[i].node, qty |-> cc[i].qty, at |-> ss[cc[i].sub].reviewedAt]
        = [node |-> cc2[i].node, qty |-> cc2[i].qty, at |-> ss2[cc2[i].sub].reviewedAt]
  OBVIOUS
<1>3. QED
  BY <1>1, <1>2 DEF ApprovedIn

\* A change that leaves a Team's approved Claims and the board alone leaves its score current.
LEMMA StaysCurrent ==
    ASSUME ScoresCurrent, NEW t \in Teams, scores'[t] = scores[t], board' = board,
           ApprovedIn(subs, claims, t) = ApprovedIn(subs', claims', t)
    PROVE  scores'[t] = Score(Published', ApprovedIn(subs', claims', t))
<1>1. Published' = Published
  BY DEF Published
<1>2. scores[t] = Score(Published, ApprovedIn(subs, claims, t))
  BY DEF ScoresCurrent, Approved
<1>3. QED
  BY <1>1, <1>2

\* An edit leaves the Claims of the other Teams alone.
LEMMA SavedOthers ==
    ASSUME TypeOK, NEW list \in ClaimLists \cup {<<>>}, NEW node \in ProofNodes \cup {None},
           NEW status \in {"pending", "approved", "rejected"}, SaveEdit(list, node, status),
           NEW t \in Teams, t # subs[form.sub].team
    PROVE  ApprovedIn(subs, claims, t) = ApprovedIn(subs', claims', t)
<1> DEFINE s == form.sub
           counts(i) == i \in DOMAIN claims /\ subs[claims[i].sub].team = t /\ subs[claims[i].sub].status = "approved"
           countsNow(i) == i \in DOMAIN claims' /\ subs'[claims'[i].sub].team = t /\ subs'[claims'[i].sub].status = "approved"
<1>1. claims' = WithClaims(s, list)
  BY DEF SaveEdit
<1>2. /\ \A r \in SubIds : r # s => subs'[r] = subs[r]
      /\ subs'[s].team = subs[s].team /\ subs[s].team # t
  BY Saved
<1>3. \A i \in DOMAIN claims : claims[i].sub \in SubIds
  BY DEF TypeOK
<1>4. ASSUME NEW i, counts(i) PROVE countsNow(i) /\ claims'[i] = claims[i] /\ subs'[claims'[i].sub] = subs[claims[i].sub]
  <2>1. claims[i].sub # s
    BY <1>2, <1>4
  <2>2. i \in DOMAIN claims' /\ claims'[i] = claims[i]
    BY <1>1, <1>4, <2>1, EditedRows
  <2>3. QED
    BY <1>2, <1>3, <1>4, <2>1, <2>2
<1>5. ASSUME NEW i, countsNow(i) PROVE counts(i)
  <2>1. claims'[i].sub # s
    BY <1>2, <1>5
  <2>2. CASE i \in DOMAIN claims /\ claims'[i] = claims[i]
    BY <1>2, <1>3, <1>5, <2>1, <2>2
  <2>3. CASE i \in DOMAIN claims /\ claims[i].sub = s /\ \E k \in DOMAIN list : claims'[i] = [claims[i] EXCEPT !.qty = list[k].qty]
    <3>1. claims[i] \in [sub : SubIds, node : AllNodes, qty : Int]
      BY <2>3 DEF TypeOK
    <3>2. QED
      BY <2>1, <2>3, <3>1
  <2>4. CASE \E k \in DOMAIN list : claims'[i] = [sub |-> s, node |-> list[k].node, qty |-> list[k].qty]
    BY <2>1, <2>4
  <2>5. QED
    BY <1>1, <1>5, <2>2, <2>3, <2>4, EditedRows
<1>6. QED
  BY <1>4, <1>5, SameApproved

\* An edit of an approved submission that it still claims the same of leaves its rows as they were.
LEMMA SameRows ==
    ASSUME TypeOK, NodesOnce, NEW s \in SubIds, NEW list \in ClaimLists \cup {<<>>}, claims' = WithClaims(s, list),
           ClaimsIn(claims', s) = ClaimsOf(s)
    PROVE  DOMAIN claims' = DOMAIN claims /\ \A i \in DOMAIN claims : claims'[i] = claims[i]
<1>1. \A i \in DOMAIN claims : claims[i] \in [sub : SubIds, node : AllNodes, qty : Int]
  BY DEF TypeOK
<1>2. ASSUME NEW i \in DOMAIN claims', i \in DOMAIN claims PROVE claims'[i] = claims[i]
  <2>1. CASE claims[i].sub # s
    BY <1>2, <2>1, EditedRows
  <2>2. CASE claims[i].sub = s
    <3>1. PICK k \in DOMAIN list : list[k].node = claims[i].node /\ claims'[i] = [claims[i] EXCEPT !.qty = list[k].qty]
      BY <1>2, <2>2, EditedRows
    <3>2. claims'[i].sub = s /\ claims'[i].node = claims[i].node /\ claims'[i].qty = list[k].qty
      BY <1>1, <1>2, <2>2, <3>1
    <3>3. [node |-> claims'[i].node, qty |-> claims'[i].qty] \in ClaimsIn(claims', s)
      BY <3>2 DEF ClaimsIn
    <3>4. PICK j \in DOMAIN claims : claims[j].sub = s /\ claims[j].node = claims'[i].node /\ claims[j].qty = claims'[i].qty
      BY <3>3 DEF ClaimsOf, ClaimsIn
    <3>5. j = i
      BY <1>2, <2>2, <3>2, <3>4 DEF NodesOnce
    <3>6. claims[i].qty = list[k].qty
      BY <3>2, <3>4, <3>5
    <3>7. QED
      BY <1>1, <1>2, <3>1, <3>6
  <2>3. QED
    BY <2>1, <2>2
<1>3. ASSUME NEW i \in DOMAIN claims PROVE i \in DOMAIN claims'
  <2>1. CASE claims[i].sub # s
    BY <2>1, EditedRows
  <2>2. CASE claims[i].sub = s
    <3>1. [node |-> claims[i].node, qty |-> claims[i].qty] \in ClaimsIn(claims', s)
      BY <2>2 DEF ClaimsOf, ClaimsIn
    <3>2. PICK j \in DOMAIN claims' : claims'[j].sub = s /\ claims'[j].node = claims[i].node
      BY <3>1 DEF ClaimsIn
    <3>3. CASE j \in DOMAIN claims
      <4>1. claims'[j] = claims[j]
        BY <1>2, <3>3
      <4>2. j = i
        BY <2>2, <3>2, <3>3, <4>1 DEF NodesOnce
      <4>3. QED
        BY <4>2
    <3>4. CASE j \notin DOMAIN claims
      <4>1. PICK k \in DOMAIN list :
                /\ list[k].node \notin {c.node : c \in ClaimsOf(s)}
                /\ claims'[j] = [sub |-> s, node |-> list[k].node, qty |-> list[k].qty]
        BY <3>4, EditedRows
      <4>2. claims[i].node \in {c.node : c \in ClaimsOf(s)}
        <5>1. [node |-> claims[i].node, qty |-> claims[i].qty] \in ClaimsOf(s)
          BY <2>2 DEF ClaimsOf, ClaimsIn
        <5>2. [node |-> claims[i].node, qty |-> claims[i].qty].node = claims[i].node
          OBVIOUS
        <5>3. QED
          BY <5>1, <5>2
      <4>3. QED
        BY <3>2, <4>1, <4>2
    <3>5. QED
      BY <3>3, <3>4
  <2>3. QED
    BY <2>1, <2>2
<1>4. ASSUME NEW i \in DOMAIN claims' PROVE i \in DOMAIN claims
  <2>1. CASE i \notin DOMAIN claims
    <3>1. PICK k \in DOMAIN list :
              /\ list[k].node \notin {c.node : c \in ClaimsOf(s)}
              /\ claims'[i] = [sub |-> s, node |-> list[k].node, qty |-> list[k].qty]
      BY <2>1, EditedRows
    <3>2. [node |-> claims'[i].node, qty |-> claims'[i].qty] \in ClaimsOf(s)
      BY <3>1 DEF ClaimsIn
    <3>3. [node |-> claims'[i].node, qty |-> claims'[i].qty].node = list[k].node
      BY <3>1
    <3>4. QED
      BY <3>1, <3>2, <3>3
  <2>2. QED
    BY <2>1
<1>5. QED
  BY <1>2, <1>3, <1>4

\* A submission that counts neither before nor after, or whose rows and review stay as they were, changes no score.
LEMMA EditRescores ==
    ASSUME TypeOK, NodesOnce, NEW list \in ClaimLists \cup {<<>>}, NEW node \in ProofNodes \cup {None},
           NEW status \in {"pending", "approved", "rejected"}, SaveEdit(list, node, status),
           ~Rescores(form.sub, status), NEW t \in Teams
    PROVE  ApprovedIn(subs, claims, t) = ApprovedIn(subs', claims', t)
<1> DEFINE s == form.sub
           counts(i) == i \in DOMAIN claims /\ subs[claims[i].sub].team = t /\ subs[claims[i].sub].status = "approved"
           countsNow(i) == i \in DOMAIN claims' /\ subs'[claims'[i].sub].team = t /\ subs'[claims'[i].sub].status = "approved"
<1>1. claims' = WithClaims(s, list)
  BY DEF SaveEdit
<1>2. /\ s \in SubIds
      /\ \A r \in SubIds : r # s => subs'[r] = subs[r]
      /\ subs'[s].team = subs[s].team /\ subs'[s].status = status
      /\ status = subs[s].status => subs'[s].reviewedAt = subs[s].reviewedAt
  BY Saved
<1>3. \A i \in DOMAIN claims : claims[i] \in [sub : SubIds, node : AllNodes, qty : Int]
  BY DEF TypeOK
<1>4. CASE status = subs[s].status /\ ClaimsIn(claims', s) = ClaimsOf(s)
  <2>1. DOMAIN claims' = DOMAIN claims /\ \A i \in DOMAIN claims : claims'[i] = claims[i]
    BY <1>1, <1>2, <1>4, SameRows
  <2>2. \A r \in SubIds : /\ subs'[r].team = subs[r].team /\ subs'[r].status = subs[r].status
                          /\ subs'[r].reviewedAt = subs[r].reviewedAt
    BY <1>2, <1>4
  <2>3. \A i : counts(i) <=> countsNow(i)
    BY <1>3, <2>1, <2>2
  <2>4. \A i : counts(i) => /\ claims[i].node = claims'[i].node /\ claims[i].qty = claims'[i].qty
                            /\ subs[claims[i].sub].reviewedAt = subs'[claims'[i].sub].reviewedAt
    BY <1>3, <2>1, <2>2
  <2>5. QED
    BY <2>3, <2>4, SameApproved
<1>5. CASE subs[s].status # "approved" /\ status # "approved"
  <2>1. ASSUME NEW i, counts(i)
        PROVE  countsNow(i) /\ claims'[i] = claims[i] /\ subs'[claims'[i].sub] = subs[claims[i].sub]
    <3>1. claims[i].sub # s
      BY <1>5, <2>1
    <3>2. i \in DOMAIN claims' /\ claims'[i] = claims[i]
      BY <1>1, <2>1, <3>1, EditedRows
    <3>3. QED
      BY <1>2, <1>3, <2>1, <3>1, <3>2
  <2>2. ASSUME NEW i, countsNow(i) PROVE counts(i)
    <3>1. claims'[i].sub # s
      BY <1>2, <1>5, <2>2
    <3>2. CASE i \in DOMAIN claims /\ claims'[i] = claims[i]
      BY <1>2, <1>3, <2>2, <3>1, <3>2
    <3>3. CASE i \in DOMAIN claims /\ claims[i].sub = s
               /\ \E k \in DOMAIN list : claims'[i] = [claims[i] EXCEPT !.qty = list[k].qty]
      BY <1>3, <3>1, <3>3
    <3>4. CASE \E k \in DOMAIN list : claims'[i] = [sub |-> s, node |-> list[k].node, qty |-> list[k].qty]
      BY <3>1, <3>4
    <3>5. QED
      BY <1>1, <2>2, <3>2, <3>3, <3>4, EditedRows
  <2>3. QED
    BY <2>1, <2>2, SameApproved
<1>6. QED
  BY <1>4, <1>5 DEF Rescores

LEMMA ScoresStep == TypeOK /\ NodesOnce /\ ScoresCurrent /\ [Next]_vars => ScoresCurrent'
<1> SUFFICES ASSUME TypeOK, NodesOnce, ScoresCurrent, [Next]_vars, NEW t \in Teams
             PROVE  scores'[t] = Score(Published', ApprovedIn(subs', claims', t))
  BY DEF ScoresCurrent, Approved
<1>1. \A i \in DOMAIN claims : claims[i].sub \in SubIds /\ subs[claims[i].sub] # None
  BY DEF TypeOK
<1>2. ASSUME NEW u \in Uploaders, NEW s \in SubIds, PostLands(u, s)
      PROVE  scores'[t] = Score(Published', ApprovedIn(subs', claims', t))
  <2>1. /\ \A r \in SubIds : r # s => subs'[r] = subs[r]
        /\ subs'[s].status = "pending"
        /\ \A i \in DOMAIN claims : i \in DOMAIN claims' /\ claims'[i] = claims[i] /\ claims[i].sub # s
        /\ \A i \in DOMAIN claims' \ DOMAIN claims : claims'[i].sub = s
    BY <1>2, Posted
  <2>2. ApprovedIn(subs, claims, t) = ApprovedIn(subs', claims', t)
    BY <1>1, <2>1, SameApproved
  <2>3. scores'[t] = scores[t] /\ board' = board
    BY <1>2 DEF PostLands
  <2>4. QED
    BY <2>2, <2>3, StaysCurrent
<1>3. ASSUME NEW s \in SubIds, Approve(s)
      PROVE  scores'[t] = Score(Published', ApprovedIn(subs', claims', t))
  <2>1. subs[s] \in Submission /\ subs[s].team \in Teams /\ DOMAIN scores = Teams
    BY <1>3 DEF Approve, TypeOK, Submission
  <2>2. board' = board /\ claims' = claims
    BY <1>3 DEF Approve
  <2>3. scores' = [scores EXCEPT ![subs[s].team] = Score(Published, ApprovedIn(subs', claims, subs[s].team))]
    BY <1>3, <2>2 DEF Approve, Rescore
  <2>4. CASE t = subs[s].team
    <3>1. Published' = Published
      BY <2>2 DEF Published
    <3>2. scores'[t] = Score(Published, ApprovedIn(subs', claims, t))
      BY <2>1, <2>3, <2>4
    <3>3. QED
      BY <2>2, <3>1, <3>2
  <2>5. CASE t # subs[s].team
    <3>1. Reviewed(s, "approved").team = subs[s].team
      BY <1>3, ReviewedTyped DEF Approve
    <3>2. subs'[s].team = subs[s].team /\ \A r \in SubIds : r # s => subs'[r] = subs[r]
      BY <1>3, <3>1 DEF Approve, TypeOK
    <3>3. ApprovedIn(subs, claims, t) = ApprovedIn(subs', claims', t)
      BY <1>1, <2>2, <2>5, <3>2, SameApproved
    <3>4. scores'[t] = scores[t]
      BY <2>1, <2>3, <2>5
    <3>5. QED
      BY <2>2, <3>3, <3>4, StaysCurrent
  <2>6. QED
    BY <2>4, <2>5
<1>4. ASSUME NEW s \in SubIds, Reject(s)
      PROVE  scores'[t] = Score(Published', ApprovedIn(subs', claims', t))
  <2>1. Reviewed(s, "rejected").status = "rejected"
    BY <1>4, ReviewedTyped DEF Reject
  <2>2. subs'[s].status = "rejected" /\ \A r \in SubIds : r # s => subs'[r] = subs[r]
    BY <1>4, <2>1 DEF Reject, TypeOK
  <2>3. subs[s].status = "pending" /\ UNCHANGED <<board, claims, scores>>
    BY <1>4 DEF Reject
  <2>4. ApprovedIn(subs, claims, t) = ApprovedIn(subs', claims', t)
    BY <1>1, <2>2, <2>3, SameApproved
  <2>5. QED
    BY <2>3, <2>4, StaysCurrent
<1>5. ASSUME NEW list \in ClaimLists \cup {<<>>}, NEW node \in ProofNodes \cup {None},
             NEW status \in {"pending", "approved", "rejected"}, SaveEdit(list, node, status)
      PROVE  scores'[t] = Score(Published', ApprovedIn(subs', claims', t))
  <2> DEFINE s == form.sub
  <2>1. board' = board /\ DOMAIN scores = Teams
    BY <1>5 DEF SaveEdit, TypeOK
  <2>2. CASE Rescores(s, status)
    <3>1. scores' = [scores EXCEPT ![subs[s].team] = Score(Published, ApprovedIn(subs', claims', subs[s].team))]
      BY <1>5, <2>2 DEF SaveEdit, Rescore
    <3>2. CASE t = subs[s].team
      <4>1. Published' = Published
        BY <2>1 DEF Published
      <4>2. scores'[t] = Score(Published, ApprovedIn(subs', claims', t))
        BY <2>1, <3>1, <3>2
      <4>3. QED
        BY <4>1, <4>2
    <3>3. CASE t # subs[s].team
      <4>1. ApprovedIn(subs, claims, t) = ApprovedIn(subs', claims', t)
        BY <1>5, <3>3, SavedOthers
      <4>2. scores'[t] = scores[t]
        BY <2>1, <3>1, <3>3
      <4>3. QED
        BY <2>1, <4>1, <4>2, StaysCurrent
    <3>4. QED
      BY <3>2, <3>3
  <2>3. CASE ~Rescores(s, status)
    <3>1. scores' = scores
      BY <1>5, <2>3 DEF SaveEdit
    <3>2. ApprovedIn(subs, claims, t) = ApprovedIn(subs', claims', t)
      BY <1>5, <2>3, EditRescores
    <3>3. QED
      BY <2>1, <3>1, <3>2, StaysCurrent
  <2>4. QED
    BY <2>2, <2>3
<1>6. ASSUME NEW b \in Boards, Publish(b)
      PROVE  scores'[t] = Score(Published', ApprovedIn(subs', claims', t))
  <2>1. scores'[t] = Score(Layout[b], ApprovedIn(subs, claims, t)) /\ board' = b /\ subs' = subs /\ claims' = claims
    BY <1>6 DEF Publish, RescoreAll, Approved
  <2>2. Published' = Layout[b]
    BY <2>1 DEF Published
  <2>3. QED
    BY <2>1, <2>2
<1>7. CASE UNCHANGED <<board, subs, claims, scores>>
  BY <1>7, StaysCurrent
<1>8. QED
  BY <1>2, <1>3, <1>4, <1>5, <1>6, <1>7 DEF Next, vars, PostBegins, ProofPostBegins, PostRefused, OpenForm, CloseForm,
     ChangeStage, Tick

\* What is stored for every Team is what its approved Claims score on the Published board, whatever reviews, edits,
\* posts and Publishes there were: approveSubmission, editSubmission and publishDraft leave no score behind.
THEOREM ScoresStayCurrent == Spec => []ScoresCurrent
<1>1. Init => Inv
  <2> SUFFICES ASSUME Init PROVE Inv
    OBVIOUS
  <2>1. TypeOK
    BY BoundsAssumption DEF Init, TypeOK, Times
  <2>2. NodesOnce
    BY DEF Init, NodesOnce
  <2>3. ScoresCurrent
    BY DEF Init, ScoresCurrent
  <2>4. QED
    BY <2>1, <2>2, <2>3 DEF Inv
<1>2. Inv /\ [Next]_vars => Inv'
  BY TypingStep, NodesOnceStep, ScoresStep DEF Inv
<1>3. Inv => ScoresCurrent
  BY DEF Inv
<1>4. QED
  BY <1>1, <1>2, <1>3, PTL DEF Spec

-----------------------------------------------------------------------------
(* Edits from a form that is out of date. *)

\* No row is dated ahead of the clock; and an open form is as the submission is, or the submission was written since
\* the second the form was opened in.
FormDated ==
    /\ \A s \in SubIds : subs[s] # None => subs[s].updatedAt <= clock
    /\ form # None =>
           /\ form.updatedAt <= form.openedAt /\ form.openedAt <= clock
           /\ form.shown = Shown(form.sub) \/ form.openedAt <= subs[form.sub].updatedAt

LEMMA FormStep == TypeOK /\ FormDated /\ [Next]_vars => FormDated'
<1> SUFFICES ASSUME TypeOK, FormDated, [Next]_vars PROVE FormDated'
  OBVIOUS
<1>1. /\ clock \in Nat
      /\ \A s \in SubIds : subs[s] # None => subs[s].updatedAt \in Nat
      /\ form # None => form.sub \in SubIds /\ subs[form.sub] # None /\ form.openedAt \in Nat /\ form.updatedAt \in Nat
  BY BoundsAssumption DEF TypeOK, Times, Submission, Form
<1>2. ASSUME NEW u \in Uploaders, NEW s \in SubIds, PostLands(u, s) PROVE FormDated'
  <2>1. clock' = clock /\ form' = form /\ subs[s] = None /\ subs'[s].updatedAt = clock
    BY <1>2 DEF PostLands, TypeOK
  <2>2. \A r \in SubIds : r # s => subs'[r] = subs[r]
    BY <1>2, Posted
  <2>3. \A r \in SubIds : subs'[r] # None => subs'[r].updatedAt <= clock'
    BY <1>1, <2>1, <2>2 DEF FormDated
  <2>4. CASE form # None
    <3>1. form.sub # s /\ form.sub \in SubIds /\ subs'[form.sub] = subs[form.sub]
      BY <1>1, <2>1, <2>2, <2>4
    <3>2. ClaimsIn(claims', form.sub) = ClaimsIn(claims, form.sub)
      <4>1. /\ \A i \in DOMAIN claims : i \in DOMAIN claims' /\ claims'[i] = claims[i]
            /\ \A i \in DOMAIN claims' \ DOMAIN claims : claims'[i].sub = s
        BY <1>2, Posted
      <4>2. {j \in DOMAIN claims' : claims'[j].sub = form.sub} = {j \in DOMAIN claims : claims[j].sub = form.sub}
        BY <3>1, <4>1
      <4>3. QED
        BY <4>1, <4>2 DEF ClaimsIn
    <3>3. Shown(form.sub)' = Shown(form.sub)
      <4>1. subs'[form.sub] = subs[form.sub] /\ ClaimsIn(claims', form.sub) = ClaimsIn(claims, form.sub) /\ form' = form
        BY <2>1, <3>1, <3>2
      <4>2. QED
        BY <4>1 DEF Shown, ClaimsOf
    <3>4. QED
      BY <2>1, <2>3, <2>4, <3>1, <3>3 DEF FormDated
  <2>5. CASE form = None
    BY <2>1, <2>3, <2>5 DEF FormDated
  <2>6. QED
    BY <2>4, <2>5
<1>3. ASSUME NEW s \in SubIds, Approve(s) \/ Reject(s) PROVE FormDated'
  <2>1. clock' = clock /\ form' = form /\ claims' = claims
    BY <1>3 DEF Approve, Reject
  <2>2. subs'[s].updatedAt = clock /\ \A r \in SubIds : r # s => subs'[r] = subs[r]
    <3>1. Reviewed(s, "approved").updatedAt = clock /\ Reviewed(s, "rejected").updatedAt = clock
      BY <1>3, ReviewedTyped DEF Approve, Reject
    <3>2. QED
      BY <1>3, <3>1 DEF Approve, Reject, TypeOK
  <2>3. \A r \in SubIds : subs'[r] # None => subs'[r].updatedAt <= clock'
    <3>1. subs[s] # None
      BY <1>3 DEF Approve, Reject
    <3>2. QED
      BY <1>1, <2>1, <2>2, <3>1 DEF FormDated
  <2>4. CASE form # None /\ form.sub # s
    <3>1. subs'[form.sub] = subs[form.sub]
      BY <1>1, <2>2, <2>4
    <3>2. Shown(form.sub)' = Shown(form.sub)
      BY <2>1, <3>1 DEF Shown, ClaimsOf, ClaimsIn
    <3>3. QED
      BY <2>1, <2>3, <2>4, <3>1, <3>2 DEF FormDated
  <2>5. CASE form # None /\ form.sub = s
    BY <2>1, <2>2, <2>3, <2>5 DEF FormDated
  <2>6. CASE form = None
    BY <2>1, <2>3, <2>6 DEF FormDated
  <2>7. QED
    BY <2>4, <2>5, <2>6
<1>4. ASSUME NEW s \in SubIds, OpenForm(s) PROVE FormDated'
  <2>1. /\ form' = [sub |-> s, shown |-> Shown(s), updatedAt |-> subs[s].updatedAt, openedAt |-> clock]
        /\ clock' = clock /\ subs' = subs /\ claims' = claims /\ subs[s] # None
    BY <1>4 DEF OpenForm
  <2>2. form'.shown = Shown(s) /\ form'.sub = s /\ form'.updatedAt = subs[s].updatedAt /\ form'.openedAt = clock
    BY <2>1
  <2>3. Shown(form.sub)' = Shown(s)
    BY <2>1, <2>2 DEF Shown, ClaimsOf, ClaimsIn
  <2>4. QED
    BY <1>1, <2>1, <2>2, <2>3 DEF FormDated
<1>5. ASSUME NEW list \in ClaimLists \cup {<<>>}, NEW node \in ProofNodes \cup {None},
             NEW status \in {"pending", "approved", "rejected"}, SaveEdit(list, node, status)
      PROVE  FormDated'
  <2>1. clock' = clock /\ form' = None
    BY <1>5 DEF SaveEdit
  <2>2. \A r \in SubIds : subs'[r] # None => subs'[r].updatedAt <= clock'
    <3>1. /\ form.sub \in SubIds /\ \A r \in SubIds : r # form.sub => subs'[r] = subs[r]
          /\ subs' = subs \/ subs'[form.sub].updatedAt = clock
      BY <1>5, Saved
    <3>2. QED
      BY <1>1, <2>1, <3>1 DEF FormDated
  <2>3. QED
    BY <2>1, <2>2 DEF FormDated
<1>6. CASE CloseForm
  BY <1>6 DEF CloseForm, FormDated
<1>7. CASE UNCHANGED <<subs, claims, form>> /\ clock' \in {clock, clock + 1}
  <2>1. form # None => Shown(form.sub)' = Shown(form.sub)
    BY <1>7 DEF Shown, ClaimsOf, ClaimsIn
  <2>2. \A s \in SubIds : subs'[s] # None => subs'[s].updatedAt <= clock'
    BY <1>1, <1>7 DEF FormDated
  <2>3. form' # None => form'.updatedAt <= form'.openedAt /\ form'.openedAt <= clock'
    BY <1>1, <1>7 DEF FormDated
  <2>4. QED
    BY <1>7, <2>1, <2>2, <2>3 DEF FormDated
<1>8. QED
  BY <1>2, <1>3, <1>4, <1>5, <1>6, <1>7 DEF Next, vars, PostBegins, ProofPostBegins, PostRefused, Publish, ChangeStage, Tick

\* editSubmission refuses a form that is out of date: what it did not show it can undo only when it was opened in the
\* second of the change before that, which the database cannot tell from a later one of the same second.
THEOREM StaleEdits == Spec => StaleEditOnlySameSecond
<1> DEFINE Undoes == form # None /\ form' = None /\ subs' # subs /\ form.shown # Shown(form.sub)
<1>1. Init => TypeOK /\ FormDated
  <2> SUFFICES ASSUME Init PROVE TypeOK /\ FormDated
    OBVIOUS
  <2>1. TypeOK
    BY BoundsAssumption DEF Init, TypeOK, Times
  <2>2. FormDated
    BY DEF Init, FormDated
  <2>3. QED
    BY <2>1, <2>2
<1>2. TypeOK /\ FormDated /\ [Next]_vars => TypeOK' /\ FormDated'
  BY TypingStep, FormStep
<1>3. TypeOK /\ FormDated /\ [Next]_vars => [Undoes => form.openedAt = form.updatedAt]_vars
  <2> SUFFICES ASSUME TypeOK, FormDated, [Next]_vars, Undoes PROVE form.openedAt = form.updatedAt
    OBVIOUS
  <2>0. Next
    BY DEF vars
  <2>1. PICK list \in ClaimLists \cup {<<>>}, node \in ProofNodes \cup {None},
             status \in {"pending", "approved", "rejected"} : SaveEdit(list, node, status)
    BY <2>0 DEF Next, PostBegins, ProofPostBegins, PostLands, PostRefused, Approve, Reject, OpenForm, CloseForm, Publish,
       ChangeStage, Tick
  <2>2. form.updatedAt = subs[form.sub].updatedAt
    BY <2>1 DEF SaveEdit
  <2>3. form.updatedAt \in Nat /\ form.openedAt \in Nat
    BY BoundsAssumption DEF TypeOK, Form, Times
  <2>4. form.updatedAt <= form.openedAt /\ form.openedAt <= subs[form.sub].updatedAt
    BY DEF FormDated
  <2>5. QED
    BY <2>2, <2>3, <2>4
<1>4. QED
  BY <1>1, <1>2, <1>3, PTL DEF Spec, StaleEditOnlySameSecond

-----------------------------------------------------------------------------
(* Recursion over a board, and the largest and smallest of some numbers. *)

LEMMA SmallestOf ==
    ASSUME NEW S \in SUBSET Nat, S # {}
    PROVE  \E n \in S : \A m \in S : n <= m
<1>1. PICK n \in S : \A m \in S : ~(<<m, n>> \in OpToRel(<, Nat))
  BY WFMin, NatLessThanWellFounded
<1>2. ASSUME NEW m \in S PROVE n <= m
  <2>1. <<m, n>> \in Nat \X Nat /\ n \in Nat /\ m \in Nat
    OBVIOUS
  <2>2. ~(m < n)
    BY <1>1, <2>1 DEF OpToRel
  <2> QED BY <2>1, <2>2
<1> QED BY <1>2

\* Among the parts of a finite set that have what is asked, one has no smaller part that has it.
LEMMA SmallestPart ==
    ASSUME NEW S, IsFiniteSet(S), NEW Good \in SUBSET (SUBSET S), Good # {}
    PROVE  \E T \in Good : \A n \in T : T \ {n} \notin Good
<1> DEFINE Sizes == {Cardinality(T) : T \in Good}
<1>1. \A T \in Good : IsFiniteSet(T) /\ Cardinality(T) \in Nat
  BY FS_Subset, FS_CardinalityType
<1>2. Sizes \in SUBSET Nat /\ Sizes # {}
  BY <1>1
<1>3. PICK k \in Sizes : \A j \in Sizes : k <= j
  <2> HIDE DEF Sizes
  <2> QED BY <1>2, SmallestOf
<1>4. PICK T \in Good : k = Cardinality(T)
  OBVIOUS
<1>5. ASSUME NEW n \in T, T \ {n} \in Good PROVE FALSE
  <2>1. Cardinality(T \ {n}) = Cardinality(T) - 1
    BY <1>1, FS_RemoveElement
  <2>2. Cardinality(T \ {n}) \in Sizes
    BY <1>5
  <2>3. k <= Cardinality(T) - 1
    BY <1>3, <2>1, <2>2
  <2> QED BY <1>1, <1>4, <2>3
<1> QED BY <1>5

\* No nodes are all under each other.
Grounded(nodes, under) == \A S \in SUBSET nodes : S # {} => \E n \in S : under[n] \cap S = {}

\* A function on nodes whose value at each is computed from its values at the nodes under it.
Computes(f, nodes, under, step) == \A n \in nodes : f[n] = step[<<n, [c \in under[n] |-> f[c]]>>]

\* What a node's value may be computed from.
Inputs(nodes, under, V) == UNION {{n} \X [under[n] -> V] : n \in nodes}

LEMMA InInputs ==
    ASSUME NEW nodes, NEW under, NEW V, NEW n \in nodes, NEW g \in [under[n] -> V]
    PROVE  <<n, g>> \in Inputs(nodes, under, V)
<1>1. <<n, g>> \in {n} \X [under[n] -> V]
  OBVIOUS
<1> QED BY <1>1 DEF Inputs

\* There is a function computed that way from the bottom up.
LEMMA BottomUp ==
    ASSUME NEW nodes, IsFiniteSet(nodes), NEW under \in [nodes -> SUBSET nodes], Grounded(nodes, under),
           NEW V, NEW step, \A n \in nodes : \A g \in [under[n] -> V] : step[<<n, g>>] \in V
    PROVE  \E f \in [nodes -> V] : Computes(f, nodes, under, step)
<1> DEFINE Left == {L \in SUBSET nodes : \E f \in [nodes \ L -> V] :
                       /\ \A n \in nodes \ L : under[n] \cap L = {}
                       /\ Computes(f, nodes \ L, under, step)}
<1>1. nodes \in Left
  <2> DEFINE f == [n \in nodes \ nodes |-> n]
  <2>1. f \in [nodes \ nodes -> V]
    OBVIOUS
  <2>2. Computes(f, nodes \ nodes, under, step)
    BY DEF Computes
  <2> QED BY <2>1, <2>2
<1>2. PICK L \in Left : \A n \in L : L \ {n} \notin Left
  <2>1. Left \in SUBSET (SUBSET nodes) /\ Left # {}
    BY <1>1
  <2> HIDE DEF Left
  <2> QED BY <2>1, SmallestPart
<1>3. PICK f \in [nodes \ L -> V] :
          /\ \A n \in nodes \ L : under[n] \cap L = {}
          /\ Computes(f, nodes \ L, under, step)
  OBVIOUS
<1>4. ASSUME L # {} PROVE FALSE
  <2>1. PICK n \in L : under[n] \cap L = {}
    BY <1>4 DEF Grounded
  <2> DEFINE M == L \ {n}
             g == [c \in under[n] |-> f[c]]
             h == [m \in nodes \ M |-> IF m = n THEN step[<<n, g>>] ELSE f[m]]
  <2>2. n \in nodes /\ n \notin nodes \ L /\ nodes \ M = (nodes \ L) \cup {n} /\ under[n] \subseteq nodes \ L
    BY <2>1
  <2>3. g \in [under[n] -> V] /\ step[<<n, g>>] \in V
    BY <2>2
  <2>4. h \in [nodes \ M -> V]
    BY <2>2, <2>3
  <2>5. \A m \in nodes \ M : under[m] \cap M = {}
    BY <1>3, <2>1, <2>2
  <2>6. ASSUME NEW m \in nodes \ M PROVE h[m] = step[<<m, [c \in under[m] |-> h[c]]>>]
    <3>1. under[m] \subseteq nodes \ L
      BY <1>3, <2>2
    <3>2. [c \in under[m] |-> h[c]] = [c \in under[m] |-> f[c]]
      BY <2>2, <3>1
    <3>3. CASE m = n
      BY <3>2, <3>3
    <3>4. CASE m # n
      <4>1. m \in nodes \ L /\ h[m] = f[m]
        BY <2>2, <3>4
      <4>2. f[m] = step[<<m, [c \in under[m] |-> f[c]]>>]
        BY <1>3, <4>1 DEF Computes
      <4> QED BY <3>2, <4>1, <4>2
    <3> QED BY <3>3, <3>4
  <2>7. Computes(h, nodes \ M, under, step)
    <3> HIDE DEF h, M
    <3> QED BY <2>6 DEF Computes
  <2>8. M \in Left
    <3>1. M \in SUBSET nodes
      OBVIOUS
    <3> HIDE DEF h
    <3> QED BY <2>4, <2>5, <2>7, <3>1
  <2> QED BY <1>2, <2>8
<1>5. nodes \ L = nodes
  BY <1>4
<1> QED BY <1>3, <1>5

\* Nor are they all over each other.
LEMMA GroundedUpward ==
    ASSUME NEW nodes, IsFiniteSet(nodes), NEW under \in [nodes -> SUBSET nodes], Grounded(nodes, under)
    PROVE  Grounded(nodes, [n \in nodes |-> {p \in nodes : n \in under[p]}])
<1> DEFINE over(n) == {p \in nodes : n \in under[p]}
           Held == {T \in SUBSET nodes : T # {} /\ \A n \in T : over(n) \cap T # {}}
<1>1. ASSUME Held # {} PROVE FALSE
  <2>1. PICK T \in Held : \A n \in T : T \ {n} \notin Held
    <3>1. Held \in SUBSET (SUBSET nodes)
      OBVIOUS
    <3> HIDE DEF Held
    <3> QED BY <1>1, <3>1, SmallestPart
  <2>2. PICK n \in T : under[n] \cap T = {}
    BY DEF Grounded
  <2>3. \A m \in T : over(m) \cap (T \ {n}) # {}
    BY <2>2
  <2>4. T \ {n} # {}
    BY <2>3
  <2>5. T \ {n} \in Held
    BY <2>3, <2>4
  <2> QED BY <2>1, <2>5
<1>2. ASSUME NEW S \in SUBSET nodes, S # {} PROVE \E n \in S : over(n) \cap S = {}
  BY <1>1, <1>2
<1> QED BY <1>2 DEF Grounded

\* The largest of finitely many numbers.
LEMMA MaxOf ==
    ASSUME NEW S \in SUBSET Nat, IsFiniteSet(S), S # {}
    PROVE  Max(S) \in S /\ \A n \in S : n <= Max(S)
<1> DEFINE Tops == {T \in SUBSET S : T # {} /\ \A x \in S : \E y \in T : x <= y}
<1>1. S \in Tops
  OBVIOUS
<1>2. PICK T \in Tops : \A n \in T : T \ {n} \notin Tops
  <2>1. Tops \in SUBSET (SUBSET S) /\ Tops # {}
    BY <1>1
  <2> HIDE DEF Tops
  <2> QED BY <2>1, SmallestPart
<1>3. PICK m \in T : TRUE
  OBVIOUS
<1>4. ASSUME NEW n \in T, NEW k \in T, n < k PROVE FALSE
  <2>1. \A x \in S : \E y \in T \ {n} : x <= y
    <3>1. SUFFICES ASSUME NEW x \in S PROVE \E y \in T \ {n} : x <= y
      OBVIOUS
    <3>2. PICK y \in T : x <= y
      OBVIOUS
    <3>3. x \in Nat /\ y \in Nat /\ n \in Nat /\ k \in Nat
      OBVIOUS
    <3>4. CASE y = n
      <4>1. x <= k /\ k # n
        BY <1>4, <3>2, <3>3, <3>4
      <4> QED BY <1>4, <4>1
    <3>5. CASE y # n
      BY <3>2, <3>5
    <3> QED BY <3>4, <3>5
  <2>2. k \in T \ {n}
    BY <1>4
  <2>3. T \ {n} \in Tops
    BY <2>1, <2>2
  <2> QED BY <1>2, <2>3
<1>5. \A x \in S : x <= m
  <2>1. SUFFICES ASSUME NEW x \in S PROVE x <= m
    OBVIOUS
  <2>2. PICK y \in T : x <= y
    OBVIOUS
  <2>3. x \in Nat /\ y \in Nat /\ m \in Nat /\ y \in T /\ m \in T
    BY <1>3
  <2>4. ~(y < m) /\ ~(m < y)
    BY <1>4, <2>3
  <2> QED BY <2>2, <2>3, <2>4
<1>6. \E x \in S : \A y \in S : x >= y
  <2>1. m \in S /\ \A y \in S : m \in Nat /\ y \in Nat
    BY <1>3
  <2> QED BY <1>5, <2>1
<1>7. Max(S) \in S /\ \A y \in S : Max(S) >= y
  BY <1>6 DEF Max
<1> QED
  <2>1. \A y \in S : y \in Nat /\ Max(S) \in Nat
    BY <1>7
  <2> QED BY <1>7, <2>1

-----------------------------------------------------------------------------
(* When a node is completed. *)

\* Whether something of these times had happened by a time.
LEMMA EarliestBy ==
    ASSUME NEW times \in SUBSET Nat
    PROVE  /\ Earliest(times) \in times \cup {None}
           /\ \A t \in Nat : (Earliest(times) # None /\ Earliest(times) <= t) <=> \E x \in times : x <= t
<1>1. CASE times = {}
  BY <1>1 DEF Earliest
<1>2. CASE times # {}
  <2>1. \E n \in times : \A m \in times : n <= m
    BY <1>2, SmallestOf
  <2>2. Min(times) \in times /\ \A m \in times : Min(times) <= m
    BY <2>1 DEF Min
  <2>3. Earliest(times) = Min(times) /\ Min(times) # None
    BY <1>2, <2>2, TimesAssumption DEF Earliest
  <2>4. ASSUME NEW t \in Nat, NEW x \in times, x <= t PROVE Min(times) <= t
    <3>1. Min(times) \in Nat /\ x \in Nat /\ Min(times) <= x
      BY <2>2
    <3> QED BY <2>4, <3>1
  <2> QED BY <2>2, <2>3, <2>4
<1> QED BY <1>1, <1>2

\* What a row adds to a total.
Adds(adds, rows, i) == IF i \in rows THEN adds[i] ELSE 0

\* A running total over rows up to a number.
Runs(f, adds, rows, N) ==
    /\ f \in [0..N -> Int]
    /\ f[0] = 0
    /\ \A i \in 1..N : f[i] = f[i - 1] + Adds(adds, rows, i)

Numbers(rows) == rows \in SUBSET (Nat \ {0}) /\ IsFiniteSet(rows)

Whole(adds, rows) == \A i \in rows : adds[i] \in Int

\* The running total that ends at the last row.
IsTotal(adds, rows, N, f) ==
    /\ N \in Nat /\ N \in rows \cup {0}
    /\ \A i \in rows : i \in 1..N
    /\ Runs(f, adds, rows, N)
    /\ Total(adds, rows) = f[N]

LEMMA TotalRuns ==
    ASSUME NEW adds, NEW rows, Numbers(rows), Whole(adds, rows)
    PROVE  \E N, f : IsTotal(adds, rows, N, f)
<1> DEFINE N == Max(rows \cup {0})
           body(f, i) == IF i = 0 THEN 0 ELSE f[i - 1] + (IF i \in rows THEN adds[i] ELSE 0)
           under == [i \in 0..N |-> IF i = 0 THEN {} ELSE {i - 1}]
           step == [p \in Inputs(0..N, under, Int) |-> body(p[2], p[1])]
<1>1. N \in Nat /\ N \in rows \cup {0} /\ \A i \in rows : i \in 1..N
  <2>1. rows \cup {0} \in SUBSET Nat /\ IsFiniteSet(rows \cup {0}) /\ rows \cup {0} # {}
    BY FS_AddElement DEF Numbers
  <2>2. N \in rows \cup {0} /\ \A i \in rows \cup {0} : i <= N
    BY <2>1, MaxOf
  <2> HIDE DEF N
  <2>3. N \in Nat /\ \A i \in rows : i \in Nat /\ i # 0 /\ i <= N
    BY <2>1, <2>2 DEF Numbers
  <2> QED BY <2>2, <2>3
<1> HIDE DEF N
<1>2. IsFiniteSet(0..N) /\ under \in [0..N -> SUBSET (0..N)]
  BY <1>1, FS_Interval
<1>3. Grounded(0..N, under)
  <2>1. ASSUME NEW S \in SUBSET (0..N), S # {} PROVE \E n \in S : under[n] \cap S = {}
    <3>1. PICK n \in S : \A m \in S : n <= m
      BY <1>1, <2>1, SmallestOf
    <3> QED BY <1>1, <3>1
  <2> HIDE DEF under
  <2> QED BY <2>1 DEF Grounded
<1>4. ASSUME NEW i \in 0..N, NEW g \in [under[i] -> Int] PROVE step[<<i, g>>] = body(g, i) /\ body(g, i) \in Int
  <2>1. <<i, g>> \in Inputs(0..N, under, Int)
    <3> HIDE DEF under
    <3> QED BY InInputs
  <2>2. step[<<i, g>>] = body(g, i)
    BY <2>1
  <2>3. body(g, i) \in Int
    BY <1>1 DEF Whole
  <2> QED BY <2>2, <2>3
<1>5. PICK f \in [0..N -> Int] : Computes(f, 0..N, under, step)
  <2>1. \A i \in 0..N : \A g \in [under[i] -> Int] : step[<<i, g>>] \in Int
    <3> HIDE DEF under, step, body
    <3> QED BY <1>4
  <2> HIDE DEF under, step
  <2> QED BY <1>2, <1>3, <2>1, BottomUp
<1>6. ASSUME NEW i \in 0..N PROVE f[i] = body(f, i)
  <2> DEFINE g == [c \in under[i] |-> f[c]]
  <2>1. f[i] = step[<<i, g>>]
    BY <1>5 DEF Computes
  <2>2. g \in [under[i] -> Int]
    BY <1>2
  <2>3. body(g, i) = body(f, i)
    BY <1>1
  <2>4. step[<<i, g>>] = body(g, i)
    <3> HIDE DEF g, step, under, body
    <3> QED BY <1>4, <2>2
  <2> QED BY <2>1, <2>3, <2>4
<1>7. f = [i \in 0..N |-> body(f, i)]
  BY <1>6
<1> DEFINE upTo == CHOOSE u : u = [i \in 0..N |-> body(u, i)]
<1>8. upTo = [i \in 0..N |-> body(upTo, i)]
  BY <1>7
<1>9. Total(adds, rows) = upTo[N]
  BY Zenon DEF Total, N
<1> HIDE DEF upTo
<1>10. DOMAIN upTo = 0..N /\ \A i \in 0..N : upTo[i] = body(upTo, i)
  BY <1>8
<1>11. \A i \in 0..N : upTo[i] = f[i]
  <2> DEFINE Off == {i \in 0..N : upTo[i] # f[i]}
  <2>1. ASSUME Off # {} PROVE FALSE
    <3>1. PICK n \in Off : \A m \in Off : n <= m
      <4> Off \in SUBSET Nat
        BY <1>1
      <4> HIDE DEF Off
      <4> QED BY <2>1, SmallestOf
    <3>2. n = 0 \/ (n - 1 \in 0..N /\ upTo[n - 1] = f[n - 1])
      BY <1>1, <3>1
    <3> QED BY <1>6, <1>10, <3>1, <3>2
  <2> QED BY <2>1
<1>12. Runs(f, adds, rows, N)
  <2>1. f[0] = 0
    BY <1>1, <1>6
  <2>2. \A i \in 1..N : i \in 0..N /\ i # 0
    BY <1>1
  <2> QED BY <1>6, <2>1, <2>2 DEF Runs, Adds
<1>13. Total(adds, rows) = f[N]
  BY <1>1, <1>9, <1>11
<1> QED BY <1>1, <1>12, <1>13 DEF IsTotal

\* Nothing adds up to nothing.
LEMMA NoTotal ==
    ASSUME NEW adds
    PROVE  Total(adds, {}) = 0
<1>1. Numbers({}) /\ Whole(adds, {})
  BY FS_EmptySet DEF Numbers, Whole
<1>2. PICK N, f : IsTotal(adds, {}, N, f)
  BY <1>1, TotalRuns
<1> QED BY <1>2 DEF IsTotal, Runs

\* From where no row subtracts any more, a running total goes up.
LEMMA RunsUp ==
    ASSUME NEW f, NEW adds, NEW rows, NEW N \in Nat, NEW M \in 0..N, Runs(f, adds, rows, N), Whole(adds, rows),
           \A i \in rows : i > M => adds[i] >= 0
    PROVE  \A i \in M..N : f[M] <= f[i]
<1> DEFINE Off == {i \in M..N : ~(f[M] <= f[i])}
<1>1. \A i \in 0..N : f[i] \in Int
  BY DEF Runs
<1>2. ASSUME Off # {} PROVE FALSE
  <2>1. PICK n \in Off : \A m \in Off : n <= m
    <3> Off \in SUBSET Nat
      OBVIOUS
    <3> HIDE DEF Off
    <3> QED BY <1>2, SmallestOf
  <2>2. f[M] \in Int /\ n # M
    BY <1>1
  <2>3. n - 1 \in M..N /\ n \in 1..N /\ n - 1 \in 0..N /\ n > M
    BY <2>2
  <2>4. f[M] <= f[n - 1]
    <3>1. n - 1 \notin Off
      BY <2>1, <2>3
    <3> QED BY <2>3, <3>1
  <2>5. Adds(adds, rows, n) \in Int /\ Adds(adds, rows, n) >= 0
    BY <2>3 DEF Adds, Whole
  <2>6. f[n] = f[n - 1] + Adds(adds, rows, n) /\ f[n - 1] \in Int
    BY <1>1, <2>3 DEF Runs
  <2>7. f[M] <= f[n]
    BY <2>2, <2>4, <2>5, <2>6
  <2> QED BY <2>1, <2>7
<1> QED BY <1>2

\* Rows that subtract nothing add up to no less than one of them.
LEMMA SomeTotal ==
    ASSUME NEW adds, NEW rows, Numbers(rows), Whole(adds, rows), \A i \in rows : adds[i] >= 0, NEW k \in rows
    PROVE  Total(adds, rows) \in Int /\ Total(adds, rows) >= adds[k]
<1>1. PICK N, f : IsTotal(adds, rows, N, f)
  BY TotalRuns
<1>2. N \in Nat /\ k \in 1..N /\ Runs(f, adds, rows, N) /\ Total(adds, rows) = f[N]
  BY <1>1 DEF IsTotal
<1>3. \A i \in 0..N : f[i] \in Int
  BY <1>2 DEF Runs
<1>4. 0 \in 0..N /\ k \in 0..N /\ k - 1 \in 0..N /\ N \in k..N /\ N \in 0..N
  BY <1>2
<1>5. f[0] <= f[k - 1]
  BY <1>2, <1>4, RunsUp
<1>6. f[k] <= f[N]
  BY <1>2, <1>4, RunsUp
<1>7. f[0] = 0 /\ f[k] = f[k - 1] + adds[k]
  BY <1>2 DEF Runs, Adds
<1>8. adds[k] \in Int /\ f[k - 1] \in Int /\ f[k] \in Int /\ f[N] \in Int
  BY <1>3, <1>4 DEF Whole
<1> QED BY <1>2, <1>5, <1>6, <1>7, <1>8

\* More rows add up to no less, if the others subtract nothing.
LEMMA MoreTotal ==
    ASSUME NEW less, NEW more, NEW rows, NEW fewer \in SUBSET rows, \A i \in fewer : less[i] = more[i],
           Numbers(rows), Whole(more, rows), \A i \in rows \ fewer : more[i] >= 0
    PROVE  /\ Total(more, rows) \in Int /\ Total(less, fewer) \in Int
           /\ Total(less, fewer) <= Total(more, rows)
<1>1. Numbers(fewer) /\ Whole(less, fewer)
  BY FS_Subset DEF Numbers, Whole
<1>2. PICK N, f : IsTotal(more, rows, N, f)
  BY TotalRuns
<1>3. PICK M, g : IsTotal(less, fewer, M, g)
  BY <1>1, TotalRuns
<1>4. N \in Nat /\ M \in Nat /\ M <= N
  BY <1>2, <1>3 DEF IsTotal
<1>5. Runs(f, more, rows, N) /\ Total(more, rows) = f[N] /\ Runs(g, less, fewer, M) /\ Total(less, fewer) = g[M]
  BY <1>2, <1>3 DEF IsTotal
<1>6. \A i \in 1..M : /\ Adds(less, fewer, i) \in Int /\ Adds(more, rows, i) \in Int
                      /\ Adds(less, fewer, i) <= Adds(more, rows, i)
  BY <1>1 DEF Adds, Whole
<1>7. \A i \in rows : i > M => more[i] >= 0
  BY <1>3 DEF IsTotal
<1>8. \A i \in 0..N : f[i] \in Int
  BY <1>5 DEF Runs
<1>9. \A i \in 0..M : g[i] \in Int
  BY <1>5 DEF Runs
<1>10. \A i \in 0..M : g[i] <= f[i]
  <2> DEFINE Off == {i \in 0..M : ~(g[i] <= f[i])}
  <2>1. ASSUME Off # {} PROVE FALSE
    <3>1. PICK n \in Off : \A m \in Off : n <= m
      <4> Off \in SUBSET Nat
        BY <1>4
      <4> HIDE DEF Off
      <4> QED BY <2>1, SmallestOf
    <3>2. g[0] = 0 /\ f[0] = 0 /\ n \in 0..M
      BY <1>5 DEF Runs
    <3>3. n # 0
      BY <3>2
    <3>4. n - 1 \in 0..M /\ n \in 1..M /\ n \in 1..N /\ n - 1 \in 0..N
      BY <1>4, <3>2, <3>3
    <3>5. g[n - 1] <= f[n - 1]
      <4>1. n - 1 \notin Off
        BY <3>1, <3>4
      <4> QED BY <3>4, <4>1
    <3>6. g[n] = g[n - 1] + Adds(less, fewer, n) /\ f[n] = f[n - 1] + Adds(more, rows, n)
      BY <1>5, <3>4 DEF Runs
    <3>7. g[n - 1] \in Int /\ f[n - 1] \in Int
      BY <1>8, <1>9, <3>4
    <3>8. g[n] <= f[n]
      <4>1. Adds(less, fewer, n) \in Int /\ Adds(more, rows, n) \in Int /\ Adds(less, fewer, n) <= Adds(more, rows, n)
        BY <1>6, <3>4
      <4> QED BY <3>5, <3>6, <3>7, <4>1
    <3> QED BY <3>1, <3>8
  <2> QED BY <2>1
<1>11. M \in 0..M /\ N \in M..N /\ M \in 0..N /\ N \in 0..N
  BY <1>4
<1>12. f[M] <= f[N]
  BY <1>4, <1>5, <1>7, <1>11, RunsUp
<1>13. g[M] <= f[M] /\ g[M] \in Int /\ f[M] \in Int /\ f[N] \in Int
  BY <1>8, <1>9, <1>10, <1>11
<1> QED BY <1>5, <1>12, <1>13

LEMMA SameTotal ==
    ASSUME NEW one, NEW other, NEW rows, \A i \in rows : one[i] = other[i], Numbers(rows), Whole(other, rows)
    PROVE  Total(one, rows) = Total(other, rows)
<1>1. Whole(one, rows) /\ \A i \in rows : other[i] = one[i]
  BY DEF Whole
<1>2. Total(one, rows) <= Total(other, rows) /\ Total(one, rows) \in Int /\ Total(other, rows) \in Int
  BY MoreTotal
<1>3. Total(other, rows) <= Total(one, rows)
  BY <1>1, MoreTotal
<1> QED BY <1>2, <1>3

LEMMA ChildrenFinite ==
    ASSUME NEW b, IsBoard(b), NEW n \in b.nodes
    PROVE  b.children[n] \subseteq b.nodes /\ IsFiniteSet(b.children[n])
<1>1. b.children[n] \subseteq b.nodes /\ IsFiniteSet(b.nodes)
  BY DEF IsBoard
<1> QED BY <1>1, FS_Subset

\* The rows on a node's children, or those reviewed by a time, add up, as those on an ITEM do.
LEMMA UnitsAddUp ==
    ASSUME NEW b, NEW C, IsBoard(b), IsClaims(C), NEW n \in b.nodes, NEW rows \in SUBSET ClaimsOn(C, b.children[n])
    PROVE  /\ Numbers(rows) /\ Whole(Units(b, C), rows)
           /\ \A i \in rows : C[i].qty >= 0 => Units(b, C)[i] >= 0
<1>1. rows \subseteq DOMAIN C /\ \A i \in rows : C[i].node \in b.nodes
  BY ChildrenFinite DEF ClaimsOn
<1>2. Numbers(rows)
  BY <1>1, FS_Subset DEF IsClaims, Numbers
<1>3. ASSUME NEW i \in rows PROVE Units(b, C)[i] \in Int /\ (C[i].qty >= 0 => Units(b, C)[i] >= 0)
  <2> DEFINE q == C[i].qty
             w == b.countsAs[C[i].node]
  <2>1. q \in Int /\ w \in Nat /\ Units(b, C)[i] = q * w
    BY <1>1 DEF IsBoard, IsClaims, Units
  <2> HIDE DEF q, w
  <2>2. q * w \in Int /\ (q >= 0 => q * w >= 0)
    BY <2>1
  <2> QED BY <2>1, <2>2 DEF q
<1> QED BY <1>2, <1>3 DEF Whole

LEMMA QuantitiesAddUp ==
    ASSUME NEW C, IsClaims(C), NEW rows \in SUBSET DOMAIN C
    PROVE  /\ Numbers(rows) /\ Whole(Quantity(C), rows)
           /\ \A i \in rows : Quantity(C)[i] = C[i].qty /\ C[i].qty \in Int
<1>1. Numbers(rows)
  BY FS_Subset DEF IsClaims, Numbers
<1> QED BY <1>1 DEF IsClaims, Quantity, Whole

\* The times that completed children give.
TimesOf(b, n, g) == {g[c] : c \in b.children[n]} \ {None}

LEMMA TimesFinite ==
    ASSUME NEW b, IsBoard(b), NEW n \in b.nodes, NEW V \in SUBSET Nat, NEW g \in [b.children[n] -> V \cup {None}]
    PROVE  TimesOf(b, n, g) \in SUBSET V /\ IsFiniteSet(TimesOf(b, n, g))
<1> DEFINE kids == b.children[n]
           T == {g[c] : c \in kids}
<1>1. g \in Surjection(kids, T)
  <2>1. g \in [kids -> T] /\ \A x \in T : \E c \in kids : g[c] = x
    OBVIOUS
  <2> QED BY <2>1 DEF Surjection
<1>2. IsFiniteSet(T)
  <2> HIDE DEF T
  <2> QED BY <1>1, ChildrenFinite, FS_Surjection
<1>3. T \ {None} \subseteq T /\ T \ {None} \subseteq V
  OBVIOUS
<1>4. IsFiniteSet(T \ {None})
  BY <1>2, <1>3, FS_Subset
<1> QED BY <1>3, <1>4 DEF TimesOf

LEMMA CompletedTyped ==
    ASSUME NEW b, NEW C, IsBoard(b), IsClaims(C), NEW n \in b.nodes,
           NEW V \in SUBSET Nat, \A i \in DOMAIN C : C[i].at \in V,
           NEW g \in [b.children[n] -> V \cup {None}]
    PROVE  CompletedOf(b, C, n, g) \in V \cup {None}
<1> DEFINE times == TimesOf(b, n, g)
<1>1. times \in SUBSET V /\ IsFiniteSet(times)
  BY TimesFinite
<1>2. \A T \in SUBSET V : Earliest(T) \in V \cup {None}
  BY EarliestBy
<1>3. b.kind[n] \in Kinds
  BY DEF IsBoard
<1>4. CASE b.kind[n] \in {"MANUAL", "ITEM"}
  <2> DEFINE ats == {C[i].at : i \in ClaimsOn(C, {n})}
  <2>1. ats \in SUBSET V
    BY DEF ClaimsOn
  <2>2. CompletedOf(b, C, n, g) \in {Earliest(ats), None}
    BY <1>4 DEF CompletedOf
  <2> HIDE DEF ats
  <2> QED BY <1>2, <2>1, <2>2
<1>5. CASE b.kind[n] = "SUM"
  <2> DEFINE mine == ClaimsOn(C, b.children[n])
             tips == {i \in mine : Total(Units(b, C), RunningTo(C, mine, i)) >= b.need[n]}
  <2>1. {C[i].at : i \in tips} \in SUBSET V
    BY DEF ClaimsOn
  <2>2. CompletedOf(b, C, n, g) \in {Earliest({C[i].at : i \in tips}), None}
    BY <1>5 DEF CompletedOf, TippedAt
  <2> QED BY <1>2, <2>1, <2>2
<1>6. CASE b.kind[n] = "ANY"
  <2>1. CompletedOf(b, C, n, g) = Earliest(times)
    BY <1>6 DEF CompletedOf, TimesOf
  <2> QED BY <1>1, <1>2, <2>1
<1>7. CASE b.kind[n] = "ALL"
  <2>1. CompletedOf(b, C, n, g) = IF b.children[n] # {} /\ \A c \in b.children[n] : g[c] # None THEN Max(times) ELSE None
    BY <1>7 DEF CompletedOf, TimesOf
  <2>2. ASSUME b.children[n] # {}, \A c \in b.children[n] : g[c] # None PROVE Max(times) \in V
    <3>1. times # {}
      BY <2>2 DEF TimesOf
    <3> QED BY <1>1, <3>1, MaxOf
  <2> QED BY <2>1, <2>2
<1>8. CASE b.kind[n] = "COUNT"
  <2> DEFINE T == {t \in times : Cardinality({c \in b.children[n] : g[c] # None /\ g[c] <= t}) >= b.need[n]}
  <2>1. CompletedOf(b, C, n, g) = Earliest(T)
    BY <1>8 DEF CompletedOf, TimesOf
  <2>2. T \in SUBSET V
    BY <1>1
  <2> QED BY <1>2, <2>1, <2>2
<1> QED BY <1>3, <1>4, <1>5, <1>6, <1>7, <1>8 DEF Kinds

\* The recursion of CompletedAt has a solution, and its times are times of reviews.
LEMMA CompletedIs ==
    ASSUME NEW b, NEW C, IsBoard(b), IsClaims(C), NEW V \in SUBSET Nat, \A i \in DOMAIN C : C[i].at \in V
    PROVE  /\ CompletedAt(b, C) \in [b.nodes -> V \cup {None}]
           /\ \A n \in b.nodes :
                 CompletedAt(b, C)[n] = CompletedOf(b, C, n, [c \in b.children[n] |-> CompletedAt(b, C)[c]])
<1> DEFINE W == V \cup {None}
           step == [p \in Inputs(b.nodes, b.children, W) |-> CompletedOf(b, C, p[1], p[2])]
           done == CompletedAt(b, C)
<1>1. IsFiniteSet(b.nodes) /\ b.children \in [b.nodes -> SUBSET b.nodes] /\ Grounded(b.nodes, b.children)
  BY DEF IsBoard, Grounded
<1>2. ASSUME NEW n \in b.nodes, NEW g \in [b.children[n] -> W]
      PROVE  step[<<n, g>>] = CompletedOf(b, C, n, g) /\ CompletedOf(b, C, n, g) \in W
  BY InInputs, CompletedTyped
<1>3. PICK f \in [b.nodes -> W] : Computes(f, b.nodes, b.children, step)
  <2>1. \A n \in b.nodes : \A g \in [b.children[n] -> W] : step[<<n, g>>] \in W
    <3> HIDE DEF step, W
    <3> QED BY <1>2
  <2> HIDE DEF step, W
  <2> QED BY <1>1, <2>1, BottomUp
<1>4. ASSUME NEW n \in b.nodes PROVE f[n] = CompletedOf(b, C, n, [c \in b.children[n] |-> f[c]])
  <2> DEFINE g == [c \in b.children[n] |-> f[c]]
  <2>1. g \in [b.children[n] -> W]
    BY <1>1
  <2>2. f[n] = step[<<n, g>>]
    BY <1>3 DEF Computes
  <2> HIDE DEF g, step, W
  <2>3. step[<<n, g>>] = CompletedOf(b, C, n, g)
    BY <1>2, <2>1
  <2> QED BY <2>2, <2>3 DEF g
<1>5. f = [n \in b.nodes |-> CompletedOf(b, C, n, [c \in b.children[n] |-> f[c]])]
  BY <1>4
<1> DEFINE Solves(d) == d = [n \in b.nodes |-> CompletedOf(b, C, n, [c \in b.children[n] |-> d[c]])]
<1>6. done = CHOOSE d : Solves(d)
  BY Zenon DEF CompletedAt
<1>7. Solves(f)
  BY <1>5
<1>8. Solves(done)
  <2> HIDE DEF Solves
  <2> QED BY <1>6, <1>7
<1>9. \A n \in b.nodes : done[n] = CompletedOf(b, C, n, [c \in b.children[n] |-> done[c]])
  <2> HIDE DEF done
  <2> QED BY <1>8
<1>10. DOMAIN done = b.nodes
  <2> HIDE DEF done
  <2> QED BY <1>8
\* Below a node whose time were none of V's there would be another.
<1>11. \A n \in b.nodes : done[n] \in W
  <2> DEFINE Off == {n \in b.nodes : done[n] \notin W}
  <2>1. ASSUME Off # {} PROVE FALSE
    <3>1. PICK n \in Off : b.children[n] \cap Off = {}
      <4> Off \in SUBSET b.nodes
        OBVIOUS
      <4> HIDE DEF Off
      <4> QED BY <1>1, <2>1 DEF Grounded
    <3> DEFINE g == [c \in b.children[n] |-> done[c]]
    <3>2. g \in [b.children[n] -> W]
      BY <1>1, <3>1
    <3> HIDE DEF g, done
    <3>3. CompletedOf(b, C, n, g) \in W
      BY <1>2, <3>2
    <3>4. done[n] = CompletedOf(b, C, n, g)
      BY <1>9 DEF g
    <3> QED BY <3>3, <3>4
  <2> QED BY <2>1
<1>12. done \in [b.nodes -> W]
  <2>1. done = [n \in b.nodes |-> done[n]]
    <3> HIDE DEF done
    <3> QED BY <1>8
  <2> HIDE DEF done
  <2> QED BY <1>11, <2>1
<1> QED BY <1>9, <1>12

By(x, t) == x # None /\ x <= t

\* No Claim that subtracts or adds nothing; or no review after a time, so that none does after it.
Positive(C) == \A i \in DOMAIN C : C[i].qty >= 1
Settled(C, t) == Positive(C) \/ \A i \in DOMAIN C : C[i].at <= t

\* Some row of finitely many was reviewed last.
LEMMA LastReviewed ==
    ASSUME NEW C, IsClaims(C), NEW S \in SUBSET DOMAIN C, S # {}
    PROVE  \E i \in S : \A j \in S : j = i \/ Older(C, j, i)
<1>1. IsFiniteSet(S) /\ \A i \in S : i \in Nat /\ C[i].at \in Nat
  BY FS_Subset DEF IsClaims
<1> DEFINE ats == {C[i].at : i \in S}
           last == {i \in S : C[i].at = Max(ats)}
<1>2. Max(ats) \in ats /\ \A x \in ats : x <= Max(ats)
  <2>1. ats \in SUBSET Nat /\ ats # {}
    BY <1>1
  <2>2. IsFiniteSet(ats)
    <3> DEFINE f == [i \in S |-> C[i].at]
    <3>1. f \in Surjection(S, ats)
      <4>1. f \in [S -> ats] /\ \A x \in ats : \E i \in S : f[i] = x
        OBVIOUS
      <4> QED BY <4>1 DEF Surjection
    <3> HIDE DEF f, ats
    <3> QED BY <1>1, <3>1, FS_Surjection
  <2> HIDE DEF ats
  <2> QED BY <2>1, <2>2, MaxOf
<1>3. PICK i \in last : \A j \in last : j <= i
  <2>1. last \in SUBSET Nat /\ last # {} /\ IsFiniteSet(last)
    BY <1>1, <1>2, FS_Subset
  <2> HIDE DEF last
  <2> QED BY <2>1, MaxOf
<1>4. ASSUME NEW j \in S, j # i PROVE Older(C, j, i)
  <2>1. C[i].at = Max(ats) /\ C[j].at \in ats /\ C[j].at <= Max(ats)
    BY <1>2
  <2> HIDE DEF ats
  <2>2. i \in Nat /\ j \in Nat /\ C[i].at \in Nat /\ C[j].at \in Nat /\ i \in S
    BY <1>1
  <2>3. C[j].at = C[i].at => j <= i
    BY <1>3, <2>1
  <2> QED BY <1>4, <2>1, <2>2, <2>3 DEF Older
<1> QED BY <1>4

LEMMA TippedBy ==
    ASSUME NEW b, NEW C, IsBoard(b), IsClaims(C), NEW n \in b.nodes, NEW t \in Nat, Settled(C, t)
    PROVE  By(TippedAt(b, C, n), t) <=>
               Total(Units(b, C), {i \in ClaimsOn(C, b.children[n]) : C[i].at <= t}) >= b.need[n]
<1> DEFINE units == Units(b, C)
           mine == ClaimsOn(C, b.children[n])
           upTo == {k \in mine : C[k].at <= t}
           tips == {i \in mine : Total(units, RunningTo(C, mine, i)) >= b.need[n]}
<1>1. b.need[n] \in Nat \ {0}
  BY DEF IsBoard
<1>2. \A i \in mine : i \in DOMAIN C /\ C[i].at \in Nat
  BY DEF ClaimsOn, IsClaims
<1>3. By(TippedAt(b, C, n), t) <=> Total(units, mine) >= b.need[n] /\ \E j \in tips : C[j].at <= t
  <2> DEFINE T == {C[i].at : i \in tips}
  <2>1. T \in SUBSET Nat
    BY <1>2
  <2>2. TippedAt(b, C, n) = IF Total(units, mine) >= b.need[n] THEN Earliest(T) ELSE None
    BY DEF TippedAt
  <2>3. By(Earliest(T), t) <=> \E x \in T : x <= t
    <3> HIDE DEF T
    <3> QED BY <2>1, EarliestBy DEF By
  <2> QED BY <2>2, <2>3 DEF By
<1>4. ASSUME NEW rows \in SUBSET mine
      PROVE  /\ Numbers(rows) /\ Whole(units, rows) /\ Total(units, rows) \in Int
             /\ Positive(C) => \A i \in rows : units[i] >= 0
  <2>1. \A i \in rows : C[i].qty \in Int /\ (Positive(C) => C[i].qty >= 0)
    BY <1>2 DEF IsClaims, Positive
  <2>2. Numbers(rows) /\ Whole(units, rows) /\ \A i \in rows : C[i].qty >= 0 => units[i] >= 0
    BY UnitsAddUp
  <2> HIDE DEF units
  <2>3. Total(units, rows) \in Int
    BY <2>2, MoreTotal
  <2> QED BY <2>1, <2>2, <2>3
<1>5. ASSUME NEW rows \in SUBSET mine, NEW fewer \in SUBSET rows, fewer = rows \/ Positive(C),
             Total(units, fewer) >= b.need[n]
      PROVE  Total(units, rows) >= b.need[n]
  <2>1. /\ Numbers(rows) /\ Whole(units, rows) /\ \A i \in rows \ fewer : units[i] >= 0
        /\ Total(units, rows) \in Int /\ Total(units, fewer) \in Int
    BY <1>4, <1>5
  <2> HIDE DEF units, mine
  <2>2. Total(units, fewer) <= Total(units, rows)
    BY <2>1, MoreTotal
  <2> QED BY <1>1, <1>5, <2>1, <2>2
<1>6. upTo \in SUBSET mine /\ (upTo = mine \/ Positive(C))
  BY <1>2 DEF Settled
<1>7. ASSUME Total(units, mine) >= b.need[n], NEW j \in tips, C[j].at <= t PROVE Total(units, upTo) >= b.need[n]
  <2>1. RunningTo(C, mine, j) \in SUBSET upTo
    <3>1. ASSUME NEW k \in mine, k = j \/ Older(C, k, j) PROVE C[k].at <= t
      <4>1. C[k].at \in Nat /\ C[j].at \in Nat /\ C[k].at <= C[j].at
        BY <1>2, <3>1 DEF Older
      <4> QED BY <1>7, <4>1
    <3> QED BY <3>1 DEF RunningTo
  <2>2. Total(units, RunningTo(C, mine, j)) >= b.need[n]
    OBVIOUS
  <2> HIDE DEF units, upTo, mine, tips
  <2> QED BY <1>5, <1>6, <1>7, <2>1, <2>2
<1>8. ASSUME Total(units, upTo) >= b.need[n]
      PROVE  Total(units, mine) >= b.need[n] /\ \E j \in tips : C[j].at <= t
  <2>1. Total(units, mine) >= b.need[n]
    <3> HIDE DEF units, upTo, mine
    <3> QED BY <1>5, <1>6, <1>8
  <2>2. upTo # {}
    <3> HIDE DEF upTo, units
    <3>1. ASSUME upTo = {} PROVE FALSE
      BY <1>1, <1>8, <3>1, NoTotal
    <3> QED BY <3>1
  <2>3. PICK j \in upTo : \A k \in upTo : k = j \/ Older(C, k, j)
    <3>1. upTo \in SUBSET DOMAIN C
      BY <1>2
    <3> HIDE DEF upTo
    <3> QED BY <2>2, <3>1, LastReviewed
  <2>4. RunningTo(C, mine, j) = upTo
    <3>1. ASSUME NEW k \in mine, k = j \/ Older(C, k, j) PROVE k \in upTo
      <4>1. C[k].at \in Nat /\ C[j].at \in Nat /\ C[k].at <= C[j].at /\ C[j].at <= t
        BY <1>2, <3>1 DEF Older
      <4> QED BY <4>1
    <3> QED BY <2>3, <3>1 DEF RunningTo
  <2> QED BY <1>8, <2>1, <2>3, <2>4
<1> QED BY <1>3, <1>7, <1>8

\* An ITEM of which one piece was claimed by then.
LEMMA PieceBy ==
    ASSUME NEW C, IsClaims(C), NEW mine \in SUBSET DOMAIN C, NEW t \in Nat, Settled(C, t)
    PROVE  Total(Quantity(C), {i \in mine : C[i].at <= t}) >= 1 <=>
               Total(Quantity(C), mine) >= 1 /\ \E i \in mine : C[i].at <= t
<1> DEFINE pieces == Quantity(C)
           upTo == {i \in mine : C[i].at <= t}
<1>1. ASSUME NEW rows \in SUBSET mine
      PROVE  /\ Numbers(rows) /\ Whole(pieces, rows)
             /\ Positive(C) => \A i \in rows : pieces[i] >= 1 /\ pieces[i] >= 0
  <2>1. rows \in SUBSET DOMAIN C
    OBVIOUS
  <2>2. Numbers(rows) /\ Whole(pieces, rows) /\ \A i \in rows : pieces[i] = C[i].qty /\ C[i].qty \in Int
    BY <2>1, QuantitiesAddUp
  <2> HIDE DEF pieces
  <2> QED BY <2>2 DEF Positive
<1>2. upTo \in SUBSET mine /\ (upTo = mine \/ Positive(C))
  BY DEF Settled
<1>3. upTo # {} <=> \E i \in mine : C[i].at <= t
  OBVIOUS
<1> HIDE DEF upTo, pieces
<1>4. /\ Numbers(mine) /\ Whole(pieces, mine) /\ Numbers(upTo) /\ Whole(pieces, upTo)
      /\ \A i \in mine \ upTo : pieces[i] >= 0
  BY <1>1, <1>2
<1>5. Total(pieces, upTo) \in Int /\ Total(pieces, mine) \in Int /\ Total(pieces, upTo) <= Total(pieces, mine)
  BY <1>2, <1>4, MoreTotal
<1>6. ASSUME Total(pieces, upTo) >= 1 PROVE upTo # {}
  BY <1>6, NoTotal
<1>7. ASSUME Total(pieces, mine) >= 1, upTo # {} PROVE Total(pieces, upTo) >= 1
  <2>1. CASE upTo = mine
    BY <1>7, <2>1
  <2>2. CASE Positive(C)
    <3>1. PICK k \in upTo : TRUE
      BY <1>7
    <3>2. (\A i \in upTo : pieces[i] >= 0) /\ pieces[k] >= 1 /\ pieces[k] \in Int
      BY <1>1, <1>2, <1>4, <2>2 DEF Whole
    <3>3. Total(pieces, upTo) >= pieces[k]
      BY <1>4, <3>2, SomeTotal
    <3> QED BY <1>5, <3>2, <3>3
  <2> QED BY <1>2, <2>1, <2>2
<1> QED BY <1>3, <1>5, <1>6, <1>7 DEF upTo, pieces

\* A node's time is by t exactly if it is complete with the reviews made by then, when no later one can take that away.
LEMMA CompletedBy ==
    ASSUME NEW b, NEW C, IsBoard(b), IsClaims(C), NEW n \in b.nodes, NEW t \in Nat,
           b.kind[n] \notin {"ITEM", "SUM"} \/ Settled(C, t),
           NEW g \in [b.children[n] -> Nat \cup {None}]
    PROVE  By(CompletedOf(b, C, n, g), t) <=> CompleteWith(b, C, n, t, {c \in b.children[n] : By(g[c], t)})
<1> DEFINE kids == b.children[n]
           times == TimesOf(b, n, g)
           held(x) == {c \in kids : By(g[c], x)}
<1>1. times \in SUBSET Nat /\ IsFiniteSet(times)
  BY TimesFinite
<1>2. \A T \in SUBSET Nat : By(Earliest(T), t) <=> \E x \in T : x <= t
  BY EarliestBy DEF By
<1>3. \A c \in kids : g[c] = None \/ (g[c] \in Nat /\ g[c] \in times)
  BY DEF TimesOf
<1>4. \A x \in times : x # None /\ x \in Nat /\ \E c \in kids : g[c] = x
  BY <1>1 DEF TimesOf
<1>5. b.kind[n] \in Kinds
  BY DEF IsBoard
<1>6. CASE b.kind[n] \in {"MANUAL", "ITEM"}
  <2> DEFINE mine == ClaimsOn(C, {n})
             T == {C[i].at : i \in mine}
  <2>1. T \in SUBSET Nat /\ mine \in SUBSET DOMAIN C
    BY DEF ClaimsOn, IsClaims
  <2>2. By(Earliest(T), t) <=> \E i \in mine : C[i].at <= t
    <3>1. By(Earliest(T), t) <=> \E x \in T : x <= t
      <4> HIDE DEF T
      <4> QED BY <1>2, <2>1
    <3> QED BY <3>1
  <2>3. CASE b.kind[n] = "MANUAL"
    <3>1. CompletedOf(b, C, n, g) = Earliest(T)
      BY <2>3 DEF CompletedOf
    <3> HIDE DEF T
    <3> QED BY <2>2, <2>3, <3>1 DEF CompleteWith
  <2>4. CASE b.kind[n] = "ITEM"
    <3>1. CompletedOf(b, C, n, g) = IF Total(Quantity(C), mine) >= 1 THEN Earliest(T) ELSE None
      BY <2>4 DEF CompletedOf
    <3>2. By(CompletedOf(b, C, n, g), t) <=> Total(Quantity(C), mine) >= 1 /\ \E i \in mine : C[i].at <= t
      <4> HIDE DEF T, mine
      <4> QED BY <2>2, <3>1 DEF By
    <3>3. CompleteWith(b, C, n, t, held(t)) <=> Total(Quantity(C), {i \in mine : C[i].at <= t}) >= 1
      BY <2>4 DEF CompleteWith
    <3> HIDE DEF T, mine
    <3> QED BY <2>1, <2>4, <3>2, <3>3, PieceBy
  <2> QED BY <1>6, <2>3, <2>4
<1>7. CASE b.kind[n] = "SUM"
  <2>1. CompletedOf(b, C, n, g) = TippedAt(b, C, n)
    BY <1>7 DEF CompletedOf
  <2> QED BY <1>7, <2>1, TippedBy DEF CompleteWith
<1>8. CASE b.kind[n] = "ANY"
  <2>1. CompletedOf(b, C, n, g) = Earliest(times)
    BY <1>8 DEF CompletedOf, TimesOf
  <2>2. By(Earliest(times), t) <=> \E x \in times : x <= t
    BY <1>1, <1>2
  <2>3. (\E x \in times : x <= t) <=> \E c \in kids : By(g[c], t)
    BY <1>3, <1>4 DEF By
  <2> QED BY <1>8, <2>1, <2>2, <2>3 DEF CompleteWith
<1>9. CASE b.kind[n] = "ALL"
  <2>1. CompletedOf(b, C, n, g) = IF kids # {} /\ \A c \in kids : g[c] # None THEN Max(times) ELSE None
    BY <1>9 DEF CompletedOf, TimesOf
  <2>2. CASE kids # {} /\ \A c \in kids : g[c] # None
    <3>1. times # {}
      BY <2>2 DEF TimesOf
    <3>2. Max(times) \in times /\ \A x \in times : x <= Max(times)
      BY <1>1, <3>1, MaxOf
    <3>3. Max(times) \in Nat /\ Max(times) # None
      BY <1>4, <3>2
    <3>4. Max(times) <= t <=> \A c \in kids : g[c] <= t
      <4>1. ASSUME Max(times) <= t, NEW c \in kids PROVE g[c] <= t
        <5>1. g[c] \in Nat /\ g[c] <= Max(times)
          BY <1>3, <2>2, <3>2
        <5> QED BY <3>3, <4>1, <5>1
      <4>2. ASSUME \A c \in kids : g[c] <= t PROVE Max(times) <= t
        BY <1>4, <3>2, <4>2
      <4> QED BY <4>1, <4>2
    <3> QED BY <1>9, <2>1, <2>2, <3>3, <3>4 DEF CompleteWith, By
  <2>3. CASE ~(kids # {} /\ \A c \in kids : g[c] # None)
    BY <1>9, <2>1, <2>3 DEF CompleteWith, By
  <2> QED BY <2>2, <2>3
<1>10. CASE b.kind[n] = "COUNT"
  <2> DEFINE T == {x \in times : Cardinality(held(x)) >= b.need[n]}
  <2>1. CompletedOf(b, C, n, g) = Earliest(T)
    BY <1>10 DEF CompletedOf, TimesOf, By
  <2>2. T \in SUBSET Nat
    BY <1>1
  <2>3. By(CompletedOf(b, C, n, g), t) <=> \E x \in T : x <= t
    <3> HIDE DEF T
    <3> QED BY <1>2, <2>1, <2>2
  <2>4. b.need[n] \in Nat \ {0}
    BY DEF IsBoard
  <2>5. \A x \in Nat : IsFiniteSet(held(x)) /\ Cardinality(held(x)) \in Nat
    <3>1. \A x : held(x) \subseteq kids
      OBVIOUS
    <3> HIDE DEF held
    <3> QED BY <3>1, ChildrenFinite, FS_Subset, FS_CardinalityType
  <2>6. ASSUME NEW x \in T, x <= t PROVE Cardinality(held(t)) >= b.need[n]
    <3>1. x \in Nat /\ Cardinality(held(x)) >= b.need[n]
      BY <1>1
    <3>2. held(x) \subseteq held(t)
      BY <1>3, <2>6, <3>1 DEF By
    <3> HIDE DEF held, T
    <3>3. Cardinality(held(x)) <= Cardinality(held(t))
      BY <2>5, <3>2, FS_Subset
    <3> QED BY <2>4, <2>5, <3>1, <3>3
  <2>7. ASSUME Cardinality(held(t)) >= b.need[n] PROVE \E x \in T : x <= t
    <3> DEFINE S == {x \in times : x <= t}
    <3>1. held(t) # {}
      <4> HIDE DEF held
      <4> QED BY <2>4, <2>7, FS_EmptySet
    <3>2. S # {}
      BY <1>3, <3>1 DEF By
    <3>3. S \in SUBSET Nat /\ IsFiniteSet(S)
      BY <1>1, FS_Subset
    <3>4. Max(S) \in S /\ \A x \in S : x <= Max(S)
      <4> HIDE DEF S
      <4> QED BY <3>2, <3>3, MaxOf
    <3>5. PICK m \in S : \A x \in S : x <= m
      BY <3>4
    <3>6. m \in Nat /\ m <= t /\ m \in times
      BY <3>3
    <3>7. held(m) = held(t)
      <4>1. ASSUME NEW c \in held(m) PROVE c \in held(t)
        BY <1>3, <3>6, <4>1 DEF By
      <4>2. ASSUME NEW c \in held(t) PROVE c \in held(m)
        BY <1>3, <3>5, <4>2 DEF By
      <4> QED BY <4>1, <4>2
    <3> HIDE DEF held
    <3> QED BY <2>7, <3>6, <3>7
  <2> QED BY <1>10, <2>3, <2>6, <2>7 DEF CompleteWith
<1> QED BY <1>5, <1>6, <1>7, <1>8, <1>9, <1>10 DEF Kinds

LEMMA DoneBy ==
    ASSUME NEW b, NEW C, IsBoard(b), IsClaims(C), NEW t \in Nat, Settled(C, t)
    PROVE  \A n \in b.nodes :
               By(CompletedAt(b, C)[n], t) <=> CompleteWith(b, C, n, t, {c \in b.children[n] : By(CompletedAt(b, C)[c], t)})
<1>1. SUFFICES ASSUME NEW n \in b.nodes
               PROVE  By(CompletedAt(b, C)[n], t) <=>
                          CompleteWith(b, C, n, t, {c \in b.children[n] : By(CompletedAt(b, C)[c], t)})
  OBVIOUS
<1> DEFINE done == CompletedAt(b, C)
           g == [c \in b.children[n] |-> done[c]]
<1>2. \A i \in DOMAIN C : C[i].at \in Nat
  BY DEF IsClaims
<1>3. done \in [b.nodes -> Nat \cup {None}] /\ done[n] = CompletedOf(b, C, n, g)
  <2>1. PICK V \in SUBSET Nat : V = Nat
    OBVIOUS
  <2>2. \A i \in DOMAIN C : C[i].at \in V
    BY <1>2, <2>1
  <2>3. CompletedAt(b, C) \in [b.nodes -> V \cup {None}] /\ done[n] = CompletedOf(b, C, n, g)
    <3>1. V \in SUBSET Nat
      BY <2>1
    <3>2. /\ CompletedAt(b, C) \in [b.nodes -> V \cup {None}]
          /\ \A m \in b.nodes :
                CompletedAt(b, C)[m] = CompletedOf(b, C, m, [c \in b.children[m] |-> CompletedAt(b, C)[c]])
      BY <2>2, <3>1, CompletedIs
    <3> QED BY <3>2
  <2> QED BY <2>1, <2>3
<1>4. g \in [b.children[n] -> Nat \cup {None}] /\ \A c \in b.children[n] : g[c] = done[c]
  <2> HIDE DEF done
  <2> QED BY <1>3, ChildrenFinite
<1>5. {c \in b.children[n] : By(g[c], t)} = {c \in b.children[n] : By(done[c], t)}
  BY <1>4
<1> HIDE DEF g, done
<1>6. By(CompletedOf(b, C, n, g), t) <=> CompleteWith(b, C, n, t, {c \in b.children[n] : By(g[c], t)})
  BY <1>4, CompletedBy
<1> QED BY <1>3, <1>5, <1>6 DEF done

-----------------------------------------------------------------------------
(* The lists of approved Claims that are scored. *)

ApprovedClaims == [node : Leaves(anyBoard), qty : Quantities, at : 0..MaxAt]

\* ScoringTyped: a board with no cycle, and Claims on its leaves.
ScoringInv == anyBoard \in ScoredBoards /\ anyClaims \in Seq(ApprovedClaims)

THEOREM ScoringTyped == ScoringSpec => []ScoringInv
<1>1. ScoringInit => ScoringInv
  BY EmptySeq DEF ScoringInit, ScoringInv
<1>2. ScoringInv /\ [ScoringNext]_scoringVars => ScoringInv'
  <2>1. SUFFICES ASSUME ScoringInv, [ScoringNext]_scoringVars PROVE ScoringInv'
    OBVIOUS
  <2>2. CASE UNCHANGED scoringVars
    BY <2>1, <2>2 DEF ScoringInv, ApprovedClaims, scoringVars
  <2>3. ASSUME NEW n \in Leaves(anyBoard), NEW qty \in Quantities, NEW at \in 0..MaxAt, OneApproved(n, qty, at)
        PROVE  ScoringInv'
    <3>1. [node |-> n, qty |-> qty, at |-> at] \in ApprovedClaims
      BY DEF ApprovedClaims
    <3>2. anyClaims' \in Seq(ApprovedClaims)
      BY <2>1, <2>3, <3>1, AppendProperties DEF ScoringInv, OneApproved
    <3>3. anyBoard' = anyBoard
      BY <2>3 DEF OneApproved
    <3> QED BY <2>1, <3>2, <3>3 DEF ScoringInv, ApprovedClaims
  <2> QED BY <2>1, <2>2, <2>3 DEF ScoringNext
<1> QED BY <1>1, <1>2, PTL DEF ScoringSpec

LEMMA ScoredAre ==
    ASSUME ScoringInv
    PROVE  /\ IsBoard(anyBoard) /\ IsClaims(anyClaims)
           /\ \A i \in DOMAIN anyClaims : anyClaims[i].at \in 0..MaxAt
<1>1. DOMAIN anyClaims = 1..Len(anyClaims) /\ Len(anyClaims) \in Nat
  BY LenProperties DEF ScoringInv
<1>2. \A i \in DOMAIN anyClaims : anyClaims[i] \in ApprovedClaims
  BY <1>1, ElementOfSeq DEF ScoringInv
<1>3. \A i \in DOMAIN anyClaims : anyClaims[i].qty \in Int /\ anyClaims[i].at \in Nat /\ anyClaims[i].at \in 0..MaxAt
  <2>1. \A i \in DOMAIN anyClaims : anyClaims[i].qty \in Quantities /\ anyClaims[i].at \in 0..MaxAt
    BY <1>2 DEF ApprovedClaims
  <2>2. \A q \in Quantities : q \in Int
    BY ScoringBoundsAssumption
  <2>3. \A at \in 0..MaxAt : at \in Nat
    OBVIOUS
  <2> QED BY <2>1, <2>2, <2>3
<1>4. IsFiniteSet(DOMAIN anyClaims) /\ DOMAIN anyClaims \subseteq Nat \ {0}
  <2>1. IsFiniteSet(1..Len(anyClaims))
    BY <1>1, FS_Interval
  <2> QED BY <1>1, <2>1
<1> QED BY <1>3, <1>4, ScoredBoardsAssumption DEF ScoringInv, IsClaims

LEMMA YesOrNo ==
    ASSUME NEW b, NEW C, NEW n, NEW t, NEW held, b.kind[n] \in Kinds
    PROVE  CompleteWith(b, C, n, t, held) \in BOOLEAN
<1> DEFINE rows(nodes) == {i \in ClaimsOn(C, nodes) : C[i].at <= t}
           with == CompleteWith(b, C, n, t, held)
<1>1. CASE b.kind[n] = "MANUAL"
  <2>1. with = (rows({n}) # {})
    BY <1>1 DEF CompleteWith
  <2> QED BY <2>1
<1>2. CASE b.kind[n] = "ITEM"
  <2>1. with = (Total(Quantity(C), rows({n})) >= 1)
    BY <1>2 DEF CompleteWith
  <2>2. (Total(Quantity(C), rows({n})) >= 1) \in BOOLEAN
    OBVIOUS
  <2> QED BY <2>1, <2>2, Zenon
<1>3. CASE b.kind[n] = "SUM"
  <2>1. with = (Total(Units(b, C), rows(b.children[n])) >= b.need[n])
    BY <1>3 DEF CompleteWith
  <2>2. (Total(Units(b, C), rows(b.children[n])) >= b.need[n]) \in BOOLEAN
    OBVIOUS
  <2> QED BY <2>1, <2>2, Zenon
<1>4. CASE b.kind[n] = "ALL"
  <2>1. with = (b.children[n] # {} /\ b.children[n] \subseteq held)
    BY <1>4 DEF CompleteWith
  <2> QED BY <2>1
<1>5. CASE b.kind[n] = "ANY"
  <2>1. with = (held # {})
    BY <1>5 DEF CompleteWith
  <2> QED BY <2>1
<1>6. CASE b.kind[n] = "COUNT"
  <2>1. with = (Cardinality(held) >= b.need[n])
    BY <1>6 DEF CompleteWith
  <2>2. (Cardinality(held) >= b.need[n]) \in BOOLEAN
    OBVIOUS
  <2> QED BY <2>1, <2>2, Zenon
<1> QED BY <1>1, <1>2, <1>3, <1>4, <1>5, <1>6 DEF Kinds

\* The recursion of CompleteBy has a solution, the nodes whose time is by then.
LEMMA CompleteByIs ==
    ASSUME ScoringInv, NEW t \in Nat, Settled(anyClaims, t)
    PROVE  \A n \in anyBoard.nodes : CompleteBy(t)[n] <=> By(CompletedAt(anyBoard, anyClaims)[n], t)
<1> DEFINE b == anyBoard
           C == anyClaims
           done == CompletedAt(b, C)
           holds == CompleteBy(t)
           Solves(f) == f = [n \in b.nodes |-> CompleteWith(b, C, n, t, {c \in b.children[n] : f[c]})]
           h == [n \in b.nodes |-> By(done[n], t)]
<1>1. IsBoard(b) /\ IsClaims(C)
  BY ScoredAre
<1>2. holds = CHOOSE f : Solves(f)
  BY Zenon DEF CompleteBy
<1>3. \A n \in b.nodes : b.children[n] \subseteq b.nodes
  BY <1>1, ChildrenFinite
<1>4. \A n \in b.nodes : By(done[n], t) <=> CompleteWith(b, C, n, t, {c \in b.children[n] : By(done[c], t)})
  BY <1>1, DoneBy
<1>5. Solves(h)
  <2> HIDE DEF done
  <2>1. ASSUME NEW n \in b.nodes PROVE h[n] = CompleteWith(b, C, n, t, {c \in b.children[n] : h[c]})
    <3>1. {c \in b.children[n] : h[c]} = {c \in b.children[n] : By(done[c], t)}
      BY <1>3
    <3>2. By(done[n], t) \in BOOLEAN
      BY DEF By
    <3>3. CompleteWith(b, C, n, t, {c \in b.children[n] : h[c]}) \in BOOLEAN
      <4>1. b.kind[n] \in Kinds
        BY <1>1 DEF IsBoard
      <4> HIDE DEF h, b, C
      <4> QED BY <4>1, YesOrNo
    <3> QED BY <1>4, <3>1, <3>2, <3>3
  <2> QED BY <2>1
<1>6. Solves(holds)
  <2> HIDE DEF Solves, holds, h
  <2> QED BY <1>2, <1>5
<1>7. \A n \in b.nodes : holds[n] = CompleteWith(b, C, n, t, {c \in b.children[n] : holds[c]})
  <2> HIDE DEF holds
  <2> QED BY <1>6
<1> HIDE DEF holds, done
<1> DEFINE Off == {n \in b.nodes : ~(holds[n] <=> By(done[n], t))}
<1>8. ASSUME Off # {} PROVE FALSE
  <2>1. PICK n \in Off : b.children[n] \cap Off = {}
    <3>1. Off \in SUBSET b.nodes
      OBVIOUS
    <3> HIDE DEF Off
    <3> QED BY <1>1, <1>8, <3>1 DEF IsBoard
  <2>2. {c \in b.children[n] : holds[c]} = {c \in b.children[n] : By(done[c], t)}
    BY <1>3, <2>1
  <2> QED BY <1>4, <1>7, <2>2
<1> QED BY <1>8 DEF holds, done

\* CompletedWhenFirstTrue (engine.ts evaluateGraph): a node is complete exactly when it is with all the reviews made, and
\* if no Claim has a quantity below 1 it was completed at the first second it would have been with the reviews made by
\* then, on every board without a cycle and for every list of approved Claims.
THEOREM CompletionsDated == ScoringSpec => []CompletedWhenFirstTrue
<1>1. ScoringInv => CompletedWhenFirstTrue
  <2>1. SUFFICES ASSUME ScoringInv, NEW n \in anyBoard.nodes
                 PROVE  LET at == CompletedAt(anyBoard, anyClaims)[n] IN
                        /\ at # None <=> CompleteBy(MaxAt)[n]
                        /\ Positive(anyClaims) => at = Earliest({t \in 0..MaxAt : CompleteBy(t)[n]})
    BY DEF CompletedWhenFirstTrue, Positive
  <2> DEFINE at == CompletedAt(anyBoard, anyClaims)[n]
             T == {t \in 0..MaxAt : CompleteBy(t)[n]}
  <2>2. at \in (0..MaxAt) \cup {None}
    <3>1. PICK V \in SUBSET Nat : V = 0..MaxAt
      BY ScoringBoundsAssumption
    <3>2. IsBoard(anyBoard) /\ IsClaims(anyClaims) /\ \A i \in DOMAIN anyClaims : anyClaims[i].at \in V
      BY <2>1, <3>1, ScoredAre
    <3>3. CompletedAt(anyBoard, anyClaims) \in [anyBoard.nodes -> V \cup {None}]
      BY <3>2, CompletedIs
    <3> QED BY <2>1, <3>1, <3>3
  <2> HIDE DEF at
  <2>3. at # None <=> CompleteBy(MaxAt)[n]
    <3>1. MaxAt \in Nat /\ \A i \in DOMAIN anyClaims : anyClaims[i].at <= MaxAt
      BY <2>1, ScoredAre, ScoringBoundsAssumption
    <3>2. CompleteBy(MaxAt)[n] <=> By(at, MaxAt)
      BY <2>1, <3>1, CompleteByIs DEF Settled, at
    <3> QED BY <2>2, <3>1, <3>2 DEF By
  <2>4. ASSUME Positive(anyClaims) PROVE at = Earliest(T)
    <3>1. T = {t \in 0..MaxAt : By(at, t)}
      <4>1. \A t \in 0..MaxAt : t \in Nat /\ Settled(anyClaims, t)
        BY <2>4, ScoringBoundsAssumption DEF Settled
      <4> QED BY <2>1, <4>1, CompleteByIs DEF at
    <3> HIDE DEF T
    <3>2. T \in SUBSET Nat
      BY <3>1, ScoringBoundsAssumption
    <3>3. CASE at = None
      <4>1. T = {}
        BY <3>1, <3>3 DEF By
      <4> QED BY <3>3, <4>1 DEF Earliest
    <3>4. CASE at \in 0..MaxAt
      <4>1. at \in T /\ \A t \in T : at <= t
        BY <3>1, <3>4, TimesAssumption DEF By
      <4>2. Earliest(T) \in T /\ Earliest(T) <= at
        <5>1. Earliest(T) # None /\ Earliest(T) <= at
          BY <3>2, <4>1, EarliestBy
        <5> QED BY <3>2, <5>1, EarliestBy
      <4>3. at \in Nat /\ Earliest(T) \in Nat /\ at <= Earliest(T) /\ Earliest(T) <= at
        BY <3>2, <4>1, <4>2
      <4> QED BY <4>3
    <3> QED BY <2>2, <3>3, <3>4
  <2> QED BY <2>3, <2>4 DEF at, T
<1> QED BY <1>1, ScoringTyped, PTL

-----------------------------------------------------------------------------
(* Which Claims on an Exclusive Item count. *)

\* What has been used elsewhere has been, from either side.
LEMMA ClashBothWays ==
    ASSUME NEW b, NEW rules, NEW n, NEW m
    PROVE  /\ ~Clash(b, rules, n, n)
           /\ Clash(b, rules, n, m) => Clash(b, rules, m, n)
  BY DEF Clash

\* Some row of any was reviewed first.
LEMMA FirstReviewed ==
    ASSUME NEW C, IsClaims(C), NEW S \in SUBSET DOMAIN C, S # {}
    PROVE  \E i \in S : \A j \in S : ~Older(C, j, i)
<1>1. \A i \in S : i \in Nat /\ C[i].at \in Nat
  BY DEF IsClaims
<1> DEFINE ats == {C[i].at : i \in S}
<1>2. PICK m \in ats : \A x \in ats : m <= x
  <2> ats \in SUBSET Nat /\ ats # {}
    BY <1>1
  <2> HIDE DEF ats
  <2> QED BY SmallestOf
<1> DEFINE first == {i \in S : C[i].at = m}
<1>3. PICK i \in first : \A j \in first : i <= j
  <2> first \in SUBSET Nat /\ first # {}
    BY <1>1
  <2> HIDE DEF first
  <2> QED BY SmallestOf
<1>4. ASSUME NEW j \in S, Older(C, j, i) PROVE FALSE
  <2>1. i \in Nat /\ j \in Nat /\ C[i].at = m /\ C[j].at \in Nat /\ m \in Nat /\ m <= C[j].at
    BY <1>1, <1>2
  <2>2. C[j].at = m /\ j < i
    BY <1>4, <2>1 DEF Older
  <2>3. i <= j
    BY <1>3, <2>2
  <2> QED BY <2>1, <2>2, <2>3
<1> QED BY <1>4

LEMMA CountedIs ==
    ASSUME NEW b, NEW C, IsClaims(C)
    PROVE  /\ Counted(b, C) \subseteq DOMAIN C
           /\ \A i \in DOMAIN C : i \in Counted(b, C) <=>
                 \A j \in Counted(b, C) : ~(Older(C, j, i) /\ Clash(b, b.rules, C[i].node, C[j].node))
<1> DEFINE rows == DOMAIN C
           Taken(j, i) == Older(C, j, i) /\ Clash(b, b.rules, C[i].node, C[j].node)
           body(f, i) == \A j \in DOMAIN C : Older(C, j, i) /\ Clash(b, b.rules, C[i].node, C[j].node) => ~f[j]
           under == [i \in rows |-> {j \in rows : Taken(j, i)}]
           step == [p \in Inputs(rows, under, BOOLEAN) |-> body(p[2], p[1])]
           Solves(f) == f = [i \in DOMAIN C |-> body(f, i)]
           counts == CHOOSE f : Solves(f)
<1>1. IsFiniteSet(rows) /\ under \in [rows -> SUBSET rows]
  BY DEF IsClaims
<1>2. Grounded(rows, under)
  <2>1. ASSUME NEW S \in SUBSET rows, S # {} PROVE \E i \in S : under[i] \cap S = {}
    <3>1. PICK i \in S : \A j \in S : ~Older(C, j, i)
      BY <2>1, FirstReviewed
    <3> QED BY <3>1
  <2> HIDE DEF under
  <2> QED BY <2>1 DEF Grounded
<1>3. ASSUME NEW i \in rows, NEW g \in [under[i] -> BOOLEAN] PROVE step[<<i, g>>] = body(g, i)
  BY InInputs
<1>4. PICK f \in [rows -> BOOLEAN] : Computes(f, rows, under, step)
  <2>1. \A i \in rows : \A g \in [under[i] -> BOOLEAN] : step[<<i, g>>] \in BOOLEAN
    <3>1. SUFFICES ASSUME NEW i \in rows, NEW g \in [under[i] -> BOOLEAN] PROVE step[<<i, g>>] \in BOOLEAN
      OBVIOUS
    <3>2. body(g, i) \in BOOLEAN
      OBVIOUS
    <3> HIDE DEF under, step, body
    <3> QED BY <1>3, <3>2
  <2> HIDE DEF under, step
  <2> QED BY <1>1, <1>2, <2>1, BottomUp
<1>5. ASSUME NEW i \in rows PROVE f[i] = body(f, i)
  <2> DEFINE g == [c \in under[i] |-> f[c]]
  <2>1. f[i] = step[<<i, g>>]
    BY <1>4 DEF Computes
  <2>2. g \in [under[i] -> BOOLEAN]
    BY <1>1
  <2>3. \A j \in rows : Taken(j, i) => g[j] = f[j]
    OBVIOUS
  <2>4. body(g, i) = body(f, i)
    <3> HIDE DEF g
    <3> QED BY <2>3
  <2>5. step[<<i, g>>] = body(g, i)
    <3> HIDE DEF g, step, under, body
    <3> QED BY <1>3, <2>2
  <2> QED BY <2>1, <2>4, <2>5
<1>6. Solves(f)
  BY <1>5
<1>7. Solves(counts)
  <2> HIDE DEF Solves
  <2> QED BY <1>6
<1>8. Counted(b, C) = {i \in rows : counts[i]}
  BY Zenon DEF Counted
<1> HIDE DEF counts
<1>9. \A i \in rows : counts[i] <=> body(counts, i)
  BY <1>7
<1>10. \A i \in rows : i \in Counted(b, C) <=> body(counts, i)
  BY <1>8, <1>9
<1> QED BY <1>8, <1>10

\* OnePlaceScores (shared exclusivity.ts keepFirstScope): of the Claims that count no two use one Exclusive Item, or one
\* group of them, in different places, and one is left out only for another that counts and was reviewed no later.
THEOREM ItemsScoreOnce == ScoringSpec => []OnePlaceScores
<1>1. ScoringInv => OnePlaceScores
  <2>1. SUFFICES ASSUME ScoringInv PROVE OnePlaceScores
    OBVIOUS
  <2> DEFINE counted == Counted(anyBoard, anyClaims)
             Clashing(i, j) == Clash(anyBoard, anyBoard.rules, anyClaims[i].node, anyClaims[j].node)
  <2>2. IsClaims(anyClaims)
    BY <2>1, ScoredAre
  <2>3. /\ counted \subseteq DOMAIN anyClaims
        /\ \A i \in DOMAIN anyClaims : i \in counted <=> \A j \in counted : ~(Older(anyClaims, j, i) /\ Clashing(i, j))
    BY <2>2, CountedIs
  <2>4. \A i, j : ~Clashing(i, i) /\ (Clashing(i, j) => Clashing(j, i))
    BY ClashBothWays
  <2> HIDE DEF counted, Clashing
  <2>5. ASSUME NEW i \in counted, NEW j \in counted, Clashing(i, j) PROVE FALSE
    <3>1. i # j /\ Clashing(j, i)
      BY <2>4, <2>5
    <3>2. Older(anyClaims, i, j) \/ Older(anyClaims, j, i)
      <4>1. i \in Nat /\ j \in Nat /\ anyClaims[i].at \in Nat /\ anyClaims[j].at \in Nat
        BY <2>2, <2>3 DEF IsClaims
      <4> QED BY <3>1, <4>1 DEF Older
    <3> QED BY <2>3, <2>5, <3>1, <3>2
  <2>6. ASSUME NEW i \in DOMAIN anyClaims \ counted
        PROVE  \E j \in counted : anyClaims[j].at <= anyClaims[i].at /\ Clashing(i, j)
    <3>1. PICK j \in counted : Older(anyClaims, j, i) /\ Clashing(i, j)
      BY <2>3
    <3>2. anyClaims[i].at \in Nat /\ anyClaims[j].at \in Nat
      BY <2>2, <2>3 DEF IsClaims
    <3>3. anyClaims[j].at <= anyClaims[i].at
      BY <3>1, <3>2 DEF Older
    <3> QED BY <3>1, <3>3
  <2> QED BY <2>5, <2>6 DEF OnePlaceScores, counted, Clashing
<1> QED BY <1>1, ScoringTyped, PTL

-----------------------------------------------------------------------------
(* What the gates keep closed. *)

\* The recursion of GateBlocked has a solution.
LEMMA BlockedIs ==
    ASSUME NEW b, IsBoard(b), NEW completed
    PROVE  \A n \in b.nodes : GateBlocked(b, completed)[n] <=>
               \/ b.submitGate[n] # None /\ b.submitGate[n] \notin completed
               \/ Parents(b, n) # {} /\ \A p \in Parents(b, n) : GateBlocked(b, completed)[p]
<1> DEFINE nodes == b.nodes
           over == [n \in nodes |-> {p \in nodes : n \in b.children[p]}]
           body(f, n) == \/ b.submitGate[n] # None /\ b.submitGate[n] \notin completed
                         \/ Parents(b, n) # {} /\ \A p \in Parents(b, n) : f[p]
           step == [p \in Inputs(nodes, over, BOOLEAN) |-> body(p[2], p[1])]
           Solves(f) == f = [n \in b.nodes |-> body(f, n)]
           blocked == GateBlocked(b, completed)
<1>1. IsFiniteSet(nodes) /\ over \in [nodes -> SUBSET nodes] /\ Grounded(nodes, over)
  <2>1. IsFiniteSet(nodes) /\ b.children \in [nodes -> SUBSET nodes] /\ Grounded(nodes, b.children)
    BY DEF IsBoard, Grounded
  <2>2. Grounded(nodes, over)
    BY <2>1, GroundedUpward
  <2> QED BY <2>1, <2>2
<1>2. \A n \in nodes : over[n] = Parents(b, n)
  BY DEF Parents
<1>3. ASSUME NEW n \in nodes, NEW g \in [over[n] -> BOOLEAN] PROVE step[<<n, g>>] = body(g, n)
  BY InInputs
<1>4. PICK f \in [nodes -> BOOLEAN] : Computes(f, nodes, over, step)
  <2>1. \A n \in nodes : \A g \in [over[n] -> BOOLEAN] : step[<<n, g>>] \in BOOLEAN
    <3>1. SUFFICES ASSUME NEW n \in nodes, NEW g \in [over[n] -> BOOLEAN] PROVE step[<<n, g>>] \in BOOLEAN
      OBVIOUS
    <3>2. body(g, n) \in BOOLEAN
      OBVIOUS
    <3> HIDE DEF over, step, body
    <3> QED BY <1>3, <3>2
  <2> HIDE DEF over, step
  <2> QED BY <1>1, <2>1, BottomUp
<1>5. ASSUME NEW n \in nodes PROVE f[n] = body(f, n)
  <2> DEFINE g == [c \in over[n] |-> f[c]]
  <2>1. f[n] = step[<<n, g>>]
    BY <1>4 DEF Computes
  <2>2. g \in [over[n] -> BOOLEAN]
    BY <1>1
  <2>3. \A p \in Parents(b, n) : g[p] = f[p]
    BY <1>2
  <2>4. body(g, n) = body(f, n)
    <3> HIDE DEF g
    <3> QED BY <2>3
  <2>5. step[<<n, g>>] = body(g, n)
    <3> HIDE DEF g, step, over, body
    <3> QED BY <1>3, <2>2
  <2> QED BY <2>1, <2>4, <2>5
<1>6. Solves(f)
  BY <1>5
<1>7. blocked = CHOOSE h : Solves(h)
  BY Zenon DEF GateBlocked
<1>8. Solves(blocked)
  <2> HIDE DEF Solves, blocked
  <2> QED BY <1>6, <1>7
<1> HIDE DEF blocked
<1>9. \A n \in nodes : blocked[n] <=> body(blocked, n)
  BY <1>8
<1> QED BY <1>9 DEF blocked

\* OpenRoute (graphService.ts submitGateBlock): a Claim is refused for its gates exactly when every route from its item
\* to the top of the board has a closed gate on it.
THEOREM OpenRoutesTaken == ScoringSpec => []OpenRoute
<1>1. ScoringInv => OpenRoute
  <2> DEFINE completed == DOMAIN Score(anyBoard, anyClaims)
             passable == {n \in anyBoard.nodes : anyBoard.submitGate[n] = None \/ anyBoard.submitGate[n] \in completed}
             parents == [n \in anyBoard.nodes |-> {p \in anyBoard.nodes : n \in anyBoard.children[p]}]
             blocked == GateBlocked(anyBoard, completed)
             Route(leaf, route) == leaf \in route /\ \A n \in route : parents[n] = {} \/ parents[n] \cap route # {}
  <2>1. SUFFICES ASSUME ScoringInv, NEW leaf \in Leaves(anyBoard)
                 PROVE  ~blocked[leaf] <=> \E route \in SUBSET passable : Route(leaf, route)
    BY DEF OpenRoute
  <2>2. IsBoard(anyBoard)
    BY <2>1, ScoredAre
  <2>3. \A n \in anyBoard.nodes :
            blocked[n] <=> (n \notin passable \/ (parents[n] # {} /\ \A p \in parents[n] : blocked[p]))
    <3>1. ASSUME NEW n \in anyBoard.nodes
          PROVE  blocked[n] <=> (n \notin passable \/ (parents[n] # {} /\ \A p \in parents[n] : blocked[p]))
      <4> HIDE DEF completed
      <4>1. parents[n] = Parents(anyBoard, n)
        BY DEF Parents
      <4> HIDE DEF parents
      <4> QED BY <2>2, <4>1, BlockedIs
    <3> QED BY <3>1
  <2>4. leaf \in anyBoard.nodes
    BY DEF Leaves
  <2> HIDE DEF blocked, completed
  <2>5. ASSUME ~blocked[leaf] PROVE \E route \in SUBSET passable : Route(leaf, route)
    <3> DEFINE route == {n \in anyBoard.nodes : ~blocked[n]}
    <3>1. route \in SUBSET passable
      BY <2>3
    <3>2. Route(leaf, route)
      BY <2>3, <2>4, <2>5
    <3> QED BY <3>1, <3>2
  <2>6. ASSUME NEW route \in SUBSET passable, Route(leaf, route), blocked[leaf] PROVE FALSE
    <3> DEFINE over == [n \in anyBoard.nodes |-> {p \in anyBoard.nodes : n \in anyBoard.children[p]}]
               S == {n \in route : blocked[n]}
    <3>1. Grounded(anyBoard.nodes, over)
      <4>1. IsFiniteSet(anyBoard.nodes) /\ anyBoard.children \in [anyBoard.nodes -> SUBSET anyBoard.nodes]
            /\ Grounded(anyBoard.nodes, anyBoard.children)
        BY <2>2 DEF IsBoard, Grounded
      <4> QED BY <4>1, GroundedUpward
    <3>2. S \in SUBSET anyBoard.nodes /\ S # {}
      BY <2>6
    <3>3. PICK n \in S : over[n] \cap S = {}
      <4> HIDE DEF S, over
      <4> QED BY <3>1, <3>2 DEF Grounded
    <3>4. n \in passable /\ blocked[n] /\ n \in anyBoard.nodes
      OBVIOUS
    <3>5. parents[n] # {} /\ \A p \in parents[n] : blocked[p]
      BY <2>3, <3>4
    <3>6. parents[n] \cap route # {}
      BY <2>6, <3>5
    <3> QED BY <3>3, <3>5, <3>6
  <2> QED BY <2>5, <2>6
<1> QED BY <1>1, ScoringTyped, PTL

-----------------------------------------------------------------------------
(* What a later review adds. *)

\* D has the Claims of C and others, none that subtracts, that were reviewed later than all of them.
Later(C, D) ==
    /\ IsClaims(C) /\ IsClaims(D)
    /\ DOMAIN C \subseteq DOMAIN D
    /\ \A i \in DOMAIN C : D[i] = C[i]
    /\ \A j \in DOMAIN D \ DOMAIN C : D[j].qty >= 0
    /\ \A i \in DOMAIN C : \A j \in DOMAIN D \ DOMAIN C : C[i].at < D[j].at

\* And so have any of its Claims, if the same are left out of C.
LEMMA LaterOfThese ==
    ASSUME NEW C, NEW D, Later(C, D), NEW S \in SUBSET DOMAIN C, NEW R \in SUBSET DOMAIN D, R \cap DOMAIN C = S
    PROVE  Later([i \in S |-> C[i]], [i \in R |-> D[i]])
<1>1. IsFiniteSet(S) /\ IsFiniteSet(R)
  BY FS_Subset DEF Later, IsClaims
<1>2. \A j \in R \ S : j \in DOMAIN D \ DOMAIN C
  OBVIOUS
<1>3. IsClaims([i \in S |-> C[i]]) /\ IsClaims([i \in R |-> D[i]])
  BY <1>1 DEF Later, IsClaims
<1>4. \A j \in R \ S : D[j].qty >= 0 /\ \A i \in S : C[i].at < D[j].at
  BY <1>2 DEF Later
<1> QED BY <1>3, <1>4 DEF Later

\* What counts still does, what doesn't still doesn't.
LEMMA CountedStays ==
    ASSUME NEW b, NEW C, NEW D, Later(C, D)
    PROVE  Counted(b, D) \cap DOMAIN C = Counted(b, C)
<1> DEFINE Taken(X, j, i) == Older(X, j, i) /\ Clash(b, b.rules, X[i].node, X[j].node)
           now == Counted(b, D)
           before == Counted(b, C)
<1>1. before \subseteq DOMAIN C /\ \A i \in DOMAIN C : i \in before <=> \A j \in before : ~Taken(C, j, i)
  BY CountedIs DEF Later
<1>2. now \subseteq DOMAIN D /\ \A i \in DOMAIN D : i \in now <=> \A j \in now : ~Taken(D, j, i)
  BY CountedIs DEF Later
<1> HIDE DEF now, before
<1>3. ASSUME NEW i \in DOMAIN C, NEW j \in DOMAIN D, Older(D, j, i) PROVE j \in DOMAIN C /\ Older(C, j, i)
  <2>1. D[i] = C[i] /\ C[i].at \in Nat /\ D[j].at \in Nat /\ D[j].at <= C[i].at
    BY <1>3 DEF Later, IsClaims, Older
  <2>2. j \in DOMAIN C
    BY <2>1 DEF Later
  <2>3. D[j] = C[j]
    BY <2>2 DEF Later
  <2> QED BY <1>3, <2>1, <2>2, <2>3 DEF Older
<1>4. \A i \in DOMAIN C : \A j \in DOMAIN C : Taken(D, j, i) <=> Taken(C, j, i)
  BY DEF Later, Older
<1> DEFINE Off == {i \in DOMAIN C : ~(i \in now <=> i \in before)}
<1>5. ASSUME Off # {} PROVE FALSE
  <2>1. PICK i \in Off : \A j \in Off : ~Older(C, j, i)
    <3>1. Off \in SUBSET DOMAIN C /\ IsClaims(C)
      BY DEF Later
    <3> HIDE DEF Off
    <3> QED BY <1>5, <3>1, FirstReviewed
  <2>2. i \in DOMAIN C /\ i \in DOMAIN D
    BY DEF Later
  <2>3. (\E j \in now : Taken(D, j, i)) <=> \E j \in before : Taken(C, j, i)
    <3>1. ASSUME NEW j \in now, Taken(D, j, i) PROVE j \in before /\ Taken(C, j, i)
      <4>1. j \in DOMAIN C /\ Older(C, j, i)
        BY <1>2, <1>3, <2>2, <3>1
      <4> QED BY <1>4, <2>1, <2>2, <3>1, <4>1
    <3>2. ASSUME NEW j \in before, Taken(C, j, i) PROVE j \in now /\ Taken(D, j, i)
      BY <1>1, <1>4, <2>1, <2>2, <3>2
    <3> QED BY <3>1, <3>2
  <2> QED BY <1>1, <1>2, <2>2, <2>3
<1> QED BY <1>1, <1>5 DEF now, before

\* Until any of the others was reviewed, nothing is different.
LEMMA SameUntil ==
    ASSUME NEW b, NEW C, NEW D, IsBoard(b), Later(C, D), Positive(D), NEW t \in Nat,
           \A j \in DOMAIN D \ DOMAIN C : t < D[j].at
    PROVE  \A n \in b.nodes : By(CompletedAt(b, C)[n], t) <=> By(CompletedAt(b, D)[n], t)
<1> DEFINE before == CompletedAt(b, C)
           now == CompletedAt(b, D)
           upTo(X, nodes) == {i \in ClaimsOn(X, nodes) : X[i].at <= t}
<1>1. Settled(C, t) /\ Settled(D, t)
  BY DEF Later, Positive, Settled
<1>2. \A n \in b.nodes : By(before[n], t) <=> CompleteWith(b, C, n, t, {c \in b.children[n] : By(before[c], t)})
  BY <1>1, DoneBy DEF Later
<1>3. \A n \in b.nodes : By(now[n], t) <=> CompleteWith(b, D, n, t, {c \in b.children[n] : By(now[c], t)})
  BY <1>1, DoneBy DEF Later
<1> HIDE DEF before, now
<1>4. ASSUME NEW nodes PROVE upTo(C, nodes) = upTo(D, nodes) /\ \A i \in upTo(C, nodes) : C[i] = D[i]
  <2>1. \A j \in DOMAIN D : D[j].at <= t => j \in DOMAIN C
    <3>1. SUFFICES ASSUME NEW j \in DOMAIN D \ DOMAIN C, D[j].at <= t PROVE FALSE
      OBVIOUS
    <3>2. D[j].at \in Nat /\ t < D[j].at
      BY DEF Later, IsClaims
    <3> QED BY <3>1, <3>2
  <2>2. \A i \in DOMAIN C : i \in DOMAIN D /\ D[i] = C[i]
    BY DEF Later
  <2> QED BY <2>1, <2>2 DEF ClaimsOn
<1>5. ASSUME NEW n \in b.nodes, NEW held
      PROVE  CompleteWith(b, C, n, t, held) <=> CompleteWith(b, D, n, t, held)
  <2>1. b.kind[n] \in Kinds
    BY DEF IsBoard
  <2>2. Total(Units(b, C), upTo(C, b.children[n])) = Total(Units(b, D), upTo(D, b.children[n]))
    <3> DEFINE rows == upTo(C, b.children[n])
    <3>1. upTo(D, b.children[n]) = rows /\ \A i \in rows : C[i] = D[i]
      BY <1>4
    <3>2. rows \in SUBSET ClaimsOn(C, b.children[n]) /\ rows \in SUBSET ClaimsOn(D, b.children[n])
      BY <3>1
    <3> HIDE DEF rows, upTo
    <3>3. Numbers(rows) /\ Whole(Units(b, D), rows)
      BY <3>2, UnitsAddUp DEF Later
    <3>4. \A i \in rows : Units(b, C)[i] = Units(b, D)[i]
      BY <3>1, <3>2 DEF ClaimsOn, Units
    <3> QED BY <3>1, <3>3, <3>4, SameTotal DEF rows
  <2>3. Total(Quantity(C), upTo(C, {n})) = Total(Quantity(D), upTo(D, {n})) /\ upTo(C, {n}) = upTo(D, {n})
    <3> DEFINE rows == upTo(C, {n})
    <3>1. upTo(D, {n}) = rows /\ \A i \in rows : C[i] = D[i]
      BY <1>4
    <3>2. rows \in SUBSET DOMAIN C /\ rows \in SUBSET DOMAIN D
      BY <3>1 DEF ClaimsOn
    <3> HIDE DEF rows, upTo
    <3>3. Numbers(rows) /\ Whole(Quantity(D), rows)
      BY <3>2, QuantitiesAddUp DEF Later
    <3>4. \A i \in rows : Quantity(C)[i] = Quantity(D)[i]
      BY <3>1, <3>2 DEF Quantity
    <3> QED BY <3>1, <3>3, <3>4, SameTotal DEF rows
  <2> QED BY <2>1, <2>2, <2>3 DEF CompleteWith, Kinds
<1> DEFINE Off == {n \in b.nodes : ~(By(before[n], t) <=> By(now[n], t))}
<1>6. ASSUME Off # {} PROVE FALSE
  <2>1. PICK n \in Off : b.children[n] \cap Off = {}
    <3>1. Off \in SUBSET b.nodes
      OBVIOUS
    <3> HIDE DEF Off
    <3> QED BY <1>6, <3>1 DEF IsBoard
  <2>2. b.children[n] \subseteq b.nodes
    BY ChildrenFinite
  <2>3. {c \in b.children[n] : By(before[c], t)} = {c \in b.children[n] : By(now[c], t)}
    BY <2>1, <2>2
  <2> QED BY <1>2, <1>3, <1>5, <2>3
<1> QED BY <1>6 DEF before, now

\* What is complete stays so, at its time.
LEMMA CompletedStays ==
    ASSUME NEW b, NEW C, NEW D, IsBoard(b), Later(C, D), Positive(D), NEW n \in b.nodes, CompletedAt(b, C)[n] # None
    PROVE  CompletedAt(b, D)[n] = CompletedAt(b, C)[n]
<1> DEFINE ats == {C[i].at : i \in DOMAIN C}
           x == CompletedAt(b, C)[n]
           y == CompletedAt(b, D)[n]
<1>1. ats \in SUBSET Nat
  BY DEF Later, IsClaims
<1>2. x \in ats
  <2>1. \A i \in DOMAIN C : C[i].at \in ats
    OBVIOUS
  <2> HIDE DEF ats
  <2>2. CompletedAt(b, C) \in [b.nodes -> ats \cup {None}]
    BY <1>1, <2>1, CompletedIs DEF Later
  <2> QED BY <2>2
<1>3. y \in Nat \cup {None}
  <2>1. PICK V \in SUBSET Nat : V = Nat
    OBVIOUS
  <2>2. \A i \in DOMAIN D : D[i].at \in V
    BY <2>1 DEF Later, IsClaims
  <2>3. CompletedAt(b, D) \in [b.nodes -> V \cup {None}]
    BY <2>2, CompletedIs DEF Later
  <2> QED BY <2>1, <2>3
<1>4. \A j \in DOMAIN D \ DOMAIN C : x < D[j].at
  BY <1>2 DEF Later
<1>5. ASSUME NEW t \in Nat, t <= x PROVE By(x, t) <=> By(y, t)
  <2>1. \A j \in DOMAIN D \ DOMAIN C : t < D[j].at
    <3>1. x \in Nat
      BY <1>1, <1>2
    <3>2. \A j \in DOMAIN D \ DOMAIN C : D[j].at \in Nat
      BY DEF Later, IsClaims
    <3> HIDE DEF x
    <3> QED BY <1>4, <1>5, <3>1, <3>2
  <2> QED BY <2>1, SameUntil
<1> HIDE DEF x, y
<1>6. x \in Nat /\ x # None
  BY <1>1, <1>2, TimesAssumption
<1>7. y \in Nat /\ y <= x
  BY <1>3, <1>5, <1>6 DEF By
<1>8. x <= y
  BY <1>5, <1>6, <1>7, TimesAssumption DEF By
<1> QED BY <1>6, <1>7, <1>8 DEF x, y

\* A SUM that was complete is, and the Claim that tipped it still does.
LEMMA TippedKept ==
    ASSUME NEW b, NEW C, NEW D, IsBoard(b), Later(C, D), NEW n \in b.nodes, TippedAt(b, C, n) # None
    PROVE  By(TippedAt(b, D, n), TippedAt(b, C, n))
<1> DEFINE mine == ClaimsOn(C, b.children[n])
           ours == ClaimsOn(D, b.children[n])
           tips == {i \in mine : Total(Units(b, C), RunningTo(C, mine, i)) >= b.need[n]}
           ats == {C[i].at : i \in tips}
           nowTips == {i \in ours : Total(Units(b, D), RunningTo(D, ours, i)) >= b.need[n]}
           nowAts == {D[i].at : i \in nowTips}
           x == TippedAt(b, C, n)
<1>1. Total(Units(b, C), mine) >= b.need[n] /\ x = Earliest(ats)
  BY DEF TippedAt
<1>2. /\ mine \in SUBSET ours /\ ours \in SUBSET DOMAIN D /\ \A i \in ours \ mine : i \notin DOMAIN C
      /\ \A i \in mine : i \in DOMAIN C /\ i \in DOMAIN D /\ D[i] = C[i]
  BY DEF Later, ClaimsOn
<1>3. \A i \in mine : Units(b, C)[i] = Units(b, D)[i]
  BY <1>2 DEF Units
<1>4. ats \in SUBSET Nat /\ nowAts \in SUBSET Nat
  BY <1>2 DEF Later, IsClaims
<1>5. b.need[n] \in Nat
  BY DEF IsBoard
<1>6. Total(Units(b, D), ours) >= b.need[n]
  <2>1. Numbers(ours) /\ Whole(Units(b, D), ours) /\ \A i \in ours : D[i].qty >= 0 => Units(b, D)[i] >= 0
    <3> HIDE DEF ours
    <3>1. ours \in SUBSET ClaimsOn(D, b.children[n]) /\ IsClaims(D)
      BY DEF ours, Later
    <3> QED BY <3>1, UnitsAddUp
  <2>2. \A i \in ours \ mine : D[i].qty >= 0
    BY <1>2 DEF Later
  <2> HIDE DEF mine, ours
  <2>3. /\ Total(Units(b, D), ours) \in Int /\ Total(Units(b, C), mine) \in Int
        /\ Total(Units(b, C), mine) <= Total(Units(b, D), ours)
    BY <1>2, <1>3, <2>1, <2>2, MoreTotal
  <2> QED BY <1>1, <1>5, <2>3
<1>7. PICK j \in tips : C[j].at = x
  <2>1. Earliest(ats) \in ats
    <3> HIDE DEF ats, x
    <3> QED BY <1>1, <1>4, EarliestBy DEF x
  <2> HIDE DEF x
  <2> QED BY <1>1, <2>1
<1>8. RunningTo(D, ours, j) = RunningTo(C, mine, j)
  <2>1. ASSUME NEW k \in ours, Older(D, k, j) PROVE k \in mine
    <3>1. D[k].at \in Nat /\ C[j].at \in Nat /\ D[j] = C[j] /\ j \in DOMAIN C /\ D[k].at <= C[j].at
      BY <1>2, <2>1 DEF Later, IsClaims, Older
    <3>2. k \in DOMAIN C
      BY <1>2, <3>1 DEF Later
    <3> QED BY <1>2, <3>2
  <2>2. \A k \in mine : Older(D, k, j) <=> Older(C, k, j)
    BY <1>2 DEF Older
  <2> QED BY <1>2, <2>1, <2>2 DEF RunningTo
<1>9. j \in nowTips /\ D[j].at = x
  <2> DEFINE rows == RunningTo(C, mine, j)
  <2>1. rows \in SUBSET mine
    BY DEF RunningTo
  <2>2. rows \in SUBSET ClaimsOn(D, b.children[n]) /\ IsClaims(D) /\ \A i \in rows : Units(b, C)[i] = Units(b, D)[i]
    BY <1>2, <1>3, <2>1 DEF Later
  <2>3. Total(Units(b, C), rows) = Total(Units(b, D), rows)
    <3> HIDE DEF rows
    <3>1. Numbers(rows) /\ Whole(Units(b, D), rows)
      BY <2>2, UnitsAddUp
    <3> QED BY <2>2, <3>1, SameTotal
  <2> QED BY <1>2, <1>7, <1>8, <2>3
<1>10. TippedAt(b, D, n) = Earliest(nowAts)
  BY <1>6 DEF TippedAt
<1>11. x \in nowAts /\ x \in Nat
  BY <1>4, <1>9
<1> HIDE DEF nowAts, x
<1> QED BY <1>4, <1>10, <1>11, EarliestBy DEF By, x

\* So is a node of any kind whose children were and are no later.
LEMMA NodeKept ==
    ASSUME NEW b, NEW C, NEW D, IsBoard(b), Later(C, D), NEW n \in b.nodes,
           NEW g \in [b.children[n] -> Nat \cup {None}], NEW h \in [b.children[n] -> Nat \cup {None}],
           \A c \in b.children[n] : g[c] # None => By(h[c], g[c]),
           CompletedOf(b, C, n, g) # None
    PROVE  By(CompletedOf(b, D, n, h), CompletedOf(b, C, n, g))
<1> DEFINE x == CompletedOf(b, C, n, g)
           y == CompletedOf(b, D, n, h)
           mine == ClaimsOn(C, {n})
           ours == ClaimsOn(D, {n})
<1>1. IsClaims(C) /\ IsClaims(D) /\ b.kind[n] \in Kinds
  BY DEF Later, IsBoard
<1>2. x \in Nat
  <2>1. PICK V \in SUBSET Nat : V = Nat
    OBVIOUS
  <2>2. \A i \in DOMAIN C : C[i].at \in V
    BY <1>1, <2>1 DEF IsClaims
  <2>3. CompletedOf(b, C, n, g) \in V \cup {None}
    BY <1>1, <2>1, <2>2, CompletedTyped
  <2> QED BY <2>1, <2>3
<1>3. mine \in SUBSET ours /\ \A i \in mine : i \in DOMAIN C /\ D[i] = C[i]
  BY DEF Later, ClaimsOn
<1>4. CASE b.kind[n] \in {"MANUAL", "ANY", "ALL", "COUNT"}
  <2> DEFINE heldC == {c \in b.children[n] : By(g[c], x)}
             heldD == {c \in b.children[n] : By(h[c], x)}
  <2>1. b.kind[n] \notin {"ITEM", "SUM"}
    BY <1>4
  <2>2. By(x, x)
    BY <1>2 DEF By
  <2> HIDE DEF x, y
  <2>3. CompleteWith(b, C, n, x, heldC)
    <3>1. By(x, x) <=> CompleteWith(b, C, n, x, heldC)
      BY <1>1, <1>2, <2>1, CompletedBy DEF x
    <3> QED BY <2>2, <3>1
  <2>4. heldC \subseteq heldD
    <3>1. ASSUME NEW c \in b.children[n], By(g[c], x) PROVE By(h[c], x)
      <4>1. By(h[c], g[c]) /\ g[c] \in Nat /\ g[c] <= x /\ h[c] \in Nat
        BY <3>1 DEF By
      <4> QED BY <1>2, <4>1 DEF By
    <3> QED BY <3>1
  <2>5. CompleteWith(b, D, n, x, heldD)
    <3>1. CASE b.kind[n] = "MANUAL"
      BY <1>3, <2>3, <3>1 DEF CompleteWith
    <3>2. CASE b.kind[n] = "ANY"
      <4> HIDE DEF heldC, heldD
      <4> QED BY <2>3, <2>4, <3>2 DEF CompleteWith
    <3>3. CASE b.kind[n] = "ALL"
      <4> HIDE DEF heldC, heldD
      <4> QED BY <2>3, <2>4, <3>3 DEF CompleteWith
    <3>4. CASE b.kind[n] = "COUNT"
      <4>1. heldC \subseteq b.children[n] /\ heldD \subseteq b.children[n] /\ b.need[n] \in Nat
        BY DEF IsBoard
      <4> HIDE DEF heldC, heldD
      <4>2. IsFiniteSet(heldD) /\ IsFiniteSet(heldC)
        BY <4>1, ChildrenFinite, FS_Subset
      <4>3. Cardinality(heldC) \in Nat /\ Cardinality(heldD) \in Nat /\ Cardinality(heldC) <= Cardinality(heldD)
        BY <2>4, <4>2, FS_Subset, FS_CardinalityType
      <4>4. Cardinality(heldC) >= b.need[n]
        BY <2>3, <3>4 DEF CompleteWith
      <4>5. Cardinality(heldD) >= b.need[n]
        BY <4>1, <4>3, <4>4
      <4> QED BY <3>4, <4>5 DEF CompleteWith
    <3> QED BY <1>4, <3>1, <3>2, <3>3, <3>4
  <2>6. By(y, x) <=> CompleteWith(b, D, n, x, heldD)
    BY <1>1, <1>2, <2>1, CompletedBy DEF y
  <2> QED BY <2>5, <2>6 DEF x, y
<1>5. CASE b.kind[n] = "ITEM"
  <2> DEFINE ats == {C[i].at : i \in mine}
             nowAts == {D[i].at : i \in ours}
  <2>1. Total(Quantity(C), mine) >= 1 /\ x = Earliest(ats)
    BY <1>5 DEF CompletedOf
  <2>2. Total(Quantity(D), ours) >= 1
    <3>1. ours \in SUBSET DOMAIN D /\ \A i \in ours \ mine : i \notin DOMAIN C
      BY <1>3 DEF ClaimsOn, Later
    <3>2. Numbers(ours) /\ Whole(Quantity(D), ours) /\ \A i \in ours : Quantity(D)[i] = D[i].qty
      <4> HIDE DEF ours
      <4> QED BY <1>1, <3>1, QuantitiesAddUp
    <3>3. \A i \in ours \ mine : Quantity(D)[i] >= 0
      BY <3>1, <3>2 DEF Later
    <3>4. \A i \in mine : Quantity(C)[i] = Quantity(D)[i]
      BY <1>3, <3>1 DEF Quantity
    <3> HIDE DEF mine, ours
    <3>5. /\ Total(Quantity(D), ours) \in Int /\ Total(Quantity(C), mine) \in Int
          /\ Total(Quantity(C), mine) <= Total(Quantity(D), ours)
      BY <1>3, <3>2, <3>3, <3>4, MoreTotal
    <3> QED BY <2>1, <3>5
  <2>3. ats \in SUBSET Nat /\ nowAts \in SUBSET Nat /\ ats \subseteq nowAts
    BY <1>1, <1>3 DEF ClaimsOn, IsClaims
  <2>4. y = Earliest(nowAts)
    BY <1>5, <2>2 DEF CompletedOf
  <2> HIDE DEF ats, nowAts, x, y
  <2>5. x \in nowAts
    BY <2>1, <2>3, EarliestBy DEF x
  <2>6. By(y, x)
    BY <1>2, <2>3, <2>4, <2>5, EarliestBy DEF By
  <2> QED BY <2>6 DEF x, y
<1>6. CASE b.kind[n] = "SUM"
  <2>1. x = TippedAt(b, C, n) /\ y = TippedAt(b, D, n)
    BY <1>6 DEF CompletedOf
  <2> QED BY <2>1, TippedKept
<1> QED BY <1>1, <1>4, <1>5, <1>6 DEF Kinds

\* What is complete stays so, no later, even beside Claims that subtract.
LEMMA CompletedKept ==
    ASSUME NEW b, NEW C, NEW D, IsBoard(b), Later(C, D)
    PROVE  \A n \in b.nodes : CompletedAt(b, C)[n] # None => By(CompletedAt(b, D)[n], CompletedAt(b, C)[n])
<1> DEFINE before == CompletedAt(b, C)
           now == CompletedAt(b, D)
           Off == {n \in b.nodes : before[n] # None /\ ~By(now[n], before[n])}
<1>1. PICK V \in SUBSET Nat : V = Nat
  OBVIOUS
<1>2. (\A i \in DOMAIN C : C[i].at \in V) /\ (\A i \in DOMAIN D : D[i].at \in V) /\ IsClaims(C) /\ IsClaims(D)
  BY <1>1 DEF Later, IsClaims
<1>3. /\ before \in [b.nodes -> V \cup {None}]
      /\ \A n \in b.nodes : before[n] = CompletedOf(b, C, n, [c \in b.children[n] |-> before[c]])
  BY <1>2, CompletedIs
<1>4. /\ now \in [b.nodes -> V \cup {None}]
      /\ \A n \in b.nodes : now[n] = CompletedOf(b, D, n, [c \in b.children[n] |-> now[c]])
  BY <1>2, CompletedIs
<1> HIDE DEF before, now
<1>5. ASSUME Off # {} PROVE FALSE
  <2>1. PICK n \in Off : b.children[n] \cap Off = {}
    <3>1. Off \in SUBSET b.nodes
      OBVIOUS
    <3> HIDE DEF Off
    <3> QED BY <1>5, <3>1 DEF IsBoard
  <2> DEFINE g == [c \in b.children[n] |-> before[c]]
             h == [c \in b.children[n] |-> now[c]]
  <2>2. b.children[n] \subseteq b.nodes
    BY ChildrenFinite
  <2>3. /\ g \in [b.children[n] -> Nat \cup {None}] /\ h \in [b.children[n] -> Nat \cup {None}]
        /\ \A c \in b.children[n] : g[c] # None => By(h[c], g[c])
    BY <1>1, <1>3, <1>4, <2>1, <2>2
  <2>4. before[n] = CompletedOf(b, C, n, g) /\ now[n] = CompletedOf(b, D, n, h) /\ before[n] # None
    BY <1>3, <1>4, <2>1
  <2> HIDE DEF g, h
  <2>5. By(now[n], before[n])
    BY <2>3, <2>4, NodeKept
  <2> QED BY <2>1, <2>5
<1> QED BY <1>5 DEF before, now

\* So a later review takes nothing from a score.
LEMMA ScoreStays ==
    ASSUME NEW b, NEW C, NEW D, IsBoard(b), Later(C, D), NEW n \in DOMAIN Score(b, C)
    PROVE  /\ n \in DOMAIN Score(b, D)
           /\ Score(b, D)[n].at <= Score(b, C)[n].at
           /\ Score(b, D)[n].points >= Score(b, C)[n].points
           /\ Positive(D) => Score(b, D)[n].at = Score(b, C)[n].at
<1> DEFINE onC == {i \in DOMAIN C : C[i].node \in b.nodes}
           onD == {i \in DOMAIN D : D[i].node \in b.nodes}
           C1 == [i \in onC |-> C[i]]
           D1 == [i \in onD |-> D[i]]
           C2 == [i \in Counted(b, C1) |-> C[i]]
           D2 == [i \in Counted(b, D1) |-> D[i]]
           before == CompletedAt(b, C2)
           now == CompletedAt(b, D2)
<1>1. /\ Score(b, C) = [m \in {k \in b.nodes : before[k] # None} |-> [at |-> before[m], points |-> Awarded(b, before, m)]]
      /\ Score(b, D) = [m \in {k \in b.nodes : now[k] # None} |-> [at |-> now[m], points |-> Awarded(b, now, m)]]
  BY Zenon DEF Score
<1>2. Later(C1, D1)
  <2>1. onD \cap DOMAIN C = onC
    BY DEF Later
  <2> QED BY <2>1, LaterOfThese
<1>3. Later(C2, D2)
  <2>1. Counted(b, D1) \cap DOMAIN C1 = Counted(b, C1)
    <3> HIDE DEF C1, D1
    <3> QED BY <1>2, CountedStays
  <2>2. Counted(b, D1) \subseteq onD /\ Counted(b, C1) \subseteq onC
    <3>1. Counted(b, D1) \subseteq DOMAIN D1 /\ Counted(b, C1) \subseteq DOMAIN C1
      <4> HIDE DEF C1, D1
      <4> QED BY <1>2, CountedIs DEF Later
    <3> QED BY <3>1
  <2>3. Counted(b, D1) \cap DOMAIN C = Counted(b, C1)
    BY <2>1, <2>2 DEF Later
  <2> HIDE DEF C1, D1
  <2> QED BY <2>2, <2>3, LaterOfThese
<1>4. Positive(D) => Positive(D2)
  <2>1. DOMAIN D2 \subseteq DOMAIN D
    <3>1. Counted(b, D1) \subseteq DOMAIN D1
      <4> HIDE DEF C1, D1
      <4> QED BY <1>2, CountedIs DEF Later
    <3> QED BY <3>1
  <2> HIDE DEF D1
  <2> QED BY <2>1 DEF Positive
<1> HIDE DEF C1, D1, C2, D2
<1>5. \A m \in b.nodes : before[m] # None => now[m] # None /\ now[m] <= before[m]
  BY <1>3, CompletedKept DEF By
<1>6. Positive(D) => \A m \in b.nodes : before[m] # None => now[m] = before[m]
  BY <1>3, <1>4, CompletedStays
<1> HIDE DEF before, now
<1>7. n \in b.nodes /\ before[n] # None /\ now[n] # None /\ now[n] <= before[n]
  BY <1>1, <1>5
<1>8. Awarded(b, now, n) >= Awarded(b, before, n)
  <2>1. b.points[n] \in Nat
    BY <1>7 DEF IsBoard
  <2> QED BY <1>5, <2>1 DEF Awarded
<1> QED BY <1>1, <1>6, <1>7, <1>8

-----------------------------------------------------------------------------
(* What posts and reviews keep of the Exclusive Items, and of the scores. *)

\* A post claims its nodes for its Team, besides what the Teams had.
LEMMA PostedNodes ==
    ASSUME TypeOK, NEW u \in Uploaders, NEW s \in SubIds, PostLands(u, s), NEW t \in Teams,
           NEW n \in LiveNodes(t, None)'
    PROVE  n \in LiveNodes(t, None) \/ (t = uploads[u].team /\ n \in NodesOf(uploads[u].list))
<1>1. PICK i \in DOMAIN claims' : /\ claims'[i].node = n
                                  /\ subs'[claims'[i].sub].team = t /\ subs'[claims'[i].sub].status # "rejected"
                                  /\ claims'[i].sub # None
  BY DEF LiveNodes
<1>2. CASE i \in DOMAIN claims
  <2>1. claims'[i] = claims[i] /\ claims[i].sub # s /\ claims[i].sub \in SubIds
    BY <1>2, Posted DEF TypeOK
  <2>2. subs'[claims[i].sub] = subs[claims[i].sub]
    BY <2>1, Posted
  <2> QED BY <1>1, <1>2, <2>1, <2>2 DEF LiveNodes
<1>3. CASE i \notin DOMAIN claims
  <2>1. PICK k \in DOMAIN uploads[u].list :
            claims'[i] = [sub |-> s, node |-> uploads[u].list[k].node, qty |-> uploads[u].list[k].qty]
    BY <1>1, <1>3, Posted
  <2>2. subs'[s].team = uploads[u].team
    BY Posted
  <2> QED BY <1>1, <2>1, <2>2 DEF NodesOf
<1> QED BY <1>2, <1>3

\* A review claims nothing that was not claimed.
LEMMA ReviewedNodes ==
    ASSUME TypeOK, NEW s \in SubIds, Approve(s) \/ Reject(s), NEW t \in Teams, NEW n \in LiveNodes(t, None)'
    PROVE  n \in LiveNodes(t, None)
<1>1. PICK status : subs' = [subs EXCEPT ![s] = Reviewed(s, status)]
  BY DEF Approve, Reject
<1>2. claims' = claims /\ subs[s].status = "pending" /\ subs[s] # None /\ subs[s] \in Submission
  BY DEF Approve, Reject, TypeOK
<1>3. PICK i \in DOMAIN claims : /\ claims[i].node = n
                                 /\ subs'[claims[i].sub].team = t /\ subs'[claims[i].sub].status # "rejected"
                                 /\ claims[i].sub # None
  BY <1>2 DEF LiveNodes
<1>4. subs[claims[i].sub].team = t /\ subs[claims[i].sub].status # "rejected"
  <2>1. CASE claims[i].sub = s
    <3>1. subs'[s] = Reviewed(s, status) /\ subs'[s].team = subs[s].team
      BY <1>1, <1>2 DEF TypeOK, Reviewed, Submission
    <3> QED BY <1>2, <1>3, <2>1, <3>1
  <2>2. CASE claims[i].sub # s
    BY <1>1, <1>3, <2>2 DEF TypeOK
  <2> QED BY <2>1, <2>2
<1> QED BY <1>3, <1>4 DEF LiveNodes

\* PostsKeepOnePlace (submissionService.createSubmission, exclusivityConflicts): as long as the rules a post read are
\* still the board's, no post and no review lets a Team use an Exclusive Item in two places.
THEOREM PostsKeepPlaces == Spec => PostsKeepOnePlace
<1> DEFINE Current == \A u \in Uploaders : uploads[u] # None => Layout[uploads[u].board].rules = Published.rules
           Keeps == subs' # subs /\ board' = board /\ form' = form /\ Current => (OnePlace => OnePlace')
<1>1. TypeOK /\ [Next]_vars => [Keeps]_vars
  <2>1. SUFFICES ASSUME TypeOK, [Next]_vars, subs' # subs, board' = board, form' = form, Current, OnePlace
                 PROVE  OnePlace'
    OBVIOUS
  <2>2. Published' = Published
    BY <2>1 DEF Published
  <2> DEFINE Apart(n, m) == ~Clash(Published, Published.rules, n, m)
  <2>3. \A t \in Teams : \A n, m \in LiveNodes(t, None) : Apart(n, m)
    BY <2>1 DEF OnePlace
  <2>4. SUFFICES ASSUME NEW t \in Teams, NEW n \in LiveNodes(t, None)', NEW m \in LiveNodes(t, None)' PROVE Apart(n, m)
    BY <2>2 DEF OnePlace
  <2>5. Next
    BY <2>1 DEF vars
  <2> HIDE DEF Apart
  <2>6. ASSUME NEW u \in Uploaders, NEW s \in SubIds, PostLands(u, s) PROVE Apart(n, m)
    <3> DEFINE post == uploads[u]
               nodes == NodesOf(post.list)
    <3>1. post # None /\ Accepted(post)
      BY <2>6 DEF PostLands
    <3>2. \A k : k \in LiveNodes(t, None)' => k \in LiveNodes(t, None) \/ (t = post.team /\ k \in nodes)
      BY <2>1, <2>6, PostedNodes
    <3>3. ASSUME t = post.team, NEW j \in nodes, NEW k \in LiveNodes(t, None) \cup nodes PROVE Apart(j, k) /\ Apart(k, j)
      <4>1. post.proof = None
        <5>1. post \in Upload /\ DOMAIN post.list # {}
          BY <2>1, <3>1, <3>3 DEF TypeOK, NodesOf
        <5> QED BY <5>1, NoneAssumption DEF Upload
      <4>2. Conflicts(Published, Layout[post.board].rules, LiveNodes(post.team, None), nodes) = {}
        BY <3>1, <4>1 DEF Accepted, DropAccepted
      <4>3. Layout[post.board].rules = Published.rules
        BY <2>1, <3>1
      <4>4. k \in LiveNodes(post.team, None) \cup nodes
        BY <3>3
      <4>5. ~Clash(Published, Published.rules, j, k)
        BY <4>2, <4>3, <4>4 DEF Conflicts
      <4> QED BY <4>5, ClashBothWays DEF Apart
    <3> QED BY <2>3, <2>4, <3>2, <3>3
  <2>7. ASSUME NEW s \in SubIds, Approve(s) \/ Reject(s) PROVE Apart(n, m)
    BY <2>1, <2>3, <2>4, <2>7, ReviewedNodes
  <2>8. \/ \E u \in Uploaders, s \in SubIds : PostLands(u, s)
        \/ \E s \in SubIds : Approve(s) \/ Reject(s)
    BY <2>1, <2>5 DEF Next, PostBegins, ProofPostBegins, PostRefused, OpenForm, CloseForm, SaveEdit, Publish, ChangeStage, Tick
  <2> QED BY <2>6, <2>7, <2>8
<1> QED BY <1>1, Typing, PTL DEF Spec, PostsKeepOnePlace

RowsBounded == DOMAIN claims \subseteq 1..MaxRows

LEMMA RowsBoundedStep == RowsBounded /\ [Next]_vars => RowsBounded'
<1>1. SUFFICES ASSUME RowsBounded, [Next]_vars PROVE RowsBounded'
  OBVIOUS
<1>2. claims' = claims \/ DOMAIN claims' \subseteq 1..MaxRows
  BY <1>1 DEF Next, vars, PostBegins, ProofPostBegins, PostLands, PostRefused, Approve, Reject, OpenForm, CloseForm, SaveEdit,
     Publish, ChangeStage, Tick
<1> QED BY <1>1, <1>2 DEF RowsBounded

\* A Team's approved Claims are Claims the engine can score.
LEMMA ApprovedAreClaims ==
    ASSUME NEW ss, NEW cc, NEW t, DOMAIN cc \subseteq 1..MaxRows,
           \A i \in DOMAIN cc : cc[i].qty \in Int /\ ss[cc[i].sub] \in Submission
    PROVE  IsClaims(ApprovedIn(ss, cc, t))
<1> DEFINE rows == {j \in DOMAIN cc : ss[cc[j].sub].team = t /\ ss[cc[j].sub].status = "approved"}
           C == ApprovedIn(ss, cc, t)
<1>1. DOMAIN C = rows
  BY DEF ApprovedIn
<1>2. rows \subseteq 1..MaxRows /\ IsFiniteSet(rows)
  <2>1. IsFiniteSet(1..MaxRows)
    BY BoundsAssumption, FS_Interval
  <2> QED BY <2>1, FS_Subset
<1>3. ASSUME NEW i \in rows PROVE C[i].qty \in Int /\ C[i].at \in Nat
  <2>1. C[i] = [node |-> cc[i].node, qty |-> cc[i].qty, at |-> ss[cc[i].sub].reviewedAt]
    BY DEF ApprovedIn
  <2>2. cc[i].qty \in Int /\ ss[cc[i].sub] \in Submission /\ ss[cc[i].sub].status = "approved"
    OBVIOUS
  <2>3. ss[cc[i].sub].reviewedAt \in Nat
    BY <2>2, BoundsAssumption DEF Submission, Times
  <2> QED BY <2>1, <2>2, <2>3
<1>4. rows \subseteq Nat \ {0}
  BY <1>2, BoundsAssumption
<1> HIDE DEF rows, C
<1> QED BY <1>1, <1>2, <1>3, <1>4 DEF IsClaims, C

\* An approval in a later second than any other adds later Claims to its Team's.
LEMMA ApprovalIsLater ==
    ASSUME TypeOK, TypeOK', RowsBounded, NEW s \in SubIds, Approve(s), NEW t, t = subs[s].team,
           \A i \in DOMAIN Approved(t) : Approved(t)[i].at < clock, \A c \in ClaimsOf(s) : c.qty >= 0
    PROVE  /\ Later(Approved(t), ApprovedIn(subs', claims, t))
           /\ (\A c \in ClaimsOf(s) \cup {Approved(t)[i] : i \in DOMAIN Approved(t)} : c.qty >= 1)
                  => Positive(ApprovedIn(subs', claims, t))
<1> DEFINE C == Approved(t)
           D == ApprovedIn(subs', claims, t)
           row(i) == [node |-> claims[i].node, qty |-> claims[i].qty, at |-> subs[claims[i].sub].reviewedAt]
           next(i) == [node |-> claims[i].node, qty |-> claims[i].qty, at |-> subs'[claims[i].sub].reviewedAt]
           counts(i) == subs[claims[i].sub].team = t /\ subs[claims[i].sub].status = "approved"
           will(i) == subs'[claims[i].sub].team = t /\ subs'[claims[i].sub].status = "approved"
<1>1. claims' = claims /\ subs[s] # None /\ subs[s] \in Submission /\ subs[s].status = "pending"
      /\ subs' = [subs EXCEPT ![s] = Reviewed(s, "approved")]
  BY DEF Approve, TypeOK
<1>2. subs'[s].team = t /\ subs'[s].status = "approved" /\ subs'[s].reviewedAt = clock
  BY <1>1 DEF TypeOK, Reviewed, Submission
<1>3. \A r \in SubIds : r # s => subs'[r] = subs[r]
  BY <1>1 DEF TypeOK
<1>4. IsClaims(C)
  <2>1. \A i \in DOMAIN claims : claims[i].qty \in Int /\ subs[claims[i].sub] \in Submission
    BY DEF TypeOK
  <2> QED BY <2>1, ApprovedAreClaims DEF RowsBounded, Approved
<1>5. IsClaims(D)
  <2>1. \A i \in DOMAIN claims : claims[i].qty \in Int /\ subs'[claims[i].sub] \in Submission
    BY <1>1 DEF TypeOK
  <2> QED BY <2>1, ApprovedAreClaims DEF RowsBounded
<1>6. /\ C = [i \in {j \in DOMAIN claims : counts(j)} |-> row(i)]
      /\ D = [i \in {j \in DOMAIN claims : will(j)} |-> next(i)]
  BY DEF Approved, ApprovedIn
<1>7. ASSUME NEW i \in DOMAIN claims
      PROVE  /\ counts(i) => will(i) /\ next(i) = row(i)
             /\ will(i) /\ ~counts(i) => /\ next(i).at = clock /\ next(i).qty = claims[i].qty
                                        /\ [node |-> claims[i].node, qty |-> claims[i].qty] \in ClaimsOf(s)
  <2>1. CASE claims[i].sub = s
    <3>1. [node |-> claims[i].node, qty |-> claims[i].qty] \in ClaimsOf(s)
      BY <2>1 DEF ClaimsOf, ClaimsIn
    <3> QED BY <1>1, <1>2, <2>1, <3>1
  <2>2. CASE claims[i].sub # s
    BY <1>3, <2>2 DEF TypeOK
  <2> QED BY <2>1, <2>2
<1> HIDE DEF row, next, counts, will
<1>8. DOMAIN C \subseteq DOMAIN D /\ \A i \in DOMAIN C : D[i] = C[i]
  BY <1>6, <1>7
<1>9. \A i \in DOMAIN C : \A j \in DOMAIN D \ DOMAIN C : C[i].at < D[j].at
  <2>1. ASSUME NEW i \in DOMAIN C, NEW j \in DOMAIN D \ DOMAIN C PROVE C[i].at < D[j].at
    <3>1. j \in DOMAIN claims /\ will(j) /\ ~counts(j) /\ D[j] = next(j)
      BY <1>6, <2>1
    <3>2. D[j].at = clock
      BY <1>7, <3>1
    <3>3. C[i].at < clock
      BY <2>1
    <3> QED BY <3>2, <3>3
  <2> QED BY <2>1
<1>10. \A j \in DOMAIN D \ DOMAIN C : \E c \in ClaimsOf(s) : D[j].qty = c.qty
  <2>1. ASSUME NEW j \in DOMAIN D \ DOMAIN C PROVE \E c \in ClaimsOf(s) : D[j].qty = c.qty
    <3>1. j \in DOMAIN claims /\ will(j) /\ ~counts(j) /\ D[j] = next(j)
      BY <1>6, <2>1
    <3>2. /\ D[j].qty = claims[j].qty
          /\ [node |-> claims[j].node, qty |-> claims[j].qty] \in ClaimsOf(s)
      BY <1>7, <3>1
    <3>3. [node |-> claims[j].node, qty |-> claims[j].qty].qty = claims[j].qty
      OBVIOUS
    <3> QED BY <3>2, <3>3
  <2> QED BY <2>1
<1>11. (\A c \in ClaimsOf(s) \cup {C[i] : i \in DOMAIN C} : c.qty >= 1) => Positive(D)
  <2> HIDE DEF C, D
  <2> QED BY <1>8, <1>10 DEF Positive
<1> HIDE DEF C, D
<1>12. Later(C, D)
  BY <1>4, <1>5, <1>8, <1>9, <1>10 DEF Later
<1> QED BY <1>11, <1>12 DEF C, D

\* ApprovalsOnlyAdd (scoringService.approveSubmission, keepFirstScope): an approval in a later second than any other
\* review of a Team, of no Claim below 0, leaves every node it had completed, no later and with its points or more, and at
\* its time if none of the Team's Claims is below 1.
THEOREM ApprovalsKeepWhatIsDone == Spec => ApprovalsOnlyAdd
<1> DEFINE Real(s, t) == \A c \in ClaimsOf(s) \cup {Approved(t)[i] : i \in DOMAIN Approved(t)} : c.qty >= 1
           Kept(s, t, n) ==
               /\ n \in DOMAIN scores'[t]
               /\ scores'[t][n].at <= scores[t][n].at /\ scores'[t][n].points >= scores[t][n].points
               /\ Real(s, t) => scores'[t][n].at = scores[t][n].at
           AddsOnly(s) ==
               LET t == subs[s].team
                   real == \A c \in ClaimsOf(s) \cup {Approved(t)[i] : i \in DOMAIN Approved(t)} : c.qty >= 1
               IN
               Approve(s) /\ (\A i \in DOMAIN Approved(t) : Approved(t)[i].at < clock) /\ (\A c \in ClaimsOf(s) : c.qty >= 0) =>
                   \A n \in DOMAIN scores[t] :
                       /\ n \in DOMAIN scores'[t]
                       /\ scores'[t][n].at <= scores[t][n].at /\ scores'[t][n].points >= scores[t][n].points
                       /\ real => scores'[t][n].at = scores[t][n].at
<1>1. Init => RowsBounded
  BY DEF Init, RowsBounded
<1>2. TypeOK /\ TypeOK' /\ RowsBounded /\ ScoresCurrent /\ [Next]_vars => [\A s \in SubIds : AddsOnly(s)]_vars
  <2>1. SUFFICES ASSUME TypeOK, TypeOK', RowsBounded, ScoresCurrent, NEW s \in SubIds, Approve(s),
                        NEW t, t = subs[s].team, \A i \in DOMAIN Approved(t) : Approved(t)[i].at < clock,
                        \A c \in ClaimsOf(s) : c.qty >= 0, NEW n \in DOMAIN scores[t]
                 PROVE  Kept(s, t, n)
    OBVIOUS
  <2>2. t \in Teams
    BY <2>1 DEF TypeOK, Approve, Submission
  <2>3. scores[t] = Score(Published, Approved(t))
    BY <2>1, <2>2 DEF ScoresCurrent
  <2>4. scores'[t] = Score(Published, ApprovedIn(subs', claims, t))
    BY <2>1, <2>2 DEF Approve, Rescore, TypeOK
  <2>5. /\ Later(Approved(t), ApprovedIn(subs', claims, t))
        /\ Real(s, t) => Positive(ApprovedIn(subs', claims, t))
    BY <2>1, ApprovalIsLater
  <2>6. IsBoard(Published)
    BY <2>1, LayoutAssumption DEF TypeOK, Published
  <2> HIDE DEF Real
  <2>7. PICK b, C, D : b = Published /\ C = Approved(t) /\ D = ApprovedIn(subs', claims, t)
    OBVIOUS
  <2>8. /\ n \in DOMAIN Score(b, C) /\ IsBoard(b) /\ Later(C, D) /\ scores[t] = Score(b, C) /\ scores'[t] = Score(b, D)
        /\ Real(s, t) => Positive(D)
    BY <2>1, <2>3, <2>4, <2>5, <2>6, <2>7
  <2> QED BY <2>8, ScoreStays
<1> QED BY <1>1, <1>2, RowsBoundedStep, Typing, ScoresStayCurrent, PTL DEF Spec, ApprovalsOnlyAdd
=============================================================================
