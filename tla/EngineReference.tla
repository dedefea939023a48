-------------------------- MODULE EngineReference --------------------------
(***************************************************************************)
(* The scoring operators of Engine against what they are meant to compute, *)
(* on any boards, over every list of approved Claims up to a bound.        *)
(***************************************************************************)
EXTENDS Engine, Sequences

CONSTANTS
    ScoredBoards,
    MaxClaims,      \* bound: claims rows
    MaxAt,          \* bound: the last second a review is made in
    Quantities      \* bound: what is claimed of a node, below 1 by a POST

ASSUME ScoredBoardsAssumption == \A b \in ScoredBoards : IsBoard(b)
ASSUME ScoringBoundsAssumption == MaxClaims \in Nat /\ MaxAt \in Nat /\ Quantities \subseteq Int

VARIABLES
    anyBoard,
    anyClaims       \* a Team's approved Claims

scoringVars == <<anyBoard, anyClaims>>

ScoringInit == anyBoard \in ScoredBoards /\ anyClaims = <<>>

\* A Claim of a Submission approved at any time: rows are numbered as posted, not as reviewed.
OneApproved(n, qty, at) ==
    /\ Len(anyClaims) < MaxClaims
    /\ anyClaims' = Append(anyClaims, [node |-> n, qty |-> qty, at |-> at])
    /\ UNCHANGED anyBoard

ScoringNext == \E n \in Leaves(anyBoard), qty \in Quantities, at \in 0..MaxAt : OneApproved(n, qty, at)

ScoringSpec == ScoringInit /\ [][ScoringNext]_scoringVars

-----------------------------------------------------------------------------
(* What the operators are meant to compute. *)

\* Whether a node is complete with the Claims reviewed by t, when these of its children are: no times involved.
CompleteWith(b, C, n, t, held) ==
    LET rows(nodes) == {i \in ClaimsOn(C, nodes) : C[i].at <= t} IN
    CASE b.kind[n] = "MANUAL" -> rows({n}) # {}
      [] b.kind[n] = "ITEM" -> Total(Quantity(C), rows({n})) >= 1
      [] b.kind[n] = "SUM" -> Total(Units(b, C), rows(b.children[n])) >= b.need[n]
      [] b.kind[n] = "ALL" -> b.children[n] # {} /\ b.children[n] \subseteq held
      [] b.kind[n] = "ANY" -> held # {}
      [] b.kind[n] = "COUNT" -> Cardinality(held) >= b.need[n]

CompleteBy(t) ==
    LET holds[n \in anyBoard.nodes] ==
            CompleteWith(anyBoard, anyClaims, n, t, {c \in anyBoard.children[n] : holds[c]})
    IN holds

\* evaluateGraph has a node complete exactly when it is with all the reviews made, whatever their quantities. When no
\* Claim has a quantity below 1 it dates a node at the first second it would have been complete with the reviews made by
\* then, whatever order they came in: for a SUM the claim that tipped the total, for a COUNT its minCount-th child.
CompletedWhenFirstTrue ==
    LET done == CompletedAt(anyBoard, anyClaims) IN
    \A n \in anyBoard.nodes :
        /\ done[n] # None <=> CompleteBy(MaxAt)[n]
        /\ (\A i \in DOMAIN anyClaims : anyClaims[i].qty >= 1) => done[n] = Earliest({t \in 0..MaxAt : CompleteBy(t)[n]})

\* CONTEXT.md "Exclusive Item": a Team uses it in one place. No two Claims that count use one item, or one group, in
\* different places; and a Claim is left out only for one that counts and was reviewed no later.
OnePlaceScores ==
    LET counted == Counted(anyBoard, anyClaims) IN
    /\ \A i, j \in counted : ~Clash(anyBoard, anyBoard.rules, anyClaims[i].node, anyClaims[j].node)
    /\ \A i \in DOMAIN anyClaims \ counted : \E j \in counted :
           anyClaims[j].at <= anyClaims[i].at /\ Clash(anyBoard, anyBoard.rules, anyClaims[i].node, anyClaims[j].node)

\* A Claim may be submitted exactly when some route from its item up to its tile has no closed gate on it: there is a
\* set of open nodes holding the item, each of them at the top or with a parent in the set.
OpenRoute ==
    LET completed == DOMAIN Score(anyBoard, anyClaims)
        open == {n \in anyBoard.nodes : anyBoard.submitGate[n] = None \/ anyBoard.submitGate[n] \in completed}
        parents == [n \in anyBoard.nodes |-> {p \in anyBoard.nodes : n \in anyBoard.children[p]}]
    IN \A leaf \in Leaves(anyBoard) :
        ~GateBlocked(anyBoard, completed)[leaf] <=>
            \E route \in SUBSET open :
                leaf \in route /\ \A n \in route : parents[n] = {} \/ parents[n] \cap route # {}
=============================================================================
