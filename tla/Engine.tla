------------------------------- MODULE Engine -------------------------------
(***************************************************************************)
(* How a board scores a Team's approved Claims: the node graph evaluated   *)
(* bottom-up (engine.evaluateGraph), the points its complete nodes award   *)
(* (engine.awardedPoints), and the Exclusive Item rules that leave Claims  *)
(* out before either (shared exclusivity.ts).                              *)
(*                                                                         *)
(* A board b is a record over its nodes b.nodes:                           *)
(*   kind, item, children    what a node asks for, and its children        *)
(*   need                    a SUM's quantity, a COUNT's minCount          *)
(*   countsAs                what one of an ITEM adds to a SUM             *)
(*   points, pointsGate      its points, and the node that withholds them  *)
(*   submitGate              the node that closes Claims under this one    *)
(* with b.tiles the root nodes of its Tiles, b.needsProof the nodes a      *)
(* Proof screenshot is required for, and b.rules its Exclusive Item rules, *)
(* each a scope ("tile" or "part") and the lock of every item it names (an *)
(* item's group in the rule, or the item itself).                          *)
(*                                                                         *)
(* Claims C are a function from claims rows, numbered as inserted, to      *)
(* [node, qty, at], at being when the Submission was reviewed. A quantity  *)
(* may be any whole number: an edit refuses one below 1, a POST does not.  *)
(***************************************************************************)
EXTENDS Integers, FiniteSets, FiniteSetsExt

CONSTANT None       \* null: an item, a gate, a lock or a time that is not there

ASSUME TimesAssumption == None \notin Nat

Kinds == {"MANUAL", "ITEM", "SUM", "ANY", "ALL", "COUNT"}

\* What every write keeps of a board, engine.ts: "the edge set is acyclic", so no nodes are all under each other. That a
\* quantity or a minCount is at least 1 is the editor's doing (RequirementTreeEditor NumberInput): no service checks it.
IsBoard(b) ==
    /\ IsFiniteSet(b.nodes)
    /\ b.kind \in [b.nodes -> Kinds]
    /\ b.children \in [b.nodes -> SUBSET b.nodes]
    /\ {b.need, b.countsAs} \subseteq [b.nodes -> Nat \ {0}]
    /\ b.points \in [b.nodes -> Nat]
    /\ \A S \in SUBSET b.nodes : S # {} => \E n \in S : b.children[n] \cap S = {}

IsClaims(C) ==
    /\ IsFiniteSet(DOMAIN C) /\ DOMAIN C \subseteq Nat \ {0}
    /\ \A i \in DOMAIN C : C[i].qty \in Int /\ C[i].at \in Nat

Leaves(b) == {n \in b.nodes : b.kind[n] \in {"MANUAL", "ITEM"}}

Earliest(times) == IF times = {} THEN None ELSE Min(times)

-----------------------------------------------------------------------------
(* evaluateGraph. *)

ClaimsOn(C, nodes) == {i \in DOMAIN C : C[i].node \in nodes}

\* What rows add up to.
Total(adds, rows) ==
    LET upTo[i \in 0..Max(rows \cup {0})] == IF i = 0 THEN 0 ELSE upTo[i - 1] + (IF i \in rows THEN adds[i] ELSE 0)
    IN  upTo[Max(rows \cup {0})]

\* What a Claim adds to an ITEM, and to a SUM over it: there a piece counts as more than one.
Quantity(C) == [i \in DOMAIN C |-> C[i].qty]
Units(b, C) == [i \in DOMAIN C |-> C[i].qty * b.countsAs[C[i].node]]

\* The row that was reviewed first; of one second, the first inserted.
Older(C, j, i) == C[j].at < C[i].at \/ (C[j].at = C[i].at /\ j < i)

\* Rows as a SUM's running total has them when it comes to row i. (Of one second the code goes child by child, here row
\* by row: that could only matter with a Claim that subtracts.)
RunningTo(C, rows, i) == {k \in rows : k = i \/ Older(C, k, i)}

\* Mutation: the running total compared as more than the quantity, not at least.
TippedPast(b, C, n) ==
    LET mine == ClaimsOn(C, b.children[n])
        tips == {i \in mine : Total(Units(b, C), RunningTo(C, mine, i)) > b.need[n]}
    IN  IF Total(Units(b, C), mine) >= b.need[n] THEN Earliest({C[i].at : i \in tips}) ELSE None

\* When the running total of a SUM's children first reached its quantity, if they all together reach it.
TippedAt(b, C, n) ==
    LET mine == ClaimsOn(C, b.children[n])
        tips == {i \in mine : Total(Units(b, C), RunningTo(C, mine, i)) >= b.need[n]}
    IN  IF Total(Units(b, C), mine) >= b.need[n] THEN Earliest({C[i].at : i \in tips}) ELSE None

\* When a node was completed, None while it is not: by the Claims on it, or by when its children were.
CompletedOf(b, C, n, done) ==
    LET mine == ClaimsOn(C, {n})
        times == {done[c] : c \in b.children[n]} \ {None}
    IN
    CASE b.kind[n] = "MANUAL" -> Earliest({C[i].at : i \in mine})
      \* Complete with one piece, dated by the first review whatever that one added.
      [] b.kind[n] = "ITEM" -> IF Total(Quantity(C), mine) >= 1 THEN Earliest({C[i].at : i \in mine}) ELSE None
      [] b.kind[n] = "SUM" -> TippedAt(b, C, n)
      [] b.kind[n] = "ANY" -> Earliest(times)
      \* A childless ALL is a tile still to be set up, never complete.
      [] b.kind[n] = "ALL" ->
            IF b.children[n] # {} /\ \A c \in b.children[n] : done[c] # None THEN Max(times) ELSE None
      \* The time of the minCount-th child.
      [] b.kind[n] = "COUNT" ->
            Earliest({t \in times : Cardinality({c \in b.children[n] : done[c] # None /\ done[c] <= t}) >= b.need[n]})

CompletedAt(b, C) ==
    LET done[n \in b.nodes] == CompletedOf(b, C, n, [c \in b.children[n] |-> done[c]]) IN done

\* awardedPoints of a complete node: withheld until its gate is complete too.
Awarded(b, done, n) ==
    IF b.pointsGate[n] # None /\ (b.pointsGate[n] \notin b.nodes \/ done[b.pointsGate[n]] = None)
    THEN 0 ELSE b.points[n]

Parents(b, n) == {p \in b.nodes : n \in b.children[p]}

\* Mutation: refused when any route to the tile is closed.
GateBlockedOnAnyRoute(b, completed) ==
    LET blocked[n \in b.nodes] ==
            \/ b.submitGate[n] # None /\ b.submitGate[n] \notin completed
            \/ \E p \in Parents(b, n) : blocked[p]
    IN blocked

\* submitGateBlock: closed at every route from a node up to its tile.
GateBlocked(b, completed) ==
    LET blocked[n \in b.nodes] ==
            \/ b.submitGate[n] # None /\ b.submitGate[n] \notin completed
            \/ Parents(b, n) # {} /\ \A p \in Parents(b, n) : blocked[p]
    IN blocked

-----------------------------------------------------------------------------
(* Exclusive Items. *)

\* A node and everything under it.
Below(b) == LET below[n \in b.nodes] == {n} \cup UNION {below[c] : c \in b.children[n]} IN below

TilesOver(b, n) == {t \in b.tiles : n \in Below(b)[t]}
PartsOver(b, n) == {p \in UNION {b.children[t] : t \in TilesOver(b, n)} : n \in Below(b)[p]}

\* scopeKey: where a rule of this scope has an item used.
Place(b, n, scope) == [tiles |-> TilesOver(b, n), parts |-> IF scope = "tile" THEN {} ELSE PartsOver(b, n)]

\* placeLeaves places the ITEM nodes under a Part, and a rule names some of them.
Lock(b, rule, n) ==
    IF n \in b.nodes /\ b.kind[n] = "ITEM" /\ PartsOver(b, n) # {} THEN rule.lock[b.item[n]] ELSE None

\* Under these rules two nodes are uses of one item, or one group of items, in different places.
Clash(b, rules, n, m) ==
    \E rule \in rules :
        /\ Lock(b, rule, n) # None
        /\ Lock(b, rule, n) = Lock(b, rule, m)
        /\ Place(b, n, rule.scope) # Place(b, m, rule.scope)

\* exclusivityConflicts: what may not be claimed beside these nodes, or beside another of the candidates.
Conflicts(b, rules, existing, candidates) ==
    {n \in candidates : \E m \in existing \cup candidates : Clash(b, rules, n, m)}

\* Mutations: a Claim that was left out itself still takes the place; the newest review takes it.
CountedAgainstAll(b, C) ==
    {i \in DOMAIN C : \A j \in DOMAIN C : Older(C, j, i) => ~Clash(b, b.rules, C[i].node, C[j].node)}
CountedNewest(b, C) ==
    LET counts[i \in DOMAIN C] ==
            \A j \in DOMAIN C : Older(C, i, j) /\ Clash(b, b.rules, C[i].node, C[j].node) => ~counts[j]
    IN {i \in DOMAIN C : counts[i]}

\* keepFirstScope: oldest review first, a Claim counts unless one that counts has taken the place.
Counted(b, C) ==
    LET counts[i \in DOMAIN C] ==
            \A j \in DOMAIN C : Older(C, j, i) /\ Clash(b, b.rules, C[i].node, C[j].node) => ~counts[j]
    IN {i \in DOMAIN C : counts[i]}

-----------------------------------------------------------------------------
(* scoreTeam: every complete node, when it was completed and what it awards. *)

Score(b, C) ==
    LET onBoard == {i \in DOMAIN C : C[i].node \in b.nodes}
        counted == Counted(b, [i \in onBoard |-> C[i]])
        done == CompletedAt(b, [i \in counted |-> C[i]])
    IN [n \in {m \in b.nodes : done[m] # None} |-> [at |-> done[n], points |-> Awarded(b, done, n)]]
=============================================================================
