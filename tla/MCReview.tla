------------------------------ MODULE MCReview ------------------------------
(***************************************************************************)
(* Review for TLC, on a board of two tiles that take the same pet and what *)
(* a Publish makes of it; and beside it the scores that it stores, against *)
(* what they are meant to be (EngineReference), on boards of every kind of *)
(* node. A behaviour is of the one or of the other.                        *)
(***************************************************************************)
EXTENDS Review, EngineReference, MakeBoard

allVars == <<vars, scoringVars>>

\* A new Bingo's board: a behaviour with nothing to score is one of Review.
EmptyBoard == MakeBoard(NoneOf, NoneOf, {}, NoneOf, NoneOf, NoneOf, NoneOf, NoneOf, {})

MCInit ==
    /\ Init /\ ScoringInit
    /\ anyBoard # EmptyBoard => board = (CHOOSE b \in Boards : TRUE)

\* Bounds: a form is open only in a live Bingo, the stage being nothing to an edit. Claims below 1 are posted in one that
\* stays live, beside no proof, and with a form open nothing is uploading beside them.
BelowOne ==
    \/ \E i \in DOMAIN claims : claims[i].qty < 1
    \/ \E u \in Uploaders : uploads[u] # None /\ \E k \in DOMAIN uploads[u].list : uploads[u].list[k].qty < 1
Bounded ==
    /\ form # None => open
    /\ BelowOne =>
        /\ open
        /\ \A s \in SubIds : subs[s] # None => subs[s].proof = None
        /\ \A u \in Uploaders : uploads[u] # None => form = None /\ uploads[u].proof = None

MCNext ==
    \/ anyBoard = EmptyBoard /\ Next /\ Bounded' /\ UNCHANGED scoringVars
    \/ anyBoard # EmptyBoard /\ ScoringNext /\ UNCHANGED vars

MCSpec == MCInit /\ [][MCNext]_allVars

-----------------------------------------------------------------------------
(* The boards that are scored. *)

\* Two pages of one tile that share a drop; the second page is behind the first.
Pages == MakeBoard(
    ("tile" :> "ALL") @@ ("page1" :> "ANY") @@ ("page2" :> "COUNT") @@ ("a" :> "ITEM") @@ ("shared" :> "ITEM")
        @@ ("b" :> "ITEM") @@ ("proof" :> "MANUAL") @@ ("empty" :> "ALL"),
    ("tile" :> {"page1", "page2"}) @@ ("page1" :> {"a", "shared"}) @@ ("page2" :> {"shared", "b", "proof"}),
    {"tile", "empty"}, "page2" :> 2, ("a" :> "axe") @@ ("shared" :> "pet") @@ ("b" :> "bow"), NoneOf,
    "page2" :> "page1", "page2" :> "page1", {})

\* A quantity task and a tile that take the same item, usable on one tile only; a line needs both.
Totals == MakeBoard(
    ("tileA" :> "ALL") @@ ("sum" :> "SUM") @@ ("x" :> "ITEM") @@ ("y" :> "ITEM") @@ ("tileB" :> "ANY")
        @@ ("xAgain" :> "ITEM") @@ ("z" :> "ITEM") @@ ("line" :> "ALL"),
    ("tileA" :> {"sum"}) @@ ("sum" :> {"x", "y"}) @@ ("tileB" :> {"xAgain", "z"}) @@ ("line" :> {"tileA", "tileB"}),
    {"tileA", "tileB"}, "sum" :> 3, ("x" :> "pet") @@ ("y" :> "egg") @@ ("xAgain" :> "pet") @@ ("z" :> "axe"),
    "x" :> 2, "z" :> "tileA", "z" :> "tileA",
    {[scope |-> "tile", lock |-> ("pet" :> "pet") @@ ("egg" :> None) @@ ("axe" :> None)]})

\* Pieces that count as one item, usable on one part only, beside a rule of their own for one of them.
Pieces == MakeBoard(
    ("tile" :> "ANY") @@ ("part1" :> "ALL") @@ ("part2" :> "ANY") @@ ("claw" :> "ITEM") @@ ("spine" :> "ITEM")
        @@ ("clawAgain" :> "ITEM") @@ ("tile2" :> "ANY") @@ ("spineAgain" :> "ITEM"),
    ("tile" :> {"part1", "part2"}) @@ ("part1" :> {"claw", "spine"}) @@ ("part2" :> {"clawAgain"})
        @@ ("tile2" :> {"spineAgain"}),
    {"tile", "tile2"}, NoneOf, ("claw" :> "claw") @@ ("spine" :> "spine") @@ ("clawAgain" :> "claw")
        @@ ("spineAgain" :> "spine"), NoneOf, NoneOf, NoneOf,
    {[scope |-> "part", lock |-> ("claw" :> "piece") @@ ("spine" :> None)],
     [scope |-> "tile", lock |-> ("claw" :> "piece") @@ ("spine" :> "piece")]})

ReferenceBoards == {EmptyBoard, Pages, Totals, Pieces}

-----------------------------------------------------------------------------
(* The boards that are claimed on. *)

SmallBoard(second, rules, proof, gate) ==
    [MakeBoard(
        ("boss" :> "ANY") @@ ("pet" :> "ITEM") @@ ("pets" :> second) @@ ("petAgain" :> "ITEM") @@ ("egg" :> "ITEM"),
        ("boss" :> {"pet"}) @@ ("pets" :> {"petAgain", "egg"}),
        {"boss", "pets"}, NoneOf, ("pet" :> "pet") @@ ("petAgain" :> "pet") @@ ("egg" :> "egg"), NoneOf,
        "egg" :> "boss", gate, rules) EXCEPT !.needsProof = proof]

\* The pet may be used on one tile only.
OneTile == {[scope |-> "tile", lock |-> ("pet" :> "pet") @@ ("egg" :> None)]}

\* A rule is published, the second tile made easier and without a gate, and its proof Tile-wide; or the other way.
TwoBoards(b) ==
    IF b = "before" THEN SmallBoard("ALL", {}, {"petAgain"}, "egg" :> "boss") ELSE SmallBoard("ANY", OneTile, {"pets"}, NoneOf)

Claim(node) == [node |-> node, qty |-> 1]
Lists == {<<Claim("pet")>>, <<Claim("egg"), Claim("petAgain")>>, <<[node |-> "egg", qty |-> -1]>>}

\* A Claim that subtracts, one of nothing, and one of one.
ScoredQuantities == {-1, 0, 1}

Symmetry == Permutations(SubIds) \cup Permutations(Uploaders) \cup Permutations(Teams)
=============================================================================
