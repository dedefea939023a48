----------------------------- MODULE MakeBoard -----------------------------
(* Boards for TLC, as records of Engine. *)
EXTENDS Engine, TLC

\* A board of these nodes with what few of them have: the rest is the default.
MakeBoard(kind, children, tiles, need, item, countsAs, pointsGate, submitGate, rules) ==
    [nodes |-> DOMAIN kind, kind |-> kind, tiles |-> tiles, rules |-> rules, needsProof |-> {},
     children |-> children @@ [n \in DOMAIN kind |-> {}],
     need |-> need @@ [n \in DOMAIN kind |-> 1],
     item |-> item @@ [n \in DOMAIN kind |-> None],
     countsAs |-> countsAs @@ [n \in DOMAIN kind |-> 1],
     points |-> [n \in DOMAIN kind |-> 1],
     pointsGate |-> pointsGate @@ [n \in DOMAIN kind |-> None],
     submitGate |-> submitGate @@ [n \in DOMAIN kind |-> None]]

NoneOf == [n \in {} |-> None]
=============================================================================
