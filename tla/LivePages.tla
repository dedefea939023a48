----------------------------- MODULE LivePages ------------------------------
(***************************************************************************)
(* What open pages promise of the data they show: never more than there    *)
(* is, never older than it already was, and, once a page is owed a change, *)
(* in the end that change. Data is a count of changes.                     *)
(***************************************************************************)
EXTENDS Naturals

CONSTANTS
    Tabs,
    Bingos,
    None            \* no data

VARIABLES
    data,           \* how many changes each Bingo has had
    seen,           \* as of which of them a tab shows it
    owed            \* the change it has to show in the end

vars == <<data, seen, owed>>

Init ==
    /\ data = [b \in Bingos |-> 0]
    /\ seen = [t \in Tabs |-> [b \in Bingos |-> None]]
    /\ owed = [t \in Tabs |-> [b \in Bingos |-> 0]]

\* Some Bingos change, and some pages that have data are to show what there is by now.
Owe(changed, pages) ==
    /\ \A page \in pages : seen[page[1]][page[2]] # None
    /\ data' = [b \in Bingos |-> IF b \in changed THEN data[b] + 1 ELSE data[b]]
    /\ owed' = [t \in Tabs |-> [b \in Bingos |-> IF <<t, b>> \in pages THEN data'[b] ELSE owed[t][b]]]
    /\ UNCHANGED seen

\* What a page shows first may be some changes old; after that it only moves on.
Show(t, b) ==
    /\ \E shown \in 0..data[b] :
        /\ seen[t][b] # None => shown >= seen[t][b]
        /\ seen' = [seen EXCEPT ![t][b] = shown]
    /\ UNCHANGED <<data, owed>>

CatchUp(t, b) ==
    /\ seen[t][b] # None /\ seen[t][b] < owed[t][b]
    /\ Show(t, b)
    /\ seen'[t][b] >= owed[t][b]

\* The page is left, and nothing is owed to it any more.
Drop(t, b) ==
    /\ seen' = [seen EXCEPT ![t][b] = None]
    /\ owed' = [owed EXCEPT ![t][b] = 0]
    /\ UNCHANGED data

Next ==
    \/ \E changed \in SUBSET Bingos, pages \in SUBSET (Tabs \X Bingos) : Owe(changed, pages)
    \/ \E t \in Tabs, b \in Bingos : Show(t, b) \/ Drop(t, b)

Spec == Init /\ [][Next]_vars

FairSpec == Spec /\ \A t \in Tabs, b \in Bingos : WF_vars(CatchUp(t, b))
=============================================================================
