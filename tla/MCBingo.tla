------------------------------- MODULE MCBingo ------------------------------
(* Notifications and Lifecycle for TLC, side by side: safety, in whatever   *)
(* order two servers and the users act. A behaviour is of one of them, and  *)
(* the other stays as it began. Notifications begin with everybody at       *)
(* + Discord: drops that fold, and the clock, told at once and soon no      *)
(* longer true.                                                             *)
EXTENDS Notifications, TLC

CONSTANTS Achievements, MaxStageTime, MaxStageChanges

VARIABLES
    component,      \* the component this behaviour is of
    clock, stage, startsAt, stageLog, titlesFrozen, foundDue, earnedBy, earned, reached, unpriced, pricedLate

Life == INSTANCE Lifecycle WITH log <- stageLog, MaxTime <- MaxStageTime, MaxChanges <- MaxStageChanges

ASSUME StagesAssumption == MaxStageTime \in Nat /\ MaxStageChanges \in Nat /\ None \notin Nat

stageVars == <<clock, stage, startsAt, stageLog, titlesFrozen, foundDue, earnedBy, earned, reached, unpriced, pricedLate>>
allVars == <<vars, stageVars, component>>

MCWindow == [k \in Kinds |-> IF k = "drops" THEN 1 ELSE 0]

NotificationsInit ==
    /\ now = 0
    /\ log = <<>> /\ lapsed = {} /\ cursor = 0 /\ inbox = {}
    /\ level = [u \in Users |-> "discord"] /\ unreachable \in SUBSET Users /\ queue = {}
    /\ tabs \in [Servers -> {[u \in Users |-> t] : t \in {"in view", "none"}}]
    /\ batch = [s \in Servers |-> <<>>]
    /\ round = [s \in Servers |-> Idle]
    /\ sending = [s \in Servers |-> None]
    /\ dms = [n \in Ids |-> 0] /\ owed = {} /\ late = {}
    /\ changes = 0

\* Where the other component begins makes no difference to the one a behaviour is of.
MCInit ==
    /\ component \in {"notifications", "stages"}
    /\ NotificationsInit /\ Life!Init
    /\ component = "notifications" => \A a \in Achievements : earnedBy[a] = "action"
    /\ component = "stages" => unreachable = {} /\ \A s \in Servers, u \in Users : tabs[s][u] = "none"

MCNext ==
    \/ component = "notifications" /\ Next /\ UNCHANGED <<stageVars, component>>
    \/ component = "stages" /\ Life!Next /\ UNCHANGED <<vars, component>>

MCSpec == MCInit /\ [][MCNext]_allVars

Symmetry == Permutations(Users) \cup Permutations(Servers) \cup Permutations(Achievements)

StageLogInOrder == Life!StageLogInOrder
LiveOnceStarted == Life!LiveOnceStarted
NothingEarnedAfterEnd == Life!NothingEarnedAfterEnd
=============================================================================
