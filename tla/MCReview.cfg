SPECIFICATION MCSpec
CONSTANTS
    None = None
    Teams = {t1}
    SubIds = {s1, s2}
    Uploaders = {u1}
    Boards = {"before", "after"}
    LayoutOf <- TwoBoards
    ClaimLists <- Lists
    ProofNodes = {"petAgain"}
    MaxTime = 1
    MaxRows = 3
    ScoredBoards <- ReferenceBoards
    MaxClaims = 3
    MaxAt = 1
    Quantities <- ScoredQuantities
SYMMETRY Symmetry
INVARIANTS
    ScoresCurrent
    CompletedWhenFirstTrue
    OnePlaceScores
    OpenRoute
PROPERTIES
    PostsKeepOnePlace
    ApprovalsOnlyAdd
    StaleEditOnlySameSecond
CHECK_DEADLOCK FALSE
