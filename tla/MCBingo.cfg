SPECIFICATION MCSpec
CONSTANTS
    Servers = {s1, s2}
    Users = {u1}
    Kinds = {"drops", "clock"}
    Window <- MCWindow
    Lapsing = {"clock"}
    Stale = 0
    None = None
    MaxEntries = 3
    MaxTime = 1
    MaxChanges = 1
    Achievements = {a1}
    MaxStageTime = 2
    MaxStageChanges = 3
SYMMETRY Symmetry
INVARIANTS
    OneDm
    NothingMissed
    StageLogInOrder
    LiveOnceStarted
    NothingEarnedAfterEnd
CHECK_DEADLOCK FALSE
