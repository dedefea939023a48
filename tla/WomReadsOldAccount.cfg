SPECIFICATION FairSpec
CONSTANTS
    Players = {p1}
    Accounts = {n1, n2}
    None = None
    Lookback = 1
    UpdateDelay = 1
    Grace = 1
    MaxTime = 1
    MaxUpsets = 4
PROPERTY
    OldAccountStops
CHECK_DEADLOCK FALSE
