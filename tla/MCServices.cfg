SPECIFICATION MCSpec
CONSTANTS
    None = None
    Callers = {1, 2, 3}
    Images = {1, 2, 3}
    CloudSlots = 2
    LocalSlots = 1
    Cooldown = 1
    Ttl = 1
    MaxEntries = 1
    MaxOcrTime = 2
    DiscordTeams = {1, 2}
    Players = {p1, p2}
    Names = {n1, n2}
    Gone = Gone
    MaxObjects = 6
    MaxChanges = 3
    MaxFaults = 2
    Titles = {n3, n4}
    Rosters = {r1, r2}
    Nobody = Nobody
    TwoWeeks = 3
    MaxWomTime = 2
    MaxCalls = 2
    Bingos = {b1, b2}
    KeptFor = 2
    MaxStatsTime = 3
    MaxUntold = 2
    Users = {u1}
    Owners = {}
    Apps = {a1, a2}
    CodeTtl = 1
    AccessTtl = 1
    Idle = 1
    UnusedTtl = 1
    MaxTime = 2
    MaxSecrets = 4
    Readers = {p1}
    Accounts = {n1, n2}
    Lookback = 1
    UpdateDelay = 1
    Grace = 1
    MaxReadTime = 2
    MaxUpsets = 3
CONSTRAINT InOrder
INVARIANTS
    ReadOnce
    InPlace
    NothingForgotten
    KeptInSync
    KeptCurrent
    TimelineWhole
    ExchangedOnce
    ConnectionsInHand
PROPERTY
    LeftAlone
CHECK_DEADLOCK FALSE
