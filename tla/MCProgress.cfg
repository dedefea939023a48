SPECIFICATION MCSpec
CONSTANTS
    Servers = {s1, s2}
    Achievements = {}
    None = None
    MaxTime = 2
    MaxChanges = 3
    Callers = {1, 2, 3}
    Images = {1, 2}
    CloudSlots = 1
    LocalSlots = 1
    Cooldown = 1
    Ttl = 1
    MaxEntries = 1
    MaxOcrTime = 1
    Players = {p1}
    Accounts = {n1}
    Lookback = 1
    UpdateDelay = 1
    Grace = 1
    MaxReadTime = 2
    MaxUpsets = 3
PROPERTIES
    DueStarts
    EveryoneAnswered
    FinalReads
CHECK_DEADLOCK FALSE
