SPECIFICATION FairSpec
CONSTANTS
    u1 = u1
    u2 = u2
    b1 = b1
    b2 = b2
    k1 = k1
    Users = {u1, u2}
    Tabs = {u1}
    Bingos = {b1, b2}
    Teams = {k1}
    None = None
    Asked = Asked
    Occurring <- MCOccurring
    MaxChanges = 3
    MaxFaults = 1
    MaxVisits = 2
INVARIANTS
    NoneLost
PROPERTIES
    PagesKeepUp
CHECK_DEADLOCK FALSE
