SPECIFICATION Spec
CONSTANTS
    Users = {u1}
    Submissions = {s1, s2}
    None = None
    Refused = Refused
    Asked = Asked
    MaxClicks = 2
    MaxRefused = 1
    MaxFetches = 0
INVARIANT
    ShowsServer
CHECK_DEADLOCK FALSE
