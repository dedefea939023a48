SPECIFICATION MCSpec
CONSTANTS
    c1 = c1
    c2 = c2
    d1 = d1
    d2 = d2
    p1 = p1
    p2 = p2
    p3 = p3
    p4 = p4
    p5 = p5
    p6 = p6
    Users = {c1, c2, d1, d2, p1, p2, p3, p4, p5, p6}
    Teams = {t1, t2}
    Duo = TRUE
    None = None
    MovesTo = {"draft"}
    MaxAsks = 1
    MaxChanges = 1
    MaxCategories = 3
    MaxRows = 3
    MaxVotes = 3
    Parts = {"draft"}
INVARIANT
    ClockAlwaysCanPick
CHECK_DEADLOCK FALSE
