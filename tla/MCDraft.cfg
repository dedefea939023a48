SPECIFICATION MCSpec
CONSTANTS
    c1 = c1
    c2 = c2
    d1 = d1
    d2 = d2
    p1 = p1
    p2 = p2
    p3 = p3
    p4 = p4
    p5 = p5
    p6 = p6
    Users = {c1, c2, d1, d2, p1, p2, p3, p4, p5, p6}
    Teams = {t1, t2, t3}
    Duo = TRUE
    None = None
    MovesTo = {"captains", "draft"}
    MaxAsks = 1
    MaxChanges = 2
    MaxCategories = 3
    MaxRows = 2
    MaxVotes = 2
    Parts = {"draft", "voting", "polls"}
CONSTRAINT
    UntilStarted
INVARIANTS
    PicksInOrder
    DraftedStayPut
    DuosDraftedTogether
    SharesHold
    ClockCanPick
    WinnersFair
PROPERTY
    CutsAsReviewed
CHECK_DEADLOCK FALSE
