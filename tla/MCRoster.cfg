SPECIFICATION RosterSpec
CONSTANTS
    Users = {u1, u2, u3, u4}
    Teams = {t1, t2}
    Duo = TRUE
    None = None
    MovesTo = {"signup", "captains", "draft", "reveal"}
    MaxAsks = 1
SYMMETRY Symmetry
INVARIANTS
    OneTeam
    PairsSpokenFor
    LeadsAgree
    DuoTeamsLedByPairs
CHECK_DEADLOCK FALSE
