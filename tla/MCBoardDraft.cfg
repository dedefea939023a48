SPECIFICATION Spec
CONSTANTS
    Nodes = {n1, n2}
    Meanings = {axe, bow}
    Extras = {x, y}
    Admins = {a1, a2}
    None = None
    MaxRevisions = 3
SYMMETRY Symmetry
INVARIANTS
    ProofsStayOnBoard
PROPERTIES
    PublishedIsPreviewed
    ClaimedRowsKept
CHECK_DEADLOCK FALSE
