SPECIFICATION Spec
CONSTANTS
    Nodes = {n1}
    Meanings = {axe, bow}
    Extras = {x}
    Admins = {a1}
    None = None
    MaxRevisions = 2
INVARIANTS
    ClaimMeansItsNode
CHECK_DEADLOCK FALSE
