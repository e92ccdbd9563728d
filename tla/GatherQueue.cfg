SPECIFICATION Spec
CONSTANTS
    p = p
    q = q
    a = a
    b = b
    Pages = {p, q}
    Profiles = {a, b}
    Asked <- MCAsked
    DefaultProfile = a
    MaxQueue = 2
    MaxResults = 1
    MaxUpsets = 2
INVARIANTS
    GatherTypeOK
    HandoffOrdered
PROPERTIES
    ResultsStand
    CancelSticks
    QueueMoves
CHECK_DEADLOCK FALSE
