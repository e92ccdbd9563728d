SPECIFICATION Spec
CONSTANTS
    MaxAsks = 4
    MaxStops = 1
    TidySteps = 2
    UNDO_LIMIT = 2
INVARIANT TurnIsHeld
PROPERTY UndoTakesTheNewest
CHECK_DEADLOCK FALSE
