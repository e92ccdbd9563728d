SPECIFICATION FairSpec
CONSTANTS
    a = a
    b = b
    c = c
    d = d
    e = e
    f = f
    fileA = fileA
    fileB = fileB
    fileC = fileC
    fileD = fileD
    other = other
    NoFile = NoFile
    Path = {a, b, c, d, e}
    File = {fileA, fileB, fileC}
    Foreign = {}
    Start <- ThreeFiles
    MaxPresses = 0
    Plan <- Conversions
    Lanes = 2
    EncodeLimit = 2
    Rows = {a, b, c}
    Dismisses = TRUE
    CrashIn = {"idle", "apply"}
    MaxCrashes = 1
    MaxUndos = 2
    MaxRefusals = 1
INVARIANTS
    NoStraysLeft UnfinishedStepsLeaveFilesAlone FinishedStepsCanBeUndone FailedUndoKeepsTheResult
    DismissalsCanBeTakenBack
PROPERTY EveryRunEnds
CHECK_DEADLOCK FALSE
