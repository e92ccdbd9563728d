SPECIFICATION FairSpec
CONSTANTS
    a = a
    b = b
    c = c
    d = d
    e = e
    f = f
    fileA = fileA
    fileB = fileB
    fileC = fileC
    fileD = fileD
    other = other
    NoFile = NoFile
    Path = {a, b}
    File = {fileA}
    Foreign = {}
    Start <- OneFile
    MaxPresses = 1
    Plan <- OneStill
    Lanes = 1
    EncodeLimit = 2
    Rows = {a}
    Dismisses = FALSE
    CrashIn = {}
    MaxCrashes = 0
    MaxUndos = 1
    MaxRefusals = 0
PROPERTY HoldingStaysWhileNeeded
CHECK_DEADLOCK FALSE
