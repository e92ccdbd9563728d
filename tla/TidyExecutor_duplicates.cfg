SPECIFICATION Spec
CONSTANTS
    a = a
    b = b
    c = c
    d = d
    e = e
    f = f
    fileA = fileA
    fileB = fileB
    fileC = fileC
    fileD = fileD
    other = other
    NoFile = NoFile
    Path = {a, b, c, d, f}
    File = {fileA, fileB, fileC, fileD}
    Foreign = {other}
    Start <- FourFiles
    MaxPresses = 1
    Plan <- Duplicates
    Lanes = 1
    EncodeLimit = 2
    Rows = {a, b, c, f}
    Dismisses = FALSE
    CrashIn = {"apply", "undo"}
    MaxCrashes = 1
    MaxUndos = 2
    MaxRefusals = 1
INVARIANTS TypeOK ACopyStays PlanSaysWhatHappened UndoneIsPutBack
PROPERTY KeepsCustody
CHECK_DEADLOCK FALSE
