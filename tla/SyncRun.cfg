SPECIFICATION MCSyncSpec
CONSTANTS
    Runs = {push, prune}
    Pushes = {push}
    Paths = {p}
    Contents = {c, d}
    Folders = {}
    Above <- NoFolders
    Process = {}
    Jobs = {}
    Outcomes = {}
    JobTypes = {}
    MaxWrites = 2
    MaxFaults = 0
    Width = 2
    Attempts = 2
    MaxEdits = 1
    MaxLost = 1
INVARIANTS
    SyncTypeOK
    StatusAgreed
    CompletedMeansRecorded
PROPERTIES
    RecordedIsOnDisk
    PrunesOnlyWhatIsGone
    ReportedIsOver
    ClientsEnd
CHECK_DEADLOCK FALSE
