SPECIFICATION MCSpec
CONSTANTS
    Runs = {1, 2}
    Paths = {p}
    Contents = {c, d}
    Folders = {f}
    Above <- AllFolders
    Process = {s}
    Jobs = {1}
    Outcomes = {"completed"}
    JobTypes = {"library_hard_wipe", "soft_deleted_purge", "shutter_source_purge"}
    MaxWrites = 1
    MaxFaults = 1
INVARIANTS
    StoreTypeOK
    JobsAndRunsExclude
    LiveEntriesHaveOriginals
    DeletesBlockSyncs
    NoStrandedSource
    LiveFilesAreReachable
PROPERTIES JobsEnd WipeLeavesNothing
CHECK_DEADLOCK FALSE
