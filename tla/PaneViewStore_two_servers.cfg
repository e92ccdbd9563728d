SPECIFICATION MCSpec
CONSTANTS
    Runs = {1, 2}
    Paths = {p}
    Contents = {c}
    Folders = {f}
    Above <- AllFolders
    Process = {s, t}
    Jobs = {1}
    Outcomes = {"completed"}
    JobTypes = {"library_hard_wipe", "soft_deleted_purge", "shutter_source_purge"}
    MaxWrites = 1
    MaxFaults = 2
INVARIANT DeletesBlockSyncs
CHECK_DEADLOCK FALSE
