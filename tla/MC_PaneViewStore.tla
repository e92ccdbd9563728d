-------------------------- MODULE MC_PaneViewStore --------------------------
(***************************************************************************)
(* The library as earlier runs and jobs left it, whole.  Either all the    *)
(* runs are to come and a maintenance job has been, or one run is to come  *)
(* and a job with it.                                                      *)
(***************************************************************************)
EXTENDS PaneViewStore

AllFolders == [x \in Paths \cup Folders |-> IF x \in Paths THEN Folders ELSE {}]

Earlier == CHOOSE r \in Runs : TRUE

\* Before anything happens one content is like another.
Any == CHOOSE c \in Contents : TRUE

NoJob   == [type |-> NoType, phase |-> "completed", status |-> "none"]
JobDone == [type |-> "soft_deleted_purge", phase |-> "completed", status |-> "completed"]

\* A library of one content, served or never filled.
Fresh ==
    /\ runs = [r \in Runs |-> "absent"]
    /\ job = [j \in Jobs |-> JobDone]
    /\ entries \in [Paths -> {NoEntry} \cup [row : {"live"}, media : {Any}]]
    /\ sources = [c \in Contents |-> "none"]
    /\ located = {entries[p].media : p \in Live} /\ told = {}
    /\ shutter = located

\* A library every content of which was served once.  Earlier purges told
\* Shutter of those that no longer are, or were cut short before they did; a
\* soft-deleted entry may be left of one.
Purged ==
    /\ runs = [r \in Runs |-> IF r = Earlier THEN "completed" ELSE "absent"]
    /\ job = [j \in Jobs |-> NoJob]
    /\ entries \in [Paths -> {NoEntry} \cup [row : {"live", "deleted"}, media : {Any}]]
    /\ sources \in [Contents -> {"none", "queued", "purged"}]
    /\ \A c \in Contents : /\ sources[c] = "none" <=> \E p \in Live : entries[p].media = c
                           /\ sources[c] = "queued" <=> c = Any /\ Live \cup SoftDeleted = {}
    /\ located = Contents /\ told = {c \in Contents : sources[c] = "purged"}
    /\ shutter = Contents \ told

MCInit ==
    /\ Fresh \/ Purged
    /\ media = {entries[p].media : p \in Live \cup SoftDeleted} /\ stored = media /\ signed = {}
    /\ folders = [f \in Folders |-> IF f \in Occupied THEN "live" ELSE "none"]
    /\ writes = {} /\ minds = {} /\ down = {}
    /\ worker = [w \in Workers |-> Idle]
    /\ faults = 0 /\ overlapped = FALSE

MCSpec == MCInit /\ [][StoreNext]_storeVars /\ StoreFairness
=============================================================================
