----------------------------- MODULE MC_SyncRun -----------------------------
(***************************************************************************)
(* A folder and a library that earlier syncs left, in step or not, and no  *)
(* maintenance.                                                            *)
(***************************************************************************)
EXTENDS SyncRun

NoFolders == [p \in Paths |-> {}]

Any == CHOOSE c \in Contents : TRUE

MCSyncInit ==
    /\ SyncInit
    /\ entries \in [Paths -> {NoEntry} \cup [row : {"live"}, media : {Any}]]
    /\ media = {entries[p].media : p \in Live} /\ stored = media
    /\ runs = [r \in Runs |-> "absent"] /\ overlapped = FALSE
    /\ folders = [f \in Folders |-> "none"]
    /\ sources = [c \in Contents |-> "none"]
    /\ signed = {} /\ shutter = {} /\ located = {} /\ told = {} /\ writes = {}
    /\ job = << >> /\ minds = {} /\ worker = << >> /\ down = {} /\ faults = 0

MCSyncSpec == MCSyncInit /\ [][SyncNext]_syncVars /\ SyncFairness
=============================================================================
