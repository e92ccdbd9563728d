---------------------------- MODULE PaneViewStore ----------------------------
(***************************************************************************)
(* Pane View's library as sync runs and maintenance jobs change it: the    *)
(* sync writes (sync/store.ts), the management operations                  *)
(* (sync-run-control.ts, folder-delete.ts, maintenance-scheduler.ts,       *)
(* cleanup-control.ts) and the worker that runs a job batch by batch       *)
(* (cleanup-worker.ts).                                                    *)
(*                                                                         *)
(* An action is one database transaction, or one request to the object     *)
(* store or to Shutter.  Transactions are at READ COMMITTED, so one that   *)
(* reads before another commits may write after it: recording a file,      *)
(* which reads the folder rows it will leave alone, takes two steps.       *)
(***************************************************************************)
EXTENDS Naturals, FiniteSets

CONSTANTS
    Runs,        \* sync run ids
    Paths,       \* logical paths of files
    Contents,    \* file contents: each has its hash, media row and object key
    Folders,     \* folder paths
    Above,       \* Above[x]: the folders that contain the file or folder x
    Process,     \* the server's processes
    Outcomes,    \* the statuses clients finalize runs with
    JobTypes,    \* the maintenance jobs that are scheduled
    Jobs,        \* maintenance_jobs ids
    MaxWrites,   \* bounds the sync requests handled, and the signed PUTs to come, at once
    MaxFaults    \* bounds the crashes of a process and the failed requests

ASSUME StoreAssumption ==
    /\ Above \in [Paths \cup Folders -> SUBSET Folders]
    /\ \A x \in Paths \cup Folders : \A g \in Above[x] : Above[g] \subseteq Above[x]
    /\ Outcomes \subseteq {"completed", "failed", "cancelled"}
    /\ JobTypes \subseteq {"library_hard_wipe", "soft_deleted_purge", "shutter_source_purge"}
    /\ {MaxWrites, MaxFaults} \subseteq Nat

NoContent == "no content"
NoType == "no job"

Terminal  == {"completed", "failed", "cancelled"}
RunStates == {"absent", "running", "wiped"} \cup Terminal
JobStates == {"none", "pending", "running"} \cup Terminal
Phases    == {"orphaned_media", "db_hard_delete", "queue_sources", "shutter_sources",
              "s3_originals", "s3_orphan_sweep", "completed"}

VARIABLES
    runs,      \* sync_runs: the status of each
    entries,   \* library_entries: [row, media] of each path
    folders,   \* folders: "none", "live" or "deleted"
    media,     \* media_objects: the contents that have a row
    stored,    \* the originals in the object store
    signed,    \* the contents a signed PUT is still to come for
    sources,   \* shutter_source_cleanup: "none", "queued" or "purged"
    shutter,   \* the contents Shutter holds a copy of
    located,   \* the contents whose delivery URL was handed out
    told,      \* history: what Shutter was told to purge since it was last recorded
    writes,    \* the sync requests being handled
    job,       \* maintenance_jobs: [type, phase, status] of each
    minds,     \* <<process, job>>: the process has a batch or a timer of the job
    worker,    \* the batch of each <<process, job>>: [at, rows, row]
    down,      \* the processes that have died
    faults,    \* how many crashes and failed requests there have been
    overlapped          \* whether two sync runs were ever running at once

libraryVars == <<entries, folders, media, sources>>
shutterVars == <<shutter, located, told>>
workerVars  == <<minds, worker, down>>
storeVars   == <<runs, libraryVars, stored, signed, shutterVars, writes, job, workerVars, faults, overlapped>>

Workers == Process \X Jobs
Active(j) == job[j].status \in {"pending", "running"}
SomeJobActive == \E j \in Jobs : Active(j)
RunningRuns == {r \in Runs : runs[r] = "running"}
Live == {p \in Paths : entries[p].row = "live"}
SoftDeleted == {p \in Paths : entries[p].row = "deleted"}

\* withAncestorPaths: every folder with a live entry somewhere beneath it.
Occupied == UNION {Above[p] : p \in Live}

\* Media whose original no live entry references (orphanedMediaObjectCondition).
Orphans == media \ {entries[p].media : p \in Live}

Idle == [at |-> "idle", rows |-> {}, row |-> NoContent]
NoEntry == [row |-> "none", media |-> NoContent]

StoreInit ==
    /\ runs = [r \in Runs |-> "absent"]
    /\ entries = [p \in Paths |-> NoEntry]
    /\ folders = [f \in Folders |-> "none"]
    /\ media = {} /\ stored = {} /\ signed = {}
    /\ shutter = {} /\ located = {} /\ told = {}
    /\ sources = [c \in Contents |-> "none"]
    /\ writes = {}
    /\ job = [j \in Jobs |-> [type |-> NoType, phase |-> "completed", status |-> "none"]]
    /\ minds = {}
    /\ worker = [w \in Workers |-> Idle]
    /\ down = {}
    /\ faults = 0
    /\ overlapped = FALSE

-----------------------------------------------------------------------------
(* Sync runs. *)

\* Without the look for an active job.
StartSyncRunBesideAJob(r) ==
    /\ runs[r] = "absent"
    /\ runs' = [runs EXCEPT ![r] = "running"]
    /\ overlapped' = (overlapped \/ RunningRuns # {})
    /\ UNCHANGED <<libraryVars, stored, signed, shutterVars, writes, job, workerVars, faults>>

\* startSyncRun: under the startup lock, refused while a job is active.
StartSyncRun(r) ==
    /\ runs[r] = "absent"
    /\ ~SomeJobActive
    /\ runs' = [runs EXCEPT ![r] = "running"]
    /\ overlapped' = (overlapped \/ RunningRuns # {})
    /\ UNCHANGED <<libraryVars, stored, signed, shutterVars, writes, job, workerVars, faults>>

\* Without FOR SHARE.
HeldByNobody(r) == r \notin Runs

\* assertWritableSyncRun holds the run's row FOR SHARE until the write commits,
\* so what ends the run waits for the write.
HeldShare(r) == \E x \in writes : x.run = r /\ x.at = "open"

\* softDeleteEmptiedFolders.
EmptiedFoldersDeleted ==
    folders' = [f \in Folders |->
        IF folders[f] = "live" /\ f \notin Occupied THEN "deleted" ELSE folders[f]]

\* A run that is running ends once, and takes the emptied folders with it.
EndRuns(S, status) ==
    /\ S # {}
    /\ \A r \in S : ~HeldShare(r)
    /\ runs' = [r \in Runs |-> IF r \in S THEN status ELSE runs[r]]
    /\ EmptiedFoldersDeleted
    /\ UNCHANGED <<entries, media, sources, stored, signed, shutterVars, writes, job, workerVars,
                   faults, overlapped>>

\* finalizeSyncRun of a running run; FinalizeAnswer is what any finalize answers.
FinalizeSyncRun(r, status) == runs[r] = "running" /\ EndRuns({r}, status)

\* The status is not compared.
FinalizeAnswerOfAny(r, status) == IF runs[r] \in {"running"} \cup Terminal THEN "ok" ELSE "conflict"

FinalizeAnswer(r, status) == IF runs[r] \in {"running", status} THEN "ok" ELSE "conflict"

ForceCancelSyncRun(r) == runs[r] = "running" /\ EndRuns({r}, "cancelled")

ForceCancelAllRunningSyncRuns == EndRuns(RunningRuns, "cancelled")

-----------------------------------------------------------------------------
(* Sync writes: admitted while no job is active, attested against the      *)
(* object store, then one transaction.                                     *)

Requests == [run : Runs, path : Paths, content : Contents \cup {NoContent}]

Admitted(q) == [run |-> q.run, path |-> q.path, content |-> q.content,
                at |-> "admitted", restore |-> {}]

\* postCompleteObject: the request of a run that was started, however late.
AdmitWrite(q) ==
    /\ runs[q.run] # "absent"
    /\ ~SomeJobActive
    /\ Cardinality(writes) < MaxWrites
    /\ Admitted(q) \notin writes
    /\ writes' = writes \cup {Admitted(q)}
    /\ UNCHANGED <<runs, libraryVars, stored, signed, shutterVars, job, workerVars, faults, overlapped>>

\* Without the HEAD.
AttestUnread(x) ==
    /\ x \in writes /\ x.at = "admitted" /\ x.content # NoContent
    /\ writes' = (writes \ {x}) \cup {[x EXCEPT !.at = "attested"]}
    /\ UNCHANGED <<runs, libraryVars, stored, signed, shutterVars, job, workerVars, faults, overlapped>>

\* completeSyncedObject's HEAD, before its transaction.
AttestUpload(x) ==
    /\ x \in writes /\ x.at = "admitted" /\ x.content # NoContent
    /\ writes' = (writes \ {x}) \cup
           (IF x.content \in stored THEN {[x EXCEPT !.at = "attested"]} ELSE {})
    /\ UNCHANGED <<runs, libraryVars, stored, signed, shutterVars, job, workerVars, faults, overlapped>>

\* Its transaction up to the folder rows: the run's row is locked, and the
\* folders that are not live are the ones it will write.
OpenWrite(x) ==
    /\ x \in writes /\ x.at = "attested"
    /\ writes' = (writes \ {x}) \cup
           (IF runs[x.run] = "running"
            THEN {[x EXCEPT !.at = "open",
                            !.restore = {f \in Above[x.path] : folders[f] # "live"}]}
            ELSE {})
    /\ UNCHANGED <<runs, libraryVars, stored, signed, shutterVars, job, workerVars, faults, overlapped>>

\* ... and its commit: the media row, the folders, the entry, and the content's
\* purge forgotten.
CommitWrite(x) ==
    /\ x \in writes /\ x.at = "open"
    /\ writes' = writes \ {x}
    /\ media' = media \cup {x.content}
    /\ folders' = [f \in Folders |-> IF f \in x.restore THEN "live" ELSE folders[f]]
    /\ entries' = [entries EXCEPT ![x.path] = [row |-> "live", media |-> x.content]]
    /\ sources' = [sources EXCEPT ![x.content] = "none"]
    /\ told' = told \ {x.content}
    /\ UNCHANGED <<runs, stored, signed, shutter, located, job, workerVars, faults, overlapped>>

\* With an upsert for the update.
MarkRemoteDeletedUpserts(x) ==
    /\ x \in writes /\ x.at = "admitted" /\ x.content = NoContent
    /\ writes' = writes \ {x}
    /\ entries' = IF runs[x.run] = "running"
                  THEN [entries EXCEPT ![x.path].row = "deleted"] ELSE entries
    /\ UNCHANGED <<runs, folders, media, sources, stored, signed, shutterVars, job, workerVars,
                   faults, overlapped>>

\* markRemoteDeleted: one transaction, refused unless the run is running.
MarkRemoteDeleted(x) ==
    /\ x \in writes /\ x.at = "admitted" /\ x.content = NoContent
    /\ writes' = writes \ {x}
    /\ entries' = IF runs[x.run] = "running" /\ entries[x.path].row = "live"
                  THEN [entries EXCEPT ![x.path].row = "deleted"] ELSE entries
    /\ UNCHANGED <<runs, folders, media, sources, stored, signed, shutterVars, job, workerVars,
                   faults, overlapped>>

\* postUploadUrl signs a PUT while no job is active, whether a run is running or
\* not; the object store takes it whenever it comes, and Pane View does not see it.
SignUpload(c) ==
    /\ ~SomeJobActive /\ c \notin signed
    /\ Cardinality(signed) < MaxWrites
    /\ signed' = signed \cup {c}
    /\ UNCHANGED <<runs, libraryVars, stored, shutterVars, writes, job, workerVars, faults, overlapped>>

PutObject(c) ==
    /\ c \in signed
    /\ signed' = signed \ {c}
    /\ stored' = stored \cup {c}
    /\ UNCHANGED <<runs, libraryVars, shutterVars, writes, job, workerVars, faults, overlapped>>

\* resolveMediaDeliveryUrlForVariant hands out a URL of what a live entry serves.
ResolveDeliveryUrl(c) ==
    /\ c \in media \ located
    /\ \E p \in Live : entries[p].media = c
    /\ located' = located \cup {c}
    /\ UNCHANGED <<runs, libraryVars, stored, signed, shutter, told, writes, job, workerVars, faults,
                   overlapped>>

\* Shutter fetches what a URL names and keeps a copy, whatever has become of the
\* entry; a URL that has expired is one nobody follows any more.
CacheSource(c) ==
    /\ c \in (located \cap stored) \ shutter
    /\ shutter' = shutter \cup {c}
    /\ UNCHANGED <<runs, libraryVars, signed, stored, located, told, writes, job, workerVars, faults,
                   overlapped>>

-----------------------------------------------------------------------------
(* Management. *)

\* softDeleteFolderSubtree of one folder.
SoftDeleteFolderSubtree(f) ==
    LET under == {p \in Live : f \in Above[p]}
        inside == {g \in Folders : g = f \/ f \in Above[g]}
    IN  /\ RunningRuns = {} /\ ~SomeJobActive
        /\ folders[f] = "live"
        /\ entries' = [p \in Paths |-> IF p \in under
                          THEN [entries[p] EXCEPT !.row = "deleted"] ELSE entries[p]]
        /\ folders' = [g \in Folders |-> IF folders[g] = "live" /\ g \in inside
                          THEN "deleted" ELSE folders[g]]
        /\ UNCHANGED <<runs, media, sources, stored, signed, shutterVars, writes, job, workerVars,
                       faults, overlapped>>

FirstPhase(type) == CASE type = "library_hard_wipe"    -> "s3_originals"
                      [] type = "soft_deleted_purge"   -> "orphaned_media"
                      [] type = "shutter_source_purge" -> "queue_sources"

LiveSources == {c \in media : \E p \in Live : entries[p].media = c}
\* Without the sources that earlier purges queued.
UnpurgedOfNow == {c \in media : sources[c] = "queued"}

Unpurged == {c \in Contents : sources[c] = "queued"}

\* What each job's probe finds to do.
HasWork(type) ==
    CASE type = "library_hard_wipe"    -> TRUE
      [] type = "soft_deleted_purge"   ->
            \/ SoftDeleted # {}
            \/ \E f \in Folders : folders[f] = "deleted"
            \/ Orphans # {}
      [] type = "shutter_source_purge" ->
            \/ Unpurged \ LiveSources # {}
            \/ \E c \in Orphans : sources[c] = "none"

\* scheduleMaintenanceJob: under the startup lock, refused while a run is
\* running or a job active; a wipe soft-deletes the whole library here.
ScheduleMaintenanceJob(j, type, s) ==
    /\ job[j].status = "none" /\ s \notin down
    /\ RunningRuns = {} /\ ~SomeJobActive
    /\ HasWork(type)
    /\ IF type = "library_hard_wipe"
       THEN /\ entries' = [p \in Paths |-> IF p \in Live
                              THEN [entries[p] EXCEPT !.row = "deleted"] ELSE entries[p]]
            /\ folders' = [f \in Folders |-> IF folders[f] = "live" THEN "deleted" ELSE folders[f]]
       ELSE UNCHANGED <<entries, folders>>
    /\ job' = [job EXCEPT ![j] = [type |-> type, phase |-> FirstPhase(type), status |-> "pending"]]
    /\ minds' = minds \cup {<<s, j>>}
    /\ UNCHANGED <<runs, media, sources, stored, signed, shutterVars, writes, worker, down, faults, overlapped>>

Claimed(j) == \E s \in Process : worker[<<s, j>>].at \notin {"idle", "failing"}

\* Without the claim.
CancelAtOnce(j) ==
    /\ Active(j)
    /\ job' = [job EXCEPT ![j].status = "cancelled"]
    /\ UNCHANGED <<runs, libraryVars, stored, signed, shutterVars, writes, workerVars, faults, overlapped>>

\* cancelMaintenanceJob waits for the job's claim, so for a batch to end.
CancelMaintenanceJob(j) ==
    /\ Active(j) /\ ~Claimed(j)
    /\ job' = [job EXCEPT ![j].status = "cancelled"]
    /\ UNCHANGED <<runs, libraryVars, stored, signed, shutterVars, writes, workerVars, faults, overlapped>>

-----------------------------------------------------------------------------
(* The worker.  A batch runs under the job's claim; its steps read the job *)
(* and the rows through other connections.                                 *)

Goto(w, at, rows) ==
    /\ worker' = [worker EXCEPT ![w] = [Idle EXCEPT !.at = at, !.rows = rows]]
    /\ minds' = minds /\ down' = down

\* The batch ends, and releases the claim; `again` is what it resolves to.
EndBatch(w, again) ==
    /\ worker' = [worker EXCEPT ![w] = Idle]
    /\ minds' = IF again THEN minds ELSE minds \ {w}
    /\ down' = down

\* updateJobProgress to another phase, and completeMaintenanceJob.
Advance(w, phase) ==
    job' = IF Active(w[2]) THEN [job EXCEPT ![w[2]].phase = phase] ELSE job

Complete(w) ==
    job' = IF Active(w[2])
           THEN [job EXCEPT ![w[2]].phase = "completed", ![w[2]].status = "completed"] ELSE job

PhaseOf(w) == job[w[2]].phase
Deleting(w) == worker[w].at = "deleting"

\* claimMaintenanceJobBatch, then the batch's look at the job.  A process that
\* finds the claim taken tries again later.
ClaimBatch(w) ==
    /\ w \in minds /\ worker[w].at = "idle" /\ ~Claimed(w[2])
    /\ IF Active(w[2])
       THEN /\ job' = [job EXCEPT ![w[2]].status = "running"]
            /\ Goto(w, "reading", {})
       ELSE EndBatch(w, FALSE) /\ UNCHANGED job
    /\ UNCHANGED <<runs, libraryVars, stored, signed, shutterVars, writes, faults, overlapped>>

\* The rows of the batch in the phase the job was in when the batch read it.
ReadRows(w) ==
    /\ worker[w].at = "reading"
    /\ CASE PhaseOf(w) = "orphaned_media" ->
              IF Orphans # {} THEN Goto(w, "rows", Orphans) /\ UNCHANGED <<job, sources>>
              ELSE EndBatch(w, TRUE) /\ Advance(w, "db_hard_delete") /\ UNCHANGED sources
         [] PhaseOf(w) = "s3_originals" ->
              /\ IF media # {} THEN Goto(w, "rows", media) /\ UNCHANGED job
                 ELSE IF Unpurged # {} THEN Goto(w, "purging", Unpurged) /\ UNCHANGED job
                 ELSE EndBatch(w, TRUE) /\ Advance(w, "s3_orphan_sweep")
              /\ UNCHANGED sources
         [] PhaseOf(w) = "s3_orphan_sweep" ->
              IF stored # {} THEN Goto(w, "rows", stored) /\ UNCHANGED <<job, sources>>
              ELSE EndBatch(w, TRUE) /\ Advance(w, "db_hard_delete") /\ UNCHANGED sources
         [] PhaseOf(w) = "queue_sources" ->
              LET new == {c \in Orphans : sources[c] = "none"}
              IN  /\ EndBatch(w, TRUE)
                  /\ sources' = [c \in Contents |-> IF c \in new THEN "queued" ELSE sources[c]]
                  /\ IF new = {} THEN Advance(w, "shutter_sources") ELSE UNCHANGED job
         [] PhaseOf(w) = "shutter_sources" ->
              LET left == [c \in Contents |-> IF c \in LiveSources THEN "none" ELSE sources[c]]
                  rows == Unpurged \ LiveSources
              IN  /\ sources' = left
                  /\ IF rows # {} THEN Goto(w, "purging", rows) /\ UNCHANGED job
                     ELSE EndBatch(w, FALSE) /\ Complete(w)
         [] PhaseOf(w) = "db_hard_delete" ->
              Goto(w, "hard delete", {}) /\ UNCHANGED <<job, sources>>
         [] OTHER -> EndBatch(w, FALSE) /\ UNCHANGED <<job, sources>>
    /\ UNCHANGED <<runs, entries, folders, media, stored, signed, shutterVars, writes, faults, overlapped>>

\* isMaintenanceJobActive, just before the batch's first external delete.
CheckActive(w) ==
    /\ worker[w].at = "rows"
    /\ IF Active(w[2]) THEN Goto(w, "deleting", worker[w].rows)
       ELSE EndBatch(w, FALSE)
    /\ UNCHANGED <<runs, libraryVars, stored, signed, shutterVars, writes, job, faults, overlapped>>

\* deleteObjects: the batch's originals go in one request.
DeleteObjects(w) ==
    /\ worker[w].at = "deleting"
    /\ stored' = stored \ worker[w].rows
    /\ IF PhaseOf(w) = "s3_orphan_sweep"
       THEN EndBatch(w, Active(w[2]))
       ELSE Goto(w, "deleted", worker[w].rows)
    /\ UNCHANGED <<runs, libraryVars, signed, shutterVars, writes, job, faults, overlapped>>

\* A media row's deletion cascades to the entries that name it.
DeleteMedia(c) ==
    /\ media' = media \ {c}
    /\ entries' = [p \in Paths |-> IF entries[p].media = c THEN NoEntry ELSE entries[p]]

\* Without queueing the Shutter source.
DeleteOrphanRowOnly(w) ==
    /\ worker[w].at = "deleted" /\ PhaseOf(w) = "orphaned_media"
    /\ \E c \in worker[w].rows :
        IF Active(w[2])
        THEN DeleteMedia(c) /\ Goto(w, "deleted", worker[w].rows \ {c})
        ELSE EndBatch(w, FALSE) /\ UNCHANGED <<media, entries>>
    /\ UNCHANGED <<runs, folders, sources, stored, signed, shutterVars, writes, job, faults, overlapped>>

\* A row of the deleted-item purge: one transaction, which locks the active
\* job, queues the row's Shutter source and deletes the row.
DeleteOrphanRow(w) ==
    /\ worker[w].at = "deleted" /\ PhaseOf(w) = "orphaned_media"
    /\ \E c \in worker[w].rows :
        IF Active(w[2])
        THEN /\ sources' = [sources EXCEPT ![c] = IF @ = "none" THEN "queued" ELSE @]
             /\ DeleteMedia(c)
             /\ Goto(w, "deleted", worker[w].rows \ {c})
        ELSE EndBatch(w, FALSE) /\ UNCHANGED <<sources, media, entries>>
    /\ UNCHANGED <<runs, folders, stored, signed, shutterVars, writes, job, faults, overlapped>>

\* A row of a wipe: Shutter's copy goes first, and the row that names it after.
PurgeWipedRow(w) ==
    /\ worker[w].at = "deleted" /\ PhaseOf(w) = "s3_originals"
    /\ \E c \in worker[w].rows :
        IF Active(w[2])
        THEN /\ shutter' = shutter \ {c}
             /\ told' = told \cup {c}
             /\ worker' = [worker EXCEPT ![w].at = "purged", ![w].row = c]
             /\ UNCHANGED <<minds, down>>
        ELSE EndBatch(w, FALSE) /\ UNCHANGED <<shutter, told>>
    /\ UNCHANGED <<runs, libraryVars, signed, stored, located, writes, job, faults, overlapped>>

DeleteWipedRow(w) ==
    /\ worker[w].at = "purged"
    /\ DeleteMedia(worker[w].row)
    /\ Goto(w, "deleted", worker[w].rows \ {worker[w].row})
    /\ UNCHANGED <<runs, folders, sources, stored, signed, shutterVars, writes, job, faults, overlapped>>

\* purgeQueuedShutterSources: each queued source is purged, then marked.
PurgeSource(w) ==
    /\ worker[w].at = "purging"
    /\ \E c \in worker[w].rows :
        IF Active(w[2])
        THEN /\ shutter' = shutter \ {c}
             /\ told' = told \cup {c}
             /\ worker' = [worker EXCEPT ![w].at = "marking", ![w].row = c]
             /\ UNCHANGED <<minds, down>>
        ELSE EndBatch(w, FALSE) /\ UNCHANGED <<shutter, told>>
    /\ UNCHANGED <<runs, libraryVars, signed, stored, located, writes, job, faults, overlapped>>

MarkPurged(w) ==
    /\ worker[w].at = "marking"
    /\ sources' = [sources EXCEPT ![worker[w].row] = IF @ = "none" THEN "none" ELSE "purged"]
    /\ Goto(w, "purging", worker[w].rows \ {worker[w].row})
    /\ UNCHANGED <<runs, entries, folders, media, stored, signed, shutterVars, writes, job,
                   faults, overlapped>>

\* The batch's rows are done: its progress is saved and another batch follows.
RowsDone(w) ==
    /\ worker[w].at \in {"deleted", "purging"} /\ worker[w].rows = {}
    /\ EndBatch(w, TRUE)
    /\ UNCHANGED <<runs, libraryVars, stored, signed, shutterVars, writes, job, faults, overlapped>>

\* db_hard_delete: one transaction that locks the active job.
HardDelete(w) ==
    /\ worker[w].at = "hard delete"
    /\ IF ~Active(w[2])
       THEN EndBatch(w, FALSE) /\ UNCHANGED <<runs, entries, folders, media>>
       ELSE IF job[w[2]].type = "library_hard_wipe"
       THEN /\ runs' = [r \in Runs |-> IF runs[r] = "absent" THEN "absent" ELSE "wiped"]
            /\ entries' = [p \in Paths |-> NoEntry]
            /\ folders' = [f \in Folders |-> "none"]
            /\ media' = {}
            /\ Goto(w, "completing", {})
       ELSE /\ entries' = [p \in Paths |-> IF p \in SoftDeleted THEN NoEntry ELSE entries[p]]
            /\ folders' = [f \in Folders |->
                  IF folders[f] = "deleted" /\ f \notin Occupied
                     /\ \A g \in Folders : folders[g] = "live" => f \notin Above[g]
                  THEN "none" ELSE folders[f]]
            /\ Goto(w, "completing", {})
            /\ UNCHANGED <<runs, media>>
    /\ UNCHANGED <<sources, stored, signed, shutterVars, writes, job, faults, overlapped>>

CompleteJob(w) ==
    /\ worker[w].at = "completing"
    /\ Complete(w)
    /\ EndBatch(w, FALSE)
    /\ UNCHANGED <<runs, libraryVars, stored, signed, shutterVars, writes, faults, overlapped>>

\* A request to storage or to Shutter fails, a delete after taking some of its
\* objects.  The batch throws, which releases the claim ...
FailRequest(w) ==
    /\ faults < MaxFaults
    /\ faults' = faults + 1
    /\ \/ /\ worker[w].at = "deleting"
          /\ \E taken \in SUBSET worker[w].rows : stored' = stored \ taken
       \/ /\ \/ worker[w].at = "purging"
             \/ worker[w].at = "deleted" /\ PhaseOf(w) = "s3_originals"
          /\ worker[w].rows # {}
          /\ UNCHANGED stored
    /\ Goto(w, "failing", {})
    /\ UNCHANGED <<runs, libraryVars, signed, shutterVars, writes, job, overlapped>>

\* ... and only then records the failure on the job.
FailMaintenanceJob(w) ==
    /\ worker[w].at = "failing"
    /\ job' = IF Active(w[2]) THEN [job EXCEPT ![w[2]].status = "failed"] ELSE job
    /\ EndBatch(w, FALSE)
    /\ UNCHANGED <<runs, libraryVars, stored, signed, shutterVars, writes, faults, overlapped>>

\* A process dies, and with it its batches, its timers and its claims.
Crash(s) ==
    /\ faults < MaxFaults /\ s \notin down
    /\ faults' = faults + 1
    /\ down' = down \cup {s}
    /\ worker' = [w \in Workers |-> IF w[1] = s THEN Idle ELSE worker[w]]
    /\ minds' = {w \in minds : w[1] # s}
    /\ UNCHANGED <<runs, libraryVars, stored, signed, shutterVars, writes, job, overlapped>>

\* Without resumePendingMaintenanceJobs.
RestartIdle(s) ==
    /\ s \in down
    /\ down' = down \ {s}
    /\ UNCHANGED <<runs, libraryVars, stored, signed, shutterVars, writes, job, minds, worker, faults, overlapped>>

\* resumePendingMaintenanceJobs, as a process starts.
Restart(s) ==
    /\ s \in down
    /\ down' = down \ {s}
    /\ minds' = minds \cup {w \in Workers : w[1] = s /\ Active(w[2])}
    /\ UNCHANGED <<runs, libraryVars, stored, signed, shutterVars, writes, job, worker, faults, overlapped>>

BatchStep(w) ==
    \/ ReadRows(w) \/ CheckActive(w) \/ DeleteObjects(w)
    \/ DeleteOrphanRow(w) \/ PurgeWipedRow(w) \/ DeleteWipedRow(w)
    \/ PurgeSource(w) \/ MarkPurged(w) \/ RowsDone(w)
    \/ HardDelete(w) \/ CompleteJob(w) \/ FailMaintenanceJob(w)

SyncStep ==
    \/ \E r \in Runs :
        \/ StartSyncRun(r) \/ ForceCancelSyncRun(r)
        \/ \E status \in Outcomes : FinalizeSyncRun(r, status)
    \/ ForceCancelAllRunningSyncRuns
    \/ \E q \in Requests : AdmitWrite(q)
    \/ \E x \in writes : AttestUpload(x) \/ OpenWrite(x) \/ CommitWrite(x) \/ MarkRemoteDeleted(x)
    \/ \E c \in Contents :
        SignUpload(c) \/ PutObject(c) \/ ResolveDeliveryUrl(c) \/ CacheSource(c)

ManagementStep ==
    \/ \E f \in Folders : SoftDeleteFolderSubtree(f)
    \/ \E j \in Jobs : \E type \in JobTypes : \E s \in Process : ScheduleMaintenanceJob(j, type, s)
    \/ \E j \in Jobs : CancelMaintenanceJob(j)

WorkerStep ==
    \/ \E w \in Workers : ClaimBatch(w) \/ BatchStep(w) \/ FailRequest(w)
    \/ \E s \in Process : Crash(s) \/ Restart(s)

StoreNext == SyncStep \/ ManagementStep \/ WorkerStep

StoreSpec == StoreInit /\ [][StoreNext]_storeVars

\* A process that runs keeps taking its steps, and one that died is started again.
StoreFairness ==
    /\ \A w \in Workers : WF_storeVars(BatchStep(w)) /\ WF_storeVars(ClaimBatch(w))
    /\ \A s \in Process : WF_storeVars(Restart(s))

FairStoreSpec == StoreSpec /\ StoreFairness

-----------------------------------------------------------------------------
(* What the store promises. *)

StoreTypeOK ==
    /\ runs \in [Runs -> RunStates]
    /\ \A p \in Paths : /\ entries[p].row \in {"none", "live", "deleted"}
                         /\ entries[p].media \in Contents \cup {NoContent}
                         /\ entries[p].row = "none" <=> entries[p].media = NoContent
    /\ folders \in [Folders -> {"none", "live", "deleted"}]
    /\ media \subseteq Contents /\ stored \subseteq Contents /\ signed \subseteq Contents
    /\ shutter \subseteq Contents /\ located \subseteq Contents /\ told \subseteq Contents
    /\ sources \in [Contents -> {"none", "queued", "purged"}]
    /\ \A j \in Jobs : job[j].status \in JobStates /\ job[j].phase \in Phases
    /\ minds \subseteq Workers /\ down \subseteq Process
    /\ \A w \in Workers : worker[w].rows \subseteq Contents

\* No sync run is running while a maintenance job is active, and no two jobs are
\* active: both start under one advisory lock (library-coordination-lock.ts).
JobsAndRunsExclude ==
    /\ SomeJobActive => RunningRuns = {}
    /\ \A i, j \in Jobs : Active(i) /\ Active(j) => i = j

\* Whatever syncs, cancels, purges and crashes came together, a file the gallery
\* shows has its media row, and its original is in the object store.
LiveEntriesHaveOriginals ==
    \A p \in Live : entries[p].media \in media \cap stored

\* An object that a batch is about to delete is one no live entry serves.
NothingLiveIsDeleted ==
    \A w \in Workers : Deleting(w) =>
        worker[w].rows \cap {entries[p].media : p \in Live} = {}

\* "The job must keep blocking syncs" while a batch has a storage delete in flight
\* (cleanup-control.ts:10).
DeletesBlockSyncs == \A w \in Workers : Deleting(w) => Active(w[2])

\* No purge or wipe, however it ends, strands a copy in Shutter that it was not
\* told to purge: the content's media row is there or its purge is queued.  What
\* nothing names can only be a copy fetched again after its purge.
NoStrandedSource ==
    \A c \in shutter : c \in told \/ c \in media \/ sources[c] = "queued"

\* A live file is in live folders, at every depth, so the gallery can reach it,
\* unless two sync runs were running at once.
LiveFilesAreReachable ==
    overlapped \/ \A p \in Live : \A f \in Above[p] : folders[f] = "live"

\* A wipe that completes has left nothing: no entry, no media row, and in Shutter
\* nothing that it was not told to purge (processLibraryWipeBatch).
WipeLeavesNothing ==
    [][\A j \in Jobs :
        (job[j].type = "library_hard_wipe" /\ job'[j].status = "completed"
            /\ job[j].status # "completed")
        => media = {} /\ shutter \subseteq told /\ \A p \in Paths : entries[p].row = "none"]_storeVars

\* Every job ends: its batches finish, and a process that dies with one leaves it
\* to another, or to the next start (cleanup-worker.ts:233).
JobsEnd == \A j \in Jobs : Active(j) ~> ~Active(j)
=============================================================================
