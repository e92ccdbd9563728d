------------------------ MODULE PaneViewStoreProofs ------------------------
(***************************************************************************)
(* What Pane View's store keeps for any runs, paths, contents, folders and *)
(* jobs, however many requests fail and however often the server dies:     *)
(* runs and jobs exclude each other, and, as long as one process serves,   *)
(* no purge or wipe takes what the gallery shows or forgets a copy that    *)
(* Shutter was not told to purge.                                          *)
(***************************************************************************)
EXTENDS PaneViewStore, TLAPS

-----------------------------------------------------------------------------
(* Type correctness. *)

Stages == {"idle", "reading", "rows", "deleting", "deleted", "purged", "purging", "marking",
           "hard delete", "completing", "failing"}

WriteTypes == [run : Runs, path : Paths, content : Contents \cup {NoContent},
               at : {"admitted", "attested", "open"}, restore : SUBSET Folders]

WorkerTypes == [at : Stages, rows : SUBSET Contents, row : Contents \cup {NoContent}]

JobRecords == [type : JobTypes \cup {NoType}, phase : Phases, status : JobStates]

\* StoreTypeOK with every variable's whole type.
Types ==
    /\ runs \in [Runs -> RunStates]
    /\ entries \in [Paths -> [row : {"none", "live", "deleted"},
                              media : Contents \cup {NoContent}]]
    /\ \A p \in Paths : entries[p].row = "none" <=> entries[p].media = NoContent
    /\ folders \in [Folders -> {"none", "live", "deleted"}]
    /\ media \in SUBSET Contents /\ stored \in SUBSET Contents
    /\ signed \in SUBSET Contents /\ shutter \in SUBSET Contents
    /\ located \in SUBSET Contents /\ told \in SUBSET Contents
    /\ sources \in [Contents -> {"none", "queued", "purged"}]
    /\ writes \in SUBSET WriteTypes
    /\ \A x \in writes : x.at # "admitted" => x.content # NoContent
    /\ job \in [Jobs -> JobRecords]
    /\ minds \in SUBSET Workers /\ down \in SUBSET Process
    /\ worker \in [Workers -> WorkerTypes]

\* What ends a batch, or takes it to another stage, keeps the worker's type.
LEMMA WorkerStepTypes ==
  ASSUME Types, NEW w \in Workers, NEW at \in Stages, NEW rows \in SUBSET Contents,
         NEW again \in BOOLEAN, Goto(w, at, rows) \/ EndBatch(w, again)
  PROVE  /\ worker' \in [Workers -> WorkerTypes]
         /\ minds' \in SUBSET Workers /\ down' \in SUBSET Process
<1>1. Idle \in WorkerTypes /\ [Idle EXCEPT !.at = at, !.rows = rows] \in WorkerTypes
  BY DEF Idle, WorkerTypes, Stages
<1>2. QED
  BY <1>1 DEF Goto, EndBatch, Types

\* A job keeps its type when its status changes.
LEMMA StatusTypes ==
  ASSUME Types, NEW j \in Jobs, NEW status \in JobStates
  PROVE  [job EXCEPT ![j].status = status] \in [Jobs -> JobRecords]
<1>1. job \in [Jobs -> JobRecords]
  BY DEF Types
<1>2. [job[j] EXCEPT !.status = status] \in JobRecords
  BY <1>1 DEF JobRecords
<1>3. QED
  BY <1>1, <1>2

\* What takes a job on keeps its type.
LEMMA JobStepTypes ==
  ASSUME Types, NEW w \in Workers, NEW phase \in Phases, Advance(w, phase) \/ Complete(w)
  PROVE  job' \in [Jobs -> JobRecords]
<1>1. w[2] \in Jobs
  BY DEF Workers
<1>2. QED
  BY <1>1, SMTT(30) DEF Advance, Complete, Types, JobRecords, Phases, JobStates, Terminal

\* Deleting a media row keeps the library's types.
LEMMA DeleteMediaTypes ==
  ASSUME Types, NEW c, DeleteMedia(c)
  PROVE  /\ media' \in SUBSET Contents
         /\ entries' \in [Paths -> [row : {"none", "live", "deleted"},
                                    media : Contents \cup {NoContent}]]
         /\ \A p \in Paths : entries'[p].row = "none" <=> entries'[p].media = NoContent
BY DEF DeleteMedia, Types, NoEntry

\* The type of every variable, at the start.
LEMMA TypesInit == StoreInit => Types
BY DEF StoreInit, Types, NoEntry, Idle, WorkerTypes, Stages, JobRecords, JobStates, Phases,
       RunStates

\* Sync runs and writes keep the types.
LEMMA TypesSync ==
  ASSUME Types, SyncStep
  PROVE  Types'
<1> USE DEF Types, libraryVars, shutterVars, workerVars
<1>1. ASSUME NEW r \in Runs, StartSyncRun(r) PROVE Types'
  BY <1>1 DEF StartSyncRun, RunStates
<1>2. ASSUME NEW S, NEW status \in Terminal, EndRuns(S, status) PROVE Types'
  BY <1>2 DEF EndRuns, EmptiedFoldersDeleted, RunStates
<1>3. ASSUME NEW q \in Requests, AdmitWrite(q) PROVE Types'
  BY <1>3 DEF AdmitWrite, Admitted, Requests, WriteTypes
<1>4. ASSUME NEW x \in writes, AttestUpload(x) PROVE Types'
  BY <1>4 DEF AttestUpload, WriteTypes
<1>5. ASSUME NEW x \in writes, OpenWrite(x) PROVE Types'
  <2>1. {f \in Above[x.path] : folders[f] # "live"} \in SUBSET Folders
    BY StoreAssumption DEF StoreAssumption, WriteTypes
  <2>2. QED
    BY <1>5, <2>1, ZenonT(60) DEF OpenWrite, WriteTypes
<1>6. ASSUME NEW x \in writes, CommitWrite(x) PROVE Types'
  BY <1>6 DEF CommitWrite, WriteTypes
<1>7. ASSUME NEW x \in writes, MarkRemoteDeleted(x) PROVE Types'
  BY <1>7 DEF MarkRemoteDeleted, WriteTypes
<1>8. ASSUME NEW c \in Contents,
             SignUpload(c) \/ PutObject(c) \/ ResolveDeliveryUrl(c) \/ CacheSource(c)
      PROVE Types'
  BY <1>8 DEF SignUpload, PutObject, ResolveDeliveryUrl, CacheSource
<1>9. QED
  BY <1>1, <1>2, <1>3, <1>4, <1>5, <1>6, <1>7, <1>8, StoreAssumption, ZenonT(60)
  DEF SyncStep, ForceCancelSyncRun, FinalizeSyncRun, ForceCancelAllRunningSyncRuns, Terminal,
      StoreAssumption

\* The management operations keep the types.
LEMMA TypesManagement ==
  ASSUME Types, ManagementStep
  PROVE  Types'
<1> USE DEF Types, libraryVars, shutterVars, workerVars
<1>1. ASSUME NEW f \in Folders, SoftDeleteFolderSubtree(f) PROVE Types'
  BY <1>1 DEF SoftDeleteFolderSubtree, Live
<1>2. ASSUME NEW j \in Jobs, NEW type \in JobTypes, NEW s \in Process,
             ScheduleMaintenanceJob(j, type, s)
      PROVE  Types'
  <2>1. FirstPhase(type) \in Phases
    BY StoreAssumption DEF StoreAssumption, FirstPhase, Phases
  <2>2. job' \in [Jobs -> JobRecords]
    BY <1>2, <2>1 DEF ScheduleMaintenanceJob, JobRecords, JobStates
  <2>3. minds' \in SUBSET Workers
    BY <1>2 DEF ScheduleMaintenanceJob, Workers
  <2>4. QED
    BY <1>2, <2>2, <2>3 DEF ScheduleMaintenanceJob, Live
<1>3. ASSUME NEW j \in Jobs, CancelMaintenanceJob(j) PROVE Types'
  BY <1>3 DEF CancelMaintenanceJob, JobRecords, JobStates, Terminal
<1>4. QED
  BY <1>1, <1>2, <1>3 DEF ManagementStep

\* The worker keeps the types.
LEMMA TypesWorker ==
  ASSUME Types, WorkerStep
  PROVE  Types'
<1> USE DEF libraryVars, shutterVars
<1>a. ASSUME NEW w \in Workers PROVE w[2] \in Jobs /\ worker[w].rows \in SUBSET Contents
  BY DEF Workers, Types, WorkerTypes
<1>b. "reading" \in Stages /\ "rows" \in Stages /\ "deleting" \in Stages /\ "deleted" \in Stages
      /\ "purged" \in Stages /\ "purging" \in Stages /\ "marking" \in Stages
      /\ "hard delete" \in Stages /\ "completing" \in Stages /\ "failing" \in Stages
  BY DEF Stages
<1>1. ASSUME NEW w \in Workers, ClaimBatch(w) PROVE Types'
  <2>1. job' \in [Jobs -> JobRecords]
    <3>1. CASE UNCHANGED job
      BY <3>1 DEF Types
    <3>2. CASE job' = [job EXCEPT ![w[2]].status = "running"]
      BY <1>a, <3>2, StatusTypes DEF JobStates
    <3>3. QED
      BY <1>1, <3>1, <3>2 DEF ClaimBatch
  <2>2. QED
    BY <1>1, <1>b, <2>1, WorkerStepTypes DEF ClaimBatch, Types
<1>2. ASSUME NEW w \in Workers, ReadRows(w) PROVE Types'
  <2>1. /\ Orphans \in SUBSET Contents /\ media \in SUBSET Contents /\ stored \in SUBSET Contents
        /\ Unpurged \in SUBSET Contents /\ Unpurged \ LiveSources \in SUBSET Contents
    BY DEF Types, Orphans, Unpurged
  <2>2. job' \in [Jobs -> JobRecords]
    <3>1. CASE UNCHANGED job
      BY <3>1 DEF Types
    <3>2. CASE ~UNCHANGED job
      BY <1>2, <3>2, JobStepTypes DEF ReadRows, Phases
    <3>3. QED
      BY <3>1, <3>2
  <2>3. sources' \in [Contents -> {"none", "queued", "purged"}]
    BY ZenonT(60), <1>2 DEF ReadRows, Types
  <2>4. /\ worker' \in [Workers -> WorkerTypes]
        /\ minds' \in SUBSET Workers /\ down' \in SUBSET Process
    BY <1>2, <1>b, <2>1, WorkerStepTypes DEF ReadRows
  <2>5. QED
    BY <1>2, <2>2, <2>3, <2>4 DEF ReadRows, Types
<1>3. ASSUME NEW w \in Workers, CheckActive(w) PROVE Types'
  BY <1>3, <1>a, <1>b, WorkerStepTypes DEF CheckActive, Types
<1>4. ASSUME NEW w \in Workers, DeleteObjects(w) PROVE Types'
  <2>1. Active(w[2]) \in BOOLEAN
    BY DEF Active
  <2>2. /\ worker' \in [Workers -> WorkerTypes]
        /\ minds' \in SUBSET Workers /\ down' \in SUBSET Process
    BY <1>4, <1>a, <1>b, <2>1, WorkerStepTypes DEF DeleteObjects
  <2>3. QED
    BY <1>4, <2>2 DEF DeleteObjects, Types
<1>5. ASSUME NEW w \in Workers, DeleteOrphanRow(w) PROVE Types'
  <2>1. /\ worker' \in [Workers -> WorkerTypes]
        /\ minds' \in SUBSET Workers /\ down' \in SUBSET Process
    BY <1>5, <1>a, <1>b, WorkerStepTypes DEF DeleteOrphanRow
  <2>2. sources' \in [Contents -> {"none", "queued", "purged"}]
    BY <1>5, <1>a, ZenonT(60) DEF DeleteOrphanRow, Types
  <2>3. QED
    BY <1>5, <2>1, <2>2, DeleteMediaTypes DEF DeleteOrphanRow, Types
<1>6. ASSUME NEW w \in Workers, PurgeWipedRow(w) PROVE Types'
  <2>1. CASE EndBatch(w, FALSE) /\ UNCHANGED <<shutter, told>>
    BY <1>6, <2>1, <1>b, WorkerStepTypes DEF PurgeWipedRow, Types
  <2>2. CASE ~(EndBatch(w, FALSE) /\ UNCHANGED <<shutter, told>>)
    <3>1. PICK c \in worker[w].rows :
              /\ shutter' = shutter \ {c}
              /\ told' = told \cup {c}
              /\ worker' = [worker EXCEPT ![w].at = "purged", ![w].row = c]
              /\ UNCHANGED <<minds, down>>
      BY <1>6, <2>2 DEF PurgeWipedRow
    <3>2. worker[w] \in WorkerTypes /\ c \in Contents
      BY <1>a DEF Types
    <3>3. [worker[w] EXCEPT !.at = "purged", !.row = c] \in WorkerTypes
      BY <1>b, <3>2 DEF WorkerTypes
    <3>4. worker' = [worker EXCEPT ![w] = [worker[w] EXCEPT !.at = "purged", !.row = c]]
      BY <3>1
    <3>5. QED
      BY <1>6, <3>1, <3>2, <3>3, <3>4 DEF PurgeWipedRow, Types
  <2>3. QED
    BY <2>1, <2>2
<1>7. ASSUME NEW w \in Workers, DeleteWipedRow(w) PROVE Types'
  BY <1>7, <1>a, <1>b, WorkerStepTypes, DeleteMediaTypes DEF DeleteWipedRow, Types
<1>8. ASSUME NEW w \in Workers, PurgeSource(w) PROVE Types'
  <2>1. CASE EndBatch(w, FALSE) /\ UNCHANGED <<shutter, told>>
    BY <1>8, <2>1, <1>b, WorkerStepTypes DEF PurgeSource, Types
  <2>2. CASE ~(EndBatch(w, FALSE) /\ UNCHANGED <<shutter, told>>)
    <3>1. PICK c \in worker[w].rows :
              /\ shutter' = shutter \ {c}
              /\ told' = told \cup {c}
              /\ worker' = [worker EXCEPT ![w].at = "marking", ![w].row = c]
              /\ UNCHANGED <<minds, down>>
      BY <1>8, <2>2 DEF PurgeSource
    <3>2. worker[w] \in WorkerTypes /\ c \in Contents
      BY <1>a DEF Types
    <3>3. [worker[w] EXCEPT !.at = "marking", !.row = c] \in WorkerTypes
      BY <1>b, <3>2 DEF WorkerTypes
    <3>4. worker' = [worker EXCEPT ![w] = [worker[w] EXCEPT !.at = "marking", !.row = c]]
      BY <3>1
    <3>5. QED
      BY <1>8, <3>1, <3>2, <3>3, <3>4 DEF PurgeSource, Types
  <2>3. QED
    BY <2>1, <2>2
<1>9. ASSUME NEW w \in Workers, MarkPurged(w) PROVE Types'
  <2>1. sources' \in [Contents -> {"none", "queued", "purged"}]
    BY <1>9 DEF MarkPurged, Types
  <2>2. QED
    BY <1>9, <2>1, <1>a, <1>b, WorkerStepTypes DEF MarkPurged, Types
<1>10. ASSUME NEW w \in Workers, RowsDone(w) PROVE Types'
  BY <1>10, <1>b, WorkerStepTypes DEF RowsDone, Types
<1>11. ASSUME NEW w \in Workers, HardDelete(w) PROVE Types'
  <2>1. /\ worker' \in [Workers -> WorkerTypes]
        /\ minds' \in SUBSET Workers /\ down' \in SUBSET Process
    BY <1>11, <1>b, WorkerStepTypes DEF HardDelete
  <2>2. QED
    <3>1. CASE UNCHANGED <<runs, entries, folders, media>>
      BY <1>11, <2>1, <3>1 DEF HardDelete, Types
    <3>2. CASE /\ runs' = [r \in Runs |-> IF runs[r] = "absent" THEN "absent" ELSE "wiped"]
               /\ entries' = [p \in Paths |-> NoEntry]
               /\ folders' = [f \in Folders |-> "none"]
               /\ media' = {}
      BY <1>11, <2>1, <3>2 DEF HardDelete, Types, NoEntry, RunStates
    <3>3. CASE /\ entries' = [p \in Paths |-> IF p \in SoftDeleted THEN NoEntry ELSE entries[p]]
               /\ folders' \in [Folders -> {"none", "live", "deleted"}]
               /\ UNCHANGED <<runs, media>>
      BY <1>11, <2>1, <3>3 DEF HardDelete, Types, NoEntry
    <3>4. QED
      <4>1. CASE ~Active(w[2]) \/ job[w[2]].type = "library_hard_wipe"
        BY <1>11, <3>1, <3>2, <4>1 DEF HardDelete
      <4>2. CASE Active(w[2]) /\ job[w[2]].type # "library_hard_wipe"
        <5>1. folders' \in [Folders -> {"none", "live", "deleted"}]
          BY <1>11, <4>2 DEF HardDelete, Types
        <5>2. QED
          BY <1>11, <3>3, <4>2, <5>1 DEF HardDelete
      <4>3. QED
        BY <4>1, <4>2
<1>12. ASSUME NEW w \in Workers, CompleteJob(w) PROVE Types'
  <2>1. "completed" \in Phases
    BY DEF Phases
  <2>2. QED
    BY <1>12, <1>b, <2>1, WorkerStepTypes, JobStepTypes DEF CompleteJob, Types
<1>13. ASSUME NEW w \in Workers, FailRequest(w) PROVE Types'
  BY <1>13, <1>b, WorkerStepTypes DEF FailRequest, Types
<1>14. ASSUME NEW w \in Workers, FailMaintenanceJob(w) PROVE Types'
  <2>1. job' \in [Jobs -> JobRecords]
    BY <1>14, <1>a, StatusTypes DEF FailMaintenanceJob, Types, JobStates, Terminal
  <2>2. QED
    BY <1>14, <1>b, <2>1, WorkerStepTypes DEF FailMaintenanceJob, Types
<1>15. ASSUME NEW s \in Process, Crash(s) \/ Restart(s) PROVE Types'
  <2>1. Idle \in WorkerTypes
    BY DEF Idle, WorkerTypes, Stages
  <2>2. QED
    BY <1>15, <2>1 DEF Crash, Restart, Types
<1>16. QED
  BY <1>1, <1>2, <1>3, <1>4, <1>5, <1>6, <1>7, <1>8, <1>9, <1>10, <1>11, <1>12, <1>13, <1>14,
     <1>15 DEF WorkerStep, BatchStep

LEMMA TypesUnchanged ==
  ASSUME Types, UNCHANGED storeVars
  PROVE  Types'
BY DEF Types, storeVars, libraryVars, shutterVars, workerVars

\* Every variable keeps its whole type.
LEMMA TypesStep == Types /\ [StoreNext]_storeVars => Types'
BY TypesSync, TypesManagement, TypesWorker, TypesUnchanged DEF StoreNext

(***************************************************************************)
(* The store's variables keep their types: an entry has a row exactly when *)
(* it has a content, because a write commits only what was attested.       *)
(***************************************************************************)
THEOREM StoreTypes == StoreSpec => []StoreTypeOK
<1>1. Types => StoreTypeOK
  BY DEF Types, StoreTypeOK, JobRecords, WorkerTypes
<1>2. QED
  BY <1>1, TypesInit, TypesStep, PTL DEF StoreSpec

-----------------------------------------------------------------------------
(* Runs and jobs exclude each other. *)

Begins ==
    \/ \E r \in Runs : StartSyncRun(r)
    \/ \E j \in Jobs, type \in JobTypes, s \in Process : ScheduleMaintenanceJob(j, type, s)

\* Only what takes the startup lock makes a run running or a job active.
LEMMA NothingElseBegins ==
  ASSUME Types, [StoreNext]_storeVars, ~Begins
  PROVE  /\ RunningRuns' \subseteq RunningRuns
         /\ \A j \in Jobs : Active(j)' => Active(j)
         /\ \A r \in Runs : runs[r] # "absent" => runs'[r] # "absent"
<1> USE DEF RunningRuns, Active, libraryVars, shutterVars, workerVars
<1>1. CASE SyncStep
  <2>1. ASSUME NEW S, NEW status \in Terminal, EndRuns(S, status)
        PROVE  /\ RunningRuns' \subseteq RunningRuns /\ job' = job
               /\ \A r \in Runs : runs[r] # "absent" => runs'[r] # "absent"
    BY <2>1 DEF EndRuns, Terminal
  <2>2. \/ \E S : \E status \in Terminal : EndRuns(S, status)
        \/ UNCHANGED <<runs, job>>
    BY <1>1, StoreAssumption
    DEF SyncStep, Begins, ForceCancelSyncRun, FinalizeSyncRun, ForceCancelAllRunningSyncRuns,
        Terminal, StoreAssumption, AdmitWrite, AttestUpload, OpenWrite, CommitWrite,
        MarkRemoteDeleted, SignUpload, PutObject, ResolveDeliveryUrl, CacheSource
  <2>3. QED
    BY <2>1, <2>2
<1>2. CASE ManagementStep
  <2>1. ASSUME NEW j \in Jobs, CancelMaintenanceJob(j)
        PROVE  runs' = runs /\ \A i \in Jobs : Active(i)' => Active(i)
    BY <2>1 DEF CancelMaintenanceJob, Types, JobRecords
  <2>2. QED
    BY <1>2, <2>1 DEF ManagementStep, Begins, SoftDeleteFolderSubtree
<1>3. ASSUME NEW w \in Workers, ClaimBatch(w) \/ BatchStep(w) \/ FailRequest(w)
      PROVE  /\ RunningRuns' \subseteq RunningRuns
             /\ \A j \in Jobs : Active(j)' => Active(j)
             /\ \A r \in Runs : runs[r] # "absent" => runs'[r] # "absent"
  <2>0. w[2] \in Jobs
    BY DEF Workers
  <2>1. ASSUME NEW phase, Advance(w, phase) \/ Complete(w)
        PROVE  \A j \in Jobs : Active(j)' => Active(j)
    BY <2>0, <2>1 DEF Advance, Complete, Types, JobRecords
  <2>2. ASSUME ClaimBatch(w) PROVE runs' = runs /\ \A j \in Jobs : Active(j)' => Active(j)
    BY <2>0, <2>2 DEF ClaimBatch, Types, JobRecords
  <2>3. ASSUME FailMaintenanceJob(w)
        PROVE  runs' = runs /\ \A j \in Jobs : Active(j)' => Active(j)
    BY <2>0, <2>3 DEF FailMaintenanceJob, Types, JobRecords
  <2>4. ASSUME ReadRows(w) PROVE runs' = runs /\ \A j \in Jobs : Active(j)' => Active(j)
    <3>1. CASE UNCHANGED job
      BY <2>4, <3>1 DEF ReadRows
    <3>2. CASE \E phase : Advance(w, phase) \/ Complete(w)
      BY <2>1, <2>4, <3>2 DEF ReadRows
    <3>3. QED
      BY <2>4, <3>1, <3>2 DEF ReadRows
  <2>5. ASSUME CompleteJob(w) PROVE runs' = runs /\ \A j \in Jobs : Active(j)' => Active(j)
    BY <2>1, <2>5 DEF CompleteJob
  <2>6. ASSUME HardDelete(w)
        PROVE  /\ RunningRuns' \subseteq RunningRuns /\ job' = job
               /\ \A r \in Runs : runs[r] # "absent" => runs'[r] # "absent"
    BY <2>6 DEF HardDelete, Types
  <2>7. QED
    BY <1>3, <2>2, <2>3, <2>4, <2>5, <2>6
    DEF BatchStep, CheckActive, DeleteObjects, DeleteOrphanRow, PurgeWipedRow, DeleteWipedRow,
        PurgeSource, MarkPurged, RowsDone, FailRequest
<1>4. ASSUME NEW s \in Process, Crash(s) \/ Restart(s) PROVE UNCHANGED <<runs, job>>
  BY <1>4 DEF Crash, Restart
<1>5. CASE UNCHANGED storeVars
  BY <1>5 DEF storeVars
<1>6. QED
  BY <1>1, <1>2, <1>3, <1>4, <1>5 DEF StoreNext, WorkerStep

\* Starting and scheduling ask for the other's absence under the lock.
LEMMA ExcludeStep ==
  ASSUME Types, JobsAndRunsExclude, [StoreNext]_storeVars
  PROVE  JobsAndRunsExclude'
<1> USE DEF JobsAndRunsExclude, SomeJobActive
<1>1. CASE ~Begins
  BY <1>1, NothingElseBegins
<1>2. ASSUME NEW r \in Runs, StartSyncRun(r) PROVE JobsAndRunsExclude'
  BY <1>2 DEF StartSyncRun, Active
<1>3. ASSUME NEW j \in Jobs, NEW type \in JobTypes, NEW s \in Process,
             ScheduleMaintenanceJob(j, type, s)
      PROVE  JobsAndRunsExclude'
  BY <1>3 DEF ScheduleMaintenanceJob, Active, RunningRuns, Types
<1>4. QED
  BY <1>1, <1>2, <1>3 DEF Begins

(***************************************************************************)
(* No sync run is running while a maintenance job is active, and no two    *)
(* jobs are active, for any runs and jobs and any number of processes: the *)
(* advisory lock of library-coordination-lock.ts is enough.                *)
(***************************************************************************)
THEOREM Exclusion == StoreSpec => []JobsAndRunsExclude
<1>1. StoreInit => JobsAndRunsExclude
  BY DEF StoreInit, JobsAndRunsExclude, SomeJobActive, Active
<1>2. Types /\ JobsAndRunsExclude /\ [StoreNext]_storeVars => JobsAndRunsExclude'
  BY ExcludeStep
<1>3. QED
  BY <1>1, <1>2, TypesInit, TypesStep, PTL DEF StoreSpec

-----------------------------------------------------------------------------
(* While one process serves, purges and wipes touch nothing live.          *)

OneProcess == \A s, t \in Process : s = t

LiveMedia == {entries[p].media : p \in Live}
Stage(w) == worker[w].at
InBatch(w) == Stage(w) \notin {"idle", "failing"}
Wipes(j) == job[j].type = "library_hard_wipe"

\* A write's run was started; once it was attested, its original stays stored
\* as long as its run runs, which it does while its transaction is open.
WriteOK(x) ==
    /\ runs[x.run] # "absent"
    /\ x.at # "admitted" /\ runs[x.run] = "running" => x.content \in stored
    /\ x.at = "open" => runs[x.run] = "running"

\* A live entry is whole, and its content's purge is forgotten.
LiveWhole == \A c \in LiveMedia : c \in media /\ c \in stored /\ sources[c] = "none"

\* What Shutter has a copy of, or may still fetch, can be named with no purge of
\* it on record, unless Shutter was told to purge it.
CopiesNamed ==
    \A c \in located \cup shutter :
        c \in told \/ sources[c] = "queued" \/ (c \in media /\ sources[c] = "none")

\* A batch under way has its job, and its rows stay dead.
BatchOK(w) ==
    InBatch(w) =>
        /\ Active(w[2])
        /\ worker[w].rows \cap LiveMedia = {}
        /\ Stage(w) \in {"purged", "marking"} => worker[w].row \in told \ LiveMedia
        /\ Stage(w) \in {"hard delete", "completing"} => job[w[2]].phase = "db_hard_delete"
        /\ Stage(w) = "completing" /\ Wipes(w[2]) => \A p \in Paths : entries[p].row = "none"

\* A wipe has its own phases, nothing is live under it, and in the later ones
\* nothing is left that could be.
JobOK(j) ==
    Active(j) =>
        /\ job[j].phase \in {"s3_originals", "s3_orphan_sweep"} => Wipes(j)
        /\ Wipes(j) => /\ job[j].phase \in {"s3_originals", "s3_orphan_sweep", "db_hard_delete"}
                       /\ Live = {}
                       /\ job[j].phase # "s3_originals" => media = {} /\ Unpurged = {}

\* The inductive invariant, beside Types and JobsAndRunsExclude.
Kept ==
    /\ \A x \in writes : WriteOK(x)
    /\ LiveWhole
    /\ CopiesNamed
    /\ \A w \in Workers : BatchOK(w)
    /\ \A j \in Jobs : JobOK(j)

LEMMA KeptInit == StoreInit => Kept
<1> SUFFICES ASSUME StoreInit PROVE Kept
  OBVIOUS
<1>1. Live = {}
  BY DEF StoreInit, Live, NoEntry
<1>2. \A w \in Workers : ~InBatch(w)
  BY DEF StoreInit, InBatch, Stage, Idle
<1>3. \A j \in Jobs : ~Active(j)
  BY DEF StoreInit, Active
<1>4. QED
  BY <1>1, <1>2, <1>3 DEF StoreInit, Kept, LiveWhole, LiveMedia, CopiesNamed, BatchOK, JobOK

\* A batch under way is the only one, and its job is the only active thing.
LEMMA BatchIsAlone ==
  ASSUME OneProcess, Types, JobsAndRunsExclude, Kept, NEW w \in Workers, InBatch(w)
  PROVE  /\ w[2] \in Jobs /\ Active(w[2]) /\ RunningRuns = {}
         /\ \A j \in Jobs : Active(j) => j = w[2]
         /\ \A v \in Workers : InBatch(v) => v = w
         /\ \A x \in writes : runs[x.run] # "running" /\ x.at # "open"
<1>1. w[2] \in Jobs /\ Active(w[2])
  BY DEF Kept, BatchOK, Workers
<1>2. RunningRuns = {} /\ \A j \in Jobs : Active(j) => j = w[2]
  BY <1>1 DEF JobsAndRunsExclude, SomeJobActive
<1>3. ASSUME NEW v \in Workers, InBatch(v) PROVE v = w
  <2>1. v[2] \in Jobs /\ v[2] = w[2]
    BY <1>2, <1>3 DEF Kept, BatchOK, Workers
  <2>2. QED
    BY <2>1 DEF OneProcess, Workers
<1>4. QED
  BY <1>1, <1>2, <1>3 DEF Kept, WriteOK, RunningRuns, Types, WriteTypes

\* A step of a batch need be looked at for its own batch and job only.
LEMMA BatchStepSuffices ==
  ASSUME OneProcess, Types, Types', JobsAndRunsExclude, Kept, [StoreNext]_storeVars, ~Begins,
         NEW w \in Workers, InBatch(w), UNCHANGED writes,
         \A v \in Workers \ {w} : worker'[v] = worker[v],
         \A j \in Jobs \ {w[2]} : job'[j] = job[j],
         LiveWhole', CopiesNamed', BatchOK(w)', JobOK(w[2])'
  PROVE  Kept'
<1>0. /\ w[2] \in Jobs /\ RunningRuns = {}
      /\ \A j \in Jobs : Active(j) => j = w[2]
      /\ \A v \in Workers : InBatch(v) => v = w
      /\ \A x \in writes : runs[x.run] # "running" /\ x.at # "open"
  BY BatchIsAlone
<1>1. ASSUME NEW x \in writes PROVE WriteOK(x)'
  <2>1. RunningRuns' = {} /\ runs'[x.run] # "absent" /\ x.run \in Runs
    BY <1>0, NothingElseBegins DEF Kept, WriteOK, Types, WriteTypes
  <2>2. QED
    BY <1>0, <2>1 DEF WriteOK, RunningRuns
<1>2. ASSUME NEW v \in Workers PROVE BatchOK(v)'
  <2>1. CASE v = w
    BY <2>1
  <2>2. CASE v # w
    BY <1>0, <2>2 DEF BatchOK, InBatch, Stage
  <2>3. QED
    BY <2>1, <2>2
<1>3. ASSUME NEW j \in Jobs PROVE JobOK(j)'
  <2>1. CASE j = w[2]
    BY <2>1
  <2>2. CASE j # w[2]
    BY <1>0, <2>2 DEF JobOK, Active
  <2>3. QED
    BY <2>1, <2>2
<1>4. QED
  BY <1>1, <1>2, <1>3 DEF Kept

\* What is said of the library stays true where it stays.
LEMMA LibraryStays ==
  ASSUME Kept, UNCHANGED <<entries, media, stored, sources, shutter, located, told>>
  PROVE  LiveWhole' /\ CopiesNamed'
BY DEF Kept, LiveWhole, LiveMedia, Live, CopiesNamed

\* What is said of a job stays true where it stays and nothing is added.
LEMMA JobStays ==
  ASSUME Kept, NEW j \in Jobs, job'[j] = job[j], Live' \subseteq Live, media' \subseteq media,
         Unpurged' \subseteq Unpurged \/ ~Wipes(j)
  PROVE  JobOK(j)'
BY DEF Kept, JobOK, Wipes, Active

\* Where a step of a batch leaves the worker.
LEMMA GotoMoves ==
  ASSUME Types, NEW w \in Workers, NEW at, NEW rows, Goto(w, at, rows)
  PROVE  /\ worker'[w].at = at /\ worker'[w].rows = rows
         /\ \A v \in Workers \ {w} : worker'[v] = worker[v]
BY DEF Goto, Idle, Types

LEMMA EndBatchMoves ==
  ASSUME Types, NEW w \in Workers, NEW again, EndBatch(w, again)
  PROVE  /\ worker'[w].at = "idle"
         /\ \A v \in Workers \ {w} : worker'[v] = worker[v]
BY DEF EndBatch, Idle, Types

\* What a batch does to its job.
LEMMA JobMoves ==
  ASSUME Types, NEW w \in Workers
  PROVE  /\ \A phase : Advance(w, phase) =>
              /\ \A j \in Jobs \ {w[2]} : job'[j] = job[j]
              /\ Active(w[2]) => job'[w[2]] = [job[w[2]] EXCEPT !.phase = phase]
         /\ Complete(w) =>
              /\ \A j \in Jobs \ {w[2]} : job'[j] = job[j]
              /\ ~Active(w[2])'
<1>1. w[2] \in Jobs
  BY DEF Workers
<1>2. QED
  BY <1>1 DEF Advance, Complete, Types, JobRecords, Active

\* Rows read for deletion are not live, and a wipe goes on to a phase only when
\* the one before has left nothing.
LEMMA ReadRowsKeeps ==
  ASSUME OneProcess, Types, Types', JobsAndRunsExclude, Kept, [StoreNext]_storeVars, ~Begins,
         NEW w \in Workers, ReadRows(w)
  PROVE  Kept'
<1>0. InBatch(w) /\ Active(w[2]) /\ w[2] \in Jobs /\ BatchOK(w) /\ JobOK(w[2])
  <2>1. InBatch(w)
    BY DEF ReadRows, InBatch, Stage
  <2>2. QED
    BY <2>1, BatchIsAlone DEF Kept
<1>1. UNCHANGED <<runs, entries, folders, media, stored, shutter, located, told, writes>>
  BY DEF ReadRows, shutterVars
<1>2. \A v \in Workers \ {w} : worker'[v] = worker[v]
  BY GotoMoves, EndBatchMoves DEF ReadRows
<1>3. \A j \in Jobs \ {w[2]} : job'[j] = job[j]
  <2>1. CASE UNCHANGED job
    BY <2>1
  <2>2. CASE Complete(w) \/ \E phase : Advance(w, phase)
    BY <2>2, JobMoves
  <2>3. QED
    BY <2>1, <2>2 DEF ReadRows
<1>4. Live' = Live /\ LiveMedia' = LiveMedia
  BY <1>1 DEF Live, LiveMedia
<1>5. LiveWhole' /\ CopiesNamed'
  <2>1. CASE UNCHANGED sources
    BY <1>1, <2>1, LibraryStays
  <2>2. CASE ~UNCHANGED sources
    <3>1. \A c \in Contents : \/ sources'[c] = sources[c]
                              \/ c \in Orphans /\ sources'[c] = "queued"
                              \/ c \in LiveSources /\ sources'[c] = "none"
      <4>1. CASE PhaseOf(w) = "queue_sources"
        <5>1. sources' = [c \in Contents |->
                 IF c \in {x \in Orphans : sources[x] = "none"} THEN "queued" ELSE sources[c]]
          BY <4>1 DEF ReadRows
        <5>2. QED
          BY <5>1
      <4>2. CASE PhaseOf(w) = "shutter_sources"
        <5>1. sources' = [c \in Contents |->
                 IF c \in LiveSources THEN "none" ELSE sources[c]]
          BY <4>2 DEF ReadRows
        <5>2. QED
          BY <5>1
      <4>3. QED
        BY <2>2, <4>1, <4>2 DEF ReadRows
    <3>2. LiveMedia \cap Orphans = {} /\ LiveSources \subseteq media
      BY DEF LiveMedia, Orphans, LiveSources
    <3>3. LiveMedia \subseteq Contents /\ located \cup shutter \subseteq Contents
      BY DEF Types, Kept, LiveWhole
    <3>4. QED
      BY <1>1, <1>4, <3>1, <3>2, <3>3 DEF Kept, LiveWhole, CopiesNamed
  <2>3. QED
    BY <2>1, <2>2
<1>6. BatchOK(w)'
  <2>1. CASE \E again \in BOOLEAN : EndBatch(w, again)
    BY <2>1 DEF EndBatch, BatchOK, InBatch, Stage, Idle, Types
  <2>2. CASE \E rows \in {Orphans, media, stored, Unpurged, Unpurged \ LiveSources} :
               /\ Goto(w, "rows", rows) \/ Goto(w, "purging", rows)
               /\ rows = Orphans \/ rows = Unpurged \ LiveSources \/ Live = {}
               /\ job' = job
    <3>1. \A c \in Orphans \cup (Unpurged \ LiveSources) : c \notin LiveMedia
      BY DEF Orphans, Unpurged, LiveSources, LiveMedia, Kept, LiveWhole
    <3>2. Live = {} => LiveMedia = {}
      BY DEF LiveMedia
    <3>3. PICK rows \in {Orphans, media, stored, Unpurged, Unpurged \ LiveSources} :
            /\ Goto(w, "rows", rows) \/ Goto(w, "purging", rows)
            /\ rows = Orphans \/ rows = Unpurged \ LiveSources \/ Live = {}
            /\ job' = job
      BY <2>2
    <3>4. worker'[w].rows \cap LiveMedia = {}
      BY <3>1, <3>2, <3>3, GotoMoves
    <3>5. Stage(w)' \in {"rows", "purging"}
      BY <3>3, GotoMoves DEF Stage
    <3>6. QED
      BY <1>0, <1>4, <3>3, <3>4, <3>5 DEF BatchOK, Active
  <2>3. CASE Goto(w, "hard delete", {}) /\ job' = job /\ PhaseOf(w) = "db_hard_delete"
    BY <1>0, <2>3 DEF Goto, BatchOK, Idle, Stage, Active, PhaseOf, Types
  <2>4. PhaseOf(w) \in {"s3_originals", "s3_orphan_sweep"} => Live = {}
    BY <1>0 DEF JobOK, PhaseOf
  <2>5. QED
    BY <2>1, <2>2, <2>3, <2>4 DEF ReadRows
<1>7. JobOK(w[2])'
  <2>1. CASE UNCHANGED job
    <3>1. Wipes(w[2]) => Unpurged' = Unpurged
      BY <1>0 DEF ReadRows, JobOK, Wipes, PhaseOf, Unpurged
    <3>2. QED
      BY <1>0, <1>1, <1>4, <2>1, <3>1, JobStays
  <2>2. CASE \E phase \in {"db_hard_delete", "shutter_sources", "s3_orphan_sweep"} :
               Advance(w, phase)
    <3>1. PICK phase \in {"db_hard_delete", "shutter_sources", "s3_orphan_sweep"} :
            Advance(w, phase)
      BY <2>2
    <3>2. job'[w[2]] = [job[w[2]] EXCEPT !.phase = phase] /\ job[w[2]] \in JobRecords
      BY <1>0, <3>1, JobMoves DEF Types
    <3>3. Wipes(w[2])' = Wipes(w[2]) /\ job'[w[2]].phase = phase
      BY <3>2 DEF Wipes, JobRecords
    <3>4. Wipes(w[2]) => sources' = sources
      BY <1>0 DEF ReadRows, JobOK, PhaseOf
    <3>5. CASE Wipes(w[2]) /\ job' # job
      <4>1. \/ PhaseOf(w) = "s3_originals" /\ media = {} /\ Unpurged = {}
            \/ PhaseOf(w) = "s3_orphan_sweep"
        BY <1>0, <3>5 DEF ReadRows, JobOK, PhaseOf
      <4>2. job'[w[2]].phase \in {"s3_orphan_sweep", "db_hard_delete"}
        <5>1. Advance(w, "s3_orphan_sweep") \/ Advance(w, "db_hard_delete")
          BY <3>5, <4>1 DEF ReadRows
        <5>2. QED
          BY <1>0, <5>1 DEF Advance, Types, JobRecords
      <4>3. QED
        BY <1>0, <1>1, <1>4, <3>3, <3>4, <3>5, <4>1, <4>2 DEF JobOK, PhaseOf, Unpurged
    <3>6. CASE ~Wipes(w[2]) /\ job' # job
      <4>1. ~Complete(w)
        BY <1>0, <2>2, JobMoves DEF Active, Types, JobRecords, JobStates, Complete, Advance
      <4>2. Advance(w, "db_hard_delete") \/ Advance(w, "shutter_sources")
        BY <1>0, <3>6, <4>1 DEF ReadRows, JobOK, PhaseOf
      <4>3. job'[w[2]].phase \in {"db_hard_delete", "shutter_sources"}
        BY <1>0, <4>2 DEF Advance, Types, JobRecords
      <4>4. QED
        BY <3>3, <3>6, <4>3 DEF JobOK
    <3>7. QED
      BY <2>1, <3>5, <3>6
  <2>3. CASE Complete(w)
    BY <1>0, <2>3 DEF Complete, JobOK, Active, Types, JobRecords
  <2>4. QED
    BY <2>1, <2>2, <2>3 DEF ReadRows
<1>8. QED
  BY <1>0, <1>1, <1>2, <1>3, <1>5, <1>6, <1>7, BatchStepSuffices

\* A batch that leaves the library and its job goes on with rows it has, or ends.
LEMMA QuietStepKeeps ==
  ASSUME OneProcess, Types, Types', JobsAndRunsExclude, Kept, [StoreNext]_storeVars, ~Begins,
         NEW w \in Workers, InBatch(w),
         UNCHANGED <<runs, entries, media, sources, stored, shutter, located, told, writes, job>>,
         \/ \E again : EndBatch(w, again)
         \/ Goto(w, "deleting", worker[w].rows)
         \/ Goto(w, "failing", {})
  PROVE  Kept'
<1>1. LiveWhole' /\ CopiesNamed'
  BY LibraryStays
<1>2. Live' = Live /\ LiveMedia' = LiveMedia /\ Unpurged' = Unpurged
  BY DEF Live, LiveMedia, Unpurged
<1>3. \A v \in Workers \ {w} : worker'[v] = worker[v]
  BY GotoMoves, EndBatchMoves
<1>4. BatchOK(w)'
  <2>1. \/ Stage(w)' \in {"idle", "failing"}
        \/ Stage(w)' = "deleting" /\ worker'[w].rows = worker[w].rows
    BY GotoMoves, EndBatchMoves DEF Stage
  <2>2. QED
    BY <1>2, <2>1 DEF Kept, BatchOK, InBatch, Active
<1>5. w[2] \in Jobs
  BY BatchIsAlone
<1>6. JobOK(w[2])'
  BY <1>2, <1>5, JobStays
<1>7. QED
  BY <1>1, <1>3, <1>4, <1>6, BatchStepSuffices

\* Deleting a batch's originals deletes nothing live.
LEMMA StorageStepKeeps ==
  ASSUME OneProcess, Types, Types', JobsAndRunsExclude, Kept, [StoreNext]_storeVars, ~Begins,
         NEW w \in Workers, Stage(w) = "deleting",
         UNCHANGED <<runs, entries, media, sources, shutter, located, told, writes, job>>,
         stored \ worker[w].rows \subseteq stored',
         \/ \E again : EndBatch(w, again)
         \/ Goto(w, "deleted", worker[w].rows)
         \/ Goto(w, "failing", {})
  PROVE  Kept'
<1>0. InBatch(w) /\ w[2] \in Jobs
  BY BatchIsAlone DEF InBatch
<1>1. LiveWhole' /\ CopiesNamed'
  BY <1>0 DEF Kept, LiveWhole, LiveMedia, Live, CopiesNamed, BatchOK
<1>2. Live' = Live /\ LiveMedia' = LiveMedia /\ Unpurged' = Unpurged
  BY DEF Live, LiveMedia, Unpurged
<1>3. \A v \in Workers \ {w} : worker'[v] = worker[v]
  BY GotoMoves, EndBatchMoves
<1>4. BatchOK(w)'
  <2>1. \/ Stage(w)' \in {"idle", "failing"}
        \/ Stage(w)' = "deleted" /\ worker'[w].rows = worker[w].rows
    BY GotoMoves, EndBatchMoves DEF Stage
  <2>2. QED
    BY <1>0, <1>2, <2>1 DEF Kept, BatchOK, InBatch, Active
<1>6. JobOK(w[2])'
  BY <1>0, <1>2, JobStays
<1>7. QED
  BY <1>0, <1>1, <1>3, <1>4, <1>6, BatchStepSuffices

\* What the deletion of a media row leaves.
LEMMA DeleteMediaLeaves ==
  ASSUME Types, NEW c, DeleteMedia(c)
  PROVE  /\ Live' \subseteq Live /\ LiveMedia' \subseteq LiveMedia \ {c}
         /\ \A p \in Paths : entries[p].row = "none" => entries'[p].row = "none"
<1>1. \A p \in Paths : \/ entries'[p] = entries[p] /\ entries[p].media # c
                       \/ entries'[p].row = "none"
  BY DEF DeleteMedia, Types, NoEntry
<1>2. QED
  BY <1>1 DEF Live, LiveMedia

\* The rows of a batch are deleted with their purge on record, or after it.
LEMMA RowStepKeeps ==
  ASSUME OneProcess, Types, Types', JobsAndRunsExclude, Kept, [StoreNext]_storeVars, ~Begins,
         NEW w \in Workers, DeleteOrphanRow(w) \/ DeleteWipedRow(w)
  PROVE  Kept'
<1>0. InBatch(w)
  BY DEF InBatch, Stage, DeleteOrphanRow, DeleteWipedRow
<1>1. w[2] \in Jobs /\ Active(w[2]) /\ BatchOK(w) /\ JobOK(w[2])
  BY <1>0, BatchIsAlone DEF Kept
<1>2. PICK c \in Contents \cup {NoContent} :
        /\ DeleteMedia(c)
        /\ Goto(w, "deleted", worker[w].rows \ {c})
        /\ c \notin LiveMedia
        /\ UNCHANGED <<runs, stored, shutter, located, told, writes, job>>
        /\ \/ c \in told /\ sources' = sources
           \/ /\ PhaseOf(w) = "orphaned_media"
              /\ sources' = [sources EXCEPT ![c] = IF @ = "none" THEN "queued" ELSE @]
  <2>1. CASE DeleteOrphanRow(w)
    <3>1. worker[w].rows \subseteq Contents /\ worker[w].rows \cap LiveMedia = {}
      BY <1>0, <1>1 DEF BatchOK, Types, WorkerTypes
    <3>2. QED
      BY <1>1, <2>1, <3>1 DEF DeleteOrphanRow, shutterVars
  <2>2. CASE DeleteWipedRow(w)
    <3>1. worker[w].row \in Contents \cup {NoContent} /\ worker[w].row \in told \ LiveMedia
      BY <1>0, <1>1, <2>2 DEF BatchOK, Types, WorkerTypes, DeleteWipedRow, Stage
    <3>2. QED
      BY <2>2, <3>1 DEF DeleteWipedRow, shutterVars
  <2>3. QED
    BY <2>1, <2>2
<1>3. /\ Live' \subseteq Live /\ LiveMedia' \subseteq LiveMedia \ {c}
      /\ media' = media \ {c}
  BY <1>2, DeleteMediaLeaves DEF DeleteMedia
<1>4. LiveWhole'
  <2>1. \A d \in LiveMedia' : d # c /\ d \in Contents
    BY <1>3 DEF Kept, LiveWhole, Types
  <2>2. QED
    BY <1>2, <1>3, <2>1 DEF Kept, LiveWhole, Types
<1>5. CopiesNamed'
  BY <1>2, <1>3 DEF Kept, CopiesNamed, Types
<1>6. \A v \in Workers \ {w} : worker'[v] = worker[v]
  BY <1>2, GotoMoves
<1>7. BatchOK(w)'
  <2>1. Stage(w)' = "deleted" /\ worker'[w].rows \subseteq worker[w].rows
    BY <1>2, GotoMoves DEF Stage
  <2>2. QED
    BY <1>0, <1>1, <1>2, <1>3, <2>1 DEF BatchOK, Active
<1>8. JobOK(w[2])'
  <2>1. Unpurged' \subseteq Unpurged \/ ~Wipes(w[2])
    BY <1>1, <1>2 DEF JobOK, PhaseOf, Unpurged
  <2>2. QED
    BY <1>1, <1>2, <1>3, <2>1, JobStays
<1>9. QED
  BY <1>0, <1>2, <1>4, <1>5, <1>6, <1>7, <1>8, BatchStepSuffices

\* Shutter is told to purge a dead content, and then it is put on record.
LEMMA PurgeStepKeeps ==
  ASSUME OneProcess, Types, Types', JobsAndRunsExclude, Kept, [StoreNext]_storeVars, ~Begins,
         NEW w \in Workers, PurgeWipedRow(w) \/ PurgeSource(w) \/ MarkPurged(w)
  PROVE  Kept'
<1>0. InBatch(w)
  BY DEF InBatch, Stage, PurgeWipedRow, PurgeSource, MarkPurged
<1>1. w[2] \in Jobs /\ Active(w[2]) /\ BatchOK(w) /\ JobOK(w[2])
  BY <1>0, BatchIsAlone DEF Kept
<1>2. UNCHANGED <<runs, entries, media, stored, writes, job>>
  BY DEF PurgeWipedRow, PurgeSource, MarkPurged, libraryVars, shutterVars
<1>3. Live' = Live /\ LiveMedia' = LiveMedia
  BY <1>2 DEF Live, LiveMedia
<1>4. CASE PurgeWipedRow(w) \/ PurgeSource(w)
  <2>1. PICK c \in worker[w].rows, at \in {"purged", "marking"} :
          /\ shutter' = shutter \ {c}
          /\ told' = told \cup {c}
          /\ worker' = [worker EXCEPT ![w].at = at, ![w].row = c]
    BY <1>1, <1>4 DEF PurgeWipedRow, PurgeSource
  <2>2. sources' = sources /\ located' = located
    BY <1>4 DEF PurgeWipedRow, PurgeSource, libraryVars, shutterVars
  <2>3. LiveWhole' /\ CopiesNamed'
    BY <1>2, <1>3, <2>1, <2>2 DEF Kept, LiveWhole, CopiesNamed
  <2>4. /\ \A v \in Workers \ {w} : worker'[v] = worker[v]
        /\ worker'[w].at = at /\ worker'[w].row = c /\ worker'[w].rows = worker[w].rows
    BY <2>1 DEF Types, WorkerTypes
  <2>5. BatchOK(w)'
    <3>1. c \notin LiveMedia /\ c \in told'
      BY <1>0, <1>1, <2>1 DEF BatchOK
    <3>2. Stage(w)' \in {"purged", "marking"} /\ Active(w[2])'
      BY <1>1, <1>2, <2>4 DEF Stage, Active
    <3>3. worker'[w].rows \cap LiveMedia' = {} /\ worker'[w].row \in told' \ LiveMedia'
      BY <1>0, <1>1, <1>3, <2>4, <3>1 DEF BatchOK
    <3>4. QED
      BY <3>2, <3>3 DEF BatchOK
  <2>6. JobOK(w[2])'
    BY <1>1, <1>2, <1>3, <2>2, JobStays DEF Unpurged
  <2>7. QED
    BY <1>0, <1>2, <2>3, <2>4, <2>5, <2>6, BatchStepSuffices
<1>5. CASE MarkPurged(w)
  <2>1. PICK c \in Contents \cup {NoContent} :
          /\ c \in told \ LiveMedia
          /\ sources' = [sources EXCEPT ![c] = IF @ = "none" THEN "none" ELSE "purged"]
          /\ Goto(w, "purging", worker[w].rows \ {c})
          /\ UNCHANGED <<shutter, located, told>>
    BY <1>0, <1>1, <1>5 DEF MarkPurged, shutterVars, BatchOK, Stage, Types, WorkerTypes
  <2>2. LiveWhole' /\ CopiesNamed'
    BY <1>2, <1>3, <2>1 DEF Kept, LiveWhole, CopiesNamed, Types
  <2>3. /\ \A v \in Workers \ {w} : worker'[v] = worker[v]
        /\ Stage(w)' = "purging" /\ worker'[w].rows \subseteq worker[w].rows
    BY <2>1, GotoMoves DEF Stage
  <2>4. BatchOK(w)'
    BY <1>0, <1>1, <1>2, <1>3, <2>3 DEF BatchOK, Active
  <2>5. Unpurged' \subseteq Unpurged
    BY <2>1 DEF Unpurged, Types
  <2>6. JobOK(w[2])'
    BY <1>1, <1>2, <1>3, <2>5, JobStays
  <2>7. QED
    BY <1>0, <1>2, <2>1, <2>2, <2>3, <2>4, <2>6, BatchStepSuffices
<1>6. QED
  BY <1>4, <1>5

\* The last step of a purge takes what nothing live names, that of a wipe all
\* there is, and a wipe completes with nothing left.
LEMMA HardDeleteKeeps ==
  ASSUME OneProcess, Types, Types', JobsAndRunsExclude, Kept, [StoreNext]_storeVars, ~Begins,
         NEW w \in Workers, HardDelete(w)
  PROVE  Kept'
<1>0. InBatch(w) /\ Stage(w) = "hard delete"
  BY DEF InBatch, Stage, HardDelete
<1>1. w[2] \in Jobs /\ Active(w[2]) /\ BatchOK(w) /\ JobOK(w[2])
  BY <1>0, BatchIsAlone DEF Kept
<1>2. /\ UNCHANGED <<sources, stored, shutter, located, told, writes, job>>
      /\ Goto(w, "completing", {})
  BY <1>1 DEF HardDelete, shutterVars
<1>3. PhaseOf(w) = "db_hard_delete"
  BY <1>0, <1>1 DEF BatchOK, PhaseOf
<1>4. /\ Stage(w)' = "completing" /\ worker'[w].rows = {}
      /\ \A v \in Workers \ {w} : worker'[v] = worker[v]
  BY <1>2, GotoMoves DEF Stage
<1>5. CASE Wipes(w[2])
  <2>1. media = {} /\ Unpurged = {} /\ Live = {}
    BY <1>1, <1>3, <1>5 DEF JobOK, PhaseOf
  <2>2. entries' = [p \in Paths |-> NoEntry] /\ media' = {}
    BY <1>1, <1>5 DEF HardDelete, Wipes
  <2>3. \A p \in Paths : entries'[p].row = "none"
    BY <2>2 DEF NoEntry
  <2>4. Live' = {} /\ LiveMedia' = {} /\ Unpurged' = Unpurged
    BY <1>2, <2>3 DEF Live, LiveMedia, Unpurged
  <2>5. LiveWhole' /\ CopiesNamed'
    BY <1>2, <2>1, <2>4 DEF Kept, LiveWhole, CopiesNamed
  <2>6. BatchOK(w)'
    BY <1>1, <1>2, <1>3, <1>4, <2>3, <2>4 DEF BatchOK, Active, PhaseOf
  <2>7. JobOK(w[2])'
    BY <1>1, <1>2, <2>1, <2>2, <2>4, JobStays
  <2>8. QED
    BY <1>0, <1>2, <1>4, <2>5, <2>6, <2>7, BatchStepSuffices
<1>6. CASE ~Wipes(w[2])
  <2>1. /\ entries' = [p \in Paths |-> IF p \in SoftDeleted THEN NoEntry ELSE entries[p]]
        /\ media' = media
    BY <1>1, <1>6 DEF HardDelete, Wipes
  <2>2. Live' = Live /\ LiveMedia' = LiveMedia
    BY <2>1 DEF Live, LiveMedia, SoftDeleted, NoEntry
  <2>3. LiveWhole' /\ CopiesNamed'
    BY <1>2, <2>1, <2>2 DEF Kept, LiveWhole, CopiesNamed
  <2>4. BatchOK(w)'
    BY <1>1, <1>2, <1>3, <1>4, <1>6, <2>2 DEF BatchOK, Active, PhaseOf, Wipes
  <2>5. JobOK(w[2])'
    BY <1>1, <1>2, <1>6, <2>1, <2>2, JobStays
  <2>6. QED
    BY <1>0, <1>2, <1>4, <2>3, <2>4, <2>5, BatchStepSuffices
<1>7. QED
  BY <1>5, <1>6

LEMMA CompleteKeeps ==
  ASSUME OneProcess, Types, Types', JobsAndRunsExclude, Kept, [StoreNext]_storeVars, ~Begins,
         NEW w \in Workers, CompleteJob(w)
  PROVE  Kept'
<1>1. InBatch(w)
  BY DEF InBatch, Stage, CompleteJob
<1>2. /\ UNCHANGED <<runs, entries, media, stored, sources, shutter, located, told, writes>>
      /\ Complete(w) /\ EndBatch(w, FALSE)
  BY DEF CompleteJob, libraryVars, shutterVars
<1>3. /\ \A j \in Jobs \ {w[2]} : job'[j] = job[j]
      /\ JobOK(w[2])'
  BY <1>2, JobMoves DEF JobOK
<1>4. /\ \A v \in Workers \ {w} : worker'[v] = worker[v]
      /\ BatchOK(w)'
  BY <1>2, EndBatchMoves DEF BatchOK, InBatch, Stage
<1>5. LiveWhole' /\ CopiesNamed'
  BY <1>2, LibraryStays
<1>6. QED
  BY <1>1, <1>2, <1>3, <1>4, <1>5, BatchStepSuffices

\* Every step of a batch but the record of its failure.
LEMMA BatchStepKeeps ==
  ASSUME OneProcess, Types, Types', JobsAndRunsExclude, Kept, [StoreNext]_storeVars, ~Begins,
         NEW w \in Workers, FailRequest(w) \/ BatchStep(w), ~FailMaintenanceJob(w)
  PROVE  Kept'
<1>1. ASSUME CheckActive(w) PROVE Kept'
  <2>1. InBatch(w)
    BY <1>1 DEF CheckActive, InBatch, Stage
  <2>2. QED
    BY <1>1, <2>1, QuietStepKeeps DEF CheckActive, libraryVars, shutterVars
<1>2. ASSUME RowsDone(w) PROVE Kept'
  <2>1. InBatch(w)
    BY <1>2 DEF RowsDone, InBatch, Stage
  <2>2. QED
    BY <1>2, <2>1, QuietStepKeeps DEF RowsDone, libraryVars, shutterVars
<1>3. ASSUME DeleteObjects(w) PROVE Kept'
  BY <1>3, StorageStepKeeps DEF DeleteObjects, libraryVars, shutterVars, Stage
<1>4. ASSUME FailRequest(w) PROVE Kept'
  <2>1. CASE Stage(w) = "deleting"
    BY <1>4, <2>1, StorageStepKeeps DEF FailRequest, libraryVars, shutterVars, Stage
  <2>2. CASE Stage(w) # "deleting"
    <3>1. InBatch(w) /\ stored' = stored
      BY <1>4, <2>2 DEF FailRequest, InBatch, Stage
    <3>2. QED
      BY <1>4, <3>1, QuietStepKeeps DEF FailRequest, libraryVars, shutterVars
  <2>3. QED
    BY <2>1, <2>2
<1>5. QED
  BY <1>1, <1>2, <1>3, <1>4, ReadRowsKeeps, RowStepKeeps, PurgeStepKeeps, HardDeleteKeeps,
     CompleteKeeps
  DEF BatchStep

\* A claim, a failure put on record and a death leave the library, and begin or
\* end a batch.
LEMMA WorkerStepKeeps ==
  ASSUME OneProcess, Types, Types', JobsAndRunsExclude, Kept, [StoreNext]_storeVars, ~Begins,
         WorkerStep
  PROVE  Kept'
<1>1. ASSUME UNCHANGED <<runs, entries, media, stored, sources, shutter, located, told, writes>>,
             \A w \in Workers : BatchOK(w)', \A j \in Jobs : JobOK(j)'
      PROVE  Kept'
  <2>1. LiveWhole' /\ CopiesNamed'
    BY <1>1, LibraryStays
  <2>2. \A x \in writes' : WriteOK(x)'
    BY <1>1 DEF Kept, WriteOK
  <2>3. QED
    BY <1>1, <2>1, <2>2 DEF Kept
<1>2. ASSUME UNCHANGED <<entries, media, sources>>
      PROVE  Live' = Live /\ LiveMedia' = LiveMedia /\ Unpurged' = Unpurged
  BY <1>2 DEF Live, LiveMedia, Unpurged
<1>3. ASSUME NEW w \in Workers, ClaimBatch(w) PROVE Kept'
  <2>1. w[2] \in Jobs /\ Stage(w) = "idle"
    BY <1>3 DEF Workers, ClaimBatch, Stage
  <2>2. UNCHANGED <<runs, entries, media, stored, sources, shutter, located, told, writes>>
    BY <1>3 DEF ClaimBatch, libraryVars, shutterVars
  <2>3. \A j \in Jobs : /\ Wipes(j)' = Wipes(j) /\ job'[j].phase = job[j].phase
                        /\ Active(j)' = Active(j)
    <3>1. CASE Active(w[2]) /\ job' = [job EXCEPT ![w[2]].status = "running"]
      BY <2>1, <3>1 DEF Types, JobRecords, Wipes, Active
    <3>2. CASE job' = job
      BY <3>2 DEF Wipes, Active
    <3>3. QED
      BY <1>3, <3>1, <3>2 DEF ClaimBatch
  <2>4. /\ \A v \in Workers \ {w} : worker'[v] = worker[v]
        /\ \/ Stage(w)' = "idle"
           \/ Stage(w)' = "reading" /\ worker'[w].rows = {} /\ Active(w[2])
    BY <1>3, GotoMoves, EndBatchMoves DEF ClaimBatch, Stage
  <2>5. ASSUME NEW v \in Workers PROVE BatchOK(v)'
    <3>1. v[2] \in Jobs
      BY DEF Workers
    <3>2. CASE v = w
      BY <2>3, <2>4, <3>1, <3>2 DEF BatchOK, InBatch
    <3>3. CASE v # w
      <4>1. worker'[v] = worker[v] /\ Stage(v)' = Stage(v) /\ InBatch(v)' = InBatch(v)
        BY <2>4, <3>3 DEF InBatch, Stage
      <4>2. QED
        BY <1>2, <2>2, <2>3, <3>1, <4>1 DEF Kept, BatchOK
    <3>4. QED
      BY <3>2, <3>3
  <2>6. ASSUME NEW j \in Jobs PROVE JobOK(j)'
    BY <1>2, <2>2, <2>3 DEF Kept, JobOK
  <2>7. QED
    BY <1>1, <2>2, <2>5, <2>6
<1>4. ASSUME NEW w \in Workers, FailMaintenanceJob(w) PROVE Kept'
  <2>1. w[2] \in Jobs /\ Stage(w) = "failing"
    BY <1>4 DEF Workers, FailMaintenanceJob, Stage
  <2>2. UNCHANGED <<runs, entries, media, stored, sources, shutter, located, told, writes>>
    BY <1>4 DEF FailMaintenanceJob, libraryVars, shutterVars
  <2>3. /\ \A v \in Workers \ {w} : worker'[v] = worker[v]
        /\ Stage(w)' = "idle"
    BY <1>4, EndBatchMoves DEF FailMaintenanceJob, Stage
  <2>4. /\ \A j \in Jobs \ {w[2]} : job'[j] = job[j]
        /\ ~Active(w[2])'
    BY <1>4, <2>1 DEF FailMaintenanceJob, Types, JobRecords, Active
  <2>5. ASSUME NEW v \in Workers PROVE BatchOK(v)'
    <3>1. CASE v = w
      BY <2>3, <3>1 DEF BatchOK, InBatch
    <3>2. CASE v # w
      <4>1. InBatch(v) => v[2] # w[2]
        BY <2>1, <3>2 DEF OneProcess, Workers
      <4>2. v[2] \in Jobs
        BY DEF Workers
      <4>3. worker'[v] = worker[v] /\ Stage(v)' = Stage(v) /\ InBatch(v)' = InBatch(v)
        BY <2>3, <3>2 DEF InBatch, Stage
      <4>4. QED
        BY <1>2, <2>2, <2>4, <4>1, <4>2, <4>3 DEF Kept, BatchOK, Active, Wipes
    <3>3. QED
      BY <3>1, <3>2
  <2>6. ASSUME NEW j \in Jobs PROVE JobOK(j)'
    BY <1>2, <2>2, <2>4 DEF Kept, JobOK, Active, Wipes
  <2>7. QED
    BY <1>1, <2>2, <2>5, <2>6
<1>5. ASSUME NEW s \in Process, Crash(s) \/ Restart(s) PROVE Kept'
  <2>1. UNCHANGED <<runs, entries, media, stored, sources, shutter, located, told, writes, job>>
    BY <1>5 DEF Crash, Restart, libraryVars, shutterVars
  <2>2. \A w \in Workers : worker'[w] = worker[w] \/ ~InBatch(w)'
    BY <1>5 DEF Crash, Restart, InBatch, Stage, Idle, Types
  <2>3. ASSUME NEW w \in Workers PROVE BatchOK(w)'
    BY <1>2, <2>1, <2>2 DEF Kept, BatchOK, InBatch, Stage, Active, Wipes
  <2>4. ASSUME NEW j \in Jobs PROVE JobOK(j)'
    BY <1>2, <2>1 DEF Kept, JobOK, Active, Wipes
  <2>5. QED
    BY <1>1, <2>1, <2>3, <2>4
<1>6. QED
  BY <1>3, <1>4, <1>5, BatchStepKeeps DEF WorkerStep, BatchStep

\* Where no job is active, only the writes and the library are to be looked at.
LEMMA JoblessSuffices ==
  ASSUME Kept, ~SomeJobActive, UNCHANGED <<job, worker>>,
         LiveWhole', CopiesNamed', \A x \in writes' : WriteOK(x)'
  PROVE  Kept'
<1>1. \A j \in Jobs : JobOK(j)'
  BY DEF SomeJobActive, JobOK, Active
<1>2. \A w \in Workers : BatchOK(w)'
  BY DEF Kept, BatchOK, InBatch, Stage, SomeJobActive, Active, Workers
<1>3. QED
  BY <1>1, <1>2 DEF Kept

\* A run that ends leaves its writes behind it, to be refused.
LEMMA EndRunsKeeps ==
  ASSUME Types, JobsAndRunsExclude, Kept, NEW S \in SUBSET RunningRuns,
         NEW status \in Terminal, EndRuns(S, status)
  PROVE  Kept'
<1>1. PICK r \in S : r \in Runs /\ runs[r] = "running"
  BY DEF EndRuns, RunningRuns
<1>2. ~SomeJobActive
  BY <1>1 DEF JobsAndRunsExclude, RunningRuns
<1>3. UNCHANGED <<entries, media, sources, stored, shutter, located, told, writes, job, worker>>
  BY DEF EndRuns, shutterVars, workerVars
<1>4. ASSUME NEW x \in writes PROVE WriteOK(x)'
  <2>1. x.run \in Runs /\ (x.at = "open" => x.run \notin S)
    BY DEF Types, WriteTypes, EndRuns, HeldShare
  <2>2. runs'[x.run] = IF x.run \in S THEN status ELSE runs[x.run]
    BY <2>1 DEF EndRuns
  <2>3. status \notin {"absent", "running"}
    BY DEF Terminal
  <2>4. QED
    BY <1>3, <2>1, <2>2, <2>3 DEF Kept, WriteOK
<1>5. QED
  BY <1>2, <1>3, <1>4, LibraryStays, JoblessSuffices

\* Sync writes keep what is live whole, and find no job beside them.
LEMMA SyncStepKeeps ==
  ASSUME Types, JobsAndRunsExclude, Kept, SyncStep
  PROVE  Kept'
<1>1. UNCHANGED <<job, worker>>
  BY DEF SyncStep, StartSyncRun, ForceCancelSyncRun, FinalizeSyncRun, ForceCancelAllRunningSyncRuns,
         EndRuns, AdmitWrite, AttestUpload, OpenWrite, CommitWrite, MarkRemoteDeleted, SignUpload,
         PutObject, ResolveDeliveryUrl, CacheSource, workerVars
\* What leaves the rows alone leaves every batch and job as it is.
<1>2. ASSUME UNCHANGED <<entries, media, sources>>, stored \subseteq stored',
             UNCHANGED <<shutter, located, told>>,
             \A x \in writes' : WriteOK(x)'
      PROVE  Kept'
  <2>1. Live' = Live /\ LiveMedia' = LiveMedia /\ Unpurged' = Unpurged
    BY <1>2 DEF Live, LiveMedia, Unpurged
  <2>2. LiveWhole' /\ CopiesNamed'
    BY <1>2, <2>1 DEF Kept, LiveWhole, CopiesNamed
  <2>3. \A w \in Workers : BatchOK(w)'
    BY <1>1, <1>2, <2>1 DEF Kept, BatchOK, InBatch, Stage, Active, Wipes
  <2>4. \A j \in Jobs : JobOK(j)'
    BY <1>1, <1>2, <2>1, JobStays
  <2>5. QED
    BY <1>2, <2>2, <2>3, <2>4 DEF Kept
<1>3. ASSUME NEW r \in Runs, StartSyncRun(r) PROVE Kept'
  <2>1. ASSUME NEW x \in writes PROVE WriteOK(x)'
    <3>1. x.run # r /\ x.run \in Runs
      BY <1>3 DEF Kept, WriteOK, StartSyncRun, Types, WriteTypes
    <3>2. QED
      BY <1>3, <3>1 DEF Kept, WriteOK, StartSyncRun, Types
  <2>2. QED
    BY <1>2, <1>3, <2>1 DEF StartSyncRun, libraryVars, shutterVars
<1>4. ASSUME NEW S, NEW status \in Terminal, S \subseteq RunningRuns, EndRuns(S, status)
      PROVE  Kept'
  BY <1>4, EndRunsKeeps
<1>5. ASSUME NEW q \in Requests, AdmitWrite(q) PROVE Kept'
  BY <1>2, <1>5 DEF AdmitWrite, Admitted, libraryVars, shutterVars, Kept, WriteOK
<1>6. ASSUME NEW x \in writes, AttestUpload(x) PROVE Kept'
  BY <1>2, <1>6 DEF AttestUpload, libraryVars, shutterVars, Kept, WriteOK, Types, WriteTypes
<1>7. ASSUME NEW x \in writes, OpenWrite(x) PROVE Kept'
  BY <1>2, <1>7 DEF OpenWrite, libraryVars, shutterVars, Kept, WriteOK, Types, WriteTypes
<1>8. ASSUME NEW x \in writes, CommitWrite(x) PROVE Kept'
  <2>1. x.run \in Runs /\ x.content \in Contents /\ x.path \in Paths
    BY <1>8 DEF CommitWrite, Types, WriteTypes
  <2>2. runs[x.run] = "running" /\ x.content \in stored
    BY <1>8 DEF CommitWrite, Kept, WriteOK
  <2>3. ~SomeJobActive
    BY <2>1, <2>2 DEF JobsAndRunsExclude, RunningRuns
  <2>4. /\ media' = media \cup {x.content} /\ sources' = [sources EXCEPT ![x.content] = "none"]
        /\ entries' = [entries EXCEPT ![x.path] = [row |-> "live", media |-> x.content]]
        /\ told' = told \ {x.content}
        /\ UNCHANGED <<runs, stored, shutter, located>> /\ writes' \subseteq writes
    BY <1>8 DEF CommitWrite
  <2>5. LiveMedia' \subseteq LiveMedia \cup {x.content}
    BY <2>1, <2>4 DEF LiveMedia, Live, Types
  <2>6. LiveMedia \subseteq Contents
    BY DEF Kept, LiveWhole, Types
  <2>7. LiveWhole'
    BY <2>1, <2>2, <2>4, <2>5, <2>6 DEF Kept, LiveWhole, Types
  <2>8. CopiesNamed'
    BY <2>1, <2>4 DEF Kept, CopiesNamed, Types
  <2>9. \A y \in writes' : WriteOK(y)'
    BY <2>4 DEF Kept, WriteOK
  <2>10. QED
    BY <1>1, <2>3, <2>7, <2>8, <2>9, JoblessSuffices
<1>9. ASSUME NEW x \in writes, MarkRemoteDeleted(x) PROVE Kept'
  <2>1. x.run \in Runs /\ writes' \subseteq writes
    BY <1>9 DEF MarkRemoteDeleted, Types, WriteTypes
  <2>2. UNCHANGED <<runs, media, sources, stored, shutter, located, told>>
    BY <1>9 DEF MarkRemoteDeleted, shutterVars
  <2>3. \A y \in writes' : WriteOK(y)'
    BY <2>1, <2>2 DEF Kept, WriteOK
  <2>4. CASE runs[x.run] = "running"
    <3>1. ~SomeJobActive
      BY <2>1, <2>4 DEF JobsAndRunsExclude, RunningRuns
    <3>2. LiveMedia' \subseteq LiveMedia
      BY <1>9 DEF MarkRemoteDeleted, LiveMedia, Live, Types
    <3>3. LiveWhole' /\ CopiesNamed'
      BY <2>2, <3>2 DEF Kept, LiveWhole, CopiesNamed
    <3>4. QED
      BY <1>1, <2>3, <3>1, <3>3, JoblessSuffices
  <2>5. CASE runs[x.run] # "running"
    BY <1>2, <1>9, <2>2, <2>3, <2>5 DEF MarkRemoteDeleted
  <2>6. QED
    BY <2>4, <2>5
<1>10. ASSUME NEW c \in Contents, SignUpload(c) \/ PutObject(c) PROVE Kept'
  <2>1. \A x \in writes' : WriteOK(x)'
    BY <1>10 DEF SignUpload, PutObject, Kept, WriteOK
  <2>2. QED
    BY <1>2, <1>10, <2>1 DEF SignUpload, PutObject, libraryVars, shutterVars
\* A URL is handed out of what is live, which is whole, and a copy is made of
\* what a URL was handed out of.
<1>11. ASSUME NEW c \in Contents, ResolveDeliveryUrl(c) \/ CacheSource(c) PROVE Kept'
  <2>1. /\ UNCHANGED <<runs, entries, media, sources, stored, told, writes>>
        /\ c \in located \cup LiveMedia
        /\ located' \cup shutter' = located \cup shutter \cup {c}
    BY <1>11 DEF ResolveDeliveryUrl, CacheSource, libraryVars, shutterVars, LiveMedia
  <2>2. Live' = Live /\ LiveMedia' = LiveMedia /\ Unpurged' = Unpurged
    BY <2>1 DEF Live, LiveMedia, Unpurged
  <2>3. LiveWhole' /\ CopiesNamed'
    BY <2>1, <2>2 DEF Kept, LiveWhole, CopiesNamed
  <2>4. ASSUME NEW w \in Workers PROVE BatchOK(w)'
    BY <1>1, <2>1, <2>2 DEF Kept, BatchOK, InBatch, Stage, Active, Wipes
  <2>5. \A j \in Jobs : JobOK(j)'
    BY <1>1, <2>1, <2>2, JobStays
  <2>6. \A x \in writes' : WriteOK(x)'
    BY <2>1 DEF Kept, WriteOK
  <2>7. QED
    BY <2>3, <2>4, <2>5, <2>6 DEF Kept
<1>12. QED
  BY <1>3, <1>4, <1>5, <1>6, <1>7, <1>8, <1>9, <1>10, <1>11, StoreAssumption
  DEF SyncStep, ForceCancelSyncRun, FinalizeSyncRun, ForceCancelAllRunningSyncRuns, Terminal,
      StoreAssumption, RunningRuns

\* The management operations find nothing beside them, or wait for the batch.
LEMMA ManagementStepKeeps ==
  ASSUME Types, JobsAndRunsExclude, Kept, ManagementStep
  PROVE  Kept'
<1>1. UNCHANGED <<runs, media, stored, sources, shutter, located, told, writes, worker>>
  BY DEF ManagementStep, SoftDeleteFolderSubtree, ScheduleMaintenanceJob, CancelMaintenanceJob,
         libraryVars, shutterVars, workerVars
<1>2. Live' \subseteq Live /\ LiveMedia' \subseteq LiveMedia /\ Unpurged' = Unpurged
  <2>1. \A p \in Live' : p \in Live /\ entries'[p] = entries[p]
    BY DEF ManagementStep, SoftDeleteFolderSubtree, ScheduleMaintenanceJob, CancelMaintenanceJob,
           libraryVars, shutterVars, Live, Types
  <2>2. QED
    BY <1>1, <2>1 DEF LiveMedia, Live, Unpurged
<1>3. LiveWhole' /\ CopiesNamed' /\ \A x \in writes' : WriteOK(x)'
  BY <1>1, <1>2 DEF Kept, LiveWhole, CopiesNamed, WriteOK
<1>4. ASSUME NEW f \in Folders, SoftDeleteFolderSubtree(f) PROVE Kept'
  BY <1>1, <1>3, <1>4, JoblessSuffices DEF SoftDeleteFolderSubtree
<1>5. ASSUME NEW j \in Jobs, NEW type \in JobTypes, NEW s \in Process,
             ScheduleMaintenanceJob(j, type, s)
      PROVE  Kept'
  <2>1. \A w \in Workers : BatchOK(w)'
    BY <1>1, <1>5 DEF ScheduleMaintenanceJob, Kept, BatchOK, InBatch, Stage, SomeJobActive, Workers
  <2>2. \A i \in Jobs \ {j} : ~Active(i)'
    BY <1>5 DEF ScheduleMaintenanceJob, SomeJobActive, Active, Types
  <2>3. JobOK(j)'
    <3>1. job'[j] = [type |-> type, phase |-> FirstPhase(type), status |-> "pending"]
      BY <1>5 DEF ScheduleMaintenanceJob, Types
    <3>2. type = "library_hard_wipe" => Live' = {}
      BY <1>5 DEF ScheduleMaintenanceJob, Live, Types
    <3>3. type \in {"library_hard_wipe", "soft_deleted_purge", "shutter_source_purge"}
      BY StoreAssumption DEF StoreAssumption
    <3>4. QED
      BY <3>1, <3>2, <3>3 DEF JobOK, Wipes, FirstPhase
  <2>4. \A i \in Jobs : JobOK(i)'
    BY <2>2, <2>3 DEF JobOK
  <2>5. QED
    BY <1>3, <2>1, <2>4 DEF Kept
<1>6. ASSUME NEW j \in Jobs, CancelMaintenanceJob(j) PROVE Kept'
  <2>1. /\ ~Active(j)' /\ \A i \in Jobs \ {j} : job'[i] = job[i]
        /\ entries' = entries
    BY <1>6 DEF CancelMaintenanceJob, Active, Types, JobRecords, libraryVars, shutterVars
  <2>2. ASSUME NEW w \in Workers PROVE BatchOK(w)'
    <3>1. InBatch(w) => w[2] # j
      BY <1>6 DEF CancelMaintenanceJob, Claimed, InBatch, Stage, Workers
    <3>2. w[2] \in Jobs
      BY DEF Workers
    <3>3. QED
      BY <1>1, <1>2, <2>1, <3>1, <3>2 DEF Kept, BatchOK, InBatch, Stage, Active, Wipes
  <2>3. ASSUME NEW i \in Jobs PROVE JobOK(i)'
    <3>1. CASE i = j
      BY <2>1, <3>1 DEF JobOK
    <3>2. CASE i # j
      BY <1>1, <1>2, <2>1, <3>2, JobStays
    <3>3. QED
      BY <3>1, <3>2
  <2>4. QED
    BY <1>3, <2>2, <2>3 DEF Kept
<1>7. QED
  BY <1>4, <1>5, <1>6 DEF ManagementStep

LEMMA KeptStep ==
  ASSUME OneProcess, Types, JobsAndRunsExclude, Kept, [StoreNext]_storeVars
  PROVE  Kept'
<1>1. Types'
  BY TypesStep
<1>2. CASE UNCHANGED storeVars
  <2>1. UNCHANGED <<runs, entries, media, sources, stored, shutter, located, told, writes, job, worker>>
    BY <1>2 DEF storeVars, libraryVars, shutterVars, workerVars
  <2>2. Live' = Live /\ LiveMedia' = LiveMedia /\ Unpurged' = Unpurged
    BY <2>1 DEF Live, LiveMedia, Unpurged
  <2>3. (\A x \in writes' : WriteOK(x)') /\ \A w \in Workers : BatchOK(w)'
    BY <2>1, <2>2 DEF Kept, WriteOK, BatchOK, InBatch, Stage, Active, Wipes
  <2>4. \A j \in Jobs : JobOK(j)'
    BY <2>1, <2>2, JobStays
  <2>5. QED
    BY <2>1, <2>3, <2>4, LibraryStays DEF Kept
<1>3. CASE WorkerStep /\ ~Begins
  BY <1>1, <1>3, WorkerStepKeeps
<1>4. CASE Begins
  BY <1>4, SyncStepKeeps, ManagementStepKeeps DEF Begins, SyncStep, ManagementStep
<1>5. QED
  BY <1>2, <1>3, <1>4, SyncStepKeeps, ManagementStepKeeps DEF StoreNext

\* One process's store keeps the inductive invariant.
LEMMA AlwaysKept == OneProcess => (StoreSpec => [](Types /\ JobsAndRunsExclude /\ Kept))
<1> SUFFICES ASSUME OneProcess PROVE StoreSpec => [](Types /\ JobsAndRunsExclude /\ Kept)
  OBVIOUS
<1>1. Types /\ JobsAndRunsExclude /\ Kept /\ [StoreNext]_storeVars => Kept'
  BY KeptStep
<1>2. QED
  BY <1>1, KeptInit, TypesInit, TypesStep, Exclusion, PTL DEF StoreSpec

(***************************************************************************)
(* Whatever syncs, cancels, purges and crashes come together, a file the   *)
(* gallery shows has its media row and its original, as long as one        *)
(* process serves: a purge reads dead rows under its claim, and nothing    *)
(* can bring a row back to life while its job is active.                   *)
(***************************************************************************)
THEOREM OriginalsStay == OneProcess => (StoreSpec => []LiveEntriesHaveOriginals)
<1>1. Kept => LiveEntriesHaveOriginals
  BY DEF Kept, LiveWhole, LiveMedia, LiveEntriesHaveOriginals
<1>2. QED
  BY <1>1, AlwaysKept, PTL

(***************************************************************************)
(* What a batch is about to delete is nothing a live entry serves          *)
(* (deleteObjects' callers).                                               *)
(***************************************************************************)
THEOREM DeletesSpareTheLiving == OneProcess => (StoreSpec => []NothingLiveIsDeleted)
<1>1. Kept => NothingLiveIsDeleted
  BY DEF Kept, BatchOK, InBatch, Stage, LiveMedia, NothingLiveIsDeleted, Deleting
<1>2. QED
  BY <1>1, AlwaysKept, PTL

(***************************************************************************)
(* A job keeps blocking syncs while its batch has a delete in flight       *)
(* (cleanup-control.ts:10).  The premise is needed: with a second process  *)
(* a claim released before the failure is on record lets one in between.   *)
(***************************************************************************)
THEOREM DeletesBlock == OneProcess => (StoreSpec => []DeletesBlockSyncs)
<1>1. Kept => DeletesBlockSyncs
  BY DEF Kept, BatchOK, InBatch, Stage, DeletesBlockSyncs, Deleting
<1>2. QED
  BY <1>1, AlwaysKept, PTL

(***************************************************************************)
(* No purge or wipe, cut short anywhere, forgets a copy in Shutter before  *)
(* Shutter was told to purge it (processSoftDeletedPurgeBatch's            *)
(* transaction).  Shutter may fetch at any moment with a URL it was given  *)
(* once: what it fetches again after its purge is all that can be left.    *)
(***************************************************************************)
THEOREM CopiesCanBeNamed == OneProcess => (StoreSpec => []NoStrandedSource)
<1>1. Kept => NoStrandedSource
  BY DEF Kept, CopiesNamed, NoStrandedSource
<1>2. QED
  BY <1>1, AlwaysKept, PTL

\* Only a batch that found nothing more to do completes its job.
LEMMA CompletionComesOfABatch ==
  ASSUME Types, [StoreNext]_storeVars, NEW j \in Jobs,
         job[j].status # "completed", job'[j].status = "completed"
  PROVE  \E w \in Workers : /\ w[2] = j /\ Active(j)
                            /\ \/ CompleteJob(w)
                               \/ ReadRows(w) /\ PhaseOf(w) = "shutter_sources"
<1> USE DEF Types, JobRecords
<1>1. job' # job
  OBVIOUS
<1>2. CASE SyncStep
  BY <1>1, <1>2
  DEF SyncStep, StartSyncRun, ForceCancelSyncRun, FinalizeSyncRun, ForceCancelAllRunningSyncRuns,
      EndRuns, AdmitWrite, AttestUpload, OpenWrite, CommitWrite, MarkRemoteDeleted, SignUpload,
      PutObject, ResolveDeliveryUrl, CacheSource
<1>3. CASE ManagementStep
  BY <1>3 DEF ManagementStep, SoftDeleteFolderSubtree, ScheduleMaintenanceJob, CancelMaintenanceJob
<1>4. CASE WorkerStep
  <2>0. ASSUME NEW w \in Workers PROVE w[2] \in Jobs
    BY DEF Workers
  <2>1. ASSUME NEW w \in Workers, NEW phase, Advance(w, phase) PROVE FALSE
    BY <2>0, <2>1 DEF Advance
  <2>2. ASSUME NEW w \in Workers, Complete(w) PROVE w[2] = j /\ Active(j)
    BY <1>1, <2>0, <2>2 DEF Complete
  <2>3. ASSUME NEW w \in Workers, ClaimBatch(w) PROVE FALSE
    <3>1. job' = [job EXCEPT ![w[2]].status = "running"]
      BY <1>1, <2>3 DEF ClaimBatch
    <3>2. QED
      BY <2>0, <3>1
  <2>4. ASSUME NEW w \in Workers, FailMaintenanceJob(w) PROVE FALSE
    BY <1>1, <2>0, <2>4 DEF FailMaintenanceJob
  <2>5. ASSUME NEW w \in Workers, ReadRows(w)
        PROVE  Complete(w) /\ PhaseOf(w) = "shutter_sources"
    BY <1>1, <2>1, <2>5 DEF ReadRows
  <2>6. PICK w \in Workers : ReadRows(w) \/ CompleteJob(w)
    BY <1>1, <1>4, <2>3, <2>4
    DEF WorkerStep, BatchStep, CheckActive, DeleteObjects, DeleteOrphanRow, PurgeWipedRow,
        DeleteWipedRow, PurgeSource, MarkPurged, RowsDone, HardDelete, FailRequest, Crash, Restart
  <2>7. QED
    BY <2>2, <2>5, <2>6 DEF CompleteJob
<1>5. CASE UNCHANGED storeVars
  BY <1>1, <1>5 DEF storeVars
<1>6. QED
  BY <1>2, <1>3, <1>4, <1>5 DEF StoreNext

(***************************************************************************)
(* A wipe that completes has left no entry and no media row, and no copy   *)
(* in Shutter but what Shutter fetched again after it was told to purge    *)
(* it, however often the wipe failed, died or was taken up again.          *)
(***************************************************************************)
THEOREM WipeIsWhole == OneProcess => (StoreSpec => WipeLeavesNothing)
<1> SUFFICES ASSUME OneProcess PROVE StoreSpec => WipeLeavesNothing
  OBVIOUS
<1> DEFINE Wiped == \A j \in Jobs :
        (job[j].type = "library_hard_wipe" /\ job'[j].status = "completed"
            /\ job[j].status # "completed")
        => media = {} /\ shutter \subseteq told /\ \A p \in Paths : entries[p].row = "none"
<1>1. Types /\ JobsAndRunsExclude /\ Kept /\ [StoreNext]_storeVars => [Wiped]_storeVars
  <2> SUFFICES ASSUME Types, Kept, [StoreNext]_storeVars, NEW j \in Jobs,
                      Wipes(j), job'[j].status = "completed", job[j].status # "completed"
               PROVE  media = {} /\ shutter \subseteq told /\ \A p \in Paths : entries[p].row = "none"
    BY DEF Wipes
  <2>1. PICK w \in Workers : /\ w[2] = j /\ Active(j)
                             /\ \/ CompleteJob(w)
                                \/ ReadRows(w) /\ PhaseOf(w) = "shutter_sources"
    BY CompletionComesOfABatch
  <2>2. JobOK(j) /\ BatchOK(w)
    BY DEF Kept
  <2>3. CompleteJob(w)
    BY <2>1, <2>2 DEF JobOK, PhaseOf
  <2>4. Stage(w) = "completing" /\ InBatch(w)
    BY <2>3 DEF CompleteJob, Stage, InBatch
  <2>5. job[j].phase = "db_hard_delete" /\ \A p \in Paths : entries[p].row = "none"
    BY <2>1, <2>2, <2>4 DEF BatchOK
  <2>6. media = {} /\ Unpurged = {}
    BY <2>1, <2>2, <2>5 DEF JobOK
  <2>7. shutter \subseteq told
    BY <2>6 DEF Kept, CopiesNamed, Unpurged, Types
  <2>8. QED
    BY <2>5, <2>6, <2>7
<1>2. QED
  BY <1>1, AlwaysKept, PTL DEF StoreSpec, WipeLeavesNothing
-----------------------------------------------------------------------------
(* A live file is in live folders. *)

\* What a write that is open has yet to restore, it will.
Restores(x) ==
    x.at = "open" => \A f \in Above[x.path] : folders[f] = "live" \/ f \in x.restore

\* The inductive invariant, beside Types and JobsAndRunsExclude: a run stays
\* running under its open writes, and as long as runs came one at a time, the
\* folders above a live file, and those above an open write, are taken care of.
FoldersKept ==
    /\ \A x \in writes : x.at = "open" => runs[x.run] = "running"
    /\ ~overlapped =>
        /\ \A r, s \in RunningRuns : r = s
        /\ \A p \in Live : \A f \in Above[p] : folders[f] = "live"
        /\ \A x \in writes : Restores(x)

\* No open write, no live entry more and no live entry's folder less: enough.
LEMMA FoldersSuffice ==
  ASSUME Types, FoldersKept, RunningRuns' \subseteq RunningRuns,
         writes' = writes, overlapped' = overlapped,
         \A x \in writes : x.at = "open" => runs'[x.run] = "running",
         Live' \subseteq Live,
         \A p \in Live' : \A f \in Above[p] : folders[f] = "live" => folders'[f] = "live",
         \A x \in writes : x.at = "open" =>
            \A f \in Above[x.path] : folders[f] = "live" => folders'[f] = "live"
  PROVE  FoldersKept'
<1>1. ~overlapped => \A r, s \in RunningRuns' : r = s
  BY DEF FoldersKept
<1>2. ~overlapped => \A p \in Live' : \A f \in Above[p] : folders'[f] = "live"
  BY DEF FoldersKept
<1>3. ~overlapped => \A x \in writes' : Restores(x)'
  BY DEF FoldersKept, Restores
<1>4. QED
  BY <1>1, <1>2, <1>3 DEF FoldersKept

\* Ending a run takes folders that no live entry is in, and waits for the writes
\* whose folders it could take.
LEMMA EndRunsKeepsFolders ==
  ASSUME Types, FoldersKept, NEW S, S \subseteq RunningRuns, NEW status \in Terminal,
         EndRuns(S, status)
  PROVE  FoldersKept'
<1>1. /\ runs' = [r \in Runs |-> IF r \in S THEN status ELSE runs[r]]
      /\ S # {} /\ \A r \in S : ~HeldShare(r)
      /\ EmptiedFoldersDeleted
      /\ UNCHANGED <<entries, writes, overlapped>>
  BY DEF EndRuns
<1>2. RunningRuns' = RunningRuns \ S
  BY <1>1 DEF RunningRuns, Terminal, Types
<1>3. \A x \in writes : x.at = "open" => runs'[x.run] = "running"
  <2> SUFFICES ASSUME NEW x \in writes, x.at = "open" PROVE runs'[x.run] = "running"
    OBVIOUS
  <2>1. x.run \in Runs /\ runs[x.run] = "running" /\ HeldShare(x.run)
    BY DEF FoldersKept, Types, WriteTypes, HeldShare
  <2>2. QED
    BY <1>1, <2>1
<1>4. \A p \in Live' : p \in Live /\ \A f \in Above[p] : folders[f] = "live" => folders'[f] = "live"
  <2>1. Live' = Live
    BY <1>1 DEF Live
  <2>2. ASSUME NEW p \in Live, NEW f \in Above[p], folders[f] = "live" PROVE folders'[f] = "live"
    <3>1. f \in Occupied /\ f \in Folders
      BY StoreAssumption DEF Occupied, Live, StoreAssumption
    <3>2. QED
      BY <1>1, <2>2, <3>1 DEF EmptiedFoldersDeleted
  <2>3. QED
    BY <2>1, <2>2
<1>5. CASE overlapped
  BY <1>1, <1>3, <1>5 DEF FoldersKept
<1>6. CASE ~overlapped
  <2>1. \A x \in writes : x.at # "open"
    <3> SUFFICES ASSUME NEW x \in writes, x.at = "open" PROVE FALSE
      OBVIOUS
    <3>1. x.run \in RunningRuns /\ HeldShare(x.run)
      BY DEF FoldersKept, Types, WriteTypes, HeldShare, RunningRuns
    <3>2. x.run \in S
      BY <1>1, <1>6, <3>1 DEF FoldersKept
    <3>3. QED
      BY <1>1, <3>1, <3>2
  <2>2. QED
    BY <1>1, <1>2, <1>3, <1>4, <2>1, FoldersSuffice
<1>7. QED
  BY <1>5, <1>6

LEMMA SyncKeepsFolders ==
  ASSUME Types, FoldersKept, SyncStep
  PROVE  FoldersKept'
<1>1. ASSUME NEW r \in Runs, StartSyncRun(r) PROVE FoldersKept'
  <2>1. RunningRuns' = RunningRuns \cup {r}
    BY <1>1 DEF StartSyncRun, RunningRuns, Types
  <2>2. Live' = Live
    BY <1>1 DEF StartSyncRun, Live, libraryVars, shutterVars
  <2>3. \A x \in writes : x.run \in Runs
    BY DEF Types, WriteTypes
  <2>4. /\ writes' = writes /\ folders' = folders /\ overlapped' = (overlapped \/ RunningRuns # {})
        /\ \A x \in writes : x.at = "open" => runs'[x.run] = "running"
    BY <1>1, <2>3 DEF StartSyncRun, FoldersKept, Types, libraryVars, shutterVars
  <2>5. QED
    BY <2>1, <2>2, <2>4 DEF FoldersKept, Restores
<1>2. ASSUME NEW S, S \subseteq RunningRuns, NEW status \in Terminal, EndRuns(S, status)
      PROVE  FoldersKept'
  BY <1>2, EndRunsKeepsFolders
<1>3. ASSUME UNCHANGED <<runs, entries, folders, writes, overlapped>> PROVE FoldersKept'
  BY <1>3 DEF FoldersKept, Restores, Live, RunningRuns
<1>4. ASSUME NEW q \in Requests, AdmitWrite(q) PROVE FoldersKept'
  <2>1. Live' = Live /\ RunningRuns' = RunningRuns
    BY <1>4 DEF AdmitWrite, Live, RunningRuns, libraryVars, shutterVars
  <2>2. /\ UNCHANGED <<runs, folders, overlapped>>
        /\ \A x \in writes' : x.at = "open" => x \in writes
    BY <1>4 DEF AdmitWrite, Admitted, libraryVars, shutterVars
  <2>3. QED
    BY <2>1, <2>2 DEF FoldersKept, Restores
<1>5. ASSUME NEW x \in writes, AttestUpload(x) PROVE FoldersKept'
  <2>1. Live' = Live /\ RunningRuns' = RunningRuns
    BY <1>5 DEF AttestUpload, Live, RunningRuns, libraryVars, shutterVars
  <2>2. /\ UNCHANGED <<runs, folders, overlapped>>
        /\ \A y \in writes' : y.at = "open" => y \in writes
    BY <1>5 DEF AttestUpload, libraryVars, shutterVars, Types, WriteTypes
  <2>3. QED
    BY <2>1, <2>2 DEF FoldersKept, Restores
<1>6. ASSUME NEW x \in writes, OpenWrite(x) PROVE FoldersKept'
  <2> DEFINE opened == [x EXCEPT !.at = "open",
                                 !.restore = {f \in Above[x.path] : folders[f] # "live"}]
  <2>1. Live' = Live /\ RunningRuns' = RunningRuns
    BY <1>6 DEF OpenWrite, Live, RunningRuns, libraryVars, shutterVars
  <2>2. /\ UNCHANGED <<runs, folders, overlapped>>
        /\ \A y \in writes' : y \in writes \/ (y = opened /\ runs[x.run] = "running")
    BY <1>6 DEF OpenWrite, libraryVars, shutterVars
  <2>3. opened.run = x.run /\ opened.path = x.path
        /\ opened.restore = {f \in Above[x.path] : folders[f] # "live"}
    BY DEF Types, WriteTypes
  <2>4. Restores(opened)
    BY <2>3 DEF Restores
  <2>5. QED
    BY <2>1, <2>2, <2>3, <2>4 DEF FoldersKept, Restores
<1>7. ASSUME NEW x \in writes, CommitWrite(x) PROVE FoldersKept'
  <2>1. /\ UNCHANGED <<runs, overlapped>> /\ writes' = writes \ {x}
        /\ folders' = [f \in Folders |-> IF f \in x.restore THEN "live" ELSE folders[f]]
        /\ x.at = "open" /\ x.path \in Paths
    BY <1>7 DEF CommitWrite, Types, WriteTypes
  <2>2. RunningRuns' = RunningRuns /\ \A p \in Live' : p \in Live \/ p = x.path
    BY <1>7, <2>1 DEF CommitWrite, RunningRuns, Live, Types
  <2>3. \A y \in Paths : \A f \in Above[y] : /\ f \in Folders
                                             /\ folders[f] = "live" => folders'[f] = "live"
                                             /\ f \in x.restore => folders'[f] = "live"
    BY <2>1, StoreAssumption DEF StoreAssumption
  <2>4. \A p \in Live' : p \in Paths
    BY DEF Live
  <2>5. \A y \in writes : y.path \in Paths
    BY DEF Types, WriteTypes
  <2>6. ~overlapped => \A p \in Live' : \A f \in Above[p] : folders'[f] = "live"
    BY <2>1, <2>2, <2>3, <2>4 DEF FoldersKept, Restores
  <2>7. ~overlapped => \A y \in writes' : Restores(y)'
    BY <2>1, <2>3, <2>5 DEF FoldersKept, Restores
  <2>8. QED
    BY <2>1, <2>2, <2>6, <2>7 DEF FoldersKept
<1>8. ASSUME NEW x \in writes, MarkRemoteDeleted(x) PROVE FoldersKept'
  <2>1. /\ UNCHANGED <<runs, folders, overlapped>> /\ writes' = writes \ {x}
        /\ Live' \subseteq Live
    BY <1>8 DEF MarkRemoteDeleted, Live, Types
  <2>2. QED
    BY <2>1 DEF FoldersKept, Restores, RunningRuns
<1>9. ASSUME NEW c \in Contents,
             SignUpload(c) \/ PutObject(c) \/ ResolveDeliveryUrl(c) \/ CacheSource(c)
      PROVE FoldersKept'
  BY <1>3, <1>9
  DEF SignUpload, PutObject, ResolveDeliveryUrl, CacheSource, libraryVars, shutterVars
<1>10. Outcomes \subseteq Terminal /\ "cancelled" \in Terminal
  BY StoreAssumption DEF StoreAssumption, Terminal
<1>11. ASSUME NEW r \in Runs, ForceCancelSyncRun(r) \/ \E status \in Outcomes : FinalizeSyncRun(r, status)
       PROVE  FoldersKept'
  <2>1. runs[r] = "running" /\ \E status \in Terminal : EndRuns({r}, status)
    BY <1>10, <1>11 DEF ForceCancelSyncRun, FinalizeSyncRun
  <2>2. {r} \subseteq RunningRuns
    BY <2>1 DEF RunningRuns
  <2>3. QED
    BY <1>2, <2>1, <2>2
<1>12. ASSUME ForceCancelAllRunningSyncRuns PROVE FoldersKept'
  BY <1>2, <1>10, <1>12 DEF ForceCancelAllRunningSyncRuns
<1>13. QED
  BY <1>1, <1>4, <1>5, <1>6, <1>7, <1>8, <1>9, <1>11, <1>12 DEF SyncStep

\* What empties folders while no run runs: no write is open then.
LEMMA IdleKeepsFolders ==
  ASSUME Types, FoldersKept, RunningRuns = {}, RunningRuns' = {}, UNCHANGED <<writes, overlapped>>,
         Live' \subseteq Live,
         \A p \in Live' : \A f \in Above[p] : folders[f] = "live" => folders'[f] = "live"
  PROVE  FoldersKept'
<1>1. \A x \in writes : x.at # "open"
  BY DEF FoldersKept, Types, WriteTypes, RunningRuns
<1>2. QED
  BY <1>1, FoldersSuffice

LEMMA ManagementKeepsFolders ==
  ASSUME Types, FoldersKept, ManagementStep
  PROVE  FoldersKept'
<1>1. ASSUME NEW f \in Folders, SoftDeleteFolderSubtree(f) PROVE FoldersKept'
  <2> DEFINE under == {p \in Live : f \in Above[p]}
             inside == {g \in Folders : g = f \/ f \in Above[g]}
  <2>1. /\ RunningRuns = {} /\ UNCHANGED <<runs, writes, overlapped>>
        /\ entries' = [p \in Paths |-> IF p \in under
                         THEN [entries[p] EXCEPT !.row = "deleted"] ELSE entries[p]]
        /\ folders' = [g \in Folders |-> IF folders[g] = "live" /\ g \in inside
                         THEN "deleted" ELSE folders[g]]
    BY <1>1 DEF SoftDeleteFolderSubtree
  <2>2. RunningRuns' = {}
    BY <2>1 DEF RunningRuns
  <2>3. \A p \in Live' : p \in Live /\ f \notin Above[p]
    BY <2>1 DEF Live, Types
  <2>4. ASSUME NEW p \in Live', NEW g \in Above[p], folders[g] = "live" PROVE folders'[g] = "live"
    <3>1. g \in Folders /\ Above[g] \subseteq Above[p]
      BY StoreAssumption DEF StoreAssumption, Live
    <3>2. g \notin inside
      BY <2>3, <3>1
    <3>3. QED
      BY <2>1, <2>4, <3>1, <3>2
  <2>5. QED
    BY <2>1, <2>2, <2>3, <2>4, IdleKeepsFolders
<1>2. ASSUME NEW j \in Jobs, NEW type \in JobTypes, NEW s \in Process,
             ScheduleMaintenanceJob(j, type, s)
      PROVE  FoldersKept'
  <2>1. RunningRuns = {} /\ RunningRuns' = {} /\ UNCHANGED <<writes, overlapped>>
    BY <1>2 DEF ScheduleMaintenanceJob, RunningRuns
  <2>2. CASE type = "library_hard_wipe"
    <3>1. Live' = {}
      BY <1>2, <2>2 DEF ScheduleMaintenanceJob, Live, Types
    <3>2. QED
      BY <2>1, <3>1, IdleKeepsFolders
  <2>3. CASE type # "library_hard_wipe"
    <3>1. Live' = Live /\ folders' = folders
      BY <1>2, <2>3 DEF ScheduleMaintenanceJob, Live
    <3>2. QED
      BY <2>1, <3>1, IdleKeepsFolders
  <2>4. QED
    BY <2>2, <2>3
<1>3. ASSUME NEW j \in Jobs, CancelMaintenanceJob(j) PROVE FoldersKept'
  BY <1>3 DEF CancelMaintenanceJob, libraryVars, shutterVars, FoldersKept, Restores, Live, RunningRuns
<1>4. QED
  BY <1>1, <1>2, <1>3 DEF ManagementStep

LEMMA WorkerKeepsFolders ==
  ASSUME Types, JobsAndRunsExclude, FoldersKept, WorkerStep
  PROVE  FoldersKept'
<1>1. ASSUME UNCHANGED <<runs, folders, writes, overlapped>>, Live' \subseteq Live PROVE FoldersKept'
  BY <1>1 DEF FoldersKept, Restores, RunningRuns
<1>2. ASSUME NEW c, DeleteMedia(c) PROVE Live' \subseteq Live
  BY <1>2 DEF DeleteMedia, Live, NoEntry, Types
<1>3. ASSUME NEW w \in Workers, HardDelete(w) PROVE FoldersKept'
  <2>1. writes' = writes /\ overlapped' = overlapped
    BY <1>3 DEF HardDelete
  <2>2. CASE ~Active(w[2])
    BY <1>1, <1>3, <2>2 DEF HardDelete, Live
  <2>3. CASE Active(w[2])
    <3>1. RunningRuns = {}
      BY <2>3 DEF JobsAndRunsExclude, SomeJobActive, Workers
    <3>2. CASE job[w[2]].type = "library_hard_wipe"
      <4>0. entries' = [p \in Paths |-> NoEntry]
        BY <1>3, <2>3, <3>2 DEF HardDelete
      <4>1. Live' = {}
        BY <4>0 DEF Live, NoEntry
      <4>2. RunningRuns' = {}
        BY <1>3, <2>3, <3>2 DEF HardDelete, RunningRuns
      <4>3. QED
        BY <2>1, <3>1, <4>1, <4>2, IdleKeepsFolders
    <3>3. CASE job[w[2]].type # "library_hard_wipe"
      <4>0. /\ entries' = [p \in Paths |-> IF p \in SoftDeleted THEN NoEntry ELSE entries[p]]
            /\ runs' = runs
        BY <1>3, <2>3, <3>3 DEF HardDelete
      <4>1. Live' \subseteq Live
        BY <4>0 DEF Live, NoEntry
      <4>2. \A f \in Folders : folders[f] = "live" => folders'[f] = "live"
        BY <1>3, <2>3, <3>3 DEF HardDelete
      <4>3. \A p \in Live' : \A f \in Above[p] : f \in Folders
        BY StoreAssumption DEF StoreAssumption, Live
      <4>4. RunningRuns' = {}
        BY <3>1, <4>0 DEF RunningRuns
      <4>5. QED
        BY <2>1, <3>1, <4>1, <4>2, <4>3, <4>4, IdleKeepsFolders
    <3>4. QED
      BY <3>2, <3>3
  <2>4. QED
    BY <2>2, <2>3
<1>4. ASSUME NEW w \in Workers, DeleteOrphanRow(w) \/ DeleteWipedRow(w) PROVE FoldersKept'
  <2>1. Live' \subseteq Live
    BY <1>2, <1>4 DEF DeleteOrphanRow, DeleteWipedRow, Live
  <2>2. QED
    BY <1>1, <1>4, <2>1 DEF DeleteOrphanRow, DeleteWipedRow
<1>5. ASSUME NEW w \in Workers,
             \/ ClaimBatch(w) \/ ReadRows(w) \/ CheckActive(w) \/ DeleteObjects(w) \/ PurgeWipedRow(w)
             \/ PurgeSource(w) \/ MarkPurged(w) \/ RowsDone(w) \/ CompleteJob(w)
             \/ FailMaintenanceJob(w) \/ FailRequest(w)
      PROVE  FoldersKept'
  <2>1. runs' = runs /\ entries' = entries /\ folders' = folders /\ writes' = writes
        /\ overlapped' = overlapped
    BY <1>5 DEF ClaimBatch, ReadRows, CheckActive, DeleteObjects, PurgeWipedRow, PurgeSource,
                MarkPurged, RowsDone, CompleteJob, FailMaintenanceJob, FailRequest, libraryVars,
                shutterVars
  <2>2. QED
    BY <1>1, <2>1 DEF Live
<1>6. ASSUME NEW s \in Process, Crash(s) \/ Restart(s) PROVE FoldersKept'
  BY <1>1, <1>6 DEF Crash, Restart, libraryVars, shutterVars, Live
<1>7. QED
  BY <1>3, <1>4, <1>5, <1>6 DEF WorkerStep, BatchStep

(***************************************************************************)
(* A live file is in live folders at every depth, unless two sync runs     *)
(* were running at once, for any number of processes, crashes and failed   *)
(* requests: a run's end waits for its writes (assertWritableSyncRun's FOR *)
(* SHARE) before it takes the folders that are empty, and no job and no    *)
(* folder's deletion runs beside a sync run.                               *)
(***************************************************************************)
THEOREM FilesAreReachable == StoreSpec => []LiveFilesAreReachable
<1>1. StoreInit => FoldersKept
  BY DEF StoreInit, FoldersKept, Live, RunningRuns, NoEntry
<1>2. Types /\ JobsAndRunsExclude /\ FoldersKept /\ [StoreNext]_storeVars => FoldersKept'
  <2>1. ASSUME FoldersKept, UNCHANGED storeVars PROVE FoldersKept'
    BY <2>1 DEF FoldersKept, Restores, Live, RunningRuns, storeVars, libraryVars, shutterVars
  <2>2. QED
    BY <2>1, SyncKeepsFolders, ManagementKeepsFolders, WorkerKeepsFolders DEF StoreNext
<1>3. FoldersKept => LiveFilesAreReachable
  BY DEF FoldersKept, LiveFilesAreReachable
<1>4. QED
  BY <1>1, <1>2, <1>3, TypesInit, TypesStep, Exclusion, PTL DEF StoreSpec
=============================================================================
