# Latch Works, specified

TLA+ modules beside Latch Works: what the repository's programs do where order, failure and
concurrency decide whether files survive, model-checked with TLC on small instances, and theorems
that TLAPS proves for every instance. Paths below are relative to the repository;
`core-tidy` stands for `apps/oriel/crates/core-tidy/src`, `mode-tidy` for
`apps/oriel/crates/mode-tidy/src`, `core-sync` for
`apps/oriel/crates/core-sync/src`, `gather-box` for `apps/gather-box/src`, `pane-view` for
`apps/pane-view/src`.

## 1. The system

Latch Works collects, tidies, syncs and views a private media archive.

| Part | State it keeps | Operations | Talks to | What is hard | What makes it correct | Here |
| --- | --- | --- | --- | --- | --- | --- |
| **Tidy scheduler** (`core-tidy/engine/schedule.rs`) | the queue's entries, one condition variable, cancel and pause tokens | `take_turn`, `checkpoint`, `promote`, `stop_work_on`, drop | every scan, change and analysis | flags read without the lock, lost wake-ups, priorities | one at a time, in order, all work ends | `TidyScheduler` |
| **Tidy executor and journal** (`core-tidy/plans/executor.rs`, `journal.rs`) | files, temp files, `plans`, `plan_steps`, `files`, dismissals | apply, stop, undo, recover | holding, encoders, SQLite | several touches a step, lanes, crashes | nothing is lost, what is done can be undone, the journal tells the truth | `TidyExecutor` |
| **Tidy holding** (`core-tidy/plans/holding.rs`, `engine/changes.rs`) | batch folders, `holding` rows | hold, restore, empty to Trash | executor, Holding page | move and row are two steps, the page runs beside changes | a held file is in holding, back, or in the Trash | `TidyHolding`, `TidyCustody` |
| **Tidy's window** (`mode-tidy/actions.rs`, `state.rs`) | the queue of changes, busy flags | start, queue, drop, stop, undo | engine, catalog | gates asked once, results that come back late | one change at a time, Undo takes back the newest | `TidyChanges`; the Holding page's gate in `TidyExecutor` |
| **Encode budget** (`core-tidy/plans/encode_budget.rs`) | bytes in use | reserve, drop | the executor's lanes | an encode larger than the budget, stops noticed by a timeout | never over budget unless one runs alone, nobody starves | `TidyExecutor` |
| **Tidy engine caches, scan and passes** (`core-tidy/engine.rs`, `scan`, `passes`) | caches by generation, rows | queries, scans, analyses, `remove_root` | scheduler, catalog | a query across a change, a root removed under new work | a cache never outlives what it was made from | planned |
| **Tidy planner, duplicates, similarity** | none of their own | drafts of plans, sets and keepers | catalog | long pure rules | each set keeps one | not modelled |
| **Gather Box coordinator and executor** (`apps/gather-box/src/background`, `shared`, `offscreen`) | a persisted queue, results, one execution slot | start, retry, cancel, events, recover | content scripts, offscreen document, browser | service worker ends anywhere, messages lost or repeated | a job runs once, the queue does not stall, results survive | `GatherQueue` |
| **Sync engine** (`core-sync`, the port of `packages/lockstep-core`) | the plan, the items under way, the run | push, prune, cancel, finalize | Pane View's HTTP API, storage, the source drive | files change meanwhile, cancels from both sides, answers lost, a drive that goes away | what is recorded was on disk, what is pruned was gone | `SyncRun` |
| **Pane View's store and workers** (`apps/pane-view/src/server`) | `sync_runs`, `media`, `folders`, jobs, objects | start, complete, finalize, delete, purge | Lockstep, S3 | transactions beside runs and purges | no row without its object, no purge of what is linked | `PaneViewStore` |
| **The rest**: View, the shell, bindings, Showcase, Shutter, shared media packages | | | | user interface, platform I/O, pure formats | | not modelled |

In Tidy, the window starts a change; the engine takes a turn of the scheduler for it, the planner
drafts a plan into the catalog, the executor applies it with checkpoints of its turn, and each
step moves files to holding and records how it ended. The Holding page works on holding without
taking a turn. Everything a crash leaves behind is on disk or in the catalog.

A sync client opens a run in Pane View's store, asks for a signed upload of each file, puts it into
the object store itself, asks Pane View to record it, and finalizes the run. Pane View's management
page schedules jobs that delete from the database, the object store and Shutter; runs and jobs keep
each other out through one advisory lock and their statuses.

In Gather Box, the service worker keeps the queue in storage and sends one job at a time to the
offscreen document, which reports back until it is answered. The worker may end at any await, and
wakes when something calls it.

## 2. Plan

Order of work, the most dangerous behaviour first:

1. `TidyScheduler` (done) with `TidySchedulerProofs` (done).
2. `TidyHolding`, `TidyExecutor`, and the abstract `TidyCustody` they implement (done), with
   `TidyExecutorProofs`, `TidyLanesProofs` and `TidyUndoProofs` (done).
3. `PaneViewStore`, and `SyncRun`, which extends it with the clients (done), with
   `PaneViewStoreProofs` and `SyncRunProofs` (done).
4. `GatherQueue` (done): coordinator, stored queue, slot, reports that come again, a service worker
   that ends; with `GatherQueueProofs` (done).
5. `EncodeBudget` with the lanes, in `TidyExecutor` (done).
6. `TidyRemoval`: the scheduler with `remove_root` and work that arrives after `stop_work_on`.
7. `TidyChanges` (done), the window's queue of changes and Cmd-Z's history, with
   `TidyChangesProofs` (the turn and what Cmd-Z takes, done); its composition with the
   Holding page's gate; then `TidyCaches`, the engine's caches by generation.
8. Proofs: types, custody, what undo and History say, strays and keepers, what a change leaves in
   the root, the queue's handoff, the turn, what Cmd-Z takes back (done). Next, the files that
   conversions replace in place, under the premise that the Holding page restores none of them.

Modules that are proved about use no recursive operator; their parameters are constants with a
named assumption; every invariant is a conjunction of named parts.

## 3. Modules

### TidyScheduler

One action is one critical section of the queue's mutex, or one read or write of a flag without
it. `step[w]` is where a thread is: in `take_turn`, in `wait_for_turn`'s first look or its loop, at
work, at a checkpoint, between deciding to step aside and doing it, in the paused wait, in `Turn`'s
drop. `place`, `id`, `background` are the entry's fields; `askedForWaiting` is the counter read
without the lock; `asleep` and `removalAsleep` are the waiters of the one condition variable.
A token's change and its callback are two actions, `owed` between them. Cancels of `stop_work_on`
are one at a time and outside the lock, as in the code.

Simplified: a piece of work is on one root (`Entry::roots` is a list), what an item does is
nothing, tokens are not shared between works, and the owner's calls each happen once for a folder.

### TidyHolding

`disk` is the root, `held` every file ever moved to holding with its row. The operations the page
and the executor share (`MoveToHolding`, `InsertRow`, `MayRestore`, `MoveBack`, `MarkRestored`)
are operators; `PressRestore` ... `EndEmpty` are the Holding page, which does one thing at a time.
A file is its contents; a copy, an edit or a file of another program is another value.

### TidyExecutor

EXTENDS `TidyHolding` with plans, steps, rows, temp files, the run, a stop, a crash and recovery.
Each step has its own program counter; several stills go on at once on `Lanes`. A step's reads
before its first touch of the disk are one action; every touch and every transaction is its own,
so that a crash, the page, another lane or another program comes between any two. A rename
replaces what is at its target by then, as `fs::rename` does.

A still waits for its share of `EncodeBudget` before it encodes (`Reserve`); `Used` is what the
stills at their encode hold. The wait looks for a stop, the reservation of one that fits does not.
`Encode` is the encode and the checks of its result, through which the model holds the share.

The catalog's rows are followed for their paths only, with the UNIQUE index that makes a
relocation fail. `Errs` is the rule of `apply_plan`'s closure: an error in a stopped run leaves the
step pending.

Assumed: holding is on the root's volume, so a move is a rename; size and dates tell different
contents apart; batch names of two runs differ; the catalog's writes fail only for the index;
encoders end. Left out: `RemoveFolder` steps, results reused between identical copies,
earlier locations of holding, scans between a run and its undo.

### TidyCustody

What the owner is promised, without a mechanism: each file is in the root, in holding or in the
Trash, moves only along root - holding - Trash, and is otherwise only ever overwritten by another
program. `TidyExecutor!Where` maps disk and holding to it.

### TidyChanges

One action is one callback on the window's thread, or the end of what a job does in the engine. `turn`,
`undoes`, `queue`, `change`, `undo`, `pushed`, `returned` are the fields of `TidyState`; `tasks` is what
runs after its start, at the point of `start_perform`, `run_steps`, `undo_plan_now` or `undo_all_now`
where it waits. A plan is a number, in the order they are drafted; `state` is what the catalog says of
it, as far as `can_undo` asks. `HandOver` calls the starts in the queue until one of them runs, which
is what `release_turn` does when a waiting Cmd-Z runs nothing and releases again. A decision that is no
plan (`Dismiss`) joins the history once the catalog has answered; a Cmd-Z waits for it (`later`). One
that finds no history reads the journal (`reading`), and looks again before it uses what it read.

`kin`, `stamp` and `lost` are no state of the code: they remember which plans came onto the history
together and when, and what left it because it was full, which `UndoTakesTheNewest` compares.

Simplified: the catalog's thread answers in order, so nothing is drafted, undone or marked before a
journal that was asked for earlier; a decision is taken back in one step. Left out: preferred folders
(the toast's Undo of one leaves its entry on the history, `settings.rs:102`), toasts, `results`,
pages' callbacks, the roots to scan again, a catalog that does not open.

### PaneViewStore

One action is one database transaction at READ COMMITTED, or one request to the object store or to
Shutter. Recording a file is three: the HEAD (`AttestUpload`), its transaction up to the folder rows
it read (`OpenWrite`) and the commit (`CommitWrite`); between the last two the run's row is held FOR
SHARE, so what ends the run waits. `worker[<<s, j>>]` is where the batch of job `j` in process `s`
is: the claim, the read of the job and its rows, the last look at the job, the delete in storage,
and then each row. A failure releases the claim in one step and is recorded in another, as
`runMaintenanceJobBatch` does. `minds` is which process has a batch or a timer of which job.

Shutter's copies are `shutter`. A copy is made when somebody follows a delivery URL that was handed
out while the content was live (`ResolveDeliveryUrl`, `located`): Shutter then fetches the object, if
it is stored, whatever has become of the entry since (`CacheSource`). The URLs live for 24 hours
(`shutter-client.ts:18-20`); the model has no clock, so one may be followed at any later time, and one
that expired is one nobody follows. `told` is no state of the code: what Shutter was told to purge
since the content was last recorded. Likewise an upload's URL may be asked for whenever no job is
active, by a run or behind its end (`SignUpload`), and used at any later time (`PutObject`).

Simplified: a batch takes every row at once; an upload carries its content's hash, so an object is
its content; a batch's progress counters, sessions, favourites and viewer state are left out, and so
is a database error while a job's failure is recorded (`cleanup-worker.ts:247`), which `JobsEnd` does
not speak of.

### SyncRun

EXTENDS `PaneViewStore` with clients. Each path of a run has its item: prepared (read and hashed),
looked at, uploaded, recording. A request that the client gave up is still on the `wire`, and a
finalize in `finals`: either may reach the store later. `root` is the drive with the source folder.

Simplified: an edit always changes the file's time; two spellings of a path are one path; a drive
that goes and comes back within one look is not modelled, nor a listing reused by a later run.

### GatherQueue

A call of the coordinator is a chain of `exclusive` sections with awaits between them. A task is
what is left of a call at one of these awaits, an action one section; `WorkerEnds` drops every task
and rejects the reports it had not answered, `Deliver` sends them again. `slot` is the document's
execution slot; an execution ends as `Endings` says of where it is. `lost` and `early` remember what
some properties exclude: a task that nobody does again, and a claim before the browser's recovery.

`Kept(q, K)` is the filter of the arrays' methods, by position: what is left of `q` at the positions
in `K`. It is written with a recursive function, so that proofs can look into it.

Simplified: all pages are of one site; sections come in any order, although `exclusive` is first come
first served; two dispatchers that wait at the end of one run are one; the tally of a batch, titles
and logs are left out.

## 4. Runs

`MC_*` modules hold the instances. `CHECK_DEADLOCK FALSE` everywhere: when all work is done and
the owner asks for nothing more, these systems stop.

| Run | Instance | Shows |
| --- | --- | --- |
| `scheduler_safety` | scan, change, one analysis; the scan and the analysis can be cancelled and paused, one pause, Check now, a folder forgotten | types, one at a time, arrival order, no lost wake-up |
| `scheduler_live` | scan, two analyses, of which one can be cancelled and paused, a folder forgotten; no Check now | a free turn finds a taker, work that entered ends, `stop_work_on` returns |
| `scheduler_promote` | scan, change, analysis, Check now | **violated**: see below |
| `executor_duplicates` | two holds that keep each other's file and two moves to one place, a press on the page, a crash, another program, two undos, a refusal | types, one copy stays, the plan's status is true, what says undone is back; the executor and the page implement `TidyCustody` |
| `executor_conversions` | two stills on two lanes and an in-place video, one still larger than the encode budget, a refusal, a crash while idle or applying, two undos | nothing stray is left, unfinished steps leave files alone, finished ones can be undone, an undo that fails keeps the result, dismissals can be taken back, every run ends |
| `executor_empty` | one conversion, Empty pressed | **violated** |
| `executor_restore` | one in-place video, Restore pressed | **violated** |
| `changes` | four presses of a change, Tidy up, an Undo, Cmd-Z or a decision, one Stop or drop, a history of two | one change has the turn and a free turn is not waited for; Cmd-Z takes back the newest |
| `pane_view` | two runs, or a run and any one of the three jobs, from a fresh library (empty, or one file) or one whose contents were all served and partly purged before; a crash or a failed request | runs and jobs exclude each other, what is live has its original and its folders, no copy in Shutter is forgotten before Shutter was told to purge it, a wipe leaves nothing else, jobs end |
| `pane_view_two_servers` | the same with two server processes and one content | **violated** |
| `sync_run` | a push and a prune of one path, one edit, a drive that goes, cancels from both sides, one answer lost or late | what is recorded was on disk, what is pruned was gone, client and store agree on the end, clients end |
| `gather_queue` | two asks over two pages and profiles, two upsets (cancel, deleted profile, failed call, end of worker, document or browser) | one job holds the queue, handoffs in order, outcomes stand, cancels stick, the queue moves |

Why the bounds are enough: the scheduler compares entries two by two and by class, so a scan, a
change and analyses reach every comparison of `may_run`; one item a work already gives each a
checkpoint between two pieces. In the executor, two stills on two lanes with a serial step after
them reach each rule of the order, a step touches at most its own two paths and the keepers', and
one refusal or crash at each point is what the code's error paths handle.

In `changes` four presses are a change, one behind it, a Cmd-Z behind both and one press more that
undoes, drops or decides between them; five presses without a Stop show the same (9.1 million states,
too long to keep), also with one step of Tidy up and a history of one. A history of two makes the
oldest entry go.

In `pane_view` two contents of one path tell a replaced file from its successor, and one job beside
one run is all that the startup lock compares; the failing request or crash comes at every step of a
batch. One signed PUT at a time is to come (`MaxWrites`), which is enough to land behind any delete, and
the library that was served before has a URL of every content about, a purged row for what was
purged, and a queued one for a purge cut short, so that a late fetch can come at every step of a job.
`sync_run` has room for two requests at once (`Width`, `MaxWrites`) and two attempts of a
finalize, so that a late first one meets the second. In `gather_queue` the code's limit of 100 jobs is
`MaxQueue` 2, which two asks reach, and `MaxResults` 1 makes trimming happen at the second result;
two upsets are the shortest way to each error path that follows an error path.

Fairness: a thread that can go on does (`WF` of a work's steps, of a token's callback, of
`stop_work_on`, of the executor), and the owner starts Tidy again after a crash. A server process goes
on with its batch and its timer, and one that died is started again; a sync client goes on, and what
is on the wire arrives or is lost. Gather Box has one `WF` for the worker and one for the document:
promises are continued, messages arrive and executions end. Nothing makes anyone ask, stop, pause,
resume, cancel or undo, or anything fail. `EveryWorkEnds` holds under the premise that no work stays
paused for ever, which is the owner's doing.

### What the violated runs show

- **Check now between a decision and its lock** (`scheduler_promote`). `checkpoint` reads
  `should_step_aside` without the lock; `promote` then makes the running entry asked-for; `step_aside`
  sets it aside all the same. `may_run` looks for asked-for work among the waiting only, so this
  entry never runs again, though `engine.rs:686-687` says it is "now no longer stepping aside".
- **A change started while holding empties** (`executor_empty`). The gate is asked at the press.
- **A failure recorded after the claim is released** (`pane_view_two_servers`,
  `cleanup-worker.ts:241`). A batch that throws gives its claim back and only then marks the job
  failed. Another process takes the job in between and looks at it while it is still active; the
  failure then lets a sync begin, and the second batch deletes originals beside it.
- **Restore during an in-place conversion** (`executor_restore`). The original comes back to the
  path that the conversion's rename then replaces: no copy of it is left.

### What the premises leave out

Some properties hold under a premise, or speak of less than one would wish. What lies outside is what
the code does there:

- `FailedUndoKeepsTheResult` does not say that the root keeps one of the two files, as the comment
  does that an undo asks `restorable` first "or the undo would leave the root with neither"
  (`executor.rs:1624-1626`). `restorable` looks at the row and at the held file, not at the original's
  path, nor does it foresee a refused move: an undo whose restore is refused, or finds a file of another
  program at the original's path, has put the result in holding by then and leaves the root with
  neither. What the property says is that both are then in holding, each with its row. It is checked
  and proved for refusals; another program that writes over the result is outside, and so is a crash
  inside the undo.
- `UnfinishedStepsLeaveFilesAlone` is proved for plans whose targets no row of the catalog names. For
  conversions the planner sees to that (`taken_paths`, `candidates.rs:134`, `:202`). For moves it looks
  at the disk (`planner.rs:470-510`): a rename to a name that only a row still has fails after its
  move, at the relocation of the row, and leaves its file at the target.
- `ResultsStand` needs room: a result that can be retried is dropped when the results there are and
  the runs that end in one section are together more than the queue's limit, `MaxQueue`. Several runs
  can end in one section (a recovery, a deleted profile); the first form of the property counted one,
  and its proof failed there.
- `FinishedStepsCanBeUndone` and `DismissalsCanBeTakenBack` need that no crash is inside an undo: a
  restore's move without its row leaves the step done and its row held, for good; a crash at the
  undo's end leaves a plan applied with no done step and its dismissals (`journal.rs:370`).
- `NoStrandedSource` and `WipeLeavesNothing` leave out what Shutter was told to purge (`told`), since
  Shutter may fetch it again with a URL of the last 24 hours for as long as the object is stored. A
  source whose purge is done has a row that says "purged", and its original stays until
  `soft_deleted_purge`; a fetch in between makes a copy, the purge of the media row then keeps the
  "purged" row (`onConflictDoNothing`, `cleanup-worker.ts:393`), and a later wipe takes `purgedAt IS
  NULL` only: no row asks for that copy's purge any more, although `orphaned-sources.ts:39-44` takes a
  "purged" row to mean purged since the content was last served. Nor is a wipe safe from it: an upload
  signed before the job can land behind the wipe's delete (`cleanup-worker.ts:594`), and a fetch behind
  the purge of that row finds it. What the two properties say is that nothing but such a late fetch
  leaves a copy.
- `LiveFilesAreReachable` needs that two runs were never running at once: one's emptied folders can
  go between the other's look at them and its commit (`store.ts:279`).
- `RecordedIsOnDisk` and `PrunesOnlyWhatIsGone` speak of each run: a prune's delete that its client
  gave up can reach the store after a later push recorded the same path.
- `UndoTakesTheNewest` does not ask for what was once on the history in an entry of which a plan has
  been undone another way: `forget_plans` drops the whole entry, as the comment of `UndoEntry` says.
  Nor for what left the history because it was full (`keep_entry`): when the rest has been taken back,
  Cmd-Z goes by the journal, which has no decisions, and takes an older plan. The bounds of `changes`
  do not reach that; the proof failed there, and TLC showed it with a history of one and five presses.
  Nor for a plan whose job failed after some steps, when Stop is pressed before the error is sorted
  (`job.rs:99`): it counts as cancelled and never comes onto the history.
- The second half of `HandoffOrdered` needs that nobody cancelled: a cancel that overtakes the
  execute message ends the job, the run executes all the same, and the next one is refused as busy.
- `QueueMoves` counts a job being cancelled as waiting: an abort behind the executor's last look at
  its signal (`executor.ts:153`) leaves it so until it is cancelled again. It leaves out what is
  `lost`: a worker that ends between a claim and its execute message leaves the job preparing until
  the browser starts again, and a pause that became a failure does not dispatch when it is reported
  again.

## 5. Proofs

`TidySchedulerProofs` proves five properties of `TidyScheduler` for any sets of work and folders, any
number of items and pauses, from `ConstantsAssumption` alone:

- `TypeCorrect`: `[]TypeOK`, one step per action.
- `MutualExclusion`: `[]OneAtATime`. A thread past `Turn::start` has an entry that says Running, but
  the converse fails while it leaves; `Exclusion` states both directions and that at most one entry
  runs, which `may_run` keeps.
- `ArrivalOrder`: `[]NoOvertaking`. `Order` adds that entries have distinct ids below `next_id` and
  that asked-for work never becomes background. It needs `Exclusion`: a thread that steps aside must
  still have its entry, or it would bring back an old id.
- `WakeupsArrive`: `[]NoLostWakeup`. Every change of the queue wakes all; what leaves the queue alone
  and changes a flag is heard (`FlagHeard`); a thread's own step is excused (`AwakeStep`).
- `FreeTurnIsTaken`: `[](AskedForNeverAside => TurnFindsATaker)`: the defect that `scheduler_promote`
  shows is the only way the queue can strand. `may_run`'s three cases cover every queue with no
  running entry, and the first of a non-empty set exists because ids are numbers (`SomeoneIsFirst`).
- `QueueNeverStuck`: hence `[]TurnFindsATaker` when nobody presses Check now (`CheckNow = {}`, the
  assumption `scheduler_live` makes too). `BackgroundAside`: without a promotion, what is about to
  step aside is background work and stays so.

`PaneViewStoreProofs` is about `PaneViewStore` for any runs, jobs, contents and paths, from
`StoreAssumption`. The inductive invariant is `Types /\ JobsAndRunsExclude /\ Kept`; `Kept` says of a
recording between its reads and its commit that its run is still running and its object there
(`WriteOK`), of the library that what is live has its original (`LiveWhole`) and that Shutter's copies
are named or were to be purged (`CopiesNamed`), and of a batch that its job is active and its rows were not linked
(`BatchOK`, `JobOK`).

- `StoreTypes` (`[]StoreTypeOK`) and `Exclusion` (`[]JobsAndRunsExclude`) hold for any number of server
  processes: the advisory lock and the statuses are enough.
- `OriginalsStay`, `DeletesSpareTheLiving`, `DeletesBlock`, `CopiesCanBeNamed` and `WipeIsWhole` have
  the premise `OneProcess`, which is how Pane View is deployed and what `pane_view_two_servers` shows
  to be needed: with two, a batch can outlive its job. `DeletesSpareTheLiving` states
  `NothingLiveIsDeleted`, which no run checks. For `CopiesCanBeNamed` and `WipeIsWhole` Shutter may
  fetch at any moment whatever was served once and is stored; the history variable `told` marks what
  it fetched again.
- `FilesAreReachable` (`[]LiveFilesAreReachable`) holds for any number of processes again. Its own
  invariant, `FoldersKept`, says besides of a write whose transaction is open that each folder above
  its file is live or is one that its commit restores: the run's end waits for the write before it
  takes the folders that are empty, and no job and no folder's deletion runs beside a run. It uses the
  clause of `StoreAssumption` that what is above a folder is also above what is in it. "Unless two
  runs were running at once" is in the property itself, as the history variable `overlapped`.

`SyncRunProofs` is about `SyncSpec`, the store with its clients, for any paths, contents and
processes, from `StoreAssumption` and `SyncAssumption`. The invariant is `SyncTypes /\ SyncKept`, whose
conjuncts are what a client knows of its run (`ClientOK`), what each item has read and sent (`ItemOK`),
that a recording under way belongs to a running run (`OpenWritesRun`) and that a run's listing names
what the drive held since it began (`FilesAreOld`).

- `ClientAndStoreAgree` (`[]StatusAgreed`) and `CompletedIsComplete` (`[]CompletedMeansRecorded`): what
  the client reports of a run is what the store says, though either may cancel and answers get lost.
- `SyncTypesAlways` (`[]SyncTypeOK`): the types, and the bounds on what is under way at once, which
  count sets (`SyncBounded`).
- `NothingLandsLate` (`ReportedIsOver`), `PushRecordsTheFile` (`RecordedIsOnDisk`) and
  `PruneSparesWhatIsThere` (`PrunesOnlyWhatIsGone`): action properties from the same invariant.

`TidyExecutorProofs` is about `TidyExecutor` for any plan, lanes, budget and number of crashes, from
`ExecutorAssumption`. Its invariant has two halves. `Control` is about the run: each step's place in
it, the outcome it is about to record, and what the plan's status says of the recorded ones
(`ControlTypes`, `RunControl`, `PlanTruth`). `InCustody` is about the files: what is on disk, in
holding and in the Trash (`FilesOK`), which steps and hands they belong to (`OwnTypes`, `HandTypes`,
`PageOK`), and what each step can rely on where it stands (`StepOK`: a hold past its row's insert has
its file in holding, a step that is done or undone has it where it says). Moves of files are few, so
one lemma about each kind (`Takes`, `PutsBack`, `Shifts`, `Replaces`, `Overwrites`, `Writes`,
`Trashes`) says that it loses nothing, is a step of `TidyCustody`, and disturbs no other step's files
(`Spares`); each action is then one of these or leaves the files alone.

- `HistoryIsTrue` (`[]PlanSaysWhatHappened`) needs no premise; `DismissalsStay`
  (`[]DismissalsCanBeTakenBack`) needs a plan with a step and no crash inside an undo, since recovery
  leaves such a plan as it was.
- `NoFileIsLost` (`[]OriginalsKept`), `ExecutorKeepsCustody` (`KeepsCustody`, the refinement of
  `TidyCustody`), `UndoneIsBack` (`[]UndoneIsPutBack`) and `TypeCorrect` (`[]TypeOK`) have the premise
  `Planned`: no two steps use a place, no step's target holds a file, and a conversion's result is a
  file of its own. The planner drafts moves and conversions with a new extension so (`unique_ids`,
  `planner.rs:174`; `taken_paths`, `candidates.rs:134`). It leaves out conversions that replace the
  original in place; `executor_restore` shows that it must, since the Holding page can then put an
  original back over the result. `executor_duplicates` also has two moves to one place, which it checks
  and the theorems do not cover.

`TidyLanesProofs` goes on from there with what a step may count on while others run. `Order` (a step
that is no still conversion starts once every still and every earlier step has finished, and so runs
by itself) and `WithinLanes` (at most `Lanes` steps are in flight) are inductive on top of `Control`.

- `NothingStrayIsLeft` (`[]NoStraysLeft`, premise `Planned`): a temp file is of a conversion in flight,
  or of one that a crash cut short and recovery clears (`TempsAccounted`); a file in holding without a
  row is in the hands of a step about to write it, or was let go by a crash, which lets go of one for
  each step in flight (`CrashAbandonsFew`).
- `ACopyIsKept` (`[]ACopyStays`, premises `Planned` and `KeepersAgree`): what a hold found when it
  looked at its keepers is still there when it moves its file, because it runs by itself (`Ready`).
  `KeepersAgree` says that a step which takes a file of a set of duplicates is a hold that looks at
  another file of that set. The planner drafts no step at all for a file that some set keeps
  (`draft_resolution`, `planner.rs:291`); the premise also admits two steps that go in favour of each
  other, as `executor_duplicates` has them.

`TidyUndoProofs` says what a change leaves in the root, for any plan, lanes, refusals and stops. All
three of its theorems assume `Planned` and `MadeIsApart`: what an encoder makes is something, and none
of the files that other programs bring. `MadeOnly` then says where a conversion's result can be: at the
step's target, in the temp file beside it, or, once the step was done, in holding from that target.

- `UnfinishedLeaveFilesAlone` (`[]UnfinishedStepsLeaveFilesAlone`): beside the Holding page, other
  programs and undos, a step that was not done leaves its file as it found it. `LeavesAlone` is its
  inductive form: a step may have its file in hand, or its result in place, only while it is between
  taking it and recording the outcome. The premise `TargetsHaveNoRow` says that no row of the catalog
  names a target when the plan is drafted, which keeps `RowsKnown`: a move's row can be pointed at
  its target.
- `FinishedCanBeUndone` (`[]FinishedStepsCanBeUndone`) and `FailedUndoKeepsResult`
  (`[]FailedUndoKeepsTheResult`), with the premise `Undisturbed`: no other program writes, nobody
  presses anything on the Holding page, and no crash is inside an undo; crashes elsewhere, refusals,
  stops and undos that fail may come in any number. `UndoKept` follows each step through its run
  (`ApplyOK`: what it has done so far), at rest (`CanUndo`: what its undo needs is where the undo
  looks, and a result that has left its target is in holding with its row, `ResultKept`) and through
  its undo (`UndoOK`), which holds the result before it asks for the original.

`GatherQueueProofs` is about `GatherQueue` for any pages, profiles, asks and limits, and any number of
cancels, deleted profiles, failed calls and ends of the worker, the document and the browser, from
`QueueAssumption`. The invariant `GatherInv` has the types (`QueueTypes`, `WorkTypes`, `CountTypes`)
and five parts, all about who may still speak of a run:

- `Known` and `Fresh`: a number is used for one run only, and what waits to enter the queue is new;
- `HeadOnly`: a job behind the first one neither executes nor is anything of it executing, sent or
  reported (`Token`), so that the first job alone can come to hold the queue;
- `RetryOK`: a retry is of a result that is over, for the page of that result;
- `AnnounceOK`: the announcement whose answer the document waits for is one, and of what executes.

Every action is shown to be a `Step`: what happens to the queue, the tasks and what is in use, in a
form that says nothing of the action itself (`QueueStep`, `TaskStep`, `TokenStep`), from which the
invariant and the action properties follow.

- `GatherTypesAlways` (`[]GatherTypeOK`): no run is twice in the queue or the results, or in both, and
  neither grows over its limit, whatever is reported again.
- `CancelSticksAlways` (`CancelSticks`) and `ResultsStandAlways` (`ResultsStand`), action properties.
- `HandoffInOrder` (`[]HandoffOrdered`): one job holds the queue, from `HeadOnly`; and while nobody
  cancelled, no profile went and nothing was claimed before the browser's recovery (`Calm`), no run is
  sent to a document that executes another. That half needs a second invariant, `InOrder`, which follows
  each run to the document and back: what executes holds the queue (`SlotOK`); what is sent holds the
  queue, is sent once, and nothing was heard of it (`SentOK`); while the job is in the queue there is
  one report of it at most (`ReportOK`), one voice that it is heard by, which says that it no longer
  executes unless it is the announcement of what does (`HeardOK`), and one collection (`CollectOK`).
  `Framed` says what has to stay for a run to be left as it was; each action then has to be looked at
  for the one run it is about.

The queue's operators filter and fold over sequences, and what they compute for every input is proved
here by induction, although the library's induction theorems cannot be used: `Least` (a set of numbers
has a least element, from the well-foundedness of `<`) and `FromZero` speak of sets instead of
operators. `KeptIs` and `KeptFacts` unfold the recursive function of `Kept` with them: what is left is
in order and is what was at the positions kept.

`TidyChangesProofs` is about `TidyChanges` for any number of presses, stops and steps of Tidy up, and
any length of the history, from `ChangesAssumption`.

- `TurnIsAlwaysHeld` (`[]TurnIsHeld`): `TurnInv` says that the turn is free and nothing waits
  (`TurnFree`), or one task has it (`TurnTaken`), and what kinds of things wait and run. The step that
  matters is the release: `HandOver` calls the starts that wait until one of them takes the turn, which
  is a fold over the queue; `HandOverKeeps` shows by the same induction that it leaves either a start
  to run or an empty queue, however many of them run nothing.
- `NewestIsTaken` (`UndoTakesTheNewest`), an action property. An Undo of Cmd-Z has the last entry of
  the history, or the journal's newest plan when the history is empty; that it is the newest of what
  Cmd-Z should know of needs to be known of every state, `NewestInv`. The history is in order
  (`Sorted`), and it covers what Cmd-Z should know of (`Covers`): an entry has it, or has something that
  once shared an entry with it (`kin`) and came no earlier, or the Undo that runs takes such a thing
  back (`gone`). The entry is what an Undo drops of the history when it begins (`TakeUp`), brings back
  when it ends unfinished (`ArrivedCovers`) and no longer owes when it ends (`TakenBack`). Around that:
  what shared an entry is one class (`Classes`); a change's plans have not come onto the history
  before it is reported, and an Undo's are done or undone (`TaskFine`); nothing comes onto the history
  while the journal is read (`Reads`); and each press has numbers left for its plans (`Room`).
  `HandOverFine` carries it through the queue: each Cmd-Z that waited finds the history in order and
  covered, whether it drops a decision, begins an Undo or leaves it to the next.

Only model-checked:

- liveness (`EveryWorkEnds`, `StopWorkOnReturns`, `EveryRunEnds`, `JobsEnd`, `ClientsEnd`,
  `QueueMoves`), which is beyond the prover;
- conversions in place and two moves to one place, which `Planned` leaves out of every proof about
  files.

## 6. Not modelled

- `remove_root`, the engine's caches, and the window's queue together with the Holding page: within
  reach, and next in the plan. The Holding page's gate (`holding_may_be_needed`) is in `TidyExecutor`.
- Tidy's scan and passes: they write rows from what they read of the disk, under the scheduler that is
  modelled; what matters beyond it is in pure rules and file formats. The catalog's schema is followed
  where a UNIQUE index or a cascade decides (`RowBlocked`, `PaneViewStore`'s deletes).
- The planner, duplicates and similarity: long pure rules over image statistics, names and floating
  point, with their own tests and example corpora; they have no states, and a bounded check of them
  would say little about their inputs.
- `RemoveFolder` steps, earlier locations of holding, results shared between identical copies.
- Gather Box's collectors (pages' markup), the panels and the archive's naming.
- Lockstep's CLI and Pane View's web application: presentation over the modelled client and store.
  Lockstep's core is modelled through its port, `core-sync`; the original is not mapped twice.
- View, the shell, media and the bindings (user interface, platform I/O, decoders), Showcase, Shutter's
  client, the shared media packages (pure formats), and everything generated.
