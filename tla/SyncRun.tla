------------------------------- MODULE SyncRun -------------------------------
(***************************************************************************)
(* Oriel's sync engine (core-sync: push.rs, prune.rs, plan.rs, api.rs)     *)
(* against Pane View's store: pushes and prunes that each plan, open a     *)
(* sync run, work through their items a few at a time and finalize, while  *)
(* the owner edits the source folder and cancels, and requests and answers *)
(* are lost.                                                               *)
(*                                                                         *)
(* A client is known by its run.  An item's step is a look at its file or  *)
(* a request; what a client asked for reaches the store when it does, also *)
(* after the client has given it up.                                       *)
(***************************************************************************)
EXTENDS PaneViewStore

CONSTANTS
    Pushes,     \* the runs that push; the others prune
    Width,      \* how many items a client has under way
    Attempts,   \* how often a finalize is tried
    MaxEdits,   \* bounds the changes of the source folder
    MaxLost     \* bounds the answers that are lost or late

ASSUME SyncAssumption ==
    /\ Pushes \subseteq Runs
    /\ {Width, Attempts} \subseteq Nat \ {0}
    /\ {MaxEdits, MaxLost} \subseteq Nat

VARIABLES
    files,    \* the source folder: [content, time] of each path, as last edited
    edits,    \* the edits so far, which is the time
    root,     \* the source folder is there
    client,   \* [at, cancelled, rootGone, status, attempt] of each run
    remote,   \* the snapshot each client planned against
    item,     \* [at, time, sha, before] of each client's path
    wire,     \* item requests sent and not yet arrived
    finals,   \* how many finalize requests of each run have not arrived
    lost,     \* how many answers were lost or late
    landed    \* the <<run, path>> the store has recorded

clientVars == <<client, remote, item, wire, finals, lost, landed>>
folderVars == <<files, edits, root>>
syncVars == <<storeVars, folderVars, clientVars>>

NoFile == [content |-> NoContent, time |-> 0]
NoItem == [at |-> "none", time |-> 0, sha |-> NoContent, before |-> 0]

\* What a look at a path finds: with the folder gone, nothing.
Seen(p) == IF root THEN files[p] ELSE NoFile
Exists(p) == Seen(p) # NoFile

ServedAt(p) == IF entries[p].row = "live" THEN entries[p].media ELSE NoContent

UnderWay == {"prepared", "looked", "uploaded", "absent", "recording"}
InFlight(r) == {p \in Paths : item[r][p].at \in UnderWay}
Of(r, at) == {p \in Paths : item[r][p].at = at}
Ended == {"nothing", "stopped", "gave up", "ended", "unfinalized"}

ClientTo(r, at) == client' = [client EXCEPT ![r].at = at]
ItemTo(r, p, at) == item' = [item EXCEPT ![r][p].at = at]

\* What was seen of the file is not looked at again.
Settle(r, p, at) == item' = [item EXCEPT ![r][p] = [NoItem EXCEPT !.at = at]]

SyncInit ==
    /\ files \in [Paths -> {NoFile} \cup [content : Contents, time : {0}]]
    /\ edits = 0 /\ root = TRUE
    /\ client = [r \in Runs |-> [at |-> "idle", cancelled |-> FALSE, rootGone |-> FALSE,
                                 status |-> "none", attempt |-> 0]]
    /\ remote = [r \in Runs |-> [p \in Paths |-> NoContent]]
    /\ item = [r \in Runs |-> [p \in Paths |-> NoItem]]
    /\ wire = {} /\ landed = {}
    /\ finals = [r \in Runs |-> 0]
    /\ lost = 0

Lose == lost < MaxLost /\ lost' = lost + 1

-----------------------------------------------------------------------------
(* Planning: the snapshot, and then the folder. *)

Cancelled(r) == client[r].cancelled

\* Cancelled before its run is created, without its folder, or without the snapshot.
Stop(r) ==
    /\ client[r].at \in {"idle", "snapshot", "planned"}
    /\ \/ /\ \/ Cancelled(r)
             \/ ~root /\ (client[r].at = "planned" => r \notin Pushes) /\ client[r].at # "idle"
          /\ UNCHANGED lost
       \/ client[r].at = "idle" /\ Lose
    /\ ClientTo(r, "stopped")
    /\ UNCHANGED <<storeVars, folderVars, remote, item, wire, finals, landed>>

FetchSnapshot(r) ==
    /\ client[r].at = "idle" /\ ~Cancelled(r)
    /\ remote' = [remote EXCEPT ![r] = [p \in Paths |-> ServedAt(p)]]
    /\ ClientTo(r, "snapshot")
    /\ UNCHANGED <<storeVars, folderVars, item, wire, finals, lost, landed>>

\* create_sync_plan and the selection of a push's or a prune's items.
Planned(r, p) ==
    IF r \in Pushes THEN files[p] # NoFile /\ remote[r][p] # files[p].content
                    ELSE files[p] = NoFile /\ remote[r][p] # NoContent

PlanSync(r) ==
    /\ client[r].at = "snapshot" /\ ~Cancelled(r) /\ root
    /\ item' = [item EXCEPT ![r] = [p \in Paths |->
                  IF Planned(r, p) THEN [NoItem EXCEPT !.at = "queued", !.time = files[p].time]
                  ELSE NoItem]]
    /\ remote' = [remote EXCEPT ![r] = [p \in Paths |-> NoContent]]
    /\ ClientTo(r, IF \E p \in Paths : Planned(r, p) THEN "planned" ELSE "nothing")
    /\ UNCHANGED <<storeVars, folderVars, wire, finals, lost, landed>>

-----------------------------------------------------------------------------
(* The run is opened.  A cancel does not abort the request; it is waited   *)
(* for a while, and the run it makes is finalized as cancelled.            *)

SendCreate(r) ==
    /\ client[r].at = "planned" /\ ~Cancelled(r)
    /\ r \in Pushes \/ root
    /\ ClientTo(r, "creating")
    /\ UNCHANGED <<storeVars, folderVars, remote, item, wire, finals, lost, landed>>

CreateArrives(r) ==
    /\ client[r].at \in {"creating", "gave up"}
    /\ StartSyncRun(r)
    /\ client' = [client EXCEPT ![r].at = IF @ = "creating" THEN "working" ELSE @]
    /\ UNCHANGED <<folderVars, remote, item, wire, finals, lost, landed>>

\* The grace after a cancel is over, or the answer is lost.
GiveUpCreating(r) ==
    /\ client[r].at = "creating"
    /\ IF Cancelled(r) THEN UNCHANGED lost ELSE Lose
    /\ ClientTo(r, "gave up")
    /\ UNCHANGED <<storeVars, folderVars, remote, item, wire, finals, landed>>

-----------------------------------------------------------------------------
(* The items.  Cancelled, nothing more starts and what is under way is     *)
(* dropped.                                                                *)

Starts(r, p) ==
    /\ client[r].at = "working" /\ item[r][p].at = "queued"
    /\ ~Cancelled(r) /\ ~client[r].rootGone
    /\ Cardinality(InFlight(r)) < Width

Working(r, p, at) == client[r].at = "working" /\ item[r][p].at = at

Fails(r, p) == Settle(r, p, "failed")

\* prepare_blocking: the file is as planned before it is hashed and after.
Prepare(r, p) ==
    /\ r \in Pushes /\ Starts(r, p)
    /\ IF Exists(p) /\ Seen(p).time = item[r][p].time
       THEN item' = [item EXCEPT ![r][p].at = "prepared", ![r][p].sha = Seen(p).content]
       ELSE Fails(r, p)
    /\ UNCHANGED <<storeVars, folderVars, client, remote, wire, finals, lost, landed>>

\* ... and its last stat, which the upload goes by.
LookBefore(r, p) ==
    /\ Working(r, p, "prepared")
    /\ IF Exists(p)
       THEN item' = [item EXCEPT ![r][p].at = "looked", ![r][p].before = Seen(p).time]
       ELSE Fails(r, p)
    /\ UNCHANGED <<storeVars, folderVars, client, remote, wire, finals, lost, landed>>

\* upload_file without the hash of the bytes that went out.
UploadUnhashed(r, p) ==
    /\ Working(r, p, "looked")
    /\ \/ /\ Exists(p) /\ ItemTo(r, p, "uploaded") /\ UNCHANGED lost
          /\ stored' = stored \cup {item[r][p].sha}
       \/ Lose /\ Fails(r, p) /\ UNCHANGED stored
    /\ UNCHANGED <<runs, libraryVars, signed, shutterVars, writes, job, workerVars, faults, overlapped,
                   folderVars, client, remote, wire, finals, landed>>

\* upload_url and upload_file: the bytes that go out hash to what was declared,
\* or the store takes nothing and the item fails.
Upload(r, p) ==
    LET same == Exists(p) /\ Seen(p).content = item[r][p].sha
    IN  /\ Working(r, p, "looked")
        /\ \/ /\ ItemTo(r, p, IF same THEN "uploaded" ELSE "failed")
              /\ UNCHANGED lost
           \/ Lose /\ Fails(r, p)
        /\ stored' = IF same THEN stored \cup {item[r][p].sha} ELSE stored
        /\ UNCHANGED <<runs, libraryVars, signed, shutterVars, writes, job, workerVars, faults,
                       overlapped, folderVars, client, remote, wire, finals, landed>>

Request(r, p, content) == wire' = wire \cup {[run |-> r, path |-> p, content |-> content]}

\* Without the look after the upload.
RecordUploadUnread(r, p) ==
    /\ Working(r, p, "uploaded")
    /\ Settle(r, p, "recording") /\ Request(r, p, item[r][p].sha)
    /\ UNCHANGED <<storeVars, folderVars, client, remote, finals, lost, landed>>

\* The file is as it was before the upload, and is asked to be recorded.
RecordUpload(r, p) ==
    /\ Working(r, p, "uploaded")
    /\ IF Exists(p) /\ Seen(p).time = item[r][p].before
       THEN Settle(r, p, "recording") /\ Request(r, p, item[r][p].sha)
       ELSE Fails(r, p) /\ UNCHANGED wire
    /\ UNCHANGED <<storeVars, folderVars, client, remote, finals, lost, landed>>

\* is_absent_locally.
LookAbsent(r, p) ==
    /\ r \notin Pushes /\ Starts(r, p)
    /\ IF Exists(p) THEN Settle(r, p, "skipped")
       ELSE item' = [item EXCEPT ![r][p].at = "absent", ![r][p].before = edits]
    /\ UNCHANGED <<storeVars, folderVars, client, remote, wire, finals, lost, landed>>

\* Without root_identity.
SendDeleteUnrooted(r, p) ==
    /\ Working(r, p, "absent")
    /\ Settle(r, p, "recording") /\ Request(r, p, NoContent)
    /\ UNCHANGED <<storeVars, folderVars, client, remote, finals, lost, landed>>

\* root_identity, and the request; a folder that is gone ends the prune.
SendDelete(r, p) ==
    /\ Working(r, p, "absent")
    /\ IF root THEN Settle(r, p, "recording") /\ Request(r, p, NoContent) /\ UNCHANGED client
       ELSE /\ Settle(r, p, "stopped")
            /\ client' = [client EXCEPT ![r].rootGone = TRUE]
            /\ UNCHANGED wire
    /\ UNCHANGED <<storeVars, folderVars, remote, finals, lost, landed>>

\* The answer does not come in time; the request may yet arrive.
LoseAnswer(r, p) ==
    /\ Working(r, p, "recording") /\ Lose
    /\ Fails(r, p)
    /\ UNCHANGED <<storeVars, folderVars, client, remote, wire, finals, landed>>

\* until_cancelled drops an item under way.
DropItem(r, p) ==
    /\ client[r].at = "working" /\ Cancelled(r) /\ p \in InFlight(r)
    /\ Settle(r, p, "not run")
    /\ UNCHANGED <<storeVars, folderVars, client, remote, wire, finals, lost, landed>>

-----------------------------------------------------------------------------
(* The end of a run. *)

\* Without the items that failed.
OutcomeOfTheRest(r) == CASE Cancelled(r) -> "cancelled"
                         [] client[r].rootGone -> "failed"
                         [] OTHER -> "completed"

\* How the run ended, decided once; the finalize is never cancelled.
Outcome(r) == CASE Cancelled(r) -> "cancelled"
                [] client[r].rootGone \/ Of(r, "failed") # {} -> "failed"
                [] OTHER -> "completed"

Finalize(r) ==
    /\ client' = [client EXCEPT ![r].at = "finalizing", ![r].status = Outcome(r),
                                ![r].attempt = 1]
    /\ finals' = [finals EXCEPT ![r] = @ + 1]
    /\ UNCHANGED <<storeVars, folderVars, remote, item, wire, lost, landed>>

\* Without the cancel that leaves items in the queue.
QueueDrains(r) ==
    /\ client[r].at = "working" /\ InFlight(r) = {}
    /\ Of(r, "queued") = {} \/ client[r].rootGone
    /\ Finalize(r)

QueueEnds(r) ==
    /\ client[r].at = "working" /\ InFlight(r) = {}
    /\ Of(r, "queued") = {} \/ Cancelled(r) \/ client[r].rootGone
    /\ Finalize(r)

\* One more than it has delays for.
TryOnceMore(r, underWay) ==
    IF client[r].attempt <= Attempts
    THEN /\ client' = [client EXCEPT ![r].attempt = @ + 1]
         /\ finals' = [finals EXCEPT ![r] = underWay + 1]
    ELSE ClientTo(r, "unfinalized") /\ finals' = [finals EXCEPT ![r] = underWay]

\* Another try, and after the last one fail_unfinalized_run.
TryAgain(r, underWay) ==
    IF client[r].attempt < Attempts
    THEN /\ client' = [client EXCEPT ![r].attempt = @ + 1]
         /\ finals' = [finals EXCEPT ![r] = underWay + 1]
    ELSE ClientTo(r, "unfinalized") /\ finals' = [finals EXCEPT ![r] = underWay]

\* The store's handling of a finalize.  The client hears of the one it waits
\* for, not of those it has given up on; or the answer is lost.
FinalizeArrives(r) ==
    LET left   == finals[r] - 1
        waits  == client[r].at = "finalizing" /\ left = 0
        answer == FinalizeAnswer(r, client[r].status)
    IN  /\ finals[r] > 0
        /\ IF runs[r] = "running" THEN FinalizeSyncRun(r, client[r].status) ELSE UNCHANGED storeVars
        /\ \/ /\ waits /\ answer = "ok" /\ ClientTo(r, "ended")
              /\ finals' = [finals EXCEPT ![r] = left] /\ UNCHANGED lost
           \/ waits /\ answer = "conflict" /\ TryAgain(r, left) /\ UNCHANGED lost
           \/ waits /\ Lose /\ TryAgain(r, left)
           \/ /\ ~waits /\ finals' = [finals EXCEPT ![r] = left] /\ UNCHANGED <<client, lost>>
        /\ UNCHANGED <<folderVars, remote, item, wire, landed>>

\* No answer in time; the request may yet arrive.
RetryFinalize(r) ==
    /\ client[r].at = "finalizing" /\ Lose
    /\ TryAgain(r, finals[r])
    /\ UNCHANGED <<storeVars, folderVars, remote, item, wire, landed>>

-----------------------------------------------------------------------------
(* The network and the store's handling of a request. *)

\* What the client makes of the store's answer, if it still waits for it.
Answer(x, how) ==
    IF item[x.run][x.path].at = "recording"
    THEN Settle(x.run, x.path, IF how = "ok" THEN "done" ELSE "failed")
    ELSE UNCHANGED item

RequestArrives(q) ==
    /\ q \in wire /\ wire' = wire \ {q}
    /\ AdmitWrite(q)
    /\ UNCHANGED <<folderVars, client, remote, item, finals, lost, landed>>

Lands(x) == Answer(x, "ok") /\ landed' = landed \cup {<<x.run, x.path>>}

Refused(x) == Answer(x, "refused") /\ UNCHANGED landed

\* completeSyncedObject and markRemoteDeleted, and what they answer.
Handle(x) ==
    /\ \/ AttestUpload(x) /\ IF x.content \in stored THEN UNCHANGED <<item, landed>> ELSE Refused(x)
       \/ OpenWrite(x) /\ IF runs[x.run] = "running" THEN UNCHANGED <<item, landed>> ELSE Refused(x)
       \/ CommitWrite(x) /\ Lands(x)
       \/ MarkRemoteDeleted(x) /\ IF runs[x.run] = "running" THEN Lands(x) ELSE Refused(x)
    /\ UNCHANGED <<folderVars, client, remote, wire, finals, lost>>

-----------------------------------------------------------------------------
(* The owner. *)

Cancel(r) ==
    /\ client[r].at \notin Ended /\ ~Cancelled(r)
    /\ client' = [client EXCEPT ![r].cancelled = TRUE]
    /\ UNCHANGED <<storeVars, folderVars, remote, item, wire, finals, lost, landed>>

ForceCancel(r) ==
    /\ ForceCancelSyncRun(r)
    /\ UNCHANGED <<folderVars, clientVars>>

EditFile(p) ==
    /\ root /\ edits < MaxEdits
    /\ edits' = edits + 1
    /\ \E new \in {NoFile} \cup [content : Contents, time : {edits + 1}] :
          new.content # files[p].content /\ files' = [files EXCEPT ![p] = new]
    /\ UNCHANGED <<root, storeVars, clientVars>>

\* The drive is unplugged, and stays so while a check of it goes on.
RootGoes ==
    /\ root /\ root' = FALSE
    /\ UNCHANGED <<files, edits, storeVars, clientVars>>

-----------------------------------------------------------------------------

ItemStep(r, p) ==
    \/ Prepare(r, p) \/ LookBefore(r, p) \/ Upload(r, p) \/ RecordUpload(r, p)
    \/ LookAbsent(r, p) \/ SendDelete(r, p) \/ DropItem(r, p)

ClientStep(r) ==
    \/ Stop(r) \/ FetchSnapshot(r) \/ PlanSync(r) \/ SendCreate(r)
    \/ QueueEnds(r)
    \/ \E p \in Paths : ItemStep(r, p)

StoreStep(r) ==
    \/ CreateArrives(r) \/ FinalizeArrives(r)
    \/ \E q \in wire : q.run = r /\ RequestArrives(q)
    \/ \E x \in writes : x.run = r /\ Handle(x)

OutsideStep ==
    \/ RootGoes
    \/ \E p \in Paths : EditFile(p)
    \/ \E r \in Runs :
        \/ GiveUpCreating(r) \/ RetryFinalize(r) \/ Cancel(r) \/ ForceCancel(r)
        \/ \E p \in Paths : LoseAnswer(r, p)

SyncNext == OutsideStep \/ \E r \in Runs : ClientStep(r) \/ StoreStep(r)

SyncSpec == SyncInit /\ StoreInit /\ [][SyncNext]_syncVars

\* The client and the server run on; nothing makes an owner act or a request get lost.
SyncFairness == \A r \in Runs : WF_syncVars(ClientStep(r)) /\ WF_syncVars(StoreStep(r))

FairSyncSpec == SyncSpec /\ SyncFairness

-----------------------------------------------------------------------------
(* What the engine promises. *)

SyncTypeOK ==
    /\ DOMAIN files = Paths /\ edits \in 0 .. MaxEdits /\ root \in BOOLEAN
    /\ \A r \in Runs : /\ client[r].status \in {"none"} \cup Terminal
                       /\ client[r].attempt \in 0 .. Attempts
                       /\ Cardinality(InFlight(r)) <= Width
    /\ wire \subseteq Requests /\ landed \subseteq Runs \X Paths
    /\ finals \in [Runs -> 0 .. Attempts] /\ lost \in 0 .. MaxLost

\* A push asks for a file to be recorded only with the hash the file has then,
\* however it was edited while it was hashed and uploaded (push_media_item).
RecordedIsOnDisk ==
    [][\A r \in Pushes, p \in Paths :
        (item[r][p].at # "recording" /\ item'[r][p].at = "recording")
        => files[p].content = item[r][p].sha]_syncVars

\* A prune asks for a deletion only of a path that had no file since the prune
\* took it up; that the drive is gone does not count (prune_item).
PrunesOnlyWhatIsGone ==
    [][\A r \in Runs \ Pushes, p \in Paths :
        (item[r][p].at # "recording" /\ item'[r][p].at = "recording")
        => files[p] = NoFile \/ files[p].time > item[r][p].before]_syncVars

\* A run that the client has reported as ended is over in the store: no write of
\* it lands any more, however late its requests are.
ReportedIsOver ==
    [][\A r \in Runs : client[r].at = "ended" =>
        \A p \in Paths : <<r, p>> \in landed' => <<r, p>> \in landed]_syncVars

\* "The server and the caller must agree on how the run ended" (push.rs:271).
StatusAgreed == \A r \in Runs : client[r].at = "ended" => runs[r] = client[r].status

\* A run that ends as completed has recorded every item of its plan, but for the
\* deletes whose file was back.
CompletedMeansRecorded ==
    \A r \in Runs : (client[r].at = "ended" /\ client[r].status = "completed") =>
        \A p \in Paths : item[r][p].at \notin {"none", "skipped"} => <<r, p>> \in landed

\* A push or prune that has begun comes to an end.
ClientsEnd == <>[](\A r \in Runs : client[r].at \in {"idle"} \cup Ended)
=============================================================================
