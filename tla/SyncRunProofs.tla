--------------------------- MODULE SyncRunProofs ---------------------------
(***************************************************************************)
(* What Oriel's sync engine keeps for any folder, any number of clients,   *)
(* requests under way and attempts, and however often files are edited and *)
(* answers lost: the safety properties that TLC checks on small instances. *)
(***************************************************************************)
EXTENDS SyncRun, FiniteSetTheorems, TLAPS

-----------------------------------------------------------------------------
(* Types of what the proofs speak of. *)

ClientStages == {"idle", "snapshot", "planned", "creating", "working", "finalizing"} \cup Ended

ItemStages == UnderWay \cup {"none", "queued", "failed", "skipped", "stopped", "not run", "done"}

ClientTypes == [at : ClientStages, cancelled : BOOLEAN, rootGone : BOOLEAN,
                status : {"none"} \cup Terminal, attempt : Nat]

ItemTypes == [at : ItemStages, time : Nat, sha : Contents \cup {NoContent}, before : Nat]

WriteTypes == [run : Runs, path : Paths, content : Contents \cup {NoContent},
               at : {"admitted", "attested", "open"}, restore : SUBSET Folders]

SyncTypes ==
    /\ runs \in [Runs -> RunStates]
    /\ writes \in SUBSET WriteTypes
    /\ wire \in SUBSET Requests
    /\ client \in [Runs -> ClientTypes]
    /\ item \in [Runs -> [Paths -> ItemTypes]]
    /\ files \in [Paths -> [content : Contents \cup {NoContent}, time : Nat]]
    /\ edits \in Nat /\ root \in BOOLEAN
    /\ finals \in [Runs -> Nat]

\* What a step of an item changes.
LEMMA ItemMoves ==
  ASSUME SyncTypes, NEW r \in Runs, NEW p \in Paths, NEW i \in ItemTypes,
         item' = [item EXCEPT ![r][p] = i]
  PROVE  /\ item' \in [Runs -> [Paths -> ItemTypes]]
         /\ item'[r][p] = i
         /\ \A q \in Runs, o \in Paths : q # r \/ o # p => item'[q][o] = item[q][o]
BY DEF SyncTypes

LEMMA SettleMoves ==
  ASSUME SyncTypes, NEW r \in Runs, NEW p \in Paths, NEW at \in ItemStages, Settle(r, p, at)
  PROVE  /\ item' \in [Runs -> [Paths -> ItemTypes]]
         /\ item'[r][p].at = at
         /\ \A q \in Runs, o \in Paths : q # r \/ o # p => item'[q][o] = item[q][o]
<1>1. [NoItem EXCEPT !.at = at] \in ItemTypes
  BY DEF NoItem, ItemTypes
<1>2. [NoItem EXCEPT !.at = at].at = at
  BY DEF NoItem
<1>3. QED
  BY <1>1, <1>2, ItemMoves, ZenonT(60) DEF Settle

\* What a step of a client changes.
LEMMA ClientMoves ==
  ASSUME SyncTypes, NEW r \in Runs, NEW at \in ClientStages, ClientTo(r, at)
  PROVE  /\ client' \in [Runs -> ClientTypes]
         /\ client'[r] = [client[r] EXCEPT !.at = at]
         /\ \A q \in Runs \ {r} : client'[q] = client[q]
BY DEF ClientTo, SyncTypes, ClientTypes

\* Another attempt, or the last one given up.
LEMMA TryAgainMoves ==
  ASSUME SyncTypes, NEW r \in Runs, NEW underWay, TryAgain(r, underWay)
  PROVE  /\ client' \in [Runs -> ClientTypes]
         /\ client'[r].at \in {client[r].at, "unfinalized"}
         /\ client'[r].status = client[r].status
         /\ client'[r].cancelled = client[r].cancelled
         /\ client'[r].rootGone = client[r].rootGone
         /\ \A q \in Runs \ {r} : client'[q] = client[q]
<1>1. CASE ClientTo(r, "unfinalized")
  <2>1. "unfinalized" \in ClientStages
    BY DEF ClientStages, Ended
  <2>2. /\ client' \in [Runs -> ClientTypes]
        /\ client'[r] = [client[r] EXCEPT !.at = "unfinalized"]
        /\ \A q \in Runs \ {r} : client'[q] = client[q]
    BY <1>1, <2>1, ClientMoves
  <2>3. client[r] \in ClientTypes
    BY DEF SyncTypes
  <2>4. QED
    BY <2>2, <2>3 DEF ClientTypes
<1>2. CASE client' = [client EXCEPT ![r].attempt = @ + 1]
  <2>1. client[r] \in ClientTypes
    BY DEF SyncTypes
  <2>2. [client[r] EXCEPT !.attempt = @ + 1] \in ClientTypes
    BY <2>1 DEF ClientTypes
  <2>3. client' = [client EXCEPT ![r] = [client[r] EXCEPT !.attempt = @ + 1]]
    BY <1>2
  <2>4. /\ client' \in [Runs -> ClientTypes]
        /\ client'[r] = [client[r] EXCEPT !.attempt = @ + 1]
        /\ \A q \in Runs \ {r} : client'[q] = client[q]
    BY <2>2, <2>3 DEF SyncTypes
  <2>5. QED
    BY <2>1, <2>4 DEF ClientTypes
<1>3. QED
  BY <1>1, <1>2 DEF TryAgain

LEMMA SyncTypesInit == SyncInit /\ StoreInit => SyncTypes
BY DEF SyncInit, StoreInit, SyncTypes, RunStates, ClientTypes, ClientStages, ItemTypes, ItemStages,
       NoItem, NoFile

\* A run's end is a terminal status, and a client's outcome is one.
LEMMA OutcomeIsTerminal == \A r : Outcome(r) \in Terminal
BY DEF Outcome, Terminal

\* The client's part of a step keeps the types.
LEMMA SyncTypesClient ==
  ASSUME SyncTypes, NEW r \in Runs, ClientStep(r)
  PROVE  SyncTypes'
<1> USE DEF storeVars, libraryVars, shutterVars, folderVars
<1>0. /\ "stopped" \in ClientStages /\ "snapshot" \in ClientStages /\ "planned" \in ClientStages
      /\ "nothing" \in ClientStages /\ "creating" \in ClientStages
      /\ "finalizing" \in ClientStages
  BY DEF ClientStages, Ended
<1>1. CASE Stop(r) \/ FetchSnapshot(r) \/ SendCreate(r)
  <2>1. client' \in [Runs -> ClientTypes]
    BY <1>0, <1>1, ClientMoves DEF Stop, FetchSnapshot, SendCreate
  <2>2. QED
    BY <1>1, <2>1 DEF Stop, FetchSnapshot, SendCreate, SyncTypes
<1>2. CASE PlanSync(r)
  <2>1. client' \in [Runs -> ClientTypes]
    BY <1>0, <1>2, ClientMoves DEF PlanSync
  <2>2. \A p \in Paths : /\ [NoItem EXCEPT !.at = "queued", !.time = files[p].time] \in ItemTypes
                         /\ NoItem \in ItemTypes
    BY DEF NoItem, ItemTypes, ItemStages, SyncTypes
  <2>3. item' \in [Runs -> [Paths -> ItemTypes]]
    BY <1>2, <2>2 DEF PlanSync, SyncTypes
  <2>4. QED
    BY <1>2, <2>1, <2>3 DEF PlanSync, SyncTypes
<1>3. CASE QueueEnds(r)
  <2>1. client[r] \in ClientTypes
    BY DEF SyncTypes
  <2>2. [client[r] EXCEPT !.at = "finalizing", !.status = Outcome(r), !.attempt = 1] \in ClientTypes
    BY <1>0, <2>1, OutcomeIsTerminal DEF ClientTypes
  <2>3. client' = [client EXCEPT ![r] =
            [client[r] EXCEPT !.at = "finalizing", !.status = Outcome(r), !.attempt = 1]]
    BY <1>3 DEF QueueEnds, Finalize
  <2>4. client' \in [Runs -> ClientTypes]
    BY <2>2, <2>3 DEF SyncTypes
  <2>5. QED
    BY <1>3, <2>4 DEF QueueEnds, Finalize, SyncTypes
<1>4. ASSUME NEW p \in Paths, ItemStep(r, p) PROVE SyncTypes'
  <2>0. /\ "failed" \in ItemStages /\ "recording" \in ItemStages /\ "skipped" \in ItemStages
        /\ "stopped" \in ItemStages /\ "not run" \in ItemStages
    BY DEF ItemStages, UnderWay
  <2>1. item[r][p] \in ItemTypes /\ files[p].content \in Contents \cup {NoContent}
        /\ files[p].time \in Nat /\ Seen(p).content \in Contents \cup {NoContent}
        /\ Seen(p).time \in Nat
    BY DEF SyncTypes, Seen, NoFile
  <2>2. item' \in [Runs -> [Paths -> ItemTypes]]
    <3>1. CASE \E at \in ItemStages : Settle(r, p, at)
      BY <3>1, SettleMoves
    <3>2. CASE \E i \in ItemTypes : item' = [item EXCEPT ![r][p] = i]
      BY <3>2, ItemMoves
    <3>3. ASSUME Prepare(r, p) PROVE item' \in [Runs -> [Paths -> ItemTypes]]
      <4>1. [item[r][p] EXCEPT !.at = "prepared", !.sha = Seen(p).content] \in ItemTypes
        BY <2>1 DEF ItemTypes, ItemStages, UnderWay
      <4>2. \/ item' = [item EXCEPT ![r][p] =
                          [item[r][p] EXCEPT !.at = "prepared", !.sha = Seen(p).content]]
            \/ Settle(r, p, "failed")
        BY <3>3, ZenonT(60) DEF Prepare, Fails
      <4>3. QED
        BY <2>0, <3>1, <3>2, <4>1, <4>2
    <3>4. ASSUME LookBefore(r, p) PROVE item' \in [Runs -> [Paths -> ItemTypes]]
      <4>1. [item[r][p] EXCEPT !.at = "looked", !.before = Seen(p).time] \in ItemTypes
        BY <2>1 DEF ItemTypes, ItemStages, UnderWay
      <4>2. \/ item' = [item EXCEPT ![r][p] =
                          [item[r][p] EXCEPT !.at = "looked", !.before = Seen(p).time]]
            \/ Settle(r, p, "failed")
        BY <3>4, ZenonT(60) DEF LookBefore, Fails
      <4>3. QED
        BY <2>0, <3>1, <3>2, <4>1, <4>2
    <3>5. ASSUME Upload(r, p) PROVE item' \in [Runs -> [Paths -> ItemTypes]]
      <4>1. \A at \in {"uploaded", "failed"} : [item[r][p] EXCEPT !.at = at] \in ItemTypes
        BY <2>1 DEF ItemTypes, ItemStages, UnderWay
      <4>2. \/ \E at \in {"uploaded", "failed"} :
                 item' = [item EXCEPT ![r][p] = [item[r][p] EXCEPT !.at = at]]
            \/ Settle(r, p, "failed")
        BY <3>5 DEF Upload, Fails, ItemTo
      <4>3. QED
        BY <2>0, <3>1, <3>2, <4>1, <4>2
    <3>6. ASSUME LookAbsent(r, p) PROVE item' \in [Runs -> [Paths -> ItemTypes]]
      <4>1. [item[r][p] EXCEPT !.at = "absent", !.before = edits] \in ItemTypes
        BY <2>1 DEF ItemTypes, ItemStages, UnderWay, SyncTypes
      <4>2. \/ item' = [item EXCEPT ![r][p] =
                          [item[r][p] EXCEPT !.at = "absent", !.before = edits]]
            \/ Settle(r, p, "skipped")
        BY <3>6, ZenonT(60) DEF LookAbsent
      <4>3. QED
        BY <2>0, <3>1, <3>2, <4>1, <4>2
    <3>7. ASSUME RecordUpload(r, p) \/ SendDelete(r, p) \/ DropItem(r, p)
          PROVE  \E at \in ItemStages : Settle(r, p, at)
      BY <2>0, <3>7 DEF RecordUpload, SendDelete, DropItem, Fails
    <3>8. QED
      BY <1>4, <3>1, <3>3, <3>4, <3>5, <3>6, <3>7 DEF ItemStep
  <2>3. wire' \in SUBSET Requests
    <3>1. wire' = wire \/ Request(r, p, item[r][p].sha) \/ Request(r, p, NoContent)
      BY <1>4
      DEF ItemStep, Prepare, LookBefore, Upload, RecordUpload, LookAbsent, SendDelete, DropItem
    <3>2. item[r][p].sha \in Contents \cup {NoContent}
      BY <2>1 DEF ItemTypes
    <3>3. QED
      BY <3>1, <3>2 DEF Request, Requests, SyncTypes
  <2>4. client' \in [Runs -> ClientTypes]
    <3>1. CASE client' = client
      BY <3>1 DEF SyncTypes
    <3>2. CASE client' = [client EXCEPT ![r].rootGone = TRUE]
      <4>1. client[r] \in ClientTypes
        BY DEF SyncTypes
      <4>2. [client[r] EXCEPT !.rootGone = TRUE] \in ClientTypes
        BY <4>1 DEF ClientTypes
      <4>3. client' = [client EXCEPT ![r] = [client[r] EXCEPT !.rootGone = TRUE]]
        BY <3>2
      <4>4. QED
        BY <4>2, <4>3 DEF SyncTypes
    <3>3. QED
      BY <1>4, <3>1, <3>2
      DEF ItemStep, Prepare, LookBefore, Upload, RecordUpload, LookAbsent, SendDelete, DropItem
  <2>5. UNCHANGED <<runs, writes, files, edits, root, finals>>
    BY <1>4
    DEF ItemStep, Prepare, LookBefore, Upload, RecordUpload, LookAbsent, SendDelete, DropItem
  <2>6. QED
    BY <2>2, <2>3, <2>4, <2>5 DEF SyncTypes
<1>5. QED
  BY <1>1, <1>2, <1>3, <1>4 DEF ClientStep

\* What ends runs keeps their types, and lets nothing else begin or end.
LEMMA EndRunsMoves ==
  ASSUME SyncTypes, NEW S, NEW status \in Terminal, EndRuns(S, status)
  PROVE  /\ runs' \in [Runs -> RunStates] /\ writes' = writes
         /\ \A r \in Runs : runs'[r] = IF r \in S THEN status ELSE runs[r]
         /\ \A x \in writes : x.at = "open" => x.run \notin S
BY DEF EndRuns, SyncTypes, RunStates, HeldShare

\* The store's part keeps them.
LEMMA SyncTypesStore ==
  ASSUME SyncTypes, NEW r \in Runs, StoreStep(r),
         client[r].at = "finalizing" \/ finals[r] > 0 => client[r].status \in Terminal
  PROVE  SyncTypes'
<1> USE DEF folderVars
<1>1. CASE CreateArrives(r)
  <2>1. client[r] \in ClientTypes
    BY DEF SyncTypes
  <2>2. \A at \in {"working", client[r].at} : [client[r] EXCEPT !.at = at] \in ClientTypes
    BY <2>1 DEF ClientTypes, ClientStages
  <2>3. \E at \in {"working", client[r].at} :
           client' = [client EXCEPT ![r] = [client[r] EXCEPT !.at = at]]
    BY <1>1 DEF CreateArrives
  <2>4. client' \in [Runs -> ClientTypes]
    BY <2>2, <2>3 DEF SyncTypes
  <2>5. runs' \in [Runs -> RunStates]
    BY <1>1 DEF CreateArrives, StartSyncRun, SyncTypes, RunStates
  <2>6. QED
    BY <1>1, <2>4, <2>5 DEF CreateArrives, StartSyncRun, SyncTypes
<1>2. CASE FinalizeArrives(r)
  <2>1. client' \in [Runs -> ClientTypes]
    <3>1. "ended" \in ClientStages
      BY DEF ClientStages, Ended
    <3>2. QED
      BY <1>2, <3>1, ClientMoves, TryAgainMoves DEF FinalizeArrives, SyncTypes
  <2>2. runs' \in [Runs -> RunStates] /\ writes' = writes
    <3>1. CASE runs[r] = "running"
      BY <1>2, <3>1, EndRunsMoves DEF FinalizeArrives, FinalizeSyncRun
    <3>2. CASE runs[r] # "running"
      BY <1>2, <3>2 DEF FinalizeArrives, storeVars, SyncTypes
    <3>3. QED
      BY <3>1, <3>2
  <2>3. finals' \in [Runs -> Nat]
    BY <1>2 DEF FinalizeArrives, TryAgain, SyncTypes
  <2>4. QED
    BY <1>2, <2>1, <2>2, <2>3 DEF FinalizeArrives, SyncTypes
<1>3. ASSUME NEW q \in wire, RequestArrives(q) PROVE SyncTypes'
  BY <1>3 DEF RequestArrives, AdmitWrite, Admitted, Requests, WriteTypes, SyncTypes
<1>4. ASSUME NEW x \in writes, Handle(x) PROVE SyncTypes'
  <2>1. x \in WriteTypes
    BY DEF SyncTypes
  <2>2. x.run \in Runs /\ x.path \in Paths
    BY <2>1 DEF WriteTypes
  <2>3. item' \in [Runs -> [Paths -> ItemTypes]]
    <3>1. "done" \in ItemStages /\ "failed" \in ItemStages
      BY DEF ItemStages
    <3>2. item' = item \/ Settle(x.run, x.path, "done") \/ Settle(x.run, x.path, "failed")
      BY <1>4 DEF Handle, Lands, Refused, Answer
    <3>3. QED
      BY <2>2, <3>1, <3>2, SettleMoves DEF SyncTypes
  <2>4. writes' \in SUBSET WriteTypes
    <3>1. {f \in Above[x.path] : folders[f] # "live"} \in SUBSET Folders
      BY <2>2, StoreAssumption DEF StoreAssumption
    <3>2. /\ [x EXCEPT !.at = "attested"] \in WriteTypes
          /\ [x EXCEPT !.at = "open", !.restore = {f \in Above[x.path] : folders[f] # "live"}]
                \in WriteTypes
      BY <2>1, <3>1 DEF WriteTypes
    <3>3. QED
      BY <1>4, <3>2 DEF Handle, AttestUpload, OpenWrite, CommitWrite, MarkRemoteDeleted, SyncTypes
  <2>5. UNCHANGED <<runs, wire, client, files, edits, root, finals>>
    BY <1>4 DEF Handle, AttestUpload, OpenWrite, CommitWrite, MarkRemoteDeleted
  <2>6. QED
    BY <2>3, <2>4, <2>5 DEF SyncTypes
<1>5. QED
  BY <1>1, <1>2, <1>3, <1>4 DEF StoreStep

\* The owner and the network keep them.
LEMMA SyncTypesOutside ==
  ASSUME SyncTypes, OutsideStep
  PROVE  SyncTypes'
<1> USE DEF folderVars, storeVars, libraryVars, shutterVars, clientVars
<1>1. CASE RootGoes
  BY <1>1 DEF RootGoes, SyncTypes
<1>2. ASSUME NEW p \in Paths, EditFile(p) PROVE SyncTypes'
  <2>1. PICK new \in {NoFile} \cup [content : Contents, time : {edits + 1}] :
          files' = [files EXCEPT ![p] = new]
    BY <1>2 DEF EditFile
  <2>2. new \in [content : Contents \cup {NoContent}, time : Nat]
    BY DEF NoFile, SyncTypes
  <2>3. files' \in [Paths -> [content : Contents \cup {NoContent}, time : Nat]]
    BY <2>1, <2>2 DEF SyncTypes
  <2>4. QED
    BY <1>2, <2>3 DEF EditFile, SyncTypes
<1>3. ASSUME NEW r \in Runs, GiveUpCreating(r) PROVE SyncTypes'
  <2>1. client' \in [Runs -> ClientTypes]
    <3>1. "gave up" \in ClientStages
      BY DEF ClientStages, Ended
    <3>2. QED
      BY <1>3, <3>1, ClientMoves DEF GiveUpCreating
  <2>2. QED
    BY <1>3, <2>1 DEF GiveUpCreating, SyncTypes
<1>4. ASSUME NEW r \in Runs, RetryFinalize(r) PROVE SyncTypes'
  <2>1. client' \in [Runs -> ClientTypes]
    BY <1>4, TryAgainMoves DEF RetryFinalize, SyncTypes
  <2>2. finals' \in [Runs -> Nat]
    BY <1>4 DEF RetryFinalize, TryAgain, SyncTypes
  <2>3. QED
    BY <1>4, <2>1, <2>2 DEF RetryFinalize, SyncTypes
<1>5. ASSUME NEW r \in Runs, Cancel(r) PROVE SyncTypes'
  <2>1. client' \in [Runs -> ClientTypes]
    BY ZenonT(60), <1>5 DEF Cancel, SyncTypes, ClientTypes
  <2>2. QED
    BY <1>5, <2>1 DEF Cancel, SyncTypes
<1>6. ASSUME NEW r \in Runs, ForceCancel(r) PROVE SyncTypes'
  <2>1. "cancelled" \in Terminal
    BY DEF Terminal
  <2>2. runs' \in [Runs -> RunStates] /\ writes' = writes
    BY <1>6, <2>1, EndRunsMoves DEF ForceCancel, ForceCancelSyncRun
  <2>3. QED
    BY <1>6, <2>2 DEF ForceCancel, SyncTypes
<1>7. ASSUME NEW r \in Runs, NEW p \in Paths, LoseAnswer(r, p) PROVE SyncTypes'
  <2>1. item' \in [Runs -> [Paths -> ItemTypes]]
    <3>1. "failed" \in ItemStages
      BY DEF ItemStages
    <3>2. QED
      BY <1>7, <3>1, SettleMoves DEF LoseAnswer, Fails
  <2>2. QED
    BY <1>7, <2>1 DEF LoseAnswer, SyncTypes
<1>8. QED
  BY <1>1, <1>2, <1>3, <1>4, <1>5, <1>6, <1>7 DEF OutsideStep

-----------------------------------------------------------------------------
(* The inductive invariant. *)

\* The run has been ended by its client, or is about to be.
Closed == {"finalizing", "ended", "unfinalized"}

\* A finalize is of a run whose outcome is decided, and what it was is agreed.
ClientOK(r) ==
    /\ finals[r] > 0 => client[r].at \in Closed
    /\ client[r].at \in Closed => client[r].status \in Terminal
    /\ client[r].at = "ended" => runs[r] = client[r].status

\* What an item's last look has seen, and what its end stands for.
ItemOK(r, p) ==
    LET i == item[r][p]
    IN  /\ i.at \in {"looked", "uploaded", "absent"} => i.before \in 0 .. edits
        /\ i.at \in {"prepared", "looked", "uploaded"} => r \in Pushes
        /\ i.at = "absent" => r \notin Pushes
        /\ i.at = "uploaded" /\ files[p] # NoFile /\ files[p].time = i.before =>
              files[p].content = i.sha
        /\ i.at = "absent" /\ root => files[p] = NoFile \/ files[p].time > i.before
        /\ i.at = "not run" => client[r].cancelled
        /\ i.at = "stopped" => client[r].rootGone
        /\ i.at = "done" => <<r, p>> \in landed
        /\ client[r].at \in Closed => i.at \notin UnderWay
        /\ client[r].at \in Closed /\ client[r].status = "completed" =>
              i.at \in {"none", "skipped", "done"}

OpenWritesRun == \A x \in writes : x.at = "open" => runs[x.run] = "running"

FilesAreOld == \A p \in Paths : files[p].time <= edits

SyncKept ==
    /\ \A r \in Runs : ClientOK(r)
    /\ \A r \in Runs, p \in Paths : ItemOK(r, p)
    /\ OpenWritesRun
    /\ FilesAreOld

LEMMA SyncKeptInit == SyncInit /\ StoreInit => SyncKept
<1> SUFFICES ASSUME SyncInit, StoreInit
             PROVE  SyncKept
  OBVIOUS
<1>1. ASSUME NEW r \in Runs PROVE ClientOK(r)
  BY DEF SyncInit, ClientOK, Closed
<1>2. ASSUME NEW r \in Runs, NEW p \in Paths PROVE ItemOK(r, p)
  <2>1. item[r][p].at = "none" /\ client[r].at = "idle"
    BY DEF SyncInit, NoItem
  <2>2. QED
    BY <2>1 DEF ItemOK, Closed, UnderWay
<1>3. OpenWritesRun
  BY DEF StoreInit, OpenWritesRun
<1>4. FilesAreOld
  <2>1. \A p \in Paths : files[p].time = 0
    BY DEF SyncInit, NoFile
  <2>2. QED
    BY <2>1 DEF SyncInit, FilesAreOld
<1>5. QED
  BY <1>1, <1>2, <1>3, <1>4 DEF SyncKept

\* An item's step is looked at for its own item; its run is not over.
LEMMA ItemStepKeeps ==
  ASSUME SyncTypes, SyncTypes', SyncKept, NEW r \in Runs, NEW p \in Paths, ItemStep(r, p)
  PROVE  SyncKept'
<1>0. item[r][p] \in ItemTypes /\ client[r] \in ClientTypes
  BY DEF SyncTypes
<1>1. UNCHANGED <<runs, writes, files, edits, root, finals, landed>>
  BY DEF ItemStep, Prepare, LookBefore, Upload, RecordUpload, LookAbsent, SendDelete, DropItem,
         storeVars, folderVars, clientVars
<1>2. client[r].at = "working"
  BY DEF ItemStep, Prepare, LookBefore, Upload, RecordUpload, LookAbsent, SendDelete, DropItem,
         Starts, Working
<1>3. /\ \A q \in Runs : /\ client'[q].at = client[q].at /\ client'[q].status = client[q].status
                         /\ client'[q].cancelled = client[q].cancelled
                         /\ client[q].rootGone => client'[q].rootGone
  <2>1. client' = client \/ client' = [client EXCEPT ![r].rootGone = TRUE]
    BY DEF ItemStep, Prepare, LookBefore, Upload, RecordUpload, LookAbsent, SendDelete, DropItem
  <2>2. QED
    BY <1>0, <2>1 DEF SyncTypes, ClientTypes
<1>4. /\ \A q \in Runs, o \in Paths : q # r \/ o # p => item'[q][o] = item[q][o]
      /\ ItemOK(r, p)'
  <2>0. /\ "failed" \in ItemStages /\ "recording" \in ItemStages /\ "skipped" \in ItemStages
        /\ "stopped" \in ItemStages /\ "not run" \in ItemStages
    BY DEF ItemStages, UnderWay
  <2>1. ASSUME NEW at \in {"failed", "recording", "skipped", "stopped", "not run"},
               Settle(r, p, at),
               at = "stopped" => client'[r].rootGone, at = "not run" => client[r].cancelled
        PROVE  /\ \A q \in Runs, o \in Paths : q # r \/ o # p => item'[q][o] = item[q][o]
               /\ ItemOK(r, p)'
    <3>1. /\ item'[r][p].at = at
          /\ \A q \in Runs, o \in Paths : q # r \/ o # p => item'[q][o] = item[q][o]
      BY <2>0, <2>1, SettleMoves, ZenonT(60)
    <3>2. QED
      BY <1>2, <1>3, <2>1, <3>1 DEF ItemOK, Closed
  <2>2. ASSUME NEW i \in ItemTypes, item' = [item EXCEPT ![r][p] = i],
               i.at \in {"prepared", "looked", "uploaded", "absent"},
               i.at # "prepared" => i.before \in 0 .. edits,
               i.at = "absent" <=> r \notin Pushes,
               i.at = "uploaded" /\ files[p] # NoFile /\ files[p].time = i.before =>
                  files[p].content = i.sha,
               i.at = "absent" /\ root => files[p] = NoFile \/ files[p].time > i.before
        PROVE  /\ \A q \in Runs, o \in Paths : q # r \/ o # p => item'[q][o] = item[q][o]
               /\ ItemOK(r, p)'
    <3>1. /\ item'[r][p] = i
          /\ \A q \in Runs, o \in Paths : q # r \/ o # p => item'[q][o] = item[q][o]
      <4>1. i \in ItemTypes /\ item' = [item EXCEPT ![r][p] = i]
        BY <2>2
      <4>2. QED
        BY <4>1, ItemMoves, ZenonT(60)
    <3>2. QED
      BY <1>1, <1>2, <1>3, <2>2, <3>1 DEF ItemOK, Closed
  <2>3. ItemOK(r, p) /\ files[p].time \in 0 .. edits /\ edits \in Nat
    BY DEF SyncKept, FilesAreOld, SyncTypes
  <2>4. CASE Prepare(r, p)
    <3>1. CASE Settle(r, p, "failed")
      BY <2>1, <3>1
    <3>2. CASE item' = [item EXCEPT ![r][p] =
                          [item[r][p] EXCEPT !.at = "prepared", !.sha = Seen(p).content]]
      <4>1. Seen(p).content \in Contents \cup {NoContent}
        BY DEF Seen, NoFile, SyncTypes
      <4>2. [item[r][p] EXCEPT !.at = "prepared", !.sha = Seen(p).content] \in ItemTypes
        BY <1>0, <4>1 DEF ItemTypes, ItemStages, UnderWay
      <4>3. QED
        BY <1>0, <2>2, <2>4, <3>2, <4>2 DEF Prepare, ItemTypes
    <3>3. QED
      BY <2>4, <3>1, <3>2, ZenonT(60) DEF Prepare, Fails
  <2>5. CASE LookBefore(r, p)
    <3>1. CASE Settle(r, p, "failed")
      BY <2>1, <3>1
    <3>2. CASE /\ Exists(p)
               /\ item' = [item EXCEPT ![r][p] =
                             [item[r][p] EXCEPT !.at = "looked", !.before = Seen(p).time]]
      <4>1. Seen(p).time \in 0 .. edits /\ r \in Pushes
        BY <2>3, <2>5, <3>2 DEF Seen, Exists, LookBefore, Working, ItemOK
      <4>2. [item[r][p] EXCEPT !.at = "looked", !.before = Seen(p).time] \in ItemTypes
        <5>1. Seen(p).time \in Nat
          BY <2>3, <4>1
        <5>2. QED
          BY <1>0, <5>1 DEF ItemTypes, ItemStages, UnderWay
      <4>3. QED
        BY <1>0, <2>2, <3>2, <4>1, <4>2 DEF ItemTypes
    <3>3. QED
      BY <2>5, <3>1, <3>2, ZenonT(60) DEF LookBefore, Fails
  <2>6. CASE Upload(r, p)
    <3>1. CASE Settle(r, p, "failed")
      BY <2>1, <3>1
    <3>2. CASE /\ Exists(p) /\ Seen(p).content = item[r][p].sha
               /\ item' = [item EXCEPT ![r][p] = [item[r][p] EXCEPT !.at = "uploaded"]]
      <4>1. /\ r \in Pushes /\ item[r][p].before \in 0 .. edits
            /\ files[p].content = item[r][p].sha
        BY <2>3, <2>6, <3>2 DEF Upload, Working, ItemOK, Seen, Exists
      <4>2. [item[r][p] EXCEPT !.at = "uploaded"] \in ItemTypes
        BY <1>0 DEF ItemTypes, ItemStages, UnderWay
      <4>3. QED
        BY <1>0, <2>2, <3>2, <4>1, <4>2 DEF ItemTypes
    <3>3. CASE item' = [item EXCEPT ![r][p] = [item[r][p] EXCEPT !.at = "failed"]]
      <4>1. [item[r][p] EXCEPT !.at = "failed"] \in ItemTypes
        BY <1>0, <2>0 DEF ItemTypes
      <4>2. /\ item'[r][p] = [item[r][p] EXCEPT !.at = "failed"]
            /\ \A q \in Runs, o \in Paths : q # r \/ o # p => item'[q][o] = item[q][o]
        BY <3>3, <4>1, ItemMoves, ZenonT(60)
      <4>4. item'[r][p].at = "failed"
        BY <1>0, <4>2 DEF ItemTypes
      <4>3. QED
        BY <1>2, <1>3, <4>2, <4>4 DEF ItemOK, Closed, UnderWay
    <3>4. QED
      BY <2>6, <3>1, <3>2, <3>3 DEF Upload, Fails, ItemTo
  <2>7. CASE LookAbsent(r, p)
    <3>1. CASE Settle(r, p, "skipped")
      BY <2>1, <3>1
    <3>2. CASE /\ ~Exists(p)
               /\ item' = [item EXCEPT ![r][p] =
                             [item[r][p] EXCEPT !.at = "absent", !.before = edits]]
      <4>1. r \notin Pushes /\ (root => files[p] = NoFile)
        BY <2>7, <3>2 DEF LookAbsent, Exists, Seen
      <4>2. [item[r][p] EXCEPT !.at = "absent", !.before = edits] \in ItemTypes
        BY <1>0, <2>3 DEF ItemTypes, ItemStages, UnderWay
      <4>3. /\ [item[r][p] EXCEPT !.at = "absent", !.before = edits].at = "absent"
            /\ [item[r][p] EXCEPT !.at = "absent", !.before = edits].before = edits
        BY <1>0 DEF ItemTypes
      <4>4. edits \in 0 .. edits
        BY <2>3
      <4>5. QED
        BY <2>2, <3>2, <4>1, <4>2, <4>3, <4>4
    <3>3. QED
      <4>1. \/ Exists(p) /\ Settle(r, p, "skipped")
            \/ /\ ~Exists(p)
               /\ item' = [item EXCEPT ![r][p].at = "absent", ![r][p].before = edits]
        BY <2>7 DEF LookAbsent
      <4>2. item[r] \in [Paths -> ItemTypes]
        BY DEF SyncTypes
      <4>3. QED
        BY <1>0, <3>1, <3>2, <4>1, <4>2 DEF ItemTypes
  <2>8. CASE RecordUpload(r, p) \/ SendDelete(r, p) \/ DropItem(r, p)
    <3>1. CASE RecordUpload(r, p)
      BY <2>1, <3>1 DEF RecordUpload, Fails
    <3>2. CASE SendDelete(r, p)
      <4>1. CASE Settle(r, p, "recording")
        BY <2>1, <4>1
      <4>2. CASE Settle(r, p, "stopped") /\ client' = [client EXCEPT ![r].rootGone = TRUE]
        <5>1. client'[r].rootGone
          BY <1>0, <4>2 DEF SyncTypes, ClientTypes
        <5>2. QED
          BY <2>1, <4>2, <5>1
      <4>3. QED
        BY <3>2, <4>1, <4>2 DEF SendDelete
    <3>3. CASE DropItem(r, p)
      BY <2>1, <3>3 DEF DropItem, Cancelled
    <3>4. QED
      BY <2>8, <3>1, <3>2, <3>3
  <2>9. QED
    BY <2>4, <2>5, <2>6, <2>7, <2>8 DEF ItemStep
<1>5. ASSUME NEW q \in Runs, NEW o \in Paths PROVE ItemOK(q, o)'
  <2>1. CASE q = r /\ o = p
    BY <1>4, <2>1
  <2>2. CASE q # r \/ o # p
    <3>1. item'[q][o] = item[q][o] /\ ItemOK(q, o)
      BY <1>4, <2>2 DEF SyncKept
    <3>2. QED
      BY <1>1, <1>3, <3>1 DEF ItemOK
  <2>3. QED
    BY <2>1, <2>2
<1>6. \A q \in Runs : ClientOK(q)'
  BY <1>1, <1>3 DEF SyncKept, ClientOK
<1>7. QED
  BY <1>1, <1>5, <1>6 DEF SyncKept, OpenWritesRun, FilesAreOld

\* An item that a step leaves alone keeps what it had, unless its client has
\* just decided how the run ended.
LEMMA ItemOKStays ==
  ASSUME NEW r \in Runs, NEW p \in Paths, ItemOK(r, p), item'[r][p] = item[r][p],
         files'[p] = files[p], edits' = edits, root' => root,
         <<r, p>> \in landed => <<r, p>> \in landed',
         client[r].cancelled => client'[r].cancelled,
         client[r].rootGone => client'[r].rootGone,
         client'[r].at \in Closed =>
            client[r].at \in Closed /\ client'[r].status = client[r].status
  PROVE  ItemOK(r, p)'
BY DEF ItemOK

\* A client that goes to another stage before it has opened its run.
LEMMA ClientMoveKeeps ==
  ASSUME SyncTypes, SyncKept, NEW r \in Runs, NEW at \in ClientStages \ Closed,
         client[r].at \notin Closed, ClientTo(r, at),
         UNCHANGED <<runs, writes, files, edits, root, finals, landed>>,
         \A p \in Paths : item'[r][p] # item[r][p] => item'[r][p].at \in {"none", "queued"},
         \A q \in Runs \ {r} : item'[q] = item[q]
  PROVE  SyncKept'
<1>1. /\ client'[r].at = at /\ client'[r].cancelled = client[r].cancelled
      /\ client'[r].rootGone = client[r].rootGone
      /\ \A q \in Runs \ {r} : client'[q] = client[q]
  <2>1. client[r] \in ClientTypes
    BY DEF SyncTypes
  <2>2. /\ client'[r] = [client[r] EXCEPT !.at = at]
        /\ \A q \in Runs \ {r} : client'[q] = client[q]
    BY ClientMoves
  <2>3. QED
    BY <2>1, <2>2 DEF ClientTypes
<1>2. ASSUME NEW q \in Runs PROVE ClientOK(q)'
  BY <1>1 DEF SyncKept, ClientOK, Closed
<1>3. ASSUME NEW q \in Runs, NEW p \in Paths PROVE ItemOK(q, p)'
  <2>1. ItemOK(q, p)
    BY DEF SyncKept
  <2>2. CASE item'[q][p] = item[q][p]
    BY <1>1, <2>1, <2>2, ItemOKStays
  <2>3. CASE item'[q][p] # item[q][p]
    <3>1. q = r /\ item'[r][p].at \in {"none", "queued"}
      BY <2>3
    <3>2. QED
      BY <1>1, <3>1 DEF ItemOK, UnderWay
  <2>4. QED
    BY <2>2, <2>3
<1>4. QED
  BY <1>2, <1>3 DEF SyncKept, OpenWritesRun, FilesAreOld

LEMMA ClientStepKeeps ==
  ASSUME SyncTypes, SyncTypes', SyncKept, NEW r \in Runs, ClientStep(r)
  PROVE  SyncKept'
<1> USE DEF storeVars, libraryVars, shutterVars, folderVars, clientVars
<1>1. CASE Stop(r) \/ FetchSnapshot(r) \/ SendCreate(r)
  <2>1. PICK at \in {"stopped", "snapshot", "creating"} : ClientTo(r, at)
    BY <1>1 DEF Stop, FetchSnapshot, SendCreate
  <2>2. at \in ClientStages \ Closed
    BY <2>1 DEF ClientStages, Closed, Ended
  <2>3. client[r].at \notin Closed
    BY <1>1 DEF Stop, FetchSnapshot, SendCreate, Closed
  <2>4. UNCHANGED <<runs, writes, files, edits, root, finals, landed, item>>
    BY <1>1 DEF Stop, FetchSnapshot, SendCreate
  <2>5. QED
    BY <2>1, <2>2, <2>3, <2>4, ClientMoveKeeps
<1>2. CASE PlanSync(r)
  <2>1. PICK at \in {"planned", "nothing"} : ClientTo(r, at)
    BY <1>2 DEF PlanSync
  <2>2. at \in ClientStages \ Closed
    BY <2>1 DEF ClientStages, Closed, Ended
  <2>3. client[r].at \notin Closed
    BY <1>2 DEF PlanSync, Closed
  <2>4. UNCHANGED <<runs, writes, files, edits, root, finals, landed>>
    BY <1>2 DEF PlanSync
  <2>5. /\ \A p \in Paths : item'[r][p].at \in {"none", "queued"}
        /\ \A q \in Runs \ {r} : item'[q] = item[q]
    <3>1. item' = [item EXCEPT ![r] = [p \in Paths |->
                      IF Planned(r, p)
                      THEN [NoItem EXCEPT !.at = "queued", !.time = files[p].time]
                      ELSE NoItem]]
      BY <1>2 DEF PlanSync
    <3>2. /\ \A p \in Paths :
                [NoItem EXCEPT !.at = "queued", !.time = files[p].time].at = "queued"
          /\ NoItem.at = "none"
      BY DEF NoItem
    <3>3. item \in [Runs -> [Paths -> ItemTypes]]
      BY DEF SyncTypes
    <3>4. QED
      BY <3>1, <3>2, <3>3
  <2>6. QED
    BY <2>1, <2>2, <2>3, <2>4, <2>5, ClientMoveKeeps
<1>3. CASE QueueEnds(r)
  <2>1. /\ client'[r].at = "finalizing" /\ client'[r].status = Outcome(r)
        /\ client'[r].cancelled = client[r].cancelled
        /\ client'[r].rootGone = client[r].rootGone
        /\ \A q \in Runs \ {r} : client'[q] = client[q]
    BY <1>3 DEF QueueEnds, Finalize, SyncTypes, ClientTypes
  <2>2. /\ client[r].at = "working"
        /\ UNCHANGED <<runs, writes, files, edits, root, landed, item>>
    BY <1>3 DEF QueueEnds, Finalize
  <2>3. \A q \in Runs : finals'[q] \in Nat /\ (q # r => finals'[q] = finals[q])
    BY <1>3 DEF QueueEnds, Finalize, SyncTypes
  <2>4. ASSUME NEW q \in Runs PROVE ClientOK(q)'
    BY <2>1, <2>2, <2>3, OutcomeIsTerminal DEF SyncKept, ClientOK, Closed
  <2>5. ASSUME NEW q \in Runs, NEW p \in Paths PROVE ItemOK(q, p)'
    <3>1. ItemOK(q, p)
      BY DEF SyncKept
    <3>2. CASE q # r
      BY <2>1, <2>2, <3>1, <3>2, ItemOKStays
    <3>3. CASE q = r
      <4>1. item[r][p].at \notin UnderWay
        BY <1>3 DEF QueueEnds, InFlight
      <4>2. ASSUME Outcome(r) = "completed"
            PROVE  item[r][p].at \in {"none", "skipped", "done"}
        <5>1. ~client[r].cancelled /\ ~client[r].rootGone /\ Of(r, "failed") = {}
          BY <4>2 DEF Outcome, Cancelled
        <5>2. Of(r, "queued") = {}
          BY <1>3, <5>1 DEF QueueEnds, Cancelled
        <5>3. item[r][p].at \notin {"failed", "queued", "not run", "stopped"}
          BY <3>1, <3>3, <5>1, <5>2 DEF Of, ItemOK
        <5>4. item[r][p].at \in ItemStages
          BY DEF SyncTypes, ItemTypes
        <5>5. QED
          BY <4>1, <5>3, <5>4 DEF ItemStages
      <4>3. QED
        BY <2>1, <2>2, <3>1, <3>3, <4>1, <4>2 DEF ItemOK
    <3>4. QED
      BY <3>2, <3>3
  <2>6. QED
    BY <2>2, <2>4, <2>5 DEF SyncKept, OpenWritesRun, FilesAreOld
<1>4. ASSUME NEW p \in Paths, ItemStep(r, p) PROVE SyncKept'
  BY <1>4, ItemStepKeeps
<1>5. QED
  BY <1>1, <1>2, <1>3, <1>4 DEF ClientStep

\* The end of a run, by its client or by force: no write of it is open, and a
\* client that has reported it did so after it was over.
LEMMA EndRunsKeeps ==
  ASSUME SyncTypes, SyncKept, NEW r \in Runs, NEW status \in Terminal,
         runs[r] = "running", EndRuns({r}, status)
  PROVE  /\ OpenWritesRun'
         /\ runs'[r] = status /\ writes' = writes
         /\ \A q \in Runs \ {r} : runs'[q] = runs[q]
         /\ client[r].at # "ended"
<1>1. /\ runs' \in [Runs -> RunStates] /\ writes' = writes
      /\ \A q \in Runs : runs'[q] = IF q \in {r} THEN status ELSE runs[q]
      /\ \A x \in writes : x.at = "open" => x.run \notin {r}
  BY EndRunsMoves
<1>2. OpenWritesRun'
  BY <1>1 DEF SyncKept, OpenWritesRun, SyncTypes, WriteTypes
<1>3. client[r].at # "ended"
  BY DEF SyncKept, ClientOK, Closed, Terminal
<1>4. QED
  BY <1>1, <1>2, <1>3

\* What an answer makes of an item: a run that its client has ended has no item
\* that waits.
LEMMA AnswerKeeps ==
  ASSUME SyncTypes, SyncKept, NEW r \in Runs, NEW p \in Paths, NEW at \in {"done", "failed"},
         \/ item' = item
         \/ item[r][p].at = "recording" /\ Settle(r, p, at),
         UNCHANGED <<client, files, edits, root>>,
         landed \subseteq landed', at = "done" => <<r, p>> \in landed'
  PROVE  \A q \in Runs, o \in Paths : ItemOK(q, o)'
<1> SUFFICES ASSUME NEW q \in Runs, NEW o \in Paths
             PROVE  ItemOK(q, o)'
  OBVIOUS
<1>1. ItemOK(q, o)
  BY DEF SyncKept
<1>2. CASE item'[q][o] = item[q][o]
  BY <1>1, <1>2, ItemOKStays
<1>3. CASE item'[q][o] # item[q][o]
  <2>1. item[r][p].at = "recording" /\ Settle(r, p, at)
    BY <1>3
  <2>2. at \in ItemStages
    BY DEF ItemStages
  <2>3. q = r /\ o = p /\ item'[r][p].at = at
    BY <1>3, <2>1, <2>2, SettleMoves
  <2>4. client[r].at \notin Closed
    BY <1>1, <2>1, <2>3 DEF ItemOK, UnderWay
  <2>5. QED
    BY <2>3, <2>4 DEF ItemOK
<1>4. QED
  BY <1>2, <1>3

\* The finalize that arrives ends the run if nothing has, and the client agrees
\* only with a run that ended as it says.
LEMMA FinalizeArrivesKeeps ==
  ASSUME SyncTypes, SyncKept, NEW r \in Runs, FinalizeArrives(r)
  PROVE  SyncKept'
<1> USE DEF storeVars, libraryVars, shutterVars, folderVars
<1>1. /\ client[r] \in ClientTypes
      /\ client[r].at \in Closed /\ client[r].status \in Terminal
      /\ finals[r] - 1 \in Nat
  <2>1. finals[r] \in Nat /\ finals[r] > 0
    BY DEF FinalizeArrives, SyncTypes
  <2>2. client[r].at \in Closed /\ client[r].status \in Terminal
    BY <2>1 DEF SyncKept, ClientOK
  <2>3. QED
    BY <2>1, <2>2 DEF SyncTypes
<1>2. /\ OpenWritesRun'
      /\ \A q \in Runs \ {r} : runs'[q] = runs[q]
      /\ runs[r] = "running" => runs'[r] = client[r].status /\ client[r].at # "ended"
      /\ runs[r] # "running" => runs'[r] = runs[r]
  <2>1. CASE runs[r] = "running"
    BY <1>1, <2>1, EndRunsKeeps DEF FinalizeArrives, FinalizeSyncRun
  <2>2. CASE runs[r] # "running"
    BY <2>2 DEF FinalizeArrives, SyncKept, OpenWritesRun
  <2>3. QED
    BY <2>1, <2>2
<1>3. /\ client'[r].at \in Closed /\ client'[r].status = client[r].status
      /\ client'[r].cancelled = client[r].cancelled
      /\ client'[r].rootGone = client[r].rootGone
      /\ \A q \in Runs \ {r} : client'[q] = client[q]
      /\ client'[r].at = "ended" => client[r].at = "ended"
                                    \/ FinalizeAnswer(r, client[r].status) = "ok"
  <2>1. CASE ClientTo(r, "ended") /\ FinalizeAnswer(r, client[r].status) = "ok"
    <3>1. client'[r] = [client[r] EXCEPT !.at = "ended"]
          /\ \A q \in Runs \ {r} : client'[q] = client[q]
      BY <2>1, ClientMoves DEF ClientStages, Ended
    <3>2. QED
      BY <1>1, <2>1, <3>1 DEF ClientTypes, Closed
  <2>2. CASE TryAgain(r, finals[r] - 1)
    BY <1>1, <2>2, TryAgainMoves DEF Closed
  <2>3. CASE client' = client
    BY <1>1, <2>3
  <2>4. QED
    BY <2>1, <2>2, <2>3 DEF FinalizeArrives
<1>4. \A q \in Runs : finals'[q] \in Nat /\ (q # r => finals'[q] = finals[q])
  BY <1>1 DEF FinalizeArrives, TryAgain, SyncTypes
<1>5. ASSUME NEW q \in Runs PROVE ClientOK(q)'
  <2>1. CASE q # r
    BY <1>2, <1>3, <1>4, <2>1 DEF SyncKept, ClientOK
  <2>2. CASE q = r
    <3>1. ASSUME client'[r].at = "ended" PROVE runs'[r] = client[r].status
      BY <1>2, <1>3, <3>1 DEF SyncKept, ClientOK, FinalizeAnswer
    <3>2. QED
      BY <1>1, <1>3, <1>4, <2>2, <3>1 DEF ClientOK
  <2>3. QED
    BY <2>1, <2>2
<1>6. UNCHANGED <<item, files, edits, root, landed>>
  BY DEF FinalizeArrives
<1>7. ASSUME NEW q \in Runs, NEW p \in Paths PROVE ItemOK(q, p)'
  <2>1. ItemOK(q, p)
    BY DEF SyncKept
  <2>2. QED
    BY <1>1, <1>3, <1>6, <2>1, ItemOKStays
<1>8. QED
  BY <1>2, <1>5, <1>6, <1>7 DEF SyncKept, FilesAreOld

LEMMA StoreStepKeeps ==
  ASSUME SyncTypes, SyncKept, NEW r \in Runs, StoreStep(r)
  PROVE  SyncKept'
<1> USE DEF storeVars, libraryVars, shutterVars, folderVars, clientVars
<1>1. CASE CreateArrives(r)
  <2>1. /\ runs[r] = "absent" /\ runs' = [runs EXCEPT ![r] = "running"]
        /\ UNCHANGED <<writes, files, edits, root, finals, landed, item>>
    BY <1>1 DEF CreateArrives, StartSyncRun
  <2>2. /\ client[r].at \notin Closed /\ client'[r].at \notin Closed
        /\ client'[r].cancelled = client[r].cancelled
        /\ client'[r].rootGone = client[r].rootGone
        /\ \A q \in Runs \ {r} : client'[q] = client[q]
    BY <1>1, ZenonT(60) DEF CreateArrives, Closed, SyncTypes, ClientTypes
  <2>3. ASSUME NEW q \in Runs PROVE ClientOK(q)'
    BY <2>1, <2>2 DEF SyncKept, ClientOK, Closed, SyncTypes
  <2>4. ASSUME NEW q \in Runs, NEW p \in Paths PROVE ItemOK(q, p)'
    <3>1. ItemOK(q, p)
      BY DEF SyncKept
    <3>2. QED
      BY <2>1, <2>2, <3>1, ItemOKStays
  <2>5. OpenWritesRun'
    BY <2>1 DEF SyncKept, OpenWritesRun, SyncTypes, WriteTypes
  <2>6. QED
    BY <2>1, <2>3, <2>4, <2>5 DEF SyncKept, FilesAreOld
<1>2. CASE FinalizeArrives(r)
  BY <1>2, FinalizeArrivesKeeps
<1>3. ASSUME NEW q \in wire, RequestArrives(q) PROVE SyncKept'
  <2>1. /\ writes' = writes \cup {Admitted(q)}
        /\ UNCHANGED <<runs, client, item, files, edits, root, finals, landed>>
    BY <1>3 DEF RequestArrives, AdmitWrite
  <2>2. OpenWritesRun'
    BY <2>1 DEF SyncKept, OpenWritesRun, Admitted
  <2>3. \A s \in Runs, p \in Paths : ItemOK(s, p)'
    BY <2>1, ItemOKStays DEF SyncKept
  <2>4. \A s \in Runs : ClientOK(s)'
    BY <2>1 DEF SyncKept, ClientOK
  <2>5. QED
    BY <2>1, <2>2, <2>3, <2>4 DEF SyncKept, FilesAreOld
<1>4. ASSUME NEW x \in writes, Handle(x) PROVE SyncKept'
  <2>1. x \in WriteTypes /\ x.run \in Runs /\ x.path \in Paths
    BY DEF SyncTypes, WriteTypes
  <2>2. UNCHANGED <<runs, client, files, edits, root, finals>>
    BY <1>4 DEF Handle, AttestUpload, OpenWrite, CommitWrite, MarkRemoteDeleted
  <2>3. \A q \in Runs, p \in Paths : ItemOK(q, p)'
    <3>1. CASE Lands(x)
      BY <2>1, <2>2, <3>1, AnswerKeeps DEF Lands, Answer
    <3>2. CASE Refused(x)
      BY <2>1, <2>2, <3>2, AnswerKeeps DEF Refused, Answer
    <3>3. CASE UNCHANGED <<item, landed>>
      BY <2>2, <3>3, ItemOKStays DEF SyncKept
    <3>4. QED
      BY <1>4, <3>1, <3>2, <3>3 DEF Handle
  <2>4. OpenWritesRun'
    <3>1. [x EXCEPT !.at = "attested"].at = "attested"
      BY <2>1 DEF WriteTypes
    <3>2. LET o == [x EXCEPT !.at = "open", !.restore = {f \in Above[x.path] : folders[f] # "live"}]
          IN  o.run = x.run
      BY <2>1 DEF WriteTypes
    <3>3. CASE AttestUpload(x)
      BY <2>2, <3>1, <3>3 DEF AttestUpload, SyncKept, OpenWritesRun
    <3>4. CASE OpenWrite(x)
      BY <2>2, <3>2, <3>4 DEF OpenWrite, SyncKept, OpenWritesRun
    <3>5. CASE CommitWrite(x) \/ MarkRemoteDeleted(x)
      BY <2>2, <3>5 DEF CommitWrite, MarkRemoteDeleted, SyncKept, OpenWritesRun
    <3>6. QED
      BY <1>4, <3>3, <3>4, <3>5 DEF Handle
  <2>5. QED
    BY <2>2, <2>3, <2>4 DEF SyncKept, ClientOK, FilesAreOld
<1>5. QED
  BY <1>1, <1>2, <1>3, <1>4 DEF StoreStep

\* An edit is newer than what was seen before it.
LEMMA EditKeeps ==
  ASSUME SyncTypes, SyncKept, NEW p \in Paths, EditFile(p)
  PROVE  SyncKept'
<1> USE DEF storeVars, libraryVars, shutterVars, clientVars
<1>1. /\ edits' = edits + 1 /\ edits \in Nat
      /\ UNCHANGED <<runs, writes, client, item, finals, landed, root>>
  BY DEF EditFile, SyncTypes
<1>2. PICK new \in {NoFile} \cup [content : Contents, time : {edits + 1}] :
        files' = [files EXCEPT ![p] = new]
  BY DEF EditFile
<1>3. /\ files'[p] = new
      /\ \A o \in Paths \ {p} : files'[o] = files[o]
  BY <1>2 DEF SyncTypes
<1>4. new = NoFile \/ new.time = edits + 1
  BY <1>2
<1>5. \A o \in Paths : files[o].time \in 0 .. edits
  BY <1>1 DEF SyncKept, FilesAreOld, SyncTypes
<1>6. FilesAreOld'
  <2>1. NoFile.time = 0
    BY DEF NoFile
  <2>2. QED
    BY <1>1, <1>3, <1>4, <1>5, <2>1 DEF FilesAreOld
<1>7. ASSUME NEW r \in Runs, NEW o \in Paths PROVE ItemOK(r, o)'
  <2>1. ItemOK(r, o) /\ item[r][o] \in ItemTypes
    BY DEF SyncKept, SyncTypes
  <2>2. item[r][o].at \in {"looked", "uploaded", "absent"} =>
           item[r][o].before \in 0 .. edits /\ item[r][o].before \in 0 .. edits'
    <3>1. item[r][o].at \in {"looked", "uploaded", "absent"} => item[r][o].before \in 0 .. edits
      BY <2>1 DEF ItemOK
    <3>2. \A t \in 0 .. edits : t \in 0 .. edits'
      BY <1>1
    <3>3. QED
      BY <3>1, <3>2
  <2>3. CASE o # p
    BY <1>1, <1>3, <2>1, <2>2, <2>3 DEF ItemOK
  <2>4. CASE o = p
    <3>1. item[r][p].at \in {"uploaded", "absent"} =>
             files'[p] = NoFile \/ files'[p].time > item[r][p].before
      BY <1>1, <1>3, <1>4, <2>2, <2>4
    <3>2. item[r][p].at = "uploaded" /\ files'[p] # NoFile =>
             files'[p].time # item[r][p].before
      BY <1>1, <1>3, <1>4, <2>2, <2>4
    <3>3. QED
      BY <1>1, <2>1, <2>2, <2>4, <3>1, <3>2 DEF ItemOK
  <2>5. QED
    BY <2>3, <2>4
<1>8. QED
  BY <1>1, <1>6, <1>7 DEF SyncKept, ClientOK, OpenWritesRun

LEMMA OutsideKeeps ==
  ASSUME SyncTypes, SyncKept, OutsideStep
  PROVE  SyncKept'
<1> USE DEF storeVars, libraryVars, shutterVars, folderVars, clientVars
<1>1. CASE RootGoes
  <2>1. ~root' /\ UNCHANGED <<runs, writes, client, item, files, edits, finals, landed>>
    BY <1>1 DEF RootGoes
  <2>2. ASSUME NEW r \in Runs, NEW p \in Paths PROVE ItemOK(r, p)'
    <3>1. ItemOK(r, p)
      BY DEF SyncKept
    <3>2. QED
      BY <2>1, <3>1, ItemOKStays
  <2>3. QED
    BY <2>1, <2>2 DEF SyncKept, ClientOK, OpenWritesRun, FilesAreOld
<1>2. ASSUME NEW p \in Paths, EditFile(p) PROVE SyncKept'
  BY <1>2, EditKeeps
<1>3. ASSUME NEW r \in Runs, GiveUpCreating(r) PROVE SyncKept'
  <2>1. "gave up" \in ClientStages \ Closed
    BY DEF ClientStages, Closed, Ended
  <2>2. client[r].at \notin Closed /\ ClientTo(r, "gave up")
    BY <1>3 DEF GiveUpCreating, Closed
  <2>3. UNCHANGED <<runs, writes, files, edits, root, finals, landed, item>>
    BY <1>3 DEF GiveUpCreating
  <2>4. QED
    BY <2>1, <2>2, <2>3, ClientMoveKeeps
<1>4. ASSUME NEW r \in Runs, RetryFinalize(r) PROVE SyncKept'
  <2>1. /\ client[r].at = "finalizing" /\ TryAgain(r, finals[r])
        /\ UNCHANGED <<runs, writes, files, edits, root, landed, item>>
    BY <1>4 DEF RetryFinalize
  <2>2. /\ client'[r].at \in {"finalizing", "unfinalized"}
        /\ client'[r].status = client[r].status
        /\ client'[r].cancelled = client[r].cancelled
        /\ client'[r].rootGone = client[r].rootGone
        /\ \A q \in Runs \ {r} : client'[q] = client[q]
    BY <2>1, TryAgainMoves
  <2>3. \A q \in Runs \ {r} : finals'[q] = finals[q]
    BY <2>1 DEF TryAgain, SyncTypes
  <2>4. ASSUME NEW q \in Runs PROVE ClientOK(q)'
    BY <2>1, <2>2, <2>3 DEF SyncKept, ClientOK, Closed
  <2>5. ASSUME NEW q \in Runs, NEW p \in Paths PROVE ItemOK(q, p)'
    <3>1. ItemOK(q, p)
      BY DEF SyncKept
    <3>2. QED
      BY <2>1, <2>2, <3>1, ItemOKStays DEF Closed
  <2>6. QED
    BY <2>1, <2>4, <2>5 DEF SyncKept, OpenWritesRun, FilesAreOld
<1>5. ASSUME NEW r \in Runs, Cancel(r) PROVE SyncKept'
  <2>1. \A q \in Runs : /\ client'[q].at = client[q].at /\ client'[q].status = client[q].status
                        /\ client'[q].rootGone = client[q].rootGone
                        /\ client[q].cancelled => client'[q].cancelled
    BY <1>5 DEF Cancel, SyncTypes, ClientTypes
  <2>2. UNCHANGED <<runs, writes, files, edits, root, finals, landed, item>>
    BY <1>5 DEF Cancel
  <2>3. ASSUME NEW q \in Runs PROVE ClientOK(q)'
    BY <2>1, <2>2 DEF SyncKept, ClientOK
  <2>4. ASSUME NEW q \in Runs, NEW p \in Paths PROVE ItemOK(q, p)'
    <3>1. ItemOK(q, p)
      BY DEF SyncKept
    <3>2. QED
      BY <2>1, <2>2, <3>1, ItemOKStays
  <2>5. QED
    BY <2>2, <2>3, <2>4 DEF SyncKept, OpenWritesRun, FilesAreOld
<1>6. ASSUME NEW r \in Runs, ForceCancel(r) PROVE SyncKept'
  <2>1. /\ OpenWritesRun' /\ client[r].at # "ended"
        /\ \A q \in Runs \ {r} : runs'[q] = runs[q]
    BY <1>6, EndRunsKeeps DEF ForceCancel, ForceCancelSyncRun, Terminal
  <2>2. UNCHANGED <<client, files, edits, root, finals, landed, item>>
    BY <1>6 DEF ForceCancel
  <2>3. QED
    <3>1. ASSUME NEW q \in Runs, NEW p \in Paths PROVE ItemOK(q, p)'
      <4>1. ItemOK(q, p)
        BY DEF SyncKept
      <4>2. QED
        BY <2>2, <4>1, ItemOKStays
    <3>2. ASSUME NEW q \in Runs PROVE ClientOK(q)'
      BY <2>1, <2>2 DEF SyncKept, ClientOK
    <3>3. QED
      BY <2>1, <2>2, <3>1, <3>2 DEF SyncKept, FilesAreOld
<1>7. ASSUME NEW r \in Runs, NEW p \in Paths, LoseAnswer(r, p) PROVE SyncKept'
  <2>1. /\ item[r][p].at = "recording" /\ Settle(r, p, "failed")
        /\ UNCHANGED <<runs, writes, client, files, edits, root, finals, landed>>
    BY <1>7 DEF LoseAnswer, Working, Fails
  <2>2. \A q \in Runs, o \in Paths : ItemOK(q, o)'
    BY <2>1, AnswerKeeps
  <2>3. QED
    BY <2>1, <2>2 DEF SyncKept, ClientOK, OpenWritesRun, FilesAreOld
<1>8. QED
  BY <1>1, <1>2, <1>3, <1>4, <1>5, <1>6, <1>7 DEF OutsideStep

LEMMA SyncStepKeeps ==
  ASSUME SyncTypes, SyncKept, [SyncNext]_syncVars
  PROVE  SyncTypes' /\ SyncKept'
<1>1. CASE OutsideStep
  BY <1>1, SyncTypesOutside, OutsideKeeps
<1>2. ASSUME NEW r \in Runs, ClientStep(r) PROVE SyncTypes' /\ SyncKept'
  BY <1>2, SyncTypesClient, ClientStepKeeps
<1>3. ASSUME NEW r \in Runs, StoreStep(r) PROVE SyncTypes' /\ SyncKept'
  <2>1. client[r].at = "finalizing" \/ finals[r] > 0 => client[r].status \in Terminal
    BY DEF SyncKept, ClientOK, Closed
  <2>2. QED
    BY <1>3, <2>1, SyncTypesStore, StoreStepKeeps
<1>4. CASE UNCHANGED syncVars
  <2>1. SyncTypes'
    BY <1>4 DEF syncVars, storeVars, folderVars, clientVars, SyncTypes
  <2>2. UNCHANGED <<runs, writes, client, item, files, edits, root, finals, landed>>
    BY <1>4 DEF syncVars, storeVars, folderVars, clientVars
  <2>3. ASSUME NEW r \in Runs, NEW p \in Paths PROVE ItemOK(r, p)'
    <3>1. ItemOK(r, p)
      BY DEF SyncKept
    <3>2. QED
      BY <2>2, <3>1, ItemOKStays
  <2>4. SyncKept'
    BY <2>2, <2>3 DEF SyncKept, ClientOK, OpenWritesRun, FilesAreOld
  <2>5. QED
    BY <2>1, <2>4
<1>5. QED
  BY <1>1, <1>2, <1>3, <1>4 DEF SyncNext

LEMMA SyncAlwaysKept == SyncSpec => [](SyncTypes /\ SyncKept)
<1>1. SyncInit /\ StoreInit => SyncTypes /\ SyncKept
  BY SyncTypesInit, SyncKeptInit
<1>2. SyncTypes /\ SyncKept /\ [SyncNext]_syncVars => (SyncTypes /\ SyncKept)'
  BY SyncStepKeeps
<1>3. QED
  BY <1>1, <1>2, PTL DEF SyncSpec

-----------------------------------------------------------------------------
(* The theorems. *)

(***************************************************************************)
(* A client that has had its finalize accepted reports the status that the *)
(* store holds, whichever of its finalizes did it and whoever cancelled    *)
(* the run in between (push.rs:271, finalizeSyncRun's comparison).         *)
(***************************************************************************)
THEOREM ClientAndStoreAgree == SyncSpec => []StatusAgreed
<1>1. SyncKept => StatusAgreed
  BY DEF SyncKept, ClientOK, StatusAgreed
<1>2. QED
  BY <1>1, SyncAlwaysKept, PTL

(***************************************************************************)
(* A run reported as completed has recorded every item of its plan, but    *)
(* for the deletes whose file was back: no failed, dropped or abandoned    *)
(* item hides behind it (run_push's and run_prune's outcome).              *)
(***************************************************************************)
THEOREM CompletedIsComplete == SyncSpec => []CompletedMeansRecorded
<1>1. SyncKept => CompletedMeansRecorded
  <2> SUFFICES ASSUME SyncKept, NEW r \in Runs, client[r].at = "ended",
                      client[r].status = "completed",
                      NEW p \in Paths, item[r][p].at \notin {"none", "skipped"}
               PROVE  <<r, p>> \in landed
    BY DEF CompletedMeansRecorded
  <2>1. ItemOK(r, p)
    BY DEF SyncKept
  <2>2. QED
    BY <2>1 DEF ItemOK, Closed
<1>2. QED
  BY <1>1, SyncAlwaysKept, PTL

\* What lands is of a run that is running.
LEMMA LandsWhileRunning ==
  ASSUME SyncTypes, SyncKept, [SyncNext]_syncVars, NEW r \in Runs, NEW p \in Paths,
         <<r, p>> \in landed', <<r, p>> \notin landed
  PROVE  runs[r] = "running"
<1>1. landed' # landed
  OBVIOUS
<1>2. PICK s \in Runs : \E x \in writes : x.run = s /\ Handle(x)
  <2>1. ~OutsideStep
    BY <1>1
    DEF OutsideStep, RootGoes, EditFile, GiveUpCreating, RetryFinalize, Cancel, ForceCancel,
        LoseAnswer, clientVars
  <2>2. ASSUME NEW s \in Runs, ClientStep(s) PROVE FALSE
    <3>1. ~Stop(s) /\ ~FetchSnapshot(s) /\ ~PlanSync(s) /\ ~SendCreate(s) /\ ~QueueEnds(s)
      BY <1>1 DEF Stop, FetchSnapshot, PlanSync, SendCreate, QueueEnds, Finalize
    <3>2. \A o \in Paths : ~ItemStep(s, o)
      BY <1>1
      DEF ItemStep, Prepare, LookBefore, Upload, RecordUpload, LookAbsent, SendDelete, DropItem
    <3>3. QED
      BY <2>2, <3>1, <3>2 DEF ClientStep
  <2>3. \A s \in Runs : ~CreateArrives(s) /\ ~FinalizeArrives(s)
    BY <1>1 DEF CreateArrives, FinalizeArrives
  <2>4. \A q \in wire : ~RequestArrives(q)
    BY <1>1 DEF RequestArrives
  <2>5. ~UNCHANGED syncVars
    BY <1>1 DEF syncVars, clientVars
  <2>6. QED
    BY <2>1, <2>2, <2>3, <2>4, <2>5 DEF SyncNext, StoreStep
<1>3. PICK x \in writes : Handle(x)
  BY <1>2
<1>4. x \in WriteTypes
  BY DEF SyncTypes
<1>5. landed' = landed \cup {<<x.run, x.path>>}
  BY <1>1, <1>3 DEF Handle, Lands, Refused
<1>6. x.run = r
  BY <1>5
<1>7. CASE CommitWrite(x)
  BY <1>6, <1>7 DEF CommitWrite, SyncKept, OpenWritesRun
<1>8. CASE ~CommitWrite(x)
  <2>1. ~Refused(x) /\ ~UNCHANGED <<item, landed>>
    BY <1>1 DEF Refused
  <2>2. QED
    BY <1>3, <1>6, <1>8, <2>1 DEF Handle
<1>9. QED
  BY <1>7, <1>8

(***************************************************************************)
(* Once a client has reported its run as ended no write of that run lands, *)
(* however late its requests reach the store (assertWritableSyncRun, and   *)
(* the lock that the end of a run waits for).                              *)
(***************************************************************************)
THEOREM NothingLandsLate == SyncSpec => ReportedIsOver
<1> DEFINE Over == \A r \in Runs : client[r].at = "ended" =>
                     \A p \in Paths : <<r, p>> \in landed' => <<r, p>> \in landed
<1>1. SyncTypes /\ SyncKept /\ [SyncNext]_syncVars => [Over]_syncVars
  <2> SUFFICES ASSUME SyncTypes, SyncKept, [SyncNext]_syncVars,
                      NEW r \in Runs, client[r].at = "ended",
                      NEW p \in Paths, <<r, p>> \in landed'
               PROVE  <<r, p>> \in landed
    OBVIOUS
  <2>1. runs[r] # "running"
    BY DEF SyncKept, ClientOK, Closed, Terminal
  <2>2. QED
    BY <2>1, LandsWhileRunning
<1>2. QED
  BY <1>1, SyncAlwaysKept, PTL DEF SyncSpec, ReportedIsOver

\* A settled item is at its end, and no other has moved.
LEMMA SettledElsewhere ==
  ASSUME SyncTypes, NEW q \in Runs, NEW o \in Paths, NEW at \in ItemStages, Settle(q, o, at),
         NEW r \in Runs, NEW p \in Paths, item'[r][p].at # item[r][p].at
  PROVE  r = q /\ p = o /\ item'[r][p].at = at
BY SettleMoves

\* An item asks to be recorded by one of two steps of its own.
LEMMA RecordingBegins ==
  ASSUME SyncTypes, SyncKept, [SyncNext]_syncVars, NEW r \in Runs, NEW p \in Paths,
         item[r][p].at # "recording", item'[r][p].at = "recording"
  PROVE  RecordUpload(r, p) \/ (SendDelete(r, p) /\ root)
<1>1. item'[r][p] # item[r][p] /\ item'[r][p].at # item[r][p].at
  OBVIOUS
<1>2. ~OutsideStep
  <2>1. ASSUME NEW q \in Runs, NEW o \in Paths, LoseAnswer(q, o) PROVE FALSE
    <3>1. "failed" \in ItemStages
      BY DEF ItemStages
    <3>2. QED
      BY <1>1, <2>1, <3>1, SettledElsewhere DEF LoseAnswer, Fails
  <2>2. QED
    BY <1>1, <2>1
    DEF OutsideStep, RootGoes, EditFile, GiveUpCreating, RetryFinalize, Cancel, ForceCancel,
        clientVars
<1>3. ASSUME NEW q \in Runs, StoreStep(q) PROVE FALSE
  <2>1. ASSUME NEW x \in writes, Handle(x) PROVE FALSE
    <3>1. x.run \in Runs /\ x.path \in Paths
      BY DEF SyncTypes, WriteTypes
    <3>2. "done" \in ItemStages /\ "failed" \in ItemStages
      BY DEF ItemStages
    <3>3. item' = item \/ Settle(x.run, x.path, "done") \/ Settle(x.run, x.path, "failed")
      BY <2>1 DEF Handle, Lands, Refused, Answer
    <3>4. QED
      BY <1>1, <3>1, <3>2, <3>3, SettledElsewhere
  <2>2. QED
    BY <1>1, <1>3, <2>1 DEF StoreStep, CreateArrives, FinalizeArrives, RequestArrives
<1>4. ASSUME NEW q \in Runs, ClientStep(q)
      PROVE  RecordUpload(r, p) \/ (SendDelete(r, p) /\ root)
  <2>1. CASE Stop(q) \/ FetchSnapshot(q) \/ SendCreate(q) \/ QueueEnds(q)
    BY <1>1, <2>1 DEF Stop, FetchSnapshot, SendCreate, QueueEnds, Finalize
  <2>2. CASE PlanSync(q)
    <3>1. item' = [item EXCEPT ![q] = [o \in Paths |->
                      IF Planned(q, o)
                      THEN [NoItem EXCEPT !.at = "queued", !.time = files[o].time]
                      ELSE NoItem]]
      BY <2>2 DEF PlanSync
    <3>2. /\ \A o \in Paths :
                [NoItem EXCEPT !.at = "queued", !.time = files[o].time].at = "queued"
          /\ NoItem.at = "none"
      BY DEF NoItem
    <3>3. item \in [Runs -> [Paths -> ItemTypes]]
      BY DEF SyncTypes
    <3>4. QED
      BY <1>1, <3>1, <3>2, <3>3
  <2>3. ASSUME NEW o \in Paths, ItemStep(q, o)
        PROVE  RecordUpload(r, p) \/ (SendDelete(r, p) /\ root)
    <3>0. item[q][o] \in ItemTypes
      BY DEF SyncTypes
    <3>1. ASSUME NEW at \in {"failed", "skipped", "stopped", "not run"}, Settle(q, o, at)
          PROVE  FALSE
      <4>1. at \in ItemStages
        BY DEF ItemStages
      <4>2. Settle(q, o, at)
        BY <3>1
      <4>3. /\ item'[q][o].at = at
            /\ \A s \in Runs, f \in Paths : s # q \/ f # o => item'[s][f] = item[s][f]
        BY ZenonT(60), <4>1, <4>2, SettleMoves
      <4>4. QED
        BY <1>1, <3>1, <4>3
    <3>2. ASSUME Prepare(q, o) \/ LookBefore(q, o) \/ Upload(q, o) \/ LookAbsent(q, o) PROVE FALSE
      <4>1. item'[r][p].at \in {item[r][p].at, "prepared", "looked", "uploaded", "failed", "absent"}
        <5>1. CASE \E at \in {"failed", "skipped"} : Settle(q, o, at)
          BY <3>1, <5>1
        <5>2. CASE \E i \in [at : {"prepared", "looked", "uploaded", "failed", "absent"},
                             time : Nat, sha : Contents \cup {NoContent}, before : Nat] :
                     item' = [item EXCEPT ![q][o] = i]
          BY <5>2 DEF SyncTypes
        <5>3. /\ Seen(o).content \in Contents \cup {NoContent} /\ Seen(o).time \in Nat
              /\ edits \in Nat
          BY DEF Seen, NoFile, SyncTypes
        <5>4. CASE Prepare(q, o)
          <6>1. [item[q][o] EXCEPT !.at = "prepared", !.sha = Seen(o).content] \in
                   [at : {"prepared"}, time : Nat, sha : Contents \cup {NoContent}, before : Nat]
            BY <3>0, <5>3 DEF ItemTypes
          <6>2. \/ Settle(q, o, "failed")
                \/ item' = [item EXCEPT ![q][o] =
                              [item[q][o] EXCEPT !.at = "prepared", !.sha = Seen(o).content]]
            BY <5>4, ZenonT(60) DEF Prepare, Fails
          <6>3. QED
            BY <5>1, <5>2, <6>1, <6>2
        <5>5. CASE LookBefore(q, o)
          <6>1. [item[q][o] EXCEPT !.at = "looked", !.before = Seen(o).time] \in
                   [at : {"looked"}, time : Nat, sha : Contents \cup {NoContent}, before : Nat]
            BY <3>0, <5>3 DEF ItemTypes
          <6>2. \/ Settle(q, o, "failed")
                \/ item' = [item EXCEPT ![q][o] =
                              [item[q][o] EXCEPT !.at = "looked", !.before = Seen(o).time]]
            BY <5>5, ZenonT(60) DEF LookBefore, Fails
          <6>3. QED
            BY <5>1, <5>2, <6>1, <6>2
        <5>6. CASE Upload(q, o)
          <6>1. \A at \in {"uploaded", "failed"} : [item[q][o] EXCEPT !.at = at] \in
                   [at : {at}, time : Nat, sha : Contents \cup {NoContent}, before : Nat]
            BY <3>0 DEF ItemTypes
          <6>2. \/ Settle(q, o, "failed")
                \/ \E at \in {"uploaded", "failed"} :
                      item' = [item EXCEPT ![q][o] = [item[q][o] EXCEPT !.at = at]]
            BY <5>6 DEF Upload, Fails, ItemTo
          <6>3. QED
            BY <5>1, <5>2, <6>1, <6>2
        <5>7. CASE LookAbsent(q, o)
          <6>1. [item[q][o] EXCEPT !.at = "absent", !.before = edits] \in
                   [at : {"absent"}, time : Nat, sha : Contents \cup {NoContent}, before : Nat]
            BY <3>0, <5>3 DEF ItemTypes
          <6>2. \/ Settle(q, o, "skipped")
                \/ item' = [item EXCEPT ![q][o] =
                              [item[q][o] EXCEPT !.at = "absent", !.before = edits]]
            BY ZenonT(60), <3>0, <5>7 DEF LookAbsent, ItemTypes, SyncTypes
          <6>3. QED
            BY <5>1, <5>2, <6>1, <6>2
        <5>8. QED
          BY <3>2, <5>4, <5>5, <5>6, <5>7
      <4>2. QED
        BY <4>1
    <3>3. CASE RecordUpload(q, o)
      <4>1. Settle(q, o, "recording")
        BY <3>1, <3>3 DEF RecordUpload, Fails
      <4>2. q = r /\ o = p
        BY <1>1, <4>1, SettledElsewhere, ZenonT(60) DEF ItemStages, UnderWay
      <4>3. QED
        BY <3>3, <4>2
    <3>4. CASE SendDelete(q, o)
      <4>1. Settle(q, o, "recording") /\ root
        BY <3>1, <3>4 DEF SendDelete
      <4>2. q = r /\ o = p
        BY <1>1, <4>1, SettledElsewhere, ZenonT(60) DEF ItemStages, UnderWay
      <4>3. QED
        BY <3>4, <4>1, <4>2
    <3>5. ~DropItem(q, o)
      BY <3>1 DEF DropItem
    <3>6. QED
      BY <2>3, <3>2, <3>3, <3>4, <3>5 DEF ItemStep
  <2>4. QED
    BY <1>4, <2>1, <2>2, <2>3 DEF ClientStep
<1>5. ~UNCHANGED syncVars
  BY <1>1 DEF syncVars, clientVars
<1>6. QED
  BY <1>2, <1>3, <1>4, <1>5 DEF SyncNext

(***************************************************************************)
(* A push asks for a file to be recorded only with the hash the file has   *)
(* then, however it is edited, removed or put back while it is hashed and  *)
(* uploaded (push_media_item, prepare_blocking).                           *)
(***************************************************************************)
THEOREM PushRecordsTheFile == SyncSpec => RecordedIsOnDisk
<1> DEFINE OnDisk == \A r \in Pushes, p \in Paths :
        (item[r][p].at # "recording" /\ item'[r][p].at = "recording")
        => files[p].content = item[r][p].sha
<1>1. SyncTypes /\ SyncKept /\ [SyncNext]_syncVars => [OnDisk]_syncVars
  <2> SUFFICES ASSUME SyncTypes, SyncKept, [SyncNext]_syncVars, NEW r \in Pushes, NEW p \in Paths,
                      item[r][p].at # "recording", item'[r][p].at = "recording"
               PROVE  files[p].content = item[r][p].sha
    OBVIOUS
  <2>1. r \in Runs
    BY SyncAssumption DEF SyncAssumption
  <2>2. ItemOK(r, p)
    BY <2>1 DEF SyncKept
  <2>3. RecordUpload(r, p)
    BY <2>1, <2>2, RecordingBegins DEF SendDelete, Working, ItemOK
  <2>4. /\ item[r][p].at = "uploaded" /\ files[p] # NoFile
        /\ files[p].time = item[r][p].before
    <3>1. ~Fails(r, p)
      <4>1. "failed" \in ItemStages
        BY DEF ItemStages
      <4>2. Settle(r, p, "failed") => item'[r][p].at = "failed"
        BY <2>1, <4>1, SettleMoves
      <4>3. QED
        BY <4>2 DEF Fails
    <3>2. QED
      BY <2>3, <3>1 DEF RecordUpload, Working, Exists, Seen
  <2>5. QED
    BY <2>2, <2>4 DEF ItemOK
<1>2. QED
  BY <1>1, SyncAlwaysKept, PTL DEF SyncSpec, RecordedIsOnDisk

(***************************************************************************)
(* A prune asks for a deletion only of a path that had no file since the   *)
(* prune took it up: a drive that is unplugged deletes nothing in the      *)
(* library (prune_item, root_identity).                                    *)
(***************************************************************************)
THEOREM PruneSparesWhatIsThere == SyncSpec => PrunesOnlyWhatIsGone
<1> DEFINE Gone == \A r \in Runs \ Pushes, p \in Paths :
        (item[r][p].at # "recording" /\ item'[r][p].at = "recording")
        => files[p] = NoFile \/ files[p].time > item[r][p].before
<1>1. SyncTypes /\ SyncKept /\ [SyncNext]_syncVars => [Gone]_syncVars
  <2> SUFFICES ASSUME SyncTypes, SyncKept, [SyncNext]_syncVars,
                      NEW r \in Runs \ Pushes, NEW p \in Paths,
                      item[r][p].at # "recording", item'[r][p].at = "recording"
               PROVE  files[p] = NoFile \/ files[p].time > item[r][p].before
    OBVIOUS
  <2>1. ItemOK(r, p)
    BY DEF SyncKept
  <2>2. SendDelete(r, p) /\ root
    BY <2>1, RecordingBegins DEF RecordUpload, Working, ItemOK
  <2>3. QED
    BY <2>1, <2>2 DEF SendDelete, Working, ItemOK
<1>2. QED
  BY <1>1, SyncAlwaysKept, PTL DEF SyncSpec, PrunesOnlyWhatIsGone
-----------------------------------------------------------------------------
(* The bounds: no more items under way than the width, and no more         *)
(* finalizes than the attempts.                                            *)

\* A finalize that has not arrived is one of the attempts so far.
BoundsOK(r) ==
    /\ client[r].attempt <= Attempts
    /\ finals[r] <= client[r].attempt
    /\ IsFiniteSet(InFlight(r)) /\ Cardinality(InFlight(r)) <= Width

SyncBounded ==
    /\ edits <= MaxEdits
    /\ lost \in 0 .. MaxLost
    /\ landed \subseteq Runs \X Paths
    /\ \A r \in Runs : BoundsOK(r)

LEMMA SyncBoundedInit == SyncInit /\ StoreInit => SyncBounded
<1> SUFFICES ASSUME SyncInit
             PROVE  SyncBounded
  OBVIOUS
<1>1. ASSUME NEW r \in Runs PROVE BoundsOK(r)
  <2>1. \A p \in Paths : item[r][p].at = "none"
    BY DEF SyncInit, NoItem
  <2>2. InFlight(r) = {}
    BY <2>1 DEF InFlight, UnderWay
  <2>3. client[r].attempt = 0 /\ finals[r] = 0
    BY DEF SyncInit
  <2>4. QED
    BY <2>2, <2>3, FS_EmptySet, SyncAssumption DEF SyncAssumption, BoundsOK
<1>2. QED
  BY <1>1, SyncAssumption DEF SyncInit, SyncAssumption, SyncBounded

\* Items that end or move on leave a run within its width.
LEMMA FewerUnderWay ==
  ASSUME NEW r \in Runs, BoundsOK(r), InFlight(r)' \subseteq InFlight(r)
  PROVE  IsFiniteSet(InFlight(r)') /\ Cardinality(InFlight(r)') <= Width
<1>1. /\ IsFiniteSet(InFlight(r)') /\ Cardinality(InFlight(r)') <= Cardinality(InFlight(r))
      /\ Cardinality(InFlight(r)) \in Nat /\ Cardinality(InFlight(r)') \in Nat
  BY FS_Subset, FS_CardinalityType DEF BoundsOK
<1>2. QED
  BY <1>1, SyncAssumption DEF SyncAssumption, BoundsOK

\* So does the one that starts, below it.
LEMMA OneMoreUnderWay ==
  ASSUME NEW r \in Runs, NEW p \in Paths, BoundsOK(r), Cardinality(InFlight(r)) < Width,
         InFlight(r)' \subseteq InFlight(r) \cup {p}
  PROVE  IsFiniteSet(InFlight(r)') /\ Cardinality(InFlight(r)') <= Width
<1> DEFINE More == InFlight(r) \cup {p}
<1>1. /\ IsFiniteSet(More) /\ Cardinality(More) \in Nat /\ Cardinality(InFlight(r)) \in Nat
      /\ Cardinality(More) <= Cardinality(InFlight(r)) + 1
  <2> DEFINE Now == InFlight(r)
  <2>1. IsFiniteSet(Now)
    BY DEF BoundsOK
  <2> HIDE DEF Now
  <2>2. /\ IsFiniteSet(Now \cup {p})
        /\ Cardinality(Now \cup {p}) = IF p \in Now THEN Cardinality(Now) ELSE Cardinality(Now) + 1
    BY <2>1, FS_AddElement
  <2>3. Cardinality(Now) \in Nat /\ Cardinality(Now \cup {p}) \in Nat
    BY <2>1, <2>2, FS_CardinalityType
  <2>4. Cardinality(Now \cup {p}) <= Cardinality(Now) + 1
    BY <2>2, <2>3
  <2>5. QED
    BY <2>2, <2>3, <2>4 DEF Now
<1>2. /\ IsFiniteSet(InFlight(r)') /\ Cardinality(InFlight(r)') <= Cardinality(More)
      /\ Cardinality(InFlight(r)') \in Nat
  BY <1>1, FS_Subset, FS_CardinalityType
<1>3. QED
  BY <1>1, <1>2, SyncAssumption DEF SyncAssumption

\* What an item's step leaves under way.
LEMMA ItemStepUnderWay ==
  ASSUME SyncTypes, SyncTypes', SyncKept, NEW r \in Runs, NEW p \in Paths, ItemStep(r, p),
         \A q \in Runs : BoundsOK(q)
  PROVE  \A q \in Runs : IsFiniteSet(InFlight(q)') /\ Cardinality(InFlight(q)') <= Width
<1>1. \A q \in Runs, o \in Paths : q # r \/ o # p => item'[q][o] = item[q][o]
  <2> DEFINE Elsewhere == \A q \in Runs, o \in Paths : q # r \/ o # p => item'[q][o] = item[q][o]
  <2>1. ASSUME NEW at, Settle(r, p, at) PROVE Elsewhere
    BY <2>1 DEF Settle, SyncTypes
  <2>2. CASE Prepare(r, p)
    BY <2>1, <2>2 DEF Prepare, Fails, SyncTypes
  <2>3. CASE LookBefore(r, p)
    BY <2>1, <2>3 DEF LookBefore, Fails, SyncTypes
  <2>4. CASE Upload(r, p)
    BY <2>1, <2>4 DEF Upload, Fails, ItemTo, SyncTypes
  <2>5. CASE LookAbsent(r, p)
    BY <2>1, <2>5 DEF LookAbsent, SyncTypes
  <2>6. CASE RecordUpload(r, p) \/ SendDelete(r, p) \/ DropItem(r, p)
    BY <2>1, <2>6 DEF RecordUpload, SendDelete, DropItem, Fails
  <2>7. QED
    BY <2>2, <2>3, <2>4, <2>5, <2>6 DEF ItemStep
<1>2. \A q \in Runs \ {r} : InFlight(q)' = InFlight(q)
  BY <1>1 DEF InFlight
<1>3. InFlight(r)' \subseteq InFlight(r) \cup {p}
  BY <1>1 DEF InFlight
<1>4. Cardinality(InFlight(r)) < Width \/ p \in InFlight(r)
  BY DEF ItemStep, Prepare, LookBefore, Upload, RecordUpload, LookAbsent, SendDelete, DropItem,
         Starts, Working, InFlight, UnderWay
<1>5. IsFiniteSet(InFlight(r)') /\ Cardinality(InFlight(r)') <= Width
  BY <1>3, <1>4, FewerUnderWay, OneMoreUnderWay
<1>6. QED
  BY <1>2, <1>5, FewerUnderWay

\* Of a run whose items end or stay.
LEMMA OthersUnderWay ==
  ASSUME \A r \in Runs : BoundsOK(r),
         \A r \in Runs, p \in Paths : item'[r][p].at \in UnderWay => item[r][p].at \in UnderWay
  PROVE  \A r \in Runs : IsFiniteSet(InFlight(r)') /\ Cardinality(InFlight(r)') <= Width
<1>1. \A r \in Runs : InFlight(r)' \subseteq InFlight(r)
  BY DEF InFlight
<1>2. QED
  BY <1>1, FewerUnderWay

LEMMA ItemsStayUnderWay ==
  ASSUME SyncTypes, [SyncNext]_syncVars,
         \A r \in Runs, p \in Paths : ~ItemStep(r, p)
  PROVE  \A r \in Runs, p \in Paths : item'[r][p].at \in UnderWay => item[r][p].at \in UnderWay
<1>1. ASSUME NEW q \in Runs, NEW o \in Paths, NEW at \in {"failed", "done"}, Settle(q, o, at)
      PROVE  \A r \in Runs, p \in Paths : item'[r][p].at \in UnderWay => item[r][p].at \in UnderWay
  <2>1. at \in ItemStages /\ at \notin UnderWay
    BY DEF ItemStages, UnderWay
  <2>2. QED
    BY <1>1, <2>1, SettledElsewhere
<1>2. CASE UNCHANGED item
  BY <1>2
<1>3. CASE OutsideStep
  BY <1>1, <1>2, <1>3
  DEF OutsideStep, RootGoes, EditFile, GiveUpCreating, RetryFinalize, Cancel, ForceCancel,
      LoseAnswer, Fails, clientVars
<1>4. ASSUME NEW q \in Runs, StoreStep(q)
      PROVE  \A r \in Runs, p \in Paths : item'[r][p].at \in UnderWay => item[r][p].at \in UnderWay
  <2>1. ASSUME NEW x \in writes, Handle(x)
        PROVE  \/ UNCHANGED item
               \/ Settle(x.run, x.path, "done") \/ Settle(x.run, x.path, "failed")
    BY <2>1 DEF Handle, Lands, Refused, Answer
  <2>2. \A x \in writes : x.run \in Runs /\ x.path \in Paths
    BY DEF SyncTypes, WriteTypes
  <2>3. QED
    BY <1>1, <1>2, <1>4, <2>1, <2>2 DEF StoreStep, CreateArrives, FinalizeArrives, RequestArrives
<1>5. ASSUME NEW q \in Runs, ClientStep(q)
      PROVE  \A r \in Runs, p \in Paths : item'[r][p].at \in UnderWay => item[r][p].at \in UnderWay
  <2>1. CASE PlanSync(q)
    <3>1. item' = [item EXCEPT ![q] = [o \in Paths |->
                      IF Planned(q, o)
                      THEN [NoItem EXCEPT !.at = "queued", !.time = files[o].time]
                      ELSE NoItem]]
      BY <2>1 DEF PlanSync
    <3>2. /\ \A o \in Paths :
                [NoItem EXCEPT !.at = "queued", !.time = files[o].time].at \notin UnderWay
          /\ NoItem.at \notin UnderWay
      BY DEF NoItem, UnderWay
    <3>3. QED
      BY <3>1, <3>2 DEF SyncTypes
  <2>2. QED
    BY <1>2, <1>5, <2>1 DEF ClientStep, Stop, FetchSnapshot, SendCreate, QueueEnds, Finalize
<1>6. CASE UNCHANGED syncVars
  BY <1>2, <1>6 DEF syncVars, clientVars
<1>7. QED
  BY <1>3, <1>4, <1>5, <1>6 DEF SyncNext

LEMMA StepUnderWay ==
  ASSUME SyncTypes, SyncTypes', SyncKept, SyncBounded, [SyncNext]_syncVars
  PROVE  \A r \in Runs : IsFiniteSet(InFlight(r)') /\ Cardinality(InFlight(r)') <= Width
<1>1. \A r \in Runs : BoundsOK(r)
  BY DEF SyncBounded
<1>2. CASE \E r \in Runs, p \in Paths : ItemStep(r, p)
  BY <1>1, <1>2, ItemStepUnderWay
<1>3. CASE ~\E r \in Runs, p \in Paths : ItemStep(r, p)
  BY <1>1, <1>3, ItemsStayUnderWay, OthersUnderWay
<1>4. QED
  BY <1>2, <1>3

\* The attempts of a finalize.
AttemptsOK(r) == client[r].attempt <= Attempts /\ finals[r] <= client[r].attempt

LEMMA TryAgainBounded ==
  ASSUME SyncTypes, NEW r \in Runs, AttemptsOK(r), NEW n \in Nat, n <= finals[r], TryAgain(r, n)
  PROVE  \A q \in Runs : AttemptsOK(q) => AttemptsOK(q)'
<1>1. client[r] \in ClientTypes /\ finals[r] \in Nat /\ Attempts \in Nat
  BY SyncAssumption DEF SyncTypes, SyncAssumption
<1>2. client[r].attempt \in Nat
  BY <1>1 DEF ClientTypes
<1>3. CASE client[r].attempt < Attempts
  <2>1. /\ client' = [client EXCEPT ![r].attempt = @ + 1]
        /\ finals' = [finals EXCEPT ![r] = n + 1]
    BY <1>3 DEF TryAgain
  <2>2. /\ client'[r].attempt = client[r].attempt + 1 /\ finals'[r] = n + 1
        /\ \A q \in Runs \ {r} : client'[q] = client[q] /\ finals'[q] = finals[q]
    BY <1>1, <2>1 DEF SyncTypes, ClientTypes
  <2>3. QED
    BY <1>1, <1>2, <1>3, <2>2 DEF AttemptsOK
<1>4. CASE ~(client[r].attempt < Attempts)
  <2>1. ClientTo(r, "unfinalized") /\ finals' = [finals EXCEPT ![r] = n]
    BY <1>4 DEF TryAgain
  <2>2. /\ client'[r].attempt = client[r].attempt /\ finals'[r] = n
        /\ \A q \in Runs \ {r} : client'[q] = client[q] /\ finals'[q] = finals[q]
    BY <1>1, <2>1 DEF SyncTypes, ClientTypes, ClientTo
  <2>3. QED
    BY <1>1, <1>2, <2>2 DEF AttemptsOK
<1>5. QED
  BY <1>3, <1>4

\* What leaves the attempts alone, and no more finalizes on their way.
LEMMA AttemptsStay ==
  ASSUME SyncTypes, NEW q \in Runs, AttemptsOK(q), client'[q].attempt = client[q].attempt,
         finals'[q] \in Nat, finals'[q] <= finals[q]
  PROVE  AttemptsOK(q)'
BY SyncAssumption DEF SyncTypes, SyncAssumption, ClientTypes, AttemptsOK

LEMMA ClientToAttempts ==
  ASSUME SyncTypes, NEW r \in Runs, NEW at, ClientTo(r, at)
  PROVE  \A q \in Runs : client'[q].attempt = client[q].attempt
BY DEF SyncTypes, ClientTypes, ClientTo

LEMMA StepAttempts ==
  ASSUME SyncTypes, SyncTypes', SyncKept, \A r \in Runs : AttemptsOK(r), [SyncNext]_syncVars
  PROVE  \A r \in Runs : AttemptsOK(r)'
<1>0. /\ \A r \in Runs : finals[r] \in Nat /\ finals'[r] \in Nat
      /\ \A r \in Runs : client[r] \in ClientTypes
  BY DEF SyncTypes
<1>1. ASSUME \A q \in Runs : client'[q].attempt = client[q].attempt, finals' = finals
      PROVE  \A r \in Runs : AttemptsOK(r)'
  BY <1>0, <1>1, AttemptsStay
<1>2. CASE OutsideStep
  <2>1. ASSUME NEW r \in Runs, Cancel(r) PROVE \A q \in Runs : AttemptsOK(q)'
    <3>1. \A q \in Runs : client'[q].attempt = client[q].attempt
      BY <1>0, <2>1 DEF Cancel, SyncTypes, ClientTypes
    <3>2. QED
      BY <1>1, <2>1, <3>1 DEF Cancel
  <2>2. ASSUME NEW r \in Runs, RetryFinalize(r) PROVE \A q \in Runs : AttemptsOK(q)'
    BY <1>0, <2>2, TryAgainBounded DEF RetryFinalize
  <2>3. ASSUME NEW r \in Runs, GiveUpCreating(r) PROVE \A q \in Runs : AttemptsOK(q)'
    BY <1>1, <2>3, ClientToAttempts DEF GiveUpCreating
  <2>4. QED
    BY <1>1, <1>2, <2>1, <2>2, <2>3
    DEF OutsideStep, RootGoes, EditFile, ForceCancel, LoseAnswer, clientVars
<1>3. ASSUME NEW q \in Runs, StoreStep(q) PROVE \A r \in Runs : AttemptsOK(r)'
  <2>1. CASE CreateArrives(q)
    <3>1. \A r \in Runs : client'[r].attempt = client[r].attempt
      BY ZenonT(60), <1>0, <2>1 DEF CreateArrives, SyncTypes, ClientTypes
    <3>2. QED
      BY <1>1, <2>1, <3>1 DEF CreateArrives
  <2>2. CASE FinalizeArrives(q)
    <3>1. finals[q] > 0 /\ finals[q] - 1 \in Nat /\ finals[q] - 1 <= finals[q]
      BY <1>0, <2>2 DEF FinalizeArrives
    <3>2. CASE TryAgain(q, finals[q] - 1)
      BY <3>1, <3>2, TryAgainBounded
    <3>3. CASE /\ client' = client \/ ClientTo(q, "ended")
               /\ finals' = [finals EXCEPT ![q] = finals[q] - 1]
      <4>1. \A r \in Runs : client'[r].attempt = client[r].attempt
        BY <3>3, ClientToAttempts
      <4>2. \A r \in Runs : finals'[r] <= finals[r]
        BY <1>0, <3>1, <3>3 DEF SyncTypes
      <4>3. QED
        BY <1>0, <4>1, <4>2, AttemptsStay
    <3>4. QED
      BY <2>2, <3>2, <3>3 DEF FinalizeArrives
  <2>3. QED
    BY <1>1, <1>3, <2>1, <2>2 DEF StoreStep, RequestArrives, Handle
<1>4. ASSUME NEW q \in Runs, ClientStep(q) PROVE \A r \in Runs : AttemptsOK(r)'
  <2>1. CASE QueueEnds(q)
    <3>1. ~(finals[q] > 0) /\ finals[q] = 0
      BY <1>0, <2>1 DEF QueueEnds, SyncKept, ClientOK, Closed
    <3>2. /\ client' = [client EXCEPT ![q].at = "finalizing", ![q].status = Outcome(q),
                                      ![q].attempt = 1]
          /\ finals' = [finals EXCEPT ![q] = @ + 1]
      BY <2>1 DEF QueueEnds, Finalize
    <3>3. /\ client'[q].attempt = 1 /\ finals'[q] = 1
          /\ \A r \in Runs \ {q} : client'[r] = client[r] /\ finals'[r] = finals[r]
      BY <1>0, <3>1, <3>2 DEF SyncTypes, ClientTypes
    <3>4. AttemptsOK(q)'
      BY <3>3, SyncAssumption DEF AttemptsOK, SyncAssumption
    <3>5. \A r \in Runs \ {q} : AttemptsOK(r)'
      BY <3>3 DEF AttemptsOK
    <3>6. QED
      BY <3>4, <3>5
  <2>2. CASE Stop(q) \/ FetchSnapshot(q) \/ SendCreate(q) \/ PlanSync(q)
    <3>1. finals' = finals /\ \E at : ClientTo(q, at)
      BY <2>2 DEF Stop, FetchSnapshot, SendCreate, PlanSync
    <3>2. QED
      BY <1>1, <3>1, ClientToAttempts
  <2>3. ASSUME NEW p \in Paths, ItemStep(q, p) PROVE \A r \in Runs : AttemptsOK(r)'
    <3>1. finals' = finals /\ (client' = client \/ client' = [client EXCEPT ![q].rootGone = TRUE])
      BY <2>3
      DEF ItemStep, Prepare, LookBefore, Upload, RecordUpload, LookAbsent, SendDelete, DropItem
    <3>2. \A r \in Runs : client'[r].attempt = client[r].attempt
      BY <1>0, <3>1 DEF SyncTypes, ClientTypes
    <3>3. QED
      BY <1>1, <3>1, <3>2
  <2>4. QED
    BY <1>4, <2>1, <2>2, <2>3 DEF ClientStep
<1>5. CASE UNCHANGED syncVars
  BY <1>1, <1>5 DEF syncVars, clientVars
<1>6. QED
  BY <1>2, <1>3, <1>4, <1>5 DEF SyncNext

\* The model's own bounds, and what the store says has landed.
LEMMA StepCounts ==
  ASSUME SyncTypes, SyncBounded, [SyncNext]_syncVars
  PROVE  edits' <= MaxEdits /\ lost' \in 0 .. MaxLost /\ landed' \subseteq Runs \X Paths
<1>0. edits \in Nat /\ edits <= MaxEdits /\ lost \in 0 .. MaxLost /\ MaxEdits \in Nat
      /\ MaxLost \in Nat /\ landed \subseteq Runs \X Paths
  BY SyncAssumption DEF SyncTypes, SyncBounded, SyncAssumption
<1>1. edits' <= MaxEdits
  <2> DEFINE Moves == edits' = edits \/ (edits < MaxEdits /\ edits' = edits + 1)
  <2>1. ASSUME OutsideStep PROVE Moves
    BY <2>1
    DEF OutsideStep, RootGoes, EditFile, GiveUpCreating, RetryFinalize, Cancel, ForceCancel,
        LoseAnswer, folderVars, clientVars
  <2>2. ASSUME NEW r \in Runs, ClientStep(r) PROVE Moves
    <3>1. CASE Stop(r) \/ FetchSnapshot(r) \/ PlanSync(r) \/ SendCreate(r) \/ QueueEnds(r)
      BY <3>1
      DEF Stop, FetchSnapshot, PlanSync, SendCreate, QueueEnds, Finalize, folderVars, clientVars
    <3>2. ASSUME NEW p \in Paths, ItemStep(r, p) PROVE Moves
      BY <3>2
      DEF ItemStep, Prepare, LookBefore, Upload, RecordUpload, LookAbsent, SendDelete, DropItem,
          folderVars, clientVars
    <3>3. QED
      BY <2>2, <3>1, <3>2 DEF ClientStep
  <2>3. ASSUME NEW r \in Runs, StoreStep(r) PROVE Moves
    <3>1. CASE CreateArrives(r) \/ FinalizeArrives(r)
      BY <3>1 DEF CreateArrives, FinalizeArrives, folderVars
    <3>2. ASSUME NEW q \in wire, RequestArrives(q) PROVE Moves
      BY <3>2 DEF RequestArrives, folderVars
    <3>3. ASSUME NEW x \in writes, Handle(x) PROVE Moves
      BY <3>3 DEF Handle, Lands, Refused, folderVars
    <3>4. QED
      BY <2>3, <3>1, <3>2, <3>3 DEF StoreStep
  <2>4. ASSUME UNCHANGED syncVars PROVE Moves
    BY <2>4 DEF syncVars, folderVars, clientVars
  <2>5. Moves
    BY <2>1, <2>2, <2>3, <2>4 DEF SyncNext
  <2>6. QED
    BY <1>0, <2>5
<1>2. lost' \in 0 .. MaxLost
  <2> DEFINE Moves == lost' = lost \/ Lose
  <2>1. ASSUME OutsideStep PROVE Moves
    BY <2>1
    DEF OutsideStep, RootGoes, EditFile, GiveUpCreating, RetryFinalize, Cancel, ForceCancel,
        LoseAnswer, folderVars, clientVars
  <2>2. ASSUME NEW r \in Runs, ClientStep(r) PROVE Moves
    <3>1. CASE Stop(r) \/ FetchSnapshot(r) \/ PlanSync(r) \/ SendCreate(r) \/ QueueEnds(r)
      BY <3>1
      DEF Stop, FetchSnapshot, PlanSync, SendCreate, QueueEnds, Finalize, folderVars, clientVars
    <3>2. ASSUME NEW p \in Paths, ItemStep(r, p) PROVE Moves
      BY <3>2
      DEF ItemStep, Prepare, LookBefore, Upload, RecordUpload, LookAbsent, SendDelete, DropItem,
          folderVars, clientVars
    <3>3. QED
      BY <2>2, <3>1, <3>2 DEF ClientStep
  <2>3. ASSUME NEW r \in Runs, StoreStep(r) PROVE Moves
    <3>1. CASE CreateArrives(r) \/ FinalizeArrives(r)
      BY <3>1 DEF CreateArrives, FinalizeArrives, folderVars
    <3>2. ASSUME NEW q \in wire, RequestArrives(q) PROVE Moves
      BY <3>2 DEF RequestArrives, folderVars
    <3>3. ASSUME NEW x \in writes, Handle(x) PROVE Moves
      BY <3>3 DEF Handle, Lands, Refused, folderVars
    <3>4. QED
      BY <2>3, <3>1, <3>2, <3>3 DEF StoreStep
  <2>4. ASSUME UNCHANGED syncVars PROVE Moves
    BY <2>4 DEF syncVars, folderVars, clientVars
  <2>5. Moves
    BY <2>1, <2>2, <2>3, <2>4 DEF SyncNext
  <2>6. QED
    BY <1>0, <2>5 DEF Lose
<1>3. landed' \subseteq Runs \X Paths
  <2> DEFINE Moves == landed' = landed \/ \E x \in writes : landed' = landed \cup {<<x.run, x.path>>}
  <2>1. ASSUME OutsideStep PROVE Moves
    BY <2>1
    DEF OutsideStep, RootGoes, EditFile, GiveUpCreating, RetryFinalize, Cancel, ForceCancel,
        LoseAnswer, folderVars, clientVars
  <2>2. ASSUME NEW r \in Runs, ClientStep(r) PROVE Moves
    <3>1. CASE Stop(r) \/ FetchSnapshot(r) \/ PlanSync(r) \/ SendCreate(r) \/ QueueEnds(r)
      BY <3>1
      DEF Stop, FetchSnapshot, PlanSync, SendCreate, QueueEnds, Finalize, folderVars, clientVars
    <3>2. ASSUME NEW p \in Paths, ItemStep(r, p) PROVE Moves
      BY <3>2
      DEF ItemStep, Prepare, LookBefore, Upload, RecordUpload, LookAbsent, SendDelete, DropItem,
          folderVars, clientVars
    <3>3. QED
      BY <2>2, <3>1, <3>2 DEF ClientStep
  <2>3. ASSUME NEW r \in Runs, StoreStep(r) PROVE Moves
    <3>1. CASE CreateArrives(r) \/ FinalizeArrives(r)
      BY <3>1 DEF CreateArrives, FinalizeArrives, folderVars
    <3>2. ASSUME NEW q \in wire, RequestArrives(q) PROVE Moves
      BY <3>2 DEF RequestArrives, folderVars
    <3>3. ASSUME NEW x \in writes, Handle(x) PROVE Moves
      BY <3>3 DEF Handle, Lands, Refused, folderVars
    <3>4. QED
      BY <2>3, <3>1, <3>2, <3>3 DEF StoreStep
  <2>4. ASSUME UNCHANGED syncVars PROVE Moves
    BY <2>4 DEF syncVars, folderVars, clientVars
  <2>5. Moves
    BY <2>1, <2>2, <2>3, <2>4 DEF SyncNext
  <2>6. \A x \in writes : x.run \in Runs /\ x.path \in Paths
    BY DEF SyncTypes, WriteTypes
  <2>7. QED
    BY <1>0, <2>5, <2>6
<1>4. QED
  BY <1>1, <1>2, <1>3

LEMMA SyncBoundedStep ==
  ASSUME SyncTypes, SyncTypes', SyncKept, SyncBounded, [SyncNext]_syncVars
  PROVE  SyncBounded'
<1>1. \A r \in Runs : AttemptsOK(r)
  BY DEF SyncBounded, BoundsOK, AttemptsOK
<1>2. \A r \in Runs : AttemptsOK(r)'
  BY <1>1, StepAttempts
<1>3. QED
  BY <1>2, StepUnderWay, StepCounts DEF SyncBounded, BoundsOK, AttemptsOK

(***************************************************************************)
(* The type invariant, with what no step of a client may pass: the items   *)
(* under way stay within the width (push.rs:384, prune.rs:204),    *)
(* and the finalizes that were sent, arrived or not, within the attempts   *)
(* (FINALIZE_RETRY_DELAYS, api.rs:230).                                    *)
(***************************************************************************)
THEOREM SyncTypesAlways == SyncSpec => []SyncTypeOK
<1>1. SyncInit /\ StoreInit => SyncTypes /\ SyncKept /\ SyncBounded
  BY SyncTypesInit, SyncKeptInit, SyncBoundedInit
<1>2. SyncTypes /\ SyncKept /\ SyncBounded /\ [SyncNext]_syncVars
        => (SyncTypes /\ SyncKept /\ SyncBounded)'
  BY SyncStepKeeps, SyncBoundedStep
<1>3. SyncTypes /\ SyncKept /\ SyncBounded => SyncTypeOK
  <2> SUFFICES ASSUME SyncTypes, SyncBounded
               PROVE  SyncTypeOK
    OBVIOUS
  <2>1. ASSUME NEW r \in Runs
        PROVE  /\ client[r].status \in {"none"} \cup Terminal /\ client[r].attempt \in 0 .. Attempts
               /\ Cardinality(InFlight(r)) <= Width /\ finals[r] \in 0 .. Attempts
    BY SyncAssumption DEF SyncAssumption, SyncTypes, ClientTypes, SyncBounded, BoundsOK
  <2>2. QED
    BY <2>1, SyncAssumption
    DEF SyncAssumption, SyncTypes, SyncBounded, SyncTypeOK
<1>4. QED
  BY <1>1, <1>2, <1>3, PTL DEF SyncSpec
=============================================================================
