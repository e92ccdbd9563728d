----------------------------- MODULE GatherQueue -----------------------------
(***************************************************************************)
(* Gather Box's queue of runs: the coordinator in the extension's service  *)
(* worker (gather-run-coordinator.ts over gather-queue.ts) and the         *)
(* offscreen document that executes one run at a time and reports on it    *)
(* (execution-slot.ts, run-event-emitter.ts, offscreen/index.ts,           *)
(* executor.ts).                                                           *)
(*                                                                         *)
(* Every call of the coordinator is a chain of `exclusive` sections with   *)
(* awaits between them: a task is what is left of a call at one of those   *)
(* awaits, and an action is one section, or one message handled in the     *)
(* document.  The worker ends with all its tasks; the queue is in storage  *)
(* and the document lives on.  All pages are of one site.                  *)
(***************************************************************************)
EXTENDS Naturals, Sequences, FiniteSets, SequencesExt

CONSTANTS
    Pages,        \* urls of tabs
    Profiles,     \* profile ids
    DefaultProfile, \* DEFAULT_PROFILE_ID, which cannot be removed
    Asked,        \* Asked[k]: the <<page, profile>> the k-th gather or retry may be of
    MaxQueue,     \* MAX_GATHER_QUEUE_LENGTH
    MaxResults,   \* MAX_GATHER_QUEUE_RESULTS
    MaxUpsets     \* bounds the cancels, deletions, failed calls, and ends of the worker,
                  \* the document or the browser, together

ASSUME QueueAssumption ==
    /\ DefaultProfile \in Profiles /\ Asked \in Seq(SUBSET (Pages \X Profiles))
    /\ {MaxQueue, MaxResults} \subseteq Nat \ {0}
    /\ MaxUpsets \in Nat

VARIABLES
    jobs,       \* queue.jobs: [run, page, profile, phase], oldest first
    results,    \* queue.results: [run, page, phase, retry], oldest first
    profiles,   \* the profiles that exist
    tasks,      \* what the worker is in the middle of
    slot,       \* the run that executes: [run, stage, aborted]
    reports,    \* the held reports not acknowledged yet: [run, event, sent]
    asks, cancels, faults,
    lost,       \* a worker or document ended with work nothing else will take up
    early       \* a job was claimed between the browser's start and its recovery

vars == <<jobs, results, profiles, tasks, slot, reports, asks, cancels, faults, lost, early>>
people == <<asks, cancels>>
past   == <<lost, early>>

Ids       == DOMAIN Asked
Executing == {"preparing", "writing", "cancelling", "permission-required"}
Outcome   == [complete |-> "complete", partial |-> "failed", failed |-> "failed",
              cancelled |-> "cancelled", interrupted |-> "interrupted"]
Terminal  == {"complete", "partial", "failed", "cancelled"}
Pause     == "permission-required"
Idle      == [run |-> 0, stage |-> "idle", aborted |-> FALSE]

Upsets == cancels + faults + Cardinality(Profiles \ profiles)

Listed(r)  == \E i \in DOMAIN jobs : jobs[i].run = r
JobOf(r)   == CHOOSE j \in ToSet(jobs) : j.run = r
IsBusy(q)  == \E i \in DOMAIN q : q[i].phase \in Executing
WithPhase(q, r, phase) ==
    [i \in DOMAIN q |-> IF q[i].run = r THEN [q[i] EXCEPT !.phase = phase] ELSE q[i]]

\* What a filter leaves of q: the places K, in their order.  (SelectSeq, into which no prover looks.)
Kept(q, K) ==
    LET upTo[n \in 0 .. Len(q)] == IF n = 0 THEN <<>>
                                   ELSE IF n \in K THEN Append(upTo[n - 1], q[n]) ELSE upTo[n - 1]
    IN  upTo[Len(q)]

Without(q, r) == Kept(q, {i \in DOMAIN q : q[i].run # r})

\* trimGatherQueueResults: the latest in full, an older one while it can be retried.
Trim(rs) ==
    LET kept == Kept(rs, {i \in DOMAIN rs : i + MaxResults > Len(rs) \/ rs[i].retry})
    IN  IF Len(kept) > MaxQueue THEN SubSeq(kept, Len(kept) - MaxQueue + 1, Len(kept)) ELSE kept

\* recordGatherQueueResult, for a run that ended with the event e.
Recorded(rs, j, e) ==
    Trim(Append(Without(rs, j.run),
                [run |-> j.run, page |-> j.page, phase |-> Outcome[e], retry |-> e = "partial"]))

\* For a mutant: recorded, and still in the queue.
RecordOnly(r, e) ==
    /\ jobs' = WithPhase(jobs, r, "queued")
    /\ results' = Recorded(results, JobOf(r), e)

RecordAndRemove(r, e) ==
    /\ jobs' = Without(jobs, r)
    /\ results' = Recorded(results, JobOf(r), e)

\* Several ended at once, each as its phase says, recorded in the queue's order.
RecordAll(ended, eventOf) ==
    LET after[n \in 0 .. Len(ended)] ==
          IF n = 0 THEN results ELSE Recorded(after[n - 1], ended[n], eventOf[ended[n].phase])
    IN  after[Len(ended)]

\* A dispatchNext() at its next turn of the loop, called at the end of the run r;
\* acks when a report to acknowledge waits for it.
Dispatch(r, acks) == [kind |-> "dispatch", of |-> r, acks |-> acks]
Became(t, next)   == tasks' = (tasks \ {t}) \cup next

\* The reports after the answer { accepted: true } to the one of r, when its sender waits.
AfterAck(r, acks) == {x \in reports : ~(acks /\ x.run = r)}

\* The task t when the document no longer waits for its answer.
Unawaited(t) == IF "acks" \in DOMAIN t THEN [t EXCEPT !.acks = FALSE] ELSE t

-----------------------------------------------------------------------------
(* What people ask for *)

\* startForTab, up to the profile it resolves.
Gather(page, p) ==
    /\ asks < Len(Asked)
    /\ p \in profiles /\ <<page, p>> \in Asked[asks + 1]
    /\ asks' = asks + 1
    /\ tasks' = tasks \cup {[kind |-> "reserve", run |-> asks + 1, page |-> page, profile |-> p]}
    /\ UNCHANGED <<jobs, results, profiles, slot, reports, cancels, faults, past>>

\* reserve: also resumes the paused job of the same folder.
Reserve(t) ==
    LET waits  == {i \in DOMAIN jobs : jobs[i].phase = Pause /\ jobs[i].profile = t.profile}
        paused == {i \in waits : \A k \in waits : i <= k}
        queue  == [i \in DOMAIN jobs |->
                     IF i \in paused THEN [jobs[i] EXCEPT !.phase = "queued"] ELSE jobs[i]]
        known  == \E i \in DOMAIN jobs : jobs[i].page = t.page
        full   == Len(jobs) >= MaxQueue
        collects == ~known /\ ~full
    IN  /\ t.kind = "reserve"
        /\ jobs' = IF collects
                   THEN Append(queue, [run |-> t.run, page |-> t.page, profile |-> t.profile,
                                       phase |-> "collecting"])
                   ELSE queue
        /\ Became(t, {x \in {[kind |-> "collect", run |-> t.run, profile |-> t.profile]} : collects}
                       \cup {x \in {Dispatch(t.run, FALSE)} : known \/ paused # {}})
        /\ UNCHANGED <<results, profiles, slot, reports, people, faults, past>>

\* retry: the result is read in one section and withdrawn in another.
AskRetry(i, p) ==
    /\ asks < Len(Asked)
    /\ p \in profiles /\ <<results[i].page, p>> \in Asked[asks + 1]
    /\ results[i].retry
    /\ \A k \in DOMAIN results : k > i => ~results[k].retry
    /\ asks' = asks + 1
    /\ tasks' = tasks \cup {[kind |-> "retry", run |-> asks + 1, of |-> results[i].run,
                             page |-> results[i].page, profile |-> p]}
    /\ UNCHANGED <<jobs, results, profiles, slot, reports, cancels, faults, past>>

Retry(t) ==
    /\ t.kind = "retry"
    /\ IF Len(jobs) >= MaxQueue
       THEN /\ Became(t, {})
            /\ UNCHANGED <<jobs, results>>
       ELSE /\ jobs' = Append(jobs, [run |-> t.run, page |-> t.page, profile |-> t.profile,
                                     phase |-> "queued"])
            /\ results' = Without(results, t.of)
            /\ Became(t, {Dispatch(t.run, FALSE)})
    /\ UNCHANGED <<profiles, slot, reports, people, faults, past>>

\* recordHandedBackFile: the last failed file of a run was given by hand.
HandBack(i) ==
    /\ results[i].retry
    /\ results' = [results EXCEPT ![i].phase = "complete", ![i].retry = FALSE]
    /\ UNCHANGED <<jobs, profiles, tasks, slot, reports, people, faults, past>>

\* cancel, its first section.
Cancel(r) ==
    /\ Upsets < MaxUpsets
    /\ Listed(r)
    /\ cancels' = cancels + 1
    /\ IF JobOf(r).phase \in {"preparing", "writing", "cancelling"}
       THEN /\ jobs' = WithPhase(jobs, r, "cancelling")
            /\ tasks' = tasks \cup {[kind |-> "abort", run |-> r]}
            /\ UNCHANGED results
       ELSE /\ RecordAndRemove(r, "cancelled")
            /\ tasks' = tasks \cup {Dispatch(r, FALSE)}
    /\ UNCHANGED <<profiles, slot, reports, asks, faults, past>>

\* The abort message, and the worker's own report when the document has no such run.
Abort(t) ==
    /\ t.kind = "abort"
    /\ IF slot.run = t.run
       THEN /\ slot' = [slot EXCEPT !.aborted = TRUE]
            /\ Became(t, {})
       ELSE /\ Became(t, {[kind |-> "handle", run |-> t.run, event |-> "cancelled",
                           known |-> profiles, acks |-> FALSE]})
            /\ UNCHANGED slot
    /\ UNCHANGED <<jobs, results, profiles, reports, people, faults, past>>

DeleteProfile(p) ==
    /\ Upsets < MaxUpsets
    /\ p \in profiles \ {DefaultProfile}
    /\ profiles' = profiles \ {p}
    /\ tasks' = tasks \cup {[kind |-> "purge", always |-> FALSE]}
    /\ UNCHANGED <<jobs, results, slot, reports, people, faults, past>>

-----------------------------------------------------------------------------
(* The calls' later sections *)

\* finishCollection: the page's metadata arrived.
Collected(t) ==
    LET waits == Listed(t.run) /\ JobOf(t.run).phase = "collecting"
    IN  /\ t.kind = "collect"
        /\ IF ~waits
           THEN /\ Became(t, {})
                /\ UNCHANGED jobs
           ELSE IF t.profile \in profiles
                THEN /\ jobs' = WithPhase(jobs, t.run, "queued")
                     /\ Became(t, {Dispatch(t.run, FALSE)})
                ELSE /\ Became(t, {[kind |-> "uncollected", run |-> t.run]})
                     /\ UNCHANGED jobs
        /\ UNCHANGED <<results, profiles, slot, reports, people, faults, past>>

\* The tab is gone, navigated, or its collector answered with an error.
CollectFails(t) ==
    /\ Upsets < MaxUpsets
    /\ t.kind = "collect"
    /\ faults' = faults + 1
    /\ Became(t, {[kind |-> "uncollected", run |-> t.run]})
    /\ UNCHANGED <<jobs, results, profiles, slot, reports, people, past>>

\* For a mutant: whether the run is still in the queue or not.
RecordFailureAnyway(t) ==
    /\ jobs' = Without(jobs, t.run)
    /\ results' = Trim(Append(Without(results, t.run),
                     [run |-> t.run, page |-> CHOOSE p \in Pages : TRUE,
                      phase |-> "failed", retry |-> FALSE]))

\* Recording a failure that the queue is told of by the worker itself: only of a run still in it.
RecordFailure(t) ==
    IF Listed(t.run) THEN RecordAndRemove(t.run, "failed") ELSE UNCHANGED <<jobs, results>>

Uncollected(t) ==
    /\ t.kind = "uncollected"
    /\ RecordFailure(t)
    /\ Became(t, {Dispatch(t.run, FALSE)})
    /\ UNCHANGED <<profiles, slot, reports, people, faults, past>>

\* getNextQueuedGatherJob: the first job, when it is queued and none executes.
NextQueued(q) == {i \in DOMAIN q : i = 1 /\ q[i].phase = "queued" /\ ~IsBusy(q)}

\* dispatchNext, the section that claims.
Claim(t) ==
    /\ t.kind = "dispatch"
    /\ IF NextQueued(jobs) = {}
       THEN /\ Became(t, {})
            /\ reports' = AfterAck(t.of, t.acks)
            /\ UNCHANGED <<jobs, early>>
       ELSE \E i \in NextQueued(jobs) :
            /\ jobs' = [jobs EXCEPT ![i].phase = "preparing"]
            /\ Became(t, {[kind |-> "execute", run |-> jobs[i].run, of |-> t.of, acks |-> t.acks]})
            /\ early' = (early \/ \E u \in tasks : u.kind \in {"status", "recover"})
            /\ UNCHANGED reports
    /\ UNCHANGED <<results, profiles, slot, people, faults, lost>>

\* The execute message arrives: GatherExecutionSlot.start, and the dispatcher's return
\* when it is accepted.  A run that starts again stops its earlier report.
Execute(t) ==
    /\ t.kind = "execute"
    /\ CASE slot.run \notin {0, t.run} ->
              /\ Became(t, {[kind |-> "refused", run |-> t.run, of |-> t.of, acks |-> t.acks]})
              /\ UNCHANGED <<slot, reports>>
         [] slot.run = t.run ->
              /\ Became(t, {})
              /\ reports' = AfterAck(t.of, t.acks)
              /\ UNCHANGED slot
         [] slot.run = 0 ->
              /\ slot' = [run |-> t.run, stage |-> "opening", aborted |-> FALSE]
              /\ reports' = {x \in AfterAck(t.of, t.acks) : x.run # t.run}
              /\ tasks' = {IF u.kind = "handle" /\ u.run = t.run THEN Unawaited(u) ELSE u :
                              u \in tasks \ {t}}
    /\ UNCHANGED <<jobs, results, profiles, people, faults, past>>

\* The document could not be opened.
ExecuteFails(t) ==
    /\ Upsets < MaxUpsets
    /\ t.kind = "execute"
    /\ slot.run = 0
    /\ faults' = faults + 1
    /\ Became(t, {[kind |-> "refused", run |-> t.run, of |-> t.of, acks |-> t.acks]})
    /\ UNCHANGED <<jobs, results, profiles, slot, reports, people, past>>

\* For a mutant: the dispatcher returns instead of taking the next job.
RefusedOnce(t) ==
    /\ t.kind = "refused"
    /\ RecordFailure(t)
    /\ Became(t, {})
    /\ reports' = AfterAck(t.of, t.acks)
    /\ UNCHANGED <<profiles, slot, people, faults, past>>

Refused(t) ==
    /\ t.kind = "refused"
    /\ RecordFailure(t)
    /\ Became(t, {Dispatch(t.of, t.acks)})
    /\ UNCHANGED <<profiles, slot, reports, people, faults, past>>

\* endDeletedProfileJobs and the recording of what it ended.
Purge(t) ==
    LET ends == {i \in DOMAIN jobs : /\ jobs[i].phase \in {"queued", Pause}
                                     /\ jobs[i].profile \notin profiles}
    IN  /\ t.kind = "purge"
        /\ jobs' = Kept(jobs, DOMAIN jobs \ ends)
        /\ results' = RecordAll(Kept(jobs, ends), [phase \in {"queued", Pause} |-> "failed"])
        /\ Became(t, {x \in {Dispatch(0, FALSE)} : t.always \/ ends # {}})
        /\ UNCHANGED <<profiles, slot, reports, people, faults, past>>

\* recover, at the browser's start: what the document executes, then the queue.
AskStatus(t) ==
    /\ t.kind = "status"
    /\ Became(t, {[kind |-> "recover", active |-> slot.run]})
    /\ UNCHANGED <<jobs, results, profiles, slot, reports, people, faults, past>>

Recover(t) ==
    LET ends == {i \in DOMAIN jobs : jobs[i].phase \in {"collecting", "cancelling"}}
        kept == Kept(jobs, DOMAIN jobs \ ends)
    IN  /\ t.kind = "recover"
        /\ IF Listed(t.active)
           THEN UNCHANGED <<jobs, results>>
           ELSE /\ jobs' = [i \in DOMAIN kept |->
                              IF kept[i].phase \in {"preparing", "writing"}
                              THEN [kept[i] EXCEPT !.phase = "queued"] ELSE kept[i]]
                /\ results' = RecordAll(Kept(jobs, ends), [collecting |-> "interrupted",
                                                             cancelling |-> "cancelled"])
        /\ Became(t, {[kind |-> "purge", always |-> TRUE]})
        /\ UNCHANGED <<profiles, slot, reports, people, faults, past>>

\* For a mutant: every report is taken.
TakesEveryReport(j, e) == FALSE

\* A cancellation is waited for: nothing but its report is taken of a run being cancelled.
DropsReport(j, e) == j.phase = "cancelling" /\ e # "cancelled"

\* A pause that comes after the job was restarted is stale.
StalePause(j, e) == e = Pause /\ j.phase # "preparing"

\* handleEvent, its section.  The profiles were read before it.
Handle(t) ==
    LET j       == JobOf(t.run)
        event   == IF t.event = Pause /\ j.profile \notin t.known THEN "failed" ELSE t.event
        takes   == /\ Listed(t.run)
                   /\ j.phase # "collecting"
                   /\ ~DropsReport(j, t.event)
                   /\ ~StalePause(j, t.event)
        ends    == takes /\ event \in Terminal
        redelivered == ~Listed(t.run) /\ t.event \in Terminal
    IN  /\ t.kind = "handle"
        /\ IF ends
           THEN RecordAndRemove(t.run, event)
           ELSE /\ jobs' = IF takes THEN WithPhase(jobs, t.run, event) ELSE jobs
                /\ UNCHANGED results
        /\ IF ends \/ redelivered
           THEN /\ Became(t, {Dispatch(t.run, t.acks)})
                /\ UNCHANGED <<slot, reports>>
           ELSE /\ Became(t, {})
                /\ slot' = IF t.acks /\ t.event = "writing"
                           THEN [slot EXCEPT !.stage = "working"] ELSE slot
                /\ reports' = IF t.event = "writing" THEN reports
                              ELSE AfterAck(t.run, t.acks)
        /\ UNCHANGED <<profiles, people, faults, past>>

-----------------------------------------------------------------------------
(* The offscreen document *)

\* The folder is opened, and the executor says it will write.
Announce ==
    /\ slot.stage = "opening"
    /\ slot' = [slot EXCEPT !.stage = "announcing"]
    /\ tasks' = tasks \cup {[kind |-> "handle", run |-> slot.run, event |-> "writing",
                             known |-> {}, acks |-> TRUE]}
    /\ UNCHANGED <<jobs, results, profiles, reports, people, faults, past>>

\* How an execution can end.  An abort is seen where the signal is checked; one that lands
\* behind the last check (executor.ts, the awaited lines of failed items) changes nothing.
Endings ==
    CASE slot.stage = "opening"    -> {"failed", "partial"} \cup
                                      {IF slot.aborted THEN "cancelled" ELSE Pause}
      [] slot.stage = "announcing" -> {IF slot.aborted THEN "cancelled" ELSE "failed"}
      [] slot.stage = "working"    -> {"complete", "partial"} \cup
                                      {IF slot.aborted THEN "cancelled" ELSE "failed"}
      [] OTHER -> {}

\* The announcement's message was lost with the worker.
AnnouncementLost ==
    ~\E t \in tasks : t.kind = "handle" /\ t.run = slot.run /\ t.event = "writing" /\ t.acks

\* For a mutant: the slot keeps the run that settled.
SettleUnreleased(event) ==
    /\ event \in Endings
    /\ slot.stage = "announcing" => AnnouncementLost
    /\ slot' = [slot EXCEPT !.stage = "idle"]
    /\ reports' = reports \cup {[run |-> slot.run, event |-> event, sent |-> FALSE]}
    /\ UNCHANGED <<jobs, results, profiles, tasks, people, faults, past>>

\* The execution settles: its slot is free first, then its report is flushed.
Settle(event) ==
    /\ event \in Endings
    /\ slot.stage = "announcing" => AnnouncementLost
    /\ slot' = Idle
    /\ reports' = reports \cup {[run |-> slot.run, event |-> event, sent |-> FALSE]}
    /\ UNCHANGED <<jobs, results, profiles, tasks, people, faults, past>>

\* deliverHeld, an attempt: the worker wakes, and reads the profiles first for a pause.
Deliver(x) ==
    /\ ~x.sent
    /\ reports' = (reports \ {x}) \cup {[x EXCEPT !.sent = TRUE]}
    /\ tasks' = tasks \cup {[kind |-> "handle", run |-> x.run, event |-> x.event,
                             known |-> IF x.event = Pause THEN profiles ELSE {}, acks |-> TRUE]}
    /\ UNCHANGED <<jobs, results, profiles, slot, people, faults, past>>

-----------------------------------------------------------------------------
(* What ends *)

\* What a lost task would have done is done again by a redelivered report, or by nobody.  The
\* pause that handleEvent turned into a failure does not dispatch when it is redelivered.
IsRedone(t) == \/ t.kind \in {"handle", "reserve", "retry", "abort"}
               \/ /\ t.kind = "dispatch" /\ t.acks
                  /\ \E x \in reports : x.run = t.of /\ x.event \in Terminal

\* The service worker ends; every report it did not answer is rejected.
WorkerEnds ==
    /\ Upsets < MaxUpsets
    /\ tasks # {}
    /\ faults' = faults + 1
    /\ tasks' = {}
    /\ reports' = {[x EXCEPT !.sent = FALSE] : x \in reports}
    /\ lost' = (lost \/ \E t \in tasks : ~IsRedone(t))
    /\ UNCHANGED <<jobs, results, profiles, slot, people, early>>

\* The document ends, with the run it executed and the reports it held.
DocumentEnds ==
    /\ Upsets < MaxUpsets
    /\ slot # Idle \/ reports # {}
    /\ faults' = faults + 1
    /\ slot' = Idle
    /\ reports' = {}
    /\ tasks' = {Unawaited(t) : t \in tasks}
    /\ lost' = TRUE
    /\ UNCHANGED <<jobs, results, profiles, people, early>>

\* The browser restarts, and starts the worker, which recovers.
Restart ==
    /\ Upsets < MaxUpsets
    /\ faults' = faults + 1
    /\ tasks' = {[kind |-> "status"]}
    /\ slot' = Idle
    /\ reports' = {}
    /\ lost' = FALSE
    /\ UNCHANGED <<jobs, results, profiles, people, early>>

-----------------------------------------------------------------------------
Init ==
    /\ jobs = <<>> /\ results = <<>>
    /\ profiles = Profiles
    /\ tasks = {} /\ slot = Idle /\ reports = {}
    /\ asks = 0 /\ cancels = 0 /\ faults = 0
    /\ lost = FALSE /\ early = FALSE

People ==
    \/ \E page \in Pages, profile \in Profiles : Gather(page, profile)
    \/ \E i \in DOMAIN results, profile \in Profiles : AskRetry(i, profile)
    \/ \E i \in DOMAIN results : HandBack(i)
    \/ \E i \in DOMAIN jobs : Cancel(jobs[i].run)
    \/ \E profile \in Profiles : DeleteProfile(profile)

Worker ==
    \E t \in tasks :
        \/ Reserve(t) \/ Retry(t) \/ Abort(t)
        \/ Collected(t) \/ Uncollected(t)
        \/ Claim(t) \/ Execute(t) \/ Refused(t)
        \/ Purge(t) \/ AskStatus(t) \/ Recover(t)
        \/ Handle(t)

Document ==
    \/ Announce
    \/ \E event \in Endings : Settle(event)
    \/ \E x \in reports : Deliver(x)

Faults ==
    \/ \E t \in tasks : CollectFails(t) \/ ExecuteFails(t)
    \/ WorkerEnds \/ DocumentEnds \/ Restart

Next == People \/ Worker \/ Document \/ Faults

\* Promises are continued, messages arrive, and an execution ends.
Spec == Init /\ [][Next]_vars /\ WF_vars(Worker) /\ WF_vars(Document)

-----------------------------------------------------------------------------
(* Properties *)

TaskTypes ==
    [kind : {"reserve"}, run : Ids, page : Pages, profile : Profiles]
    \cup [kind : {"retry"}, run : Ids, of : Ids, page : Pages, profile : Profiles]
    \cup [kind : {"collect"}, run : Ids, profile : Profiles]
    \cup [kind : {"uncollected", "abort"}, run : Ids]
    \cup [kind : {"dispatch"}, of : {0} \cup Ids, acks : BOOLEAN]
    \cup [kind : {"execute", "refused"}, run : Ids, of : {0} \cup Ids, acks : BOOLEAN]
    \cup [kind : {"handle"}, run : Ids, event : Terminal \cup {"writing", Pause},
          known : SUBSET Profiles, acks : BOOLEAN]
    \cup [kind : {"purge"}, always : BOOLEAN]
    \cup [kind : {"status"}]
    \cup [kind : {"recover"}, active : {0} \cup Ids]

\* The type invariant; a run is in one place of the queue only.
GatherTypeOK ==
    /\ jobs \in Seq([run : Ids, page : Pages, profile : Profiles,
                     phase : {"collecting", "queued"} \cup Executing])
    /\ results \in Seq([run : Ids, page : Pages, retry : BOOLEAN,
                        phase : {"complete", "failed", "cancelled", "interrupted"}])
    /\ Len(jobs) <= MaxQueue /\ Len(results) <= MaxQueue
    /\ IsInjective([i \in DOMAIN jobs |-> jobs[i].run])
    /\ IsInjective([i \in DOMAIN results |-> results[i].run])
    /\ \A i \in DOMAIN results : ~Listed(results[i].run)
    /\ profiles \subseteq Profiles /\ DefaultProfile \in profiles
    /\ tasks \subseteq TaskTypes
    /\ slot \in [run : {0} \cup Ids, stage : {"idle", "opening", "announcing", "working"},
                 aborted : BOOLEAN]
    /\ reports \subseteq [run : Ids, event : Terminal \cup {Pause}, sent : BOOLEAN]
    /\ asks \in 0 .. Len(Asked) /\ {cancels, faults} \subseteq 0 .. MaxUpsets
    /\ lost \in BOOLEAN /\ early \in BOOLEAN

\* The queue is handed on in order: however many calls dispatch at once and whichever reports
\* are redelivered, after whatever ends and restarts, one job at most holds the queue, and no run
\* is sent to a document that executes another one ("Flushing after the slot is released keeps
\* the handoff ordered by construction", run-event-emitter.ts).  Where somebody cancelled or a
\* profile went, or a gather was claimed before the browser's recovery, a job can end while its
\* execution goes on, and the second half is not claimed: hazards of their own.
OneHolds ==
    \A i, k \in DOMAIN jobs :
        jobs[i].phase \in Executing /\ jobs[k].phase \in Executing => i = k

HandoffOrdered ==
    /\ OneHolds
    /\ ~early /\ cancels = 0 /\ profiles = Profiles =>
        \A t \in tasks : t.kind = "execute" => slot.run \in {0, t.run}

\* What was recorded of a run stands: a late report, refusal or failed collection of a run that
\* has ended changes nothing; only handing back its failed file does, and one that can still be
\* retried leaves the results only for its retry, however many runs end after it, while there is
\* room in the results for those that end.
ResultsStand ==
    [][\A i \in DOMAIN results :
         LET r    == results[i]
             kept == {k \in DOMAIN results' : results'[k].run = r.run}
         IN  /\ \A k \in kept : \/ results'[k] = r
                                \/ r.retry /\ results'[k].phase = "complete"
             /\ kept = {} /\ r.retry /\ Len(results) + Len(jobs) <= MaxQueue + Len(jobs') =>
                  Len(jobs') > Len(jobs) /\ Last(jobs').page = r.page]_vars

\* A run somebody cancelled is over or still being cancelled: no report, restart, resumption or
\* retry makes it run again or records it complete.
CancelSticks ==
    [][\A i \in DOMAIN jobs : jobs[i].phase = "cancelling" =>
         \/ \E k \in DOMAIN jobs' : jobs'[k] = jobs[i]
         \/ /\ \A k \in DOMAIN jobs' : jobs'[k].run # jobs[i].run
            /\ \A k \in DOMAIN results' : results'[k].run = jobs[i].run =>
                 results'[k].phase \in {"cancelled", "failed"} /\ ~results'[k].retry]_vars

\* The queue drains or waits for a person: while nothing is lost that no report brings back,
\* every job ends, whichever reports the worker's ends leave unanswered, or one of them is paused
\* for folder access or being cancelled.  (A job claimed before the recovery is requeued while it
\* executes, and may then be left to no one: a hazard of its own.)
Waits == \E i \in DOMAIN jobs : jobs[i].phase \in {Pause, "cancelling"}

QueueMoves == <>[](jobs = <<>> \/ Waits \/ lost \/ early)
==============================================================================
