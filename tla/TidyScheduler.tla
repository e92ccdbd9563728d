---------------------------- MODULE TidyScheduler ----------------------------
(***************************************************************************)
(* Tidy's queue of work (core-tidy, engine/schedule.rs): scans, changes    *)
(* and analyses take turns, so that one piece of work runs at a time.      *)
(*                                                                         *)
(* Every piece of work is a thread.  It enters the queue, sleeps on one    *)
(* condition variable until may_run gives it the turn, does its items with *)
(* a checkpoint after each, and leaves.  The owner cancels, pauses and     *)
(* resumes from other threads, asks for analysis that is queued already    *)
(* ("Check now", promote), and forgets folders (stop_work_on).             *)
(*                                                                         *)
(* An action is one critical section of the queue's mutex, or one read or  *)
(* write of a flag made without it.  A cancel or a pause is two: the flag, *)
(* and then the nudge that takes the lock and wakes the waiters.           *)
(***************************************************************************)
EXTENDS Naturals, FiniteSets

CONSTANTS
    Work,        \* the pieces of work that come
    Root,        \* the folders they work on
    RootOf,      \* which folder each works on
    AskedFor,    \* the work the owner asked for; the rest is background analysis
    Cancellable, \* the work that came with a cancel token
    Pausable,    \* the work that came with a pause token
    Items,       \* how many items each has, with a checkpoint between two
    CheckNow,    \* the folders the owner presses "Check now" for, once each
    Forget,      \* the folders the owner forgets, once each
    MaxPauses    \* bounds the pauses

ASSUME ConstantsAssumption ==
    /\ RootOf \in [Work -> Root]
    /\ AskedFor \subseteq Work
    /\ Cancellable \subseteq Work
    /\ Pausable \subseteq Work
    /\ Items \in Nat
    /\ CheckNow \subseteq Root
    /\ Forget \subseteq Root
    /\ MaxPauses \in Nat

Places == {"out", "waiting", "running", "aside"}

Steps == {"new", "first", "looking", "working", "checkpoint", "stepping",
          "pausing", "leaving", "done"}

Removals == {"idle", "cancelling", "stopping", "ready", "refused"}

VARIABLES
    place,           \* Entry::place; "out" when the work has no entry
    id,              \* Entry::id, the order of arrival
    nextId,          \* Queue::next_id
    background,      \* Entry::background
    askedForWaiting, \* Shared::asked_for_waiting > 0, read without the lock
    step,            \* where each work's thread is
    left,            \* the items each still has to do
    asleep,          \* the work waiting on the condition variable
    cancelled,       \* the cancel tokens' flags
    paused,          \* the pause tokens' flags
    owed,            \* the work whose token has changed and not yet nudged the queue
    pauses,          \* how many pauses there have been
    checked,         \* the folders "Check now" was pressed for
    removal,         \* how far each stop_work_on has come
    stopping,        \* the work each stop_work_on waits for
    removalAsleep    \* the stop_work_on calls waiting on the condition variable

queueVars  == <<place, id, nextId, background, askedForWaiting>>
ownerVars  == <<cancelled, paused, owed, pauses, checked>>
removeVars == <<removal, stopping>>
vars == <<queueVars, step, left, asleep, ownerVars, removeVars, removalAsleep>>

-----------------------------------------------------------------------------
(* The queue. *)

Entries == {w \in Work : place[w] # "out"}

\* The entry that `find` returns: the first to arrive among those in S.
IsFirst(w, S) == w \in S /\ \A v \in S : id[w] <= id[v]

Waiting      == {w \in Work : place[w] = "waiting"}
Aside        == {w \in Work : place[w] = "aside"}
WaitingAsked == {w \in Waiting : ~background[w]}

\* May_run as it would be without one of its conditions: the look for running work, the order
\* of arrival, the work that stepped aside.
MayRunBeside(w) ==
    /\ w \in Entries
    /\ IF background[w]
       THEN /\ WaitingAsked = {}
            /\ IF Aside # {} THEN IsFirst(w, Aside) ELSE IsFirst(w, Waiting)
       ELSE IsFirst(w, WaitingAsked)

MayRunInAnyOrder(w) ==
    /\ \A v \in Work : place[v] # "running"
    /\ w \in Entries
    /\ IF background[w]
       THEN /\ WaitingAsked = {}
            /\ IF Aside # {} THEN IsFirst(w, Aside) ELSE IsFirst(w, Waiting)
       ELSE w \in WaitingAsked

MayRunUnlessAside(w) ==
    /\ \A v \in Work : place[v] # "running"
    /\ w \in Entries
    /\ IF background[w] THEN WaitingAsked = {} /\ IsFirst(w, Waiting)
       ELSE IsFirst(w, WaitingAsked)

\* Queue::may_run.
MayRun(w) ==
    /\ \A v \in Work : place[v] # "running"
    /\ w \in Entries
    /\ IF background[w]
       THEN /\ WaitingAsked = {}
            /\ IF Aside # {} THEN IsFirst(w, Aside) ELSE IsFirst(w, Waiting)
       ELSE IsFirst(w, WaitingAsked)

\* Queue::check_removable.
Busy(r) ==
    \E w \in Entries : RootOf[w] = r /\ (~background[w] \/ w \notin Cancellable)

\* Shared::changed: publishes whether asked-for work waits, and wakes every waiter.
Changed ==
    /\ askedForWaiting' = (\E w \in Work : place'[w] = "waiting" /\ ~background'[w])
    /\ asleep' = {}
    /\ removalAsleep' = {}

-----------------------------------------------------------------------------
(* A piece of work. *)

\* Turn::should_step_aside, read without the lock.
ShouldStepAside(w) == background[w] /\ askedForWaiting

\* Scheduler::take_turn up to the entry's push.
TakeTurn(w) ==
    /\ step[w] = "new"
    /\ ~cancelled[w]
    /\ place' = [place EXCEPT ![w] = "waiting"]
    /\ id' = [id EXCEPT ![w] = nextId]
    /\ nextId' = nextId + 1
    /\ step' = [step EXCEPT ![w] = "first"]
    /\ UNCHANGED <<background, left, ownerVars, removeVars>>
    /\ Changed

\* take_turn fails at once when the work is cancelled already.
RefuseTurn(w) ==
    /\ step[w] = "new"
    /\ cancelled[w]
    /\ step' = [step EXCEPT ![w] = "done"]
    /\ UNCHANGED <<queueVars, left, asleep, ownerVars, removeVars, removalAsleep>>

\* Turn::start, in wait_for_turn's first look or in its loop.
Start(w) ==
    /\ place' = [place EXCEPT ![w] = "running"]
    /\ step' = [step EXCEPT ![w] = "working"]
    /\ UNCHANGED <<id, nextId, background, left, ownerVars, removeVars>>
    /\ Changed

\* wait_for_turn before it says that it waits: no cancel is looked for.
FirstLook(w) ==
    /\ step[w] = "first"
    /\ \/ MayRun(w) /\ Start(w)
       \/ /\ ~MayRun(w)
          /\ step' = [step EXCEPT ![w] = "looking"]
          /\ UNCHANGED <<queueVars, left, asleep, ownerVars, removeVars, removalAsleep>>

\* One round of wait_for_turn's loop, from taking the lock to letting it go.
Look(w) ==
    /\ step[w] = "looking"
    /\ w \notin asleep
    /\ \/ /\ cancelled[w]
          /\ step' = [step EXCEPT ![w] = "leaving"]
          /\ UNCHANGED <<queueVars, asleep, removalAsleep, left, ownerVars, removeVars>>
       \/ ~cancelled[w] /\ MayRun(w) /\ Start(w)
       \/ /\ ~cancelled[w] /\ ~MayRun(w)
          /\ asleep' = asleep \cup {w}
          /\ UNCHANGED <<queueVars, step, removalAsleep, left, ownerVars, removeVars>>

\* Without the look at what is left.
DoItemPastTheLast(w) ==
    /\ step[w] = "working"
    /\ left' = [left EXCEPT ![w] = @ - 1]
    /\ step' = [step EXCEPT ![w] = "checkpoint"]
    /\ UNCHANGED <<queueVars, asleep, ownerVars, removeVars, removalAsleep>>

\* The work does an item and comes to its checkpoint.
DoItem(w) ==
    /\ step[w] = "working"
    /\ left[w] > 0
    /\ left' = [left EXCEPT ![w] = @ - 1]
    /\ step' = [step EXCEPT ![w] = "checkpoint"]
    /\ UNCHANGED <<queueVars, asleep, ownerVars, removeVars, removalAsleep>>

Finish(w) ==
    /\ step[w] = "working"
    /\ left[w] = 0
    /\ step' = [step EXCEPT ![w] = "leaving"]
    /\ UNCHANGED <<queueVars, left, asleep, ownerVars, removeVars, removalAsleep>>

\* One round of Turn::checkpoint's loop, without the lock.
Checkpoint(w) ==
    /\ step[w] = "checkpoint"
    /\ step' = [step EXCEPT ![w] =
                  IF cancelled[w] THEN "leaving"
                  ELSE IF ShouldStepAside(w) THEN "stepping"
                  ELSE IF paused[w] THEN "pausing"
                  ELSE "working"]
    /\ UNCHANGED <<queueVars, left, asleep, ownerVars, removeVars, removalAsleep>>

\* Turn::step_aside, once checkpoint has decided on it.
StepAside(w) ==
    /\ step[w] = "stepping"
    /\ place' = [place EXCEPT ![w] = "aside"]
    /\ step' = [step EXCEPT ![w] = "first"]
    /\ UNCHANGED <<id, nextId, background, left, ownerVars, removeVars>>
    /\ Changed

\* Without the look for a cancel.
WaitWhilePausedDeaf(w) ==
    /\ step[w] = "pausing"
    /\ w \notin asleep
    /\ IF paused[w] /\ ~ShouldStepAside(w)
       THEN asleep' = asleep \cup {w} /\ UNCHANGED step
       ELSE step' = [step EXCEPT ![w] = "checkpoint"] /\ UNCHANGED asleep
    /\ UNCHANGED <<queueVars, left, ownerVars, removeVars, removalAsleep>>

\* One round of Turn::wait_while_paused's loop.
WaitWhilePaused(w) ==
    /\ step[w] = "pausing"
    /\ w \notin asleep
    /\ IF paused[w] /\ ~cancelled[w] /\ ~ShouldStepAside(w)
       THEN asleep' = asleep \cup {w} /\ UNCHANGED step
       ELSE step' = [step EXCEPT ![w] = "checkpoint"] /\ UNCHANGED asleep
    /\ UNCHANGED <<queueVars, left, ownerVars, removeVars, removalAsleep>>

\* Without the wake.
LeaveQuietly(w) ==
    /\ step[w] = "leaving"
    /\ place' = [place EXCEPT ![w] = "out"]
    /\ step' = [step EXCEPT ![w] = "done"]
    /\ UNCHANGED <<id, nextId, background, askedForWaiting, left, asleep, ownerVars,
                   removeVars, removalAsleep>>

\* Turn's Drop: the entry goes, and the next work may have the turn.
Leave(w) ==
    /\ step[w] = "leaving"
    /\ place' = [place EXCEPT ![w] = "out"]
    /\ step' = [step EXCEPT ![w] = "done"]
    /\ UNCHANGED <<id, nextId, background, left, ownerVars, removeVars>>
    /\ Changed

-----------------------------------------------------------------------------
(* The owner. *)

\* The tokens have wakers from take_turn until the turn is dropped.
Listening(w) == step[w] \notin {"new", "done"}

\* Without the callback that take_turn registers.
FlagUnheard(w) == w \in Work /\ UNCHANGED owed

Flag(w) == owed' = IF Listening(w) THEN owed \cup {w} ELSE owed

Cancel(w) ==
    /\ w \in Cancellable /\ ~cancelled[w] /\ step[w] # "done"
    /\ cancelled' = [cancelled EXCEPT ![w] = TRUE]
    /\ Flag(w)
    /\ UNCHANGED <<queueVars, step, left, asleep, paused, pauses, checked,
                   removeVars, removalAsleep>>

Pause(w) ==
    /\ w \in Pausable /\ ~paused[w] /\ step[w] # "done" /\ pauses < MaxPauses
    /\ paused' = [paused EXCEPT ![w] = TRUE]
    /\ pauses' = pauses + 1
    /\ Flag(w)
    /\ UNCHANGED <<queueVars, step, left, asleep, cancelled, checked,
                   removeVars, removalAsleep>>

Resume(w) ==
    /\ paused[w]
    /\ paused' = [paused EXCEPT ![w] = FALSE]
    /\ Flag(w)
    /\ UNCHANGED <<queueVars, step, left, asleep, cancelled, pauses, checked,
                   removeVars, removalAsleep>>

\* Shared::nudge, the callback of a token that changed.
Nudge(w) ==
    /\ w \in owed
    /\ owed' = owed \ {w}
    /\ asleep' = {}
    /\ removalAsleep' = {}
    /\ UNCHANGED <<queueVars, step, left, cancelled, paused, pauses, checked,
                   removeVars>>

\* Scheduler::promote.
Promote(r) ==
    /\ r \in CheckNow \ checked
    /\ checked' = checked \cup {r}
    /\ LET Promoted == {w \in Entries : background[w] /\ RootOf[w] = r}
       IN  /\ background' = [w \in Work |-> background[w] /\ w \notin Promoted]
           /\ place' = [w \in Work |->
                          IF w \in Promoted /\ place[w] = "aside"
                          THEN "waiting" ELSE place[w]]
    /\ UNCHANGED <<id, nextId, step, left, cancelled, paused, owed, pauses, removeVars>>
    /\ Changed

\* Scheduler::stop_work_on: the check, and the list of what to stop.
StopWorkOn(r) ==
    /\ r \in Forget /\ removal[r] = "idle"
    /\ removal' = [removal EXCEPT ![r] = IF Busy(r) THEN "refused" ELSE "cancelling"]
    /\ stopping' = [stopping EXCEPT ![r] =
                      IF Busy(r) THEN {} ELSE {w \in Entries : RootOf[w] = r}]
    /\ UNCHANGED <<queueVars, step, left, asleep, ownerVars, removalAsleep>>

\* It cancels them one by one, outside the lock.  A token cancelled already does nothing.
StopOne(r) ==
    /\ removal[r] = "cancelling"
    /\ \E w \in stopping[r] :
         /\ ~cancelled[w]
         /\ cancelled' = [cancelled EXCEPT ![w] = TRUE]
         /\ Flag(w)
    /\ UNCHANGED <<queueVars, step, left, asleep, paused, pauses, checked,
                   removeVars, removalAsleep>>

StoppedAll(r) ==
    /\ removal[r] = "cancelling"
    /\ \A w \in stopping[r] : cancelled[w]
    /\ removal' = [removal EXCEPT ![r] = "stopping"]
    /\ UNCHANGED <<queueVars, step, left, asleep, ownerVars, stopping, removalAsleep>>

\* One round of its wait for them to let go of their entries.
AwaitStopped(r) ==
    /\ removal[r] = "stopping"
    /\ r \notin removalAsleep
    /\ IF stopping[r] \cap Entries # {}
       THEN removalAsleep' = removalAsleep \cup {r} /\ UNCHANGED removal
       ELSE removal' = [removal EXCEPT ![r] = "ready"] /\ UNCHANGED removalAsleep
    /\ UNCHANGED <<queueVars, step, left, asleep, ownerVars, stopping>>

-----------------------------------------------------------------------------
Init ==
    /\ place = [w \in Work |-> "out"]
    /\ id = [w \in Work |-> 0]
    /\ nextId = 0
    /\ background = [w \in Work |-> w \notin AskedFor]
    /\ askedForWaiting = FALSE
    /\ step = [w \in Work |-> "new"]
    /\ left = [w \in Work |-> Items]
    /\ asleep = {}
    /\ cancelled = [w \in Work |-> FALSE]
    /\ paused = [w \in Work |-> FALSE]
    /\ owed = {}
    /\ pauses = 0
    /\ checked = {}
    /\ removal = [r \in Root |-> "idle"]
    /\ stopping = [r \in Root |-> {}]
    /\ removalAsleep = {}

\* What a work's thread does once it is in take_turn.
Run(w) ==
    \/ FirstLook(w) \/ Look(w) \/ DoItem(w) \/ Finish(w) \/ Checkpoint(w)
    \/ StepAside(w) \/ WaitWhilePaused(w) \/ Leave(w)

Stop(r) == StopOne(r) \/ StoppedAll(r) \/ AwaitStopped(r)

Next ==
    \/ \E w \in Work : \/ TakeTurn(w) \/ RefuseTurn(w) \/ Run(w)
                       \/ Cancel(w) \/ Pause(w) \/ Resume(w) \/ Nudge(w)
    \/ \E r \in Root : Promote(r) \/ StopWorkOn(r) \/ Stop(r)

Spec == Init /\ [][Next]_vars

(***************************************************************************)
(* Threads that can go on do, and a token that changed calls its callback. *)
(* Nothing makes the owner ask, cancel, pause or resume.                   *)
(***************************************************************************)
Fairness ==
    /\ \A w \in Work : WF_vars(Run(w)) /\ WF_vars(Nudge(w))
    /\ \A r \in Root : WF_vars(Stop(r))

FairSpec == Spec /\ Fairness

-----------------------------------------------------------------------------
TypeOK ==
    /\ place \in [Work -> Places]
    /\ id \in [Work -> Nat]
    /\ nextId \in Nat
    /\ background \in [Work -> BOOLEAN]
    /\ askedForWaiting \in BOOLEAN
    /\ step \in [Work -> Steps]
    /\ left \in [Work -> Nat]
    /\ asleep \subseteq Work
    /\ cancelled \in [Work -> BOOLEAN]
    /\ paused \in [Work -> BOOLEAN]
    /\ owed \subseteq Work
    /\ pauses \in Nat
    /\ checked \subseteq Root
    /\ removal \in [Root -> Removals]
    /\ stopping \in [Root -> SUBSET Work]
    /\ removalAsleep \subseteq Root

(***************************************************************************)
(* Only the work that holds the turn touches a root: two threads are never *)
(* both between Turn::start and the step aside or drop that gives the turn *)
(* up, whatever order the owner's calls and the looks come in.             *)
(***************************************************************************)
Touching == {"working", "checkpoint", "stepping", "pausing"}

OneAtATime == \A v, w \in Work : step[v] \in Touching /\ step[w] \in Touching => v = w

(***************************************************************************)
(* Asked-for work that waits is passed by nothing that came after it: what *)
(* holds the turn meanwhile had it before the work arrived (schedule.rs's  *)
(* "runs in the order it was asked for").                                  *)
(***************************************************************************)
NoOvertaking ==
    \A v, w \in Work :
        v \in AskedFor /\ place[v] = "waiting" /\ place[w] = "running" => id[w] < id[v]

(***************************************************************************)
(* No wake-up is lost (Shared::nudge's comment): work asleep on the        *)
(* condition variable could do nothing if it looked, unless the nudge that *)
(* will wake it is still to come.                                          *)
(***************************************************************************)
NoLostWakeup ==
    /\ \A w \in asleep :
         \/ w \in owed
         \/ step[w] = "looking" /\ ~cancelled[w] /\ ~MayRun(w)
         \/ step[w] = "pausing" /\ ~cancelled[w] /\ paused[w] /\ ~ShouldStepAside(w)
    /\ \A r \in removalAsleep : stopping[r] \cap Entries # {}

(***************************************************************************)
(* The turn is never free while nobody in the queue may take it: work that *)
(* waits, or has stepped aside, is always behind some work that can go on. *)
(***************************************************************************)
TurnFindsATaker ==
    Entries # {} /\ (\A w \in Entries : place[w] # "running") => \E w \in Entries : MayRun(w)

(***************************************************************************)
(* Analysis the owner asked for with "Check now" is work in the queue like *)
(* any other: it has the turn or waits for it, and has not stepped aside   *)
(* ("now no longer stepping aside", TidyEngine::promote_analysis).         *)
(***************************************************************************)
AskedForNeverAside == \A w \in Work : place[w] = "aside" => background[w]

(***************************************************************************)
(* What is asked of the queue ends: as long as no work stays paused, work  *)
(* that has entered the queue leaves it, done or cancelled, and a folder   *)
(* whose background work was stopped becomes free to remove.               *)
(***************************************************************************)
NothingStaysPaused == \A w \in Work : []<>(~paused[w])

EveryWorkEnds ==
    NothingStaysPaused => \A w \in Work : (step[w] = "first") ~> (step[w] = "done")

\* Stopping a folder's work needs no resume: the cancel ends a paused wait as well.
StopWorkOnReturns == \A r \in Root : (removal[r] = "cancelling") ~> (removal[r] = "ready")
=============================================================================
