----------------------------- MODULE TidyChanges -----------------------------
(***************************************************************************)
(* The changes asked of Tidy's window (mode-tidy, actions.rs): one has the *)
(* turn from its start until it is reported, the others wait in a queue,   *)
(* and Cmd-Z has a history of what it can take back.                       *)
(*                                                                         *)
(* A change drafts a plan and applies it on a job; Tidy up is several, one *)
(* after another; an Undo takes plans back, newest first.  A Cmd-Z pressed *)
(* while one of them runs or waits takes a place in the queue and decides  *)
(* when its turn comes.  A decision that is no plan (a set marked as not   *)
(* duplicates) joins the history once the catalog has it.                  *)
(*                                                                         *)
(* An action is one callback on the window's thread, or the end of what a  *)
(* job does in the engine; a task is what a callback left running.         *)
(***************************************************************************)
EXTENDS Naturals, FiniteSets, SequencesExt

CONSTANTS
    MaxAsks,     \* bounds the presses that ask for something
    MaxStops,    \* bounds the presses that stop or drop something
    TidySteps,   \* the steps of Tidy up
    UNDO_LIMIT   \* the entries that the history keeps

ASSUME ChangesAssumption ==
    /\ MaxAsks \in Nat /\ MaxStops \in Nat
    /\ TidySteps \in Nat \ {0} /\ UNDO_LIMIT \in Nat \ {0}

\* Plans and decisions, in the order they were made; 0 is a plan of an earlier session.
Id == 0 .. MaxAsks * TidySteps

VARIABLES
    turn,       \* change_turn
    undoes,     \* turn_undoes
    queue,      \* what waits for the turn
    change,     \* the RunningChange: whether there is one, and its stop_asked
    tasks,      \* the tasks of changes and Undos
    undo,       \* the history, oldest first: what each entry takes back
    pushed,     \* undo_pushed
    returned,   \* undo_returned
    state,      \* what has become of each plan and decision
    nextId,     \* the next of them
    later,      \* the Cmd-Zs that wait for decisions on their way
    reading,    \* the Cmd-Zs that read the journal
    kin,        \* for the properties: what shared an entry with each,
    stamp,      \* when each came onto the history last, and
    lost,       \* what left it when it was full
    asks, stops \* the presses so far

turnVars    == <<turn, undoes, queue, change, tasks>>
countVars   == <<pushed, returned, kin, stamp, lost>>
historyVars == <<undo, countVars>>
catalogVars == <<state, nextId>>
vars == <<turnVars, historyVars, catalogVars, later, reading, asks, stops>>

Decision == {i \in Id : state[i] \in {"coming", "marked", "unmarked"}}

Coming == {i \in Id : state[i] = "coming"}

\* For a mutant: only what waits counts.
HoldingMayBeNeededNext == queue # <<>>

HoldingMayBeNeeded == turn \/ queue # <<>>

\* The plans that can be undone.
Journal == {i \in Id : state[i] = "done"}

-----------------------------------------------------------------------------
(* The history. *)

\* The entries that are none of these.
Without(entries, gone) ==
    LET upTo[n \in 0 .. Len(entries)] ==
            IF n = 0 THEN <<>>
            ELSE IF entries[n] \in gone THEN upTo[n - 1] ELSE Append(upTo[n - 1], entries[n])
    IN  upTo[Len(entries)]

ForgetPlans(entries, ids) == Without(entries, {e \in Range(entries) : e \cap ids # {}})

KeepEntry(entries, e) ==
    Append(IF Len(entries) >= UNDO_LIMIT THEN Tail(entries) ELSE entries, e)

Arrives(e) ==
    LET all == UNION {kin[i] : i \in e}
    IN  /\ stamp' = [i \in Id |-> IF i \in e THEN pushed + returned + 1 ELSE stamp[i]]
        /\ kin' = [i \in Id |-> IF i \in all THEN all ELSE kin[i]]
        /\ lost' = (lost \ e) \cup (IF Len(undo) >= UNDO_LIMIT THEN Head(undo) ELSE {})

PushEntry(e)   == pushed' = pushed + 1 /\ UNCHANGED returned /\ Arrives(e)
ReturnEntry(e) == returned' = returned + 1 /\ UNCHANGED pushed /\ Arrives(e)

-----------------------------------------------------------------------------
(* The turn. *)

Nothing == [kind |-> "nothing"]
Change(tidies) == [kind |-> "change", tidies |-> tidies, steps |-> IF tidies THEN TidySteps ELSE 1]
Undo(ids, by) == [kind |-> "undo", ids |-> ids, by |-> by]

\* Whether a Cmd-Z that has waited takes the newest entry: when something has landed since, or it
\* waited behind Undos alone, and no Undo has come back unfinished.
Takes(q, s) ==
    /\ s.undo # <<>> /\ s.returned = q.returned
    /\ s.pushed # q.pushed \/ ~q.behind

\* The next in the queue gets the turn; a Cmd-Z gives it to the Undo it takes from the history,
\* and without one, or with a decision to take back, to the next.
Pass(s, q) ==
    IF s.next # Nothing THEN [s EXCEPT !.queue = Append(@, q)]
    ELSE IF q.kind # "again" THEN [s EXCEPT !.next = q]
    ELSE IF ~Takes(q, s) THEN s
    ELSE IF Last(s.undo) \subseteq Decision
         THEN [s EXCEPT !.undo = Front(@), !.unmarked = @ \cup Last(s.undo)]
         ELSE [s EXCEPT !.undo = Front(@), !.next = Undo(Last(s.undo), "again")]

\* Where a step of a change begins: a step of Tidy up may first ask for the files it is about, and
\* is not the RunningChange until it has them.
StepStarts(x) == IF x.kind = "change" /\ x.tidies THEN {"drafting", "listing"} ELSE {"drafting"}

Fresh(at) == [on |-> at # "listing", stop |-> FALSE]

\* What a start leaves running, and what it forgets of the history.
Begin(x, entries, others) ==
    /\ turn' = TRUE /\ undoes' = (x.kind = "undo")
    /\ \/ /\ x.kind = "undo"
          /\ tasks' = others \cup {[kind |-> "undo", ids |-> x.ids, by |-> x.by, left |-> x.ids,
                                    at |-> "working", how |-> "done"]}
          /\ change' = Fresh("working")
          /\ undo' = ForgetPlans(entries, x.ids)
       \/ /\ x.kind = "change" /\ undo' = entries
          /\ \E at \in StepStarts(x) :
               /\ tasks' = others \cup {[kind |-> "change", tidies |-> x.tidies, steps |-> x.steps,
                                         ids |-> {}, plan |-> 0, at |-> at, how |-> "done"]}
               /\ change' = Fresh(at)

Free(entries) == [undo |-> entries, pushed |-> pushed', returned |-> returned',
                  queue |-> <<>>, next |-> Nothing, unmarked |-> {}]

\* For a mutant: the first in the queue is called, and a Cmd-Z that runs nothing ends it there.
HandOverOnce(entries) ==
    IF queue = <<>> THEN Free(entries)
    ELSE [Pass(Free(entries), Head(queue)) EXCEPT !.queue = Tail(queue)]

\* The queue's starts are called until one of them runs.
HandOver(entries) ==
    LET upTo[n \in 0 .. Len(queue)] ==
            IF n = 0 THEN Free(entries) ELSE Pass(upTo[n - 1], queue[n])
    IN  upTo[Len(queue)]

\* release_turn, once the task t has been reported.
ReleaseTurn(t, entries) ==
    LET s == HandOver(entries)
    IN  /\ queue' = s.queue
        /\ state' = [i \in Id |-> IF i \in s.unmarked THEN "unmarked" ELSE state[i]]
        /\ IF s.next # Nothing
           THEN Begin(s.next, s.undo, tasks \ {t})
           ELSE /\ turn' = FALSE /\ undoes' = FALSE
                /\ change' = [on |-> FALSE, stop |-> FALSE]
                /\ tasks' = tasks \ {t}
                /\ undo' = s.undo

\* when_free, of x and with that history.
WhenFree(x, entries) ==
    IF turn
    THEN queue' = Append(queue, x) /\ undo' = entries /\ UNCHANGED <<turn, undoes, change, tasks>>
    ELSE Begin(x, entries, tasks) /\ UNCHANGED queue

-----------------------------------------------------------------------------
(* A change. *)

Becomes(t, u) == tasks' = (tasks \ {t}) \cup {u}

\* What announce and announce_all put on the history: what of it can be undone.
Announce(t, ids) ==
    LET got == {i \in ids : state[i] = "done"}
    IN  /\ IF got # {} THEN PushEntry(got) ELSE UNCHANGED countVars
        /\ ReleaseTurn(t, IF got # {} THEN KeepEntry(undo, got) ELSE undo)

\* The next step of Tidy up is drafted, or the change is reported.
GoOn(t, ids) ==
    IF t.steps > 1
    THEN \E at \in StepStarts(t) :
         /\ Becomes(t, [t EXCEPT !.ids = ids, !.steps = @ - 1, !.at = at])
         /\ change' = Fresh(at)
         /\ UNCHANGED <<turn, undoes, queue, historyVars, state>>
    ELSE Announce(t, ids)

\* The files a step of Tidy up is about: with none it is skipped.
List(t) ==
    /\ t.at = "listing"
    /\ \/ /\ Becomes(t, [t EXCEPT !.at = "drafting"])
          /\ change' = Fresh("drafting")
          /\ UNCHANGED <<turn, undoes, queue, historyVars, state>>
       \/ GoOn(t, t.ids)
    /\ UNCHANGED <<nextId, later, reading, asks, stops>>

\* Its plan is drafted, and its job starts; or the engine drafts none, and of an engine that is not
\* there the steps left are not asked.  The catalog answers in order: a journal that was asked for
\* before has been read.
Draft(t) ==
    /\ t.at = "drafting" /\ reading = 0
    /\ \/ /\ Becomes(t, [t EXCEPT !.plan = nextId, !.at = "working"])
          /\ nextId' = nextId + 1
          /\ UNCHANGED <<turn, undoes, queue, change, historyVars, state>>
       \/ (GoOn(t, t.ids) \/ Announce(t, t.ids)) /\ UNCHANGED nextId
    /\ UNCHANGED <<later, reading, asks, stops>>

\* The engine applies the plan: some of its steps get done or none, also when it is stopped, and
\* its error, if it ends with one, is still to be read.
ApplyPlan(t) ==
    /\ t.kind = "change" /\ t.at = "working"
    /\ \E s \in {"none", "done"}, at \in {"ended", "failing"} :
         /\ at = "failing" => ~change.stop \/ s = "none"
         /\ state' = [state EXCEPT ![t.plan] = s]
         /\ Becomes(t, [t EXCEPT !.at = at, !.how = "done"])
    /\ UNCHANGED <<turn, undoes, queue, change, historyVars, nextId, later, reading, asks, stops>>

\* JobError::from_error: an error counts as the stop, once that is pressed.
JobFails(t) ==
    /\ t.at = "failing"
    /\ Becomes(t, [t EXCEPT !.at = "ended", !.how = IF change.stop THEN "cancelled" ELSE "failed"])
    /\ UNCHANGED <<turn, undoes, queue, change, historyVars, catalogVars, later, reading, asks, stops>>

\* What perform_now and run_steps make of the end of a job.
Report(t) ==
    /\ t.kind = "change" /\ t.at = "ended"
    /\ IF t.how = "cancelled" THEN Announce(t, t.ids) ELSE GoOn(t, t.ids \cup {t.plan})
    /\ UNCHANGED <<nextId, later, reading, asks, stops>>

-----------------------------------------------------------------------------
(* An Undo. *)

Newest(ids) == CHOOSE i \in ids : \A k \in ids : k <= i

\* The engine undoes a plan, or stops, is stopped or fails before it is all back.
UndoPlan(t) ==
    /\ t.kind = "undo" /\ t.at = "working" /\ reading = 0
    /\ \/ /\ state' = [state EXCEPT ![Newest(t.left)] = "undone"]
          /\ Becomes(t, [t EXCEPT !.at = "ended", !.how = "done"])
       \/ /\ Becomes(t, [t EXCEPT !.at = "ended", !.how = "unfinished"])
          /\ UNCHANGED state
    /\ UNCHANGED <<turn, undoes, queue, change, historyVars, nextId, later, reading, asks, stops>>

\* What undo_plan_now and undo_all_now make of it: the next plan, or the report.
ReportUndo(t) ==
    LET rest == t.left \ {Newest(t.left)}
    IN  /\ t.kind = "undo" /\ t.at = "ended"
        /\ IF t.how = "done" /\ rest # {}
           THEN /\ Becomes(t, [t EXCEPT !.left = rest, !.at = "working"])
                /\ change' = Fresh("working")
                /\ UNCHANGED <<turn, undoes, queue, historyVars, state>>
           ELSE IF t.how = "done"
           THEN UNCHANGED countVars /\ ReleaseTurn(t, undo)
           ELSE ReturnEntry(t.ids) /\ ReleaseTurn(t, KeepEntry(undo, t.ids))
        /\ UNCHANGED <<nextId, later, reading, asks, stops>>

-----------------------------------------------------------------------------
(* The owner. *)

Press == asks < MaxAsks /\ asks' = asks + 1

\* perform and perform_all.
PressChange(tidies) ==
    /\ Press /\ WhenFree(Change(tidies), undo)
    /\ UNCHANGED <<countVars, catalogVars, later, reading, stops>>

\* A toast's Undo or History's, of a change, of Tidy up's or of several together.
PressUndo(ids) ==
    /\ Press /\ \E i \in ids : state[i] = "done"
    /\ WhenFree(Undo(ids, "page"), undo)
    /\ UNCHANGED <<countVars, catalogVars, later, reading, stops>>

\* undo_last.
BehindAChange == (turn /\ ~undoes) \/ \E i \in DOMAIN queue : queue[i].kind = "change"

WaitInTurn ==
    /\ queue' = Append(queue, [kind |-> "again", pushed |-> pushed, returned |-> returned,
                               behind |-> BehindAChange])
    /\ UNCHANGED <<turn, undoes, change, tasks, undo, state>>

TakeNewest ==
    /\ IF Last(undo) \subseteq Decision
       THEN /\ undo' = Front(undo)
            /\ state' = [i \in Id |-> IF i \in Last(undo) THEN "unmarked" ELSE state[i]]
            /\ UNCHANGED turnVars
       ELSE WhenFree(Undo(Last(undo), "again"), Front(undo)) /\ UNCHANGED state

\* The rest of undo_last, with no decision on its way.
UndoLast ==
    /\ IF HoldingMayBeNeeded THEN WaitInTurn /\ UNCHANGED reading
       ELSE IF undo # <<>> THEN TakeNewest /\ UNCHANGED reading
       ELSE reading' = reading + 1 /\ UNCHANGED <<turnVars, undo, state>>
    /\ UNCHANGED <<countVars, nextId, stops>>

PressAgain ==
    /\ asks < MaxAsks
    /\ asks' = asks + 1
    /\ IF Coming # {}
       THEN later' = later + 1 /\ UNCHANGED <<turnVars, historyVars, catalogVars, reading>>
       ELSE UndoLast /\ UNCHANGED later
    /\ UNCHANGED stops

\* The timer of a Cmd-Z that waits for decisions on their way.
Later ==
    /\ later > 0 /\ Coming = {}
    /\ later' = later - 1
    /\ UndoLast /\ UNCHANGED asks

\* The journal's answer to a Cmd-Z that found no history: its newest change is taken back, unless
\* one has begun meanwhile.
ReadJournal ==
    /\ reading > 0
    /\ reading' = reading - 1
    /\ IF HoldingMayBeNeeded
       THEN IF Coming # {}
            THEN later' = later + 1 /\ UNCHANGED <<turnVars, undo, state>>
            ELSE WaitInTurn /\ UNCHANGED later
       ELSE /\ IF Journal # {}
               THEN WhenFree(Undo({Newest(Journal)}, "again"), undo)
               ELSE UNCHANGED <<turnVars, undo>>
            /\ UNCHANGED <<later, state>>
    /\ UNCHANGED <<countVars, nextId, asks, stops>>

\* dismiss, and what its task does with the catalog's answer.
Dismiss ==
    /\ Press
    /\ state' = [state EXCEPT ![nextId] = "coming"]
    /\ nextId' = nextId + 1
    /\ UNCHANGED <<turnVars, historyVars, later, reading, stops>>

Dismissed(i) ==
    /\ i \in Coming /\ reading = 0
    /\ \/ /\ state' = [state EXCEPT ![i] = "marked"]
          /\ undo' = KeepEntry(undo, {i}) /\ PushEntry({i})
       \/ state' = [state EXCEPT ![i] = "none"] /\ UNCHANGED historyVars
    /\ UNCHANGED <<turnVars, nextId, later, reading, asks, stops>>

\* The Undo on the toast of a decision.
Restore(i) ==
    /\ Press /\ state[i] = "marked"
    /\ undo' = Without(undo, {{i}})
    /\ state' = [state EXCEPT ![i] = "unmarked"]
    /\ UNCHANGED <<turnVars, countVars, nextId, later, reading, stops>>

StopPress == stops < MaxStops /\ stops' = stops + 1

StopChange ==
    /\ StopPress /\ change.on /\ ~change.stop
    /\ change' = [change EXCEPT !.stop = TRUE]
    /\ UNCHANGED <<turn, undoes, queue, tasks, historyVars, catalogVars, later, reading, asks>>

DropQueued(i) ==
    /\ StopPress
    /\ queue' = RemoveAt(queue, i)
    /\ UNCHANGED <<turn, undoes, change, tasks, historyVars, catalogVars, later, reading, asks>>

-----------------------------------------------------------------------------
Init ==
    /\ turn = FALSE /\ undoes = FALSE /\ queue = <<>> /\ tasks = {}
    /\ change = [on |-> FALSE, stop |-> FALSE]
    /\ undo = <<>> /\ pushed = 0 /\ returned = 0
    /\ kin = [i \in Id |-> {i}] /\ stamp = [i \in Id |-> 0] /\ lost = {}
    /\ state = [i \in Id |-> IF i = 0 THEN "done" ELSE "none"] /\ nextId = 1
    /\ later = 0 /\ reading = 0 /\ asks = 0 /\ stops = 0

Owner ==
    \/ \E tidies \in BOOLEAN : PressChange(tidies)
    \/ \E ids \in {{i} : i \in Id} \cup Range(undo) \cup {Journal} : PressUndo(ids)
    \/ PressAgain \/ Dismiss \/ \E i \in Id : Restore(i)
    \/ StopChange \/ \E i \in DOMAIN queue : DropQueued(i)

Runs ==
    \/ \E t \in tasks : \/ List(t) \/ Draft(t) \/ ApplyPlan(t) \/ JobFails(t) \/ Report(t)
                        \/ UndoPlan(t) \/ ReportUndo(t)
    \/ Later \/ ReadJournal \/ \E i \in Id : Dismissed(i)

Next == Owner \/ Runs

Spec == Init /\ [][Next]_vars

-----------------------------------------------------------------------------
(* Properties *)

(***************************************************************************)
(* One change at a time holds the turn, and a free turn is never waited    *)
(* for: whatever a Cmd-Z that has waited finds, drops or gives up, and     *)
(* though it frees the turn for what it runs (undo_last).  An Undo that    *)
(* another Cmd-Z waits behind is known as one.                             *)
(***************************************************************************)
TurnIsHeld ==
    /\ Cardinality(tasks) <= 1
    /\ turn <=> tasks # {}
    /\ change.on => tasks # {}
    /\ ~turn => queue = <<>>
    /\ \A t \in tasks : undoes <=> t.kind = "undo"
    /\ Len(undo) <= UNDO_LIMIT

\* What Cmd-Z should still know of: what its history has, and what has come onto it unless a plan
\* of its entry was undone, which drops the entry ("so undoing one of them another way drops the
\* entry", UndoEntry), or the history was full and dropped it.
Undoable(i) ==
    /\ state[i] \in {"done", "marked"}
    /\ \/ \E e \in Range(undo) : i \in e
       \/ kin[i] \cap lost = {} /\ \A k \in kin[i] : state[k] # "undone"

Arrived(ids) == CHOOSE n \in {stamp[i] : i \in ids} : \A i \in ids : stamp[i] <= n

(***************************************************************************)
(* Cmd-Z takes back the newest: when an Undo of it begins, nothing that    *)
(* has come onto the history since, or come back to it, is left.  It may   *)
(* have waited for decisions, for the journal or for its turn, with        *)
(* changes, Undos and decisions that land, fail, stop, are dropped or are  *)
(* undone elsewhere meanwhile ("answering now would undo something older   *)
(* than the owner meant").                                                 *)
(***************************************************************************)
UndoTakesTheNewest ==
    [][\A t \in tasks' \ tasks :
         t.kind = "undo" /\ t.by = "again" /\ t.at = "working" /\ t.left = t.ids =>
            \A i \in Id : Undoable(i)' => stamp'[i] <= Arrived(t.ids)']_vars
=============================================================================
