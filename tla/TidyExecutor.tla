---------------------------- MODULE TidyExecutor ----------------------------
(***************************************************************************)
(* Tidy's executor (core-tidy, plans/executor.rs): it applies a reviewed   *)
(* plan step by step and undoes it, newest step first, beside the Holding  *)
(* page, other programs, a stop and a crash at any point.                  *)
(*                                                                         *)
(* A step is a thread of control of its own: stills convert on several     *)
(* lanes at once, then the other steps run in order.  An action is one     *)
(* touch of the disk or one transaction of the catalog; a step's reads     *)
(* before its first touch are one action.  Whatever survives a crash is on *)
(* disk or in the catalog: disk, temp, held, rowAt, status, heldBy, plan,  *)
(* dismissed.                                                              *)
(***************************************************************************)
EXTENDS TidyHolding, FiniteSetsExt

CONSTANTS
    Plan,        \* the steps: [action, from, to, file, keepers, bytes]
    Lanes,       \* still_concurrency
    EncodeLimit, \* EncodeBudget::limit
    Rows,        \* the paths the catalog has a row for, which name the rows
    Dismisses,   \* whether the plan dismissed duplicate sets when it was drafted
    CrashIn,     \* what may be running when Tidy crashes: "idle", "apply", "undo"
    MaxCrashes,  \* bounds the crashes
    MaxUndos,    \* bounds the presses of Undo
    MaxRefusals  \* bounds the moves and encodes that fail

Actions == {"hold", "move", "still", "video"}

\* No path: a row of files is deleted.
NoPath == "none"

ASSUME ExecutorAssumption ==
    /\ Plan \in Seq([action : Actions, from : Path, to : Path, file : File,
                     keepers : SUBSET Path, bytes : Nat \ {0}])
    /\ \A s \in DOMAIN Plan : Plan[s].file = Start[Plan[s].from]
    /\ NoPath \notin Path
    /\ Lanes \in Nat \ {0} /\ EncodeLimit \in Nat
    /\ Dismisses \in BOOLEAN
    /\ Rows \subseteq Path
    /\ CrashIn \subseteq {"idle", "apply", "undo"}
    /\ MaxCrashes \in Nat /\ MaxUndos \in Nat /\ MaxRefusals \in Nat

Step   == DOMAIN Plan
Stills == {s \in Step : Plan[s].action = "still"}
Others == Step \ Stills

Converts(s) == Plan[s].action \in {"still", "video"}
InPlace(s)  == Plan[s].to = Plan[s].from

VARIABLES
    temp,      \* the temp file beside each path
    rowAt,     \* where each row of files points, or NoPath once deleted
    status,    \* plan_steps.status
    heldBy,    \* plan_steps.holding_id, or 0
    plan,      \* plans.status
    dismissed, \* the plan's duplicate_dismissals are there
    run,       \* what the executor's thread is doing
    pc,        \* where each step is
    slot,      \* the holding row each step has in hand
    outcome,   \* the outcome each step is about to record
    todo,      \* the steps still to undo
    notUndone, \* some step of this undo failed
    stop,      \* the running change was stopped
    batch,     \* the number of runs so far, which names their batches
    up,        \* Tidy is running
    crashes, undos, refusals

durable  == <<temp, rowAt, status, heldBy, plan, dismissed>>
volatile == <<run, pc, slot, outcome, todo, notUndone, stop>>
counts   == <<batch, up, crashes, undos, refusals>>
vars     == <<holdingVars, durable, volatile, counts>>

elsewhere == <<page, presses, brought, outside>>

Finished == \A s \in Step : pc[s] = "finished"

Goes(s, next) == pc' = [pc EXCEPT ![s] = next]

\* A move or an encode fails: the disk is full, or another program has the file open.
Refused == refusals < MaxRefusals /\ refusals' = refusals + 1

\* The row that points at p, if one does.
RowsAt(p) == {r \in Rows : rowAt[r] = p}

\* UPDATE files SET rel_path: the UNIQUE index refuses a path another row has.
RowBlocked(from, to) == from # to /\ RowsAt(from) # {} /\ RowsAt(to) # {}
PointRow(from, to) == rowAt' = [r \in Rows |-> IF rowAt[r] = from THEN to ELSE rowAt[r]]

-----------------------------------------------------------------------------
(* How a step ends. *)

Settles(s, o) == Goes(s, "record") /\ outcome' = [outcome EXCEPT ![s] = o]

\* An error in a run that was stopped leaves the step pending; otherwise it is recorded.
Errs(s, o) == IF stop THEN Goes(s, "finished") /\ UNCHANGED outcome ELSE Settles(s, o)

\* Leaving convert drops its temp file.
DropTemp(s) ==
    temp' = IF run = "apply" /\ Converts(s) THEN [temp EXCEPT ![Plan[s].to] = NoFile] ELSE temp

\* Without the holding row's id.
RecordWithoutHolding(s) ==
    /\ run = "apply" /\ pc[s] = "record"
    /\ status' = [status EXCEPT ![s] = outcome[s]]
    /\ Goes(s, "finished")
    /\ UNCHANGED <<holdingVars, temp, rowAt, heldBy, plan, dismissed, run, slot, outcome, todo,
                   notUndone, stop, counts>>

\* record_outcome.
Record(s) ==
    /\ run = "apply" /\ pc[s] = "record"
    /\ status' = [status EXCEPT ![s] = outcome[s]]
    /\ heldBy' = [heldBy EXCEPT ![s] = IF outcome[s] = "done" THEN slot[s] ELSE 0]
    /\ Goes(s, "finished")
    /\ UNCHANGED <<holdingVars, temp, rowAt, plan, dismissed, run, slot, outcome, todo,
                   notUndone, stop, counts>>

-----------------------------------------------------------------------------
(* Applying. *)

\* apply_plan's first transaction.
StartApply ==
    /\ up /\ run = "idle" /\ plan = "draft"
    /\ run' = "apply" /\ plan' = "applying" /\ batch' = batch + 1
    /\ pc' = [s \in Step |-> "waiting"]
    /\ UNCHANGED <<holdingVars, temp, rowAt, status, heldBy, dismissed, slot, outcome,
                   todo, notUndone, stop, up, crashes, undos, refusals>>

InFlight == {s \in Step : pc[s] \notin {"waiting", "finished"}}
Broken   == \E s \in Step : pc[s] = "finished" /\ status[s] = "pending"

\* Lanes take the stills in order; every other step waits for all of those before it.
MayStart(s) ==
    /\ run = "apply" /\ pc[s] = "waiting" /\ ~stop /\ ~Broken
    /\ IF s \in Stills
       THEN /\ \A q \in Stills : q < s => pc[q] # "waiting"
            /\ Cardinality(InFlight) < Lanes
       ELSE \A q \in Step : q \in Stills \/ q < s => pc[q] = "finished"

SourceUnchanged(s) == disk[Plan[s].from] = Plan[s].file
KeepersUnread(s) == s \in Step
KeepersUnchanged(s) == \A p \in Plan[s].keepers : disk[p] = Start[p]
TargetUnread(s) == s \notin Step
TargetTaken(s) == ~InPlace(s) /\ PathExists(Plan[s].to)

\* execute_step up to the step's first touch: check_source, then check_keepers or the target.
Check(s) ==
    /\ MayStart(s)
    /\ \/ /\ ~SourceUnchanged(s) \/ (Plan[s].action = "hold" /\ ~KeepersUnchanged(s))
          /\ Errs(s, "skipped")
       \/ /\ SourceUnchanged(s)
          /\ IF Plan[s].action = "hold"
             THEN KeepersUnchanged(s) /\ Goes(s, "hold") /\ UNCHANGED outcome
             ELSE IF TargetTaken(s) THEN Settles(s, "skipped")
             ELSE /\ Goes(s, CASE Plan[s].action = "move" -> "move"
                                  [] Plan[s].action = "still" -> "reserve"
                                  [] OTHER -> "encode")
                  /\ UNCHANGED outcome
    /\ UNCHANGED <<holdingVars, durable, run, slot, todo, notUndone, stop, counts>>

\* With the row of another file in hand.
HoldNextRow(s) ==
    /\ run = "apply" /\ pc[s] = "hold"
    /\ PathExists(Plan[s].from)
    /\ MoveToHolding(Plan[s].from, batch)
    /\ slot' = [slot EXCEPT ![s] = Len(held) + 2]
    /\ Goes(s, "insert")
    /\ UNCHANGED <<elsewhere, durable, run, outcome, todo, notUndone, stop, counts>>

\* hold_file's move, which takes whatever is at the source by now.
Hold(s) ==
    /\ run = "apply" /\ pc[s] = "hold"
    /\ \/ /\ PathExists(Plan[s].from)
          /\ MoveToHolding(Plan[s].from, batch)
          /\ slot' = [slot EXCEPT ![s] = Len(held) + 1]
          /\ Goes(s, "insert")
          /\ UNCHANGED <<temp, outcome, refusals>>
       \/ /\ IF PathExists(Plan[s].from) THEN Refused ELSE UNCHANGED refusals
          /\ Errs(s, "failed")
          \* convert takes its new file back out while the original is still there.
          /\ disk' = IF Converts(s) /\ ~InPlace(s) /\ PathExists(Plan[s].from)
                     THEN [disk EXCEPT ![Plan[s].to] = NoFile] ELSE disk
          /\ DropTemp(s)
          /\ UNCHANGED <<held, slot>>
    /\ UNCHANGED <<elsewhere, rowAt, status, heldBy, plan, dismissed, run, todo, notUndone,
                   stop, batch, up, crashes, undos>>

Insert(s) ==
    /\ run = "apply" /\ pc[s] = "insert"
    /\ InsertRow(slot[s])
    /\ Goes(s, IF Plan[s].action = "hold" THEN "drop"
               ELSE IF InPlace(s) THEN "place" ELSE "replace")
    /\ UNCHANGED <<disk, elsewhere, durable, run, slot, outcome, todo, notUndone, stop, counts>>

\* The held file's row leaves the catalog.
DropRow(s) ==
    /\ run = "apply" /\ pc[s] = "drop"
    /\ PointRow(Plan[s].from, NoPath)
    /\ Settles(s, "done")
    /\ UNCHANGED <<holdingVars, temp, status, heldBy, plan, dismissed, run, slot, todo,
                   notUndone, stop, counts>>

\* A move's rename, which overwrites what is at the target by now.
Move(s) ==
    /\ run = "apply" /\ pc[s] = "move"
    /\ \/ /\ PathExists(Plan[s].from)
          /\ disk' = [disk EXCEPT ![Plan[s].from] = NoFile,
                                  ![Plan[s].to] = disk[Plan[s].from]]
          /\ Goes(s, "relocate")
          /\ UNCHANGED <<outcome, refusals>>
       \/ /\ IF PathExists(Plan[s].from) THEN Refused ELSE UNCHANGED refusals
          /\ Errs(s, "failed")
          /\ UNCHANGED disk
    /\ UNCHANGED <<held, elsewhere, durable, run, slot, todo, notUndone, stop,
                   batch, up, crashes, undos>>

\* relocate_row after a move, replace_row after a conversion.
Relocate(s) ==
    /\ run = "apply" /\ pc[s] \in {"relocate", "replace"}
    /\ IF RowBlocked(Plan[s].from, Plan[s].to)
       THEN Errs(s, "failed") /\ UNCHANGED rowAt
       ELSE PointRow(Plan[s].from, Plan[s].to) /\ Settles(s, "done")
    /\ UNCHANGED <<holdingVars, temp, status, heldBy, plan, dismissed, run, slot, todo,
                   notUndone, stop, counts>>

\* The memory of the encodes in flight: a reservation is dropped when its encode returns.
Encoding == {s \in Stills : pc[s] = "encode"}
Used     == MapThenSumSet(LAMBDA s : Plan[s].bytes, Encoding)

\* Without the exception for an encode alone.
FitsBudget(s) == Used + Plan[s].bytes <= EncodeLimit

\* EncodeBudget::reserve: one encode always runs, however large.
Fits(s) == Used = 0 \/ Used + Plan[s].bytes <= EncodeLimit

\* A still waits for its share of the budget.  Only a wait looks for a stop.
Reserve(s) ==
    /\ run = "apply" /\ pc[s] = "reserve"
    /\ \/ Fits(s) /\ Goes(s, "encode")
       \/ ~Fits(s) /\ stop /\ Goes(s, "finished")
    /\ UNCHANGED <<holdingVars, durable, run, slot, outcome, todo, notUndone, stop, counts>>

\* convert's produce and verify, in minutes.  A stop kills the encoder.
Encode(s) ==
    /\ run = "apply" /\ pc[s] = "encode"
    /\ \/ /\ temp' = [temp EXCEPT ![Plan[s].to] = Made(disk[Plan[s].from])]
          /\ Goes(s, "recheck")
          /\ UNCHANGED <<outcome, refusals>>
       \/ /\ IF stop THEN UNCHANGED refusals ELSE Refused
          /\ Errs(s, "failed")
          /\ DropTemp(s)
    /\ UNCHANGED <<holdingVars, rowAt, status, heldBy, plan, dismissed, run, slot, todo,
                   notUndone, stop, batch, up, crashes, undos>>

\* same_file_state, and whether the result is smaller.  Dropping the temp file removes it.
Recheck(s) ==
    /\ run = "apply" /\ pc[s] = "recheck"
    /\ \/ /\ SourceUnchanged(s)
          /\ Goes(s, IF InPlace(s) THEN "hold" ELSE "place")
          /\ UNCHANGED <<temp, outcome>>
       \/ /\ IF SourceUnchanged(s) THEN Settles(s, "skipped") ELSE Errs(s, "skipped")
          /\ DropTemp(s)
    /\ UNCHANGED <<holdingVars, rowAt, status, heldBy, plan, dismissed, run, slot, todo,
                   notUndone, stop, counts>>

\* The temp file is renamed to the target, over whatever is there by now.  In place, a refusal
\* brings the original back.
Place(s) ==
    /\ run = "apply" /\ pc[s] = "place"
    /\ \/ /\ disk' = [disk EXCEPT ![Plan[s].to] = temp[Plan[s].to]]
          /\ temp' = [temp EXCEPT ![Plan[s].to] = NoFile]
          /\ Goes(s, IF InPlace(s) THEN "replace" ELSE "hold")
          /\ UNCHANGED <<outcome, refusals>>
       \/ /\ Refused
          /\ UNCHANGED disk
          /\ IF InPlace(s) /\ MayRestore(slot[s])
             THEN Goes(s, "back") /\ UNCHANGED <<outcome, temp>>
             ELSE Errs(s, "failed") /\ DropTemp(s)
    /\ UNCHANGED <<held, elsewhere, rowAt, status, heldBy, plan, dismissed, run, slot, todo,
                   notUndone, stop, batch, up, crashes, undos>>

\* settle_plan: cancelled when a stop left steps pending, or else by how they ended.
SettledStatusByDone ==
    IF \E s \in Step : status[s] = "done" THEN "applied" ELSE "failed"

SettledStatus ==
    IF \A s \in Step : status[s] # "failed" THEN "applied"
    ELSE IF \A s \in Step : status[s] # "done" THEN "failed" ELSE "partial"

\* forget_dismissals_of_idle_plan.
KeepsAllDismissals == dismissed
KeepsDismissals == dismissed /\ (Step = {} \/ \E s \in Step : status[s] = "done")

EndApply ==
    /\ run = "apply" /\ InFlight = {}
    \* A stop after the last still may come before or after the lanes' last look at it.
    /\ \/ Finished /\ ~Broken /\ plan' = SettledStatus
       \/ stop /\ (~Finished \/ Broken \/ Others = {}) /\ plan' = "cancelled"
    /\ dismissed' = KeepsDismissals
    /\ run' = "idle" /\ stop' = FALSE
    /\ pc' = [s \in Step |-> "finished"]
    /\ UNCHANGED <<holdingVars, temp, rowAt, status, heldBy, slot, outcome, todo, notUndone,
                   counts>>

\* The owner stops the change that is running.
Stop ==
    /\ run # "idle" /\ ~stop
    /\ stop' = TRUE
    /\ UNCHANGED <<holdingVars, durable, run, pc, slot, outcome, todo, notUndone, counts>>

-----------------------------------------------------------------------------
(* Undoing. *)

DoneSteps == {s \in Step : status[s] = "done"}

\* can_undo, and undo_plan's list of steps.
StartUndo ==
    /\ up /\ run = "idle" /\ undos < MaxUndos
    /\ plan \in {"applied", "partial", "cancelled"} /\ DoneSteps # {}
    /\ run' = "undo" /\ batch' = batch + 1 /\ undos' = undos + 1
    /\ todo' = DoneSteps
    /\ notUndone' = FALSE
    /\ UNCHANGED <<holdingVars, durable, pc, slot, outcome, stop, up, crashes, refusals>>

\* The step being undone, and the next to be: the newest first.
Newest(s)  == s \in todo /\ \A q \in todo : q <= s
Undoing(s) == run = "undo" /\ Newest(s)

Original(s) == heldBy[s]

\* undo_step's checks, and for a conversion whether its result is still there to be held.
UndoCheck(s) ==
    /\ Undoing(s) /\ pc[s] = "finished" /\ ~stop
    /\ Goes(s, CASE Plan[s].action = "hold" -> IF MayRestore(Original(s)) THEN "back" ELSE "failed"
                 [] Plan[s].action = "move" ->
                      IF disk[Plan[s].to] = Plan[s].file /\ ~PathExists(Plan[s].from)
                      THEN "return" ELSE "failed"
                 [] OTHER ->
                      IF ~Restorable(Original(s)) THEN "failed"
                      ELSE IF ~PathExists(Plan[s].to) THEN "look"
                      ELSE IF disk[Plan[s].to] = Made(Plan[s].file) THEN "unhold" ELSE "failed")
    /\ slot' = [slot EXCEPT ![s] = Original(s)]
    /\ UNCHANGED <<holdingVars, durable, run, outcome, todo, notUndone, stop, counts>>

\* With the converted file deleted, not held.
UnholdDeletes(s) ==
    /\ Undoing(s) /\ pc[s] = "unhold"
    /\ disk' = [disk EXCEPT ![Plan[s].to] = NoFile]
    /\ Goes(s, "look")
    /\ UNCHANGED <<held, elsewhere, durable, run, slot, outcome, todo, notUndone, stop, counts>>

\* The converted file goes to holding.
Unhold(s) ==
    /\ Undoing(s) /\ pc[s] = "unhold"
    /\ \/ /\ PathExists(Plan[s].to)
          /\ MoveToHolding(Plan[s].to, batch)
          /\ slot' = [slot EXCEPT ![s] = Len(held) + 1]
          /\ Goes(s, "unholdInsert")
          /\ UNCHANGED refusals
       \/ /\ IF PathExists(Plan[s].to) THEN Refused ELSE UNCHANGED refusals
          /\ Goes(s, "failed")
          /\ UNCHANGED <<disk, held, slot>>
    /\ UNCHANGED <<elsewhere, durable, run, outcome, todo, notUndone, stop,
                   batch, up, crashes, undos>>

UnholdInsert(s) ==
    /\ Undoing(s) /\ pc[s] = "unholdInsert"
    /\ InsertRow(slot[s])
    /\ slot' = [slot EXCEPT ![s] = Original(s)]
    /\ Goes(s, "look")
    /\ UNCHANGED <<disk, elsewhere, durable, run, outcome, todo, notUndone, stop, counts>>

\* restore_held's checks, for a conversion's original.
Look(s) ==
    /\ Undoing(s) /\ pc[s] = "look"
    /\ Goes(s, IF MayRestore(slot[s]) THEN "back" ELSE "failed")
    /\ UNCHANGED <<holdingVars, durable, run, slot, outcome, todo, notUndone, stop, counts>>

\* restore_held's move and UPDATE: an undo's, or convert's when its new file could not be placed.
Back(s) ==
    /\ pc[s] = "back"
    /\ \/ /\ held[slot[s]].at = "holding"
          /\ MoveBack(slot[s])
          /\ Goes(s, "mark")
          /\ UNCHANGED <<temp, outcome, refusals>>
       \/ /\ IF held[slot[s]].at = "holding" THEN Refused ELSE UNCHANGED refusals
          /\ UNCHANGED <<disk, held>>
          /\ IF run = "apply" THEN Errs(s, "failed") ELSE Goes(s, "failed") /\ UNCHANGED outcome
          /\ DropTemp(s)
    /\ UNCHANGED <<elsewhere, rowAt, status, heldBy, plan, dismissed, run, slot, todo, notUndone,
                   stop, batch, up, crashes, undos>>

Mark(s) ==
    /\ pc[s] = "mark"
    /\ MarkRestored(slot[s])
    /\ IF run = "apply" THEN Errs(s, "failed")
       ELSE Goes(s, IF Converts(s) THEN "repoint" ELSE "undone") /\ UNCHANGED outcome
    /\ DropTemp(s)
    /\ UNCHANGED <<disk, elsewhere, rowAt, status, heldBy, plan, dismissed, run, slot, todo,
                   notUndone, stop, counts>>

\* point_row_at_original, which gives way to a row that is there already.
Repoint(s) ==
    /\ Undoing(s) /\ pc[s] = "repoint"
    /\ IF RowBlocked(Plan[s].to, Plan[s].from)
       THEN UNCHANGED rowAt ELSE PointRow(Plan[s].to, Plan[s].from)
    /\ Goes(s, "undone")
    /\ UNCHANGED <<holdingVars, temp, status, heldBy, plan, dismissed, run, slot, outcome,
                   todo, notUndone, stop, counts>>

\* A moved file moves back, and its row after it.
Return(s) ==
    /\ Undoing(s) /\ pc[s] = "return"
    /\ \/ /\ PathExists(Plan[s].to)
          /\ disk' = [disk EXCEPT ![Plan[s].to] = NoFile, ![Plan[s].from] = disk[Plan[s].to]]
          /\ Goes(s, "relocateBack")
          /\ UNCHANGED refusals
       \/ /\ IF PathExists(Plan[s].to) THEN Refused ELSE UNCHANGED refusals
          /\ Goes(s, "failed")
          /\ UNCHANGED disk
    /\ UNCHANGED <<held, elsewhere, durable, run, slot, outcome, todo, notUndone, stop,
                   batch, up, crashes, undos>>

RelocateBack(s) ==
    /\ Undoing(s) /\ pc[s] = "relocateBack"
    /\ IF RowBlocked(Plan[s].to, Plan[s].from)
       THEN Goes(s, "failed") /\ UNCHANGED rowAt
       ELSE PointRow(Plan[s].to, Plan[s].from) /\ Goes(s, "undone")
    /\ UNCHANGED <<holdingVars, temp, status, heldBy, plan, dismissed, run, slot, outcome,
                   todo, notUndone, stop, counts>>

\* The step is undone: put back, or put back by the owner already.
MarkUndone(s) ==
    /\ Undoing(s) /\ pc[s] = "undone"
    /\ status' = [status EXCEPT ![s] = "undone"]
    /\ todo' = todo \ {s}
    /\ Goes(s, "finished")
    /\ UNCHANGED <<holdingVars, temp, rowAt, heldBy, plan, dismissed, run, slot, outcome,
                   notUndone, stop, counts>>

\* With every failure taken for a file the owner put back.
UndoFailedIsUndone(s) ==
    /\ Undoing(s) /\ pc[s] = "failed"
    /\ Goes(s, "undone")
    /\ UNCHANGED <<holdingVars, durable, run, slot, outcome, todo, notUndone, stop, counts>>

\* already_restored, or the step stays done with a note.
UndoFailed(s) ==
    /\ Undoing(s) /\ pc[s] = "failed"
    /\ IF Plan[s].action = "hold" /\ held[Original(s)].row = "restored"
       THEN Goes(s, "undone") /\ UNCHANGED <<todo, notUndone>>
       ELSE Goes(s, "finished") /\ todo' = todo \ {s} /\ notUndone' = TRUE
    /\ UNCHANGED <<holdingVars, durable, run, slot, outcome, stop, counts>>

\* The last transaction, unless a step failed, or a checkpoint saw the stop.
EndUndo ==
    /\ run = "undo"
    /\ \/ /\ todo = {} /\ ~notUndone
          /\ plan' = "undone" /\ dismissed' = FALSE
       \/ /\ (todo = {} /\ notUndone) \/ (stop /\ \E s \in todo : Newest(s) /\ pc[s] = "finished")
          /\ UNCHANGED <<plan, dismissed>>
    /\ run' = "idle" /\ stop' = FALSE /\ todo' = {}
    /\ UNCHANGED <<holdingVars, temp, rowAt, status, heldBy, pc, slot, outcome, notUndone,
                   counts>>

-----------------------------------------------------------------------------
(* A crash or a forced quit, and the next launch. *)

Crash ==
    /\ up /\ crashes < MaxCrashes /\ run \in CrashIn
    /\ up' = FALSE /\ crashes' = crashes + 1
    /\ run' = "idle" /\ stop' = FALSE /\ todo' = {} /\ notUndone' = FALSE
    /\ pc' = [s \in Step |-> "finished"]
    /\ slot' = [s \in Step |-> 0]
    /\ page' = Idle
    /\ UNCHANGED <<disk, held, presses, brought, outside, durable, outcome, batch, undos, refusals>>

\* Without the look for temp files.
RecoverPlanOnly ==
    /\ ~up
    /\ up' = TRUE
    /\ plan' = IF plan = "applying" THEN "cancelled" ELSE plan
    /\ dismissed' = IF plan = "applying" THEN KeepsDismissals ELSE dismissed
    /\ UNCHANGED <<holdingVars, temp, rowAt, status, heldBy, volatile, batch, crashes, undos,
                   refusals>>

\* recover_interrupted_plans.
Recover ==
    /\ ~up
    /\ up' = TRUE
    /\ IF plan = "applying"
       THEN /\ plan' = "cancelled"
            /\ temp' = [p \in Path |->
                          IF \E s \in Step : Plan[s].action # "hold" /\ Plan[s].to = p
                                             /\ status[s] = "pending"
                          THEN NoFile ELSE temp[p]]
            /\ dismissed' = KeepsDismissals
       ELSE UNCHANGED <<plan, temp, dismissed>>
    /\ UNCHANGED <<holdingVars, rowAt, status, heldBy, volatile, batch, crashes, undos, refusals>>

-----------------------------------------------------------------------------
(* The page waits for changes with Empty only, and only when it is pressed. *)
Page ==
    /\ up
    /\ \/ \E h \in Held : PressRestore(h)
       \/ run = "idle" /\ PressEmpty
       \/ PageStep
    /\ UNCHANGED <<durable, volatile, counts>>

OtherPrograms ==
    /\ \E c \in Foreign, p \in Path : Write(c, p)
    /\ UNCHANGED <<durable, volatile, counts>>

Apply(s) ==
    \/ Check(s) \/ Hold(s) \/ Insert(s) \/ DropRow(s) \/ Move(s) \/ Relocate(s)
    \/ Reserve(s) \/ Encode(s) \/ Recheck(s) \/ Place(s) \/ Record(s)

Undo(s) ==
    \/ UndoCheck(s) \/ Unhold(s) \/ UnholdInsert(s) \/ Look(s) \/ Repoint(s)
    \/ Return(s) \/ RelocateBack(s) \/ MarkUndone(s) \/ UndoFailed(s)

\* What the executor does once it has been started.
Execute == \/ \E s \in Step : Apply(s) \/ Undo(s) \/ Back(s) \/ Mark(s)
           \/ EndApply \/ EndUndo

Init ==
    /\ HoldingInit
    /\ temp = [p \in Path |-> NoFile]
    /\ rowAt = [r \in Rows |-> r]
    /\ status = [s \in Step |-> "pending"]
    /\ heldBy = [s \in Step |-> 0]
    /\ plan = "draft"
    /\ dismissed = Dismisses
    /\ run = "idle"
    /\ pc = [s \in Step |-> "waiting"]
    /\ slot = [s \in Step |-> 0]
    /\ outcome = [s \in Step |-> "pending"]
    /\ todo = {}
    /\ notUndone = FALSE
    /\ stop = FALSE
    /\ batch = 0
    /\ up = TRUE
    /\ crashes = 0 /\ undos = 0 /\ refusals = 0

Next ==
    \/ StartApply \/ StartUndo \/ Stop \/ Execute
    \/ Crash \/ Recover \/ Page \/ OtherPrograms

Spec == Init /\ [][Next]_vars

(***************************************************************************)
(* Threads that can go on do, and the owner starts Tidy again after a      *)
(* crash.  Nothing makes anyone start, stop or undo a change.              *)
(***************************************************************************)
FairSpec == Spec /\ WF_vars(Execute) /\ WF_vars(Recover)

-----------------------------------------------------------------------------
PCs == {"waiting", "finished", "record", "hold", "insert", "drop", "move", "relocate",
        "reserve", "encode", "recheck", "place", "replace", "back", "mark", "unhold",
        "unholdInsert", "look", "repoint", "return", "relocateBack", "undone", "failed"}

Contents == File \cup Foreign \cup {Made(c) : c \in File \cup Foreign \cup {NoFile}}

HeldFile == [file : Contents, from : Path, batch : Nat, at : {"holding", "trash", "back"},
             row : {"none", "held", "restored", "emptied"}]

TypeOK ==
    /\ disk \in [Path -> Contents \cup {NoFile}] /\ temp \in [Path -> Contents \cup {NoFile}]
    /\ \A h \in Held : held[h] \in HeldFile
    /\ page.doing \in {"nothing", "restoring", "marking", "trashing"}
    /\ page.id \in Held \cup {0}
    /\ rowAt \in [Rows -> Path \cup {NoPath}]
    /\ status \in [Step -> {"pending", "done", "skipped", "failed", "undone"}]
    /\ heldBy \in [Step -> Held \cup {0}] /\ slot \in [Step -> Held \cup {0}]
    /\ plan \in {"draft", "applying", "applied", "partial", "failed", "cancelled", "undone"}
    /\ dismissed \in BOOLEAN /\ stop \in BOOLEAN /\ notUndone \in BOOLEAN /\ up \in BOOLEAN
    /\ run \in {"idle", "apply", "undo"}
    /\ pc \in [Step -> PCs]
    /\ outcome \in [Step -> {"pending", "done", "skipped", "failed"}]
    /\ todo \subseteq Step

InRoot(c) == \E p \in Path : disk[p] = c
HeldAt(c, place) == \E h \in Held : held[h].file = c /\ held[h].at = place

(***************************************************************************)
(* The executor and the Holding page keep custody of the owner's files     *)
(* (executor.rs, "nothing is deleted").                                    *)
(***************************************************************************)
Where == [f \in File |-> IF f \in outside THEN "overwritten"
                         ELSE IF InRoot(f) THEN "root"
                         ELSE IF HeldAt(f, "holding") THEN "holding"
                         ELSE IF HeldAt(f, "trash") THEN "trash" ELSE "lost"]

Custody == INSTANCE TidyCustody WITH where <- Where

KeepsCustody == Custody!Spec

(***************************************************************************)
(* No file of the owner's is lost (executor.rs, "nothing is deleted"):     *)
(* what no other program overwrote is in the root, in holding or in the    *)
(* Trash, whatever conversions, restores and undos have crossed.           *)
(***************************************************************************)
OriginalsKept == \A f \in File : Where[f] # "lost"

Rests == up /\ run = "idle"

(***************************************************************************)
(* A step that was not done leaves its file as it found it, however the    *)
(* run ended short of a crash ("so the step leaves things as it found      *)
(* them", convert).                                                        *)
(***************************************************************************)
UnfinishedStepsLeaveFilesAlone ==
    Rests /\ crashes = 0 => \A s \in Step :
        status[s] \in {"pending", "skipped", "failed"} /\ Plan[s].file \notin outside =>
            disk[Plan[s].from] = Plan[s].file /\ disk[Plan[s].to] # Made(Plan[s].file)

HoldsFileOf(s) == Restorable(heldBy[s]) /\ held[heldBy[s]].file = Plan[s].file

(***************************************************************************)
(* Every finished step can be undone (executor.rs's header; after a crash, *)
(* runbooks/oriel.md): what its undo needs is where the undo looks.        *)
(***************************************************************************)
FinishedStepsCanBeUndone ==
    Rests => \A s \in DoneSteps :
        CASE Plan[s].action = "hold" -> HoldsFileOf(s)
          [] Plan[s].action = "move" -> disk[Plan[s].to] = Plan[s].file
          [] OTHER -> /\ HoldsFileOf(s)
                      /\ PathExists(Plan[s].to) => disk[Plan[s].to] = Made(Plan[s].file)

(***************************************************************************)
(* A step that says undone has its file back where it was.                 *)
(***************************************************************************)
UndoneIsPutBack ==
    \A s \in Step : status[s] = "undone" =>
        disk[Plan[s].from] = Plan[s].file \/ Plan[s].file \in outside

(***************************************************************************)
(* A conversion's undo that fails loses nothing of what the conversion     *)
(* made: the result is at its target, or in holding with a row that brings *)
(* it back there, though the undo held it before the original was refused  *)
(* (undo_step; executor.rs's header, "nothing is deleted").                *)
(***************************************************************************)
FailedUndoKeepsTheResult ==
    Rests => \A s \in DoneSteps : Converts(s) =>
        \/ disk[Plan[s].to] = Made(Plan[s].file)
        \/ \E h \in Held : Restorable(h) /\ held[h].file = Made(Plan[s].file)
                           /\ held[h].from = Plan[s].to

(***************************************************************************)
(* Of a set of duplicates that the plan resolves, one stays in the root:   *)
(* steps that each go in favour of the other do not both go.               *)
(***************************************************************************)
ACopyStays ==
    \A s \in Step : Plan[s].keepers # {} =>
        \E p \in Plan[s].keepers \cup {Plan[s].from} : disk[p] = Start[p] \/ Start[p] \in outside

(***************************************************************************)
(* Once nothing runs there is nothing stray: no temp file beside a target, *)
(* after a crash too, and a file in holding that no row tells of comes of  *)
(* a crash between its move and its row, one for each lane at most.        *)
(***************************************************************************)
NoStraysLeft ==
    Rests => /\ \A p \in Path : temp[p] = NoFile
             /\ Cardinality({h \in Held : held[h].at = "holding" /\ held[h].row = "none"})
                  <= crashes * Lanes

(***************************************************************************)
(* History tells the truth: a plan that says applied has no step that      *)
(* failed or waits, one that says undone none that is still done, one that *)
(* says failed none that was.                                              *)
(***************************************************************************)
PlanSaysWhatHappened ==
    Rests => /\ plan # "applying"
             /\ plan = "applied" => \A s \in Step : status[s] \in {"done", "skipped", "undone"}
             /\ plan = "failed" => \A s \in Step : status[s] \in {"skipped", "failed"}
             /\ plan = "undone" => DoneSteps = {}

(***************************************************************************)
(* What a plan dismissed can be taken back as long as it is dismissed      *)
(* (forget_dismissals_of_idle_plan's comment).                             *)
(***************************************************************************)
DismissalsCanBeTakenBack ==
    Rests /\ plan # "draft" /\ dismissed =>
        plan \in {"applied", "partial", "cancelled"} /\ DoneSteps # {}

(***************************************************************************)
(* Holding stays while a change runs that may need it (holding_may_be_     *)
(* needed): the Trash takes no batch while a plan is applied or undone.    *)
(***************************************************************************)
HoldingStaysWhileNeeded ==
    [][run # "idle" => \A h \in Held : held[h].at = "holding" => held'[h].at # "trash"]_vars

(***************************************************************************)
(* A change that has begun ends, crash or no crash: no step waits for one  *)
(* that will not come, and the plan does not stay "applying".              *)
(***************************************************************************)
EveryRunEnds == (plan = "applying" \/ run # "idle") ~> (plan # "applying" /\ run = "idle")
=============================================================================
