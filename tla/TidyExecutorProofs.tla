------------------------- MODULE TidyExecutorProofs -------------------------
(***************************************************************************)
(* What Tidy's executor keeps for any plan, any number of lanes, and       *)
(* however often Tidy crashes, a change is undone, a move is refused, the  *)
(* Holding page is pressed or another program writes into the root.        *)
(***************************************************************************)
EXTENDS TidyExecutor, TLAPS

-----------------------------------------------------------------------------
(* Where the steps and the plan are. *)

Statuses == {"pending", "done", "skipped", "failed", "undone"}
Outcomes == {"done", "skipped", "failed"}
Undoable == {"applied", "partial", "cancelled"}
PlanStatuses == {"draft", "applying", "failed", "undone"} \cup Undoable

ControlTypes ==
    /\ status \in [Step -> Statuses]
    /\ plan \in PlanStatuses
    /\ dismissed \in BOOLEAN /\ stop \in BOOLEAN /\ notUndone \in BOOLEAN /\ up \in BOOLEAN
    /\ run \in {"idle", "apply", "undo"}
    /\ pc \in [Step -> PCs]
    /\ outcome \in [Step -> {"pending"} \cup Outcomes]
    /\ todo \subseteq Step

\* A step of the run goes on, without an end: what it says will be recorded is how it ended, and
\* it ends unrecorded only in a run that was stopped.
Proceeds(s) ==
    /\ run = "apply" /\ pc[s] # "finished"
    /\ UNCHANGED <<status, plan, dismissed, run, todo, notUndone, up, stop>>
    /\ pc' \in [Step -> PCs] /\ outcome' \in [Step -> {"pending"} \cup Outcomes]
    /\ \A q \in Step \ {s} : pc'[q] = pc[q] /\ outcome'[q] = outcome[q]
    /\ pc'[s] # "waiting"
    /\ pc'[s] = "record" => outcome'[s] \in Outcomes
    /\ pc'[s] = "finished" => stop

\* A step that is being undone goes on.
UndoProceeds(s) ==
    /\ Undoing(s)
    /\ UNCHANGED <<status, plan, dismissed, run, todo, notUndone, up, stop, outcome>>
    /\ pc' \in [Step -> PCs]
    /\ \A q \in Step \ {s} : pc'[q] = pc[q]
    /\ pc'[s] \notin {"waiting", "finished"}

LEMMA GoesOn ==
  ASSUME ControlTypes, NEW s \in Step, NEW n \in PCs \ {"waiting", "record", "finished"},
         run = "apply", pc[s] # "finished", Goes(s, n), UNCHANGED outcome,
         UNCHANGED <<status, plan, dismissed, run, todo, notUndone, up, stop>>
  PROVE  Proceeds(s)
BY DEF ControlTypes, Goes, Proceeds

LEMMA ErrsOn ==
  ASSUME ControlTypes, NEW s \in Step, NEW o \in Outcomes,
         run = "apply", pc[s] # "finished", Errs(s, o) \/ Settles(s, o),
         UNCHANGED <<status, plan, dismissed, run, todo, notUndone, up, stop>>
  PROVE  Proceeds(s)
BY DEF ControlTypes, Goes, Proceeds, Errs, Settles, PCs

\* Every action of a run but the record proceeds.
LEMMA ApplyProceeds ==
  ASSUME ControlTypes, NEW s \in Step, Apply(s), ~Record(s)
  PROVE  Proceeds(s)
<1> USE DEF durable, counts, volatile, holdingVars, Outcomes, PCs
<1>1. CASE Check(s)
  BY <1>1, GoesOn, ErrsOn DEF Check, MayStart
<1>2. CASE Hold(s)
  BY <1>2, GoesOn, ErrsOn DEF Hold
<1>3. CASE Insert(s)
  BY <1>3, GoesOn DEF Insert
<1>4. CASE DropRow(s)
  BY <1>4, ErrsOn DEF DropRow
<1>5. CASE Move(s)
  BY <1>5, GoesOn, ErrsOn DEF Move
<1>6. CASE Relocate(s)
  BY <1>6, ErrsOn DEF Relocate
<1>7. CASE Reserve(s)
  <2>1. CASE Goes(s, "encode")
    BY <1>7, <2>1, GoesOn DEF Reserve
  <2>2. CASE stop /\ Goes(s, "finished")
    BY <1>7, <2>2 DEF Reserve, Proceeds, ControlTypes, Goes
  <2>3. QED
    BY <1>7, <2>1, <2>2 DEF Reserve
<1>8. CASE Encode(s)
  BY <1>8, GoesOn, ErrsOn DEF Encode
<1>9. CASE Recheck(s)
  BY <1>9, GoesOn, ErrsOn DEF Recheck
<1>10. CASE Place(s)
  BY <1>10, GoesOn, ErrsOn DEF Place
<1>11. QED
  BY <1>1, <1>2, <1>3, <1>4, <1>5, <1>6, <1>7, <1>8, <1>9, <1>10 DEF Apply

\* Bringing a file back belongs to an undo, or to a conversion that failed.
LEMMA BackProceeds ==
  ASSUME ControlTypes, NEW s \in Step, Back(s) \/ Mark(s),
         run = "apply" \/ Undoing(s)
  PROVE  Proceeds(s) \/ UndoProceeds(s)
<1> USE DEF durable, counts, volatile, holdingVars, elsewhere, Outcomes
<1>1. CASE run = "apply"
  BY <1>1, GoesOn, ErrsOn DEF Back, Mark, PCs
<1>2. CASE Undoing(s) /\ Back(s)
  BY <1>2 DEF Back, UndoProceeds, Undoing, ControlTypes, Goes, PCs
<1>3. CASE Undoing(s) /\ Mark(s)
  BY <1>3 DEF Mark, UndoProceeds, Undoing, ControlTypes, Goes, PCs
<1>4. QED
  BY <1>1, <1>2, <1>3

\* Every action of an undo but the two that end a step proceeds.
LEMMA UndoSteps ==
  ASSUME ControlTypes, NEW s \in Step, Undo(s), ~MarkUndone(s), ~UndoFailed(s)
  PROVE  UndoProceeds(s)
<1> USE DEF durable, counts, volatile, holdingVars, elsewhere, UndoProceeds, ControlTypes, Goes, PCs
<1>1. CASE UndoCheck(s)
  BY <1>1 DEF UndoCheck
<1>2. CASE Unhold(s)
  BY <1>2 DEF Unhold
<1>3. CASE UnholdInsert(s)
  BY <1>3 DEF UnholdInsert
<1>4. CASE Look(s)
  BY <1>4 DEF Look
<1>5. CASE Repoint(s)
  BY <1>5 DEF Repoint
<1>6. CASE Return(s)
  BY <1>6 DEF Return
<1>7. CASE RelocateBack(s)
  BY <1>7 DEF RelocateBack
<1>8. QED
  BY <1>1, <1>2, <1>3, <1>4, <1>5, <1>6, <1>7 DEF Undo

\* How far the steps are, by what the executor does: a run records each step once, and an undo
\* goes through the done ones, the newest first and one at a time.
RunControl ==
    /\ run = "idle" => /\ \A s \in Step : pc[s] \in {"waiting", "finished"}
                       /\ plan # "draft" => \A s \in Step : pc[s] = "finished"
                       /\ plan = "applying" => ~up
    /\ run = "apply" => up /\ plan = "applying"
    /\ run = "apply" => \A s \in Step :
         /\ status[s] \in {"pending"} \cup Outcomes
         /\ pc[s] # "finished" => status[s] = "pending"
         /\ pc[s] = "record" => outcome[s] \in Outcomes
    /\ run = "undo" =>
         /\ up /\ plan \in Undoable
         /\ \A s \in Step : pc[s] # "finished" => Newest(s)
         /\ todo \subseteq DoneSteps
         /\ notUndone <=> DoneSteps \ todo # {}
    /\ plan = "draft" => run = "idle" /\ \A s \in Step : status[s] = "pending"

\* What the plan's status says of its steps'.
PlanTruth ==
    /\ plan = "applied" => \A s \in Step : status[s] \in {"done", "skipped", "undone"}
    /\ plan = "failed" => \A s \in Step : status[s] \in {"skipped", "failed"}
    /\ plan = "undone" => DoneSteps = {}

LEMMA StepsAreNumbers == Step \subseteq Nat
BY ExecutorAssumption DEF Step

LEMMA OneNewest ==
  ASSUME ControlTypes, NEW s, NEW q, Newest(s), Newest(q)
  PROVE  s = q
BY StepsAreNumbers DEF Newest, ControlTypes

LEMMA ControlInit == Init => ControlTypes /\ RunControl /\ PlanTruth
<1> SUFFICES ASSUME Init PROVE ControlTypes /\ RunControl /\ PlanTruth
  OBVIOUS
<1>1. Dismisses \in BOOLEAN
  BY ExecutorAssumption
<1>2. ControlTypes
  BY <1>1 DEF Init, ControlTypes, Statuses, PlanStatuses, PCs
<1>3. QED
  BY <1>2 DEF Init, RunControl, PlanTruth

Control == ControlTypes /\ RunControl /\ PlanTruth

LEMMA ProceedsKeepsControl ==
  ASSUME Control, NEW s \in Step, Proceeds(s)
  PROVE  Control'
<1> USE DEF Control, Proceeds
<1>1. ControlTypes'
  BY DEF ControlTypes
<1>2. RunControl'
  BY DEF ControlTypes, RunControl, PCs
<1>3. PlanTruth'
  BY DEF PlanTruth, DoneSteps
<1>4. QED
  BY <1>1, <1>2, <1>3

LEMMA UndoKeepsControl ==
  ASSUME Control, NEW s \in Step, UndoProceeds(s)
  PROVE  Control'
<1> USE DEF Control, UndoProceeds
<1>1. ControlTypes'
  BY DEF ControlTypes
<1>2. RunControl'
  <2>1. run = "undo" /\ Newest(s)
    BY DEF Undoing
  <2>2. \A q \in Step : Newest(q)' <=> Newest(q)
    BY DEF Newest
  <2>3. DoneSteps' = DoneSteps
    BY DEF DoneSteps
  <2>4. QED
    BY <2>1, <2>2, <2>3 DEF RunControl
<1>3. PlanTruth'
  BY DEF PlanTruth, DoneSteps
<1>4. QED
  BY <1>1, <1>2, <1>3

LEMMA RecordKeepsControl ==
  ASSUME Control, NEW s \in Step, Record(s)
  PROVE  Control'
<1> USE DEF Control, Record, Goes, counts
<1>1. ControlTypes'
  BY DEF ControlTypes, RunControl, Outcomes, Statuses, PCs
<1>2. RunControl'
  BY DEF ControlTypes, RunControl, Outcomes
<1>3. PlanTruth'
  BY DEF PlanTruth, RunControl
<1>4. QED
  BY <1>1, <1>2, <1>3

\* settle_plan's status is true of how the steps ended.
LEMMA SettledIsTrue ==
  ASSUME \A s \in Step : status[s] \in Outcomes
  PROVE  /\ SettledStatus \in {"applied", "failed", "partial"}
         /\ SettledStatus = "applied" => \A s \in Step : status[s] \in {"done", "skipped"}
         /\ SettledStatus = "failed" => /\ \A s \in Step : status[s] \in {"skipped", "failed"}
                                        /\ \E s \in Step : status[s] = "failed"
BY DEF SettledStatus, Outcomes

LEMMA EndApplyKeepsControl ==
  ASSUME Control, EndApply
  PROVE  Control'
<1> USE DEF Control, counts, holdingVars
<1>0. DoneSteps' = DoneSteps
  BY DEF EndApply, DoneSteps
<1>1. CASE Finished /\ ~Broken /\ plan' = SettledStatus
  <2>1. \A s \in Step : status[s] \in Outcomes
    BY <1>1 DEF EndApply, RunControl, Finished, Broken
  <2>2. ControlTypes'
    BY <1>1, <2>1, SettledIsTrue DEF EndApply, ControlTypes, PlanStatuses, Undoable, PCs,
                                     KeepsDismissals
  <2>3. RunControl'
    BY <1>1, <2>1, SettledIsTrue DEF EndApply, RunControl
  <2>4. PlanTruth'
    BY <1>1, <2>1, SettledIsTrue DEF EndApply, PlanTruth
  <2>5. QED
    BY <2>2, <2>3, <2>4
<1>2. CASE plan' = "cancelled"
  <2>2. ControlTypes'
    BY <1>2 DEF EndApply, ControlTypes, PlanStatuses, Undoable, PCs, KeepsDismissals
  <2>3. RunControl'
    BY <1>2 DEF EndApply, RunControl
  <2>4. PlanTruth'
    BY <1>2 DEF EndApply, PlanTruth
  <2>5. QED
    BY <2>2, <2>3, <2>4
<1>3. QED
  BY <1>1, <1>2 DEF EndApply

LEMMA StepUndoneKeepsControl ==
  ASSUME Control, NEW s \in Step, MarkUndone(s) \/ UndoFailed(s)
  PROVE  Control'
<1> USE DEF Control, holdingVars, durable, counts
<1>1. run = "undo" /\ Newest(s) /\ pc[s] # "finished" /\ status[s] = "done"
  BY DEF MarkUndone, UndoFailed, Undoing, RunControl, DoneSteps, Newest
<1>2. \A q \in Step : pc[q] # "finished" => q = s
  BY <1>1, OneNewest DEF RunControl
<1>3. CASE MarkUndone(s)
  <2>1. ControlTypes'
    BY <1>3 DEF MarkUndone, ControlTypes, Statuses, Goes, PCs
  <2>2. DoneSteps' = DoneSteps \ {s}
    BY <1>3 DEF MarkUndone, ControlTypes, DoneSteps
  <2>3. RunControl'
    <3>1. \A q \in Step : pc'[q] = "finished"
      BY <1>2, <1>3 DEF MarkUndone, ControlTypes, Goes
    <3>2. todo' = todo \ {s} /\ s \in todo /\ UNCHANGED <<run, plan, up, notUndone>>
      BY <1>1, <1>3 DEF MarkUndone, Newest
    <3>3. /\ todo' \subseteq DoneSteps'
          /\ notUndone' <=> DoneSteps' \ todo' # {}
      BY <1>1, <2>2, <3>2 DEF RunControl
    <3>4. QED
      BY <1>1, <3>1, <3>2, <3>3 DEF RunControl, Undoable
  <2>4. PlanTruth'
    BY <1>1, <1>3, <2>2 DEF MarkUndone, RunControl, ControlTypes, PlanTruth, Undoable
  <2>5. QED
    BY <2>1, <2>3, <2>4
<1>4. CASE UndoFailed(s) /\ Goes(s, "undone") /\ UNCHANGED <<todo, notUndone>>
  <2>1. UndoProceeds(s)
    BY <1>4 DEF UndoFailed, UndoProceeds, ControlTypes, Goes, PCs
  <2>2. QED
    BY <2>1, UndoKeepsControl
<1>5. CASE UndoFailed(s) /\ Goes(s, "finished") /\ todo' = todo \ {s} /\ notUndone' = TRUE
  <2>1. ControlTypes'
    BY <1>5 DEF UndoFailed, ControlTypes, Goes, PCs
  <2>2. DoneSteps' = DoneSteps /\ s \in DoneSteps
    BY <1>1, <1>5 DEF UndoFailed, DoneSteps
  <2>3. RunControl'
    BY <1>1, <1>2, <1>5, <2>2 DEF UndoFailed, RunControl, ControlTypes, Goes, Undoable
  <2>4. PlanTruth'
    BY <1>5, <2>2 DEF UndoFailed, PlanTruth
  <2>5. QED
    BY <2>1, <2>3, <2>4
<1>6. QED
  BY <1>3, <1>4, <1>5 DEF UndoFailed

LEMMA EndUndoKeepsControl ==
  ASSUME Control, EndUndo
  PROVE  Control'
<1> USE DEF Control, EndUndo, holdingVars, counts
<1>1. \A s \in Step : pc[s] = "finished"
  <2>1. CASE todo = {}
    BY <2>1 DEF RunControl, Newest
  <2>2. CASE \E s \in todo : Newest(s) /\ pc[s] = "finished"
    BY <2>2, OneNewest DEF RunControl
  <2>3. QED
    BY <2>1, <2>2
<1>2. DoneSteps' = DoneSteps
  BY DEF DoneSteps
<1>3. CASE todo = {} /\ ~notUndone /\ plan' = "undone" /\ dismissed' = FALSE
  <2>1. DoneSteps = {}
    BY <1>3 DEF RunControl
  <2>2. ControlTypes' /\ RunControl' /\ PlanTruth'
    BY <1>1, <1>2, <1>3, <2>1 DEF ControlTypes, PlanStatuses, RunControl, PlanTruth
  <2>3. QED
    BY <2>2
<1>4. CASE UNCHANGED <<plan, dismissed>>
  <2>1. ControlTypes'
    BY <1>4 DEF ControlTypes
  <2>2. RunControl'
    BY <1>1, <1>2, <1>4 DEF RunControl, Undoable
  <2>3. PlanTruth'
    BY <1>2, <1>4 DEF PlanTruth
  <2>4. QED
    BY <2>1, <2>2, <2>3
<1>5. QED
  BY <1>3, <1>4

\* Starting, stopping and crashing, and the next launch.
LEMMA RunsKeepControl ==
  ASSUME Control, StartApply \/ StartUndo \/ Stop \/ Crash \/ Recover
  PROVE  Control'
<1> USE DEF Control, ControlTypes, RunControl, PlanTruth, DoneSteps, holdingVars, durable,
            volatile, counts
<1>1. CASE StartApply
  BY <1>1 DEF StartApply, PlanStatuses, PCs
<1>2. CASE StartUndo
  BY <1>2 DEF StartUndo, Undoable
<1>3. CASE Stop
  BY <1>3 DEF Stop, Newest
<1>4. CASE Crash
  BY <1>4 DEF Crash, PCs
<1>5. CASE Recover
  BY <1>5 DEF Recover, PlanStatuses, Undoable, KeepsDismissals
<1>6. QED
  BY <1>1, <1>2, <1>3, <1>4, <1>5

\* The page and other programs leave the plan and its steps alone.
LEMMA OthersKeepControl ==
  ASSUME Control, UNCHANGED <<durable, volatile, counts>>
  PROVE  Control'
BY DEF Control, ControlTypes, RunControl, PlanTruth, DoneSteps, Newest, durable, volatile, counts

LEMMA ControlStep ==
  ASSUME Control, [Next]_vars
  PROVE  Control'
<1>1. ASSUME NEW s \in Step, Apply(s) PROVE Control'
  <2>1. CASE Record(s)
    BY <2>1, RecordKeepsControl
  <2>2. CASE ~Record(s)
    BY <1>1, <2>2, ApplyProceeds, ProceedsKeepsControl DEF Control
  <2>3. QED
    BY <2>1, <2>2
<1>2. ASSUME NEW s \in Step, Undo(s) PROVE Control'
  <2>1. CASE MarkUndone(s) \/ UndoFailed(s)
    BY <2>1, StepUndoneKeepsControl
  <2>2. CASE ~MarkUndone(s) /\ ~UndoFailed(s)
    BY <1>2, <2>2, UndoSteps, UndoKeepsControl DEF Control
  <2>3. QED
    BY <2>1, <2>2
<1>3. ASSUME NEW s \in Step, Back(s) \/ Mark(s) PROVE Control'
  <2>1. run = "apply" \/ Undoing(s)
    BY <1>3 DEF Back, Mark, Control, ControlTypes, RunControl, Undoing
  <2>2. QED
    BY <1>3, <2>1, BackProceeds, ProceedsKeepsControl, UndoKeepsControl DEF Control
<1>4. CASE EndApply \/ EndUndo
  BY <1>4, EndApplyKeepsControl, EndUndoKeepsControl
<1>5. CASE StartApply \/ StartUndo \/ Stop \/ Crash \/ Recover
  BY <1>5, RunsKeepControl
<1>6. CASE Page \/ OtherPrograms \/ UNCHANGED vars
  BY <1>6, OthersKeepControl DEF Page, OtherPrograms, vars
<1>7. QED
  BY <1>1, <1>2, <1>3, <1>4, <1>5, <1>6 DEF Next, Execute

(***************************************************************************)
(* The control of apply, undo and recovery keeps its order (execute,       *)
(* undo_plan, recover_interrupted): which statuses a run can have reached  *)
(* in each step, and what the plan's own status then says of them.         *)
(***************************************************************************)
THEOREM ControlHolds == Spec => []Control
<1>1. Init => Control
  BY ControlInit DEF Control
<1>2. Control /\ [Next]_vars => Control'
  BY ControlStep
<1>3. QED
  BY <1>1, <1>2, PTL DEF Spec

(***************************************************************************)
(* History tells the truth (PlanSaysWhatHappened): whatever the plan says  *)
(* of itself once nothing runs is so of its steps, for every plan, through *)
(* stops, crashes, refusals and undos cut short (settle_plan, undo_plan).  *)
(***************************************************************************)
THEOREM HistoryIsTrue == Spec => []PlanSaysWhatHappened
<1>1. Control => PlanSaysWhatHappened
  BY DEF Control, RunControl, PlanTruth, PlanSaysWhatHappened, Rests
<1>2. QED
  BY <1>1, ControlHolds, PTL

-----------------------------------------------------------------------------
(* Dismissals. *)

\* Dismissals that are left when nothing runs are of a plan that can be undone.
LeftCanBeUndone ==
    run = "idle" /\ plan \notin {"draft", "applying"} /\ dismissed =>
        plan \in Undoable /\ DoneSteps # {}

\* A plan that keeps its dismissals has a done step.
LEMMA SettledCanBeUndone ==
  ASSUME Control, Step # {}, EndApply \/ Recover, LeftCanBeUndone
  PROVE  LeftCanBeUndone'
<1>1. DoneSteps' = DoneSteps
  BY DEF EndApply, Recover, DoneSteps
<1>2. CASE dismissed' = KeepsDismissals
  <2>1. dismissed' => DoneSteps # {}
    BY <1>2 DEF KeepsDismissals, DoneSteps
  <2>2. DoneSteps # {} => SettledStatus \in Undoable
    BY DEF SettledStatus, DoneSteps, Undoable
  <2>3. DoneSteps # {} => plan' \in Undoable \cup {plan}
    BY <2>2 DEF EndApply, Recover, Undoable
  <2>4. QED
    BY <1>1, <1>2, <2>1, <2>3 DEF EndApply, Recover, LeftCanBeUndone, Control, RunControl, volatile
<1>3. CASE Recover /\ UNCHANGED <<plan, dismissed>>
  BY <1>1, <1>3 DEF Recover, LeftCanBeUndone, volatile
<1>4. QED
  BY <1>2, <1>3 DEF EndApply, Recover

\* An undo that does not reach its end leaves a done step.
LEMMA UndoneCanBeUndone ==
  ASSUME Control, EndUndo
  PROVE  LeftCanBeUndone'
<1>1. DoneSteps' = DoneSteps
  BY DEF EndUndo, DoneSteps
<1>2. dismissed' => UNCHANGED plan /\ DoneSteps # {}
  BY DEF EndUndo, Control, RunControl, Newest
<1>3. QED
  BY <1>1, <1>2 DEF EndUndo, LeftCanBeUndone, Control, RunControl

(***************************************************************************)
(* What a plan dismissed can be taken back as long as it is dismissed      *)
(* (DismissalsCanBeTakenBack): of every plan with a step, through refusals *)
(* and crashes, as long as none is inside an undo                          *)
(* (forget_dismissals_of_idle_plan).                                       *)
(***************************************************************************)
THEOREM DismissalsStay ==
  ASSUME Step # {}, "undo" \notin CrashIn
  PROVE  Spec => []DismissalsCanBeTakenBack
<1>1. Init => LeftCanBeUndone
  BY DEF Init, LeftCanBeUndone
<1>2. LeftCanBeUndone /\ Control /\ [Next]_vars => LeftCanBeUndone'
  <2> SUFFICES ASSUME LeftCanBeUndone, Control, [Next]_vars PROVE LeftCanBeUndone'
    OBVIOUS
  <2>1. CASE EndApply \/ EndUndo \/ Recover
    BY <2>1, SettledCanBeUndone, UndoneCanBeUndone
  <2>2. ASSUME NEW s \in Step, Apply(s) \/ Undo(s) \/ Back(s) \/ Mark(s)
        PROVE  LeftCanBeUndone'
    <3>1. Control' /\ UNCHANGED run
      BY <2>2, ControlStep DEF Next, Execute, Apply, Check, Hold, Insert, DropRow, Move, Relocate,
         Reserve, Encode, Recheck, Place, Record, Undo, UndoCheck, Unhold, UnholdInsert, Look,
         Repoint, Return, RelocateBack, MarkUndone, UndoFailed, Back, Mark
    <3>2. run # "idle"
      BY <2>2 DEF Apply, Check, MayStart, Hold, Insert, DropRow, Move, Relocate,
         Reserve, Encode, Recheck, Place, Record, Undo, UndoCheck, Unhold, UnholdInsert, Look,
         Repoint, Return, RelocateBack, MarkUndone, UndoFailed, Back, Mark, Undoing, Control,
         RunControl
    <3>3. QED
      BY <3>1, <3>2 DEF LeftCanBeUndone
  <2>3. CASE StartApply \/ StartUndo \/ Stop \/ Crash
    BY <2>3 DEF StartApply, StartUndo, Stop, Crash, LeftCanBeUndone, DoneSteps, durable,
       Control, ControlTypes, RunControl
  <2>4. CASE Page \/ OtherPrograms \/ UNCHANGED vars
    BY <2>4 DEF Page, OtherPrograms, vars, durable, volatile, LeftCanBeUndone, DoneSteps
  <2>5. QED
    BY <2>1, <2>2, <2>3, <2>4 DEF Next, Execute
<1>3. Control /\ LeftCanBeUndone => DismissalsCanBeTakenBack
  BY DEF Control, RunControl, LeftCanBeUndone, DismissalsCanBeTakenBack, Rests, Undoable
<1>4. QED
  BY <1>1, <1>2, <1>3, ControlHolds, PTL DEF Spec

-----------------------------------------------------------------------------
(* What is where.  From here on, about plans as the planner drafts them.   *)

\* A file has one step, and a step's target is free when the plan is drafted and no other step's
\* (planner.rs, unique_ids; candidates.rs, taken_paths).  This leaves out conversions in place,
\* whose originals a restore can lose (MC_TidyExecutor, InPlaceVideo).
FreeTargets ==
    \A s \in Step :
        /\ Plan[s].action # "hold" => Start[Plan[s].to] = NoFile
        /\ \A q \in Step \ {s} :
             /\ Plan[q].from # Plan[s].from
             /\ Plan[s].action # "hold" /\ Plan[q].action # "hold" => Plan[q].to # Plan[s].to

\* What an encoder makes is none of the owner's files.
MadeIsNew == \A c : Made(c) \notin File

Planned == FreeTargets /\ MadeIsNew

From(s) == Plan[s].from
To(s)   == Plan[s].to
Moves(s) == Plan[s].action = "move"

Results  == {To(s) : s \in {q \in Step : Converts(q)}}
Landings == {To(s) : s \in {q \in Step : Moves(q)}}

LEMMA PlanTypes ==
  ASSUME NEW s \in Step
  PROVE  /\ Plan[s].action \in Actions
         /\ From(s) \in Path /\ To(s) \in Path
         /\ Plan[s].file \in File /\ Plan[s].file = Start[From(s)]
<1>1. Plan[s] \in [action : Actions, from : Path, to : Path, file : File,
                   keepers : SUBSET Path, bytes : Nat \ {0}]
  <2> DEFINE R == [action : Actions, from : Path, to : Path, file : File,
                   keepers : SUBSET Path, bytes : Nat \ {0}]
  <2>1. Plan \in Seq(R) /\ s \in DOMAIN Plan
    BY ExecutorAssumption DEF Step
  <2> HIDE DEF R
  <2>2. Plan[s] \in R
    BY <2>1
  <2>3. QED
    BY <2>2 DEF R
<1>2. Plan[s].file = Start[Plan[s].from]
  BY ExecutorAssumption DEF Step
<1>3. QED
  BY <1>1, <1>2 DEF From, To

LEMMA StartTypes ==
  /\ NoFile \notin File \cup Foreign /\ File \cap Foreign = {}
  /\ Start \in [Path -> File \cup {NoFile}]
  /\ \A p, q \in Path : Start[p] \in File /\ Start[p] = Start[q] => p = q
  /\ \A f \in File : \E p \in Path : Start[p] = f
<1>1. ASSUME NEW p \in Path, NEW q \in Path, Start[p] \in File, Start[p] = Start[q]
      PROVE  p = q
  <2>1. PICK o \in Path : \A r \in Path : Start[r] = Start[p] <=> r = o
    BY <1>1, HoldingAssumption
  <2>2. QED
    BY <1>1, <2>1
<1>2. QED
  BY <1>1, HoldingAssumption

\* Sources, results and the targets of moves are apart.
LEMMA Apart ==
  ASSUME Planned, NEW s \in Step
  PROVE  /\ From(s) \notin Results \cup Landings
         /\ Plan[s].action # "hold" => Start[To(s)] = NoFile /\ ~InPlace(s)
         /\ Converts(s) => To(s) \in Results \ Landings /\ ~Moves(s)
         /\ Moves(s) => To(s) \in Landings \ Results
         /\ ~Converts(s) /\ ~Moves(s) <=> Plan[s].action = "hold"
         /\ \A q \in Step : Plan[s].action # "hold" => To(s) # From(q)
         /\ \A q \in Step \ {s} : From(q) # From(s)
         /\ \A q \in Step \ {s} : Moves(s) /\ Moves(q) => To(q) # To(s)
<1> USE DEF Planned, FreeTargets, From, To
<1>1. \A q \in Step : Start[From(q)] # NoFile
  BY PlanTypes, StartTypes
<1>2. \A q \in Step : Plan[q].action # "hold" => Start[To(q)] = NoFile
  OBVIOUS
<1>3. \A q \in Step : Plan[s].action # "hold" => To(s) # From(q)
  BY <1>1, <1>2
<1>4. From(s) \notin Results \cup Landings
  BY <1>1, <1>2 DEF Results, Landings, Converts, Moves
<1>5. Converts(s) => To(s) \in Results \ Landings
  BY DEF Landings, Moves, Results, Converts
<1>6. Moves(s) => To(s) \in Landings \ Results
  BY DEF Landings, Moves, Results, Converts
<1>7. ~Converts(s) /\ ~Moves(s) <=> Plan[s].action = "hold"
  BY PlanTypes DEF Converts, Moves, Actions
<1>8. QED
  BY <1>2, <1>3, <1>4, <1>5, <1>6, <1>7 DEF InPlace, Moves, Converts

LEMMA Places ==
  ASSUME Planned
  PROVE  /\ Results \subseteq Path /\ Landings \subseteq Path
         /\ \A p \in Results \cup Landings : Start[p] = NoFile
         /\ Results \cap Landings = {}
BY PlanTypes, Apart DEF Results, Landings, Converts, Moves

-----------------------------------------------------------------------------
(* The files: what is on disk and in holding, and what a move of one does to that. *)

Plain == File \cup Foreign \cup {NoFile}

\* Only its own path, and where a step moves it to, ever has a file of the owner's.
Belongs(f, p) == f = Start[p] \/ \E s \in Step : p = To(s) /\ Moves(s) /\ f = Start[From(s)]

\* The file of p is there, unless another program wrote over it.
Home(p) == disk[p] = Start[p] \/ Start[p] \in outside

DiskOK ==
    /\ disk \in [Path -> Contents \cup {NoFile}]
    /\ \A p \in Path \ Results : disk[p] \in Plain
    /\ \A p \in Path : disk[p] \in File => Belongs(disk[p], p)
    /\ \A p, q \in Path : disk[p] \in File /\ disk[p] = disk[q] => p = q

\* A file in holding is the one that was at its path at first, if that one still is.
EntryOK(e) ==
    /\ e \in HeldFile /\ e.from \notin Landings
    /\ e.from \notin Results => e.file \in Plain
    /\ e.file \in File => e.file = Start[e.from]
    /\ e.row = "restored" => e.at = "back"

StaysHome(e) ==
    Start[e.from] \in File => /\ e.file = Start[e.from] \/ Start[e.from] \in outside
                              /\ e.at = "back" => Home(e.from)

\* A file in holding or in the Trash is nowhere else.
Alone(h) ==
    held[h].file \in File /\ held[h].at # "back" =>
        /\ ~InRoot(held[h].file)
        /\ \A k \in Held : held[k].file = held[h].file /\ held[k].at # "back" => k = h

HeldOK ==
    /\ held \in Seq(HeldFile)
    /\ \A h \in Held : EntryOK(held[h]) /\ StaysHome(held[h]) /\ Alone(h)

FilesOK == DiskOK /\ HeldOK /\ OriginalsKept

\* No row of holding tells of p.
NotHeld(p) == \A h \in Held : held[h].from # p

CustodyStep == [Custody!Next]_Where

LEMMA EntryTypes ==
  ASSUME NEW e \in HeldFile
  PROVE  /\ e.file \in Contents /\ e.from \in Path /\ e.batch \in Nat
         /\ e.at \in {"holding", "trash", "back"}
         /\ e.row \in {"none", "held", "restored", "emptied"}
BY DEF HeldFile

LEMMA Appended ==
  ASSUME held \in Seq(HeldFile), NEW e \in HeldFile, held' = Append(held, e)
  PROVE  /\ held' \in Seq(HeldFile)
         /\ Held' = Held \cup {Len(held) + 1} /\ Len(held) + 1 \notin Held
         /\ \A h \in Held : held'[h] = held[h]
         /\ held'[Len(held) + 1] = e
<1>1. Held = 1 .. Len(held) /\ Held' = 1 .. Len(held) + 1 /\ Len(held) \in Nat
  <2> HIDE DEF HeldFile
  <2>1. QED
    BY DEF Held
<1>2. held' \in Seq(HeldFile)
  BY DEF HeldFile
<1>3. QED
  BY <1>1, <1>2

LEMMA Rewritten ==
  ASSUME held \in Seq(HeldFile), Held' = Held, NEW g \in [Held -> HeldFile], held' = g
  PROVE  held' \in Seq(HeldFile)
<1>1. Held = 1 .. Len(held) /\ Len(held) \in Nat
  <2> HIDE DEF HeldFile
  <2>1. QED
    BY DEF Held
<1>2. g \in [1 .. Len(held) -> HeldFile]
  BY <1>1
<1>3. QED
  BY <1>1, <1>2 DEF HeldFile

LEMMA WhatBelongs ==
  ASSUME Planned, NEW f \in File, NEW p \in Path, Belongs(f, p)
  PROVE  /\ p \notin Landings => f = Start[p]
         /\ p \notin Results
         /\ \A s \in Step : Moves(s) /\ p \in {To(s), From(s)} => f = Start[From(s)]
<1>1. p \notin Landings => f = Start[p]
  BY DEF Belongs, Landings
<1>2. p \notin Results
  BY <1>1, Places, StartTypes
<1>3. ASSUME NEW s \in Step, Moves(s), p = To(s)
      PROVE  f = Start[From(s)]
  <2>1. Start[p] = NoFile /\ NoFile \notin File
    BY <1>3, Apart, StartTypes DEF Moves
  <2>2. PICK q \in Step : p = To(q) /\ Moves(q) /\ f = Start[From(q)]
    BY <2>1 DEF Belongs
  <2>3. q = s
    BY <1>3, <2>2, Apart
  <2>4. QED
    BY <2>2, <2>3
<1>4. QED
  BY <1>1, <1>2, <1>3, Apart

LEMMA WhereCases ==
  ASSUME NEW f \in File
  PROVE  /\ Where[f] = IF f \in outside THEN "overwritten" ELSE IF InRoot(f) THEN "root"
                       ELSE IF HeldAt(f, "holding") THEN "holding"
                       ELSE IF HeldAt(f, "trash") THEN "trash" ELSE "lost"
         /\ Where[f] # "lost" <=> \/ f \in outside \/ InRoot(f)
                                  \/ HeldAt(f, "holding") \/ HeldAt(f, "trash")
BY DEF Where

LEMMA StaysWhereItIs ==
  ASSUME NEW f \in File, f \in outside' <=> f \in outside, InRoot(f)' <=> InRoot(f),
         HeldAt(f, "holding")' <=> HeldAt(f, "holding"), HeldAt(f, "trash")' <=> HeldAt(f, "trash")
  PROVE  Where'[f] = Where[f]
BY DEF Where

LEMMA NothingGoes ==
  ASSUME \A f \in File : Where'[f] = Where[f], OriginalsKept
  PROVE  OriginalsKept' /\ CustodyStep
<1>1. Where' = Where
  BY DEF Where
<1>2. QED
  BY <1>1 DEF OriginalsKept, CustodyStep

LEMMA OneGoes ==
  ASSUME NEW f \in File, \A g \in File \ {f} : Where'[g] = Where[g], OriginalsKept,
         \/ Where[f] = "root" /\ Where'[f] \in {"holding", "overwritten"}
         \/ Where[f] = "holding" /\ Where'[f] = "root"
  PROVE  OriginalsKept' /\ CustodyStep
<1>1. Where' = [Where EXCEPT ![f] = Where'[f]]
  BY DEF Where
<1>2. Custody!Next
  BY <1>1 DEF Custody!Next, Custody!Hold, Custody!PutBack, Custody!Overwrite
<1>3. QED
  BY <1>2 DEF OriginalsKept, CustodyStep

\* Homes that stay, but for those in gone.
HomesStay(gone) == \A p \in Path \ gone : Start[p] \in File /\ Home(p) => Home(p)'

\* The moved file is where its step moved it.
There(q) == disk[To(q)] = Start[From(q)] \/ Start[From(q)] \in outside

\* What step q counts on.
Spares(q) ==
    /\ Home(From(q)) => Home(From(q))'
    /\ NotHeld(From(q)) => NotHeld(From(q))'
    /\ Moves(q) /\ There(q) => There(q)'

\* Holding only gets more, and what went back stays so.
Grows ==
    /\ Held \subseteq Held'
    /\ \A h \in Held : /\ held'[h].from = held[h].from
                       /\ held[h].at = "back" => held'[h].at = "back"

LEMMA SparesStep ==
  ASSUME NEW gone, HomesStay(gone), NEW q \in Step, From(q) \notin gone,
         \A h \in Held' : held'[h].from = From(q) => h \in Held /\ held[h].from = From(q),
         Moves(q) => disk'[To(q)] = disk[To(q)] \/ disk[To(q)] \in outside',
         outside \subseteq outside'
  PROVE  Spares(q)
<1>1. From(q) \in Path /\ Start[From(q)] \in File
  BY PlanTypes
<1>2. Home(From(q)) => Home(From(q))'
  BY <1>1 DEF HomesStay
<1>3. NotHeld(From(q)) => NotHeld(From(q))'
  BY DEF NotHeld
<1>4. Moves(q) /\ There(q) => There(q)'
  BY DEF There
<1>5. QED
  BY <1>2, <1>3, <1>4 DEF Spares

\* What is at p goes to holding.
LEMMA Takes ==
  ASSUME Planned, FilesOK, NEW p \in Path \ Landings, NEW b \in Nat,
         PathExists(p), MoveToHolding(p, b), UNCHANGED outside,
         Start[p] \in File => Home(p) /\ NotHeld(p)
  PROVE  FilesOK' /\ CustodyStep /\ Grows /\ \A q \in Step : From(q) # p => Spares(q)
<1> USE DEF FilesOK
<1>1. PICK e : e = [file |-> disk[p], from |-> p, batch |-> b, at |-> "holding", row |-> "none"]
  OBVIOUS
<1>2. PICK f : f = disk[p]
  OBVIOUS
<1>3. PICK n : n = Len(held) + 1
  OBVIOUS
<1>4. e \in HeldFile /\ held' = Append(held, e)
  BY <1>1 DEF DiskOK, HeldFile, PathExists, MoveToHolding
<1>5. /\ held' \in Seq(HeldFile) /\ Held' = Held \cup {n} /\ n \notin Held
      /\ \A h \in Held : held'[h] = held[h]
      /\ held'[n] = e
  BY <1>3, <1>4, Appended DEF HeldOK
<1>6. NoFile \notin File
  BY StartTypes
<1>7. disk'[p] = NoFile /\ \A q \in Path \ {p} : disk'[q] = disk[q]
  BY DEF DiskOK, MoveToHolding
<1>8. DiskOK'
  BY <1>6 DEF DiskOK, Plain, MoveToHolding
<1>9. HomesStay({p})
  BY <1>7 DEF HomesStay, Home
<1>10. f \in File => ~InRoot(f)'
  BY <1>2, <1>6, <1>7 DEF DiskOK, InRoot
<1>11. \A g \in File \ {f} : InRoot(g)' <=> InRoot(g)
  BY <1>2, <1>6, <1>7 DEF InRoot
<1>12. f \in File => InRoot(f) /\ \A h \in Held : held[h].file = f => held[h].at = "back"
  BY <1>2 DEF HeldOK, Alone, InRoot
<1>13. HeldOK'
  <2>1. EntryOK(e)
    <3>1. f \in File => f = Start[p]
      BY <1>2, WhatBelongs DEF DiskOK
    <3>2. QED
      BY <1>1, <1>2, <1>4, <3>1 DEF EntryOK, DiskOK
  <2>2. StaysHome(e)'
    BY <1>1 DEF StaysHome, Home
  <2>3. \A h \in Held : StaysHome(held[h])'
    <3> SUFFICES ASSUME NEW h \in Held PROVE StaysHome(held[h])'
      OBVIOUS
    <3>1. held[h].from \in Path /\ StaysHome(held[h])
      BY EntryTypes DEF HeldOK, EntryOK
    <3>2. Start[held[h].from] \in File => held[h].from # p
      BY DEF NotHeld
    <3>3. held'[h] = held[h]
      BY <1>5
    <3>4. QED
      BY <1>9, <3>1, <3>2, <3>3 DEF StaysHome, HomesStay
  <2>4. Alone(n)'
    BY <1>1, <1>2, <1>5, <1>10, <1>12 DEF Alone
  <2>5. \A h \in Held : Alone(h)'
    BY <1>1, <1>2, <1>5, <1>11, <1>12 DEF Alone, HeldOK
  <2>6. \A h \in Held : EntryOK(held[h])
    BY DEF HeldOK
  <2>7. QED
    BY <1>5, <2>1, <2>2, <2>3, <2>4, <2>5, <2>6 DEF HeldOK
<1>14. \A g \in File \ {f} : Where'[g] = Where[g]
  <2> SUFFICES ASSUME NEW g \in File \ {f} PROVE Where'[g] = Where[g]
    OBVIOUS
  <2>1. HeldAt(g, "holding")' <=> HeldAt(g, "holding")
    BY <1>1, <1>2, <1>5 DEF HeldAt
  <2>2. HeldAt(g, "trash")' <=> HeldAt(g, "trash")
    BY <1>1, <1>2, <1>5 DEF HeldAt
  <2>3. QED
    BY <1>11, <2>1, <2>2, StaysWhereItIs
<1>15. OriginalsKept' /\ CustodyStep
  <2>1. CASE f \in File \ outside
    <3>1. Where[f] = "root"
      BY <1>12, <2>1, WhereCases
    <3>2. HeldAt(f, "holding")'
      BY <1>1, <1>2, <1>5 DEF HeldAt
    <3>3. Where'[f] = "holding"
      BY <1>10, <2>1, <3>2 DEF Where
    <3>4. QED
      BY <1>14, <2>1, <3>1, <3>3, OneGoes
  <2>2. CASE f \in File \cap outside
    <3>1. Where'[f] = Where[f]
      BY <2>2 DEF Where
    <3>2. QED
      BY <1>14, <3>1, NothingGoes
  <2>3. CASE f \notin File
    BY <1>14, <2>3, NothingGoes
  <2>4. QED
    BY <2>1, <2>2, <2>3
<1>16. Grows
  BY <1>5 DEF Grows
<1>17. ASSUME NEW q \in Step, From(q) # p
       PROVE  Spares(q)
  <2>1. \A h \in Held' : held'[h].from = From(q) => h \in Held /\ held[h].from = From(q)
    BY <1>1, <1>5, <1>17
  <2>2. Moves(q) => disk'[To(q)] = disk[To(q)]
    BY <1>7, Apart, PlanTypes
  <2>3. QED
    BY <1>9, <1>17, <2>1, <2>2, SparesStep
<1>18. QED
  BY <1>8, <1>13, <1>15, <1>16, <1>17

\* A file in holding goes back.
LEMMA PutsBack ==
  ASSUME Planned, FilesOK, NEW h \in Held, held[h].at = "holding", MoveBack(h), UNCHANGED outside
  PROVE  /\ FilesOK' /\ CustodyStep /\ Grows /\ \A q \in Step : Spares(q)
         /\ Start[held[h].from] \in File => Home(held[h].from)'
<1> USE DEF FilesOK
<1>1. PICK p \in Path : p = held[h].from
  BY EntryTypes DEF HeldOK, EntryOK
<1>2. PICK f \in Contents : f = held[h].file
  BY EntryTypes DEF HeldOK, EntryOK
<1>3. PICK e \in HeldFile : e = [held[h] EXCEPT !.at = "back"]
  BY DEF HeldOK, EntryOK, HeldFile
<1>4. e.from = p /\ e.file = f /\ e.at = "back" /\ e.row = held[h].row
  BY <1>1, <1>2, <1>3 DEF HeldOK, EntryOK, HeldFile
<1>5. held' = [held EXCEPT ![h] = e] /\ disk' = [disk EXCEPT ![p] = f]
  BY <1>1, <1>2, <1>3 DEF MoveBack
<1>6. /\ held' \in Seq(HeldFile) /\ Held' = Held
      /\ held'[h] = e /\ \A k \in Held \ {h} : held'[k] = held[k]
  <2>1. held' \in [Held -> HeldFile] /\ Held' = Held
    BY <1>5 DEF HeldOK, EntryOK, Held
  <2>2. held' \in Seq(HeldFile)
    BY <2>1, Rewritten DEF HeldOK
  <2>3. QED
    BY <1>5, <2>1, <2>2 DEF HeldOK, Held
<1>7. disk'[p] = f /\ \A q \in Path \ {p} : disk'[q] = disk[q]
  BY <1>5 DEF DiskOK
<1>8. p \notin Landings /\ (p \notin Results => f \in Plain) /\ (f \in File => f = Start[p])
  BY <1>1, <1>2 DEF HeldOK, EntryOK
<1>9. f \in File => /\ ~InRoot(f) /\ HeldAt(f, "holding")
                    /\ \A k \in Held \ {h} : held[k].file = f => held[k].at = "back"
  BY <1>2 DEF HeldOK, Alone, HeldAt
<1>10. Start[p] \in File => f = Start[p] \/ Start[p] \in outside
  BY <1>1, <1>2 DEF HeldOK, StaysHome
<1>11. disk[p] \in File => disk[p] \in outside
  <2> SUFFICES ASSUME disk[p] \in File PROVE disk[p] \in outside
    OBVIOUS
  <2>1. disk[p] = Start[p]
    BY <1>8, WhatBelongs DEF DiskOK
  <2>2. QED
    BY <1>9, <1>10, <2>1 DEF InRoot
<1>12. DiskOK'
  <2>1. disk' \in [Path -> Contents \cup {NoFile}]
    BY <1>5 DEF DiskOK
  <2>2. \A q \in Path \ Results : disk'[q] \in Plain
    BY <1>7, <1>8 DEF DiskOK
  <2>3. \A q \in Path : disk'[q] \in File => Belongs(disk'[q], q)
    BY <1>7, <1>8 DEF DiskOK, Belongs
  <2>4. \A q, r \in Path : disk'[q] \in File /\ disk'[q] = disk'[r] => q = r
    BY <1>7, <1>9 DEF DiskOK, InRoot
  <2>5. QED
    BY <2>1, <2>2, <2>3, <2>4 DEF DiskOK
<1>13. HomesStay({}) /\ (Start[p] \in File => Home(p)')
  BY <1>7, <1>10 DEF HomesStay, Home
<1>14. \A x \in File : x # f => (InRoot(x)' => InRoot(x))
  BY <1>7 DEF InRoot
<1>15. HeldOK'
  <2>1. EntryOK(e)
    BY <1>1, <1>4, <1>8 DEF EntryOK
  <2>2. StaysHome(e)'
    BY <1>4, <1>10, <1>13 DEF StaysHome
  <2>3. \A k \in Held \ {h} : StaysHome(held[k])'
    <3> SUFFICES ASSUME NEW k \in Held \ {h} PROVE StaysHome(held[k])'
      OBVIOUS
    <3>1. held[k].from \in Path /\ StaysHome(held[k])
      BY EntryTypes DEF HeldOK, EntryOK
    <3>2. held'[k] = held[k]
      BY <1>6
    <3>3. QED
      BY <1>13, <3>1, <3>2 DEF StaysHome, HomesStay
  <2>4. Alone(h)'
    BY <1>4, <1>6 DEF Alone
  <2>5. \A k \in Held \ {h} : Alone(k)'
    <3> SUFFICES ASSUME NEW k \in Held \ {h}, held[k].file \in File, held[k].at # "back"
                 PROVE  /\ ~InRoot(held[k].file)'
                        /\ \A l \in Held : held'[l].file = held[k].file /\ held'[l].at # "back" => l = k
      BY <1>6 DEF Alone
    <3>1. held[k].file # f /\ ~InRoot(held[k].file)
      BY <1>9 DEF HeldOK, Alone
    <3>2. PICK x \in File : x = held[k].file /\ held'[k] = held[k]
      BY <1>6
    <3>3. ~InRoot(held[k].file)'
      BY <1>14, <3>1, <3>2
    <3>4. ASSUME NEW l \in Held, held'[l].file = held[k].file, held'[l].at # "back"
          PROVE  l = k
      BY <1>4, <1>6, <3>4 DEF HeldOK, Alone
    <3>5. QED
      BY <3>3, <3>4
  <2>6. \A k \in Held : EntryOK(held[k])
    BY DEF HeldOK
  <2>7. QED
    BY <1>6, <2>1, <2>2, <2>3, <2>4, <2>5, <2>6 DEF HeldOK
<1>16. \A x \in File \ {f} : Where'[x] = Where[x]
  <2> SUFFICES ASSUME NEW x \in File \ {f} PROVE Where'[x] = Where[x]
    OBVIOUS
  <2>1. HeldAt(x, "holding")' <=> HeldAt(x, "holding")
    BY <1>2, <1>4, <1>6 DEF HeldAt
  <2>2. HeldAt(x, "trash")' <=> HeldAt(x, "trash")
    BY <1>2, <1>4, <1>6 DEF HeldAt
  <2>3. CASE x \in outside
    BY <2>3 DEF Where
  <2>4. CASE x \notin outside
    <3>1. InRoot(x)' <=> InRoot(x)
      BY <1>7, <1>11, <2>4 DEF InRoot
    <3>2. QED
      BY <2>1, <2>2, <3>1, StaysWhereItIs
  <2>5. QED
    BY <2>3, <2>4
<1>17. OriginalsKept' /\ CustodyStep
  <2>1. CASE f \in File \ outside
    <3>1. Where[f] = "holding"
      BY <1>9, <2>1, WhereCases
    <3>2. InRoot(f)'
      BY <1>7 DEF InRoot
    <3>3. Where'[f] = "root"
      BY <2>1, <3>2 DEF Where
    <3>4. QED
      BY <1>16, <2>1, <3>1, <3>3, OneGoes
  <2>2. CASE f \in File \cap outside
    <3>1. Where'[f] = Where[f]
      BY <2>2 DEF Where
    <3>2. QED
      BY <1>16, <3>1, NothingGoes
  <2>3. CASE f \notin File
    BY <1>16, <2>3, NothingGoes
  <2>4. QED
    BY <2>1, <2>2, <2>3
<1>18. Start[held[h].from] \in File => Home(held[h].from)'
  BY <1>1, <1>4, <1>6, <1>13
<1>19. Grows
  BY <1>1, <1>4, <1>6 DEF Grows
<1>20. ASSUME NEW q \in Step
       PROVE  Spares(q)
  <2>1. \A k \in Held' : held'[k].from = From(q) => k \in Held /\ held[k].from = From(q)
    BY <1>1, <1>4, <1>6
  <2>2. Moves(q) => disk'[To(q)] = disk[To(q)]
    BY <1>7, <1>8, Apart, PlanTypes
  <2>3. QED
    BY <1>13, <2>1, <2>2, SparesStep
<1>21. QED
  BY <1>12, <1>15, <1>17, <1>18, <1>19, <1>20

\* Holding when nothing in it changes.
LEMMA HoldingStays ==
  ASSUME HeldOK, held' = held, outside \subseteq outside', NEW gone, HomesStay(gone),
         \A p \in gone : Start[p] \in File => NotHeld(p),
         \A x \in File : InRoot(x)' => InRoot(x)
  PROVE  /\ HeldOK'
         /\ \A x \in File : /\ HeldAt(x, "holding")' <=> HeldAt(x, "holding")
                            /\ HeldAt(x, "trash")' <=> HeldAt(x, "trash")
<1>1. Held' = Held
  BY DEF Held
<1>2. \A h \in Held : StaysHome(held[h])'
  <2> SUFFICES ASSUME NEW h \in Held PROVE StaysHome(held[h])'
    OBVIOUS
  <2>1. held[h].from \in Path /\ StaysHome(held[h])
    BY EntryTypes DEF HeldOK, EntryOK
  <2>2. Start[held[h].from] \in File => held[h].from \notin gone
    BY DEF NotHeld
  <2>3. held'[h].from = held[h].from /\ held'[h].file = held[h].file /\ held'[h].at = held[h].at
    OBVIOUS
  <2>4. QED
    BY <2>1, <2>2, <2>3 DEF StaysHome, HomesStay
<1>3. \A h \in Held : Alone(h)'
  <2> SUFFICES ASSUME NEW h \in Held PROVE Alone(h)'
    OBVIOUS
  <2>1. PICK x : x = held[h].file
    OBVIOUS
  <2>2. QED
    BY <1>1, <2>1 DEF HeldOK, Alone
<1>4. HeldOK'
  BY <1>1, <1>2, <1>3 DEF HeldOK
<1>5. QED
  BY <1>1, <1>4 DEF HeldAt

\* A moved file goes from the one path of its step to the other.
LEMMA Shifts ==
  ASSUME Planned, FilesOK, NEW s \in Step, Moves(s), NEW p \in Path, NEW q \in Path,
         (p = From(s) /\ q = To(s)) \/ (p = To(s) /\ q = From(s)),
         PathExists(p), disk[p] = Start[From(s)] \/ Start[From(s)] \in outside,
         disk' = [disk EXCEPT ![p] = NoFile, ![q] = disk[p]], UNCHANGED <<held, outside>>,
         Start[p] \in File => NotHeld(p)
  PROVE  /\ FilesOK' /\ CustodyStep /\ Grows /\ \A r \in Step \ {s} : Spares(r)
         /\ NotHeld(q) => NotHeld(q)'
         /\ q = From(s) => Home(q)'
<1> USE DEF FilesOK
<1>1. p # q /\ p \notin Results /\ q \notin Results /\ NoFile \notin File
      /\ Start[To(s)] = NoFile
  BY Apart, StartTypes DEF Moves
<1>2. PICK f : f = disk[p]
  OBVIOUS
<1>3. /\ disk'[p] = NoFile /\ disk'[q] = f
      /\ \A r \in Path \ {p, q} : disk'[r] = disk[r]
  BY <1>1, <1>2 DEF DiskOK
<1>4. f # NoFile /\ f \in Plain /\ (f \in File => f = Start[From(s)])
  BY <1>1, <1>2, WhatBelongs DEF DiskOK, PathExists
<1>5. disk[q] \in File => disk[q] \in outside
  <2> SUFFICES ASSUME disk[q] \in File PROVE disk[q] \in outside
    OBVIOUS
  <2>1. disk[q] = Start[From(s)]
    BY WhatBelongs DEF DiskOK
  <2>2. disk[p] # disk[q]
    BY <1>1 DEF DiskOK
  <2>3. QED
    BY <2>1, <2>2
<1>6. DiskOK'
  <2>1. disk' \in [Path -> Contents \cup {NoFile}]
    BY DEF DiskOK
  <2>2. \A r \in Path \ Results : disk'[r] \in Plain
    BY <1>3, <1>4 DEF DiskOK, Plain
  <2>3. \A r \in Path : disk'[r] \in File => Belongs(disk'[r], r)
    BY <1>1, <1>3, <1>4 DEF DiskOK, Belongs
  <2>4. \A r, t \in Path : disk'[r] \in File /\ disk'[r] = disk'[t] => r = t
    BY <1>1, <1>2, <1>3 DEF DiskOK
  <2>5. QED
    BY <2>1, <2>2, <2>3, <2>4 DEF DiskOK
<1>7. HomesStay({p}) /\ (q = From(s) => Home(q)')
  <2>1. q = From(s) => Home(q)'
    BY <1>2, <1>3 DEF Home
  <2>2. Start[q] \in File => q = From(s)
    BY <1>1
  <2>3. \A r \in Path \ {p, q} : Home(r) => Home(r)'
    BY <1>3 DEF Home
  <2>4. QED
    BY <2>1, <2>2, <2>3 DEF HomesStay
<1>8. \A x \in File : InRoot(x)' => InRoot(x)
  BY <1>1, <1>2, <1>3 DEF InRoot
<1>9. /\ HeldOK'
      /\ \A x \in File : /\ HeldAt(x, "holding")' <=> HeldAt(x, "holding")
                         /\ HeldAt(x, "trash")' <=> HeldAt(x, "trash")
  <2>1. \A r \in {p} : Start[r] \in File => NotHeld(r)
    OBVIOUS
  <2>2. QED
    BY <1>7, <1>8, <2>1, HoldingStays
<1>10. \A x \in File : Where'[x] = Where[x]
  <2> SUFFICES ASSUME NEW x \in File PROVE Where'[x] = Where[x]
    OBVIOUS
  <2>1. CASE x \in outside
    BY <2>1 DEF Where
  <2>2. CASE x \notin outside
    <3>1. InRoot(x) => InRoot(x)'
      BY <1>1, <1>2, <1>3, <1>5, <2>2 DEF InRoot
    <3>2. QED
      BY <1>8, <1>9, <3>1, StaysWhereItIs
  <2>3. QED
    BY <2>1, <2>2
<1>11. Held' = Held /\ held' = held
  BY DEF Held
<1>12. Grows /\ (NotHeld(q) => NotHeld(q)')
  BY <1>11 DEF Grows, NotHeld
<1>13. ASSUME NEW r \in Step \ {s}
       PROVE  Spares(r)
  <2>1. From(r) # p
    BY Apart, PlanTypes DEF Moves
  <2>2. Moves(r) => To(r) \in Path \ {p, q}
    BY Apart, PlanTypes DEF Moves
  <2>3. Moves(r) => disk'[To(r)] = disk[To(r)]
    BY <1>3, <2>2
  <2>4. From(r) \notin {p} /\ outside \subseteq outside'
    BY <2>1
  <2>5. \A h \in Held' : held'[h].from = From(r) => h \in Held /\ held[h].from = From(r)
    BY <1>11
  <2>6. QED
    BY <1>7, <2>3, <2>4, <2>5, SparesStep
<1>14. QED
  BY <1>6, <1>7, <1>9, <1>10, <1>12, <1>13, NothingGoes

\* What is no file of the owner's comes to where a conversion's result goes, or leaves it.
LEMMA Replaces ==
  ASSUME Planned, FilesOK, NEW t \in Results, NEW c \in Contents \cup {NoFile}, c \notin File,
         disk' = [disk EXCEPT ![t] = c], UNCHANGED <<held, outside>>
  PROVE  FilesOK' /\ CustodyStep /\ Grows /\ \A q \in Step : Spares(q)
<1> USE DEF FilesOK
<1>1. t \in Path /\ Start[t] = NoFile /\ NoFile \notin File
  BY Places, StartTypes
<1>2. disk[t] \notin File
  BY <1>1, WhatBelongs DEF DiskOK
<1>3. disk'[t] = c /\ \A r \in Path \ {t} : disk'[r] = disk[r]
  BY <1>1 DEF DiskOK
<1>4. DiskOK'
  <2>1. disk' \in [Path -> Contents \cup {NoFile}]
    BY DEF DiskOK
  <2>2. QED
    BY <1>1, <1>3, <2>1 DEF DiskOK
<1>5. HomesStay({})
  BY <1>1, <1>3 DEF HomesStay, Home
<1>6. \A x \in File : InRoot(x)' <=> InRoot(x)
  BY <1>1, <1>2, <1>3 DEF InRoot
<1>7. /\ HeldOK'
      /\ \A x \in File : /\ HeldAt(x, "holding")' <=> HeldAt(x, "holding")
                         /\ HeldAt(x, "trash")' <=> HeldAt(x, "trash")
  BY <1>5, <1>6, HoldingStays
<1>8. \A x \in File : Where'[x] = Where[x]
  BY <1>6, <1>7, StaysWhereItIs
<1>9. Held' = Held /\ held' = held
  BY DEF Held
<1>10. Grows
  BY <1>9 DEF Grows
<1>11. ASSUME NEW q \in Step
       PROVE  Spares(q)
  <2>1. Moves(q) => disk'[To(q)] = disk[To(q)]
    BY <1>3, Apart, PlanTypes
  <2>2. QED
    BY <1>5, <1>9, <2>1, SparesStep
<1>12. QED
  BY <1>4, <1>7, <1>8, <1>10, <1>11, NothingGoes

\* Another program writes.
LEMMA Overwrites ==
  ASSUME Planned, FilesOK, NEW c \in Foreign, NEW p \in Path, Write(c, p)
  PROVE  FilesOK' /\ CustodyStep /\ Grows /\ \A q \in Step : Spares(q)
<1> USE DEF FilesOK
<1>1. PICK f : f = disk[p]
  OBVIOUS
<1>2. /\ disk' = [disk EXCEPT ![p] = c] /\ held' = held
      /\ outside' = outside \cup ({f} \ {NoFile})
  BY <1>1 DEF Write
<1>3. c \notin File /\ NoFile \notin File /\ c \in Plain /\ c \in Contents
  BY StartTypes DEF Plain, Contents
<1>4. disk'[p] = c /\ \A r \in Path \ {p} : disk'[r] = disk[r]
  BY <1>2 DEF DiskOK
<1>5. DiskOK'
  <2>1. disk' \in [Path -> Contents \cup {NoFile}]
    BY <1>2, <1>3 DEF DiskOK
  <2>2. QED
    BY <1>3, <1>4, <2>1 DEF DiskOK
<1>6. HomesStay({})
  BY <1>1, <1>2, <1>3, <1>4 DEF HomesStay, Home
<1>7. \A x \in File : InRoot(x)' => InRoot(x)
  BY <1>3, <1>4 DEF InRoot
<1>8. /\ HeldOK'
      /\ \A x \in File : /\ HeldAt(x, "holding")' <=> HeldAt(x, "holding")
                         /\ HeldAt(x, "trash")' <=> HeldAt(x, "trash")
  BY <1>2, <1>6, <1>7, HoldingStays
<1>9. \A x \in File \ {f} : Where'[x] = Where[x]
  <2> SUFFICES ASSUME NEW x \in File \ {f} PROVE Where'[x] = Where[x]
    OBVIOUS
  <2>1. InRoot(x) => InRoot(x)'
    BY <1>1, <1>4 DEF InRoot
  <2>2. x \in outside' <=> x \in outside
    BY <1>2
  <2>3. QED
    BY <1>7, <1>8, <2>1, <2>2, StaysWhereItIs
<1>10. OriginalsKept' /\ CustodyStep
  <2>1. CASE f \in File \ outside
    <3>1. Where[f] = "root"
      BY <1>1, <2>1, WhereCases DEF InRoot
    <3>2. f \in outside'
      BY <1>2, <1>3, <2>1
    <3>3. Where'[f] = "overwritten"
      BY <2>1, <3>2 DEF Where
    <3>4. QED
      BY <1>9, <2>1, <3>1, <3>3, OneGoes
  <2>2. CASE f \in File \cap outside
    <3>1. Where'[f] = Where[f]
      BY <1>2, <2>2 DEF Where
    <3>2. QED
      BY <1>9, <3>1, NothingGoes
  <2>3. CASE f \notin File
    BY <1>9, <2>3, NothingGoes
  <2>4. QED
    BY <2>1, <2>2, <2>3
<1>11. Held' = Held /\ held' = held
  BY <1>2 DEF Held
<1>12. Grows
  BY <1>11 DEF Grows
<1>13. ASSUME NEW q \in Step
       PROVE  Spares(q)
  <2>1. Moves(q) => \/ disk'[To(q)] = disk[To(q)]
                    \/ disk[To(q)] = NoFile \/ disk[To(q)] \in outside'
    BY <1>1, <1>2, <1>4, PlanTypes
  <2>2. Moves(q) /\ There(q) => There(q)'
    BY <1>2, <1>3, <2>1, PlanTypes DEF There
  <2>3. NotHeld(From(q)) => NotHeld(From(q))'
    BY <1>11 DEF NotHeld
  <2>4. QED
    BY <1>6, <2>2, <2>3, PlanTypes DEF HomesStay, Spares
<1>14. QED
  BY <1>5, <1>8, <1>10, <1>12, <1>13

\* The catalog's rows are written, and no file is touched.
LEMMA Writes ==
  ASSUME FilesOK, UNCHANGED <<disk, outside>>, held' \in [Held -> HeldFile],
         \A h \in Held : /\ held'[h].file = held[h].file /\ held'[h].from = held[h].from
                         /\ held'[h].at = held[h].at
                         /\ held'[h].row = "restored" => held[h].at = "back"
  PROVE  FilesOK' /\ CustodyStep /\ Grows /\ \A q \in Step : Spares(q)
<1> USE DEF FilesOK
<1>1. Held' = Held /\ disk' = disk /\ outside' = outside
  BY DEF Held
<1>2. held' \in Seq(HeldFile)
  BY <1>1, Rewritten DEF HeldOK
<1>3. DiskOK'
  BY <1>1 DEF DiskOK
<1>4. HomesStay({}) /\ \A p \in Path : Home(p)' <=> Home(p)
  BY <1>1 DEF HomesStay, Home
<1>5. \A x : InRoot(x)' <=> InRoot(x)
  BY <1>1 DEF InRoot
<1>6. \A h \in Held : EntryOK(held'[h])
  BY DEF HeldOK, EntryOK
<1>7. \A h \in Held : StaysHome(held[h])'
  <2> SUFFICES ASSUME NEW h \in Held PROVE StaysHome(held[h])'
    OBVIOUS
  <2>1. held[h].from \in Path /\ StaysHome(held[h])
    BY EntryTypes DEF HeldOK, EntryOK
  <2>2. QED
    BY <1>1, <1>4, <2>1 DEF StaysHome
<1>8. \A h \in Held : Alone(h)'
  <2> SUFFICES ASSUME NEW h \in Held PROVE Alone(h)'
    OBVIOUS
  <2>1. PICK x : x = held[h].file
    OBVIOUS
  <2>2. Alone(h)
    BY DEF HeldOK
  <2>3. QED
    BY <1>1, <1>5, <2>1, <2>2 DEF Alone
<1>9. HeldOK'
  BY <1>1, <1>2, <1>6, <1>7, <1>8 DEF HeldOK
<1>10. \A x \in File : Where'[x] = Where[x]
  <2> SUFFICES ASSUME NEW x \in File PROVE Where'[x] = Where[x]
    OBVIOUS
  <2>1. /\ HeldAt(x, "holding")' <=> HeldAt(x, "holding")
        /\ HeldAt(x, "trash")' <=> HeldAt(x, "trash")
    BY <1>1 DEF HeldAt
  <2>2. QED
    BY <1>1, <1>5, <2>1, StaysWhereItIs
<1>11. Grows
  BY <1>1 DEF Grows
<1>12. \A q \in Step : Spares(q)
  BY <1>1, <1>4, SparesStep
<1>13. QED
  BY <1>3, <1>9, <1>10, <1>11, <1>12, NothingGoes

\* The Trash takes a batch.
LEMMA Trashes ==
  ASSUME FilesOK, NEW b, UNCHANGED <<disk, outside>>,
         held' = [h \in Held |-> IF held[h].batch = b /\ held[h].at = "holding"
                                 THEN [held[h] EXCEPT !.at = "trash"] ELSE held[h]]
  PROVE  FilesOK' /\ CustodyStep /\ Grows /\ \A q \in Step : Spares(q)
<1> USE DEF FilesOK
<1> DEFINE G == {h \in Held : held[h].batch = b /\ held[h].at = "holding"}
<1>1. Held' = Held /\ disk' = disk /\ outside' = outside
  BY DEF Held
<1>2. PICK gone : gone = G
  OBVIOUS
<1>3. /\ held' \in [Held -> HeldFile] /\ gone \subseteq Held
      /\ \A h \in Held \ gone : held'[h] = held[h]
      /\ \A h \in gone : /\ held'[h].file = held[h].file /\ held'[h].from = held[h].from
                         /\ held'[h].row = held[h].row
                         /\ held[h].at = "holding" /\ held'[h].at = "trash"
  BY SMTT(30), <1>2 DEF HeldOK, EntryOK, HeldFile
<1> HIDE DEF G
<1>4. held' \in Seq(HeldFile)
  BY <1>1, <1>3, Rewritten DEF HeldOK
<1>5. DiskOK'
  BY <1>1 DEF DiskOK
<1>6. HomesStay({}) /\ \A p \in Path : Home(p)' <=> Home(p)
  BY <1>1 DEF HomesStay, Home
<1>7. \A x : InRoot(x)' <=> InRoot(x)
  BY <1>1 DEF InRoot
<1>8. \A h \in Held : EntryOK(held'[h])
  BY <1>3 DEF HeldOK, EntryOK
<1>9. \A h \in Held : StaysHome(held[h])'
  <2> SUFFICES ASSUME NEW h \in Held PROVE StaysHome(held[h])'
    OBVIOUS
  <2>1. held[h].from \in Path /\ StaysHome(held[h])
    BY EntryTypes DEF HeldOK, EntryOK
  <2>2. held'[h].from = held[h].from /\ held'[h].file = held[h].file
        /\ (held'[h].at = "back" => held[h].at = "back")
    BY <1>3
  <2>3. QED
    BY <1>1, <1>6, <2>1, <2>2 DEF StaysHome
<1>10. \A h \in Held : Alone(h)'
  <2> SUFFICES ASSUME NEW h \in Held PROVE Alone(h)'
    OBVIOUS
  <2>1. PICK x : x = held[h].file
    OBVIOUS
  <2>2. Alone(h)
    BY DEF HeldOK
  <2>3. \A k \in Held : held'[k].file = held[k].file /\ (held'[k].at = "back" <=> held[k].at = "back")
    BY <1>3
  <2>4. QED
    BY <1>1, <1>7, <2>1, <2>2, <2>3 DEF Alone
<1>11. HeldOK'
  BY <1>1, <1>4, <1>8, <1>9, <1>10 DEF HeldOK
<1>12. OriginalsKept' /\ CustodyStep
  <2>1. PICK S : S = {f \in File \ outside : \E h \in gone : held[h].file = f}
    OBVIOUS
  <2>2. \A f \in S : Where[f] = "holding" /\ Where'[f] = "trash"
    <3> SUFFICES ASSUME NEW f \in S PROVE Where[f] = "holding" /\ Where'[f] = "trash"
      OBVIOUS
    <3>1. PICK h \in gone : held[h].file = f
      BY <2>1
    <3>2. f \in File \ outside /\ ~InRoot(f) /\ HeldAt(f, "holding")
          /\ \A k \in Held : held[k].file = f /\ held[k].at # "back" => k = h
      BY <1>3, <2>1, <3>1 DEF HeldOK, Alone, HeldAt
    <3>3. HeldAt(f, "trash")'
      BY <1>1, <1>3, <3>1 DEF HeldAt
    <3>4. ~HeldAt(f, "holding")'
      BY <1>1, <1>3, <3>2 DEF HeldAt
    <3>5. ~InRoot(f)'
      BY <1>7, <3>2
    <3>6. Where[f] = "holding"
      BY <3>2, WhereCases
    <3>7. Where'[f] = "trash"
      BY <1>1, <3>2, <3>3, <3>4, <3>5 DEF Where
    <3>8. QED
      BY <3>6, <3>7
  <2>3. \A f \in File \ S : Where'[f] = Where[f]
    <3> SUFFICES ASSUME NEW f \in File \ S PROVE Where'[f] = Where[f]
      OBVIOUS
    <3>1. CASE f \in outside
      BY <1>1, <3>1 DEF Where
    <3>2. CASE f \notin outside
      <4>1. \A h \in gone : held[h].file # f
        BY <2>1, <3>2
      <4>2. \A h \in Held : held'[h].file = f \/ held[h].file = f => held'[h] = held[h]
        BY <1>3, <4>1
      <4>3. /\ HeldAt(f, "holding")' <=> HeldAt(f, "holding")
            /\ HeldAt(f, "trash")' <=> HeldAt(f, "trash")
        BY <1>1, <4>2 DEF HeldAt
      <4>4. QED
        BY <1>1, <1>7, <4>3, StaysWhereItIs
    <3>3. QED
      BY <3>1, <3>2
  <2>4. S \in SUBSET File
    BY <2>1
  <2>5. Where' = [f \in File |-> IF f \in S THEN "trash" ELSE Where[f]]
    BY <2>2, <2>3, <2>4 DEF Where
  <2>6. Custody!Trash(S)
    BY <2>2, <2>5 DEF Custody!Trash
  <2>7. QED
    BY <2>2, <2>3, <2>4, <2>6 DEF Custody!Next, CustodyStep, OriginalsKept
<1>13. \A h \in Held : held'[h].from = held[h].from
  BY <1>3
<1>14. Grows
  BY <1>1, <1>3 DEF Grows
<1>15. \A q \in Step : Spares(q)
  BY <1>1, <1>6, <1>13, SparesStep
<1>16. QED
  BY <1>5, <1>11, <1>12, <1>14, <1>15

-----------------------------------------------------------------------------
(* The steps and the page: what each has in hand, and what it may count on. *)

Touching == {"hold", "move", "reserve", "encode", "recheck", "place"}
Returned == {"mark", "repoint", "relocateBack", "undone"}

\* A step has the row of the file it took in hand.
InHand(s) == \/ pc[s] \in {"insert", "drop", "replace"}
             \/ pc[s] = "record" /\ outcome[s] = "done"

StepOK(s) ==
    /\ pc[s] \in {"move", "relocate", "return"} => Moves(s)
    /\ pc[s] \in {"reserve", "encode", "recheck", "place", "unhold"} => Converts(s)
    \* A step that is about to take its file finds it, or what another program wrote there.
    /\ pc[s] \in Touching => run = "apply" /\ Home(From(s))
    /\ run = "apply" /\ pc[s] \in Touching \cup {"waiting"} => NotHeld(From(s))
    \* So does one that is about to bring it back, and one that has.
    /\ pc[s] = "return" => run = "undo" /\ There(s)
    /\ run = "undo" /\ pc[s] \in Returned => Home(From(s))
    /\ status[s] = "undone" => Home(From(s))
    \* A step's rows of holding are its own.
    /\ pc[s] \in {"back", "mark"} => slot[s] \in Held
    /\ pc[s] = "mark" => held[slot[s]].at = "back"
    /\ pc[s] # "unholdInsert" /\ slot[s] \in Held => held[slot[s]].from = From(s)
    /\ heldBy[s] \in Held => held[heldBy[s]].from = From(s)
    /\ InHand(s) /\ ~Moves(s) => slot[s] \in Held
    /\ status[s] = "done" /\ ~Moves(s) => heldBy[s] \in Held

PageState == [doing : {"nothing", "restoring", "marking", "trashing"}, id : Nat,
              batches : SUBSET Nat, trashed : SUBSET Nat]

PageOK ==
    /\ page \in PageState
    /\ page.id \in Held \cup {0}
    /\ page.doing \in {"restoring", "marking"} => page.id \in Held
    /\ page.doing = "marking" => held[page.id].at = "back"

OwnTypes ==
    /\ temp \in [Path -> Contents \cup {NoFile}] /\ \A p \in Path : temp[p] \notin File
    /\ rowAt \in [Rows -> Path \cup {NoPath}]
    /\ batch \in Nat

HandTypes == heldBy \in [Step -> Held \cup {0}] /\ slot \in [Step -> Held \cup {0}]

InCustody ==
    /\ FilesOK /\ OwnTypes /\ HandTypes /\ PageOK
    /\ \A s \in Step : StepOK(s)
    /\ plan = "draft" => held = <<>>

\* What happens to the files, and the steps of S need not mind.
Effect(S) == FilesOK' /\ CustodyStep /\ Grows /\ \A q \in S : Spares(q)

\* What a step's own action leaves to the others.
Acts(s) ==
    /\ run # "idle" /\ run' = run /\ page' = page /\ plan' = plan
    /\ \A q \in Step \ {s} : /\ pc'[q] = pc[q] /\ slot'[q] = slot[q]
                             /\ heldBy'[q] = heldBy[q] /\ status'[q] = status[q]
                             /\ outcome'[q] = outcome[q]

LEMMA Entries ==
  ASSUME NEW H \in Seq(HeldFile)
  PROVE  0 \notin DOMAIN H /\ DOMAIN H \subseteq Nat /\ H \in [DOMAIN H -> HeldFile]
<1> HIDE DEF HeldFile
<1>1. QED
  OBVIOUS

\* A step that nothing of its own changes.
LEMMA SparedStep ==
  ASSUME InCustody, NEW q \in Step, Spares(q), Grows, FilesOK', run' = run,
         pc'[q] = pc[q], slot'[q] = slot[q], heldBy'[q] = heldBy[q], status'[q] = status[q],
         outcome'[q] = outcome[q]
  PROVE  StepOK(q)'
<1>1. 0 \notin Held'
  BY Entries DEF FilesOK, HeldOK, Held
<1>2. StepOK(q) /\ slot[q] \in Held \cup {0} /\ heldBy[q] \in Held \cup {0}
  BY DEF InCustody, HandTypes
<1>3. /\ slot[q] \in Held' => slot[q] \in Held /\ held'[slot[q]].from = held[slot[q]].from
      /\ heldBy[q] \in Held' => heldBy[q] \in Held /\ held'[heldBy[q]].from = held[heldBy[q]].from
  BY <1>1, <1>2 DEF Grows
<1>4. /\ slot[q] \in Held => slot[q] \in Held'
                             /\ (held[slot[q]].at = "back" => held'[slot[q]].at = "back")
      /\ heldBy[q] \in Held => heldBy[q] \in Held'
  BY DEF Grows
<1>5. QED
  BY <1>2, <1>3, <1>4 DEF StepOK, Spares, InHand

LEMMA SparedPage ==
  ASSUME PageOK, Grows, page' = page
  PROVE  PageOK'
BY DEF PageOK, Grows

LEMMA StepDone ==
  ASSUME Control, InCustody, NEW s \in Step, Effect(Step \ {s}), Acts(s),
         OwnTypes', HandTypes', StepOK(s)'
  PROVE  InCustody' /\ CustodyStep
<1>1. \A q \in Step \ {s} : StepOK(q)'
  BY SparedStep DEF Effect, Acts
<1>2. PageOK'
  BY SparedPage DEF Effect, Acts, InCustody
<1>3. plan' # "draft"
  BY DEF Acts, Control, RunControl
<1>4. QED
  BY <1>1, <1>2, <1>3 DEF Effect, InCustody

LEMMA NothingTouched ==
  ASSUME FilesOK, UNCHANGED <<disk, held, outside>>
  PROVE  Effect(Step)
<1>1. held' \in [Held -> HeldFile]
  BY Entries DEF FilesOK, HeldOK, Held
<1>2. \A h \in Held : /\ held'[h] = held[h]
                      /\ held'[h].row = "restored" => held[h].at = "back"
  BY DEF FilesOK, HeldOK, EntryOK
<1>3. QED
  BY <1>1, <1>2, Writes DEF Effect

LEMMA NothingMoved ==
  ASSUME UNCHANGED <<disk, held, outside>>
  PROVE  /\ Held' = Held /\ held' = held
         /\ \A p : (Home(p)' <=> Home(p)) /\ (NotHeld(p)' <=> NotHeld(p))
         /\ \A s \in Step : There(s)' <=> There(s)
BY DEF Held, Home, NotHeld, There

LEMMA MadeTypes ==
  ASSUME Planned, DiskOK, NEW s \in Step
  PROVE  Made(disk[From(s)]) \in Contents \ File
<1>1. disk[From(s)] \in Plain
  BY Apart, PlanTypes DEF DiskOK
<1>2. QED
  BY <1>1 DEF Plain, Contents, Planned, MadeIsNew

LEMMA DropTemps ==
  ASSUME OwnTypes, NEW s \in Step, DropTemp(s) \/ temp' = temp
  PROVE  temp' \in [Path -> Contents \cup {NoFile}] /\ \A p \in Path : temp'[p] \notin File
BY StartTypes DEF OwnTypes, DropTemp

\* An action that touches no file, and what it must show.
LEMMA QuietStep ==
  ASSUME Control, InCustody, NEW s \in Step, UNCHANGED <<disk, held, outside>>,
         Acts(s), OwnTypes', HandTypes, slot' = slot \/ slot' = [slot EXCEPT ![s] = heldBy[s]],
         heldBy'[s] \in {heldBy[s], slot[s], 0}, heldBy' \in [Step -> Held \cup {0}],
         heldBy'[s] # heldBy[s] => pc[s] # "unholdInsert",
         status'[s] = "undone" => status[s] = "undone" \/ Home(From(s)),
         pc'[s] \in {"move", "relocate", "return"} => Moves(s),
         InHand(s)' /\ ~Moves(s) => slot'[s] \in Held,
         status'[s] = "done" /\ ~Moves(s) => heldBy'[s] \in Held,
         pc'[s] \in {"reserve", "encode", "recheck", "place", "unhold"} => Converts(s),
         pc'[s] \in Touching => run = "apply" /\ Home(From(s)) /\ NotHeld(From(s)),
         pc'[s] \notin {"waiting", "mark"} /\ pc[s] # "unholdInsert",
         pc'[s] = "return" => run = "undo" /\ There(s),
         run = "undo" /\ pc'[s] \in Returned => Home(From(s)),
         pc'[s] = "back" => slot'[s] \in Held
  PROVE  InCustody' /\ CustodyStep
<1>1. Effect(Step \ {s})
  BY NothingTouched DEF InCustody, Effect
<1>2. StepOK(s) /\ 0 \notin Held
  BY Entries DEF InCustody, FilesOK, HeldOK, Held
<1>3. slot'[s] \in {slot[s], heldBy[s]} /\ slot' \in [Step -> Held \cup {0}]
  BY DEF HandTypes
<1>4. HandTypes'
  BY <1>3, NothingMoved DEF HandTypes
<1>5. StepOK(s)'
  <2>1. Home(From(s))' <=> Home(From(s))
    BY NothingMoved
  <2>2. NotHeld(From(s))' <=> NotHeld(From(s))
    BY NothingMoved
  <2>3. There(s)' <=> There(s)
    BY NothingMoved
  <2>4. Held' = Held /\ held' = held /\ run' = run
    BY NothingMoved DEF Acts
  <2>5. slot'[s] \in Held => held[slot'[s]].from = From(s)
    BY <1>2, <1>3 DEF StepOK
  <2>6. heldBy'[s] \in Held => held[heldBy'[s]].from = From(s)
    BY <1>2 DEF StepOK
  <2>7. status'[s] = "undone" => Home(From(s))
    BY <1>2 DEF StepOK
  <2>8. QED
    BY <2>1, <2>2, <2>3, <2>4, <2>5, <2>6, <2>7 DEF StepOK, Touching
<1>6. QED
  BY <1>1, <1>4, <1>5, StepDone

LEMMA HandsKept ==
  ASSUME InCustody, NEW s \in Step
  PROVE  /\ StepOK(s) /\ HandTypes /\ OwnTypes /\ FilesOK
         /\ slot[s] \in Held \cup {0} /\ heldBy[s] \in Held \cup {0} /\ 0 \notin Held
BY Entries DEF InCustody, HandTypes, FilesOK, HeldOK, Held

LEMMA CheckKeeps ==
  ASSUME Planned, Control, InCustody, NEW s \in Step, Check(s)
  PROVE  InCustody' /\ CustodyStep
<1> USE DEF Check, MayStart, holdingVars, durable, counts
<1>1. StepOK(s) /\ HandTypes /\ OwnTypes /\ heldBy[s] \in Held \cup {0}
  BY HandsKept
<1>2. Acts(s)
  BY DEF Acts, Settles, Errs, Goes, Control, ControlTypes
<1>3. OwnTypes'
  BY <1>1 DEF OwnTypes
<1>4. NotHeld(From(s))
  BY <1>1 DEF StepOK
<1>5. /\ pc'[s] \in {"finished", "record", "hold", "move", "reserve", "encode"}
      /\ pc'[s] \in Touching => SourceUnchanged(s)
      /\ pc'[s] = "move" => Moves(s)
      /\ pc'[s] \in {"reserve", "encode"} => Converts(s)
      /\ ~InHand(s)'
  BY PlanTypes DEF Touching, Settles, Errs, Goes, Control, ControlTypes, Moves, Converts, Actions,
                   InHand
<1>6. SourceUnchanged(s) => Home(From(s))
  BY PlanTypes DEF SourceUnchanged, Home, From
<1>7. QED
  BY <1>1, <1>2, <1>3, <1>4, <1>5, <1>6, QuietStep DEF HandTypes, Touching, Returned, StepOK, InHand

LEMMA RowsKeep ==
  ASSUME Planned, Control, InCustody, NEW s \in Step, DropRow(s) \/ Relocate(s)
  PROVE  InCustody' /\ CustodyStep
<1> USE DEF DropRow, Relocate, holdingVars, durable, counts
<1>1. StepOK(s) /\ HandTypes /\ OwnTypes /\ heldBy[s] \in Held \cup {0}
  BY HandsKept
<1>2. Acts(s) /\ pc'[s] \in {"finished", "record"}
  BY DEF Acts, Settles, Errs, Goes, Control, ControlTypes
<1>3. From(s) \in Path /\ To(s) \in Path
  BY PlanTypes
<1>4. OwnTypes'
  BY <1>1, <1>3 DEF OwnTypes, PointRow, From, To
<1>5. pc[s] \in {"drop", "relocate", "replace"}
  OBVIOUS
<1> HIDE DEF DropRow, Relocate
<1>6. InHand(s) \/ Moves(s)
  BY <1>1, <1>5 DEF StepOK, InHand
<1> USE DEF DropRow, Relocate
<1>7. QED
  BY <1>1, <1>2, <1>4, <1>6, QuietStep DEF HandTypes, Touching, Returned, StepOK, InHand

LEMMA EncodesKeep ==
  ASSUME Planned, Control, InCustody, NEW s \in Step, Reserve(s) \/ Encode(s) \/ Recheck(s)
  PROVE  InCustody' /\ CustodyStep
<1> USE DEF Reserve, Encode, Recheck, holdingVars, durable, counts
<1>1. StepOK(s) /\ HandTypes /\ OwnTypes /\ FilesOK /\ heldBy[s] \in Held \cup {0}
  BY HandsKept
<1>2. Acts(s)
  BY DEF Acts, Settles, Errs, Goes, Control, ControlTypes
<1>3. /\ pc'[s] \in {"finished", "record", "encode", "recheck", "hold", "place"}
      /\ ~InHand(s)'
  BY DEF Settles, Errs, Goes, Control, ControlTypes, InHand
<1>4. pc[s] \in Touching /\ Home(From(s)) /\ NotHeld(From(s)) /\ run = "apply"
  BY <1>1 DEF StepOK, Touching
<1>5. pc'[s] \in {"encode", "recheck", "place"} => Converts(s)
  <2>1. Converts(s)
    BY <1>1 DEF StepOK
  <2>2. QED
    BY <2>1
<1>6. OwnTypes'
  <2>1. CASE temp' = [temp EXCEPT ![Plan[s].to] = Made(disk[Plan[s].from])]
    BY <1>1, <2>1, MadeTypes, PlanTypes DEF OwnTypes, FilesOK, From, To
  <2>2. CASE DropTemp(s) \/ temp' = temp
    BY <1>1, <2>2, DropTemps DEF OwnTypes
  <2>3. QED
    BY <2>1, <2>2
<1>7. QED
  BY <1>1, <1>2, <1>3, <1>4, <1>5, <1>6, QuietStep DEF HandTypes, Touching, Returned, StepOK, InHand

LEMMA RecordKeeps ==
  ASSUME Planned, Control, InCustody, NEW s \in Step, Record(s)
  PROVE  InCustody' /\ CustodyStep
<1> USE DEF Record, holdingVars, counts
<1>1. /\ StepOK(s) /\ HandTypes /\ OwnTypes
      /\ slot[s] \in Held \cup {0} /\ heldBy[s] \in Held \cup {0}
  BY HandsKept
<1>2. Acts(s) /\ pc'[s] = "finished"
  BY DEF Acts, Goes, Control, ControlTypes
<1>3. OwnTypes'
  BY <1>1 DEF OwnTypes
<1>4. outcome[s] \in Outcomes /\ status'[s] = outcome[s]
  BY DEF Control, ControlTypes, RunControl
<1>5. /\ heldBy'[s] = IF outcome[s] = "done" THEN slot[s] ELSE 0
      /\ heldBy' \in [Step -> Held \cup {0}]
  BY <1>1 DEF HandTypes
<1>6. outcome[s] = "done" /\ ~Moves(s) => slot[s] \in Held
  BY <1>1 DEF StepOK, InHand
<1>7. QED
  BY <1>1, <1>2, <1>3, <1>4, <1>5, <1>6, QuietStep DEF Touching, Returned, InHand, Outcomes

LEMMA UndoReadsKeep ==
  ASSUME Planned, Control, InCustody, NEW s \in Step, UndoCheck(s) \/ Look(s)
  PROVE  InCustody' /\ CustodyStep
<1> USE DEF UndoCheck, Look, Undoing, holdingVars, durable, counts
<1>1. /\ StepOK(s) /\ HandTypes /\ OwnTypes
      /\ slot[s] \in Held \cup {0} /\ heldBy[s] \in Held \cup {0}
  BY HandsKept
<1>2. Acts(s)
  BY <1>1 DEF Acts, Goes, Control, ControlTypes, HandTypes
<1>3. OwnTypes'
  BY <1>1 DEF OwnTypes
<1>4. /\ pc'[s] \in {"back", "failed", "return", "look", "unhold"}
      /\ pc'[s] = "return" => Moves(s) /\ disk[Plan[s].to] = Plan[s].file
      /\ pc'[s] = "unhold" => Converts(s)
      /\ pc'[s] = "back" => MayRestore(slot'[s])
  BY <1>1, PlanTypes DEF Goes, Control, ControlTypes, Moves, Converts, Actions, Original, HandTypes
<1>5. pc'[s] = "return" => There(s)
  BY <1>4, PlanTypes DEF There, To
<1>6. pc'[s] = "back" => slot'[s] \in Held
  BY <1>4 DEF MayRestore, Restorable
<1>7. slot' = slot \/ slot' = [slot EXCEPT ![s] = heldBy[s]]
  BY DEF Original
<1>8. QED
  BY <1>1, <1>2, <1>3, <1>4, <1>5, <1>6, <1>7, QuietStep
     DEF HandTypes, Touching, Returned, StepOK, InHand

\* What has gone back is at home.
LEMMA BackIsHome ==
  ASSUME InCustody, NEW s \in Step, NEW h \in Held, held[h].from = From(s), held[h].at = "back"
  PROVE  Home(From(s))
BY PlanTypes DEF InCustody, FilesOK, HeldOK, StaysHome

LEMMA UndoEndsKeep ==
  ASSUME Planned, Control, InCustody, NEW s \in Step,
         Repoint(s) \/ RelocateBack(s) \/ MarkUndone(s) \/ UndoFailed(s)
  PROVE  InCustody' /\ CustodyStep
<1> USE DEF Repoint, RelocateBack, MarkUndone, UndoFailed, Undoing, holdingVars, durable, counts
<1>1. /\ StepOK(s) /\ HandTypes /\ OwnTypes
      /\ slot[s] \in Held \cup {0} /\ heldBy[s] \in Held \cup {0}
  BY HandsKept
<1>2. pc'[s] \in {"finished", "failed", "undone"} /\ run = "undo"
  BY DEF Goes, Control, ControlTypes
<1>3. \A q \in Step \ {s} : pc'[q] = pc[q] /\ status'[q] = status[q]
  <2>1. CASE Repoint(s) \/ RelocateBack(s) \/ UndoFailed(s)
    BY <2>1 DEF Goes, Control, ControlTypes
  <2>2. CASE MarkUndone(s)
    BY <2>2 DEF Goes, Control, ControlTypes
  <2>3. QED
    BY <2>1, <2>2
<1>4. Acts(s)
  BY <1>2, <1>3 DEF Acts
<1>5. From(s) \in Path /\ To(s) \in Path
  BY PlanTypes
<1>6. OwnTypes'
  BY <1>1, <1>5 DEF OwnTypes, PointRow, From, To
<1>7. pc'[s] = "undone" => Home(From(s))
  <2>1. CASE UndoFailed(s) /\ pc'[s] = "undone"
    <3>1. Plan[s].action = "hold" /\ held[heldBy[s]].row = "restored"
      BY <2>1 DEF Goes, Control, ControlTypes, Original
    <3>2. status[s] = "done" /\ ~Moves(s)
      BY <2>1, <3>1 DEF Control, RunControl, Newest, DoneSteps, Moves
    <3>3. heldBy[s] \in Held /\ held[heldBy[s]].from = From(s)
      BY <1>1, <3>2 DEF StepOK
    <3>4. held[heldBy[s]].at = "back"
      BY <3>1, <3>3 DEF InCustody, FilesOK, HeldOK, EntryOK
    <3>5. QED
      BY <3>3, <3>4, BackIsHome
  <2>2. CASE pc[s] \in Returned
    BY <1>1, <1>2, <2>2 DEF StepOK
  <2>3. QED
    BY <2>1, <2>2 DEF Returned
<1>8. status'[s] = "undone" => status[s] = "undone" \/ Home(From(s))
  BY <1>1, <1>2 DEF StepOK, Returned
<1>9. status'[s] = "done" => status[s] = "done"
  BY DEF Control, ControlTypes
<1>10. pc[s] # "unholdInsert" /\ ~InHand(s)' /\ heldBy' = heldBy /\ slot' = slot
  BY <1>2 DEF InHand
<1>11. QED
  BY <1>1, <1>2, <1>4, <1>6, <1>7, <1>8, <1>9, <1>10, QuietStep
     DEF HandTypes, Touching, Returned, StepOK

LEMMA RowWrites ==
  ASSUME FilesOK, NEW h, NEW r \in {"held", "restored"}, held' = [held EXCEPT ![h].row = r],
         UNCHANGED <<disk, outside>>, r = "restored" /\ h \in Held => held[h].at = "back"
  PROVE  /\ Effect(Step) /\ Held' = Held
         /\ \A k \in Held : held'[k].from = held[k].from /\ held'[k].at = held[k].at
<1>1. held \in [Held -> HeldFile]
  BY Entries DEF FilesOK, HeldOK, Held
<1>2. held' \in [Held -> HeldFile] /\ Held' = Held
  BY <1>1 DEF Held, HeldFile
<1>3. \A k \in Held : /\ held'[k].file = held[k].file /\ held'[k].from = held[k].from
                      /\ held'[k].at = held[k].at
                      /\ held'[k].row = "restored" => held[k].at = "back"
  <2> SUFFICES ASSUME NEW k \in Held
               PROVE  /\ held'[k].file = held[k].file /\ held'[k].from = held[k].from
                      /\ held'[k].at = held[k].at
                      /\ held'[k].row = "restored" => held[k].at = "back"
    OBVIOUS
  <2>1. CASE k = h
    BY <1>1, <2>1 DEF HeldFile
  <2>2. CASE k # h
    BY <1>1, <2>2 DEF FilesOK, HeldOK, EntryOK
  <2>3. QED
    BY <2>1, <2>2
<1>4. QED
  BY <1>2, <1>3, Writes DEF Effect

LEMMA InsertKeeps ==
  ASSUME Planned, Control, InCustody, NEW s \in Step, Insert(s) \/ UnholdInsert(s)
  PROVE  InCustody' /\ CustodyStep
<1>1. /\ StepOK(s) /\ HandTypes /\ OwnTypes /\ FilesOK
      /\ slot[s] \in Held \cup {0} /\ heldBy[s] \in Held \cup {0}
  BY HandsKept
<1>2. /\ Effect(Step) /\ Held' = Held
      /\ \A k \in Held : held'[k].from = held[k].from /\ held'[k].at = held[k].at
  BY <1>1, RowWrites DEF Insert, UnholdInsert, InsertRow, elsewhere
<1>3. Acts(s)
  <2>1. CASE Insert(s)
    BY <2>1 DEF Insert, Acts, Goes, Control, ControlTypes, durable, counts, elsewhere
  <2>2. CASE UnholdInsert(s)
    BY <2>2, <1>1 DEF UnholdInsert, Undoing, Acts, Goes, Control, ControlTypes, HandTypes, durable,
                      counts, elsewhere
  <2>3. QED
    BY <2>1, <2>2
<1>4. OwnTypes'
  BY <1>1 DEF Insert, UnholdInsert, OwnTypes, durable, counts
<1>5. HandTypes'
  BY <1>1, <1>2 DEF Insert, UnholdInsert, Original, HandTypes, durable
<1>6. StepOK(s)'
  <2>1. CASE Insert(s)
    <3>1. /\ pc'[s] \in {"drop", "replace"} /\ pc[s] = "insert" /\ slot' = slot /\ run' = run
          /\ heldBy' = heldBy /\ status' = status
      BY <2>1, Apart DEF Insert, Goes, Control, ControlTypes, durable, Converts, Moves
    <3>2. ~Moves(s) => slot[s] \in Held
      BY <1>1, <3>1 DEF StepOK, InHand
    <3>3. QED
      BY <1>1, <1>2, <3>1, <3>2 DEF StepOK, InHand, Touching, Returned, Effect, Spares
  <2>2. CASE UnholdInsert(s)
    <3>1. /\ pc'[s] = "look" /\ slot'[s] = heldBy[s] /\ run' = run
          /\ heldBy' = heldBy /\ status' = status
      BY <2>2, <1>1 DEF UnholdInsert, Goes, Control, ControlTypes, durable, Original, HandTypes
    <3>2. QED
      BY <1>1, <1>2, <3>1 DEF StepOK, InHand, Touching, Returned, Effect, Spares
  <2>3. QED
    BY <2>1, <2>2
<1>7. QED
  BY <1>2, <1>3, <1>4, <1>5, <1>6, StepDone DEF Effect

LEMMA MarkKeeps ==
  ASSUME Planned, Control, InCustody, NEW s \in Step, Mark(s), run # "idle"
  PROVE  InCustody' /\ CustodyStep
<1>1. /\ StepOK(s) /\ HandTypes /\ OwnTypes /\ FilesOK
      /\ slot[s] \in Held \cup {0} /\ heldBy[s] \in Held \cup {0}
  BY HandsKept
<1>2. slot[s] \in Held /\ held[slot[s]].at = "back" /\ held[slot[s]].from = From(s)
  BY <1>1 DEF Mark, StepOK
<1>3. /\ Effect(Step) /\ Held' = Held
      /\ \A k \in Held : held'[k].from = held[k].from /\ held'[k].at = held[k].at
  BY <1>1, <1>2, RowWrites DEF Mark, MarkRestored, elsewhere
<1>4. /\ slot' = slot /\ run' = run /\ heldBy' = heldBy /\ status' = status
      /\ pc'[s] \in {"finished", "record", "repoint", "undone"}
      /\ run = "apply" => pc'[s] \in {"finished", "record"}
      /\ pc'[s] = "record" => outcome'[s] = "failed"
  BY DEF Mark, Errs, Settles, Goes, Control, ControlTypes
<1>5. Acts(s)
  BY <1>4 DEF Mark, Errs, Settles, Goes, Acts, Control, ControlTypes, counts, elsewhere
<1>6. OwnTypes'
  BY <1>1, DropTemps DEF Mark, OwnTypes, counts
<1>7. HandTypes'
  BY <1>1, <1>3, <1>4 DEF HandTypes
<1>8. Home(From(s))
  BY <1>2, BackIsHome
<1>9. StepOK(s)'
  BY <1>1, <1>2, <1>3, <1>4, <1>8 DEF StepOK, InHand, Touching, Returned, Effect, Spares
<1>10. QED
  BY <1>3, <1>5, <1>6, <1>7, <1>9, StepDone DEF Effect

LEMMA HoldTakes ==
  ASSUME Planned, Control, InCustody, NEW s \in Step, Hold(s),
         PathExists(Plan[s].from), MoveToHolding(Plan[s].from, batch),
         slot' = [slot EXCEPT ![s] = Len(held) + 1], Goes(s, "insert"), temp' = temp,
         outcome' = outcome
  PROVE  InCustody' /\ CustodyStep
<1>1. /\ StepOK(s) /\ HandTypes /\ OwnTypes /\ FilesOK
      /\ heldBy[s] \in Held \cup {0} /\ pc[s] = "hold"
  BY HandsKept DEF Hold
<1>2. Home(From(s)) /\ NotHeld(From(s)) /\ run = "apply"
  BY <1>1 DEF StepOK, Touching
<1>3. From(s) \in Path \ Landings
  BY Apart, PlanTypes
<1>4. outside' = outside /\ page' = page
  BY DEF Hold, elsewhere
<1>5. PICK e : e = [file |-> disk[From(s)], from |-> From(s), batch |-> batch,
                    at |-> "holding", row |-> "none"]
  OBVIOUS
<1>6. e \in HeldFile /\ held' = Append(held, e)
  BY <1>1, <1>3, <1>5 DEF FilesOK, DiskOK, HeldFile, PathExists, MoveToHolding, OwnTypes, From
<1>7. /\ Held' = Held \cup {Len(held) + 1} /\ Len(held) + 1 \notin Held
      /\ held'[Len(held) + 1] = e
  BY <1>1, <1>6, Appended DEF FilesOK, HeldOK
<1>8. /\ FilesOK' /\ CustodyStep /\ Grows
      /\ \A q \in Step : From(q) # From(s) => Spares(q)
  BY <1>1, <1>2, <1>3, <1>4, Takes DEF From, OwnTypes
<1>9. Effect(Step \ {s})
  BY <1>8, Apart DEF Effect
<1>10. Acts(s)
  BY <1>2, <1>4 DEF Hold, Acts, Goes, Control, ControlTypes
<1>11. OwnTypes'
  BY <1>1 DEF Hold, OwnTypes
<1>12. HandTypes'
  BY <1>1, <1>7 DEF Hold, HandTypes
<1>13. StepOK(s)'
  <2>1. /\ pc'[s] = "insert" /\ slot'[s] = Len(held) + 1 /\ run' = "apply"
        /\ heldBy'[s] = heldBy[s] /\ status'[s] = "pending"
    BY <1>1, <1>2 DEF Hold, Goes, Control, ControlTypes, RunControl, HandTypes
  <2>2. held'[Len(held) + 1].from = From(s)
    BY <1>5, <1>7
  <2>3. heldBy[s] \in Held' => heldBy[s] \in Held /\ held'[heldBy[s]].from = From(s)
    <3>1. 0 \notin Held'
      BY <1>8, Entries DEF FilesOK, HeldOK, Held
    <3>2. QED
      BY <1>1, <1>8, <3>1 DEF StepOK, Grows
  <2>4. QED
    BY <1>7, <2>1, <2>2, <2>3 DEF StepOK, InHand, Touching, Returned
<1>14. QED
  BY <1>9, <1>10, <1>11, <1>12, <1>13, StepDone DEF Effect

\* A step that ends here.
LEMMA EndingStep ==
  ASSUME Control, InCustody, NEW s \in Step, Effect(Step), held' = held, slot' = slot,
         heldBy' = heldBy, status' = status, Acts(s), OwnTypes', pc[s] # "unholdInsert",
         pc'[s] \in {"finished", "record", "failed"}, pc'[s] = "record" => outcome'[s] = "failed"
  PROVE  InCustody' /\ CustodyStep
<1>1. StepOK(s) /\ HandTypes
  BY HandsKept
<1>2. Held' = Held
  BY DEF Held
<1>3. HandTypes'
  BY <1>1, <1>2 DEF HandTypes
<1>4. StepOK(s)'
  BY <1>1, <1>2 DEF StepOK, InHand, Touching, Returned, Effect, Spares
<1>5. QED
  BY <1>3, <1>4, StepDone DEF Effect

LEMMA HoldKeeps ==
  ASSUME Planned, Control, InCustody, NEW s \in Step, Hold(s)
  PROVE  InCustody' /\ CustodyStep
<1>1. StepOK(s) /\ OwnTypes /\ FilesOK
  BY HandsKept
<1>2. CASE PathExists(Plan[s].from) /\ MoveToHolding(Plan[s].from, batch) /\ Goes(s, "insert")
           /\ slot' = [slot EXCEPT ![s] = Len(held) + 1] /\ temp' = temp /\ outcome' = outcome
  BY <1>2, HoldTakes
<1>3. CASE /\ Errs(s, "failed") /\ DropTemp(s) /\ held' = held /\ slot' = slot
           /\ disk' = IF Converts(s) /\ ~InPlace(s) /\ PathExists(Plan[s].from)
                      THEN [disk EXCEPT ![Plan[s].to] = NoFile] ELSE disk
  <2>1. /\ heldBy' = heldBy /\ status' = status /\ page' = page /\ outside' = outside
        /\ run' = run /\ plan' = plan /\ rowAt' = rowAt /\ batch' = batch
        /\ run = "apply" /\ pc[s] = "hold"
    BY DEF Hold, elsewhere
  <2>2. Acts(s) /\ pc'[s] \in {"finished", "record"} /\ (pc'[s] = "record" => outcome'[s] = "failed")
    BY <1>3, <2>1 DEF Acts, Errs, Settles, Goes, Control, ControlTypes
  <2>3. OwnTypes'
    BY <1>1, <1>3, <2>1, DropTemps DEF OwnTypes
  <2>4. Effect(Step)
    <3>1. CASE disk' = disk
      BY <1>1, <1>3, <2>1, <3>1, NothingTouched
    <3>2. CASE Converts(s) /\ disk' = [disk EXCEPT ![To(s)] = NoFile]
      BY <1>1, <1>3, <2>1, <3>2, Replaces, Apart, StartTypes DEF Effect
    <3>3. QED
      BY <1>3, <3>1, <3>2 DEF To
  <2>5. QED
    BY <1>3, <2>1, <2>2, <2>3, <2>4, EndingStep
<1>4. QED
  BY <1>2, <1>3 DEF Hold

LEMMA UnholdKeeps ==
  ASSUME Planned, Control, InCustody, NEW s \in Step, Unhold(s)
  PROVE  InCustody' /\ CustodyStep
<1>1. /\ StepOK(s) /\ HandTypes /\ OwnTypes /\ FilesOK
      /\ heldBy[s] \in Held \cup {0} /\ pc[s] = "unhold" /\ run = "undo"
  BY HandsKept DEF Unhold, Undoing
<1>2. /\ heldBy' = heldBy /\ status' = status /\ page' = page /\ outside' = outside
      /\ run' = run /\ plan' = plan /\ rowAt' = rowAt /\ batch' = batch /\ temp' = temp
      /\ outcome' = outcome
  BY DEF Unhold, elsewhere, durable
<1>3. OwnTypes'
  BY <1>1, <1>2 DEF OwnTypes
<1>4. CASE PathExists(To(s)) /\ MoveToHolding(To(s), batch) /\ Goes(s, "unholdInsert")
           /\ slot' = [slot EXCEPT ![s] = Len(held) + 1]
  <2>1. To(s) \in Path \ Landings /\ Start[To(s)] \notin File /\ \A q \in Step : From(q) # To(s)
    BY <1>1, Apart, PlanTypes, StartTypes DEF StepOK, Converts
  <2>2. Effect(Step)
    BY <1>1, <1>2, <1>4, <2>1, Takes DEF Effect, OwnTypes
  <2>3. \E e \in HeldFile : held' = Append(held, e)
    <3>1. [file |-> disk[To(s)], from |-> To(s), batch |-> batch, at |-> "holding", row |-> "none"]
            \in HeldFile
      BY <1>1, <1>4, <2>1 DEF FilesOK, DiskOK, HeldFile, PathExists, OwnTypes
    <3>2. QED
      BY <1>4, <3>1 DEF MoveToHolding
  <2>4. Held' = Held \cup {Len(held) + 1}
    BY <1>1, <2>3, Appended DEF FilesOK, HeldOK
  <2>5. Acts(s) /\ HandTypes' /\ pc'[s] = "unholdInsert"
    BY <1>1, <1>2, <1>4, <2>4 DEF Acts, Goes, Control, ControlTypes, HandTypes
  <2>6. StepOK(s)'
    <3>1. 0 \notin Held'
      BY <2>2, Entries DEF FilesOK, HeldOK, Held, Effect
    <3>2. heldBy[s] \in Held' => heldBy[s] \in Held /\ held'[heldBy[s]].from = From(s)
      <4>1. heldBy[s] \in Held' => heldBy[s] \in Held
        BY <1>1, <3>1
      <4>2. QED
        BY <1>1, <2>2, <4>1 DEF StepOK, Grows, Effect
    <3>3. status[s] = "done" /\ ~Moves(s) => heldBy[s] \in Held'
      BY <1>1, <2>4 DEF StepOK
    <3>4. status[s] = "undone" => Home(From(s))'
      BY <1>1, <2>2 DEF StepOK, Effect, Spares
    <3>5. QED
      BY <1>1, <1>2, <2>5, <3>2, <3>3, <3>4 DEF StepOK, InHand, Touching, Returned
  <2>7. QED
    BY <1>3, <2>2, <2>5, <2>6, StepDone DEF Effect
<1>5. CASE Goes(s, "failed") /\ UNCHANGED <<disk, held, slot>>
  <2>1. Effect(Step)
    BY <1>1, <1>2, <1>5, NothingTouched
  <2>2. Acts(s) /\ pc'[s] = "failed"
    BY <1>1, <1>2, <1>5 DEF Acts, Goes, Control, ControlTypes
  <2>3. QED
    BY <1>1, <1>2, <1>3, <1>5, <2>1, <2>2, EndingStep
<1>6. QED
  BY <1>4, <1>5 DEF Unhold, To

LEMMA MoveKeeps ==
  ASSUME Planned, Control, InCustody, NEW s \in Step, Move(s)
  PROVE  InCustody' /\ CustodyStep
<1>1. /\ StepOK(s) /\ HandTypes /\ OwnTypes /\ FilesOK
      /\ heldBy[s] \in Held \cup {0} /\ pc[s] = "move" /\ run = "apply"
  BY HandsKept DEF Move
<1>2. Moves(s) /\ Home(From(s)) /\ NotHeld(From(s)) /\ status[s] = "pending"
  BY <1>1 DEF StepOK, Touching, Control, RunControl
<1>3. /\ heldBy' = heldBy /\ status' = status /\ page' = page /\ outside' = outside
      /\ run' = run /\ plan' = plan /\ rowAt' = rowAt /\ batch' = batch /\ temp' = temp
      /\ held' = held /\ slot' = slot /\ Held' = Held
  BY DEF Move, elsewhere, durable, Held
<1>4. OwnTypes' /\ HandTypes'
  BY <1>1, <1>3 DEF OwnTypes, HandTypes
<1>5. CASE PathExists(From(s)) /\ Goes(s, "relocate") /\ outcome' = outcome
           /\ disk' = [disk EXCEPT ![From(s)] = NoFile, ![To(s)] = disk[From(s)]]
  <2>1. disk[From(s)] = Start[From(s)] \/ Start[From(s)] \in outside
    BY <1>2 DEF Home
  <2>2. From(s) \in Path /\ To(s) \in Path
    BY PlanTypes
  <2>3. Effect(Step \ {s})
    BY <1>1, <1>2, <1>3, <1>5, <2>1, <2>2, Shifts DEF Effect
  <2>4. Acts(s) /\ pc'[s] = "relocate"
    BY <1>1, <1>3, <1>5 DEF Acts, Goes, Control, ControlTypes
  <2>5. StepOK(s)'
    BY <1>1, <1>2, <1>3, <2>4 DEF StepOK, InHand, Touching, Returned
  <2>6. QED
    BY <1>4, <2>3, <2>4, <2>5, StepDone
<1>6. CASE Errs(s, "failed") /\ disk' = disk
  <2>1. Effect(Step)
    BY <1>1, <1>3, <1>6, NothingTouched
  <2>2. Acts(s) /\ pc'[s] \in {"finished", "record"} /\ (pc'[s] = "record" => outcome'[s] = "failed")
    BY <1>1, <1>3, <1>6 DEF Acts, Errs, Settles, Goes, Control, ControlTypes
  <2>3. QED
    BY <1>1, <1>3, <1>4, <2>1, <2>2, EndingStep
<1>7. QED
  BY <1>5, <1>6 DEF Move, From, To

LEMMA ReturnKeeps ==
  ASSUME Planned, Control, InCustody, NEW s \in Step, Return(s)
  PROVE  InCustody' /\ CustodyStep
<1>1. /\ StepOK(s) /\ HandTypes /\ OwnTypes /\ FilesOK
      /\ heldBy[s] \in Held \cup {0} /\ pc[s] = "return" /\ run = "undo"
  BY HandsKept DEF Return, Undoing
<1>2. Moves(s) /\ There(s)
  BY <1>1 DEF StepOK
<1>3. /\ heldBy' = heldBy /\ status' = status /\ page' = page /\ outside' = outside
      /\ run' = run /\ plan' = plan /\ rowAt' = rowAt /\ batch' = batch /\ temp' = temp
      /\ held' = held /\ slot' = slot /\ Held' = Held /\ outcome' = outcome
  BY DEF Return, elsewhere, durable, Held
<1>4. OwnTypes' /\ HandTypes'
  BY <1>1, <1>3 DEF OwnTypes, HandTypes
<1>5. CASE PathExists(To(s)) /\ Goes(s, "relocateBack")
           /\ disk' = [disk EXCEPT ![To(s)] = NoFile, ![From(s)] = disk[To(s)]]
  <2>1. disk[To(s)] = Start[From(s)] \/ Start[From(s)] \in outside
    BY <1>2 DEF There
  <2>2. From(s) \in Path /\ To(s) \in Path /\ Start[To(s)] \notin File
    BY <1>2, PlanTypes, Apart, StartTypes DEF Moves
  <2>3. Effect(Step \ {s}) /\ Home(From(s))'
    BY <1>1, <1>2, <1>3, <1>5, <2>1, <2>2, Shifts DEF Effect
  <2>4. Acts(s) /\ pc'[s] = "relocateBack"
    BY <1>1, <1>3, <1>5 DEF Acts, Goes, Control, ControlTypes
  <2>5. StepOK(s)'
    BY <1>1, <1>2, <1>3, <2>3, <2>4 DEF StepOK, InHand, Touching, Returned
  <2>6. QED
    BY <1>4, <2>3, <2>4, <2>5, StepDone
<1>6. CASE Goes(s, "failed") /\ disk' = disk
  <2>1. Effect(Step)
    BY <1>1, <1>3, <1>6, NothingTouched
  <2>2. Acts(s) /\ pc'[s] = "failed"
    BY <1>1, <1>3, <1>6 DEF Acts, Goes, Control, ControlTypes
  <2>3. QED
    BY <1>1, <1>3, <1>4, <2>1, <2>2, EndingStep
<1>7. QED
  BY <1>5, <1>6 DEF Return, From, To

LEMMA BackKeeps ==
  ASSUME Planned, Control, InCustody, NEW s \in Step, Back(s), run # "idle"
  PROVE  InCustody' /\ CustodyStep
<1>1. /\ StepOK(s) /\ HandTypes /\ OwnTypes /\ FilesOK
      /\ heldBy[s] \in Held \cup {0} /\ pc[s] = "back"
  BY HandsKept DEF Back
<1>2. slot[s] \in Held /\ held[slot[s]].from = From(s)
  BY <1>1 DEF StepOK
<1>3. /\ heldBy' = heldBy /\ status' = status /\ page' = page /\ outside' = outside
      /\ run' = run /\ plan' = plan /\ rowAt' = rowAt /\ batch' = batch /\ slot' = slot
  BY DEF Back, elsewhere
<1>4. OwnTypes'
  <2>1. DropTemp(s) \/ temp' = temp
    BY DEF Back
  <2>2. QED
    BY <1>1, <1>3, <2>1, DropTemps DEF OwnTypes
<1>5. CASE held[slot[s]].at = "holding" /\ MoveBack(slot[s]) /\ Goes(s, "mark") /\ outcome' = outcome
  <2>1. Effect(Step)
    BY <1>1, <1>2, <1>3, <1>5, PutsBack DEF Effect
  <2>2. Home(From(s))' /\ Held' = Held /\ held'[slot[s]].at = "back"
    <3>1. Start[held[slot[s]].from] \in File => Home(held[slot[s]].from)'
      BY <1>1, <1>2, <1>3, <1>5, PutsBack
    <3>2. PICK h \in Held : h = slot[s]
      BY <1>2
    <3>3. held' = [held EXCEPT ![h].at = "back"] /\ held \in [Held -> HeldFile]
      BY <1>1, <1>5, <3>2, Entries DEF MoveBack, FilesOK, HeldOK, Held
    <3>4. Held' = Held /\ held'[h].at = "back" /\ held'[h].from = held[h].from
      BY <3>3 DEF HeldFile, Held
    <3>5. Start[From(s)] \in File => Home(From(s))'
      BY <1>2, <1>3, <3>1, <3>2, <3>4
    <3>6. QED
      BY <3>2, <3>4, <3>5, PlanTypes
  <2>3. Acts(s) /\ pc'[s] = "mark"
    BY <1>3, <1>5 DEF Acts, Goes, Control, ControlTypes
  <2>4. HandTypes'
    BY <1>1, <1>3, <2>2 DEF HandTypes
  <2>5. StepOK(s)'
    BY <1>1, <1>2, <1>3, <2>1, <2>2, <2>3 DEF StepOK, InHand, Touching, Returned, Effect, Grows
  <2>6. QED
    BY <1>4, <2>1, <2>3, <2>4, <2>5, StepDone DEF Effect
<1>6. CASE /\ UNCHANGED <<disk, held>> /\ DropTemp(s)
           /\ IF run = "apply" THEN Errs(s, "failed") ELSE Goes(s, "failed") /\ UNCHANGED outcome
  <2>1. Effect(Step)
    BY <1>1, <1>3, <1>6, NothingTouched
  <2>2. Acts(s) /\ pc'[s] \in {"finished", "record", "failed"}
        /\ (pc'[s] = "record" => outcome'[s] = "failed")
    BY <1>3, <1>6 DEF Acts, Errs, Settles, Goes, Control, ControlTypes
  <2>3. QED
    BY <1>1, <1>3, <1>4, <1>6, <2>1, <2>2, EndingStep
<1>7. QED
  BY <1>5, <1>6 DEF Back

LEMMA PlaceKeeps ==
  ASSUME Planned, Control, InCustody, NEW s \in Step, Place(s)
  PROVE  InCustody' /\ CustodyStep
<1>1. /\ StepOK(s) /\ HandTypes /\ OwnTypes /\ FilesOK /\ pc[s] = "place" /\ run = "apply"
  BY HandsKept DEF Place
<1>2. /\ Converts(s) /\ ~InPlace(s) /\ To(s) \in Results /\ To(s) \in Path
      /\ Home(From(s)) /\ NotHeld(From(s))
  BY <1>1, Apart, PlanTypes DEF StepOK, Touching, Converts
<1>3. /\ heldBy' = heldBy /\ status' = status /\ page' = page /\ outside' = outside
      /\ run' = run /\ plan' = plan /\ rowAt' = rowAt /\ batch' = batch
      /\ held' = held /\ slot' = slot /\ Held' = Held
  BY DEF Place, elsewhere, Held
<1>4. HandTypes'
  BY <1>1, <1>3 DEF HandTypes
<1>5. CASE /\ disk' = [disk EXCEPT ![To(s)] = temp[To(s)]] /\ temp' = [temp EXCEPT ![To(s)] = NoFile]
           /\ Goes(s, "hold") /\ outcome' = outcome
  <2>1. Effect(Step)
    BY <1>1, <1>2, <1>3, <1>5, Replaces DEF Effect, OwnTypes
  <2>2. Acts(s) /\ pc'[s] = "hold"
    BY <1>1, <1>3, <1>5 DEF Acts, Goes, Control, ControlTypes
  <2>3. OwnTypes'
    BY <1>1, <1>3, <1>5, StartTypes DEF OwnTypes
  <2>4. StepOK(s)'
    BY <1>1, <1>2, <1>3, <2>1, <2>2 DEF StepOK, InHand, Touching, Returned, Effect, Spares
  <2>5. QED
    BY <1>4, <2>1, <2>2, <2>3, <2>4, StepDone DEF Effect
<1>6. CASE disk' = disk /\ Errs(s, "failed") /\ DropTemp(s)
  <2>1. Effect(Step)
    BY <1>1, <1>3, <1>6, NothingTouched
  <2>2. Acts(s) /\ pc'[s] \in {"finished", "record"} /\ (pc'[s] = "record" => outcome'[s] = "failed")
    BY <1>1, <1>3, <1>6 DEF Acts, Errs, Settles, Goes, Control, ControlTypes
  <2>3. OwnTypes'
    BY <1>1, <1>3, <1>6, DropTemps DEF OwnTypes
  <2>4. QED
    BY <1>1, <1>3, <2>1, <2>2, <2>3, EndingStep
<1>7. QED
  BY <1>2, <1>5, <1>6 DEF Place, To

\* What happens beside the steps.
LEMMA BesideSteps ==
  ASSUME InCustody, Effect(Step), UNCHANGED <<run, pc, slot, heldBy, status, outcome, plan>>,
         OwnTypes', PageOK', Held' = Held
  PROVE  InCustody' /\ CustodyStep
<1>1. \A q \in Step : StepOK(q)'
  BY SparedStep DEF Effect
<1>2. HandTypes'
  BY DEF InCustody, HandTypes
<1>3. held = <<>> => held' = <<>>
  <2>1. \A H \in Seq(HeldFile) : DOMAIN H = {} => H = <<>>
    <3> HIDE DEF HeldFile
    <3>1. QED
      OBVIOUS
  <2>2. QED
    BY <2>1 DEF Held, Effect, FilesOK, HeldOK
<1>4. QED
  BY <1>1, <1>2, <1>3 DEF InCustody, Effect

\* A run that starts, ends, crashes or is made good.
LEMMA RunBounds ==
  ASSUME InCustody, UNCHANGED <<disk, held, outside, heldBy, status>>, OwnTypes', PageOK',
         slot' \in [Step -> Held \cup {0}], plan' = "draft" => plan = "draft",
         \A s \in Step : /\ slot'[s] = 0 \/ (slot'[s] = slot[s] /\ pc[s] # "unholdInsert")
                         /\ \/ pc'[s] = "finished"
                            \/ pc'[s] = "waiting" /\ (run' = "apply" => NotHeld(From(s)))
  PROVE  InCustody' /\ CustodyStep
<1>1. Effect(Step)
  BY NothingTouched DEF InCustody
<1>2. Held' = Held /\ held' = held
  BY DEF Held
<1>3. ASSUME NEW s \in Step
      PROVE  StepOK(s)'
  <2>1. StepOK(s) /\ 0 \notin Held
    BY HandsKept
  <2>2. NotHeld(From(s))' <=> NotHeld(From(s))
    BY NothingMoved
  <2>3. QED
    BY <1>1, <1>2, <2>1, <2>2 DEF StepOK, InHand, Touching, Returned, Effect, Spares
<1>4. HandTypes'
  BY <1>2 DEF InCustody, HandTypes
<1>5. QED
  BY <1>1, <1>2, <1>3, <1>4 DEF InCustody, Effect

LEMMA PageStays ==
  ASSUME PageOK, page' = page, held' = held
  PROVE  PageOK'
BY DEF PageOK, Held

LEMMA RunsKeep ==
  ASSUME Planned, Control, Control', InCustody,
         StartApply \/ StartUndo \/ Stop \/ EndApply \/ EndUndo \/ Crash \/ Recover
  PROVE  InCustody' /\ CustodyStep
<1> USE DEF holdingVars, durable, volatile, counts
<1>1. OwnTypes /\ HandTypes /\ PageOK
  BY DEF InCustody
<1>2. CASE Stop
  <2>1. UNCHANGED <<disk, held, outside, page, run, pc, slot, heldBy, status, outcome, plan,
                    temp, rowAt, batch>>
    BY <1>2 DEF Stop
  <2>2. OwnTypes' /\ PageOK' /\ Effect(Step)
    BY <1>1, <2>1, PageStays, NothingTouched DEF OwnTypes, InCustody
  <2>3. Held' = Held
    BY <2>1 DEF Held
  <2>4. QED
    BY <2>1, <2>2, <2>3, BesideSteps
<1>3. CASE StartApply
  <2>1. held = <<>>
    BY <1>3 DEF StartApply, InCustody
  <2>2. \A s \in Step : NotHeld(From(s)) /\ pc[s] # "unholdInsert"
    BY <1>3, <2>1 DEF StartApply, NotHeld, Held, Control, RunControl
  <2>3. OwnTypes' /\ PageOK'
    BY <1>1, <1>3, PageStays DEF StartApply, OwnTypes
  <2>4. QED
    BY <1>1, <1>3, <2>2, <2>3, RunBounds DEF StartApply, HandTypes
<1>4. CASE StartUndo \/ EndApply \/ EndUndo
  <2>1. UNCHANGED <<disk, held, outside, page, slot, heldBy, status, temp, rowAt>>
    BY <1>4 DEF StartUndo, EndApply, EndUndo
  <2>2. OwnTypes' /\ PageOK'
    BY <1>1, <1>4, <2>1, PageStays DEF OwnTypes, StartUndo, EndApply, EndUndo
  <2>3. \A s \in Step : pc[s] \in {"waiting", "finished"} /\ pc'[s] = "finished"
    <3>1. CASE StartUndo
      BY <3>1 DEF StartUndo, Control, RunControl
    <3>2. CASE EndApply
      BY <3>2 DEF EndApply, InFlight
    <3>3. CASE EndUndo
      <4>1. run' = "idle" /\ plan' # "draft" /\ pc' = pc
        BY <3>3 DEF EndUndo, Control, RunControl
      <4>2. QED
        BY <4>1 DEF Control, RunControl
    <3>4. QED
      BY <1>4, <3>1, <3>2, <3>3
  <2>4. plan' # "draft"
    BY <1>4 DEF StartUndo, EndApply, EndUndo, SettledStatus, Control, RunControl
  <2>5. QED
    BY <1>1, <2>1, <2>2, <2>3, <2>4, RunBounds DEF HandTypes
<1>5. CASE Crash
  <2>1. OwnTypes' /\ PageOK'
    BY <1>1, <1>5 DEF Crash, OwnTypes, PageOK, PageState, Idle
  <2>2. QED
    BY <1>1, <1>5, <2>1, RunBounds DEF Crash, HandTypes
<1>6. CASE Recover
  <2>1. UNCHANGED <<disk, held, outside, page, run, pc, slot, heldBy, status, outcome,
                    rowAt, batch>>
    BY <1>6 DEF Recover
  <2>2. OwnTypes' /\ PageOK'
    BY <1>1, <1>6, <2>1, PageStays, StartTypes DEF OwnTypes, Recover
  <2>3. run = "idle" /\ (plan' = "draft" => plan = "draft")
    BY <1>6 DEF Recover, Control, RunControl, ControlTypes
  <2>4. \A s \in Step : pc[s] \in {"waiting", "finished"}
    BY <2>3 DEF Control, RunControl
  <2>5. QED
    BY <1>1, <2>1, <2>2, <2>3, <2>4, RunBounds DEF HandTypes
<1>7. QED
  BY <1>2, <1>3, <1>4, <1>5, <1>6

LEMMA PageKeeps ==
  ASSUME Planned, Control, InCustody, Page
  PROVE  InCustody' /\ CustodyStep
<1> USE DEF durable, volatile, counts
<1>1. /\ OwnTypes' /\ PageOK /\ FilesOK /\ page \in PageState
      /\ UNCHANGED <<run, pc, slot, heldBy, status, outcome, plan>>
  BY DEF Page, InCustody, OwnTypes, PageOK
<1>2. held \in [Held -> HeldFile] /\ Held \subseteq Nat /\ 0 \notin Held
  BY <1>1, Entries DEF FilesOK, HeldOK, Held
<1>3. CASE UNCHANGED <<disk, held, outside>> /\ PageOK'
  <2>1. Effect(Step) /\ Held' = Held
    BY <1>1, <1>3, NothingTouched DEF Held
  <2>2. QED
    BY <1>1, <1>3, <2>1, BesideSteps
<1>4. ASSUME NEW h \in Held, PressRestore(h)
      PROVE  PageOK'
  BY <1>2, <1>4 DEF PressRestore, PageOK, PageState, Idle, Held
<1>5. CASE PressEmpty
  <2>1. HeldBatches \subseteq Nat
    BY <1>2, EntryTypes DEF HeldBatches
  <2>2. PageOK'
    BY <1>5, <2>1 DEF PressEmpty, PageOK, PageState, Idle, Held
  <2>3. QED
    BY <1>3, <1>5, <2>2 DEF PressEmpty
<1>6. CASE RestoreMove
  <2>1. page.id \in Held
    BY <1>1, <1>6 DEF RestoreMove, PageOK
  <2>2. CASE held[page.id].at = "holding"
    <3>1. PICK h \in Held : h = page.id
      BY <2>1
    <3>2. MoveBack(h) /\ page' = [page EXCEPT !.doing = "marking"] /\ outside' = outside
      BY <1>6, <2>2, <3>1 DEF RestoreMove
    <3>3. Effect(Step)
      BY <1>1, <2>2, <3>1, <3>2, PutsBack DEF Effect
    <3>4. Held' = Held /\ held'[h].at = "back"
      BY <1>2, <3>2 DEF MoveBack, Held, HeldFile
    <3>5. PageOK'
      BY <1>1, <3>1, <3>2, <3>4 DEF PageOK, PageState
    <3>6. QED
      BY <1>1, <3>3, <3>4, <3>5, BesideSteps
  <2>3. CASE held[page.id].at # "holding"
    <3>1. PageOK'
      BY <1>6, <2>3 DEF RestoreMove, PageOK, PageState, Idle
    <3>2. QED
      BY <1>3, <1>6, <2>3, <3>1 DEF RestoreMove
  <2>4. QED
    BY <2>2, <2>3
<1>7. CASE RestoreMark
  <2>1. page.id \in Held /\ held[page.id].at = "back"
    BY <1>1, <1>7 DEF RestoreMark, PageOK
  <2>2. Effect(Step) /\ Held' = Held
    BY <1>1, <1>7, <2>1, RowWrites DEF RestoreMark, MarkRestored
  <2>3. PageOK'
    BY <1>7 DEF RestoreMark, PageOK, PageState, Idle
  <2>4. QED
    BY <1>1, <2>2, <2>3, BesideSteps
<1>8. CASE EndEmpty
  <2>1. PageOK'
    BY <1>8 DEF EndEmpty, PageOK, PageState, Idle
  <2>2. QED
    BY <1>3, <1>8, <2>1 DEF EndEmpty
<1>9. ASSUME NEW b \in page.batches, TrashBatch(b)
       PROVE  InCustody' /\ CustodyStep
  <2>1. b \in Nat /\ outside' = outside /\ disk' = disk
    BY <1>1, <1>9 DEF TrashBatch, PageState
  <2>2. Effect(Step)
    BY <1>1, <1>9, <2>1, Trashes, NothingTouched DEF TrashBatch, Effect
  <2>3. /\ page' \in PageState /\ page'.doing = "trashing" /\ page'.id = page.id
    <3>1. page.batches \ {b} \subseteq Nat /\ page.trashed \cup {b} \subseteq Nat
      BY <1>1, <2>1 DEF PageState
    <3>2. CASE page' = [page EXCEPT !.batches = @ \ {b}, !.trashed = @ \cup {b}]
      BY <1>1, <1>9, <3>1, <3>2 DEF TrashBatch, PageState
    <3>3. CASE page' = [page EXCEPT !.batches = @ \ {b}]
      BY <1>1, <1>9, <3>1, <3>3 DEF TrashBatch, PageState
    <3>4. QED
      BY <1>9, <3>2, <3>3 DEF TrashBatch
  <2>4. PageOK' /\ Held' = Held
    BY <1>1, <1>9, <2>2, <2>3 DEF PageOK, Effect, Grows, TrashBatch, Held
  <2>5. QED
    BY <1>1, <2>2, <2>4, BesideSteps
<1>10. ASSUME NEW b \in page.trashed, MarkEmptied(b)
       PROVE  InCustody' /\ CustodyStep
  <2>1. outside' = outside /\ disk' = disk
    BY <1>10 DEF MarkEmptied
  <2>2. held' \in [Held -> HeldFile]
    BY <1>2, <1>10 DEF MarkEmptied, HeldFile
  <2>3. \A h \in Held : /\ held'[h].file = held[h].file /\ held'[h].from = held[h].from
                        /\ held'[h].at = held[h].at
                        /\ held'[h].row = "restored" => held[h].at = "back"
    <3> SUFFICES ASSUME NEW h \in Held
                 PROVE  /\ held'[h].file = held[h].file /\ held'[h].from = held[h].from
                        /\ held'[h].at = held[h].at
                        /\ held'[h].row = "restored" => held[h].at = "back"
      OBVIOUS
    <3>1. held[h] \in HeldFile /\ (held[h].row = "restored" => held[h].at = "back")
      BY <1>1 DEF FilesOK, HeldOK, EntryOK
    <3>2. held'[h] = held[h] \/ held'[h] = [held[h] EXCEPT !.row = "emptied"]
      BY <1>10 DEF MarkEmptied
    <3>3. QED
      BY <3>1, <3>2 DEF HeldFile
  <2>4. Effect(Step)
    BY <1>1, <2>1, <2>2, <2>3, Writes DEF Effect
  <2>5. page' \in PageState /\ page'.doing = "trashing" /\ page'.id = page.id
    BY <1>1, <1>10 DEF MarkEmptied, PageState
  <2>6. PageOK' /\ Held' = Held
    BY <1>1, <2>2, <2>4, <2>5 DEF PageOK, Effect, Grows, Held
  <2>7. QED
    BY <1>1, <2>4, <2>6, BesideSteps
<1>11. QED
  <2>1. CASE \E h \in Held : PressRestore(h)
    <3>1. PICK h \in Held : PressRestore(h)
      BY <2>1
    <3>2. PageOK'
      BY <1>4, <3>1
    <3>3. QED
      BY <1>3, <3>1, <3>2 DEF PressRestore
  <2>2. CASE PageStep
    BY <1>6, <1>7, <1>8, <1>9, <1>10, <2>2 DEF PageStep
  <2>3. QED
    BY <1>5, <2>1, <2>2 DEF Page

LEMMA OtherProgramsKeep ==
  ASSUME Planned, InCustody, OtherPrograms
  PROVE  InCustody' /\ CustodyStep
<1>1. /\ OwnTypes' /\ PageOK /\ FilesOK
      /\ UNCHANGED <<run, pc, slot, heldBy, status, outcome, plan>>
  BY DEF OtherPrograms, InCustody, OwnTypes, durable, volatile, counts
<1>2. PICK c \in Foreign, p \in Path : Write(c, p)
  BY DEF OtherPrograms
<1>3. Effect(Step)
  BY <1>1, <1>2, Overwrites DEF Effect
<1>4. held' = held /\ page' = page /\ Held' = Held
  BY <1>2 DEF Write, Held
<1>5. PageOK'
  BY <1>1, <1>4, PageStays
<1>6. QED
  BY <1>1, <1>3, <1>4, <1>5, BesideSteps

-----------------------------------------------------------------------------
(* What is kept. *)

LEMMA CustodyInit ==
  ASSUME Planned, Init
  PROVE  InCustody /\ Where = [f \in File |-> "root"]
<1> USE DEF Init, HoldingInit
<1>1. Held = {} /\ held = <<>> /\ held \in Seq(HeldFile)
  BY DEF Held
<1>2. DiskOK
  BY StartTypes DEF DiskOK, Contents, Plain, Belongs
<1>3. Where = [f \in File |-> "root"]
  BY StartTypes DEF Where, InRoot
<1>4. OriginalsKept
  BY <1>3 DEF OriginalsKept
<1>5. FilesOK
  BY <1>1, <1>2, <1>4 DEF FilesOK, HeldOK
<1>6. OwnTypes
  BY StartTypes, ExecutorAssumption DEF OwnTypes
<1>7. HandTypes /\ PageOK
  BY DEF HandTypes, PageOK, PageState, Idle
<1>8. \A s \in Step : StepOK(s)
  BY <1>1 DEF StepOK, InHand, Touching, Returned, NotHeld
<1>9. QED
  BY <1>1, <1>3, <1>5, <1>6, <1>7, <1>8 DEF InCustody

LEMMA CustodyKept ==
  ASSUME Planned, Control, InCustody, [Next]_vars
  PROVE  InCustody' /\ CustodyStep
<1>1. Control'
  BY ControlStep
<1>2. ASSUME NEW s \in Step, Apply(s)
      PROVE  InCustody' /\ CustodyStep
  BY <1>2, CheckKeeps, HoldKeeps, InsertKeeps, RowsKeep, MoveKeeps, EncodesKeep, PlaceKeeps,
     RecordKeeps DEF Apply
<1>3. ASSUME NEW s \in Step, Undo(s)
      PROVE  InCustody' /\ CustodyStep
  BY <1>3, UndoReadsKeep, UnholdKeeps, InsertKeeps, UndoEndsKeep, ReturnKeeps DEF Undo
<1>4. ASSUME NEW s \in Step, Back(s) \/ Mark(s)
      PROVE  InCustody' /\ CustodyStep
  <2>1. run # "idle"
    BY <1>4 DEF Back, Mark, Control, RunControl
  <2>2. QED
    BY <1>4, <2>1, BackKeeps, MarkKeeps
<1>5. CASE UNCHANGED vars
  <2>1. /\ OwnTypes' /\ PageOK' /\ FilesOK /\ Held' = Held
        /\ UNCHANGED <<disk, held, outside, run, pc, slot, heldBy, status, outcome, plan>>
    BY <1>5, PageStays DEF vars, holdingVars, durable, volatile, counts, InCustody, OwnTypes, Held
  <2>2. Effect(Step)
    BY <2>1, NothingTouched
  <2>3. QED
    BY <2>1, <2>2, BesideSteps
<1>6. QED
  BY <1>1, <1>2, <1>3, <1>4, <1>5, RunsKeep, PageKeeps, OtherProgramsKeep DEF Next, Execute

LEMMA CustodyHolds ==
  ASSUME Planned
  PROVE  Spec => [](Control /\ InCustody)
<1>1. Init => Control /\ InCustody
  BY ControlInit, CustodyInit DEF Control
<1>2. Control /\ InCustody /\ [Next]_vars => (Control /\ InCustody)'
  BY ControlStep, CustodyKept
<1>3. QED
  BY <1>1, <1>2, PTL DEF Spec

(***************************************************************************)
(* No file of the owner's is lost (OriginalsKept; executor.rs, "nothing is *)
(* deleted"): whatever the plan, of the kind the planner drafts, what no   *)
(* other program overwrote is in the root, in holding or in the Trash,     *)
(* however steps, undos, restores, crashes and the Trash have crossed.     *)
(***************************************************************************)
THEOREM NoFileIsLost ==
  ASSUME Planned
  PROVE  Spec => []OriginalsKept
<1>1. InCustody => OriginalsKept
  BY DEF InCustody, FilesOK
<1>2. QED
  BY <1>1, CustodyHolds, PTL

(***************************************************************************)
(* The executor, the Holding page, a crash and the next launch keep        *)
(* custody of the owner's files as TidyCustody says (KeepsCustody): a file *)
(* leaves the root only for holding, holding only for the root or the      *)
(* Trash, and only another program's write takes one out for good.         *)
(***************************************************************************)
THEOREM ExecutorKeepsCustody ==
  ASSUME Planned
  PROVE  Spec => KeepsCustody
<1>1. Init => Custody!Init
  BY CustodyInit DEF Custody!Init
<1>2. Control /\ InCustody /\ [Next]_vars => [Custody!Next]_Where
  BY CustodyKept DEF CustodyStep
<1>3. QED
  BY <1>1, <1>2, CustodyHolds, PTL DEF Spec, KeepsCustody, Custody!Spec

(***************************************************************************)
(* A step that says undone has its file back where it was                  *)
(* (UndoneIsPutBack), unless another program wrote over it there, however  *)
(* the undo crossed the Holding page, a stop or a crash (undo_step,        *)
(* already_restored).                                                      *)
(***************************************************************************)
THEOREM UndoneIsBack ==
  ASSUME Planned
  PROVE  Spec => []UndoneIsPutBack
<1>1. InCustody => UndoneIsPutBack
  <2> SUFFICES ASSUME InCustody, NEW s \in Step, status[s] = "undone"
               PROVE  disk[Plan[s].from] = Plan[s].file \/ Plan[s].file \in outside
    BY DEF UndoneIsPutBack
  <2>1. Home(From(s))
    BY DEF InCustody, StepOK
  <2>2. QED
    BY <2>1, PlanTypes DEF Home, From
<1>2. QED
  BY <1>1, CustodyHolds, PTL

(***************************************************************************)
(* Type correctness (TypeOK): what a step has in hand is a row of holding, *)
(* and what is on disk is one of the owner's files, another program's or   *)
(* what a conversion of one made.                                          *)
(***************************************************************************)
THEOREM TypeCorrect ==
  ASSUME Planned
  PROVE  Spec => []TypeOK
<1>1. Control /\ InCustody => TypeOK
  <2> SUFFICES ASSUME Control, InCustody PROVE TypeOK
    OBVIOUS
  <2>1. \A h \in Held : held[h] \in HeldFile
    BY DEF InCustody, FilesOK, HeldOK, EntryOK
  <2>2. page.doing \in {"nothing", "restoring", "marking", "trashing"} /\ page.id \in Held \cup {0}
    BY DEF InCustody, PageOK, PageState
  <2>3. QED
    BY <2>1, <2>2 DEF TypeOK, Control, ControlTypes, InCustody, FilesOK, DiskOK, OwnTypes, HandTypes,
       Statuses, Outcomes, PlanStatuses, Undoable
<1>2. QED
  BY <1>1, CustodyHolds, PTL
=============================================================================
