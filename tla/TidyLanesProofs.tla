--------------------------- MODULE TidyLanesProofs ---------------------------
(***************************************************************************)
(* What a step of Tidy's executor may count on while other steps run: at   *)
(* most Lanes of them do, and a step that is no still conversion runs by   *)
(* itself.  From that, what is left over once nothing runs, and why a      *)
(* plan that resolves duplicates leaves a copy of each.                    *)
(***************************************************************************)
EXTENDS TidyExecutorProofs, FiniteSetTheorems

-----------------------------------------------------------------------------
(* The order of the steps. *)

\* execute's two passes: the stills, and then the others one after the other.
Order ==
    run = "apply" => \A s \in Others : pc[s] # "waiting" =>
        \A q \in Step : q \in Stills \/ q < s => pc[q] = "finished"

WithinLanes == Cardinality(InFlight) <= Lanes

\* A step of the run goes on, and may go on for the first time only when it may start.
Advances(s) ==
    /\ run = "apply" /\ run' = run /\ pc[s] # "finished"
    /\ \A q \in Step \ {s} : pc'[q] = pc[q]
    /\ pc'[s] # "waiting"
    /\ pc[s] = "waiting" => MayStart(s)

LEMMA StepsAreFew ==
  /\ IsFiniteSet(Step) /\ \A S \in SUBSET Step : IsFiniteSet(S) /\ Cardinality(S) \in Nat
  /\ Lanes \in Nat \ {0} /\ InFlight \subseteq Step
<1>1. Plan \in Seq([action : Actions, from : Path, to : Path, file : File,
                    keepers : SUBSET Path, bytes : Nat \ {0}])
  BY ExecutorAssumption
<1>2. Len(Plan) \in Nat /\ Step = 1..Len(Plan)
  BY <1>1 DEF Step
<1>3. IsFiniteSet(Step)
  BY <1>2, FS_Interval
<1>4. QED
  BY <1>3, FS_Subset, FS_CardinalityType, ExecutorAssumption DEF InFlight

LEMMA SameRun ==
  ASSUME NEW s \in Step, Apply(s) \/ Undo(s) \/ Back(s) \/ Mark(s)
  PROVE  run' = run
BY DEF Apply, Check, Hold, Insert, DropRow, Move, Relocate, Reserve, Encode, Recheck, Place, Record,
   Undo, UndoCheck, Unhold, UnholdInsert, Look, Repoint, Return, RelocateBack, MarkUndone,
   UndoFailed, Back, Mark

\* What leaves the steps of a run alone.
LEMMA BesideRuns ==
  ASSUME run' = "apply",
         EndApply \/ EndUndo \/ StartUndo \/ Stop \/ Crash \/ Recover \/ Page \/ OtherPrograms
           \/ UNCHANGED vars
  PROVE  UNCHANGED <<run, pc>>
BY DEF EndApply, EndUndo, StartUndo, Stop, Crash, Recover, Page, OtherPrograms, vars, volatile

LEMMA AppliesAdvance ==
  ASSUME Control, run = "apply", NEW s \in Step, Apply(s) \/ Undo(s) \/ Back(s) \/ Mark(s)
  PROVE  Advances(s)
<1>1. CASE Record(s)
  BY <1>1 DEF Record, Goes, Advances, Control, ControlTypes
<1>2. CASE Apply(s) /\ ~Record(s)
  <2>1. Proceeds(s)
    BY <1>2, ApplyProceeds DEF Control
  <2>2. pc[s] = "waiting" => MayStart(s)
    BY <1>2 DEF Apply, Check, Hold, Insert, DropRow, Move, Relocate, Reserve, Encode, Recheck, Place
  <2>3. QED
    BY <2>1, <2>2 DEF Proceeds, Advances
<1>3. CASE Back(s) \/ Mark(s)
  <2>1. Proceeds(s)
    BY <1>3, BackProceeds DEF Control, UndoProceeds, Undoing
  <2>2. pc[s] # "waiting"
    BY <1>3 DEF Back, Mark
  <2>3. QED
    BY <2>1, <2>2 DEF Proceeds, Advances
<1>4. ~Undo(s)
  BY DEF Undo, UndoCheck, Unhold, UnholdInsert, Look, Repoint, Return, RelocateBack, MarkUndone,
         UndoFailed, Undoing
<1>5. QED
  BY <1>1, <1>2, <1>3, <1>4

LEMMA AdvanceKeepsOrder ==
  ASSUME Order, NEW s \in Step, Advances(s)
  PROVE  Order'
<1> SUFFICES ASSUME NEW t \in Others, pc'[t] # "waiting", NEW q \in Step, q \in Stills \/ q < t
             PROVE  pc'[q] = "finished"
  BY DEF Order, Advances
<1> USE StepsAreNumbers DEF Others
<1>1. CASE pc[t] # "waiting"
  BY <1>1 DEF Order, Advances
<1>2. CASE pc[t] = "waiting"
  BY <1>2 DEF Advances, MayStart
<1>3. QED
  BY <1>1, <1>2

\* A step that is no still starts when nothing is in flight.
LEMMA AdvanceKeepsLanes ==
  ASSUME Order, WithinLanes, NEW s \in Step, Advances(s)
  PROVE  WithinLanes'
<1>1. CASE pc[s] # "waiting"
  <2>1. InFlight' \subseteq InFlight
    BY <1>1 DEF InFlight, Advances
  <2>2. Cardinality(InFlight') <= Cardinality(InFlight) /\ Cardinality(InFlight') \in Nat
    BY <2>1, StepsAreFew, FS_Subset
  <2>3. QED
    BY <2>2, StepsAreFew DEF WithinLanes
<1>2. CASE pc[s] = "waiting"
  <2>1. InFlight' \subseteq InFlight \cup {s} /\ s \notin InFlight
    BY <1>2 DEF InFlight, Advances
  <2>2. Cardinality(InFlight \cup {s}) = Cardinality(InFlight) + 1
    BY <2>1, StepsAreFew, FS_AddElement
  <2>3. Cardinality(InFlight') <= Cardinality(InFlight) + 1 /\ Cardinality(InFlight') \in Nat
    <3>1. InFlight \cup {s} \in SUBSET Step
      BY StepsAreFew
    <3>2. QED
      BY <2>1, <2>2, <3>1, StepsAreFew, FS_Subset
  <2>4. CASE s \in Stills
    BY <1>2, <2>3, <2>4, StepsAreFew DEF WithinLanes, Advances, MayStart
  <2>5. CASE s \notin Stills
    <3>1. \A q \in Step : q \in Stills \/ q < s => pc[q] = "finished"
      BY <1>2, <2>5 DEF Advances, MayStart
    <3>2. \A q \in Step : q \notin Stills /\ s < q => pc[q] = "waiting"
      BY <1>2 DEF Order, Advances, Others
    <3>3. \A q \in Step : q < s \/ q = s \/ s < q
      BY StepsAreNumbers
    <3>4. InFlight = {}
      BY <1>2, <3>1, <3>2, <3>3 DEF InFlight
    <3>5. Cardinality(InFlight) = 0
      BY <3>4, FS_EmptySet
    <3>6. QED
      BY <2>3, <3>5, StepsAreFew DEF WithinLanes
  <2>6. QED
    BY <2>4, <2>5
<1>3. QED
  BY <1>1, <1>2

\* Between runs nothing is in flight, and an undo has its newest step in flight only.
LEMMA OutsideRuns == Control /\ run # "apply" => Order /\ WithinLanes
<1> SUFFICES ASSUME Control, run # "apply" PROVE Order /\ WithinLanes
  OBVIOUS
<1>1. \A s, q \in InFlight : s = q
  BY OneNewest DEF Control, ControlTypes, RunControl, InFlight
<1>2. Cardinality(InFlight) \in {0, 1}
  <2>1. CASE InFlight = {}
    BY <2>1, FS_EmptySet
  <2>2. CASE InFlight # {}
    <3>1. PICK s : InFlight = {s}
      BY <1>1, <2>2
    <3>2. QED
      BY <3>1, FS_Singleton
  <2>3. QED
    BY <2>1, <2>2
<1>3. QED
  BY <1>2, StepsAreFew DEF Order, WithinLanes

LEMMA OrderStep ==
  ASSUME Control, Order, WithinLanes, [Next]_vars
  PROVE  Order' /\ WithinLanes'
<1>1. CASE run' # "apply"
  <2>1. Control'
    BY ControlStep
  <2>2. (Control /\ run # "apply" => Order /\ WithinLanes)'
    BY OutsideRuns, PTL
  <2>3. QED
    BY <1>1, <2>1, <2>2
<1>2. CASE run' = "apply"
  <2>1. ASSUME NEW s \in Step, Apply(s) \/ Undo(s) \/ Back(s) \/ Mark(s)
        PROVE  Order' /\ WithinLanes'
    <3>1. run = "apply"
      BY <1>2, <2>1, SameRun
    <3>2. QED
      BY <2>1, <3>1, AppliesAdvance, AdvanceKeepsOrder, AdvanceKeepsLanes
  <2>2. CASE StartApply
    <3>1. InFlight' = {}
      BY <2>2 DEF StartApply, InFlight
    <3>2. Cardinality(InFlight') = 0
      BY <3>1, FS_EmptySet
    <3>3. QED
      BY <2>2, <3>2, StepsAreFew DEF StartApply, Order, WithinLanes, Others
  <2>3. CASE UNCHANGED <<run, pc>>
    BY <2>3 DEF Order, WithinLanes, InFlight
  <2>4. QED
    BY <1>2, <2>1, <2>2, <2>3, BesideRuns DEF Next, Execute
<1>3. QED
  BY <1>1, <1>2

InLanes == Control /\ Order /\ WithinLanes

LEMMA LanesHold == Spec => []InLanes
<1>1. Init => InLanes
  BY ControlInit, OutsideRuns DEF InLanes, Control, Init
<1>2. InLanes /\ [Next]_vars => InLanes'
  BY ControlStep, OrderStep DEF InLanes
<1>3. QED
  BY <1>1, <1>2, PTL DEF Spec

-----------------------------------------------------------------------------
(* Homes.  From here on, about plans as the planner drafts them. *)

\* What comes back from holding is what was there, if no other program wrote over it.
LEMMA BringsHome ==
  ASSUME InCustody, NEW h \in Held, MoveBack(h), outside' = outside,
         NEW p \in Path, Start[p] \in File, Home(p)
  PROVE  Home(p)'
<1>1. held[h].from \in Path /\ StaysHome(held[h]) /\ disk \in [Path -> Contents \cup {NoFile}]
  BY EntryTypes DEF InCustody, FilesOK, DiskOK, HeldOK, EntryOK
<1>2. disk' = [disk EXCEPT ![held[h].from] = held[h].file]
  BY DEF MoveBack
<1>3. QED
  BY <1>1, <1>2 DEF Home, StaysHome

\* A step's action takes no file from its home but its own, and that when it holds or moves it.
LEMMA StepsLeaveHomes ==
  ASSUME Planned, InCustody, NEW s \in Step, Apply(s) \/ Undo(s) \/ Back(s) \/ Mark(s),
         NEW p \in Path, Start[p] \in File, Home(p),
         From(s) = p => ~Hold(s) /\ ~Move(s)
  PROVE  Home(p)'
<1> USE DEF Home, From, To, elsewhere, durable, holdingVars
<1>1. /\ disk \in [Path -> Contents \cup {NoFile}] /\ StepOK(s)
      /\ Plan[s].from \in Path /\ Plan[s].to \in Path
      /\ NoFile \notin File
  BY PlanTypes, StartTypes DEF InCustody, FilesOK, DiskOK
<1>2. Plan[s].action # "hold" => Plan[s].to # p
  BY Apart, StartTypes
<1>3. CASE Hold(s) \/ Move(s)
  <2>1. Plan[s].from # p
    BY <1>3
  <2>2. Hold(s) => disk'[p] = disk[p] /\ outside' = outside
    BY <1>1, <1>2, <2>1, Apart DEF Hold, MoveToHolding
  <2>3. Move(s) => disk'[p] = disk[p] /\ outside' = outside
    BY <1>1, <1>2, <2>1 DEF Move, StepOK, Moves
  <2>4. QED
    BY <1>3, <2>2, <2>3
<1>4. CASE Place(s)
  BY <1>1, <1>2, <1>4 DEF Place, StepOK, Converts
<1>5. CASE Unhold(s)
  BY <1>1, <1>2, <1>5 DEF Unhold, StepOK, Converts, MoveToHolding
<1>6. CASE Return(s)
  <2>1. Plan[s].to # p /\ There(s)
    BY <1>1, <1>2, <1>6 DEF Return, StepOK, Moves
  <2>2. outside' = outside /\ (disk' = disk \/
          disk' = [disk EXCEPT ![Plan[s].to] = NoFile, ![Plan[s].from] = disk[Plan[s].to]])
    BY <1>6 DEF Return
  <2>3. QED
    BY <1>1, <2>1, <2>2 DEF There
<1>7. CASE Back(s)
  <2>1. CASE UNCHANGED <<disk, outside>>
    BY <2>1
  <2>2. CASE held[slot[s]].at = "holding" /\ MoveBack(slot[s]) /\ outside' = outside
    <3>1. PICK h \in Held : h = slot[s]
      BY <1>1, <1>7 DEF Back, StepOK
    <3>2. QED
      BY <2>2, <3>1, BringsHome
  <2>3. QED
    BY <1>7, <2>1, <2>2 DEF Back
<1>8. CASE UNCHANGED <<disk, outside>>
  BY <1>8
<1>9. QED
  BY <1>3, <1>4, <1>5, <1>6, <1>7, <1>8 DEF Apply, Undo, Check, Insert, DropRow, Relocate, Reserve,
     Encode, Recheck, Record, UndoCheck, UnholdInsert, Look, Repoint, RelocateBack, MarkUndone,
     UndoFailed, Mark

LEMMA OthersLeaveHomes ==
  ASSUME InCustody, NEW p \in Path, Start[p] \in File, Home(p),
         \/ StartApply \/ StartUndo \/ Stop \/ EndApply \/ EndUndo \/ Crash \/ Recover
         \/ Page \/ OtherPrograms \/ UNCHANGED vars
  PROVE  Home(p)'
<1> USE DEF Home
<1>1. disk \in [Path -> Contents \cup {NoFile}] /\ NoFile \notin File
  BY StartTypes DEF InCustody, FilesOK, DiskOK
<1>2. CASE OtherPrograms
  <2>1. PICK x \in Foreign, r \in Path : Write(x, r)
    BY <1>2 DEF OtherPrograms
  <2>2. disk' = [disk EXCEPT ![r] = x] /\ outside' = outside \cup ({disk[r]} \ {NoFile})
    BY <2>1 DEF Write
  <2>3. QED
    BY <1>1, <2>2
<1>3. CASE Page /\ RestoreMove
  <2>1. CASE UNCHANGED <<disk, outside>>
    BY <2>1
  <2>2. CASE held[page.id].at = "holding" /\ MoveBack(page.id) /\ outside' = outside
    <3>1. PICK h \in Held : h = page.id
      BY <1>3 DEF RestoreMove, InCustody, PageOK
    <3>2. QED
      BY <2>2, <3>1, BringsHome
  <2>3. QED
    BY <1>3, <2>1, <2>2 DEF RestoreMove
<1>4. CASE UNCHANGED <<disk, outside>>
  BY <1>4
<1>5. QED
  BY <1>2, <1>3, <1>4 DEF StartApply, StartUndo, Stop, EndApply, EndUndo, Crash, Recover, Page,
     PressRestore, PressEmpty, PageStep, RestoreMark, EndEmpty, TrashBatch, MarkEmptied,
     vars, holdingVars

-----------------------------------------------------------------------------
(* Temp files. *)

\* A temp file is of a conversion that has not placed it yet, or that a crash cut short and the
\* next launch will clear up.
TempsAccounted ==
    \A p \in Path : temp[p] # NoFile => \E s \in Step :
        /\ Converts(s) /\ To(s) = p
        /\ \/ run = "apply" /\ pc[s] \in {"recheck", "place"}
           \/ ~up /\ plan = "applying" /\ status[s] = "pending"

\* Only the action that places or drops a temp file takes its conversion on.
LEMMA TempsStep ==
  ASSUME Planned, Control, InCustody, TempsAccounted, NEW s \in Step, run = "apply",
         Apply(s) \/ Undo(s) \/ Back(s) \/ Mark(s)
  PROVE  TempsAccounted'
<1> USE DEF To
<1>1. /\ up /\ up' = up /\ run' = "apply" /\ pc[s] # "finished" /\ Advances(s)
      /\ temp \in [Path -> Contents \cup {NoFile}] /\ StepOK(s)
      /\ Plan[s].to \in Path
  <2>1. up' = up
    BY DEF Apply, Check, Hold, Insert, DropRow, Move, Relocate, Reserve, Encode, Recheck, Place,
       Record, Undo, UndoCheck, Unhold, UnholdInsert, Look, Repoint, Return, RelocateBack,
       MarkUndone, UndoFailed, Back, Mark, counts
  <2>2. QED
    BY <2>1, SameRun, AppliesAdvance, PlanTypes
       DEF Control, RunControl, InCustody, OwnTypes, Advances
<1>2. SUFFICES ASSUME NEW p \in Path, temp'[p] # NoFile
               PROVE  \E t \in Step : Converts(t) /\ Plan[t].to = p /\ pc'[t] \in {"recheck", "place"}
  BY <1>1 DEF TempsAccounted
<1>3. temp[p] # NoFile => \E t \in Step : /\ Converts(t) /\ Plan[t].to = p
                                          /\ pc[t] \in {"recheck", "place"}
  BY <1>1 DEF TempsAccounted
<1>4. CASE Encode(s)
  BY <1>1, <1>2, <1>3, <1>4 DEF Encode, DropTemp, Advances, Goes, Errs, Settles, Control,
     ControlTypes, StepOK
<1>5. CASE Recheck(s)
  <2>1. Converts(s) /\ ~InPlace(s)
    BY <1>1, <1>5, Apart DEF Recheck, StepOK, Converts
  <2>2. (temp' = temp /\ pc'[s] = "place") \/ temp' = [temp EXCEPT ![Plan[s].to] = NoFile]
    BY <1>1, <1>5, <2>1 DEF Recheck, DropTemp, Goes, Control, ControlTypes
  <2>3. QED
    BY <1>1, <1>2, <1>3, <2>2 DEF Advances
<1>6. CASE Place(s)
  <2>1. Converts(s) /\ ~InPlace(s)
    BY <1>1, <1>6, Apart DEF Place, StepOK, Converts
  <2>2. temp' = [temp EXCEPT ![Plan[s].to] = NoFile]
    BY <1>1, <1>6, <2>1 DEF Place, DropTemp
  <2>3. QED
    BY <1>1, <1>2, <1>3, <2>2 DEF Advances
<1>7. CASE ~Encode(s) /\ ~Recheck(s) /\ ~Place(s)
  <2>1. DropTemp(s) \/ temp' = temp
    BY <1>7 DEF Apply, Check, Hold, Insert, DropRow, Move, Relocate, Reserve,
       Record, Undo, UndoCheck, Unhold, UnholdInsert, Look, Repoint, Return, RelocateBack,
       MarkUndone, UndoFailed, Back, Mark, durable
  <2>2. pc[s] \notin {"recheck", "place"}
    BY <1>1, <1>7 DEF Apply, Check, MayStart, Hold, Insert, DropRow, Move, Relocate, Reserve,
       Record, Undo, UndoCheck, Unhold, UnholdInsert, Look, Repoint, Return, RelocateBack,
       MarkUndone, UndoFailed, Back, Mark, Undoing
  <2>3. temp[p] # NoFile
    BY <1>1, <1>2, <2>1 DEF DropTemp
  <2>4. QED
    BY <1>1, <1>3, <2>2, <2>3 DEF Advances
<1>8. QED
  BY <1>4, <1>5, <1>6, <1>7

LEMMA TempsAround ==
  ASSUME Control, TempsAccounted,
         \/ StartApply \/ StartUndo \/ Stop \/ EndApply \/ EndUndo \/ Crash \/ Recover
         \/ Page \/ OtherPrograms \/ UNCHANGED vars
  PROVE  TempsAccounted'
<1> USE DEF durable, volatile, counts, holdingVars
<1>1. CASE Stop \/ Page \/ OtherPrograms \/ UNCHANGED vars
  BY <1>1 DEF Stop, Page, OtherPrograms, vars, TempsAccounted
<1>2. CASE StartApply \/ StartUndo \/ EndApply \/ EndUndo
  <2>1. temp' = temp /\ \A p \in Path : temp[p] = NoFile
    BY <1>2 DEF StartApply, StartUndo, EndApply, EndUndo, TempsAccounted, InFlight, Control, RunControl
  <2>2. QED
    BY <2>1 DEF TempsAccounted
<1>3. CASE Crash
  <2>1. /\ temp' = temp /\ plan' = plan /\ status' = status /\ up' = FALSE /\ up
    BY <1>3 DEF Crash
  <2>2. \A s \in Step : run = "apply" /\ pc[s] \in {"recheck", "place"} =>
          plan = "applying" /\ status[s] = "pending"
    BY DEF Control, RunControl
  <2>3. QED
    BY <2>1, <2>2 DEF TempsAccounted
<1>4. CASE Recover
  <2>1. run = "idle" /\ ~up
    BY <1>4 DEF Recover, Control, ControlTypes, RunControl
  <2>2. CASE plan = "applying"
    BY <1>4, <2>1, <2>2 DEF Recover, TempsAccounted, Converts, To
  <2>3. CASE plan # "applying"
    BY <1>4, <2>1, <2>3 DEF Recover, TempsAccounted
  <2>4. QED
    BY <2>2, <2>3
<1>5. QED
  BY <1>1, <1>2, <1>3, <1>4

LEMMA TempsKept ==
  ASSUME Planned, Control, InCustody, TempsAccounted, [Next]_vars
  PROVE  TempsAccounted'
<1>1. ASSUME NEW s \in Step, Apply(s) \/ Undo(s) \/ Back(s) \/ Mark(s)
      PROVE  TempsAccounted'
  <2>1. CASE run = "apply"
    BY <1>1, <2>1, TempsStep
  <2>2. CASE run # "apply"
    <3>1. run = "undo" /\ up
      BY <1>1, <2>2 DEF Control, ControlTypes, RunControl, Apply, Check, MayStart, Hold, Insert,
         DropRow, Move, Relocate, Reserve, Encode, Recheck, Place, Record, Undo, UndoCheck, Unhold,
         UnholdInsert, Look, Repoint, Return, RelocateBack, MarkUndone, UndoFailed, Undoing, Back,
         Mark
    <3>2. temp' = temp
      BY <1>1, <3>1 DEF Apply, Check, MayStart, Hold, Insert,
         DropRow, Move, Relocate, Reserve, Encode, Recheck, Place, Record, Undo, UndoCheck, Unhold,
         UnholdInsert, Look, Repoint, Return, RelocateBack, MarkUndone, UndoFailed, Back, Mark,
         DropTemp, durable
    <3>3. QED
      BY <3>1, <3>2 DEF TempsAccounted
  <2>3. QED
    BY <2>1, <2>2
<1>2. QED
  BY <1>1, TempsAround DEF Next, Execute

-----------------------------------------------------------------------------
(* Strays. *)

\* A file in holding that no row tells of.
Stray(h) == held[h].at = "holding" /\ held[h].row = "none"

Inserting == {s \in Step : pc[s] \in {"insert", "unholdInsert"}}

\* The strays that no step is about to write the row of.
Abandoned == {h \in Held : Stray(h) /\ \A s \in Inserting : slot[s] # h}

FewAbandoned == Cardinality(Abandoned) <= crashes * Lanes

LEMMA StraysAreFew ==
  ASSUME InCustody
  PROVE  /\ \A S \in SUBSET Held : IsFiniteSet(S) /\ Cardinality(S) \in Nat
         /\ Abandoned \in SUBSET Held
<1>1. Held = 1..Len(held) /\ Len(held) \in Nat
  <2> HIDE DEF HeldFile
  <2>1. QED
    BY DEF InCustody, FilesOK, HeldOK, Held
<1>2. IsFiniteSet(Held)
  BY <1>1, FS_Interval
<1>3. QED
  BY <1>2, FS_Subset, FS_CardinalityType DEF Abandoned

\* What is moved to holding has its row to come.
LEMMA TakenIsInHand ==
  ASSUME InCustody, NEW s \in Step, NEW p \in Path, PathExists(p), MoveToHolding(p, batch),
         pc[s] \notin {"insert", "unholdInsert"}, pc'[s] \in {"insert", "unholdInsert"},
         slot'[s] = Len(held) + 1,
         \A t \in Step \ {s} : pc'[t] = pc[t] /\ slot'[t] = slot[t]
  PROVE  Abandoned' \subseteq Abandoned
<1>1. PICK e : e = [file |-> disk[p], from |-> p, batch |-> batch, at |-> "holding", row |-> "none"]
  OBVIOUS
<1>2. e \in HeldFile /\ held \in Seq(HeldFile) /\ held' = Append(held, e)
  BY <1>1 DEF InCustody, FilesOK, DiskOK, HeldOK, OwnTypes, HeldFile, PathExists, MoveToHolding
<1>3. Held' = Held \cup {Len(held) + 1} /\ \A h \in Held : held'[h] = held[h]
  BY <1>2, Appended
<1>4. QED
  BY <1>3 DEF Abandoned, Inserting, Stray

\* Nothing becomes a stray that was none, and no step lets go of one.
LEMMA NoneAbandoned ==
  ASSUME Held' = Held, \A h \in Held : Stray(h)' => Stray(h),
         \A s \in Inserting : \/ s \in Inserting' /\ slot'[s] = slot[s]
                              \/ \A h \in Held : slot[s] = h => ~Stray(h)'
  PROVE  Abandoned' \subseteq Abandoned
BY DEF Abandoned

\* What the page does to the held files: it trashes a batch, strikes the rows of one that went, or
\* sees to one file.
TrashedOf(b) == [h \in Held |-> IF held[h].batch = b /\ held[h].at = "holding"
                                THEN [held[h] EXCEPT !.at = "trash"] ELSE held[h]]
EmptiedOf(b) == [h \in Held |-> IF held[h].batch = b /\ held[h].row = "held"
                                THEN [held[h] EXCEPT !.row = "emptied"] ELSE held[h]]

LEMMA PageHeld ==
  ASSUME Page
  PROVE  \/ held' = held
         \/ \E b : held' = TrashedOf(b)
         \/ \E b : held' = EmptiedOf(b)
         \/ \E h : MoveBack(h) \/ MarkRestored(h)
<1>1. CASE (\E h \in Held : PressRestore(h)) \/ PressEmpty \/ EndEmpty
  BY <1>1 DEF PressRestore, PressEmpty, EndEmpty
<1>2. CASE RestoreMove \/ RestoreMark
  BY <1>2 DEF RestoreMove, RestoreMark
<1>3. ASSUME NEW b \in page.batches, TrashBatch(b)
      PROVE  held' = held \/ held' = TrashedOf(b)
  BY <1>3 DEF TrashBatch, TrashedOf
<1>4. ASSUME NEW b \in page.trashed, MarkEmptied(b)
      PROVE  held' = EmptiedOf(b)
  BY <1>4 DEF MarkEmptied, EmptiedOf
<1>5. CASE PageStep
  BY <1>2, <1>3, <1>4, <1>5, <1>1 DEF PageStep
<1>6. QED
  BY <1>1, <1>5 DEF Page

\* A row that is written, or a file that goes back.
LEMMA Changed ==
  ASSUME InCustody, NEW h, \/ \E r \in {"held", "restored"} : held' = [held EXCEPT ![h].row = r]
                           \/ held' = [held EXCEPT ![h].at = "back"]
  PROVE  Held' = Held /\ \A k \in Held : (Stray(k)' => Stray(k)) /\ (k = h => ~Stray(k)')
<1>1. held \in [Held -> HeldFile]
  BY Entries DEF InCustody, FilesOK, HeldOK, Held
<1>2. QED
  BY <1>1 DEF Held, Stray, HeldFile

LEMMA StepsAbandonNone ==
  ASSUME Planned, Control, InCustody, NEW s \in Step, Apply(s) \/ Undo(s) \/ Back(s) \/ Mark(s)
  PROVE  Abandoned' \subseteq Abandoned
<1> USE DEF durable, volatile, counts, holdingVars, elsewhere
<1>1. /\ \A t \in Step \ {s} : pc'[t] = pc[t] /\ slot'[t] = slot[t]
      /\ pc \in [Step -> PCs] /\ slot \in [Step -> Held \cup {0}]
      /\ Plan[s].from \in Path /\ Plan[s].to \in Path
  BY PlanTypes DEF From, To, Control, ControlTypes, InCustody, HandTypes, Goes, Errs, Settles,
     Apply, Check, Hold, Insert, DropRow, Move, Relocate, Reserve, Encode, Recheck, Place, Record,
     Undo, UndoCheck, Unhold, UnholdInsert, Look, Repoint, Return, RelocateBack, MarkUndone,
     UndoFailed, Back, Mark
<1>2. CASE Insert(s) \/ UnholdInsert(s)
  <2>1. held' = [held EXCEPT ![slot[s]].row = "held"]
    BY <1>2 DEF Insert, UnholdInsert, InsertRow
  <2>2. Held' = Held /\ \A k \in Held : (Stray(k)' => Stray(k)) /\ (k = slot[s] => ~Stray(k)')
    BY <2>1, Changed
  <2>3. QED
    BY <1>1, <2>2, NoneAbandoned DEF Inserting
<1>3. ASSUME pc[s] \notin {"insert", "unholdInsert"}, Held' = Held,
             \A h \in Held : Stray(h)' => Stray(h)
      PROVE  Abandoned' \subseteq Abandoned
  BY <1>1, <1>3, NoneAbandoned DEF Inserting
<1>4. CASE Hold(s)
  <2>1. CASE held' = held
    BY <1>3, <1>4, <2>1 DEF Hold, Held, Stray
  <2>2. CASE /\ PathExists(Plan[s].from) /\ MoveToHolding(Plan[s].from, batch)
             /\ slot' = [slot EXCEPT ![s] = Len(held) + 1] /\ Goes(s, "insert")
    BY <1>1, <1>4, <2>2, TakenIsInHand DEF Hold, Goes
  <2>3. QED
    BY <1>4, <2>1, <2>2 DEF Hold
<1>5. CASE Unhold(s)
  <2>1. CASE held' = held
    BY <1>3, <1>5, <2>1 DEF Unhold, Held, Stray
  <2>2. CASE /\ PathExists(Plan[s].to) /\ MoveToHolding(Plan[s].to, batch)
             /\ slot' = [slot EXCEPT ![s] = Len(held) + 1] /\ Goes(s, "unholdInsert")
    BY <1>1, <1>5, <2>2, TakenIsInHand DEF Unhold, Goes
  <2>3. QED
    BY <1>5, <2>1, <2>2 DEF Unhold
<1>6. CASE Back(s) \/ Mark(s)
  <2>1. CASE held' = held
    BY <1>3, <1>6, <2>1 DEF Back, Mark, Held, Stray
  <2>2. CASE held' # held
    BY <1>3, <1>6, <2>2, Changed DEF Back, Mark, MoveBack, MarkRestored
  <2>3. QED
    BY <2>1, <2>2
<1>7. CASE Check(s) \/ DropRow(s) \/ Move(s) \/ Relocate(s) \/ Reserve(s) \/ Encode(s) \/ Recheck(s)
           \/ Place(s) \/ Record(s)
  <2>1. held' = held /\ pc[s] \notin {"insert", "unholdInsert"}
    BY <1>7 DEF Check, MayStart, DropRow, Move, Relocate, Reserve, Encode, Recheck, Place, Record
  <2>2. QED
    BY <1>3, <2>1 DEF Held, Stray
<1>8. CASE UndoCheck(s) \/ Look(s) \/ Repoint(s) \/ Return(s) \/ RelocateBack(s) \/ MarkUndone(s)
           \/ UndoFailed(s)
  <2>1. held' = held /\ pc[s] \notin {"insert", "unholdInsert"}
    BY <1>8 DEF UndoCheck, Look, Repoint, Return, RelocateBack, MarkUndone, UndoFailed
  <2>2. QED
    BY <1>3, <2>1 DEF Held, Stray
<1>9. QED
  BY <1>2, <1>4, <1>5, <1>6, <1>7, <1>8 DEF Apply, Undo

LEMMA OthersAbandonNone ==
  ASSUME Control, InCustody,
         \/ StartApply \/ StartUndo \/ Stop \/ EndApply \/ EndUndo \/ Recover
         \/ Page \/ OtherPrograms \/ UNCHANGED vars
  PROVE  Abandoned' \subseteq Abandoned
<1> USE DEF durable, volatile, counts, holdingVars
<1>1. held \in [Held -> HeldFile]
  BY Entries DEF InCustody, FilesOK, HeldOK, Held
<1>2. CASE StartApply \/ StartUndo \/ EndApply
  <2>1. Inserting = {} /\ held' = held
    BY <1>2 DEF StartApply, StartUndo, EndApply, Inserting, InFlight, Control, RunControl
  <2>2. QED
    BY <2>1, NoneAbandoned DEF Held, Stray
<1>3. CASE Stop \/ EndUndo \/ Recover \/ OtherPrograms \/ UNCHANGED vars
  <2>1. UNCHANGED <<held, pc, slot>>
    BY <1>3 DEF Stop, EndUndo, Recover, OtherPrograms, Write, vars
  <2>2. QED
    BY <2>1 DEF Abandoned, Inserting, Held, Stray
<1>4. CASE Page
  <2>1. UNCHANGED <<pc, slot>>
    BY <1>4 DEF Page
  <2>2. Held' = Held /\ \A h \in Held : Stray(h)' => Stray(h)
    <3>1. CASE held' = held
      BY <3>1 DEF Held, Stray
    <3>2. ASSUME NEW b, held' = TrashedOf(b) \/ held' = EmptiedOf(b)
          PROVE  Held' = Held /\ \A h \in Held : Stray(h)' => Stray(h)
      <4>1. Held' = Held
        BY <3>2 DEF Held, TrashedOf, EmptiedOf
      <4>2. ASSUME NEW h \in Held, Stray(h)' PROVE Stray(h)
        <5>1. held'[h].at = "holding" => held[h].at = "holding"
          BY <1>1, <3>2 DEF TrashedOf, EmptiedOf, HeldFile
        <5>2. held'[h].row = "none" => held[h].row = "none"
          BY <1>1, <3>2 DEF TrashedOf, EmptiedOf, HeldFile
        <5>3. QED
          BY <4>2, <5>1, <5>2 DEF Stray
      <4>3. QED
        BY <4>1, <4>2
    <3>3. CASE \E h : MoveBack(h) \/ MarkRestored(h)
      BY <3>3, Changed DEF MoveBack, MarkRestored
    <3>4. QED
      BY <1>4, <3>1, <3>2, <3>3, PageHeld
  <2>3. QED
    BY <2>1, <2>2, NoneAbandoned DEF Inserting
<1>5. QED
  BY <1>2, <1>3, <1>4

\* A crash lets go of what the steps in flight have in hand, of which there are Lanes at most.
LEMMA CrashAbandonsFew ==
  ASSUME InCustody, WithinLanes, Crash
  PROVE  Abandoned' \subseteq Held /\ Cardinality(Abandoned') <= Cardinality(Abandoned) + Lanes
<1> DEFINE Hands == {slot[s] : s \in Inserting}
<1>1. IsFiniteSet(Inserting) /\ Cardinality(Inserting) <= Lanes /\ Cardinality(Inserting) \in Nat
  <2>1. Inserting \in SUBSET InFlight /\ IsFiniteSet(InFlight) /\ Inserting \in SUBSET Step
    BY StepsAreFew DEF Inserting, InFlight
  <2>2. Cardinality(Inserting) <= Cardinality(InFlight)
    BY <2>1, FS_Subset
  <2>3. Cardinality(InFlight) \in Nat /\ Cardinality(Inserting) \in Nat /\ IsFiniteSet(Inserting)
    BY <2>1, StepsAreFew
  <2>4. QED
    BY <2>2, <2>3, StepsAreFew DEF WithinLanes
<1>2. IsFiniteSet(Hands) /\ Cardinality(Hands) <= Cardinality(Inserting) /\ Cardinality(Hands) \in Nat
  <2>1. [s \in Inserting |-> slot[s]] \in Surjection(Inserting, Hands)
    BY DEF Surjection
  <2>2. QED
    BY <1>1, <2>1, FS_Surjection, FS_CardinalityType
<1>3. IsFiniteSet(Abandoned) /\ Cardinality(Abandoned) \in Nat
  BY StraysAreFew
<1>4. Abandoned' \in SUBSET (Abandoned \cup Hands) /\ Abandoned' \subseteq Held
  <2>1. held' = held
    BY DEF Crash
  <2>2. QED
    BY <2>1 DEF Abandoned, Held, Stray
<1>5. Cardinality(Abandoned \cup Hands) <= Cardinality(Abandoned) + Cardinality(Hands)
      /\ IsFiniteSet(Abandoned \cup Hands) /\ Cardinality(Abandoned \cup Hands) \in Nat
  <2>1. Cardinality(Abandoned \cup Hands)
          = Cardinality(Abandoned) + Cardinality(Hands) - Cardinality(Abandoned \cap Hands)
    BY <1>2, <1>3, FS_Union
  <2>2. Cardinality(Abandoned \cap Hands) \in Nat
    BY <1>3, FS_Intersection, FS_CardinalityType
  <2>3. IsFiniteSet(Abandoned \cup Hands)
    BY <1>2, <1>3, FS_Union
  <2>4. QED
    BY <1>2, <1>3, <2>1, <2>2, <2>3, FS_CardinalityType
<1>6. Cardinality(Abandoned') <= Cardinality(Abandoned \cup Hands) /\ Cardinality(Abandoned') \in Nat
  BY <1>4, <1>5, FS_Subset, FS_CardinalityType
<1>7. QED
  BY <1>1, <1>2, <1>3, <1>4, <1>5, <1>6, StepsAreFew

StraysKept == crashes \in Nat /\ FewAbandoned

LEMMA StraysStep ==
  ASSUME Planned, Control, InCustody, WithinLanes, StraysKept, [Next]_vars
  PROVE  StraysKept'
<1>1. Cardinality(Abandoned) \in Nat /\ IsFiniteSet(Abandoned) /\ Lanes \in Nat
  BY StraysAreFew, StepsAreFew
<1>2. CASE Crash
  <2>1. crashes' = crashes + 1
    BY <1>2 DEF Crash
  <2>2. Cardinality(Abandoned') \in Nat
    <3>1. Abandoned' \subseteq Held
      BY <1>2, CrashAbandonsFew
    <3>2. QED
      BY <3>1, StraysAreFew
  <2>3. Cardinality(Abandoned') <= Cardinality(Abandoned) + Lanes
    BY <1>2, CrashAbandonsFew
  <2>4. Cardinality(Abandoned') <= crashes * Lanes + Lanes /\ crashes * Lanes \in Nat
    BY <1>1, <2>2, <2>3 DEF StraysKept, FewAbandoned
  <2>5. (crashes + 1) * Lanes = crashes * Lanes + Lanes
    BY <1>1 DEF StraysKept
  <2>6. QED
    BY <2>1, <2>4, <2>5 DEF StraysKept, FewAbandoned
<1>3. ASSUME Abandoned' \subseteq Abandoned, crashes' = crashes
      PROVE  StraysKept'
  <2>1. Cardinality(Abandoned') <= Cardinality(Abandoned) /\ Cardinality(Abandoned') \in Nat
    <3>1. Abandoned' \in SUBSET Abandoned
      BY <1>3
    <3>2. QED
      BY <1>1, <3>1, FS_Subset, FS_CardinalityType
  <2>2. crashes * Lanes \in Nat
    BY <1>1 DEF StraysKept
  <2>3. QED
    BY <1>1, <1>3, <2>1, <2>2 DEF StraysKept, FewAbandoned
<1>4. ASSUME NEW s \in Step, Apply(s) \/ Undo(s) \/ Back(s) \/ Mark(s)
      PROVE  StraysKept'
  <2>1. crashes' = crashes
    BY <1>4 DEF Apply, Check, Hold, Insert, DropRow, Move, Relocate, Reserve, Encode, Recheck, Place,
       Record, Undo, UndoCheck, Unhold, UnholdInsert, Look, Repoint, Return, RelocateBack,
       MarkUndone, UndoFailed, Back, Mark, counts
  <2>2. QED
    BY <1>3, <1>4, <2>1, StepsAbandonNone
<1>5. CASE \/ StartApply \/ StartUndo \/ Stop \/ EndApply \/ EndUndo \/ Recover
           \/ Page \/ OtherPrograms \/ UNCHANGED vars
  <2>1. crashes' = crashes
    BY <1>5 DEF StartApply, StartUndo, Stop, EndApply, EndUndo, Recover, Page, OtherPrograms, vars,
       counts
  <2>2. QED
    BY <1>3, <1>5, <2>1, OthersAbandonNone
<1>6. QED
  BY <1>2, <1>4, <1>5 DEF Next, Execute

(***************************************************************************)
(* Once nothing runs there is nothing stray (NoStraysLeft): no temp file,  *)
(* after a crash too (recover_interrupted_plans), and no more files in     *)
(* holding without a row than the lanes of each crash, for every plan, any *)
(* number of lanes and of crashes.                                         *)
(***************************************************************************)
THEOREM NothingStrayIsLeft ==
  ASSUME Planned
  PROVE  Spec => []NoStraysLeft
<1>1. Init => TempsAccounted /\ StraysKept
  <2> SUFFICES ASSUME Init PROVE TempsAccounted /\ StraysKept
    OBVIOUS
  <2>1. Abandoned = {} /\ crashes = 0
    BY DEF Init, HoldingInit, Abandoned, Held
  <2>2. Cardinality(Abandoned) = 0
    BY <2>1, FS_EmptySet
  <2>3. QED
    BY <2>1, <2>2, StepsAreFew DEF Init, TempsAccounted, StraysKept, FewAbandoned
<1>2. Control /\ InCustody /\ InLanes /\ TempsAccounted /\ StraysKept /\ [Next]_vars
        => (TempsAccounted /\ StraysKept)'
  BY TempsKept, StraysStep DEF InLanes
<1>3. Control /\ TempsAccounted /\ StraysKept => NoStraysLeft
  <2> SUFFICES ASSUME Control, TempsAccounted, StraysKept, Rests PROVE NoStraysLeft
    BY DEF NoStraysLeft
  <2>1. \A p \in Path : temp[p] = NoFile
    BY DEF TempsAccounted, Rests
  <2>2. Abandoned = {h \in Held : held[h].at = "holding" /\ held[h].row = "none"}
    BY DEF Rests, Control, RunControl, Abandoned, Inserting, Stray
  <2>3. QED
    BY <2>1, <2>2 DEF StraysKept, FewAbandoned, NoStraysLeft
<1>4. QED
  BY <1>1, <1>2, <1>3, CustodyHolds, LanesHold, PTL DEF Spec

-----------------------------------------------------------------------------
(* Keepers. *)

\* The set of duplicates that a step resolves, as far as the step knows it.
Group(s) == Plan[s].keepers \cup {From(s)}

\* A step that takes a file of a set is a hold that looks at another file of the set first.  The
\* planner drafts no step at all for a file that some set keeps (draft_resolution), and one hold
\* for each of the others; this also lets the steps of two sets go in favour of each other.
KeepersAgree ==
    \A q \in Step : Plan[q].keepers # {} =>
        /\ \A p \in Plan[q].keepers : Start[p] # NoFile
        /\ \A s \in Step : From(s) \in Group(q) =>
             /\ Plan[s].action = "hold" /\ From(s) \notin Plan[s].keepers
             /\ Plan[s].keepers \cap Group(q) # {}

\* A step that is about to hold its file has found its keepers, and nothing took them since.
Ready(s) == run = "apply" /\ pc[s] = "hold" /\ Plan[s].action = "hold" =>
                \A p \in Plan[s].keepers : Home(p)

Copies == \A s \in Step : Plan[s].keepers # {} => \E p \in Group(s) : Home(p)

KeepersKept == /\ \A s \in Step : Ready(s)
               /\ Copies

LEMMA GroupTypes ==
  ASSUME KeepersAgree, NEW q \in Step, Plan[q].keepers # {}
  PROVE  \A p \in Group(q) : p \in Path /\ Start[p] \in File
<1>1. Plan[q] \in [action : Actions, from : Path, to : Path, file : File,
                   keepers : SUBSET Path, bytes : Nat \ {0}]
  <2> DEFINE R == [action : Actions, from : Path, to : Path, file : File,
                   keepers : SUBSET Path, bytes : Nat \ {0}]
  <2>1. Plan \in Seq(R) /\ q \in DOMAIN Plan
    BY ExecutorAssumption DEF Step
  <2> HIDE DEF R
  <2>2. Plan[q] \in R
    BY <2>1
  <2>3. QED
    BY <2>2 DEF R
<1>2. \A p \in Plan[q].keepers : p \in Path /\ Start[p] \in File
  BY <1>1, StartTypes DEF KeepersAgree
<1>3. QED
  BY <1>2, PlanTypes DEF Group

\* While a hold runs, no other step does.
LEMMA RunsAlone ==
  ASSUME Order, NEW s \in Step, Advances(s), NEW t \in Others, pc[t] \notin {"waiting", "finished"}
  PROVE  s = t
<1>1. s \in Others /\ ~(s < t)
  BY DEF Order, Advances, Others
<1>2. t < s => pc[s] # "waiting" /\ pc[s] = "waiting"
  BY <1>1 DEF Order, Advances, MayStart, Others
<1>3. QED
  BY <1>1, <1>2, StepsAreNumbers DEF Others

\* A hold comes to its move from its look at the keepers.
LEMMA LooksFirst ==
  ASSUME Control, InCustody, NEW s \in Step, Plan[s].action = "hold", run = "apply",
         Apply(s) \/ Undo(s) \/ Back(s) \/ Mark(s), pc'[s] = "hold", pc[s] # "hold"
  PROVE  Check(s)
<1> USE DEF Goes, Errs, Settles, Control, ControlTypes
<1>1. StepOK(s) /\ ~Converts(s)
  BY DEF InCustody, Converts
<1>2. ~Undo(s) /\ ~Back(s) /\ ~Mark(s)
  BY <1>1 DEF Undo, UndoCheck, Unhold, UnholdInsert, Look, Repoint, Return, RelocateBack, MarkUndone,
     UndoFailed, Undoing, Back, Mark
<1>3. QED
  BY <1>1, <1>2 DEF StepOK, Apply, Hold, Insert, DropRow, Move, Relocate, Reserve, Encode, Recheck,
     Place, Record

LEMMA KeepersInit ==
  ASSUME KeepersAgree, Init
  PROVE  KeepersKept
BY PlanTypes DEF KeepersKept, Ready, Copies, Group, Home, Init, HoldingInit

\* A step that takes nothing leaves the copies.
LEMMA CopiesStay ==
  ASSUME KeepersAgree, Copies, \A p \in Path : Start[p] \in File /\ Home(p) => Home(p)'
  PROVE  Copies'
BY GroupTypes DEF Copies, Group

\* A hold leaves the keepers it looked at, one of them in each set its file is of.
LEMMA HoldLeavesACopy ==
  ASSUME Planned, KeepersAgree, InCustody, KeepersKept, NEW s \in Step, Hold(s) \/ Move(s)
  PROVE  Copies'
<1> SUFFICES ASSUME NEW q \in Step, Plan[q].keepers # {}
             PROVE  \E p \in Group(q) : Home(p)'
  BY DEF Copies, Group
<1>1. \A p \in Path \ {From(s)} : Start[p] \in File /\ Home(p) => Home(p)'
  BY StepsLeaveHomes DEF Apply
<1>2. CASE From(s) \notin Group(q)
  BY <1>1, <1>2, GroupTypes DEF KeepersKept, Copies
<1>3. CASE From(s) \in Group(q)
  <2>1. /\ Plan[s].action = "hold" /\ From(s) \notin Plan[s].keepers
        /\ \E p \in Plan[s].keepers : p \in Group(q)
    BY <1>3 DEF KeepersAgree
  <2>2. ~Move(s)
    BY <2>1 DEF Move, InCustody, StepOK, Moves
  <2>3. \A p \in Plan[s].keepers : Home(p)
    BY <2>1, <2>2 DEF Hold, KeepersKept, Ready
  <2>4. QED
    BY <1>1, <2>1, <2>3, GroupTypes
<1>4. QED
  BY <1>2, <1>3

\* What a hold found when it looked stays until it moves its file.
LEMMA ReadyStays ==
  ASSUME Planned, KeepersAgree, Control, InCustody, Order, KeepersKept, NEW s \in Step,
         Apply(s) \/ Undo(s) \/ Back(s) \/ Mark(s), NEW t \in Step
  PROVE  Ready(t)'
<1> SUFFICES ASSUME run' = "apply", pc'[t] = "hold", Plan[t].action = "hold",
                    NEW p \in Plan[t].keepers
             PROVE  Home(p)'
  BY DEF Ready
<1>1. run = "apply" /\ Advances(s)
  BY SameRun, AppliesAdvance
<1>2. p \in Path /\ Start[p] \in File
  BY GroupTypes DEF Group
<1>3. t \in Others
  BY DEF Others, Stills
<1>4. CASE pc[t] = "hold"
  <2>1. s = t
    BY <1>1, <1>3, <1>4, RunsAlone
  <2>2. ~Hold(s) /\ ~Move(s)
    <3>1. Hold(s) => pc'[s] # "hold"
      BY DEF Hold, Goes, Errs, Settles, Control, ControlTypes
    <3>2. QED
      BY <1>4, <2>1, <3>1 DEF Move
  <2>3. Home(p)
    BY <1>1, <1>4 DEF KeepersKept, Ready
  <2>4. QED
    BY <1>2, <2>2, <2>3, StepsLeaveHomes
<1>5. CASE pc[t] # "hold"
  <2>1. s = t
    BY <1>1, <1>5 DEF Advances
  <2>2. Check(s)
    BY <1>1, <1>5, <2>1, LooksFirst
  <2>3. disk[p] = Start[p] /\ disk' = disk
    BY <2>1, <2>2 DEF Check, KeepersUnchanged, Goes, Errs, Settles, Control, ControlTypes, holdingVars
  <2>4. QED
    BY <2>3 DEF Home
<1>6. QED
  BY <1>4, <1>5

LEMMA KeepersStep ==
  ASSUME Planned, KeepersAgree, Control, InCustody, Order, KeepersKept, [Next]_vars
  PROVE  KeepersKept'
<1>1. ASSUME NEW s \in Step, Apply(s) \/ Undo(s) \/ Back(s) \/ Mark(s)
      PROVE  KeepersKept'
  <2>1. \A t \in Step : Ready(t)'
    BY <1>1, ReadyStays
  <2>2. CASE Hold(s) \/ Move(s)
    BY <2>1, <2>2, HoldLeavesACopy DEF KeepersKept
  <2>3. CASE ~Hold(s) /\ ~Move(s)
    BY <1>1, <2>1, <2>3, StepsLeaveHomes, CopiesStay DEF KeepersKept
  <2>4. QED
    BY <2>2, <2>3
<1>2. CASE \/ StartApply \/ StartUndo \/ Stop \/ EndApply \/ EndUndo \/ Crash \/ Recover
           \/ Page \/ OtherPrograms \/ UNCHANGED vars
  <2>1. \A p \in Path : Start[p] \in File /\ Home(p) => Home(p)'
    BY <1>2, OthersLeaveHomes
  <2>2. \A t \in Step : run' = "apply" /\ pc'[t] = "hold" => run = "apply" /\ pc[t] = "hold"
    BY <1>2, BesideRuns DEF StartApply
  <2>3. \A t \in Step : Ready(t)'
    BY <2>1, <2>2, GroupTypes DEF KeepersKept, Ready, Group
  <2>4. QED
    BY <2>1, <2>3, CopiesStay DEF KeepersKept
<1>3. QED
  BY <1>1, <1>2 DEF Next, Execute

(***************************************************************************)
(* A plan that resolves duplicates leaves a copy of each (ACopyStays),     *)
(* whatever the plan as long as every hold looks at another file of the    *)
(* sets its own file is of (check_keepers): also when two of its steps go  *)
(* each in favour of the other, the plan is undone and its files are       *)
(* restored, and Tidy crashes in between.                                  *)
(***************************************************************************)
THEOREM ACopyIsKept ==
  ASSUME Planned, KeepersAgree
  PROVE  Spec => []ACopyStays
<1>1. Init => KeepersKept
  BY KeepersInit
<1>2. Control /\ InCustody /\ InLanes /\ KeepersKept /\ [Next]_vars => KeepersKept'
  BY KeepersStep DEF InLanes
<1>3. KeepersKept => ACopyStays
  BY DEF KeepersKept, Copies, ACopyStays, Group, From, Home
<1>4. QED
  BY <1>1, <1>2, <1>3, CustodyHolds, LanesHold, PTL DEF Spec
=============================================================================
