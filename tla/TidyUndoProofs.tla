--------------------------- MODULE TidyUndoProofs ---------------------------
(***************************************************************************)
(* What a change of Tidy's leaves in the root: a step that was not done    *)
(* leaves its file as it found it, and a step that was done can be undone. *)
(***************************************************************************)
EXTENDS TidyLanesProofs

-----------------------------------------------------------------------------
(* What an encoder makes: where it can be. *)

\* What an encoder makes is none of the files other programs bring, and is something.
MadeIsApart == \A c : Made(c) \notin Foreign \cup {NoFile}

\* A conversion's result is at its target or in the temp file beside it, and once the step was
\* done in holding, from its target.
MadeOnly ==
    \A s \in Step :
        /\ \A p \in Path : Made(Plan[s].file) \in {disk[p], temp[p]} => Converts(s) /\ p = To(s)
        /\ \A h \in Held : held[h].file = Made(Plan[s].file) =>
             Converts(s) /\ held[h].from = To(s) /\ status[s] \in {"done", "undone"}


\* What a step's action leaves to the others.
LEMMA Neighbours ==
  ASSUME Control, InCustody, NEW q \in Step, Apply(q) \/ Undo(q) \/ Back(q) \/ Mark(q)
  PROVE  /\ \A s \in Step \ {q} :
              /\ pc'[s] = pc[s] /\ slot'[s] = slot[s] /\ heldBy'[s] = heldBy[s]
              /\ status'[s] = status[s] /\ outcome'[s] = outcome[s]
         /\ run' = run /\ plan' = plan /\ crashes' = crashes
         /\ page' = page /\ presses' = presses /\ outside' = outside
<1> USE DEF durable, volatile, counts, holdingVars, elsewhere
<1>1. /\ pc \in [Step -> PCs] /\ slot \in [Step -> Held \cup {0}] /\ heldBy \in [Step -> Held \cup {0}]
      /\ status \in [Step -> Statuses] /\ outcome \in [Step -> {"pending"} \cup Outcomes]
  BY DEF Control, ControlTypes, InCustody, HandTypes
<1>2. CASE Apply(q)
  BY <1>1, <1>2 DEF Goes, Errs, Settles, Apply, Check, Hold, Insert, DropRow, Move, Relocate, Reserve,
     Encode, Recheck, Place, Record
<1>3. CASE Undo(q)
  BY <1>1, <1>3 DEF Goes, Undo, UndoCheck, Unhold, UnholdInsert, Look, Repoint, Return, RelocateBack,
     MarkUndone, UndoFailed
<1>4. CASE Back(q) \/ Mark(q)
  BY <1>1, <1>4 DEF Goes, Errs, Settles, Back, Mark
<1>5. QED
  BY <1>2, <1>3, <1>4

\* A step that is done stays done or is undone.
LEMMA DoneStays ==
  ASSUME Control, [Next]_vars, NEW s \in Step, status[s] \in {"done", "undone"}
  PROVE  status'[s] \in {"done", "undone"}
<1>1. CASE status' = status
  BY <1>1
<1>2. ASSUME NEW q \in Step, Record(q)
      PROVE  status'[s] \in {"done", "undone"}
  BY <1>2 DEF Record, Control, ControlTypes, RunControl
<1>3. ASSUME NEW q \in Step, MarkUndone(q)
      PROVE  status'[s] \in {"done", "undone"}
  BY <1>3 DEF MarkUndone, Control, ControlTypes
<1>4. ASSUME NEW q \in Step, Apply(q), ~Record(q)
      PROVE  status' = status
  BY <1>4 DEF durable, Apply, Check, Hold, Insert, DropRow, Move, Relocate, Reserve, Encode, Recheck,
     Place
<1>5. ASSUME NEW q \in Step, Undo(q), ~MarkUndone(q)
      PROVE  status' = status
  BY <1>5 DEF durable, Undo, UndoCheck, Unhold, UnholdInsert, Look, Repoint, Return, RelocateBack,
     UndoFailed
<1>6. ASSUME NEW q \in Step, Back(q) \/ Mark(q)
      PROVE  status' = status
  BY <1>6 DEF durable, Back, Mark
<1>7. CASE \/ StartApply \/ StartUndo \/ Stop \/ EndApply \/ EndUndo \/ Crash \/ Recover
           \/ Page \/ OtherPrograms \/ UNCHANGED vars
  BY <1>7 DEF vars, durable, StartApply, StartUndo, Stop, EndApply, EndUndo, Crash, Recover, Page,
     OtherPrograms
<1>8. QED
  BY <1>1, <1>2, <1>3, <1>4, <1>5, <1>6, <1>7 DEF Next, Execute

\* No result is at the source of a step, or in holding from there; nor where a step moves to.
LEMMA NotAtSources ==
  ASSUME Planned, MadeOnly, NEW s \in Step, NEW q \in Step
  PROVE  /\ disk[From(q)] # Made(Plan[s].file)
         /\ Moves(q) => disk[To(q)] # Made(Plan[s].file)
         /\ \A h \in Held : held[h].from = From(q) => held[h].file # Made(Plan[s].file)
         /\ Converts(q) /\ Converts(s) /\ To(q) = To(s) => q = s
<1>1. Converts(s) => To(s) # From(q) /\ (Moves(q) => To(q) # To(s))
  BY Apart DEF Converts
<1>2. From(q) \in Path /\ To(q) \in Path
  BY PlanTypes
<1>3. Converts(q) /\ Converts(s) /\ To(q) = To(s) => q = s
  BY DEF Planned, FreeTargets, Converts, To
<1>4. QED
  BY <1>1, <1>2, <1>3 DEF MadeOnly

\* Only placing its temp file puts a step's result in the root.
LEMMA MadeDisk ==
  ASSUME Planned, MadeIsApart, Control, InCustody, MadeOnly, NEW q \in Step,
         Apply(q) \/ Undo(q) \/ Back(q) \/ Mark(q), NEW s \in Step, NEW p \in Path,
         disk'[p] = Made(Plan[s].file), disk[p] # Made(Plan[s].file)
  PROVE  Place(s) /\ pc'[s] = "hold" /\ Converts(s) /\ p = To(s)
<1> DEFINE m == Made(Plan[s].file)
<1> USE DEF durable, volatile, counts, holdingVars, elsewhere
<1>1. /\ disk \in [Path -> Contents \cup {NoFile}] /\ StepOK(q) /\ From(q) \in Path /\ To(q) \in Path
      /\ m # NoFile /\ pc \in [Step -> PCs]
  BY PlanTypes DEF InCustody, FilesOK, DiskOK, MadeIsApart, Control, ControlTypes
<1>2. /\ disk[From(q)] # m /\ (Moves(q) => disk[To(q)] # m)
      /\ \A h \in Held : held[h].from = From(q) => held[h].file # m
      /\ Converts(q) /\ Converts(s) /\ To(q) = To(s) => q = s
  BY NotAtSources
<1> HIDE DEF m
<1>3. disk'[p] = m /\ disk[p] # m
  BY DEF m
<1>4. ~Hold(q)
  BY <1>1, <1>3 DEF Hold, MoveToHolding, From, To
<1>5. ~Move(q)
  BY <1>1, <1>2, <1>3 DEF Move, From, To
<1>6. ~Unhold(q)
  BY <1>1, <1>3 DEF Unhold, MoveToHolding, From, To
<1>7. ~Return(q)
  BY <1>1, <1>2, <1>3 DEF Return, StepOK, From, To
<1>8. ~Back(q)
  <2> SUFFICES ASSUME Back(q) PROVE FALSE
    OBVIOUS
  <2>1. slot[q] \in Held /\ held[slot[q]].from = From(q)
    BY <1>1 DEF Back, StepOK
  <2>2. MoveBack(slot[q])
    BY <1>3 DEF Back
  <2>3. disk' = [disk EXCEPT ![From(q)] = held[slot[q]].file]
    BY <2>1, <2>2 DEF MoveBack
  <2>4. QED
    BY <1>1, <1>2, <1>3, <2>1, <2>3
<1>9. Place(q)
  BY <1>3, <1>4, <1>5, <1>6, <1>7, <1>8 DEF Apply, Undo, Check, Insert, DropRow, Relocate, Reserve,
     Encode, Recheck, Record, UndoCheck, UnholdInsert, Look, Repoint, RelocateBack, MarkUndone,
     UndoFailed, Mark
<1>10. Converts(q) /\ ~InPlace(q)
  BY <1>1, <1>9, Apart DEF Place, StepOK, Converts
<1>11. /\ p = To(q) /\ temp[To(q)] = m /\ pc'[q] = "hold"
  BY <1>1, <1>3, <1>9, <1>10 DEF Place, Goes, To
<1>12. Converts(s) /\ To(q) = To(s)
  BY <1>1, <1>11 DEF MadeOnly, m
<1>13. QED
  BY <1>2, <1>9, <1>10, <1>11, <1>12

\* Only encoding puts it in a temp file.
LEMMA MadeTemp ==
  ASSUME Planned, MadeIsApart, InCustody, MadeOnly, NEW q \in Step,
         Apply(q) \/ Undo(q) \/ Back(q) \/ Mark(q), NEW s \in Step, NEW p \in Path,
         temp'[p] = Made(Plan[s].file), temp[p] # Made(Plan[s].file)
  PROVE  Converts(s) /\ p = To(s)
<1> DEFINE m == Made(Plan[s].file)
<1> USE DEF durable, volatile, counts, holdingVars, elsewhere
<1>1. /\ temp \in [Path -> Contents \cup {NoFile}] /\ StepOK(q) /\ From(q) \in Path /\ To(q) \in Path
      /\ m # NoFile
  BY PlanTypes DEF InCustody, OwnTypes, MadeIsApart
<1> HIDE DEF m
<1>2. temp'[p] = m /\ temp[p] # m
  BY DEF m
<1>3. ~DropTemp(q) /\ temp' # temp
  BY <1>1, <1>2 DEF DropTemp, To
<1>4. ~Place(q)
  BY <1>1, <1>2, <1>3 DEF Place, To
<1>5. Encode(q)
  BY <1>3, <1>4 DEF Apply, Undo, Check, Hold, Insert, DropRow, Move, Relocate, Reserve, Recheck,
     Record, UndoCheck, Unhold, UnholdInsert, Look, Repoint, Return, RelocateBack, MarkUndone,
     UndoFailed, Back, Mark
<1>6. p = To(q) /\ m = Made(disk[From(q)]) /\ Converts(q)
  BY <1>1, <1>2, <1>3, <1>5 DEF Encode, StepOK, From, To
<1>7. disk[From(q)] = Plan[s].file
  BY <1>6 DEF m, Made
<1>8. Plan[s].file \in File /\ Plan[s].file = Start[From(s)] /\ From(s) \in Path
      /\ From(q) \notin Landings
  BY PlanTypes, Apart
<1>9. Belongs(disk[From(q)], From(q))
  BY <1>1, <1>7, <1>8 DEF InCustody, FilesOK, DiskOK
<1>10. Plan[s].file = Start[From(q)]
  BY <1>1, <1>7, <1>8, <1>9, WhatBelongs
<1>11. q = s
  <2>1. From(q) = From(s)
    BY <1>1, <1>8, <1>10, StartTypes
  <2>2. QED
    BY <2>1, Apart
<1>12. QED
  BY <1>6, <1>11

\* Only holding a result to undo its step puts it in holding.
LEMMA MadeHeld ==
  ASSUME Planned, MadeIsApart, Control, InCustody, MadeOnly, NEW q \in Step,
         Apply(q) \/ Undo(q) \/ Back(q) \/ Mark(q), NEW s \in Step, NEW h \in Held',
         held'[h].file = Made(Plan[s].file)
  PROVE  Converts(s) /\ held'[h].from = To(s) /\ status[s] \in {"done", "undone"}
<1> DEFINE m == Made(Plan[s].file)
<1> USE DEF durable, volatile, counts, holdingVars, elsewhere
<1>1. /\ held \in Seq(HeldFile) /\ held \in [Held -> HeldFile] /\ disk \in [Path -> Contents \cup {NoFile}]
      /\ StepOK(q) /\ From(q) \in Path /\ To(q) \in Path /\ batch \in Nat
      /\ disk[From(q)] # m
  BY PlanTypes, Entries, NotAtSources DEF InCustody, FilesOK, DiskOK, HeldOK, OwnTypes, Held
<1>2. ASSUME h \in Held, held[h].file = m, held'[h].from = held[h].from
      PROVE  Converts(s) /\ held'[h].from = To(s) /\ status[s] \in {"done", "undone"}
  BY <1>2 DEF MadeOnly
<1>3. ASSUME NEW k, \/ held' = [held EXCEPT ![k].row = "held"]
                    \/ held' = [held EXCEPT ![k].row = "restored"]
                    \/ held' = [held EXCEPT ![k].at = "back"]
                    \/ held' = held
      PROVE  h \in Held /\ held[h].file = m /\ held'[h].from = held[h].from
  BY <1>1, <1>3 DEF Held, HeldFile
<1>4. ASSUME NEW p \in Path, PathExists(p), MoveToHolding(p, batch)
      PROVE  \/ h \in Held /\ held[h].file = m /\ held'[h].from = held[h].from
             \/ disk[p] = m /\ held'[h].from = p
  <2>1. PICK e : e = [file |-> disk[p], from |-> p, batch |-> batch, at |-> "holding", row |-> "none"]
    OBVIOUS
  <2>2. e \in HeldFile /\ held' = Append(held, e)
    BY <1>1, <1>4, <2>1 DEF HeldFile, PathExists, MoveToHolding
  <2>3. /\ Held' = Held \cup {Len(held) + 1} /\ \A k \in Held : held'[k] = held[k]
        /\ held'[Len(held) + 1] = e
    BY <1>1, <2>2, Appended
  <2>4. QED
    BY <2>1, <2>3
<1> HIDE DEF m
<1>5. CASE Hold(q)
  <2>1. CASE held' = held
    BY <1>2, <1>3, <2>1
  <2>2. CASE PathExists(From(q)) /\ MoveToHolding(From(q), batch)
    BY <1>1, <1>2, <1>4, <2>2
  <2>3. QED
    BY <1>5, <2>1, <2>2 DEF Hold, From
<1>6. CASE Unhold(q)
  <2>1. CASE held' = held
    BY <1>2, <1>3, <2>1
  <2>2. CASE PathExists(To(q)) /\ MoveToHolding(To(q), batch)
    <3>1. Converts(q) /\ status[q] = "done"
      BY <1>1, <1>6 DEF Unhold, StepOK, Undoing, Newest, DoneSteps, Control, RunControl
    <3>2. disk[To(q)] = m => q = s
      BY <1>1, <3>1, NotAtSources DEF MadeOnly, m
    <3>3. QED
      BY <1>1, <1>2, <1>4, <2>2, <3>1, <3>2
  <2>3. QED
    BY <1>6, <2>1, <2>2 DEF Unhold, To
<1>7. CASE ~Hold(q) /\ ~Unhold(q)
  <2>1. \/ held' = [held EXCEPT ![slot[q]].row = "held"]
        \/ held' = [held EXCEPT ![slot[q]].row = "restored"]
        \/ held' = [held EXCEPT ![slot[q]].at = "back"]
        \/ held' = held
    BY <1>7 DEF Apply, Undo, Check, Insert, DropRow, Move, Relocate, Reserve, Encode, Recheck, Place,
       Record, UndoCheck, UnholdInsert, Look, Repoint, Return, RelocateBack, MarkUndone, UndoFailed,
       Back, Mark, InsertRow, MarkRestored, MoveBack
  <2>2. QED
    BY <1>2, <1>3, <2>1
<1>8. QED
  BY <1>5, <1>6, <1>7

LEMMA MadeStep ==
  ASSUME Planned, MadeIsApart, Control, InCustody, MadeOnly, NEW q \in Step,
         Apply(q) \/ Undo(q) \/ Back(q) \/ Mark(q)
  PROVE  MadeOnly'
<1>1. ASSUME NEW s \in Step, NEW p \in Path, Made(Plan[s].file) \in {disk'[p], temp'[p]}
      PROVE  Converts(s) /\ p = To(s)
  BY <1>1, MadeDisk, MadeTemp DEF MadeOnly
<1>2. ASSUME NEW s \in Step, NEW h \in Held', held'[h].file = Made(Plan[s].file)
      PROVE  Converts(s) /\ held'[h].from = To(s) /\ status'[s] \in {"done", "undone"}
  <2>1. Converts(s) /\ held'[h].from = To(s) /\ status[s] \in {"done", "undone"}
    BY <1>2, MadeHeld
  <2>2. [Next]_vars
    BY DEF Next, Execute
  <2>3. QED
    BY <2>1, <2>2, DoneStays
<1>3. QED
  BY <1>1, <1>2 DEF MadeOnly

\* The page brings a result back only to the target of a step that was done.
LEMMA MadeBeside ==
  ASSUME Planned, MadeIsApart, Control, InCustody, MadeOnly,
         \/ StartApply \/ StartUndo \/ Stop \/ EndApply \/ EndUndo \/ Crash \/ Recover
         \/ Page \/ OtherPrograms \/ UNCHANGED vars
  PROVE  /\ MadeOnly'
         /\ \A s \in Step, p \in Path : disk'[p] = Made(Plan[s].file) =>
              disk[p] = Made(Plan[s].file) \/ status[s] \in {"done", "undone"}
<1> USE DEF holdingVars, durable
<1>1. /\ held \in [Held -> HeldFile] /\ disk \in [Path -> Contents \cup {NoFile}]
      /\ temp \in [Path -> Contents \cup {NoFile}]
  BY Entries DEF InCustody, FilesOK, DiskOK, HeldOK, OwnTypes, Held
<1>2. status' = status
  BY DEF StartApply, StartUndo, Stop, EndApply, EndUndo, Crash, Recover, Page, OtherPrograms, vars
<1>3. ASSUME NEW s \in Step, NEW p \in Path, disk'[p] = Made(Plan[s].file)
      PROVE  \/ disk[p] = Made(Plan[s].file)
             \/ Converts(s) /\ p = To(s) /\ status[s] \in {"done", "undone"}
  <2>1. CASE OtherPrograms
    <3>1. PICK c \in Foreign, r \in Path : disk' = [disk EXCEPT ![r] = c]
      BY <2>1 DEF OtherPrograms, Write
    <3>2. Made(Plan[s].file) # c
      BY DEF MadeIsApart
    <3>3. QED
      BY <1>1, <1>3, <3>1, <3>2
  <2>2. CASE Page /\ disk' # disk
    <3>1. PICK h \in Held : MoveBack(h)
      BY <2>2 DEF Page, PressRestore, PressEmpty, PageStep, RestoreMove, RestoreMark, EndEmpty,
         TrashBatch, MarkEmptied, InCustody, PageOK
    <3>2. disk' = [disk EXCEPT ![held[h].from] = held[h].file]
      BY <3>1 DEF MoveBack
    <3>3. QED
      BY <1>1, <1>3, <3>2 DEF MadeOnly
  <2>3. CASE disk' = disk
    BY <1>3, <2>3
  <2>4. QED
    BY <2>1, <2>2, <2>3 DEF StartApply, StartUndo, Stop, EndApply, EndUndo, Crash, Recover, vars
<1>4. ASSUME NEW s \in Step, NEW p \in Path, temp'[p] = Made(Plan[s].file)
      PROVE  temp[p] = Made(Plan[s].file)
  <2>1. CASE temp' = temp
    BY <1>4, <2>1
  <2>2. CASE Recover
    <3>1. Made(Plan[s].file) # NoFile
      BY DEF MadeIsApart
    <3>2. temp'[p] \in {NoFile, temp[p]}
      BY <2>2 DEF Recover
    <3>3. QED
      BY <1>4, <3>1, <3>2
  <2>3. QED
    BY <2>1, <2>2 DEF StartApply, StartUndo, Stop, EndApply, EndUndo, Crash, Page, OtherPrograms, vars
<1>5. Held' = Held /\ \A h \in Held : held'[h].file = held[h].file /\ held'[h].from = held[h].from
  <2>1. CASE held' = held
    BY <2>1 DEF Held
  <2>2. CASE Page
    <3>1. ASSUME NEW h, MoveBack(h) \/ MarkRestored(h)
          PROVE  /\ Held' = Held
                 /\ \A k \in Held : held'[k].file = held[k].file /\ held'[k].from = held[k].from
      BY <1>1, <3>1 DEF MoveBack, MarkRestored, Held, HeldFile
    <3>2. ASSUME NEW b, held' = TrashedOf(b) \/ held' = EmptiedOf(b)
          PROVE  /\ Held' = Held
                 /\ \A k \in Held : held'[k].file = held[k].file /\ held'[k].from = held[k].from
      <4>1. Held' = Held
        BY <3>2 DEF Held, TrashedOf, EmptiedOf
      <4>2. \A k \in Held : held'[k].file = held[k].file /\ held'[k].from = held[k].from
        BY <1>1, <3>2 DEF TrashedOf, EmptiedOf, HeldFile
      <4>3. QED
        BY <4>1, <4>2
    <3>3. QED
      BY <2>1, <2>2, <3>1, <3>2, PageHeld
  <2>3. QED
    BY <2>1, <2>2 DEF StartApply, StartUndo, Stop, EndApply, EndUndo, Crash, Recover, OtherPrograms,
       Write, vars
<1>6. QED
  BY <1>2, <1>3, <1>4, <1>5 DEF MadeOnly

LEMMA MadeInit ==
  ASSUME Planned, MadeIsApart, Init
  PROVE  MadeOnly
<1>1. \A p \in Path : disk[p] \in File \cup {NoFile} /\ temp[p] = NoFile
  BY StartTypes DEF Init, HoldingInit
<1>2. Held = {}
  BY DEF Init, HoldingInit, Held
<1>3. QED
  BY <1>1, <1>2 DEF MadeOnly, MadeIsApart, Planned, MadeIsNew

-----------------------------------------------------------------------------
(* Unfinished steps. *)

\* No row of the catalog names a target when the plan is drafted (candidates.rs, taken_paths).  A
\* rename to a name that only a row still has fails after its move, and leaves its file there.
TargetsHaveNoRow == \A s \in Step : Plan[s].action # "hold" => To(s) \notin Rows

\* Until a step points its own row at its target, no row points there.
RowsKnown ==
    \A s \in Step :
        /\ (pc[s] = "replace" => Plan[s].action # "hold")
        /\ Plan[s].action # "hold" =>
             (plan = "draft" \/ (run = "apply" /\ pc[s] \notin {"record", "finished"})
              => RowsAt(To(s)) = {})

\* The step has taken its file, or put its result in place.
HasTaken(s) == run = "apply" /\ (InHand(s) \/ pc[s] = "relocate")
HasPlaced(s) == run = "apply" /\ (InHand(s) \/ (Converts(s) /\ pc[s] = "hold"))

\* A step that is not done leaves its file alone but while it is at it.
LeavesAlone(s) ==
    status[s] \in {"pending", "skipped", "failed"} =>
        /\ ~HasTaken(s) => Home(From(s))
        /\ ~HasPlaced(s) => disk[To(s)] # Made(Plan[s].file) \/ Plan[s].file \in outside

AloneSoFar == crashes \in Nat /\ (crashes = 0 => \A s \in Step : LeavesAlone(s))

LEMMA RowsInit == TargetsHaveNoRow /\ Init => RowsKnown
BY DEF TargetsHaveNoRow, Init, RowsKnown, RowsAt

\* A row goes where a step points it.
LEMMA Pointed ==
  ASSUME OwnTypes, NEW from, NEW to, PointRow(from, to), NEW p
  PROVE  /\ p # to => RowsAt(p)' \subseteq RowsAt(p)
         /\ from # to => RowsAt(from)' = {}
BY DEF OwnTypes, PointRow, RowsAt

LEMMA RowsStep ==
  ASSUME Planned, Control, InCustody, RowsKnown, NEW q \in Step,
         Apply(q) \/ Undo(q) \/ Back(q) \/ Mark(q)
  PROVE  RowsKnown'
<1> USE DEF durable, volatile, counts, holdingVars, elsewhere
<1>1. /\ \A s \in Step \ {q} : pc'[s] = pc[s]
      /\ run' = run /\ plan' = plan /\ StepOK(q) /\ OwnTypes /\ pc \in [Step -> PCs]
  BY Neighbours DEF InCustody, Control, ControlTypes
<1>2. plan # "draft"
  BY DEF Control, RunControl, Apply, Check, MayStart, Hold, Insert, DropRow, Move, Relocate, Reserve,
     Encode, Recheck, Place, Record, Undo, UndoCheck, Unhold, UnholdInsert, Look, Repoint, Return,
     RelocateBack, MarkUndone, UndoFailed, Undoing, Back, Mark
<1>3. pc'[q] = "replace" => Plan[q].action # "hold"
  <2>1. pc'[q] = "replace" => Insert(q) \/ (Place(q) /\ Converts(q))
    BY <1>1 DEF Goes, Errs, Settles, Apply, Check, MayStart, Hold, Insert, DropRow, Move, Relocate,
       Reserve, Encode, Recheck, Place, Record, Undo, UndoCheck, Unhold, UnholdInsert, Look, Repoint,
       Return, RelocateBack, MarkUndone, UndoFailed, Back, Mark, StepOK
  <2>2. Insert(q) /\ pc'[q] = "replace" => Plan[q].action # "hold"
    BY <1>1 DEF Insert, Goes
  <2>3. QED
    BY <2>1, <2>2 DEF Converts
<1>4. ASSUME NEW s \in Step, Plan[s].action # "hold", run = "apply",
             pc'[s] \notin {"record", "finished"}
      PROVE  RowsAt(To(s))' = {}
  <2>1. ~Undo(q)
    BY <1>4 DEF Undo, UndoCheck, Unhold, UnholdInsert, Look, Repoint, Return, RelocateBack,
       MarkUndone, UndoFailed, Undoing
  <2>2. pc[s] \notin {"record", "finished"}
    <3>1. CASE s = q
      <4>1. pc[q] # "finished"
        BY <1>4, AppliesAdvance DEF Advances
      <4>2. pc[q] = "record" => Record(q)
        BY <2>1 DEF Apply, Check, MayStart, Hold, Insert, DropRow, Move, Relocate, Reserve, Encode,
           Recheck, Place, Back, Mark
      <4>3. Record(q) => pc'[q] = "finished"
        BY <1>1 DEF Record, Goes
      <4>4. QED
        BY <1>4, <3>1, <4>1, <4>2, <4>3
    <3>2. QED
      BY <1>1, <1>4, <3>1
  <2>3. RowsAt(To(s)) = {}
    BY <1>4, <2>2 DEF RowsKnown
  <2>4. CASE rowAt' = rowAt
    BY <2>3, <2>4 DEF RowsAt
  <2>5. CASE DropRow(q)
    <3>1. PointRow(Plan[q].from, NoPath) /\ To(s) # NoPath
      BY <2>5, PlanTypes, ExecutorAssumption DEF DropRow
    <3>2. QED
      BY <1>1, <2>3, <3>1, Pointed
  <2>6. CASE Relocate(q) /\ rowAt' # rowAt
    <3>1. PointRow(From(q), To(q)) /\ pc'[q] = "record"
      BY <1>1, <2>6 DEF Relocate, Settles, Goes, From, To
    <3>2. Plan[q].action # "hold"
      BY <1>1, <2>6 DEF Relocate, StepOK, Moves, RowsKnown
    <3>3. To(s) # To(q)
      BY <1>4, <3>1, <3>2 DEF Planned, FreeTargets, To
    <3>4. QED
      BY <1>1, <2>3, <3>1, <3>3, Pointed
  <2>7. QED
    BY <2>1, <2>4, <2>5, <2>6 DEF Apply, Check, Hold, Insert, Move, Reserve, Encode, Recheck, Place,
       Record, Back, Mark
<1>5. QED
  BY <1>1, <1>2, <1>3, <1>4 DEF RowsKnown

LEMMA RowsBeside ==
  ASSUME Control, RowsKnown,
         \/ StartApply \/ StartUndo \/ Stop \/ EndApply \/ EndUndo \/ Crash \/ Recover
         \/ Page \/ OtherPrograms \/ UNCHANGED vars
  PROVE  RowsKnown'
<1> USE DEF durable, volatile, counts, holdingVars
<1>1. rowAt' = rowAt
  BY DEF StartApply, StartUndo, Stop, EndApply, EndUndo, Crash, Recover, Page, OtherPrograms, vars
<1>2. \A p : RowsAt(p)' = RowsAt(p)
  BY <1>1 DEF RowsAt
<1>3. \A s \in Step : pc'[s] \in {pc[s], "waiting", "finished"}
  BY DEF StartApply, StartUndo, Stop, EndApply, EndUndo, Crash, Recover, Page, OtherPrograms, vars
<1>4. plan' = "draft" => plan = "draft"
  BY DEF StartApply, StartUndo, Stop, EndApply, EndUndo, Crash, Recover, Page, OtherPrograms, vars,
     SettledStatus
<1>5. run' = "apply" => (run = "apply" /\ pc' = pc) \/ plan = "draft"
  <2>1. CASE StartApply
    BY <2>1 DEF StartApply
  <2>2. QED
    BY <2>1, BesideRuns
<1>6. QED
  BY <1>2, <1>3, <1>4, <1>5 DEF RowsKnown

LEMMA AloneInit ==
  ASSUME Planned, MadeIsApart, Init
  PROVE  AloneSoFar
<1>1. \A s \in Step : From(s) \in Path /\ To(s) \in Path
  BY PlanTypes
<1>2. \A s \in Step : disk[From(s)] = Start[From(s)]
  BY DEF Init, HoldingInit
<1>3. \A s \in Step : disk[To(s)] \in File \cup {NoFile}
  BY <1>1, StartTypes DEF Init, HoldingInit
<1>4. \A c : Made(c) \notin File \cup {NoFile}
  BY DEF MadeIsApart, Planned, MadeIsNew
<1>5. \A s \in Step : LeavesAlone(s)
  BY <1>2, <1>3, <1>4 DEF LeavesAlone, Home
<1>6. QED
  BY <1>5 DEF AloneSoFar, Init

\* Another step's action.
LEMMA OthersLeaveAlone ==
  ASSUME Planned, MadeIsApart, Control, InCustody, MadeOnly, NEW q \in Step,
         Apply(q) \/ Undo(q) \/ Back(q) \/ Mark(q), NEW s \in Step \ {q}, LeavesAlone(s)
  PROVE  LeavesAlone(s)'
<1>1. /\ pc'[s] = pc[s] /\ status'[s] = status[s] /\ outcome'[s] = outcome[s]
      /\ run' = run /\ outside' = outside
  BY Neighbours
<1>2. /\ (HasTaken(s)' <=> HasTaken(s)) /\ (HasPlaced(s)' <=> HasPlaced(s))
  BY <1>1 DEF HasTaken, HasPlaced, InHand
<1>3. Home(From(s)) => Home(From(s))'
  <2>1. From(s) \in Path /\ Start[From(s)] \in File /\ From(s) # From(q)
    BY PlanTypes, Apart
  <2>2. QED
    BY <2>1, StepsLeaveHomes
<1>4. disk'[To(s)] = Made(Plan[s].file) => disk[To(s)] = Made(Plan[s].file)
  <2>1. To(s) \in Path
    BY PlanTypes
  <2>2. ~(Place(s) /\ pc'[s] = "hold")
    BY <1>1 DEF Place
  <2>3. QED
    BY <2>1, <2>2, MadeDisk
<1>5. QED
  BY <1>1, <1>2, <1>3, <1>4 DEF LeavesAlone

\* What a step has in hand it keeps to its end, for no row stands in its way.
LEMMA InHandToTheEnd ==
  ASSUME Planned, Control, InCustody, RowsKnown, NEW s \in Step, run = "apply",
         Apply(s) \/ Back(s) \/ Mark(s), InHand(s) \/ pc[s] = "relocate"
  PROVE  InHand(s)' \/ status'[s] = "done"
<1>1. /\ pc \in [Step -> PCs] /\ outcome \in [Step -> {"pending"} \cup Outcomes]
      /\ status \in [Step -> Statuses] /\ StepOK(s)
  BY DEF Control, ControlTypes, InCustody
<1>2. CASE Insert(s)
  BY <1>1, <1>2, Apart DEF Insert, InHand, Goes
<1>3. CASE DropRow(s)
  BY <1>1, <1>3 DEF DropRow, InHand, Goes, Settles
<1>4. CASE Relocate(s)
  <2>1. Plan[s].action # "hold"
    BY <1>1, <1>4 DEF Relocate, StepOK, Moves, RowsKnown
  <2>2. RowsAt(To(s)) = {}
    BY <1>4, <2>1 DEF RowsKnown, Relocate
  <2>3. ~RowBlocked(Plan[s].from, Plan[s].to)
    BY <2>2 DEF RowBlocked, To
  <2>4. QED
    BY <1>1, <1>4, <2>3 DEF Relocate, InHand, Goes, Settles
<1>5. CASE Record(s)
  BY <1>1, <1>5 DEF Record, InHand
<1>6. QED
  BY <1>2, <1>3, <1>4, <1>5 DEF InHand, Apply, Check, MayStart, Hold, Move, Reserve, Encode, Recheck,
     Place, Back, Mark

LEMMA StepLeavesAlone ==
  ASSUME Planned, MadeIsApart, Control, InCustody, MadeOnly, RowsKnown, NEW s \in Step,
         Apply(s) \/ Undo(s) \/ Back(s) \/ Mark(s), LeavesAlone(s)
  PROVE  LeavesAlone(s)'
<1> SUFFICES ASSUME status'[s] \in {"pending", "skipped", "failed"}
             PROVE  LeavesAlone(s)'
  BY DEF LeavesAlone
<1>1. /\ From(s) \in Path /\ To(s) \in Path /\ Start[From(s)] = Plan[s].file /\ Plan[s].file \in File
      /\ pc \in [Step -> PCs] /\ disk \in [Path -> Contents \cup {NoFile}] /\ StepOK(s)
      /\ run' = run /\ outside' = outside /\ Made(Plan[s].file) # NoFile
  BY PlanTypes, Neighbours DEF Control, ControlTypes, InCustody, FilesOK, DiskOK, MadeIsApart
<1>2. status[s] \notin {"done", "undone"}
  <2>1. [Next]_vars
    BY DEF Next, Execute
  <2>2. QED
    BY <2>1, DoneStays
<1>3. run = "apply" /\ status[s] = "pending" /\ ~Undo(s)
  <2>1. ~Undoing(s)
    BY <1>2 DEF Undoing, Newest, Control, RunControl, DoneSteps
  <2>2. ~Undo(s)
    BY <2>1 DEF Undo, UndoCheck, Unhold, UnholdInsert, Look, Repoint, Return, RelocateBack,
       MarkUndone, UndoFailed
  <2>3. run = "apply"
    <3>1. pc[s] \notin {"waiting", "finished"} /\ run = "undo" => Undoing(s)
      BY DEF Undoing, Control, RunControl
    <3>2. pc[s] \notin {"waiting", "finished"} => run # "idle"
      BY DEF Control, RunControl
    <3>3. QED
      BY <1>1, <2>1, <2>2, <3>1, <3>2 DEF Apply, Check, MayStart, Hold, Insert, DropRow, Move,
         Relocate, Reserve, Encode, Recheck, Place, Record, Back, Mark, Control, ControlTypes
  <2>4. pc[s] # "finished"
    BY <2>3, AppliesAdvance DEF Advances
  <2>5. QED
    BY <2>2, <2>3, <2>4 DEF Control, RunControl
<1>4. InHand(s) \/ pc[s] = "relocate" => HasTaken(s)' /\ HasPlaced(s)'
  BY <1>1, <1>3, InHandToTheEnd DEF HasTaken, HasPlaced
<1>5. CASE Hold(s)
  <2>1. CASE Goes(s, "insert")
    <3>1. InHand(s)'
      BY <1>1, <2>1 DEF Goes, InHand
    <3>2. QED
      BY <1>1, <1>3, <3>1 DEF LeavesAlone, HasTaken, HasPlaced
  <2>2. CASE disk' = IF Converts(s) /\ ~InPlace(s) /\ PathExists(Plan[s].from)
                     THEN [disk EXCEPT ![Plan[s].to] = NoFile] ELSE disk
    <3>1. Home(From(s)) /\ pc[s] = "hold"
      BY <1>1, <1>5 DEF Hold, StepOK, Touching
    <3>2. Converts(s) => To(s) # From(s) /\ ~InPlace(s)
      BY Apart DEF Converts
    <3>3. Home(From(s))'
      BY <1>1, <2>2, <3>1, <3>2 DEF Home, To
    <3>4. Converts(s) => disk'[To(s)] # Made(Plan[s].file) \/ Plan[s].file \in outside
      <4>1. PathExists(From(s)) \/ Plan[s].file \in outside
        BY <1>1, <3>1, StartTypes DEF Home, PathExists
      <4>2. QED
        BY <1>1, <2>2, <3>2, <4>1 DEF From, To
    <3>5. ~Converts(s) => disk'[To(s)] # Made(Plan[s].file)
      BY <1>1, MadeStep DEF MadeOnly
    <3>6. QED
      BY <1>1, <3>3, <3>4, <3>5 DEF LeavesAlone
  <2>3. QED
    BY <1>5, <2>1, <2>2 DEF Hold
<1>6. CASE Move(s)
  <2>1. ~Converts(s) /\ Home(From(s))
    BY <1>1, <1>6 DEF Move, StepOK, Moves, Converts, Touching
  <2>2. disk'[To(s)] # Made(Plan[s].file)
    BY <1>1, <2>1, MadeStep DEF MadeOnly
  <2>3. CASE Goes(s, "relocate")
    <3>1. HasTaken(s)'
      BY <1>1, <1>3, <2>3 DEF Goes, HasTaken
    <3>2. QED
      BY <2>2, <3>1 DEF LeavesAlone
  <2>4. CASE disk' = disk
    BY <1>1, <2>1, <2>2, <2>4 DEF LeavesAlone, Home
  <2>5. QED
    BY <1>6, <2>3, <2>4 DEF Move
<1>7. CASE ~Hold(s) /\ ~Move(s)
  <2>1. Home(From(s)) => Home(From(s))'
    BY <1>1, <1>7, StepsLeaveHomes
  <2>2. ~HasTaken(s)' => Home(From(s))'
    BY <1>3, <1>4, <2>1 DEF LeavesAlone, HasTaken
  <2>3. ASSUME ~HasPlaced(s)', disk'[To(s)] = Made(Plan[s].file)
        PROVE  Plan[s].file \in outside
    <3>1. Converts(s)
      BY <1>1, <2>3, MadeStep DEF MadeOnly
    <3>2. disk[To(s)] = Made(Plan[s].file)
      <4>1. pc'[s] # "hold"
        BY <1>1, <1>3, <2>3, <3>1 DEF HasPlaced
      <4>2. QED
        BY <1>1, <2>3, <4>1, MadeDisk
    <3>3. pc[s] # "hold"
      <4>1. pc[s] = "hold" => Hold(s)
        BY <1>3 DEF Apply, Check, MayStart, Insert, DropRow, Move, Relocate, Reserve, Encode,
           Recheck, Place, Record, Back, Mark
      <4>2. QED
        BY <1>7, <4>1
    <3>4. ~HasPlaced(s)
      BY <1>4, <2>3, <3>3 DEF HasPlaced
    <3>5. QED
      BY <1>3, <3>2, <3>4 DEF LeavesAlone
  <2>4. QED
    BY <1>1, <2>2, <2>3 DEF LeavesAlone
<1>8. QED
  BY <1>5, <1>6, <1>7

LEMMA BesideLeavesAlone ==
  ASSUME Planned, MadeIsApart, Control, InCustody, MadeOnly, AloneSoFar,
         \/ StartApply \/ StartUndo \/ Stop \/ EndApply \/ EndUndo \/ Crash \/ Recover
         \/ Page \/ OtherPrograms \/ UNCHANGED vars
  PROVE  AloneSoFar'
<1> USE DEF durable, volatile, counts, holdingVars
<1>1. CASE Crash
  BY <1>1 DEF Crash, AloneSoFar
<1>2. CASE ~Crash
  <2>1. crashes' = crashes /\ status' = status
    BY <1>2 DEF StartApply, StartUndo, Stop, EndApply, EndUndo, Recover, Page, OtherPrograms, vars
  <2>2. outside \subseteq outside'
    BY <1>2 DEF StartApply, StartUndo, Stop, EndApply, EndUndo, Recover, Page, OtherPrograms, vars,
       PressRestore, PressEmpty, PageStep, RestoreMove, RestoreMark, EndEmpty, TrashBatch,
       MarkEmptied, Write
  <2>3. ASSUME NEW s \in Step, LeavesAlone(s), status[s] \in {"pending", "skipped", "failed"}
        PROVE  LeavesAlone(s)'
    <3>1. /\ HasTaken(s) => HasTaken(s)'
          /\ HasPlaced(s) => HasPlaced(s)'
      <4>1. CASE EndApply
        BY <4>1 DEF EndApply, HasTaken, HasPlaced, InFlight, InHand
      <4>2. CASE StartApply \/ StartUndo \/ EndUndo
        BY <4>2 DEF StartApply, StartUndo, EndUndo, HasTaken, HasPlaced
      <4>3. CASE UNCHANGED <<run, pc, outcome>>
        BY <4>3 DEF HasTaken, HasPlaced, InHand
      <4>4. QED
        BY <1>2, <4>1, <4>2, <4>3 DEF Stop, Recover, Page, OtherPrograms, vars
    <3>2. Home(From(s)) => Home(From(s))'
      BY PlanTypes, OthersLeaveHomes
    <3>3. disk'[To(s)] = Made(Plan[s].file) => disk[To(s)] = Made(Plan[s].file)
      BY <2>3, MadeBeside, PlanTypes
    <3>4. QED
      BY <2>1, <2>2, <2>3, <3>1, <3>2, <3>3 DEF LeavesAlone
  <2>4. \A s \in Step : LeavesAlone(s) => LeavesAlone(s)'
    BY <2>1, <2>3 DEF LeavesAlone
  <2>5. QED
    BY <2>1, <2>4 DEF AloneSoFar
<1>3. QED
  BY <1>1, <1>2

LEMMA AloneStep ==
  ASSUME Planned, MadeIsApart, Control, InCustody, MadeOnly, RowsKnown, AloneSoFar, [Next]_vars
  PROVE  AloneSoFar'
<1>1. ASSUME NEW q \in Step, Apply(q) \/ Undo(q) \/ Back(q) \/ Mark(q)
      PROVE  AloneSoFar'
  <2>1. crashes' = crashes
    BY <1>1, Neighbours
  <2>2. \A s \in Step : LeavesAlone(s) => LeavesAlone(s)'
    BY <1>1, OthersLeaveAlone, StepLeavesAlone
  <2>3. QED
    BY <2>1, <2>2 DEF AloneSoFar
<1>2. QED
  BY <1>1, BesideLeavesAlone DEF Next, Execute

(***************************************************************************)
(* A step that was not done leaves its file as it found it                 *)
(* (UnfinishedStepsLeaveFilesAlone): of every plan no row of the catalog   *)
(* stands in the way of, on any number of lanes, whatever is refused or    *)
(* stopped, and beside the Holding page, other programs and undos          *)
(* (convert, "so the step leaves things as it found them").                *)
(***************************************************************************)
THEOREM UnfinishedLeaveFilesAlone ==
  ASSUME Planned, MadeIsApart, TargetsHaveNoRow
  PROVE  Spec => []UnfinishedStepsLeaveFilesAlone
<1>1. Init => MadeOnly /\ RowsKnown /\ AloneSoFar
  BY MadeInit, RowsInit, AloneInit
<1>2. Control /\ InCustody /\ MadeOnly /\ RowsKnown /\ AloneSoFar /\ [Next]_vars
        => (MadeOnly /\ RowsKnown /\ AloneSoFar)'
  <2> SUFFICES ASSUME Control, InCustody, MadeOnly, RowsKnown, AloneSoFar, [Next]_vars
               PROVE  (MadeOnly /\ RowsKnown /\ AloneSoFar)'
    OBVIOUS
  <2>1. AloneSoFar'
    BY AloneStep
  <2>2. MadeOnly' /\ RowsKnown'
    BY MadeStep, MadeBeside, RowsStep, RowsBeside DEF Next, Execute
  <2>3. QED
    BY <2>1, <2>2
<1>3. AloneSoFar => UnfinishedStepsLeaveFilesAlone
  BY PlanTypes DEF AloneSoFar, LeavesAlone, UnfinishedStepsLeaveFilesAlone, Rests, HasTaken, HasPlaced,
     Home, From, To
<1>4. QED
  BY <1>1, <1>2, <1>3, CustodyHolds, PTL DEF Spec

-----------------------------------------------------------------------------
(* Finished steps. *)

\* Nobody else touches the root or the holding folder, and no crash cuts an undo short.
Undisturbed == Foreign = {} /\ MaxPresses = 0 /\ "undo" \notin CrashIn

Quiet == outside = {} /\ presses = 0 /\ page = Idle /\ refusals \in Nat

\* The file of step s is in holding, with h to name it; and with its row.
Has(s, h) == h \in Held /\ held[h].file = Plan[s].file /\ held[h].at = "holding"
HasRow(s, h) == Has(s, h) /\ held[h].row = "held"

\* The result of step s is in holding, with h to name it; and one has its row.
ResultHeld(s, h) ==
    h \in Held /\ held[h].file = Made(Plan[s].file) /\ held[h].from = To(s) /\ held[h].at = "holding"
ResultKept(s) == \E h : ResultHeld(s, h) /\ held[h].row = "held"

\* What an undo of the step needs, with h for the row of its original.
Undoes(s, h) ==
    /\ Plan[s].action = "hold" => HasRow(s, h)
    /\ Moves(s) => disk[To(s)] = Plan[s].file /\ RowsAt(From(s)) = {}
    /\ Converts(s) => /\ HasRow(s, h) /\ disk[To(s)] \in {NoFile, Made(Plan[s].file)}
                      /\ disk[To(s)] = NoFile => ResultKept(s)

CanUndo(s) ==
    status[s] = "done" /\ (run = "undo" => pc[s] \in {"finished", "failed", "return", "unhold"}) =>
        Undoes(s, heldBy[s])

\* What a step of an undo has done so far.
UndoOK(s) ==
    run = "undo" =>
        /\ pc[s] \in {"back", "look", "unholdInsert"} =>
             ~Moves(s) /\ HasRow(s, heldBy[s]) /\ (Converts(s) => disk[To(s)] = NoFile)
        /\ pc[s] \in {"back", "look"} => slot[s] = heldBy[s] /\ (Converts(s) => ResultKept(s))
        /\ pc[s] = "unholdInsert" => Converts(s) /\ ResultHeld(s, slot[s])
        /\ pc[s] = "unhold" => disk[To(s)] = Made(Plan[s].file)
        /\ pc[s] = "relocateBack" => RowsAt(From(s)) = {}

\* What a step of a run has done so far.
ApplyOK(s) ==
    run = "apply" =>
        /\ pc[s] \in {"recheck", "place"} => temp[To(s)] = Made(Plan[s].file)
        /\ pc[s] \in {"hold", "insert"} =>
             ~Moves(s) /\ (Converts(s) => disk[To(s)] = Made(Plan[s].file))
        /\ pc[s] = "insert" => Has(s, slot[s])
        /\ pc[s] = "drop" => Plan[s].action = "hold" /\ HasRow(s, slot[s])
        /\ pc[s] = "relocate" => disk[To(s)] = Plan[s].file
        /\ pc[s] = "replace" =>
             Converts(s) /\ HasRow(s, slot[s]) /\ disk[To(s)] = Made(Plan[s].file)
        /\ pc[s] = "record" /\ outcome[s] = "done" => Undoes(s, slot[s])

UndoKept == Quiet /\ \A s \in Step : CanUndo(s) /\ UndoOK(s) /\ ApplyOK(s)

LEMMA UndoInit ==
  ASSUME Init
  PROVE  UndoKept
BY DEF Init, HoldingInit, UndoKept, Quiet, CanUndo, UndoOK, ApplyOK

\* Refusals are counted, and the page and other programs do nothing.
LEMMA StaysQuiet ==
  ASSUME Undisturbed, Quiet, [Next]_vars
  PROVE  Quiet' /\ refusals <= refusals' /\ ~Page /\ ~OtherPrograms
<1> USE DEF durable, volatile, counts, holdingVars, elsewhere, Quiet, Undisturbed
<1>1. ~Page /\ ~OtherPrograms
  BY DEF Page, OtherPrograms, PressRestore, PressEmpty, PageStep, RestoreMove, RestoreMark, EndEmpty,
     TrashBatch, MarkEmptied, Write, Idle
<1>2. ASSUME NEW q \in Step, Apply(q)
      PROVE  /\ UNCHANGED <<outside, presses, page>> /\ refusals' \in {refusals, refusals + 1}
  BY <1>2 DEF Apply, Check, Hold, Insert, DropRow, Move, Relocate, Reserve, Encode, Recheck, Place,
     Record, Errs, Settles, Refused
<1>3. ASSUME NEW q \in Step, Undo(q)
      PROVE  /\ UNCHANGED <<outside, presses, page>> /\ refusals' \in {refusals, refusals + 1}
  BY <1>3 DEF Undo, UndoCheck, Unhold, UnholdInsert, Look, Repoint, Return, RelocateBack,
     MarkUndone, UndoFailed, Refused
<1>4. ASSUME NEW q \in Step, Back(q) \/ Mark(q)
      PROVE  /\ UNCHANGED <<outside, presses, page>> /\ refusals' \in {refusals, refusals + 1}
  BY <1>4 DEF Back, Mark, Errs, Settles, Refused
<1>5. CASE \/ StartApply \/ StartUndo \/ EndApply \/ EndUndo
           \/ Stop \/ Crash \/ Recover \/ UNCHANGED vars
  <2>1. UNCHANGED <<outside, presses>> /\ (page' = page \/ page' = Idle)
    BY <1>5 DEF StartApply, StartUndo, EndApply, EndUndo, Stop, Crash, Recover, vars
  <2>2. refusals' = refusals
    BY <1>5 DEF StartApply, StartUndo, EndApply, EndUndo, Stop, Crash, Recover, vars
  <2>3. QED
    BY <1>1, <2>1, <2>2
<1>6. QED
  BY <1>1, <1>2, <1>3, <1>4, <1>5 DEF Next, Execute

\* A file in holding has left its place, and nothing is there.
LEMMA HasLeft ==
  ASSUME Planned, Undisturbed, InCustody, NEW s \in Step, NEW h, Has(s, h)
  PROVE  held[h].from = From(s) /\ disk[From(s)] = NoFile
<1>1. /\ From(s) \in Path /\ Plan[s].file = Start[From(s)] /\ Plan[s].file \in File
      /\ From(s) \notin Results \cup Landings
  BY PlanTypes, Apart
<1>2. h \in Held /\ EntryOK(held[h]) /\ Alone(h) /\ DiskOK
  BY DEF Has, InCustody, FilesOK, HeldOK
<1>3. held[h].from \in Path
  BY <1>2, EntryTypes DEF EntryOK
<1>4. held[h].from = From(s)
  BY <1>1, <1>2, <1>3, StartTypes DEF EntryOK, Has
<1>5. ~InRoot(Plan[s].file)
  BY <1>1, <1>2 DEF Alone, Has
<1>6. disk[From(s)] \in File \cup {NoFile}
  BY <1>1, <1>2 DEF DiskOK, Plain, Undisturbed
<1>7. disk[From(s)] # Plan[s].file
  BY <1>1, <1>5 DEF InRoot
<1>8. disk[From(s)] \in File => disk[From(s)] = Plan[s].file
  BY <1>1, <1>2, WhatBelongs DEF DiskOK
<1>9. QED
  BY <1>4, <1>6, <1>7, <1>8

\* A file in holding stays there, with its row, as long as it is left alone.
LEMMA EntryStays ==
  ASSUME InCustody, NEW h \in Held, held[h].at = "holding",
         \/ held' = held
         \/ \E e \in HeldFile : held' = Append(held, e)
         \/ \E k : held' = [held EXCEPT ![k].row = "held"]
         \/ \E k : k # h /\ (\/ held' = [held EXCEPT ![k].row = "restored"]
                             \/ held' = [held EXCEPT ![k].at = "back"])
  PROVE  /\ h \in Held' /\ held'[h].file = held[h].file /\ held'[h].from = held[h].from
         /\ held'[h].at = "holding" /\ (held[h].row = "held" => held'[h].row = "held")
<1>1. held \in Seq(HeldFile) /\ held \in [Held -> HeldFile]
  BY Entries DEF InCustody, FilesOK, HeldOK, Held
<1>2. CASE held' = held
  BY <1>2 DEF Held
<1>3. CASE \E e \in HeldFile : held' = Append(held, e)
  BY <1>1, <1>3, Appended
<1>4. CASE \E k : held' = [held EXCEPT ![k].row = "held"]
  BY <1>1, <1>4 DEF Held, HeldFile
<1>5. CASE \E k : k # h /\ (\/ held' = [held EXCEPT ![k].row = "restored"]
                           \/ held' = [held EXCEPT ![k].at = "back"])
  BY <1>1, <1>5 DEF Held, HeldFile
<1>6. QED
  BY <1>2, <1>3, <1>4, <1>5

\* What a step has in holding stays there as long as it leaves it alone.
LEMMA StaysHeld ==
  ASSUME InCustody, NEW s \in Step, NEW h, Has(s, h),
         \/ held' = held
         \/ \E e \in HeldFile : held' = Append(held, e)
         \/ \E k : held' = [held EXCEPT ![k].row = "held"]
         \/ \E k : k # h /\ (\/ held' = [held EXCEPT ![k].row = "restored"]
                             \/ held' = [held EXCEPT ![k].at = "back"])
  PROVE  Has(s, h)' /\ (HasRow(s, h) => HasRow(s, h)')
BY EntryStays DEF Has, HasRow

\* What a step's action does to holding.
LEMMA HeldBySteps ==
  ASSUME InCustody, NEW q \in Step, Apply(q) \/ Undo(q) \/ Back(q) \/ Mark(q)
  PROVE  \/ held' = held
         \/ \E e \in HeldFile : held' = Append(held, e)
         \/ \E k : held' = [held EXCEPT ![k].row = "held"]
         \/ /\ Back(q) \/ Mark(q)
            /\ slot[q] \in Held /\ held[slot[q]].from = From(q)
            /\ \/ held' = [held EXCEPT ![slot[q]].row = "restored"]
               \/ held' = [held EXCEPT ![slot[q]].at = "back"]
<1>1. /\ disk \in [Path -> Contents \cup {NoFile}] /\ batch \in Nat
      /\ Plan[q].from \in Path /\ Plan[q].to \in Path /\ StepOK(q)
  BY PlanTypes DEF InCustody, FilesOK, DiskOK, OwnTypes, From, To
<1>2. ASSUME NEW p \in Path, PathExists(p), MoveToHolding(p, batch)
      PROVE  \E e \in HeldFile : held' = Append(held, e)
  <2>1. [file |-> disk[p], from |-> p, batch |-> batch, at |-> "holding", row |-> "none"] \in HeldFile
    BY <1>1, <1>2 DEF HeldFile, PathExists
  <2>2. QED
    BY <1>2, <2>1 DEF MoveToHolding
<1>3. CASE Hold(q) \/ Unhold(q)
  BY <1>1, <1>2, <1>3 DEF Hold, Unhold
<1>4. CASE Back(q) \/ Mark(q)
  <2>1. slot[q] \in Held /\ held[slot[q]].from = From(q)
    BY <1>1, <1>4 DEF Back, Mark, StepOK
  <2>2. QED
    BY <1>4, <2>1 DEF Back, Mark, MoveBack, MarkRestored
<1>5. CASE Insert(q) \/ UnholdInsert(q)
  BY <1>5 DEF Insert, UnholdInsert, InsertRow
<1>6. QED
  BY <1>3, <1>4, <1>5 DEF Apply, Undo, Check, DropRow, Move, Relocate, Reserve, Encode, Recheck, Place,
     Record, UndoCheck, Look, Repoint, Return, RelocateBack, MarkUndone, UndoFailed, holdingVars,
     elsewhere

\* A step's action leaves alone what another step counts on to be undone.
LEMMA Unharmed ==
  ASSUME Planned, Undisturbed, Control, InCustody, NEW q \in Step, ApplyOK(q),
         Apply(q) \/ Undo(q) \/ Back(q) \/ Mark(q), NEW s \in Step \ {q}
  PROVE  /\ Plan[s].action # "hold" => disk'[To(s)] = disk[To(s)] /\ temp'[To(s)] = temp[To(s)]
         /\ RowsAt(From(s)) = {} => RowsAt(From(s))' = {}
         /\ \A h : (Has(s, h) => Has(s, h)') /\ (HasRow(s, h) => HasRow(s, h)')
         /\ Plan[s].action # "hold" => /\ \A h : ResultHeld(s, h) => ResultHeld(s, h)'
                                       /\ ResultKept(s) => ResultKept(s)'
<1> USE DEF durable, volatile, counts, holdingVars, elsewhere
<1>1. /\ disk \in [Path -> Contents \cup {NoFile}] /\ temp \in [Path -> Contents \cup {NoFile}]
      /\ From(q) \in Path /\ To(q) \in Path /\ StepOK(q) /\ OwnTypes /\ NoPath \notin Path
      /\ From(s) \in Path /\ To(s) \in Path /\ From(q) # From(s)
  BY PlanTypes, Apart, ExecutorAssumption DEF InCustody, FilesOK, DiskOK, OwnTypes
<1>2. ASSUME Plan[s].action # "hold"
      PROVE  disk'[To(s)] = disk[To(s)] /\ temp'[To(s)] = temp[To(s)]
  <2>1. To(s) # From(q) /\ (Converts(q) \/ Moves(q) => To(q) # To(s))
    BY <1>2, Apart DEF Planned, FreeTargets, To, Converts, Moves
  <2>2. CASE Hold(q)
    BY <1>1, <2>1, <2>2 DEF Hold, MoveToHolding, DropTemp, From, To
  <2>3. CASE Move(q) \/ Return(q)
    BY <1>1, <2>1, <2>3 DEF Move, Return, StepOK, From, To
  <2>4. CASE Encode(q) \/ Recheck(q) \/ Place(q)
    BY <1>1, <2>1, <2>4 DEF Encode, Recheck, Place, DropTemp, StepOK, From, To
  <2>5. CASE Unhold(q)
    BY <1>1, <2>1, <2>5 DEF Unhold, MoveToHolding, StepOK, From, To
  <2>6. CASE Back(q)
    <3>1. temp'[To(s)] = temp[To(s)]
      BY <1>1, <2>1, <2>6 DEF Back, DropTemp, To
    <3>2. CASE MoveBack(slot[q])
      <4>1. held[slot[q]].from = From(q)
        BY <1>1, <2>6 DEF Back, StepOK
      <4>2. QED
        BY <1>1, <2>1, <3>1, <3>2, <4>1 DEF MoveBack
    <3>3. CASE disk' = disk
      BY <3>1, <3>3
    <3>4. QED
      BY <2>6, <3>2, <3>3 DEF Back
  <2>7. CASE Mark(q)
    BY <1>1, <2>1, <2>7 DEF Mark, DropTemp, To
  <2>8. QED
    BY <2>2, <2>3, <2>4, <2>5, <2>6, <2>7 DEF Apply, Undo, Check, Insert, DropRow, Relocate, Reserve,
       Record, UndoCheck, UnholdInsert, Look, Repoint, RelocateBack, MarkUndone, UndoFailed
<1>3. ASSUME RowsAt(From(s)) = {}
      PROVE  RowsAt(From(s))' = {}
  <2>1. CASE rowAt' = rowAt
    BY <1>3, <2>1 DEF RowsAt
  <2>2. CASE DropRow(q)
    <3>1. PointRow(From(q), NoPath) /\ From(s) # NoPath
      BY <1>1, <2>2 DEF DropRow, From
    <3>2. QED
      BY <1>1, <1>3, <3>1, Pointed
  <2>3. CASE Relocate(q) /\ rowAt' # rowAt
    <3>1. PointRow(From(q), To(q))
      BY <2>3 DEF Relocate, From, To
    <3>2. Plan[q].action # "hold"
      BY <1>1, <2>3 DEF Relocate, StepOK, ApplyOK, Moves, Converts
    <3>3. To(q) # From(s)
      BY <3>2, Apart
    <3>4. QED
      BY <1>1, <1>3, <3>1, <3>3, Pointed
  <2>4. CASE (Repoint(q) \/ RelocateBack(q)) /\ rowAt' # rowAt
    <3>1. PointRow(To(q), From(q))
      BY <2>4 DEF Repoint, RelocateBack, From, To
    <3>2. QED
      BY <1>1, <1>3, <3>1, Pointed
  <2>5. QED
    BY <2>1, <2>2, <2>3, <2>4 DEF Apply, Undo, Check, Hold, Insert, Move, Reserve, Encode, Recheck,
       Place, Record, UndoCheck, Unhold, UnholdInsert, Look, Return, MarkUndone, UndoFailed, Back, Mark
<1>4. ASSUME NEW h, Has(s, h)
      PROVE  Has(s, h)' /\ (HasRow(s, h) => HasRow(s, h)')
  <2>1. held[h].from = From(s)
    BY <1>4, HasLeft
  <2>2. held[slot[q]].from = From(q) => slot[q] # h
    BY <1>1, <2>1
  <2>3. QED
    BY <1>4, <2>2, StaysHeld, HeldBySteps
<1>5. ASSUME Plan[s].action # "hold", NEW h, ResultHeld(s, h)
      PROVE  ResultHeld(s, h)' /\ (held[h].row = "held" => held'[h].row = "held")
  <2>1. held[h].from = To(s) /\ To(s) # From(q)
    BY <1>5, Apart DEF ResultHeld
  <2>2. held[slot[q]].from = From(q) => slot[q] # h
    BY <2>1
  <2>3. QED
    BY <1>5, <2>2, EntryStays, HeldBySteps DEF ResultHeld
<1>6. QED
  BY <1>2, <1>3, <1>4, <1>5 DEF HasRow, ResultKept

\* What can be undone still can when nothing that its undo looks at changes.
LEMMA StillUndoes ==
  ASSUME NEW s \in Step, NEW h, Undoes(s, h),
         Plan[s].action # "hold" => disk'[To(s)] = disk[To(s)],
         RowsAt(From(s)) = {} => RowsAt(From(s))' = {},
         HasRow(s, h) => HasRow(s, h)',
         Plan[s].action # "hold" /\ ResultKept(s) => ResultKept(s)'
  PROVE  Undoes(s, h)'
BY PlanTypes DEF Undoes, Moves, Converts

LEMMA OthersKeepUndo ==
  ASSUME Planned, Undisturbed, Control, InCustody, UndoKept, NEW q \in Step,
         Apply(q) \/ Undo(q) \/ Back(q) \/ Mark(q), NEW s \in Step \ {q}
  PROVE  (CanUndo(s) /\ UndoOK(s) /\ ApplyOK(s))'
<1>1. /\ pc'[s] = pc[s] /\ slot'[s] = slot[s] /\ heldBy'[s] = heldBy[s]
      /\ status'[s] = status[s] /\ outcome'[s] = outcome[s] /\ run' = run
  BY Neighbours
<1>2. /\ Plan[s].action # "hold" => disk'[To(s)] = disk[To(s)] /\ temp'[To(s)] = temp[To(s)]
      /\ RowsAt(From(s)) = {} => RowsAt(From(s))' = {}
      /\ \A h : (Has(s, h) => Has(s, h)') /\ (HasRow(s, h) => HasRow(s, h)')
      /\ Plan[s].action # "hold" => /\ \A h : ResultHeld(s, h) => ResultHeld(s, h)'
                                    /\ ResultKept(s) => ResultKept(s)'
  BY Unharmed DEF UndoKept
<1>3. Quiet' /\ refusals <= refusals'
  <2>1. [Next]_vars
    BY DEF Next, Execute
  <2>2. QED
    BY <2>1, StaysQuiet DEF UndoKept
<1>4. \A h : Undoes(s, h) => Undoes(s, h)'
  BY <1>2, StillUndoes
<1>5. CanUndo(s)'
  BY <1>1, <1>4 DEF UndoKept, CanUndo
<1>6. StepOK(s) /\ (Converts(s) \/ Moves(s) => Plan[s].action # "hold")
  BY DEF InCustody, Converts, Moves
<1>7. UndoOK(s)'
  <2>1. run = "undo" /\ pc[s] = "unholdInsert" => ResultHeld(s, slot[s])'
    <3>1. PICK k : k = slot[s]
      OBVIOUS
    <3>2. run = "undo" /\ pc[s] = "unholdInsert" => ResultHeld(s, k)'
      BY <1>2, <1>6, <3>1 DEF UndoKept, UndoOK, StepOK
    <3>3. QED
      BY <1>1, <3>1, <3>2 DEF ResultHeld
  <2>2. run = "undo" /\ pc[s] = "unhold" => disk'[To(s)] = Made(Plan[s].file)
    BY <1>2, <1>6 DEF UndoKept, UndoOK, StepOK
  <2>3. QED
    BY <1>1, <1>2, <1>6, <2>1, <2>2 DEF UndoKept, UndoOK, StepOK
<1>8. ApplyOK(s)'
  <2>1. run = "apply" /\ pc[s] \in {"recheck", "place"} => temp'[To(s)] = Made(Plan[s].file)
    BY <1>2, <1>6 DEF UndoKept, ApplyOK, StepOK
  <2>2. run = "apply" /\ pc[s] = "relocate" => disk'[To(s)] = Plan[s].file
    BY <1>2, <1>6 DEF UndoKept, ApplyOK, StepOK
  <2>3. run = "apply" /\ pc[s] = "record" /\ outcome[s] = "done" => Undoes(s, slot[s])'
    BY <1>1, <1>4 DEF UndoKept, ApplyOK
  <2>4. QED
    BY <1>1, <1>2, <1>6, <2>1, <2>2, <2>3 DEF UndoKept, ApplyOK
<1>9. QED
  BY <1>5, <1>7, <1>8

\* A step of a run comes to its end with what its undo needs.
LEMMA ApplyKeepsUndo ==
  ASSUME Planned, Undisturbed, Control, InCustody, UndoKept, MadeIsApart, NEW s \in Step, run = "apply",
         Apply(s) \/ Back(s) \/ Mark(s)
  PROVE  (CanUndo(s) /\ UndoOK(s) /\ ApplyOK(s))'
<1> USE DEF durable, volatile, counts, holdingVars, elsewhere
<1>1. /\ pc \in [Step -> PCs] /\ outcome \in [Step -> {"pending"} \cup Outcomes]
      /\ status \in [Step -> Statuses] /\ slot \in [Step -> Held \cup {0}]
      /\ heldBy \in [Step -> Held \cup {0}] /\ StepOK(s) /\ ApplyOK(s) /\ OwnTypes
      /\ disk \in [Path -> Contents \cup {NoFile}] /\ temp \in [Path -> Contents \cup {NoFile}]
      /\ run' = run /\ outside = {}
  BY Neighbours DEF Control, ControlTypes, InCustody, HandTypes, FilesOK, DiskOK, OwnTypes, UndoKept,
     Quiet
<1>2. /\ From(s) \in Path /\ To(s) \in Path /\ Plan[s].file = Start[From(s)] /\ Plan[s].file # NoFile
      /\ (Plan[s].action # "hold" => ~InPlace(s) /\ To(s) # From(s))
      /\ (~Converts(s) /\ ~Moves(s) <=> Plan[s].action = "hold") /\ ~(Converts(s) /\ Moves(s))
  BY PlanTypes, StartTypes, Apart DEF Moves, Converts
<1>3. pc[s] # "finished" /\ status[s] = "pending"
  BY AppliesAdvance DEF Advances, Control, RunControl
<1>4. Quiet' /\ refusals <= refusals'
  <2>1. [Next]_vars
    BY DEF Next, Execute
  <2>2. QED
    BY <2>1, StaysQuiet DEF UndoKept
<1>5. UndoOK(s)'
  BY <1>1 DEF UndoOK
<1>6. pc[s] \in Touching => disk[From(s)] = Plan[s].file
  BY <1>1, <1>2 DEF StepOK, Home
<1>7. ~Record(s) => CanUndo(s)'
  <2>1. ~Record(s) => status' = status
    BY DEF Apply, Check, MayStart, Hold, Insert, DropRow, Move, Relocate, Reserve, Encode, Recheck,
       Place, Back, Mark
  <2>2. QED
    BY <1>1, <1>3, <2>1 DEF CanUndo
<1>8. CASE Record(s)
  <2>1. pc'[s] = "finished" /\ status'[s] = outcome[s] /\ UNCHANGED <<disk, held, rowAt, refusals>>
    BY <1>1, <1>8 DEF Record, Goes
  <2>2. status'[s] = "done" => Undoes(s, slot[s]) /\ heldBy'[s] = slot[s]
    BY <1>1, <1>8, <2>1 DEF Record, ApplyOK
  <2>3. \A h : Undoes(s, h) => Undoes(s, h)'
    BY <2>1 DEF Undoes, HasRow, Has, ResultKept, ResultHeld, Held, RowsAt
  <2>4. CanUndo(s)'
    BY <2>2, <2>3 DEF CanUndo
  <2>5. QED
    BY <1>1, <1>5, <2>1, <2>4 DEF ApplyOK
<1>9. ASSUME pc'[s] \in {"waiting", "finished", "move", "reserve", "encode", "back", "mark"}
                \/ (pc'[s] = "record" /\ outcome'[s] # "done")
      PROVE  ApplyOK(s)'
  BY <1>9 DEF ApplyOK
<1>10. CASE Check(s)
  <2>1. CASE Plan[s].action = "hold" /\ Goes(s, "hold")
    <3>1. pc'[s] = "hold"
      BY <1>1, <2>1 DEF Goes
    <3>2. QED
      BY <1>2, <1>5, <1>7, <1>10, <2>1, <3>1 DEF ApplyOK, Check, MayStart, Record
  <2>2. CASE Errs(s, "skipped") \/ Settles(s, "skipped")
    BY <1>1, <1>5, <1>7, <1>9, <1>10, <2>2 DEF Check, Goes, Errs, Settles, MayStart, Record
  <2>3. CASE \E n \in {"move", "reserve", "encode"} : Goes(s, n)
    BY <1>1, <1>5, <1>7, <1>9, <1>10, <2>3 DEF Check, Goes, MayStart, Record
  <2>4. QED
    BY <1>10, <2>1, <2>2, <2>3 DEF Check
<1>11. CASE Hold(s)
  <2>1. CASE /\ PathExists(Plan[s].from) /\ MoveToHolding(Plan[s].from, batch)
             /\ slot' = [slot EXCEPT ![s] = Len(held) + 1] /\ Goes(s, "insert")
    <3>1. PICK e : e = [file |-> disk[From(s)], from |-> From(s), batch |-> batch,
                        at |-> "holding", row |-> "none"]
      OBVIOUS
    <3>2. e \in HeldFile /\ held' = Append(held, e) /\ disk[From(s)] = Plan[s].file
      BY <1>1, <1>2, <1>6, <1>11, <2>1, <3>1 DEF Hold, Touching, HeldFile, PathExists, MoveToHolding,
         OwnTypes, From
    <3>3. PICK n : n = Len(held) + 1
      OBVIOUS
    <3>4. n \in Held' /\ held'[n] = e
      BY <3>2, <3>3, Appended DEF InCustody, FilesOK, HeldOK
    <3>5. pc'[s] = "insert" /\ slot'[s] = n /\ Has(s, n)'
      BY <1>1, <2>1, <3>1, <3>2, <3>3, <3>4 DEF Goes, Has
    <3>6. ~Moves(s) /\ (Converts(s) => disk'[To(s)] = Made(Plan[s].file))
      <4>1. pc[s] = "hold"
        BY <1>11 DEF Hold
      <4>2. disk' = [disk EXCEPT ![From(s)] = NoFile]
        BY <2>1 DEF MoveToHolding, From
      <4>3. QED
        BY <1>1, <1>2, <4>1, <4>2 DEF ApplyOK
    <3>7. QED
      BY <1>5, <1>7, <1>11, <3>5, <3>6 DEF ApplyOK, Hold, Record
  <2>2. CASE Errs(s, "failed")
    BY <1>1, <1>5, <1>7, <1>9, <1>11, <2>2 DEF Goes, Errs, Settles, Hold, Record
  <2>3. QED
    BY <1>11, <2>1, <2>2 DEF Hold
<1>12. CASE Insert(s)
  <2>1. /\ Has(s, slot[s]) /\ ~Moves(s) /\ (Converts(s) => disk[To(s)] = Made(Plan[s].file))
        /\ held' = [held EXCEPT ![slot[s]].row = "held"] /\ UNCHANGED <<disk, slot>>
    BY <1>1, <1>12 DEF Insert, ApplyOK, InsertRow
  <2>2. HasRow(s, slot[s])'
    <3>1. held \in [Held -> HeldFile] /\ slot[s] \in Held
      BY <2>1, Entries DEF InCustody, FilesOK, HeldOK, Held, Has
    <3>2. QED
      BY <2>1, <3>1 DEF Has, HasRow, Held, HeldFile
  <2>3. pc'[s] = IF Plan[s].action = "hold" THEN "drop" ELSE "replace"
    BY <1>1, <1>2, <1>12 DEF Insert, Goes
  <2>4. ApplyOK(s)'
    BY <1>2, <2>1, <2>2, <2>3 DEF ApplyOK
  <2>5. QED
    BY <1>5, <1>7, <1>12, <2>4 DEF Insert, Record
<1>13. CASE DropRow(s)
  <2>1. Plan[s].action = "hold" /\ HasRow(s, slot[s]) /\ UNCHANGED <<held, slot>> /\ pc'[s] = "record"
    BY <1>1, <1>13 DEF DropRow, ApplyOK, Settles, Goes
  <2>2. Undoes(s, slot[s])'
    BY <1>2, <2>1 DEF Undoes, HasRow, Has, Held
  <2>3. QED
    BY <1>5, <1>7, <1>13, <2>1, <2>2 DEF DropRow, Record, ApplyOK
<1>14. CASE Move(s)
  <2>1. CASE /\ disk' = [disk EXCEPT ![Plan[s].from] = NoFile, ![Plan[s].to] = disk[Plan[s].from]]
             /\ Goes(s, "relocate")
    <3>1. disk'[To(s)] = Plan[s].file /\ pc'[s] = "relocate"
      BY <1>1, <1>2, <1>6, <1>14, <2>1 DEF Move, Touching, Goes, From, To
    <3>2. QED
      BY <1>5, <1>7, <1>14, <3>1 DEF ApplyOK, Move, Record
  <2>2. CASE Errs(s, "failed")
    BY <1>1, <1>5, <1>7, <1>9, <1>14, <2>2 DEF Goes, Errs, Settles, Move, Record
  <2>3. QED
    BY <1>14, <2>1, <2>2 DEF Move
<1>15. CASE Relocate(s)
  <2>1. CASE PointRow(From(s), To(s)) /\ Settles(s, "done")
    <3>1. UNCHANGED <<disk, held, slot, refusals>> /\ pc'[s] = "record"
      BY <1>1, <1>15, <2>1 DEF Relocate, Settles, Goes
    <3>2. Moves(s) => RowsAt(From(s))' = {}
      BY <1>1, <1>2, <2>1, Pointed DEF Moves
    <3>3. Undoes(s, slot[s])'
      BY <1>1, <1>2, <1>15, <3>1, <3>2 DEF Relocate, StepOK, ApplyOK, Undoes, HasRow, Has, Held,
         StepOK, Quiet, MadeIsApart, UndoKept
    <3>4. QED
      BY <1>5, <1>7, <1>15, <3>1, <3>3 DEF Relocate, Record, ApplyOK
  <2>2. CASE Errs(s, "failed")
    BY <1>1, <1>5, <1>7, <1>9, <1>15, <2>2 DEF Goes, Errs, Settles, Relocate, Record
  <2>3. QED
    BY <1>15, <2>1, <2>2 DEF Relocate, From, To
<1>16. CASE Reserve(s)
  BY <1>1, <1>5, <1>7, <1>9, <1>16 DEF Reserve, Goes, Record
<1>17. CASE Encode(s)
  <2>1. CASE temp' = [temp EXCEPT ![Plan[s].to] = Made(disk[Plan[s].from])] /\ Goes(s, "recheck")
    <3>1. temp'[To(s)] = Made(Plan[s].file) /\ pc'[s] = "recheck"
      BY <1>1, <1>2, <1>6, <1>17, <2>1 DEF Encode, Touching, Goes, From, To
    <3>2. QED
      BY <1>5, <1>7, <1>17, <3>1 DEF ApplyOK, Encode, Record
  <2>2. CASE Errs(s, "failed")
    BY <1>1, <1>5, <1>7, <1>9, <1>17, <2>2 DEF Goes, Errs, Settles, Encode, Record
  <2>3. QED
    BY <1>17, <2>1, <2>2 DEF Encode
<1>18. CASE Recheck(s)
  <2>1. CASE Settles(s, "skipped") \/ Errs(s, "skipped")
    BY <1>1, <1>5, <1>7, <1>9, <1>18, <2>1 DEF Goes, Errs, Settles, Recheck, Record
  <2>2. CASE Goes(s, "place") /\ temp' = temp
    BY <1>1, <1>5, <1>7, <1>18, <2>2 DEF Recheck, Record, Goes, ApplyOK
  <2>3. ~InPlace(s)
    BY <1>1, <1>2, <1>18 DEF Recheck, StepOK
  <2>4. QED
    BY <1>18, <2>1, <2>2, <2>3 DEF Recheck
<1>19. CASE Place(s)
  <2>1. ~InPlace(s) /\ Converts(s)
    BY <1>1, <1>2, <1>19 DEF Place, StepOK
  <2>2. CASE Errs(s, "failed")
    BY <1>1, <1>5, <1>7, <1>9, <1>19, <2>2 DEF Goes, Errs, Settles, Place, Record
  <2>3. CASE disk' = [disk EXCEPT ![Plan[s].to] = temp[Plan[s].to]] /\ Goes(s, "hold")
    <3>1. disk'[To(s)] = Made(Plan[s].file) /\ pc'[s] = "hold"
      BY <1>1, <1>2, <1>19, <2>3 DEF Place, ApplyOK, Goes, To
    <3>2. QED
      BY <1>2, <1>5, <1>7, <1>19, <2>1, <3>1 DEF ApplyOK, Place, Record
  <2>4. QED
    BY <1>19, <2>1, <2>2, <2>3 DEF Place
<1>20. CASE Back(s) \/ Mark(s)
  BY <1>1, <1>5, <1>7, <1>9, <1>20 DEF Back, Mark, Goes, Errs, Settles, Record
<1>21. QED
  BY <1>8, <1>10, <1>11, <1>12, <1>13, <1>14, <1>15, <1>16, <1>17, <1>18, <1>19, <1>20 DEF Apply

\* An undo that is cut short by a refusal leaves what the next one needs.
LEMMA UndoKeepsUndo ==
  ASSUME Planned, Undisturbed, MadeIsApart, Control, InCustody, UndoKept, NEW s \in Step,
         run = "undo", Undo(s) \/ Back(s) \/ Mark(s)
  PROVE  (CanUndo(s) /\ UndoOK(s) /\ ApplyOK(s))'
<1> USE DEF durable, volatile, counts, holdingVars, elsewhere
<1>1. /\ pc \in [Step -> PCs] /\ status \in [Step -> Statuses] /\ slot \in [Step -> Held \cup {0}]
      /\ StepOK(s) /\ UndoOK(s) /\ CanUndo(s) /\ refusals \in Nat
      /\ disk \in [Path -> Contents \cup {NoFile}] /\ run' = run
  BY Neighbours DEF Control, ControlTypes, InCustody, HandTypes, FilesOK, DiskOK, UndoKept, Quiet
<1>2. /\ From(s) \in Path /\ To(s) \in Path /\ Plan[s].file # NoFile /\ Made(Plan[s].file) # NoFile
      /\ (Plan[s].action # "hold" => To(s) # From(s))
      /\ (~Converts(s) /\ ~Moves(s) <=> Plan[s].action = "hold") /\ ~(Converts(s) /\ Moves(s))
  BY PlanTypes, StartTypes, Apart DEF Moves, Converts, MadeIsApart
<1>3. Undoing(s) /\ status[s] = "done"
  <2>1. Undoing(s)
    BY DEF Undo, UndoCheck, Unhold, UnholdInsert, Look, Repoint, Return, RelocateBack, MarkUndone,
       UndoFailed, Back, Mark, Undoing, Control, RunControl
  <2>2. QED
    BY <2>1 DEF Undoing, Newest, Control, RunControl, DoneSteps
<1>4. Quiet' /\ refusals <= refusals'
  <2>1. [Next]_vars
    BY DEF Next, Execute
  <2>2. QED
    BY <2>1, StaysQuiet DEF UndoKept
<1>5. ApplyOK(s)'
  BY <1>1 DEF ApplyOK
<1>6. pc[s] \in {"finished", "failed", "return", "unhold"} => Undoes(s, heldBy[s])
  BY <1>1, <1>3 DEF CanUndo
<1>7. ASSUME pc'[s] \in {"mark", "repoint", "undone"}
      PROVE  (CanUndo(s) /\ UndoOK(s) /\ ApplyOK(s))'
  BY <1>1, <1>5, <1>7 DEF CanUndo, UndoOK
<1>8. ASSUME pc'[s] \in {"finished", "failed", "return"}, heldBy' = heldBy, Undoes(s, heldBy[s]),
             UNCHANGED <<disk, held, rowAt>>
      PROVE  (CanUndo(s) /\ UndoOK(s) /\ ApplyOK(s))'
  <2>1. /\ \A h : (RowsAt(From(s)) = {} => RowsAt(From(s))' = {}) /\ (HasRow(s, h) => HasRow(s, h)')
        /\ ResultKept(s) => ResultKept(s)'
    BY <1>8 DEF RowsAt, HasRow, Has, ResultKept, ResultHeld, Held
  <2>2. \A h : Undoes(s, h) => Undoes(s, h)'
    BY <1>8, <2>1, StillUndoes
  <2>3. QED
    BY <1>5, <1>8, <2>2 DEF CanUndo, UndoOK
<1>9. CASE UndoCheck(s)
  <2>1. /\ UNCHANGED <<disk, held, rowAt, heldBy, status>> /\ slot'[s] = heldBy[s]
        /\ Undoes(s, heldBy[s])
    BY <1>1, <1>6, <1>9 DEF UndoCheck, Original
  <2>2. HasRow(s, heldBy[s]) => HasRow(s, heldBy[s])'
    BY <2>1 DEF HasRow, Has, Held
  <2>3. CASE pc'[s] \in {"failed", "return"}
    BY <1>8, <2>1, <2>3
  <2>4. CASE pc'[s] = "back"
    <3>1. Plan[s].action = "hold"
      BY <1>1, <1>9, <2>4 DEF UndoCheck, Goes
    <3>2. HasRow(s, heldBy[s])' /\ ~Moves(s) /\ ~Converts(s)
      BY <1>2, <2>1, <2>2, <3>1 DEF Undoes
    <3>3. QED
      BY <1>1, <1>5, <2>1, <2>4, <3>2 DEF CanUndo, UndoOK
  <2>5. CASE pc'[s] = "look"
    <3>1. Converts(s) /\ disk[To(s)] = NoFile
      BY <1>1, <1>2, <1>9, <2>5 DEF UndoCheck, Goes, Moves, PathExists, To
    <3>2. HasRow(s, heldBy[s])' /\ ~Moves(s) /\ ResultKept(s)'
      BY <1>2, <2>1, <2>2, <3>1 DEF Undoes, ResultKept, ResultHeld, Held
    <3>3. QED
      BY <1>1, <1>5, <2>1, <2>5, <3>1, <3>2 DEF CanUndo, UndoOK
  <2>6. CASE pc'[s] = "unhold"
    <3>1. Converts(s) /\ disk[To(s)] = Made(Plan[s].file)
      BY <1>1, <1>2, <1>9, <2>6 DEF UndoCheck, Goes, Moves, To
    <3>2. \A h : Undoes(s, h) => Undoes(s, h)'
      BY <1>2, <2>1, <3>1 DEF Undoes, HasRow, Has, ResultKept, ResultHeld, Held, RowsAt
    <3>3. QED
      BY <1>5, <2>1, <2>6, <3>1, <3>2 DEF CanUndo, UndoOK
  <2>7. QED
    BY <1>1, <1>9, <2>3, <2>4, <2>5, <2>6 DEF UndoCheck, Goes
<1>10. CASE Unhold(s)
  <2>1. pc[s] = "unhold" /\ Converts(s) /\ disk[To(s)] = Made(Plan[s].file) /\ Undoes(s, heldBy[s])
        /\ heldBy' = heldBy
    BY <1>1, <1>6, <1>10 DEF Unhold, StepOK, UndoOK
  <2>2. CASE Goes(s, "failed") /\ UNCHANGED <<disk, held>>
    BY <1>1, <1>8, <1>10, <2>1, <2>2 DEF Unhold, Goes
  <2>3. CASE PathExists(Plan[s].to) /\ MoveToHolding(Plan[s].to, batch) /\ Goes(s, "unholdInsert")
    <3>1. pc'[s] = "unholdInsert" /\ disk'[To(s)] = NoFile
      BY <1>1, <1>2, <2>3 DEF Goes, MoveToHolding, To
    <3>2. HasRow(s, heldBy[s])
      BY <2>1 DEF Undoes
    <3>3. \E e \in HeldFile : held' = Append(held, e)
      <4>1. [file |-> disk[To(s)], from |-> To(s), batch |-> batch, at |-> "holding", row |-> "none"]
              \in HeldFile
        BY <1>1, <1>2, <2>3 DEF HeldFile, PathExists, InCustody, OwnTypes, To
      <4>2. QED
        BY <2>3, <4>1 DEF MoveToHolding, To
    <3>4. \A h : HasRow(s, h) => HasRow(s, h)'
      BY <3>3, StaysHeld DEF HasRow
    <3>5. ResultHeld(s, slot[s])'
      <4>1. /\ slot'[s] = Len(held) + 1
            /\ held' = Append(held, [file |-> disk[To(s)], from |-> To(s), batch |-> batch,
                                     at |-> "holding", row |-> "none"])
        BY <1>1, <1>10, <2>3, <3>1 DEF Unhold, Goes, MoveToHolding, To
      <4>2. held \in Seq(HeldFile)
        BY DEF InCustody, FilesOK, HeldOK
      <4>3. QED
        BY <2>1, <4>1, <4>2 DEF ResultHeld, Held
    <3>6. QED
      BY <1>1, <1>2, <1>5, <2>1, <3>1, <3>2, <3>4, <3>5 DEF CanUndo, UndoOK
  <2>4. QED
    BY <1>10, <2>2, <2>3 DEF Unhold
<1>11. CASE UnholdInsert(s)
  <2>1. /\ ~Moves(s) /\ HasRow(s, heldBy[s]) /\ (Converts(s) => disk[To(s)] = NoFile)
        /\ UNCHANGED <<disk, heldBy>> /\ pc'[s] = "look" /\ slot'[s] = heldBy[s]
        /\ held' = [held EXCEPT ![slot[s]].row = "held"]
    BY <1>1, <1>11 DEF UnholdInsert, UndoOK, Goes, InsertRow, Original
  <2>2. \A h : HasRow(s, h) => HasRow(s, h)'
    BY <2>1, StaysHeld DEF HasRow
  <2>3. ResultKept(s)'
    <3>1. PICK k : k = slot[s]
      OBVIOUS
    <3>2. ResultHeld(s, k) /\ held \in [Held -> HeldFile]
      BY <1>1, <1>11, <3>1, Entries DEF UnholdInsert, UndoOK, InCustody, FilesOK, HeldOK, Held
    <3>3. held' = [held EXCEPT ![k].row = "held"]
      BY <2>1, <3>1
    <3>4. ResultHeld(s, k)' /\ held'[k].row = "held"
      BY <3>2, <3>3 DEF ResultHeld, Held, HeldFile
    <3>5. QED
      BY <3>4 DEF ResultKept
  <2>4. QED
    BY <1>1, <1>5, <2>1, <2>2, <2>3 DEF CanUndo, UndoOK
<1>12. CASE Look(s)
  <2>1. /\ ~Moves(s) /\ HasRow(s, heldBy[s]) /\ (Converts(s) => disk[To(s)] = NoFile)
        /\ slot[s] = heldBy[s] /\ UNCHANGED <<disk, held, heldBy, slot>>
        /\ (Converts(s) => ResultKept(s))
    BY <1>1, <1>12 DEF Look, UndoOK
  <2>2. held[heldBy[s]].from = From(s) /\ disk[From(s)] = NoFile
    BY <2>1, HasLeft DEF HasRow
  <2>3. pc'[s] = "back"
    BY <1>1, <1>12, <2>1, <2>2 DEF Look, MayRestore, Restorable, HasRow, Has, PathExists, Goes
  <2>4. HasRow(s, heldBy[s])' /\ (Converts(s) => ResultKept(s)')
    BY <2>1 DEF HasRow, Has, ResultKept, ResultHeld, Held
  <2>5. QED
    BY <1>1, <1>5, <2>1, <2>3, <2>4 DEF CanUndo, UndoOK
<1>13. CASE Back(s)
  <2>1. /\ ~Moves(s) /\ HasRow(s, heldBy[s]) /\ (Converts(s) => disk[To(s)] = NoFile)
        /\ slot[s] = heldBy[s] /\ UNCHANGED <<heldBy, rowAt>> /\ (Converts(s) => ResultKept(s))
    BY <1>1, <1>13 DEF Back, UndoOK
  <2>2. CASE Goes(s, "mark")
    BY <1>1, <1>7, <2>2 DEF Goes
  <2>3. CASE Goes(s, "failed") /\ UNCHANGED <<disk, held>>
    <3>1. pc'[s] = "failed"
      BY <1>1, <2>3 DEF Goes
    <3>2. (\A h : HasRow(s, h) => HasRow(s, h)') /\ (ResultKept(s) => ResultKept(s)')
      BY <2>3 DEF HasRow, Has, ResultKept, ResultHeld, Held
    <3>3. Undoes(s, heldBy[s])'
      BY <1>2, <2>1, <2>3, <3>1, <3>2 DEF Undoes
    <3>4. QED
      BY <1>5, <3>1, <3>3 DEF CanUndo, UndoOK
  <2>4. QED
    BY <1>13, <2>1, <2>2, <2>3 DEF Back, HasRow, Has
<1>14. CASE Mark(s)
  BY <1>1, <1>7, <1>14 DEF Mark, Goes
<1>15. CASE Repoint(s)
  BY <1>1, <1>7, <1>15 DEF Repoint, Goes
<1>16. CASE Return(s)
  <2>1. Moves(s) /\ Undoes(s, heldBy[s]) /\ UNCHANGED <<held, heldBy, rowAt>>
    BY <1>1, <1>6, <1>16 DEF Return, StepOK
  <2>2. CASE Goes(s, "failed") /\ disk' = disk
    BY <1>1, <1>8, <2>1, <2>2 DEF Goes
  <2>3. CASE Goes(s, "relocateBack")
    <3>1. pc'[s] = "relocateBack" /\ RowsAt(From(s))' = {}
      BY <1>1, <2>1, <2>3 DEF Goes, Undoes, RowsAt
    <3>2. QED
      BY <1>1, <1>5, <3>1 DEF CanUndo, UndoOK
  <2>4. QED
    BY <1>16, <2>2, <2>3 DEF Return
<1>17. CASE RelocateBack(s)
  <2>1. RowsAt(From(s)) = {}
    BY <1>1, <1>17 DEF RelocateBack, UndoOK
  <2>2. pc'[s] = "undone"
    BY <1>1, <1>17, <2>1 DEF RelocateBack, RowBlocked, Goes, From
  <2>3. QED
    BY <1>7, <2>2
<1>18. CASE MarkUndone(s)
  <2>1. status'[s] = "undone" /\ pc'[s] = "finished"
    BY <1>1, <1>18 DEF MarkUndone, Goes
  <2>2. QED
    BY <1>5, <2>1 DEF CanUndo, UndoOK
<1>19. CASE UndoFailed(s)
  <2>1. Undoes(s, heldBy[s]) /\ UNCHANGED <<disk, held, rowAt, heldBy>>
    BY <1>6, <1>19 DEF UndoFailed
  <2>2. pc'[s] \in {"undone", "finished"}
    BY <1>1, <1>19 DEF UndoFailed, Goes
  <2>3. QED
    BY <1>7, <1>8, <2>1, <2>2
<1>20. QED
  BY <1>9, <1>10, <1>11, <1>12, <1>13, <1>14, <1>15, <1>16, <1>17, <1>18, <1>19 DEF Undo

\* A run that begins, ends or crashes leaves what every step needs.
LEMMA BesideKeepsUndo ==
  ASSUME Undisturbed, Control, UndoKept,
         \/ StartApply \/ StartUndo \/ Stop \/ EndApply \/ EndUndo \/ Crash \/ Recover
         \/ UNCHANGED vars, NEW s \in Step
  PROVE  (CanUndo(s) /\ UndoOK(s) /\ ApplyOK(s))'
<1> USE DEF durable, volatile, counts, holdingVars
<1>1. /\ UNCHANGED <<disk, held, rowAt, heldBy, status, refusals>>
      /\ CanUndo(s) /\ UndoOK(s) /\ ApplyOK(s)
  BY DEF StartApply, StartUndo, Stop, EndApply, EndUndo, Crash, Recover, vars, UndoKept
<1>2. \A h : Undoes(s, h)' <=> Undoes(s, h)
  BY <1>1 DEF Undoes, HasRow, Has, ResultKept, ResultHeld, Held, RowsAt
<1>3. CASE UNCHANGED <<temp, pc, slot, outcome, run>>
  <2>1. /\ \A h : (Has(s, h)' <=> Has(s, h)) /\ (HasRow(s, h)' <=> HasRow(s, h))
        /\ \A h : ResultHeld(s, h)' <=> ResultHeld(s, h)
        /\ ResultKept(s)' <=> ResultKept(s)
    BY <1>1 DEF Has, HasRow, ResultHeld, ResultKept, Held
  <2>2. RowsAt(From(s))' = RowsAt(From(s))
    BY <1>1 DEF RowsAt
  <2>3. QED
    BY <1>1, <1>2, <1>3, <2>1, <2>2 DEF CanUndo, UndoOK, ApplyOK
<1>4. ASSUME run # "undo" \/ pc[s] = "finished", run' = "idle"
      PROVE  (CanUndo(s) /\ UndoOK(s) /\ ApplyOK(s))'
  BY <1>1, <1>2, <1>4 DEF CanUndo, UndoOK, ApplyOK
<1>5. CASE StartApply
  BY <1>1, <1>2, <1>5 DEF StartApply, CanUndo, UndoOK, ApplyOK
<1>6. CASE StartUndo
  <2>1. pc'[s] \in {"waiting", "finished"} /\ run' = "undo" /\ run = "idle"
    BY <1>6 DEF StartUndo, Control, RunControl
  <2>2. QED
    BY <1>1, <1>2, <2>1 DEF CanUndo, UndoOK, ApplyOK
<1>7. CASE EndApply
  BY <1>4, <1>7 DEF EndApply
<1>8. CASE EndUndo
  <2>1. CASE todo = {}
    BY <1>4, <1>8, <2>1 DEF EndUndo, Control, RunControl, Newest
  <2>2. CASE \E q \in todo : Newest(q) /\ pc[q] = "finished"
    <3>1. PICK q \in todo : Newest(q) /\ pc[q] = "finished"
      BY <2>2
    <3>2. pc[s] = "finished"
      BY <1>8, <3>1, OneNewest DEF EndUndo, Control, RunControl
    <3>3. QED
      BY <1>4, <1>8, <3>2 DEF EndUndo
  <2>3. QED
    BY <1>8, <2>1, <2>2 DEF EndUndo
<1>9. CASE Crash
  BY <1>4, <1>9 DEF Crash, Undisturbed
<1>10. CASE Recover
  <2>1. run = "idle" /\ run' = "idle"
    BY <1>10 DEF Recover, Control, ControlTypes, RunControl
  <2>2. QED
    BY <1>4, <2>1
<1>11. QED
  BY <1>3, <1>5, <1>6, <1>7, <1>8, <1>9, <1>10 DEF Stop, vars

LEMMA UndoStep ==
  ASSUME Planned, Undisturbed, MadeIsApart, Control, InCustody, UndoKept, [Next]_vars
  PROVE  UndoKept'
<1>1. Quiet' /\ ~Page /\ ~OtherPrograms
  BY StaysQuiet DEF UndoKept
<1>2. ASSUME NEW q \in Step, Apply(q) \/ Undo(q) \/ Back(q) \/ Mark(q), NEW s \in Step
      PROVE  (CanUndo(s) /\ UndoOK(s) /\ ApplyOK(s))'
  <2>1. CASE s # q
    BY <1>2, <2>1, OthersKeepUndo
  <2>2. run \in {"apply", "undo"} /\ (Apply(q) => run = "apply") /\ (Undo(q) => run = "undo")
    BY <1>2 DEF Control, ControlTypes, RunControl, Apply, Check, MayStart, Hold, Insert, DropRow, Move,
       Relocate, Reserve, Encode, Recheck, Place, Record, Undo, UndoCheck, Unhold, UnholdInsert, Look,
       Repoint, Return, RelocateBack, MarkUndone, UndoFailed, Undoing, Back, Mark
  <2>3. CASE s = q
    BY <1>2, <2>2, <2>3, ApplyKeepsUndo, UndoKeepsUndo
  <2>4. QED
    BY <2>1, <2>3
<1>3. ASSUME NEW s \in Step
      PROVE  (CanUndo(s) /\ UndoOK(s) /\ ApplyOK(s))'
  BY <1>1, <1>2, BesideKeepsUndo DEF Next, Execute
<1>4. QED
  BY <1>1, <1>3 DEF UndoKept

LEMMA UndoHolds ==
  ASSUME Planned, MadeIsApart, Undisturbed
  PROVE  Spec => []UndoKept
<1>1. Control /\ InCustody /\ UndoKept /\ [Next]_vars => UndoKept'
  BY UndoStep
<1>2. QED
  BY <1>1, UndoInit, CustodyHolds, PTL DEF Spec

(***************************************************************************)
(* Every finished step can be undone (FinishedStepsCanBeUndone): of every  *)
(* plan, on any number of lanes, whatever is refused or stopped, after an  *)
(* undo that failed and after crashes, as long as nobody else touches the  *)
(* files and no crash is inside an undo (executor.rs's header).            *)
(***************************************************************************)
THEOREM FinishedCanBeUndone ==
  ASSUME Planned, MadeIsApart, Undisturbed
  PROVE  Spec => []FinishedStepsCanBeUndone
<1>1. UndoKept => FinishedStepsCanBeUndone
  <2> SUFFICES ASSUME UndoKept, Rests, NEW s \in DoneSteps
               PROVE  CASE Plan[s].action = "hold" -> HoldsFileOf(s)
                        [] Plan[s].action = "move" -> disk[Plan[s].to] = Plan[s].file
                        [] OTHER -> /\ HoldsFileOf(s)
                                    /\ PathExists(Plan[s].to) => disk[Plan[s].to] = Made(Plan[s].file)
    BY DEF FinishedStepsCanBeUndone
  <2>1. s \in Step /\ Undoes(s, heldBy[s])
    BY DEF DoneSteps, UndoKept, CanUndo, Rests
  <2>2. HasRow(s, heldBy[s]) => HoldsFileOf(s)
    BY DEF HasRow, Has, HoldsFileOf, Restorable
  <2>3. Plan[s].action \in {"hold", "move", "still", "video"}
    BY <2>1, PlanTypes DEF Actions
  <2>4. QED
    BY <2>1, <2>2, <2>3 DEF Undoes, Moves, Converts, PathExists, To
<1>2. QED
  BY <1>1, UndoHolds, PTL

(***************************************************************************)
(* An undo that fails keeps what the conversion made                       *)
(* (FailedUndoKeepsTheResult): undo_step sends the result to holding, and  *)
(* the return of the original may be refused after that, at any of its     *)
(* touches and in each of any number of undos. The result is at its target *)
(* or in holding with its row, whatever stopped the undo. The premises are *)
(* those of FinishedCanBeUndone: refusals are theirs to meet, other        *)
(* programs and the page are not, and no crash is inside an undo.          *)
(***************************************************************************)
THEOREM FailedUndoKeepsResult ==
  ASSUME Planned, MadeIsApart, Undisturbed
  PROVE  Spec => []FailedUndoKeepsTheResult
<1>1. UndoKept => FailedUndoKeepsTheResult
  <2> SUFFICES ASSUME UndoKept, Rests, NEW s \in DoneSteps, Converts(s)
               PROVE  \/ disk[Plan[s].to] = Made(Plan[s].file)
                      \/ \E h \in Held : Restorable(h) /\ held[h].file = Made(Plan[s].file)
                                         /\ held[h].from = Plan[s].to
    BY DEF FailedUndoKeepsTheResult
  <2>1. Undoes(s, heldBy[s])
    BY DEF DoneSteps, UndoKept, CanUndo, Rests
  <2>2. disk[To(s)] = Made(Plan[s].file) \/ ResultKept(s)
    BY <2>1 DEF Undoes
  <2>3. QED
    BY <2>2 DEF ResultKept, ResultHeld, Restorable, To
<1>2. QED
  BY <1>1, UndoHolds, PTL
=============================================================================
