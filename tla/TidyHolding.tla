----------------------------- MODULE TidyHolding -----------------------------
(***************************************************************************)
(* Tidy's holding (core-tidy, plans/holding.rs): where a change puts the   *)
(* files it takes out of a root, the catalog's rows about them, and the    *)
(* Holding page's two operations, Restore and Empty to Trash, which run on *)
(* threads of their own beside whatever change is running.                 *)
(*                                                                         *)
(* A file is its contents: two paths with the same value hold the same     *)
(* bytes, and a check of size and dates tells different contents apart.    *)
(* Holding a file and restoring one each take two steps, the move on disk  *)
(* and the catalog's row, with anything in between.                        *)
(***************************************************************************)
EXTENDS Naturals, Sequences, FiniteSets

CONSTANTS
    Path,      \* the paths in the root that matter
    File,      \* the files the root holds at first, each in one place
    Foreign,   \* the files other programs bring, one write each
    NoFile,    \* nothing is there
    Start,     \* which file is at each path at first
    MaxPresses \* bounds the presses on the Holding page

ASSUME HoldingAssumption ==
    /\ NoFile \notin File \cup Foreign
    /\ File \cap Foreign = {}
    /\ Start \in [Path -> File \cup {NoFile}]
    /\ \A f \in File : \E p \in Path : \A q \in Path : Start[q] = f <=> q = p
    /\ MaxPresses \in Nat

\* What converting a file makes.
Made(f) == <<"made", f>>

VARIABLES
    disk,    \* what is at each path of the root
    held,    \* every file that was moved to holding, in order, with its row
    page,    \* what the Holding page is doing
    presses, \* how many presses there have been
    brought, \* the files other programs have brought
    outside  \* what other programs have overwritten themselves

holdingVars == <<disk, held, page, presses, brought, outside>>

Held == DOMAIN held

PathExists(p) == disk[p] # NoFile

-----------------------------------------------------------------------------
(* The operations of holding, which the page and the executor share. *)

\* hold_file's move_file: the file leaves for its batch folder, under a name that is free there.
MoveToHolding(p, batch) ==
    /\ held' = Append(held, [file |-> disk[p], from |-> p, batch |-> batch,
                             at |-> "holding", row |-> "none"])
    /\ disk' = [disk EXCEPT ![p] = NoFile]

\* hold_file's INSERT.
InsertRow(h) == held' = [held EXCEPT ![h].row = "held"]

\* restorable, and restore_held's look at the original path.
Restorable(h) == h \in Held /\ held[h].row = "held" /\ held[h].at = "holding"
\* With the look at the original path turned round.
MayRestoreOver(h) == Restorable(h) /\ PathExists(held[h].from)
MayRestore(h) == Restorable(h) /\ ~PathExists(held[h].from)

\* restore_held's move_file: a rename, which overwrites what is at the path by now.
MoveBack(h) ==
    /\ disk' = [disk EXCEPT ![held[h].from] = held[h].file]
    /\ held' = [held EXCEPT ![h].at = "back"]

\* restore_held's UPDATE.
MarkRestored(h) == held' = [held EXCEPT ![h].row = "restored"]

\* held_batch_paths.
HeldBatches == {held[h].batch : h \in {k \in Held : held[k].row = "held"}}

-----------------------------------------------------------------------------
(* The Holding page.  It does one thing at a time (its busy flag). *)

Idle == [doing |-> "nothing", id |-> 0, batches |-> {}, trashed |-> {}]

\* restore_holding, for one file, up to its checks.  One that fails them stays held.
PressRestore(h) ==
    /\ page = Idle /\ presses < MaxPresses
    /\ MayRestore(h)
    /\ presses' = presses + 1
    /\ page' = [Idle EXCEPT !.doing = "restoring", !.id = h]
    /\ UNCHANGED <<disk, held, brought, outside>>

RestoreMove ==
    /\ page.doing = "restoring"
    /\ IF held[page.id].at = "holding"
       THEN MoveBack(page.id) /\ page' = [page EXCEPT !.doing = "marking"]
       ELSE UNCHANGED <<disk, held>> /\ page' = Idle
    /\ UNCHANGED <<presses, brought, outside>>

RestoreMark ==
    /\ page.doing = "marking"
    /\ MarkRestored(page.id)
    /\ page' = Idle
    /\ UNCHANGED <<disk, presses, brought, outside>>

\* empty_holding's list of batches.
PressEmpty ==
    /\ page = Idle /\ presses < MaxPresses
    /\ HeldBatches # {}
    /\ presses' = presses + 1
    /\ page' = [Idle EXCEPT !.doing = "trashing", !.batches = HeldBatches]
    /\ UNCHANGED <<disk, held, brought, outside>>

\* The Trash takes a batch's folder, with whatever is in it, or refuses it.
TrashBatch(batch) ==
    /\ page.doing = "trashing" /\ batch \in page.batches
    /\ \/ /\ held' = [h \in Held |->
                        IF held[h].batch = batch /\ held[h].at = "holding"
                        THEN [held[h] EXCEPT !.at = "trash"] ELSE held[h]]
          /\ page' = [page EXCEPT !.batches = @ \ {batch}, !.trashed = @ \cup {batch}]
       \/ page' = [page EXCEPT !.batches = @ \ {batch}] /\ UNCHANGED held
    /\ UNCHANGED <<disk, presses, brought, outside>>

\* mark_batches_emptied, one UPDATE for each batch that went.
MarkEmptied(batch) ==
    /\ page.doing = "trashing" /\ page.batches = {} /\ batch \in page.trashed
    /\ held' = [h \in Held |->
                  IF held[h].batch = batch /\ held[h].row = "held"
                  THEN [held[h] EXCEPT !.row = "emptied"] ELSE held[h]]
    /\ page' = [page EXCEPT !.trashed = @ \ {batch}]
    /\ UNCHANGED <<disk, presses, brought, outside>>

EndEmpty ==
    /\ page.doing = "trashing" /\ page.batches = {} /\ page.trashed = {}
    /\ page' = Idle
    /\ UNCHANGED <<disk, held, presses, brought, outside>>

\* What the page does once it has been pressed.
PageStep ==
    \/ RestoreMove \/ RestoreMark \/ EndEmpty
    \/ \E batch \in page.batches : TrashBatch(batch)
    \/ \E batch \in page.trashed : MarkEmptied(batch)

-----------------------------------------------------------------------------
(* Other programs write in the root whenever they like. *)

Write(c, p) ==
    /\ c \in Foreign \ brought
    /\ disk' = [disk EXCEPT ![p] = c]
    /\ brought' = brought \cup {c}
    /\ outside' = outside \cup ({disk[p]} \ {NoFile})
    /\ UNCHANGED <<held, page, presses>>

HoldingInit ==
    /\ disk = Start
    /\ held = <<>>
    /\ page = Idle
    /\ presses = 0
    /\ brought = {}
    /\ outside = {}
=============================================================================
