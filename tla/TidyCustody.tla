----------------------------- MODULE TidyCustody -----------------------------
(***************************************************************************)
(* What Tidy promises about the files it is given (executor.rs, "nothing   *)
(* is deleted"): each of the owner's files is in the root, in holding or   *)
(* in the Trash.  It leaves the root only for holding and holding only for *)
(* the root or the Trash; only another program may take it out of the root *)
(* for good.                                                               *)
(***************************************************************************)
CONSTANT File

VARIABLE where \* where each file is

Hold(f) == where[f] = "root" /\ where' = [where EXCEPT ![f] = "holding"]

PutBack(f) == where[f] = "holding" /\ where' = [where EXCEPT ![f] = "root"]

\* The Trash takes a batch at a time.
Trash(S) ==
    /\ \A f \in S : where[f] = "holding"
    /\ where' = [f \in File |-> IF f \in S THEN "trash" ELSE where[f]]

Overwrite(f) == where[f] = "root" /\ where' = [where EXCEPT ![f] = "overwritten"]

Init == where = [f \in File |-> "root"]

Next ==
    \/ \E f \in File : Hold(f) \/ PutBack(f) \/ Overwrite(f)
    \/ \E S \in SUBSET File : Trash(S)

Spec == Init /\ [][Next]_where
=============================================================================
