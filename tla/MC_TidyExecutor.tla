--------------------------- MODULE MC_TidyExecutor ---------------------------
(* Small plans for Tidy's executor: two duplicates that each go in favour   *)
(* of the other with two moves to one place after them; two stills on two   *)
(* lanes with a video re-encoded in place; and plans of one step.           *)
EXTENDS TidyExecutor

CONSTANTS a, b, c, d, e, f, fileA, fileB, fileC, fileD, other

StepOf(action, from, to, keepers) ==
    [action |-> action, from |-> from, to |-> to, file |-> Start[from], keepers |-> keepers,
     bytes |-> IF from = a THEN 1 ELSE 3]

ThreeFiles == [p \in Path |-> CASE p = a -> fileA [] p = b -> fileB [] p = c -> fileC
                                [] OTHER -> NoFile]
FourFiles == [p \in Path |-> CASE p = a -> fileA [] p = b -> fileB [] p = c -> fileC
                               [] p = f -> fileD [] OTHER -> NoFile]
OneFile == [p \in Path |-> IF p = a THEN fileA ELSE NoFile]

Duplicates == << StepOf("hold", a, a, {b}), StepOf("hold", b, b, {a}),
                 StepOf("move", c, d, {}), StepOf("move", f, d, {}) >>
Conversions == << StepOf("still", a, d, {}), StepOf("video", c, c, {}),
                  StepOf("still", b, e, {}) >>
OneStill == << StepOf("still", a, b, {}) >>
OneHold  == << StepOf("hold", a, a, {}) >>
InPlaceVideo == << StepOf("video", a, a, {}) >>
=============================================================================
