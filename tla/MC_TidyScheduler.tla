-------------------------- MODULE MC_TidyScheduler --------------------------
(* Small instances of Tidy's scheduler: two folders, a scan, a change and   *)
(* the background analysis of each folder.                                  *)
EXTENDS TidyScheduler

CONSTANTS scan, change, analysis1, analysis2, photos, videos

TwoAndOne == {scan, change, analysis1}
TwoAndTwo == {scan, change, analysis1, analysis2}
OneAndTwo == {scan, analysis1, analysis2}

Folders == [w \in Work |-> IF w \in {change, analysis2} THEN videos ELSE photos]
Asked == Work \cap {scan, change}
=============================================================================
