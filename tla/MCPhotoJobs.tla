---------------------------- MODULE MCPhotoJobs ----------------------------
(***************************************************************************)
(* Model-checking instance of PhotoJobs.                                   *)
(***************************************************************************)
EXTENDS PhotoJobs, TLC

CONSTANTS p1, p2

OnePhoto == {p1}
TwoPhotos == {p1, p2}

\* p1's jobs were created before p2's.
FirstThenSecond == [p \in Photos |-> IF p = p1 THEN 1 ELSE 2]
=============================================================================
