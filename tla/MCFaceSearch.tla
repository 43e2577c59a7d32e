---------------------------- MODULE MCFaceSearch ----------------------------
(***************************************************************************)
(* Model-checking instance of FaceSearch.                                  *)
(***************************************************************************)
EXTENDS FaceSearch, TLC

CONSTANTS s1, s2

OneSelfie == {s1}
TwoSelfies == {s1, s2}
S1First == [s \in Selfies |-> IF s = s1 THEN 1 ELSE 2]
=============================================================================
