--------------------------- MODULE MCPhotoStorage ---------------------------
(***************************************************************************)
(* Model-checking instance of PhotoStorage: every way for a few requests   *)
(* to overlap, on one event with one photo of an earlier release.          *)
(***************************************************************************)
EXTENDS PhotoStorage

CONSTANTS u1, u2, l1, c1, t1, t2, r1, s1, d1

TwoUploads == {u1, u2}
OneLegacy == {l1}
OneContent == {c1}
\* All three photos have the same content; only u1 has an idempotency key.
SameContent == [p \in Photos |-> c1]
FirstHasKey == [u \in Uploads |-> IF u = u1 THEN "key" ELSE None]
TwoThumbnails == {t1, t2}
OneRemoval == {r1}
OneSelfie == {s1}
OneDeletion == {d1}
=============================================================================
