----------------------------- MODULE MCAdmission -----------------------------
(* Limits of a few hits in windows of one or two time units. One web process *)
(* with one slot: a second request at once is one that came without.         *)
EXTENDS Admission, TLC

CONSTANTS r1, r2, v1, v2, w1

SomeRequests == {r1, r2}
TwoVisitors == {v1, v2}
OneProcess == {w1}
TwoKinds == {"search", "upload"}
Limit(bucket, limit, window) == [bucket |-> bucket, limit |-> limit, window |-> window]
Local == [k \in TwoKinds |-> <<Limit("visitor", 1, 2)>>]
Store == [k \in TwoKinds |->
  IF k = "search" THEN <<Limit("visitor", 1, 1), Limit("event", 1, 2)>>
  ELSE <<Limit("event", 3, 1)>>]
TwoJobs == [k \in TwoKinds |-> IF k = "upload" THEN 2 ELSE 1]
SmallBacklog == [k \in TwoKinds |-> IF k = "upload" THEN 4 ELSE 2]
Interchangeable == Permutations(SomeRequests) \union Permutations(TwoVisitors)
=============================================================================
