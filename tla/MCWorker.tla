------------------------------ MODULE MCWorker ------------------------------
(***************************************************************************)
(* Model-checking instance of Worker: processes competing for one job.     *)
(***************************************************************************)
EXTENDS Worker, TLC

CONSTANTS w1, w2, j1

TwoWorkers == {w1, w2}
OneJob == {j1}

\* The processes run one program: sound for the invariants.
WorkerSymmetry == Permutations(TwoWorkers)
=============================================================================
