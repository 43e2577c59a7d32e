------------------------------ MODULE JobLedger ------------------------------
(***************************************************************************)
(* What the worker control plane promises about a photo's jobs, with no    *)
(* leases, attempt ids, retries or transactions: every job is handed out a *)
(* bounded number of times and is closed at most once; a photo's verdict   *)
(* is announced at most once, after its last job closed, and is the        *)
(* summary of the outcomes.  Nothing promises that the verdict is          *)
(* announced at all.                                                       *)
(***************************************************************************)
EXTENDS Naturals

CONSTANTS Photos, Types, Budget

LedgerJobs == Photos \X Types

Outcomes == {"open", "done", "rejected", "exhausted"}
Verdicts == {"pending", "ready", "partially_ready", "failed"}

VARIABLES
  left,       \* [LedgerJobs -> 0..Budget], hand-outs left
  outcome,    \* [LedgerJobs -> Outcomes]
  results,    \* [LedgerJobs -> Nat], how often a result was recorded
  verdict     \* [Photos -> Verdicts]

ledger == <<left, outcome, results, verdict>>

Summary(outcomes) ==
  IF outcomes = {"done"} THEN "ready"
  ELSE IF "done" \in outcomes THEN "partially_ready"
  ELSE "failed"

OutcomesOf(p) == {outcome[j] : j \in {p} \X Types}

LedgerInit ==
  /\ left = [j \in LedgerJobs |-> Budget]
  /\ outcome = [j \in LedgerJobs |-> "open"]
  /\ results = [j \in LedgerJobs |-> 0]
  /\ verdict = [p \in Photos |-> "pending"]

\* Jobs that were handed out for the last time are given up, and at most one
\* open job is handed out.
Dispatch(givenUp, taken) ==
  /\ \A j \in givenUp : outcome[j] = "open" /\ left[j] = 0
  /\ \A j \in taken : outcome[j] = "open" /\ left[j] > 0
  /\ \A j, k \in taken : j = k
  /\ outcome' = [j \in LedgerJobs |-> IF j \in givenUp THEN "exhausted" ELSE outcome[j]]
  /\ left' = [j \in LedgerJobs |-> IF j \in taken THEN left[j] - 1 ELSE left[j]]
  /\ UNCHANGED <<results, verdict>>

\* A job that was handed out is closed; only a finished one records a result.
Close(j, how) ==
  /\ outcome[j] = "open"
  /\ left[j] < Budget
  /\ how = "exhausted" => left[j] = 0
  /\ outcome' = [outcome EXCEPT ![j] = how]
  /\ results' = [results EXCEPT ![j] = IF how = "done" THEN @ + 1 ELSE @]
  /\ \/ verdict' = verdict
     \/ /\ "open" \notin OutcomesOf(j[1])'
        /\ verdict' = [verdict EXCEPT ![j[1]] = Summary(OutcomesOf(j[1])')]
  /\ UNCHANGED left

LedgerNext ==
  \/ \E givenUp, taken \in SUBSET LedgerJobs : Dispatch(givenUp, taken)
  \/ \E j \in LedgerJobs, how \in Outcomes \ {"open"} : Close(j, how)

LedgerSpec == LedgerInit /\ [][LedgerNext]_ledger
=============================================================================
