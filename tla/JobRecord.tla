------------------------------ MODULE JobRecord ------------------------------
(***************************************************************************)
(* One row of a worker queue (photo_jobs, participant_face_jobs and        *)
(* face_search_jobs share these columns) and what each control-plane       *)
(* helper of backend/app/worker_api.py does to it.  Everything here is a   *)
(* function of one row, so that the three queues can use it.               *)
(*                                                                         *)
(* Time is not a number: lease_expires_at is NULL, still in the future     *)
(* ("live") or in the past ("expired"); retry_after is NULL, in the future *)
(* ("waiting") or in the past ("due").  attempt_id is 0 for NULL and       *)
(* otherwise the ordinal of the uuid4 drawn for the row, so equality of    *)
(* ordinals is equality of uuids.                                          *)
(***************************************************************************)
EXTENDS Naturals

CONSTANT MaxAttempts    \* settings.worker_max_attempts, copied to every row

ASSUME MaxAttemptsAssumption == MaxAttempts \in Nat \ {0}

JobStatus == {"queued", "processing", "completed", "failed", "dead_lettered"}
TerminalStatuses == {"completed", "failed", "dead_lettered"}

NoAttempt == 0

JobRow ==
  [status           : JobStatus,
   attempt_count    : Nat,
   attempt_id       : Nat,
   lease_expires_at : {"null", "live", "expired"},
   retry_after      : {"null", "waiting", "due"}]

NewJob ==
  [status           |-> "queued",
   attempt_count    |-> 0,
   attempt_id       |-> NoAttempt,
   lease_expires_at |-> "null",
   retry_after      |-> "null"]

IsTerminal(row) == row.status \in TerminalStatuses

\* Mutants of the availability condition.
AvailableIgnoresLease(row) ==
  \/ row.status = "queued" /\ row.retry_after # "waiting"
  \/ row.status = "processing"

AvailableNeverLapses(row) == row.status = "queued" /\ row.retry_after # "waiting"

AvailableReopensFailed(row) ==
  \/ row.status \in {"queued", "failed"} /\ row.retry_after # "waiting"
  \/ row.status = "processing" /\ row.lease_expires_at # "live"

\* The availability condition the reaping and the claiming query share.
Available(row) ==
  \/ row.status = "queued" /\ row.retry_after # "waiting"
  \/ row.status = "processing" /\ row.lease_expires_at # "live"

Exhausted(row) == Available(row) /\ row.attempt_count >= MaxAttempts

\* A mutant of Claimable: the budget compared off by one.
ClaimableOffByOne(row) == Available(row) /\ row.attempt_count <= MaxAttempts

Claimable(row) == Available(row) /\ row.attempt_count < MaxAttempts

AttemptMatches(row, attempt) ==
  row.attempt_id # NoAttempt /\ row.attempt_id = attempt

\* A mutant of Owns: the attempt id is not compared.
OwnsAnyAttempt(row, attempt) ==
  row.status = "processing" /\ row.lease_expires_at = "live"

\* _verify_active_attempt returns "processing": the caller goes on to write.
\* It raises 409 in every other state, except that complete and fail answer a
\* matching attempt of a terminal or re-queued row without touching it.
Owns(row, attempt) ==
  /\ row.status = "processing"
  /\ AttemptMatches(row, attempt)
  /\ row.lease_expires_at = "live"

\* The assignments of _claim_job; freshAttempt is uuid4().
Claimed(row, freshAttempt) ==
  [status           |-> "processing",
   attempt_count    |-> row.attempt_count + 1,
   attempt_id       |-> freshAttempt,
   lease_expires_at |-> "live",
   retry_after      |-> "null"]

Heartbeaten(row) == [row EXCEPT !.lease_expires_at = "live"]

Completed(row) ==
  [row EXCEPT !.status = "completed",
              !.lease_expires_at = "null",
              !.retry_after = "null"]

\* A mutant of RetryScheduled: the word of the reply, not of the column.
RetryScheduledAsReply(row) ==
  [row EXCEPT !.status = "retry_scheduled",
              !.lease_expires_at = "null",
              !.retry_after = "waiting"]

\* The three outcomes of a reported failure.
RetryScheduled(row) ==
  [row EXCEPT !.status = "queued",
              !.lease_expires_at = "null",
              !.retry_after = "waiting"]

DeadLettered(row) ==
  [row EXCEPT !.status = "dead_lettered",
              !.lease_expires_at = "null",
              !.retry_after = "null"]

Failed(row) ==
  [row EXCEPT !.status = "failed",
              !.lease_expires_at = "null",
              !.retry_after = "null"]

\* A mutant of AfterFailure: the last attempt is given up without being used.
AfterFailureOffByOne(row, retryable) ==
  IF retryable /\ row.attempt_count + 1 < MaxAttempts THEN RetryScheduled(row)
  ELSE IF retryable THEN DeadLettered(row)
  ELSE Failed(row)

AfterFailure(row, retryable) ==
  IF retryable /\ row.attempt_count < MaxAttempts THEN RetryScheduled(row)
  ELSE IF retryable THEN DeadLettered(row)
  ELSE Failed(row)

\* The clock passes lease_expires_at, or retry_after.
LeaseLapsed(row) == [row EXCEPT !.lease_expires_at = "expired"]
RetryElapsed(row) == [row EXCEPT !.retry_after = "due"]

-----------------------------------------------------------------------------
(***************************************************************************)
(* What every row of every queue satisfies, n being how many attempts were *)
(* handed out for it: attempt_id and attempt_count move together with the  *)
(* hand-outs, and leases, retry delays and dead letters occur in the       *)
(* states that justify them only.                                          *)
(***************************************************************************)
RowSound(row, n) ==
  /\ row.attempt_id = n
  /\ row.attempt_count = n
  /\ n <= MaxAttempts
  /\ row.lease_expires_at # "null" => row.status = "processing"
  /\ row.retry_after # "null" => row.status = "queued"
  /\ row.status = "dead_lettered" => n = MaxAttempts
  /\ row.status = "processing" => n > 0
=============================================================================
