--------------------------- MODULE DeletionOutbox ---------------------------
(***************************************************************************)
(* The object-deletion outbox of backend/app/maintenance.py.  A request    *)
(* that removes the last reference to a stored object queues a task for    *)
(* its key in the same transaction; processors (the maintenance timer and  *)
(* the admin and organizer request handlers that drain the outbox at once) *)
(* lease batches of tasks, call the object store and record the outcome.   *)
(*                                                                         *)
(* A processor checks the attempt id of a task once, before the storage    *)
(* call, and afterwards writes the outcome to the row by primary key,      *)
(* whatever has become of the row meanwhile.  The storage call is the      *)
(* long step: the client retries it, so that it can outlast the two-minute *)
(* lease, and a batch shares one lease.                                    *)
(*                                                                         *)
(* Keys hold a uuid4 and are never stored again after they were deleted.   *)
(***************************************************************************)
EXTENDS Naturals, FiniteSets

CONSTANTS
  Keys,          \* object keys of stored objects
  CreatedAt,     \* [Keys -> Nat], created_at of the tasks (kept when requeued)
  Processors,    \* concurrent runs of process_object_deletions
  MaxAttempts,   \* object_deletion_tasks.max_attempts
  BatchSize,     \* the limit of one run
  MaxRequests    \* bound: deletion requests per key
CONSTANT NoRow   \* stands for a key without a task row

ASSUME OutboxAssumption ==
  /\ CreatedAt \in [Keys -> Nat]
  /\ MaxAttempts \in Nat \ {0}
  /\ BatchSize \in Nat \ {0}
  /\ MaxRequests \in Nat
  /\ "none" \notin Keys

TaskStatus == {"queued", "processing", "completed", "dead_lettered"}

NoAttempt == 0

TaskRow ==
  [status           : TaskStatus,
   attempt_count    : Nat,
   attempt_id       : Nat,
   lease_expires_at : {"null", "live", "expired"},
   retry_at         : {"null", "waiting", "due"}]

ASSUME NoRowAssumption == NoRow \notin TaskRow

VARIABLES
  store,        \* SUBSET Keys, the objects that exist
  task,         \* [Keys -> TaskRow or NoRow], the rows of object_deletion_tasks
  stage,        \* [Processors -> ...], where a run is
  attempts,     \* [Processors -> [Keys -> Nat]], the run's dict of attempt ids,
                \* without the keys it is done with
  current,      \* [Processors -> Keys or "none"], the task it is deleting
  loadedCount,  \* [Processors -> Nat], attempt_count of that row when it was read
  issued,       \* [Keys -> Nat], history: attempt ids drawn
  requested,    \* [Keys -> Nat], history: deletion requests
  overtaken     \* SUBSET Keys, history: tasks that were claimed or requested
                \* again while a run had them in hand, so that an outcome is
                \* or was under way that is not about the row it is written to

vars == <<store, task, stage, attempts, current, loadedCount, issued, requested, overtaken>>

Stages == {"idle", "reaped", "claimed", "deleting", "deleted", "failed"}

TypeOK ==
  /\ store \in SUBSET Keys
  /\ task \in [Keys -> TaskRow \cup {NoRow}]
  /\ stage \in [Processors -> Stages]
  /\ attempts \in [Processors -> [Keys -> Nat]]
  /\ current \in [Processors -> Keys \cup {"none"}]
  /\ loadedCount \in [Processors -> Nat]
  /\ issued \in [Keys -> Nat]
  /\ requested \in [Keys -> Nat]
  /\ overtaken \in SUBSET Keys

NoAttempts == [k \in Keys |-> NoAttempt]

\* The objects are stored and referenced; nothing was deleted yet.
Init ==
  /\ store = Keys
  /\ task = [k \in Keys |-> NoRow]
  /\ stage = [pr \in Processors |-> "idle"]
  /\ attempts = [pr \in Processors |-> NoAttempts]
  /\ current = [pr \in Processors |-> "none"]
  /\ loadedCount = [pr \in Processors |-> 0]
  /\ issued = [k \in Keys |-> 0]
  /\ requested = [k \in Keys |-> 0]
  /\ overtaken = {}

-----------------------------------------------------------------------------
(***************************************************************************)
(* Rows.                                                                   *)
(***************************************************************************)
QueuedTask ==
  [status           |-> "queued",
   attempt_count    |-> 0,
   attempt_id       |-> NoAttempt,
   lease_expires_at |-> "null",
   retry_at         |-> "null"]

HasRow(k) == task[k] # NoRow

LostLease(row) == row.status = "processing" /\ row.lease_expires_at # "live"

\* A mutant: lost leases of the last attempt are not reaped.
ExhaustedNever(row) == FALSE

Exhausted(row) == LostLease(row) /\ row.attempt_count >= MaxAttempts

Claimable(row) ==
  /\ row.status = "queued" \/ LostLease(row)
  /\ row.attempt_count < MaxAttempts
  /\ row.retry_at # "waiting"

Claimed(row, freshAttempt) ==
  [row EXCEPT !.status = "processing",
              !.attempt_count = @ + 1,
              !.attempt_id = freshAttempt,
              !.lease_expires_at = "live"]

\* The three outcomes a run writes; each drops the lease and the attempt id.
Finished(row, status, retry) ==
  [row EXCEPT !.status = status,
              !.attempt_id = NoAttempt,
              !.lease_expires_at = "null",
              !.retry_at = retry]

\* Mutants of Outcome: a status that the CHECK of the table rejects, and the
\* attempts compared off by one in either direction.
OutcomeAsFailed(row, deleted, count) ==
  IF deleted THEN Finished(row, "completed", "null")
  ELSE IF count >= MaxAttempts THEN Finished(row, "failed", "null")
  ELSE Finished(row, "queued", "waiting")

OutcomeOffByOne(row, deleted, count) ==
  IF deleted THEN Finished(row, "completed", "null")
  ELSE IF count > MaxAttempts THEN Finished(row, "dead_lettered", "null")
  ELSE Finished(row, "queued", "waiting")

OutcomeEarly(row, deleted, count) ==
  IF deleted THEN Finished(row, "completed", "null")
  ELSE IF count + 1 >= MaxAttempts THEN Finished(row, "dead_lettered", "null")
  ELSE Finished(row, "queued", "waiting")

Outcome(row, deleted, count) ==
  IF deleted THEN Finished(row, "completed", "null")
  ELSE IF count >= MaxAttempts THEN Finished(row, "dead_lettered", "null")
  ELSE Finished(row, "queued", "waiting")

\* The clock passes lease_expires_at, or retry_at.
LeaseLapsed(row) == [row EXCEPT !.lease_expires_at = "expired"]
RetryElapsed(row) == [row EXCEPT !.retry_at = "due"]

\* Keys a run still has to look at, and the keys some run has in hand.
Pending(pr) == {k \in Keys : attempts[pr][k] # NoAttempt}
InHand(k) == \E pr \in Processors : k \in Pending(pr)

Oldest(batch, S, n) ==
  /\ batch \subseteq S
  /\ \A k \in batch, l \in S \ batch : CreatedAt[k] <= CreatedAt[l]
  /\ Cardinality(batch) = (IF Cardinality(S) <= n THEN Cardinality(S) ELSE n)

-----------------------------------------------------------------------------
\* enqueue_object_deletion, committed with the removal of the reference, or by
\* the storage reconciliation for an object that nothing references.  The row
\* starts over, also under a run that has it in hand.
Request(k) ==
  /\ requested[k] < MaxRequests
  /\ requested[k] > 0 => k \in store
  /\ task' = [task EXCEPT ![k] = QueuedTask]
  /\ requested' = [requested EXCEPT ![k] = @ + 1]
  /\ overtaken' = IF InHand(k) THEN overtaken \union {k} ELSE overtaken \ {k}
  /\ UNCHANGED <<store, stage, attempts, current, loadedCount, issued>>

\* The first transaction of a run gives up tasks whose last lease was lost.
Reap(pr) ==
  /\ stage[pr] = "idle"
  /\ task' = [k \in Keys |->
       IF HasRow(k) /\ Exhausted(task[k])
       THEN Finished(task[k], "dead_lettered", "null") ELSE task[k]]
  /\ stage' = [stage EXCEPT ![pr] = "reaped"]
  /\ UNCHANGED <<store, attempts, current, loadedCount, issued, requested, overtaken>>

\* The second one leases a batch, the oldest tasks first.
ClaimBatch(pr) ==
  /\ stage[pr] = "reaped"
  /\ LET claimable == {k \in Keys : HasRow(k) /\ Claimable(task[k])} IN
     \E batch \in SUBSET claimable :
       /\ Oldest(batch, claimable, BatchSize)
       /\ task' = [k \in Keys |->
            IF k \in batch THEN Claimed(task[k], issued[k] + 1) ELSE task[k]]
       /\ issued' = [k \in Keys |-> IF k \in batch THEN issued[k] + 1 ELSE issued[k]]
       /\ attempts' = [attempts EXCEPT ![pr] =
            [k \in Keys |-> IF k \in batch THEN issued[k] + 1 ELSE NoAttempt]]
       /\ stage' = [stage EXCEPT ![pr] = IF batch = {} THEN "idle" ELSE "claimed"]
       /\ overtaken' = (overtaken \ batch) \union {k \in batch : InHand(k)}
  /\ UNCHANGED <<store, current, loadedCount, requested>>

StillOwned(k, attempt) ==
  /\ HasRow(k)
  /\ task[k].status = "processing"
  /\ task[k].attempt_id = attempt

\* Leave key k behind and go on with the batch.
Advance(pr, k) ==
  /\ attempts' = [attempts EXCEPT ![pr][k] = NoAttempt]
  /\ stage' = [stage EXCEPT ![pr] = IF Pending(pr) = {k} THEN "idle" ELSE "claimed"]
  /\ current' = [current EXCEPT ![pr] = "none"]
  /\ loadedCount' = [loadedCount EXCEPT ![pr] = 0]

\* session.get re-reads the next task: start deleting, or skip it.
ReadTask(pr) ==
  /\ stage[pr] = "claimed"
  /\ \E k \in Pending(pr) :
       /\ \A l \in Pending(pr) : CreatedAt[k] <= CreatedAt[l]
       /\ IF StillOwned(k, attempts[pr][k])
          THEN /\ stage' = [stage EXCEPT ![pr] = "deleting"]
               /\ current' = [current EXCEPT ![pr] = k]
               /\ loadedCount' = [loadedCount EXCEPT ![pr] = task[k].attempt_count]
               /\ UNCHANGED attempts
          ELSE Advance(pr, k)
  /\ UNCHANGED <<store, task, issued, requested, overtaken>>

\* delete_object: deleting what is gone succeeds; a failed call (an error, a
\* timeout) may or may not have deleted the object.
DeleteSucceeds(pr) ==
  /\ stage[pr] = "deleting"
  /\ store' = store \ {current[pr]}
  /\ stage' = [stage EXCEPT ![pr] = "deleted"]
  /\ UNCHANGED <<task, attempts, current, loadedCount, issued, requested, overtaken>>

DeleteFails(pr) ==
  /\ stage[pr] = "deleting"
  /\ store' \in {store, store \ {current[pr]}}
  /\ stage' = [stage EXCEPT ![pr] = "failed"]
  /\ UNCHANGED <<task, attempts, current, loadedCount, issued, requested, overtaken>>

\* UPDATE ... WHERE id = ... with the outcome, and commit.
Record(pr) ==
  /\ stage[pr] \in {"deleted", "failed"}
  /\ LET k == current[pr] IN
       /\ task' = [task EXCEPT ![k] = Outcome(@, stage[pr] = "deleted", loadedCount[pr])]
       /\ Advance(pr, k)
  /\ UNCHANGED <<store, issued, requested, overtaken>>

\* The process or its database connection dies; what it leased stays leased.
Crash(pr) ==
  /\ stage[pr] # "idle"
  /\ stage' = [stage EXCEPT ![pr] = "idle"]
  /\ attempts' = [attempts EXCEPT ![pr] = NoAttempts]
  /\ current' = [current EXCEPT ![pr] = "none"]
  /\ loadedCount' = [loadedCount EXCEPT ![pr] = 0]
  /\ UNCHANGED <<store, task, issued, requested, overtaken>>

-----------------------------------------------------------------------------
LeaseLapses(k) ==
  /\ HasRow(k)
  /\ task[k].lease_expires_at = "live"
  /\ task' = [task EXCEPT ![k] = LeaseLapsed(@)]
  /\ UNCHANGED <<store, stage, attempts, current, loadedCount, issued, requested, overtaken>>

RetryElapses(k) ==
  /\ HasRow(k)
  /\ task[k].retry_at = "waiting"
  /\ task' = [task EXCEPT ![k] = RetryElapsed(@)]
  /\ UNCHANGED <<store, stage, attempts, current, loadedCount, issued, requested, overtaken>>

\* A mutant of Purge: dead letters are cleaned up as well.
PurgeSettled(k) ==
  /\ HasRow(k)
  /\ task[k].status \in {"completed", "dead_lettered"}
  /\ ~InHand(k)
  /\ task' = [task EXCEPT ![k] = NoRow]
  /\ UNCHANGED <<store, stage, attempts, current, loadedCount, issued, requested, overtaken>>

\* purge_completed_deletion_tasks, a day or more after the completion: no run
\* that had the key in hand then is still alive.
Purge(k) ==
  /\ HasRow(k)
  /\ task[k].status = "completed"
  /\ ~InHand(k)
  /\ task' = [task EXCEPT ![k] = NoRow]
  /\ UNCHANGED <<store, stage, attempts, current, loadedCount, issued, requested, overtaken>>

\* What an undisturbed run does next; it reaches its batch in the end.
Run(pr) ==
  \/ Reap(pr) \/ ReadTask(pr)
  \/ DeleteSucceeds(pr) \/ DeleteFails(pr) \/ Record(pr)

Next ==
  \/ \E k \in Keys : Request(k) \/ LeaseLapses(k) \/ RetryElapses(k) \/ Purge(k)
  \/ \E pr \in Processors : Run(pr) \/ ClaimBatch(pr) \/ Crash(pr)

Spec == Init /\ [][Next]_vars

(***************************************************************************)
(* The timer starts a run every five minutes, storage calls return (the    *)
(* client has timeouts), and a run is not killed between its first two     *)
(* transactions every time.  Runs may crash with a batch in hand.          *)
(***************************************************************************)
Fairness ==
  /\ \A pr \in Processors : WF_vars(Run(pr)) /\ SF_vars(ClaimBatch(pr))
  /\ \A k \in Keys : WF_vars(LeaseLapses(k)) /\ WF_vars(RetryElapses(k))

FairSpec == Spec /\ Fairness

-----------------------------------------------------------------------------
(***************************************************************************)
(* Properties.                                                             *)
(***************************************************************************)

\* A tombstone is never lost: an object whose deletion was requested either is
\* gone or has a task that says it is not done.  Racing runs, stale outcomes,
\* crashes, repeated requests and purges of old tasks never leave an object
\* behind that the outbox believes deleted.
NoForgottenObject ==
  \A k \in store : requested[k] > 0 => HasRow(k) /\ task[k].status # "completed"

\* However runs overlap, a request causes at most max_attempts attempts.
AttemptsBounded ==
  \A k \in Keys :
    /\ HasRow(k) => task[k].attempt_count <= MaxAttempts
    /\ issued[k] <= MaxAttempts * requested[k]

\* docs/operations/data-lifecycle.md: deletions use "leases, bounded retries,
\* and dead letters".  A queued task has attempts left, so that a run can claim
\* it; the only exception is a task whose row a run wrote with an outcome that
\* was not about it any more.
Unclaimable(k) ==
  HasRow(k) /\ task[k].status = "queued" /\ task[k].attempt_count >= MaxAttempts

NoStrandedTask == \A k \in Keys : Unclaimable(k) => k \in overtaken

\* The same page: "dead-letters deletion tasks after the configured attempt
\* limit", and no earlier, with the same exception.
DeadLetteredAtLimit ==
  \A k \in Keys \ overtaken : HasRow(k) /\ task[k].status = "dead_lettered" =>
    task[k].attempt_count >= MaxAttempts

\* Every requested deletion ends, also when runs die or outlive their leases:
\* the task completes, is dead-lettered, or was overtaken and left unclaimable.
Settled(k) == HasRow(k) => task[k].status \in {"completed", "dead_lettered"}

EveryTaskSettles ==
  \A k \in Keys : HasRow(k) ~> Settled(k) \/ (Unclaimable(k) /\ k \in overtaken)

-----------------------------------------------------------------------------
(***************************************************************************)
(* The inductive invariants behind them.                                   *)
(***************************************************************************)
Busy == {"deleting", "deleted", "failed"}

\* A run only ever has rows in hand, whoever else writes them, and a deletion
\* that it is about to record has happened.
RunsConsistent ==
  \A pr \in Processors :
    /\ \A k \in Pending(pr) : HasRow(k)
    /\ stage[pr] \in Busy => current[pr] \in Pending(pr)
    /\ stage[pr] = "deleted" => current[pr] \notin store

\* The attempts a task still has are not spent yet.
BudgetKept ==
  \A k \in Keys :
    /\ issued[k] <= MaxAttempts * requested[k]
    /\ HasRow(k) =>
         /\ task[k].attempt_count <= MaxAttempts
         /\ issued[k] + (MaxAttempts - task[k].attempt_count) <= MaxAttempts * requested[k]

\* Unless it was overtaken, a task in hand of a run is in hand of this run only,
\* which holds its attempt id unless the reaper has given the task up, and
\* knows how often it was tried.
HeldByOne ==
  \A pr \in Processors : \A k \in Pending(pr) \ overtaken :
    /\ \/ task[k].status = "processing" /\ task[k].attempt_id = attempts[pr][k]
       \/ task[k].status = "dead_lettered"
    /\ \A other \in Processors \ {pr} : k \notin Pending(other)
    /\ stage[pr] \in Busy /\ current[pr] = k => loadedCount[pr] = task[k].attempt_count

IInv ==
  /\ TypeOK
  /\ RunsConsistent
  /\ NoForgottenObject
  /\ BudgetKept
  /\ HeldByOne
  /\ NoStrandedTask
  /\ DeadLetteredAtLimit
=============================================================================
