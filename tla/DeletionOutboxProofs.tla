------------------------- MODULE DeletionOutboxProofs -------------------------
(***************************************************************************)
(* Machine-checked theorems about DeletionOutbox, for every set of keys and *)
(* of concurrent runs, every attempt limit, batch size and number of        *)
(* requests, whether runs overlap or not.                                   *)
(***************************************************************************)
EXTENDS DeletionOutbox, TLAPS

-----------------------------------------------------------------------------
(***************************************************************************)
(* Rows.                                                                   *)
(***************************************************************************)

\* Every assignment of the outbox keeps a row well-typed.
LEMMA TaskRowTypes ==
  /\ QueuedTask \in TaskRow
  /\ \A row \in TaskRow :
       /\ \A a \in Nat : Claimed(row, a) \in TaskRow
       /\ \A status \in TaskStatus : \A retry \in {"null", "waiting", "due"} :
            Finished(row, status, retry) \in TaskRow
       /\ LeaseLapsed(row) \in TaskRow
       /\ RetryElapsed(row) \in TaskRow
  <1> USE DEF TaskRow, TaskStatus, NoAttempt
  <1>1. QueuedTask \in TaskRow
    BY DEF QueuedTask
  <1>2. ASSUME NEW row \in TaskRow, NEW a \in Nat PROVE Claimed(row, a) \in TaskRow
    <2>1. row.attempt_count + 1 \in Nat
      OBVIOUS
    <2>2. QED
      BY <2>1 DEF Claimed
  <1>3. ASSUME NEW row \in TaskRow, NEW status \in TaskStatus,
               NEW retry \in {"null", "waiting", "due"}
        PROVE  Finished(row, status, retry) \in TaskRow
    BY DEF Finished
  <1>4. ASSUME NEW row \in TaskRow
        PROVE  /\ LeaseLapsed(row) \in TaskRow
               /\ RetryElapsed(row) \in TaskRow
    BY DEF LeaseLapsed, RetryElapsed
  <1>5. QED
    BY <1>1, <1>2, <1>3, <1>4

\* The row that each handler writes to a key, given the one it finds; none of
\* them takes the row away.
LEMMA WrittenRows ==
  ASSUME TypeOK
  PROVE  /\ QueuedTask \in TaskRow
         /\ \A k \in Keys : HasRow(k) =>
              /\ task[k] \in TaskRow
              /\ Claimed(task[k], issued[k] + 1) \in TaskRow
              /\ Finished(task[k], "dead_lettered", "null") \in TaskRow
              /\ Finished(task[k], "completed", "null") \in TaskRow
              /\ Finished(task[k], "queued", "waiting") \in TaskRow
              /\ LeaseLapsed(task[k]) \in TaskRow
              /\ RetryElapsed(task[k]) \in TaskRow
         /\ \A row \in TaskRow : row # NoRow
  <1>1. \A k \in Keys : HasRow(k) => task[k] \in TaskRow
    BY DEF TypeOK, HasRow
  <1>2. \A k \in Keys : issued[k] + 1 \in Nat
    BY DEF TypeOK
  <1>3. {"dead_lettered", "completed", "queued"} \subseteq TaskStatus
    BY DEF TaskStatus
  <1>4. QED
    BY <1>1, <1>2, <1>3, TaskRowTypes, NoRowAssumption

\* What those rows say, for the proofs that compare them.
LEMMA WrittenFields ==
  ASSUME NEW row \in TaskRow
  PROVE  /\ \A a : /\ Claimed(row, a).status = "processing"
                   /\ Claimed(row, a).attempt_count = row.attempt_count + 1
                   /\ Claimed(row, a).attempt_id = a
                   /\ Claimed(row, a).lease_expires_at = "live"
         /\ \A status, retry :
              /\ Finished(row, status, retry).status = status
              /\ Finished(row, status, retry).attempt_count = row.attempt_count
         /\ LeaseLapsed(row).status = row.status
         /\ LeaseLapsed(row).attempt_count = row.attempt_count
         /\ LeaseLapsed(row).attempt_id = row.attempt_id
         /\ RetryElapsed(row).status = row.status
         /\ RetryElapsed(row).attempt_count = row.attempt_count
         /\ RetryElapsed(row).attempt_id = row.attempt_id
         /\ row.attempt_count \in Nat
  BY DEF Claimed, Finished, LeaseLapsed, RetryElapsed, TaskRow

\* What a claim does to the rows: it leases some claimable ones and leaves the
\* others alone, whatever batch it takes.
LEMMA ClaimedOrKept ==
  ASSUME TypeOK, NEW pr \in Processors, ClaimBatch(pr), NEW k \in Keys
  PROVE  \/ /\ task'[k] = task[k] /\ issued'[k] = issued[k] /\ attempts'[pr][k] = NoAttempt
            /\ k \in overtaken' <=> k \in overtaken
         \/ /\ HasRow(k) /\ Claimable(task[k])
            /\ task'[k] = Claimed(task[k], issued[k] + 1)
            /\ issued'[k] = issued[k] + 1
            /\ attempts'[pr][k] = issued[k] + 1
            /\ k \in overtaken' <=> InHand(k)
  BY DEF ClaimBatch, TypeOK

-----------------------------------------------------------------------------
(***************************************************************************)
(* The inductive invariant.                                                *)
(***************************************************************************)
LEMMA InitIInv == Init => IInv
  <1> SUFFICES ASSUME Init PROVE IInv
    OBVIOUS
  <1> USE OutboxAssumption DEF Init
  <1>1. TypeOK
    BY DEF TypeOK, Stages, NoAttempts, NoAttempt
  <1>2. RunsConsistent
    BY DEF RunsConsistent, Pending, NoAttempts, NoAttempt, Busy
  <1>3. NoForgottenObject
    BY DEF NoForgottenObject
  <1>4. BudgetKept
    BY DEF BudgetKept, HasRow
  <1>5. HeldByOne
    BY DEF HeldByOne, Pending, NoAttempts
  <1>6. NoStrandedTask /\ DeadLetteredAtLimit
    BY DEF NoStrandedTask, Unclaimable, DeadLetteredAtLimit, HasRow
  <1>7. QED
    BY <1>1, <1>2, <1>3, <1>4, <1>5, <1>6 DEF IInv

\* Every handler leaves well-formed rows and run states behind.
LEMMA TypeStep ==
  ASSUME IInv, [Next]_vars
  PROVE  TypeOK'
  <1> USE DEF IInv, TypeOK
  <1>1. ASSUME NEW k \in Keys, Request(k) PROVE TypeOK'
    BY <1>1, WrittenRows DEF Request
  <1>2. ASSUME NEW k \in Keys, LeaseLapses(k) PROVE TypeOK'
    BY <1>2, WrittenRows DEF LeaseLapses
  <1>3. ASSUME NEW k \in Keys, RetryElapses(k) PROVE TypeOK'
    BY <1>3, WrittenRows DEF RetryElapses
  <1>4. ASSUME NEW k \in Keys, Purge(k) PROVE TypeOK'
    BY <1>4 DEF Purge
  <1>5. ASSUME NEW pr \in Processors, Reap(pr) PROVE TypeOK'
    BY <1>5, WrittenRows DEF Reap, Stages
  <1>6. ASSUME NEW pr \in Processors, ClaimBatch(pr) PROVE TypeOK'
    <2>1. PICK batch \in SUBSET {k \in Keys : HasRow(k) /\ Claimable(task[k])} :
            /\ task' = [k \in Keys |->
                 IF k \in batch THEN Claimed(task[k], issued[k] + 1) ELSE task[k]]
            /\ issued' = [k \in Keys |-> IF k \in batch THEN issued[k] + 1 ELSE issued[k]]
            /\ attempts' = [attempts EXCEPT ![pr] =
                 [k \in Keys |-> IF k \in batch THEN issued[k] + 1 ELSE NoAttempt]]
            /\ stage' = [stage EXCEPT ![pr] = IF batch = {} THEN "idle" ELSE "claimed"]
            /\ overtaken' = (overtaken \ batch) \union {k \in batch : InHand(k)}
            /\ UNCHANGED <<store, current, loadedCount, requested>>
      BY <1>6 DEF ClaimBatch
    <2>2. task' \in [Keys -> TaskRow \cup {NoRow}]
      BY <2>1, WrittenRows
    <2>3. issued' \in [Keys -> Nat] /\ attempts' \in [Processors -> [Keys -> Nat]]
      BY <2>1 DEF NoAttempt
    <2>4. QED
      BY <2>1, <2>2, <2>3 DEF Stages
  <1>7. ASSUME NEW pr \in Processors, ReadTask(pr) PROVE TypeOK'
    <2>1. PICK k \in Pending(pr) :
            IF StillOwned(k, attempts[pr][k])
            THEN /\ stage' = [stage EXCEPT ![pr] = "deleting"]
                 /\ current' = [current EXCEPT ![pr] = k]
                 /\ loadedCount' = [loadedCount EXCEPT ![pr] = task[k].attempt_count]
                 /\ UNCHANGED attempts
            ELSE Advance(pr, k)
      BY <1>7 DEF ReadTask
    <2>2. k \in Keys /\ HasRow(k) /\ task[k].attempt_count \in Nat
      BY DEF RunsConsistent, Pending, HasRow, TaskRow
    <2>3. CASE StillOwned(k, attempts[pr][k])
      BY <1>7, <2>1, <2>2, <2>3 DEF ReadTask, Stages
    <2>4. CASE ~StillOwned(k, attempts[pr][k])
      <3>1. Advance(pr, k) /\ UNCHANGED <<store, task, issued, requested, overtaken>>
        BY <1>7, <2>1, <2>4 DEF ReadTask
      <3>2. QED
        BY <2>2, <3>1 DEF Advance, Stages, NoAttempt
    <2>5. QED
      BY <2>3, <2>4
  <1>8. ASSUME NEW pr \in Processors, DeleteSucceeds(pr) \/ DeleteFails(pr) PROVE TypeOK'
    BY <1>8 DEF DeleteSucceeds, DeleteFails, Stages
  <1>9. ASSUME NEW pr \in Processors, Record(pr) PROVE TypeOK'
    <2> DEFINE k == current[pr]
    <2>1. k \in Keys /\ HasRow(k)
      BY <1>9 DEF Record, RunsConsistent, Pending, Busy
    <2>2. Outcome(task[k], stage[pr] = "deleted", loadedCount[pr]) \in TaskRow
      BY <2>1, WrittenRows DEF Outcome
    <2>3. QED
      BY <1>9, <2>1, <2>2 DEF Record, Advance, Stages, NoAttempt
  <1>10. ASSUME NEW pr \in Processors, Crash(pr) PROVE TypeOK'
    BY <1>10 DEF Crash, Stages, NoAttempts, NoAttempt
  <1>11. CASE UNCHANGED vars
    BY <1>11 DEF vars
  <1>12. QED
    BY <1>1, <1>2, <1>3, <1>4, <1>5, <1>6, <1>7, <1>8, <1>9, <1>10, <1>11 DEF Next, Run

\* Purge leaves the rows alone that a run has in hand, and nothing stores a
\* deleted object again.
LEMMA RunsStep ==
  ASSUME IInv, [Next]_vars
  PROVE  RunsConsistent'
  <1> USE DEF IInv, TypeOK, Pending, HasRow, Busy
  <1> DEFINE Consistent(pr) ==
        /\ \A k \in Pending(pr) : HasRow(k)
        /\ stage[pr] \in Busy => current[pr] \in Pending(pr)
        /\ stage[pr] = "deleted" => current[pr] \notin store
  <1> SUFFICES ASSUME NEW qr \in Processors PROVE Consistent(qr)'
    BY DEF RunsConsistent
  <1>0. Consistent(qr)
    BY DEF RunsConsistent
  <1>1. ASSUME NEW k \in Keys, Request(k) PROVE Consistent(qr)'
    BY <1>0, <1>1, WrittenRows DEF Request
  <1>2. ASSUME NEW k \in Keys, LeaseLapses(k) PROVE Consistent(qr)'
    BY <1>0, <1>2, WrittenRows DEF LeaseLapses
  <1>3. ASSUME NEW k \in Keys, RetryElapses(k) PROVE Consistent(qr)'
    BY <1>0, <1>3, WrittenRows DEF RetryElapses
  <1>4. ASSUME NEW k \in Keys, Purge(k) PROVE Consistent(qr)'
    BY <1>0, <1>4 DEF Purge, InHand
  <1>5. ASSUME NEW pr \in Processors, Reap(pr) PROVE Consistent(qr)'
    BY <1>0, <1>5, WrittenRows DEF Reap
  <1>6. ASSUME NEW pr \in Processors, ClaimBatch(pr) PROVE Consistent(qr)'
    <2>1. /\ \A k \in Keys : HasRow(k) => task'[k] # NoRow
          /\ \A k \in Keys : attempts'[pr][k] # NoAttempt => task'[k] # NoRow
      BY <1>6, WrittenRows, ClaimedOrKept
    <2>2. /\ qr # pr => attempts'[qr] = attempts[qr] /\ stage'[qr] = stage[qr]
          /\ stage'[pr] \in {"idle", "claimed"}
          /\ UNCHANGED <<store, current>>
      BY <1>6 DEF ClaimBatch
    <2>3. QED
      BY <1>0, <2>1, <2>2
  <1>7. ASSUME NEW pr \in Processors, ReadTask(pr) PROVE Consistent(qr)'
    BY <1>0, <1>7 DEF ReadTask, Advance
  <1>8. ASSUME NEW pr \in Processors, DeleteSucceeds(pr) \/ DeleteFails(pr)
        PROVE  Consistent(qr)'
    BY <1>0, <1>8 DEF DeleteSucceeds, DeleteFails
  <1>9. ASSUME NEW pr \in Processors, Record(pr) PROVE Consistent(qr)'
    <2> DEFINE k == current[pr]
    <2>1. k \in Keys /\ task[k] # NoRow
      BY <1>9 DEF Record, RunsConsistent
    <2>2. Outcome(task[k], stage[pr] = "deleted", loadedCount[pr]) # NoRow
      BY <2>1, WrittenRows DEF Outcome
    <2>3. QED
      BY <1>0, <1>9, <2>1, <2>2 DEF Record, Advance
  <1>10. ASSUME NEW pr \in Processors, Crash(pr) PROVE Consistent(qr)'
    BY <1>0, <1>10 DEF Crash, NoAttempts
  <1>11. CASE UNCHANGED vars
    BY <1>0, <1>11 DEF vars
  <1>12. QED
    BY <1>1, <1>2, <1>3, <1>4, <1>5, <1>6, <1>7, <1>8, <1>9, <1>10, <1>11 DEF Next, Run

\* The tombstone of a stored object stays: only a deletion that has happened
\* completes a task, and only completed tasks are purged.
LEMMA NoForgottenStep ==
  ASSUME IInv, [Next]_vars
  PROVE  NoForgottenObject'
  <1> DEFINE Remembered(k) ==
        k \in store /\ requested[k] > 0 => HasRow(k) /\ task[k].status # "completed"
  <1> SUFFICES ASSUME NEW l \in Keys PROVE Remembered(l)'
    BY TypeStep DEF NoForgottenObject, TypeOK
  <1> USE DEF HasRow
  <1>0. /\ Remembered(l)
        /\ task \in [Keys -> TaskRow \cup {NoRow}]
        /\ requested \in [Keys -> Nat]
        /\ task[l] # NoRow => task[l] \in TaskRow
    BY DEF IInv, TypeOK, NoForgottenObject
  <1>1. ASSUME NEW k \in Keys, Request(k) PROVE Remembered(l)'
    <2>1. QueuedTask # NoRow /\ QueuedTask.status = "queued"
      BY WrittenRows DEF IInv, QueuedTask
    <2>2. QED
      BY <1>0, <1>1, <2>1 DEF Request
  <1>2. ASSUME NEW k \in Keys, LeaseLapses(k) \/ RetryElapses(k) PROVE Remembered(l)'
    <2>1. task'[l] # NoRow \/ task'[l] = task[l]
      BY <1>0, <1>2, WrittenRows DEF IInv, LeaseLapses, RetryElapses
    <2>2. task[l] # NoRow => task'[l].status = task[l].status
      BY <1>0, <1>2, WrittenFields DEF LeaseLapses, RetryElapses
    <2>3. QED
      BY <1>0, <1>2, <2>1, <2>2 DEF LeaseLapses, RetryElapses
  <1>3. ASSUME NEW k \in Keys, Purge(k) PROVE Remembered(l)'
    BY <1>0, <1>3 DEF Purge
  <1>4. ASSUME NEW pr \in Processors, Reap(pr) PROVE Remembered(l)'
    <2>1. CASE HasRow(l) /\ Exhausted(task[l])
      <3>1. task'[l] = Finished(task[l], "dead_lettered", "null")
        BY <1>4, <2>1 DEF Reap
      <3>2. task'[l] # NoRow /\ task'[l].status = "dead_lettered"
        BY <1>0, <2>1, <3>1, WrittenRows, WrittenFields DEF IInv
      <3>3. QED
        BY <3>2
    <2>2. CASE ~(HasRow(l) /\ Exhausted(task[l]))
      BY <1>0, <1>4, <2>2 DEF Reap
    <2>3. QED
      BY <2>1, <2>2
  <1>5. ASSUME NEW pr \in Processors, ClaimBatch(pr) PROVE Remembered(l)'
    <2>1. CASE HasRow(l) /\ task'[l] = Claimed(task[l], issued[l] + 1)
      <3>1. task'[l] # NoRow /\ task'[l].status = "processing"
        BY <1>0, <2>1, WrittenRows, WrittenFields DEF IInv
      <3>2. QED
        BY <3>1
    <2>2. CASE task'[l] = task[l]
      BY <1>0, <1>5, <2>2 DEF ClaimBatch
    <2>3. QED
      BY <1>5, <2>1, <2>2, ClaimedOrKept DEF IInv
  <1>6. ASSUME NEW pr \in Processors,
               ReadTask(pr) \/ DeleteSucceeds(pr) \/ DeleteFails(pr) \/ Crash(pr)
        PROVE  Remembered(l)'
    BY <1>0, <1>6 DEF ReadTask, DeleteSucceeds, DeleteFails, Crash
  <1>7. ASSUME NEW pr \in Processors, Record(pr) PROVE Remembered(l)'
    <2> DEFINE k == current[pr]
    <2>1. /\ k \in Keys /\ HasRow(k)
          /\ stage[pr] = "deleted" => k \notin store
          /\ task' = [task EXCEPT ![k] = Outcome(task[k], stage[pr] = "deleted", loadedCount[pr])]
          /\ UNCHANGED <<store, requested>>
      BY <1>7 DEF IInv, Record, RunsConsistent, Pending, Busy
    <2>2. CASE l # k
      BY <1>0, <2>1, <2>2
    <2>3. CASE l = k /\ stage[pr] # "deleted"
      <3>1. \/ task'[l] = Finished(task[l], "dead_lettered", "null")
            \/ task'[l] = Finished(task[l], "queued", "waiting")
        BY <1>0, <2>1, <2>3 DEF Outcome
      <3>2. task'[l] # NoRow /\ task'[l].status # "completed"
        BY <1>0, <2>1, <2>3, <3>1, WrittenRows, WrittenFields DEF IInv
      <3>3. QED
        BY <3>2
    <2>4. CASE l = k /\ stage[pr] = "deleted"
      BY <2>1, <2>4
    <2>5. QED
      BY <2>2, <2>3, <2>4
  <1>8. CASE UNCHANGED vars
    BY <1>0, <1>8 DEF vars
  <1>9. QED
    BY <1>1, <1>2, <1>3, <1>4, <1>5, <1>6, <1>7, <1>8 DEF Next, Run

\* A request grants MaxAttempts attempts, a claim spends one of them.
LEMMA BudgetStep ==
  ASSUME IInv, [Next]_vars
  PROVE  BudgetKept'
  <1> DEFINE Within(k) ==
        /\ issued[k] <= MaxAttempts * requested[k]
        /\ HasRow(k) =>
             /\ task[k].attempt_count <= MaxAttempts
             /\ issued[k] + (MaxAttempts - task[k].attempt_count) <= MaxAttempts * requested[k]
  <1> SUFFICES ASSUME NEW l \in Keys PROVE Within(l)'
    BY DEF BudgetKept
  <1> USE DEF HasRow
  <1>0. /\ Within(l)
        /\ task \in [Keys -> TaskRow \cup {NoRow}]
        /\ task[l] # NoRow => task[l] \in TaskRow
        /\ requested \in [Keys -> Nat]
        /\ issued \in [Keys -> Nat]
        /\ MaxAttempts \in Nat
        /\ MaxAttempts * requested[l] \in Nat
        /\ MaxAttempts * (requested[l] + 1) = MaxAttempts * requested[l] + MaxAttempts
    <2>1. /\ Within(l)
          /\ task \in [Keys -> TaskRow \cup {NoRow}]
          /\ requested \in [Keys -> Nat]
          /\ issued \in [Keys -> Nat]
      BY DEF IInv, TypeOK, BudgetKept
    <2>2. \A m, n \in Nat : m * n \in Nat /\ m * (n + 1) = m * n + m
      OBVIOUS
    <2>3. MaxAttempts \in Nat
      BY OutboxAssumption
    <2>4. QED
      BY <2>1, <2>2, <2>3
  \* Most steps leave the counts of a row alone, or remove the row.
  <1>1. ASSUME issued'[l] = issued[l], requested'[l] = requested[l],
               \/ task'[l] = NoRow
               \/ task[l] # NoRow /\ task'[l].attempt_count = task[l].attempt_count
        PROVE  Within(l)'
    BY <1>0, <1>1
  <1>2. ASSUME NEW k \in Keys, Request(k) PROVE Within(l)'
    <2>1. CASE k = l
      <3>1. /\ task'[l] = QueuedTask /\ QueuedTask.attempt_count = 0
            /\ requested'[l] = requested[l] + 1
            /\ issued'[l] = issued[l]
        BY <1>0, <1>2, <2>1 DEF Request, QueuedTask
      <3>2. QED
        BY <1>0, <3>1
    <2>2. CASE k # l
      BY <1>0, <1>2, <2>2 DEF Request
    <2>3. QED
      BY <2>1, <2>2
  <1>3. ASSUME NEW k \in Keys, LeaseLapses(k) \/ RetryElapses(k) PROVE Within(l)'
    <2>1. CASE k = l
      BY <1>0, <1>1, <1>3, <2>1, WrittenFields DEF LeaseLapses, RetryElapses
    <2>2. CASE k # l
      BY <1>0, <1>3, <2>2 DEF LeaseLapses, RetryElapses
    <2>3. QED
      BY <2>1, <2>2
  <1>4. ASSUME NEW k \in Keys, Purge(k) PROVE Within(l)'
    BY <1>0, <1>4 DEF Purge
  <1>5. ASSUME NEW pr \in Processors, Reap(pr) PROVE Within(l)'
    <2>1. CASE HasRow(l) /\ Exhausted(task[l])
      BY <1>0, <1>1, <1>5, <2>1, WrittenFields DEF Reap
    <2>2. CASE ~(HasRow(l) /\ Exhausted(task[l]))
      BY <1>0, <1>5, <2>2 DEF Reap
    <2>3. QED
      BY <2>1, <2>2
  <1>6. ASSUME NEW pr \in Processors, ClaimBatch(pr) PROVE Within(l)'
    <2>1. requested' = requested
      BY <1>6 DEF ClaimBatch
    <2>2. CASE /\ HasRow(l) /\ Claimable(task[l])
               /\ task'[l] = Claimed(task[l], issued[l] + 1)
               /\ issued'[l] = issued[l] + 1
      <3>1. /\ task[l].attempt_count \in Nat
            /\ task[l].attempt_count < MaxAttempts
            /\ task'[l].attempt_count = task[l].attempt_count + 1
        BY <1>0, <2>2, WrittenFields DEF Claimable
      <3>2. QED
        BY <1>0, <2>1, <2>2, <3>1
    <2>3. CASE task'[l] = task[l] /\ issued'[l] = issued[l]
      BY <1>0, <2>1, <2>3
    <2>4. QED
      BY <1>6, <2>2, <2>3, ClaimedOrKept DEF IInv
  <1>7. ASSUME NEW pr \in Processors,
               ReadTask(pr) \/ DeleteSucceeds(pr) \/ DeleteFails(pr) \/ Crash(pr)
        PROVE  Within(l)'
    BY <1>0, <1>7 DEF ReadTask, DeleteSucceeds, DeleteFails, Crash
  <1>8. ASSUME NEW pr \in Processors, Record(pr) PROVE Within(l)'
    <2> DEFINE k == current[pr]
    <2>1. /\ k \in Keys /\ HasRow(k)
          /\ task' = [task EXCEPT ![k] = Outcome(task[k], stage[pr] = "deleted", loadedCount[pr])]
          /\ UNCHANGED <<issued, requested>>
      BY <1>8 DEF IInv, Record, RunsConsistent, Pending, Busy
    <2>2. CASE l # k
      BY <1>0, <2>1, <2>2
    <2>3. CASE l = k
      <3>1. \E status, retry : task'[l] = Finished(task[l], status, retry)
        BY <1>0, <2>1, <2>3 DEF Outcome
      <3>2. task'[l].attempt_count = task[l].attempt_count
        BY <1>0, <2>1, <2>3, <3>1, WrittenFields
      <3>3. QED
        BY <1>1, <2>1, <2>3, <3>2
    <2>4. QED
      BY <2>2, <2>3
  <1>9. CASE UNCHANGED vars
    BY <1>0, <1>9 DEF vars
  <1>10. QED
    BY <1>2, <1>3, <1>4, <1>5, <1>6, <1>7, <1>8, <1>9 DEF Next, Run

\* A task that another run claims, or that is requested again, while a run has
\* it in hand is overtaken from then on; the reaper alone leaves it what it was.
LEMMA HeldByOneStep ==
  ASSUME IInv, [Next]_vars
  PROVE  HeldByOne'
  <1> USE DEF HasRow, Pending
  <1> DEFINE Held(pr, k) ==
        k \notin overtaken /\ attempts[pr][k] # NoAttempt =>
          /\ \/ task[k].status = "processing" /\ task[k].attempt_id = attempts[pr][k]
             \/ task[k].status = "dead_lettered"
          /\ \A other \in Processors \ {pr} : attempts[other][k] = NoAttempt
          /\ stage[pr] \in Busy /\ current[pr] = k => loadedCount[pr] = task[k].attempt_count
  <1> SUFFICES ASSUME NEW qr \in Processors, NEW l \in Keys PROVE Held(qr, l)'
    BY DEF HeldByOne
  <1>0. /\ \A pr \in Processors : Held(pr, l)
        /\ attempts[qr][l] # NoAttempt => task[l] \in TaskRow
        /\ task \in [Keys -> TaskRow \cup {NoRow}]
        /\ stage \in [Processors -> Stages]
        /\ attempts \in [Processors -> [Keys -> Nat]]
        /\ current \in [Processors -> Keys \cup {"none"}]
        /\ loadedCount \in [Processors -> Nat]
    BY DEF IInv, TypeOK, RunsConsistent, HeldByOne
  <1>1. ASSUME NEW k \in Keys, Request(k) \/ Purge(k) PROVE Held(qr, l)'
    <2>1. CASE k = l /\ attempts[qr][l] # NoAttempt
      <3>1. InHand(l)
        BY <2>1 DEF InHand
      <3>2. l \in overtaken'
        BY <1>1, <2>1, <3>1 DEF Request, Purge
      <3>3. QED
        BY <3>2
    <2>2. CASE k # l \/ attempts[qr][l] = NoAttempt
      BY <1>0, <1>1, <2>2 DEF Request, Purge
    <2>3. QED
      BY <2>1, <2>2
  <1>2. ASSUME NEW k \in Keys, LeaseLapses(k) \/ RetryElapses(k) PROVE Held(qr, l)'
    <2>1. CASE k = l
      BY <1>0, <1>2, <2>1, WrittenFields DEF LeaseLapses, RetryElapses
    <2>2. CASE k # l
      BY <1>0, <1>2, <2>2 DEF LeaseLapses, RetryElapses
    <2>3. QED
      BY <2>1, <2>2
  <1>3. ASSUME NEW pr \in Processors, Reap(pr) PROVE Held(qr, l)'
    <2>1. CASE HasRow(l) /\ Exhausted(task[l])
      <3>1. task'[l] = Finished(task[l], "dead_lettered", "null")
        BY <1>3, <2>1 DEF Reap
      <3>2. task'[l].status = "dead_lettered" /\ task'[l].attempt_count = task[l].attempt_count
        BY <1>0, <2>1, <3>1, WrittenFields
      <3>3. QED
        BY <1>0, <1>3, <3>2 DEF Reap, Busy
    <2>2. CASE ~(HasRow(l) /\ Exhausted(task[l]))
      BY <1>0, <1>3, <2>2 DEF Reap, Busy
    <2>3. QED
      BY <2>1, <2>2
  <1>4. ASSUME NEW pr \in Processors, ClaimBatch(pr) PROVE Held(qr, l)'
    <2>1. /\ \A other \in Processors \ {pr} : attempts'[other] = attempts[other]
          /\ \A other \in Processors \ {pr} : stage'[other] = stage[other]
          /\ stage'[pr] \notin Busy
          /\ UNCHANGED <<current, loadedCount>>
      BY <1>0, <1>4 DEF ClaimBatch, Busy
    <2>2. CASE /\ task'[l] = task[l] /\ attempts'[pr][l] = NoAttempt
               /\ l \in overtaken' <=> l \in overtaken
      BY <1>0, <2>1, <2>2
    <2>3. CASE /\ HasRow(l) /\ Claimable(task[l])
               /\ task'[l] = Claimed(task[l], issued[l] + 1)
               /\ attempts'[pr][l] = issued[l] + 1
               /\ l \in overtaken' <=> InHand(l)
      <3>1. l \notin overtaken' => \A other \in Processors : attempts[other][l] = NoAttempt
        BY <2>3 DEF InHand
      <3>2. /\ task'[l].status = "processing"
            /\ task'[l].attempt_id = issued[l] + 1
        BY <1>0, <2>3, WrittenFields
      <3>3. QED
        BY <2>1, <2>3, <3>1, <3>2
    <2>4. QED
      BY <1>4, <2>2, <2>3, ClaimedOrKept DEF IInv
  <1>5. ASSUME NEW pr \in Processors, ReadTask(pr) PROVE Held(qr, l)'
    <2>1. PICK k \in Keys :
            /\ attempts[pr][k] # NoAttempt
            /\ IF StillOwned(k, attempts[pr][k])
               THEN /\ stage' = [stage EXCEPT ![pr] = "deleting"]
                    /\ current' = [current EXCEPT ![pr] = k]
                    /\ loadedCount' = [loadedCount EXCEPT ![pr] = task[k].attempt_count]
                    /\ UNCHANGED attempts
               ELSE Advance(pr, k)
      BY <1>5 DEF ReadTask
    <2>2. task' = task /\ overtaken' = overtaken
      BY <1>5 DEF ReadTask
    <2>3. CASE StillOwned(k, attempts[pr][k])
      BY <1>0, <2>1, <2>2, <2>3
    <2>4. CASE Advance(pr, k)
      BY <1>0, <2>2, <2>4 DEF Advance, Busy
    <2>5. QED
      BY <2>1, <2>3, <2>4
  <1>6. ASSUME NEW pr \in Processors, DeleteSucceeds(pr) \/ DeleteFails(pr)
        PROVE  Held(qr, l)'
    BY <1>0, <1>6 DEF DeleteSucceeds, DeleteFails, Busy
  <1>7. ASSUME NEW pr \in Processors, Record(pr) PROVE Held(qr, l)'
    <2> DEFINE k == current[pr]
    <2>1. /\ k \in Keys /\ attempts[pr][k] # NoAttempt
          /\ l # k => task'[l] = task[l]
          /\ overtaken' = overtaken
          /\ Advance(pr, k)
      BY <1>0, <1>7 DEF Record, IInv, RunsConsistent, Busy
    <2>2. CASE l # k
      BY <1>0, <2>1, <2>2 DEF Advance, Busy
    <2>3. CASE l = k
      <3>1. l \in overtaken' \/ \A other \in Processors : attempts'[other][l] = NoAttempt
        BY <1>0, <2>1, <2>3 DEF Advance
      <3>2. QED
        BY <3>1
    <2>4. QED
      BY <2>2, <2>3
  <1>8. ASSUME NEW pr \in Processors, Crash(pr) PROVE Held(qr, l)'
    BY <1>0, <1>8 DEF Crash, NoAttempts, Busy
  <1>9. CASE UNCHANGED vars
    BY <1>0, <1>9 DEF vars
  <1>10. QED
    BY <1>1, <1>2, <1>3, <1>4, <1>5, <1>6, <1>7, <1>8, <1>9 DEF Next, Run

\* An outcome recorded by a run that was not overtaken compares the attempts of
\* the row it is written to: the task is queued again with attempts left, or
\* given up without.
LEMMA VerdictStep ==
  ASSUME IInv, [Next]_vars
  PROVE  NoStrandedTask' /\ DeadLetteredAtLimit'
  <1> USE DEF HasRow
  <1> DEFINE Justified(k) == k \notin overtaken /\ HasRow(k) =>
        /\ task[k].status = "queued" => ~(task[k].attempt_count >= MaxAttempts)
        /\ task[k].status = "dead_lettered" => task[k].attempt_count >= MaxAttempts
  <1> SUFFICES ASSUME NEW l \in Keys PROVE Justified(l)'
    BY DEF NoStrandedTask, Unclaimable, DeadLetteredAtLimit
  <1>0. /\ Justified(l)
        /\ task \in [Keys -> TaskRow \cup {NoRow}]
        /\ task[l] # NoRow => task[l] \in TaskRow
        /\ MaxAttempts \in Nat \ {0}
    BY OutboxAssumption DEF IInv, TypeOK, NoStrandedTask, Unclaimable, DeadLetteredAtLimit
  <1>1. ASSUME NEW k \in Keys, Request(k) \/ Purge(k) PROVE Justified(l)'
    BY <1>0, <1>1 DEF Request, Purge, QueuedTask
  <1>2. ASSUME NEW k \in Keys, LeaseLapses(k) \/ RetryElapses(k) PROVE Justified(l)'
    <2>1. CASE k = l
      BY <1>0, <1>2, <2>1, WrittenFields DEF LeaseLapses, RetryElapses
    <2>2. CASE k # l
      BY <1>0, <1>2, <2>2 DEF LeaseLapses, RetryElapses
    <2>3. QED
      BY <2>1, <2>2
  <1>3. ASSUME NEW pr \in Processors, Reap(pr) PROVE Justified(l)'
    <2>1. CASE HasRow(l) /\ Exhausted(task[l])
      BY <1>0, <1>3, <2>1, WrittenFields DEF Reap, Exhausted
    <2>2. CASE ~(HasRow(l) /\ Exhausted(task[l]))
      BY <1>0, <1>3, <2>2 DEF Reap
    <2>3. QED
      BY <2>1, <2>2
  <1>4. ASSUME NEW pr \in Processors, ClaimBatch(pr) PROVE Justified(l)'
    <2>1. CASE HasRow(l) /\ task'[l] = Claimed(task[l], issued[l] + 1)
      BY <1>0, <2>1, WrittenFields
    <2>2. CASE task'[l] = task[l] /\ (l \in overtaken' <=> l \in overtaken)
      BY <1>0, <2>2
    <2>3. QED
      BY <1>4, <2>1, <2>2, ClaimedOrKept DEF IInv
  <1>5. ASSUME NEW pr \in Processors,
               ReadTask(pr) \/ DeleteSucceeds(pr) \/ DeleteFails(pr) \/ Crash(pr)
        PROVE  Justified(l)'
    BY <1>0, <1>5 DEF ReadTask, DeleteSucceeds, DeleteFails, Crash
  <1>6. ASSUME NEW pr \in Processors, Record(pr) PROVE Justified(l)'
    <2> DEFINE k == current[pr]
    <2>1. /\ k \in Keys /\ HasRow(k)
          /\ task' = [task EXCEPT ![k] = Outcome(task[k], stage[pr] = "deleted", loadedCount[pr])]
          /\ overtaken' = overtaken
          /\ k \notin overtaken => loadedCount[pr] = task[k].attempt_count
      BY <1>6 DEF Record, IInv, RunsConsistent, HeldByOne, Pending, Busy
    <2>2. CASE l # k
      BY <1>0, <2>1, <2>2
    <2>3. CASE l = k
      <3>1. \/ task'[l] = Finished(task[l], "completed", "null")
            \/ /\ task'[l] = Finished(task[l], "dead_lettered", "null")
               /\ l \notin overtaken => task[l].attempt_count >= MaxAttempts
            \/ /\ task'[l] = Finished(task[l], "queued", "waiting")
               /\ l \notin overtaken => ~(task[l].attempt_count >= MaxAttempts)
        BY <1>0, <2>1, <2>3 DEF Outcome
      <3>2. /\ task[l] \in TaskRow
            /\ task[l].attempt_count \in Nat
            /\ task'[l].attempt_count = task[l].attempt_count
        BY <1>0, <2>1, <2>3, <3>1, WrittenFields
      <3>3. QED
        BY <1>0, <2>1, <3>1, <3>2, WrittenFields
    <2>4. QED
      BY <2>2, <2>3
  <1>7. CASE UNCHANGED vars
    BY <1>0, <1>7 DEF vars
  <1>8. QED
    BY <1>1, <1>2, <1>3, <1>4, <1>5, <1>6, <1>7 DEF Next, Run

\* The inductive invariant holds in every reachable state, however runs overlap.
THEOREM Invariance == Spec => []IInv
  <1>1. IInv /\ [Next]_vars => IInv'
    BY TypeStep, RunsStep, NoForgottenStep, BudgetStep, HeldByOneStep, VerdictStep
    DEF IInv
  <1>2. QED
    BY InitIInv, <1>1, PTL DEF Spec

-----------------------------------------------------------------------------
(***************************************************************************)
(* What follows from it.                                                   *)
(***************************************************************************)

\* Rows and run states stay well-formed: a late outcome is never written to a
\* row that was purged meanwhile (purge_completed_deletion_tasks).
THEOREM TypeCorrect == Spec => []TypeOK
  BY Invariance, PTL DEF IInv

\* An object whose deletion was requested is gone or still has a task that is
\* not completed, whatever stale outcomes process_object_deletions records.
THEOREM NoObjectForgotten == Spec => []NoForgottenObject
  BY Invariance, PTL DEF IInv

\* At most max_attempts attempts for each request (the claim's filter, and the
\* reset by enqueue_object_deletion).
THEOREM AttemptsCorrect == Spec => []AttemptsBounded
  <1>1. IInv => AttemptsBounded
    BY DEF IInv, BudgetKept, AttemptsBounded
  <1>2. QED
    BY <1>1, Invariance, PTL

\* No queued task is out of attempts, where no claim takes it and no reaping
\* gives it up, except for tasks that were overtaken: claimed or requested
\* again while a run of process_object_deletions had them in hand.
THEOREM NoTaskStranded == Spec => []NoStrandedTask
  BY Invariance, PTL DEF IInv

\* Tasks are dead-lettered with their attempts used up, with the same exception.
THEOREM DeadLettersCorrect == Spec => []DeadLetteredAtLimit
  BY Invariance, PTL DEF IInv
=============================================================================
