-------------------------- MODULE FaceSearchProofs --------------------------
(***************************************************************************)
(* Machine-checked theorems about FaceSearch, for every set of selfies and *)
(* every attempt budget.                                                   *)
(***************************************************************************)
EXTENDS FaceSearch, TLAPS

-----------------------------------------------------------------------------
(* The rows of a worker queue (JobRecord).                                 *)

\* The assignments of every handler keep a row well-typed.
LEMMA RowTypes ==
  ASSUME NEW row \in JobRow
  PROVE  /\ \A a \in Nat : Claimed(row, a) \in JobRow
         /\ Heartbeaten(row) \in JobRow
         /\ Completed(row) \in JobRow
         /\ DeadLettered(row) \in JobRow
         /\ RetryScheduled(row) \in JobRow
         /\ Failed(row) \in JobRow
         /\ \A r \in BOOLEAN : AfterFailure(row, r) \in JobRow
         /\ LeaseLapsed(row) \in JobRow
         /\ RetryElapsed(row) \in JobRow
  <1> USE DEF JobRow, JobStatus
  <1>1. \A a \in Nat : Claimed(row, a) \in JobRow
    BY DEF Claimed
  <1>2. Heartbeaten(row) \in JobRow
    BY DEF Heartbeaten
  <1>3. Completed(row) \in JobRow
    BY DEF Completed
  <1>4. DeadLettered(row) \in JobRow
    BY DEF DeadLettered
  <1>5. RetryScheduled(row) \in JobRow
    BY DEF RetryScheduled
  <1>6. Failed(row) \in JobRow
    BY DEF Failed
  <1>7. \A r \in BOOLEAN : AfterFailure(row, r) \in JobRow
    BY <1>4, <1>5, <1>6 DEF AfterFailure
  <1>8. LeaseLapsed(row) \in JobRow
    BY DEF LeaseLapsed
  <1>9. RetryElapsed(row) \in JobRow
    BY DEF RetryElapsed
  <1>10. QED
    BY <1>1, <1>2, <1>3, <1>4, <1>5, <1>6, <1>7, <1>8, <1>9

\* The status after each assignment.
LEMMA RowStatus ==
  ASSUME NEW row \in JobRow
  PROVE  /\ \A a : Claimed(row, a).status = "processing"
         /\ Heartbeaten(row).status = row.status
         /\ LeaseLapsed(row).status = row.status
         /\ RetryElapsed(row).status = row.status
         /\ Completed(row).status = "completed"
         /\ DeadLettered(row).status = "dead_lettered"
         /\ AfterFailure(row, TRUE).status \in {"queued", "dead_lettered"}
         /\ AfterFailure(row, FALSE).status = "failed"
  BY DEF Claimed, Heartbeaten, LeaseLapsed, RetryElapsed, Completed, DeadLettered,
         AfterFailure, RetryScheduled, Failed, JobRow

\* A row is born sound.
LEMMA NewRow == NewJob \in JobRow /\ RowSound(NewJob, 0)
  BY MaxAttemptsAssumption DEF NewJob, NoAttempt, JobRow, JobStatus, RowSound

\* Every assignment keeps a row sound under the guard of its handler.
LEMMA RowSteps ==
  ASSUME NEW row \in JobRow, NEW n \in Nat, RowSound(row, n)
  PROVE  /\ Claimable(row) => RowSound(Claimed(row, n + 1), n + 1)
         /\ Exhausted(row) => RowSound(DeadLettered(row), n)
         /\ \A a : Owns(row, a) => RowSound(Heartbeaten(row), n)
         /\ \A a, r : Owns(row, a) => RowSound(AfterFailure(row, r), n)
         /\ row.status = "processing" => RowSound(Completed(row), n)
         /\ row.lease_expires_at = "live" => RowSound(LeaseLapsed(row), n)
         /\ row.retry_after = "waiting" => RowSound(RetryElapsed(row), n)
  <1> USE MaxAttemptsAssumption DEF RowSound, JobRow
  <1>1. Claimable(row) => RowSound(Claimed(row, n + 1), n + 1)
    BY DEF Claimable, Claimed
  <1>2. row.attempt_count >= MaxAttempts => RowSound(DeadLettered(row), n)
    BY DEF DeadLettered
  <1>3. Exhausted(row) => RowSound(DeadLettered(row), n)
    BY <1>2 DEF Exhausted
  <1>4. \A a : Owns(row, a) => RowSound(Heartbeaten(row), n)
    BY DEF Owns, Heartbeaten
  <1>5. RowSound(RetryScheduled(row), n) /\ RowSound(Failed(row), n)
    BY DEF RetryScheduled, Failed
  <1>6. \A r : RowSound(AfterFailure(row, r), n)
    BY <1>2, <1>5 DEF AfterFailure
  <1>7. row.status = "processing" => RowSound(Completed(row), n)
    BY DEF Completed
  <1>8. row.lease_expires_at = "live" => RowSound(LeaseLapsed(row), n)
    BY DEF LeaseLapsed
  <1>9. row.retry_after = "waiting" => RowSound(RetryElapsed(row), n)
    BY DEF RetryElapsed
  <1>10. QED
    BY <1>1, <1>3, <1>4, <1>6, <1>7, <1>8, <1>9

-----------------------------------------------------------------------------
\* Type correctness: every handler leaves well-formed rows behind.
LEMMA InitTypeOK == Init => TypeOK
  <1>1. NewJob \in JobRow
    BY NewRow
  <1>2. Init => closed \in BOOLEAN
    BY Zenon DEF Init
  <1>3. QED
    BY <1>1, <1>2 DEF Init, TypeOK, NoAttempt

\* The status a handler derives for a session is one of its statuses.
LEMMA SummaryType ==
  \A seen, before : Summary(seen, before) \in {"completed", "failed", before}
  BY DEF Summary

\* The rows an upload commits are well-formed.
LEMMA InsertRowsType ==
  ASSUME TypeOK, NEW s \in Selfies, InsertRows(s) \/ UNCHANGED rowVars
  PROVE  /\ sessionOf' \in [Selfies -> Selfies \cup {NoSession}]
         /\ session' \in [Selfies -> SessionStatus \cup {"none", "purged"}]
         /\ image' \in [Selfies -> ImageStatus \cup {"none"}]
         /\ job' \in [Selfies -> JobRow]
  <1> USE DEF TypeOK
  <1>1. CASE UNCHANGED rowVars
    BY <1>1 DEF rowVars
  <1>2. CASE InsertRows(s)
    <2> DEFINE x == IF reused = NoSession THEN s ELSE reused
    <2>1. x \in Selfies
      OBVIOUS
    <2>2. /\ sessionOf' = [sessionOf EXCEPT ![s] = x]
          /\ session' = [session EXCEPT ![x] = IF session[x] = "none" THEN "queued" ELSE session[x]]
          /\ image' = [image EXCEPT ![s] = "queued"]
          /\ job' = [job EXCEPT ![s] = NewJob]
      BY <1>2 DEF InsertRows
    <2> HIDE DEF x
    <2>3. QED
      BY <2>1, <2>2, NewRow DEF SessionStatus, ImageStatus
  <1>3. QED
    BY <1>1, <1>2

LEMMA NextTypeOK == TypeOK /\ [Next]_vars => TypeOK'
  <1> SUFFICES ASSUME TypeOK, [Next]_vars PROVE TypeOK'
    OBVIOUS
  <1> USE DEF TypeOK, requestVars, rowVars, storeVars, lockVars, history
  <1>1. ASSUME NEW s \in Selfies, Store(s) PROVE TypeOK'
    BY <1>1 DEF Store
  <1>2. ASSUME NEW s \in Selfies, Publish(s) PROVE TypeOK'
    <2>1. InsertRows(s)
      BY <1>2 DEF Publish
    <2>2. QED
      BY <1>2, <2>1, InsertRowsType DEF Publish
  <1>3. ASSUME NEW s \in Selfies, PublishFails(s) PROVE TypeOK'
    <2>1. InsertRows(s) \/ UNCHANGED rowVars
      BY <1>3 DEF PublishFails
    <2>2. QED
      BY <1>3, <2>1, InsertRowsType DEF PublishFails
  <1>4. CASE Answer \/ RequestDies
    BY <1>4 DEF Answer, RequestDies
  <1>5. CASE Claim
    <2>1. \A s \in Selfies : /\ DeadLettered(job[s]) \in JobRow
                             /\ Claimed(job[s], issued[s] + 1) \in JobRow
      <3>1. \A s \in Selfies : job[s] \in JobRow /\ issued[s] + 1 \in Nat
        OBVIOUS
      <3>2. QED
        BY <3>1, RowTypes
    <2>2. \A x \in Selfies : SyncedSession(x) \in SessionStatus \cup {"none", "purged"}
      BY SummaryType DEF SyncedSession, SessionStatus
    <2>3. {"failed", "processing"} \subseteq ImageStatus /\ "processing" \in SessionStatus
      BY DEF ImageStatus, SessionStatus
    <2>4. QED
      BY <1>5, <2>1, <2>2, <2>3 DEF Claim
  <1>6. ASSUME NEW s \in Selfies, NEW attempt \in 1..issued[s],
               \/ Heartbeat(s, attempt)
               \/ \E retryable \in BOOLEAN : Fail(s, attempt, retryable)
               \/ CompleteLock(s, attempt)
        PROVE TypeOK'
    <2>1. CASE Heartbeat(s, attempt)
      BY <2>1, RowTypes DEF Heartbeat
    <2>2. ASSUME NEW retryable \in BOOLEAN, Fail(s, attempt, retryable) PROVE TypeOK'
      <3>1. AfterFailure(job[s], retryable) \in JobRow
        BY RowTypes
      <3>2. sessionOf[s] \in Selfies =>
              SyncedSession(sessionOf[s]) \in SessionStatus \cup {"none", "purged"}
        BY SummaryType DEF SyncedSession, SessionStatus
      <3>3. "failed" \in ImageStatus
        BY DEF ImageStatus
      <3>4. QED
        BY <2>2, <3>1, <3>2, <3>3 DEF Fail
    <2>3. CASE CompleteLock(s, attempt)
      BY <2>3 DEF CompleteLock
    <2>4. QED
      BY <1>6, <2>1, <2>2, <2>3
  <1>7. ASSUME NEW s \in Selfies, CompleteMatch(s) PROVE TypeOK'
    BY <1>7, SummaryType DEF CompleteMatch, SessionStatus
  <1>8. ASSUME NEW s \in Selfies, CompleteCommit(s) PROVE TypeOK'
    <2>1. Completed(job[s]) \in JobRow /\ "ready" \in ImageStatus
      BY RowTypes DEF ImageStatus
    <2>2. results[s] \cup {reporter[s]} \in SUBSET Nat /\ NoAttempt \in Nat
      BY DEF NoAttempt
    <2>3. QED
      BY <1>8, <2>1, <2>2 DEF CompleteCommit
  <1>9. ASSUME NEW s \in Selfies, CompleteRollback(s) \/ Expire(s) PROVE TypeOK'
    BY <1>9 DEF CompleteRollback, Expire, NoAttempt
  <1>10. ASSUME NEW s \in Selfies, LeaseLapses(s) \/ RetryElapses(s) PROVE TypeOK'
    BY <1>10, RowTypes DEF LeaseLapses, RetryElapses
  <1>11. CASE PurgeLock \/ PurgeRollback
    BY <1>11 DEF PurgeLock, PurgeRollback
  <1>12. CASE PurgeCommit
    <2>1. Purged \subseteq Selfies
      BY DEF Purged
    <2>2. QED
      BY <1>12, <2>1, NewRow DEF PurgeCommit, DeletionsOf
  <1>13. CASE UNCHANGED vars
    BY <1>13 DEF vars
  <1>14. QED
    BY <1>1, <1>2, <1>3, <1>4, <1>5, <1>6, <1>7, <1>8, <1>9, <1>10, <1>11, <1>12, <1>13
    DEF Next, Request, Report, Transaction, Purge

THEOREM TypeCorrect == Spec => []TypeOK
  BY InitTypeOK, NextTypeOK, PTL DEF Spec

-----------------------------------------------------------------------------
(***************************************************************************)
(* What one step does to the rows of one selfie.                           *)
(***************************************************************************)
RowsKept(s) ==
  /\ job'[s] = job[s] /\ image'[s] = image[s]
  /\ issued'[s] = issued[s] /\ results'[s] = results[s]

Inserted(s) ==
  /\ upload[s] = "stored" /\ upload'[s] = "done"
  /\ job'[s] = NewJob /\ image'[s] = "queued"
  /\ issued'[s] = issued[s] /\ results'[s] = results[s] /\ tx'[s] = tx[s]

HandedOut(s) ==
  /\ HasRows(s) /\ tx[s] = "none" /\ Claimable(job[s])
  /\ job'[s] = Claimed(job[s], issued[s] + 1) /\ image'[s] = "processing"
  /\ issued'[s] = issued[s] + 1 /\ results'[s] = results[s] /\ tx'[s] = tx[s]

GivenUp(s) ==
  /\ HasRows(s) /\ tx[s] = "none" /\ Exhausted(job[s])
  /\ job'[s] = DeadLettered(job[s]) /\ image'[s] = "failed"
  /\ issued'[s] = issued[s] /\ results'[s] = results[s] /\ tx'[s] = tx[s]

\* Renewed, or touched by the clock.
Aged(s) ==
  /\ HasRows(s)
  /\ \/ tx[s] = "none" /\ (\E a : Owns(job[s], a)) /\ job'[s] = Heartbeaten(job[s])
     \/ job[s].lease_expires_at = "live" /\ job'[s] = LeaseLapsed(job[s])
     \/ job[s].retry_after = "waiting" /\ job'[s] = RetryElapsed(job[s])
  /\ image'[s] = image[s]
  /\ issued'[s] = issued[s] /\ results'[s] = results[s] /\ tx'[s] = tx[s]

FailureReported(s) ==
  /\ HasRows(s) /\ tx[s] = "none" /\ \E a : Owns(job[s], a)
  /\ \E retryable \in BOOLEAN : job'[s] = AfterFailure(job[s], retryable)
  /\ image'[s] = IF IsTerminal(job'[s]) THEN "failed" ELSE image[s]
  /\ issued'[s] = issued[s] /\ results'[s] = results[s] /\ tx'[s] = tx[s]

Finished(s) ==
  /\ tx[s] # "none"
  /\ job'[s] = Completed(job[s]) /\ image'[s] = "ready"
  /\ issued'[s] = issued[s] /\ results'[s] = results[s] \cup {reporter[s]} /\ tx'[s] = "none"

RowsPurged(s) ==
  /\ HasRows(s) /\ tx[s] = "none" /\ s \in tombstones'
  /\ job'[s] = NewJob /\ image'[s] = "none"
  /\ issued'[s] = issued[s] /\ results'[s] = {} /\ tx'[s] = tx[s]

\* These are the only ways in which the rows of a selfie change.
LEMMA RowTransitions ==
  ASSUME IInv, [Next]_vars, NEW s \in Selfies
  PROVE  \/ RowsKept(s) \/ Inserted(s) \/ HandedOut(s) \/ GivenUp(s) \/ Aged(s)
         \/ FailureReported(s) \/ Finished(s) \/ RowsPurged(s)
  <1> DEFINE Goal == \/ RowsKept(s) \/ Inserted(s) \/ HandedOut(s) \/ GivenUp(s) \/ Aged(s)
                     \/ FailureReported(s) \/ Finished(s) \/ RowsPurged(s)
  <1> SUFFICES Goal
    OBVIOUS
  <1>0. /\ job \in [Selfies -> JobRow]
        /\ image \in [Selfies -> ImageStatus \cup {"none"}]
        /\ issued \in [Selfies -> Nat]
        /\ results \in [Selfies -> SUBSET Nat]
        /\ upload \in [Selfies -> {"waiting", "stored", "done"}]
        /\ tx \in [Selfies -> SessionStatus \cup {"none", "owned"}]
        /\ ~HasRows(s) => job[s] = NewJob
    BY DEF IInv, TypeOK, RowsConsistent
  <1>1. ASSUME NEW t \in Selfies, Store(t) \/ CompleteMatch(t) \/ CompleteRollback(t) \/ Expire(t)
        PROVE  Goal
    <2>1. RowsKept(s)
      BY <1>1 DEF Store, CompleteMatch, CompleteRollback, Expire, RowsKept, rowVars, history
    <2>2. QED
      BY <2>1
  <1>2. ASSUME NEW t \in Selfies, Publish(t) \/ PublishFails(t) PROVE Goal
    <2>1. CASE InsertRows(t) /\ t = s
      <3>1. Inserted(s)
        BY <1>0, <1>2, <2>1 DEF Publish, PublishFails, InsertRows, Inserted, history, lockVars
      <3>2. QED
        BY <3>1
    <2>2. CASE t # s \/ UNCHANGED rowVars
      <3>1. RowsKept(s)
        BY <1>0, <1>2, <2>2 DEF Publish, PublishFails, InsertRows, RowsKept, rowVars, history
      <3>2. QED
        BY <3>1
    <2>3. QED
      BY <1>2, <2>1, <2>2 DEF Publish, PublishFails
  <1>3. CASE Answer \/ RequestDies \/ PurgeLock \/ PurgeRollback
    <2>1. RowsKept(s)
      BY <1>3 DEF Answer, RequestDies, PurgeLock, PurgeRollback, RowsKept, rowVars, history
    <2>2. QED
      BY <2>1
  <1>4. CASE Claim
    <2> DEFINE exhausted == {t \in Selfies : Visible(t) /\ Exhausted(job[t])}
    <2> DEFINE claimable == {t \in Selfies : Visible(t) /\ Claimable(job[t])}
    <2> DEFINE taken == {t \in claimable : \A u \in claimable : Position[t] <= Position[u]}
    <2>1. /\ job'[s] = (IF s \in exhausted THEN DeadLettered(job[s])
                        ELSE IF s \in taken THEN Claimed(job[s], issued[s] + 1) ELSE job[s])
          /\ issued'[s] = (IF s \in taken THEN issued[s] + 1 ELSE issued[s])
          /\ image'[s] = (IF s \in exhausted THEN "failed"
                          ELSE IF s \in taken THEN "processing" ELSE image[s])
          /\ results' = results /\ tx' = tx
      BY <1>4 DEF Claim, lockVars
    <2>2. CASE s \in exhausted
      <3>1. s \notin taken
        BY <1>0, <2>2, MaxAttemptsAssumption DEF Exhausted, Claimable, JobRow
      <3>2. GivenUp(s)
        BY <2>1, <2>2, <3>1 DEF GivenUp, Visible
      <3>3. QED
        BY <3>2
    <2>3. CASE s \in taken /\ s \notin exhausted
      <3>1. HandedOut(s)
        BY <2>1, <2>3 DEF HandedOut, Visible
      <3>2. QED
        BY <3>1
    <2>4. CASE s \notin taken /\ s \notin exhausted
      <3>1. RowsKept(s)
        BY <2>1, <2>4 DEF RowsKept
      <3>2. QED
        BY <3>1
    <2>5. QED
      BY <2>2, <2>3, <2>4
  <1>5. ASSUME NEW t \in Selfies, Report(t) PROVE Goal
    <2>1. ASSUME NEW a \in 1..issued[t], Heartbeat(t, a) PROVE Goal
      <3>1. RowsKept(s) \/ Aged(s)
        BY <1>0, <2>1 DEF Heartbeat, Reportable, RowsKept, Aged, history, lockVars
      <3>2. QED
        BY <3>1
    <2>2. ASSUME NEW a \in 1..issued[t], NEW r \in BOOLEAN, Fail(t, a, r) PROVE Goal
      <3>1. CASE t = s
        <4>1. FailureReported(s)
          BY <1>0, <2>2, <3>1 DEF Fail, Reportable, FailureReported, history, lockVars
        <4>2. QED
          BY <4>1
      <3>2. CASE t # s
        <4>1. RowsKept(s)
          BY <1>0, <2>2, <3>2 DEF Fail, RowsKept, history
        <4>2. QED
          BY <4>1
      <3>3. QED
        BY <3>1, <3>2
    <2>3. ASSUME NEW a \in 1..issued[t], CompleteLock(t, a) PROVE Goal
      <3>1. RowsKept(s)
        BY <2>3 DEF CompleteLock, RowsKept, rowVars, history
      <3>2. QED
        BY <3>1
    <2>4. QED
      BY <1>5, <2>1, <2>2, <2>3 DEF Report
  <1>6. ASSUME NEW t \in Selfies, CompleteCommit(t) PROVE Goal
    <2>1. CASE t = s
      <3>1. Finished(s)
        BY <1>0, <1>6, <2>1 DEF CompleteCommit, SessionStatus, Finished
      <3>2. QED
        BY <3>1
    <2>2. CASE t # s
      <3>1. RowsKept(s)
        BY <1>0, <1>6, <2>2 DEF CompleteCommit, RowsKept
      <3>2. QED
        BY <3>1
    <2>3. QED
      BY <2>1, <2>2
  <1>7. ASSUME NEW t \in Selfies, LeaseLapses(t) \/ RetryElapses(t) PROVE Goal
    <2>1. t = s => HasRows(s)
      BY <1>0, <1>7 DEF LeaseLapses, RetryElapses, NewJob
    <2>2. RowsKept(s) \/ Aged(s)
      BY <1>0, <1>7, <2>1 DEF LeaseLapses, RetryElapses, RowsKept, Aged, history, lockVars
    <2>3. QED
      BY <2>2
  <1>8. CASE PurgeCommit
    <2>1. CASE s \in Purged
      <3>1. RowsPurged(s)
        BY <1>8, <2>1 DEF PurgeCommit, Purged, Unlocked, DeletionsOf, RowsPurged
      <3>2. QED
        BY <3>1
    <2>2. CASE s \notin Purged
      <3>1. RowsKept(s)
        BY <1>8, <2>2 DEF PurgeCommit, RowsKept
      <3>2. QED
        BY <3>1
    <2>3. QED
      BY <2>1, <2>2
  <1>9. CASE UNCHANGED vars
    <2>1. RowsKept(s)
      BY <1>9 DEF vars, rowVars, history, RowsKept
    <2>2. QED
      BY <2>1
  <1>10. QED
    BY <1>1, <1>2, <1>3, <1>4, <1>5, <1>6, <1>7, <1>8, <1>9
    DEF Next, Request, Transaction, Purge

\* The status of the job before and after.
LEMMA StatusSteps ==
  ASSUME IInv, NEW s \in Selfies
  PROVE  /\ HandedOut(s) => /\ job[s].status \in {"queued", "processing"}
                            /\ job'[s].status = "processing"
         /\ GivenUp(s) => /\ job[s].status \in {"queued", "processing"}
                          /\ job'[s].status = "dead_lettered"
         /\ Aged(s) => job'[s].status = job[s].status
         /\ FailureReported(s) => /\ job[s].status = "processing"
                                  /\ job'[s].status \in {"queued", "dead_lettered", "failed"}
         /\ Finished(s) => job'[s].status = "completed"
  <1>0. job[s] \in JobRow
    BY DEF IInv, TypeOK
  <1>1. /\ \A a : Claimed(job[s], a).status = "processing"
        /\ DeadLettered(job[s]).status = "dead_lettered"
        /\ Heartbeaten(job[s]).status = job[s].status
        /\ LeaseLapsed(job[s]).status = job[s].status
        /\ RetryElapsed(job[s]).status = job[s].status
        /\ Completed(job[s]).status = "completed"
    BY <1>0, RowStatus
  <1>2. \A r \in BOOLEAN :
          AfterFailure(job[s], r).status \in {"queued", "dead_lettered", "failed"}
    BY <1>0, RowStatus
  <1>3. Available(job[s]) => job[s].status \in {"queued", "processing"}
    BY DEF Available
  <1>4. HandedOut(s) => /\ job[s].status \in {"queued", "processing"}
                        /\ job'[s].status = "processing"
    BY <1>1, <1>3 DEF HandedOut, Claimable
  <1>5. GivenUp(s) => /\ job[s].status \in {"queued", "processing"}
                      /\ job'[s].status = "dead_lettered"
    BY <1>1, <1>3 DEF GivenUp, Exhausted
  <1>6. Aged(s) => job'[s].status = job[s].status
    BY <1>1 DEF Aged
  <1>7. FailureReported(s) => /\ job[s].status = "processing"
                              /\ job'[s].status \in {"queued", "dead_lettered", "failed"}
    BY <1>2 DEF FailureReported, Owns
  <1>8. Finished(s) => job'[s].status = "completed"
    BY <1>1 DEF Finished
  <1>9. QED
    BY <1>4, <1>5, <1>6, <1>7, <1>8

\* An upload that has ended stays so.
LEMMA UploadSteps ==
  ASSUME IInv, [Next]_vars, NEW s \in Selfies, upload'[s] # "done"
  PROVE  upload[s] # "done"
  <1> upload \in [Selfies -> {"waiting", "stored", "done"}]
    BY DEF IInv, TypeOK
  <1> USE DEF requestVars
  <1>1. CASE Request
    BY <1>1 DEF Request, Store, Publish, PublishFails, Answer, RequestDies, IsNext
  <1>2. CASE Claim \/ Purge
    BY <1>2 DEF Claim, Purge, PurgeLock, PurgeCommit, PurgeRollback
  <1>3. ASSUME NEW t \in Selfies, Report(t) \/ Transaction(t) \/ Expire(t)
                                  \/ LeaseLapses(t) \/ RetryElapses(t)
        PROVE  upload' = upload
    BY <1>3 DEF Report, Heartbeat, Fail, CompleteLock, Transaction, CompleteMatch,
                CompleteCommit, CompleteRollback, Expire, LeaseLapses, RetryElapses
  <1>4. CASE UNCHANGED vars
    BY <1>4 DEF vars
  <1>5. QED
    BY <1>1, <1>2, <1>3, <1>4 DEF Next

\* A completion in flight was so before, or has just verified its attempt.
LEMMA LockSteps ==
  ASSUME IInv, [Next]_vars, NEW s \in Selfies, tx'[s] # "none"
  PROVE  \/ tx[s] # "none" /\ reporter'[s] = reporter[s]
         \/ HasRows(s) /\ Owns(job[s], reporter'[s])
  <1> /\ tx \in [Selfies -> SessionStatus \cup {"none", "owned"}]
      /\ reporter \in [Selfies -> Nat]
    BY DEF IInv, TypeOK
  <1> USE DEF lockVars
  <1>1. CASE Request \/ Claim \/ Purge
    BY <1>1 DEF Request, Store, Publish, PublishFails, Answer, RequestDies,
                Claim, Purge, PurgeLock, PurgeCommit, PurgeRollback
  <1>2. ASSUME NEW t \in Selfies, Report(t)
        PROVE  \/ tx[s] # "none" /\ reporter'[s] = reporter[s]
               \/ HasRows(s) /\ Owns(job[s], reporter'[s])
    BY <1>2 DEF Report, Heartbeat, Fail, CompleteLock, Reportable
  <1>3. ASSUME NEW t \in Selfies, Transaction(t) \/ Expire(t)
        PROVE  tx[s] # "none" /\ reporter'[s] = reporter[s]
    BY <1>3 DEF Transaction, CompleteMatch, CompleteCommit, CompleteRollback, Expire
  <1>4. ASSUME NEW t \in Selfies, LeaseLapses(t) \/ RetryElapses(t)
        PROVE  tx' = tx /\ reporter' = reporter
    BY <1>4 DEF LeaseLapses, RetryElapses
  <1>5. CASE UNCHANGED vars
    BY <1>5 DEF vars
  <1>6. QED
    BY <1>1, <1>2, <1>3, <1>4, <1>5 DEF Next

-----------------------------------------------------------------------------
(***************************************************************************)
(* The inductive invariant.                                                *)
(***************************************************************************)
LEMMA InitIInv == Init => IInv
  <1> SUFFICES ASSUME Init PROVE IInv
    OBVIOUS
  <1>1. TypeOK
    BY InitTypeOK
  <1>2. RowsConsistent /\ CompletionsOwned /\ SelfieAccounted
        /\ ResultsFromLastAttempt /\ ImageFollowsJob
    BY DEF Init, RowsConsistent, CompletionsOwned, SelfieAccounted,
           ResultsFromLastAttempt, ImageFollowsJob, HasRows
  <1>3. QED
    BY <1>1, <1>2 DEF IInv

LEMMA RowsConsistentStep == IInv /\ [Next]_vars => RowsConsistent'
  <1> DEFINE Sound(s) ==
        /\ upload'[s] # "done" => ~HasRows(s)' /\ issued'[s] = 0 /\ results'[s] = {}
        /\ IF HasRows(s)' THEN RowSound(job'[s], issued'[s]) ELSE job'[s] = NewJob
  <1> SUFFICES ASSUME IInv, [Next]_vars, NEW s \in Selfies PROVE Sound(s)
    BY DEF RowsConsistent, RowSound, HasRows
  <1>0. /\ job[s] \in JobRow /\ issued[s] \in Nat
        /\ upload[s] # "done" => ~HasRows(s) /\ issued[s] = 0 /\ results[s] = {}
        /\ HasRows(s) => RowSound(job[s], issued[s])
        /\ ~HasRows(s) => job[s] = NewJob
        /\ tx[s] # "none" => HasRows(s) /\ job[s].status = "processing"
        /\ upload'[s] # "done" => upload[s] # "done"
    BY UploadSteps DEF IInv, TypeOK, RowsConsistent, CompletionsOwned
  <1>1. CASE RowsKept(s)
    BY <1>0, <1>1 DEF RowsKept, HasRows
  <1>2. CASE Inserted(s)
    BY <1>0, <1>2, NewRow DEF Inserted
  <1>3. CASE HandedOut(s) \/ GivenUp(s) \/ FailureReported(s)
    <2>1. HasRows(s) /\ upload'[s] = "done"
      BY <1>0, <1>3, UploadSteps DEF HandedOut, GivenUp, FailureReported
    <2>2. HasRows(s)'
      BY <1>3, <2>1 DEF HandedOut, GivenUp, FailureReported, HasRows
    <2>3. RowSound(job'[s], issued'[s])
      BY <1>0, <1>3, <2>1, RowSteps DEF HandedOut, GivenUp, FailureReported
    <2>4. QED
      BY <2>1, <2>2, <2>3
  <1>4. CASE Aged(s)
    <2>1. HasRows(s) /\ HasRows(s)' /\ upload'[s] = "done"
      BY <1>0, <1>4, UploadSteps DEF Aged, HasRows
    <2>2. RowSound(job'[s], issued'[s])
      BY <1>0, <1>4, <2>1, RowSteps DEF Aged
    <2>3. QED
      BY <2>1, <2>2
  <1>5. CASE Finished(s)
    <2>1. HasRows(s) /\ HasRows(s)' /\ upload'[s] = "done"
      BY <1>0, <1>5, UploadSteps DEF Finished, HasRows
    <2>2. RowSound(job'[s], issued'[s])
      BY <1>0, <1>5, <2>1, RowSteps DEF Finished
    <2>3. QED
      BY <2>1, <2>2
  <1>6. CASE RowsPurged(s)
    <2>1. ~HasRows(s)' /\ upload'[s] = "done"
      BY <1>0, <1>6, UploadSteps DEF RowsPurged, HasRows
    <2>2. QED
      BY <1>6, <2>1 DEF RowsPurged
  <1>7. QED
    BY <1>1, <1>2, <1>3, <1>4, <1>5, <1>6, RowTransitions

LEMMA CompletionsOwnedStep == IInv /\ [Next]_vars => CompletionsOwned'
  <1> SUFFICES ASSUME IInv, [Next]_vars, NEW s \in Selfies, tx'[s] # "none"
               PROVE  HasRows(s)' /\ job'[s].status = "processing" /\ reporter'[s] = issued'[s]
    BY DEF CompletionsOwned, HasRows
  <1>1. HasRows(s) /\ job[s].status = "processing" /\ reporter'[s] = issued[s]
    <2>1. CASE tx[s] # "none" /\ reporter'[s] = reporter[s]
      BY <2>1 DEF IInv, CompletionsOwned
    <2>2. CASE HasRows(s) /\ Owns(job[s], reporter'[s])
      BY <2>2 DEF IInv, RowsConsistent, RowSound, Owns, AttemptMatches
    <2>3. QED
      BY <2>1, <2>2, LockSteps
  <1>2. job[s] \in JobRow /\ upload[s] = "done"
    BY <1>1 DEF IInv, TypeOK, RowsConsistent
  <1>3. RowsKept(s) \/ Aged(s)
    BY <1>2, RowTransitions
    DEF Inserted, HandedOut, GivenUp, FailureReported, Finished, RowsPurged
  <1>4. CASE RowsKept(s)
    BY <1>1, <1>4 DEF RowsKept, HasRows
  <1>5. CASE Aged(s)
    BY <1>1, <1>2, <1>5, RowStatus DEF Aged, HasRows
  <1>6. QED
    BY <1>3, <1>4, <1>5

\* A stored selfie that the request lets go has rows, or is known to be leaked.
LEMMA StoreSteps ==
  ASSUME IInv, [Next]_vars
  PROVE  /\ leaked \subseteq leaked' /\ tombstones \subseteq tombstones'
         /\ \A s \in Selfies : s \in objects' =>
              \/ s \in leaked' \/ upload'[s] = "stored" \/ HasRows(s)'
              \/ s \in objects /\ upload[s] # "stored"
  <1> DEFINE Goal == /\ leaked \subseteq leaked' /\ tombstones \subseteq tombstones'
                     /\ \A s \in Selfies : s \in objects' =>
                          \/ s \in leaked' \/ upload'[s] = "stored" \/ HasRows(s)'
                          \/ s \in objects /\ upload[s] # "stored"
  <1> SUFFICES Goal
    OBVIOUS
  <1>0. /\ upload \in [Selfies -> {"waiting", "stored", "done"}]
        /\ image \in [Selfies -> ImageStatus \cup {"none"}]
    BY DEF IInv, TypeOK
  <1> USE DEF storeVars
  <1>1. ASSUME NEW t \in Selfies, Store(t) PROVE Goal
    BY <1>0, <1>1 DEF Store, IsNext
  <1>2. ASSUME NEW t \in Selfies, Publish(t) PROVE Goal
    BY <1>0, <1>2 DEF Publish, InsertRows, HasRows
  <1>3. ASSUME NEW t \in Selfies, PublishFails(t) PROVE Goal
    BY <1>0, <1>3 DEF PublishFails
  <1>4. CASE Answer \/ RequestDies
    BY <1>0, <1>4 DEF Answer, RequestDies
  <1>5. CASE Claim \/ Purge
    BY <1>5 DEF Claim, Purge, PurgeLock, PurgeCommit, PurgeRollback, requestVars
  <1>6. ASSUME NEW t \in Selfies, Report(t) \/ Transaction(t) \/ Expire(t)
                                  \/ LeaseLapses(t) \/ RetryElapses(t)
        PROVE  UNCHANGED <<storeVars, upload>>
    BY <1>6 DEF Report, Heartbeat, Fail, CompleteLock, Transaction, CompleteMatch,
                CompleteCommit, CompleteRollback, Expire, LeaseLapses, RetryElapses,
                requestVars
  <1>7. CASE UNCHANGED vars
    BY <1>7 DEF vars, requestVars
  <1>8. QED
    BY <1>1, <1>2, <1>3, <1>4, <1>5, <1>6, <1>7 DEF Next, Request

\* Rows go away in a purge only, which hands the selfie to the outbox.
LEMMA RowsGoWithTombstone ==
  ASSUME IInv, [Next]_vars, NEW s \in Selfies, HasRows(s)
  PROVE  HasRows(s)' \/ RowsPurged(s)
  BY RowTransitions
  DEF RowsKept, Inserted, HandedOut, GivenUp, Aged, FailureReported, Finished, HasRows

LEMMA SelfieAccountedStep == IInv /\ [Next]_vars => SelfieAccounted'
  <1> SUFFICES ASSUME IInv, [Next]_vars, NEW s \in objects'
               PROVE  s \in (leaked \cup tombstones
                               \cup {t \in Selfies : upload[t] = "stored" \/ HasRows(t)})'
    BY DEF SelfieAccounted
  <1>0. s \in Selfies
    BY NextTypeOK DEF IInv, TypeOK
  <1>1. CASE s \in leaked' \/ upload'[s] = "stored" \/ HasRows(s)'
    BY <1>0, <1>1 DEF HasRows
  <1>2. CASE s \in objects /\ upload[s] # "stored"
    <2>1. CASE s \in leaked \cup tombstones
      BY <2>1, StoreSteps
    <2>2. CASE HasRows(s)
      BY <1>0, <2>2, RowsGoWithTombstone DEF RowsPurged, HasRows
    <2>3. QED
      BY <1>2, <2>1, <2>2 DEF IInv, SelfieAccounted
  <1>3. QED
    BY <1>0, <1>1, <1>2, StoreSteps

\* Matches are stored in the step that completes the job, and never again.
LEMMA ResultsStep == IInv /\ [Next]_vars => ResultsFromLastAttempt'
  <1> DEFINE Exact(w, row, n) == w = IF row.status = "completed" THEN {n} ELSE {}
  <1> SUFFICES ASSUME IInv, [Next]_vars, NEW s \in Selfies, HasRows(s)'
               PROVE  Exact(results'[s], job'[s], issued'[s])
    BY DEF ResultsFromLastAttempt, HasRows
  <1>0. /\ job[s] \in JobRow
        /\ HasRows(s) => Exact(results[s], job[s], issued[s])
        /\ tx[s] # "none" => HasRows(s) /\ job[s].status = "processing"
                             /\ reporter[s] = issued[s]
    BY DEF IInv, TypeOK, ResultsFromLastAttempt, CompletionsOwned
  <1>1. CASE RowsKept(s)
    BY <1>0, <1>1 DEF RowsKept, HasRows
  <1>2. CASE Inserted(s)
    BY <1>2 DEF Inserted, IInv, RowsConsistent, NewJob
  <1>3. CASE HandedOut(s)
    <2>1. job[s].status # "completed" /\ job'[s].status # "completed"
      BY <1>3, StatusSteps
    <2>2. QED
      BY <1>0, <1>3, <2>1 DEF HandedOut
  <1>4. CASE GivenUp(s)
    <2>1. job[s].status # "completed" /\ job'[s].status # "completed"
      BY <1>4, StatusSteps
    <2>2. QED
      BY <1>0, <1>4, <2>1 DEF GivenUp
  <1>5. CASE Aged(s)
    <2>1. job'[s].status = job[s].status
      BY <1>5, StatusSteps
    <2>2. QED
      BY <1>0, <1>5, <2>1 DEF Aged
  <1>6. CASE FailureReported(s)
    <2>1. job[s].status # "completed" /\ job'[s].status # "completed"
      BY <1>6, StatusSteps
    <2>2. QED
      BY <1>0, <1>6, <2>1 DEF FailureReported
  <1>7. CASE Finished(s)
    <2>1. job'[s].status = "completed"
      BY <1>7, StatusSteps
    <2>2. results[s] = {}
      BY <1>0, <1>7 DEF Finished
    <2>3. QED
      BY <1>0, <1>7, <2>1, <2>2 DEF Finished
  <1>8. CASE RowsPurged(s)
    BY <1>8 DEF RowsPurged, HasRows
  <1>9. QED
    BY <1>1, <1>2, <1>3, <1>4, <1>5, <1>6, <1>7, <1>8, RowTransitions

LEMMA ImageFollowsJobStep == IInv /\ [Next]_vars => ImageFollowsJob'
  <1> DEFINE Follows(i, row) == /\ i = "ready" <=> row.status = "completed"
                                /\ i = "failed" <=> row.status \in {"failed", "dead_lettered"}
  <1> SUFFICES ASSUME IInv, [Next]_vars, NEW s \in Selfies, HasRows(s)'
               PROVE  Follows(image'[s], job'[s])
    BY DEF ImageFollowsJob, HasRows
  <1>0. /\ job[s] \in JobRow
        /\ HasRows(s) => Follows(image[s], job[s])
        /\ tx[s] # "none" => HasRows(s)
    BY DEF IInv, TypeOK, ImageFollowsJob, CompletionsOwned
  <1>1. CASE RowsKept(s)
    BY <1>0, <1>1 DEF RowsKept, HasRows
  <1>2. CASE Inserted(s)
    BY <1>2 DEF Inserted, NewJob
  <1>3. CASE HandedOut(s)
    <2>1. job'[s].status = "processing"
      BY <1>3, StatusSteps
    <2>2. QED
      BY <1>3, <2>1 DEF HandedOut
  <1>4. CASE GivenUp(s)
    <2>1. job'[s].status = "dead_lettered"
      BY <1>4, StatusSteps
    <2>2. QED
      BY <1>4, <2>1 DEF GivenUp
  <1>5. CASE Aged(s)
    <2>1. job'[s].status = job[s].status
      BY <1>5, StatusSteps
    <2>2. QED
      BY <1>0, <1>5, <2>1 DEF Aged
  <1>6. CASE FailureReported(s)
    <2>1. /\ job[s].status = "processing"
          /\ job'[s].status \in {"queued", "dead_lettered", "failed"}
      BY <1>6, StatusSteps
    <2>2. QED
      BY <1>0, <1>6, <2>1 DEF FailureReported, IsTerminal, TerminalStatuses
  <1>7. CASE Finished(s)
    <2>1. job'[s].status = "completed"
      BY <1>7, StatusSteps
    <2>2. QED
      BY <1>7, <2>1 DEF Finished
  <1>8. CASE RowsPurged(s)
    BY <1>8 DEF RowsPurged, HasRows
  <1>9. QED
    BY <1>1, <1>2, <1>3, <1>4, <1>5, <1>6, <1>7, <1>8, RowTransitions

\* The inductive invariant holds in every reachable state.
THEOREM Invariance == Spec => []IInv
  <1>1. IInv /\ [Next]_vars => IInv'
    BY NextTypeOK, RowsConsistentStep, CompletionsOwnedStep, SelfieAccountedStep,
       ResultsStep, ImageFollowsJobStep
    DEF IInv
  <1>2. QED
    BY <1>1, InitIInv, PTL DEF Spec

-----------------------------------------------------------------------------
(***************************************************************************)
(* What follows from it.                                                   *)
(***************************************************************************)

\* No stored selfie is forgotten, whatever the request, the workers and the
\* purge do: the request holds it, a row refers to it, the outbox will delete
\* it, or the request itself left it behind (ingest_face_search_upload,
\* purge_expired_face_search_sessions).
THEOREM SelfiesAccounted == Spec => []SelfieAccounted
  BY Invariance, PTL DEF IInv

\* Matches are stored by the last attempt handed out, once
\* (_verify_active_attempt, complete_face_search_job).
THEOREM ResultsCorrect == Spec => []ResultsFromLastAttempt
  BY Invariance, PTL DEF IInv

\* The status of an image is the outcome of its job (_sync_terminal_parent_state,
\* complete_face_search_job).
THEOREM ImagesFollowJobs == Spec => []ImageFollowsJob
  BY Invariance, PTL DEF IInv

\* A completion that has verified its attempt keeps its rows until it commits
\* or is rolled back: the purge waits for the job row it has locked.
THEOREM CompletionKeepsRows == Spec => CompletionNotPurged
  <1>1. IInv /\ [Next]_vars => \A s \in Selfies : tx[s] # "none" => HasRows(s) /\ HasRows(s)'
    <2> SUFFICES ASSUME IInv, [Next]_vars, NEW s \in Selfies, tx[s] # "none"
                 PROVE  HasRows(s) /\ HasRows(s)'
      OBVIOUS
    <2>1. HasRows(s)
      BY DEF IInv, CompletionsOwned
    <2>2. QED
      BY <2>1, RowsGoWithTombstone DEF RowsPurged
  <1>2. IInv /\ [Next]_vars =>
          [\A s \in Selfies : tx[s] # "none" => HasRows(s) /\ HasRows(s)']_vars
    BY <1>1
  <1>3. QED
    BY <1>2, Invariance, PTL DEF Spec, CompletionNotPurged
=============================================================================
