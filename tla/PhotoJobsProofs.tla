--------------------------- MODULE PhotoJobsProofs ---------------------------
(***************************************************************************)
(* Machine-checked theorems about PhotoJobs, for every set of photos, every *)
(* attempt budget and every reap limit.                                    *)
(***************************************************************************)
EXTENDS PhotoJobs, FiniteSetTheorems, TLAPS

-----------------------------------------------------------------------------
(* The rows of a worker queue (JobRecord).                                 *)

\* The assignments of every handler keep a row well-typed.
LEMMA RowTypes ==
  ASSUME NEW row \in JobRow
  PROVE  /\ \A a \in Nat : Claimed(row, a) \in JobRow
         /\ Heartbeaten(row) \in JobRow
         /\ Completed(row) \in JobRow
         /\ DeadLettered(row) \in JobRow
         /\ RetryScheduled(row) \in JobRow
         /\ Failed(row) \in JobRow
         /\ \A r \in BOOLEAN : AfterFailure(row, r) \in JobRow
         /\ LeaseLapsed(row) \in JobRow
         /\ RetryElapsed(row) \in JobRow
  <1> USE DEF JobRow, JobStatus
  <1>1. \A a \in Nat : Claimed(row, a) \in JobRow
    BY DEF Claimed
  <1>2. Heartbeaten(row) \in JobRow
    BY DEF Heartbeaten
  <1>3. Completed(row) \in JobRow
    BY DEF Completed
  <1>4. DeadLettered(row) \in JobRow
    BY DEF DeadLettered
  <1>5. RetryScheduled(row) \in JobRow
    BY DEF RetryScheduled
  <1>6. Failed(row) \in JobRow
    BY DEF Failed
  <1>7. \A r \in BOOLEAN : AfterFailure(row, r) \in JobRow
    BY <1>4, <1>5, <1>6 DEF AfterFailure
  <1>8. LeaseLapsed(row) \in JobRow
    BY DEF LeaseLapsed
  <1>9. RetryElapsed(row) \in JobRow
    BY DEF RetryElapsed
  <1>10. QED
    BY <1>1, <1>2, <1>3, <1>4, <1>5, <1>6, <1>7, <1>8, <1>9

\* Every assignment keeps a row sound under the guard of its handler.
LEMMA RowSteps ==
  ASSUME NEW row \in JobRow, NEW n \in Nat, RowSound(row, n)
  PROVE  /\ Claimable(row) => RowSound(Claimed(row, n + 1), n + 1)
         /\ Exhausted(row) => RowSound(DeadLettered(row), n)
         /\ \A a : Owns(row, a) => RowSound(Heartbeaten(row), n)
         /\ \A a, r : Owns(row, a) => RowSound(AfterFailure(row, r), n)
         /\ row.status = "processing" => RowSound(Completed(row), n)
         /\ row.lease_expires_at = "live" => RowSound(LeaseLapsed(row), n)
         /\ row.retry_after = "waiting" => RowSound(RetryElapsed(row), n)
  <1> USE MaxAttemptsAssumption DEF RowSound, JobRow
  <1>1. Claimable(row) => RowSound(Claimed(row, n + 1), n + 1)
    BY DEF Claimable, Claimed
  <1>2. row.attempt_count >= MaxAttempts => RowSound(DeadLettered(row), n)
    BY DEF DeadLettered
  <1>3. Exhausted(row) => RowSound(DeadLettered(row), n)
    BY <1>2 DEF Exhausted
  <1>4. \A a : Owns(row, a) => RowSound(Heartbeaten(row), n)
    BY DEF Owns, Heartbeaten
  <1>5. RowSound(RetryScheduled(row), n) /\ RowSound(Failed(row), n)
    BY DEF RetryScheduled, Failed
  <1>6. \A r : RowSound(AfterFailure(row, r), n)
    BY <1>2, <1>5 DEF AfterFailure
  <1>7. row.status = "processing" => RowSound(Completed(row), n)
    BY DEF Completed
  <1>8. row.lease_expires_at = "live" => RowSound(LeaseLapsed(row), n)
    BY DEF LeaseLapsed
  <1>9. row.retry_after = "waiting" => RowSound(RetryElapsed(row), n)
    BY DEF RetryElapsed
  <1>10. QED
    BY <1>1, <1>3, <1>4, <1>6, <1>7, <1>8, <1>9

-----------------------------------------------------------------------------
(***************************************************************************)
(* Facts about jobs and rows.                                              *)
(***************************************************************************)

\* Every job belongs to one photo, and the jobs of a photo are jobs.
LEMMA JobsOfPhotos ==
  /\ \A j \in Jobs : PhotoOf(j) \in Photos /\ j \in JobsOf(PhotoOf(j))
  /\ \A p \in Photos : \A k \in JobsOf(p) : k \in Jobs /\ PhotoOf(k) = p
  BY DEF Jobs, JobsOf, PhotoOf

\* The status derived from any set of job statuses is a photo status.
LEMMA SettledType == \A seen : Settled(seen) \in PhotoStatus \ {"processing"}
  BY DEF Settled, PhotoStatus

LEMMA PhotoStatusTypes ==
  ASSUME TypeOK
  PROVE  /\ \A seen : MarkPhotoReady(seen) \in PhotoStatus
         /\ \A p \in Photos : SyncedPhoto(p) \in PhotoStatus
  BY SettledType DEF TypeOK, MarkPhotoReady, SyncedPhoto, PhotoStatus

-----------------------------------------------------------------------------
\* Type correctness: every handler leaves well-formed rows, statuses and
\* histories behind.
LEMMA InitTypeOK == Init => TypeOK
  BY MaxAttemptsAssumption
  DEF Init, TypeOK, NewJob, NoAttempt, JobRow, JobStatus, PhotoStatus, CompletionStage

LEMMA NextTypeOK == TypeOK /\ [Next]_vars => TypeOK'
  <1> SUFFICES ASSUME TypeOK, [Next]_vars PROVE TypeOK'
    OBVIOUS
  <1> USE DEF TypeOK
  <1>1. ASSUME NEW types \in SUBSET JobTypes, Claim(types) PROVE TypeOK'
    <2>1. \A j \in Jobs : DeadLettered(job[j]) \in JobRow
      BY RowTypes
    <2>2. \A j \in Jobs : Claimed(job[j], issued[j] + 1) \in JobRow
      <3>1. \A j \in Jobs : job[j] \in JobRow /\ issued[j] + 1 \in Nat
        OBVIOUS
      <3>2. QED
        BY <3>1, RowTypes
    <2>3. \A p \in Photos : SyncedPhoto(p) \in PhotoStatus
      BY PhotoStatusTypes
    <2>4. "processing" \in PhotoStatus
      BY DEF PhotoStatus
    <2>5. QED
      BY <1>1, <2>1, <2>2, <2>3, <2>4 DEF Claim
  <1>2. ASSUME NEW j \in Jobs, NEW attempt \in 1..issued[j], Heartbeat(j, attempt)
        PROVE TypeOK'
    BY <1>2, RowTypes DEF Heartbeat
  <1>3. ASSUME NEW j \in Jobs, NEW attempt \in 1..issued[j], NEW retryable \in BOOLEAN,
               Fail(j, attempt, retryable)
        PROVE TypeOK'
    <2>1. AfterFailure(job[j], retryable) \in JobRow
      BY RowTypes
    <2>2. PhotoOf(j) \in Photos /\ SyncedPhoto(PhotoOf(j)) \in PhotoStatus
      BY JobsOfPhotos, PhotoStatusTypes
    <2>3. QED
      BY <1>3, <2>1, <2>2 DEF Fail
  <1>4. ASSUME NEW j \in Jobs, NEW attempt \in 1..issued[j], CompleteFlush(j, attempt)
        PROVE TypeOK'
    <2>1. attempt \in Nat
      OBVIOUS
    <2>2. QED
      BY <1>4, <2>1 DEF CompleteFlush, CompletionStage
  <1>5. ASSUME NEW j \in Jobs, CompleteRead(j) PROVE TypeOK'
    BY <1>5, PhotoStatusTypes DEF CompleteRead, CompletionStage
  <1>6. ASSUME NEW j \in Jobs, CompleteCommit(j) PROVE TypeOK'
    <2>1. Completed(job[j]) \in JobRow /\ PhotoOf(j) \in Photos
      BY RowTypes, JobsOfPhotos
    <2>2. written[j] \cup {reporter[j]} \in SUBSET Nat /\ NoAttempt \in Nat
      BY DEF NoAttempt
    <2>3. QED
      BY <1>6, <2>1, <2>2 DEF CompleteCommit, CompletionStage
  <1>7. ASSUME NEW j \in Jobs, CompleteRollback(j) PROVE TypeOK'
    BY <1>7 DEF CompleteRollback, CompletionStage, NoAttempt
  <1>8. ASSUME NEW j \in Jobs, LeaseLapses(j) PROVE TypeOK'
    BY <1>8, RowTypes DEF LeaseLapses
  <1>9. ASSUME NEW j \in Jobs, RetryElapses(j) PROVE TypeOK'
    BY <1>9, RowTypes DEF RetryElapses
  <1>10. CASE UNCHANGED vars
    BY <1>10 DEF vars
  <1>11. QED
    BY <1>1, <1>2, <1>3, <1>4, <1>5, <1>6, <1>7, <1>8, <1>9, <1>10
    DEF Next, Report, Transaction

THEOREM TypeCorrect == Spec => []TypeOK
  BY InitTypeOK, NextTypeOK, PTL DEF Spec

-----------------------------------------------------------------------------
(***************************************************************************)
(* Outcomes are final.                                                     *)
(***************************************************************************)

\* No handler writes a settled row: claims take available rows, reports need
\* an owner, and an in-flight completion still has its job.
LEMMA SettledRowsFrozen ==
  ASSUME TypeOK, RowsConsistent, CompletionsSound, [Next]_vars
  PROVE  \A k \in Jobs : IsTerminal(job[k]) => job'[k] = job[k]
  <1> SUFFICES ASSUME NEW k \in Jobs, IsTerminal(job[k]) PROVE job'[k] = job[k]
    OBVIOUS
  <1> job \in [Jobs -> JobRow]
    BY DEF TypeOK
  <1>0. /\ job[k].status \notin {"queued", "processing"}
        /\ job[k].lease_expires_at = "null"
        /\ job[k].retry_after = "null"
        /\ completion[k] = "none"
    BY DEF IsTerminal, TerminalStatuses, RowsConsistent, RowSound, CompletionsSound
  <1>1. ASSUME NEW types \in SUBSET JobTypes, Claim(types) PROVE job'[k] = job[k]
    <2>1. ~Available(job[k])
      BY <1>0 DEF Available
    <2>2. QED
      BY <1>1, <2>1 DEF Claim, Exhausted, Claimable
  <1>2. ASSUME NEW j \in Jobs, NEW attempt \in 1..issued[j], Report(j, attempt)
        PROVE job'[k] = job[k]
    BY <1>0, <1>2 DEF Report, Heartbeat, Fail, CompleteFlush, Owns
  <1>3. ASSUME NEW j \in Jobs, Transaction(j) PROVE job'[k] = job[k]
    <2>1. "none" \notin PhotoStatus
      BY DEF PhotoStatus
    <2>2. QED
      BY <1>0, <1>3, <2>1
      DEF Transaction, CompleteRead, CompleteCommit, CompleteRollback
  <1>4. ASSUME NEW j \in Jobs, LeaseLapses(j) \/ RetryElapses(j) PROVE job'[k] = job[k]
    BY <1>0, <1>4 DEF LeaseLapses, RetryElapses
  <1>5. CASE UNCHANGED vars
    BY <1>5 DEF vars
  <1>6. QED
    BY <1>1, <1>2, <1>3, <1>4, <1>5 DEF Next

-----------------------------------------------------------------------------
(***************************************************************************)
(* The inductive invariant.                                                *)
(***************************************************************************)

LEMMA InitIInv == Init => IInv
  <1> SUFFICES ASSUME Init PROVE IInv
    OBVIOUS
  <1>1. TypeOK
    BY InitTypeOK
  <1>2. RowsConsistent /\ CompletionsSound /\ ResultsFromLastAttempt
    BY MaxAttemptsAssumption
    DEF Init, RowsConsistent, RowSound, CompletionsSound, ResultsFromLastAttempt, NewJob, NoAttempt
  <1>3. PhotoStatusSound
    BY DEF Init, PhotoStatusSound
  <1>4. QED
    BY <1>1, <1>2, <1>3 DEF IInv

LEMMA RowsConsistentStep ==
  ASSUME TypeOK, RowsConsistent, CompletionsSound, [Next]_vars
  PROVE  RowsConsistent'
  <1> SUFFICES ASSUME NEW k \in Jobs PROVE RowSound(job'[k], issued'[k])
    BY DEF RowsConsistent, RowSound
  <1>0. /\ job \in [Jobs -> JobRow] /\ job[k] \in JobRow
        /\ issued \in [Jobs -> Nat] /\ issued[k] \in Nat
        /\ RowSound(job[k], issued[k])
        /\ completion[k] # "none" => job[k].status = "processing"
    BY DEF TypeOK, RowsConsistent, CompletionsSound
  <1>1. ASSUME NEW types \in SUBSET JobTypes, Claim(types)
        PROVE  RowSound(job'[k], issued'[k])
    <2>1. PICK reaped \in SUBSET {j \in Visible(types) : Exhausted(job[j])},
               taken \in SUBSET {j \in Visible(types) : Claimable(job[j])} :
            /\ job' = [j \in Jobs |->
                 IF j \in reaped THEN DeadLettered(job[j])
                 ELSE IF j \in taken THEN Claimed(job[j], issued[j] + 1)
                 ELSE job[j]]
            /\ issued' = [j \in Jobs |-> IF j \in taken THEN issued[j] + 1 ELSE issued[j]]
      BY <1>1 DEF Claim
    <2>2. CASE k \in reaped
      <3>1. Exhausted(job[k]) /\ ~Claimable(job[k])
        BY <1>0, <2>2, MaxAttemptsAssumption DEF Exhausted, Claimable, JobRow
      <3>2. job'[k] = DeadLettered(job[k]) /\ issued'[k] = issued[k]
        BY <2>1, <2>2, <3>1
      <3>3. QED
        BY <1>0, <3>1, <3>2, RowSteps
    <2>3. CASE k \in taken /\ k \notin reaped
      <3>1. /\ Claimable(job[k])
            /\ job'[k] = Claimed(job[k], issued[k] + 1) /\ issued'[k] = issued[k] + 1
        BY <2>1, <2>3
      <3>2. QED
        BY <1>0, <3>1, RowSteps
    <2>4. CASE k \notin reaped /\ k \notin taken
      BY <1>0, <2>1, <2>4
    <2>5. QED
      BY <2>2, <2>3, <2>4
  <1>2. ASSUME NEW j \in Jobs, NEW attempt \in 1..issued[j], Report(j, attempt)
        PROVE  RowSound(job'[k], issued'[k])
    <2>1. CASE Heartbeat(j, attempt)
      BY <2>1, <1>0, RowSteps DEF Heartbeat
    <2>2. ASSUME NEW retryable \in BOOLEAN, Fail(j, attempt, retryable)
          PROVE  RowSound(job'[k], issued'[k])
      BY <2>2, <1>0, RowSteps DEF Fail
    <2>3. CASE CompleteFlush(j, attempt)
      BY <2>3, <1>0 DEF CompleteFlush
    <2>4. QED
      BY <1>2, <2>1, <2>2, <2>3 DEF Report
  <1>3. ASSUME NEW j \in Jobs, Transaction(j)
        PROVE  RowSound(job'[k], issued'[k])
    <2>1. CASE CompleteCommit(j) /\ k = j
      <3>1. completion[j] # "none"
        BY <2>1 DEF CompleteCommit, PhotoStatus
      <3>2. QED
        BY <2>1, <3>1, <1>0, RowSteps DEF CompleteCommit
    <2>2. CASE CompleteCommit(j) /\ k # j
      BY <2>2, <1>0 DEF CompleteCommit
    <2>3. CASE CompleteRead(j) \/ CompleteRollback(j)
      BY <2>3, <1>0 DEF CompleteRead, CompleteRollback
    <2>4. QED
      BY <1>3, <2>1, <2>2, <2>3 DEF Transaction
  <1>4. ASSUME NEW j \in Jobs, LeaseLapses(j) \/ RetryElapses(j)
        PROVE  RowSound(job'[k], issued'[k])
    BY <1>0, <1>4, RowSteps DEF LeaseLapses, RetryElapses
  <1>5. CASE UNCHANGED vars
    BY <1>0, <1>5 DEF vars
  <1>6. QED
    BY <1>1, <1>2, <1>3, <1>4, <1>5 DEF Next

\* The statuses a transaction reads depend on the rows it has not flushed only.
LEMMA ReadDepends ==
  ASSUME NEW p \in Photos, NEW flushed,
         \A l \in JobsOf(p) : l \notin flushed => job'[l].status = job[l].status
  PROVE  StatusesRead(p, flushed)' = StatusesRead(p, flushed)
  <1>1. \A l \in JobsOf(p) :
          (IF l \in flushed THEN "completed" ELSE job'[l].status)
            = (IF l \in flushed THEN "completed" ELSE job[l].status)
    OBVIOUS
  <1>2. QED
    BY <1>1 DEF StatusesRead

\* A photo with an unsettled job is not resettled by a failure or a reaping.
LEMMA UnsettledNotSynced ==
  ASSUME NEW p \in Photos, NEW l \in JobsOf(p), ~IsTerminal(job[l])
  PROVE  SyncedPhoto(p) = photo[p]
  <1>1. job[l].status \in StatusesRead(p, {})
    BY DEF StatusesRead
  <1>2. QED
    BY <1>1 DEF SyncedPhoto, IsTerminal

LEMMA CompletionsSoundStep ==
  ASSUME TypeOK, RowsConsistent, CompletionsSound, [Next]_vars
  PROVE  CompletionsSound'
  <1> SUFFICES ASSUME NEW k \in Jobs, completion'[k] # "none"
               PROVE  CompletionsSound!(k)!2'
    BY DEF CompletionsSound
  <1> DEFINE p == PhotoOf(k)
  <1> DEFINE Decided == PhotoStatus \ {"processing"}
  <1>0. /\ p \in Photos
        /\ \A l \in JobsOf(p) : l \in Jobs
        /\ \A l \in JobsOf(p) : IsTerminal(job[l]) => job'[l] = job[l]
        /\ job \in [Jobs -> JobRow]
        /\ completion \in [Jobs -> CompletionStage]
        /\ reporter \in [Jobs -> Nat]
        /\ issued \in [Jobs -> Nat]
        /\ job[k].attempt_id = issued[k]
    BY JobsOfPhotos, SettledRowsFrozen DEF TypeOK, RowsConsistent, RowSound
  \* An undisturbed completion stays sound, because the sibling is settled.
  <1>1. ASSUME completion'[k] = completion[k], reporter'[k] = reporter[k],
               issued'[k] = issued[k], job'[k].status = job[k].status
        PROVE  CompletionsSound!(k)!2'
    <2>1. /\ job[k].status = "processing"
          /\ reporter[k] = issued[k]
          /\ completion[k] # "none"
      BY <1>1 DEF CompletionsSound
    <2>2. ASSUME completion[k] \in Decided
          PROVE  /\ \A l \in JobsOf(p) : l # k => IsTerminal(job'[l])
                 /\ completion'[k] = Settled(StatusesRead(p, {k}))'
      <3>1. /\ \A l \in JobsOf(p) : l # k => IsTerminal(job[l])
            /\ completion[k] = Settled(StatusesRead(p, {k}))
        BY <2>1, <2>2 DEF CompletionsSound
      <3>2. \A l \in JobsOf(p) : l # k => job'[l] = job[l]
        BY <1>0, <3>1
      <3>3. StatusesRead(p, {k})' = StatusesRead(p, {k})
        BY <1>0, <3>2, ReadDepends
      <3>4. QED
        BY <1>1, <3>1, <3>2, <3>3 DEF Settled
    <2>3. QED
      BY <1>1, <2>1, <2>2
  <1>2. ASSUME NEW types \in SUBSET JobTypes, Claim(types)
        PROVE  CompletionsSound!(k)!2'
    <2>1. completion'[k] = completion[k] /\ k \notin Visible(types)
      BY <1>2 DEF Claim, Visible, Unlocked
    <2>2. job'[k] = job[k] /\ issued'[k] = issued[k] /\ reporter'[k] = reporter[k]
      BY <1>0, <1>2, <2>1 DEF Claim
    <2>3. QED
      BY <1>1, <2>1, <2>2
  <1>3. ASSUME NEW j \in Jobs, NEW attempt \in 1..issued[j], Report(j, attempt)
        PROVE  CompletionsSound!(k)!2'
    <2>1. CASE Heartbeat(j, attempt) \/ \E retryable \in BOOLEAN : Fail(j, attempt, retryable)
      <3>1. /\ completion'[k] = completion[k] /\ j # k
            /\ issued'[k] = issued[k] /\ reporter'[k] = reporter[k]
        BY <2>1 DEF Heartbeat, Fail, Unlocked
      <3>2. job'[k] = job[k]
        BY <1>0, <2>1, <3>1 DEF Heartbeat, Fail
      <3>3. QED
        BY <1>1, <3>1, <3>2
    <2>2. CASE CompleteFlush(j, attempt)
      <3>1. CASE j # k
        <4>1. /\ completion'[k] = completion[k] /\ job'[k] = job[k]
              /\ issued'[k] = issued[k] /\ reporter'[k] = reporter[k]
          BY <1>0, <2>2, <3>1 DEF CompleteFlush
        <4>2. QED
          BY <1>1, <4>1
      <3>2. CASE j = k
        <4>1. /\ completion'[k] = "flushed"
              /\ job'[k].status = "processing"
              /\ reporter'[k] = issued'[k]
              /\ completion'[k] \notin PhotoStatus
          BY <1>0, <2>2, <3>2 DEF CompleteFlush, Owns, AttemptMatches, PhotoStatus
        <4>2. QED
          BY <4>1
      <3>3. QED
        BY <3>1, <3>2
    <2>3. QED
      BY <1>3, <2>1, <2>2 DEF Report
  <1>4. ASSUME NEW j \in Jobs, CompleteRead(j)
        PROVE  CompletionsSound!(k)!2'
    <2>1. CASE j # k
      <3>1. /\ completion'[k] = completion[k] /\ job'[k] = job[k]
            /\ issued'[k] = issued[k] /\ reporter'[k] = reporter[k]
        BY <1>0, <1>4, <2>1 DEF CompleteRead
      <3>2. QED
        BY <1>1, <3>1
    <2>2. CASE j = k
      <3> DEFINE seen == StatusesRead(p, {k})
      <3>1. /\ job' = job
            /\ job[k].status = "processing"
            /\ reporter'[k] = issued'[k]
            /\ completion'[k] = MarkPhotoReady(seen)
        BY <1>0, <1>4, <2>2 DEF CompleteRead, CompletionsSound
      <3>2. ASSUME completion'[k] \in Decided
            PROVE  /\ \A l \in JobsOf(p) : l # k => IsTerminal(job'[l])
                   /\ completion'[k] = Settled(StatusesRead(p, {k}))'
        <4>1. seen \subseteq TerminalStatuses /\ completion'[k] = Settled(seen)
          BY <3>1, <3>2 DEF MarkPhotoReady
        <4>2. \A l \in JobsOf(p) : l # k => job[l].status \in seen
          BY DEF StatusesRead
        <4>3. seen' = seen
          BY <1>0, <3>1, ReadDepends
        <4>4. QED
          BY <3>1, <4>1, <4>2, <4>3 DEF IsTerminal
      <3>3. QED
        BY <3>1, <3>2
    <2>3. QED
      BY <2>1, <2>2
  <1>5. ASSUME NEW j \in Jobs, CompleteCommit(j) \/ CompleteRollback(j)
        PROVE  CompletionsSound!(k)!2'
    <2>1. /\ j # k /\ completion'[k] = completion[k] /\ job'[k] = job[k]
          /\ issued'[k] = issued[k] /\ reporter'[k] = reporter[k]
      BY <1>0, <1>5 DEF CompleteCommit, CompleteRollback
    <2>2. QED
      BY <1>1, <2>1
  <1>6. ASSUME NEW j \in Jobs, LeaseLapses(j) \/ RetryElapses(j)
        PROVE  CompletionsSound!(k)!2'
    <2>1. /\ completion'[k] = completion[k] /\ job'[k].status = job[k].status
          /\ issued'[k] = issued[k] /\ reporter'[k] = reporter[k]
      BY <1>0, <1>6 DEF LeaseLapses, RetryElapses, LeaseLapsed, RetryElapsed, JobRow
    <2>2. QED
      BY <1>1, <2>1
  <1>7. CASE UNCHANGED vars
    <2>1. /\ completion'[k] = completion[k] /\ job'[k].status = job[k].status
          /\ issued'[k] = issued[k] /\ reporter'[k] = reporter[k]
      BY <1>7 DEF vars
    <2>2. QED
      BY <1>1, <2>1
  <1>8. QED
    BY <1>2, <1>3, <1>4, <1>5, <1>6, <1>7 DEF Next, Transaction

\* Results are recorded in the step that completes the job, and never again.
LEMMA ResultsStep ==
  ASSUME TypeOK, RowsConsistent, CompletionsSound, ResultsFromLastAttempt, [Next]_vars
  PROVE  ResultsFromLastAttempt'
  <1> DEFINE Exact(w, row, n) == w = IF row.status = "completed" THEN {n} ELSE {}
  <1> SUFFICES ASSUME NEW k \in Jobs PROVE Exact(written'[k], job'[k], issued'[k])
    BY DEF ResultsFromLastAttempt
  <1>0. /\ job \in [Jobs -> JobRow] /\ job[k] \in JobRow
        /\ issued \in [Jobs -> Nat]
        /\ written \in [Jobs -> SUBSET Nat]
        /\ completion[k] # "none" => reporter[k] = issued[k]
        /\ Exact(written[k], job[k], issued[k])
    BY DEF TypeOK, CompletionsSound, ResultsFromLastAttempt
  <1>1. ASSUME NEW types \in SUBSET JobTypes, Claim(types)
        PROVE  Exact(written'[k], job'[k], issued'[k])
    <2>1. PICK reaped \in SUBSET {j \in Visible(types) : Exhausted(job[j])},
               taken \in SUBSET {j \in Visible(types) : Claimable(job[j])} :
            /\ job' = [j \in Jobs |->
                 IF j \in reaped THEN DeadLettered(job[j])
                 ELSE IF j \in taken THEN Claimed(job[j], issued[j] + 1)
                 ELSE job[j]]
            /\ issued' = [j \in Jobs |-> IF j \in taken THEN issued[j] + 1 ELSE issued[j]]
            /\ written' = written
      BY <1>1 DEF Claim
    <2>2. CASE k \in reaped \/ k \in taken
      <3>1. job[k].status # "completed"
        BY <2>2 DEF Exhausted, Claimable, Available
      <3>2. job'[k].status # "completed"
        BY <2>1, <2>2, <1>0 DEF DeadLettered, Claimed, JobRow
      <3>3. QED
        BY <2>1, <3>1, <3>2, <1>0
    <2>3. CASE k \notin reaped /\ k \notin taken
      BY <2>1, <2>3, <1>0
    <2>4. QED
      BY <2>2, <2>3
  <1>2. ASSUME NEW j \in Jobs, NEW attempt \in 1..issued[j], Report(j, attempt)
        PROVE  Exact(written'[k], job'[k], issued'[k])
    <2>1. written' = written /\ issued' = issued
      BY <1>2 DEF Report, Heartbeat, Fail, CompleteFlush
    <2>2. (job'[k].status = "completed") <=> (job[k].status = "completed")
      <3>1. CASE Heartbeat(j, attempt)
        BY <3>1, <1>0 DEF Heartbeat, Heartbeaten, Owns, JobRow
      <3>2. CASE \E retryable \in BOOLEAN : Fail(j, attempt, retryable)
        BY <3>2, <1>0
        DEF Fail, AfterFailure, RetryScheduled, DeadLettered, Failed, Owns, JobRow
      <3>3. CASE CompleteFlush(j, attempt)
        BY <3>3 DEF CompleteFlush
      <3>4. QED
        BY <1>2, <3>1, <3>2, <3>3 DEF Report
    <2>3. QED
      BY <2>1, <2>2, <1>0
  <1>3. ASSUME NEW j \in Jobs, CompleteCommit(j)
        PROVE  Exact(written'[k], job'[k], issued'[k])
    <2>1. CASE k # j
      BY <1>3, <2>1, <1>0 DEF CompleteCommit
    <2>2. CASE k = j
      <3>1. "none" \notin PhotoStatus
        BY DEF PhotoStatus
      <3>2. job[k].status = "processing"
        BY <1>3, <2>2, <3>1 DEF CompleteCommit, CompletionsSound
      <3>3. written[k] = {} /\ reporter[k] = issued[k]
        BY <1>3, <2>2, <3>1, <3>2, <1>0 DEF CompleteCommit
      <3>4. /\ written'[k] = {issued[k]}
            /\ issued'[k] = issued[k]
            /\ job'[k].status = "completed"
        BY <1>3, <2>2, <3>3, <1>0 DEF CompleteCommit, Completed, JobRow
      <3>5. QED
        BY <3>4
    <2>3. QED
      BY <2>1, <2>2
  <1>4. ASSUME NEW j \in Jobs, CompleteRead(j) \/ CompleteRollback(j)
        PROVE  Exact(written'[k], job'[k], issued'[k])
    BY <1>0, <1>4 DEF CompleteRead, CompleteRollback
  <1>5. ASSUME NEW j \in Jobs, LeaseLapses(j) \/ RetryElapses(j)
        PROVE  Exact(written'[k], job'[k], issued'[k])
    <2>1. job'[k].status = job[k].status
      BY <1>0, <1>5 DEF LeaseLapses, RetryElapses, LeaseLapsed, RetryElapsed, JobRow
    <2>2. written' = written /\ issued' = issued
      BY <1>5 DEF LeaseLapses, RetryElapses
    <2>3. QED
      BY <2>1, <2>2, <1>0
  <1>6. CASE UNCHANGED vars
    BY <1>0, <1>6 DEF vars
  <1>7. QED
    BY <1>1, <1>2, <1>3, <1>4, <1>5, <1>6 DEF Next, Transaction

\* A photo that has left "processing" keeps its status: its rows are frozen, so
\* no step has a job of it to claim, to fail or to complete.
LEMMA SettledPhotoFrozen ==
  ASSUME IInv, [Next]_vars, NEW p \in Photos, photo[p] # "processing"
  PROVE  /\ photo'[p] = photo[p]
         /\ \A l \in JobsOf(p) : job'[l] = job[l]
  <1>0. /\ \A l \in JobsOf(p) : l \in Jobs /\ IsTerminal(job[l])
        /\ \A l \in JobsOf(p) : completion[l] = "none"
        /\ \A l \in JobsOf(p) : ~Available(job[l]) /\ job[l].status # "processing"
        /\ \A j \in Jobs : j \in JobsOf(PhotoOf(j))
        /\ photo \in [Photos -> PhotoStatus]
    BY JobsOfPhotos
    DEF IInv, TypeOK, PhotoStatusSound, CompletionsSound, IsTerminal, TerminalStatuses, Available
  <1>1. \A l \in JobsOf(p) : job'[l] = job[l]
    BY <1>0, SettledRowsFrozen DEF IInv
  <1>2. ASSUME NEW types \in SUBSET JobTypes, Claim(types) PROVE photo'[p] = photo[p]
    <2>1. PICK reaped \in SUBSET {j \in Visible(types) : Exhausted(job[j])},
               taken \in SUBSET {j \in Visible(types) : Claimable(job[j])} :
            photo' = [q \in Photos |->
              IF JobsOf(q) \cap taken # {} THEN "processing"
              ELSE IF JobsOf(q) \cap reaped # {} THEN SyncedPhoto(q)
              ELSE photo[q]]
      BY <1>2 DEF Claim
    <2>2. JobsOf(p) \cap taken = {} /\ JobsOf(p) \cap reaped = {}
      BY <1>0 DEF Exhausted, Claimable
    <2>3. QED
      BY <2>1, <2>2
  <1>3. ASSUME NEW j \in Jobs, NEW attempt \in 1..issued[j], Report(j, attempt)
        PROVE  photo'[p] = photo[p]
    <2>1. job[j].status = "processing"
      BY <1>3 DEF Report, Heartbeat, Fail, CompleteFlush, Owns
    <2>2. PhotoOf(j) # p
      BY <1>0, <2>1
    <2>3. QED
      BY <1>0, <1>3, <2>2 DEF Report, Heartbeat, Fail, CompleteFlush
  <1>4. ASSUME NEW j \in Jobs, Transaction(j) PROVE photo'[p] = photo[p]
    <2>1. completion[j] # "none"
      BY <1>4 DEF Transaction, CompleteRead, CompleteCommit, CompleteRollback, PhotoStatus
    <2>2. PhotoOf(j) # p
      BY <1>0, <2>1
    <2>3. QED
      BY <1>0, <1>4, <2>2 DEF Transaction, CompleteRead, CompleteCommit, CompleteRollback
  <1>5. ASSUME NEW j \in Jobs, LeaseLapses(j) \/ RetryElapses(j) PROVE photo'[p] = photo[p]
    BY <1>5 DEF LeaseLapses, RetryElapses
  <1>6. CASE UNCHANGED vars
    BY <1>6 DEF vars
  <1>7. QED
    BY <1>1, <1>2, <1>3, <1>4, <1>5, <1>6 DEF Next

\* Only the commit of a completion moves a photo out of "processing".
LEMMA VerdictByCommit ==
  ASSUME IInv, [Next]_vars, NEW p \in Photos,
         photo[p] = "processing", photo'[p] # "processing"
  PROVE  \E j \in JobsOf(p) : CompleteCommit(j)
  <1>0. /\ photo \in [Photos -> PhotoStatus]
        /\ \A l \in JobsOf(p) : l \in Jobs
        /\ \A j \in Jobs : j \in JobsOf(PhotoOf(j)) /\ PhotoOf(j) \in Photos
    BY JobsOfPhotos DEF IInv, TypeOK
  <1>1. ASSUME NEW types \in SUBSET JobTypes, Claim(types) PROVE FALSE
    <2>1. PICK reaped \in SUBSET {j \in Visible(types) : Exhausted(job[j])},
               taken \in SUBSET {j \in Visible(types) : Claimable(job[j])} :
            photo' = [q \in Photos |->
              IF JobsOf(q) \cap taken # {} THEN "processing"
              ELSE IF JobsOf(q) \cap reaped # {} THEN SyncedPhoto(q)
              ELSE photo[q]]
      BY <1>1 DEF Claim
    <2>2. PICK l \in JobsOf(p) : l \in reaped
      BY <2>1
    <2>3. ~IsTerminal(job[l])
      BY <2>2 DEF Exhausted, Available, IsTerminal, TerminalStatuses
    <2>4. SyncedPhoto(p) = photo[p]
      BY <2>3, UnsettledNotSynced
    <2>5. QED
      BY <2>1, <2>4
  <1>2. ASSUME NEW j \in Jobs, NEW attempt \in 1..issued[j], Report(j, attempt) PROVE FALSE
    <2>1. ~IsTerminal(job[j])
      BY <1>2 DEF Report, Heartbeat, Fail, CompleteFlush, Owns, IsTerminal, TerminalStatuses
    <2>2. SyncedPhoto(PhotoOf(j)) = photo[PhotoOf(j)]
      BY <1>0, <2>1, UnsettledNotSynced
    <2>3. QED
      BY <1>0, <1>2, <2>2 DEF Report, Heartbeat, Fail, CompleteFlush
  <1>3. ASSUME NEW j \in Jobs, CompleteCommit(j) PROVE j \in JobsOf(p)
    <2>1. PhotoOf(j) = p
      BY <1>0, <1>3 DEF CompleteCommit
    <2>2. QED
      BY <1>0, <2>1
  <1>4. ASSUME \E j \in Jobs : \/ CompleteRead(j) \/ CompleteRollback(j)
                              \/ LeaseLapses(j) \/ RetryElapses(j)
        PROVE  FALSE
    BY <1>4 DEF CompleteRead, CompleteRollback, LeaseLapses, RetryElapses
  <1>5. CASE UNCHANGED vars
    BY <1>5 DEF vars
  <1>6. QED
    BY <1>1, <1>2, <1>3, <1>4, <1>5 DEF Next, Transaction

LEMMA PhotoStatusSoundStep ==
  ASSUME IInv, [Next]_vars
  PROVE  PhotoStatusSound'
  <1> SUFFICES ASSUME NEW p \in Photos, photo'[p] # "processing"
               PROVE  /\ \A l \in JobsOf(p) : IsTerminal(job'[l])
                      /\ photo'[p] = Settled(StatusesRead(p, {})')
    BY DEF PhotoStatusSound, Settled
  <1>1. CASE photo[p] # "processing"
    <2>1. /\ photo'[p] = photo[p]
          /\ \A l \in JobsOf(p) : job'[l] = job[l]
      BY <1>1, SettledPhotoFrozen
    <2>2. StatusesRead(p, {})' = StatusesRead(p, {})
      BY <2>1, ReadDepends
    <2>3. QED
      BY <1>1, <2>1, <2>2 DEF IInv, PhotoStatusSound
  <1>2. CASE photo[p] = "processing"
    <2>1. PICK j \in JobsOf(p) : CompleteCommit(j)
      BY <1>2, VerdictByCommit
    <2>2. /\ j \in Jobs /\ PhotoOf(j) = p
          /\ \A l \in JobsOf(p) : l \in Jobs
          /\ job \in [Jobs -> JobRow] /\ photo \in [Photos -> PhotoStatus]
      BY JobsOfPhotos DEF IInv, TypeOK
    <2>3. /\ photo'[p] = completion[j]
          /\ job'[j].status = "completed"
          /\ \A l \in JobsOf(p) : l # j => job'[l] = job[l]
          /\ completion[j] \in PhotoStatus \ {"processing"}
          /\ completion[j] # "none"
      BY <2>1, <2>2 DEF CompleteCommit, Completed, JobRow, PhotoStatus
    <2>4. /\ \A l \in JobsOf(p) : l # j => IsTerminal(job[l])
          /\ completion[j] = Settled(StatusesRead(p, {j}))
      BY <2>2, <2>3 DEF IInv, CompletionsSound
    <2>5. \A l \in JobsOf(p) : job'[l].status =
             (IF l \in {j} THEN "completed" ELSE job[l].status)
      BY <2>3
    <2>6. StatusesRead(p, {})' = StatusesRead(p, {j})
      BY <2>5 DEF StatusesRead
    <2>7. QED
      BY <2>3, <2>4, <2>6 DEF IsTerminal, TerminalStatuses
  <1>3. QED
    BY <1>1, <1>2

\* The inductive invariant holds in every reachable state.
THEOREM Invariance == Spec => []IInv
  <1>1. Init => IInv
    BY InitIInv
  <1>2. IInv /\ [Next]_vars => IInv'
    BY NextTypeOK, RowsConsistentStep, CompletionsSoundStep, ResultsStep, PhotoStatusSoundStep
    DEF IInv
  <1>3. QED
    BY <1>1, <1>2, PTL DEF Spec

-----------------------------------------------------------------------------
(***************************************************************************)
(* What follows from it.                                                   *)
(***************************************************************************)

\* The status of a photo is never premature or wrong, although it is computed
\* from an unlocked read of the sibling job (mark_photo_ready_if_jobs_done).
THEOREM PhotoStatusCorrect == Spec => []PhotoStatusSound
  BY Invariance, PTL DEF IInv

\* At most one attempt's results are recorded, and it is the last one handed
\* out (_verify_active_attempt, complete_photo_ocr_job, complete_photo_face_job).
THEOREM ResultsCorrect == Spec => []ResultsFromLastAttempt
  BY Invariance, PTL DEF IInv

\* Attempts never exceed max_attempts, and only exhausted jobs are
\* dead-lettered (_claim_job, _reap_exhausted_jobs, _fail_job).
THEOREM AttemptsCorrect == Spec => []AttemptsBounded
  <1>1. IInv => AttemptsBounded
    BY DEF IInv, RowsConsistent, RowSound, AttemptsBounded
  <1>2. QED
    BY <1>1, Invariance, PTL

\* Settled jobs and photo statuses never change (no handler reopens a row).
THEOREM OutcomesStayFinal == Spec => OutcomesFinal
  <1> DEFINE Final == /\ \A j \in Jobs : IsTerminal(job[j]) => job'[j] = job[j]
                      /\ \A p \in Photos : photo[p] # "processing" => photo'[p] = photo[p]
  <1>1. IInv /\ [Next]_vars => [Final]_vars
    BY SettledRowsFrozen, SettledPhotoFrozen DEF IInv
  <1>2. QED
    BY <1>1, Invariance, PTL DEF Spec, OutcomesFinal

\* An attempt with a live lease, or with its completion in flight, is not
\* preempted (skip_locked and the availability condition of _claim_job).
THEOREM AttemptKept == Spec => AttemptNotPreempted
  <1> DEFINE Kept(j) ==
        /\ job[j].lease_expires_at = "live" => job'[j].attempt_id = job[j].attempt_id
        /\ completion[j] # "none" =>
             /\ job'[j].attempt_id = job[j].attempt_id
             /\ job'[j].status \in {"processing", "completed"}
  <1>1. ASSUME IInv, Next PROVE \A j \in Jobs : Kept(j)
    <2> SUFFICES ASSUME NEW k \in Jobs PROVE Kept(k)
      OBVIOUS
    <2>0. /\ job \in [Jobs -> JobRow] /\ job[k] \in JobRow
          /\ job[k].lease_expires_at = "live" => job[k].status = "processing"
          /\ completion[k] # "none" => job[k].status = "processing"
      <3>1. job \in [Jobs -> JobRow]
        BY <1>1 DEF IInv, TypeOK
      <3>2. QED
        BY <1>1, <3>1 DEF IInv, RowsConsistent, RowSound, CompletionsSound
    <2>1. ASSUME NEW types \in SUBSET JobTypes, Claim(types) PROVE Kept(k)
      <3>1. CASE job[k].lease_expires_at = "live"
        <4>1. ~Available(job[k])
          BY <2>0, <3>1 DEF Available
        <4>2. job'[k] = job[k]
          BY <2>1, <4>1 DEF Claim, Exhausted, Claimable
        <4>3. QED
          BY <2>0, <4>2
      <3>2. CASE completion[k] # "none"
        <4>1. k \notin Visible(types)
          BY <3>2 DEF Visible, Unlocked
        <4>2. job'[k] = job[k]
          BY <2>1, <4>1 DEF Claim
        <4>3. QED
          BY <2>0, <4>2
      <3>3. QED
        BY <3>1, <3>2
    <2>2. ASSUME NEW j \in Jobs, NEW attempt \in 1..issued[j], Report(j, attempt)
          PROVE  Kept(k)
      <3>1. completion[j] = "none"
        BY <2>2 DEF Report, Heartbeat, Fail, CompleteFlush, Unlocked
      <3>2. j # k => job'[k] = job[k]
        BY <2>0, <2>2 DEF Report, Heartbeat, Fail, CompleteFlush
      <3>3. job'[k].attempt_id = job[k].attempt_id
        <4>1. CASE Heartbeat(j, attempt)
          BY <2>0, <4>1 DEF Heartbeat, Heartbeaten, JobRow
        <4>2. CASE \E retryable \in BOOLEAN : Fail(j, attempt, retryable)
          BY <2>0, <4>2 DEF Fail, AfterFailure, RetryScheduled, DeadLettered, Failed, JobRow
        <4>3. CASE CompleteFlush(j, attempt)
          BY <4>3 DEF CompleteFlush
        <4>4. QED
          BY <2>2, <4>1, <4>2, <4>3 DEF Report
      <3>4. QED
        BY <2>0, <3>1, <3>2, <3>3
    <2>3. ASSUME NEW j \in Jobs, Transaction(j) PROVE Kept(k)
      <3>1. CASE CompleteCommit(j) /\ j = k
        BY <2>0, <3>1 DEF CompleteCommit, Completed, JobRow
      <3>2. CASE j # k \/ CompleteRead(j) \/ CompleteRollback(j)
        <4>1. job'[k] = job[k]
          BY <2>0, <2>3, <3>2 DEF Transaction, CompleteRead, CompleteCommit, CompleteRollback
        <4>2. QED
          BY <2>0, <4>1
      <3>3. QED
        BY <2>3, <3>1, <3>2 DEF Transaction
    <2>4. ASSUME NEW j \in Jobs, LeaseLapses(j) \/ RetryElapses(j) PROVE Kept(k)
      <3>1. /\ job'[k].attempt_id = job[k].attempt_id
            /\ job'[k].status = job[k].status
        BY <2>0, <2>4 DEF LeaseLapses, RetryElapses, LeaseLapsed, RetryElapsed, JobRow
      <3>2. QED
        BY <2>0, <3>1
    <2>5. QED
      BY <1>1, <2>1, <2>2, <2>3, <2>4 DEF Next
  <1>2. IInv /\ [Next]_vars => [\A j \in Jobs : Kept(j)]_vars
    BY <1>1
  <1>3. QED
    BY <1>2, Invariance, PTL DEF Spec, AttemptNotPreempted

-----------------------------------------------------------------------------
(***************************************************************************)
(* The queue implements the ledger.                                        *)
(***************************************************************************)

\* What the handlers' rows are in the ledger.
LEMMA LedgerRows ==
  ASSUME NEW row \in JobRow
  PROVE  /\ OutcomeOf(row) = "open" <=> ~IsTerminal(row)
         /\ OutcomeOf(row) = "done" <=> row.status = "completed"
         /\ \A a : OutcomeOf(Claimed(row, a)) = "open"
         /\ \A a : Claimed(row, a).attempt_count = row.attempt_count + 1
         /\ OutcomeOf(Completed(row)) = "done"
         /\ OutcomeOf(DeadLettered(row)) = "exhausted"
         /\ OutcomeOf(Failed(row)) = "rejected"
         /\ OutcomeOf(RetryScheduled(row)) = "open"
         /\ OutcomeOf(Heartbeaten(row)) = OutcomeOf(row)
         /\ OutcomeOf(LeaseLapsed(row)) = OutcomeOf(row)
         /\ OutcomeOf(RetryElapsed(row)) = OutcomeOf(row)
         /\ \A new \in {Completed(row), DeadLettered(row), Failed(row), RetryScheduled(row),
                        Heartbeaten(row), LeaseLapsed(row), RetryElapsed(row)} :
              new.attempt_count = row.attempt_count
  BY DEF OutcomeOf, IsTerminal, TerminalStatuses, Claimed, Completed, DeadLettered, Failed,
         RetryScheduled, Heartbeaten, LeaseLapsed, RetryElapsed, JobRow, JobStatus

LEMMA LedgerInit == Init => Ledger!LedgerInit
  <1> SUFFICES ASSUME Init PROVE Ledger!LedgerInit
    OBVIOUS
  <1>1. \A j \in Jobs : /\ MaxAttempts - job[j].attempt_count = MaxAttempts
                        /\ OutcomeOf(job[j]) = "open"
                        /\ Cardinality(written[j]) = 0
    BY MaxAttemptsAssumption, FS_EmptySet DEF Init, NewJob, OutcomeOf
  <1>2. Ledger!LedgerJobs = Jobs
    BY DEF Ledger!LedgerJobs, Jobs
  <1>3. QED
    BY <1>1, <1>2 DEF Init, Ledger!LedgerInit

\* A handler that settles one row closes it in the ledger; the photo's status
\* stays, or sums up the outcomes.
LEMMA SettlingCloses ==
  ASSUME TypeOK, TypeOK', NEW k \in Jobs, NEW how \in {"done", "rejected", "exhausted"},
         ~IsTerminal(job[k]), job[k].attempt_count > 0,
         how = "exhausted" => job[k].attempt_count = MaxAttempts,
         OutcomeOf(job'[k]) = how, job'[k].attempt_count = job[k].attempt_count,
         \A l \in Jobs \ {k} : job'[l] = job[l] /\ written'[l] = written[l],
         Cardinality(written'[k]) =
           (IF how = "done" THEN Cardinality(written[k]) + 1 ELSE Cardinality(written[k])),
         \/ photo' = photo
         \/ /\ \A l \in JobsOf(PhotoOf(k)) : IsTerminal(job'[l])
            /\ photo' = [photo EXCEPT ![PhotoOf(k)] = Settled(StatusesRead(PhotoOf(k), {})')]
  PROVE  Ledger!Close(k, how)
  <1> DEFINE p == PhotoOf(k)
  <1> DEFINE left == [j \in Jobs |-> MaxAttempts - job[j].attempt_count]
  <1> DEFINE outcome == [j \in Jobs |-> OutcomeOf(job[j])]
  <1> DEFINE results == [j \in Jobs |-> Cardinality(written[j])]
  <1> DEFINE verdict == [q \in Photos |-> IF photo[q] = "processing" THEN "pending" ELSE photo[q]]
  <1>0. /\ p \in Photos /\ p = k[1]
        /\ \A l \in Jobs : job[l] \in JobRow /\ job'[l] \in JobRow
        /\ \A l \in JobsOf(p) : l \in Jobs
        /\ JobsOf(p) = {k[1]} \X JobTypes
        /\ photo \in [Photos -> PhotoStatus]
        /\ MaxAttempts \in Nat
    BY JobsOfPhotos, MaxAttemptsAssumption DEF TypeOK, PhotoOf, JobsOf
  <1>1. outcome[k] = "open"
    BY <1>0, LedgerRows
  <1>2. left[k] < MaxAttempts /\ (how = "exhausted" => left[k] = 0)
    BY <1>0 DEF JobRow
  <1>3. outcome' = [outcome EXCEPT ![k] = how]
    OBVIOUS
  <1>4. results' = [results EXCEPT ![k] = IF how = "done" THEN @ + 1 ELSE @]
    OBVIOUS
  <1>5. left' = left
    OBVIOUS
  <1>6. \/ verdict' = verdict
        \/ /\ "open" \notin {outcome'[j] : j \in {k[1]} \X JobTypes}
           /\ verdict' = [verdict EXCEPT ![k[1]] =
                Ledger!Summary({outcome'[j] : j \in {k[1]} \X JobTypes})]
    <2>1. CASE photo' = photo
      BY <2>1
    <2>2. CASE /\ \A l \in JobsOf(p) : IsTerminal(job'[l])
               /\ photo' = [photo EXCEPT ![p] = Settled(StatusesRead(p, {})')]
      <3>1. {outcome'[j] : j \in {k[1]} \X JobTypes} = {OutcomeOf(job'[j]) : j \in JobsOf(p)}
        BY <1>0
      <3>2. /\ "open" \notin {OutcomeOf(job'[j]) : j \in JobsOf(p)}
            /\ Settled(StatusesRead(p, {})') = Ledger!Summary({OutcomeOf(job'[j]) : j \in JobsOf(p)})
        <4>1. \A j \in JobsOf(p) : OutcomeOf(job'[j]) # "open"
          BY <1>0, <2>2, LedgerRows
        <4>2. \A j \in JobsOf(p) : OutcomeOf(job'[j]) = "done" <=> job'[j].status = "completed"
          BY <1>0, LedgerRows
        <4>3. StatusesRead(p, {})' = {job'[j].status : j \in JobsOf(p)}
          BY DEF StatusesRead
        <4> DEFINE seen == {job'[j].status : j \in JobsOf(p)}
        <4> DEFINE closed == {OutcomeOf(job'[j]) : j \in JobsOf(p)}
        <4>4. "completed" \in seen <=> "done" \in closed
          BY <4>2
        <4>5. seen = {"completed"} <=> closed = {"done"}
          BY <4>2
        <4>6. QED
          BY <4>1, <4>3, <4>4, <4>5 DEF Settled, Ledger!Summary
      <3>3. photo'[p] # "processing"
        BY <1>0, <2>2, SettledType
      <3>4. QED
        BY <1>0, <2>2, <3>1, <3>2, <3>3
    <2>3. QED
      BY <2>1, <2>2
  <1>7. QED
    BY <1>1, <1>2, <1>3, <1>4, <1>5, <1>6 DEF Ledger!Close, Ledger!OutcomesOf

\* A step that changes no outcome, attempt count, result or photo is invisible.
LEMMA InvisibleStep ==
  ASSUME \A k \in Jobs : /\ OutcomeOf(job'[k]) = OutcomeOf(job[k])
                         /\ job'[k].attempt_count = job[k].attempt_count,
         written' = written, photo' = photo
  PROVE  UNCHANGED Ledger!ledger
  <1>1. [j \in Jobs |-> MaxAttempts - job'[j].attempt_count]
          = [j \in Jobs |-> MaxAttempts - job[j].attempt_count]
    OBVIOUS
  <1>2. [j \in Jobs |-> OutcomeOf(job'[j])] = [j \in Jobs |-> OutcomeOf(job[j])]
    OBVIOUS
  <1>3. QED
    BY <1>1, <1>2 DEF Ledger!ledger

\* The oldest claimable job is at most one job.
LEMMA AtMostOneTaken ==
  ASSUME IsFiniteSet(Photos), NEW S \in SUBSET Jobs, NEW batch, IsOldest(batch, S, 1)
  PROVE  \A j, k \in batch : j = k
  <1>1. IsFiniteSet(JobTypes)
    <2>1. JobTypes = {"ocr"} \cup {"face_photo_scan"}
      BY DEF JobTypes
    <2>2. QED
      BY <2>1, FS_Singleton, FS_AddElement
  <1>2. IsFiniteSet(Jobs)
    BY <1>1, FS_Product DEF Jobs
  <1>3. IsFiniteSet(S)
    BY <1>2, FS_Subset
  <1>4. IsFiniteSet(batch) /\ batch \subseteq S
    BY <1>3, FS_Subset DEF IsOldest
  <1>5. Cardinality(batch) = 0 \/ Cardinality(batch) = 1
    <2>1. Cardinality(S) \in Nat
      BY <1>3, FS_CardinalityType
    <2>2. Cardinality(batch) = (IF Cardinality(S) <= 1 THEN Cardinality(S) ELSE 1)
      BY DEF IsOldest
    <2>3. QED
      BY <2>1, <2>2
  <1>6. CASE Cardinality(batch) = 0
    BY <1>4, <1>6, FS_EmptySet
  <1>7. CASE Cardinality(batch) = 1
    <2>1. \E x : batch = {x}
      BY <1>4, <1>7, FS_Singleton
    <2>2. QED
      BY <2>1
  <1>8. QED
    BY <1>5, <1>6, <1>7

\* A claim hands out the oldest job and gives up the exhausted ones.
LEMMA ClaimDispatches ==
  ASSUME IsFiniteSet(Photos), IInv, NEW types \in SUBSET JobTypes, Claim(types)
  PROVE  \E givenUp, taken \in SUBSET Ledger!LedgerJobs : Ledger!Dispatch(givenUp, taken)
  <1> DEFINE exhausted == {j \in Visible(types) : Exhausted(job[j])}
  <1> DEFINE claimable == {j \in Visible(types) : Claimable(job[j])}
  <1>0. /\ job \in [Jobs -> JobRow]
        /\ photo \in [Photos -> PhotoStatus]
        /\ Visible(types) \subseteq Jobs
        /\ Ledger!LedgerJobs = Jobs
        /\ MaxAttempts \in Nat
        /\ \A j \in Jobs : job[j].attempt_count <= MaxAttempts
    BY MaxAttemptsAssumption DEF IInv, TypeOK, RowsConsistent, RowSound, Visible, Ledger!LedgerJobs, Jobs
  <1>1. PICK reaped \in SUBSET exhausted, taken \in SUBSET claimable :
          /\ IsOldest(taken, claimable, 1)
          /\ job' = [j \in Jobs |->
               IF j \in reaped THEN DeadLettered(job[j])
               ELSE IF j \in taken THEN Claimed(job[j], issued[j] + 1)
               ELSE job[j]]
          /\ photo' = [q \in Photos |->
               IF JobsOf(q) \cap taken # {} THEN "processing"
               ELSE IF JobsOf(q) \cap reaped # {} THEN SyncedPhoto(q)
               ELSE photo[q]]
          /\ written' = written
    BY DEF Claim
  <1>2. /\ reaped \in SUBSET Jobs /\ taken \in SUBSET Jobs
        /\ \A j \in reaped : Exhausted(job[j])
        /\ \A j \in taken : Claimable(job[j])
    BY <1>0
  <1>3. \A j, k \in taken : j = k
    <2>1. claimable \in SUBSET Jobs
      BY <1>0
    <2>2. QED
      BY <1>1, <2>1, AtMostOneTaken
  <1>4. \A j \in reaped \cup taken : ~IsTerminal(job[j])
    BY <1>2 DEF Exhausted, Claimable, Available, IsTerminal, TerminalStatuses
  <1>5. photo' = photo
    <2> SUFFICES ASSUME NEW q \in Photos PROVE photo'[q] = photo[q]
      BY <1>0, <1>1
    <2>1. CASE JobsOf(q) \cap taken # {}
      <3>1. PICK l \in JobsOf(q) : ~IsTerminal(job[l])
        BY <1>4, <2>1
      <3>2. photo[q] = "processing"
        BY <3>1 DEF IInv, PhotoStatusSound
      <3>3. QED
        BY <1>1, <2>1, <3>2
    <2>2. CASE JobsOf(q) \cap taken = {} /\ JobsOf(q) \cap reaped # {}
      <3>1. PICK l \in JobsOf(q) : ~IsTerminal(job[l])
        BY <1>4, <2>2
      <3>2. SyncedPhoto(q) = photo[q]
        BY <3>1, UnsettledNotSynced
      <3>3. QED
        BY <1>1, <2>2, <3>2
    <2>3. QED
      BY <1>1, <2>1, <2>2
  <1>6. \A j \in Jobs :
          /\ OutcomeOf(job'[j]) = IF j \in reaped THEN "exhausted" ELSE OutcomeOf(job[j])
          /\ job'[j].attempt_count =
               IF j \in taken THEN job[j].attempt_count + 1 ELSE job[j].attempt_count
    <2> SUFFICES ASSUME NEW j \in Jobs
                 PROVE  /\ OutcomeOf(job'[j]) =
                             IF j \in reaped THEN "exhausted" ELSE OutcomeOf(job[j])
                        /\ job'[j].attempt_count =
                             IF j \in taken THEN job[j].attempt_count + 1
                             ELSE job[j].attempt_count
      OBVIOUS
    <2>0. job[j] \in JobRow /\ job[j].attempt_count \in Nat
      BY <1>0 DEF JobRow
    <2>1. CASE j \in reaped
      <3>1. j \notin taken
        BY <1>0, <1>2, <2>0, <2>1 DEF Exhausted, Claimable
      <3>2. QED
        BY <1>1, <2>0, <2>1, <3>1, LedgerRows
    <2>2. CASE j \in taken
      <3>1. j \notin reaped
        BY <1>0, <1>2, <2>0, <2>2 DEF Exhausted, Claimable
      <3>2. OutcomeOf(job[j]) = "open"
        BY <1>4, <2>0, <2>2, LedgerRows
      <3>3. QED
        BY <1>1, <2>0, <2>2, <3>1, <3>2, LedgerRows
    <2>3. CASE j \notin reaped /\ j \notin taken
      BY <1>1, <2>3
    <2>4. QED
      BY <2>1, <2>2, <2>3
  <1>7. /\ \A j \in reaped : OutcomeOf(job[j]) = "open" /\ MaxAttempts - job[j].attempt_count = 0
        /\ \A j \in taken : OutcomeOf(job[j]) = "open" /\ MaxAttempts - job[j].attempt_count > 0
    BY <1>0, <1>2, <1>4, LedgerRows DEF Exhausted, Claimable, JobRow
  <1>8. /\ [j \in Jobs |-> OutcomeOf(job'[j])]
             = [j \in Jobs |-> IF j \in reaped THEN "exhausted" ELSE OutcomeOf(job[j])]
        /\ [j \in Jobs |-> MaxAttempts - job'[j].attempt_count]
             = [j \in Jobs |-> IF j \in taken THEN MaxAttempts - job[j].attempt_count - 1
                               ELSE MaxAttempts - job[j].attempt_count]
    BY <1>0, <1>6 DEF JobRow
  <1>9. Ledger!Dispatch(reaped, taken)
    BY <1>0, <1>1, <1>2, <1>3, <1>5, <1>7, <1>8 DEF Ledger!Dispatch
  <1>10. QED
    BY <1>0, <1>2, <1>9

\* A failure report re-queues the job, which the ledger does not see, or
\* closes it as exhausted or rejected.
LEMMA FailCloses ==
  ASSUME IInv, TypeOK', NEW k \in Jobs, NEW attempt, NEW retryable \in BOOLEAN,
         Fail(k, attempt, retryable)
  PROVE  \/ UNCHANGED Ledger!ledger
         \/ \E how \in {"rejected", "exhausted"} : Ledger!Close(k, how)
  <1>0. /\ job \in [Jobs -> JobRow] /\ job[k] \in JobRow
        /\ photo \in [Photos -> PhotoStatus]
        /\ job' = [job EXCEPT ![k] = AfterFailure(job[k], retryable)]
        /\ written' = written
        /\ ~IsTerminal(job[k])
        /\ job[k].attempt_count > 0 /\ job[k].attempt_count <= MaxAttempts
        /\ MaxAttempts \in Nat
    BY MaxAttemptsAssumption
    DEF IInv, TypeOK, RowsConsistent, RowSound, Fail, Owns, IsTerminal, TerminalStatuses
  <1>1. photo' = photo
    <2>1. SyncedPhoto(PhotoOf(k)) = photo[PhotoOf(k)]
      BY <1>0, JobsOfPhotos, UnsettledNotSynced
    <2>2. QED
      BY <1>0, <2>1 DEF Fail
  <1>2. /\ job'[k] = AfterFailure(job[k], retryable)
        /\ \A l \in Jobs \ {k} : job'[l] = job[l] /\ written'[l] = written[l]
        /\ written'[k] = written[k]
    BY <1>0
  <1>3. CASE job'[k] = RetryScheduled(job[k])
    <2>1. \A l \in Jobs : /\ OutcomeOf(job'[l]) = OutcomeOf(job[l])
                          /\ job'[l].attempt_count = job[l].attempt_count
      BY <1>0, <1>2, <1>3, LedgerRows
    <2>2. QED
      BY <1>0, <1>1, <2>1, InvisibleStep
  <1>4. CASE job'[k] = DeadLettered(job[k]) /\ job[k].attempt_count >= MaxAttempts
    <2>1. /\ OutcomeOf(job'[k]) = "exhausted"
          /\ job'[k].attempt_count = job[k].attempt_count
      BY <1>0, <1>4, LedgerRows
    <2>2. job[k].attempt_count = MaxAttempts
      BY <1>0, <1>4 DEF JobRow
    <2>3. Ledger!Close(k, "exhausted")
      BY <1>0, <1>1, <1>2, <2>1, <2>2, SettlingCloses DEF IInv
    <2>4. QED
      BY <2>3
  <1>5. CASE job'[k] = Failed(job[k])
    <2>1. /\ OutcomeOf(job'[k]) = "rejected"
          /\ job'[k].attempt_count = job[k].attempt_count
      BY <1>0, <1>5, LedgerRows
    <2>2. Ledger!Close(k, "rejected")
      BY <1>0, <1>1, <1>2, <2>1, SettlingCloses DEF IInv
    <2>3. QED
      BY <2>2
  <1>6. QED
    BY <1>0, <1>2, <1>3, <1>4, <1>5 DEF AfterFailure, JobRow

\* The commit of a completion closes the job as done, records one result, and
\* announces the verdict only if the sibling is closed as well.
LEMMA CommitCloses ==
  ASSUME IInv, TypeOK', PhotoStatusSound', NEW k \in Jobs, CompleteCommit(k)
  PROVE  Ledger!Close(k, "done")
  <1> DEFINE p == PhotoOf(k)
  <1>0. /\ job \in [Jobs -> JobRow] /\ job[k] \in JobRow
        /\ written \in [Jobs -> SUBSET Nat]
        /\ photo \in [Photos -> PhotoStatus]
        /\ job' = [job EXCEPT ![k] = Completed(job[k])]
        /\ photo' = [photo EXCEPT ![p] = completion[k]]
        /\ written' = [written EXCEPT ![k] = written[k] \cup {reporter[k]}]
        /\ completion[k] \in PhotoStatus
        /\ p \in Photos /\ k \in JobsOf(p)
    BY JobsOfPhotos DEF IInv, TypeOK, CompleteCommit
  <1>1. /\ job[k].status = "processing"
        /\ ~IsTerminal(job[k])
        /\ job[k].attempt_count > 0
        /\ written[k] = {}
    <2>1. completion[k] # "none"
      BY <1>0 DEF PhotoStatus
    <2>2. job[k].status = "processing"
      BY <2>1 DEF IInv, CompletionsSound
    <2>3. QED
      BY <2>2 DEF IInv, RowsConsistent, RowSound, ResultsFromLastAttempt, IsTerminal, TerminalStatuses
  <1>2. /\ OutcomeOf(job'[k]) = "done"
        /\ job'[k].attempt_count = job[k].attempt_count
        /\ \A l \in Jobs \ {k} : job'[l] = job[l] /\ written'[l] = written[l]
    BY <1>0, LedgerRows
  <1>3. Cardinality(written'[k]) = Cardinality(written[k]) + 1
    <2>1. written'[k] = {reporter[k]}
      BY <1>0, <1>1
    <2>2. Cardinality({reporter[k]}) = 1
      BY FS_Singleton
    <2>3. Cardinality({}) = 0
      BY FS_EmptySet
    <2>4. QED
      BY <1>1, <2>1, <2>2, <2>3
  <1>4. \/ photo' = photo
        \/ /\ \A l \in JobsOf(p) : IsTerminal(job'[l])
           /\ photo' = [photo EXCEPT ![p] = Settled(StatusesRead(p, {})')]
    <2>1. CASE completion[k] = "processing"
      <3>1. photo[p] = "processing"
        BY <1>0, <1>1 DEF IInv, PhotoStatusSound
      <3>2. QED
        BY <1>0, <2>1, <3>1
    <2>2. CASE completion[k] # "processing"
      <3>1. photo'[p] = completion[k]
        BY <1>0
      <3>2. /\ \A l \in JobsOf(p) : IsTerminal(job'[l])
            /\ photo'[p] = Settled(StatusesRead(p, {})')
        BY <1>0, <2>2, <3>1 DEF PhotoStatusSound, Settled
      <3>3. QED
        BY <1>0, <3>1, <3>2
    <2>3. QED
      BY <2>1, <2>2
  <1>5. QED
    BY <1>1, <1>2, <1>3, <1>4, SettlingCloses DEF IInv

\* Every step of the queue is a step of the ledger or invisible in it.
LEMMA LedgerStep ==
  ASSUME IsFiniteSet(Photos), IInv, IInv', [Next]_vars
  PROVE  [Ledger!LedgerNext]_(Ledger!ledger)
  <1>0. /\ job \in [Jobs -> JobRow]
        /\ Ledger!LedgerJobs = Jobs
        /\ TypeOK' /\ PhotoStatusSound'
    BY DEF IInv, TypeOK, Ledger!LedgerJobs, Jobs
  <1>1. ASSUME NEW types \in SUBSET JobTypes, Claim(types)
        PROVE  Ledger!LedgerNext
    BY <1>1, ClaimDispatches DEF Ledger!LedgerNext
  <1>2. ASSUME NEW j \in Jobs, NEW attempt \in 1..issued[j], Report(j, attempt)
        PROVE  Ledger!LedgerNext \/ UNCHANGED Ledger!ledger
    <2>1. CASE Heartbeat(j, attempt)
      <3>1. \A l \in Jobs : /\ OutcomeOf(job'[l]) = OutcomeOf(job[l])
                            /\ job'[l].attempt_count = job[l].attempt_count
        BY <1>0, <2>1, LedgerRows DEF Heartbeat
      <3>2. QED
        BY <2>1, <3>1, InvisibleStep DEF Heartbeat
    <2>2. ASSUME NEW retryable \in BOOLEAN, Fail(j, attempt, retryable)
          PROVE  Ledger!LedgerNext \/ UNCHANGED Ledger!ledger
      <3>1. \/ UNCHANGED Ledger!ledger
            \/ \E how \in {"rejected", "exhausted"} : Ledger!Close(j, how)
        BY <1>0, <2>2, FailCloses
      <3>2. QED
        BY <1>0, <3>1 DEF Ledger!LedgerNext, Ledger!Outcomes
    <2>3. CASE CompleteFlush(j, attempt)
      <3>1. job' = job /\ written' = written /\ photo' = photo
        BY <2>3 DEF CompleteFlush
      <3>2. QED
        BY <3>1, InvisibleStep
    <2>4. QED
      BY <1>2, <2>1, <2>2, <2>3 DEF Report
  <1>3. ASSUME NEW j \in Jobs, CompleteCommit(j)
        PROVE  Ledger!LedgerNext
    <2>1. Ledger!Close(j, "done")
      BY <1>0, <1>3, CommitCloses
    <2>2. QED
      BY <1>0, <2>1 DEF Ledger!LedgerNext, Ledger!Outcomes
  <1>4. ASSUME NEW j \in Jobs, CompleteRead(j) \/ CompleteRollback(j)
        PROVE  UNCHANGED Ledger!ledger
    <2>1. job' = job /\ written' = written /\ photo' = photo
      BY <1>4 DEF CompleteRead, CompleteRollback
    <2>2. QED
      BY <2>1, InvisibleStep
  <1>5. ASSUME NEW j \in Jobs, LeaseLapses(j) \/ RetryElapses(j)
        PROVE  UNCHANGED Ledger!ledger
    <2>1. \A l \in Jobs : /\ OutcomeOf(job'[l]) = OutcomeOf(job[l])
                          /\ job'[l].attempt_count = job[l].attempt_count
      BY <1>0, <1>5, LedgerRows DEF LeaseLapses, RetryElapses
    <2>2. QED
      BY <1>5, <2>1, InvisibleStep DEF LeaseLapses, RetryElapses
  <1>6. CASE UNCHANGED vars
    BY <1>6, InvisibleStep DEF vars
  <1>7. QED
    BY <1>1, <1>2, <1>3, <1>4, <1>5, <1>6 DEF Next, Transaction

\* The queue with its leases, retries, lost and repeated reports and
\* interleaved transactions implements the ledger: at most one result per job,
\* one verdict per photo, announced after its last job closed.
THEOREM Refinement ==
  ASSUME IsFiniteSet(Photos)
  PROVE  Spec => ImplementsLedger
  <1>1. Init => Ledger!LedgerInit
    BY LedgerInit
  <1>2. IInv /\ IInv' /\ [Next]_vars => [Ledger!LedgerNext]_(Ledger!ledger)
    BY LedgerStep
  <1>3. QED
    BY <1>1, <1>2, Invariance, PTL DEF Spec, ImplementsLedger, Ledger!LedgerSpec
=============================================================================
