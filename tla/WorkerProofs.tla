----------------------------- MODULE WorkerProofs -----------------------------
(***************************************************************************)
(* Machine-checked theorems about Worker, for every set of processes and   *)
(* jobs, every attempt budget and every number of sends.                   *)
(***************************************************************************)
EXTENDS Worker, TLAPS

-----------------------------------------------------------------------------
(* The rows of a worker queue (JobRecord).                                 *)

\* The assignments of every handler keep a row well-typed.
LEMMA RowTypes ==
  ASSUME NEW row \in JobRow
  PROVE  /\ \A a \in Nat : Claimed(row, a) \in JobRow
         /\ Heartbeaten(row) \in JobRow
         /\ Completed(row) \in JobRow
         /\ DeadLettered(row) \in JobRow
         /\ RetryScheduled(row) \in JobRow
         /\ Failed(row) \in JobRow
         /\ \A r \in BOOLEAN : AfterFailure(row, r) \in JobRow
         /\ LeaseLapsed(row) \in JobRow
         /\ RetryElapsed(row) \in JobRow
  <1> USE DEF JobRow, JobStatus
  <1>1. \A a \in Nat : Claimed(row, a) \in JobRow
    BY DEF Claimed
  <1>2. Heartbeaten(row) \in JobRow
    BY DEF Heartbeaten
  <1>3. Completed(row) \in JobRow
    BY DEF Completed
  <1>4. DeadLettered(row) \in JobRow
    BY DEF DeadLettered
  <1>5. RetryScheduled(row) \in JobRow
    BY DEF RetryScheduled
  <1>6. Failed(row) \in JobRow
    BY DEF Failed
  <1>7. \A r \in BOOLEAN : AfterFailure(row, r) \in JobRow
    BY <1>4, <1>5, <1>6 DEF AfterFailure
  <1>8. LeaseLapsed(row) \in JobRow
    BY DEF LeaseLapsed
  <1>9. RetryElapsed(row) \in JobRow
    BY DEF RetryElapsed
  <1>10. QED
    BY <1>1, <1>2, <1>3, <1>4, <1>5, <1>6, <1>7, <1>8, <1>9

\* The status after each assignment.
LEMMA RowStatus ==
  ASSUME NEW row \in JobRow
  PROVE  /\ \A a : Claimed(row, a).status = "processing"
         /\ Heartbeaten(row).status = row.status
         /\ LeaseLapsed(row).status = row.status
         /\ RetryElapsed(row).status = row.status
         /\ Completed(row).status = "completed"
         /\ DeadLettered(row).status = "dead_lettered"
         /\ AfterFailure(row, TRUE).status \in {"queued", "dead_lettered"}
         /\ AfterFailure(row, FALSE).status = "failed"
  BY DEF Claimed, Heartbeaten, LeaseLapsed, RetryElapsed, Completed, DeadLettered,
         AfterFailure, RetryScheduled, Failed, JobRow

\* Only a hand-out draws an attempt id.
LEMMA RowAttempt ==
  ASSUME NEW row \in JobRow
  PROVE  /\ \A a : Claimed(row, a).attempt_id = a
         /\ Heartbeaten(row).attempt_id = row.attempt_id
         /\ LeaseLapsed(row).attempt_id = row.attempt_id
         /\ RetryElapsed(row).attempt_id = row.attempt_id
         /\ Completed(row).attempt_id = row.attempt_id
         /\ DeadLettered(row).attempt_id = row.attempt_id
         /\ \A r \in BOOLEAN : AfterFailure(row, r).attempt_id = row.attempt_id
  BY DEF Claimed, Heartbeaten, LeaseLapsed, RetryElapsed, Completed, DeadLettered,
         AfterFailure, RetryScheduled, Failed, JobRow

\* A row is born sound.
LEMMA NewRow == NewJob \in JobRow /\ RowSound(NewJob, 0)
  BY MaxAttemptsAssumption DEF NewJob, NoAttempt, JobRow, JobStatus, RowSound

\* Every assignment keeps a row sound under the guard of its handler.
LEMMA RowSteps ==
  ASSUME NEW row \in JobRow, NEW n \in Nat, RowSound(row, n)
  PROVE  /\ Claimable(row) => RowSound(Claimed(row, n + 1), n + 1)
         /\ Exhausted(row) => RowSound(DeadLettered(row), n)
         /\ \A a : Owns(row, a) => RowSound(Heartbeaten(row), n)
         /\ \A a, r : Owns(row, a) => RowSound(AfterFailure(row, r), n)
         /\ row.status = "processing" => RowSound(Completed(row), n)
         /\ row.lease_expires_at = "live" => RowSound(LeaseLapsed(row), n)
         /\ row.retry_after = "waiting" => RowSound(RetryElapsed(row), n)
  <1> USE MaxAttemptsAssumption DEF RowSound, JobRow
  <1>1. Claimable(row) => RowSound(Claimed(row, n + 1), n + 1)
    BY DEF Claimable, Claimed
  <1>2. row.attempt_count >= MaxAttempts => RowSound(DeadLettered(row), n)
    BY DEF DeadLettered
  <1>3. Exhausted(row) => RowSound(DeadLettered(row), n)
    BY <1>2 DEF Exhausted
  <1>4. \A a : Owns(row, a) => RowSound(Heartbeaten(row), n)
    BY DEF Owns, Heartbeaten
  <1>5. RowSound(RetryScheduled(row), n) /\ RowSound(Failed(row), n)
    BY DEF RetryScheduled, Failed
  <1>6. \A r : RowSound(AfterFailure(row, r), n)
    BY <1>2, <1>5 DEF AfterFailure
  <1>7. row.status = "processing" => RowSound(Completed(row), n)
    BY DEF Completed
  <1>8. row.lease_expires_at = "live" => RowSound(LeaseLapsed(row), n)
    BY DEF LeaseLapsed
  <1>9. row.retry_after = "waiting" => RowSound(RetryElapsed(row), n)
    BY DEF RetryElapsed
  <1>10. QED
    BY <1>1, <1>3, <1>4, <1>6, <1>7, <1>8, <1>9

-----------------------------------------------------------------------------
(***************************************************************************)
(* Type correctness.                                                       *)
(***************************************************************************)

\* The part of TypeOK about the processes.
ProcessesOK ==
  /\ stage \in [Workers -> Stages]
  /\ claim \in [Workers -> Claims \cup {NoClaim}]
  /\ tries \in [Workers -> 0..Tries]
  /\ awaiting \in [Workers -> BOOLEAN]
  /\ beat \in [Workers -> {"off", "waiting", "posting"}]
  /\ lost \in [Workers -> BOOLEAN]

LEMMA LetGoTypes ==
  ASSUME TypeOK, NEW w \in Workers, NEW next \in {"polling", "down"}, LetGo(w, next)
  PROVE  ProcessesOK'
  BY WorkerAssumption DEF TypeOK, LetGo, ProcessesOK, Stages

LEMMA StartPostTypes ==
  ASSUME TypeOK, NEW w \in Workers, NEW kind \in Posting, StartPost(w, kind)
  PROVE  ProcessesOK'
  <1>1. kind \in Stages /\ Tries \in 0..Tries
    BY WorkerAssumption DEF Stages
  <1>2. /\ beat' \in [Workers -> {"off", "waiting", "posting"}]
        /\ lost' \in [Workers -> BOOLEAN]
    BY DEF TypeOK, StartPost, heartbeat
  <1>3. QED
    BY <1>1, <1>2 DEF TypeOK, StartPost, ProcessesOK

\* A process that works or posts can name its job in a report.
LEMMA ReportTypes ==
  ASSUME TypeOK, NEW w \in Workers, claim[w] \in Claims,
         NEW kind \in ReportKinds, NEW send \in 0..Tries
  PROVE  ReportOf(w, kind, send) \in Reports
  BY DEF ReportOf, Reports, Claims

\* A report changes a row, if any, as its handler does.
LEMMA EffectTypes ==
  ASSUME NEW row \in JobRow, NEW r \in Reports
  PROVE  Effect(row, r) \in JobRow
  <1>1. /\ Heartbeaten(row) \in JobRow /\ Completed(row) \in JobRow
        /\ \A retryable \in BOOLEAN : AfterFailure(row, retryable) \in JobRow
    BY RowTypes
  <1>2. (r.kind = "retry") \in BOOLEAN
    OBVIOUS
  <1>3. CASE ~Owns(row, r.attempt)
    BY <1>3 DEF Effect
  <1>4. CASE Owns(row, r.attempt) /\ r.kind = "heartbeat"
    BY <1>1, <1>4 DEF Effect
  <1>5. CASE Owns(row, r.attempt) /\ r.kind = "complete"
    BY <1>1, <1>5 DEF Effect
  <1>6. CASE Owns(row, r.attempt) /\ r.kind = "retry"
    BY <1>1, <1>2, <1>6 DEF Effect
  <1>7. CASE Owns(row, r.attempt) /\ r.kind = "reject"
    BY <1>1, <1>2, <1>7 DEF Effect
  <1>8. QED
    BY <1>3, <1>4, <1>5, <1>6, <1>7 DEF Reports, ReportKinds

LEMMA InitTypeOK == Init => TypeOK
  <1>1. NewJob \in JobRow /\ 0 \in 0..Tries
    BY NewRow, WorkerAssumption
  <1>2. Init => /\ awaiting \in [Workers -> BOOLEAN]
                /\ lost \in [Workers -> BOOLEAN]
    BY DEF Init
  <1>3. QED
    BY <1>1, <1>2 DEF Init, TypeOK, Stages

\* The backend's handling of a claim.
LEMMA HandleClaimTypes ==
  ASSUME TypeOK, NEW w \in Workers, HandleClaim(w)
  PROVE  job' \in [Jobs -> JobRow] /\ issued' \in [Jobs -> Nat] /\ ProcessesOK'
  <1> USE DEF TypeOK
  <1> DEFINE exhausted == {j \in Jobs : Exhausted(job[j])}
  <1> DEFINE claimable == {j \in Jobs : Claimable(job[j])}
  <1>1. PICK taken \in SUBSET claimable :
          /\ job' = [j \in Jobs |->
               IF j \in exhausted THEN DeadLettered(job[j])
               ELSE IF j \in taken THEN Claimed(job[j], issued[j] + 1) ELSE job[j]]
          /\ issued' = [j \in Jobs |-> IF j \in taken THEN issued[j] + 1 ELSE issued[j]]
          /\ \/ UNCHANGED <<mainThread, heartbeat>>
             \/ /\ stage' = [stage EXCEPT ![w] = "polling"]
                /\ UNCHANGED <<claim, tries, awaiting, heartbeat>>
             \/ \E j \in taken : StartWork(w, j, issued[j] + 1)
    BY DEF HandleClaim
  <1>2. \A j \in Jobs : job[j] \in JobRow /\ issued[j] + 1 \in Nat
    OBVIOUS
  <1>3. \A j \in Jobs : /\ DeadLettered(job[j]) \in JobRow
                        /\ Claimed(job[j], issued[j] + 1) \in JobRow
    BY <1>2, RowTypes
  <1>4. ProcessesOK'
    <2>1. CASE UNCHANGED <<mainThread, heartbeat>>
      BY <2>1 DEF ProcessesOK, mainThread, heartbeat
    <2>2. CASE /\ stage' = [stage EXCEPT ![w] = "polling"]
               /\ UNCHANGED <<claim, tries, awaiting, heartbeat>>
      BY <2>2 DEF ProcessesOK, heartbeat, Stages
    <2>3. ASSUME NEW j \in taken, StartWork(w, j, issued[j] + 1) PROVE ProcessesOK'
      <3>1. [job |-> j, attempt |-> issued[j] + 1] \in Claims
        BY <1>2 DEF Claims
      <3>2. QED
        BY <2>3, <3>1 DEF StartWork, ProcessesOK, Stages
    <2>4. QED
      BY <1>1, <2>1, <2>2, <2>3
  <1>5. QED
    BY <1>1, <1>2, <1>3, <1>4

LEMMA NextTypeOK == TypeOK /\ ThreadsConsistent /\ [Next]_vars => TypeOK'
  <1> SUFFICES ASSUME TypeOK, ThreadsConsistent, [Next]_vars PROVE TypeOK'
    OBVIOUS
  <1> DEFINE Rest == /\ job \in [Jobs -> JobRow] /\ issued \in [Jobs -> Nat]
                     /\ mail \in SUBSET (Reports \cup ClaimRequests)
                     /\ acked \in SUBSET Claims /\ refused \in SUBSET Claims
  <1>0. Rest /\ ProcessesOK
    BY DEF TypeOK, ProcessesOK
  <1> SUFFICES Rest' /\ ProcessesOK'
    BY DEF TypeOK, ProcessesOK
  <1>a. UNCHANGED <<mainThread, heartbeat>> => ProcessesOK'
    BY <1>0 DEF ProcessesOK, mainThread, heartbeat
  <1>b. \A w \in Workers : /\ stage[w] \in {"working"} \cup Posting => claim[w] \in Claims
                           /\ awaiting[w] => claim[w] \in Claims
                           /\ beat[w] # "off" => claim[w] \in Claims
    BY DEF ThreadsConsistent, Posting
  <1> USE DEF rows, mainThread, heartbeat, history
  <1>1. ASSUME NEW w \in Workers, SendClaim(w) PROVE Rest' /\ ProcessesOK'
    <2>1. ClaimRequest(w) \in ClaimRequests
      BY DEF ClaimRequest, ClaimRequests
    <2>2. Rest'
      BY <1>0, <1>1, <2>1 DEF SendClaim
    <2>3. ProcessesOK'
      BY <1>0, <1>1 DEF SendClaim, ProcessesOK, Stages
    <2>4. QED
      BY <2>2, <2>3
  <1>2. ASSUME NEW w \in Workers, ClaimTimesOut(w) PROVE Rest' /\ ProcessesOK'
    <2>1. Rest'
      BY <1>0, <1>2 DEF ClaimTimesOut
    <2>2. ProcessesOK'
      BY <1>0, <1>2 DEF ClaimTimesOut, ProcessesOK, Stages
    <2>3. QED
      BY <2>1, <2>2
  <1>3. ASSUME NEW w \in Workers, Finish(w) \/ NoticeLoss(w) \/ Stop(w) \/ Crash(w) \/ Start(w)
        PROVE Rest' /\ ProcessesOK'
    <2>1. Rest'
      BY <1>0, <1>3 DEF Finish, NoticeLoss, Stop, Crash, Start
    <2>2. \/ LetGo(w, "polling") \/ LetGo(w, "down") \/ StartPost(w, "complete")
      BY <1>3 DEF Finish, NoticeLoss, Stop, Crash, Start
    <2>3. ProcessesOK'
      BY <2>2, LetGoTypes, StartPostTypes DEF Posting
    <2>4. QED
      BY <2>1, <2>3
  <1>4. ASSUME NEW w \in Workers, NEW kind \in {"retry", "reject"}, WorkFails(w, kind)
        PROVE Rest' /\ ProcessesOK'
    <2>1. claim[w] \in Claims
      BY <1>b, <1>4 DEF WorkFails
    <2>2. Rest'
      BY <1>0, <1>4, <2>1 DEF WorkFails
    <2>3. ProcessesOK'
      BY <1>4, StartPostTypes DEF WorkFails, Posting
    <2>4. QED
      BY <2>2, <2>3
  <1>5. ASSUME NEW w \in Workers, SendReport(w) PROVE Rest' /\ ProcessesOK'
    <2>1. /\ claim[w] \in Claims /\ stage[w] \in ReportKinds
          /\ tries[w] \in 0..Tries /\ tries[w] > 0
      BY <1>0, <1>b, <1>5 DEF SendReport, Posting, ReportKinds, ProcessesOK
    <2>2. ReportOf(w, stage[w], tries[w]) \in Reports
      BY <2>1, ReportTypes
    <2>3. Rest'
      BY <1>0, <1>5, <2>2 DEF SendReport
    <2>4. tries[w] - 1 \in 0..Tries
      BY <2>1, WorkerAssumption
    <2>5. ProcessesOK'
      BY <1>0, <1>5, <2>4 DEF SendReport, ProcessesOK
    <2>6. QED
      BY <2>3, <2>5
  <1>6. ASSUME NEW w \in Workers, ReportTimesOut(w) PROVE Rest' /\ ProcessesOK'
    <2>1. Rest'
      BY <1>0, <1>6 DEF ReportTimesOut
    <2>2. CASE tries[w] > 0
      <3>1. ProcessesOK'
        BY <1>0, <1>6, <2>2 DEF ReportTimesOut, ProcessesOK
      <3>2. QED
        BY <2>1, <3>1
    <2>3. CASE ~(tries[w] > 0)
      <3>1. LetGo(w, "polling")
        BY <1>6, <2>3 DEF ReportTimesOut, GiveUp
      <3>2. QED
        BY <2>1, <3>1, LetGoTypes
    <2>4. QED
      BY <2>2, <2>3
  <1>7. ASSUME NEW w \in Workers, SendHeartbeat(w) PROVE Rest' /\ ProcessesOK'
    <2>1. claim[w] \in Claims
      BY <1>b, <1>7 DEF SendHeartbeat
    <2>2. HeartbeatOf(w) \in Reports
      BY <2>1, ReportTypes, WorkerAssumption DEF HeartbeatOf, ReportKinds
    <2>3. Rest'
      BY <1>0, <1>7, <2>2 DEF SendHeartbeat
    <2>4. ProcessesOK'
      BY <1>0, <1>7 DEF SendHeartbeat, ProcessesOK
    <2>5. QED
      BY <2>3, <2>4
  <1>8. ASSUME NEW w \in Workers, HeartbeatTimesOut(w) PROVE Rest' /\ ProcessesOK'
    <2>1. Rest'
      BY <1>0, <1>8 DEF HeartbeatTimesOut
    <2>2. ProcessesOK'
      BY <1>0, <1>8 DEF HeartbeatTimesOut, ProcessesOK
    <2>3. QED
      BY <2>1, <2>2
  <1>9. ASSUME NEW w \in Workers, HandleClaim(w) PROVE Rest' /\ ProcessesOK'
    <2>1. UNCHANGED <<acked, refused>> /\ mail' \subseteq mail
      BY <1>9 DEF HandleClaim
    <2>2. QED
      BY <1>0, <1>9, <2>1, HandleClaimTypes
  <1>10. ASSUME NEW r \in mail, HandleReport(r) PROVE Rest' /\ ProcessesOK'
    <2>1. /\ r \in Reports /\ r.job \in Jobs /\ mail' \subseteq mail /\ issued' = issued
          /\ job' = [job EXCEPT ![r.job] = Effect(job[r.job], r)] \/ job' = job
      BY <1>10 DEF HandleReport, Reports
    <2>2. job' \in [Jobs -> JobRow]
      BY <1>0, <2>1, EffectTypes
    <2>3. PICK answer : \/ Unheard
                        \/ \E w \in Workers : HearReport(w, r, answer)
                        \/ \E w \in Workers : HearHeartbeat(w, r, answer)
      BY <1>10 DEF HandleReport
    <2>4. CASE Unheard
      BY <1>0, <1>a, <2>1, <2>2, <2>4 DEF Unheard
    <2>5. ASSUME NEW w \in Workers, HearReport(w, r, answer) PROVE Rest' /\ ProcessesOK'
      <3>1. claim[w] \in Claims
        BY <1>b, <2>5 DEF HearReport
      <3>2. acked' \in SUBSET Claims /\ refused' \in SUBSET Claims
        BY <1>0, <2>5, <3>1 DEF HearReport
      <3>3. LetGo(w, "polling") \/ StartPost(w, "reject")
        BY <2>5 DEF HearReport
      <3>4. ProcessesOK'
        BY <3>3, LetGoTypes, StartPostTypes DEF Posting
      <3>5. QED
        BY <1>0, <2>1, <2>2, <3>2, <3>4
    <2>6. ASSUME NEW w \in Workers, HearHeartbeat(w, r, answer) PROVE Rest' /\ ProcessesOK'
      <3>1. ProcessesOK'
        BY <1>0, <2>6 DEF HearHeartbeat, ProcessesOK
      <3>2. QED
        BY <1>0, <2>1, <2>2, <2>6, <3>1 DEF HearHeartbeat
    <2>7. QED
      BY <2>3, <2>4, <2>5, <2>6
  <1>11. ASSUME NEW r \in mail, LoseMail(r) PROVE Rest' /\ ProcessesOK'
    BY <1>0, <1>a, <1>11 DEF LoseMail
  <1>12. ASSUME NEW j \in Jobs, LeaseLapses(j) \/ RetryElapses(j) PROVE Rest' /\ ProcessesOK'
    BY <1>0, <1>a, <1>12, RowTypes DEF LeaseLapses, RetryElapses
  <1>13. CASE UNCHANGED vars
    BY <1>0, <1>a, <1>13 DEF vars
  <1>14. QED
    BY <1>1, <1>2, <1>3, <1>4, <1>5, <1>6, <1>7, <1>8, <1>9, <1>10, <1>11, <1>12, <1>13
    DEF Next, MainStep, HeartbeatStep

-----------------------------------------------------------------------------
(***************************************************************************)
(* What one step does to one row.                                          *)
(***************************************************************************)
RowKept(j) == job'[j] = job[j] /\ issued'[j] = issued[j]

HandedOut(j) ==
  /\ Claimable(job[j])
  /\ job'[j] = Claimed(job[j], issued[j] + 1) /\ issued'[j] = issued[j] + 1

GivenUp(j) == Exhausted(job[j]) /\ job'[j] = DeadLettered(job[j]) /\ issued'[j] = issued[j]

Aged(j) ==
  /\ \/ job[j].lease_expires_at = "live" /\ job'[j] = LeaseLapsed(job[j])
     \/ job[j].retry_after = "waiting" /\ job'[j] = RetryElapsed(job[j])
  /\ issued'[j] = issued[j]

Reported(j, r) ==
  /\ r \in Reports /\ r.job = j /\ Owns(job[j], r.attempt)
  /\ job'[j] = Effect(job[j], r) /\ issued'[j] = issued[j]

\* These are the only ways in which a row changes.
LEMMA RowTransitions ==
  ASSUME TypeOK, [Next]_vars, NEW j \in Jobs
  PROVE  \/ RowKept(j) \/ HandedOut(j) \/ GivenUp(j) \/ Aged(j)
         \/ \E r \in mail : Reported(j, r)
  <1> DEFINE Goal == \/ RowKept(j) \/ HandedOut(j) \/ GivenUp(j) \/ Aged(j)
                     \/ \E r \in mail : Reported(j, r)
  <1> SUFFICES Goal
    OBVIOUS
  <1>0. job \in [Jobs -> JobRow] /\ issued \in [Jobs -> Nat] /\ job[j] \in JobRow
    BY DEF TypeOK
  <1>1. ASSUME NEW w \in Workers, \/ MainStep(w) \/ HeartbeatStep(w) \/ Stop(w) \/ Crash(w) \/ Start(w)
        PROVE  Goal
    <2>1. UNCHANGED rows
      BY <1>1 DEF MainStep, SendClaim, ClaimTimesOut, Finish, NoticeLoss, WorkFails, SendReport,
                  ReportTimesOut, HeartbeatStep, SendHeartbeat, HeartbeatTimesOut, Stop, Crash, Start
    <2>2. RowKept(j)
      BY <2>1 DEF rows, RowKept
    <2>3. QED
      BY <2>2
  <1>2. ASSUME NEW w \in Workers, HandleClaim(w) PROVE Goal
    <2> DEFINE exhausted == {i \in Jobs : Exhausted(job[i])}
    <2> DEFINE claimable == {i \in Jobs : Claimable(job[i])}
    <2>1. PICK taken \in SUBSET claimable :
            /\ job' = [i \in Jobs |->
                 IF i \in exhausted THEN DeadLettered(job[i])
                 ELSE IF i \in taken THEN Claimed(job[i], issued[i] + 1) ELSE job[i]]
            /\ issued' = [i \in Jobs |-> IF i \in taken THEN issued[i] + 1 ELSE issued[i]]
      BY <1>2 DEF HandleClaim
    <2>2. CASE j \in exhausted
      <3>1. j \notin claimable
        BY <1>0, <2>2, MaxAttemptsAssumption DEF Exhausted, Claimable, JobRow
      <3>2. GivenUp(j)
        BY <2>1, <2>2, <3>1 DEF GivenUp
      <3>3. QED
        BY <3>2
    <2>3. CASE j \in taken /\ j \notin exhausted
      <3>1. HandedOut(j)
        BY <2>1, <2>3 DEF HandedOut
      <3>2. QED
        BY <3>1
    <2>4. CASE j \notin taken /\ j \notin exhausted
      <3>1. RowKept(j)
        BY <2>1, <2>4 DEF RowKept
      <3>2. QED
        BY <3>1
    <2>5. QED
      BY <2>2, <2>3, <2>4
  <1>3. ASSUME NEW r \in mail, HandleReport(r) PROVE Goal
    <2>1. /\ r \in Reports /\ issued' = issued
          /\ job' = [job EXCEPT ![r.job] = Effect(job[r.job], r)] \/ job' = job
      BY <1>3 DEF HandleReport
    <2>2. CASE job'[j] = job[j]
      <3>1. RowKept(j)
        BY <2>1, <2>2 DEF RowKept
      <3>2. QED
        BY <3>1
    <2>3. CASE job'[j] # job[j]
      <3>1. r.job = j /\ job'[j] = Effect(job[j], r)
        BY <1>0, <2>1, <2>3
      <3>2. Owns(job[j], r.attempt)
        BY <2>3, <3>1 DEF Effect
      <3>3. Reported(j, r)
        BY <2>1, <3>1, <3>2 DEF Reported
      <3>4. QED
        BY <3>3
    <2>4. QED
      BY <2>2, <2>3
  <1>4. ASSUME NEW r \in mail, LoseMail(r) PROVE Goal
    <2>1. RowKept(j)
      BY <1>4 DEF LoseMail, rows, RowKept
    <2>2. QED
      BY <2>1
  <1>5. ASSUME NEW i \in Jobs, LeaseLapses(i) \/ RetryElapses(i) PROVE Goal
    <2>1. RowKept(j) \/ Aged(j)
      BY <1>0, <1>5 DEF LeaseLapses, RetryElapses, RowKept, Aged
    <2>2. QED
      BY <2>1
  <1>6. CASE UNCHANGED vars
    <2>1. RowKept(j)
      BY <1>6 DEF vars, rows, RowKept
    <2>2. QED
      BY <2>1
  <1>7. QED
    BY <1>1, <1>2, <1>3, <1>4, <1>5, <1>6 DEF Next

\* What an owning report does, by its kind.
LEMMA EffectCases ==
  ASSUME NEW row, NEW r \in Reports, Owns(row, r.attempt)
  PROVE  \/ r.kind = "heartbeat" /\ Effect(row, r) = Heartbeaten(row)
         \/ r.kind = "complete" /\ Effect(row, r) = Completed(row)
         \/ r.kind = "retry" /\ Effect(row, r) = AfterFailure(row, TRUE)
         \/ r.kind = "reject" /\ Effect(row, r) = AfterFailure(row, FALSE)
  <1>1. r.kind \in {"heartbeat", "complete", "retry", "reject"}
    BY DEF Reports, ReportKinds
  <1>2. CASE r.kind = "heartbeat"
    BY <1>2 DEF Effect
  <1>3. CASE r.kind = "complete"
    BY <1>3 DEF Effect
  <1>4. CASE r.kind = "retry"
    <2>1. (r.kind = "retry") = TRUE
      BY <1>4
    <2>2. QED
      BY <1>4, <2>1 DEF Effect
  <1>5. CASE r.kind = "reject"
    <2>1. (r.kind = "retry") = FALSE
      BY <1>5
    <2>2. QED
      BY <1>5, <2>1 DEF Effect
  <1>6. QED
    BY <1>1, <1>2, <1>3, <1>4, <1>5

\* A settled row is never written again: reports need the lease, claims an
\* available row.
LEMMA SettledRowsFrozen ==
  ASSUME TypeOK, RowsConsistent, [Next]_vars, NEW j \in Jobs, IsTerminal(job[j])
  PROVE  job'[j] = job[j]
  <1>1. /\ job[j].status \notin {"queued", "processing"}
        /\ job[j].lease_expires_at = "null" /\ job[j].retry_after = "null"
    BY DEF TypeOK, JobRow, RowsConsistent, RowSound, IsTerminal, TerminalStatuses
  <1>2. /\ ~Available(job[j]) /\ \A a : ~Owns(job[j], a)
    BY <1>1 DEF Available, Owns
  <1>3. RowKept(j)
    BY <1>1, <1>2, RowTransitions
    DEF HandedOut, GivenUp, Aged, Reported, Claimable, Exhausted
  <1>4. QED
    BY <1>3 DEF RowKept

-----------------------------------------------------------------------------
(***************************************************************************)
(* The inductive invariant.                                                *)
(***************************************************************************)
LEMMA RowsConsistentStep == TypeOK /\ RowsConsistent /\ [Next]_vars => RowsConsistent'
  <1> SUFFICES ASSUME TypeOK, RowsConsistent, [Next]_vars, NEW j \in Jobs
               PROVE  RowSound(job'[j], issued'[j])
    BY DEF RowsConsistent, RowSound
  <1>0. job[j] \in JobRow /\ issued[j] \in Nat /\ RowSound(job[j], issued[j])
    BY DEF TypeOK, RowsConsistent
  <1>1. CASE RowKept(j)
    BY <1>0, <1>1 DEF RowKept
  <1>2. CASE HandedOut(j)
    BY <1>0, <1>2, RowSteps DEF HandedOut
  <1>3. CASE GivenUp(j)
    BY <1>0, <1>3, RowSteps DEF GivenUp
  <1>4. CASE Aged(j)
    BY <1>0, <1>4, RowSteps DEF Aged
  <1>5. ASSUME NEW r \in mail, Reported(j, r) PROVE RowSound(job'[j], issued'[j])
    <2>1. /\ r \in Reports /\ Owns(job[j], r.attempt) /\ job[j].status = "processing"
          /\ job'[j] = Effect(job[j], r) /\ issued'[j] = issued[j]
      BY <1>5 DEF Reported, Owns
    <2>2. \/ job'[j] = Heartbeaten(job[j])
          \/ job'[j] = Completed(job[j])
          \/ job'[j] = AfterFailure(job[j], TRUE)
          \/ job'[j] = AfterFailure(job[j], FALSE)
      BY <2>1, EffectCases
    <2>3. QED
      BY <1>0, <2>1, <2>2, RowSteps
  <1>6. QED
    BY <1>1, <1>2, <1>3, <1>4, <1>5, RowTransitions

\* Where a process is after it let its job go, started a post or heard an
\* answer.
LEMMA ThreadsStep == TypeOK /\ ThreadsConsistent /\ [Next]_vars => ThreadsConsistent'
  <1> DEFINE Agree(st, cl, aw, be) ==
        /\ st \in {"working"} \cup Posting => cl \in Claims
        /\ aw => st \in Posting
        /\ be # "off" => st \in {"working", "complete"}
  <1> SUFFICES ASSUME TypeOK, ThreadsConsistent, [Next]_vars, NEW v \in Workers
               PROVE  Agree(stage'[v], claim'[v], awaiting'[v], beat'[v])
    BY DEF ThreadsConsistent
  <1> DEFINE Goal == Agree(stage'[v], claim'[v], awaiting'[v], beat'[v])
  <1>0. /\ stage \in [Workers -> Stages]
        /\ claim \in [Workers -> Claims \cup {NoClaim}]
        /\ awaiting \in [Workers -> BOOLEAN]
        /\ beat \in [Workers -> {"off", "waiting", "posting"}]
        /\ Agree(stage[v], claim[v], awaiting[v], beat[v])
    BY DEF TypeOK, ThreadsConsistent
  <1>p. /\ "polling" \notin {"working"} \cup Posting
        /\ "down" \notin {"working"} \cup Posting
        /\ "claiming" \notin {"working"} \cup Posting
        /\ "working" \notin Posting /\ "complete" \in Posting
    BY DEF Posting
  <1> USE DEF mainThread, heartbeat
  <1>a. UNCHANGED <<mainThread, heartbeat>> => Goal
    BY <1>0
  <1>b. ASSUME NEW w \in Workers, LetGo(w, "polling") \/ LetGo(w, "down") PROVE Goal
    BY <1>0, <1>b, <1>p DEF LetGo
  <1>c. ASSUME NEW w \in Workers, NEW kind \in Posting, StartPost(w, kind),
               stage[w] \in {"working"} \cup Posting,
               kind = "complete" => stage[w] = "working"
        PROVE  Goal
    <2>1. claim[w] \in Claims
      BY <1>c DEF ThreadsConsistent
    <2>2. CASE w = v /\ kind = "complete"
      BY <1>0, <1>c, <2>1, <2>2 DEF StartPost
    <2>3. CASE w = v /\ kind # "complete"
      BY <1>0, <1>c, <2>1, <2>3 DEF StartPost
    <2>4. CASE w # v
      BY <1>0, <1>c, <2>4 DEF StartPost
    <2>5. QED
      BY <2>2, <2>3, <2>4
  <1>1. ASSUME NEW w \in Workers, SendClaim(w) \/ ClaimTimesOut(w) PROVE Goal
    <2>1. stage[w] \notin {"working"} \cup Posting /\ stage'[w] \notin {"working"} \cup Posting
      BY <1>0, <1>1, <1>p DEF SendClaim, ClaimTimesOut
    <2>2. ~awaiting[w] /\ beat[w] = "off"
      BY <2>1, <1>p DEF ThreadsConsistent
    <2>3. CASE w = v
      BY <1>0, <1>1, <2>1, <2>2, <2>3 DEF SendClaim, ClaimTimesOut
    <2>4. CASE w # v
      BY <1>0, <1>1, <2>4 DEF SendClaim, ClaimTimesOut
    <2>5. QED
      BY <2>3, <2>4
  <1>2. ASSUME NEW w \in Workers, Finish(w) \/ NoticeLoss(w) \/ Stop(w) \/ Crash(w) \/ Start(w)
        PROVE Goal
    <2>1. CASE LetGo(w, "polling") \/ LetGo(w, "down")
      BY <1>b, <2>1
    <2>2. CASE stage[w] = "working" /\ StartPost(w, "complete")
      BY <1>c, <1>p, <2>2
    <2>3. QED
      BY <1>2, <2>1, <2>2 DEF Finish, NoticeLoss, Stop, Crash, Start
  <1>3. ASSUME NEW w \in Workers, NEW kind \in {"retry", "reject"}, WorkFails(w, kind)
        PROVE Goal
    BY <1>3, <1>c DEF WorkFails, Posting
  <1>4. ASSUME NEW w \in Workers, SendReport(w) PROVE Goal
    BY <1>0, <1>4 DEF SendReport
  <1>5. ASSUME NEW w \in Workers, ReportTimesOut(w) PROVE Goal
    <2>1. CASE tries[w] > 0
      BY <1>0, <1>5, <2>1 DEF ReportTimesOut
    <2>2. CASE ~(tries[w] > 0)
      BY <1>5, <2>2, <1>b DEF ReportTimesOut, GiveUp
    <2>3. QED
      BY <2>1, <2>2
  <1>6. ASSUME NEW w \in Workers, HeartbeatStep(w) PROVE Goal
    BY <1>0, <1>6 DEF HeartbeatStep, SendHeartbeat, HeartbeatTimesOut
  <1>7. ASSUME NEW w \in Workers, HandleClaim(w) PROVE Goal
    <2>1. CASE UNCHANGED <<mainThread, heartbeat>>
      BY <1>a, <2>1
    <2>2. ASSUME stage[w] = "claiming" PROVE ~awaiting[w] /\ beat[w] = "off"
      BY <2>2, <1>p DEF ThreadsConsistent
    <2>3. CASE /\ stage[w] = "claiming" /\ stage' = [stage EXCEPT ![w] = "polling"]
               /\ UNCHANGED <<claim, tries, awaiting, heartbeat>>
      BY <1>0, <1>p, <2>2, <2>3
    <2>4. ASSUME NEW j \in Jobs, stage[w] = "claiming", StartWork(w, j, issued[j] + 1) PROVE Goal
      <3>1. [job |-> j, attempt |-> issued[j] + 1] \in Claims
        BY DEF Claims, TypeOK
      <3>2. QED
        BY <1>0, <2>2, <2>4, <3>1 DEF StartWork
    <2>5. \/ UNCHANGED <<mainThread, heartbeat>>
          \/ /\ stage[w] = "claiming" /\ stage' = [stage EXCEPT ![w] = "polling"]
             /\ UNCHANGED <<claim, tries, awaiting, heartbeat>>
          \/ stage[w] = "claiming" /\ \E j \in Jobs : StartWork(w, j, issued[j] + 1)
      BY <1>7 DEF HandleClaim
    <2>6. QED
      BY <2>1, <2>3, <2>4, <2>5
  <1>8. ASSUME NEW r \in mail, HandleReport(r) PROVE Goal
    <2>1. PICK answer : \/ Unheard
                        \/ \E w \in Workers : HearReport(w, r, answer)
                        \/ \E w \in Workers : HearHeartbeat(w, r, answer)
      BY <1>8 DEF HandleReport
    <2>2. CASE Unheard
      BY <1>a, <2>2 DEF Unheard
    <2>3. ASSUME NEW w \in Workers, HearReport(w, r, answer) PROVE Goal
      <3>1. stage[w] \in Posting
        BY <2>3 DEF HearReport, ThreadsConsistent
      <3>2. LetGo(w, "polling") \/ StartPost(w, "reject")
        BY <2>3 DEF HearReport
      <3>3. QED
        BY <3>1, <3>2, <1>b, <1>c DEF Posting
    <2>4. ASSUME NEW w \in Workers, HearHeartbeat(w, r, answer) PROVE Goal
      BY <1>0, <2>4 DEF HearHeartbeat
    <2>5. QED
      BY <2>1, <2>2, <2>3, <2>4
  <1>9. ASSUME NEW r \in mail, LoseMail(r) PROVE Goal
    BY <1>a, <1>9 DEF LoseMail
  <1>10. ASSUME NEW j \in Jobs, LeaseLapses(j) \/ RetryElapses(j) PROVE Goal
    BY <1>a, <1>10 DEF LeaseLapses, RetryElapses
  <1>11. CASE UNCHANGED vars
    BY <1>a, <1>11 DEF vars
  <1>12. QED
    BY <1>1, <1>2, <1>3, <1>4, <1>5, <1>6, <1>7, <1>8, <1>9, <1>10, <1>11 DEF Next, MainStep

\* A rejection is sent only after the claim was put among the refused ones.
LEMMA RejectionsStep ==
  TypeOK /\ ThreadsConsistent /\ RejectionsRefused /\ [Next]_vars
    => RejectionsRefused' /\ refused \subseteq refused'
  <1> SUFFICES ASSUME TypeOK, ThreadsConsistent, RejectionsRefused, [Next]_vars
               PROVE  RejectionsRefused' /\ refused \subseteq refused'
    OBVIOUS
  <1> DEFINE Goal == RejectionsRefused' /\ refused \subseteq refused'
  <1>0. /\ stage \in [Workers -> Stages]
        /\ claim \in [Workers -> Claims \cup {NoClaim}]
        /\ \A w \in Workers : stage[w] = "reject" => claim[w] \in refused
        /\ \A r \in mail : r.kind = "reject" => [job |-> r.job, attempt |-> r.attempt] \in refused
    BY DEF TypeOK, RejectionsRefused
  <1> USE DEF mainThread, heartbeat, history
  \* Steps that send no rejection and start none.
  <1>a. ASSUME refused \subseteq refused',
               \A w \in Workers : stage'[w] = "reject" =>
                 claim'[w] \in refused' \/ (stage[w] = "reject" /\ claim'[w] = claim[w]),
               \A r \in mail' : r.kind = "reject" =>
                 r \in mail \/ [job |-> r.job, attempt |-> r.attempt] \in refused'
        PROVE  Goal
    BY <1>0, <1>a DEF RejectionsRefused
  <1>b. ASSUME NEW w \in Workers, LetGo(w, "polling") \/ LetGo(w, "down")
        PROVE  \A v \in Workers : stage'[v] = "reject" =>
                 stage[v] = "reject" /\ claim'[v] = claim[v]
    BY <1>0, <1>b DEF LetGo
  <1>c. ASSUME NEW w \in Workers, NEW kind \in Posting, StartPost(w, kind),
               kind = "reject" => claim[w] \in refused'
        PROVE  \A v \in Workers : stage'[v] = "reject" =>
                 claim'[v] \in refused' \/ (stage[v] = "reject" /\ claim'[v] = claim[v])
    BY <1>0, <1>c DEF StartPost
  <1>1. ASSUME NEW w \in Workers, SendClaim(w) \/ ClaimTimesOut(w) PROVE Goal
    <2>1. \A r \in mail' : r.kind = "reject" => r \in mail
      BY <1>1 DEF SendClaim, ClaimTimesOut, ClaimRequest
    <2>2. \A v \in Workers : stage'[v] = "reject" => stage[v] = "reject" /\ claim'[v] = claim[v]
      BY <1>0, <1>1 DEF SendClaim, ClaimTimesOut
    <2>3. refused' = refused
      BY <1>1 DEF SendClaim, ClaimTimesOut
    <2>4. QED
      BY <1>a, <2>1, <2>2, <2>3
  <1>2. ASSUME NEW w \in Workers, \/ Finish(w) \/ NoticeLoss(w) \/ ReportTimesOut(w)
                                  \/ Stop(w) \/ Crash(w) \/ Start(w)
        PROVE Goal
    <2>1. refused' = refused /\ mail' = mail
      BY <1>2 DEF Finish, NoticeLoss, ReportTimesOut, Stop, Crash, Start
    <2>2. \/ LetGo(w, "polling") \/ LetGo(w, "down") \/ StartPost(w, "complete")
          \/ UNCHANGED <<stage, claim>>
      BY <1>2 DEF Finish, NoticeLoss, ReportTimesOut, GiveUp, Stop, Crash, Start
    <2>3. \A v \in Workers : stage'[v] = "reject" =>
            claim'[v] \in refused' \/ (stage[v] = "reject" /\ claim'[v] = claim[v])
      BY <1>b, <1>c, <2>2 DEF Posting
    <2>4. QED
      BY <1>a, <2>1, <2>3
  <1>3. ASSUME NEW w \in Workers, NEW kind \in {"retry", "reject"}, WorkFails(w, kind)
        PROVE Goal
    <2>1. /\ mail' = mail /\ refused \subseteq refused' /\ StartPost(w, kind)
          /\ kind = "reject" => claim[w] \in refused'
      BY <1>3 DEF WorkFails
    <2>2. \A v \in Workers : stage'[v] = "reject" =>
            claim'[v] \in refused' \/ (stage[v] = "reject" /\ claim'[v] = claim[v])
      BY <1>c, <2>1 DEF Posting
    <2>3. QED
      BY <1>a, <2>1, <2>2
  <1>4. ASSUME NEW w \in Workers, SendReport(w) PROVE Goal
    <2>1. refused' = refused /\ stage' = stage /\ claim' = claim
      BY <1>4 DEF SendReport
    <2>2. \A r \in mail' : r \in mail \/ r = ReportOf(w, stage[w], tries[w])
      BY <1>4 DEF SendReport
    <2>3. stage[w] = "reject" => [job |-> claim[w].job, attempt |-> claim[w].attempt] \in refused
      <3>1. CASE stage[w] = "reject"
        <4>1. claim[w] \in Claims /\ claim[w] \in refused
          BY <1>0, <3>1 DEF TypeOK
        <4>2. claim[w] = [job |-> claim[w].job, attempt |-> claim[w].attempt]
          BY <4>1 DEF Claims
        <4>3. QED
          BY <4>1, <4>2
      <3>2. QED
        BY <3>1
    <2>4. \A r \in mail' : r.kind = "reject" =>
            r \in mail \/ [job |-> r.job, attempt |-> r.attempt] \in refused'
      BY <2>1, <2>2, <2>3 DEF ReportOf
    <2>5. QED
      BY <1>a, <2>1, <2>4
  <1>5. ASSUME NEW w \in Workers, HeartbeatStep(w) PROVE Goal
    <2>1. refused' = refused /\ stage' = stage /\ claim' = claim
      BY <1>5 DEF HeartbeatStep, SendHeartbeat, HeartbeatTimesOut
    <2>2. \A r \in mail' : r.kind = "reject" => r \in mail
      BY <1>5 DEF HeartbeatStep, SendHeartbeat, HeartbeatTimesOut, HeartbeatOf, ReportOf
    <2>3. QED
      BY <1>a, <2>1, <2>2
  <1>6. ASSUME NEW w \in Workers, HandleClaim(w) PROVE Goal
    <2>1. refused' = refused /\ mail' \subseteq mail
      BY <1>6 DEF HandleClaim
    <2>2. \A v \in Workers : stage'[v] = "reject" => stage[v] = "reject" /\ claim'[v] = claim[v]
      <3>1. \/ UNCHANGED <<stage, claim>>
            \/ /\ stage' = [stage EXCEPT ![w] = "polling"]
               /\ claim' = claim
            \/ /\ stage' = [stage EXCEPT ![w] = "working"]
               /\ \E c : claim' = [claim EXCEPT ![w] = c]
        BY <1>6 DEF HandleClaim, StartWork
      <3>2. QED
        BY <1>0, <3>1
    <2>3. QED
      BY <1>a, <2>1, <2>2
  <1>7. ASSUME NEW r \in mail, HandleReport(r) PROVE Goal
    <2>1. mail' \subseteq mail
      BY <1>7 DEF HandleReport
    <2>2. PICK answer : \/ Unheard
                        \/ \E w \in Workers : HearReport(w, r, answer)
                        \/ \E w \in Workers : HearHeartbeat(w, r, answer)
      BY <1>7 DEF HandleReport
    <2>3. CASE \/ Unheard
               \/ \E w \in Workers : HearHeartbeat(w, r, answer)
      <3>1. refused' = refused /\ stage' = stage /\ claim' = claim
        BY <2>3 DEF Unheard, HearHeartbeat
      <3>2. QED
        BY <1>a, <2>1, <3>1
    <2>4. ASSUME NEW w \in Workers, HearReport(w, r, answer) PROVE Goal
      <3>1. refused \subseteq refused'
        BY <2>4 DEF HearReport
      <3>2. LetGo(w, "polling") \/ (StartPost(w, "reject") /\ claim[w] \in refused')
        BY <2>4 DEF HearReport
      <3>3. \A v \in Workers : stage'[v] = "reject" =>
              claim'[v] \in refused' \/ (stage[v] = "reject" /\ claim'[v] = claim[v])
        BY <1>b, <1>c, <3>2 DEF Posting
      <3>4. QED
        BY <1>a, <2>1, <3>1, <3>3
    <2>5. QED
      BY <2>2, <2>3, <2>4
  <1>8. ASSUME \/ \E r \in mail : LoseMail(r)
               \/ \E j \in Jobs : LeaseLapses(j) \/ RetryElapses(j)
               \/ UNCHANGED vars
        PROVE Goal
    <2>1. refused' = refused /\ stage' = stage /\ claim' = claim /\ mail' \subseteq mail
      BY <1>8 DEF LoseMail, LeaseLapses, RetryElapses, vars
    <2>2. QED
      BY <1>a, <2>1
  <1>9. QED
    BY <1>1, <1>2, <1>3, <1>4, <1>5, <1>6, <1>7, <1>8 DEF Next, MainStep

\* A worker hears "completed" only in the step that records its attempt, or
\* after it, and what is recorded stays.
LEMMA AckedStep ==
  TypeOK /\ RowsConsistent /\ ThreadsConsistent /\ AckedIsRecorded /\ [Next]_vars
    => AckedIsRecorded'
  <1> DEFINE Recorded(c) == /\ job'[c.job].status = "completed"
                            /\ job'[c.job].attempt_id = c.attempt
  <1> SUFFICES ASSUME TypeOK, RowsConsistent, ThreadsConsistent, AckedIsRecorded, [Next]_vars,
                      NEW c \in acked'
               PROVE  Recorded(c)
    BY DEF AckedIsRecorded
  <1>0. job \in [Jobs -> JobRow] /\ acked \in SUBSET Claims
    BY DEF TypeOK
  <1>1. CASE c \in acked
    <2>1. /\ c.job \in Jobs
          /\ job[c.job].status = "completed" /\ job[c.job].attempt_id = c.attempt
      BY <1>0, <1>1 DEF AckedIsRecorded, Claims
    <2>2. job'[c.job] = job[c.job]
      BY <2>1, SettledRowsFrozen DEF IsTerminal, TerminalStatuses
    <2>3. QED
      BY <2>1, <2>2
  <1>2. CASE c \notin acked
    <2>1. PICK r \in mail : HandleReport(r)
      <3>1. ASSUME NEW w \in Workers, \/ MainStep(w) \/ HeartbeatStep(w) \/ HandleClaim(w)
                                      \/ Stop(w) \/ Crash(w) \/ Start(w)
            PROVE  acked' = acked
        BY <3>1 DEF MainStep, SendClaim, ClaimTimesOut, Finish, NoticeLoss, WorkFails, SendReport,
                    ReportTimesOut, HeartbeatStep, SendHeartbeat, HeartbeatTimesOut, HandleClaim,
                    Stop, Crash, Start, history
      <3>2. ASSUME \/ \E r \in mail : LoseMail(r)
                   \/ \E j \in Jobs : LeaseLapses(j) \/ RetryElapses(j)
                   \/ UNCHANGED vars
            PROVE  acked' = acked
        BY <3>2 DEF LoseMail, LeaseLapses, RetryElapses, vars, history
      <3>3. QED
        BY <1>2, <3>1, <3>2 DEF Next
    <2>2. PICK valid \in BOOLEAN :
            LET answer == IF valid THEN Answer(job[r.job], r) ELSE "invalid"
            IN  /\ job' = IF valid THEN [job EXCEPT ![r.job] = Effect(job[r.job], r)] ELSE job
                /\ \/ Unheard
                   \/ \E w \in Workers : HearReport(w, r, answer)
                   \/ \E w \in Workers : HearHeartbeat(w, r, answer)
      BY <2>1 DEF HandleReport
    <2> DEFINE answer == IF valid THEN Answer(job[r.job], r) ELSE "invalid"
    <2>3. PICK w \in Workers : HearReport(w, r, answer)
      BY <1>2, <2>2 DEF Unheard, HearHeartbeat, history
    <2>4. answer = "ok" /\ r.kind = "complete" /\ c = claim[w]
      BY <1>2, <2>3 DEF HearReport
    <2>5. claim[w] \in Claims /\ c.job = r.job /\ c.attempt = r.attempt
      <3>1. claim[w] \in Claims
        BY <2>3 DEF HearReport, ThreadsConsistent
      <3>2. QED
        BY <2>3, <2>4, <3>1 DEF HearReport, ReportOf
    <2>6. /\ r \in Reports /\ r.job \in Jobs /\ job[r.job] \in JobRow
          /\ job'[r.job] = Effect(job[r.job], r) /\ Answer(job[r.job], r) = "ok"
      <3>1. r \in Reports /\ r.job \in Jobs
        BY <2>1 DEF HandleReport, Reports
      <3>2. valid
        BY <2>4
      <3>3. QED
        BY <1>0, <2>2, <2>4, <3>1, <3>2
    <2>7. CASE Owns(job[r.job], r.attempt)
      <3>1. job'[r.job] = Completed(job[r.job])
        BY <2>4, <2>6, <2>7, EffectCases
      <3>2. job[r.job].attempt_id = r.attempt
        BY <2>7 DEF Owns, AttemptMatches
      <3>3. /\ Completed(job[r.job]).status = "completed"
            /\ Completed(job[r.job]).attempt_id = job[r.job].attempt_id
        BY <2>6, RowStatus, RowAttempt
      <3>4. QED
        BY <2>5, <3>1, <3>2, <3>3
    <2>8. CASE ~Owns(job[r.job], r.attempt)
      <3>1. job'[r.job] = job[r.job]
        BY <2>6, <2>8 DEF Effect
      <3>2. job[r.job].status = "completed" /\ job[r.job].attempt_id = r.attempt
        BY <2>4, <2>6, <2>8 DEF Answer, AttemptMatches
      <3>3. QED
        BY <2>5, <3>1, <3>2
    <2>9. QED
      BY <2>7, <2>8
  <1>3. QED
    BY <1>1, <1>2

\* A row becomes "failed" only by a rejection, whose claim was refused.
LEMMA FailedStep ==
  TypeOK /\ RowsConsistent /\ ThreadsConsistent /\ RejectionsRefused /\ FailedWasRefused
    /\ [Next]_vars => FailedWasRefused'
  <1> SUFFICES ASSUME TypeOK, RowsConsistent, ThreadsConsistent, RejectionsRefused,
                      FailedWasRefused, [Next]_vars,
                      NEW j \in Jobs, job'[j].status = "failed"
               PROVE  [job |-> j, attempt |-> job'[j].attempt_id] \in refused'
    BY DEF FailedWasRefused
  <1>0. job[j] \in JobRow /\ refused \subseteq refused'
    BY RejectionsStep DEF TypeOK
  <1>1. CASE job[j].status = "failed"
    <2>1. job'[j] = job[j]
      BY <1>1, SettledRowsFrozen DEF IsTerminal, TerminalStatuses
    <2>2. QED
      BY <1>0, <1>1, <2>1 DEF FailedWasRefused
  <1>2. CASE job[j].status # "failed"
    <2>1. /\ \A a : Claimed(job[j], a).status # "failed"
          /\ DeadLettered(job[j]).status # "failed"
          /\ LeaseLapsed(job[j]).status # "failed"
          /\ RetryElapsed(job[j]).status # "failed"
          /\ Heartbeaten(job[j]).status # "failed"
          /\ Completed(job[j]).status # "failed"
          /\ AfterFailure(job[j], TRUE).status # "failed"
      <3>1. /\ \A a : Claimed(job[j], a).status = "processing"
            /\ DeadLettered(job[j]).status = "dead_lettered"
            /\ LeaseLapsed(job[j]).status = job[j].status
            /\ RetryElapsed(job[j]).status = job[j].status
            /\ Heartbeaten(job[j]).status = job[j].status
            /\ Completed(job[j]).status = "completed"
            /\ AfterFailure(job[j], TRUE).status \in {"queued", "dead_lettered"}
        BY <1>0, RowStatus
      <3>2. QED
        BY <1>2, <3>1
    <2>2. PICK r \in mail : Reported(j, r)
      BY <1>2, <2>1, RowTransitions DEF RowKept, HandedOut, GivenUp, Aged
    <2>3. /\ r \in Reports /\ r.job = j /\ Owns(job[j], r.attempt)
          /\ job'[j] = Effect(job[j], r) /\ job[j].attempt_id = r.attempt
      BY <2>2 DEF Reported, Owns, AttemptMatches
    <2>4. r.kind = "reject" /\ job'[j] = AfterFailure(job[j], FALSE)
      BY <2>1, <2>3, EffectCases
    <2>5. job'[j].attempt_id = r.attempt
      <3>1. AfterFailure(job[j], FALSE).attempt_id = job[j].attempt_id
        BY <1>0, RowAttempt
      <3>2. QED
        BY <2>3, <2>4, <3>1
    <2>6. [job |-> j, attempt |-> r.attempt] \in refused
      BY <2>3, <2>4 DEF RejectionsRefused
    <2>7. QED
      BY <1>0, <2>5, <2>6
  <1>3. QED
    BY <1>1, <1>2

LEMMA InitIInv == Init => IInv
  <1> SUFFICES ASSUME Init PROVE IInv
    OBVIOUS
  <1>1. TypeOK
    BY InitTypeOK
  <1>2. RowsConsistent
    BY NewRow DEF Init, RowsConsistent
  <1>3. ThreadsConsistent
    BY DEF Init, ThreadsConsistent, Posting
  <1>4. RejectionsRefused /\ AckedIsRecorded /\ FailedWasRefused
    BY DEF Init, RejectionsRefused, AckedIsRecorded, FailedWasRefused, NewJob
  <1>5. QED
    BY <1>1, <1>2, <1>3, <1>4 DEF IInv

\* The inductive invariant holds in every reachable state.
THEOREM Invariance == Spec => []IInv
  <1>1. IInv /\ [Next]_vars => IInv'
    BY NextTypeOK, RowsConsistentStep, ThreadsStep, RejectionsStep, AckedStep, FailedStep
    DEF IInv
  <1>2. QED
    BY <1>1, InitIInv, PTL DEF Spec

-----------------------------------------------------------------------------
(***************************************************************************)
(* What follows from it.                                                   *)
(***************************************************************************)

\* Type correctness: a process names a job it holds in every report.
THEOREM TypeCorrect == Spec => []TypeOK
  BY Invariance, PTL DEF IInv

\* What a worker is told about its completion is true, and stays true, for any
\* number of workers, sends and late requests (_verify_active_attempt, and
\* BackendClient.post, which repeats a completion whose answer was lost).
THEOREM AcksAreTrue == Spec => []AckedIsRecorded
  BY Invariance, PTL DEF IInv

\* A job fails for good only if some worker found its input invalid in the
\* attempt on record (handle_claimed_job, _report_failure, _fail_job).
THEOREM FailuresAreJustified == Spec => []FailedWasRefused
  BY Invariance, PTL DEF IInv
=============================================================================
