------------------------------ MODULE PhotoJobs ------------------------------
(***************************************************************************)
(* The photo queue of the worker control plane: every photo has one OCR    *)
(* job and one face-scan job, workers claim them under expiring leases and *)
(* report back over HTTP, and the status of the photo is derived from the  *)
(* two jobs by whichever transaction settles one of them.                  *)
(*                                                                         *)
(* The workers are not modelled here: any report of any attempt that was   *)
(* ever handed out may arrive at any time, any number of times or never.   *)
(* That covers lost, delayed, duplicated (the client retries its posts)    *)
(* and reordered reports and workers that crash or run on after their      *)
(* lease lapsed.                                                           *)
(*                                                                         *)
(* A handler that writes only its own job row under SELECT ... FOR UPDATE  *)
(* is one step.  Completing a photo job is three, because it reads the     *)
(* sibling's row without locking it: flush the own row, read, commit.      *)
(* Other transactions see the committed rows only (READ COMMITTED), and a  *)
(* job row with a completion in flight is locked: claims skip it, other    *)
(* reports for it wait.                                                    *)
(***************************************************************************)
EXTENDS JobRecord, FiniteSets

CONSTANTS
  Photos,       \* photos whose ingest has committed
  CreatedAt,    \* [Photos -> Nat], created_at of the photo's two jobs
  ReapLimit     \* exhausted jobs dead-lettered by one claim (50 in the code)

ASSUME PhotoJobsAssumption ==
  /\ CreatedAt \in [Photos -> Nat]
  /\ ReapLimit \in Nat \ {0}

JobTypes == {"ocr", "face_photo_scan"}
Jobs == Photos \X JobTypes
PhotoOf(j) == j[1]
JobsOf(p) == {p} \X JobTypes

PhotoStatus == {"processing", "ready", "partially_ready", "failed"}

VARIABLES
  job,          \* [Jobs -> JobRow], the committed rows of photo_jobs
  photo,        \* [Photos -> PhotoStatus], photos.status
  completion,   \* [Jobs -> ...], progress of the transaction completing a job
  reporter,     \* [Jobs -> Nat], the attempt whose results that transaction stores
  issued,       \* [Jobs -> Nat], history: attempts handed out
  written       \* [Jobs -> SUBSET Nat], history: attempts whose detections and
                \* participant matches were committed

vars == <<job, photo, completion, reporter, issued, written>>

\* A completion in flight has flushed its row ("flushed") or has also read
\* the statuses of the photo's jobs and holds the photo status to write.
CompletionStage == {"none", "flushed"} \cup PhotoStatus

TypeOK ==
  /\ job \in [Jobs -> JobRow]
  /\ photo \in [Photos -> PhotoStatus]
  /\ completion \in [Jobs -> CompletionStage]
  /\ reporter \in [Jobs -> Nat]
  /\ issued \in [Jobs -> Nat]
  /\ written \in [Jobs -> SUBSET Nat]

(***************************************************************************)
(* Ingest commits the photo as "processing" with both jobs queued.         *)
(***************************************************************************)
Init ==
  /\ job = [j \in Jobs |-> NewJob]
  /\ photo = [p \in Photos |-> "processing"]
  /\ completion = [j \in Jobs |-> "none"]
  /\ reporter = [j \in Jobs |-> NoAttempt]
  /\ issued = [j \in Jobs |-> 0]
  /\ written = [j \in Jobs |-> {}]

-----------------------------------------------------------------------------
\* Mutants: a status of another table, which the CHECK of photos rejects, and
\* a verdict as soon as one job is settled.
SettledAsSession(seen) == IF "completed" \in seen THEN "completed" ELSE "failed"
MarkReadyOnFirst(seen) == IF "completed" \in seen THEN "ready" ELSE "processing"

(***************************************************************************)
(* The status of the photo as a function of the statuses a transaction     *)
(* reads for its jobs.                                                     *)
(***************************************************************************)
Settled(seen) ==
  IF seen = {"completed"} THEN "ready"
  ELSE IF "completed" \in seen THEN "partially_ready"
  ELSE "failed"

\* mark_photo_ready_if_jobs_done
MarkPhotoReady(seen) ==
  IF seen \subseteq TerminalStatuses THEN Settled(seen) ELSE "processing"

\* What a SELECT of the statuses of p's jobs returns to a transaction that has
\* flushed the rows in `flushed` as completed.
StatusesRead(p, flushed) ==
  {IF j \in flushed THEN "completed" ELSE job[j].status : j \in JobsOf(p)}

\* _sync_terminal_parent_state.  Its callers have assigned the new status of
\* their job but not flushed it, and SessionLocal has autoflush off, so the
\* SELECT sees the row as it was before.
SyncedPhoto(p) ==
  LET seen == StatusesRead(p, {}) IN
  IF seen \subseteq TerminalStatuses THEN Settled(seen) ELSE photo[p]

-----------------------------------------------------------------------------
(***************************************************************************)
(* POST /internal/worker/photo-jobs/claim                                  *)
(***************************************************************************)
Unlocked(j) == completion[j] = "none"

Older(j, k) == CreatedAt[PhotoOf(j)] <= CreatedAt[PhotoOf(k)]

\* ORDER BY created_at LIMIT n: the n oldest of S, ties broken either way.
IsOldest(batch, S, n) ==
  /\ batch \subseteq S
  /\ \A j \in batch, k \in S \ batch : Older(j, k)
  /\ Cardinality(batch) = (IF Cardinality(S) <= n THEN Cardinality(S) ELSE n)

Visible(types) == {j \in Jobs : Unlocked(j) /\ j[2] \in types}

\* _reap_exhausted_jobs dead-letters a batch, then _claim_job takes the oldest
\* claimable job, if there is one, and commits both.
Claim(types) ==
  LET exhausted == {j \in Visible(types) : Exhausted(job[j])}
      claimable == {j \in Visible(types) : Claimable(job[j])}
  IN  \E reaped \in SUBSET exhausted, taken \in SUBSET claimable :
        /\ IsOldest(reaped, exhausted, ReapLimit)
        /\ IsOldest(taken, claimable, 1)
        /\ job' = [j \in Jobs |->
             IF j \in reaped THEN DeadLettered(job[j])
             ELSE IF j \in taken THEN Claimed(job[j], issued[j] + 1)
             ELSE job[j]]
        /\ issued' = [j \in Jobs |-> IF j \in taken THEN issued[j] + 1 ELSE issued[j]]
        /\ photo' = [p \in Photos |->
             IF JobsOf(p) \cap taken # {} THEN "processing"
             ELSE IF JobsOf(p) \cap reaped # {} THEN SyncedPhoto(p)
             ELSE photo[p]]
        /\ UNCHANGED <<completion, reporter, written>>

-----------------------------------------------------------------------------
(***************************************************************************)
(* Reports of an attempt.  A report that does not own the job is answered  *)
(* (409, or the recorded outcome) without any write.                       *)
(***************************************************************************)
Heartbeat(j, attempt) ==
  /\ Unlocked(j)
  /\ Owns(job[j], attempt)
  /\ job' = [job EXCEPT ![j] = Heartbeaten(@)]
  /\ UNCHANGED <<photo, completion, reporter, issued, written>>

Fail(j, attempt, retryable) ==
  /\ Unlocked(j)
  /\ Owns(job[j], attempt)
  /\ job' = [job EXCEPT ![j] = AfterFailure(@, retryable)]
  /\ photo' = IF IsTerminal(job'[j])
              THEN [photo EXCEPT ![PhotoOf(j)] = SyncedPhoto(PhotoOf(j))]
              ELSE photo
  /\ UNCHANGED <<completion, reporter, issued, written>>

\* Lock and verify the row, store the detections, flush the status.
CompleteFlush(j, attempt) ==
  /\ Unlocked(j)
  /\ Owns(job[j], attempt)
  /\ completion' = [completion EXCEPT ![j] = "flushed"]
  /\ reporter' = [reporter EXCEPT ![j] = attempt]
  /\ UNCHANGED <<job, photo, issued, written>>

\* Read the statuses of the photo's jobs: the own row as flushed, the sibling
\* as committed.
CompleteRead(j) ==
  /\ completion[j] = "flushed"
  /\ completion' = [completion EXCEPT ![j] =
       MarkPhotoReady(StatusesRead(PhotoOf(j), {j}))]
  /\ UNCHANGED <<job, photo, reporter, issued, written>>

CompleteCommit(j) ==
  /\ completion[j] \in PhotoStatus
  /\ job' = [job EXCEPT ![j] = Completed(@)]
  /\ photo' = [photo EXCEPT ![PhotoOf(j)] = completion[j]]
  /\ written' = [written EXCEPT ![j] = @ \cup {reporter[j]}]
  /\ completion' = [completion EXCEPT ![j] = "none"]
  /\ reporter' = [reporter EXCEPT ![j] = NoAttempt]
  /\ UNCHANGED issued

\* The API process or its connection dies, or a statement raises.
CompleteRollback(j) ==
  /\ completion[j] # "none"
  /\ completion' = [completion EXCEPT ![j] = "none"]
  /\ reporter' = [reporter EXCEPT ![j] = NoAttempt]
  /\ UNCHANGED <<job, photo, issued, written>>

-----------------------------------------------------------------------------
(***************************************************************************)
(* Time.                                                                   *)
(***************************************************************************)
LeaseLapses(j) ==
  /\ job[j].lease_expires_at = "live"
  /\ job' = [job EXCEPT ![j] = LeaseLapsed(@)]
  /\ UNCHANGED <<photo, completion, reporter, issued, written>>

RetryElapses(j) ==
  /\ job[j].retry_after = "waiting"
  /\ job' = [job EXCEPT ![j] = RetryElapsed(@)]
  /\ UNCHANGED <<photo, completion, reporter, issued, written>>

-----------------------------------------------------------------------------
\* An attempt id is known to its worker only.
Report(j, attempt) ==
  \/ Heartbeat(j, attempt)
  \/ \E retryable \in BOOLEAN : Fail(j, attempt, retryable)
  \/ CompleteFlush(j, attempt)

Transaction(j) == CompleteRead(j) \/ CompleteCommit(j) \/ CompleteRollback(j)

Next ==
  \/ \E types \in SUBSET JobTypes : types # {} /\ Claim(types)
  \/ \E j \in Jobs : \E attempt \in 1..issued[j] : Report(j, attempt)
  \/ \E j \in Jobs : Transaction(j) \/ LeaseLapses(j) \/ RetryElapses(j)

Spec == Init /\ [][Next]_vars

(***************************************************************************)
(* Some worker that runs both job types keeps polling, every database      *)
(* transaction ends, and time passes.  A worker may crash, hang or go      *)
(* silent: nothing obliges it to report.  Weak fairness of LeaseLapses     *)
(* says that no attempt is renewed forever, which the client's download,   *)
(* OCR and HTTP timeouts bound.                                            *)
(***************************************************************************)
Fairness ==
  /\ WF_vars(Claim(JobTypes))
  /\ \A j \in Jobs : /\ WF_vars(Transaction(j))
                     /\ WF_vars(LeaseLapses(j))
                     /\ WF_vars(RetryElapses(j))

FairSpec == Spec /\ Fairness

-----------------------------------------------------------------------------
(***************************************************************************)
(* Properties.                                                             *)
(***************************************************************************)

\* The status shown for a photo is never premature or wrong: once it has left
\* "processing", every job of the photo is settled and the status sums up
\* their final outcomes.  The transaction that wrote it read the sibling's row
\* without a lock, one step before committing.
PhotoStatusSound ==
  \A p \in Photos : photo[p] # "processing" =>
    /\ \A j \in JobsOf(p) : IsTerminal(job[j])
    /\ photo[p] = Settled(StatusesRead(p, {}))

\* Detections and matches are committed exactly for the completed jobs, by one
\* attempt only, the one handed out last: duplicated completions, completions
\* by superseded attempts and completions after a failure report add nothing.
ResultsFromLastAttempt ==
  \A j \in Jobs :
    written[j] = IF job[j].status = "completed" THEN {issued[j]} ELSE {}

\* A job is handed out at most max_attempts times, whatever the workers do,
\* and it is dead-lettered only after all of its attempts were handed out.
AttemptsBounded ==
  \A j \in Jobs :
    /\ issued[j] <= MaxAttempts
    /\ job[j].status = "dead_lettered" => issued[j] = MaxAttempts

\* While an attempt holds a live lease, or while its completion is being
\* committed (even if the lease lapses meanwhile), no other attempt takes the
\* job over and it is not dead-lettered behind the attempt's back.
AttemptNotPreempted ==
  [][\A j \in Jobs :
       /\ job[j].lease_expires_at = "live" => job'[j].attempt_id = job[j].attempt_id
       /\ completion[j] # "none" =>
            /\ job'[j].attempt_id = job[j].attempt_id
            /\ job'[j].status \in {"processing", "completed"}]_vars

\* Outcomes are final: a settled job is never handed out, failed or completed
\* again, and a photo status other than "processing" never changes.
OutcomesFinal ==
  [][/\ \A j \in Jobs : IsTerminal(job[j]) => job'[j] = job[j]
     /\ \A p \in Photos : photo[p] # "processing" => photo'[p] = photo[p]]_vars

\* Every job settles, even if no worker ever reports: leases lapse, the job is
\* handed out again until its attempts are used up, and a later claim
\* dead-letters it.
EveryJobSettles == \A j \in Jobs : <>IsTerminal(job[j])

(***************************************************************************)
(* The inductive invariant behind the three safety invariants.             *)
(***************************************************************************)

\* Every row is sound for the attempts handed out (JobRecord).
RowsConsistent == \A j \in Jobs : RowSound(job[j], issued[j])

\* A completion in flight still has its job and its attempt, and the photo status it is about
\* to write is still right, although it was computed from an earlier read.
CompletionsSound ==
  \A j \in Jobs : completion[j] # "none" =>
    /\ job[j].status = "processing"
    /\ reporter[j] = issued[j]
    /\ completion[j] \in PhotoStatus \ {"processing"} =>
         /\ \A k \in JobsOf(PhotoOf(j)) : k # j => IsTerminal(job[k])
         /\ completion[j] = Settled(StatusesRead(PhotoOf(j), {j}))

IInv ==
  /\ TypeOK
  /\ RowsConsistent
  /\ CompletionsSound
  /\ ResultsFromLastAttempt
  /\ PhotoStatusSound

(***************************************************************************)
(* The queue implements JobLedger.                                         *)
(***************************************************************************)
OutcomeOf(row) ==
  CASE row.status = "completed"     -> "done"
    [] row.status = "failed"        -> "rejected"
    [] row.status = "dead_lettered" -> "exhausted"
    [] OTHER                        -> "open"

Ledger == INSTANCE JobLedger WITH
  Types   <- JobTypes,
  Budget  <- MaxAttempts,
  left    <- [j \in Jobs |-> MaxAttempts - job[j].attempt_count],
  outcome <- [j \in Jobs |-> OutcomeOf(job[j])],
  results <- [j \in Jobs |-> Cardinality(written[j])],
  verdict <- [p \in Photos |-> IF photo[p] = "processing" THEN "pending" ELSE photo[p]]

\* Leases, retries, lost and repeated reports and interleaved transactions are
\* invisible in the ledger: each step of the queue is a hand-out, a closing or
\* nothing.
ImplementsLedger == Ledger!LedgerSpec

\* What backend/tests/test_worker_protocol.py asserts: when the last job of a
\* photo is dead-lettered or failed and none completed, the photo is "failed".
FailedPhotoIsFailed ==
  \A p \in Photos :
    (\A j \in JobsOf(p) : job[j].status \in {"failed", "dead_lettered"})
      => photo[p] = "failed"

\* What the organizer's page promises by counting "ready" photos as ready for
\* participant search: when all jobs of a photo have completed, it is "ready".
CompletedPhotoIsReady ==
  \A p \in Photos :
    (\A j \in JobsOf(p) : job[j].status = "completed") => photo[p] = "ready"
=============================================================================
