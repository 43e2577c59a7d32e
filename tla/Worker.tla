------------------------------- MODULE Worker -------------------------------
(***************************************************************************)
(* The worker processes (raceframe-worker/worker.py) against one queue of  *)
(* the control plane.  A process runs three loops: the main loop claims a  *)
(* job, processes it and reports; a lease-heartbeat thread lives as long   *)
(* as the processing; the presence thread is left out.                     *)
(*                                                                         *)
(* HTTP is a set of requests that the backend may still handle.  A request *)
(* is lost, handled with its answer lost, or handled long after its sender *)
(* gave up; BackendClient.post sends again after errors and timeouts, but  *)
(* not a claim.  The main thread and the heartbeat thread of one job share *)
(* nothing but the event `lost`.                                           *)
(***************************************************************************)
EXTENDS JobRecord, FiniteSets

CONSTANTS
  Workers,      \* processes
  Jobs,         \* rows of the queue; which one a claim takes is left open
  Tries,        \* WORKER_HTTP_RETRIES, sends of a report
  NoJob         \* stands for "holds no job"

ASSUME WorkerAssumption == Tries \in Nat \ {0} /\ NoJob \notin Jobs

Claims == [job : Jobs, attempt : Nat]
NoClaim == [job |-> NoJob, attempt |-> NoAttempt]

ReportKinds == {"heartbeat", "complete", "retry", "reject"}
\* send tells the sends of one report apart: a late one is one more request.
Reports == [kind : ReportKinds, job : Jobs, attempt : Nat, send : 0..Tries]
ClaimRequests == [kind : {"claim"}, worker : Workers]

\* "retry" and "reject" are calls of _report_failure, by retryable.
Posting == {"complete", "retry", "reject"}
Stages == {"polling", "claiming", "working", "down"} \cup Posting

VARIABLES
  job,        \* [Jobs -> JobRow], the rows of the control plane
  issued,     \* [Jobs -> Nat], history: attempts handed out
  stage,      \* [Workers -> Stages], where the main thread is
  claim,      \* [Workers -> Claims], the job it holds
  tries,      \* [Workers -> Nat], sends left of the report it is posting
  awaiting,   \* [Workers -> BOOLEAN], it has sent the report and waits
  beat,       \* [Workers -> ...], the heartbeat thread of that job
  lost,       \* [Workers -> BOOLEAN], the event that thread sets
  mail,       \* requests that the backend may still handle
  acked,      \* history: claims whose worker was told "completed"
  refused     \* history: claims whose input or result was found invalid

rows == <<job, issued>>
mainThread == <<stage, claim, tries, awaiting>>
heartbeat == <<beat, lost>>
history == <<acked, refused>>
vars == <<rows, mainThread, heartbeat, mail, history>>

TypeOK ==
  /\ job \in [Jobs -> JobRow]
  /\ issued \in [Jobs -> Nat]
  /\ stage \in [Workers -> Stages]
  /\ claim \in [Workers -> Claims \cup {NoClaim}]
  /\ tries \in [Workers -> 0..Tries]
  /\ awaiting \in [Workers -> BOOLEAN]
  /\ beat \in [Workers -> {"off", "waiting", "posting"}]
  /\ lost \in [Workers -> BOOLEAN]
  /\ mail \in SUBSET (Reports \cup ClaimRequests)
  /\ acked \in SUBSET Claims
  /\ refused \in SUBSET Claims

Init ==
  /\ job = [j \in Jobs |-> NewJob]
  /\ issued = [j \in Jobs |-> 0]
  /\ stage = [w \in Workers |-> "polling"]
  /\ claim = [w \in Workers |-> NoClaim]
  /\ tries = [w \in Workers |-> 0]
  /\ awaiting = [w \in Workers |-> FALSE]
  /\ beat = [w \in Workers |-> "off"]
  /\ lost = [w \in Workers |-> FALSE]
  /\ mail = {}
  /\ acked = {} /\ refused = {}

-----------------------------------------------------------------------------
ReportOf(w, kind, send) ==
  [kind |-> kind, job |-> claim[w].job, attempt |-> claim[w].attempt, send |-> send]

\* Every heartbeat that a thread has under way is one request: to renew a live
\* lease twice is to renew it once.
HeartbeatOf(w) == ReportOf(w, "heartbeat", 0)
ClaimRequest(w) == [kind |-> "claim", worker |-> w]

\* The end of handle_claimed_job: the job is let go, its heartbeat thread told
\* to stop; a heartbeat it has sent stays in the mail.
LetGo(w, next) ==
  /\ stage' = [stage EXCEPT ![w] = next]
  /\ claim' = [claim EXCEPT ![w] = NoClaim]
  /\ tries' = [tries EXCEPT ![w] = 0]
  /\ awaiting' = [awaiting EXCEPT ![w] = FALSE]
  /\ beat' = [beat EXCEPT ![w] = "off"]
  /\ lost' = [lost EXCEPT ![w] = FALSE]

\* BackendClient.post with retry_safe, about to send for the first time.  The
\* heartbeat thread outlives the completion, but not the failure report.
StartPost(w, kind) ==
  /\ stage' = [stage EXCEPT ![w] = kind]
  /\ tries' = [tries EXCEPT ![w] = Tries]
  /\ awaiting' = [awaiting EXCEPT ![w] = FALSE]
  /\ IF kind = "complete" THEN UNCHANGED heartbeat
     ELSE beat' = [beat EXCEPT ![w] = "off"] /\ lost' = [lost EXCEPT ![w] = FALSE]
  /\ UNCHANGED claim

-----------------------------------------------------------------------------
(***************************************************************************)
(* Claiming.                                                               *)
(***************************************************************************)
SendClaim(w) ==
  /\ stage[w] = "polling"
  /\ stage' = [stage EXCEPT ![w] = "claiming"]
  /\ mail' = mail \cup {ClaimRequest(w)}
  /\ UNCHANGED <<rows, claim, tries, awaiting, heartbeat, history>>

\* No answer: the main loop backs off and polls again.
ClaimTimesOut(w) ==
  /\ stage[w] = "claiming"
  /\ stage' = [stage EXCEPT ![w] = "polling"]
  /\ UNCHANGED <<rows, claim, tries, awaiting, heartbeat, mail, history>>

\* handle_claimed_job starts the heartbeat thread.
StartWork(w, j, attempt) ==
  /\ stage' = [stage EXCEPT ![w] = "working"]
  /\ claim' = [claim EXCEPT ![w] = [job |-> j, attempt |-> attempt]]
  /\ beat' = [beat EXCEPT ![w] = "waiting"]
  /\ UNCHANGED <<tries, awaiting, lost>>

\* The backend reaps and hands out at most one job; its answer reaches the
\* worker if that is still waiting, or nobody.
HandleClaim(w) ==
  /\ ClaimRequest(w) \in mail
  /\ mail' = mail \ {ClaimRequest(w)}
  /\ LET exhausted == {j \in Jobs : Exhausted(job[j])}
         claimable == {j \in Jobs : Claimable(job[j])}
     IN \E taken \in SUBSET claimable :
          /\ Cardinality(taken) = (IF claimable = {} THEN 0 ELSE 1)
          /\ job' = [j \in Jobs |->
               IF j \in exhausted THEN DeadLettered(job[j])
               ELSE IF j \in taken THEN Claimed(job[j], issued[j] + 1) ELSE job[j]]
          /\ issued' = [j \in Jobs |-> IF j \in taken THEN issued[j] + 1 ELSE issued[j]]
          /\ \/ UNCHANGED <<mainThread, heartbeat>>
             \/ /\ stage[w] = "claiming"
                /\ IF taken = {}
                   THEN /\ stage' = [stage EXCEPT ![w] = "polling"]
                        /\ UNCHANGED <<claim, tries, awaiting, heartbeat>>
                   ELSE \E j \in taken : StartWork(w, j, issued[j] + 1)
  /\ UNCHANGED history

-----------------------------------------------------------------------------
(***************************************************************************)
(* Processing: download, scan and the checks of ensure_owned.              *)
(***************************************************************************)
Finish(w) ==
  /\ stage[w] = "working"
  /\ IF lost[w] THEN LetGo(w, "polling") ELSE StartPost(w, "complete")
  /\ UNCHANGED <<rows, mail, history>>

\* A TransientJobError or any unexpected exception: "retry"; a
\* PermanentJobError: "reject".  Neither looks at `lost`.
WorkFails(w, kind) ==
  /\ stage[w] = "working"
  /\ StartPost(w, kind)
  /\ refused' = IF kind = "reject" THEN refused \cup {claim[w]} ELSE refused
  /\ UNCHANGED <<rows, mail, acked>>

\* ensure_owned between the download and the scan.
NoticeLoss(w) ==
  /\ stage[w] = "working" /\ lost[w]
  /\ LetGo(w, "polling")
  /\ UNCHANGED <<rows, mail, history>>

-----------------------------------------------------------------------------
(***************************************************************************)
(* Reporting.                                                              *)
(***************************************************************************)
SendReport(w) ==
  /\ stage[w] \in Posting
  /\ ~awaiting[w] /\ tries[w] > 0
  /\ mail' = mail \cup {ReportOf(w, stage[w], tries[w])}
  /\ tries' = [tries EXCEPT ![w] = @ - 1]
  /\ awaiting' = [awaiting EXCEPT ![w] = TRUE]
  /\ UNCHANGED <<rows, stage, claim, heartbeat, history>>

\* A mutant of GiveUp: an unreachable backend counts as a failure of the job.
GiveUpAsRejection(w) ==
  IF stage[w] = "complete" THEN StartPost(w, "reject") ELSE LetGo(w, "polling")

\* A mutant of GiveUp: the heartbeat thread outlives the job.
GiveUpKeepsBeating(w) ==
  /\ stage' = [stage EXCEPT ![w] = "polling"]
  /\ awaiting' = [awaiting EXCEPT ![w] = FALSE]
  /\ UNCHANGED <<claim, tries, heartbeat>>

\* The last send was not answered either.  A failure of the control plane is
\* not reported as a failure of the job.
GiveUp(w) == LetGo(w, "polling")

ReportTimesOut(w) ==
  /\ stage[w] \in Posting /\ awaiting[w]
  /\ IF tries[w] > 0
     THEN /\ awaiting' = [awaiting EXCEPT ![w] = FALSE]
          /\ UNCHANGED <<stage, claim, tries, heartbeat>>
     ELSE GiveUp(w)
  /\ UNCHANGED <<rows, mail, history>>

\* The answer to a completion or failure report.
HearReport(w, r, answer) ==
  /\ awaiting[w] /\ ReportOf(w, stage[w], tries[w] + 1) = r
  /\ IF answer = "invalid" /\ r.kind = "complete"
     THEN /\ StartPost(w, "reject")
          /\ refused' = refused \cup {claim[w]}
          /\ UNCHANGED acked
     ELSE /\ LetGo(w, "polling")
          /\ acked' = IF answer = "ok" /\ r.kind = "complete" THEN acked \cup {claim[w]} ELSE acked
          /\ UNCHANGED refused

\* The answer to a heartbeat; without the lease the thread ends.
HearHeartbeat(w, r, answer) ==
  /\ beat[w] = "posting" /\ HeartbeatOf(w) = r
  /\ IF answer = "ok"
     THEN beat' = [beat EXCEPT ![w] = "waiting"] /\ UNCHANGED lost
     ELSE /\ beat' = [beat EXCEPT ![w] = "off"]
          /\ lost' = [lost EXCEPT ![w] = TRUE]
  /\ UNCHANGED <<mainThread, history>>

Unheard == UNCHANGED <<mainThread, heartbeat, history>>

SendHeartbeat(w) ==
  /\ beat[w] = "waiting"
  /\ beat' = [beat EXCEPT ![w] = "posting"]
  /\ mail' = mail \cup {HeartbeatOf(w)}
  /\ UNCHANGED <<rows, mainThread, lost, history>>

\* No answer: the thread tries again, or gives up close to the end of the
\* lease.  An answer it does not expect ends it and nobody is told.
HeartbeatTimesOut(w) ==
  /\ beat[w] = "posting"
  /\ \/ beat' = [beat EXCEPT ![w] = "waiting"] /\ UNCHANGED lost
     \/ beat' = [beat EXCEPT ![w] = "off"] /\ lost' = [lost EXCEPT ![w] = TRUE]
     \/ beat' = [beat EXCEPT ![w] = "off"] /\ UNCHANGED lost
  /\ UNCHANGED <<rows, mainThread, mail, history>>

-----------------------------------------------------------------------------
(***************************************************************************)
(* The backend's answer to a report.                                       *)
(***************************************************************************)

\* The row after the report.
Effect(row, r) ==
  IF ~Owns(row, r.attempt) THEN row
  ELSE CASE r.kind = "heartbeat" -> Heartbeaten(row)
         [] r.kind = "complete"  -> Completed(row)
         [] OTHER                -> AfterFailure(row, r.kind = "retry")

\* A mutant of Answer: a completion of any completed job is confirmed.
AnswerAnyAttempt(row, r) ==
  IF Owns(row, r.attempt) \/ row.status = "completed" THEN "ok" ELSE "conflict"

\* A repeated report of the recorded attempt is confirmed, another one refused.
Answer(row, r) ==
  IF Owns(row, r.attempt) THEN "ok"
  ELSE IF ~AttemptMatches(row, r.attempt) THEN "conflict"
  ELSE CASE r.kind = "heartbeat" -> "conflict"
         [] r.kind = "complete"  -> IF row.status = "completed" THEN "ok" ELSE "conflict"
         [] OTHER                -> IF row.status \in TerminalStatuses \cup {"queued"}
                                    THEN "ok" ELSE "conflict"

\* The backend handles a request once, and its sender hears the answer if it
\* still waits for it.  A payload that fails validation changes nothing.
HandleReport(r) ==
  /\ r \in mail /\ r \in Reports
  /\ mail' = mail \ {r}
  /\ \E valid \in (IF r.kind = "complete" THEN BOOLEAN ELSE {TRUE}) :
       LET answer == IF valid THEN Answer(job[r.job], r) ELSE "invalid"
       IN /\ job' = IF valid THEN [job EXCEPT ![r.job] = Effect(@, r)] ELSE job
          /\ \/ Unheard
             \/ \E w \in Workers : HearReport(w, r, answer)
             \/ \E w \in Workers : HearHeartbeat(w, r, answer)
  /\ UNCHANGED issued

LoseMail(r) ==
  /\ r \in mail
  /\ mail' = mail \ {r}
  /\ UNCHANGED <<rows, mainThread, heartbeat, history>>

-----------------------------------------------------------------------------
(***************************************************************************)
(* The clock, and the processes.                                           *)
(***************************************************************************)
LeaseLapses(j) ==
  /\ job[j].lease_expires_at = "live"
  /\ job' = [job EXCEPT ![j] = LeaseLapsed(@)]
  /\ UNCHANGED <<issued, mainThread, heartbeat, mail, history>>

RetryElapses(j) ==
  /\ job[j].retry_after = "waiting"
  /\ job' = [job EXCEPT ![j] = RetryElapsed(@)]
  /\ UNCHANGED <<issued, mainThread, heartbeat, mail, history>>

\* SIGTERM: the main loop ends between two jobs.
Stop(w) ==
  /\ stage[w] = "polling"
  /\ LetGo(w, "down")
  /\ UNCHANGED <<rows, mail, history>>

\* Killed, or a WorkerConfigError: the process ends where it is.
Crash(w) ==
  /\ stage[w] # "down"
  /\ LetGo(w, "down")
  /\ UNCHANGED <<rows, mail, history>>

Start(w) ==
  /\ stage[w] = "down"
  /\ LetGo(w, "polling")
  /\ UNCHANGED <<rows, mail, history>>

MainStep(w) ==
  \/ SendClaim(w) \/ ClaimTimesOut(w)
  \/ Finish(w) \/ NoticeLoss(w) \/ \E kind \in {"retry", "reject"} : WorkFails(w, kind)
  \/ SendReport(w) \/ ReportTimesOut(w)

HeartbeatStep(w) == SendHeartbeat(w) \/ HeartbeatTimesOut(w)

Next ==
  \/ \E w \in Workers : \/ MainStep(w) \/ HeartbeatStep(w) \/ HandleClaim(w)
                        \/ Stop(w) \/ Crash(w) \/ Start(w)
  \/ \E r \in mail : HandleReport(r) \/ LoseMail(r)
  \/ \E j \in Jobs : LeaseLapses(j) \/ RetryElapses(j)

Spec == Init /\ [][Next]_vars

-----------------------------------------------------------------------------
(***************************************************************************)
(* Fairness.  A started process keeps polling and is started again after   *)
(* it ends (the container's restart policy); every wait for an answer and  *)
(* every scan ends; not every start is cut short before the first claim,   *)
(* nor every claim lost.  A lease lapses unless somebody goes on renewing  *)
(* it.                                                                     *)
(***************************************************************************)
Renewed(j) ==
  \/ \E w \in Workers : /\ claim[w] = [job |-> j, attempt |-> job[j].attempt_id]
                        /\ beat[w] # "off"
  \/ \E r \in mail : r.kind = "heartbeat" /\ r.job = j /\ r.attempt = job[j].attempt_id

FairSpec ==
  /\ Spec
  /\ \A w \in Workers :
       /\ WF_vars(MainStep(w)) /\ WF_vars(Start(w))
       /\ SF_vars(SendClaim(w)) /\ SF_vars(HandleClaim(w))
  /\ WF_vars(\E r \in mail : r.kind = "heartbeat" /\ (HandleReport(r) \/ LoseMail(r)))
  /\ \A j \in Jobs : WF_vars(RetryElapses(j)) /\ WF_vars(~Renewed(j) /\ LeaseLapses(j))

-----------------------------------------------------------------------------
(***************************************************************************)
(* Properties.                                                             *)
(***************************************************************************)

\* A worker that is told that its completion stands has its attempt on record,
\* whatever else was sent before or arrives later: the answer to a repeated
\* report is never another attempt's.  _verify_active_attempt compares the
\* attempt before it looks at the terminal status.
AckedIsRecorded ==
  \A c \in acked : /\ job[c.job].status = "completed"
                    /\ job[c.job].attempt_id = c.attempt

\* A job fails for good only for its input: a worker found it invalid in the
\* attempt on record.  An unreachable backend, a lost lease, a crash or a
\* shutdown never turns into a permanent failure (handle_claimed_job abandons
\* the job instead of reporting).
FailedWasRefused ==
  \A j \in Jobs : job[j].status = "failed" =>
     [job |-> j, attempt |-> job[j].attempt_id] \in refused

\* A lease that no worker can use any more is not kept alive: every attempt
\* ends, in a report or by running out, because the heartbeat thread ends with
\* the processing.
LeaseEnds == \A j \in Jobs : []<>(job[j].lease_expires_at # "live")

\* Every job reaches a terminal status, however often workers crash, give up
\* or lose the answers they wait for.
EveryJobSettles == \A j \in Jobs : <>[]IsTerminal(job[j])

(***************************************************************************)
(* The inductive invariant behind the safety properties.                   *)
(***************************************************************************)

\* Every row is sound for the attempts handed out (JobRecord).
RowsConsistent == \A j \in Jobs : RowSound(job[j], issued[j])

\* The three places where a process keeps its job agree: it works or posts on
\* a job it holds, waits only for the report it posts, and its heartbeat
\* thread lives no longer than the processing.
ThreadsConsistent ==
  \A w \in Workers :
    /\ stage[w] \in {"working"} \cup Posting => claim[w] \in Claims
    /\ awaiting[w] => stage[w] \in Posting
    /\ beat[w] # "off" => stage[w] \in {"working", "complete"}

\* Nobody rejects a job, or has a rejection under way, without having found
\* the input of this very attempt invalid.
RejectionsRefused ==
  /\ \A w \in Workers : stage[w] = "reject" => claim[w] \in refused
  /\ \A r \in mail : r.kind = "reject" => [job |-> r.job, attempt |-> r.attempt] \in refused

IInv ==
  /\ TypeOK
  /\ RowsConsistent
  /\ ThreadsConsistent
  /\ RejectionsRefused
  /\ AckedIsRecorded
  /\ FailedWasRefused
=============================================================================
