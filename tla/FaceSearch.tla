----------------------------- MODULE FaceSearch -----------------------------
(***************************************************************************)
(* A selfie search: one browser request uploads up to a few selfies, each  *)
(* committed on its own (backend/app/face.py, ingest_face_search_upload),  *)
(* workers probe them through the face_search_jobs queue, and maintenance  *)
(* purges the session once it has expired, handing the stored selfies to   *)
(* the object-deletion outbox.                                             *)
(*                                                                         *)
(* A session is named by the selfie whose upload created it.  Two          *)
(* transactions are longer than one step, because they wait for each       *)
(* other's locks: a completion locks its job row and then, if it finds     *)
(* matching faces, the session row (the foreign key of the results); the   *)
(* purge locks the session rows and then deletes the job rows.             *)
(***************************************************************************)
EXTENDS JobRecord, FiniteSets

CONSTANTS
  Selfies,        \* the files of the request
  Position,       \* [Selfies -> Nat], their order in the form
  NoSession       \* stands for "no session"

ASSUME FaceSearchAssumption ==
  /\ Position \in [Selfies -> Nat]
  /\ \A s, t \in Selfies : Position[s] = Position[t] => s = t
  /\ NoSession \notin Selfies

SessionStatus == {"queued", "processing", "completed", "failed"}
ImageStatus == {"queued", "processing", "ready", "failed"}

VARIABLES
  upload,      \* [Selfies -> ...], progress of the request with each file
  reused,      \* the request's face_search_session, or NoSession
  closed,      \* the request has been answered, or died
  session,     \* [Selfies -> SessionStatus, "none" or "purged"]
  sessionOf,   \* [Selfies -> session of the selfie's rows, or NoSession]
  image,       \* [Selfies -> ImageStatus or "none"], face_search_images
  job,         \* [Selfies -> JobRow], face_search_jobs, where there is an image
  objects,     \* stored selfies
  tombstones,  \* selfies whose deletion is queued in the outbox
  leaked,      \* history: selfies left behind by a crash or a failed storage call
  expired,     \* sessions past expires_at
  tx,          \* [Selfies -> ...], the transaction completing the selfie's job
  pinned,      \* selfies whose completion holds a key-share lock on the session
  reporter,    \* [Selfies -> Nat], the attempt that transaction completes
  purging,     \* sessions locked by the purge
  issued,      \* [Selfies -> Nat], history: attempts handed out
  results      \* [Selfies -> SUBSET Nat], history: attempts whose matches were stored

requestVars == <<upload, reused, closed>>
rowVars == <<session, sessionOf, image, job>>
storeVars == <<objects, tombstones, leaked>>
lockVars == <<tx, pinned, reporter, purging>>
history == <<issued, results>>
vars == <<requestVars, rowVars, storeVars, lockVars, history, expired>>

\* tx is "none", "owned" (job locked and verified), or the session status the
\* completion is going to write.
TypeOK ==
  /\ upload \in [Selfies -> {"waiting", "stored", "done"}]
  /\ reused \in Selfies \cup {NoSession}
  /\ closed \in BOOLEAN
  /\ session \in [Selfies -> SessionStatus \cup {"none", "purged"}]
  /\ sessionOf \in [Selfies -> Selfies \cup {NoSession}]
  /\ image \in [Selfies -> ImageStatus \cup {"none"}]
  /\ job \in [Selfies -> JobRow]
  /\ objects \in SUBSET Selfies
  /\ tombstones \in SUBSET Selfies
  /\ leaked \in SUBSET Selfies
  /\ expired \in SUBSET Selfies
  /\ tx \in [Selfies -> SessionStatus \cup {"none", "owned"}]
  /\ pinned \in SUBSET Selfies
  /\ reporter \in [Selfies -> Nat]
  /\ purging \in SUBSET Selfies
  /\ issued \in [Selfies -> Nat]
  /\ results \in [Selfies -> SUBSET Nat]

Init ==
  /\ upload = [s \in Selfies |-> "waiting"]
  /\ reused = NoSession
  /\ closed = FALSE
  /\ session = [s \in Selfies |-> "none"]
  /\ sessionOf = [s \in Selfies |-> NoSession]
  /\ image = [s \in Selfies |-> "none"]
  /\ job = [s \in Selfies |-> NewJob]
  /\ objects = {} /\ tombstones = {} /\ leaked = {} /\ expired = {}
  /\ tx = [s \in Selfies |-> "none"]
  /\ pinned = {} /\ purging = {}
  /\ reporter = [s \in Selfies |-> NoAttempt]
  /\ issued = [s \in Selfies |-> 0]
  /\ results = [s \in Selfies |-> {}]

-----------------------------------------------------------------------------
HasRows(s) == image[s] # "none"
RowsOf(x) == {s \in Selfies : HasRows(s) /\ sessionOf[s] = x}
StatusesOf(x) == {job[s].status : s \in RowsOf(x)}

(***************************************************************************)
(* The request.                                                            *)
(***************************************************************************)
IsNext(s) ==
  /\ ~closed
  /\ upload[s] = "waiting"
  /\ \A t \in Selfies : Position[t] < Position[s] => upload[t] = "done"

\* upload_r2_object.  A call that fails may have stored the selfie all the
\* same, and nothing deletes it then.
Store(s) ==
  /\ IsNext(s)
  /\ \/ /\ upload' = [upload EXCEPT ![s] = "stored"]
        /\ objects' = objects \cup {s}
        /\ UNCHANGED leaked
     \/ /\ upload' = [upload EXCEPT ![s] = "done"]
        /\ \/ UNCHANGED <<objects, leaked>>
           \/ objects' = objects \cup {s} /\ leaked' = leaked \cup {s}
  /\ UNCHANGED <<reused, closed, rowVars, tombstones, lockVars, history, expired>>

\* The rows one upload commits: image and job, and the session if the request
\* has none yet.
InsertRows(s) ==
  LET x == IF reused = NoSession THEN s ELSE reused IN
  /\ sessionOf' = [sessionOf EXCEPT ![s] = x]
  /\ session' = [session EXCEPT ![x] = IF @ = "none" THEN "queued" ELSE @]
  /\ image' = [image EXCEPT ![s] = "queued"]
  /\ job' = [job EXCEPT ![s] = NewJob]

Publish(s) ==
  /\ ~closed
  /\ upload[s] = "stored"
  /\ InsertRows(s)
  /\ reused' = IF reused = NoSession THEN s ELSE reused
  /\ upload' = [upload EXCEPT ![s] = "done"]
  /\ UNCHANGED <<closed, storeVars, lockVars, history, expired>>

\* The commit or a refresh after it raises: the object is deleted again, even
\* if the rows were committed, and the session is not reused.
PublishFails(s) ==
  /\ ~closed
  /\ upload[s] = "stored"
  /\ InsertRows(s) \/ UNCHANGED rowVars
  /\ \/ objects' = objects \ {s} /\ UNCHANGED leaked
     \/ leaked' = leaked \cup {s} /\ UNCHANGED objects
  /\ upload' = [upload EXCEPT ![s] = "done"]
  /\ UNCHANGED <<reused, closed, tombstones, lockVars, history, expired>>

\* The request ends: it binds the search to the browser, or it dies.
Answer ==
  /\ ~closed
  /\ \A s \in Selfies : upload[s] = "done"
  /\ closed' = TRUE
  /\ UNCHANGED <<upload, reused, rowVars, storeVars, lockVars, history, expired>>

RequestDies ==
  /\ ~closed
  /\ closed' = TRUE
  /\ leaked' = leaked \cup {s \in Selfies : upload[s] = "stored"}
  /\ UNCHANGED <<upload, reused, rowVars, objects, tombstones, lockVars, history, expired>>

-----------------------------------------------------------------------------
(***************************************************************************)
(* The queue (worker_api.py).                                              *)
(***************************************************************************)

\* The session status after a change of one of its jobs.
Summary(seen, before) ==
  IF seen \subseteq TerminalStatuses
  THEN IF "completed" \in seen THEN "completed" ELSE "failed"
  ELSE before

\* _sync_terminal_parent_state and mark_face_search_session_done_if_jobs_done
\* read the committed statuses: the new status of the own job is not flushed.
SyncedSession(x) == Summary(StatusesOf(x), session[x])

\* A job of a session that the purge has locked is about to disappear: a claim
\* would wait for the purge and find nothing.
Visible(s) == HasRows(s) /\ tx[s] = "none" /\ sessionOf[s] \notin purging

Claim ==
  LET exhausted == {s \in Selfies : Visible(s) /\ Exhausted(job[s])}
      claimable == {s \in Selfies : Visible(s) /\ Claimable(job[s])}
      taken == {s \in claimable : \A t \in claimable : Position[s] <= Position[t]}
  IN /\ job' = [s \in Selfies |->
          IF s \in exhausted THEN DeadLettered(job[s])
          ELSE IF s \in taken THEN Claimed(job[s], issued[s] + 1)
          ELSE job[s]]
     /\ issued' = [s \in Selfies |-> IF s \in taken THEN issued[s] + 1 ELSE issued[s]]
     /\ image' = [s \in Selfies |->
          IF s \in exhausted THEN "failed"
          ELSE IF s \in taken THEN "processing" ELSE image[s]]
     /\ session' = [x \in Selfies |->
          IF RowsOf(x) \cap taken # {} THEN "processing"
          ELSE IF RowsOf(x) \cap exhausted # {} THEN SyncedSession(x)
          ELSE session[x]]
     /\ UNCHANGED <<requestVars, sessionOf, storeVars, lockVars, results, expired>>

Reportable(s, attempt) == HasRows(s) /\ tx[s] = "none" /\ Owns(job[s], attempt)

Heartbeat(s, attempt) ==
  /\ Reportable(s, attempt)
  /\ job' = [job EXCEPT ![s] = Heartbeaten(@)]
  /\ UNCHANGED <<requestVars, session, sessionOf, image, storeVars, lockVars, history, expired>>

\* A mutant: an image fails with the first failed attempt.
FailImageAtOnce(s, attempt, retryable) ==
  /\ Reportable(s, attempt)
  /\ job' = [job EXCEPT ![s] = AfterFailure(@, retryable)]
  /\ image' = [image EXCEPT ![s] = "failed"]
  /\ UNCHANGED <<requestVars, session, sessionOf, storeVars, lockVars, history, expired>>

Fail(s, attempt, retryable) ==
  /\ Reportable(s, attempt)
  /\ job' = [job EXCEPT ![s] = AfterFailure(@, retryable)]
  /\ IF IsTerminal(job'[s])
     THEN /\ image' = [image EXCEPT ![s] = "failed"]
          /\ session' = [session EXCEPT ![sessionOf[s]] = SyncedSession(sessionOf[s])]
     ELSE UNCHANGED <<image, session>>
  /\ UNCHANGED <<requestVars, sessionOf, storeVars, lockVars, history, expired>>

CompleteLock(s, attempt) ==
  /\ Reportable(s, attempt)
  /\ tx' = [tx EXCEPT ![s] = "owned"]
  /\ reporter' = [reporter EXCEPT ![s] = attempt]
  /\ UNCHANGED <<requestVars, rowVars, storeVars, pinned, purging, history, expired>>

\* Store the matching faces, if there are any (this waits for a purge of the
\* session), and read the statuses of the session's jobs.
CompleteMatch(s) ==
  /\ tx[s] = "owned"
  /\ \/ UNCHANGED pinned
     \/ sessionOf[s] \notin purging /\ pinned' = pinned \cup {s}
  /\ tx' = [tx EXCEPT ![s] = Summary(StatusesOf(sessionOf[s]), "processing")]
  /\ UNCHANGED <<requestVars, rowVars, storeVars, reporter, purging, history, expired>>

\* The session was "processing" when the completion loaded it, so that only a
\* different status is written.
CompleteCommit(s) ==
  /\ tx[s] \in SessionStatus
  /\ tx[s] # "processing" => sessionOf[s] \notin purging
  /\ job' = [job EXCEPT ![s] = Completed(@)]
  /\ image' = [image EXCEPT ![s] = "ready"]
  /\ session' = IF tx[s] = "processing" THEN session
                ELSE [session EXCEPT ![sessionOf[s]] = tx[s]]
  /\ results' = [results EXCEPT ![s] = @ \cup {reporter[s]}]
  /\ tx' = [tx EXCEPT ![s] = "none"]
  /\ pinned' = pinned \ {s}
  /\ reporter' = [reporter EXCEPT ![s] = NoAttempt]
  /\ UNCHANGED <<requestVars, sessionOf, storeVars, purging, issued, expired>>

\* A crash, an error, or the database resolving a deadlock with the purge.
CompleteRollback(s) ==
  /\ tx[s] # "none"
  /\ tx' = [tx EXCEPT ![s] = "none"]
  /\ pinned' = pinned \ {s}
  /\ reporter' = [reporter EXCEPT ![s] = NoAttempt]
  /\ UNCHANGED <<requestVars, rowVars, storeVars, purging, history, expired>>

-----------------------------------------------------------------------------
(***************************************************************************)
(* Expiry and purge (maintenance.py).                                      *)
(***************************************************************************)
Alive(x) == session[x] \in SessionStatus

\* expires_at is an hour or more away when the request runs.
Expire(x) ==
  /\ closed /\ Alive(x) /\ x \notin expired
  /\ expired' = expired \cup {x}
  /\ UNCHANGED <<requestVars, rowVars, storeVars, lockVars, history>>

\* A mutant: only finished searches are purged.
DueFinished(x) ==
  x \in expired /\ session[x] \in {"completed", "failed"} /\ RowsOf(x) \cap pinned = {}

\* Expired, and not locked by a completion.
Due(x) == x \in expired /\ Alive(x) /\ RowsOf(x) \cap pinned = {}

\* SELECT ... FOR UPDATE SKIP LOCKED, and the images of what it returned.
PurgeLock ==
  LET due == {x \in Selfies : Due(x)} IN
  /\ purging = {}
  /\ due # {}
  /\ purging' = due
  /\ UNCHANGED <<requestVars, rowVars, storeVars, tx, pinned, reporter, history, expired>>

Purged == {s \in Selfies : HasRows(s) /\ sessionOf[s] \in purging}

\* Mutants: only processed selfies are handed to the outbox; the purge does not
\* wait for completions.
DeletionsOfProcessed(rows) == {s \in rows : image[s] \in {"ready", "failed"}}
NothingToWaitFor(rows) == TRUE

\* enqueue_object_deletion for the images of the sessions, and the row locks
\* that deleting the jobs has to wait for.
DeletionsOf(rows) == rows
Unlocked(rows) == \A s \in rows : tx[s] = "none"

\* Queue the deletions and delete the rows; a job row that a completion has
\* locked makes the purge wait.
PurgeCommit ==
  /\ purging # {}
  /\ Unlocked(Purged)
  /\ tombstones' = tombstones \cup DeletionsOf(Purged)
  /\ session' = [x \in Selfies |-> IF x \in purging THEN "purged" ELSE session[x]]
  /\ sessionOf' = [s \in Selfies |-> IF s \in Purged THEN NoSession ELSE sessionOf[s]]
  /\ image' = [s \in Selfies |-> IF s \in Purged THEN "none" ELSE image[s]]
  /\ job' = [s \in Selfies |-> IF s \in Purged THEN NewJob ELSE job[s]]
  /\ results' = [s \in Selfies |-> IF s \in Purged THEN {} ELSE results[s]]
  /\ purging' = {}
  /\ UNCHANGED <<requestVars, objects, leaked, tx, pinned, reporter, issued, expired>>

\* The run dies, or the database resolves a deadlock with a completion.
PurgeRollback ==
  /\ purging # {}
  /\ purging' = {}
  /\ UNCHANGED <<requestVars, rowVars, storeVars, tx, pinned, reporter, history, expired>>

LeaseLapses(s) ==
  /\ job[s].lease_expires_at = "live"
  /\ job' = [job EXCEPT ![s] = LeaseLapsed(@)]
  /\ UNCHANGED <<requestVars, session, sessionOf, image, storeVars, lockVars, history, expired>>

RetryElapses(s) ==
  /\ job[s].retry_after = "waiting"
  /\ job' = [job EXCEPT ![s] = RetryElapsed(@)]
  /\ UNCHANGED <<requestVars, session, sessionOf, image, storeVars, lockVars, history, expired>>

-----------------------------------------------------------------------------
Request ==
  \/ \E s \in Selfies : Store(s) \/ Publish(s) \/ PublishFails(s)
  \/ Answer \/ RequestDies

Report(s) ==
  \E attempt \in 1..issued[s] :
    \/ Heartbeat(s, attempt)
    \/ \E retryable \in BOOLEAN : Fail(s, attempt, retryable)
    \/ CompleteLock(s, attempt)

Transaction(s) == CompleteMatch(s) \/ CompleteCommit(s) \/ CompleteRollback(s)

Purge == PurgeLock \/ PurgeCommit \/ PurgeRollback

Next ==
  \/ Request \/ Claim \/ Purge
  \/ \E s \in Selfies : \/ Report(s) \/ Transaction(s) \/ Expire(s)
                        \/ LeaseLapses(s) \/ RetryElapses(s)

Spec == Init /\ [][Next]_vars

(***************************************************************************)
(* The request ends, sessions expire, leases are not renewed forever,      *)
(* transactions end, and the purge, started every five minutes, is not     *)
(* rolled back every time it could commit.  Nothing obliges a worker to do *)
(* anything.                                                               *)
(***************************************************************************)
Fairness ==
  /\ WF_vars(Request) /\ WF_vars(Purge) /\ SF_vars(PurgeCommit)
  /\ \A s \in Selfies : WF_vars(Transaction(s)) /\ WF_vars(Expire(s)) /\ WF_vars(LeaseLapses(s))

FairSpec == Spec /\ Fairness

-----------------------------------------------------------------------------
(***************************************************************************)
(* Properties.                                                             *)
(***************************************************************************)

\* Every stored selfie is accounted for: the request holds it, a row refers to
\* it or the outbox will delete it.  Only a crash or a failed storage call of
\* the request can leave one behind.
SelfieAccounted ==
  objects \subseteq
    leaked \cup tombstones \cup {s \in Selfies : upload[s] = "stored" \/ HasRows(s)}

\* Matches are stored exactly for the completed jobs, by the attempt handed
\* out last.
ResultsFromLastAttempt ==
  \A s \in Selfies : HasRows(s) =>
    results[s] = IF job[s].status = "completed" THEN {issued[s]} ELSE {}

\* The image shown to the participant tells the outcome of its job.
ImageFollowsJob ==
  \A s \in Selfies : HasRows(s) =>
    /\ image[s] = "ready" <=> job[s].status = "completed"
    /\ image[s] = "failed" <=> job[s].status \in {"failed", "dead_lettered"}

\* A completion never loses its rows: the purge waits for it, or one of the
\* two is rolled back as a whole.
CompletionNotPurged ==
  [][\A s \in Selfies : tx[s] # "none" => HasRows(s) /\ HasRows(s)']_vars

\* Biometric retention: an expired session is purged and its stored selfies
\* are handed to the outbox, whatever workers and lock conflicts do.
ExpiredSearchPurged ==
  \A x \in Selfies : x \in expired ~> session[x] = "purged" /\ RowsOf(x) = {}

\* What the participant's page says of a "processing" search, "We are checking
\* this event's photos", and what it shows of finished ones, "Complete".
SettledSearchFinished ==
  \A x \in Selfies : Alive(x) /\ closed /\ (\A s \in RowsOf(x) : IsTerminal(job[s]))
    => session[x] \in {"completed", "failed"}

(***************************************************************************)
(* The inductive invariant behind the safety properties.                   *)
(***************************************************************************)

\* A selfie whose upload is under way has left no trace in the queue, and the
\* rows of the others are sound for the attempts handed out (JobRecord).
RowsConsistent ==
  \A s \in Selfies :
    /\ upload[s] # "done" => ~HasRows(s) /\ issued[s] = 0 /\ results[s] = {}
    /\ IF HasRows(s) THEN RowSound(job[s], issued[s]) ELSE job[s] = NewJob

\* A completion in flight still has its rows and its attempt.
CompletionsOwned ==
  \A s \in Selfies : tx[s] # "none" =>
    /\ HasRows(s)
    /\ job[s].status = "processing"
    /\ reporter[s] = issued[s]

IInv ==
  /\ TypeOK
  /\ RowsConsistent
  /\ CompletionsOwned
  /\ SelfieAccounted
  /\ ResultsFromLastAttempt
  /\ ImageFollowsJob
=============================================================================
