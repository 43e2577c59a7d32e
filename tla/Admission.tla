------------------------------ MODULE Admission ------------------------------
(***************************************************************************)
(* What a search or an upload passes before it does its work: the limits   *)
(* and the slots of its web process, the limits that all processes share   *)
(* through the database, and the backlog of jobs it would add to. Searches *)
(* and uploads share none of these, so that a behaviour has one kind only. *)
(***************************************************************************)
EXTENDS Integers, SequencesExt, FiniteSets

CONSTANTS
  Requests, Processes, Visitors,
  Kinds,                     \* of requests: searches and uploads
  LocalChecks, StoreChecks,  \* of each kind, a sequence of [bucket, limit, window]
  Slots,                     \* requests of one kind that a process works on
  MaxFiles, JobsPerFile, MaxBacklog,
  MaxTime, MaxFailures,      \* bounds
  Everyone, NoWindow

Limits ==
  [bucket : {"visitor", "event"}, limit : Nat \ {0}, window : Nat \ {0}]

ASSUME AdmissionAssumption ==
  /\ Slots \in Nat \ {0} /\ MaxFiles \in Nat \ {0}
  /\ IsFiniteSet(Processes) /\ IsFiniteSet(Visitors)
  /\ JobsPerFile \in [Kinds -> Nat \ {0}] /\ MaxBacklog \in [Kinds -> Nat \ {0}]
  /\ \A k \in Kinds :
       LocalChecks[k] \in Seq(Limits) /\ StoreChecks[k] \in Seq(Limits) \ {<<>>}
  /\ MaxTime \in Nat /\ MaxFailures \in Nat
  /\ Everyone \notin Visitors /\ NoWindow \notin 0..MaxTime

VARIABLES
  kind,
  clock,
  deques,    \* SlidingWindowLimiter of each process: times of the hits of a key
  inFlight,  \* InFlightLimiter of each process
  rows,      \* RateLimitBucket: the counts of the windows of a key
  backlog,   \* queued and processing jobs of each kind
  request,
  outside,   \* the requests that came without the context of a browser
  failures,
  passed,    \* ghost: units that passed each check of the database, by window
  busiest    \* ghost: the most files that were before their commit at once

ghosts == <<passed, busiest>>
vars == <<kind, clock, deques, inFlight, rows, backlog, request, outside, failures, ghosts>>

Own == LocalChecks[kind]
Shared == StoreChecks[kind]
\* A key of a limit: the check, and whom it counts.
KeysOf(checks) == {<<i, v>> : i \in DOMAIN checks, v \in Visitors \union {Everyone}}
KeyOf(checks, i, v) == <<i, IF checks[i].bucket = "visitor" THEN v ELSE Everyone>>
WindowOf(time, window) == time - (time % window)

NoRequest == [step |-> "none", visitor |-> Everyone, process |-> Everyone,
              files |-> 0, check |-> 1, window |-> NoWindow]
Done == [NoRequest EXCEPT !.step = "done"]
Admitted(v, p, files) ==
  [NoRequest EXCEPT !.step = "limits", !.visitor = v, !.process = p, !.files = files]
Active == {r \in Requests : request[r].step \notin {"none", "done"}}
\* Those that have a slot.
ActiveAt(p) == {r \in Active \ outside : request[r].process = p}
BeforeCommit == {r \in Requests : request[r].step = "commit"}

-----------------------------------------------------------------------------
(* BrowserSecurityMiddleware.dispatch, which nothing interrupts.           *)

\* The oldest hits go as far as they lie before the window.
Recent(times, window) ==
  LET past == {i \in DOMAIN times : \A j \in 1..i : times[j] <= clock - window}
  IN SubSeq(times, Cardinality(past) + 1, Len(times))

\* SlidingWindowLimiter.hit for the checks in turn, up to the first refusal.
HitAt(hit, i, v) ==
  LET key == KeyOf(Own, i, v)
      times == Recent(hit.deque[key], Own[i].window)
  IN CASE ~hit.ok -> hit
       [] hit.ok /\ Len(times) >= Own[i].limit ->
            [deque |-> [hit.deque EXCEPT ![key] = times], ok |-> FALSE]
       [] OTHER -> [hit EXCEPT !.deque[key] = Append(times, clock)]
Hits(deque, v) ==
  LET after[i \in 0..Len(Own)] ==
        IF i = 0 THEN [deque |-> deque, ok |-> TRUE] ELSE HitAt(after[i - 1], i, v)
  IN after[Len(Own)]

\* A mutant of MayEnter: the slots are not counted.
MayEnterAlways(p) == TRUE
MayEnter(p) == inFlight[p] < Slots

Dispatch(r, v, p, files) ==
  /\ request[r].step = "none"
  /\ \E hit \in {Hits(deques[p], v)} :
       LET admitted == hit.ok /\ MayEnter(p)
       IN /\ deques' = [deques EXCEPT ![p] = hit.deque]
          /\ inFlight' = IF admitted THEN [inFlight EXCEPT ![p] = @ + 1] ELSE inFlight
          /\ request' = [request EXCEPT ![r] =
               IF admitted THEN Admitted(v, p, files) ELSE Done]
  /\ UNCHANGED <<kind, clock, rows, backlog, outside, failures, ghosts>>

\* Without _has_browser_admission_context there is no category, so that neither
\* a limit of the process nor a slot stands before the handler, which asks only
\* that the token of the form is that of the cookie.
DispatchOutside(r, v, p, files) ==
  /\ request[r].step = "none"
  /\ request' = [request EXCEPT ![r] = Admitted(v, p, files)]
  /\ outside' = outside \union {r}
  /\ UNCHANGED <<kind, clock, deques, inFlight, rows, backlog, failures, ghosts>>

\* InFlightLimiter.leave for a request with a slot, whatever way it ends.
Leaves(r) ==
  /\ request' = [request EXCEPT ![r] = Done]
  /\ inFlight' = IF r \in outside THEN inFlight
                 ELSE [inFlight EXCEPT ![request[r].process] = @ - 1]

-----------------------------------------------------------------------------
(* enforce_persistent_search_limits and enforce_persistent_upload_limits.  *)

Check(r) == Shared[request[r].check]
KeyFor(r) == KeyOf(Shared, request[r].check, request[r].visitor)
\* A search counts once, an upload once for each file.
Units(r) == IF kind = "upload" THEN request[r].files ELSE 1

\* The request counts in a window, passes a check, or passes the last one.
InWindow(q, w) == [q EXCEPT !.window = w]
PassedOne(q) == [q EXCEPT !.check = @ + 1, !.window = NoWindow]
PassedAll(q) == [q EXCEPT !.step = "capacity", !.window = NoWindow]

\* hit_persistent_limit takes the time first and counts in the database later.
ReadClock(r) ==
  /\ request[r].step = "limits" /\ request[r].window = NoWindow
  /\ request' = [request EXCEPT ![r] = InWindow(@, WindowOf(clock, Check(r).window))]
  /\ UNCHANGED <<kind, clock, deques, inFlight, rows, backlog, outside, failures, ghosts>>

\* A mutant of Allowed: the count before this hit decides.
AllowedBefore(count, limit, units) == count - units <= limit
Allowed(count, limit, units) == count <= limit

Counted(r) == [rows EXCEPT ![KeyFor(r)][request[r].window] = @ + Units(r)]

Hit(r) ==
  LET q == request[r]
      allowed == Allowed(Counted(r)[KeyFor(r)][q.window], Check(r).limit, Units(r))
  IN /\ q.step = "limits" /\ q.window # NoWindow
     /\ rows' = Counted(r)
     /\ IF allowed
          THEN /\ passed' = [passed EXCEPT ![KeyFor(r)][q.window] = @ + Units(r)]
               /\ request' = [request EXCEPT ![r] =
                    IF q.check = Len(Shared) THEN PassedAll(@) ELSE PassedOne(@)]
               /\ UNCHANGED inFlight
          ELSE Leaves(r) /\ UNCHANGED passed
     /\ UNCHANGED <<kind, clock, deques, backlog, outside, failures, busiest>>

\* The database fails before or after it counts: the request is refused.
HitFails(r) ==
  /\ request[r].step = "limits" /\ request[r].window # NoWindow
  /\ failures < MaxFailures
  /\ failures' = failures + 1
  /\ rows' \in {rows, Counted(r)}
  /\ Leaves(r)
  /\ UNCHANGED <<kind, clock, deques, backlog, outside, ghosts>>

-----------------------------------------------------------------------------
(* The backlog.                                                            *)

\* The request looks at its next file, adds it, and is done with it.
Checking(q) == [q EXCEPT !.step = "check"]
Committing(q) == [q EXCEPT !.step = "commit"]
NextFile(q) == [q EXCEPT !.step = "check", !.files = @ - 1]

\* A search without a query, a participant or usable files ends here.
Refuse(r) ==
  /\ request[r].step = "capacity" /\ kind = "search"
  /\ Leaves(r)
  /\ UNCHANGED <<kind, clock, deques, rows, backlog, outside, failures, ghosts>>

\* ensure_job_capacity for all files of the request.
EnsureCapacity(r) ==
  LET q == request[r]
  IN /\ q.step = "capacity"
     /\ IF backlog + q.files * JobsPerFile[kind] > MaxBacklog[kind]
          THEN Leaves(r)
          ELSE /\ request' = [request EXCEPT ![r] = Checking(@)]
               /\ UNCHANGED inFlight
     /\ UNCHANGED <<kind, clock, deques, rows, backlog, outside, failures, ghosts>>

\* A mutant of HasRoom: only ensure_job_capacity looks.
HasRoomAlways(jobs) == TRUE
HasRoom(jobs) == jobs < MaxBacklog[kind]

\* The next file: its own look at the backlog, and its commit, which adds
\* jobs unless the file is refused for another reason.
CheckFile(r) ==
  /\ request[r].step = "check" /\ request[r].files > 0
  /\ request' = [request EXCEPT ![r] =
       IF HasRoom(backlog) THEN Committing(@) ELSE NextFile(@)]
  /\ busiest' = IF Cardinality(BeforeCommit') > busiest THEN Cardinality(BeforeCommit') ELSE busiest
  /\ UNCHANGED <<kind, clock, deques, inFlight, rows, backlog, outside, failures, passed>>

CommitFile(r) ==
  LET q == request[r]
  IN /\ q.step = "commit"
     /\ backlog' \in {backlog, backlog + JobsPerFile[kind]}
     /\ request' = [request EXCEPT ![r] = NextFile(@)]
     /\ UNCHANGED <<kind, clock, deques, inFlight, rows, outside, failures, ghosts>>

EndRequest(r) ==
  /\ request[r].step = "check" /\ request[r].files = 0
  /\ Leaves(r)
  /\ UNCHANGED <<kind, clock, deques, rows, backlog, outside, failures, ghosts>>

\* A worker finishes a job.
FinishJob ==
  /\ backlog > 0
  /\ backlog' = backlog - 1
  /\ UNCHANGED <<kind, clock, deques, inFlight, rows, request, outside, failures, ghosts>>

-----------------------------------------------------------------------------
(* Time, and purge_expired_rate_limits.                                    *)

\* A mutant of ExpiresAt: the row goes when its window ends.
ExpiresEarly(start, window) == start + window
ExpiresAt(start, window) == start + 2 * window

\* Only rows that count are there; a row that is deleted counts from nothing.
Purge ==
  /\ rows' = [key \in DOMAIN rows |-> [w \in 0..MaxTime |->
               IF ExpiresAt(w, Shared[key[1]].window) < clock THEN 0 ELSE rows[key][w]]]
  /\ rows' # rows
  /\ UNCHANGED <<kind, clock, deques, inFlight, backlog, request, outside, failures, ghosts>>

\* Assumed: no hit takes longer to be counted than one more window. A bound:
\* time is of no interest once all requests have ended.
Tick ==
  /\ clock < MaxTime
  /\ \E r \in Requests : request[r].step # "done"
  /\ \A r \in Active : request[r].window # NoWindow =>
       clock < request[r].window + 2 * Check(r).window - 1
  /\ clock' = clock + 1
  /\ UNCHANGED <<kind, deques, inFlight, rows, backlog, request, outside, failures, ghosts>>

Init ==
  /\ kind \in Kinds
  /\ clock = 0
  /\ deques = [p \in Processes |-> [key \in KeysOf(Own) |-> <<>>]]
  /\ inFlight = [p \in Processes |-> 0]
  /\ rows = [key \in KeysOf(Shared) |-> [w \in 0..MaxTime |-> 0]]
  /\ backlog = 0
  /\ request = [r \in Requests |-> NoRequest]
  /\ outside = {}
  /\ failures = 0
  /\ passed = rows /\ busiest = 0

Next ==
  \/ \E r \in Requests :
       \/ \E v \in Visitors, p \in Processes, files \in 1..MaxFiles :
            Dispatch(r, v, p, files) \/ DispatchOutside(r, v, p, files)
       \/ ReadClock(r) \/ Hit(r) \/ HitFails(r) \/ Refuse(r) \/ EnsureCapacity(r)
       \/ CheckFile(r) \/ CommitFile(r) \/ EndRequest(r)
  \/ FinishJob \/ Purge \/ Tick

Spec == Init /\ [][Next]_vars

-----------------------------------------------------------------------------
(* Properties.                                                             *)

\* With the slots: a process counts exactly the requests that have one there.
TypeOK ==
  /\ kind \in Kinds /\ clock \in 0..MaxTime
  /\ deques \in [Processes -> [KeysOf(Own) -> Seq(0..MaxTime)]]
  /\ rows \in [KeysOf(Shared) -> [0..MaxTime -> Nat]]
  /\ backlog \in Nat /\ busiest \in Nat
  /\ \A r \in Active : request[r].files \in 0..MaxFiles
  /\ \A p \in Processes :
       inFlight[p] = Cardinality(ActiveAt(p)) /\ inFlight[p] <= Slots

Sum(f, S) == FoldSet(LAMBDA x, sum : f[x] + sum, 0, S)
\* No more than the limit passes a check in one window, across processes, late
\* counts, failures and purges; and what a visitor was refused is not taken
\* from the budget that all share.
BudgetsHold ==
  \A key \in KeysOf(Shared) :
    /\ \A w \in 0..MaxTime : passed[key][w] <= Shared[key[1]].limit
    /\ key[1] > 1 /\ Shared[1].bucket = "visitor" =>
         Sum(rows[key], 0..MaxTime) <=
           Sum([v \in Visitors |-> Sum(passed[<<1, v>>], 0..MaxTime)], Visitors)

\* The backlog passes its limit by no more than the files that were between
\* their look and their commit at once; and these are no more than the slots,
\* and the requests that came without the context of a browser.
BacklogBounded ==
  /\ backlog <= MaxBacklog[kind] - 1 + JobsPerFile[kind] * busiest
  /\ busiest <= Slots * Cardinality(Processes) + Cardinality(outside)

-----------------------------------------------------------------------------
(* The inductive invariant behind them.                                    *)

Request ==
  [step : {"none", "limits", "capacity", "check", "commit", "done"},
   visitor : Visitors \union {Everyone}, process : Processes \union {Everyone},
   files : 0..MaxFiles, check : Nat, window : (0..MaxTime) \union {NoWindow}]

\* A request that is at work came from somebody, has a limit to look at or a
\* file to add, and counts in a window that is not purged yet.
AtWork(q) == q.step \notin {"none", "done"}
InOrder(q) ==
  AtWork(q) =>
    /\ q.visitor \in Visitors /\ q.process \in Processes
    /\ q.step = "limits" => q.check \in 1..Len(Shared)
    /\ q.step = "commit" => q.files > 0
    /\ q.window # NoWindow =>
         q.step = "limits" /\ clock < ExpiresAt(q.window, Shared[q.check].window)
RequestsMakeSense ==
  request \in [Requests -> Request] /\ \A r \in Requests : InOrder(request[r])

\* Finitely many requests have a slot at a process, or came without, and each
\* file that is between its look at the backlog and its commit leaves room for
\* fewer others.
SlotsCounted ==
  /\ inFlight \in [Processes -> Nat]
  /\ \A p \in Processes : IsFiniteSet(ActiveAt(p))
  /\ IsFiniteSet(outside) /\ outside \subseteq Requests
  /\ \A r \in outside : request[r].step # "none"
RoomLeft ==
  /\ backlog + JobsPerFile[kind] * Cardinality(BeforeCommit) <=
       MaxBacklog[kind] - 1 + JobsPerFile[kind] * busiest
  /\ Cardinality(BeforeCommit) <= busiest
  /\ busiest <= Slots * Cardinality(Processes) + Cardinality(outside)

\* What passed was counted, until no request can count in that window any more.
PassedAreCounted ==
  /\ passed \in [KeysOf(Shared) -> [0..MaxTime -> Nat]]
  /\ \A key \in KeysOf(Shared), w \in 0..MaxTime :
       /\ passed[key][w] <= Shared[key[1]].limit
       /\ \/ passed[key][w] <= rows[key][w]
          \/ ExpiresAt(w, Shared[key[1]].window) < clock

\* What check i has counted, and what is on its way to it, has passed the first.
OnTheWay(i) == {r \in Requests : request[r].step = "limits" /\ request[r].check \in 2..i}
FirstPassed == Sum([v \in Visitors |-> Sum(passed[<<1, v>>], 0..MaxTime)], Visitors)
BudgetSpared ==
  Shared[1].bucket = "visitor" =>
    \A key \in KeysOf(Shared) : key[1] > 1 =>
      Sum(rows[key], 0..MaxTime) + Sum([r \in Requests |-> Units(r)], OnTheWay(key[1]))
        <= FirstPassed

IInv ==
  /\ TypeOK
  /\ RequestsMakeSense
  /\ SlotsCounted
  /\ RoomLeft
  /\ PassedAreCounted
  /\ BudgetSpared
=============================================================================
