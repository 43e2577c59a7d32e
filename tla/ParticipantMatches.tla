-------------------------- MODULE ParticipantMatches --------------------------
(***************************************************************************)
(* The participants of an event and their matches with its photos: admins  *)
(* change the participants and rebuild the matches, one admin session at a *)
(* time, while photo jobs bring in the text that OCR read.                 *)
(***************************************************************************)
EXTENDS BibEvidence, Integers, Functions

CONSTANTS
  Photos, Newest,          \* the photos, the last first
  Texts, Readings,         \* what OCR may read; bound: on which photos
  Indexed,                 \* bound: the photos whose text is there at first
  Persons, Bibs,           \* rows of participants, and bib numbers
  Sessions,                \* the browsers of admins
  Requests, Kinds,         \* bound: the changes that are made, and their kinds
  Nobody,
  MaxHandovers             \* bound: takeovers and idle times

AllKinds == {"add", "import", "update", "delete", "delete_all"}

ASSUME MatchesAssumption ==
  /\ Nobody \notin Persons \union Sessions /\ <<>> \notin Bibs
  /\ MaxHandovers \in Nat
  /\ Kinds \subseteq AllKinds
  /\ Newest \in Seq(Photos) /\ IsInjective(Newest) /\ Range(Newest) = Photos
  /\ Readings \subseteq [Photos -> Texts] /\ Indexed \subseteq Photos

VARIABLES
  text,       \* what OCR reads on each photo
  read,       \* photos whose text is committed
  bib,        \* the bib of each participant, <<>> for a row that does not exist
  matches,    \* match_source of each photo and participant
  ocr,        \* the completion of the OCR job of each photo
  request,    \* the requests of admins, see NoRequest
  lock,       \* the row of AdminSessionLock: its session, whether it is idle
  handovers,
  dirty       \* ghost: no complete rebuild has followed what spoils the matches

vars == <<text, read, bib, matches, ocr, request, lock, handovers, dirty>>

Pairs == Photos \X Persons
Sources == {"none", "ocr", "face", "ocr+face"}
Present == {x \in Persons : bib[x] # <<>>}
Taken(b) == {x \in Persons : bib[x] = b}

\* The bibs that OCR completion finds in a text, and those that a rebuild finds.
FoundByOcr == [t \in Texts |-> {b \in Bibs : Normalized(b) \in Candidates(t)}]
FoundByRebuild == [t \in Texts |-> {b \in Bibs : Normalized(b) \in TokenCandidates(t)}]
WithBib(found) == {x \in Present : bib[x] \in found}

\* upsert_final_photo_participant_match with match_source "ocr".
Upserted(rows, found) ==
  [pair \in Pairs |->
     IF pair \notin found THEN rows[pair]
     ELSE IF rows[pair] \in {"none", "ocr"} THEN "ocr" ELSE "ocr+face"]

NoRequest ==
  [step |-> "none", session |-> Nobody, kind |-> "delete_all",
   person |-> Nobody,   \* whom it changes; then whom its handler still holds
   bib |-> <<>>,        \* the new bib; then that person's, as loaded, <<>> if expired
   doomed |-> {},       \* rows of matches that it is about to delete
   demoted |-> {},      \* and those that are to rest on a face only
   loaded |-> <<>>,     \* photos that still are to be matched
   texts |-> {},        \* photos whose text was there when they were loaded
   fresh |-> FALSE,     \* a commit makes the loaded photos be read again
   found |-> {},
   stale |-> FALSE,     \* ghost: participants have changed since found was read
   clean |-> FALSE,     \* ghost: nothing stale was written since it chose them
   late |-> FALSE, ousted |-> FALSE]

Done == [NoRequest EXCEPT !.step = "done"]
InFlight == {r \in Requests : request[r].step \notin {"none", "done"}}
NoReading(step) == [step |-> step, stale |-> FALSE, found |-> {}]

-----------------------------------------------------------------------------
(* The lock that every admin request takes, acquire_admin_lock.            *)

\* A mutant of MayAcquire: the row is overwritten whoever holds it.
MayAcquireAlways(s) == TRUE
MayAcquire(s) == lock.session \in {Nobody, s} \/ lock.idle

Asked(s, kind, x, b) ==
  [NoRequest EXCEPT !.step = "check", !.session = s, !.kind = kind, !.person = x, !.bib = b]
OustedBy(q, s) == [q EXCEPT !.ousted = @ \/ q.session # s]
Outlived(q) == [q EXCEPT !.late = TRUE]

\* The middleware checks once, then the handler runs.
BeginRequest(r, s) ==
  /\ request[r].step = "none"
  /\ MayAcquire(s)
  /\ lock' = [session |-> s, idle |-> FALSE]
  /\ \E kind \in Kinds, x \in Present \union {Nobody}, b \in Bibs \union {<<>>} :
       /\ x = Nobody <=> kind \notin {"update", "delete"}
       /\ b = <<>> <=> kind \in {"delete", "delete_all"}
       /\ request' = [request EXCEPT ![r] = Asked(s, kind, x, b)]
  /\ UNCHANGED <<text, read, bib, matches, ocr, handovers, dirty>>

\* force_admin_lock.
TakeOver(s) ==
  /\ handovers < MaxHandovers /\ lock.session # s
  /\ lock' = [session |-> s, idle |-> FALSE]
  /\ handovers' = handovers + 1
  /\ request' = [r \in Requests |->
                   IF r \in InFlight THEN OustedBy(request[r], s) ELSE request[r]]
  /\ UNCHANGED <<text, read, bib, matches, ocr, dirty>>

\* More than ADMIN_SESSION_TTL passes without an admin request.
Pause ==
  /\ handovers < MaxHandovers /\ lock.session # Nobody
  /\ handovers' = handovers + 1
  /\ lock' = [lock EXCEPT !.idle = TRUE]
  /\ request' = [r \in Requests |->
                   IF r \in InFlight THEN Outlived(request[r]) ELSE request[r]]
  /\ UNCHANGED <<text, read, bib, matches, ocr, dirty>>

-----------------------------------------------------------------------------
(* The change of the participants.                                         *)

\* Those who have read participants that change now, some of them gone with
\* the rows of their matches.
Staled(q, gone) ==
  [q EXCEPT !.stale = @ \/ q.step = "write", !.clean = FALSE,
            !.person = IF @ \in gone THEN Nobody ELSE @,
            !.doomed = {pair \in @ : pair[2] \notin gone}]
StaledReading(o) == [o EXCEPT !.stale = @ \/ o.step = "write"]
\* The request goes on with the change it asked for, or writes over x.
Found(q) == [q EXCEPT !.step = "change"]
FoundTaken(q, x) == [q EXCEPT !.step = "change", !.kind = "overwrite", !.person = x]
\* The routes that add and update hold on to the participant x.
Changed(q, x) ==
  [q EXCEPT !.step = "clear", !.kind = "delete_all", !.bib = <<>>,
            !.person = IF q.kind \in {"add", "update"} THEN x ELSE Nobody]

\* The lookup of the bib, before the row is written: add and update refuse
\* one that another participant has, an import updates that participant.
Check(r) ==
  LET q == request[r]
      others == Taken(q.bib) \ {q.person}
  IN /\ q.step = "check" /\ q.kind \in {"add", "import", "update"}
     /\ request' = [request EXCEPT ![r] =
          CASE others = {} -> Found(@)
            [] others # {} /\ q.kind = "import" -> FoundTaken(@, CHOOSE x \in others : TRUE)
            [] OTHER -> Done]
     /\ UNCHANGED <<text, read, bib, matches, ocr, lock, handovers, dirty>>

Changes(r, x, newBib, gone, newMatches) ==
  /\ bib' = newBib
  /\ matches' = newMatches
  /\ request' = [o \in Requests |->
                   IF o = r THEN Changed(request[o], x) ELSE Staled(request[o], gone)]
  /\ ocr' = [p \in Photos |-> StaledReading(ocr[p])]
  /\ dirty' = TRUE
  /\ UNCHANGED <<text, read, lock, handovers>>

\* The row: the one that was loaded for update, else a new one.
Rows(r) == IF request[r].kind \in {"update", "overwrite"}
             THEN {request[r].person} \intersect Present
           ELSE Persons \ Present
\* A mutant of Writable: no unique constraint decides.
WritableAnyway(r, x) == TRUE
Writable(r, x) == Taken(request[r].bib) \subseteq {x}

Save(r) ==
  /\ request[r].step = "change"
  /\ \E x \in Rows(r) :
       /\ Writable(r, x)
       /\ Changes(r, x, [bib EXCEPT ![x] = request[r].bib], {}, matches)

\* The bib was taken meanwhile, or the row deleted: the request fails. A new
\* row for which Persons leaves none is not added either.
SaveFails(r) ==
  /\ request[r].step = "change" /\ \A x \in Rows(r) : ~Writable(r, x)
  /\ request' = [request EXCEPT ![r] = Done]
  /\ UNCHANGED <<text, read, bib, matches, ocr, lock, handovers, dirty>>

\* delete_participant and delete_all_participants, with the matches.
Delete(r) ==
  /\ request[r].step = "check" /\ request[r].kind \in {"delete", "delete_all"}
  /\ LET gone == IF request[r].kind = "delete" THEN {request[r].person} ELSE Present
     IN Changes(r, Nobody, [x \in Persons |-> IF x \in gone THEN <<>> ELSE bib[x]], gone,
                   [pair \in Pairs |-> IF pair[2] \in gone THEN "none" ELSE matches[pair]])

-----------------------------------------------------------------------------
(* rebuild_event_photo_matches.                                            *)

\* A commit of what a stale reading found spoils other rebuilds, and so does a
\* clearing those that have loaded the photos.
Soil(q, stale) == [q EXCEPT !.clean = @ /\ ~stale]
Undone(q, gone) ==
  [q EXCEPT !.clean = @ /\ q.step \notin {"photos", "write"}, !.doomed = @ \ gone]

\* The steps of a rebuild. Every commit expires what the session has loaded.
Choosing(q, rows) ==
  [q EXCEPT !.step = "clearing", !.clean = TRUE,
            !.doomed = {pair \in Pairs : rows[pair] = "ocr"},
            !.demoted = {pair \in Pairs : rows[pair] = "ocr+face"}]
Clearing(q) == [q EXCEPT !.step = "load", !.doomed = {}, !.demoted = {}]
Loading(q, texts) == [q EXCEPT !.step = "photos", !.loaded = Newest, !.texts = texts]
Skipping(q) == [q EXCEPT !.loaded = Tail(@)]
Matching(q, found, held, stale) ==
  [q EXCEPT !.loaded = Tail(@), !.found = found, !.bib = held, !.stale = stale /\ found # {},
            !.step = IF found = {} THEN "photos" ELSE "write"]
Writing(q) ==
  [q EXCEPT !.step = "photos", !.found = {}, !.stale = FALSE, !.fresh = TRUE, !.bib = <<>>]

\* A mutant of Cleared: what OCR found stays.
ClearedNothing(q, rows) == rows
\* A mutant of Cleared: matches of a face and a text are deleted too.
ClearedAll(q, rows) ==
  [pair \in Pairs |-> IF pair \in q.doomed \union q.demoted THEN "none" ELSE rows[pair]]
Cleared(q, rows) ==
  [pair \in Pairs |-> IF pair \in q.doomed THEN "none"
                      ELSE IF pair \in q.demoted THEN "face" ELSE rows[pair]]

\* The rows are selected without a lock.
ClearRead(r) ==
  /\ request[r].step = "clear"
  /\ request' = [request EXCEPT ![r] = Choosing(@, matches)]
  /\ UNCHANGED <<text, read, bib, matches, ocr, lock, handovers, dirty>>

\* By primary key: a row that was made since stays, one that is gone already is
\* not missed if it was to be deleted, but if it was to be updated.
Updatable(q) == \A pair \in q.demoted : matches[pair] \in {"face", "ocr+face"}

ClearCommit(r) ==
  /\ request[r].step = "clearing" /\ Updatable(request[r])
  /\ matches' = Cleared(request[r], matches)
  /\ request' = [o \in Requests |->
                   IF o = r THEN Clearing(request[o]) ELSE Undone(request[o], request[r].doomed)]
  /\ dirty' = TRUE
  /\ UNCHANGED <<text, read, bib, ocr, lock, handovers>>

ClearFails(r) ==
  /\ request[r].step = "clearing" /\ ~Updatable(request[r])
  /\ request' = [request EXCEPT ![r] = Done]
  /\ UNCHANGED <<text, read, bib, matches, ocr, lock, handovers, dirty>>

Load(r) ==
  /\ request[r].step = "load"
  /\ request' = [request EXCEPT ![r] = Loading(@, read)]
  /\ UNCHANGED <<text, read, bib, matches, ocr, lock, handovers, dirty>>

\* A participant that the session still holds is not loaded again.
BibSeen(q, x) == IF x = q.person /\ q.bib # <<>> THEN q.bib ELSE bib[x]
\* Of participants with the same bib, one of them outdated, one is found.
OneOfEach(q, found) ==
  {chosen \in SUBSET {x \in Present : BibSeen(q, x) \in found} :
     \A x \in Present : BibSeen(q, x) \in found =>
       \E y \in chosen : \A z \in chosen : BibSeen(q, z) = BibSeen(q, x) <=> z = y}
HasText(q, p) == p \in (IF q.fresh THEN read ELSE q.texts)

\* create_participant_matches for one photo: what it finds, and the commit.
Match(r) ==
  /\ request[r].step = "photos" /\ request[r].loaded # <<>>
  /\ LET q == request[r]
         p == Head(q.loaded)
         holds == q.person \in Present
         held == IF holds THEN BibSeen(q, q.person) ELSE q.bib
         stale == holds /\ held # bib[q.person]
     IN /\ HasText(q, p)
        /\ \E chosen \in OneOfEach(q, FoundByRebuild[text[p]]) :
             request' = [request EXCEPT ![r] = Matching(@, {p} \X chosen, held, stale)]
  /\ UNCHANGED <<text, read, bib, matches, ocr, lock, handovers, dirty>>

\* A photo without text.
Skip(r) ==
  /\ request[r].step = "photos" /\ request[r].loaded # <<>>
  /\ ~HasText(request[r], Head(request[r].loaded))
  /\ request' = [request EXCEPT ![r] = Skipping(@)]
  /\ UNCHANGED <<text, read, bib, matches, ocr, lock, handovers, dirty>>

WriteMatches(r) ==
  LET q == request[r]
  IN /\ q.step = "write"
     /\ q.found \subseteq Photos \X Present
     /\ matches' = Upserted(matches, q.found)
     /\ request' = [o \in Requests |->
          Soil(IF o = r THEN Writing(request[o]) ELSE request[o], q.stale)]
     /\ dirty' = (dirty \/ q.stale)
     /\ UNCHANGED <<text, read, bib, ocr, lock, handovers>>

\* A participant that was deleted meanwhile: the foreign key fails the request.
RebuildFails(r) ==
  /\ request[r].step = "write" /\ ~(request[r].found \subseteq Photos \X Present)
  /\ request' = [request EXCEPT ![r] = Done]
  /\ UNCHANGED <<text, read, bib, matches, ocr, lock, handovers, dirty>>

EndRequest(r) ==
  /\ request[r].step = "photos" /\ request[r].loaded = <<>>
  /\ request' = [request EXCEPT ![r] = Done]
  /\ dirty' = (dirty /\ ~request[r].clean)
  /\ UNCHANGED <<text, read, bib, matches, ocr, lock, handovers>>

\* The process may die between the change and the end of the rebuild.
Die(r) ==
  /\ request[r].step \in {"clear", "clearing", "load", "photos", "write"}
  /\ request' = [request EXCEPT ![r] = Done]
  /\ UNCHANGED <<text, read, bib, matches, ocr, lock, handovers, dirty>>

-----------------------------------------------------------------------------
(* complete_photo_ocr_job: what it finds, and the commit.                  *)

OcrRead(p) ==
  /\ ocr[p].step = "none"
  /\ ocr' = [ocr EXCEPT ![p] = [step |-> "write", stale |-> FALSE,
                                found |-> {p} \X WithBib(FoundByOcr[text[p]])]]
  /\ UNCHANGED <<text, read, bib, matches, request, lock, handovers, dirty>>

OcrCommit(p) ==
  /\ ocr[p].step = "write" /\ ocr[p].found \subseteq Photos \X Present
  /\ matches' = Upserted(matches, ocr[p].found)
  /\ read' = read \union {p}
  /\ ocr' = [ocr EXCEPT ![p] = NoReading("done")]
  /\ dirty' = (dirty \/ ocr[p].stale)
  /\ request' = [r \in Requests |-> Soil(request[r], ocr[p].stale)]
  /\ UNCHANGED <<text, bib, lock, handovers>>

\* A participant that was deleted meanwhile: the completion is sent again.
OcrFails(p) ==
  /\ ocr[p].step = "write" /\ ~(ocr[p].found \subseteq Photos \X Present)
  /\ ocr' = [ocr EXCEPT ![p] = NoReading("none")]
  /\ UNCHANGED <<text, read, bib, matches, request, lock, handovers, dirty>>

-----------------------------------------------------------------------------
\* An event with one participant, who may have been enrolled by a face that
\* matches a photo.
Init ==
  /\ text \in Readings
  /\ read = Indexed
  /\ \E x \in Persons, b \in Bibs : bib = [y \in Persons |-> IF x = y THEN b ELSE <<>>]
  /\ \E faces \in SUBSET (Photos \X Present) :
       /\ Cardinality(faces) <= 1
       /\ matches = Upserted([pair \in Pairs |-> IF pair \in faces THEN "face" ELSE "none"],
                             UNION {{p} \X WithBib(FoundByOcr[text[p]]) : p \in Indexed})
  /\ ocr = [p \in Photos |-> NoReading(IF p \in Indexed THEN "done" ELSE "none")]
  /\ request = [r \in Requests |-> NoRequest]
  /\ lock = [session |-> Nobody, idle |-> FALSE]
  /\ handovers = 0
  /\ dirty = FALSE

Handle(r) ==
  Check(r) \/ Save(r) \/ SaveFails(r) \/ Delete(r)
    \/ ClearRead(r) \/ ClearCommit(r) \/ ClearFails(r) \/ Load(r)
    \/ Match(r) \/ Skip(r) \/ WriteMatches(r) \/ RebuildFails(r)
    \/ EndRequest(r) \/ Die(r)

Next ==
  \/ \E s \in Sessions : TakeOver(s) \/ \E r \in Requests : BeginRequest(r, s)
  \/ \E r \in Requests : Handle(r)
  \/ \E p \in Photos : OcrRead(p) \/ OcrCommit(p) \/ OcrFails(p)
  \/ Pause

Spec == Init /\ [][Next]_vars

-----------------------------------------------------------------------------
(* Properties.                                                             *)

Request ==
  [step : {"none", "check", "change", "clear", "clearing", "load", "photos", "write", "done"},
   session : Sessions \union {Nobody}, kind : AllKinds \union {"overwrite"},
   person : Persons \union {Nobody}, bib : Bibs \union {<<>>},
   doomed : SUBSET Pairs, demoted : SUBSET Pairs,
   loaded : Seq(Photos), texts : SUBSET Photos, fresh : BOOLEAN, found : SUBSET Pairs,
   stale : BOOLEAN, clean : BOOLEAN, late : BOOLEAN, ousted : BOOLEAN]
Reading == [step : {"none", "write", "done"}, stale : BOOLEAN, found : SUBSET Pairs]

Types ==
  /\ text \in [Photos -> Texts] /\ read \subseteq Photos
  /\ bib \in [Persons -> Bibs \union {<<>>}]
  /\ matches \in [Pairs -> Sources]
  /\ ocr \in [Photos -> Reading]
  /\ request \in [Requests -> Request]
  /\ lock \in [session : Sessions \union {Nobody}, idle : BOOLEAN]
  /\ handovers \in 0..MaxHandovers /\ dirty \in BOOLEAN

\* The unique bib of an event and the foreign keys of its matches hold.
Constraints ==
  /\ \A x, y \in Present : bib[x] = bib[y] => x = y
  /\ \A pair \in Pairs : matches[pair] # "none" => pair[2] \in Present

TypeOK == Types /\ Constraints

\* While an admin request runs, its session holds the lock, unless another has
\* taken over or the request outlived the idle time: so that two admins change
\* participants at once only then.
SingleAdmin ==
  \A r \in InFlight :
    lock.session = request[r].session \/ request[r].ousted \/ request[r].late

\* Once a rebuild has run to its end that selected the rows to clear after the
\* last change of participants, and loaded the photos after the last clearing,
\* with nothing written since that was found among the participants of before,
\* a photo is matched by text with those it shows: all whose bib is a token of
\* the text, and none whose bib is not a candidate. Rows that completions make
\* or write over between the selection and its commit, requests that only look
\* or select, and OCR completions after the end do not disturb that.
Matched(p, x) == matches[<<p, x>>] \in {"ocr", "ocr+face"}
NoneWrong == \A p \in Photos, x \in Present : Matched(p, x) => bib[x] \in FoundByOcr[text[p]]
MatchesExact ==
  ~dirty =>
    /\ NoneWrong
    /\ \A p \in read, x \in Present : bib[x] \in FoundByRebuild[text[p]] => Matched(p, x)

\* A match that rests on a face keeps resting on it, whatever rebuilds and
\* completions overlap, as long as its participant exists.
FaceMatchesKept ==
  [][\A pair \in Pairs :
       matches[pair] \in {"face", "ocr+face"} /\ bib'[pair[2]] # <<>> =>
         matches'[pair] \in {"face", "ocr+face"}]_vars

-----------------------------------------------------------------------------
(* The inductive invariant behind them.                                    *)

\* The lock is the session's, and is not idle, until it is taken over or the
\* idle time passes.
LockHeld ==
  \A r \in InFlight :
    /\ request[r].session \in Sessions
    /\ \/ request[r].ousted \/ request[r].late
       \/ lock.session = request[r].session /\ ~lock.idle

\* Only a rebuild is clean, it starts with nothing loaded, and only one that
\* clears has rows to clear, which no face has joined if it deletes them; only a
\* change of one row writes one.
StepsMakeSense ==
  \A r \in Requests :
    LET q == request[r]
        removes == q.kind \in {"delete", "delete_all"}
    IN /\ q.clean => q.step \in {"clearing", "load", "photos", "write"}
       /\ q.step = "clear" => q.bib = <<>>
       /\ q.step # "clearing" => q.doomed = {} /\ q.demoted = {}
       /\ \A pair \in q.doomed : matches[pair] = "ocr"
       /\ q.step = "change" => ~removes
       /\ q.step \in {"check", "change"} /\ ~removes => q.bib # <<>>

\* What a rebuild found, unless participants have changed since.
FindingsHold ==
  \A r \in Requests :
    LET q == request[r]
    IN /\ q.texts \subseteq read
       /\ q.found \subseteq read \X Persons
       /\ q.step = "write" /\ ~q.stale =>
            \A pair \in q.found : bib[pair[2]] \in FoundByRebuild[text[pair[1]]]

\* The same for a completion of an OCR job, which finds all of them.
ReadingsHold ==
  \A p \in Photos :
    /\ ocr[p].found \subseteq {p} \X Persons
    /\ ocr[p].step = "write" /\ ~ocr[p].stale =>
         \A x \in Persons : <<p, x>> \in ocr[p].found <=> bib[x] \in FoundByOcr[text[p]]

\* A photo whose text is not committed has no match by text.
MatchedAreRead == \A p \in Photos, x \in Persons : Matched(p, x) => p \in read

\* The rebuild r is still going to match photo p with x.
Pending(r, p, x) ==
  LET q == request[r]
  IN \/ q.step \in {"clearing", "load"}
     \/ p \in Range(q.loaded) /\ (q.fresh \/ p \in q.texts)
     \/ q.step = "write" /\ <<p, x>> \in q.found

\* While a rebuild is clean, nothing wrong is matched but what it is about to
\* clear, it misses nothing but what it has not come to, and the participant
\* it holds is as loaded.
CleanOnTheWay ==
  \A r \in Requests : request[r].clean =>
    LET q == request[r]
    IN /\ \A p \in Photos, x \in Present :
            Matched(p, x) /\ bib[x] \notin FoundByOcr[text[p]] =>
              <<p, x>> \in q.doomed \union q.demoted
       /\ \A p \in read, x \in Present :
            bib[x] \in FoundByRebuild[text[p]] => Matched(p, x) \/ Pending(r, p, x)
       /\ q.bib # <<>> /\ q.person \in Present => q.bib = bib[q.person]

IInv ==
  /\ TypeOK /\ LockHeld /\ StepsMakeSense /\ FindingsHold /\ ReadingsHold
  /\ MatchedAreRead /\ CleanOnTheWay /\ MatchesExact
=============================================================================
