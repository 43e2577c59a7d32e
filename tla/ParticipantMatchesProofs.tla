----------------------- MODULE ParticipantMatchesProofs -----------------------
(***************************************************************************)
(* Proofs about ParticipantMatches: bibs stay unique, admins exclude each  *)
(* other, matches by face survive, and an undisturbed rebuild leaves the   *)
(* matches exact, for every event, every text and every number of admins.  *)
(***************************************************************************)
EXTENDS ParticipantMatches, TLAPS

(* What the steps of a request leave alone in its record.                  *)
SameAdmin(q, n) == n.session = q.session /\ n.late = q.late /\ n.ousted = q.ousted
SameAsk(q, n) == n.step = q.step /\ n.kind = q.kind /\ n.bib = q.bib
SameWork(q, n) ==
  n.loaded = q.loaded /\ n.texts = q.texts /\ n.fresh = q.fresh /\ n.found = q.found
SameMarks(q, n) == n.stale = q.stale /\ n.clean = q.clean
SameRows(q, n) == n.doomed = q.doomed /\ n.demoted = q.demoted
\* Others may only spoil what it has read and found.
Passed(q, n) ==
  /\ SameAsk(q, n) /\ SameWork(q, n)
  /\ n.doomed \subseteq q.doomed /\ n.demoted = q.demoted
  /\ n.clean => q.clean /\ n.person = q.person
  /\ q.stale => n.stale

\* The records of requests that begin and end are requests.
LEMMA EdgeTypes ==
  /\ NoRequest \in Request /\ Done \in Request
  /\ \A s \in Sessions, kind \in AllKinds, x \in Persons \union {Nobody}, b \in Bibs \union {<<>>} :
       Asked(s, kind, x, b) \in Request
  <1>1. NoRequest \in Request
    BY DEF NoRequest, Request, AllKinds
  <1>2. Done \in Request
    BY <1>1 DEF Done, Request
  <1>3. ASSUME NEW s \in Sessions, NEW kind \in AllKinds, NEW x \in Persons \union {Nobody},
               NEW b \in Bibs \union {<<>>}
        PROVE  Asked(s, kind, x, b) \in Request
    BY <1>1 DEF Asked, Request
  <1>4. QED
    BY <1>1, <1>2, <1>3

\* Neither a request that begins nor one that ended has read or found anything.
LEMMA EdgeFields ==
  /\ NoRequest.step = "none" /\ NoRequest.found = {} /\ NoRequest.texts = {}
  /\ NoRequest.clean = FALSE /\ NoRequest.doomed = {} /\ NoRequest.demoted = {}
  /\ Done.step = "done" /\ Done.found = {} /\ Done.texts = {} /\ Done.clean = FALSE
  /\ Done.doomed = {} /\ Done.demoted = {}
  /\ \A s, kind, x, b :
       LET q == Asked(s, kind, x, b)
       IN /\ q.step = "check" /\ q.session = s /\ q.kind = kind /\ q.bib = b
          /\ q.found = {} /\ q.texts = {} /\ q.clean = FALSE
          /\ q.doomed = {} /\ q.demoted = {}
  BY DEF NoRequest, Done, Asked

\* Every step keeps the record of a request well-typed.
LEMMA RowTypes ==
  ASSUME NEW q \in Request
  PROVE  /\ \A s : OustedBy(q, s) \in Request
         /\ Outlived(q) \in Request
         /\ \A gone : Staled(q, gone) \in Request
         /\ Found(q) \in Request
         /\ \A x \in Persons : FoundTaken(q, x) \in Request
         /\ \A x \in Persons \union {Nobody} : Changed(q, x) \in Request
         /\ \A stale \in BOOLEAN : Soil(q, stale) \in Request
         /\ \A gone : Undone(q, gone) \in Request
         /\ \A rows : Choosing(q, rows) \in Request
         /\ Clearing(q) \in Request
         /\ \A texts \in SUBSET Photos : Loading(q, texts) \in Request
         /\ q.loaded # <<>> => Skipping(q) \in Request
         /\ \A found \in SUBSET Pairs, held \in Bibs \union {<<>>}, stale \in BOOLEAN :
              q.loaded # <<>> => Matching(q, found, held, stale) \in Request
         /\ Writing(q) \in Request
  <1> USE DEF Request
  <1>1. \A s : OustedBy(q, s) \in Request
    BY DEF OustedBy
  <1>2. Outlived(q) \in Request
    BY DEF Outlived
  <1>3. ASSUME NEW gone
        PROVE  Staled(q, gone) \in Request
    <2> DEFINE rows == {pair \in q.doomed : pair[2] \notin gone}
               x == IF q.person \in gone THEN Nobody ELSE q.person
               mark == q.stale \/ q.step = "write"
    <2>1. rows \in SUBSET Pairs /\ x \in Persons \union {Nobody} /\ mark \in BOOLEAN
      OBVIOUS
    <2>2. Staled(q, gone) =
            [q EXCEPT !.stale = mark, !.clean = FALSE, !.person = x, !.doomed = rows]
      BY DEF Staled
    <2> HIDE DEF rows, x, mark
    <2>3. QED
      BY <2>1, <2>2
  <1>4. Found(q) \in Request
    BY DEF Found
  <1>5. \A x \in Persons : FoundTaken(q, x) \in Request
    BY DEF FoundTaken
  <1>6. ASSUME NEW x \in Persons \union {Nobody}
        PROVE  Changed(q, x) \in Request
    <2> DEFINE y == IF q.kind \in {"add", "update"} THEN x ELSE Nobody
    <2>1. y \in Persons \union {Nobody} /\ "delete_all" \in AllKinds
      BY DEF AllKinds
    <2>2. Changed(q, x) =
            [q EXCEPT !.step = "clear", !.kind = "delete_all", !.bib = <<>>, !.person = y]
      BY DEF Changed
    <2> HIDE DEF y
    <2>3. QED
      BY <2>1, <2>2
  <1>7. ASSUME NEW stale \in BOOLEAN
        PROVE  Soil(q, stale) \in Request
    <2> DEFINE mark == q.clean /\ ~stale
    <2>1. mark \in BOOLEAN
      OBVIOUS
    <2>2. Soil(q, stale) = [q EXCEPT !.clean = mark]
      BY DEF Soil
    <2> HIDE DEF mark
    <2>3. QED
      BY <2>1, <2>2
  <1>8. ASSUME NEW gone
        PROVE  Undone(q, gone) \in Request
    <2> DEFINE mark == q.clean /\ q.step \notin {"photos", "write"}
               rows == q.doomed \ gone
    <2>1. mark \in BOOLEAN /\ rows \in SUBSET Pairs
      OBVIOUS
    <2>2. Undone(q, gone) = [q EXCEPT !.clean = mark, !.doomed = rows]
      BY DEF Undone
    <2> HIDE DEF mark, rows
    <2>3. QED
      BY <2>1, <2>2
  <1>9. \A rows : Choosing(q, rows) \in Request
    BY DEF Choosing
  <1>10. Clearing(q) \in Request
    BY DEF Clearing
  <1>11. \A texts \in SUBSET Photos : Loading(q, texts) \in Request
    BY MatchesAssumption DEF Loading
  <1>12. ASSUME q.loaded # <<>>
         PROVE  Tail(q.loaded) \in Seq(Photos)
    BY <1>12
  <1>13. q.loaded # <<>> => Skipping(q) \in Request
    BY <1>12 DEF Skipping
  <1>14. ASSUME NEW found \in SUBSET Pairs, NEW held \in Bibs \union {<<>>}, NEW stale \in BOOLEAN,
                q.loaded # <<>>
         PROVE  Matching(q, found, held, stale) \in Request
    <2> DEFINE rest == Tail(q.loaded)
               mark == stale /\ found # {}
               step == IF found = {} THEN "photos" ELSE "write"
    <2>1. rest \in Seq(Photos) /\ mark \in BOOLEAN /\ step \in {"photos", "write"}
      BY <1>12, <1>14
    <2>2. Matching(q, found, held, stale) =
            [q EXCEPT !.loaded = rest, !.found = found, !.bib = held, !.stale = mark, !.step = step]
      BY DEF Matching
    <2> HIDE DEF rest, mark, step
    <2>3. QED
      BY <2>1, <2>2
  <1>15. Writing(q) \in Request
    BY DEF Writing
  <1>16. QED
    BY <1>1, <1>2, <1>3, <1>4, <1>5, <1>6, <1>7, <1>8, <1>9, <1>10, <1>11, <1>13, <1>14, <1>15

\* What becomes of the record of a request that others get in the way of.
LEMMA PassedBy ==
  ASSUME NEW q \in Request
  PROVE  /\ SameAdmin(q, q) /\ Passed(q, q)
         /\ Passed(q, Outlived(q)) /\ Outlived(q).session = q.session /\ Outlived(q).late
         /\ SameRows(q, Outlived(q))
  BY DEF Request, SameAdmin, SameAsk, SameWork, SameRows, Passed, Outlived

LEMMA PassedByChange ==
  ASSUME NEW q \in Request, NEW gone
  PROVE  /\ SameAdmin(q, Staled(q, gone)) /\ Passed(q, Staled(q, gone))
         /\ ~Staled(q, gone).clean
         /\ Staled(q, gone).step = "write" => Staled(q, gone).stale
         /\ Staled(q, gone).doomed = {pair \in q.doomed : pair[2] \notin gone}
  BY DEF Request, SameAdmin, SameAsk, SameWork, Passed, Staled

LEMMA PassedByTakeOver ==
  ASSUME NEW q \in Request, NEW s
  PROVE  /\ Passed(q, OustedBy(q, s)) /\ OustedBy(q, s).session = q.session
         /\ SameRows(q, OustedBy(q, s))
         /\ q.late => OustedBy(q, s).late
         /\ q.ousted \/ q.session # s => OustedBy(q, s).ousted
  BY DEF Request, SameAsk, SameWork, SameRows, Passed, OustedBy

LEMMA PassedBySoil ==
  ASSUME NEW q \in Request, NEW stale \in BOOLEAN
  PROVE  /\ SameAdmin(q, Soil(q, stale)) /\ Passed(q, Soil(q, stale))
         /\ SameRows(q, Soil(q, stale))
         /\ Soil(q, stale).stale = q.stale
         /\ Soil(q, stale).clean => q.clean /\ ~stale
  BY DEF Request, SameAdmin, SameAsk, SameWork, SameRows, Passed, Soil

LEMMA PassedByClearing ==
  ASSUME NEW q \in Request, NEW gone
  PROVE  /\ SameAdmin(q, Undone(q, gone)) /\ Passed(q, Undone(q, gone))
         /\ Undone(q, gone).doomed = q.doomed \ gone
         /\ Undone(q, gone).clean => q.step \notin {"photos", "write"}
  BY DEF Request, SameAdmin, SameAsk, SameWork, Passed, Undone

\* What becomes of it in its own steps.
LEMMA ChangeFields ==
  ASSUME NEW q \in Request, NEW x
  PROVE  /\ SameAdmin(q, Found(q)) /\ SameWork(q, Found(q)) /\ SameMarks(q, Found(q))
         /\ SameRows(q, Found(q))
         /\ Found(q).step = "change" /\ Found(q).kind = q.kind /\ Found(q).bib = q.bib
         /\ SameAdmin(q, Changed(q, x)) /\ SameWork(q, Changed(q, x))
         /\ SameMarks(q, Changed(q, x)) /\ SameRows(q, Changed(q, x))
         /\ Changed(q, x).step = "clear" /\ Changed(q, x).bib = <<>>
  BY DEF Request, SameAdmin, SameWork, SameMarks, SameRows, Found, Changed

LEMMA ImportFields ==
  ASSUME NEW q \in Request, NEW x, NEW n, n = FoundTaken(q, x)
  PROVE  /\ SameAdmin(q, n) /\ SameWork(q, n) /\ SameMarks(q, n) /\ SameRows(q, n)
         /\ n.step = "change" /\ n.kind = "overwrite" /\ n.bib = q.bib
  BY DEF Request, SameAdmin, SameWork, SameMarks, SameRows, FoundTaken

LEMMA ChooseFields ==
  ASSUME NEW q \in Request, NEW rows, NEW n, n = Choosing(q, rows)
  PROVE  /\ SameAdmin(q, n) /\ SameWork(q, n) /\ n.stale = q.stale
         /\ n.step = "clearing" /\ n.clean /\ n.bib = q.bib
         /\ n.doomed = {pair \in Pairs : rows[pair] = "ocr"}
         /\ n.demoted = {pair \in Pairs : rows[pair] = "ocr+face"}
  BY DEF Request, SameAdmin, SameWork, Choosing

LEMMA ClearFields ==
  ASSUME NEW q \in Request
  PROVE  /\ SameAdmin(q, Clearing(q)) /\ SameWork(q, Clearing(q)) /\ SameMarks(q, Clearing(q))
         /\ Clearing(q).step = "load" /\ Clearing(q).doomed = {} /\ Clearing(q).demoted = {}
         /\ Clearing(q).bib = q.bib /\ Clearing(q).person = q.person
  BY DEF Request, SameAdmin, SameWork, SameMarks, Clearing

LEMMA LoadFields ==
  ASSUME NEW q \in Request, NEW texts, NEW n, n = Loading(q, texts)
  PROVE  /\ SameAdmin(q, n) /\ SameMarks(q, n) /\ SameRows(q, n)
         /\ n.fresh = q.fresh /\ n.found = q.found /\ n.bib = q.bib /\ n.person = q.person
         /\ n.step = "photos" /\ n.loaded = Newest /\ n.texts = texts
  BY DEF Request, SameAdmin, SameMarks, SameRows, Loading

LEMMA SkipFields ==
  ASSUME NEW q \in Request, NEW n, n = Skipping(q)
  PROVE  /\ SameAdmin(q, n) /\ SameMarks(q, n) /\ SameRows(q, n)
         /\ n.fresh = q.fresh /\ n.found = q.found /\ n.texts = q.texts
         /\ n.bib = q.bib /\ n.person = q.person
         /\ n.step = q.step /\ n.loaded = Tail(q.loaded)
  BY DEF Request, SameAdmin, SameMarks, SameRows, Skipping

LEMMA MatchFields ==
  ASSUME NEW q \in Request, NEW found, NEW held, NEW stale \in BOOLEAN,
         NEW n, n = Matching(q, found, held, stale)
  PROVE  /\ SameAdmin(q, n) /\ SameRows(q, n)
         /\ n.fresh = q.fresh /\ n.texts = q.texts /\ n.clean = q.clean
         /\ found = {} => n.step = "photos"
         /\ found # {} => n.step = "write" /\ n.stale = stale
         /\ n.loaded = Tail(q.loaded) /\ n.found = found
         /\ n.bib = held /\ n.person = q.person
  BY DEF Request, SameAdmin, SameRows, Matching

LEMMA WriteFields ==
  ASSUME NEW q \in Request, NEW n, n = Soil(Writing(q), q.stale)
  PROVE  /\ SameAdmin(q, n) /\ SameRows(q, n) /\ n.loaded = q.loaded /\ n.texts = q.texts
         /\ n.step = "photos" /\ n.found = {} /\ n.fresh /\ n.bib = <<>>
         /\ n.clean => q.clean /\ ~q.stale
  <1> DEFINE w == Writing(q)
  <1>1. w \in Request /\ q.stale \in BOOLEAN
    BY RowTypes DEF Request
  <1>2. /\ SameAdmin(q, w) /\ SameRows(q, w)
        /\ w.loaded = q.loaded /\ w.texts = q.texts /\ w.clean = q.clean
        /\ w.step = "photos" /\ w.found = {} /\ w.fresh = TRUE /\ w.bib = <<>>
    BY DEF Request, SameAdmin, SameRows, Writing
  <1>3. /\ SameAdmin(w, n) /\ Passed(w, n) /\ SameRows(w, n)
        /\ n.clean => w.clean /\ ~q.stale
    BY <1>1, PassedBySoil
  <1>4. QED
    BY <1>2, <1>3 DEF SameAdmin, SameRows, Passed, SameAsk, SameWork

\* The record of a reading of OCR.
LEMMA ReadingRows ==
  /\ \A step \in {"none", "done"} :
       /\ NoReading(step) \in Reading /\ NoReading(step).step = step /\ NoReading(step).found = {}
  /\ \A o \in Reading :
       /\ StaledReading(o) \in Reading
       /\ StaledReading(o).step = o.step /\ StaledReading(o).found = o.found
       /\ StaledReading(o).stale = (o.stale \/ o.step = "write")
  BY DEF NoReading, StaledReading, Reading

\* What is read as a token is read by OCR as well, and is a bib.
LEMMA FoundBibs ==
  ASSUME NEW t \in Texts
  PROVE  /\ FoundByRebuild[t] \subseteq FoundByOcr[t]
         /\ FoundByOcr[t] \subseteq Bibs
  BY DEF FoundByRebuild, FoundByOcr, Candidates

\* A match that is written rests on a text, and on a face if it did.
LEMMA UpsertedRows ==
  ASSUME NEW rows \in [Pairs -> Sources], NEW found \in SUBSET Pairs
  PROVE  /\ Upserted(rows, found) \in [Pairs -> Sources]
         /\ \A pair \in Pairs :
              /\ Upserted(rows, found)[pair] \in {"ocr", "ocr+face"} <=>
                   rows[pair] \in {"ocr", "ocr+face"} \/ pair \in found
              /\ Upserted(rows, found)[pair] = "none" <=> rows[pair] = "none" /\ pair \notin found
              /\ rows[pair] \in {"face", "ocr+face"} =>
                   Upserted(rows, found)[pair] \in {"face", "ocr+face"}
  BY DEF Upserted, Sources

\* Clearing deletes and demotes the rows that were selected, no others, and
\* takes no face away from those that rest on one.
LEMMA ClearedRows ==
  ASSUME NEW rows \in [Pairs -> Sources], NEW q \in Request
  PROVE  /\ Cleared(q, rows) \in [Pairs -> Sources]
         /\ \A pair \in Pairs :
              /\ pair \in q.doomed => Cleared(q, rows)[pair] = "none"
              /\ pair \in q.demoted /\ pair \notin q.doomed => Cleared(q, rows)[pair] = "face"
              /\ pair \notin q.doomed \union q.demoted => Cleared(q, rows)[pair] = rows[pair]
  <1>1. ASSUME NEW pair \in Pairs
        PROVE  /\ Cleared(q, rows)[pair] \in Sources
               /\ pair \in q.doomed => Cleared(q, rows)[pair] = "none"
               /\ pair \in q.demoted /\ pair \notin q.doomed => Cleared(q, rows)[pair] = "face"
               /\ pair \notin q.doomed \union q.demoted => Cleared(q, rows)[pair] = rows[pair]
    BY DEF Cleared, Sources
  <1>2. Cleared(q, rows) \in [Pairs -> Sources]
    BY <1>1 DEF Cleared
  <1>3. QED
    BY <1>1, <1>2

-----------------------------------------------------------------------------
(* Types.                                                                  *)

\* What a rebuild finds for a photo.
LEMMA WhatIsFound ==
  ASSUME Types, NEW r \in Requests, Match(r)
  PROVE  LET q == request[r]
             p == Head(q.loaded)
             holds == q.person \in Present
             held == IF holds THEN BibSeen(q, q.person) ELSE q.bib
             stale == holds /\ held # bib[q.person]
         IN /\ q.step = "photos" /\ q.loaded # <<>> /\ p \in Photos /\ HasText(q, p)
            /\ held \in Bibs \union {<<>>} /\ stale \in BOOLEAN
            /\ \E chosen \in OneOfEach(q, FoundByRebuild[text[p]]) :
                 /\ {p} \X chosen \in SUBSET Pairs /\ chosen \subseteq Present
                 /\ \A x \in chosen : BibSeen(q, x) \in FoundByRebuild[text[p]]
                 /\ request' = [request EXCEPT ![r] = Matching(q, {p} \X chosen, held, stale)]
                 /\ request'[r] = Matching(q, {p} \X chosen, held, stale)
  <1> DEFINE q == request[r]
             p == Head(q.loaded)
             holds == q.person \in Present
             held == IF holds THEN BibSeen(q, q.person) ELSE q.bib
             stale == holds /\ held # bib[q.person]
  <1>0. q \in Request /\ request \in [Requests -> Request]
    BY DEF Types
  <1>1. q.step = "photos" /\ q.loaded # <<>> /\ HasText(q, p)
    BY DEF Match
  <1>2. q.loaded \in Seq(Photos) /\ q.bib \in Bibs \union {<<>>}
    BY <1>0 DEF Request
  <1>3. p \in Photos
    BY <1>1, <1>2
  <1>4. bib \in [Persons -> Bibs \union {<<>>}]
    BY DEF Types
  <1>5. held \in Bibs \union {<<>>} /\ stale \in BOOLEAN
    BY <1>2, <1>4 DEF BibSeen, Present
  <1>6. PICK chosen \in OneOfEach(q, FoundByRebuild[text[p]]) :
          request' = [request EXCEPT ![r] = Matching(q, {p} \X chosen, held, stale)]
    BY DEF Match
  <1>7. chosen \subseteq Present /\ \A x \in chosen : BibSeen(q, x) \in FoundByRebuild[text[p]]
    BY DEF OneOfEach
  <1>8. {p} \X chosen \in SUBSET Pairs
    BY <1>3, <1>7 DEF Present, Pairs
  <1>9. request'[r] = Matching(q, {p} \X chosen, held, stale)
    BY <1>0, <1>6
  <1>10. QED
    BY <1>1, <1>3, <1>5, <1>6, <1>7, <1>8, <1>9

\* Every step of a request keeps the records of all of them well-typed.
LEMMA RequestTypes ==
  ASSUME Types, NEW r \in Requests, Handle(r)
  PROVE  request' \in [Requests -> Request]
  <1>0. \A o \in Requests : request[o] \in Request
    BY DEF Types
  <1>1. CASE Check(r)
    <2>1. \A x : x \in Taken(request[r].bib) \ {request[r].person} => x \in Persons
      BY DEF Taken
    <2>2. \E q \in Request : request' = [request EXCEPT ![r] = q]
      <3> DEFINE others == Taken(request[r].bib) \ {request[r].person}
      <3>1. CASE others = {}
        BY <1>0, <1>1, <3>1, RowTypes DEF Check
      <3>2. CASE others # {} /\ request[r].kind = "import"
        <4>1. (CHOOSE x \in others : TRUE) \in Persons
          BY <2>1, <3>2
        <4>2. FoundTaken(request[r], CHOOSE x \in others : TRUE) \in Request
          BY <1>0, <4>1, RowTypes
        <4>3. request' = [request EXCEPT ![r] = FoundTaken(request[r], CHOOSE x \in others : TRUE)]
          BY <1>1, <3>2 DEF Check
        <4>4. QED
          BY <4>2, <4>3
      <3>3. CASE others # {} /\ request[r].kind # "import"
        BY <1>1, <3>3, EdgeTypes DEF Check
      <3>4. QED
        BY <3>1, <3>2, <3>3
    <2>3. QED
      BY <2>2 DEF Types
  <1>2. CASE Save(r) \/ Delete(r)
    <2>1. PICK x, gone :
            /\ x \in Persons \union {Nobody}
            /\ request' = [o \in Requests |-> IF o = r THEN Changed(request[o], x)
                                                       ELSE Staled(request[o], gone)]
      <3>1. Rows(r) \subseteq Persons
        BY DEF Rows, Present
      <3>2. QED
        BY <1>2, <3>1 DEF Save, Delete, Changes
    <2>2. \A o \in Requests : Changed(request[o], x) \in Request /\ Staled(request[o], gone) \in Request
      BY <1>0, <2>1, RowTypes
    <2>3. QED
      BY <2>1, <2>2
  <1>3. CASE SaveFails(r) \/ ClearFails(r) \/ RebuildFails(r) \/ EndRequest(r) \/ Die(r)
    BY <1>3, EdgeTypes DEF SaveFails, ClearFails, RebuildFails, EndRequest, Die, Types
  <1>4. CASE ClearRead(r)
    <2>1. Choosing(request[r], matches) \in Request
      BY <1>0, RowTypes
    <2>2. QED
      BY <1>4, <2>1 DEF ClearRead, Types
  <1>5. CASE ClearCommit(r)
    <2>1. \A o \in Requests : /\ Clearing(request[o]) \in Request
                              /\ Undone(request[o], request[r].doomed) \in Request
      BY <1>0, RowTypes
    <2>2. QED
      BY <1>5, <2>1 DEF ClearCommit
  <1>6. CASE Load(r)
    <2>1. Loading(request[r], read) \in Request
      BY <1>0, RowTypes DEF Types
    <2>2. QED
      BY <1>6, <2>1 DEF Load, Types
  <1>7. CASE Match(r)
    <2>1. PICK q \in Request : request' = [request EXCEPT ![r] = q]
      BY <1>0, <1>7, WhatIsFound, RowTypes
    <2>2. QED
      BY <2>1 DEF Types
  <1>8. CASE Skip(r)
    <2>1. Skipping(request[r]) \in Request
      BY <1>0, <1>8, RowTypes DEF Skip
    <2>2. QED
      BY <1>8, <2>1 DEF Skip, Types
  <1>9. CASE WriteMatches(r)
    <2>1. request[r].stale \in BOOLEAN
      BY <1>0 DEF Request
    <2>2. Writing(request[r]) \in Request
      BY <1>0, RowTypes
    <2>3. \A o \in Requests : (IF o = r THEN Writing(request[o]) ELSE request[o]) \in Request
      BY <1>0, <2>2
    <2>4. \A o \in Requests :
            Soil(IF o = r THEN Writing(request[o]) ELSE request[o], request[r].stale) \in Request
      BY <2>1, <2>3, RowTypes
    <2>5. QED
      BY <1>9, <2>4 DEF WriteMatches
  <1>10. QED
    BY <1>1, <1>2, <1>3, <1>4, <1>5, <1>6, <1>7, <1>8, <1>9 DEF Handle

\* The photos whose text is there at first are matched as OCR completion does.
LEMMA AtFirst ==
  ASSUME Init
  PROVE  \E faces \in SUBSET (Photos \X Present) :
           LET found == UNION {{p} \X WithBib(FoundByOcr[text[p]]) : p \in Indexed}
               rows == [pair \in Pairs |-> IF pair \in faces THEN "face" ELSE "none"]
           IN /\ matches = Upserted(rows, found)
              /\ found \in SUBSET Pairs /\ rows \in [Pairs -> Sources]
              /\ \A pair \in found : pair[1] \in Indexed /\ pair[2] \in Present
              /\ \A p \in Indexed, x \in Persons :
                   <<p, x>> \in found <=> x \in WithBib(FoundByOcr[text[p]])
  <1> DEFINE found == UNION {{p} \X WithBib(FoundByOcr[text[p]]) : p \in Indexed}
  <1>1. PICK faces \in SUBSET (Photos \X Present) :
          matches = Upserted([pair \in Pairs |-> IF pair \in faces THEN "face" ELSE "none"], found)
    BY DEF Init
  <1>2. Indexed \subseteq Photos
    BY MatchesAssumption
  <1>3. \A p \in Indexed : WithBib(FoundByOcr[text[p]]) \subseteq Present
    BY DEF WithBib
  <1>4. \A pair \in found : pair[1] \in Indexed /\ pair[2] \in Present /\ pair = <<pair[1], pair[2]>>
    BY <1>3
  <1>5. found \in SUBSET Pairs
    BY <1>2, <1>4 DEF Pairs, Present
  <1>6. [pair \in Pairs |-> IF pair \in faces THEN "face" ELSE "none"] \in [Pairs -> Sources]
    BY DEF Sources
  <1>7. \A p \in Indexed, x \in Persons :
          <<p, x>> \in found <=> x \in WithBib(FoundByOcr[text[p]])
    OBVIOUS
  <1>8. QED
    BY <1>1, <1>4, <1>5, <1>6, <1>7

LEMMA TypesInit == Init => Types
  <1> SUFFICES ASSUME Init PROVE Types
    OBVIOUS
  <1>1. text \in [Photos -> Texts]
    BY MatchesAssumption DEF Init
  <1>2. bib \in [Persons -> Bibs \union {<<>>}]
    BY DEF Init
  <1>10. matches \in [Pairs -> Sources]
    <2>1. PICK rows \in [Pairs -> Sources], found \in SUBSET Pairs : matches = Upserted(rows, found)
      BY AtFirst
    <2>2. QED
      BY <2>1, UpsertedRows
  <1>3. ocr \in [Photos -> Reading]
    BY ReadingRows DEF Init
  <1>4. request \in [Requests -> Request]
    BY EdgeTypes DEF Init
  <1>5. read = Indexed /\ lock = [session |-> Nobody, idle |-> FALSE] /\ handovers = 0 /\ dirty = FALSE
    BY DEF Init
  <1>6. lock \in [session : Sessions \union {Nobody}, idle : BOOLEAN]
    BY <1>5
  <1>7. handovers \in 0..MaxHandovers
    BY <1>5, MatchesAssumption
  <1>8. dirty \in BOOLEAN /\ read \subseteq Photos
    BY <1>5, MatchesAssumption
  <1>9. QED
    BY <1>1, <1>2, <1>3, <1>4, <1>6, <1>7, <1>8, <1>10 DEF Types

LEMMA TypesStep == Types /\ [Next]_vars => Types'
  <1> SUFFICES ASSUME Types, [Next]_vars PROVE Types'
    OBVIOUS
  <1>0. /\ \A r \in Requests : request[r] \in Request
        /\ \A p \in Photos : ocr[p] \in Reading
    BY DEF Types
  <1>1. ASSUME NEW r \in Requests, NEW s \in Sessions, BeginRequest(r, s)
        PROVE  Types'
    <2>1. request' \in [Requests -> Request]
      <3>1. PICK kind \in Kinds, x \in Present \union {Nobody}, b \in Bibs \union {<<>>} :
              request' = [request EXCEPT ![r] = Asked(s, kind, x, b)]
        BY <1>1 DEF BeginRequest
      <3>2. Asked(s, kind, x, b) \in Request
        BY EdgeTypes, MatchesAssumption DEF Present
      <3>3. QED
        BY <3>1, <3>2 DEF Types
    <2>2. QED
      BY <1>1, <2>1 DEF BeginRequest, Types
  <1>2. ASSUME NEW s \in Sessions, TakeOver(s)
        PROVE  Types'
    <2>1. request' \in [Requests -> Request]
      BY <1>0, <1>2, RowTypes DEF TakeOver
    <2>2. QED
      BY <1>2, <2>1, MatchesAssumption DEF TakeOver, Types
  <1>3. CASE Pause
    <2>1. request' \in [Requests -> Request]
      BY <1>0, <1>3, RowTypes DEF Pause
    <2>2. lock' \in [session : Sessions \union {Nobody}, idle : BOOLEAN]
      BY <1>3 DEF Pause, Types
    <2>3. handovers' \in 0..MaxHandovers
      BY <1>3, MatchesAssumption DEF Pause, Types
    <2>4. QED
      BY <1>3, <2>1, <2>2, <2>3 DEF Pause, Types
  <1>4. ASSUME NEW r \in Requests, Handle(r)
        PROVE  Types'
    <2>1. request' \in [Requests -> Request]
      BY <1>4, RequestTypes
    <2>2. CASE Save(r) \/ Delete(r)
      <3>1. PICK x, newBib, gone, newMatches : Changes(r, x, newBib, gone, newMatches)
        BY <2>2 DEF Save, Delete
      <3>2. ocr' \in [Photos -> Reading]
        BY <1>0, <3>1, ReadingRows DEF Changes
      <3>3. bib' \in [Persons -> Bibs \union {<<>>}]
        BY <1>0, <2>2 DEF Save, Delete, Changes, Types, Request
      <3>4. matches' \in [Pairs -> Sources]
        BY <2>2 DEF Save, Delete, Changes, Types, Sources
      <3>5. QED
        BY <2>1, <3>1, <3>2, <3>3, <3>4 DEF Changes, Types
    <2>3. CASE ClearCommit(r)
      BY <1>0, <2>1, <2>3, ClearedRows DEF ClearCommit, Types
    <2>4. CASE WriteMatches(r)
      <3>1. request[r].found \in SUBSET Pairs /\ request[r].stale \in BOOLEAN
        BY <1>0 DEF Request
      <3>2. matches' \in [Pairs -> Sources]
        BY <2>4, <3>1, UpsertedRows DEF WriteMatches, Types
      <3>3. QED
        BY <2>1, <2>4, <3>1, <3>2 DEF WriteMatches, Types
    <2>5. CASE \/ Check(r) \/ SaveFails(r) \/ ClearRead(r) \/ ClearFails(r) \/ Load(r) \/ Match(r)
               \/ Skip(r) \/ RebuildFails(r) \/ Die(r)
      BY <2>1, <2>5 DEF Check, SaveFails, ClearRead, ClearFails, Load, Match, Skip, RebuildFails, Die,
                        Types
    <2>6. CASE EndRequest(r)
      BY <2>1, <2>6, <1>0 DEF EndRequest, Types, Request
    <2>7. QED
      BY <1>4, <2>2, <2>3, <2>4, <2>5, <2>6 DEF Handle
  <1>5. ASSUME NEW p \in Photos, OcrRead(p)
        PROVE  Types'
    <2>1. {p} \X WithBib(FoundByOcr[text[p]]) \in SUBSET Pairs
      BY DEF WithBib, Present, Pairs
    <2>2. [step |-> "write", stale |-> FALSE,
           found |-> {p} \X WithBib(FoundByOcr[text[p]])] \in Reading
      BY <2>1 DEF Reading
    <2>3. QED
      BY <1>5, <2>2 DEF OcrRead, Types
  <1>6. ASSUME NEW p \in Photos, OcrCommit(p)
        PROVE  Types'
    <2>1. ocr[p].found \in SUBSET Pairs /\ ocr[p].stale \in BOOLEAN
      BY <1>0 DEF Reading
    <2>2. matches' \in [Pairs -> Sources]
      BY <1>6, <2>1, UpsertedRows DEF OcrCommit, Types
    <2>3. request' \in [Requests -> Request]
      BY <1>0, <1>6, <2>1, RowTypes DEF OcrCommit
    <2>4. ocr' \in [Photos -> Reading]
      BY <1>6, ReadingRows DEF OcrCommit, Types
    <2>5. QED
      BY <1>6, <2>1, <2>2, <2>3, <2>4 DEF OcrCommit, Types
  <1>7. ASSUME NEW p \in Photos, OcrFails(p)
        PROVE  Types'
    BY <1>7, ReadingRows DEF OcrFails, Types
  <1>8. CASE UNCHANGED vars
    BY <1>8 DEF vars, Types
  <1>9. QED
    BY <1>1, <1>2, <1>3, <1>4, <1>5, <1>6, <1>7, <1>8 DEF Next

-----------------------------------------------------------------------------
(* What a step does to the record of a request.                            *)

\* The steps of a request pass all others by.
LEMMA OthersSteps ==
  ASSUME Types, NEW r \in Requests, Handle(r), NEW o \in Requests, o # r
  PROVE  \/ /\ Save(r) \/ Delete(r)
            /\ \E gone : request'[o] = Staled(request[o], gone)
         \/ ClearCommit(r) /\ request'[o] = Undone(request[o], request[r].doomed)
         \/ WriteMatches(r) /\ request'[o] = Soil(request[o], request[r].stale)
         \/ /\ request'[o] = request[o]
            /\ ~Save(r) /\ ~Delete(r) /\ ~ClearCommit(r) /\ ~WriteMatches(r)
  <1>1. CASE Save(r) \/ Delete(r)
    BY <1>1 DEF Save, Delete, Changes
  <1>2. CASE ClearCommit(r)
    BY <1>2 DEF ClearCommit
  <1>3. CASE WriteMatches(r)
    BY <1>3 DEF WriteMatches
  <1>4. CASE ~Save(r) /\ ~Delete(r) /\ ~ClearCommit(r) /\ ~WriteMatches(r)
    BY <1>4 DEF Handle, Check, SaveFails, ClearRead, ClearFails, Load, Match, Skip, RebuildFails, EndRequest,
                Die, Types
  <1>5. QED
    BY <1>1, <1>2, <1>3, <1>4 DEF Handle

LEMMA Bystanders ==
  ASSUME Types, NEW r \in Requests, Handle(r), NEW o \in Requests, o # r
  PROVE  SameAdmin(request[o], request'[o]) /\ Passed(request[o], request'[o])
  <1>0. request[o] \in Request /\ request[r].stale \in BOOLEAN
    BY DEF Types, Request
  <1>1. CASE request'[o] = request[o]
    BY <1>0, <1>1, PassedBy
  <1>2. CASE \E gone : request'[o] = Staled(request[o], gone)
    BY <1>0, <1>2, PassedByChange
  <1>3. CASE \E gone : request'[o] = Undone(request[o], gone)
    BY <1>0, <1>3, PassedByClearing
  <1>4. CASE request'[o] = Soil(request[o], request[r].stale)
    BY <1>0, <1>4, PassedBySoil
  <1>5. QED
    BY <1>1, <1>2, <1>3, <1>4, OthersSteps

\* OCR completions and what happens to the lock pass all requests by.
LEMMA PassedByOcr ==
  ASSUME Types, NEW p \in Photos, OcrRead(p) \/ OcrCommit(p) \/ OcrFails(p), NEW o \in Requests
  PROVE  /\ SameAdmin(request[o], request'[o]) /\ Passed(request[o], request'[o])
         /\ SameRows(request[o], request'[o])
  <1>0. request[o] \in Request
    BY DEF Types
  <1>1. request'[o] = request[o] \/ \E stale \in BOOLEAN : request'[o] = Soil(request[o], stale)
    BY DEF OcrRead, OcrCommit, OcrFails, Types, Reading
  <1>2. QED
    BY <1>0, <1>1, PassedBy, PassedBySoil DEF SameRows

LEMMA PassedByLock ==
  ASSUME Types, (\E s \in Sessions : TakeOver(s)) \/ Pause, NEW o \in Requests
  PROVE  Passed(request[o], request'[o]) /\ SameRows(request[o], request'[o])
  <1>0. request[o] \in Request
    BY DEF Types
  <1>1. \/ request'[o] = request[o] \/ request'[o] = Outlived(request[o])
        \/ \E s : request'[o] = OustedBy(request[o], s)
    BY DEF TakeOver, Pause
  <1>2. QED
    BY <1>0, <1>1, PassedBy, PassedByTakeOver DEF SameRows

\* The own steps of a request, but for those of a photo.
LEMMA OwnSteps ==
  ASSUME Types, NEW r \in Requests
  PROVE  /\ Check(r) =>
              \/ request'[r] = Done \/ request'[r] = Found(request[r])
              \/ \E x : request'[r] = FoundTaken(request[r], x)
         /\ Save(r) \/ Delete(r) => \E x : request'[r] = Changed(request[r], x)
         /\ SaveFails(r) \/ ClearFails(r) \/ RebuildFails(r) \/ EndRequest(r) \/ Die(r) =>
              request'[r] = Done
         /\ ClearRead(r) => request'[r] = Choosing(request[r], matches)
         /\ ClearCommit(r) => request'[r] = Clearing(request[r])
         /\ Load(r) => request'[r] = Loading(request[r], read)
         /\ Skip(r) => request'[r] = Skipping(request[r])
         /\ WriteMatches(r) =>
              request'[r] = Soil(Writing(request[r]), request[r].stale)
  <1>1. Check(r) => \/ request'[r] = Done \/ request'[r] = Found(request[r])
                    \/ \E x : request'[r] = FoundTaken(request[r], x)
    BY DEF Check, Types
  <1>2. Save(r) \/ Delete(r) => \E x : request'[r] = Changed(request[r], x)
    BY DEF Save, Delete, Changes
  <1>3. SaveFails(r) \/ ClearFails(r) \/ RebuildFails(r) \/ EndRequest(r) \/ Die(r) =>
          request'[r] = Done
    BY DEF SaveFails, ClearFails, RebuildFails, EndRequest, Die, Types
  <1>4. /\ ClearRead(r) => request'[r] = Choosing(request[r], matches)
        /\ ClearCommit(r) => request'[r] = Clearing(request[r])
    BY DEF ClearRead, ClearCommit, Types
  <1>5. /\ Load(r) => request'[r] = Loading(request[r], read)
        /\ Skip(r) => request'[r] = Skipping(request[r])
    BY DEF Load, Skip, Types
  <1>6. WriteMatches(r) => request'[r] = Soil(Writing(request[r]), request[r].stale)
    BY DEF WriteMatches
  <1>7. QED
    BY <1>1, <1>2, <1>3, <1>4, <1>5, <1>6

\* While it lasts, a request keeps its session and what happened to the lock.
LEMMA OwnAdmin ==
  ASSUME Types, NEW r \in Requests, Handle(r)
  PROVE  /\ lock' = lock /\ request[r].step \notin {"none", "done"}
         /\ request'[r].step # "done" => SameAdmin(request[r], request'[r])
  <1>0. request[r] \in Request /\ Writing(request[r]) \in Request
    BY RowTypes DEF Types
  <1>1. lock' = lock /\ request[r].step \notin {"none", "done"}
    <2>1. CASE Save(r) \/ Delete(r)
      BY <2>1 DEF Save, Delete, Changes
    <2>2. CASE \/ Check(r) \/ SaveFails(r) \/ ClearRead(r) \/ ClearCommit(r) \/ ClearFails(r) \/ Load(r)
               \/ Match(r) \/ Skip(r) \/ WriteMatches(r) \/ RebuildFails(r) \/ EndRequest(r) \/ Die(r)
      BY <2>2 DEF Check, SaveFails, ClearRead, ClearCommit, ClearFails, Load, Match, Skip, WriteMatches,
                  RebuildFails, EndRequest, Die
    <2>3. QED
      BY <1>0, <2>1, <2>2 DEF Handle
  <1>2. CASE request'[r] = Done
    BY <1>1, <1>2, EdgeFields
  <1>3. CASE request'[r] # Done
    <2>1. CASE Check(r)
      <3>1. CASE request'[r] = Found(request[r])
        BY <1>0, <1>1, <3>1, ChangeFields
      <3>2. CASE \E x : request'[r] = FoundTaken(request[r], x)
        BY <1>0, <1>1, <3>2, ImportFields
      <3>3. QED
        BY <1>3, <2>1, <3>1, <3>2, OwnSteps
    <2>2. CASE Save(r) \/ Delete(r)
      BY <1>0, <1>1, <2>2, OwnSteps, ChangeFields
    <2>3. CASE ClearRead(r)
      BY <1>0, <1>1, <2>3, OwnSteps, ChooseFields
    <2>4. CASE ClearCommit(r)
      BY <1>0, <1>1, <2>4, OwnSteps, ClearFields
    <2>5. CASE Load(r)
      BY <1>0, <1>1, <2>5, OwnSteps, LoadFields
    <2>6. CASE Skip(r)
      BY <1>0, <1>1, <2>6, OwnSteps, SkipFields
    <2>7. CASE Match(r)
      <3>1. PICK found, held, stale :
              stale \in BOOLEAN /\ request'[r] = Matching(request[r], found, held, stale)
        BY <2>7, WhatIsFound
      <3>2. SameAdmin(request[r], Matching(request[r], found, held, stale))
        BY <1>0, <3>1, MatchFields
      <3>3. QED
        BY <1>1, <3>1, <3>2
    <2>8. CASE WriteMatches(r)
      BY <1>0, <1>1, <2>8, OwnSteps, WriteFields
    <2>9. CASE SaveFails(r) \/ ClearFails(r) \/ RebuildFails(r) \/ EndRequest(r) \/ Die(r)
      BY <1>3, <2>9, OwnSteps
    <2>10. QED
      BY <2>1, <2>2, <2>3, <2>4, <2>5, <2>6, <2>7, <2>8, <2>9 DEF Handle
  <1>4. QED
    BY <1>2, <1>3

-----------------------------------------------------------------------------
(* The lock.                                                               *)

LEMMA LockInit == Init => LockHeld
  BY EdgeFields DEF Init, LockHeld, InFlight

LEMMA LockStep == Types /\ LockHeld /\ [Next]_vars => LockHeld'
  <1> SUFFICES ASSUME Types, LockHeld, [Next]_vars, NEW o \in Requests, o \in InFlight'
               PROVE  /\ request'[o].session \in Sessions
                      /\ \/ request'[o].ousted \/ request'[o].late
                         \/ lock'.session = request'[o].session /\ ~lock'.idle
    BY DEF LockHeld, InFlight
  <1>0. /\ request[o] \in Request /\ o \in Requests
        /\ lock \in [session : Sessions \union {Nobody}, idle : BOOLEAN]
    BY DEF Types
  <1>1. ASSUME lock' = lock, o \in InFlight, SameAdmin(request[o], request'[o])
        PROVE  /\ request'[o].session \in Sessions
               /\ \/ request'[o].ousted \/ request'[o].late
                  \/ lock'.session = request'[o].session /\ ~lock'.idle
    BY <1>1 DEF SameAdmin, LockHeld
  <1>2. ASSUME NEW r \in Requests, NEW s \in Sessions, BeginRequest(r, s)
        PROVE  /\ request'[o].session \in Sessions
               /\ \/ request'[o].ousted \/ request'[o].late
                  \/ lock'.session = request'[o].session /\ ~lock'.idle
    <2>0. lock'.session = s /\ ~lock'.idle /\ (lock.session \in {Nobody, s} \/ lock.idle)
      BY <1>2 DEF BeginRequest, MayAcquire
    <2>1. CASE o = r
      <3>1. request'[o].session = s
        BY <1>2, <2>1, EdgeFields DEF BeginRequest, Types
      <3>2. QED
        BY <2>0, <3>1
    <2>2. CASE o # r
      <3>1. request'[o] = request[o]
        BY <1>2, <2>2 DEF BeginRequest, Types
      <3>2. o \in InFlight
        BY <3>1 DEF InFlight
      <3>3. QED
        BY <2>0, <3>1, <3>2, MatchesAssumption DEF LockHeld
    <2>3. QED
      BY <2>1, <2>2
  <1>3. ASSUME NEW s \in Sessions, TakeOver(s)
        PROVE  /\ request'[o].session \in Sessions
               /\ \/ request'[o].ousted \/ request'[o].late
                  \/ lock'.session = request'[o].session /\ ~lock'.idle
    <2>1. o \in InFlight
      BY <1>0, <1>3 DEF TakeOver, InFlight
    <2>2. request'[o] = OustedBy(request[o], s)
      BY <1>3, <2>1 DEF TakeOver
    <2>3. lock'.session = s /\ ~lock'.idle
      BY <1>3 DEF TakeOver
    <2>4. QED
      BY <1>0, <2>1, <2>2, <2>3, PassedByTakeOver DEF LockHeld
  <1>4. CASE Pause
    <2>1. o \in InFlight
      BY <1>0, <1>4 DEF Pause, InFlight
    <2>2. request'[o] = Outlived(request[o])
      BY <1>4, <2>1 DEF Pause
    <2>3. QED
      BY <1>0, <2>1, <2>2, PassedBy DEF LockHeld
  <1>5. ASSUME NEW r \in Requests, Handle(r)
        PROVE  o \in InFlight /\ lock' = lock /\ SameAdmin(request[o], request'[o])
    <2>1. CASE o = r
      BY <1>5, <2>1, OwnAdmin DEF InFlight
    <2>2. CASE o # r
      BY <1>5, <2>2, Bystanders, OwnAdmin DEF InFlight, Passed, SameAsk
    <2>3. QED
      BY <2>1, <2>2
  <1>6. ASSUME NEW p \in Photos, OcrRead(p) \/ OcrCommit(p) \/ OcrFails(p)
        PROVE  o \in InFlight /\ lock' = lock /\ SameAdmin(request[o], request'[o])
    <2>1. lock' = lock
      BY <1>6 DEF OcrRead, OcrCommit, OcrFails
    <2>2. QED
      BY <1>6, <2>1, PassedByOcr DEF InFlight, Passed, SameAsk
  <1>7. CASE UNCHANGED vars
    BY <1>1, <1>7 DEF vars, InFlight, SameAdmin
  <1>8. QED
    BY <1>1, <1>2, <1>3, <1>4, <1>5, <1>6, <1>7 DEF Next

-----------------------------------------------------------------------------
(* The constraints of the database.                                        *)

\* Steps that leave the participants alone add matches of present ones only.
LEMMA ConstraintsKept ==
  ASSUME Constraints, bib' = bib,
         \A pair \in Pairs : matches'[pair] # "none" => matches[pair] # "none" \/ pair[2] \in Present
  PROVE  Constraints'
  <1>1. Present' = Present
    BY DEF Present
  <1>2. \A pair \in Pairs : matches'[pair] # "none" => pair[2] \in Present'
    BY <1>1 DEF Constraints
  <1>3. \A x, y \in Present' : bib'[x] = bib'[y] => x = y
    BY <1>1 DEF Constraints
  <1>4. QED
    BY <1>2, <1>3 DEF Constraints

LEMMA ConstraintsUpserted ==
  ASSUME Types, Constraints, bib' = bib,
         NEW found \in SUBSET Pairs, found \subseteq Photos \X Present,
         matches' = Upserted(matches, found)
  PROVE  Constraints'
  <1>1. \A pair \in Pairs : matches'[pair] # "none" => matches[pair] # "none" \/ pair \in found
    BY UpsertedRows DEF Types
  <1>2. \A pair \in found : pair[2] \in Present
    OBVIOUS
  <1>3. QED
    BY <1>1, <1>2, ConstraintsKept

LEMMA ConstraintsInit == Init => Constraints
  <1> SUFFICES ASSUME Init PROVE Constraints
    OBVIOUS
  <1>1. PICK x \in Persons, b \in Bibs : bib = [y \in Persons |-> IF x = y THEN b ELSE <<>>]
    BY DEF Init
  <1>2. \A y \in Present : y = x
    BY <1>1 DEF Present
  <1>3. \A pair \in Pairs : matches[pair] # "none" => pair[2] \in Present
    <2>1. PICK faces \in SUBSET (Photos \X Present), found \in SUBSET Pairs :
            LET rows == [pair \in Pairs |-> IF pair \in faces THEN "face" ELSE "none"]
            IN /\ rows \in [Pairs -> Sources] /\ matches = Upserted(rows, found)
               /\ \A pair \in found : pair[2] \in Present
      BY AtFirst
    <2>2. \A pair \in Pairs : matches[pair] # "none" => pair \in faces \/ pair \in found
      BY <2>1, UpsertedRows
    <2>3. QED
      BY <2>1, <2>2
  <1>4. QED
    BY <1>2, <1>3 DEF Constraints

LEMMA ConstraintsStep ==
  Types /\ StepsMakeSense /\ Constraints /\ [Next]_vars => Constraints'
  <1> SUFFICES ASSUME Types, StepsMakeSense, Constraints, [Next]_vars PROVE Constraints'
    OBVIOUS
  <1>1. ASSUME bib' = bib, matches' = matches
        PROVE  Constraints'
    BY <1>1, ConstraintsKept
  <1>2. ASSUME NEW r \in Requests, Handle(r)
        PROVE  Constraints'
    <2>0. request[r] \in Request
      BY DEF Types
    <2>1. CASE Save(r)
      <3>1. PICK x \in Rows(r) : /\ Writable(r, x) /\ bib' = [bib EXCEPT ![x] = request[r].bib]
                                 /\ matches' = matches
        BY <2>1 DEF Save, Changes
      <3>2. x \in Persons /\ request[r].bib # <<>>
        BY <2>0, <2>1 DEF Rows, Present, Save, StepsMakeSense
      <3>3. Present' = Present \union {x}
        BY <3>1, <3>2 DEF Present, Types
      <3>4. \A y \in Present : bib[y] = request[r].bib => y = x
        BY <3>1 DEF Writable, Taken, Present
      <3>5. \A y \in Present' : bib'[y] = IF y = x THEN request[r].bib ELSE bib[y]
        BY <3>1, <3>2, <3>3 DEF Types, Present
      <3>6. \A y, z \in Present' : bib'[y] = bib'[z] => y = z
        BY <3>3, <3>4, <3>5 DEF Constraints
      <3>7. \A pair \in Pairs : matches'[pair] # "none" => pair[2] \in Present'
        BY <3>1, <3>3 DEF Constraints
      <3>8. QED
        BY <3>6, <3>7 DEF Constraints
    <2>2. CASE Delete(r)
      <3>1. PICK gone : /\ bib' = [x \in Persons |-> IF x \in gone THEN <<>> ELSE bib[x]]
                        /\ matches' = [pair \in Pairs |->
                                         IF pair[2] \in gone THEN "none" ELSE matches[pair]]
        BY <2>2 DEF Delete, Changes
      <3>2. Present' = Present \ gone
        BY <3>1 DEF Present
      <3>3. \A y \in Present' : bib'[y] = bib[y]
        BY <3>1, <3>2 DEF Present
      <3>4. \A y, z \in Present' : bib'[y] = bib'[z] => y = z
        BY <3>2, <3>3 DEF Constraints
      <3>5. \A pair \in Pairs : matches'[pair] # "none" => pair[2] \in Present'
        BY <3>1, <3>2 DEF Constraints
      <3>6. QED
        BY <3>4, <3>5 DEF Constraints
    <2>3. CASE ClearCommit(r)
      <3>1. \A pair \in Pairs :
              matches'[pair] \in {"none", matches[pair]} \/ pair \in request[r].demoted
        BY <2>0, <2>3, ClearedRows DEF ClearCommit, Types
      <3>2. \A pair \in request[r].demoted : matches[pair] # "none"
        BY <2>3 DEF ClearCommit, Updatable
      <3>3. bib' = bib
        BY <2>3 DEF ClearCommit
      <3>4. QED
        BY <3>1, <3>2, <3>3, ConstraintsKept
    <2>4. CASE WriteMatches(r)
      <3>1. request[r].found \in SUBSET Pairs
        BY <2>0 DEF Request
      <3>2. QED
        BY <2>4, <3>1, ConstraintsUpserted DEF WriteMatches
    <2>5. CASE \/ Check(r) \/ SaveFails(r) \/ ClearRead(r) \/ ClearFails(r) \/ Load(r) \/ Match(r)
               \/ Skip(r) \/ RebuildFails(r) \/ EndRequest(r) \/ Die(r)
      BY <1>1, <2>5 DEF Check, SaveFails, ClearRead, ClearFails, Load, Match, Skip, RebuildFails,
                        EndRequest, Die
    <2>6. QED
      BY <1>2, <2>1, <2>2, <2>3, <2>4, <2>5 DEF Handle
  <1>3. ASSUME NEW p \in Photos, OcrCommit(p)
        PROVE  Constraints'
    <2>1. ocr[p].found \in SUBSET Pairs
      BY DEF Types, Reading
    <2>2. QED
      BY <1>3, <2>1, ConstraintsUpserted DEF OcrCommit
  <1>4. ASSUME NEW p \in Photos, OcrRead(p) \/ OcrFails(p)
        PROVE  Constraints'
    BY <1>1, <1>4 DEF OcrRead, OcrFails
  <1>5. ASSUME NEW s \in Sessions, TakeOver(s) \/ Pause \/ \E r \in Requests : BeginRequest(r, s)
        PROVE  Constraints'
    BY <1>1, <1>5 DEF TakeOver, Pause, BeginRequest
  <1>6. CASE Pause \/ UNCHANGED vars
    BY <1>1, <1>6 DEF Pause, vars
  <1>7. QED
    BY <1>2, <1>3, <1>4, <1>5, <1>6 DEF Next

-----------------------------------------------------------------------------
(* The steps of a request follow each other.                               *)

LEMMA SenseInit == Init => StepsMakeSense
  BY EdgeFields DEF Init, StepsMakeSense

\* No row that a request is about to delete is there with a face.
DoomedByText(q) == \A pair \in q.doomed : matches[pair] = "ocr"

LEMMA DoomedStep ==
  ASSUME Types, StepsMakeSense, [Next]_vars, NEW o \in Requests
  PROVE  DoomedByText(request[o])'
  <1> DEFINE q == request[o]
             n == request'[o]
  <1>0. /\ q \in Request /\ (\A r \in Requests : request[r] \in Request)
        /\ matches \in [Pairs -> Sources] /\ DoomedByText(q)
    BY DEF Types, StepsMakeSense, DoomedByText
  <1>1. q.doomed \subseteq Pairs
    BY <1>0 DEF Request
  <1>2. ASSUME n.doomed \subseteq q.doomed, matches' = matches
        PROVE  DoomedByText(request[o])'
    BY <1>0, <1>2 DEF DoomedByText
  <1>3. ASSUME n.doomed \subseteq q.doomed,
               NEW found \in SUBSET Pairs, matches' = Upserted(matches, found)
        PROVE  DoomedByText(request[o])'
    <2>1. ASSUME NEW pair \in Pairs, matches[pair] = "ocr"
          PROVE  Upserted(matches, found)[pair] = "ocr"
      BY <2>1 DEF Upserted
    <2>2. QED
      BY <1>0, <1>1, <1>3, <2>1 DEF DoomedByText
  <1>4. ASSUME NEW r \in Requests, Handle(r)
        PROVE  DoomedByText(request[o])'
    <2>1. r # o => n.doomed \subseteq q.doomed
      BY <1>4, Bystanders DEF Passed
    <2>2. CASE Save(r)
      <3>1. r = o => n.doomed = q.doomed
        BY <1>0, <2>2, OwnSteps, ChangeFields DEF SameRows
      <3>2. matches' = matches
        BY <2>2 DEF Save, Changes
      <3>3. QED
        BY <1>2, <2>1, <3>1, <3>2
    <2>3. CASE Delete(r)
      <3>1. PICK gone : /\ matches' = [pair \in Pairs |->
                                        IF pair[2] \in gone THEN "none" ELSE matches[pair]]
                        /\ r # o => n = Staled(q, gone)
        BY <2>3 DEF Delete, Changes
      <3>2. CASE r = o
        <4>1. q.step = "check"
          BY <2>3, <3>2 DEF Delete
        <4>2. n.doomed = {}
          BY <1>0, <2>3, <3>2, <4>1, OwnSteps, ChangeFields DEF SameRows, StepsMakeSense
        <4>3. QED
          BY <4>2 DEF DoomedByText
      <3>3. CASE r # o
        <4>1. n.doomed = {pair \in q.doomed : pair[2] \notin gone}
          BY <1>0, <3>1, <3>3, PassedByChange
        <4>2. QED
          BY <1>0, <1>1, <3>1, <4>1 DEF DoomedByText
      <3>4. QED
        BY <3>2, <3>3
    <2>4. CASE ClearRead(r)
      <3>1. matches' = matches
        BY <2>4 DEF ClearRead
      <3>2. r = o => n.doomed = {pair \in Pairs : matches[pair] = "ocr"}
        BY <1>0, <2>4, OwnSteps, ChooseFields
      <3>3. QED
        BY <1>2, <2>1, <3>1, <3>2 DEF DoomedByText
    <2>5. CASE ClearCommit(r)
      <3>1. CASE r = o
        BY <1>0, <2>5, <3>1, OwnSteps, ClearFields DEF DoomedByText
      <3>2. CASE r # o
        <4>1. n.doomed = q.doomed \ request[r].doomed
          BY <1>0, <2>5, <3>2, PassedByClearing DEF ClearCommit
        <4>2. matches' = Cleared(request[r], matches)
          BY <2>5 DEF ClearCommit
        <4>3. \A pair \in request[r].demoted : matches[pair] # "ocr"
          BY <2>5 DEF ClearCommit, Updatable
        <4>4. ASSUME NEW pair \in n.doomed
              PROVE  matches'[pair] = "ocr"
          <5>1. pair \in Pairs /\ matches[pair] = "ocr" /\ pair \notin request[r].doomed
            BY <1>0, <1>1, <4>1 DEF DoomedByText
          <5>2. QED
            BY <1>0, <4>2, <4>3, <5>1, ClearedRows
        <4>5. QED
          BY <4>4 DEF DoomedByText
      <3>3. QED
        BY <3>1, <3>2
    <2>6. CASE Match(r)
      <3>1. matches' = matches
        BY <2>6 DEF Match
      <3>2. ASSUME r = o
            PROVE  n.doomed = q.doomed
        <4>1. PICK found, held, stale : stale \in BOOLEAN /\ n = Matching(q, found, held, stale)
          BY <2>6, <3>2, WhatIsFound
        <4>2. QED
          BY <1>0, <4>1, MatchFields DEF SameRows
      <3>3. QED
        BY <1>2, <2>1, <3>1, <3>2
    <2>7. CASE Check(r)
      <3>1. matches' = matches
        BY <2>7 DEF Check
      <3>2. r = o => n.doomed \subseteq q.doomed
        BY <1>0, <2>7, OwnSteps, EdgeFields, ChangeFields, ImportFields DEF SameRows
      <3>3. QED
        BY <1>2, <2>1, <3>1, <3>2
    <2>8. CASE Load(r) \/ Skip(r)
      <3>1. matches' = matches
        BY <2>8 DEF Load, Skip
      <3>2. r = o => n.doomed = q.doomed
        BY <1>0, <2>8, OwnSteps, LoadFields, SkipFields DEF SameRows
      <3>3. QED
        BY <1>2, <2>1, <3>1, <3>2
    <2>9. CASE WriteMatches(r)
      <3>1. request[r].found \in SUBSET Pairs /\ matches' = Upserted(matches, request[r].found)
        BY <1>0, <2>9 DEF WriteMatches, Request
      <3>2. r = o => n.doomed = q.doomed
        BY <1>0, <2>9, OwnSteps, WriteFields DEF SameRows
      <3>3. QED
        BY <1>3, <2>1, <3>1, <3>2
    <2>10. CASE SaveFails(r) \/ ClearFails(r) \/ RebuildFails(r) \/ EndRequest(r) \/ Die(r)
      <3>1. matches' = matches
        BY <2>10 DEF SaveFails, ClearFails, RebuildFails, EndRequest, Die
      <3>2. r = o => n.doomed = {}
        BY <2>10, OwnSteps, EdgeFields
      <3>3. QED
        BY <1>2, <2>1, <3>1, <3>2
    <2>11. QED
      BY <1>4, <2>2, <2>3, <2>4, <2>5, <2>6, <2>7, <2>8, <2>9, <2>10 DEF Handle
  <1>5. ASSUME NEW p \in Photos, OcrRead(p) \/ OcrCommit(p) \/ OcrFails(p)
        PROVE  DoomedByText(request[o])'
    <2>1. n.doomed = q.doomed
      BY <1>5, PassedByOcr DEF SameRows
    <2>2. CASE OcrCommit(p)
      <3>1. ocr[p].found \in SUBSET Pairs /\ matches' = Upserted(matches, ocr[p].found)
        BY <2>2 DEF OcrCommit, Types, Reading
      <3>2. QED
        BY <1>3, <2>1, <3>1
    <2>3. CASE OcrRead(p) \/ OcrFails(p)
      BY <1>2, <2>1, <2>3 DEF OcrRead, OcrFails
    <2>4. QED
      BY <1>5, <2>2, <2>3
  <1>6. CASE (\E s \in Sessions : TakeOver(s)) \/ Pause
    <2>1. n.doomed = q.doomed
      BY <1>6, PassedByLock DEF SameRows
    <2>2. QED
      BY <1>2, <1>6, <2>1 DEF TakeOver, Pause
  <1>7. ASSUME NEW s \in Sessions, NEW r \in Requests, BeginRequest(r, s)
        PROVE  DoomedByText(request[o])'
    <2>1. n = q \/ \E kind, x, b : n = Asked(s, kind, x, b)
      BY <1>7 DEF BeginRequest, Types
    <2>2. n.doomed \subseteq q.doomed
      BY <2>1, EdgeFields
    <2>3. QED
      BY <1>2, <1>7, <2>2 DEF BeginRequest
  <1>8. CASE UNCHANGED vars
    BY <1>2, <1>8 DEF vars
  <1>9. QED
    BY <1>4, <1>5, <1>6, <1>7, <1>8 DEF Next

LEMMA SenseStep == Types /\ StepsMakeSense /\ [Next]_vars => StepsMakeSense'
  <1> DEFINE Sense(q) ==
        /\ q.clean => q.step \in {"clearing", "load", "photos", "write"}
        /\ q.step = "clear" => q.bib = <<>>
        /\ q.step # "clearing" => q.doomed = {} /\ q.demoted = {}
        /\ q.step = "change" => q.kind \notin {"delete", "delete_all"}
        /\ q.step \in {"check", "change"} /\ q.kind \notin {"delete", "delete_all"} => q.bib # <<>>
  <1> SUFFICES ASSUME Types, StepsMakeSense, [Next]_vars, NEW o \in Requests
               PROVE  Sense(request'[o])
    BY DoomedStep DEF StepsMakeSense, DoomedByText
  <1>0. request[o] \in Request /\ Sense(request[o])
    BY DEF Types, StepsMakeSense
  <1>1. ASSUME Passed(request[o], request'[o])
        PROVE  Sense(request'[o])
    BY <1>0, <1>1 DEF Passed, SameAsk
  <1>2. Sense(Done)
    BY EdgeFields
  <1>3. ASSUME NEW s \in Sessions, NEW r \in Requests, BeginRequest(r, s)
        PROVE  Sense(request'[o])
    <2>1. PICK kind \in Kinds, x \in Present \union {Nobody}, b \in Bibs \union {<<>>} :
            /\ b = <<>> <=> kind \in {"delete", "delete_all"}
            /\ request' = [request EXCEPT ![r] = Asked(s, kind, x, b)]
      BY <1>3 DEF BeginRequest
    <2>2. Sense(Asked(s, kind, x, b))
      BY <2>1, EdgeFields
    <2>3. request'[o] \in {request[o], Asked(s, kind, x, b)}
      BY <2>1 DEF Types
    <2>4. QED
      BY <1>0, <2>2, <2>3
  <1>4. ASSUME Handle(o)
        PROVE  Sense(request'[o])
    <2>1. CASE Check(o)
      <3>1. request[o].step = "check" /\ request[o].kind \notin {"delete", "delete_all"}
        BY <2>1 DEF Check
      <3>2. Sense(Found(request[o]))
        BY <1>0, <3>1, ChangeFields DEF SameMarks, SameRows
      <3>3. ASSUME NEW x, request'[o] = FoundTaken(request[o], x)
            PROVE  Sense(request'[o])
        <4>1. /\ SameMarks(request[o], request'[o]) /\ request'[o].step = "change"
              /\ SameRows(request[o], request'[o])
              /\ request'[o].kind = "overwrite" /\ request'[o].bib = request[o].bib
          BY <1>0, <3>3, ImportFields
        <4>2. QED
          BY <1>0, <3>1, <4>1 DEF SameMarks, SameRows
      <3>4. QED
        BY <1>2, <2>1, <3>2, <3>3, OwnSteps
    <2>2. CASE Save(o) \/ Delete(o)
      <3>1. request[o].step \in {"change", "check"}
        BY <2>2 DEF Save, Delete
      <3>2. ASSUME NEW x
            PROVE  Sense(Changed(request[o], x))
        BY <1>0, <3>1, ChangeFields DEF SameMarks, SameRows
      <3>3. QED
        BY <2>2, <3>2, OwnSteps
    <2>3. CASE SaveFails(o) \/ ClearFails(o) \/ RebuildFails(o) \/ EndRequest(o) \/ Die(o)
      BY <1>2, <2>3, OwnSteps
    <2>4. CASE ClearRead(o)
      <3>1. request'[o].step = "clearing"
        BY <1>0, <2>4, OwnSteps, ChooseFields
      <3>2. QED
        BY <3>1
    <2>5. CASE ClearCommit(o)
      <3>1. /\ request'[o].step = "load"
            /\ request'[o].doomed = {} /\ request'[o].demoted = {}
        BY <1>0, <2>5, OwnSteps, ClearFields
      <3>2. QED
        BY <3>1
    <2>6. CASE Load(o)
      <3>1. request'[o].step = "photos" /\ SameRows(request[o], request'[o])
        BY <1>0, <2>6, OwnSteps, LoadFields
      <3>2. request[o].step = "load"
        BY <2>6 DEF Load
      <3>3. QED
        BY <1>0, <3>1, <3>2 DEF SameRows
    <2>7. CASE Skip(o)
      <3>1. request'[o].step = "photos" /\ SameRows(request[o], request'[o]) /\ request[o].step = "photos"
        BY <1>0, <2>7, OwnSteps, SkipFields DEF Skip
      <3>2. QED
        BY <1>0, <3>1 DEF SameRows
    <2>8. CASE Match(o)
      <3>1. PICK found, held, stale :
              stale \in BOOLEAN /\ request'[o] = Matching(request[o], found, held, stale)
        BY <2>8, WhatIsFound
      <3>2. request'[o].step \in {"photos", "write"} /\ SameRows(request[o], request'[o])
        BY <1>0, <3>1, MatchFields
      <3>3. request[o].step = "photos"
        BY <2>8 DEF Match
      <3>4. QED
        BY <1>0, <3>2, <3>3 DEF SameRows
    <2>9. CASE WriteMatches(o)
      <3>1. request'[o].step = "photos" /\ SameRows(request[o], request'[o])
        BY <1>0, <2>9, OwnSteps, WriteFields
      <3>2. request[o].step = "write"
        BY <2>9 DEF WriteMatches
      <3>3. QED
        BY <1>0, <3>1, <3>2 DEF SameRows
    <2>10. QED
      BY <1>4, <2>1, <2>2, <2>3, <2>4, <2>5, <2>6, <2>7, <2>8, <2>9 DEF Handle
  <1>5. ASSUME NEW r \in Requests, Handle(r), r # o
        PROVE  Sense(request'[o])
    BY <1>1, <1>5, Bystanders
  <1>6. ASSUME NEW p \in Photos, OcrRead(p) \/ OcrCommit(p) \/ OcrFails(p)
        PROVE  Sense(request'[o])
    BY <1>1, <1>6, PassedByOcr
  <1>7. CASE (\E s \in Sessions : TakeOver(s)) \/ Pause
    BY <1>1, <1>7, PassedByLock
  <1>8. CASE UNCHANGED vars
    BY <1>0, <1>8 DEF vars
  <1>9. QED
    BY <1>3, <1>4, <1>5, <1>6, <1>7, <1>8 DEF Next

-----------------------------------------------------------------------------
(* What has been found, and the commits.                                   *)

\* A change of the participants spoils whatever has been found among them.
Spoilt ==
  /\ dirty'
  /\ \A o \in Requests : ~request'[o].clean /\ (request'[o].step = "write" => request'[o].stale)
  /\ \A p \in Photos : ocr'[p].step = "write" => ocr'[p].stale

LEMMA ChangesSpoil ==
  ASSUME Types, StepsMakeSense, NEW r \in Requests, Save(r) \/ Delete(r)
  PROVE  Spoilt
  <1>1. \A o \in Requests : request[o] \in Request
    BY DEF Types
  <1>2. ASSUME NEW p \in Photos
        PROVE  ocr'[p].step = "write" => ocr'[p].stale
    <2>1. ocr[p] \in Reading /\ ocr'[p] = StaledReading(ocr[p])
      BY DEF Save, Delete, Changes, Types
    <2>2. QED
      BY <2>1, ReadingRows
  <1>3. ~request[r].clean
    BY DEF Save, Delete, StepsMakeSense
  <1>4. ~request'[r].clean /\ request'[r].step = "clear"
    BY <1>1, <1>3, OwnSteps, ChangeFields DEF SameMarks
  <1>5. ASSUME NEW o \in Requests, o # r
        PROVE  ~request'[o].clean /\ (request'[o].step = "write" => request'[o].stale)
    <2>1. PICK gone : request'[o] = Staled(request[o], gone)
      BY <1>5 DEF Save, Delete, Changes
    <2>2. QED
      BY <1>1, <2>1, PassedByChange
  <1>6. dirty'
    BY DEF Save, Delete, Changes
  <1>7. QED
    BY <1>2, <1>4, <1>5, <1>6 DEF Spoilt

\* Nothing else changes the participants; texts stay, and stay committed.
LEMMA ParticipantsKept ==
  ASSUME Types, StepsMakeSense, [Next]_vars
  PROVE  text' = text /\ read \subseteq read' /\ (bib' = bib \/ Spoilt)
  <1>1. ASSUME NEW r \in Requests, Handle(r)
        PROVE  text' = text /\ read \subseteq read' /\ (bib' = bib \/ Spoilt)
    <2>1. CASE Save(r) \/ Delete(r)
      BY <2>1, ChangesSpoil DEF Save, Delete, Changes
    <2>2. CASE \/ Check(r) \/ SaveFails(r) \/ ClearRead(r) \/ ClearCommit(r) \/ ClearFails(r) \/ Load(r)
               \/ Match(r) \/ Skip(r) \/ WriteMatches(r) \/ RebuildFails(r) \/ EndRequest(r) \/ Die(r)
      BY <2>2 DEF Check, SaveFails, ClearRead, ClearCommit, ClearFails, Load, Match, Skip, WriteMatches,
                  RebuildFails, EndRequest, Die
    <2>3. QED
      BY <1>1, <2>1, <2>2 DEF Handle
  <1>2. ASSUME NEW p \in Photos, OcrRead(p) \/ OcrCommit(p) \/ OcrFails(p)
        PROVE  text' = text /\ read \subseteq read' /\ bib' = bib
    BY <1>2 DEF OcrRead, OcrCommit, OcrFails
  <1>3. ASSUME NEW s \in Sessions, TakeOver(s) \/ \E r \in Requests : BeginRequest(r, s)
        PROVE  text' = text /\ read \subseteq read' /\ bib' = bib
    BY <1>3 DEF TakeOver, BeginRequest
  <1>4. CASE Pause \/ UNCHANGED vars
    BY <1>4 DEF Pause, vars
  <1>5. QED
    BY <1>1, <1>2, <1>3, <1>4 DEF Next

LEMMA FindingsInit == Init => FindingsHold
  BY EdgeFields DEF Init, FindingsHold

LEMMA FindingsStep ==
  Types /\ StepsMakeSense /\ FindingsHold /\ [Next]_vars => FindingsHold'
  <1> DEFINE Holds(n) ==
        /\ n.texts \subseteq read'
        /\ n.found \subseteq read' \X Persons
        /\ n.step = "write" /\ ~n.stale =>
             \A pair \in n.found : bib'[pair[2]] \in FoundByRebuild[text'[pair[1]]]
  <1> SUFFICES ASSUME Types, StepsMakeSense, FindingsHold, [Next]_vars, NEW o \in Requests
               PROVE  Holds(request'[o])
    BY DEF FindingsHold
  <1> DEFINE q == request[o]
             n == request'[o]
  <1>0. /\ q \in Request
        /\ q.texts \subseteq read /\ q.found \subseteq read \X Persons
        /\ q.step = "write" /\ ~q.stale =>
             \A pair \in q.found : bib[pair[2]] \in FoundByRebuild[text[pair[1]]]
    BY DEF Types, FindingsHold
  <1>1. text' = text /\ read \subseteq read' /\ (bib' = bib \/ Spoilt)
    BY ParticipantsKept
  <1>2. ASSUME Passed(q, n)
        PROVE  Holds(n)
    BY <1>0, <1>1, <1>2 DEF Passed, SameAsk, SameWork, Spoilt
  <1>3. ASSUME n.texts \in {q.texts, read, {}}, n.found \in {q.found, {}}, n.step # "write"
        PROVE  Holds(n)
    BY <1>0, <1>1, <1>3
  <1>4. ASSUME n = Done
        PROVE  Holds(n)
    BY <1>3, <1>4, EdgeFields
  <1>5. ASSUME NEW s \in Sessions, NEW r \in Requests, BeginRequest(r, s)
        PROVE  Holds(n)
    <2>1. n = q \/ \E kind, x, b : n = Asked(s, kind, x, b)
      BY <1>5 DEF BeginRequest, Types
    <2>2. QED
      BY <1>0, <1>2, <1>3, <2>1, EdgeFields, PassedBy
  <1>6. ASSUME Handle(o)
        PROVE  Holds(n)
    <2>1. CASE Check(o)
      <3>1. ASSUME n = Found(q)
            PROVE  Holds(n)
        BY <1>0, <1>3, <3>1, ChangeFields DEF SameWork
      <3>2. ASSUME NEW x, n = FoundTaken(q, x)
            PROVE  Holds(n)
        BY <1>0, <1>3, <3>2, ImportFields DEF SameWork
      <3>3. QED
        BY <1>4, <2>1, <3>1, <3>2, OwnSteps
    <2>2. CASE Save(o) \/ Delete(o)
      BY <1>0, <1>3, <2>2, OwnSteps, ChangeFields DEF SameWork
    <2>3. CASE ClearRead(o) \/ ClearCommit(o)
      BY <1>0, <1>3, <2>3, OwnSteps, ChooseFields, ClearFields DEF SameWork
    <2>4. CASE Load(o)
      BY <1>0, <1>3, <2>4, OwnSteps, LoadFields
    <2>5. CASE Match(o)
      <3> DEFINE p == Head(q.loaded)
                 holds == q.person \in Present
                 held == IF holds THEN BibSeen(q, q.person) ELSE q.bib
                 stale == holds /\ held # bib[q.person]
      <3>1. PICK chosen \in OneOfEach(q, FoundByRebuild[text[p]]) :
              /\ stale \in BOOLEAN /\ chosen \subseteq Present
              /\ \A x \in chosen : BibSeen(q, x) \in FoundByRebuild[text[p]]
              /\ n = Matching(q, {p} \X chosen, held, stale)
              /\ p \in Photos /\ HasText(q, p)
        BY <2>5, WhatIsFound
      <3>2. p \in read
        BY <1>0, <3>1 DEF HasText
      <3>3. /\ n.found = {p} \X chosen /\ n.texts = q.texts
            /\ {p} \X chosen # {} => n.stale = stale
        <4> HIDE DEF held, stale, p
        <4>1. QED
          BY <1>0, <3>1, MatchFields
      <3>4. {p} \X chosen \subseteq read \X Persons
        BY <3>1, <3>2 DEF Present
      <3>5. bib' = bib /\ read' = read
        BY <2>5 DEF Match
      <3>6. ~stale => \A x \in chosen : bib[x] \in FoundByRebuild[text[p]]
        BY <3>1 DEF BibSeen
      <3>7. ASSUME ~n.stale, NEW pair \in n.found
            PROVE  bib'[pair[2]] \in FoundByRebuild[text'[pair[1]]]
        <4>1. pair[1] = p /\ pair[2] \in chosen /\ ~stale
          <5> HIDE DEF held, stale, p
          <5>1. pair \in {p} \X chosen
            BY <3>3, <3>7
          <5>2. ~stale
            BY <3>3, <3>7, <5>1
          <5>3. QED
            BY <5>1, <5>2
        <4>2. QED
          BY <1>1, <3>5, <3>6, <4>1
      <3>8. QED
        BY <1>0, <3>3, <3>4, <3>5, <3>7
    <2>6. CASE Skip(o)
      <3>1. n.step = "photos" /\ n.found = q.found /\ n.texts = q.texts
        BY <1>0, <2>6, OwnSteps, SkipFields DEF Skip
      <3>2. QED
        BY <1>3, <3>1
    <2>7. CASE WriteMatches(o)
      BY <1>0, <1>3, <2>7, OwnSteps, WriteFields
    <2>8. CASE SaveFails(o) \/ ClearFails(o) \/ RebuildFails(o) \/ EndRequest(o) \/ Die(o)
      BY <1>4, <2>8, OwnSteps
    <2>9. QED
      BY <1>6, <2>1, <2>2, <2>3, <2>4, <2>5, <2>6, <2>7, <2>8 DEF Handle
  <1>7. ASSUME NEW r \in Requests, Handle(r), r # o
        PROVE  Holds(n)
    BY <1>2, <1>7, Bystanders
  <1>8. ASSUME NEW p \in Photos, OcrRead(p) \/ OcrCommit(p) \/ OcrFails(p)
        PROVE  Holds(n)
    BY <1>2, <1>8, PassedByOcr
  <1>9. CASE (\E s \in Sessions : TakeOver(s)) \/ Pause
    BY <1>2, <1>9, PassedByLock
  <1>10. CASE UNCHANGED vars
    BY <1>0, <1>2, <1>10, PassedBy DEF vars
  <1>11. QED
    BY <1>5, <1>6, <1>7, <1>8, <1>9, <1>10 DEF Next

LEMMA ReadingsInit == Init => ReadingsHold
  BY ReadingRows DEF Init, ReadingsHold

LEMMA ReadingsStep ==
  Types /\ StepsMakeSense /\ ReadingsHold /\ [Next]_vars => ReadingsHold'
  <1> SUFFICES ASSUME Types, StepsMakeSense, ReadingsHold, [Next]_vars, NEW p \in Photos
               PROVE  /\ ocr'[p].found \subseteq {p} \X Persons
                      /\ ocr'[p].step = "write" /\ ~ocr'[p].stale =>
                           \A x \in Persons :
                             <<p, x>> \in ocr'[p].found <=> bib'[x] \in FoundByOcr[text'[p]]
    BY DEF ReadingsHold
  <1>0. /\ ocr[p] \in Reading /\ text[p] \in Texts
        /\ ocr[p].found \subseteq {p} \X Persons
        /\ ocr[p].step = "write" /\ ~ocr[p].stale =>
             \A x \in Persons : <<p, x>> \in ocr[p].found <=> bib[x] \in FoundByOcr[text[p]]
    BY DEF Types, ReadingsHold
  <1>1. text' = text /\ (bib' = bib \/ Spoilt)
    BY ParticipantsKept
  <1>2. CASE ocr'[p] = ocr[p]
    BY <1>0, <1>1, <1>2 DEF Spoilt
  <1>3. CASE ocr'[p] = StaledReading(ocr[p])
    <2>1. ocr'[p].found = ocr[p].found /\ (ocr'[p].step = "write" => ocr'[p].stale)
      BY <1>0, <1>3, ReadingRows
    <2>2. QED
      BY <1>0, <2>1
  <1>4. CASE ocr'[p] \in {NoReading("none"), NoReading("done")}
    BY <1>4, ReadingRows
  <1>5. CASE OcrRead(p)
    <2>1. ocr'[p].found = {p} \X WithBib(FoundByOcr[text[p]]) /\ bib' = bib
      BY <1>5 DEF OcrRead, Types
    <2>2. \A x \in Persons : bib[x] \in FoundByOcr[text[p]] => x \in Present
      BY <1>0, FoundBibs, MatchesAssumption DEF Present
    <2>3. QED
      BY <1>1, <2>1, <2>2 DEF WithBib, Present
  <1>6. OcrRead(p) \/ ocr'[p] \in {ocr[p], StaledReading(ocr[p]), NoReading("none"), NoReading("done")}
    <2>1. ASSUME NEW r \in Requests, Handle(r)
          PROVE  ocr'[p] \in {ocr[p], StaledReading(ocr[p])}
      BY <2>1 DEF Handle, Save, Delete, Changes, Check, SaveFails, ClearRead, ClearCommit, ClearFails,
                  Load, Match, Skip, WriteMatches, RebuildFails, EndRequest, Die
    <2>2. ASSUME NEW k \in Photos, OcrRead(k) \/ OcrCommit(k) \/ OcrFails(k)
          PROVE  OcrRead(p) \/ ocr'[p] \in {ocr[p], NoReading("none"), NoReading("done")}
      BY <2>2 DEF OcrRead, OcrCommit, OcrFails, Types
    <2>3. ASSUME NEW s \in Sessions, TakeOver(s) \/ \E r \in Requests : BeginRequest(r, s)
          PROVE  ocr'[p] = ocr[p]
      BY <2>3 DEF TakeOver, BeginRequest
    <2>4. CASE Pause \/ UNCHANGED vars
      BY <2>4 DEF Pause, vars
    <2>5. QED
      BY <2>1, <2>2, <2>3, <2>4 DEF Next
  <1>7. QED
    BY <1>2, <1>3, <1>4, <1>5, <1>6

-----------------------------------------------------------------------------
(* The matches.                                                            *)

\* Only what a rebuild or a completion has found is matched by text.
LEMMA NewlyMatched ==
  ASSUME Types, [Next]_vars, NEW p \in Photos, NEW x \in Persons, Matched(p, x)'
  PROVE  \/ Matched(p, x)
         \/ \E r \in Requests : WriteMatches(r) /\ <<p, x>> \in request[r].found
         \/ \E k \in Photos : OcrCommit(k) /\ <<p, x>> \in ocr[k].found
  <1>0. <<p, x>> \in Pairs
    BY DEF Pairs
  <1>1. ASSUME NEW r \in Requests, Handle(r)
        PROVE  Matched(p, x) \/ (WriteMatches(r) /\ <<p, x>> \in request[r].found)
    <2>1. CASE Delete(r)
      <3>1. PICK gone : matches' = [pair \in Pairs |->
                                     IF pair[2] \in gone THEN "none" ELSE matches[pair]]
        BY <2>1 DEF Delete, Changes
      <3>2. matches'[<<p, x>>] \in {"none", matches[<<p, x>>]}
        BY <1>0, <3>1
      <3>3. QED
        BY <3>2 DEF Matched
    <2>2. CASE ClearCommit(r)
      <3>1. request[r] \in Request /\ matches \in [Pairs -> Sources]
        BY DEF Types
      <3>2. matches'[<<p, x>>] \in {"none", "face", matches[<<p, x>>]}
        BY <1>0, <2>2, <3>1, ClearedRows DEF ClearCommit
      <3>3. QED
        BY <3>2 DEF Matched
    <2>3. CASE WriteMatches(r)
      <3>1. request[r].found \in SUBSET Pairs
        BY DEF Types, Request
      <3>2. QED
        BY <1>0, <2>3, <3>1, UpsertedRows DEF WriteMatches, Matched, Types
    <2>4. CASE \/ Check(r) \/ Save(r) \/ SaveFails(r) \/ ClearRead(r) \/ ClearFails(r) \/ Load(r)
               \/ Match(r) \/ Skip(r) \/ RebuildFails(r) \/ EndRequest(r) \/ Die(r)
      BY <2>4 DEF Check, Save, Changes, SaveFails, ClearRead, ClearFails, Load, Match, Skip, RebuildFails,
                  EndRequest, Die, Matched
    <2>5. QED
      BY <1>1, <2>1, <2>2, <2>3, <2>4 DEF Handle
  <1>2. ASSUME NEW k \in Photos, OcrCommit(k)
        PROVE  Matched(p, x) \/ <<p, x>> \in ocr[k].found
    <2>1. ocr[k].found \in SUBSET Pairs
      BY DEF Types, Reading
    <2>2. QED
      BY <1>0, <1>2, <2>1, UpsertedRows DEF OcrCommit, Matched, Types
  <1>3. ASSUME NEW k \in Photos, OcrRead(k) \/ OcrFails(k)
        PROVE  Matched(p, x)
    BY <1>3 DEF OcrRead, OcrFails, Matched
  <1>4. ASSUME NEW s \in Sessions, TakeOver(s) \/ \E r \in Requests : BeginRequest(r, s)
        PROVE  Matched(p, x)
    BY <1>4 DEF TakeOver, BeginRequest, Matched
  <1>5. CASE Pause \/ UNCHANGED vars
    BY <1>5 DEF Pause, vars, Matched
  <1>6. QED
    BY <1>1, <1>2, <1>3, <1>4, <1>5 DEF Next

\* Only clearing and deleting undo a match by text.
LEMMA StillMatched ==
  ASSUME Types, [Next]_vars, NEW p \in Photos, NEW x \in Persons, Matched(p, x),
         \A r \in Requests : ~ClearCommit(r) /\ ~Delete(r)
  PROVE  Matched(p, x)'
  <1>0. <<p, x>> \in Pairs
    BY DEF Pairs
  <1>1. ASSUME NEW r \in Requests, WriteMatches(r)
        PROVE  Matched(p, x)'
    <2>1. request[r].found \in SUBSET Pairs
      BY DEF Types, Request
    <2>2. QED
      BY <1>0, <1>1, <2>1, UpsertedRows DEF WriteMatches, Matched, Types
  <1>2. ASSUME NEW k \in Photos, OcrCommit(k)
        PROVE  Matched(p, x)'
    <2>1. ocr[k].found \in SUBSET Pairs
      BY DEF Types, Reading
    <2>2. QED
      BY <1>0, <1>2, <2>1, UpsertedRows DEF OcrCommit, Matched, Types
  <1>3. ASSUME matches' = matches
        PROVE  Matched(p, x)'
    BY <1>3 DEF Matched
  <1>4. ASSUME NEW r \in Requests, Handle(r)
        PROVE  Matched(p, x)'
    BY <1>1, <1>3, <1>4 DEF Handle, Check, Save, Changes, SaveFails, ClearRead, ClearFails, Load, Match,
                            Skip, RebuildFails, EndRequest, Die
  <1>5. ASSUME NEW k \in Photos, OcrRead(k) \/ OcrFails(k)
        PROVE  Matched(p, x)'
    BY <1>3, <1>5 DEF OcrRead, OcrFails
  <1>6. ASSUME NEW s \in Sessions, TakeOver(s) \/ \E r \in Requests : BeginRequest(r, s)
        PROVE  Matched(p, x)'
    BY <1>3, <1>6 DEF TakeOver, BeginRequest
  <1>7. CASE Pause \/ UNCHANGED vars
    BY <1>3, <1>7 DEF Pause, vars
  <1>8. QED
    BY <1>2, <1>4, <1>5, <1>6, <1>7 DEF Next

\* What a step writes is no longer missing.
LEMMA MatchedByWrite ==
  ASSUME Types, NEW p \in Photos, NEW x \in Persons
  PROVE  /\ \A r \in Requests : WriteMatches(r) /\ <<p, x>> \in request[r].found => Matched(p, x)'
         /\ \A k \in Photos : OcrCommit(k) /\ <<p, x>> \in ocr[k].found => Matched(p, x)'
  <1>0. <<p, x>> \in Pairs
    BY DEF Pairs
  <1>1. ASSUME NEW r \in Requests, WriteMatches(r), <<p, x>> \in request[r].found
        PROVE  Matched(p, x)'
    <2>1. request[r].found \in SUBSET Pairs
      BY DEF Types, Request
    <2>2. QED
      BY <1>0, <1>1, <2>1, UpsertedRows DEF WriteMatches, Matched, Types
  <1>2. ASSUME NEW k \in Photos, OcrCommit(k), <<p, x>> \in ocr[k].found
        PROVE  Matched(p, x)'
    <2>1. ocr[k].found \in SUBSET Pairs
      BY DEF Types, Reading
    <2>2. QED
      BY <1>0, <1>2, <2>1, UpsertedRows DEF OcrCommit, Matched, Types
  <1>3. QED
    BY <1>1, <1>2

LEMMA MatchedAreReadStep ==
  Types /\ StepsMakeSense /\ FindingsHold /\ ReadingsHold /\ MatchedAreRead /\ [Next]_vars
    => MatchedAreRead'
  <1> SUFFICES ASSUME Types, StepsMakeSense, FindingsHold, ReadingsHold, MatchedAreRead, [Next]_vars,
                      NEW p \in Photos, NEW x \in Persons, Matched(p, x)'
               PROVE  p \in read'
    BY DEF MatchedAreRead
  <1>1. read \subseteq read'
    BY ParticipantsKept
  <1>2. CASE Matched(p, x)
    BY <1>1, <1>2 DEF MatchedAreRead
  <1>3. ASSUME NEW r \in Requests, <<p, x>> \in request[r].found
        PROVE  p \in read'
    BY <1>1, <1>3 DEF FindingsHold
  <1>4. ASSUME NEW k \in Photos, OcrCommit(k), <<p, x>> \in ocr[k].found
        PROVE  p \in read'
    BY <1>4 DEF OcrCommit, ReadingsHold
  <1>5. QED
    BY <1>2, <1>3, <1>4, NewlyMatched

\* Nothing wrong is written by those whose findings still hold.
Careful ==
  /\ bib' = bib
  /\ \A r \in Requests : ~Delete(r) /\ (WriteMatches(r) => ~request[r].stale)
  /\ \A k \in Photos : OcrCommit(k) => ~ocr[k].stale

LEMMA WrittenRight ==
  ASSUME Types, StepsMakeSense, FindingsHold, ReadingsHold, [Next]_vars, Careful,
         NEW p \in Photos, NEW x \in Present', Matched(p, x)', ~Matched(p, x)
  PROVE  bib'[x] \in FoundByOcr[text'[p]]
  <1>1. text' = text /\ bib' = bib /\ x \in Persons
    BY ParticipantsKept DEF Careful, Present
  <1>3. ASSUME NEW r \in Requests, WriteMatches(r), <<p, x>> \in request[r].found
        PROVE  bib'[x] \in FoundByOcr[text'[p]]
    <2>1. request[r].step = "write" /\ ~request[r].stale
      BY <1>3 DEF WriteMatches, Careful
    <2>2. bib[x] \in FoundByRebuild[text[p]]
      BY <1>3, <2>1 DEF FindingsHold
    <2>3. text[p] \in Texts
      BY DEF Types
    <2>4. QED
      BY <1>1, <2>2, <2>3, FoundBibs
  <1>4. ASSUME NEW k \in Photos, OcrCommit(k), <<p, x>> \in ocr[k].found
        PROVE  bib'[x] \in FoundByOcr[text'[p]]
    <2>1. ocr[k].step = "write" /\ ~ocr[k].stale
      BY <1>4 DEF OcrCommit, Careful
    <2>2. p = k
      BY <1>4 DEF ReadingsHold
    <2>3. QED
      BY <1>1, <1>4, <2>1, <2>2 DEF ReadingsHold
  <1>5. QED
    BY <1>1, <1>3, <1>4, NewlyMatched

\* A photo whose text is committed just now misses nothing.
LEMMA NewlyRead ==
  ASSUME Types, StepsMakeSense, ReadingsHold, [Next]_vars, Careful,
         NEW p \in read', p \notin read, NEW x \in Present', bib'[x] \in FoundByRebuild[text'[p]]
  PROVE  Matched(p, x)'
  <1>1. text' = text /\ bib' = bib /\ x \in Persons
    BY ParticipantsKept DEF Careful, Present
  <1>2. OcrCommit(p) /\ p \in Photos
    <2>1. ASSUME NEW r \in Requests, Handle(r)
          PROVE  read' = read
      BY <2>1 DEF Handle, Save, Delete, Changes, Check, SaveFails, ClearRead, ClearCommit, ClearFails,
                  Load, Match, Skip, WriteMatches, RebuildFails, EndRequest, Die
    <2>2. ASSUME NEW k \in Photos, OcrCommit(k)
          PROVE  p = k
      BY <2>2 DEF OcrCommit
    <2>3. ASSUME NEW k \in Photos, OcrRead(k) \/ OcrFails(k)
          PROVE  read' = read
      BY <2>3 DEF OcrRead, OcrFails
    <2>4. ASSUME NEW s \in Sessions, TakeOver(s) \/ \E r \in Requests : BeginRequest(r, s)
          PROVE  read' = read
      BY <2>4 DEF TakeOver, BeginRequest
    <2>5. CASE Pause \/ UNCHANGED vars
      BY <2>5 DEF Pause, vars
    <2>6. QED
      BY <2>1, <2>2, <2>3, <2>4, <2>5 DEF Next
  <1>3. ocr[p].step = "write" /\ ~ocr[p].stale
    BY <1>2 DEF OcrCommit, Careful
  <1>4. bib[x] \in FoundByOcr[text[p]]
    BY <1>1, <1>2, FoundBibs DEF Types
  <1>5. <<p, x>> \in ocr[p].found
    BY <1>1, <1>2, <1>3, <1>4 DEF ReadingsHold
  <1>6. QED
    BY <1>1, <1>2, <1>5, MatchedByWrite

\* What a rebuild that is clean afterwards rules out.
LEMMA CleanIsCareful ==
  ASSUME Types, StepsMakeSense, [Next]_vars, NEW o \in Requests, request'[o].clean, ~ClearRead(o)
  PROVE  Careful /\ request[o].clean
  <1>0. \A r \in Requests : request[r] \in Request
    BY DEF Types
  <1>1. ASSUME NEW r \in Requests, Save(r) \/ Delete(r)
        PROVE  FALSE
    BY <1>1, ChangesSpoil DEF Spoilt
  <1>3. ASSUME NEW r \in Requests, WriteMatches(r)
        PROVE  ~request[r].stale
    <2>1. request[r].stale \in BOOLEAN /\ Writing(request[o]) \in Request
      BY <1>0, RowTypes DEF Request
    <2>2. \E q \in Request : request'[o] = Soil(q, request[r].stale)
      BY <1>0, <1>3, <2>1 DEF WriteMatches
    <2>3. QED
      BY <2>1, <2>2, PassedBySoil
  <1>4. ASSUME NEW k \in Photos, OcrCommit(k)
        PROVE  ~ocr[k].stale
    <2>1. ocr[k].stale \in BOOLEAN
      BY DEF Types, Reading
    <2>2. request'[o] = Soil(request[o], ocr[k].stale)
      BY <1>4 DEF OcrCommit
    <2>3. QED
      BY <1>0, <2>1, <2>2, PassedBySoil
  <1>5. bib' = bib
    BY ParticipantsKept DEF Spoilt
  <1>6. request[o].clean
    <2>1. ASSUME Passed(request[o], request'[o])
          PROVE  request[o].clean
      BY <2>1 DEF Passed
    <2>2. ASSUME Handle(o)
          PROVE  request[o].clean
      <3>1. request'[o] # Done
        BY EdgeFields
      <3>2. CASE Check(o)
        <4>1. CASE request'[o] = Found(request[o])
          BY <1>0, <4>1, ChangeFields DEF SameMarks
        <4>2. CASE \E x : request'[o] = FoundTaken(request[o], x)
          BY <1>0, <4>2, ImportFields DEF SameMarks
        <4>3. QED
          BY <3>1, <3>2, <4>1, <4>2, OwnSteps
      <3>3. CASE ClearCommit(o) \/ Load(o) \/ Skip(o)
        <4>1. SameMarks(request[o], request'[o])
          BY <1>0, <3>3, OwnSteps, ClearFields, LoadFields, SkipFields
        <4>2. QED
          BY <4>1 DEF SameMarks
      <3>4. CASE Match(o)
        <4>1. PICK found, held, stale :
                stale \in BOOLEAN /\ request'[o] = Matching(request[o], found, held, stale)
          BY <3>4, WhatIsFound
        <4>2. Matching(request[o], found, held, stale).clean = request[o].clean
          BY <1>0, <4>1, MatchFields
        <4>3. QED
          BY <4>1, <4>2
      <3>5. CASE WriteMatches(o)
        BY <1>0, <3>5, OwnSteps, WriteFields
      <3>6. QED
        BY <1>1, <2>2, <3>1, <3>2, <3>3, <3>4, <3>5, OwnSteps DEF Handle
    <2>3. ASSUME NEW r \in Requests, NEW s \in Sessions, BeginRequest(r, s)
          PROVE  request[o].clean
      <3>1. request'[o] = request[o] \/ \E kind, x, b : request'[o] = Asked(s, kind, x, b)
        BY <2>3 DEF BeginRequest, Types
      <3>2. QED
        BY <3>1, EdgeFields
    <2>4. QED
      BY <2>1, <2>2, <2>3, Bystanders, PassedByOcr, PassedByLock DEF Next, vars
  <1>7. QED
    BY <1>1, <1>3, <1>4, <1>5, <1>6 DEF Careful

\* A row that a clean rebuild is about to clear, and that still is matched by
\* text after a step, still is to be cleared.
LEMMA ToBeCleared ==
  ASSUME Types, StepsMakeSense, [Next]_vars, NEW o \in Requests, request[o].clean, request'[o].clean,
         ~ClearRead(o), NEW p \in Photos, NEW x \in Persons, Matched(p, x)',
         <<p, x>> \in request[o].doomed \union request[o].demoted
  PROVE  <<p, x>> \in request'[o].doomed \union request'[o].demoted
  <1> DEFINE q == request[o]
             n == request'[o]
  <1>0. /\ \A r \in Requests : request[r] \in Request
        /\ matches \in [Pairs -> Sources] /\ <<p, x>> \in Pairs
    BY DEF Types, Pairs
  <1>1. q.step = "clearing"
    BY DEF StepsMakeSense
  <1>2. ASSUME SameRows(q, n)
        PROVE  <<p, x>> \in n.doomed \union n.demoted
    BY <1>2 DEF SameRows
  <1>3. ASSUME Handle(o)
        PROVE  FALSE
    <2>1. n # Done
      BY EdgeFields
    <2>2. ClearCommit(o)
      BY <1>1, <1>3, <2>1, OwnSteps DEF Handle, Check, Save, Delete, Load, Match, Skip, WriteMatches
    <2>3. matches'[<<p, x>>] \in {"none", "face"}
      BY <1>0, <2>2, ClearedRows DEF ClearCommit
    <2>4. QED
      BY <2>3 DEF Matched
  <1>4. ASSUME NEW r \in Requests, Handle(r), r # o
        PROVE  <<p, x>> \in n.doomed \union n.demoted
    <2>1. CASE Save(r) \/ Delete(r)
      BY <2>1, ChangesSpoil DEF Spoilt
    <2>2. CASE ClearCommit(r) /\ n = Undone(q, request[r].doomed)
      <3>1. n.doomed = q.doomed \ request[r].doomed /\ n.demoted = q.demoted
        BY <1>0, <2>2, PassedByClearing DEF Passed
      <3>2. <<p, x>> \notin request[r].doomed
        <4>1. <<p, x>> \in request[r].doomed => matches'[<<p, x>>] = "none"
          BY <1>0, <2>2, ClearedRows DEF ClearCommit
        <4>2. QED
          BY <4>1 DEF Matched
      <3>3. QED
        BY <3>1, <3>2
    <2>3. CASE n = Soil(q, request[r].stale)
      <3>1. request[r].stale \in BOOLEAN
        BY <1>0 DEF Request
      <3>2. QED
        BY <1>0, <1>2, <2>3, <3>1, PassedBySoil
    <2>4. CASE n = q
      BY <2>4
    <2>5. QED
      BY <1>4, <2>1, <2>2, <2>3, <2>4, OthersSteps
  <1>5. ASSUME NEW r \in Requests, NEW s \in Sessions, BeginRequest(r, s)
        PROVE  n = q
    <2>1. n = q \/ \E kind, y, b : n = Asked(s, kind, y, b)
      BY <1>5 DEF BeginRequest, Types
    <2>2. QED
      BY <2>1, EdgeFields
  <1>6. CASE UNCHANGED vars
    BY <1>6 DEF vars
  <1>7. QED
    BY <1>2, <1>3, <1>4, <1>5, <1>6, PassedByOcr, PassedByLock DEF Next

\* The participant that a clean rebuild holds is as it is loaded.
HeldIsCurrent(q) == q.bib # <<>> /\ q.person \in Present => q.bib = bib[q.person]

LEMMA HeldStep ==
  ASSUME Types, StepsMakeSense, [Next]_vars, NEW o \in Requests, request[o].clean, request'[o].clean,
         ~ClearRead(o), Careful, HeldIsCurrent(request[o])
  PROVE  HeldIsCurrent(request[o])'
  <1> DEFINE q == request[o]
             n == request'[o]
  <1>0. q \in Request /\ bib' = bib /\ Present' = Present
    BY DEF Types, Careful, Present
  <1>1. ASSUME n.bib = q.bib, n.person = q.person
        PROVE  HeldIsCurrent(request[o])'
    BY <1>0, <1>1 DEF HeldIsCurrent
  <1>2. ASSUME Passed(q, n)
        PROVE  HeldIsCurrent(request[o])'
    BY <1>1, <1>2 DEF Passed, SameAsk
  <1>3. ASSUME Handle(o)
        PROVE  HeldIsCurrent(request[o])'
    <2>1. n # Done
      BY EdgeFields
    <2>2. CASE Check(o) \/ Save(o) \/ Delete(o)
      BY <2>2 DEF Check, Save, Delete, StepsMakeSense
    <2>3. CASE ClearCommit(o) \/ Load(o) \/ Skip(o)
      BY <1>0, <1>1, <2>3, OwnSteps, ClearFields, LoadFields, SkipFields
    <2>4. CASE Match(o)
      <3> DEFINE p == Head(q.loaded)
                 holds == q.person \in Present
                 held == IF holds THEN BibSeen(q, q.person) ELSE q.bib
                 stale == holds /\ held # bib[q.person]
      <3>1. PICK chosen \in OneOfEach(q, FoundByRebuild[text[p]]) :
              stale \in BOOLEAN /\ n = Matching(q, {p} \X chosen, held, stale)
        BY <2>4, WhatIsFound
      <3>2. n.person = q.person /\ n.bib = held
        <4> HIDE DEF held, stale, p
        <4>1. QED
          BY <1>0, <3>1, MatchFields
      <3>3. holds => held = bib[q.person]
        BY DEF BibSeen, HeldIsCurrent
      <3>4. QED
        BY <1>0, <3>2, <3>3 DEF HeldIsCurrent
    <2>5. CASE WriteMatches(o)
      BY <1>0, <2>5, OwnSteps, WriteFields DEF HeldIsCurrent
    <2>6. QED
      BY <1>3, <2>1, <2>2, <2>3, <2>4, <2>5, OwnSteps DEF Handle
  <1>4. ASSUME NEW r \in Requests, NEW s \in Sessions, BeginRequest(r, s)
        PROVE  n = q
    <2>1. n = q \/ \E kind, y, b : n = Asked(s, kind, y, b)
      BY <1>4 DEF BeginRequest, Types
    <2>2. QED
      BY <2>1, EdgeFields
  <1>5. CASE UNCHANGED vars
    BY <1>1, <1>5 DEF vars
  <1>6. QED
    BY <1>1, <1>2, <1>3, <1>4, <1>5, Bystanders, PassedByOcr, PassedByLock DEF Next

\* With bibs that are unique and current, all that a photo shows are found.
LEMMA AllAreFound ==
  ASSUME Constraints, NEW q, HeldIsCurrent(q), NEW found, NEW chosen \in OneOfEach(q, found),
         NEW x \in Present, bib[x] \in found
  PROVE  x \in chosen
  <1>1. \A y \in Present : BibSeen(q, y) = bib[y]
    BY DEF BibSeen, HeldIsCurrent
  <1>2. PICK y \in chosen : \A z \in chosen : BibSeen(q, z) = BibSeen(q, x) <=> z = y
    BY <1>1 DEF OneOfEach
  <1>3. y \in Present /\ bib[y] = bib[x]
    BY <1>1, <1>2 DEF OneOfEach
  <1>4. QED
    BY <1>2, <1>3 DEF Constraints

\* What is in a sequence and is not its head is in its tail.
LEMMA InTail ==
  ASSUME NEW seq \in Seq(Photos), seq # <<>>, NEW p \in Range(seq), p # Head(seq)
  PROVE  p \in Range(Tail(seq))
  <1>1. PICK i \in 1..Len(seq) : p = seq[i]
    BY DEF Range
  <1>2. i # 1 /\ i - 1 \in 1..Len(Tail(seq)) /\ Tail(seq)[i - 1] = p
    BY <1>1
  <1>3. QED
    BY <1>2 DEF Range

\* A rebuild that goes on being clean still is to match, or has matched, all
\* that it was to match.
LEMMA PendingStep ==
  ASSUME Types, Constraints, [Next]_vars, NEW o \in Requests, request'[o].clean, ~ClearRead(o),
         request[o].clean, HeldIsCurrent(request[o]),
         StepsMakeSense, NEW p \in read, NEW x \in Present, Pending(o, p, x),
         bib[x] \in FoundByRebuild[text[p]], read \subseteq read'
  PROVE  Matched(p, x)' \/ Pending(o, p, x)'
  <1> DEFINE q == request[o]
             n == request'[o]
  <1>0. q \in Request /\ q.loaded \in Seq(Photos) /\ p \in Photos /\ x \in Persons
    BY DEF Types, Present, Request
  <1>1. q.step \in {"clearing", "load", "photos", "write"}
    BY DEF StepsMakeSense
  <1>2. ASSUME Passed(q, n)
        PROVE  Pending(o, p, x)'
    BY <1>2 DEF Passed, SameAsk, SameWork, Pending
  <1>3. ASSUME Handle(o)
        PROVE  Matched(p, x)' \/ Pending(o, p, x)'
    <2>1. n # Done
      BY EdgeFields
    <2>2. CASE Check(o) \/ Save(o) \/ Delete(o)
      BY <1>1, <2>2 DEF Check, Save, Delete
    <2>3. CASE ClearCommit(o)
      BY <1>0, <2>3, OwnSteps, ClearFields DEF Pending
    <2>4. CASE Load(o)
      <3>1. n.loaded = Newest /\ n.texts = read
        BY <1>0, <2>4, OwnSteps, LoadFields
      <3>2. QED
        BY <1>0, <3>1, MatchesAssumption DEF Pending
    <2>5. CASE Skip(o)
      <3> DEFINE h == Head(q.loaded)
      <3>1. q.step = "photos" /\ q.loaded # <<>> /\ ~HasText(q, h)
        BY <2>5 DEF Skip
      <3>2. n.fresh = q.fresh /\ n.texts = q.texts /\ n.loaded = Tail(q.loaded)
        BY <1>0, <2>5, OwnSteps, SkipFields
      <3>3. p \in Range(q.loaded) /\ (q.fresh \/ p \in q.texts)
        BY <1>0, <3>1 DEF Pending, StepsMakeSense
      <3>4. p # h
        BY <3>1, <3>3 DEF HasText
      <3>5. p \in Range(Tail(q.loaded))
        BY <1>0, <3>1, <3>3, <3>4, InTail
      <3>6. QED
        BY <3>2, <3>3, <3>5 DEF Pending
    <2>6. CASE Match(o)
      <3> DEFINE h == Head(q.loaded)
                 holds == q.person \in Present
                 held == IF holds THEN BibSeen(q, q.person) ELSE q.bib
                 stale == holds /\ held # bib[q.person]
      <3>1. PICK chosen \in OneOfEach(q, FoundByRebuild[text[h]]) :
              stale \in BOOLEAN /\ n = Matching(q, {h} \X chosen, held, stale)
        BY <2>6, WhatIsFound
      <3>2. /\ n.fresh = q.fresh /\ n.texts = q.texts /\ n.loaded = Tail(q.loaded)
            /\ n.found = {h} \X chosen
            /\ {h} \X chosen # {} => n.step = "write"
        <4> DEFINE found == {h} \X chosen
        <4>1. stale \in BOOLEAN /\ n = Matching(q, found, held, stale)
          BY <3>1
        <4> HIDE DEF held, stale, found, n
        <4>2. /\ n.fresh = q.fresh /\ n.texts = q.texts /\ n.loaded = Tail(q.loaded)
              /\ n.found = found /\ (found # {} => n.step = "write")
          BY <1>0, <4>1, MatchFields
        <4>3. QED
          BY <4>2 DEF found
      <3>3. q.step = "photos" /\ q.loaded # <<>>
        BY <2>6 DEF Match
      <3>4. p \in Range(q.loaded) /\ (q.fresh \/ p \in q.texts)
        BY <3>3 DEF Pending
      <3>5. CASE p = h
        <4>1. x \in chosen
          BY <3>1, <3>5, AllAreFound
        <4>2. <<p, x>> \in n.found /\ n.step = "write"
          BY <3>2, <3>5, <4>1
        <4>3. QED
          BY <4>2 DEF Pending
      <3>6. CASE p # h
        <4>1. p \in Range(Tail(q.loaded))
          BY <1>0, <3>3, <3>4, <3>6, InTail
        <4>2. QED
          BY <3>2, <3>4, <4>1 DEF Pending
      <3>7. QED
        BY <3>5, <3>6
    <2>7. CASE WriteMatches(o)
      <3>1. n.loaded = q.loaded /\ n.fresh
        BY <1>0, <2>7, OwnSteps, WriteFields
      <3>2. q.step = "write"
        BY <2>7 DEF WriteMatches
      <3>3. CASE <<p, x>> \in q.found
        BY <1>0, <2>7, <3>3, MatchedByWrite
      <3>4. CASE p \in Range(q.loaded)
        BY <3>1, <3>4 DEF Pending
      <3>5. QED
        BY <3>2, <3>3, <3>4 DEF Pending
    <2>8. QED
      BY <1>3, <2>1, <2>2, <2>3, <2>4, <2>5, <2>6, <2>7, OwnSteps DEF Handle
  <1>4. ASSUME NEW r \in Requests, NEW s \in Sessions, BeginRequest(r, s)
        PROVE  Passed(q, n)
    <2>1. n = q \/ \E kind, y, b : n = Asked(s, kind, y, b)
      BY <1>4 DEF BeginRequest, Types
    <2>2. n = q
      BY <2>1, EdgeFields
    <2>3. QED
      BY <1>0, <2>2, PassedBy
  <1>5. CASE UNCHANGED vars
    BY <1>0, <1>2, <1>5, PassedBy DEF vars
  <1>6. QED
    BY <1>2, <1>3, <1>4, <1>5, Bystanders, PassedByOcr, PassedByLock DEF Next

\* A clearing that a clean rebuild outlives is its own, or comes before it loads
\* the photos.
LEMMA ClearedBeforeLoading ==
  ASSUME Types, StepsMakeSense, NEW o \in Requests, request'[o].clean, request[o].clean,
         NEW r \in Requests, ClearCommit(r), NEW p, NEW x
  PROVE  Pending(o, p, x)'
  <1>0. request[o] \in Request
    BY DEF Types
  <1>1. CASE r = o
    BY <1>0, <1>1, OwnSteps, ClearFields DEF Pending
  <1>2. CASE r # o
    <2>1. request'[o] = Undone(request[o], request[r].doomed)
      BY <1>2 DEF ClearCommit
    <2>2. request'[o].step = request[o].step /\ request[o].step \in {"clearing", "load"}
      BY <1>0, <2>1, PassedByClearing DEF Passed, SameAsk, StepsMakeSense
    <2>3. QED
      BY <2>2 DEF Pending
  <1>3. QED
    BY <1>1, <1>2

LEMMA CleanStep ==
  IInv /\ [Next]_vars => CleanOnTheWay'
  <1> SUFFICES ASSUME IInv, [Next]_vars, NEW o \in Requests, request'[o].clean
               PROVE  /\ \A p \in Photos, x \in Present' :
                           Matched(p, x)' /\ bib'[x] \notin FoundByOcr[text'[p]] =>
                             <<p, x>> \in request'[o].doomed \union request'[o].demoted
                      /\ \A p \in read', x \in Present' : bib'[x] \in FoundByRebuild[text'[p]] =>
                           Matched(p, x)' \/ Pending(o, p, x)'
                      /\ HeldIsCurrent(request[o])'
    BY DEF CleanOnTheWay, HeldIsCurrent
  <1>0. /\ Types /\ Constraints /\ StepsMakeSense /\ FindingsHold /\ ReadingsHold
        /\ request[o] \in Request /\ matches \in [Pairs -> Sources]
    BY DEF IInv, TypeOK, Types
  <1>1. text' = text /\ read \subseteq read'
    BY <1>0, ParticipantsKept
  <1>2. CASE ClearRead(o)
    <2>1. /\ request'[o].step = "clearing" /\ request'[o].bib = request[o].bib
          /\ request'[o].doomed = {pair \in Pairs : matches[pair] = "ocr"}
          /\ request'[o].demoted = {pair \in Pairs : matches[pair] = "ocr+face"}
      BY <1>0, <1>2, OwnSteps, ChooseFields
    <2>2. request[o].bib = <<>> /\ matches' = matches
      BY <1>0, <1>2 DEF ClearRead, StepsMakeSense
    <2>3. ASSUME NEW p \in Photos, NEW x \in Present', Matched(p, x)'
          PROVE  <<p, x>> \in request'[o].doomed \union request'[o].demoted
      <3>1. <<p, x>> \in Pairs
        BY DEF Present, Pairs
      <3>2. QED
        BY <2>1, <2>2, <2>3, <3>1 DEF Matched
    <2>4. QED
      BY <2>1, <2>2, <2>3 DEF Pending, HeldIsCurrent
  <1>3. CASE ~ClearRead(o)
    <2>1. Careful /\ request[o].clean
      BY <1>0, <1>3, CleanIsCareful
    <2>2. /\ \A p \in Photos, x \in Present :
               Matched(p, x) /\ bib[x] \notin FoundByOcr[text[p]] =>
                 <<p, x>> \in request[o].doomed \union request[o].demoted
          /\ \A p \in read, x \in Present : bib[x] \in FoundByRebuild[text[p]] =>
               Matched(p, x) \/ Pending(o, p, x)
          /\ HeldIsCurrent(request[o])
      BY <2>1 DEF IInv, CleanOnTheWay, HeldIsCurrent
    <2>3. bib' = bib /\ Present' = Present /\ Present \subseteq Persons
      BY <2>1 DEF Careful, Present
    <2>4. ASSUME NEW p \in Photos, NEW x \in Present',
                 Matched(p, x)', bib'[x] \notin FoundByOcr[text'[p]]
          PROVE  <<p, x>> \in request'[o].doomed \union request'[o].demoted
      <3>1. Matched(p, x)
        BY <1>0, <2>1, <2>4, WrittenRight
      <3>2. <<p, x>> \in request[o].doomed \union request[o].demoted
        BY <1>1, <2>2, <2>3, <2>4, <3>1
      <3>3. QED
        BY <1>0, <1>3, <2>1, <2>3, <2>4, <3>2, ToBeCleared
    <2>5. ASSUME NEW p \in read', NEW x \in Present', bib'[x] \in FoundByRebuild[text'[p]]
          PROVE  Matched(p, x)' \/ Pending(o, p, x)'
      <3>1. x \in Present /\ x \in Persons
        BY <2>3
      <3>2. CASE p \notin read
        BY <1>0, <2>1, <2>5, <3>2, NewlyRead
      <3>3. CASE p \in read
        <4>1. Matched(p, x) \/ Pending(o, p, x)
          BY <1>1, <2>2, <2>3, <2>5, <3>1, <3>3
        <4>2. CASE \E r \in Requests : ClearCommit(r)
          BY <1>0, <2>1, <4>2, ClearedBeforeLoading
        <4>3. CASE Matched(p, x) /\ \A r \in Requests : ~ClearCommit(r)
          BY <1>0, <2>1, <3>1, <3>3, <4>3, StillMatched DEF Careful, Types
        <4>4. CASE Pending(o, p, x)
          BY <1>0, <1>1, <1>3, <2>1, <2>2, <2>3, <2>5, <3>1, <3>3, <4>4, PendingStep
        <4>5. QED
          BY <4>1, <4>2, <4>3, <4>4
      <3>4. QED
        BY <3>2, <3>3
    <2>6. HeldIsCurrent(request[o])'
      BY <1>0, <1>3, <2>1, <2>2, HeldStep
    <2>7. QED
      BY <2>4, <2>5, <2>6
  <1>4. QED
    BY <1>2, <1>3

\* Only the end of a clean rebuild takes the ghost back.
LEMMA ExactStep ==
  IInv /\ [Next]_vars => MatchesExact'
  <1> SUFFICES ASSUME IInv, [Next]_vars, ~dirty'
               PROVE  /\ NoneWrong'
                      /\ \A p \in read', x \in Present' :
                           bib'[x] \in FoundByRebuild[text'[p]] => Matched(p, x)'
    BY DEF MatchesExact
  <1>0. Types /\ StepsMakeSense /\ FindingsHold /\ ReadingsHold /\ dirty \in BOOLEAN
    BY DEF IInv, TypeOK, Types
  <1>1. text' = text /\ read \subseteq read' /\ bib' = bib /\ Present' = Present
    BY <1>0, ParticipantsKept DEF Spoilt, Present
  <1>2. CASE ~dirty
    <2>1. NoneWrong /\ \A p \in read, x \in Present :
                         bib[x] \in FoundByRebuild[text[p]] => Matched(p, x)
      BY <1>2 DEF IInv, MatchesExact
    <2>2. Careful /\ \A r \in Requests : ~ClearCommit(r)
      <3>1. ASSUME NEW r \in Requests
            PROVE  ~ClearCommit(r) /\ ~Delete(r) /\ (WriteMatches(r) => ~request[r].stale)
        BY DEF ClearCommit, Delete, Changes, WriteMatches
      <3>2. \A k \in Photos : OcrCommit(k) => ~ocr[k].stale
        BY DEF OcrCommit
      <3>3. QED
        BY <1>1, <3>1, <3>2 DEF Careful
    <2>3. NoneWrong'
      <3> SUFFICES ASSUME NEW p \in Photos, NEW x \in Present', Matched(p, x)'
                   PROVE  bib'[x] \in FoundByOcr[text'[p]]
        BY DEF NoneWrong
      <3>1. CASE Matched(p, x)
        BY <1>1, <2>1, <3>1 DEF NoneWrong
      <3>2. CASE ~Matched(p, x)
        BY <1>0, <2>2, <3>2, WrittenRight
      <3>3. QED
        BY <3>1, <3>2
    <2>4. ASSUME NEW p \in read', NEW x \in Present', bib'[x] \in FoundByRebuild[text'[p]]
          PROVE  Matched(p, x)'
      <3>1. x \in Present /\ x \in Persons
        BY <1>1 DEF Present
      <3>2. CASE p \notin read
        BY <1>0, <2>2, <2>4, <3>2, NewlyRead
      <3>3. CASE p \in read
        <4>1. p \in Photos
          BY <1>0, <3>3 DEF Types
        <4>2. Matched(p, x)
          BY <1>1, <2>1, <2>4, <3>1, <3>3
        <4>3. QED
          BY <1>0, <2>2, <3>1, <4>1, <4>2, StillMatched DEF Careful
      <3>4. QED
        BY <3>2, <3>3
    <2>5. QED
      BY <2>3, <2>4
  <1>3. CASE dirty
    <2>1. \E r \in Requests : EndRequest(r) /\ request[r].clean
      <3>1. ASSUME NEW r \in Requests, Handle(r)
            PROVE  EndRequest(r) /\ request[r].clean
        <4>1. CASE Save(r) \/ Delete(r) \/ ClearCommit(r)
          BY <4>1 DEF Save, Delete, Changes, ClearCommit
        <4>2. CASE \/ Check(r) \/ SaveFails(r) \/ ClearRead(r) \/ ClearFails(r) \/ Load(r) \/ Match(r)
                   \/ Skip(r) \/ RebuildFails(r) \/ Die(r)
          BY <1>3, <4>2 DEF Check, SaveFails, ClearRead, ClearFails, Load, Match, Skip, RebuildFails, Die
        <4>3. CASE WriteMatches(r)
          BY <1>3, <4>3 DEF WriteMatches
        <4>4. CASE EndRequest(r)
          BY <1>3, <4>4 DEF EndRequest
        <4>5. QED
          BY <3>1, <4>1, <4>2, <4>3, <4>4 DEF Handle
      <3>2. ASSUME NEW k \in Photos, OcrRead(k) \/ OcrCommit(k) \/ OcrFails(k)
            PROVE  FALSE
        BY <1>3, <3>2 DEF OcrRead, OcrCommit, OcrFails
      <3>3. ASSUME NEW s \in Sessions, TakeOver(s) \/ \E r \in Requests : BeginRequest(r, s)
            PROVE  FALSE
        BY <1>3, <3>3 DEF TakeOver, BeginRequest
      <3>4. ~Pause /\ ~UNCHANGED vars
        BY <1>3 DEF Pause, vars
      <3>5. QED
        BY <3>1, <3>2, <3>3, <3>4 DEF Next
    <2>2. PICK r \in Requests : EndRequest(r) /\ request[r].clean
      BY <2>1
    <2>3. request[r].step = "photos" /\ request[r].loaded = <<>>
      BY <2>2 DEF EndRequest
    <2>4. request[r].doomed = {} /\ request[r].demoted = {}
      BY <1>0, <2>3 DEF StepsMakeSense
    <2>5. /\ NoneWrong
          /\ \A p \in read, x \in Present :
               bib[x] \in FoundByRebuild[text[p]] => Matched(p, x) \/ Pending(r, p, x)
      BY <2>2, <2>4 DEF IInv, CleanOnTheWay, NoneWrong
    <2>6. \A p \in read, x \in Present : ~Pending(r, p, x)
      BY <2>3 DEF Pending, Range
    <2>7. read' = read /\ matches' = matches
      BY <2>2 DEF EndRequest
    <2>8. QED
      BY <1>1, <2>5, <2>6, <2>7 DEF NoneWrong, Matched, Present
  <1>4. QED
    BY <1>0, <1>2, <1>3

-----------------------------------------------------------------------------
(* The theorems.                                                           *)

LEMMA IInvInit == Init => IInv
  <1> SUFFICES ASSUME Init PROVE IInv
    OBVIOUS
  <1>1. TypeOK
    BY TypesInit, ConstraintsInit DEF TypeOK
  <1>2. \A p \in Photos, x \in Persons :
          Matched(p, x) <=> p \in Indexed /\ x \in WithBib(FoundByOcr[text[p]])
    <2>1. PICK faces \in SUBSET (Photos \X Present), found \in SUBSET Pairs :
            LET rows == [pair \in Pairs |-> IF pair \in faces THEN "face" ELSE "none"]
            IN /\ rows \in [Pairs -> Sources] /\ matches = Upserted(rows, found)
               /\ \A pair \in found : pair[1] \in Indexed /\ pair[2] \in Present
               /\ \A p \in Indexed, x \in Persons :
                    <<p, x>> \in found <=> x \in WithBib(FoundByOcr[text[p]])
      BY AtFirst
    <2>2. \A p \in Photos, x \in Persons : <<p, x>> \in Pairs
      BY DEF Pairs
    <2>3. \A p \in Photos, x \in Persons : Matched(p, x) <=> <<p, x>> \in found
      BY <2>1, <2>2, UpsertedRows DEF Matched
    <2>4. QED
      BY <2>1, <2>3
  <1>3. NoneWrong /\ MatchedAreRead
    BY <1>2 DEF Init, NoneWrong, MatchedAreRead, Present, WithBib
  <1>4. MatchesExact
    <2>1. ASSUME NEW p \in read, NEW x \in Present, bib[x] \in FoundByRebuild[text[p]]
          PROVE  Matched(p, x)
      <3>1. p \in Indexed /\ p \in Photos /\ text[p] \in Texts /\ x \in Persons
        BY <1>1, MatchesAssumption DEF Init, TypeOK, Types, Present
      <3>2. QED
        BY <1>2, <2>1, <3>1, FoundBibs DEF WithBib
    <2>2. QED
      BY <1>3, <2>1 DEF MatchesExact
  <1>5. CleanOnTheWay
    BY EdgeFields DEF Init, CleanOnTheWay
  <1>6. QED
    BY <1>1, <1>3, <1>4, <1>5, LockInit, SenseInit, FindingsInit, ReadingsInit DEF IInv

LEMMA IInvStep == IInv /\ [Next]_vars => IInv'
  <1> SUFFICES ASSUME IInv, [Next]_vars PROVE IInv'
    OBVIOUS
  <1>1. /\ Types /\ Constraints /\ LockHeld /\ StepsMakeSense /\ FindingsHold /\ ReadingsHold
        /\ MatchedAreRead
    BY DEF IInv, TypeOK
  <1>2. TypeOK'
    BY <1>1, TypesStep, ConstraintsStep DEF TypeOK
  <1>3. LockHeld' /\ StepsMakeSense'
    BY <1>1, LockStep, SenseStep
  <1>4. FindingsHold' /\ ReadingsHold' /\ MatchedAreRead'
    BY <1>1, FindingsStep, ReadingsStep, MatchedAreReadStep
  <1>5. CleanOnTheWay' /\ MatchesExact'
    BY CleanStep, ExactStep
  <1>6. QED
    BY <1>2, <1>3, <1>4, <1>5 DEF IInv

\* The inductive invariant: types and constraints, the lock of each request,
\* and what each rebuild and each completion has found and still is to write.
THEOREM Invariance == Spec => []IInv
  BY IInvInit, IInvStep, PTL DEF Spec

\* Every variable keeps its type, bibs stay unique, and no match outlives its
\* participant.
THEOREM TypeCorrect == Spec => []TypeOK
  <1>1. IInv => TypeOK
    BY DEF IInv
  <1>2. QED
    BY <1>1, Invariance, PTL

\* Two admin sessions run requests at once only after a takeover or idling.
THEOREM AdminsExclude == Spec => []SingleAdmin
  <1>1. IInv => SingleAdmin
    BY DEF IInv, LockHeld, SingleAdmin
  <1>2. QED
    BY <1>1, Invariance, PTL

\* After a clean rebuild, photos are matched by text with those they show,
\* although rebuild_event_photo_matches deletes only the rows it had selected and
\* create_participant_matches may see a participant as loaded before: a rebuild
\* that either leads astray is not clean.
THEOREM RebuildIsExact == Spec => []MatchesExact
  <1>1. IInv => MatchesExact
    BY DEF IInv
  <1>2. QED
    BY <1>1, Invariance, PTL

\* No step takes the face away from a match whose participant stays.
THEOREM FacesStay == Spec => FaceMatchesKept
  <1> DEFINE Kept == \A pair \in Pairs :
               matches[pair] \in {"face", "ocr+face"} /\ bib'[pair[2]] # <<>> =>
                 matches'[pair] \in {"face", "ocr+face"}
  <1>1. Types /\ StepsMakeSense /\ [Next]_vars => Kept
    <2> SUFFICES ASSUME Types, StepsMakeSense, [Next]_vars PROVE Kept
      OBVIOUS
    <2>0. matches \in [Pairs -> Sources]
      BY DEF Types
    <2>1. ASSUME matches' = matches
          PROVE  Kept
      BY <2>1
    <2>2. ASSUME NEW r \in Requests, Handle(r)
          PROVE  Kept
      <3>1. CASE Delete(r)
        <4>1. PICK gone : /\ bib' = [x \in Persons |-> IF x \in gone THEN <<>> ELSE bib[x]]
                          /\ matches' = [pair \in Pairs |->
                                           IF pair[2] \in gone THEN "none" ELSE matches[pair]]
          BY <3>1 DEF Delete, Changes
        <4>2. \A pair \in Pairs : pair[2] \in Persons
          BY DEF Pairs
        <4>3. QED
          BY <4>1, <4>2
      <3>2. CASE ClearCommit(r)
        <4>1. request[r] \in Request /\ \A pair \in request[r].doomed : matches[pair] = "ocr"
          BY DEF Types, StepsMakeSense
        <4>2. QED
          BY <2>0, <3>2, <4>1, ClearedRows DEF ClearCommit
      <3>3. CASE WriteMatches(r)
        <4>1. request[r].found \in SUBSET Pairs
          BY DEF Types, Request
        <4>2. QED
          BY <2>0, <3>3, <4>1, UpsertedRows DEF WriteMatches
      <3>4. CASE \/ Check(r) \/ Save(r) \/ SaveFails(r) \/ ClearRead(r) \/ ClearFails(r) \/ Load(r)
                 \/ Match(r) \/ Skip(r) \/ RebuildFails(r) \/ EndRequest(r) \/ Die(r)
        BY <2>1, <3>4 DEF Check, Save, Changes, SaveFails, ClearRead, ClearFails, Load, Match, Skip,
                          RebuildFails, EndRequest, Die
      <3>5. QED
        BY <2>2, <3>1, <3>2, <3>3, <3>4 DEF Handle
    <2>3. ASSUME NEW p \in Photos, OcrCommit(p)
          PROVE  Kept
      <3>1. ocr[p].found \in SUBSET Pairs
        BY DEF Types, Reading
      <3>2. QED
        BY <2>0, <2>3, <3>1, UpsertedRows DEF OcrCommit
    <2>4. ASSUME NEW p \in Photos, OcrRead(p) \/ OcrFails(p)
          PROVE  Kept
      BY <2>1, <2>4 DEF OcrRead, OcrFails
    <2>5. ASSUME NEW s \in Sessions, TakeOver(s) \/ \E r \in Requests : BeginRequest(r, s)
          PROVE  Kept
      BY <2>1, <2>5 DEF TakeOver, BeginRequest
    <2>6. CASE Pause \/ UNCHANGED vars
      BY <2>1, <2>6 DEF Pause, vars
    <2>7. QED
      BY <2>2, <2>3, <2>4, <2>5, <2>6 DEF Next
  <1>2. IInv => Types /\ StepsMakeSense
    BY DEF IInv, TypeOK
  <1>3. QED
    BY <1>1, <1>2, Invariance, PTL DEF Spec, FaceMatchesKept
=============================================================================
