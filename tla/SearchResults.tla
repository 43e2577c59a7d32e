---------------------------- MODULE SearchResults ----------------------------
(***************************************************************************)
(* The results of one search of a participant's photos: the matching of    *)
(* selfies, or of faces seen next to the participant's bib, with the faces *)
(* of an event whose photos are still being indexed; the reinforcement by  *)
(* faces found on the way; and the pages a browser reads meanwhile.        *)
(*                                                                         *)
(* A face is a point on a line, and two faces are the more similar the     *)
(* closer they are; scores are percentages.                                *)
(***************************************************************************)
EXTENDS BibEvidence, Integers, SequencesExt

CONSTANTS
  Photos, CreatedAt,        \* the photos of the event and when they came
  Faces, PhotoOf, Quality,  \* the faces on them: size and sharpness
  Selfies, BibSearch,       \* what a search is made with
  RowOrders,                \* orders in which the database may stream the faces
  Falloff,                  \* how similarity falls with distance
  Texts, Bib,               \* what OCR may read, and the participant's bib
  Scenes, Late,             \* bounds: the placements, the photos indexed late
  RebuildsAfter,            \* and where one rebuild may end and another begin
  CandidateScore, MediumScore, ReinforcementScore, StrongScore,
  MaxSearchResults, MaxSearchFaces, MaxReinforcements, PageSize,
  SeedPhotoLimit, SeedMinPhotos, MajorityPercent, LeadPercent

Jobs == Selfies \union {BibSearch}
Scores == 0..100

ASSUME SearchAssumption ==
  /\ IsFiniteSet(Photos) /\ IsFiniteSet(Faces) /\ IsFiniteSet(Selfies)
  /\ CreatedAt \in [Photos -> Nat] /\ IsInjective(CreatedAt)
  /\ PhotoOf \in [Faces -> Photos]
  /\ Quality \in [Faces -> Nat \ {0}] /\ IsInjective(Quality)
  /\ BibSearch \notin Selfies
  /\ \A order \in RowOrders :
       order \in Seq(Faces) /\ Range(order) = Faces /\ IsInjective(order)
  /\ \A t \in Texts \union {Bib} : t \in Seq(Range(t))
  /\ Scenes \subseteq {"hybrid", "bib_only"} \X [Faces \union Selfies -> Nat] \X [Photos -> Texts]
  /\ {CandidateScore, MediumScore, ReinforcementScore, StrongScore} \subseteq 1..100
  /\ CandidateScore <= MediumScore /\ MediumScore <= ReinforcementScore
  /\ ReinforcementScore <= StrongScore
  /\ {Falloff, MaxSearchResults, SeedMinPhotos, PageSize} \subseteq Nat \ {0}
  /\ {MaxSearchFaces, MaxReinforcements, SeedPhotoLimit} \subseteq Nat
  /\ {MajorityPercent, LeadPercent} \subseteq Nat
  /\ SeedPhotoLimit >= 2
  /\ Late \subseteq [faces : SUBSET Photos, texts : SUBSET Photos]
  /\ RebuildsAfter \subseteq {"read", "cleared", "filling"}

NoRow == 0   \* a stored score is at least CandidateScore
Rounds == 2

VARIABLES
  mode,        \* "hybrid", a search with selfies, or "bib_only"
  position,    \* where each face and selfie is
  text,        \* the text OCR reads on each photo
  scanned,     \* photos whose faces are stored
  read,        \* photos whose text is stored
  matched,     \* when the row was made that links a photo to the participant
               \* by its text, NoRow for none
  rebuild,     \* a rebuild of these rows, see RebuildRead
  results,     \* committed best score of each face, NoRow for none
  pending,     \* the selfies, or the bib, that are not compared yet
  job,         \* the transaction of each of them, see Idle
  used,        \* ghost: what was compared with which photos' faces
  download     \* a download of all results, page by page

vars == <<mode, position, text, scanned, read, matched, rebuild, results, pending, job, used,
          download>>
matches == <<matched, rebuild>>
scene == <<mode, position, text>>

Distance(x, y) == IF x <= y THEN y - x ELSE x - y
\* cosine_similarity.
Similarity(x, y) ==
  IF Falloff * Distance(x, y) >= 100 THEN 0 ELSE 100 - Falloff * Distance(x, y)

FacesOf(photos) == {f \in Faces : PhotoOf[f] \in photos}
StrengthOf == [t \in Texts |-> BibStrength({t}, Bib)]
ExactOf == [t \in Texts |-> HasExactBib({t}, Bib)]
TokenOf == [t \in Texts |-> Normalized(Bib) \in TokenCandidates(t)]
Strength(p) == IF p \in read THEN StrengthOf[text[p]] ELSE "none"
ExactBib(p) == p \in read /\ ExactOf[text[p]]
Matched == {p \in Photos : matched[p] # NoRow}

\* The sequence of a set in an order, a set of pairs, and its first n elements.
Ahead(x, S, order) == {y \in S : <<y, x>> \in order}
Sorted(S, order) ==
  [i \in 1..Cardinality(S) |-> CHOOSE x \in S : Cardinality(Ahead(x, S, order)) = i - 1]
Top(n, S, order) == {x \in S : Cardinality(Ahead(x, S, order)) < n}
Descending(key) == {pair \in (DOMAIN key) \X (DOMAIN key) : key[pair[1]] > key[pair[2]]}
FirstOf(n, seq) == SubSeq(seq, 1, IF n < Len(seq) THEN n ELSE Len(seq))
CeilPercent(n, percent) == (n * percent + 99) \div 100
Total(values) ==
  LET sum[i \in 0..Len(values)] == IF i = 0 THEN 0 ELSE sum[i - 1] + values[i]
  IN sum[Len(values)]

-----------------------------------------------------------------------------
(* create_face_search_results: compare one embedding with all faces.       *)

NoRows == [f \in Faces |-> NoRow]
Best(rows, other) == [f \in Faces |-> MaxOf({rows[f], other[f]})]

\* The candidates are kept in a bounded heap while the rows stream by.
Offered(embedding, kept, f) ==
  LET score(g) == Similarity(embedding, position[g])
      weakest == CHOOSE g \in kept : \A h \in kept : score(g) <= score(h)
  IN IF f \notin FacesOf(scanned) \/ score(f) < CandidateScore THEN kept
     ELSE IF Cardinality(kept) < MaxSearchResults THEN kept \union {f}
     ELSE IF score(f) > score(weakest) THEN (kept \ {weakest}) \union {f}
     ELSE kept
Streamed(embedding, order) ==
  LET heap[i \in 0..Len(order)] ==
        IF i = 0 THEN {} ELSE Offered(embedding, heap[i - 1], order[i])
  IN heap[Len(order)]

\* A mutant of Upserted: the later score wins.
UpsertedLast(rows, embedding, kept) ==
  [f \in Faces |-> IF f \in kept THEN Similarity(embedding, position[f]) ELSE rows[f]]
\* Upserting keeps the better score.
Upserted(rows, embedding, kept) ==
  [f \in Faces |-> IF f \in kept /\ Similarity(embedding, position[f]) > rows[f]
                     THEN Similarity(embedding, position[f]) ELSE rows[f]]

Idle ==
  [active |-> FALSE,
   seeds |-> <<>>,        \* embeddings that are to be compared first
   rows |-> NoRows,       \* what the transaction has upserted
   round |-> 0,
   queue |-> {},          \* faces the round still has to compare
   rank |-> NoRows,       \* their scores in the query that ordered them
   seen |-> NoRows,       \* scores of the loaded rows: loaded once
   known |-> {},          \* photos whose texts are loaded, once too
   exact |-> {},          \* those that show the bib
   reinforced |-> {},
   compared |-> {}]       \* what becomes used

\* A transaction reads what is committed and its own rows.
Visible(j) == Best(results, job[j].rows)

Indexed == Cardinality(FacesOf(scanned)) <= MaxSearchFaces
\* A row that another transaction upserts makes this one wait for its commit.
Waits(j, kept) ==
  \E k \in Jobs \ {j}, f \in kept : job[k].rows[f] # NoRow

\* The record of the transaction after one comparison.
Compared(j, embedding, kept) ==
  [job[j] EXCEPT !.rows = Upserted(@, embedding, kept),
                 !.compared = @ \union {[embedding |-> embedding, photos |-> scanned]}]

-----------------------------------------------------------------------------
(* select_bib_only_seed_embeddings.                                        *)

ByQuality(S) == Sorted(S, Descending(Quality))

ExactPhotos == Top(SeedPhotoLimit, {p \in Photos : ExactBib(p)}, Descending(CreatedAt))
UsablePhotos == {p \in ExactPhotos : p \in scanned /\ FacesOf({p}) # {}}

\* is_dominant_face: the best is at least 1.8 times as good as the second.
IsDominant(faces) ==
  Len(faces) < 2 \/ 10 * Quality[faces[1]] >= 18 * Quality[faces[2]]

\* The dominant face of a photo, or the four best.
SeedFacesOf(p) ==
  LET good == ByQuality(FacesOf({p}))
  IN IF IsDominant(good) THEN FirstOf(1, good) ELSE FirstOf(4, good)

SeedFaces ==
  LET photos == Sorted(UsablePhotos, Descending(CreatedAt))
      faces[i \in 0..Len(photos)] ==
        IF i = 0 THEN <<>> ELSE faces[i - 1] \o SeedFacesOf(photos[i])
  IN faces[Len(photos)]

\* cluster_seed_faces: a face joins the first of the clusters it is closest to.
Closeness(f, cluster) == MaxOf({Similarity(position[f], position[g]) : g \in cluster})
Join(clusters, f) ==
  LET score == [i \in DOMAIN clusters |-> Closeness(f, clusters[i])]
      best == {i \in DOMAIN clusters :
                 /\ score[i] >= ReinforcementScore
                 /\ \A k \in DOMAIN clusters : score[k] < score[i] \/ (k >= i /\ score[k] = score[i])}
  IN IF best = {} THEN Append(clusters, {f})
     ELSE [i \in DOMAIN clusters |-> IF i \in best THEN clusters[i] \union {f} ELSE clusters[i]]
Clusters ==
  LET faces == SeedFaces
      after[i \in 0..Len(faces)] == IF i = 0 THEN <<>> ELSE Join(after[i - 1], faces[i])
  IN Range(after[Len(faces)])

PhotoCount(cluster) == Cardinality({PhotoOf[f] : f \in cluster})

\* A mutant of RequiredSupport: two photos are enough.
RequiredMinimum(support) == SeedMinPhotos
RequiredSupport(support) == MaxOf({SeedMinPhotos, CeilPercent(support, MajorityPercent)})

\* The cluster on most of the photos, then the better average quality, with a
\* clear lead.
ConsensusClusters ==
  LET eligible == {c \in Clusters : PhotoCount(c) >= SeedMinPhotos}
      quality(c) == Total([i \in DOMAIN ByQuality(c) |-> Quality[ByQuality(c)[i]]])
      support == Cardinality(UsablePhotos)
  IN {c \in eligible :
        /\ PhotoCount(c) >= RequiredSupport(support)
        /\ \A d \in eligible \ {c} :
             /\ \/ PhotoCount(c) > PhotoCount(d)
                \/ quality(c) * Cardinality(d) > quality(d) * Cardinality(c)
             /\ \/ PhotoCount(c) >= PhotoCount(d) + 2
                \/ PhotoCount(c) >= CeilPercent(PhotoCount(d), LeadPercent)}

\* The average and the two best faces of the cluster, without duplicates.
SeedsOf(cluster) ==
  LET best == ByQuality(cluster)
      places == [i \in DOMAIN best |-> position[best[i]]]
      all == <<Total(places) \div Len(places)>> \o FirstOf(2, places)
      fresh == {i \in DOMAIN all : \A k \in 1..(i - 1) : Similarity(all[k], all[i]) < 100}
      kept == Sorted(fresh, {pair \in fresh \X fresh : pair[1] < pair[2]})
  IN [i \in DOMAIN kept |-> all[kept[i]]]

\* With a single exact photo, the only face on it will do.
BibOnlySeeds ==
  LET clear == ConsensusClusters
      usable == FacesOf(UsablePhotos)
  IN IF clear # {} THEN SeedsOf(CHOOSE c \in clear : TRUE)
     ELSE IF Cardinality(ExactPhotos) = 1 /\ Cardinality(usable) = 1
       THEN <<position[CHOOSE f \in usable : TRUE]>>
     ELSE <<>>

-----------------------------------------------------------------------------
(* apply_adaptive_reinforcement: the faces of good results are compared    *)
(* too, twice.                                                             *)

\* With the scores and texts of the rows as they were when first loaded.
ShouldReinforce(score, exact) ==
  IF mode = "bib_only" THEN exact /\ score >= ReinforcementScore
  ELSE \/ score >= StrongScore
       \/ exact /\ score >= ReinforcementScore

\* The best rows, at most MaxSearchResults.
LoadedRows(rows) ==
  Top(MaxSearchResults, {f \in Faces : rows[f] # NoRow},
      {pair \in Faces \X Faces :
         \/ rows[pair[1]] > rows[pair[2]]
         \/ rows[pair[1]] = rows[pair[2]] /\ Quality[pair[1]] > Quality[pair[2]]})

\* A mutant of MayLoad: rounds go on as long as they find something.
MayLoadAgain(j) == job[j].queue = {}
MayLoad(j) == job[j].queue = {} /\ job[j].round < Rounds
\* A mutant of Exhausted: one embedding too many.
ExhaustedLate(j) == Cardinality(job[j].reinforced) > MaxReinforcements
Exhausted(j) == Cardinality(job[j].reinforced) >= MaxReinforcements

LoadRound(j) ==
  /\ job[j].active /\ job[j].seeds = <<>> /\ MayLoad(j) /\ ~Exhausted(j)
  /\ LET now == Visible(j)
         loaded == LoadedRows(now)
         \* Rows the previous round loaded keep the scores they had.
         seen == [f \in Faces |->
                    IF f \notin loaded THEN NoRow
                    ELSE IF job[j].seen[f] # NoRow THEN job[j].seen[f] ELSE now[f]]
         photos == {PhotoOf[f] : f \in loaded}
         exact == job[j].exact \union {p \in photos \ job[j].known : ExactBib(p)}
         queue == {f \in loaded \ job[j].reinforced :
                     ShouldReinforce(seen[f], PhotoOf[f] \in exact)}
     IN job' = [job EXCEPT ![j] = [job[j] EXCEPT
                  !.round = IF queue = {} THEN Rounds ELSE @ + 1,
                  !.queue = queue, !.rank = now, !.seen = seen,
                  !.known = @ \union photos, !.exact = exact]]
  /\ UNCHANGED <<scene, scanned, read, matches, results, pending, used, download>>

Reinforce(j) ==
  /\ job[j].active /\ ~Exhausted(j) /\ Indexed
  /\ \E f \in job[j].queue :
       /\ \A g \in job[j].queue : job[j].rank[g] <= job[j].rank[f]
       /\ \E kept \in {Streamed(position[f], order) : order \in RowOrders} :
            /\ ~Waits(j, kept)
            /\ job' = [job EXCEPT ![j] =
                         [Compared(j, position[f], kept) EXCEPT
                            !.queue = @ \ {f}, !.reinforced = @ \union {f}]]
  /\ UNCHANGED <<scene, scanned, read, matches, results, pending, used, download>>

-----------------------------------------------------------------------------
(* The search with a selfie, complete_face_search_job, and the search by   *)
(* bib alone, create_bib_only_face_search_session.                         *)

Begin(j, seeds, round, known, exact) ==
  /\ j \in pending /\ ~job[j].active
  /\ job' = [job EXCEPT ![j] = [Idle EXCEPT !.active = TRUE, !.seeds = seeds,
               !.round = round, !.known = known, !.exact = exact]]
  /\ UNCHANGED <<scene, scanned, read, matches, results, pending, used, download>>

BeginSelfie(s) == Begin(s, <<position[s]>>, 0, {}, {})

\* The photos that were searched for seeds may still be in memory.
BeginBibOnly ==
  \E known \in {{}, Photos}, seeds \in {BibOnlySeeds} :
    Begin(BibSearch, seeds, IF seeds = <<>> THEN Rounds ELSE 0,
          known, {p \in known : ExactBib(p)})

CompareSeed(j) ==
  /\ job[j].active /\ job[j].seeds # <<>> /\ Indexed
  /\ LET seed == Head(job[j].seeds)
     IN \E kept \in {Streamed(seed, order) : order \in RowOrders} :
          /\ ~Waits(j, kept)
          /\ job' = [job EXCEPT ![j] = [Compared(j, seed, kept) EXCEPT !.seeds = Tail(@)]]
  /\ UNCHANGED <<scene, scanned, read, matches, results, pending, used, download>>

Commit(j) ==
  /\ job[j].active /\ job[j].seeds = <<>>
  /\ Exhausted(j) \/ (job[j].queue = {} /\ job[j].round >= Rounds)
  /\ results' = Visible(j)
  /\ used' = used \union job[j].compared
  /\ pending' = pending \ {j}
  /\ job' = [job EXCEPT ![j] = Idle]
  /\ download' = [download EXCEPT !.stable = FALSE]
  /\ UNCHANGED <<scene, scanned, read, matches>>

\* Too many faces, or two transactions that upsert the rows of each other in
\* different orders: the database breaks the deadlock. The job is tried again.
RollBack(j) ==
  /\ job[j].active
  /\ \/ ~Indexed /\ (job[j].seeds # <<>> \/ job[j].queue # {})
     \/ \E k \in Jobs \ {j}, f \in Faces : job[k].rows[f] # NoRow
  /\ job' = [job EXCEPT ![j] = Idle]
  /\ UNCHANGED <<scene, scanned, read, matches, results, pending, used, download>>

-----------------------------------------------------------------------------
(* list_face_search_photo_items, and user_download_all_photos over it.     *)

BestScore(p) == MaxOf({NoRow} \union {results[f] : f \in FacesOf({p})})

ClassOf(score) ==
  CASE score >= StrongScore -> "strong"
    [] score >= MediumScore /\ score < StrongScore -> "medium"
    [] score >= CandidateScore /\ score < MediumScore -> "weak"
    [] OTHER -> "none"

Accepted(p) ==
  LET class == ClassOf(BestScore(p))
  IN IF mode = "bib_only" THEN class = "strong" \/ ExactBib(p)
     ELSE \/ class = "strong" \/ Strength(p) = "strong"
          \/ class = "medium" /\ Strength(p) = "weak"

\* Photos with the best scores, then those with a row, the latest row first.
Outranks(key1, key2) ==
  \E i \in DOMAIN key1 : key1[i] > key2[i] /\ \A k \in 1..(i - 1) : key1[k] = key2[k]
Ranking(key) ==
  {pair \in (DOMAIN key) \X (DOMAIN key) : Outranks(key[pair[1]], key[pair[2]])}

CandidatePhotos ==
  LET scored == Top(MaxSearchResults, {p \in Photos : BestScore(p) # NoRow},
                    Ranking([p \in Photos |-> <<BestScore(p), CreatedAt[p]>>]))
  IN scored \union Top(MaxSearchResults - Cardinality(scored), Matched \ scored,
                       Descending(matched))

Items ==
  LET rank == [p \in Photos |-> <<BestScore(p), IF Strength(p) = "strong" THEN 1 ELSE 0,
                                  CreatedAt[p]>>]
  IN Sorted({p \in CandidatePhotos : Accepted(p)}, Ranking(rank))

\* paginate_user_search_photo_items.
PageAt(offset) ==
  SubSeq(Items, offset + 1, IF offset + PageSize < Len(Items) THEN offset + PageSize ELSE Len(Items))

\* A mutant of NextOffset: the loop strides over more than a page holds.
WideOffset(offset) == offset + PageSize + 1
NextOffset(offset) == offset + PageSize

NoDownload == [step |-> "none", offset |-> 0, total |-> 1, photos |-> <<>>, stable |-> TRUE]

\* The cookie of a bib-only search comes with its results.
BeginDownload ==
  /\ download.step = "none" /\ (mode = "bib_only" => BibSearch \notin pending)
  /\ download' = [NoDownload EXCEPT !.step = "reading"]
  /\ UNCHANGED <<scene, scanned, read, matches, results, pending, job, used>>

ReadPage ==
  /\ download.step = "reading" /\ download.offset < download.total
  /\ LET page == PageAt(download.offset)
     IN download' = IF page = <<>> THEN [download EXCEPT !.step = "done"]
                    ELSE [download EXCEPT !.photos = @ \o page, !.total = Len(Items),
                                          !.offset = NextOffset(@)]
  /\ UNCHANGED <<scene, scanned, read, matches, results, pending, job, used>>

EndDownload ==
  /\ download.step = "reading" /\ download.offset >= download.total
  /\ download' = [download EXCEPT !.step = "done"]
  /\ UNCHANGED <<scene, scanned, read, matches, results, pending, job, used>>

-----------------------------------------------------------------------------
(* Photo jobs that are completed meanwhile, see PhotoJobs.                 *)

Scan(p) ==
  /\ p \notin scanned
  /\ scanned' = scanned \union {p}
  /\ UNCHANGED <<scene, read, matches, results, pending, job, used, download>>

\* A row that is made now is the latest.
Row(p) == [matched EXCEPT ![p] = 1 + MaxOf({matched[q] : q \in Photos})]

\* The completion of the OCR makes the row for a bib among the candidates.
ReadText(p) ==
  /\ p \notin read
  /\ read' = read \union {p}
  /\ matched' = IF ExactOf[text[p]] THEN Row(p) ELSE matched
  /\ download' = [download EXCEPT !.stable = FALSE]
  /\ UNCHANGED <<scene, scanned, rebuild, results, pending, job, used>>

-----------------------------------------------------------------------------
(* rebuild_event_photo_matches, which follows every change of participants, *)
(* see ParticipantMatches: one at a time here. It is done when no photo is  *)
(* left to fill, and dead if it stays where it is.                          *)

Rebuilt == rebuild.step = "filling" /\ rebuild.photos = {}
Rebuilding(step, photos) == rebuild' = [step |-> step, photos |-> photos]

RebuildRead ==
  /\ rebuild.step = "none" \/ rebuild.step \in RebuildsAfter
  /\ Rebuilding("read", Matched)
  /\ UNCHANGED <<scene, scanned, read, matched, results, pending, job, used, download>>

\* Deletes the rows it has read; a row that was made meanwhile stays.
RebuildClear ==
  /\ rebuild.step = "read"
  /\ matched' = [p \in Photos |-> IF p \in rebuild.photos THEN NoRow ELSE matched[p]]
  /\ Rebuilding("cleared", {})
  /\ download' = [download EXCEPT !.stable = FALSE]
  /\ UNCHANGED <<scene, scanned, read, results, pending, job, used>>

\* Loads the texts. Rows are made again for tokens only, see TokenCandidates.
RebuildList ==
  /\ rebuild.step = "cleared"
  /\ Rebuilding("filling", {p \in read : TokenOf[text[p]]})
  /\ UNCHANGED <<scene, scanned, read, matched, results, pending, job, used, download>>

RebuildPhoto(p) ==
  /\ rebuild.step = "filling" /\ p \in rebuild.photos
  /\ \A q \in rebuild.photos : CreatedAt[q] <= CreatedAt[p]
  /\ matched' = IF p \in Matched THEN matched ELSE Row(p)
  /\ Rebuilding("filling", rebuild.photos \ {p})
  /\ download' = [download EXCEPT !.stable = FALSE]
  /\ UNCHANGED <<scene, scanned, read, results, pending, job, used>>

-----------------------------------------------------------------------------
Init ==
  /\ \E s \in Scenes : mode = s[1] /\ position = s[2] /\ text = s[3]
  /\ \E late \in Late : scanned = Photos \ late.faces /\ read = Photos \ late.texts
  /\ matched = [p \in Photos |-> IF ExactBib(p) THEN CreatedAt[p] + 1 ELSE NoRow]
  /\ rebuild = [step |-> "none", photos |-> {}]
  /\ results = NoRows
  /\ pending = IF mode = "hybrid" THEN Selfies ELSE {BibSearch}
  /\ job = [j \in Jobs |-> Idle]
  /\ used = {}
  /\ download = NoDownload

Next ==
  \/ \E s \in Selfies : BeginSelfie(s)
  \/ BeginBibOnly
  \/ \E j \in Jobs : CompareSeed(j) \/ LoadRound(j) \/ Reinforce(j) \/ Commit(j) \/ RollBack(j)
  \/ BeginDownload \/ ReadPage \/ EndDownload
  \/ \E p \in Photos : Scan(p) \/ ReadText(p) \/ RebuildPhoto(p)
  \/ RebuildRead \/ RebuildClear \/ RebuildList

Spec == Init /\ [][Next]_vars

-----------------------------------------------------------------------------
(* Properties.                                                             *)

Use == [embedding : Nat, photos : SUBSET Photos]
Transaction ==
  [active : BOOLEAN, seeds : Seq(Nat), rows : [Faces -> Scores], round : 0..Rounds,
   queue : SUBSET Faces, rank : [Faces -> Scores], seen : [Faces -> Scores],
   known : SUBSET Photos, exact : SUBSET Photos, reinforced : SUBSET Faces,
   compared : SUBSET Use]
Download ==
  [step : {"none", "reading", "done"}, offset : Nat, total : Nat, photos : Seq(Photos),
   stable : BOOLEAN]

\* The types, with the bound of create_face_search_results on the faces that
\* reinforce, which never repeat, and with what a transaction may know.
TypeOK ==
  /\ scene \in Scenes
  /\ scanned \subseteq Photos
  /\ read \subseteq Photos
  /\ matched \in [Photos -> Nat]
  /\ rebuild \in [step : {"none", "read", "cleared", "filling"},
                  photos : SUBSET Photos]
  /\ results \in [Faces -> Scores]
  /\ pending \subseteq Jobs
  /\ job \in [Jobs -> Transaction]
  /\ \A j \in Jobs :
       /\ job[j].queue \intersect job[j].reinforced = {}
       /\ Cardinality(job[j].reinforced) <= MaxReinforcements
       /\ job[j].exact \subseteq job[j].known
       /\ \A u \in job[j].compared : u.photos \subseteq scanned
  /\ used \subseteq Use
  /\ \A u \in used : u.photos \subseteq scanned
  /\ download \in Download

Explained(rows, uses) ==
  \A f \in Faces : rows[f] # NoRow =>
    \E u \in uses : PhotoOf[f] \in u.photos /\ rows[f] = Similarity(u.embedding, position[f])
NoneBetter(rows, uses) ==
  \A u \in uses : \A f \in FacesOf(u.photos) :
    LET score(g) == Similarity(u.embedding, position[g])
    IN score(f) >= CandidateScore /\ score(f) > rows[f] =>
         Cardinality({g \in FacesOf(u.photos) \ {f} : score(g) >= score(f)}) >= MaxSearchResults
\* The committed score of a face is its similarity to something the search
\* used, and nothing used is closer to it, unless as many faces as one
\* comparison keeps were at least as close: in whatever order the rows stream,
\* the selfies are completed and the transactions overlap or roll back.
TopFacesKept == Explained(results, used) /\ NoneBetter(results, used)

Reach(steps, seeds, points) ==
  LET near[n \in 0..steps] ==
        IF n = 0 THEN seeds
        ELSE near[n - 1] \union {y \in points :
               \E x \in near[n - 1] : Similarity(x, y) >= ReinforcementScore}
  IN near[steps]
Within(steps, seeds) == Reach(steps, seeds, {position[f] : f \in FacesOf(scanned)})
\* Reinforcement does not drift: every comparison goes at most Rounds steps
\* away from a selfie or seed, times the selfies that were completed before,
\* and each step is between faces similar enough to reinforce.
DriftBounded ==
  LET done == Selfies \ pending
  IN mode = "hybrid" =>
       {u.embedding : u \in used} \subseteq
         Within(Rounds * Cardinality(done), {position[s] : s \in done})

\* A search without selfies takes its seeds from one person: the faces of a
\* group that is seen on the majority of the photos that show the bib, each
\* of them close to another, or the only face on the only such photo.
SeedsHaveMajority ==
  LET usable == UsablePhotos
      seeds == BibOnlySeeds
      together(S) == \A f \in S : \A T \in SUBSET S :
                       f \in T /\ T # S => \E g \in T, h \in S \ T :
                         Similarity(position[g], position[h]) >= ReinforcementScore
  IN mode = "bib_only" /\ seeds # <<>> =>
       \/ Cardinality(FacesOf(usable)) = 1
       \/ \E S \in SUBSET FacesOf(usable) :
            /\ 100 * PhotoCount(S) >= MajorityPercent * Cardinality(usable)
            /\ PhotoCount(S) >= SeedMinPhotos
            /\ together(S)
            /\ \E f \in S : seeds[Len(seeds)] = position[f]

\* While nothing is committed between the pages, the archive holds accepted
\* photos only, each of them once, the best first. Unless more photos have a
\* scored face or a row than a search takes as candidates, it holds all of them
\* that have one; no face is needed for photos that show the bib, as long as
\* no rebuild dropped their rows, nor after a rebuild, if the bib is a token.
ArchiveFaithful ==
  download.step = "done" /\ download.stable =>
    /\ IsInjective(download.photos)
    /\ Range(download.photos) \subseteq {p \in Photos : Accepted(p)}
    /\ Cardinality({p \in Photos : BestScore(p) # NoRow} \union Matched) <= MaxSearchResults =>
         /\ rebuild.step = "none" => {p \in Photos : Accepted(p)} \subseteq Range(download.photos)
         /\ \A p \in Photos :
              /\ Accepted(p)
              /\ \/ BestScore(p) # NoRow \/ p \in Matched
                 \/ Rebuilt /\ p \in read /\ TokenOf[text[p]]
              => p \in Range(download.photos)
    /\ \A i, k \in DOMAIN download.photos : i < k =>
         BestScore(download.photos[i]) >= BestScore(download.photos[k])

\* What user_event_search.html says of the archive, "every original matched
\* photo". It does not hold when there is less room than photos: the code takes
\* MaxSearchResults candidates before it tells which to accept; nor after a
\* rebuild, which makes no row for a bib inside a token. See the README.
EveryMatchInArchive ==
  download.step = "done" /\ download.stable =>
    {p \in Photos : Accepted(p)} \subseteq Range(download.photos)

\* The two ways of reading a bib agree: evidence is strong exactly when the
\* bib is among the candidates of a text, and weak only if a piece of the bib
\* that misses at most one character stands in a candidate unbroken.
EvidenceAgrees ==
  LET target == Normalized(Bib)
  IN \A p \in Photos :
       /\ Strength(p) = "strong" <=> ExactBib(p)
       /\ Strength(p) = "weak" =>
            \E i, k \in 1..Len(target) :
              /\ k - i >= Len(target) - 2
              /\ \E c \in Candidates(text[p]) : IsSubstring(SubSeq(target, i, k), c)

-----------------------------------------------------------------------------
(* The inductive invariant: what holds of the committed rows holds of the  *)
(* rows of every transaction too, and a download is a prefix of the items. *)

RowsExplained ==
  \A j \in Jobs :
    /\ Explained(job[j].rows, job[j].compared)
    /\ NoneBetter(job[j].rows, job[j].compared)
    /\ Explained(job[j].seen, used \union job[j].compared)

\* Where a transaction may be after n rounds.
Near(j, n) ==
  LET done == Selfies \ pending
  IN Within(Rounds * Cardinality(done) + n, {position[s] : s \in done \union {j}})
RoundsNear ==
  mode = "hybrid" =>
    /\ pending \subseteq Selfies
    /\ \A j \in Jobs : job[j].active =>
         /\ j \in pending
         /\ Range(job[j].seeds) \subseteq {position[j]}
         /\ {u.embedding : u \in job[j].compared} \subseteq Near(j, job[j].round)
         /\ {position[f] : f \in job[j].queue} \subseteq Near(j, job[j].round)

DownloadInStep ==
  download.stable =>
    /\ download.step = "reading" =>
         /\ download.photos = FirstOf(download.offset, Items)
         /\ download.total = IF download.offset = 0 THEN 1 ELSE Len(Items)
    /\ download.step = "done" => download.photos = Items

\* Until the first rebuild the photos that show the bib have a row, and after
\* one those that show it as a token.
RowsFollowText ==
  \A p \in Photos :
    /\ rebuild.step = "none" => (p \in Matched <=> ExactBib(p))
    /\ rebuild.step = "filling" /\ p \in read /\ TokenOf[text[p]] =>
         p \in Matched \/ p \in rebuild.photos

IInv ==
  /\ TypeOK
  /\ TopFacesKept
  /\ DriftBounded
  /\ RowsExplained
  /\ RoundsNear
  /\ DownloadInStep
  /\ RowsFollowText
=============================================================================
