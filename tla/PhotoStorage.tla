---------------------------- MODULE PhotoStorage ----------------------------
(***************************************************************************)
(* The objects of one event in the bucket and the rows that refer to them. *)
(* Photo ingest, selfie and event-thumbnail uploads write the bucket and   *)
(* the database one after the other; deletions, the thumbnail backfill and *)
(* the storage reconciliation read one and change the other later.         *)
(*                                                                         *)
(* The deletion outbox is taken by what DeletionOutbox shows of it: a      *)
(* queued key stays queued until its object is gone. It may stay for good: *)
(* nothing makes the store answer, and a task can end as a dead letter.    *)
(***************************************************************************)
EXTENDS Naturals, FiniteSets

CONSTANTS
  Uploads,           \* requests to ingest a photo; each draws a photo id of its own
  Legacy,            \* photos of an earlier release: no thumbnail, no checksum
  Contents,          \* image contents, as their checksums
  ContentOf,         \* the content of each upload and legacy photo
  IdempotencyKey,    \* the Idempotency-Key of each upload, or None
  Thumbnails,        \* requests to save an event thumbnail
  Removals,          \* requests to remove the event thumbnail
  Selfies,           \* requests to store a selfie for a face search
  Deletions,         \* requests to delete one photo
  MaxRequests,       \* bound: requests that ever run besides the timers
  None,
  Deleted            \* in place of the event's thumbnail key, once its row is gone

Photos == Uploads \union Legacy
\* The deletion of the event starts with the deletion of all its photos, which
\* is a request of its own too. Backfill and Reconcile are commands; Listing
\* is what the reconciliation read.
DeleteEvent == "delete_event"
Backfill == "thumbnail_backfill"
Reconcile == "storage_reconcile"
Listing == "bucket_listing"
Writers == Uploads \union Thumbnails \union Selfies
Requests == Writers \union Removals \union Deletions \union {DeleteEvent, Backfill, Reconcile}

\* A mutant of Original: the key is made from the content.
OriginalByContent(p) == <<"originals", ContentOf[p]>>
Original(p) == <<"originals", p>>
Thumbnail(p) == <<"thumbnails", p>>
EventThumbnail(t) == <<"event-thumbnails", t>>
Selfie(s) == <<"face-search", s>>
Keys == {Original(p) : p \in Photos} \union {Thumbnail(p) : p \in Photos}
        \union {EventThumbnail(t) : t \in Thumbnails} \union {Selfie(s) : s \in Selfies}
\* A mutant of IsSensitiveTemporaryKey: selfies are not recognized.
OnlyParticipantFaces(k) == k[1] = "participants"
IsSensitiveTemporaryKey(k) == k[1] = "face-search"

PhotoRow == [thumbnail: BOOLEAN, checksum: Contents \union {None}]

InFlight == {"storing", "committing", "refreshing"}
Stages == {"off", "idle", "reused", "accepted", "refused", "uncompensated", "revoked", "crashed",
           "read", "queued", "event_read", "done"} \union InFlight

\* Photos and requests have ids of their own.
ASSUME StorageAssumption ==
  /\ ContentOf \in [Photos -> Contents] /\ None \notin Contents /\ None \notin PhotoRow
  /\ MaxRequests \in Nat
  /\ Uploads \intersect (Legacy \union Thumbnails \union Selfies) = {}
  /\ Thumbnails \intersect Selfies = {}
  /\ Writers \intersect (Removals \union Deletions) = {} /\ Removals \intersect Deletions = {}
  /\ (Writers \union Removals \union Deletions) \intersect {DeleteEvent, Backfill, Reconcile, Listing} = {}
  /\ Photos \intersect Stages = {}
  /\ None # Deleted /\ Keys \intersect {None, Deleted} = {}

VARIABLES
  bucket,    \* keys of the stored objects
  outbox,    \* keys queued for deletion
  photos,    \* the row of each photo, or None
  event,     \* the thumbnail key of the event, None or Deleted
  selfies,   \* selfies with a committed row
  pc,        \* how far each request is; the backfill at a photo whose thumbnail it stored
  seen,      \* the keys each request read, to be used by a later step of it
  due        \* history: the orphaned selfies when the reconciliation last
             \* listed the bucket, unless that run queued nothing

vars == <<bucket, outbox, photos, event, selfies, pc, seen, due>>

Exists == event # Deleted
\* What the photo, selfie and event rows refer to.
Referenced ==
  {Original(p) : p \in {q \in Photos : photos[q] # None}}
  \union {Thumbnail(p) : p \in {q \in Photos : photos[q] # None /\ photos[q].thumbnail}}
  \union {Selfie(s) : s \in selfies}
  \union ({event} \ {None, Deleted})

OwnKeys(r) ==
  CASE r \in Uploads -> {Original(r), Thumbnail(r)}
    [] r \in Thumbnails -> {EventThumbnail(r)}
    [] OTHER -> {Selfie(r)}

TypeOK ==
  /\ bucket \subseteq Keys
  /\ outbox \subseteq Keys
  /\ photos \in [Photos -> PhotoRow \union {None}]
  /\ event \in {EventThumbnail(t) : t \in Thumbnails} \union {None, Deleted}
  /\ selfies \subseteq Selfies
  /\ pc \in [Requests -> Stages \union Photos]
  /\ seen \in [Requests \union {Listing} -> SUBSET (Keys \union {None})]
  /\ due \subseteq Keys

\* The event exists, its legacy photos are stored. The maintenance commands
\* and at most MaxRequests other requests will run.
Init ==
  /\ bucket = {Original(p) : p \in Legacy}
  /\ outbox = {}
  /\ photos = [p \in Photos |-> IF p \in Legacy THEN [thumbnail |-> FALSE, checksum |-> None]
                                                ELSE None]
  /\ event = None
  /\ selfies = {}
  /\ \E running \in SUBSET (Requests \ {Reconcile}) :
       /\ Cardinality(running) <= MaxRequests
       /\ pc = [r \in Requests |-> IF r \in running \union {Reconcile} THEN "idle" ELSE "off"]
  /\ seen = [r \in Requests \union {Listing} |-> {}]
  /\ due = {}

Goto(r, stage) == pc' = [pc EXCEPT ![r] = stage]
Remember(r, keys) == seen' = [seen EXCEPT ![r] = keys]

\* A mutant of Enqueue: a missing key is not skipped.
EnqueueAny(keys) == outbox' = outbox \union keys
\* enqueue_object_deletion, which skips a missing key.
Enqueue(keys) == outbox' = outbox \union (keys \ {None})

-----------------------------------------------------------------------------
(* Uploads: of a photo, of a selfie, of an event thumbnail.                *)

\* ingest_photo_upload looks for a photo with the same idempotency key or,
\* when the request has none, with the same content.
AlreadyAccepted(u) ==
  \E p \in Photos :
    /\ photos[p] # None
    /\ IF IdempotencyKey[u] # None
         THEN p \in Uploads /\ IdempotencyKey[p] = IdempotencyKey[u]
         ELSE photos[p].checksum = ContentOf[u]

\* uq_photos_event_idempotency_key and uq_photos_event_checksum_sha256.
Conflicts(u) ==
  \E p \in Photos :
    /\ photos[p] # None
    /\ \/ photos[p].checksum = ContentOf[u]
       \/ p \in Uploads /\ IdempotencyKey[p] # None /\ IdempotencyKey[p] = IdempotencyKey[u]

BeginUpload(u) ==
  /\ u \in Uploads /\ pc[u] = "idle" /\ Exists
  /\ Goto(u, IF AlreadyAccepted(u) THEN "reused" ELSE "storing")
  /\ UNCHANGED <<bucket, outbox, photos, event, selfies, seen, due>>

\* Refused before anything is stored: the bytes are not an acceptable image,
\* or the backlog of jobs is full.
Rejected(r) ==
  /\ pc[r] = "idle"
  /\ Goto(r, "refused")
  /\ UNCHANGED <<bucket, outbox, photos, event, selfies, seen, due>>

BeginSelfie(s) ==
  /\ s \in Selfies /\ pc[s] = "idle" /\ Exists
  /\ Goto(s, "storing")
  /\ UNCHANGED <<bucket, outbox, photos, event, selfies, seen, due>>

\* save_event_thumbnail remembers the previous key before it stores the new
\* object.
BeginThumbnail(t) ==
  /\ t \in Thumbnails /\ pc[t] = "idle" /\ Exists
  /\ Remember(t, {event})
  /\ Goto(t, "storing")
  /\ UNCHANGED <<bucket, outbox, photos, event, selfies, due>>

\* The original of a photo is stored before its thumbnail.
NextKey(r) ==
  IF r \in Uploads /\ Original(r) \in bucket THEN Thumbnail(r)
  ELSE CHOOSE k \in OwnKeys(r) : r \in Uploads => k = Original(r)

Store(r) ==
  /\ pc[r] = "storing"
  /\ bucket' = bucket \union {NextKey(r)}
  /\ Goto(r, IF OwnKeys(r) \subseteq bucket' THEN "committing" ELSE "storing")
  /\ UNCHANGED <<outbox, photos, event, selfies, seen, due>>

\* The objects of a failed upload are deleted one by one; the failure of a
\* deletion is logged and the object is left behind.
Compensate(r, outcome) ==
  \E left \in SUBSET (bucket \intersect OwnKeys(r)) :
    /\ bucket' = (bucket \ OwnKeys(r)) \union left
    /\ Goto(r, IF left # {} /\ outcome = "refused" THEN "uncompensated" ELSE outcome)

\* A put that fails. The photo ingest cleans up behind it, the others do not;
\* the store may have kept the object all the same.
StoreFails(r) ==
  /\ pc[r] = "storing"
  /\ IF r \in Uploads
       THEN Compensate(r, "refused")
       ELSE \/ Goto(r, "refused") /\ UNCHANGED bucket
            \/ Goto(r, "uncompensated") /\ bucket' = bucket \union OwnKeys(r)
  /\ UNCHANGED <<outbox, photos, event, selfies, seen, due>>

\* The transaction that publishes the objects of r, on the rows as they are
\* when it commits.
Commit(r) ==
  /\ pc[r] = "committing" /\ Exists
  /\ \/ /\ r \in Uploads /\ ~Conflicts(r)
        /\ photos' = [photos EXCEPT ![r] = [thumbnail |-> TRUE, checksum |-> ContentOf[r]]]
        /\ UNCHANGED <<event, selfies, outbox>>
     \/ /\ r \in Selfies
        /\ selfies' = selfies \union {r}
        /\ UNCHANGED <<photos, event, outbox>>
     \/ /\ r \in Thumbnails
        /\ event' = EventThumbnail(r)
        /\ Enqueue(seen[r])
        /\ UNCHANGED <<photos, selfies>>
  /\ Goto(r, "refreshing")
  /\ UNCHANGED <<bucket, seen, due>>

\* A unique constraint, a deleted event or the database refuses it.
CommitFails(r) ==
  /\ pc[r] = "committing"
  /\ Compensate(r, "refused")
  /\ UNCHANGED <<outbox, photos, event, selfies, seen, due>>

Refreshed(r) ==
  /\ pc[r] = "refreshing"
  /\ Goto(r, "accepted")
  /\ UNCHANGED <<bucket, outbox, photos, event, selfies, seen, due>>

\* The refresh after the commit fails and is taken for a failure of the
\* commit: the same handler deletes the objects that the rows now refer to.
RefreshFails(r) ==
  /\ pc[r] = "refreshing"
  /\ Compensate(r, "revoked")
  /\ UNCHANGED <<outbox, photos, event, selfies, seen, due>>

Crash(r) ==
  /\ pc[r] \in InFlight
  /\ Goto(r, IF pc[r] = "refreshing" THEN "accepted" ELSE "crashed")
  /\ UNCHANGED <<bucket, outbox, photos, event, selfies, seen, due>>

-----------------------------------------------------------------------------
(* Deletions.                                                              *)

\* A mutant of KeysOf: the thumbnail is forgotten.
OriginalsOnly(p) == {Original(p)}
KeysOf(p) ==
  {Original(p)} \union (IF photos[p].thumbnail THEN {Thumbnail(p)} ELSE {})

\* The route loads the photo, delete_photo queues the keys it loaded.
BeginDeletion(d) ==
  /\ d \in Deletions /\ pc[d] = "idle"
  /\ \E p \in Photos : photos[p] # None /\ Remember(d, KeysOf(p))
  /\ Goto(d, "read")
  /\ UNCHANGED <<bucket, outbox, photos, event, selfies, due>>

\* delete_all_event_photos loads all photos of the event.
BeginDeleteAll ==
  /\ pc[DeleteEvent] = "idle" /\ Exists
  /\ Remember(DeleteEvent, UNION {KeysOf(p) : p \in {q \in Photos : photos[q] # None}})
  /\ Goto(DeleteEvent, "read")
  /\ UNCHANGED <<bucket, outbox, photos, event, selfies, due>>

\* One transaction; a row that is already gone is not missed.
DeletePhotos(r) ==
  /\ r \in Deletions \union {DeleteEvent} /\ pc[r] = "read"
  /\ photos' = [p \in Photos |-> IF Original(p) \in seen[r] THEN None ELSE photos[p]]
  /\ Enqueue(seen[r])
  /\ Goto(r, IF r = DeleteEvent THEN "queued" ELSE "done")
  /\ UNCHANGED <<bucket, event, selfies, seen, due>>

\* The request was for the photos only, or the process dies here.
DeleteAllEnds ==
  /\ pc[DeleteEvent] = "queued"
  /\ Goto(DeleteEvent, "done")
  /\ UNCHANGED <<bucket, outbox, photos, event, selfies, seen, due>>

\* delete_event collects selfies and the event thumbnail, not the photos.
BeginDeleteEvent ==
  /\ pc[DeleteEvent] = "queued" /\ Exists
  /\ Remember(DeleteEvent, seen[DeleteEvent] \union {Selfie(s) : s \in selfies}
                                             \union ({event} \ {None}))
  /\ Goto(DeleteEvent, "event_read")
  /\ UNCHANGED <<bucket, outbox, photos, event, selfies, due>>

\* The rows of the event go with it, whether their objects were queued or not.
CommitDeleteEvent ==
  /\ pc[DeleteEvent] = "event_read"
  /\ event' = Deleted
  /\ photos' = [p \in Photos |-> None]
  /\ selfies' = {}
  /\ Enqueue({k \in seen[DeleteEvent] : k[1] \in {"face-search", "event-thumbnails"}})
  /\ Goto(DeleteEvent, "done")
  /\ UNCHANGED <<bucket, seen, due>>

BeginRemoval(r) ==
  /\ r \in Removals /\ pc[r] = "idle" /\ Exists
  /\ Remember(r, {event} \ {None})
  /\ Goto(r, IF event = None THEN "done" ELSE "read")
  /\ UNCHANGED <<bucket, outbox, photos, event, selfies, due>>

\* The UPDATE finds no row when the event is gone, and the request fails.
CommitRemoval(r) ==
  /\ r \in Removals /\ pc[r] = "read"
  /\ \/ Exists /\ event' = None /\ Enqueue(seen[r]) /\ Goto(r, "done")
     \/ ~Exists /\ UNCHANGED <<event, outbox>> /\ Goto(r, "refused")
  /\ UNCHANGED <<bucket, photos, selfies, seen, due>>

\* process_object_deletions: asks nobody whether a row refers to the key.
ProcessDeletion(k) ==
  /\ k \in outbox
  /\ bucket' = bucket \ {k}
  /\ outbox' = outbox \ {k}
  /\ UNCHANGED <<photos, event, selfies, pc, seen, due>>

-----------------------------------------------------------------------------
(* Maintenance commands.                                                   *)

\* run_batch reads the photos without a thumbnail.
BeginBackfill ==
  /\ pc[Backfill] = "idle"
  /\ LET missing == {p \in Photos : photos[p] # None /\ ~photos[p].thumbnail}
     IN missing # {} /\ Remember(Backfill, seen[Backfill] \union {Original(p) : p \in missing})
  /\ Goto(Backfill, "read")
  /\ UNCHANGED <<bucket, outbox, photos, event, selfies, due>>

Pending(p) == Original(p) \in seen[Backfill]
\* The photo leaves the batch; the last one ends it.
Leave(p, ended) ==
  LET rest == seen[Backfill] \ (IF ended THEN {Original(q) : q \in Photos} ELSE {Original(p)})
  IN /\ Remember(Backfill, rest)
     /\ Goto(Backfill, IF \E q \in Photos : Original(q) \in rest THEN "read" ELSE "idle")

BackfillStore(p) ==
  /\ pc[Backfill] = "read" /\ Pending(p) /\ Original(p) \in bucket
  /\ bucket' = bucket \union {Thumbnail(p)}
  /\ Remember(Backfill, seen[Backfill] \union {Thumbnail(p)})
  /\ Goto(Backfill, p)
  /\ UNCHANGED <<outbox, photos, event, selfies, due>>

\* The checksum is filled in unless another photo has the same content.
BackfillCommit(p) ==
  /\ pc[Backfill] = p /\ Pending(p)
  /\ photos[p] # None
  /\ LET duplicate == \E q \in Photos \ {p} : photos[q] # None /\ photos[q].checksum = ContentOf[p]
     IN photos' = [photos EXCEPT ![p] =
          [thumbnail |-> TRUE,
           checksum |-> IF @.checksum = None /\ ~duplicate THEN ContentOf[p] ELSE @.checksum]]
  /\ Leave(p, FALSE)
  /\ UNCHANGED <<bucket, outbox, event, selfies, due>>

\* Any failure is logged with the id of the photo, which is read again after
\* the rollback: when the row is gone, that ends the whole batch.
BackfillFails(p) ==
  /\ Pending(p) /\ pc[Backfill] \in {"read", p}
  /\ Leave(p, photos[p] = None)
  /\ UNCHANGED <<bucket, outbox, photos, event, selfies, due>>

\* Stored selfies without a row that no upload is about to commit.
OrphanedSelfies ==
  {Selfie(s) : s \in {t \in Selfies \ selfies : Selfie(t) \in bucket /\ pc[t] \notin InFlight}}

\* reconcile lists the bucket, then reads the references. With --apply it
\* queues the sensitive keys that it lists and that no row refers to.
ReconcileList ==
  /\ pc[Reconcile] = "idle"
  /\ Remember(Listing, {k \in bucket : IsSensitiveTemporaryKey(k)})
  /\ due' = OrphanedSelfies
  /\ Goto(Reconcile, "read")
  /\ UNCHANGED <<bucket, outbox, photos, event, selfies>>

ReconcileCompare ==
  /\ pc[Reconcile] = "read"
  /\ Remember(Listing, seen[Listing] \ Referenced)
  /\ Goto(Reconcile, "queued")
  /\ UNCHANGED <<bucket, outbox, photos, event, selfies, due>>

\* seen[Reconcile] keeps what the applied runs so far have condemned.
ReconcileQueue ==
  /\ pc[Reconcile] = "queued"
  /\ Enqueue(seen[Listing])
  /\ seen' = [seen EXCEPT ![Reconcile] = @ \union seen[Listing], ![Listing] = {}]
  /\ Goto(Reconcile, "idle")
  /\ UNCHANGED <<bucket, photos, event, selfies, due>>

\* A run without --apply, which is all that the weekly timer starts, only
\* reports what it found; a run that dies queues nothing either.
ReconcileEnds ==
  /\ pc[Reconcile] \in {"read", "queued"}
  /\ Remember(Listing, {})
  /\ due' = {}
  /\ Goto(Reconcile, "idle")
  /\ UNCHANGED <<bucket, outbox, photos, event, selfies>>

-----------------------------------------------------------------------------
Upload(r) ==
  \/ Rejected(r) \/ BeginUpload(r) \/ BeginSelfie(r) \/ BeginThumbnail(r)
  \/ Store(r) \/ StoreFails(r) \/ Commit(r) \/ CommitFails(r)
  \/ Refreshed(r) \/ RefreshFails(r) \/ Crash(r)

BackfillNext(p) == BackfillStore(p) \/ BackfillCommit(p) \/ BackfillFails(p)
ReconcileNext == ReconcileList \/ ReconcileCompare \/ ReconcileQueue \/ ReconcileEnds

Next ==
  \/ \E r \in Writers : Upload(r)
  \/ \E d \in Deletions : BeginDeletion(d)
  \/ \E r \in Deletions \union {DeleteEvent} : DeletePhotos(r)
  \/ BeginDeleteAll \/ DeleteAllEnds \/ BeginDeleteEvent \/ CommitDeleteEvent
  \/ \E r \in Removals : BeginRemoval(r) \/ CommitRemoval(r)
  \/ \E k \in Keys : ProcessDeletion(k)
  \/ BeginBackfill \/ \E p \in Photos : BackfillNext(p)
  \/ ReconcileNext

Spec == Init /\ [][Next]_vars

-----------------------------------------------------------------------------
(* Properties.                                                             *)

BrokenOff(k) ==
  \E r \in Writers : k \in OwnKeys(r) /\ pc[r] \in InFlight \union {"crashed", "uncompensated", "revoked"}

\* What a row refers to is stored and not about to be deleted: no loser of an
\* upload race, stale deletion, backfill or removal ever takes an object from
\* a row that still needs it. The exceptions are the two the code has: an
\* upload whose refresh failed after its commit, and a selfie that the
\* reconciliation compared before its row was committed.
ReferencedIsKept ==
  \A k \in Referenced :
    \/ k \in bucket /\ k \notin outbox
    \/ \E r \in Writers : k \in OwnKeys(r) /\ pc[r] = "revoked"
    \/ k \in seen[Reconcile]

PhotoKeys == {Original(p) : p \in Photos} \union {Thumbnail(p) : p \in Photos}

\* No request that dropped a row, or the event's reference, had read this key.
Unread(k) ==
  \A r \in Deletions \union Removals \union Thumbnails \union {DeleteEvent} :
    k \in seen[r] => /\ pc[r] \notin {"queued", "done", "refreshing", "accepted", "revoked"}
                    /\ ~(pc[r] = "event_read" /\ k \in PhotoKeys)

\* An object that no row refers to and no task will delete was left by an
\* upload that broke off, or every request that dropped its row had read the
\* rows too early: the photo joined the event after delete_all_event_photos
\* had listed it, the backfill stored the thumbnail of a photo that was being
\* deleted, or two changes of the event thumbnail read the same previous key.
OrphansExplained ==
  \A k \in bucket \ (Referenced \union outbox) :
    \/ BrokenOff(k)
    \/ \E p \in Photos :
         \/ k \in {Original(p), Thumbnail(p)} /\ ~Exists /\ Unread(Original(p))
         \/ k = Thumbnail(p) /\ k \in seen[Backfill] /\ Unread(k)
    \/ k \notin PhotoKeys /\ Unread(k)

\* An applied reconciliation overlooks no selfie: what was stored without a row
\* when it listed the bucket, its upload over, is queued when it ends or gone,
\* whatever was uploaded, committed and deleted between its listing, its
\* reading of the references and its commit.
OrphansCondemned ==
  pc[Reconcile] = "idle" => due \intersect bucket \subseteq outbox

-----------------------------------------------------------------------------
(* The inductive invariant behind ReferencedIsKept and OrphansExplained.   *)

Committed == {"refreshing", "accepted", "revoked"}
Dropping == Deletions \union {DeleteEvent}
Readers == Dropping \union Removals \union Thumbnails
SelfieKeys == {Selfie(s) : s \in Selfies}

\* What a request has read is what it is going to drop. Who drops a photo has
\* read both of its keys, unless it has, or had, no thumbnail.
ReadsMakeSense ==
  /\ \A d \in Dropping :
       /\ d \in Deletions \/ pc[d] = "read" => seen[d] \subseteq PhotoKeys
       /\ \A p \in Photos :
            /\ Thumbnail(p) \in seen[d] => Original(p) \in seen[d]
            /\ p \in Uploads /\ Original(p) \in seen[d] => Thumbnail(p) \in seen[d]
  /\ \A r \in Removals \union Thumbnails :
       seen[r] \subseteq {EventThumbnail(t) : t \in Thumbnails} \union {None}
  /\ seen[Listing] \union seen[Reconcile] \subseteq SelfieKeys
  /\ \A p \in Uploads : Original(p) \notin seen[Backfill] /\ Thumbnail(p) \notin seen[Backfill]

\* Before its commit nobody refers to, has read or deletes what an upload stores.
FreshKeys ==
  \A r \in Writers : pc[r] \notin Committed =>
    \A k \in OwnKeys(r) :
      /\ k \notin Referenced
      /\ \A q \in Readers : k \notin seen[q]
      /\ k \in outbox => k \in seen[Reconcile]

\* An upload commits when it has stored everything, and leaves nothing behind
\* where it is refused.
UploadsStore ==
  \A r \in Writers :
    /\ pc[r] \in {"off", "idle", "reused", "refused", "uncompensated", "crashed"}
                 \union Committed \union InFlight
    /\ pc[r] = "committing" => OwnKeys(r) \subseteq bucket \union seen[Reconcile]
    /\ pc[r] \in {"off", "idle", "reused", "refused"} \/ (pc[r] = "storing" /\ r \notin Uploads) =>
         OwnKeys(r) \intersect bucket = {}

\* The keys of a photo that is there are not queued, and it has the thumbnail
\* that the ingest or the backfill gave it.
PhotoRows ==
  \A p \in Photos : photos[p] # None =>
    /\ Original(p) \notin outbox /\ Thumbnail(p) \notin outbox
    /\ p \in Uploads => photos[p].thumbnail
    /\ p \in Legacy /\ photos[p].thumbnail => Thumbnail(p) \in seen[Backfill]
    /\ ~photos[p].thumbnail => \A d \in Dropping : Thumbnail(p) \notin seen[d]

\* The backfill works on photos whose thumbnail nobody has read.
BackfillHolds ==
  \A p \in Photos :
    /\ Thumbnail(p) \in seen[Backfill] /\ photos[p] # None => Thumbnail(p) \in bucket
    /\ p \in Legacy /\ Thumbnail(p) \in bucket => Thumbnail(p) \in seen[Backfill]
    /\ Original(p) \in seen[Backfill] =>
         /\ photos[p] # None => ~photos[p].thumbnail
         /\ \A d \in Dropping : Thumbnail(p) \notin seen[d]
    /\ pc[Backfill] = p => Thumbnail(p) \in seen[Backfill]

\* Who has read a key and was done with it has queued it.
ReadIsQueued == \A k \in bucket \ outbox : Unread(k)

\* While the event exists, a photo that is gone has left nothing unqueued.
GoneIsQueued ==
  \A p \in Photos :
    Exists /\ photos[p] = None /\ (p \in Uploads => pc[p] \in Committed) =>
      /\ Original(p) \notin bucket \ outbox
      /\ p \in Uploads => Thumbnail(p) \notin bucket \ outbox

\* A selfie that is due was never, or is no longer, referred to and gets no row
\* any more; the run in progress has it on its list.
DueIsListed ==
  /\ \A s \in Selfies : Selfie(s) \in due =>
       s \notin selfies /\ pc[s] \notin InFlight \union {"off", "idle"}
  /\ due \subseteq SelfieKeys
  /\ pc[Reconcile] \in {"idle", "read", "queued"}
  /\ pc[Reconcile] # "idle" => due \intersect bucket \subseteq seen[Listing]

IInv ==
  /\ TypeOK /\ ReadsMakeSense /\ FreshKeys /\ UploadsStore /\ PhotoRows
  /\ BackfillHolds /\ ReadIsQueued /\ GoneIsQueued /\ ReferencedIsKept
  /\ DueIsListed /\ OrphansCondemned
=============================================================================
