-------------------------- MODULE PhotoStorageProofs --------------------------
(***************************************************************************)
(* Proofs about PhotoStorage: what a row refers to is stored and not about *)
(* to be deleted, and every orphan has one of the known reasons, for every *)
(* number of uploads, deletions and photos of earlier releases.            *)
(***************************************************************************)
EXTENDS PhotoStorage, TLAPS

-----------------------------------------------------------------------------
(* Keys and requests.                                                      *)

\* Keys of different kinds or of different ids differ.
LEMMA KeysDiffer ==
  \A x, y :
    /\ Original(x) = Original(y) => x = y
    /\ Thumbnail(x) = Thumbnail(y) => x = y
    /\ EventThumbnail(x) = EventThumbnail(y) => x = y
    /\ Selfie(x) = Selfie(y) => x = y
    /\ Original(x) # Thumbnail(y) /\ Original(x) # EventThumbnail(y) /\ Original(x) # Selfie(y)
    /\ Thumbnail(x) # EventThumbnail(y) /\ Thumbnail(x) # Selfie(y)
    /\ EventThumbnail(x) # Selfie(y)
  BY DEF Original, Thumbnail, EventThumbnail, Selfie

\* The kinds of a key as the code tells them apart, by its first part.
LEMMA KeyKinds ==
  \A x : /\ ~IsSensitiveTemporaryKey(Original(x)) /\ ~IsSensitiveTemporaryKey(Thumbnail(x))
         /\ ~IsSensitiveTemporaryKey(EventThumbnail(x)) /\ IsSensitiveTemporaryKey(Selfie(x))
         /\ Original(x)[1] \notin {"face-search", "event-thumbnails"}
         /\ Thumbnail(x)[1] \notin {"face-search", "event-thumbnails"}
         /\ EventThumbnail(x)[1] \in {"face-search", "event-thumbnails"}
         /\ Selfie(x)[1] \in {"face-search", "event-thumbnails"}
  BY DEF IsSensitiveTemporaryKey, Original, Thumbnail, EventThumbnail, Selfie

\* No request is of two kinds.
LEMMA Kinds ==
  /\ \A u \in Uploads : u \notin Legacy /\ u \notin Thumbnails /\ u \notin Selfies
  /\ \A t \in Thumbnails : t \notin Selfies
  /\ \A w \in Writers : w \notin Removals /\ w \notin Deletions
  /\ \A r \in Removals : r \notin Deletions
  /\ \A r \in Writers \union Removals \union Deletions :
       r # DeleteEvent /\ r # Backfill /\ r # Reconcile /\ r # Listing
  /\ DeleteEvent # Backfill /\ DeleteEvent # Reconcile /\ DeleteEvent # Listing
  /\ Backfill # Reconcile /\ Backfill # Listing /\ Reconcile # Listing
  /\ \A p \in Photos : p \notin Stages
  <1>1. /\ \A u \in Uploads : u \notin Legacy /\ u \notin Thumbnails /\ u \notin Selfies
        /\ \A t \in Thumbnails : t \notin Selfies
    BY StorageAssumption
  <1>2. /\ \A w \in Writers : w \notin Removals /\ w \notin Deletions
        /\ \A r \in Removals : r \notin Deletions
    BY StorageAssumption
  <1>3. \A r \in Writers \union Removals \union Deletions :
          r # DeleteEvent /\ r # Backfill /\ r # Reconcile /\ r # Listing
    BY StorageAssumption
  <1>4. /\ DeleteEvent # Backfill /\ DeleteEvent # Reconcile /\ DeleteEvent # Listing
        /\ Backfill # Reconcile /\ Backfill # Listing /\ Reconcile # Listing
    BY DEF DeleteEvent, Backfill, Reconcile, Listing
  <1>5. \A p \in Photos : p \notin Stages
    BY StorageAssumption
  <1>6. QED
    BY <1>1, <1>2, <1>3, <1>4, <1>5

LEMMA IsRequest ==
  /\ \A w \in Writers : w \in Requests
  /\ \A r \in Removals \union Deletions \union {DeleteEvent, Backfill, Reconcile} : r \in Requests
  BY DEF Requests

\* What an upload stores.
LEMMA OwnKeysOf ==
  /\ \A u \in Uploads : OwnKeys(u) = {Original(u), Thumbnail(u)}
  /\ \A t \in Thumbnails : OwnKeys(t) = {EventThumbnail(t)}
  /\ \A s \in Selfies : OwnKeys(s) = {Selfie(s)}
  BY Kinds DEF OwnKeys

LEMMA OwnKeysAreKeys == \A w \in Writers : OwnKeys(w) \subseteq Keys
  BY OwnKeysOf DEF Writers, Keys, Photos

LEMMA OwnKeysDiffer ==
  ASSUME NEW v \in Writers, NEW w \in Writers, NEW k, k \in OwnKeys(v), k \in OwnKeys(w)
  PROVE  v = w
  BY OwnKeysOf, KeysDiffer DEF Writers

\* What the rows refer to, kind by kind.
RefersTo(k) ==
  \/ \E p \in Photos : k = Original(p) /\ photos[p] # None
  \/ \E p \in Photos : k = Thumbnail(p) /\ photos[p] # None /\ photos[p].thumbnail
  \/ \E s \in selfies : k = Selfie(s)
  \/ k = event /\ event \notin {None, Deleted}

LEMMA ReferencedKinds == \A k : k \in Referenced <=> RefersTo(k)
  BY DEF Referenced, RefersTo

LEMMA ReferencedKinds2 == \A k : (k \in Referenced)' <=> RefersTo(k)'
  BY DEF Referenced, RefersTo

LEMMA PhotoKeyReferenced ==
  ASSUME TypeOK, NEW p \in Photos
  PROVE  /\ Original(p) \in Referenced => photos[p] # None
         /\ Thumbnail(p) \in Referenced => photos[p] # None /\ photos[p].thumbnail
         /\ photos[p] # None => Original(p) \in Referenced
         /\ photos[p] # None /\ photos[p].thumbnail => Thumbnail(p) \in Referenced
  <1>1. /\ Original(p) \in Referenced <=> RefersTo(Original(p))
        /\ Thumbnail(p) \in Referenced <=> RefersTo(Thumbnail(p))
    BY ReferencedKinds
  <1>2. event \notin {None, Deleted} => \E t \in Thumbnails : event = EventThumbnail(t)
    BY DEF TypeOK
  <1>3. RefersTo(Original(p)) => photos[p] # None
    BY <1>2, KeysDiffer DEF RefersTo
  <1>4. ASSUME RefersTo(Thumbnail(p)) PROVE photos[p] # None /\ photos[p].thumbnail
    <2>1. \E q \in Photos : Thumbnail(p) = Thumbnail(q) /\ photos[q] # None /\ photos[q].thumbnail
      BY <1>2, <1>4, KeysDiffer DEF RefersTo
    <2>2. QED
      BY <2>1, KeysDiffer
  <1>5. /\ photos[p] # None => RefersTo(Original(p))
        /\ photos[p] # None /\ photos[p].thumbnail => RefersTo(Thumbnail(p))
    BY DEF RefersTo
  <1>6. QED
    BY <1>1, <1>3, <1>4, <1>5

-----------------------------------------------------------------------------
(* What a step of a request and a reading are, and who changes what.       *)

LEMMA GotoEffect ==
  ASSUME TypeOK, NEW r \in Requests, NEW stage \in Stages \union Photos, Goto(r, stage)
  PROVE  /\ pc' \in [Requests -> Stages \union Photos]
         /\ pc'[r] = stage
         /\ \A q \in Requests : q # r => pc'[q] = pc[q]
  BY DEF TypeOK, Goto

LEMMA RememberEffect ==
  ASSUME TypeOK, NEW r \in Requests \union {Listing},
         NEW keys \in SUBSET (Keys \union {None}), Remember(r, keys)
  PROVE  /\ seen' \in [Requests \union {Listing} -> SUBSET (Keys \union {None})]
         /\ seen'[r] = keys
         /\ \A q \in Requests \union {Listing} : q # r => seen'[q] = seen[q]
  BY DEF TypeOK, Remember

\* The rows change by five kinds of transactions.
LEMMA WhoChangesRows ==
  ASSUME [Next]_vars
  PROVE  \/ UNCHANGED <<photos, event, selfies>>
         \/ \E r \in Writers : Commit(r)
         \/ \E r \in Dropping : DeletePhotos(r)
         \/ CommitDeleteEvent
         \/ \E r \in Removals : CommitRemoval(r)
         \/ \E p \in Photos : BackfillCommit(p)
  <1>1. ASSUME NEW r \in Writers, Upload(r)
        PROVE  UNCHANGED <<photos, event, selfies>> \/ Commit(r)
    BY <1>1 DEF Upload, Rejected, BeginUpload, BeginSelfie, BeginThumbnail, Store, StoreFails,
                CommitFails, Refreshed, RefreshFails, Crash
  <1>2. ASSUME ReconcileNext PROVE UNCHANGED <<photos, event, selfies>>
    BY <1>2 DEF ReconcileNext, ReconcileList, ReconcileCompare, ReconcileQueue, ReconcileEnds
  <1>3. ASSUME NEW p \in Photos, BackfillNext(p)
        PROVE  UNCHANGED <<photos, event, selfies>> \/ BackfillCommit(p)
    BY <1>3 DEF BackfillNext, BackfillStore, BackfillFails
  <1>4. QED
    BY <1>1, <1>2, <1>3 DEF Next, vars, Dropping, BeginDeletion, BeginDeleteAll, DeleteAllEnds,
       BeginDeleteEvent, BeginRemoval, ProcessDeletion, BeginBackfill

\* The outbox changes by the transactions that drop a reference, the
\* reconciliation and the processing of a task.
LEMMA WhoChangesOutbox ==
  ASSUME [Next]_vars
  PROVE  \/ UNCHANGED outbox
         \/ \E r \in Thumbnails : Commit(r)
         \/ \E r \in Dropping : DeletePhotos(r)
         \/ CommitDeleteEvent
         \/ \E r \in Removals : CommitRemoval(r)
         \/ ReconcileQueue
         \/ \E k \in Keys : ProcessDeletion(k)
  <1>1. ASSUME NEW r \in Writers, Upload(r)
        PROVE  UNCHANGED outbox \/ (r \in Thumbnails /\ Commit(r))
    BY <1>1 DEF Upload, Rejected, BeginUpload, BeginSelfie, BeginThumbnail, Store, StoreFails,
                CommitFails, Refreshed, RefreshFails, Crash, Commit
  <1>2. ASSUME ReconcileNext PROVE UNCHANGED outbox \/ ReconcileQueue
    BY <1>2 DEF ReconcileNext, ReconcileList, ReconcileCompare, ReconcileEnds
  <1>3. ASSUME NEW p \in Photos, BackfillNext(p) PROVE UNCHANGED outbox
    BY <1>3 DEF BackfillNext, BackfillStore, BackfillFails, BackfillCommit
  <1>4. QED
    BY <1>1, <1>2, <1>3 DEF Next, vars, Dropping, BeginDeletion, BeginDeleteAll, DeleteAllEnds,
       BeginDeleteEvent, BeginRemoval, BeginBackfill

\* Objects are stored by uploads and the backfill, deleted by uploads that
\* fail and by the tasks.
LEMMA WhoChangesBucket ==
  ASSUME [Next]_vars
  PROVE  \/ UNCHANGED bucket
         \/ \E r \in Writers : Store(r) \/ StoreFails(r) \/ CommitFails(r) \/ RefreshFails(r)
         \/ \E p \in Photos : BackfillStore(p)
         \/ \E k \in Keys : ProcessDeletion(k)
  <1>1. ASSUME NEW r \in Writers, Upload(r)
        PROVE  UNCHANGED bucket \/ Store(r) \/ StoreFails(r) \/ CommitFails(r) \/ RefreshFails(r)
    BY <1>1 DEF Upload, Rejected, BeginUpload, BeginSelfie, BeginThumbnail,
                Refreshed, Crash, Commit
  <1>2. ASSUME ReconcileNext PROVE UNCHANGED bucket
    BY <1>2 DEF ReconcileNext, ReconcileList, ReconcileCompare, ReconcileQueue, ReconcileEnds
  <1>3. ASSUME NEW p \in Photos, BackfillNext(p) PROVE UNCHANGED bucket \/ BackfillStore(p)
    BY <1>3 DEF BackfillNext, BackfillFails, BackfillCommit
  <1>4. QED
    BY <1>1, <1>2, <1>3 DEF Next, vars, BeginDeletion, BeginDeleteAll, DeleteAllEnds, DeletePhotos,
       BeginDeleteEvent, CommitDeleteEvent, BeginRemoval, CommitRemoval, BeginBackfill

\* Who reads keys to use them later.
LEMMA WhoReads ==
  ASSUME [Next]_vars
  PROVE  \/ UNCHANGED seen
         \/ \E t \in Thumbnails : BeginThumbnail(t)
         \/ \E d \in Deletions : BeginDeletion(d)
         \/ BeginDeleteAll
         \/ BeginDeleteEvent
         \/ \E r \in Removals : BeginRemoval(r)
         \/ BeginBackfill
         \/ \E p \in Photos : BackfillNext(p)
         \/ ReconcileNext
  <1>1. ASSUME NEW r \in Writers, Upload(r)
        PROVE  UNCHANGED seen \/ (r \in Thumbnails /\ BeginThumbnail(r))
    BY <1>1 DEF Upload, Rejected, BeginUpload, BeginSelfie, BeginThumbnail, Store, StoreFails,
                CommitFails, Refreshed, RefreshFails, Crash, Commit
  <1>2. QED
    BY <1>1 DEF Next, vars, DeleteAllEnds, DeletePhotos, CommitDeleteEvent, CommitRemoval,
       ProcessDeletion

-----------------------------------------------------------------------------
(* How far the requests get.                                               *)

\* The stages of an upload, and the action that takes it from one to the next.
UploadMoves(r) ==
  \/ pc[r] = "idle" /\ pc'[r] \in {"reused", "refused", "storing"} /\ UNCHANGED bucket
  \/ pc[r] = "storing" /\ Store(r) /\ pc'[r] \in {"storing", "committing"}
  \/ pc[r] = "storing" /\ StoreFails(r) /\ pc'[r] \in {"refused", "uncompensated"}
  \/ pc[r] = "committing" /\ Commit(r) /\ pc'[r] = "refreshing"
  \/ pc[r] = "committing" /\ CommitFails(r) /\ pc'[r] \in {"refused", "uncompensated"}
  \/ pc[r] = "refreshing" /\ pc'[r] = "accepted" /\ UNCHANGED bucket
  \/ pc[r] = "refreshing" /\ RefreshFails(r) /\ pc'[r] = "revoked"
  \/ pc[r] \in {"storing", "committing"} /\ pc'[r] = "crashed" /\ UNCHANGED bucket

LEMMA UploadMovesOn ==
  ASSUME TypeOK, NEW r \in Writers, Upload(r)
  PROVE  /\ UploadMoves(r)
         /\ \A q \in Requests : q # r => pc'[q] = pc[q]
  <1>0. r \in Requests
    BY IsRequest
  <1>1. ASSUME Rejected(r) \/ BeginUpload(r) \/ BeginSelfie(r) \/ BeginThumbnail(r)
        PROVE  /\ UploadMoves(r)
               /\ \A q \in Requests : q # r => pc'[q] = pc[q]
    BY <1>0, <1>1 DEF TypeOK, Rejected, BeginUpload, BeginSelfie, BeginThumbnail, Goto, UploadMoves
  <1>2. ASSUME Store(r)
        PROVE  /\ UploadMoves(r)
               /\ \A q \in Requests : q # r => pc'[q] = pc[q]
    <2>1. /\ pc[r] = "storing" /\ pc'[r] \in {"storing", "committing"}
          /\ \A q \in Requests : q # r => pc'[q] = pc[q]
      BY <1>0, <1>2 DEF TypeOK, Store, Goto
    <2>2. QED
      BY <1>2, <2>1 DEF UploadMoves
  <1>3. ASSUME StoreFails(r)
        PROVE  /\ UploadMoves(r)
               /\ \A q \in Requests : q # r => pc'[q] = pc[q]
    <2>1. /\ pc[r] = "storing" /\ pc'[r] \in {"refused", "uncompensated"}
          /\ \A q \in Requests : q # r => pc'[q] = pc[q]
      BY <1>0, <1>3 DEF TypeOK, StoreFails, Compensate, Goto
    <2>2. QED
      BY <1>3, <2>1 DEF UploadMoves
  <1>4. ASSUME Commit(r)
        PROVE  /\ UploadMoves(r)
               /\ \A q \in Requests : q # r => pc'[q] = pc[q]
    <2>1. /\ pc[r] = "committing" /\ pc'[r] = "refreshing"
          /\ \A q \in Requests : q # r => pc'[q] = pc[q]
      BY <1>0, <1>4 DEF TypeOK, Commit, Goto
    <2>2. QED
      BY <1>4, <2>1 DEF UploadMoves
  <1>5. ASSUME CommitFails(r)
        PROVE  /\ UploadMoves(r)
               /\ \A q \in Requests : q # r => pc'[q] = pc[q]
    <2>1. /\ pc[r] = "committing" /\ pc'[r] \in {"refused", "uncompensated"}
          /\ \A q \in Requests : q # r => pc'[q] = pc[q]
      BY <1>0, <1>5 DEF TypeOK, CommitFails, Compensate, Goto
    <2>2. QED
      BY <1>5, <2>1 DEF UploadMoves
  <1>6. ASSUME Refreshed(r) \/ Crash(r)
        PROVE  /\ UploadMoves(r)
               /\ \A q \in Requests : q # r => pc'[q] = pc[q]
    BY <1>0, <1>6 DEF TypeOK, Refreshed, Crash, Goto, InFlight, UploadMoves
  <1>7. ASSUME RefreshFails(r)
        PROVE  /\ UploadMoves(r)
               /\ \A q \in Requests : q # r => pc'[q] = pc[q]
    <2>1. /\ pc[r] = "refreshing" /\ pc'[r] = "revoked"
          /\ \A q \in Requests : q # r => pc'[q] = pc[q]
      BY <1>0, <1>7 DEF TypeOK, RefreshFails, Compensate, Goto
    <2>2. QED
      BY <1>7, <2>1 DEF UploadMoves
  <1>8. QED
    BY <1>1, <1>2, <1>3, <1>4, <1>5, <1>6, <1>7 DEF Upload

\* The stages of a deletion or a removal.
OtherMoves(r) ==
  \/ /\ BeginDeletion(r) \/ BeginRemoval(r) \/ (r = DeleteEvent /\ BeginDeleteAll)
     /\ pc[r] = "idle" /\ pc'[r] \in {"read", "done"}
  \/ DeletePhotos(r) /\ pc[r] = "read" /\ pc'[r] \in {"queued", "done"}
  \/ r = DeleteEvent /\ pc[r] = "queued" /\ pc'[r] \in {"done", "event_read"}
  \/ r = DeleteEvent /\ pc[r] = "event_read" /\ CommitDeleteEvent /\ pc'[r] = "done"
  \/ CommitRemoval(r) /\ pc[r] = "read" /\ pc'[r] \in {"done", "refused"}

LEMMA WhoMoves ==
  ASSUME TypeOK, [Next]_vars
  PROVE  \/ \A r \in Writers \union Dropping \union Removals : pc'[r] = pc[r]
         \/ \E r \in Writers : /\ Upload(r) /\ UploadMoves(r)
                               /\ \A q \in Requests : q # r => pc'[q] = pc[q]
         \/ \E r \in Dropping \union Removals :
              OtherMoves(r) /\ \A q \in Requests : q # r => pc'[q] = pc[q]
  <1> DEFINE Goal ==
        \/ \A r \in Writers \union Dropping \union Removals : pc'[r] = pc[r]
        \/ \E r \in Writers : /\ Upload(r) /\ UploadMoves(r)
                              /\ \A q \in Requests : q # r => pc'[q] = pc[q]
        \/ \E r \in Dropping \union Removals :
             OtherMoves(r) /\ \A q \in Requests : q # r => pc'[q] = pc[q]
  <1>1. ASSUME NEW r \in Writers, Upload(r) PROVE Goal
    BY <1>1, UploadMovesOn
  <1>2. ASSUME NEW d \in Deletions, BeginDeletion(d) PROVE Goal
    <2>1. /\ pc[d] = "idle" /\ pc'[d] = "read"
          /\ \A q \in Requests : q # d => pc'[q] = pc[q]
      BY <1>2, IsRequest DEF TypeOK, BeginDeletion, Goto
    <2>2. QED
      BY <1>2, <2>1 DEF OtherMoves, Dropping
  <1>3. ASSUME NEW r \in Dropping, DeletePhotos(r) PROVE Goal
    <2>1. /\ pc[r] = "read" /\ pc'[r] \in {"queued", "done"}
          /\ \A q \in Requests : q # r => pc'[q] = pc[q]
      BY <1>3, IsRequest DEF TypeOK, DeletePhotos, Goto, Dropping
    <2>2. QED
      BY <1>3, <2>1 DEF OtherMoves
  <1>4. ASSUME BeginDeleteAll \/ DeleteAllEnds \/ BeginDeleteEvent PROVE Goal
    <2>1. CASE BeginDeleteAll
      <3>1. /\ pc[DeleteEvent] = "idle" /\ pc'[DeleteEvent] = "read"
            /\ \A q \in Requests : q # DeleteEvent => pc'[q] = pc[q]
        BY <2>1, IsRequest DEF TypeOK, BeginDeleteAll, Goto
      <3>2. QED
        BY <2>1, <3>1 DEF OtherMoves, Dropping
    <2>2. CASE DeleteAllEnds \/ BeginDeleteEvent
      BY <2>2, IsRequest DEF TypeOK, DeleteAllEnds, BeginDeleteEvent, Goto, OtherMoves, Dropping
    <2>3. QED
      BY <1>4, <2>1, <2>2
  <1>5. ASSUME CommitDeleteEvent PROVE Goal
    <2>1. /\ pc[DeleteEvent] = "event_read" /\ pc'[DeleteEvent] = "done"
          /\ \A q \in Requests : q # DeleteEvent => pc'[q] = pc[q]
      BY <1>5, IsRequest DEF TypeOK, CommitDeleteEvent, Goto
    <2>2. QED
      BY <1>5, <2>1 DEF OtherMoves, Dropping
  <1>6. ASSUME NEW r \in Removals, BeginRemoval(r) PROVE Goal
    <2>1. /\ pc[r] = "idle" /\ pc'[r] \in {"done", "read"}
          /\ \A q \in Requests : q # r => pc'[q] = pc[q]
      BY <1>6, IsRequest DEF TypeOK, BeginRemoval, Goto
    <2>2. QED
      BY <1>6, <2>1 DEF OtherMoves
  <1>7. ASSUME NEW r \in Removals, CommitRemoval(r) PROVE Goal
    <2>1. /\ pc[r] = "read" /\ pc'[r] \in {"done", "refused"}
          /\ \A q \in Requests : q # r => pc'[q] = pc[q]
      BY <1>7, IsRequest DEF TypeOK, CommitRemoval, Goto
    <2>2. QED
      BY <1>7, <2>1 DEF OtherMoves
  <1>8. ASSUME BeginBackfill \/ ReconcileNext \/ \E p \in Photos : BackfillNext(p) PROVE Goal
    <2>1. \A r \in Writers \union Dropping \union Removals :
            r \in Requests /\ r # Backfill /\ r # Reconcile
      BY IsRequest, Kinds DEF Dropping
    <2>2. \E r \in {Backfill, Reconcile} : \E stage \in Stages \union Photos : Goto(r, stage)
      BY <1>8 DEF BeginBackfill, ReconcileNext, ReconcileList, ReconcileCompare, ReconcileQueue,
              ReconcileEnds, BackfillNext, BackfillStore, BackfillCommit, BackfillFails, Leave, Stages
    <2>3. QED
      BY <2>1, <2>2 DEF Goto, TypeOK
  <1>9. ASSUME UNCHANGED pc PROVE Goal
    BY <1>9
  <1>10. QED
    BY <1>1, <1>2, <1>3, <1>4, <1>5, <1>6, <1>7, <1>8, <1>9
       DEF Next, vars, Dropping, ProcessDeletion

\* A commit is never taken back, and it is the only way to become committed.
LEMMA CommittedStays ==
  ASSUME TypeOK, [Next]_vars, NEW w \in Writers
  PROVE  /\ pc[w] \in Committed => pc'[w] \in Committed
         /\ pc[w] = "revoked" => pc'[w] = "revoked"
         /\ pc'[w] \in Committed => pc[w] \in Committed \/ Commit(w)
  <1>1. w \in Requests /\ w \notin Dropping /\ w \notin Removals
    BY IsRequest, Kinds DEF Dropping
  <1>2. pc'[w] = pc[w] \/ UploadMoves(w)
    BY <1>1, WhoMoves
  <1>3. QED
    BY <1>2 DEF UploadMoves, Committed

LEMMA WriterMoves ==
  ASSUME TypeOK, [Next]_vars, NEW w \in Writers
  PROVE  pc'[w] = pc[w] \/ (Upload(w) /\ UploadMoves(w))
  <1>1. w \in Requests /\ w \notin Dropping /\ w \notin Removals
    BY IsRequest, Kinds DEF Dropping
  <1>2. QED
    BY <1>1, WhoMoves

-----------------------------------------------------------------------------
(* What the transactions do to the rows.                                   *)

LEMMA CommitKinds ==
  ASSUME TypeOK, NEW r \in Writers, Commit(r)
  PROVE  \/ /\ r \in Uploads
            /\ \A p \in Photos : p # r => photos'[p] = photos[p]
            /\ photos'[r] # None /\ photos'[r].thumbnail
            /\ UNCHANGED <<event, selfies, outbox>>
         \/ r \in Selfies /\ selfies' = selfies \union {r} /\ UNCHANGED <<photos, event, outbox>>
         \/ /\ r \in Thumbnails /\ event' = EventThumbnail(r)
            /\ outbox' = outbox \union (seen[r] \ {None})
            /\ UNCHANGED <<photos, selfies>>
  <1>1. ASSUME r \in Uploads,
               photos' = [photos EXCEPT ![r] = [thumbnail |-> TRUE, checksum |-> ContentOf[r]]]
        PROVE  /\ \A p \in Photos : p # r => photos'[p] = photos[p]
               /\ photos'[r] # None /\ photos'[r].thumbnail
    <2>1. r \in Photos /\ photos'[r] = [thumbnail |-> TRUE, checksum |-> ContentOf[r]]
      BY <1>1 DEF TypeOK, Photos
    <2>2. [thumbnail |-> TRUE, checksum |-> ContentOf[r]] \in PhotoRow
      BY <2>1, StorageAssumption DEF PhotoRow
    <2>3. QED
      BY <1>1, <2>1, <2>2, StorageAssumption DEF TypeOK
  <1>2. QED
    BY <1>1, Kinds DEF Commit, Enqueue

\* The backfill gives one photo its thumbnail.
LEMMA BackfillCommitRows ==
  ASSUME TypeOK, NEW p \in Photos, BackfillCommit(p)
  PROVE  /\ pc[Backfill] = p /\ Original(p) \in seen[Backfill] /\ photos[p] # None
         /\ photos'[p] # None /\ photos'[p].thumbnail
         /\ \A q \in Photos : q # p => photos'[q] = photos[q]
         /\ UNCHANGED <<bucket, outbox, event, selfies>>
  <1> DEFINE duplicate == \E q \in Photos \ {p} : photos[q] # None /\ photos[q].checksum = ContentOf[p]
             new == [thumbnail |-> TRUE,
                     checksum |-> IF photos[p].checksum = None /\ ~duplicate
                                    THEN ContentOf[p] ELSE photos[p].checksum]
  <1>1. /\ pc[Backfill] = p /\ Original(p) \in seen[Backfill] /\ photos[p] # None
        /\ UNCHANGED <<bucket, outbox, event, selfies>>
        /\ photos' = [photos EXCEPT ![p] = new]
    BY DEF BackfillCommit, Pending
  <1>2. photos[p] \in PhotoRow
    BY <1>1 DEF TypeOK
  <1>3. new \in PhotoRow
    BY <1>2, StorageAssumption DEF PhotoRow
  <1>4. photos'[p] = new /\ \A q \in Photos : q # p => photos'[q] = photos[q]
    BY <1>1 DEF TypeOK
  <1>5. new # None /\ new.thumbnail
    BY <1>3, StorageAssumption
  <1>6. QED
    BY <1>1, <1>4, <1>5

LEMMA DeletePhotosRows ==
  ASSUME TypeOK, NEW d \in Dropping, DeletePhotos(d)
  PROVE  /\ \A p \in Photos : photos'[p] = IF Original(p) \in seen[d] THEN None ELSE photos[p]
         /\ outbox' = outbox \union (seen[d] \ {None})
         /\ pc[d] = "read"
         /\ UNCHANGED <<bucket, event, selfies, seen>>
  BY DEF DeletePhotos, Enqueue

\* A photo row appears by the commit of its upload only.
LEMMA NewPhotoRow ==
  ASSUME TypeOK, [Next]_vars, NEW p \in Photos, photos[p] = None, photos'[p] # None
  PROVE  p \in Uploads /\ Commit(p) /\ photos'[p].thumbnail /\ UNCHANGED outbox
  <1>1. ASSUME NEW r \in Writers, Commit(r)
        PROVE  p \in Uploads /\ Commit(p) /\ photos'[p].thumbnail /\ UNCHANGED outbox
    BY <1>1, CommitKinds
  <1>2. ASSUME NEW d \in Dropping, DeletePhotos(d) PROVE FALSE
    BY <1>2, DeletePhotosRows
  <1>3. ASSUME NEW q \in Photos, BackfillCommit(q) PROVE FALSE
    BY <1>3, BackfillCommitRows
  <1>4. QED
    BY <1>1, <1>2, <1>3, WhoChangesRows DEF CommitDeleteEvent, CommitRemoval

\* A photo row that stays is changed by the backfill only.
LEMMA OldPhotoRow ==
  ASSUME TypeOK, [Next]_vars, NEW p \in Photos, photos[p] # None, photos'[p] # None
  PROVE  \/ photos'[p] = photos[p]
         \/ BackfillCommit(p)
         \/ p \in Uploads /\ photos'[p].thumbnail
  <1>1. ASSUME NEW r \in Writers, Commit(r)
        PROVE  photos'[p] = photos[p] \/ (p \in Uploads /\ photos'[p].thumbnail)
    BY <1>1, CommitKinds
  <1>2. ASSUME NEW d \in Dropping, DeletePhotos(d) PROVE photos'[p] = photos[p]
    BY <1>2, DeletePhotosRows
  <1>3. ASSUME NEW q \in Photos, BackfillCommit(q)
        PROVE photos'[p] = photos[p] \/ BackfillCommit(p)
    BY <1>3, BackfillCommitRows
  <1>4. QED
    BY <1>1, <1>2, <1>3, WhoChangesRows DEF CommitDeleteEvent, CommitRemoval

\* A photo row goes with the request that has read it, or with the event.
LEMMA DroppedPhotoRow ==
  ASSUME TypeOK, [Next]_vars, NEW p \in Photos, photos[p] # None, photos'[p] = None
  PROVE  \/ event' = Deleted
         \/ \E d \in Dropping : DeletePhotos(d) /\ Original(p) \in seen[d]
  <1>1. ASSUME NEW r \in Writers, Commit(r) PROVE FALSE
    BY <1>1, CommitKinds
  <1>2. ASSUME NEW d \in Dropping, DeletePhotos(d) PROVE Original(p) \in seen[d]
    BY <1>2, DeletePhotosRows
  <1>3. ASSUME NEW q \in Photos, BackfillCommit(q) PROVE FALSE
    BY <1>3, BackfillCommitRows
  <1>4. QED
    BY <1>1, <1>2, <1>3, WhoChangesRows DEF CommitDeleteEvent, CommitRemoval

\* A deleted event does not come back.
LEMMA EventStaysDeleted ==
  ASSUME TypeOK, [Next]_vars, event = Deleted
  PROVE  event' = Deleted
  <1>1. ASSUME NEW r \in Writers, Commit(r) PROVE FALSE
    BY <1>1 DEF Commit, Exists
  <1>2. ASSUME NEW d \in Dropping, DeletePhotos(d) PROVE event' = Deleted
    BY <1>2, DeletePhotosRows
  <1>3. QED
    BY <1>1, <1>2, WhoChangesRows DEF CommitDeleteEvent, CommitRemoval, BackfillCommit, Exists

\* A key becomes referenced by the commit of the upload that stored it, or as
\* the thumbnail that the backfill gives a photo.
LEMMA NewReference ==
  ASSUME TypeOK, [Next]_vars, NEW k, k \notin Referenced, (k \in Referenced)'
  PROVE  \/ \E r \in Writers : Commit(r) /\ k \in OwnKeys(r)
         \/ \E p \in Photos : BackfillCommit(p) /\ k = Thumbnail(p)
  <1>1. RefersTo(k)' /\ ~RefersTo(k)
    BY ReferencedKinds, ReferencedKinds2
  <1>2. ASSUME NEW r \in Writers, Commit(r) PROVE k \in OwnKeys(r)
    <2>1. CASE r \in Uploads
      BY <1>1, <1>2, <2>1, CommitKinds, OwnKeysOf, Kinds DEF RefersTo
    <2>2. CASE r \in Selfies
      BY <1>1, <1>2, <2>2, CommitKinds, OwnKeysOf, Kinds DEF RefersTo
    <2>3. CASE r \in Thumbnails
      BY <1>1, <1>2, <2>3, CommitKinds, OwnKeysOf, Kinds DEF RefersTo
    <2>4. QED
      BY <2>1, <2>2, <2>3 DEF Writers
  <1>3. ASSUME NEW d \in Dropping, DeletePhotos(d) PROVE FALSE
    BY <1>1, <1>3, DeletePhotosRows DEF RefersTo
  <1>4. ASSUME NEW q \in Photos, BackfillCommit(q) PROVE k = Thumbnail(q)
    BY <1>1, <1>4, BackfillCommitRows DEF RefersTo
  <1>5. ASSUME CommitDeleteEvent PROVE FALSE
    BY <1>1, <1>5 DEF RefersTo, CommitDeleteEvent
  <1>6. ASSUME NEW r \in Removals, CommitRemoval(r) PROVE FALSE
    BY <1>1, <1>6 DEF RefersTo, CommitRemoval
  <1>7. CASE UNCHANGED <<photos, event, selfies>>
    BY <1>1, <1>7 DEF RefersTo
  <1>8. QED
    BY <1>2, <1>3, <1>4, <1>5, <1>6, <1>7, WhoChangesRows

-----------------------------------------------------------------------------
(* What is queued, stored, deleted and read.                               *)

\* A key is queued by a request that has read it, or by the reconciliation,
\* which then remembers it; the event's deletion queues no key of a photo.
LEMMA NewTask ==
  ASSUME TypeOK, [Next]_vars, NEW k, k \notin outbox, k \in outbox'
  PROVE  \/ \E d \in Dropping : DeletePhotos(d) /\ k \in seen[d]
         \/ \E t \in Thumbnails : Commit(t) /\ k \in seen[t]
         \/ \E r \in Removals : CommitRemoval(r) /\ event' = None /\ k \in seen[r]
         \/ CommitDeleteEvent
         \/ ReconcileQueue /\ k \in seen[Listing]
  <1>1. ASSUME NEW t \in Thumbnails, Commit(t) PROVE k \in seen[t]
    <2>1. t \in Writers
      BY DEF Writers
    <2>2. QED
      BY <1>1, <2>1, CommitKinds, Kinds
  <1>2. ASSUME NEW d \in Dropping, DeletePhotos(d) PROVE k \in seen[d]
    BY <1>2, DeletePhotosRows
  <1>3. ASSUME NEW r \in Removals, CommitRemoval(r) PROVE event' = None /\ k \in seen[r]
    BY <1>3 DEF CommitRemoval, Enqueue
  <1>4. ASSUME ReconcileQueue PROVE k \in seen[Listing]
    BY <1>4 DEF ReconcileQueue, Enqueue
  <1>5. QED
    BY <1>1, <1>2, <1>3, <1>4, WhoChangesOutbox DEF ProcessDeletion

\* A task is done when the object is gone.
LEMMA TaskDone ==
  ASSUME TypeOK, [Next]_vars, NEW k, k \in outbox, k \notin outbox'
  PROVE  k \notin bucket'
  <1>1. ASSUME NEW t \in Thumbnails, Commit(t) PROVE FALSE
    <2>1. t \in Writers
      BY DEF Writers
    <2>2. QED
      BY <1>1, <2>1, CommitKinds, Kinds
  <1>2. ASSUME NEW d \in Dropping, DeletePhotos(d) PROVE FALSE
    BY <1>2, DeletePhotosRows
  <1>3. QED
    BY <1>1, <1>2, WhoChangesOutbox
       DEF CommitRemoval, CommitDeleteEvent, ReconcileQueue, Enqueue, ProcessDeletion

LEMMA StoreEffect ==
  ASSUME TypeOK, NEW r \in Writers, Store(r)
  PROVE  /\ pc[r] = "storing"
         /\ \E k \in OwnKeys(r) : bucket' = bucket \union {k}
         /\ pc'[r] = "committing" <=> OwnKeys(r) \subseteq bucket'
         /\ pc'[r] \in {"storing", "committing"}
         /\ UNCHANGED <<outbox, photos, event, selfies, seen>>
  <1>1. NextKey(r) \in OwnKeys(r)
    <2>1. CASE r \in Uploads
      BY <2>1, OwnKeysOf DEF NextKey
    <2>2. CASE r \notin Uploads
      BY <2>2, OwnKeysOf DEF NextKey, Writers
    <2>3. QED
      BY <2>1, <2>2
  <1>2. /\ pc[r] = "storing" /\ bucket' = bucket \union {NextKey(r)}
        /\ UNCHANGED <<outbox, photos, event, selfies, seen>>
    BY DEF Store
  <1>3. r \in Requests
    BY IsRequest
  <1>4. /\ pc'[r] = "committing" <=> OwnKeys(r) \subseteq bucket'
        /\ pc'[r] \in {"storing", "committing"}
    <2>1. CASE OwnKeys(r) \subseteq bucket'
      <3>1. pc' = [pc EXCEPT ![r] = "committing"]
        BY <2>1 DEF Store, Goto
      <3>2. pc'[r] = "committing"
        BY <1>3, <3>1 DEF TypeOK
      <3>3. QED
        BY <2>1, <3>2
    <2>2. CASE ~(OwnKeys(r) \subseteq bucket')
      <3>1. pc' = [pc EXCEPT ![r] = "storing"]
        BY <2>2 DEF Store, Goto
      <3>2. pc'[r] = "storing"
        BY <1>3, <3>1 DEF TypeOK
      <3>3. QED
        BY <2>2, <3>2
    <2>3. QED
      BY <2>1, <2>2
  <1>5. QED
    BY <1>1, <1>2, <1>4

\* A failed upload removes objects of its own, all of them where it says so.
LEMMA CompensateEffect ==
  ASSUME TypeOK, NEW r \in Writers, NEW outcome \in {"refused", "revoked"}, Compensate(r, outcome)
  PROVE  /\ bucket' \subseteq bucket
         /\ bucket \ bucket' \subseteq OwnKeys(r)
         /\ pc'[r] \in {outcome, "uncompensated"}
         /\ pc'[r] = "refused" => OwnKeys(r) \intersect bucket' = {}
  <1>1. PICK left \in SUBSET (bucket \intersect OwnKeys(r)) :
          /\ bucket' = (bucket \ OwnKeys(r)) \union left
          /\ Goto(r, IF left # {} /\ outcome = "refused" THEN "uncompensated" ELSE outcome)
    BY DEF Compensate
  <1>2. r \in Requests
    BY IsRequest
  <1>3. /\ pc'[r] \in {outcome, "uncompensated"}
        /\ pc'[r] = "refused" => left = {}
    BY <1>1, <1>2 DEF TypeOK, Goto
  <1>4. QED
    BY <1>1, <1>3

LEMMA StoreFailsEffect ==
  ASSUME TypeOK, NEW r \in Writers, StoreFails(r)
  PROVE  /\ pc[r] = "storing"
         /\ bucket \ bucket' \subseteq OwnKeys(r)
         /\ bucket' \subseteq bucket \union OwnKeys(r)
         /\ r \in Uploads => bucket' \subseteq bucket
         /\ pc'[r] = "refused" => \/ OwnKeys(r) \intersect bucket' = {}
                                  \/ r \notin Uploads /\ bucket' = bucket
         /\ UNCHANGED <<outbox, photos, event, selfies, seen>>
  <1>1. CASE r \in Uploads
    <2>1. Compensate(r, "refused")
      BY <1>1 DEF StoreFails
    <2>2. /\ bucket' \subseteq bucket /\ bucket \ bucket' \subseteq OwnKeys(r)
          /\ pc'[r] = "refused" => OwnKeys(r) \intersect bucket' = {}
      BY <2>1, CompensateEffect
    <2>3. QED
      BY <2>2 DEF StoreFails
  <1>2. CASE r \notin Uploads
    <2>1. r \in Requests
      BY IsRequest
    <2>2. \/ Goto(r, "refused") /\ UNCHANGED bucket
          \/ Goto(r, "uncompensated") /\ bucket' = bucket \union OwnKeys(r)
      BY <1>2 DEF StoreFails
    <2>3. CASE Goto(r, "refused") /\ UNCHANGED bucket
      BY <1>2, <2>3 DEF StoreFails
    <2>4. CASE Goto(r, "uncompensated") /\ bucket' = bucket \union OwnKeys(r)
      <3>1. pc'[r] = "uncompensated"
        BY <2>1, <2>4 DEF TypeOK, Goto
      <3>2. QED
        BY <1>2, <2>4, <3>1 DEF StoreFails
    <2>5. QED
      BY <2>2, <2>3, <2>4
  <1>3. QED
    BY <1>1, <1>2

\* An object is stored by the upload it belongs to, or by the backfill.
LEMMA NewObject ==
  ASSUME TypeOK, [Next]_vars, NEW k, k \notin bucket, k \in bucket'
  PROVE  /\ UNCHANGED <<outbox, photos, event, selfies>>
         /\ \/ /\ \E r \in Writers : k \in OwnKeys(r) /\ pc[r] = "storing" /\ (Store(r) \/ StoreFails(r))
               /\ UNCHANGED seen
            \/ \E p \in Photos : BackfillStore(p) /\ k = Thumbnail(p)
  <1> DEFINE Goal ==
        /\ UNCHANGED <<outbox, photos, event, selfies>>
        /\ \/ /\ \E r \in Writers : k \in OwnKeys(r) /\ pc[r] = "storing" /\ (Store(r) \/ StoreFails(r))
              /\ UNCHANGED seen
           \/ \E p \in Photos : BackfillStore(p) /\ k = Thumbnail(p)
  <1>1. ASSUME NEW r \in Writers, Store(r) PROVE Goal
    BY <1>1, StoreEffect
  <1>2. ASSUME NEW r \in Writers, StoreFails(r) PROVE Goal
    BY <1>2, StoreFailsEffect
  <1>3. ASSUME NEW r \in Writers, CommitFails(r) \/ RefreshFails(r) PROVE FALSE
    <2>1. \E outcome \in {"refused", "revoked"} : Compensate(r, outcome)
      BY <1>3 DEF CommitFails, RefreshFails
    <2>2. QED
      BY <2>1, CompensateEffect
  <1>4. ASSUME NEW p \in Photos, BackfillStore(p) PROVE Goal
    BY <1>4 DEF BackfillStore
  <1>5. QED
    BY <1>1, <1>2, <1>3, <1>4, WhoChangesBucket DEF ProcessDeletion

\* An object goes with its task, or with the upload that stored it.
LEMMA LostObject ==
  ASSUME TypeOK, [Next]_vars, NEW k, k \in bucket, k \notin bucket'
  PROVE  \/ k \in outbox
         \/ \E r \in Writers : /\ k \in OwnKeys(r)
                               /\ \/ pc[r] \in {"storing", "committing"} /\ pc'[r] \in {"refused", "uncompensated"}
                                  \/ pc[r] = "refreshing" /\ pc'[r] = "revoked"
  <1> DEFINE Goal ==
        \E r \in Writers : /\ k \in OwnKeys(r)
                           /\ \/ pc[r] \in {"storing", "committing"} /\ pc'[r] \in {"refused", "uncompensated"}
                              \/ pc[r] = "refreshing" /\ pc'[r] = "revoked"
  <1>1. ASSUME NEW r \in Writers, Store(r) PROVE FALSE
    BY <1>1, StoreEffect
  <1>2. ASSUME NEW r \in Writers, StoreFails(r) PROVE Goal
    <2>1. k \in OwnKeys(r) /\ pc[r] = "storing"
      BY <1>2, StoreFailsEffect
    <2>2. pc'[r] \in {"refused", "uncompensated"}
      BY <1>2, IsRequest DEF StoreFails, Compensate, Goto, TypeOK
    <2>3. QED
      BY <2>1, <2>2
  <1>3. ASSUME NEW r \in Writers, CommitFails(r) PROVE Goal
    <2>1. Compensate(r, "refused") /\ pc[r] = "committing"
      BY <1>3 DEF CommitFails
    <2>2. bucket \ bucket' \subseteq OwnKeys(r) /\ pc'[r] \in {"refused", "uncompensated"}
      BY <2>1, CompensateEffect
    <2>3. QED
      BY <2>1, <2>2
  <1>4. ASSUME NEW r \in Writers, RefreshFails(r) PROVE Goal
    <2>1. Compensate(r, "revoked") /\ pc[r] = "refreshing"
      BY <1>4 DEF RefreshFails
    <2>2. bucket \ bucket' \subseteq OwnKeys(r)
      BY <2>1, CompensateEffect
    <2>3. pc'[r] = "revoked"
      BY <2>1, IsRequest DEF Compensate, Goto, TypeOK
    <2>4. QED
      BY <2>1, <2>2, <2>3
  <1>5. ASSUME NEW j \in Keys, ProcessDeletion(j) PROVE k \in outbox
    BY <1>5 DEF ProcessDeletion
  <1>6. QED
    BY <1>1, <1>2, <1>3, <1>4, <1>5, WhoChangesBucket DEF BackfillStore

\* What a request reads.
Reads(q) ==
  \/ /\ q \in Thumbnails /\ event # Deleted
     /\ seen'[q] = {event} /\ pc'[q] = "storing"
  \/ /\ q \in Deletions /\ pc'[q] = "read"
     /\ \E p \in Photos : photos[p] # None /\ seen'[q] = KeysOf(p)
  \/ /\ q = DeleteEvent /\ pc'[q] = "read"
     /\ seen'[q] = UNION {KeysOf(p) : p \in {x \in Photos : photos[x] # None}}
  \/ /\ q = DeleteEvent /\ pc[q] = "queued" /\ pc'[q] = "event_read" /\ event # Deleted
     /\ seen'[q] = seen[q] \union {Selfie(s) : s \in selfies} \union ({event} \ {None})
  \/ /\ q \in Removals /\ event # Deleted
     /\ seen'[q] = {event} \ {None} /\ (pc'[q] = "read" \/ event = None)

LEMMA KeysOfPhoto ==
  ASSUME NEW p \in Photos
  PROVE  /\ KeysOf(p) \subseteq Keys
         /\ \A k : k \in KeysOf(p) <=> \/ k = Original(p)
                                       \/ k = Thumbnail(p) /\ photos[p].thumbnail
  BY DEF KeysOf, Keys

LEMMA ReadsOnce ==
  ASSUME TypeOK, [Next]_vars, NEW q \in Readers
  PROVE  \/ seen'[q] = seen[q]
         \/ Reads(q) /\ UNCHANGED <<bucket, outbox, photos, event, selfies>>
  <1> DEFINE Goal == \/ seen'[q] = seen[q]
                     \/ Reads(q) /\ UNCHANGED <<bucket, outbox, photos, event, selfies>>
  <1>0. /\ q \in Requests /\ q # Backfill /\ q # Reconcile /\ q # Listing
    <2>1. q \in Writers \union Removals \union Deletions \union {DeleteEvent}
      BY DEF Readers, Dropping, Writers
    <2>2. QED
      BY <2>1, IsRequest, Kinds
  <1>1. ASSUME NEW t \in Thumbnails, BeginThumbnail(t) PROVE Goal
    <2>1. t \in Requests
      BY IsRequest DEF Writers
    <2>2. /\ seen' = [seen EXCEPT ![t] = {event}] /\ pc' = [pc EXCEPT ![t] = "storing"]
          /\ event # Deleted /\ UNCHANGED <<bucket, outbox, photos, event, selfies>>
      BY <1>1 DEF BeginThumbnail, Remember, Goto, Exists
    <2>3. CASE q = t
      <3>1. seen'[q] = {event} /\ pc'[q] = "storing"
        BY <2>1, <2>2, <2>3 DEF TypeOK
      <3>2. QED
        BY <2>2, <2>3, <3>1 DEF Reads
    <2>4. CASE q # t
      BY <1>0, <2>2, <2>4 DEF TypeOK
    <2>5. QED
      BY <2>3, <2>4
  <1>2. ASSUME NEW d \in Deletions, BeginDeletion(d) PROVE Goal
    <2>1. d \in Requests
      BY IsRequest
    <2>2. PICK p \in Photos : photos[p] # None /\ seen' = [seen EXCEPT ![d] = KeysOf(p)]
      BY <1>2 DEF BeginDeletion, Remember
    <2>3. pc' = [pc EXCEPT ![d] = "read"] /\ UNCHANGED <<bucket, outbox, photos, event, selfies>>
      BY <1>2 DEF BeginDeletion, Goto
    <2>4. CASE q = d
      <3>1. seen'[q] = KeysOf(p) /\ pc'[q] = "read"
        BY <2>1, <2>2, <2>3, <2>4 DEF TypeOK
      <3>2. QED
        BY <2>2, <2>3, <2>4, <3>1 DEF Reads
    <2>5. CASE q # d
      BY <1>0, <2>2, <2>5 DEF TypeOK
    <2>6. QED
      BY <2>4, <2>5
  <1>3. ASSUME BeginDeleteAll PROVE Goal
    <2>1. DeleteEvent \in Requests
      BY IsRequest
    <2>2. DEFINE keys == UNION {KeysOf(p) : p \in {x \in Photos : photos[x] # None}}
    <2>3. /\ seen' = [seen EXCEPT ![DeleteEvent] = keys] /\ pc' = [pc EXCEPT ![DeleteEvent] = "read"]
          /\ UNCHANGED <<bucket, outbox, photos, event, selfies>>
      BY <1>3 DEF BeginDeleteAll, Remember, Goto
    <2>4. CASE q = DeleteEvent
      <3>1. seen'[q] = keys /\ pc'[q] = "read"
        BY <2>1, <2>3, <2>4 DEF TypeOK
      <3>2. QED
        BY <2>3, <2>4, <3>1 DEF Reads
    <2>5. CASE q # DeleteEvent
      BY <1>0, <2>3, <2>5 DEF TypeOK
    <2>6. QED
      BY <2>4, <2>5
  <1>4. ASSUME BeginDeleteEvent PROVE Goal
    <2>1. DeleteEvent \in Requests
      BY IsRequest
    <2>2. DEFINE keys == seen[DeleteEvent] \union {Selfie(s) : s \in selfies} \union ({event} \ {None})
    <2>3. /\ seen' = [seen EXCEPT ![DeleteEvent] = keys]
          /\ pc[DeleteEvent] = "queued" /\ pc' = [pc EXCEPT ![DeleteEvent] = "event_read"]
          /\ event # Deleted /\ UNCHANGED <<bucket, outbox, photos, event, selfies>>
      BY <1>4 DEF BeginDeleteEvent, Remember, Goto, Exists
    <2>4. CASE q = DeleteEvent
      <3>1. seen'[q] = keys /\ pc'[q] = "event_read"
        BY <2>1, <2>3, <2>4 DEF TypeOK
      <3>2. QED
        BY <2>3, <2>4, <3>1 DEF Reads
    <2>5. CASE q # DeleteEvent
      BY <1>0, <2>3, <2>5 DEF TypeOK
    <2>6. QED
      BY <2>4, <2>5
  <1>5. ASSUME NEW r \in Removals, BeginRemoval(r) PROVE Goal
    <2>1. r \in Requests
      BY IsRequest
    <2>2. /\ seen' = [seen EXCEPT ![r] = {event} \ {None}]
          /\ pc' = [pc EXCEPT ![r] = IF event = None THEN "done" ELSE "read"]
          /\ event # Deleted /\ UNCHANGED <<bucket, outbox, photos, event, selfies>>
      BY <1>5 DEF BeginRemoval, Remember, Goto, Exists
    <2>3. CASE q = r
      <3>1. seen'[q] = {event} \ {None} /\ (pc'[q] = "read" \/ event = None)
        BY <2>1, <2>2, <2>3 DEF TypeOK
      <3>2. QED
        BY <2>2, <2>3, <3>1 DEF Reads
    <2>4. CASE q # r
      BY <1>0, <2>2, <2>4 DEF TypeOK
    <2>5. QED
      BY <2>3, <2>4
  <1>6. ASSUME BeginBackfill \/ \E p \in Photos : BackfillNext(p) PROVE seen'[q] = seen[q]
    <2>1. \E keys : seen' = [seen EXCEPT ![Backfill] = keys]
      BY <1>6 DEF BeginBackfill, BackfillNext, BackfillStore, BackfillCommit, BackfillFails, Leave,
                  Remember
    <2>2. QED
      BY <1>0, <2>1 DEF TypeOK
  <1>7. ASSUME ReconcileNext PROVE seen'[q] = seen[q]
    <2>1. CASE ReconcileList \/ ReconcileCompare \/ ReconcileEnds
      BY <1>0, <2>1 DEF ReconcileList, ReconcileCompare, ReconcileEnds, Remember, TypeOK
    <2>2. CASE ReconcileQueue
      BY <1>0, <2>2 DEF ReconcileQueue, TypeOK
    <2>3. QED
      BY <1>7, <2>1, <2>2 DEF ReconcileNext
  <1>8. QED
    BY <1>1, <1>2, <1>3, <1>4, <1>5, <1>6, <1>7, WhoReads

\* What a request reads is referenced, and it has not dropped it yet.
LEMMA NewReading ==
  ASSUME TypeOK, [Next]_vars, NEW q \in Readers, NEW k, k \in seen'[q], k \notin seen[q]
  PROVE  /\ k \in Referenced \union {None}
         /\ pc'[q] \in {"read", "storing"} \/ (pc'[q] = "event_read" /\ k \notin PhotoKeys)
         /\ UNCHANGED <<bucket, outbox, photos, event, selfies>>
  <1>1. Reads(q) /\ UNCHANGED <<bucket, outbox, photos, event, selfies>>
    BY ReadsOnce
  <1>2. CASE q \in Thumbnails /\ event # Deleted /\ seen'[q] = {event} /\ pc'[q] = "storing"
    BY <1>1, <1>2, ReferencedKinds DEF RefersTo
  <1>3. ASSUME pc'[q] = "read",
               \E p \in Photos : photos[p] # None /\ k \in KeysOf(p)
        PROVE  k \in Referenced
    BY <1>3, KeysOfPhoto, ReferencedKinds DEF RefersTo
  <1>4. CASE /\ q = DeleteEvent /\ pc'[q] = "event_read" /\ event # Deleted
             /\ seen'[q] = seen[q] \union {Selfie(s) : s \in selfies} \union ({event} \ {None})
    <2>1. k \in {Selfie(s) : s \in selfies} \union ({event} \ {None})
      BY <1>4
    <2>2. k \in Referenced
      BY <1>4, <2>1, ReferencedKinds DEF RefersTo
    <2>3. k \notin PhotoKeys
      BY <1>4, <2>1, KeysDiffer DEF PhotoKeys, TypeOK
    <2>4. QED
      BY <1>1, <1>4, <2>2, <2>3
  <1>5. CASE /\ q \in Removals /\ event # Deleted
             /\ seen'[q] = {event} \ {None} /\ (pc'[q] = "read" \/ event = None)
    BY <1>1, <1>5, ReferencedKinds DEF RefersTo
  <1>6. QED
    BY <1>1, <1>2, <1>3, <1>4, <1>5 DEF Reads

\* What the reconciliation lists are sensitive keys of the bucket, and what it
\* has condemned it remembers.
LEMMA ReconcileReads ==
  ASSUME TypeOK, [Next]_vars
  PROVE  /\ seen[Reconcile] \subseteq seen'[Reconcile]
         /\ seen'[Reconcile] \subseteq seen[Reconcile] \union seen[Listing]
         /\ seen'[Listing] \subseteq seen[Listing] \union {k \in bucket : IsSensitiveTemporaryKey(k)}
         /\ ReconcileQueue => seen[Listing] \subseteq seen'[Reconcile]
  <1> DEFINE Goal ==
        /\ seen[Reconcile] \subseteq seen'[Reconcile]
        /\ seen'[Reconcile] \subseteq seen[Reconcile] \union seen[Listing]
        /\ seen'[Listing] \subseteq seen[Listing] \union {k \in bucket : IsSensitiveTemporaryKey(k)}
        /\ ReconcileQueue => seen[Listing] \subseteq seen'[Reconcile]
  <1>0. /\ Reconcile \in Requests /\ Backfill \in Requests /\ DeleteEvent \in Requests
        /\ Reconcile # Listing /\ Backfill # Reconcile /\ Backfill # Listing
        /\ DeleteEvent # Reconcile /\ DeleteEvent # Listing
    BY IsRequest, Kinds
  <1>1. ASSUME ReconcileList PROVE Goal
    <2>1. seen' = [seen EXCEPT ![Listing] = {k \in bucket : IsSensitiveTemporaryKey(k)}]
      BY <1>1 DEF ReconcileList, Remember
    <2>2. /\ seen'[Listing] = {k \in bucket : IsSensitiveTemporaryKey(k)}
          /\ seen'[Reconcile] = seen[Reconcile]
      BY <1>0, <2>1 DEF TypeOK
    <2>3. ~ReconcileQueue
      BY <1>1 DEF ReconcileList, ReconcileQueue
    <2>4. QED
      BY <2>2, <2>3
  <1>2. ASSUME ReconcileCompare PROVE Goal
    <2>1. seen' = [seen EXCEPT ![Listing] = seen[Listing] \ Referenced]
      BY <1>2 DEF ReconcileCompare, Remember
    <2>2. seen'[Listing] = seen[Listing] \ Referenced /\ seen'[Reconcile] = seen[Reconcile]
      BY <1>0, <2>1 DEF TypeOK
    <2>3. ~ReconcileQueue
      BY <1>2 DEF ReconcileCompare, ReconcileQueue
    <2>4. QED
      BY <2>2, <2>3
  <1>3. ASSUME ReconcileQueue PROVE Goal
    <2>1. /\ seen'[Listing] = {}
          /\ seen'[Reconcile] = seen[Reconcile] \union seen[Listing]
      BY <1>0, <1>3 DEF ReconcileQueue, TypeOK
    <2>2. QED
      BY <2>1
  <1>11. ASSUME ReconcileEnds, ~ReconcileQueue PROVE Goal
    <2>1. seen' = [seen EXCEPT ![Listing] = {}]
      BY <1>11 DEF ReconcileEnds, Remember
    <2>2. seen'[Listing] = {} /\ seen'[Reconcile] = seen[Reconcile]
      BY <1>0, <2>1 DEF TypeOK
    <2>3. QED
      BY <1>11, <2>2
  <1>4. ASSUME seen'[Listing] = seen[Listing], seen'[Reconcile] = seen[Reconcile],
               ~ReconcileNext
        PROVE  Goal
    BY <1>4 DEF ReconcileNext
  <1>5. ASSUME NEW r \in Requests, r # Reconcile, NEW keys, seen' = [seen EXCEPT ![r] = keys]
        PROVE  seen'[Listing] = seen[Listing] /\ seen'[Reconcile] = seen[Reconcile]
    <2>1. r # Listing
      BY <1>0, Kinds, <1>5 DEF Requests
    <2>2. QED
      BY <1>0, <1>5, <2>1 DEF TypeOK
  <1>6. ASSUME \/ \E t \in Thumbnails : BeginThumbnail(t)
               \/ \E d \in Deletions : BeginDeletion(d)
               \/ \E r \in Removals : BeginRemoval(r)
        PROVE  seen'[Listing] = seen[Listing] /\ seen'[Reconcile] = seen[Reconcile]
    <2>1. \A r \in Thumbnails \union Deletions \union Removals : r \in Requests /\ r # Reconcile
      BY IsRequest, Kinds DEF Writers
    <2>2. \E r \in Thumbnails \union Deletions \union Removals : \E keys :
            seen' = [seen EXCEPT ![r] = keys]
      BY <1>6 DEF BeginThumbnail, BeginDeletion, BeginRemoval, Remember
    <2>3. QED
      BY <1>5, <2>1, <2>2
  <1>7. ASSUME BeginDeleteAll \/ BeginDeleteEvent
        PROVE  seen'[Listing] = seen[Listing] /\ seen'[Reconcile] = seen[Reconcile]
    <2>1. \E keys : seen' = [seen EXCEPT ![DeleteEvent] = keys]
      BY <1>7 DEF BeginDeleteAll, BeginDeleteEvent, Remember
    <2>2. QED
      BY <1>0, <1>5, <2>1
  <1>8. ASSUME BeginBackfill \/ \E p \in Photos : BackfillNext(p)
        PROVE  seen'[Listing] = seen[Listing] /\ seen'[Reconcile] = seen[Reconcile]
    <2>1. \E keys : seen' = [seen EXCEPT ![Backfill] = keys]
      BY <1>8 DEF BeginBackfill, BackfillNext, BackfillStore, BackfillCommit, BackfillFails, Leave,
                  Remember
    <2>2. QED
      BY <1>0, <1>5, <2>1
  <1>9. \/ ReconcileNext
        \/ seen'[Listing] = seen[Listing] /\ seen'[Reconcile] = seen[Reconcile]
    BY <1>6, <1>7, <1>8, WhoReads
  <1>10. QED
    BY <1>1, <1>2, <1>3, <1>4, <1>9, <1>11 DEF ReconcileNext

\* The listing and what is due change with the steps of the reconciliation.
LEMMA WhoReconciles ==
  ASSUME TypeOK, [Next]_vars
  PROVE  \/ ReconcileNext
         \/ due' = due /\ pc'[Reconcile] = pc[Reconcile] /\ seen'[Listing] = seen[Listing]
  <1>0. /\ Reconcile \in Requests /\ Reconcile # Backfill /\ Listing # Backfill
        /\ \A r \in Writers \union Dropping \union Removals :
             r \in Requests /\ r # Reconcile /\ r # Listing
    BY IsRequest, Kinds DEF Dropping
  <1>1. due' = due \/ ReconcileNext
    <2>1. ASSUME NEW r \in Writers, Upload(r) PROVE due' = due
      BY <2>1 DEF Upload, Rejected, BeginUpload, BeginSelfie, BeginThumbnail, Store, StoreFails,
                  CommitFails, Refreshed, RefreshFails, Crash, Commit
    <2>2. ASSUME NEW p \in Photos, BackfillNext(p) PROVE due' = due
      BY <2>2 DEF BackfillNext, BackfillStore, BackfillFails, BackfillCommit
    <2>3. QED
      BY <2>1, <2>2 DEF Next, vars, BeginDeletion, BeginDeleteAll, DeleteAllEnds, DeletePhotos,
         BeginDeleteEvent, CommitDeleteEvent, BeginRemoval, CommitRemoval, BeginBackfill,
         ProcessDeletion
  <1>2. ASSUME NEW r \in Requests, r # Reconcile, NEW stage, Goto(r, stage)
        PROVE  pc'[Reconcile] = pc[Reconcile]
    BY <1>0, <1>2 DEF Goto, TypeOK
  <1>3. pc'[Reconcile] = pc[Reconcile] \/ ReconcileNext
    <2>1. ASSUME NEW r \in Writers, Upload(r) PROVE pc'[Reconcile] = pc[Reconcile]
      BY <1>0, <2>1, UploadMovesOn
    <2>2. ASSUME \/ \E d \in Deletions : BeginDeletion(d)
                 \/ \E r \in Dropping : DeletePhotos(r)
                 \/ BeginDeleteAll \/ DeleteAllEnds \/ BeginDeleteEvent \/ CommitDeleteEvent
                 \/ \E r \in Removals : BeginRemoval(r) \/ CommitRemoval(r)
          PROVE  \E r \in Dropping \union Removals : \E stage : Goto(r, stage)
      BY <2>2 DEF BeginDeletion, DeletePhotos, BeginDeleteAll, DeleteAllEnds, BeginDeleteEvent,
              CommitDeleteEvent, BeginRemoval, CommitRemoval, Dropping
    <2>3. ASSUME BeginBackfill \/ \E p \in Photos : BackfillNext(p)
          PROVE  \E stage : Goto(Backfill, stage)
      BY <2>3 DEF BeginBackfill, BackfillNext, BackfillStore, BackfillCommit, BackfillFails, Leave
    <2>4. Backfill \in Requests
      BY IsRequest
    <2>5. QED
      BY <1>0, <1>2, <2>1, <2>2, <2>3, <2>4 DEF Next, vars, Dropping, ProcessDeletion
  <1>4. ASSUME NEW r \in Requests, r # Listing, NEW keys, Remember(r, keys)
        PROVE  seen'[Listing] = seen[Listing]
    BY <1>4 DEF Remember, TypeOK
  <1>5. seen'[Listing] = seen[Listing] \/ ReconcileNext
    <2>1. ASSUME \/ \E t \in Thumbnails : BeginThumbnail(t)
                 \/ \E d \in Deletions : BeginDeletion(d)
                 \/ BeginDeleteAll \/ BeginDeleteEvent
                 \/ \E r \in Removals : BeginRemoval(r)
          PROVE  \E r \in Writers \union Dropping \union Removals : \E keys : Remember(r, keys)
      BY <2>1 DEF BeginThumbnail, BeginDeletion, BeginDeleteAll, BeginDeleteEvent, BeginRemoval,
              Writers, Dropping
    <2>2. ASSUME BeginBackfill \/ \E p \in Photos : BackfillNext(p)
          PROVE  \E keys : Remember(Backfill, keys)
      BY <2>2 DEF BeginBackfill, BackfillNext, BackfillStore, BackfillCommit, BackfillFails, Leave
    <2>3. Backfill \in Requests
      BY IsRequest
    <2>4. QED
      BY <1>0, <1>4, <2>1, <2>2, <2>3, WhoReads
  <1>6. QED
    BY <1>1, <1>3, <1>5

\* The photo leaves the batch of the backfill, its thumbnail is remembered.
LEMMA LeaveEffect ==
  ASSUME TypeOK, NEW p \in Photos, NEW ended \in BOOLEAN, Leave(p, ended)
  PROVE  /\ seen'[Backfill] \subseteq seen[Backfill] \ {Original(p)}
         /\ \A q \in Photos : Thumbnail(q) \in seen[Backfill] => Thumbnail(q) \in seen'[Backfill]
         /\ pc'[Backfill] \in {"read", "idle"}
  <1>0. Backfill \in Requests
    BY IsRequest
  <1> DEFINE rest == seen[Backfill] \ (IF ended THEN {Original(q) : q \in Photos} ELSE {Original(p)})
  <1>1. seen' = [seen EXCEPT ![Backfill] = rest]
    BY DEF Leave, Remember
  <1>2. seen'[Backfill] = rest
    BY <1>0, <1>1 DEF TypeOK
  <1>3. rest \subseteq seen[Backfill] \ {Original(p)}
    OBVIOUS
  <1>4. \A q \in Photos : Thumbnail(q) \in seen[Backfill] => Thumbnail(q) \in rest
    BY KeysDiffer
  <1>5. pc'[Backfill] \in {"read", "idle"}
    BY <1>0 DEF Leave, Goto, TypeOK
  <1>6. QED
    BY <1>2, <1>3, <1>4, <1>5

LEMMA BackfillStoreEffect ==
  ASSUME TypeOK, NEW p \in Photos, BackfillStore(p)
  PROVE  /\ Original(p) \in seen[Backfill]
         /\ bucket' = bucket \union {Thumbnail(p)}
         /\ seen'[Backfill] = seen[Backfill] \union {Thumbnail(p)}
         /\ \A q \in Requests \union {Listing} : q # Backfill => seen'[q] = seen[q]
         /\ pc'[Backfill] = p
         /\ \A q \in Requests : q # Backfill => pc'[q] = pc[q]
         /\ UNCHANGED <<outbox, photos, event, selfies>>
  BY IsRequest DEF TypeOK, BackfillStore, Pending, Remember, Goto

LEMMA BeginBackfillEffect ==
  ASSUME TypeOK, BeginBackfill
  PROVE  /\ \A k : k \in seen'[Backfill] <=>
              \/ k \in seen[Backfill]
              \/ \E p \in Photos : k = Original(p) /\ photos[p] # None /\ ~photos[p].thumbnail
         /\ \A q \in Requests \union {Listing} : q # Backfill => seen'[q] = seen[q]
         /\ pc'[Backfill] = "read"
         /\ UNCHANGED <<bucket, outbox, photos, event, selfies>>
  <1> DEFINE missing == {p \in Photos : photos[p] # None /\ ~photos[p].thumbnail}
  <1>1. /\ seen' = [seen EXCEPT ![Backfill] = seen[Backfill] \union {Original(p) : p \in missing}]
        /\ pc' = [pc EXCEPT ![Backfill] = "read"]
        /\ UNCHANGED <<bucket, outbox, photos, event, selfies>>
    BY DEF BeginBackfill, Remember, Goto
  <1>2. /\ seen'[Backfill] = seen[Backfill] \union {Original(p) : p \in missing}
        /\ \A q \in Requests \union {Listing} : q # Backfill => seen'[q] = seen[q]
        /\ pc'[Backfill] = "read"
    BY <1>1, IsRequest DEF TypeOK
  <1>3. QED
    BY <1>1, <1>2

LEMMA BackfillSteps ==
  ASSUME TypeOK, [Next]_vars
  PROVE  \/ seen'[Backfill] = seen[Backfill] /\ pc'[Backfill] = pc[Backfill]
         \/ BeginBackfill
         \/ \E p \in Photos : BackfillNext(p)
  <1>0. Backfill \in Requests /\ Backfill # Reconcile /\ Backfill # Listing /\ Backfill # DeleteEvent
    BY IsRequest, Kinds
  <1>1. ASSUME NEW r \in Requests \union {Listing}, r # Backfill, NEW keys,
               \/ seen' = [seen EXCEPT ![r] = keys]
               \/ seen' = [seen EXCEPT ![Reconcile] = keys, ![Listing] = {}]
        PROVE  seen'[Backfill] = seen[Backfill]
    BY <1>0, <1>1 DEF TypeOK
  <1>2. ASSUME NEW r \in Requests, r # Backfill, NEW stage, pc' = [pc EXCEPT ![r] = stage]
        PROVE  pc'[Backfill] = pc[Backfill]
    BY <1>0, <1>2 DEF TypeOK
  <1>3. \A r \in Writers \union Removals \union Dropping : r \in Requests /\ r # Backfill
    BY IsRequest, Kinds DEF Dropping
  <1>4. ASSUME NEW r \in Writers, Upload(r)
        PROVE  seen'[Backfill] = seen[Backfill] /\ pc'[Backfill] = pc[Backfill]
    <2>1. pc'[Backfill] = pc[Backfill]
      BY <1>0, <1>3, <1>4, UploadMovesOn
    <2>2. UNCHANGED seen \/ BeginThumbnail(r)
      BY <1>4 DEF Upload, Rejected, BeginUpload, BeginSelfie, Store, StoreFails,
                  CommitFails, Refreshed, RefreshFails, Crash, Commit
    <2>3. QED
      BY <1>1, <1>3, <2>1, <2>2 DEF BeginThumbnail, Remember
  <1>5. ASSUME \/ \E d \in Deletions : BeginDeletion(d)
               \/ \E r \in Dropping : DeletePhotos(r)
               \/ BeginDeleteAll \/ DeleteAllEnds \/ BeginDeleteEvent \/ CommitDeleteEvent
               \/ \E r \in Removals : BeginRemoval(r) \/ CommitRemoval(r)
        PROVE  seen'[Backfill] = seen[Backfill] /\ pc'[Backfill] = pc[Backfill]
    <2>1. \E r \in Dropping \union Removals :
            /\ UNCHANGED seen \/ \E keys : seen' = [seen EXCEPT ![r] = keys]
            /\ \E stage : pc' = [pc EXCEPT ![r] = stage]
      BY <1>5 DEF BeginDeletion, DeletePhotos, BeginDeleteAll, DeleteAllEnds, BeginDeleteEvent,
                  CommitDeleteEvent, BeginRemoval, CommitRemoval, Remember, Goto, Dropping
    <2>2. QED
      BY <1>1, <1>2, <1>3, <2>1
  <1>6. ASSUME ReconcileNext
        PROVE  seen'[Backfill] = seen[Backfill] /\ pc'[Backfill] = pc[Backfill]
    <2>1. \E keys : \/ seen' = [seen EXCEPT ![Listing] = keys]
                    \/ seen' = [seen EXCEPT ![Reconcile] = keys, ![Listing] = {}]
      BY <1>6 DEF ReconcileNext, ReconcileList, ReconcileCompare, ReconcileQueue, ReconcileEnds,
                  Remember
    <2>2. \E stage : pc' = [pc EXCEPT ![Reconcile] = stage]
      BY <1>6 DEF ReconcileNext, ReconcileList, ReconcileCompare, ReconcileQueue, ReconcileEnds,
                  Goto
    <2>3. QED
      BY <1>0, <1>1, <1>2, <2>1, <2>2, IsRequest
  <1>7. QED
    BY <1>4, <1>5, <1>6 DEF Next, vars, Dropping, ProcessDeletion

\* The backfill remembers the thumbnails that it has stored, gains photos
\* without a thumbnail and loses those that it gave one.
LEMMA BackfillReads ==
  ASSUME TypeOK, [Next]_vars, NEW p \in Photos
  PROVE  /\ Thumbnail(p) \in seen[Backfill] => Thumbnail(p) \in seen'[Backfill]
         /\ Thumbnail(p) \in seen'[Backfill] => Thumbnail(p) \in seen[Backfill] \/ BackfillStore(p)
         /\ Original(p) \in seen'[Backfill] =>
              \/ Original(p) \in seen[Backfill] /\ ~BackfillCommit(p)
              \/ photos[p] # None /\ ~photos[p].thumbnail /\ UNCHANGED photos
                 /\ \A q \in Requests \union {Listing} : q # Backfill => seen'[q] = seen[q]
         /\ pc'[Backfill] = p => pc[Backfill] = p \/ BackfillStore(p)
  <1> DEFINE Goal ==
         /\ Thumbnail(p) \in seen[Backfill] => Thumbnail(p) \in seen'[Backfill]
         /\ Thumbnail(p) \in seen'[Backfill] => Thumbnail(p) \in seen[Backfill] \/ BackfillStore(p)
         /\ Original(p) \in seen'[Backfill] =>
              \/ Original(p) \in seen[Backfill] /\ ~BackfillCommit(p)
              \/ photos[p] # None /\ ~photos[p].thumbnail /\ UNCHANGED photos
                 /\ \A q \in Requests \union {Listing} : q # Backfill => seen'[q] = seen[q]
         /\ pc'[Backfill] = p => pc[Backfill] = p \/ BackfillStore(p)
  <1>0. p # "read" /\ p # "idle"
    BY Kinds DEF Stages
  <1>1. ASSUME BackfillCommit(p)
        PROVE  Original(p) \notin seen'[Backfill]
    <2>1. Leave(p, FALSE)
      BY <1>1 DEF BackfillCommit
    <2>2. QED
      BY <2>1, LeaveEffect
  <1>2. CASE seen'[Backfill] = seen[Backfill] /\ pc'[Backfill] = pc[Backfill]
    BY <1>1, <1>2
  <1>3. CASE BeginBackfill
    BY <1>0, <1>1, <1>3, BeginBackfillEffect, KeysDiffer
  <1>4. ASSUME NEW q \in Photos, BackfillStore(q) PROVE Goal
    BY <1>1, <1>4, BackfillStoreEffect, KeysDiffer
  <1>5. ASSUME NEW q \in Photos, BackfillCommit(q) \/ BackfillFails(q) PROVE Goal
    <2>1. \E ended \in BOOLEAN : Leave(q, ended)
      BY <1>5 DEF BackfillCommit, BackfillFails
    <2>2. /\ seen'[Backfill] \subseteq seen[Backfill]
          /\ \A x \in Photos : Thumbnail(x) \in seen[Backfill] => Thumbnail(x) \in seen'[Backfill]
          /\ pc'[Backfill] \in {"read", "idle"}
      BY <2>1, LeaveEffect
    <2>3. QED
      BY <1>0, <1>1, <2>2
  <1>6. QED
    BY <1>2, <1>3, <1>4, <1>5, BackfillSteps DEF BackfillNext

-----------------------------------------------------------------------------
(* The conjuncts of the invariant, one by one.                             *)

LEMMA InitIInv == Init => IInv
  <1> SUFFICES ASSUME Init PROVE IInv
    OBVIOUS
  <1>0. /\ bucket = {Original(p) : p \in Legacy} /\ outbox = {} /\ event = None /\ selfies = {}
        /\ seen = [r \in Requests \union {Listing} |-> {}]
        /\ photos = [p \in Photos |-> IF p \in Legacy THEN [thumbnail |-> FALSE, checksum |-> None]
                                                      ELSE None]
    BY DEF Init
  <1>1. \A r \in Requests \union {Listing} : seen[r] = {}
    BY <1>0
  <1>2. /\ \A p \in Legacy : photos[p] # None /\ ~photos[p].thumbnail
        /\ \A p \in Uploads : photos[p] = None
    <2>1. \A p \in Legacy : photos[p] = [thumbnail |-> FALSE, checksum |-> None]
      BY <1>0 DEF Photos
    <2>2. [thumbnail |-> FALSE, checksum |-> None] \in PhotoRow
      BY DEF PhotoRow
    <2>3. \A p \in Uploads : photos[p] = None
      BY <1>0, Kinds DEF Photos
    <2>4. QED
      BY <2>1, <2>2, <2>3, StorageAssumption
  <1>3. pc \in [Requests -> {"idle", "off"}]
    BY DEF Init
  <1>4. \A r \in Requests : pc[r] \in {"idle", "off"}
    BY <1>3
  <1>5. Referenced = {Original(p) : p \in Legacy}
    BY <1>0, <1>2, Kinds DEF Referenced, Photos
  <1>6. /\ \A r \in Readers : r \in Requests
        /\ \A r \in Dropping : r \in Requests
        /\ \A w \in Writers : w \in Requests
        /\ Backfill \in Requests /\ Reconcile \in Requests
    BY IsRequest DEF Readers, Dropping, Writers
  <1>7. TypeOK
    <2>1. bucket \subseteq Keys
      BY <1>0 DEF Keys, Photos
    <2>2. photos \in [Photos -> PhotoRow \union {None}]
      BY <1>0 DEF PhotoRow
    <2>3. pc \in [Requests -> Stages \union Photos]
      BY <1>3 DEF Stages
    <2>4. due = {}
      BY DEF Init
    <2>5. QED
      BY <1>0, <2>1, <2>2, <2>3, <2>4 DEF TypeOK
  <1>8. ReadsMakeSense
    <2>1. /\ \A r \in Readers : seen[r] = {}
          /\ seen[Listing] = {} /\ seen[Reconcile] = {} /\ seen[Backfill] = {}
      BY <1>1, <1>6
    <2>2. \A r \in Dropping \union (Removals \union Thumbnails) : r \in Readers
      BY DEF Readers
    <2>3. QED
      BY <2>1, <2>2 DEF ReadsMakeSense
  <1>9. FreshKeys
    <2>1. \A w \in Writers : \A k \in OwnKeys(w) : k \notin Referenced
      BY <1>5, OwnKeysOf, KeysDiffer, Kinds DEF Writers
    <2>2. QED
      BY <1>0, <1>1, <1>6, <2>1 DEF FreshKeys
  <1>10. UploadsStore
    <2>1. \A w \in Writers : OwnKeys(w) \intersect bucket = {}
      BY <1>0, OwnKeysOf, KeysDiffer, Kinds DEF Writers
    <2>2. QED
      BY <1>4, <1>6, <2>1 DEF UploadsStore
  <1>11. PhotoRows
    BY <1>0, <1>1, <1>2, <1>6 DEF PhotoRows, Photos
  <1>12. BackfillHolds
    <2>1. \A p \in Photos : Thumbnail(p) \notin bucket
      BY <1>0, KeysDiffer
    <2>2. \A p \in Photos : pc[Backfill] # p
      BY <1>4, <1>6, Kinds DEF Stages
    <2>3. QED
      BY <1>1, <1>6, <2>1, <2>2 DEF BackfillHolds
  <1>13. ReadIsQueued
    BY <1>1, <1>6 DEF ReadIsQueued, Unread, Readers, Dropping
  <1>14. GoneIsQueued
    BY <1>2, <1>4, <1>6 DEF GoneIsQueued, Committed, Photos, Writers
  <1>15. ReferencedIsKept
    BY <1>0, <1>5 DEF ReferencedIsKept
  <1>16. DueIsListed /\ OrphansCondemned
    <2>1. due = {}
      BY DEF Init
    <2>2. pc[Reconcile] = "idle"
      BY <1>6 DEF Init
    <2>3. QED
      BY <2>1, <2>2 DEF DueIsListed, OrphansCondemned
  <1>17. QED
    BY <1>7, <1>8, <1>9, <1>10, <1>11, <1>12, <1>13, <1>14, <1>15, <1>16 DEF IInv

LEMMA TypesStep ==
  ASSUME TypeOK, [Next]_vars
  PROVE  TypeOK'
  <1>1. photos' \in [Photos -> PhotoRow \union {None}]
    <2>1. ASSUME NEW r \in Writers, Commit(r) PROVE photos' \in [Photos -> PhotoRow \union {None}]
      <3>1. CASE r \in Uploads /\ photos' = [photos EXCEPT ![r] = [thumbnail |-> TRUE, checksum |-> ContentOf[r]]]
        <4>1. r \in Photos
          BY <3>1 DEF Photos
        <4>2. [thumbnail |-> TRUE, checksum |-> ContentOf[r]] \in PhotoRow
          BY <4>1, StorageAssumption DEF PhotoRow
        <4>3. QED
          BY <3>1, <4>1, <4>2 DEF TypeOK
      <3>2. CASE UNCHANGED photos
        BY <3>2 DEF TypeOK
      <3>3. QED
        BY <2>1, <3>1, <3>2 DEF Commit
    <2>2. ASSUME NEW d \in Dropping, DeletePhotos(d) PROVE photos' \in [Photos -> PhotoRow \union {None}]
      BY <2>2 DEF DeletePhotos, TypeOK
    <2>3. ASSUME NEW p \in Photos, BackfillCommit(p) PROVE photos' \in [Photos -> PhotoRow \union {None}]
      <3> DEFINE duplicate == \E q \in Photos \ {p} : photos[q] # None /\ photos[q].checksum = ContentOf[p]
                 new == [thumbnail |-> TRUE,
                         checksum |-> IF photos[p].checksum = None /\ ~duplicate
                                        THEN ContentOf[p] ELSE photos[p].checksum]
      <3>1. photos[p] # None /\ photos' = [photos EXCEPT ![p] = new]
        BY <2>3 DEF BackfillCommit
      <3>2. photos[p] \in PhotoRow
        BY <3>1 DEF TypeOK
      <3>3. new \in PhotoRow
        BY <3>2, StorageAssumption DEF PhotoRow
      <3>4. QED
        BY <3>1, <3>3 DEF TypeOK
    <2>4. QED
      BY <2>1, <2>2, <2>3, WhoChangesRows DEF CommitDeleteEvent, CommitRemoval, TypeOK
  <1>2. event' \in {EventThumbnail(t) : t \in Thumbnails} \union {None, Deleted}
    <2>1. ASSUME NEW r \in Writers, Commit(r)
          PROVE  event' \in {EventThumbnail(t) : t \in Thumbnails} \union {None, Deleted}
      BY <2>1, CommitKinds DEF TypeOK
    <2>2. QED
      BY <2>1, WhoChangesRows
         DEF DeletePhotos, CommitDeleteEvent, CommitRemoval, BackfillCommit, TypeOK
  <1>3. selfies' \subseteq Selfies
    <2>1. ASSUME NEW r \in Writers, Commit(r) PROVE selfies' \subseteq Selfies
      BY <2>1, CommitKinds DEF TypeOK
    <2>2. QED
      BY <2>1, WhoChangesRows
         DEF DeletePhotos, CommitDeleteEvent, CommitRemoval, BackfillCommit, TypeOK
  <1>4. bucket' \subseteq Keys
    <2>1. ASSUME NEW k, k \in bucket', k \notin bucket PROVE k \in Keys
      BY <2>1, NewObject, OwnKeysAreKeys DEF Keys
    <2>2. QED
      BY <2>1 DEF TypeOK
  <1>5. seen' \in [Requests \union {Listing} -> SUBSET (Keys \union {None})]
    <2> DEFINE Goal == seen' \in [Requests \union {Listing} -> SUBSET (Keys \union {None})]
    <2>0. /\ \A r \in Thumbnails \union Deletions \union Removals : r \in Requests
          /\ DeleteEvent \in Requests /\ Backfill \in Requests /\ Reconcile \in Requests
      BY IsRequest DEF Writers
    <2>1. ASSUME NEW r \in Requests \union {Listing}, NEW keys \in SUBSET (Keys \union {None}), Remember(r, keys)
          PROVE  Goal
      BY <2>1, RememberEffect
    <2>2. event # Deleted => event \in Keys \union {None}
      BY DEF TypeOK, Keys
    <2>3. /\ \A p \in Photos : KeysOf(p) \in SUBSET (Keys \union {None})
          /\ \A p \in Photos : Original(p) \in Keys /\ Thumbnail(p) \in Keys
          /\ \A s \in selfies : Selfie(s) \in Keys
      BY KeysOfPhoto DEF Keys, TypeOK
    <2>4. /\ seen[Backfill] \in SUBSET (Keys \union {None}) /\ seen[Listing] \in SUBSET (Keys \union {None})
          /\ seen[DeleteEvent] \in SUBSET (Keys \union {None})
          /\ seen[Reconcile] \in SUBSET (Keys \union {None})
          /\ bucket \in SUBSET (Keys \union {None})
      BY <2>0 DEF TypeOK
    <2>5. ASSUME NEW t \in Thumbnails, BeginThumbnail(t) PROVE Goal
      <3>1. Remember(t, {event}) /\ {event} \in SUBSET (Keys \union {None})
        BY <2>2, <2>5 DEF BeginThumbnail, Exists
      <3>2. QED
        BY <2>0, <2>1, <3>1
    <2>6. ASSUME NEW d \in Deletions, BeginDeletion(d) PROVE Goal
      BY <2>0, <2>1, <2>3, <2>6 DEF BeginDeletion
    <2>7. ASSUME BeginDeleteAll PROVE Goal
      <3> DEFINE keys == UNION {KeysOf(p) : p \in {q \in Photos : photos[q] # None}}
      <3>1. Remember(DeleteEvent, keys)
        BY <2>7 DEF BeginDeleteAll
      <3>2. keys \in SUBSET (Keys \union {None})
        BY <2>3
      <3>3. QED
        BY <2>0, <2>1, <3>1, <3>2
    <2>8. ASSUME BeginDeleteEvent PROVE Goal
      <3> DEFINE keys == seen[DeleteEvent] \union {Selfie(s) : s \in selfies} \union ({event} \ {None})
      <3>1. Remember(DeleteEvent, keys) /\ event # Deleted
        BY <2>8 DEF BeginDeleteEvent, Exists
      <3>2. keys \in SUBSET (Keys \union {None})
        BY <2>2, <2>3, <2>4, <3>1
      <3>3. QED
        BY <2>0, <2>1, <3>1, <3>2
    <2>9. ASSUME NEW r \in Removals, BeginRemoval(r) PROVE Goal
      <3>1. Remember(r, {event} \ {None}) /\ ({event} \ {None}) \in SUBSET (Keys \union {None})
        BY <2>2, <2>9 DEF BeginRemoval, Exists
      <3>2. QED
        BY <2>0, <2>1, <3>1
    <2>10. ASSUME BeginBackfill PROVE Goal
      <3> DEFINE missing == {p \in Photos : photos[p] # None /\ ~photos[p].thumbnail}
      <3>1. Remember(Backfill, seen[Backfill] \union {Original(p) : p \in missing})
        BY <2>10 DEF BeginBackfill
      <3>2. (seen[Backfill] \union {Original(p) : p \in missing}) \in SUBSET (Keys \union {None})
        BY <2>3, <2>4
      <3>3. QED
        BY <2>0, <2>1, <3>1, <3>2
    <2>11. ASSUME NEW p \in Photos, BackfillStore(p) PROVE Goal
      <3>1. Remember(Backfill, seen[Backfill] \union {Thumbnail(p)})
        BY <2>11 DEF BackfillStore
      <3>2. (seen[Backfill] \union {Thumbnail(p)}) \in SUBSET (Keys \union {None})
        BY <2>3, <2>4
      <3>3. QED
        BY <2>0, <2>1, <3>1, <3>2
    <2>12. ASSUME NEW p \in Photos, BackfillCommit(p) \/ BackfillFails(p) PROVE Goal
      <3>1. PICK ended \in BOOLEAN : Leave(p, ended)
        BY <2>12 DEF BackfillCommit, BackfillFails
      <3> DEFINE rest == seen[Backfill] \ (IF ended THEN {Original(q) : q \in Photos} ELSE {Original(p)})
      <3>2. Remember(Backfill, rest)
        BY <3>1 DEF Leave
      <3>3. rest \in SUBSET (Keys \union {None})
        BY <2>4
      <3>4. QED
        BY <2>0, <2>1, <3>2, <3>3
    <2>13. ASSUME ReconcileList PROVE Goal
      <3>1. Remember(Listing, {k \in bucket : IsSensitiveTemporaryKey(k)})
        BY <2>13 DEF ReconcileList
      <3>2. {k \in bucket : IsSensitiveTemporaryKey(k)} \in SUBSET (Keys \union {None})
        BY <2>4
      <3>3. QED
        BY <2>1, <3>1, <3>2
    <2>14. ASSUME ReconcileCompare PROVE Goal
      <3>1. Remember(Listing, seen[Listing] \ Referenced)
        BY <2>14 DEF ReconcileCompare
      <3>2. (seen[Listing] \ Referenced) \in SUBSET (Keys \union {None})
        BY <2>4
      <3>3. QED
        BY <2>1, <3>1, <3>2
    <2>15. ASSUME ReconcileQueue PROVE Goal
      <3>1. seen' = [seen EXCEPT ![Reconcile] = seen[Reconcile] \union seen[Listing], ![Listing] = {}]
        BY <2>15 DEF ReconcileQueue
      <3>2. (seen[Reconcile] \union seen[Listing]) \in SUBSET (Keys \union {None})
        BY <2>4
      <3>3. QED
        BY <3>1, <3>2 DEF TypeOK
    <2>17. ASSUME ReconcileEnds PROVE Goal
      BY <2>1, <2>17 DEF ReconcileEnds
    <2>16. QED
      BY <2>5, <2>6, <2>7, <2>8, <2>9, <2>10, <2>11, <2>12, <2>13, <2>14, <2>15, <2>17, WhoReads
         DEF BackfillNext, ReconcileNext, TypeOK
  <1>6. outbox' \subseteq Keys
    <2>1. ASSUME NEW t \in Thumbnails, Commit(t) PROVE outbox' \subseteq Keys
      <3>1. t \in Writers /\ t \in Requests
        BY IsRequest DEF Writers
      <3>2. outbox' = outbox \union (seen[t] \ {None})
        BY <2>1, <3>1, CommitKinds, Kinds
      <3>3. QED
        BY <3>1, <3>2 DEF TypeOK
    <2>2. ASSUME NEW d \in Dropping, DeletePhotos(d) PROVE outbox' \subseteq Keys
      <3>1. d \in Requests
        BY IsRequest DEF Dropping
      <3>2. QED
        BY <2>2, <3>1, DeletePhotosRows DEF TypeOK
    <2>3. ASSUME CommitDeleteEvent PROVE outbox' \subseteq Keys
      BY <2>3, IsRequest DEF CommitDeleteEvent, Enqueue, TypeOK
    <2>4. ASSUME NEW r \in Removals, CommitRemoval(r) PROVE outbox' \subseteq Keys
      BY <2>4, IsRequest DEF CommitRemoval, Enqueue, TypeOK
    <2>5. ASSUME ReconcileQueue PROVE outbox' \subseteq Keys
      BY <2>5 DEF ReconcileQueue, Enqueue, TypeOK
    <2>6. ASSUME NEW k \in Keys, ProcessDeletion(k) PROVE outbox' \subseteq Keys
      BY <2>6 DEF ProcessDeletion, TypeOK
    <2>7. QED
      BY <2>1, <2>2, <2>3, <2>4, <2>5, <2>6, WhoChangesOutbox DEF TypeOK
  <1>7. pc' \in [Requests -> Stages \union Photos]
    <2> DEFINE Goal == pc' \in [Requests -> Stages \union Photos]
    <2>1. ASSUME NEW r \in Requests, NEW stage \in Stages \union Photos, Goto(r, stage) PROVE Goal
      BY <2>1, GotoEffect
    <2>2. \A r \in Writers \union Removals \union Dropping \union {Backfill, Reconcile} : r \in Requests
      BY IsRequest DEF Dropping
    <2>3. ASSUME NEW r \in Writers, Upload(r)
          PROVE  \E stage \in Stages \union Photos : Goto(r, stage)
      BY <2>3 DEF Upload, Rejected, BeginUpload, BeginSelfie, BeginThumbnail, Store, StoreFails, Commit,
              CommitFails, Refreshed, RefreshFails, Crash, Compensate, Stages, InFlight
    <2>4. ASSUME \/ \E d \in Deletions : BeginDeletion(d)
                 \/ \E r \in Dropping : DeletePhotos(r)
                 \/ BeginDeleteAll \/ DeleteAllEnds \/ BeginDeleteEvent \/ CommitDeleteEvent
                 \/ \E r \in Removals : BeginRemoval(r) \/ CommitRemoval(r)
          PROVE  \E r \in Dropping \union Removals : \E stage \in Stages \union Photos : Goto(r, stage)
      BY <2>4 DEF BeginDeletion, DeletePhotos, BeginDeleteAll, DeleteAllEnds, BeginDeleteEvent,
              CommitDeleteEvent, BeginRemoval, CommitRemoval, Dropping, Stages
    <2>5. ASSUME BeginBackfill \/ ReconcileNext \/ \E p \in Photos : BackfillNext(p)
          PROVE  \E r \in {Backfill, Reconcile} : \E stage \in Stages \union Photos : Goto(r, stage)
      BY <2>5 DEF BeginBackfill, ReconcileNext, ReconcileList, ReconcileCompare, ReconcileQueue,
              ReconcileEnds, BackfillNext, BackfillStore, BackfillCommit, BackfillFails, Leave, Stages
    <2>6. CASE \E r \in Writers : Upload(r)
      BY <2>1, <2>2, <2>3, <2>6
    <2>7. UNCHANGED pc => Goal
      BY DEF TypeOK
    <2>8. QED
      BY <2>1, <2>2, <2>4, <2>5, <2>6, <2>7 DEF Next, vars, Dropping, ProcessDeletion
  <1>8. due' \subseteq Keys
    <2>1. OrphanedSelfies \subseteq Keys
      BY DEF OrphanedSelfies, Keys
    <2>2. due' \in {due, OrphanedSelfies, {}}
      BY WhoReconciles DEF ReconcileNext, ReconcileList, ReconcileCompare, ReconcileQueue,
         ReconcileEnds
    <2>3. QED
      BY <2>1, <2>2 DEF TypeOK
  <1>9. QED
    BY <1>1, <1>2, <1>3, <1>4, <1>5, <1>6, <1>7, <1>8 DEF TypeOK

\* Some consequences of ReadsMakeSense, by the kind of key.
LEMMA ReadKinds ==
  ASSUME ReadsMakeSense
  PROVE  /\ \A p \in Photos : \A r \in Removals \union Thumbnails :
              Original(p) \notin seen[r] /\ Thumbnail(p) \notin seen[r]
         /\ \A p \in Photos : /\ Original(p) \notin seen[Listing] /\ Thumbnail(p) \notin seen[Listing]
                              /\ Original(p) \notin seen[Reconcile] /\ Thumbnail(p) \notin seen[Reconcile]
  <1>1. \A p \in Photos : \A r \in Removals \union Thumbnails :
              Original(p) \notin seen[r] /\ Thumbnail(p) \notin seen[r]
    <2>1. \A p \in Photos : Original(p) # None /\ Thumbnail(p) # None
      BY StorageAssumption DEF Keys
    <2>2. \A r \in Removals \union Thumbnails :
            seen[r] \subseteq {EventThumbnail(t) : t \in Thumbnails} \union {None}
      BY DEF ReadsMakeSense
    <2>3. \A x, t : Original(x) # EventThumbnail(t) /\ Thumbnail(x) # EventThumbnail(t)
      BY KeysDiffer
    <2>4. QED
      BY <2>1, <2>2, <2>3
  <1>2. \A p \in Photos : /\ Original(p) \notin seen[Listing] /\ Thumbnail(p) \notin seen[Listing]
                          /\ Original(p) \notin seen[Reconcile] /\ Thumbnail(p) \notin seen[Reconcile]
    <2>1. seen[Listing] \union seen[Reconcile] \subseteq {Selfie(s) : s \in Selfies}
      BY DEF ReadsMakeSense, SelfieKeys
    <2>2. \A x, s : Original(x) # Selfie(s) /\ Thumbnail(x) # Selfie(s)
      BY KeysDiffer
    <2>3. QED
      BY <2>1, <2>2
  <1>3. QED
    BY <1>1, <1>2

LEMMA BeginDeleteAllReads ==
  ASSUME TypeOK, BeginDeleteAll
  PROVE  seen'[DeleteEvent] \subseteq PhotoKeys
  <1> DEFINE keys == UNION {KeysOf(p) : p \in {q \in Photos : photos[q] # None}}
  <1>1. seen'[DeleteEvent] = keys
    BY IsRequest DEF BeginDeleteAll, Remember, TypeOK
  <1>2. \A p \in Photos : KeysOf(p) \subseteq PhotoKeys
    BY DEF KeysOf, PhotoKeys
  <1>3. QED
    BY <1>1, <1>2

\* Who drops photos has read the keys of photos, both of a photo with two.
LEMMA DroppingReadsStep ==
  ASSUME TypeOK, ReadsMakeSense, PhotoRows, [Next]_vars, NEW d \in Dropping
  PROVE  /\ d \in Deletions \/ pc'[d] = "read" => seen'[d] \subseteq PhotoKeys
         /\ \A p \in Photos :
              /\ Thumbnail(p) \in seen'[d] => Original(p) \in seen'[d]
              /\ p \in Uploads /\ Original(p) \in seen'[d] => Thumbnail(p) \in seen'[d]
  <1>0. /\ d \in Readers /\ d \notin Thumbnails /\ d \notin Removals
        /\ d \in Requests /\ d \notin Writers
        /\ d \in Deletions => d # DeleteEvent
        /\ d \in Deletions \/ d = DeleteEvent
    <2>1. d \in Deletions \/ d = DeleteEvent
      BY DEF Dropping
    <2>2. \A x \in Thumbnails : x \in Writers
      BY DEF Writers
    <2>3. QED
      BY <2>1, <2>2, Kinds, IsRequest DEF Readers
  <1>1. \A p \in Photos : KeysOf(p) \subseteq PhotoKeys
    BY DEF KeysOf, PhotoKeys
  <1>2. seen'[d] = seen[d] \/ Reads(d)
    BY <1>0, ReadsOnce
  <1>3. pc'[d] = pc[d] \/ OtherMoves(d)
    BY <1>0, WhoMoves
  <1>4. d \in Deletions => seen'[d] \subseteq PhotoKeys
    BY <1>0, <1>1, <1>2 DEF ReadsMakeSense, Reads
  <1>5. ASSUME d = DeleteEvent, pc'[d] = "read" PROVE seen'[d] \subseteq PhotoKeys
    <2>1. CASE pc'[d] = pc[d]
      <3>1. seen'[d] = seen[d] \/ seen'[d] = UNION {KeysOf(p) : p \in {x \in Photos : photos[x] # None}}
        BY <1>0, <1>2, <1>5, <2>1 DEF Reads
      <3>2. QED
        BY <1>1, <1>5, <2>1, <3>1 DEF ReadsMakeSense
    <2>2. CASE OtherMoves(d)
      <3>1. BeginDeleteAll
        BY <1>0, <1>5, <2>2 DEF OtherMoves, BeginDeletion, BeginRemoval, CommitRemoval
      <3>2. QED
        BY <1>5, <3>1, BeginDeleteAllReads
    <2>3. QED
      BY <1>3, <2>1, <2>2
  <1>6. ASSUME NEW p \in Photos
        PROVE  /\ Thumbnail(p) \in seen'[d] => Original(p) \in seen'[d]
               /\ p \in Uploads /\ Original(p) \in seen'[d] => Thumbnail(p) \in seen'[d]
    <2> DEFINE Goal == /\ Thumbnail(p) \in seen'[d] => Original(p) \in seen'[d]
                       /\ p \in Uploads /\ Original(p) \in seen'[d] => Thumbnail(p) \in seen'[d]
    <2>1. CASE seen'[d] = seen[d]
      BY <2>1 DEF ReadsMakeSense
    <2>2. ASSUME NEW q \in Photos, photos[q] # None
          PROVE  /\ Thumbnail(p) \in KeysOf(q) => p = q /\ Original(p) \in KeysOf(q)
                 /\ p \in Uploads /\ Original(p) \in KeysOf(q) => p = q /\ Thumbnail(p) \in KeysOf(q)
      BY <2>2, KeysOfPhoto, KeysDiffer DEF PhotoRows
    <2>3. ASSUME NEW q \in Photos, photos[q] # None, seen'[d] = KeysOf(q) PROVE Goal
      BY <2>2, <2>3
    <2>4. CASE seen'[d] = UNION {KeysOf(q) : q \in {x \in Photos : photos[x] # None}}
      BY <2>2, <2>4
    <2>5. CASE /\ event # Deleted
               /\ seen'[d] = seen[d] \union {Selfie(s) : s \in selfies} \union ({event} \ {None})
      <3>1. /\ Original(p) \in seen'[d] <=> Original(p) \in seen[d]
            /\ Thumbnail(p) \in seen'[d] <=> Thumbnail(p) \in seen[d]
        BY <2>5, KeysDiffer DEF TypeOK
      <3>2. QED
        BY <3>1 DEF ReadsMakeSense
    <2>6. QED
      BY <1>0, <1>2, <2>1, <2>3, <2>4, <2>5 DEF Reads
  <1>7. QED
    BY <1>0, <1>4, <1>5, <1>6

LEMMA ReadsMakeSenseStep ==
  ASSUME TypeOK, ReadsMakeSense, PhotoRows, [Next]_vars
  PROVE  ReadsMakeSense'
  <1>1. ASSUME NEW d \in Dropping
        PROVE  /\ d \in Deletions \/ pc'[d] = "read" => seen'[d] \subseteq PhotoKeys
               /\ \A p \in Photos :
                    /\ Thumbnail(p) \in seen'[d] => Original(p) \in seen'[d]
                    /\ p \in Uploads /\ Original(p) \in seen'[d] => Thumbnail(p) \in seen'[d]
    BY DroppingReadsStep
  <1>2. ASSUME NEW r \in Removals \union Thumbnails
        PROVE  seen'[r] \subseteq {EventThumbnail(t) : t \in Thumbnails} \union {None}
    <2>1. r \in Readers /\ r \notin Deletions /\ r # DeleteEvent
      BY Kinds DEF Readers, Writers
    <2>2. seen'[r] = seen[r] \/ Reads(r)
      BY <2>1, ReadsOnce
    <2>3. QED
      BY <2>1, <2>2 DEF Reads, ReadsMakeSense, TypeOK
  <1>3. seen'[Listing] \union seen'[Reconcile] \subseteq SelfieKeys
    <2>1. \A k \in Keys : IsSensitiveTemporaryKey(k) => k \in SelfieKeys
      BY KeyKinds DEF Keys, SelfieKeys
    <2>2. QED
      BY <2>1, ReconcileReads DEF ReadsMakeSense, TypeOK
  <1>4. ASSUME NEW p \in Uploads
        PROVE  Original(p) \notin seen'[Backfill] /\ Thumbnail(p) \notin seen'[Backfill]
    <2>1. p \in Photos
      BY DEF Photos
    <2>2. /\ Original(p) \notin seen[Backfill] /\ Thumbnail(p) \notin seen[Backfill]
          /\ photos[p] # None => photos[p].thumbnail
      BY <2>1 DEF ReadsMakeSense, PhotoRows
    <2>3. ~BackfillStore(p)
      BY <2>2 DEF BackfillStore, Pending
    <2>4. QED
      BY <2>1, <2>2, <2>3, BackfillReads
  <1>5. QED
    BY <1>1, <1>2, <1>3, <1>4 DEF ReadsMakeSense

LEMMA OwnKeyIsKey ==
  ASSUME NEW w \in Writers, NEW k \in OwnKeys(w)
  PROVE  /\ k \in Keys /\ k # None
         /\ \A p \in Legacy : k # Original(p) /\ k # Thumbnail(p)
  <1>1. k \in Keys /\ k # None
    BY OwnKeysAreKeys, StorageAssumption
  <1>2. \A p \in Legacy : k # Original(p) /\ k # Thumbnail(p)
    BY OwnKeysOf, KeysDiffer, Kinds DEF Writers
  <1>3. QED
    BY <1>1, <1>2

\* What FreshKeys says of one key of one upload.
LEMMA FreshKey ==
  ASSUME FreshKeys, NEW w \in Writers, pc[w] \notin Committed, NEW k \in OwnKeys(w)
  PROVE  /\ k \notin Referenced
         /\ \A q \in Readers : k \notin seen[q]
         /\ k \in outbox => k \in seen[Reconcile]
  BY DEF FreshKeys

LEMMA FreshKeysStep ==
  ASSUME TypeOK, ReadsMakeSense, FreshKeys, [Next]_vars
  PROVE  FreshKeys'
  <1> SUFFICES ASSUME NEW w \in Writers, pc'[w] \notin Committed, NEW k \in OwnKeys(w)
               PROVE  /\ (k \notin Referenced)'
                      /\ \A q \in Readers : k \notin seen'[q]
                      /\ k \in outbox' => k \in seen'[Reconcile]
    BY DEF FreshKeys
  <1>1. pc[w] \notin Committed /\ ~Commit(w)
    <2>1. ASSUME Commit(w) PROVE pc'[w] \in Committed
      BY <2>1, IsRequest DEF Commit, Goto, TypeOK, Committed
    <2>2. QED
      BY <2>1, CommittedStays
  <1>2. /\ k \notin Referenced
        /\ \A q \in Readers : k \notin seen[q]
        /\ k \in outbox => k \in seen[Reconcile]
    BY <1>1, FreshKey
  <1>3. k \in Keys /\ k # None /\ \A p \in Legacy : k # Original(p) /\ k # Thumbnail(p)
    BY OwnKeyIsKey
  <1>4. (k \notin Referenced)'
    <2>1. ASSUME NEW r \in Writers, Commit(r), k \in OwnKeys(r) PROVE FALSE
      BY <1>1, <2>1, OwnKeysDiffer
    <2>2. ASSUME NEW p \in Photos, BackfillCommit(p), k = Thumbnail(p) PROVE FALSE
      <3>1. Original(p) \in seen[Backfill]
        BY <2>2, BackfillCommitRows
      <3>2. p \in Legacy
        BY <3>1 DEF ReadsMakeSense, Photos
      <3>3. QED
        BY <1>3, <2>2, <3>2
    <2>3. QED
      BY <1>2, <2>1, <2>2, NewReference
  <1>5. ASSUME NEW q \in Readers PROVE k \notin seen'[q]
    BY <1>2, <1>3, NewReading
  <1>6. ASSUME k \in outbox' PROVE k \in seen'[Reconcile]
    <2>1. CASE k \in outbox
      BY <1>2, <2>1, ReconcileReads
    <2>2. CASE k \notin outbox
      <3>1. ~CommitDeleteEvent \/ k \in seen[DeleteEvent]
        BY <1>6, <2>2 DEF CommitDeleteEvent, Enqueue
      <3>2. ReconcileQueue /\ k \in seen[Listing]
        BY <1>2, <1>6, <2>2, <3>1, NewTask DEF Readers, Dropping
      <3>3. QED
        BY <3>2, ReconcileReads
    <2>3. QED
      BY <2>1, <2>2
  <1>7. QED
    BY <1>4, <1>5, <1>6

LEMMA UploadsStoreStep ==
  ASSUME TypeOK, ReadsMakeSense, FreshKeys, UploadsStore, [Next]_vars
  PROVE  UploadsStore'
  <1> DEFINE Before == {"off", "idle", "reused", "refused"}
             All == {"off", "idle", "reused", "refused", "uncompensated", "crashed"}
                    \union Committed \union InFlight
  <1> SUFFICES ASSUME NEW w \in Writers
               PROVE  /\ pc'[w] \in All
                      /\ pc'[w] = "committing" => OwnKeys(w) \subseteq bucket' \union seen'[Reconcile]
                      /\ pc'[w] \in Before \/ (pc'[w] = "storing" /\ w \notin Uploads) =>
                           OwnKeys(w) \intersect bucket' = {}
    BY DEF UploadsStore
  <1>1. /\ pc[w] \in All
        /\ pc[w] = "committing" => OwnKeys(w) \subseteq bucket \union seen[Reconcile]
        /\ pc[w] \in Before \/ (pc[w] = "storing" /\ w \notin Uploads) =>
             OwnKeys(w) \intersect bucket = {}
    BY DEF UploadsStore
  <1>2. pc'[w] = pc[w] \/ (Upload(w) /\ UploadMoves(w))
    BY WriterMoves
  <1>3. pc'[w] \in All
    BY <1>1, <1>2 DEF UploadMoves, Committed, InFlight
  <1>4. ASSUME pc'[w] = "committing"
        PROVE  OwnKeys(w) \subseteq bucket' \union seen'[Reconcile]
    <2>1. CASE pc[w] = "committing"
      <3>1. SUFFICES ASSUME NEW k \in OwnKeys(w), k \notin seen'[Reconcile] PROVE k \in bucket'
        OBVIOUS
      <3>2. k \notin seen[Reconcile] /\ k \in bucket
        BY <1>1, <2>1, <3>1, ReconcileReads
      <3>3. k \notin outbox
        BY <2>1, <3>2, FreshKey DEF Committed
      <3>4. ASSUME NEW r \in Writers, k \in OwnKeys(r),
                   pc'[r] \in {"refused", "uncompensated", "revoked"}
            PROVE  FALSE
        BY <1>4, <3>4, OwnKeysDiffer
      <3>5. QED
        BY <3>2, <3>3, <3>4, LostObject
    <2>2. CASE pc[w] # "committing"
      <3>1. Store(w)
        BY <1>2, <1>4, <2>2 DEF UploadMoves
      <3>2. QED
        BY <1>4, <3>1, StoreEffect
    <2>3. QED
      BY <2>1, <2>2
  <1>5. ASSUME pc'[w] \in Before \/ (pc'[w] = "storing" /\ w \notin Uploads),
               NEW k \in OwnKeys(w), k \in bucket'
        PROVE  FALSE
    <2>1. ~Store(w)
      <3>1. ASSUME Store(w), w \notin Uploads PROVE FALSE
        <4>1. OwnKeys(w) \subseteq bucket'
          BY <3>1, StoreEffect, OwnKeysOf DEF Writers
        <4>2. QED
          BY <1>5, <3>1, <4>1, StoreEffect
      <3>2. ASSUME Store(w), w \in Uploads PROVE FALSE
        BY <1>5, <3>2, StoreEffect
      <3>3. QED
        BY <3>1, <3>2
    <2>2. ASSUME StoreFails(w) PROVE FALSE
      <3>1. pc[w] = "storing" /\ pc'[w] = "refused"
        BY <1>1, <1>2, <1>5, <2>2, StoreFailsEffect, IsRequest
           DEF StoreFails, Compensate, Goto, TypeOK
      <3>2. QED
        BY <1>1, <1>5, <2>2, <3>1, StoreFailsEffect
    <2>3. k \in bucket
      <3>1. ASSUME NEW p \in Photos, BackfillStore(p), k = Thumbnail(p) PROVE FALSE
        <4>1. p \in Legacy
          BY <3>1, BackfillStoreEffect DEF ReadsMakeSense, Photos
        <4>2. QED
          BY <3>1, <4>1, OwnKeyIsKey
      <3>2. ASSUME NEW r \in Writers, k \in OwnKeys(r), Store(r) \/ StoreFails(r) PROVE FALSE
        BY <2>1, <2>2, <3>2, OwnKeysDiffer
      <3>3. QED
        BY <1>5, <3>1, <3>2, NewObject
    <2>4. CASE pc'[w] = pc[w]
      BY <1>1, <1>5, <2>3, <2>4
    <2>5. CASE UploadMoves(w)
      <3>1. ASSUME CommitFails(w) PROVE FALSE
        <4>1. Compensate(w, "refused")
          BY <3>1 DEF CommitFails
        <4>2. pc'[w] = "refused"
          BY <1>5, <4>1, CompensateEffect
        <4>3. QED
          BY <1>5, <4>1, <4>2, CompensateEffect
      <3>2. pc[w] = "idle"
        BY <1>5, <2>1, <2>2, <2>5, <3>1 DEF UploadMoves
      <3>3. QED
        BY <1>1, <2>3, <3>2
    <2>6. QED
      BY <1>2, <2>4, <2>5
  <1>6. QED
    BY <1>3, <1>4, <1>5

\* A key of a photo is queued by a request that drops the photo.
LEMMA NewPhotoTask ==
  ASSUME TypeOK, ReadsMakeSense, [Next]_vars, NEW p \in Photos,
         NEW k \in {Original(p), Thumbnail(p)}, k \notin outbox, k \in outbox'
  PROVE  \/ photos'[p] = None
         \/ CommitDeleteEvent
  <1>1. ASSUME NEW d \in Dropping, DeletePhotos(d), k \in seen[d] PROVE photos'[p] = None
    <2>1. Original(p) \in seen[d]
      BY <1>1 DEF ReadsMakeSense
    <2>2. QED
      BY <1>1, <2>1, DeletePhotosRows
  <1>2. /\ \A r \in Removals \union Thumbnails : k \notin seen[r]
        /\ k \notin seen[Listing]
    BY ReadKinds
  <1>3. QED
    BY <1>1, <1>2, NewTask

\* A photo that stays loses no object to a task, and to no upload but its own.
LEMMA PhotoRowsStep ==
  ASSUME TypeOK, ReadsMakeSense, FreshKeys, PhotoRows, BackfillHolds, [Next]_vars
  PROVE  PhotoRows'
  <1> SUFFICES ASSUME NEW p \in Photos, photos'[p] # None
               PROVE  /\ Original(p) \notin outbox' /\ Thumbnail(p) \notin outbox'
                      /\ p \in Uploads => photos'[p].thumbnail
                      /\ p \in Legacy /\ photos'[p].thumbnail => Thumbnail(p) \in seen'[Backfill]
                      /\ ~photos'[p].thumbnail => \A d \in Dropping : Thumbnail(p) \notin seen'[d]
    BY DEF PhotoRows
  <1>1. photos[p] # None =>
          /\ Original(p) \notin outbox /\ Thumbnail(p) \notin outbox
          /\ p \in Uploads => photos[p].thumbnail
          /\ p \in Legacy /\ photos[p].thumbnail => Thumbnail(p) \in seen[Backfill]
          /\ ~photos[p].thumbnail => \A d \in Dropping : Thumbnail(p) \notin seen[d]
    BY DEF PhotoRows
  <1>2. /\ Thumbnail(p) \in seen[Backfill] => Thumbnail(p) \in seen'[Backfill]
        /\ BackfillCommit(p) => Thumbnail(p) \in seen[Backfill]
    BY BackfillReads, BackfillCommitRows DEF BackfillHolds
  <1>3. CASE photos[p] = None
    <2>1. p \in Uploads /\ Commit(p) /\ photos'[p].thumbnail /\ UNCHANGED outbox
      BY <1>3, NewPhotoRow
    <2>2. p \in Writers /\ pc[p] \notin Committed /\ OwnKeys(p) = {Original(p), Thumbnail(p)}
      BY <2>1, OwnKeysOf DEF Writers, Commit, Committed
    <2>3. Original(p) \notin outbox /\ Thumbnail(p) \notin outbox
      BY <2>2, FreshKey, ReadKinds
    <2>4. QED
      BY <2>1, <2>3, Kinds
  <1>4. CASE photos[p] # None
    <2>1. Original(p) \notin outbox' /\ Thumbnail(p) \notin outbox'
      <3>1. ~CommitDeleteEvent
        BY DEF CommitDeleteEvent
      <3>2. QED
        BY <1>1, <1>4, <3>1, NewPhotoTask
    <2>2. \/ photos'[p] = photos[p]
          \/ BackfillCommit(p)
          \/ p \in Uploads /\ photos'[p].thumbnail
      BY <1>4, OldPhotoRow
    <2>3. CASE photos'[p] = photos[p]
      <3>1. ASSUME ~photos[p].thumbnail, NEW d \in Dropping, Thumbnail(p) \in seen'[d] PROVE FALSE
        <4>1. d \in Readers /\ Thumbnail(p) \notin seen[d]
          BY <1>1, <1>4, <3>1 DEF Readers
        <4>2. Thumbnail(p) \notin Referenced
          BY <3>1, PhotoKeyReferenced
        <4>3. Thumbnail(p) # None
          BY StorageAssumption DEF Keys
        <4>4. QED
          BY <3>1, <4>1, <4>2, <4>3, NewReading
      <3>2. QED
        BY <1>1, <1>2, <1>4, <2>1, <2>3, <3>1
    <2>4. CASE BackfillCommit(p)
      <3>1. photos'[p].thumbnail
        BY <2>4, BackfillCommitRows
      <3>2. QED
        BY <1>2, <2>1, <2>4, <3>1
    <2>5. CASE p \in Uploads /\ photos'[p].thumbnail
      BY <2>1, <2>5, Kinds
    <2>6. QED
      BY <2>2, <2>3, <2>4, <2>5
  <1>5. QED
    BY <1>3, <1>4

LEMMA BackfillHoldsStep ==
  ASSUME TypeOK, ReadsMakeSense, PhotoRows, BackfillHolds, [Next]_vars
  PROVE  BackfillHolds'
  <1> SUFFICES ASSUME NEW p \in Photos
               PROVE  /\ Thumbnail(p) \in seen'[Backfill] /\ photos'[p] # None => Thumbnail(p) \in bucket'
                      /\ p \in Legacy /\ Thumbnail(p) \in bucket' => Thumbnail(p) \in seen'[Backfill]
                      /\ Original(p) \in seen'[Backfill] =>
                           /\ photos'[p] # None => ~photos'[p].thumbnail
                           /\ \A d \in Dropping : Thumbnail(p) \notin seen'[d]
                      /\ pc'[Backfill] = p => Thumbnail(p) \in seen'[Backfill]
    BY DEF BackfillHolds
  <1>1. /\ Thumbnail(p) \in seen[Backfill] /\ photos[p] # None => Thumbnail(p) \in bucket
        /\ p \in Legacy /\ Thumbnail(p) \in bucket => Thumbnail(p) \in seen[Backfill]
        /\ Original(p) \in seen[Backfill] =>
             /\ photos[p] # None => ~photos[p].thumbnail
             /\ \A d \in Dropping : Thumbnail(p) \notin seen[d]
        /\ pc[Backfill] = p => Thumbnail(p) \in seen[Backfill]
    BY DEF BackfillHolds
  <1>2. p \in Uploads =>
          /\ Original(p) \notin seen[Backfill] /\ Thumbnail(p) \notin seen[Backfill]
          /\ Original(p) \notin seen'[Backfill] /\ Thumbnail(p) \notin seen'[Backfill]
    BY ReadsMakeSenseStep DEF ReadsMakeSense
  <1>3. p \in Legacy => \A r \in Writers : Original(p) \notin OwnKeys(r) /\ Thumbnail(p) \notin OwnKeys(r)
    BY OwnKeyIsKey
  <1>4. p \in Uploads \/ p \in Legacy
    BY DEF Photos
  <1>5. /\ Thumbnail(p) \in seen[Backfill] => Thumbnail(p) \in seen'[Backfill]
        /\ Thumbnail(p) \in seen'[Backfill] => Thumbnail(p) \in seen[Backfill] \/ BackfillStore(p)
        /\ pc'[Backfill] = p => pc[Backfill] = p \/ BackfillStore(p)
    BY BackfillReads
  <1>6. BackfillStore(p) => Thumbnail(p) \in bucket' /\ Thumbnail(p) \in seen'[Backfill]
    BY BackfillStoreEffect
  <1>7. ASSUME Thumbnail(p) \in seen'[Backfill], photos'[p] # None PROVE Thumbnail(p) \in bucket'
    <2>1. CASE BackfillStore(p)
      BY <1>6, <2>1
    <2>2. CASE ~BackfillStore(p)
      <3>1. Thumbnail(p) \in seen[Backfill] /\ p \in Legacy
        BY <1>2, <1>4, <1>5, <1>7, <2>2
      <3>2. photos[p] # None
        BY <1>7, <3>1, NewPhotoRow, Kinds
      <3>3. Thumbnail(p) \in bucket /\ Thumbnail(p) \notin outbox
        BY <1>1, <3>1, <3>2 DEF PhotoRows
      <3>4. QED
        BY <1>3, <3>1, <3>3, LostObject
    <2>3. QED
      BY <2>1, <2>2
  <1>8. ASSUME p \in Legacy, Thumbnail(p) \in bucket' PROVE Thumbnail(p) \in seen'[Backfill]
    <2>1. CASE Thumbnail(p) \in bucket
      BY <1>1, <1>5, <1>8, <2>1
    <2>2. CASE Thumbnail(p) \notin bucket
      BY <1>3, <1>6, <1>8, <2>2, NewObject, KeysDiffer
    <2>3. QED
      BY <2>1, <2>2
  <1>9. ASSUME Original(p) \in seen'[Backfill]
        PROVE  /\ photos'[p] # None => ~photos'[p].thumbnail
               /\ \A d \in Dropping : Thumbnail(p) \notin seen'[d]
    <2>0. p \in Legacy /\ p \notin Uploads
      BY <1>2, <1>4, <1>9
    <2>1. CASE Original(p) \in seen[Backfill] /\ ~BackfillCommit(p)
      <3>1. /\ photos[p] # None => ~photos[p].thumbnail
            /\ \A d \in Dropping : Thumbnail(p) \notin seen[d]
        BY <1>1, <2>1
      <3>2. ASSUME photos'[p] # None PROVE ~photos'[p].thumbnail
        BY <2>0, <2>1, <3>1, <3>2, NewPhotoRow, OldPhotoRow
      <3>3. ASSUME NEW d \in Dropping, Thumbnail(p) \in seen'[d] PROVE FALSE
        <4>1. Thumbnail(p) \notin Referenced
          BY <3>1, PhotoKeyReferenced
        <4>2. Thumbnail(p) # None
          BY StorageAssumption DEF Keys
        <4>3. d \in Readers /\ Thumbnail(p) \notin seen[d]
          BY <3>1 DEF Readers
        <4>4. QED
          BY <3>3, <4>1, <4>2, <4>3, NewReading
      <3>4. QED
        BY <3>2, <3>3
    <2>2. CASE /\ photos[p] # None /\ ~photos[p].thumbnail /\ UNCHANGED photos
               /\ \A q \in Requests \union {Listing} : q # Backfill => seen'[q] = seen[q]
      <3>1. \A d \in Dropping : d \in Requests /\ d # Backfill
        BY IsRequest, Kinds DEF Dropping
      <3>2. QED
        BY <2>2, <3>1 DEF PhotoRows
    <2>3. QED
      BY <1>9, <2>1, <2>2, BackfillReads
  <1>10. pc'[Backfill] = p => Thumbnail(p) \in seen'[Backfill]
    BY <1>1, <1>5, <1>6
  <1>11. QED
    BY <1>7, <1>8, <1>9, <1>10

\* A request that has dropped what it read.
Settled(q, k) ==
  \/ pc[q] \in {"queued", "done", "refreshing", "accepted", "revoked"}
  \/ pc[q] = "event_read" /\ k \in PhotoKeys

LEMMA UnreadSettled == \A k : Unread(k) <=> \A q \in Readers : k \in seen[q] => ~Settled(q, k)
  BY DEF Unread, Settled, Readers, Dropping

\* The step with which a request drops what it read queues it.
LEMMA Settling ==
  ASSUME TypeOK, [Next]_vars, NEW q \in Readers, NEW k \in Keys,
         k \in seen[q], k \in seen'[q], ~Settled(q, k), Settled(q, k)'
  PROVE  k \in outbox'
  <1>0. k # None
    BY StorageAssumption
  <1>1. pc'[q] # pc[q]
    BY DEF Settled
  <1>2. pc'[q] \in {"queued", "done", "refreshing", "accepted", "revoked", "event_read"}
    BY DEF Settled
  <1>3. CASE q \in Thumbnails
    <2>1. q \in Writers
      BY <1>3 DEF Writers
    <2>2. UploadMoves(q)
      BY <1>1, <2>1, WriterMoves
    <2>3. Commit(q)
      BY <1>2, <2>2 DEF UploadMoves, Settled
    <2>4. outbox' = outbox \union (seen[q] \ {None})
      BY <1>3, <2>1, <2>3, CommitKinds, Kinds
    <2>5. QED
      BY <1>0, <2>4
  <1>4. CASE q \in Dropping \union Removals
    <2>1. q \in Requests /\ q \notin Writers
      BY <1>4, IsRequest, Kinds DEF Dropping
    <2>2. OtherMoves(q)
      BY <1>1, <1>4, <2>1, WhoMoves
    <2>3. ASSUME BeginDeletion(q) \/ BeginDeleteAll, pc'[q] = "done"
          PROVE  FALSE
      <3>1. (q \in Deletions /\ Goto(q, "read")) \/ Goto(DeleteEvent, "read")
        BY <2>3 DEF BeginDeletion, BeginDeleteAll
      <3>2. pc'[q] = "read" \/ pc'[q] = pc[q]
        BY <2>1, <3>1, IsRequest DEF Goto, TypeOK
      <3>3. QED
        BY <1>1, <2>3, <3>2
    <2>4. ASSUME BeginRemoval(q), pc'[q] = "done" PROVE FALSE
      <3>1. /\ seen'[q] = {event} \ {None}
            /\ pc' = [pc EXCEPT ![q] = IF event = None THEN "done" ELSE "read"]
        BY <2>1, <2>4 DEF BeginRemoval, Remember, Goto, TypeOK
      <3>2. event # None
        BY <3>1
      <3>3. pc'[q] = "read"
        BY <2>1, <3>1, <3>2 DEF TypeOK
      <3>4. QED
        BY <2>4, <3>3
    <2>5. ASSUME DeletePhotos(q) PROVE k \in outbox'
      BY <1>0, <2>5 DEF DeletePhotos, Enqueue
    <2>6. ASSUME CommitRemoval(q), pc'[q] = "done" PROVE k \in outbox'
      <3>1. \/ Enqueue(seen[q])
            \/ pc' = [pc EXCEPT ![q] = "refused"]
        BY <2>6 DEF CommitRemoval, Goto
      <3>2. QED
        BY <1>0, <2>1, <2>6, <3>1 DEF Enqueue, TypeOK
    <2>7. ASSUME q = DeleteEvent, CommitDeleteEvent, pc[q] = "event_read" PROVE k \in outbox'
      <3>1. k \notin PhotoKeys
        BY <2>7 DEF Settled
      <3>2. k[1] \in {"face-search", "event-thumbnails"}
        BY <3>1, KeyKinds DEF Keys, PhotoKeys
      <3>3. QED
        BY <1>0, <2>7, <3>2 DEF CommitDeleteEvent, Enqueue
    <2>8. QED
      BY <1>2, <2>2, <2>3, <2>4, <2>5, <2>6, <2>7 DEF OtherMoves, Settled
  <1>5. QED
    BY <1>3, <1>4 DEF Readers

LEMMA ReadIsQueuedStep ==
  ASSUME TypeOK, ReadsMakeSense, FreshKeys, BackfillHolds, ReadIsQueued, [Next]_vars
  PROVE  ReadIsQueued'
  <1> SUFFICES ASSUME NEW k, k \in bucket', k \notin outbox', NEW q \in Readers,
                      k \in seen'[q], Settled(q, k)'
               PROVE  FALSE
    <2>1. \A k : Unread(k)' <=> \A q \in Readers : k \in seen'[q] => ~Settled(q, k)'
      BY DEF Unread, Settled, Readers, Dropping
    <2>2. QED
      BY <2>1 DEF ReadIsQueued
  <1>0. k \in Keys /\ k # None
    BY TypesStep, StorageAssumption DEF TypeOK
  <1>1. k \in seen[q]
    <2>1. ASSUME k \notin seen[q] PROVE FALSE
      <3>1. pc'[q] \in {"read", "storing"} \/ (pc'[q] = "event_read" /\ k \notin PhotoKeys)
        BY <2>1, NewReading
      <3>2. QED
        BY <3>1 DEF Settled
    <2>2. QED
      BY <2>1
  <1>2. k \notin outbox
    BY TaskDone
  <1>3. CASE k \in bucket
    <2>1. ~Settled(q, k)
      BY <1>1, <1>2, <1>3, UnreadSettled DEF ReadIsQueued
    <2>2. QED
      BY <1>0, <1>1, <2>1, Settling
  <1>4. CASE k \notin bucket
    <2>1. ASSUME NEW r \in Writers, k \in OwnKeys(r), pc[r] = "storing" PROVE FALSE
      BY <1>1, <2>1, FreshKey DEF Committed
    <2>2. ASSUME NEW p \in Photos, BackfillStore(p), k = Thumbnail(p) PROVE FALSE
      <3>1. Original(p) \in seen[Backfill]
        BY <2>2, BackfillStoreEffect
      <3>2. \A d \in Dropping : k \notin seen[d]
        BY <2>2, <3>1 DEF BackfillHolds
      <3>3. \A r \in Removals \union Thumbnails : k \notin seen[r]
        BY <2>2, ReadKinds
      <3>4. QED
        BY <1>1, <3>2, <3>3 DEF Readers
    <2>3. QED
      BY <1>4, <2>1, <2>2, NewObject
  <1>5. QED
    BY <1>3, <1>4

LEMMA GoneIsQueuedStep ==
  ASSUME TypeOK, ReadsMakeSense, UploadsStore, GoneIsQueued, [Next]_vars
  PROVE  GoneIsQueued'
  <1> SUFFICES ASSUME NEW p \in Photos, event' # Deleted, photos'[p] = None,
                      p \in Uploads => pc'[p] \in Committed,
                      NEW k \in {Original(p), Thumbnail(p)}, k = Original(p) \/ p \in Uploads,
                      k \in bucket', k \notin outbox'
               PROVE  FALSE
    BY DEF GoneIsQueued, Exists
  <1>1. event # Deleted
    BY EventStaysDeleted
  <1>2. ASSUME NEW d \in Dropping, DeletePhotos(d), Original(p) \in seen[d] PROVE FALSE
    <2>1. k \in seen[d] /\ k # None
      BY <1>2, StorageAssumption DEF ReadsMakeSense, Keys
    <2>2. QED
      BY <1>2, <2>1, DeletePhotosRows
  <1>3. photos[p] = None
    BY <1>2, DroppedPhotoRow
  <1>4. p \in Uploads => pc[p] \in Committed
    <2>1. ASSUME p \in Uploads, Commit(p) PROVE FALSE
      <3>1. p \in Writers /\ photos'[p] # None
        BY <2>1, CommitKinds, Kinds DEF Writers
      <3>2. QED
        BY <3>1
    <2>2. p \in Uploads => p \in Writers
      BY DEF Writers
    <2>3. QED
      BY <2>1, <2>2, CommittedStays
  <1>5. k \notin bucket \/ k \in outbox
    BY <1>1, <1>3, <1>4 DEF GoneIsQueued, Exists
  <1>6. k \notin bucket
    BY <1>5, TaskDone
  <1>7. ASSUME NEW r \in Writers, k \in OwnKeys(r), pc[r] = "storing" PROVE FALSE
    <2>1. CASE p \in Uploads
      <3>1. p \in Writers /\ k \in OwnKeys(p)
        BY <2>1, OwnKeysOf DEF Writers
      <3>2. r = p
        BY <1>7, <3>1, OwnKeysDiffer
      <3>3. QED
        BY <1>4, <1>7, <2>1, <3>2 DEF Committed
    <2>2. CASE p \in Legacy
      BY <1>7, <2>2, OwnKeyIsKey
    <2>3. QED
      BY <2>1, <2>2 DEF Photos
  <1>8. ASSUME NEW q \in Photos, BackfillStore(q), k = Thumbnail(q) PROVE FALSE
    <2>1. p \in Uploads /\ q = p
      BY <1>8, KeysDiffer
    <2>2. QED
      BY <1>8, <2>1, BackfillStoreEffect DEF ReadsMakeSense
  <1>9. QED
    BY <1>6, <1>7, <1>8, NewObject

\* The one hard part of ReferencedIsKept: no task is queued for a key that a
\* row refers to before and after the step, but by the reconciliation.
LEMMA NoTaskForReferenced ==
  ASSUME TypeOK, ReadsMakeSense, FreshKeys, [Next]_vars,
         NEW k \in Referenced, (k \in Referenced)', k \notin outbox, k \in outbox'
  PROVE  k \in seen'[Reconcile]
  <1>1. RefersTo(k)'
    BY ReferencedKinds2
  <1>2. ASSUME NEW d \in Dropping, DeletePhotos(d), k \in seen[d] PROVE FALSE
    <2>1. pc[d] = "read"
      BY <1>2, DeletePhotosRows
    <2>2. k \in PhotoKeys
      BY <1>2, <2>1 DEF ReadsMakeSense
    <2>3. PICK p \in Photos : k = Original(p) \/ k = Thumbnail(p)
      BY <2>2 DEF PhotoKeys
    <2>4. Original(p) \in seen[d]
      BY <1>2, <2>3 DEF ReadsMakeSense
    <2>5. photos'[p] = None
      BY <1>2, <2>4, DeletePhotosRows
    <2>6. event' \notin {None, Deleted} => \E t \in Thumbnails : event' = EventThumbnail(t)
      BY TypesStep DEF TypeOK
    <2>7. \E q \in Photos : (k = Original(q) \/ k = Thumbnail(q)) /\ photos'[q] # None
      BY <1>1, <2>3, <2>6, KeysDiffer DEF RefersTo
    <2>8. QED
      BY <2>3, <2>5, <2>7, KeysDiffer
  <1>3. ASSUME NEW t \in Thumbnails, Commit(t), k \in seen[t] PROVE FALSE
    <2>1. t \in Writers /\ t \in Readers /\ pc[t] = "committing"
      BY <1>3 DEF Writers, Readers, Commit
    <2>2. EventThumbnail(t) \notin seen[t]
      BY <2>1, FreshKey, OwnKeysOf DEF Committed
    <2>3. k \in {EventThumbnail(x) : x \in Thumbnails} \union {None}
      BY <1>3 DEF ReadsMakeSense
    <2>4. event' = EventThumbnail(t)
      BY <1>3, <2>1, CommitKinds, Kinds
    <2>5. k # None
      BY ReferencedKinds, StorageAssumption DEF RefersTo, Keys, TypeOK
    <2>6. k = event'
      BY <1>1, <2>3, <2>5, KeysDiffer DEF RefersTo
    <2>7. QED
      BY <1>3, <2>2, <2>4, <2>6
  <1>4. ASSUME NEW r \in Removals, CommitRemoval(r), event' = None, k \in seen[r] PROVE FALSE
    <2>1. k \in {EventThumbnail(x) : x \in Thumbnails} \union {None}
      BY <1>4 DEF ReadsMakeSense
    <2>2. k # None
      BY ReferencedKinds, StorageAssumption DEF RefersTo, Keys, TypeOK
    <2>3. QED
      BY <1>1, <1>4, <2>1, <2>2, KeysDiffer DEF RefersTo
  <1>5. ASSUME CommitDeleteEvent PROVE FALSE
    BY <1>1, <1>5 DEF RefersTo, CommitDeleteEvent
  <1>6. QED
    BY <1>2, <1>3, <1>4, <1>5, NewTask, ReconcileReads

LEMMA ReferencedIsKeptStep ==
  ASSUME IInv, [Next]_vars
  PROVE  ReferencedIsKept'
  <1>0. /\ TypeOK /\ ReadsMakeSense /\ FreshKeys /\ UploadsStore /\ PhotoRows
        /\ BackfillHolds /\ ReferencedIsKept
    BY DEF IInv
  <1> SUFFICES ASSUME NEW k, (k \in Referenced)'
               PROVE  \/ k \in bucket' /\ k \notin outbox'
                      \/ \E r \in Writers : k \in OwnKeys(r) /\ pc'[r] = "revoked"
                      \/ k \in seen'[Reconcile]
    BY DEF ReferencedIsKept
  <1>1. seen[Reconcile] \subseteq seen'[Reconcile]
    BY <1>0, ReconcileReads
  <1>2. CASE k \notin Referenced
    <2>1. ASSUME NEW r \in Writers, Commit(r), k \in OwnKeys(r)
          PROVE  k \in seen'[Reconcile] \/ (k \in bucket' /\ k \notin outbox')
      <3>1. pc[r] = "committing" /\ UNCHANGED bucket
        BY <2>1 DEF Commit
      <3>2. k \in bucket \/ k \in seen[Reconcile]
        BY <1>0, <2>1, <3>1 DEF UploadsStore
      <3>3. /\ \A q \in Readers : k \notin seen[q]
            /\ k \in outbox => k \in seen[Reconcile]
        BY <1>0, <2>1, <3>1, FreshKey DEF Committed
      <3>4. r \in Thumbnails => r \in Readers
        BY DEF Readers
      <3>5. outbox' = outbox \/ (r \in Readers /\ outbox' = outbox \union (seen[r] \ {None}))
        BY <1>0, <2>1, <3>4, CommitKinds
      <3>6. QED
        BY <1>1, <3>1, <3>2, <3>3, <3>5
    <2>2. ASSUME NEW p \in Photos, BackfillCommit(p), k = Thumbnail(p)
          PROVE  k \in bucket' /\ k \notin outbox'
      BY <1>0, <2>2, BackfillCommitRows DEF BackfillHolds, PhotoRows
    <2>3. QED
      BY <1>0, <1>2, <2>1, <2>2, NewReference
  <1>3. CASE k \in Referenced
    <2>1. CASE k \in bucket /\ k \notin outbox
      <3>1. k \in outbox' => k \in seen'[Reconcile]
        BY <1>0, <1>3, <2>1, NoTaskForReferenced
      <3>2. ASSUME k \notin bucket'
            PROVE  \E r \in Writers : k \in OwnKeys(r) /\ pc'[r] = "revoked"
        <4>1. PICK r \in Writers :
                /\ k \in OwnKeys(r)
                /\ \/ pc[r] \in {"storing", "committing"}
                   \/ pc[r] = "refreshing" /\ pc'[r] = "revoked"
          BY <1>0, <2>1, <3>2, LostObject
        <4>2. pc[r] \notin {"storing", "committing"}
          BY <1>0, <1>3, <4>1, FreshKey DEF Committed
        <4>3. QED
          BY <4>1, <4>2
      <3>3. QED
        BY <3>1, <3>2
    <2>2. ASSUME NEW r \in Writers, k \in OwnKeys(r), pc[r] = "revoked"
          PROVE  k \in OwnKeys(r) /\ pc'[r] = "revoked"
      BY <1>0, <2>2, CommittedStays
    <2>3. CASE k \in seen[Reconcile]
      BY <1>1, <2>3
    <2>4. QED
      BY <1>0, <1>3, <2>1, <2>2, <2>3 DEF ReferencedIsKept
  <1>4. QED
    BY <1>2, <1>3

\* A selfie that is due has no row and gets none: its upload is over.
LEMMA DueSelfie ==
  ASSUME IInv, [Next]_vars, NEW s \in Selfies, s \notin selfies,
         pc[s] \notin InFlight \union {"off", "idle"}
  PROVE  s \notin selfies' /\ pc'[s] \notin InFlight \union {"off", "idle"}
  <1>0. TypeOK /\ s \in Writers
    BY DEF IInv, Writers
  <1>1. pc'[s] = pc[s]
    BY <1>0, WriterMoves DEF UploadMoves, InFlight
  <1>2. ~Commit(s)
    BY DEF Commit, InFlight
  <1>3. s \notin selfies'
    <2>1. ASSUME NEW r \in Writers, Commit(r) PROVE s \notin selfies'
      <3>1. r # s
        BY <1>2, <2>1
      <3>2. selfies' = selfies \/ selfies' = selfies \union {r}
        BY <2>1 DEF Commit
      <3>3. QED
        BY <3>1, <3>2
    <2>2. QED
      BY <2>1, WhoChangesRows DEF CommitDeleteEvent, CommitRemoval, DeletePhotos, BackfillCommit
  <1>4. QED
    BY <1>1, <1>3

\* No object of an upload that is over is stored again.
LEMMA DueObject ==
  ASSUME IInv, [Next]_vars, NEW s \in Selfies, Selfie(s) \notin bucket,
         pc[s] \notin InFlight \union {"off", "idle"}
  PROVE  Selfie(s) \notin bucket'
  <1>0. TypeOK /\ s \in Writers
    BY DEF IInv, Writers
  <1>1. CASE Selfie(s) \in bucket'
    BY <1>0, <1>1, NewObject, KeysDiffer, OwnKeysOf, OwnKeysDiffer DEF InFlight
  <1>2. QED
    BY <1>1

\* The steps of the reconciliation move the selfies that are due from the
\* listing to the outbox.
LEMMA DueStep ==
  ASSUME IInv, [Next]_vars
  PROVE  DueIsListed' /\ OrphansCondemned'
  <1>0. TypeOK /\ UploadsStore /\ DueIsListed /\ OrphansCondemned
    BY DEF IInv
  <1>1. /\ Reconcile \in Requests /\ Reconcile # Listing
        /\ \A s \in Selfies : s \in Writers /\ s \in Requests /\ s # Reconcile
    BY IsRequest, Kinds DEF Writers
  <1>2. CASE ~ReconcileNext
    <2>1. due' = due /\ pc'[Reconcile] = pc[Reconcile] /\ seen'[Listing] = seen[Listing]
      BY <1>0, <1>2, WhoReconciles
    <2>2. ASSUME NEW k \in due, k \in bucket' PROVE k \in bucket
      BY <1>0, <2>2, DueObject DEF DueIsListed, SelfieKeys
    <2>3. ASSUME NEW k \in due, k \in bucket', k \in outbox PROVE k \in outbox'
      BY <1>0, <2>3, TaskDone
    <2>4. \A s \in Selfies : Selfie(s) \in due' =>
            s \notin selfies' /\ pc'[s] \notin InFlight \union {"off", "idle"}
      BY <1>0, <2>1, DueSelfie DEF DueIsListed
    <2>5. QED
      BY <1>0, <2>1, <2>2, <2>3, <2>4 DEF DueIsListed, OrphansCondemned, SelfieKeys
  <1>3. ASSUME ReconcileList PROVE DueIsListed' /\ OrphansCondemned'
    <2>1. /\ due' = OrphanedSelfies
          /\ pc'[Reconcile] = "read" /\ \A s \in Selfies : pc'[s] = pc[s]
          /\ seen'[Listing] = {k \in bucket : IsSensitiveTemporaryKey(k)}
          /\ bucket' = bucket /\ selfies' = selfies
      BY <1>0, <1>1, <1>3 DEF ReconcileList, Goto, Remember, TypeOK
    <2>2. \A s \in Selfies : Selfie(s) \in due' =>
            s \notin selfies /\ Selfie(s) \in bucket /\ pc[s] \notin InFlight
      BY <2>1, KeysDiffer DEF OrphanedSelfies
    <2>3. \A s \in Selfies : Selfie(s) \in bucket => pc[s] \notin {"off", "idle"}
      BY <1>0, <1>1, OwnKeysOf DEF UploadsStore
    <2>4. due' \subseteq SelfieKeys /\ due' \subseteq seen'[Listing]
      BY <2>1, KeyKinds DEF OrphanedSelfies, SelfieKeys
    <2>5. QED
      BY <2>1, <2>2, <2>3, <2>4 DEF DueIsListed, OrphansCondemned, SelfieKeys
  <1>4. ASSUME ReconcileCompare PROVE DueIsListed' /\ OrphansCondemned'
    <2>1. /\ due' = due /\ pc[Reconcile] = "read"
          /\ pc'[Reconcile] = "queued" /\ \A s \in Selfies : pc'[s] = pc[s]
          /\ seen'[Listing] = seen[Listing] \ Referenced
          /\ bucket' = bucket /\ selfies' = selfies
      BY <1>0, <1>1, <1>4 DEF ReconcileCompare, Goto, Remember, TypeOK
    <2>2. ASSUME NEW s \in Selfies, s \notin selfies PROVE Selfie(s) \notin Referenced
      <3>1. event \notin {None, Deleted} => \E t \in Thumbnails : event = EventThumbnail(t)
        BY <1>0 DEF TypeOK
      <3>2. ~RefersTo(Selfie(s))
        BY <2>2, <3>1, KeysDiffer DEF RefersTo
      <3>3. QED
        BY <3>2, ReferencedKinds
    <2>3. due' \intersect bucket' \subseteq seen'[Listing]
      BY <1>0, <2>1, <2>2 DEF DueIsListed, SelfieKeys
    <2>4. QED
      BY <1>0, <2>1, <2>3 DEF DueIsListed, OrphansCondemned, SelfieKeys
  <1>5. ASSUME ReconcileQueue PROVE DueIsListed' /\ OrphansCondemned'
    <2>1. /\ due' = due /\ pc[Reconcile] = "queued"
          /\ pc'[Reconcile] = "idle" /\ \A s \in Selfies : pc'[s] = pc[s]
          /\ outbox' = outbox \union (seen[Listing] \ {None})
          /\ bucket' = bucket /\ selfies' = selfies
      BY <1>0, <1>1, <1>5 DEF ReconcileQueue, Goto, Enqueue, TypeOK
    <2>2. None \notin bucket
      BY <1>0, StorageAssumption DEF TypeOK
    <2>3. QED
      BY <1>0, <2>1, <2>2 DEF DueIsListed, OrphansCondemned, SelfieKeys
  <1>6. ASSUME ReconcileEnds PROVE DueIsListed' /\ OrphansCondemned'
    <2>1. due' = {} /\ pc'[Reconcile] = "idle"
      BY <1>0, <1>1, <1>6 DEF ReconcileEnds, Goto, TypeOK
    <2>2. QED
      BY <2>1 DEF DueIsListed, OrphansCondemned
  <1>7. QED
    BY <1>2, <1>3, <1>4, <1>5, <1>6 DEF ReconcileNext

-----------------------------------------------------------------------------
(* The theorems.                                                           *)

\* The invariant behind the others: what every kind of request has read, what
\* the uploads have stored, and what has been queued.
THEOREM Invariance == Spec => []IInv
  <1>1. IInv /\ [Next]_vars => IInv'
    <2> SUFFICES ASSUME IInv, [Next]_vars PROVE IInv'
      OBVIOUS
    <2>1. /\ TypeOK /\ ReadsMakeSense /\ FreshKeys /\ UploadsStore /\ PhotoRows
          /\ BackfillHolds /\ ReadIsQueued /\ GoneIsQueued /\ ReferencedIsKept
      BY DEF IInv
    <2>2. TypeOK' /\ ReadsMakeSense' /\ FreshKeys' /\ UploadsStore'
      BY <2>1, TypesStep, ReadsMakeSenseStep, FreshKeysStep, UploadsStoreStep
    <2>3. PhotoRows' /\ BackfillHolds' /\ ReadIsQueued' /\ GoneIsQueued'
      BY <2>1, PhotoRowsStep, BackfillHoldsStep, ReadIsQueuedStep, GoneIsQueuedStep
    <2>4. ReferencedIsKept'
      BY ReferencedIsKeptStep
    <2>5. DueIsListed' /\ OrphansCondemned'
      BY DueStep
    <2>6. QED
      BY <2>2, <2>3, <2>4, <2>5 DEF IInv
  <1>2. QED
    BY InitIInv, <1>1, PTL DEF Spec

\* Objects, tasks, rows and readings stay of their types.
THEOREM TypeCorrect == Spec => []TypeOK
  <1>1. IInv => TypeOK
    BY DEF IInv
  <1>2. QED
    BY Invariance, <1>1, PTL

\* What a row refers to is stored and not about to be deleted, but for the two
\* cases of the code: an upload whose refresh failed after its commit, and a
\* selfie that the reconciliation compared before its row was committed.
THEOREM ReferencesAreKept == Spec => []ReferencedIsKept
  <1>1. IInv => ReferencedIsKept
    BY DEF IInv
  <1>2. QED
    BY Invariance, <1>1, PTL

\* An object that no row refers to and no task will delete was left by an
\* upload that broke off, or was out of the sight of every request that
\* dropped its row.
THEOREM OrphansHaveReasons == Spec => []OrphansExplained
  <1>1. ASSUME IInv PROVE OrphansExplained
    <2>0. /\ TypeOK /\ ReadsMakeSense /\ UploadsStore /\ PhotoRows
          /\ BackfillHolds /\ ReadIsQueued /\ GoneIsQueued
      BY <1>1 DEF IInv
    <2> SUFFICES ASSUME NEW k, k \in bucket, k \notin Referenced, k \notin outbox
                 PROVE  \/ BrokenOff(k)
                        \/ \E p \in Photos :
                             \/ k \in {Original(p), Thumbnail(p)} /\ ~Exists /\ Unread(Original(p))
                             \/ k = Thumbnail(p) /\ k \in seen[Backfill] /\ Unread(k)
                        \/ k \notin PhotoKeys /\ Unread(k)
      BY DEF OrphansExplained
    <2>1. Unread(k)
      BY <2>0 DEF ReadIsQueued
    <2>2. ASSUME NEW p \in Uploads, k \in {Original(p), Thumbnail(p)}
          PROVE  BrokenOff(k) \/ (~Exists /\ Unread(Original(p)))
      <3>1. p \in Writers /\ p \in Photos /\ k \in OwnKeys(p)
        BY <2>2, OwnKeysOf DEF Writers, Photos
      <3>2. CASE pc[p] \notin Committed
        <4>1. pc[p] \in InFlight \union {"crashed", "uncompensated"}
          BY <2>0, <3>1, <3>2 DEF UploadsStore
        <4>2. QED
          BY <3>1, <4>1 DEF BrokenOff
      <3>3. CASE pc[p] \in Committed
        <4>1. photos[p] = None
          <5>1. photos[p] # None => photos[p].thumbnail
            BY <2>0, <2>2, <3>1 DEF PhotoRows
          <5>2. QED
            BY <2>0, <2>2, <3>1, <5>1, PhotoKeyReferenced
        <4>2. ~Exists
          BY <2>0, <2>2, <3>1, <3>3, <4>1 DEF GoneIsQueued
        <4>3. Unread(Original(p))
          <5>1. SUFFICES ASSUME NEW q \in Readers, Original(p) \in seen[q], Settled(q, Original(p))
                         PROVE  FALSE
            BY UnreadSettled
          <5>2. q \in Dropping
            BY <2>0, <3>1, <5>1, ReadKinds DEF Readers
          <5>3. k \in seen[q]
            BY <2>0, <2>2, <3>1, <5>1, <5>2 DEF ReadsMakeSense
          <5>4. k \in PhotoKeys
            BY <2>2, <3>1 DEF PhotoKeys
          <5>5. Settled(q, k)
            BY <5>1, <5>4 DEF Settled
          <5>6. QED
            BY <2>1, <5>1, <5>3, <5>5, UnreadSettled
        <4>4. QED
          BY <4>2, <4>3
      <3>4. QED
        BY <3>2, <3>3
    <2>3. ASSUME NEW p \in Legacy, k = Original(p) PROVE ~Exists /\ Unread(Original(p))
      <3>1. p \in Photos /\ p \notin Uploads
        BY Kinds DEF Photos
      <3>2. photos[p] = None
        BY <2>0, <2>3, <3>1, PhotoKeyReferenced
      <3>3. QED
        BY <2>0, <2>1, <2>3, <3>1, <3>2 DEF GoneIsQueued
    <2>4. ASSUME NEW p \in Legacy, k = Thumbnail(p) PROVE k \in seen[Backfill] /\ Unread(k)
      BY <2>0, <2>1, <2>4 DEF BackfillHolds, Photos
    <2>5. CASE k \in PhotoKeys
      <3>1. PICK p \in Photos : k = Original(p) \/ k = Thumbnail(p)
        BY <2>5 DEF PhotoKeys
      <3>2. CASE p \in Uploads
        BY <2>2, <3>1, <3>2
      <3>3. CASE p \in Legacy
        BY <2>3, <2>4, <3>1, <3>3
      <3>4. QED
        BY <3>2, <3>3 DEF Photos
    <2>6. QED
      BY <2>1, <2>5
  <1>2. IInv => OrphansExplained
    BY <1>1
  <1>3. QED
    BY Invariance, <1>2, PTL

\* A selfie stored without a row when an applied reconciliation listed the
\* bucket, its upload over, is queued when the run ends or gone
\* (storage_reconcile.reconcile).
THEOREM NoOrphanOverlooked == Spec => []OrphansCondemned
  <1>1. IInv => OrphansCondemned
    BY DEF IInv
  <1>2. QED
    BY Invariance, <1>1, PTL
=============================================================================
