\* Every set of three requests out of two photo uploads, two event thumbnails,
\* a removal, a selfie, a photo deletion, the deletion of the event and the
\* backfill, next to the reconciliation.
CONSTANTS
  u1 = u1
  u2 = u2
  l1 = l1
  c1 = c1
  t1 = t1
  t2 = t2
  r1 = r1
  s1 = s1
  d1 = d1
  None = None
  Deleted = Deleted
  Uploads <- TwoUploads
  Legacy <- OneLegacy
  Contents <- OneContent
  ContentOf <- SameContent
  IdempotencyKey <- FirstHasKey
  Thumbnails <- TwoThumbnails
  Removals <- OneRemoval
  Selfies <- OneSelfie
  Deletions <- OneDeletion
  MaxRequests = 3
SPECIFICATION Spec
INVARIANTS
  TypeOK
  ReferencedIsKept
  OrphansExplained
  OrphansCondemned
