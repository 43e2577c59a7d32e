\* Two selfies in one request, two attempts each, with the lock conflicts of
\* completions and purges.
CONSTANTS
  s1 = s1
  s2 = s2
  NoSession = NoSession
  Selfies <- TwoSelfies
  Position <- S1First
  MaxAttempts = 2
SPECIFICATION FairSpec
INVARIANTS
  TypeOK
  SelfieAccounted
  ImageFollowsJob
PROPERTIES
  CompletionNotPurged
  ExpiredSearchPurged
