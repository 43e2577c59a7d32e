\* One photo, its two jobs racing, three attempts each.
CONSTANTS
  p1 = p1
  p2 = p2
  Photos <- OnePhoto
  CreatedAt <- FirstThenSecond
  MaxAttempts = 3
  ReapLimit = 50
SPECIFICATION FairSpec
INVARIANTS
  TypeOK
  PhotoStatusSound
  ResultsFromLastAttempt
  AttemptsBounded
PROPERTIES
  AttemptNotPreempted
  OutcomesFinal
  EveryJobSettles
