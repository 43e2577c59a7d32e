\* Two photos competing for claims, two attempts each, and a reaper that takes
\* one exhausted job per claim, so that the oldest-first order and the batch
\* limit matter.
CONSTANTS
  p1 = p1
  p2 = p2
  Photos <- TwoPhotos
  CreatedAt <- FirstThenSecond
  MaxAttempts = 2
  ReapLimit = 1
SPECIFICATION Spec
PROPERTY ImplementsLedger
