CONSTANTS
  p1 = p1
  p2 = p2
  Photos <- OnePhoto
  CreatedAt <- FirstThenSecond
  MaxAttempts = 2
  ReapLimit = 50
SPECIFICATION Spec
INVARIANT FailedPhotoIsFailed
