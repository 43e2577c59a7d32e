\* Two changes by two admins, with one takeover or idle time, while OCR reads one photo and the text of another is there.
CONSTANTS
  r1 = r1
  r2 = r2
  x1 = x1
  x2 = x2
  Nobody = Nobody
  Letters = {"M"}
  Digits = {"1", "2", "3", "9"}
  p1 = p1
  p2 = p2
  Photos <- TwoPhotos
  Newest <- LatestFirst
  Readings <- SomeReadings
  Indexed <- OnePhoto
  Texts <- SomeTexts
  Persons <- TwoPersons
  Bibs <- TwoBibs
  a = a
  b = b
  Sessions <- TwoSessions
  Requests <- TwoRequests
  Kinds <- AllKinds
  MaxHandovers = 1
SPECIFICATION Spec
INVARIANTS
  TypeOK
  SingleAdmin
  MatchesExact
PROPERTY FaceMatchesKept
SYMMETRY Interchangeable
CHECK_DEADLOCK FALSE
