\* Six scenes, in which the faces or the text of one photo may come late.
CONSTANTS
  p1 = p1
  p2 = p2
  p3 = p3
  p4 = p4
  f1 = f1
  f2 = f2
  f3 = f3
  f4 = f4
  f5 = f5
  s1 = s1
  s2 = s2
  BibSearch = BibSearch
  Letters = {"M"}
  Digits = {"1", "2", "3", "4", "9"}
  Photos <- FourPhotos
  CreatedAt <- Came
  Faces <- FiveFaces
  PhotoOf <- OnPhoto
  Quality <- Sizes
  Selfies = {s1, s2}
  RowOrders <- TwoOrders
  Falloff = 15
  Texts <- AllTexts
  Bib <- TheBib
  Scenes <- SomeScenes
  Late <- OneLate
  RebuildsAfter = {"cleared"}
  CandidateScore = 50
  MediumScore = 55
  ReinforcementScore = 70
  StrongScore = 85
  MaxSearchResults = 4
  MaxSearchFaces = 5
  MaxReinforcements = 3
  PageSize = 2
  SeedPhotoLimit = 3
  SeedMinPhotos = 2
  MajorityPercent = 70
  LeadPercent = 150
SPECIFICATION Spec
INVARIANTS
  TypeOK
  TopFacesKept
  DriftBounded
  SeedsHaveMajority
  ArchiveFaithful
  EvidenceAgrees
CHECK_DEADLOCK FALSE
