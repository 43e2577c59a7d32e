\* Two searches or uploads of two visitors at one web process, with and without the context of a browser.
CONSTANTS
  r1 = r1
  r2 = r2
  v1 = v1
  v2 = v2
  w1 = w1
  Everyone = Everyone
  NoWindow = NoWindow
  Requests <- SomeRequests
  Processes <- OneProcess
  Visitors <- TwoVisitors
  Kinds <- TwoKinds
  LocalChecks <- Local
  StoreChecks <- Store
  Slots = 1
  MaxFiles = 2
  JobsPerFile <- TwoJobs
  MaxBacklog <- SmallBacklog
  MaxTime = 4
  MaxFailures = 1
SPECIFICATION Spec
INVARIANTS
  TypeOK
  BudgetsHold
  BacklogBounded
SYMMETRY Interchangeable
CHECK_DEADLOCK FALSE
