\* Two objects in one batch, two overlapping runs; leases may lapse and the
\* reconciliation may ask again while a storage call is under way.
CONSTANTS
  k1 = k1
  k2 = k2
  maintenance = maintenance
  handler = handler
  Keys <- TwoKeys
  CreatedAt <- K1First
  Processors <- BothProcessors
  MaxAttempts = 2
  BatchSize = 2
  MaxRequests = 2
  NoRow = NoRow
SPECIFICATION Spec
SYMMETRY ProcessorSymmetry
INVARIANTS
  TypeOK
  NoForgottenObject
  NoStrandedTask
  DeadLetteredAtLimit
