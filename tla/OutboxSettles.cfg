\* One object, two runs that crash now and then or outlive their leases.
CONSTANTS
  k1 = k1
  k2 = k2
  maintenance = maintenance
  handler = handler
  Keys <- OneKey
  CreatedAt <- K1First
  Processors <- BothProcessors
  MaxAttempts = 2
  BatchSize = 2
  MaxRequests = 2
  NoRow = NoRow
SPECIFICATION FairSpec
PROPERTY EveryTaskSettles
