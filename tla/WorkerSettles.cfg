\* Two processes, one job, two attempts, one send of a report.
CONSTANTS
  w1 = w1
  w2 = w2
  j1 = j1
  NoJob = NoJob
  Workers <- TwoWorkers
  Jobs <- OneJob
  MaxAttempts = 2
  Tries = 1
SPECIFICATION FairSpec
PROPERTIES
  LeaseEnds
  EveryJobSettles
