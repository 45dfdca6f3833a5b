SPECIFICATION FairSpec
CONSTANTS
  w1 = w1
  NoWorker = NoWorker
  NoKey = NoKey
  Token = {t1}
  Snapshot = {s1}
  Client = {u1}
  Consumer = {c1}
  WorkerId = {c1}
  WorkerOf <- OwnIds
  MaxAttempts = 2
  FailureThreshold = 1
  QueueDepth = 2
  MaxExpiries = 2
  MaxCrashes = 2
  MaxFaults = 2
  MaxForces = 2
  BudgetMayBlock = FALSE
INVARIANTS
  AttemptsBounded
PROPERTIES
  JobsSettle
