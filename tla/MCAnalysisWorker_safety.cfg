SPECIFICATION Spec
SYMMETRY Symmetry
CONSTANTS
  w1 = w1
  NoWorker = NoWorker
  NoKey = NoKey
  Token = {t1}
  Snapshot = {s1, s2}
  Client = {u1}
  Consumer = {c1, c2}
  WorkerId = {c1, c2}
  WorkerOf <- OwnIds
  MaxAttempts = 2
  FailureThreshold = 1
  QueueDepth = 2
  MaxExpiries = 1
  MaxCrashes = 0
  MaxFaults = 0
  MaxForces = 0
  BudgetMayBlock = TRUE
INVARIANTS
  TypeOK
  OneReadyPerToken
  LeaseHeldIffProcessing
  PublishedIsValid
  CallsCounted
  BreakerConsistent
PROPERTIES
  LastKnownGoodKept
  WedgedForever
  ImplementsShared
