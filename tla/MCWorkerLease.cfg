CONSTANTS
  w1 = w1
  w2 = w2
  Workers = {w1, w2}
  MaxTasks = 2
  Concurrency <- ConcurrencyOf
  ScanFactor = 1
  Debounce = 2
  RenewEvery = 1
  ReplyWithin = 0
  MaxDuration = 1
  MaxRuns = 2
  MaxFaults = 1
SPECIFICATION FairSpec
INVARIANTS
  HoldsItsRuns
PROPERTIES
  ImplementsTaskLeases
  EveryTaskCompletes
