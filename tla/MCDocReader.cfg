CONSTANTS
  NoTask = NoTask
  Workers = {1}
  TaskIds = {1, 2}
  Readers = {1}
  MaxClock = 2
SPECIFICATION ReaderFairSpec
INVARIANTS
  StreamFirstComplete
  MissedIsPersisted
PROPERTIES
  EventuallyPersisted
  StreamDrains
