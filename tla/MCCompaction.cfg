CONSTANTS
  w1 = w1
  w2 = w2
  t1 = t1
  t2 = t2
  t3 = t3
  NoTask = NoTask
  Workers = {w1, w2}
  TaskIds = {t1, t2, t3}
  MaxClock = 2
SPECIFICATION Spec
SYMMETRY Symmetry
INVARIANTS
  NothingLost
  RowsComplete
  PurgedStaysErased
PROPERTIES
  ImplementsDocStore
  ImplementsRoomStream
