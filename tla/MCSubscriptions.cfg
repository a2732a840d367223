CONSTANTS
  u1 = u1
  u2 = u2
  r1 = r1
  r2 = r2
  Rooms = {r1}
  Users = {u1, u2}
  RoomOf <- SameRoom
  Operations = {"trim", "quarantine"}
  ReadCount = 1
  MaxTime = 2
  MaxWrites = 2
SPECIFICATION Spec
SYMMETRY Symmetry
INVARIANTS
  NothingMissed
  DeliversOnceInOrder
  SubscribedIffSynced
