CONSTANTS
  u1 = u1
  u2 = u2
  r1 = r1
  r2 = r2
  Rooms = {r1}
  Users = {u1}
  RoomOf <- SameRoom
  Operations = {"recheck", "trim", "delete"}
  ReadCount = 1
  MaxTime = 1
  MaxWrites = 3
SPECIFICATION Spec
INVARIANTS
  OpeningIsCovered
