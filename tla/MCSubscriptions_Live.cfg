CONSTANTS
  u1 = u1
  u2 = u2
  r1 = r1
  r2 = r2
  Rooms = {r1}
  Users = {u1}
  RoomOf <- SameRoom
  Operations = {"recheck", "delete"}
  ReadCount = 1
  MaxTime = 2
  MaxWrites = 2
SPECIFICATION FairSpec
PROPERTIES
  CatchesUp
  KickReaches
  RecheckReaches
  RevokedIsDisconnected
