CONSTANTS
  r1 = r1
  r2 = r2
  op = op
  Requests = {r1, r2}
  Kinds <- KindsOf
  Operators = {op}
SPECIFICATION Spec
INVARIANTS
  ActsOnLiveDocument
  AckedIsKept
  CacheDropped
  AgentErrorsSurface
  PurgedIsErased
PROPERTIES
  HardIsFinal
