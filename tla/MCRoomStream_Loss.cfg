CONSTANTS
  r1 = r1
  r2 = r2
  t1 = t1
  t2 = t2
  t3 = t3
  q1 = q1
  o1 = o1
  o2 = o2
  None = None
  Rooms = {r1, r2}
  TaskIds = {t1, t2, t3}
  Qids = {q1}
  Operators = {o1, o2}
  Imported = {r2}
  MaxClock = 4
  CleanupExclusive = FALSE
SPECIFICATION Spec
SYMMETRY Symmetry
PROPERTY
  MessagesSurvive
