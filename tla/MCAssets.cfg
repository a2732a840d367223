CONSTANTS
  w1 = w1
  w2 = w2
  Workers = {w1, w2}
  MaxClock = 2
  Operations = {"delete", "import", "fail"}
  LateRemoval = TRUE
  CleanImports = TRUE
SPECIFICATION Spec
SYMMETRY Symmetry
INVARIANTS
  StaysRetrievable
  NewestHasObject
PROPERTIES
  SameContent
