CONSTANTS
  Process = {p1, p2}
  RetryAfter = {4}
  Ambiguous = 1
  Window = 3
  Hourly = 5
  MayCrash = TRUE
  MaxTime = 7
  MaxRecords = 3
SPECIFICATION Spec
SYMMETRY Symmetry
INVARIANTS TypeOK 
PROPERTY PausesAreHonoured
CHECK_DEADLOCK FALSE
