CONSTANTS
  Process = {p1}
  RetryAfter = {4}
  Ambiguous = 1
  Window = 3
  Hourly = 5
  MayCrash = FALSE
  MaxTime = 7
  MaxRecords = 3
SPECIFICATION Spec
PROPERTY RetryAfterIsHonoured
CHECK_DEADLOCK FALSE
