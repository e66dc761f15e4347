CONSTANTS
  Article = {a1}
  RelevantArticle = {a1}
  Worker = {w1, w2}
  MaxAttempts = 2
  MayOverrun = TRUE
  MaxFaults = 4
SPECIFICATION Spec
SYMMETRY Symmetry
INVARIANT OutputBeforeFollowUp
CHECK_DEADLOCK FALSE
