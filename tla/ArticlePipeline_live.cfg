CONSTANTS
  Article = {a1}
  RelevantArticle = {a1}
  Worker = {w1, w2}
  MaxAttempts = 2
  MayOverrun = FALSE
  MaxFaults = 2
SPECIFICATION FairSpec
PROPERTIES CardFollows LinkedFollows
CHECK_DEADLOCK FALSE
