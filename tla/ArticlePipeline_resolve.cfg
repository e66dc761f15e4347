CONSTANTS
  Article = {a1}
  RelevantArticle = {a1}
  Worker = {w1}
  MaxAttempts = 2
  MayOverrun = FALSE
  MaxFaults = 1
SPECIFICATION FairSpec
PROPERTY ResolveFollows
CHECK_DEADLOCK FALSE
