CONSTANTS
  MaxSitemapUrls = 3
  MaxBackfillUrls = 4
  MonthLength = 2
  Source <- MCSource
  Site <- MCSite
  Html <- MCHtml
  Legacy <- MCLegacy
  Window <- MCWindow
  Limit = {1}
  MaxAttempts = 3
  FirstDelay = 1
  SecondDelay = 1
  DailyDelay = 2
  MaxOverdue = 1
  RepairBatch = 1
  MaxFaults = 1
SPECIFICATION FairSpec
INVARIANTS  RepairReachesAll
PROPERTIES ContentIsKept SettledIsFinal EventuallyDecided
CHECK_DEADLOCK FALSE
