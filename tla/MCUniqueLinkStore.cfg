CONSTANTS
  r1 = r1
  r2 = r2
  r3 = r3
  Requests <- MCRequests
  Limits <- MCLimits
  TrialCap = 2
  MaxRefreshUrls = 1
SPECIFICATION StoreSpec
INVARIANTS
  StoreTypeOK
  ListsConsistent
  CountersExact
PROPERTIES
  LimitRespected
  HandedOutOnce
