SPECIFICATION Spec
CONSTANTS
  Requesters = {r1, r2}
  Addresses = {a1, a2}
  maxParallelConnections = 1
  maxRedirects = 3
  PauseRanges = {TRUE, FALSE}
  CurlRefreshes = {TRUE}
  MaxStops = 1
  MaxClears = 1
SYMMETRY DownloadSymmetry
INVARIANTS DownloadTypeOK NothingLost NothingTwice OrphansOnlyAfterClear
CHECK_DEADLOCK FALSE
