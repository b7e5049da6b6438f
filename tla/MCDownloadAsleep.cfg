SPECIFICATION Spec
CONSTANTS
  Requesters = {r1, r2}
  Addresses = {a1, a2}
  maxParallelConnections = 1
  maxRedirects = 1
  PauseRanges = {FALSE}
  CurlRefreshes = {TRUE, FALSE}
  MaxStops = 0
  MaxClears = 0
INVARIANT NeverAsleep
CHECK_DEADLOCK FALSE
