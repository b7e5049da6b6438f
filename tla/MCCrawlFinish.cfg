CONSTANTS
  home = home
  a = a
  aHead = aHead
  c = c
  Requests <- MCRequests
  Limits <- MCLimits
  TrialCap = 2
  MaxRefreshUrls = 0
  WorkerCount = 2
  StartPage = home
  Links <- MCLinks
  Hops <- MCHops
  Blocked <- MCBlocked
  PageUrl <- MCPageUrl
  Filtered = {c}
  MaxAdditionalPending = 3
  MaxStarts = 1
  Licences = {FALSE}
  MaxStops = 0
  MaxClears = 0
SPECIFICATION Spec
INVARIANTS
  FinishedMeansComplete
