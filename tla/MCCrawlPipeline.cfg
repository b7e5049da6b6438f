CONSTANTS
  home = home
  a = a
  aHead = aHead
  c = c
  Requests <- MCRequests
  Limits <- MCLimits
  TrialCap = 2
  MaxRefreshUrls = 0
  WorkerCount = 2
  StartPage = home
  Links <- MCLinks
  Hops <- MCHops
  Blocked <- MCBlocked
  PageUrl <- MCPageUrl
  Filtered = {c}
  MaxAdditionalPending = 1
  MaxStarts = 1
  Licences = {TRUE, FALSE}
  MaxStops = 0
  MaxClears = 1
SPECIFICATION Spec
INVARIANTS
  PipelineBalanced
  EndConditionSound
