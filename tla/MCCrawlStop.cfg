CONSTANTS
  home = home
  a = a
  Requests <- MCRequests
  Limits <- MCLimits
  TrialCap = 4
  MaxRefreshUrls = 0
  WorkerCount = 2
  StartPage = home
  Links <- MCLinks
  Hops <- MCNoPages
  Blocked <- MCNoPages
  PageUrl <- MCPageUrl
  Filtered = {}
  MaxAdditionalPending = 0
  MaxStarts = 2
  Licences = {FALSE}
  MaxStops = 1
  MaxClears = 0
SPECIFICATION FairSpec
PROPERTIES
  StoppedStartNothing
  CrawlEnds
  TakenIsShown
