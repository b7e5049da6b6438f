CONSTANTS
  home = home
  a = a
  Requests <- MCRequests
  Limits <- MCLimits
  TrialCap = 4
  MaxRefreshUrls = 0
  WorkerCount = 1
  StartPage = home
  Links <- MCLinks
  Hops <- MCHops
  Blocked <- MCNoPages
  PageUrl <- MCPageUrl
  Filtered = {}
  MaxAdditionalPending = 1
  MaxStarts = 2
  Licences = {FALSE}
  MaxStops = 1
  MaxClears = 1
  MaxSaves = 1
  MaxLoads = 1
SPECIFICATION ProjectSpec
INVARIANTS
  ProjectTypeOK
  PipelineTypeOK
  PipelineBalanced
  NothingLoadedTwice
  SaveConditionSound
  ViewMatchesModel
