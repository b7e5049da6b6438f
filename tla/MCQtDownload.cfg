CONSTANTS
  page = page
  robots = robots
  u = u
  Requests <- MCRequests
  Urls <- MCUrls
  Timed = {page}
  AutoDetect = {page}
  Redirects = {0, 2}
  MaxSettings = 2
SPECIFICATION FairSpec
INVARIANTS
  QtTypeOK
  RedirectLimitKept
  RedirectsEnd
PROPERTIES
  AnsweredOnce
  EveryRequestAnswered
CHECK_DEADLOCK FALSE
