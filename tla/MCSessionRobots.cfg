CONSTANTS
  Hosts = {h1, h2}
  NoHost = nohost
  TrayMenu = FALSE
  MaxStarts = 3
SPECIFICATION Spec
INVARIANT RulesBelongToHost
CHECK_DEADLOCK FALSE
