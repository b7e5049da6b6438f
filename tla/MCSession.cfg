CONSTANTS
  Hosts = {h1, h2}
  NoHost = nohost
  TrayMenu = FALSE
  MaxStarts = 4
SPECIFICATION FairSpec
INVARIANTS
  SessionTypeOK
  WorkersFollowState
  ChecksBeforeWorkers
  OneThingAtATime
PROPERTY WindowComesBack
