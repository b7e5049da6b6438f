CONSTANTS
  MaxSaves = 3
  MaxVersions = 3
  MaxCrashes = 2
SPECIFICATION Spec
PROPERTY ClearedOnlyWhenSaved
CHECK_DEADLOCK FALSE
