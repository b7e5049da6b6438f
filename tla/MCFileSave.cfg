CONSTANTS
  MaxSaves = 3
  MaxVersions = 3
  MaxCrashes = 2
SPECIFICATION FairSpec
INVARIANTS
  FileTypeOK
  ACopySurvives
  NeverStale
PROPERTIES
  TaskEnds
  ImplementsVault
CHECK_DEADLOCK FALSE
