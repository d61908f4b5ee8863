SPECIFICATION FairSpec
CONSTANTS
  MaxActs = 3
  Attempts = 2
PROPERTIES
  CleanAfterStop
CHECK_DEADLOCK FALSE
