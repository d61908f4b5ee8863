SPECIFICATION FairSpec
CONSTANTS
  MaxActs = 4
  Attempts = 2
PROPERTIES
  StopIsStop
  CleanStart
  CommandsEnd
CHECK_DEADLOCK FALSE
