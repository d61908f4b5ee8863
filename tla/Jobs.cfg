SPECIFICATION FairSpec
CONSTANTS
  JobIds = {j1, j2}
  Tokens = {t1, t2}
  Resources = {camera, mount}
  KeepFinished = 1
  None = None
INVARIANTS
  HoldersLive
  JobsHoldTheirs
PROPERTIES
  ImplementsTable
  JobsEnd
CHECK_DEADLOCK FALSE
