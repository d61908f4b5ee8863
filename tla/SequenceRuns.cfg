SPECIFICATION FairSpec
CONSTANTS
  None = None
  EndSteps = 1
  UserRoles = {"camera", "mount"}
  DiskMayFail = TRUE
  Last = 1
  Frames = 2
  Rounds = 2
  MaxRestarts = 1
  MaxCrashes = 2
  MaxSpoiled = 1
INVARIANTS
  RigIsHeld
  NightIsWhole
PROPERTIES
  CommandsTakeEffect
  ImplementsNight
  RunsEnd
CHECK_DEADLOCK FALSE
