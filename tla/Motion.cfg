SPECIFICATION FairSpec
CONSTANTS
  fwd = fwd
  back = back
  Pads = {phone}
  Dirs = {fwd, back}
  Wanted <- TheWanted
  MaxFaults = 1
  Backlog = 0
INVARIANTS
  NeverLeftMoving
  SlewsAlone
PROPERTIES
  DeadMansSwitch
