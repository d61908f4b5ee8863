SPECIFICATION FairSpec
CONSTANTS
  camera = camera
  wheel = wheel
  ccd = ccd
  Roles = {camera, wheel}
  Drivers = {ccd}
  DriverOf <- TheDriverOf
  MaxFaults = 2
  MaxAsks = 3
  solve = solve
  Count = 5
  InJob = {4, 5}
  Saved = {4}
  Others = {solve}
  Keep = 2
  MaxDeaths = 1
INVARIANTS
  ReadyIsThere
  NothingLeft
PROPERTIES
  PassesEnd
  FramesGoOn
CHECK_DEADLOCK FALSE
