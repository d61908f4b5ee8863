SPECIFICATION FairSpec
CONSTANTS
  d1 = d1
  d2 = d2
  e1 = e1
  e2 = e2
  Drives = {d1, d2}
  Ejects = {e1}
  MaxPlugs = 2
  MaxFaults = 1
  MaxWriting = 1
PROPERTIES
  ImplementsUse
  EjectsEnd
  DrivesAreMounted
CHECK_DEADLOCK FALSE
