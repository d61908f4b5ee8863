SPECIFICATION FairSpec
CONSTANTS
  k1 = k1
  k2 = k2
  k3 = k3
  a = a
  Keys = {k1, k2, k3}
  Values = {a}
  None = None
  Branches <- TheBranches
  Patches <- ThePatches
  History = 2
  QueueSize = 2
  WireSize = 1
  MaxVersion = 4
  MaxRestarts = 1
  MaxBreaks = 1
INVARIANTS
  Mirror
  NoGap
PROPERTIES
  CatchesUp
CHECK_DEADLOCK FALSE
