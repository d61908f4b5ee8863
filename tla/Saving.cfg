SPECIFICATION Spec
CONSTANTS
  d1 = d1
  d2 = d2
  Drives = {d1, d2}
  MaxWriting = 2
  Count = 2
  Night <- OneNight
  MaxMoves = 3
  MaxUpsets = 2
INVARIANTS
  CatalogIsTrue
  FramesAreKept
PROPERTIES
  ImplementsUse
  NightStaysTogether
CHECK_DEADLOCK FALSE
