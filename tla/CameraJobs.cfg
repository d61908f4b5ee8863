SPECIFICATION FairSpec
CONSTANTS
  Parts = {"pointing", "flats", "imaging", "focusing"}
  Ring = 3
  Target = 0
  Aimed = 2
  Errors = {1}
  Attempts = 3
  Retries = 1
  Turn = 1
  MaxTurns = 1
  MaxKept = 0
  PointingFaults = 2
  Panels <- ThePanels
  Odd <- TheOdd
  Count = 3
  Shortest = 1
  Longest = 12
  First = 6
  Black = 6
  MaxMisses = 4
  Sunset = 6
  FlatsFaults = 2
  Rows <- TheRows
  Batch = 2
  Every = 2
  Policies <- ThePolicies
  Before = 2
  Last = 3
  After = 1
  Margin = 1
  ImagingFaults = 2
  MaxHands = 1
  Travel = 8
  Stride = 1
  Points = 5
  Extension = 2
  Setups <- TheSetups
  Targets <- TheTargets
  CanAbort = TRUE
  FocusFaults = 2
INVARIANTS
  FoundIsThere
  ImagingHolds
  PointsAreTrue
PROPERTIES
  FramesAreRight
  ComesBack
  JobsEnd
CHECK_DEADLOCK FALSE
