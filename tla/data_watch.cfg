CONSTANTS
  MaxAddr = 3
  MaxScalar = 2
  MaxRanges = 2
  MaxLeft = 1
  MaxCycle = 1
  Marks <- MCMarks
  Unrecorded = FALSE
  None = None
SPECIFICATION Spec
INVARIANTS
  TypeOK
  HapsMatch
  RangesHooked
  ReceivedIsWatched
  UntouchedKept
