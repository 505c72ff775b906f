\* fuzz_commence
CONSTANTS
  None = None
  b1 = b1
  b2 = b2
  p1 = p1
  Block = {b1, b2}
  Jumper = {}
  Suspend = {b2}
  Page = {}
  BackStopCycles = 2
  BackStopDelay = 2
  HangCycles = 2
  CommenceAfter = 1
  OtherTarget = TRUE
  Saturated = 1
  MaxCycle = 3
  MaxInput = 2
  MaxAlone = 2
SPECIFICATION Spec
CHECK_DEADLOCK FALSE
INVARIANTS
  ResultsAreOwn
PROPERTIES
  BackStopOfThisRun
  NoFalseHang
