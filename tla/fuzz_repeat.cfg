\* fuzz_repeat
CONSTANTS
  None = None
  b1 = b1
  b2 = b2
  p1 = p1
  Block = {b1}
  Jumper = {}
  Suspend = {}
  Page = {p1}
  BackStopCycles = 2
  BackStopDelay = None
  HangCycles = 5
  CommenceAfter = None
  OtherTarget = FALSE
  Saturated = 1
  MaxCycle = 6
  MaxInput = 2
  MaxAlone = 2
SPECIFICATION Spec
CHECK_DEADLOCK FALSE
INVARIANTS
  UnresolvedFaultIsCrash
