\* fuzz_rounds
CONSTANTS
  None = None
  b1 = b1
  b2 = b2
  p1 = p1
  Block = {b1}
  Jumper = {}
  Suspend = {}
  Page = {p1}
  BackStopCycles = 2
  BackStopDelay = None
  HangCycles = 5
  CommenceAfter = None
  OtherTarget = FALSE
  Saturated = 1
  MaxCycle = 3
  MaxInput = 2
  MaxAlone = 2
SPECIFICATION FairSpec
CHECK_DEADLOCK FALSE
INVARIANTS
  TypeOK
  ResultsAreOwn
PROPERTIES
  BackStopOfThisRun
  ImplementsRounds
  ArmedRunEnds
  QuitObeyed
