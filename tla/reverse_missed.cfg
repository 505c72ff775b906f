\* reverse_missed
CONSTANTS
  b1 = b1
  b2 = b2
  Span = 3
  Bps = {b2}
  Hits <- MCHits
  MaxCycle = 7
  MaxCommands = 3
  KeepsPosts <- Kept
SPECIFICATION Spec
INVARIANTS
  HitIsMostRecent
