\* reverse_breaks
CONSTANTS
  b1 = b1
  b2 = b2
  Span = 3
  Bps = {b1}
  Hits <- MCHits
  MaxCycle = 6
  MaxCommands = 4
  KeepsPosts <- Both
SPECIFICATION FairSpec
INVARIANTS
  TypeOK
  SnapshotGrid
  SkipLands
  ReverseExact
  HitIsLatest
  FinishedReverseDisarmed
PROPERTIES
  ImplementsLog
  SkipTerminates
