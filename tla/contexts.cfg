\* contexts
CONSTANTS
  lead = lead
  thread = thread
  fork = fork
  None = None
  Thread = {lead, thread, fork}
  Leader = lead
  Forked = {fork}
  Other = other
  ExecHooks = {"trackThreads"}
  Suspendable = {thread}
  MaxBacks = 1
SPECIFICATION Spec
CHECK_DEADLOCK FALSE
INVARIANTS
  TypeOK
  WatchedInDebugContext
  OthersNotInDebug
  BreaksWatched
  CachedWatched
  NothingRaised
