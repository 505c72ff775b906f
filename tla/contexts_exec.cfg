\* contexts_exec
CONSTANTS
  lead = lead
  thread = thread
  fork = fork
  None = None
  Thread = {lead, thread, fork}
  Leader = lead
  Forked = {fork}
  Other = other
  ExecHooks = {}
  Suspendable = {}
  MaxBacks = 0
SPECIFICATION Spec
CHECK_DEADLOCK FALSE
INVARIANTS
  ExecedNotWatched
