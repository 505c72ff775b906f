\* exits
CONSTANTS
  t1 = t1
  t2 = t2
  other = other
  read = read
  open = open
  execve = execve
  sysexit = sysexit
  iretd = iretd
  runTo = runTo
  execs = execs
  opens = opens
  toExec = toExec
  runToCall = runToCall
  trace = trace
  None = None
  Thread = {t1, t2, other}
  Debugged = {t1}
  Call = {read, execve}
  Execve = {execve}
  Eip = {sysexit, iretd}
  Exits <- MCExits
  Sys = {runTo, execs, toExec, runToCall, trace}
  EndsIn <- MCEndsIn
  Cell <- MCCell
  Serves <- MCServes
  TraceAll = {trace}
  Linger = {trace, execs}
  AtCall = {runToCall}
  SetsExits = {runTo}
  MaxListed = 2
SPECIFICATION Spec
CHECK_DEADLOCK FALSE
INVARIANTS
  TypeOK
  PendingIsSeen
  PendingIsCurrent
  AskerLives
  ExecveKnown
