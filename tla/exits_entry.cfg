\* exits_entry
CONSTANTS
  t1 = t1
  t2 = t2
  other = other
  read = read
  open = open
  execve = execve
  sysexit = sysexit
  iretd = iretd
  runTo = runTo
  execs = execs
  opens = opens
  toExec = toExec
  runToCall = runToCall
  trace = trace
  None = None
  Thread = {t1, t2}
  Debugged = {t1, t2}
  Call = {read, open}
  Execve = {}
  Eip = {sysexit, iretd}
  Exits <- MCExits
  Sys = {opens, runToCall}
  EndsIn <- MCEndsIn
  Cell <- MCCell
  Serves <- MCServes
  TraceAll = {}
  Linger = {opens}
  AtCall = {runToCall}
  SetsExits = {}
  MaxListed = 2
SPECIFICATION Spec
CHECK_DEADLOCK FALSE
PROPERTIES
  RunToCallStops
