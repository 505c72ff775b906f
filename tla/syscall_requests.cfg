\* syscall_requests
CONSTANTS
  open = open
  read = read
  recv = recv
  default = default
  resim = resim
  runToIO = runToIO
  dmod1 = dmod1
  dmod2 = dmod2
  Contexts <- MCOne
  RESimContext = resim
  Call = {open, read, recv}
  Param = {runToIO, dmod1, dmod2}
  Dmod = {dmod1, dmod2}
  TrackIO = {runToIO}
  AllContexts = {dmod1, dmod2}
  CallList <- MCCalls
  InstanceName <- MCNames
  MaxSyscalls = 3
SPECIFICATION Spec
SYMMETRY MCSymmetry
INVARIANTS
  TypeOK
  ParamInOneSyscall
  RecordedCallsHooked
  TraceAllAlone
