SPECIFICATION FairSpec
CONSTANTS
  p = p
  setsize = 1
  Procs = {p}
  NoProc = NoProc
  Delays = {1}
  MsPerSecond = 2
  MaxTimers = 1
  MaxClock = 3
PROPERTIES
  TimeEventsRun
