SPECIFICATION Spec
CONSTANTS
  p = p
  setsize = 3
  Procs = {p, q}
  NoProc = NoProc
  Delays = {1, 2, 4}
  MsPerSecond = 3
  MaxTimers = 2
  MaxClock = 7
CONSTRAINT RegistrationsOrTimeEvents
INVARIANTS
  SelectAgrees
  MaxfdCovers
PROPERTIES
  SleepEndsByDeadline
  CallsAreWanted
  FiredIsServed
