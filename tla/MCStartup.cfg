SPECIFICATION StartupSpec
CONSTANTS
  NoFile = NoFile
  CommandLines <- MCCommandLines
  Files <- MCFiles
  Home = "home"
  Into <- MCInto
  Absolute = {"/etc"}
  IntOf <- MCIntOf
  BaseIntOf <- MCBaseIntOf
  EventFlags <- MCEventFlags
  Defaults <- MCDefaults
  REDIS_MIN_HZ = 1
  REDIS_MAX_HZ = 500
  REDIS_BINDADDR_MAX = 16
  REDIS_EVENTLOOP_FDSET_INCR = 5
  ListenFd = 5
  RecursionLimit = 4
  MaxStarts = 3
  MaxLines = 20
INVARIANTS
  LastLineWins
  
PROPERTIES
  StartEnds
CHECK_DEADLOCK FALSE
