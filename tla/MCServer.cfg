SPECIFICATION ServerFairSpec
CONSTANTS
  setsize = 4
  Procs = {"acceptTcpHandler", "readQueryFromClient", "sendReplyToClient"}
  NoProc = "none"
  Delays = {1}
  MsPerSecond = 2
  MaxTimers = 1
  MaxClock = 0
  maxclients = 2
  MAX_ACCEPTS_PER_CALL = 2
  MaxPieces <- PiecesSent
INVARIANTS
  SelectFollowsClients
  CommandsRunOnce
PROPERTIES
  CommandsAreAnswered
CHECK_DEADLOCK FALSE
