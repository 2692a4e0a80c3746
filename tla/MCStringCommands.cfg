SPECIFICATION Spec
CONSTANTS
  Keys = {a, b}
  Texts = {"abc", "07"}
  NumberOf <- MCNumberOf
  Decimal <- MCDecimal
  NotANumber = NotANumber
  Numerals <- MCNumerals
  MsPerSecond = 2
  MaxWords = 3
  MaxTime = 2
  MaxCommands = 3
INVARIANTS
  ExpiresInDict
  ExpiredOnce
PROPERTIES
  NewDeadlineInFuture
  KeysLeaveOnlyExpired
  RefinesExpiringMap
SYMMETRY Symmetry
