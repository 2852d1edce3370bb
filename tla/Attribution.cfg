SPECIFICATION Spec
CONSTANTS
  r1 = r1
  r2 = r2
  Requests = {r1, r2}
  Locks = {front}
  NoOne = NoOne
  Someone = Someone
  NoRow = NoRow
  Refresh = Refresh
  NoWriter = NoWriter
  EarlySlack = 1
  MatchWindow = 1
  PendingTTL = 1
  MatchedTTL = 2
  LogWindow = 1
  ClockSkew = 0
  OpenDelay = 0
  MaxTime = 3
  MaxCrashes = 1
  MaxOthers = 1
SYMMETRY RequestsAreAlike
INVARIANTS TypeOK OneRowPerRequest NoLostRequest ShownIsDurable
PROPERTIES ShownIsStable LedgerSpec
