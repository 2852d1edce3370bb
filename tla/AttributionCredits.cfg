SPECIFICATION FairSpec
CONSTANTS
  r1 = r1
  r2 = r2
  Requests = {r1, r2}
  Locks = {front, back}
  NoOne = NoOne
  Someone = Someone
  NoRow = NoRow
  Refresh = Refresh
  NoWriter = NoWriter
  EarlySlack = 1
  MatchWindow = 1
  PendingTTL = 1
  MatchedTTL = 3
  LogWindow = 2
  ClockSkew = 0
  OpenDelay = 0
  MaxTime = 2
  MaxCrashes = 0
  MaxOthers = 0
INVARIANT CreditIsNear
PROPERTY WaitingRequestSettles
