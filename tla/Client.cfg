SPECIFICATION FairSpec
CONSTANTS
  refresh = refresh
  command = command
  Threads = {refresh, command}
  Poller = refresh
  k1 = k1
  k2 = k2
  Tokens = {k1, k2}
  NoToken = NoToken
  Nobody = Nobody
INVARIANTS TypeOK SentWithItsToken OneEffectPerCall
PROPERTIES RefusedOnlyWhenRenewed CallsReturn TokenIsReplaced
