SPECIFICATION FairSpec
CONSTANTS
  c1 = c1
  c2 = c2
  c3 = c3
  None = None
  Clients <- TheClients
  MaxBackoff = 4
CHECK_DEADLOCK FALSE
INVARIANTS TypeOK OneConnection WaitIsHonest OnlyCutClientsSurvive
PROPERTIES ReconnectsInTheEnd StopEnds
