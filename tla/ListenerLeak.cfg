SPECIFICATION Spec
CONSTANTS
  c1 = c1
  c2 = c2
  c3 = c3
  None = None
  Clients <- TheClients
  MaxBackoff = 4
SYMMETRY ClientsAreAlike
CHECK_DEADLOCK FALSE
INVARIANT NoClientSurvives
