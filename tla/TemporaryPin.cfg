SPECIFICATION FairSpec
CONSTANTS
  Pins = {p1}
  Old = {}
  Rounds = 12
CHECK_DEADLOCK FALSE
INVARIANTS TypeOK ClaimsWereReported UnwatchedPinsStayGone OnlyLateCreationsOutliveShutdown
PROPERTY NoteIsSettled
