SPECIFICATION PinFairSpec
CONSTANTS
  p1 = p1
  p2 = p2
  Pins = {p1, p2}
  Old = {p1, p2}
  Rounds = 12
  None = None
CHECK_DEADLOCK FALSE
INVARIANT PinTypeOK
PROPERTIES SelectionOutlivesFailure DeletedPinLeavesTheList
