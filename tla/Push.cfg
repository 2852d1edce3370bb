SPECIFICATION FairSpec
CONSTANTS
  Audits <- TheAudits
  Others <- TheOthers
  Attempts = 3
CHECK_DEADLOCK FALSE
INVARIANTS TypeOK OnlyLateEventsAreForgotten TaskOwnsItsState
PROPERTIES PushTaskEnds RowIsShownInTheEnd
