SPECIFICATION Spec
CONSTANTS
  s1 = s1
  s2 = s2
  n1 = n1
  n2 = n2
  Slots <- TheSlots
  Names <- TheNames
  Default = Default
  Unnamed = Unnamed
  Garbled = Garbled
  Live = Live
  Edits = 2
  HandEdits = 1
  Crashes = 1
SYMMETRY SlotsAndNamesAreAlike
INVARIANTS TypeOK NamesStayUnlessOverlapped ShownSlotsAreNamed
