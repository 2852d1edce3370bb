SPECIFICATION Spec
CONSTANTS
  s1 = s1
  s2 = s2
  n1 = n1
  n2 = n2
  Slots <- TheSlots
  Names <- TheNames
  Default = Default
  Unnamed = Unnamed
  Garbled = Garbled
  Live = Live
  Edits = 1
  HandEdits = 0
  Crashes = 0
SYMMETRY SlotsAndNamesAreAlike
INVARIANT AssignedNameStays
