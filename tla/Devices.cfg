SPECIFICATION Spec
CONSTANTS
  door = door
  gate = gate
  button = button
  text = text
  Locks = {door, gate}
  Named = {door}
  NoLock = NoLock
  Platforms = {button, text}
  This = home
  Others = {cabin}
  home = home
  cabin = cabin
  Changes = 1
INVARIANTS TypeOK EntitiesAreServed ViewsAreFresh
PROPERTY FailureShowsNothing
SYMMETRY PlatformsAreAlike
