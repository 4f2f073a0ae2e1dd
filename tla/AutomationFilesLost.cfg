SPECIFICATION Spec
CONSTANTS
  n1 = n1
  n2 = n2
  n3 = n3
  lamp = lamp
  fan = fan
  Names = {n1, n2, n3}
  Bodies = {lamp, fan}
  Orphans = {}
  MaxRules = 3
  Folders <- AnyFolder
  Absent = Absent
  Refused = Refused
  WritesFail = FALSE
INVARIANT NothingLost
