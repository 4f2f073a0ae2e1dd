SPECIFICATION Spec
CONSTANTS
  N = 2
  Max = 2
  Slots = 2
  r1 = r1
  r2 = r2
  r3 = r3
  r4 = r4
  Relays = {r1, r2}
  NoRelay = NoRelay
  Switches = {r1, r2}
  Shapes <- RelayShapes
  Targets = {0, 1}
  NoDoc = NoDoc
  NoFile = NoFile
  BadFile = BadFile
  WriteMayFail = FALSE
  InitFiles <- MixedFolder
INVARIANTS TakenOverStayEnabled
