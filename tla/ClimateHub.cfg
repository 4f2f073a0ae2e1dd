SPECIFICATION Spec
CONSTANTS
  N = 3
  Max = 3
  Slots = 2
  r1 = r1
  r2 = r2
  r3 = r3
  r4 = r4
  Relays = {r1, r2, r3, r4}
  NoRelay = NoRelay
  Switches = {r1, r2, r3}
  Shapes <- WaitingShapes
  Targets = {0}
  NoDoc = NoDoc
  NoFile = NoFile
  BadFile = BadFile
  WriteMayFail = FALSE
  InitFiles <- AnyFolder
INVARIANTS ClaimsMatch NobodyForgotten ReasonsCurrent FilesFollow
PROPERTIES NeverStolen ExclusiveKept ReleasesAnnounced FilesKeptApart
