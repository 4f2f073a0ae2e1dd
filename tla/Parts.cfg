SPECIFICATION SpecScenes
CONSTANTS
  n1 = n1
  n2 = n2
  n3 = n3
  lamp = lamp
  fan = fan
  Absent = Absent
  Refused = Refused
  b1 = b1
  v1 = v1
  gone = gone
  Foreign = Foreign
  Unused = Unused
  BadFile = BadFile
  NoLevel = NoLevel
  NoInput = NoInput
  s1 = s1
  c1 = c1
  c2 = c2
  Nobody = Nobody
  Nothing = Nothing
  t1 = t1
  t2 = t2
  Stopped = Stopped
  Names <- RuleNames
  Bodies <- What
  Orphans = {}
  MaxRules = 3
  Folders <- TidyFolders
  WritesFail = FALSE
  Slots <- TwoSlots
  Sources = {b1}
  Configs <- Delays
  HandFiles <- ByHand
  Modulus = 8
  MaxStall = 2
  NRelays = 2
  Inputs = {b1, v1}
  Missing = {gone}
  Virtual = {v1}
  Heated = {1}
  Bindables <- Kinds
  InitFiles <- RecordFiles
  MaxWalks = 2
  NestedRemovals = FALSE
  Lists <- ServerLists
  Compiled <- OfDevice
  AnswerTime = 2
  Poll = 4
  Lead = 1
  MaxBackoff = 1
  MaxReplies = 2
  MaxAway = 1
  Keep = 3
  MaxCrashes = 5
  Floor = 1
  Quiet = 1
  ContestMoves = 1
  MaxAge = 1
  Dwells <- HeldFor
  Docs <- SceneDocs
  DwellAt <- Minima
  Readings <- Temperatures
  MaxTemp = 1
  Timeout = 1
  Interval = 1
  Period = 1
  MaxRun = 1
INVARIANTS FolderExact DelaysKept FollowsInput TogglesOnPresses SettingsKept ServersStored ClosedForCause RunUndisturbed NoPauseIntegrated
PROPERTIES RefusedKept AnswersCredited ReportsKept
