SPECIFICATION SceneSpec
CONSTANTS
  N = 3
  MaxSchedules = 3
  r1 = r1
  r2 = r2
  t1 = t1
  Relays = {r1, r2}
  Switches = {r1, r2}
  Thermostats = {t1}
  Docs <- AllDocs
  InitFiles <- Folders
  NoFile = NoFile
  BadFile = BadFile
  Week = 2
  Minute = 2
  Clocks = {0, 2, 5}
  Stalls = {0, 5}
  SaveWhileDue = TRUE
  SetBackAgain = FALSE
  MaxFrames = 3
  MaxJobs = 1
  Scenes = {"modes"}
INVARIANT ModeInForce
