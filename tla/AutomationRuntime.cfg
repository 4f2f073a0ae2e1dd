SPECIFICATION SceneSpec
CONSTANTS
  NRules = 2
  b1 = b1
  r1 = r1
  r2 = r2
  t1 = t1
  Inputs = {b1}
  Relays = {r1, r2}
  Climates = {t1}
  Configs <- Kinds
  MaxRuns = 2
  MaxNested = 2
INVARIANTS RunsDriven NotPulledAway BuiltWhenThere FollowLands
