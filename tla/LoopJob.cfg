SPECIFICATION FairSpec
CONSTANTS
  Callers = {c1, c2}
  Slots = {s1, s2, s3}
  NoSlot = NoSlot
  Polls = 2
PROPERTIES CallsReturn KeepsPromise
