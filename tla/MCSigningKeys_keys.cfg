SPECIFICATION FairSpec
CONSTANTS
  i1 = i1
  i2 = i2
  r1 = r1
  r2 = r2
  None = None
  Instances = {i1, i2}
  SkipKeysCheck = {}
  Requests = {r1}
  MaxTime = 1
  MaxCalls = 1
  MaxFaults = 1
INVARIANTS IInv KidTellsThePair JwksCoversTokens NewestKeySigns
PROPERTIES SeedingIsNotForgotten SeedingLeavesAKey
CHECK_DEADLOCK FALSE
