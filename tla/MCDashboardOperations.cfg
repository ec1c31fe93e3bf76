SPECIFICATION FairSpec
CONSTANTS
  i1 = i1
  i2 = i2
  i3 = i3
  Id = {i1, i2, i3}
  Target = {t1}
  DayLen = 2
  TTL = 2
  Wait = 1
  MaxWait = 2
  MaxActive = 1
  Keep = 1
  MaxClaims = 2
  Horizon = 2
ACTION_CONSTRAINT DrawnInOrder
INVARIANT OneActivePerTarget
PROPERTIES NoBlindReexecution DrainsUnlessStuck
