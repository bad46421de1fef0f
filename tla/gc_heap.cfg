CONSTANTS
  Tables = {t1, t2}
  Upvalues = {}
  Coroutines = {}
  Scripts = {s1}
  Body <- OneBody
  Interned = {k1}
  MaxFields = 1
  SpareRoom = 0
  MaySuspendCaptured = FALSE
  MayTouchCarried = FALSE
  MayRemakeMarked = FALSE
  s1 = s1
  k1 = k1
SPECIFICATION FairSpec
INVARIANTS NoDangling TriColour WeakIsLive CollectIsComplete
PROPERTIES OnlyGarbageFreed CollectReturns
