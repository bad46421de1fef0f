CONSTANTS
  Tables = {t1}
  Upvalues = {u1}
  Coroutines = {c1}
  Scripts = {}
  Body <- NoBody
  Interned = {}
  MaxFields = 1
  SpareRoom = 1
  MaySuspendCaptured = TRUE
  MayTouchCarried = FALSE
  MayRemakeMarked = FALSE
  s1 = s1
  k1 = k1
SPECIFICATION Spec
INVARIANTS CarriedIsLive CheckInvariant
PROPERTIES NoCleanupLost
