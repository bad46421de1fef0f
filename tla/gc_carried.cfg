CONSTANTS
  Tables = {}
  Upvalues = {u1}
  Coroutines = {c1}
  Scripts = {}
  Body <- NoBody
  Interned = {}
  MaxFields = 1
  SpareRoom = 0
  MaySuspendCaptured = TRUE
  MayTouchCarried = TRUE
  MayRemakeMarked = FALSE
  s1 = s1
  k1 = k1
SPECIFICATION Spec
INVARIANTS CarriedIsLive
