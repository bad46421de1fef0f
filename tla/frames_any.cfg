CONSTANTS
  c1 = c1
  c2 = c2
  main = main
  g1 = g1
  g2 = g2
  h = h
  Coroutines = {c1, c2}
  Protos = {main, g1, g2, h}
  Main = main
  BodyOf <- BodyOfEach
  Programs <- AnyPrograms
  NoCoroutine = none
  FrameCapacity = 4
  MaxCleanups = 2
  WideCallers = TRUE
  MaxCount = 4
  MaxCollects = 2
SPECIFICATION Spec
INVARIANTS CarriersAgree
CHECK_DEADLOCK FALSE
