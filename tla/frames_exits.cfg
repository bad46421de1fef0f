CONSTANTS
  c1 = c1
  c2 = c2
  main = main
  g1 = g1
  g2 = g2
  h = h
  Coroutines = {c1, c2}
  Protos = {main, g1, g2, h}
  Main = main
  BodyOf <- BodyOfEach
  Programs <- ExitPrograms
  NoCoroutine = none
  FrameCapacity = 5
  MaxCleanups = 2
  WideCallers = FALSE
  MaxCount = 4
  MaxCollects = 1
SPECIFICATION FairSpec
INVARIANTS NeverTwice EveryExit InnerFirst
PROPERTIES DroppedIsRun RunEnds
CHECK_DEADLOCK FALSE
