SPECIFICATION FairSpec
CONSTANTS
    Machines = {main, w1, w2}
    Main = main
    Idle = {}
    MaxThreads = 3
    MaxRuns = 2
    MayAskWhileGoing = FALSE
    MayBeBornLate = FALSE
    MayHangUp = FALSE
    main = main
    w1 = w1
    w2 = w2
CHECK_DEADLOCK FALSE
INVARIANTS HandedOutIsParked FreedUnderNobody
PROPERTIES StandsStill StopsAndGoesOn HostGoesOn
