SPECIFICATION FairSpec
CONSTANTS
    Machines = {m1, m2}
    NoOne = NoOne
    FirstCapacity = 1
    MaxSent = 4
    MaxWaits = 2
    MaxCalls = 6
    MaySupplyParked = FALSE
    MayHoldInside = FALSE
CHECK_DEADLOCK FALSE
INVARIANTS NumbersInOrder NobodyWaitsBesideAValue UsedWhileHeld
PROPERTIES KeepsThePromise ParkedIsTold DemandIsMet
