SPECIFICATION Spec
CONSTANTS
    None = None
    Decl <- MCDecl
    Held <- MCHeld
    Under <- MCUnder
    Positions <- MCPositions
    Seats <- MCSeats
    Tests <- MCTests
    LoopTests <- MCLoopTests
    MaxOpen = 1
    MayWriteInLoops = FALSE
INVARIANTS KnownHolds SettledTestsAgree MovesChain
CHECK_DEADLOCK FALSE
