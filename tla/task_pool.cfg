SPECIFICATION FairSpec
CONSTANTS
    Workers = {w1, w2}
    Masters = {m1}
    Starters = {m1}
    Jobs = {j1, j2}
    Spinners = {j2}
    Elsewhere = {m2}
    None = None
    MaxTurns = 1
    MaxStarts = 2
    MayLackRoom = TRUE
INVARIANTS JobIsSomewhere HeldWhileUsed WorkIsWatched
PROPERTIES EndsOrWaits StopAnswers
CHECK_DEADLOCK FALSE
