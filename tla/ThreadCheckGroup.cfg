CONSTANTS
    Objects = {a1, a2}
    Callers = {user}
    MaxStarts = 2
    MaxThreads = 2
    MaxTotal = 3
    MaxCreated = 3
    Params <- MCParams
SPECIFICATION GroupFairSpec
INVARIANT TypeOKGroup
INVARIANT RangesTile
INVARIANT NoDoubleCheck
PROPERTY EveryIndexServed
PROPERTY StopEndsThreads
CHECK_DEADLOCK FALSE
