CONSTANTS
    Objects = {o1}
    Callers = {user}
    MaxStarts = 3
SPECIFICATION FairSpec
INVARIANT TypeOK
INVARIANT RunningMeansAlive
INVARIANT NoOrphan
PROPERTY StopTerminates
PROPERTY LoopServes
