CONSTANTS
    Objects = {cli}
    Cli = cli
    Callers = {0, 1, 2}
    MaxStarts = 2
    MaxSocket = 1
    MaxData = 1
    MaxFaults = 1
    ConnectWaits = TRUE
SPECIFICATION ClientFairSpec
INVARIANT TypeOKClient
 
 
 
 
PROPERTY RetryConnects
PROPERTY DestroyedEnds
CHECK_DEADLOCK FALSE
