CONSTANTS
    c1 = c1
    d1 = d1
    d2 = d2
    Centres = {c1}
    Devices = {d1, d2}
    MaxCalls <- MCMaxCalls
    Groups = {{d1, d2}}
    MaxTick = 1
    BufTasks = 1
SPECIFICATION Spec
INVARIANT UniqueIds
INVARIANT FalseNotExecuted
INVARIANT ResultCausal
INVARIANT AnswerWhole
 
CHECK_DEADLOCK FALSE
