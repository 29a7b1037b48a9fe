CONSTANTS
    Objects = {o1}
    Callers = {user}
    MaxStarts = 2
SPECIFICATION Spec
INVARIANT SingleWorker
