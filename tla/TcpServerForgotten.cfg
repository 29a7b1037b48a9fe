CONSTANTS
    Objects = {srv}
    Srv = srv
    Callers = {user}
    MaxStarts = 1
    c1 = c1
    c2 = c2
    Conns = {c1, c2}
    UrgentConns = {c2}
    MaxSocket = 2
    MaxBytes <- MCMaxBytes
    FD_SETSIZE = 3
SPECIFICATION ServerSpec
INVARIANT NoneForgotten
