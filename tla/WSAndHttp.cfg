CONSTANTS
    Ports <- MCPorts
    Paths = {path, Outside}
    Outside = Outside
    Handlers = {h1, h2}
    Conns = {c1, c2}
    Chars = {"k", "l", "v", "w", "&", "="}
    Queries <- MCQueries
    MaxServers = 4
    MaxRegister = 2
    MaxSessions = 2
    NoHandler = NoHandler
    NoReply = NoReply
SPECIFICATION Spec
INVARIANT TypeOKWs
 
INVARIANT QueryExact
 
SYMMETRY MCSymmetry
