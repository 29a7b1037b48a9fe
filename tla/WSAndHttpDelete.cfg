CONSTANTS
    Ports <- MCPorts
    Paths = {path, Outside}
    Outside = Outside
    Handlers = {h1, h2}
    Conns = {}
    Chars = {}
    Queries <- MCNoQuery
    MaxServers = 2
    MaxRegister = 2
    MaxSessions = 0
    NoHandler = NoHandler
    NoReply = NoReply
SPECIFICATION Spec
INVARIANT DeleteServed
CHECK_DEADLOCK FALSE
