SPECIFICATION Spec
CONSTANTS
    a = a
    b = b
    Node <- MCNode
    Peer <- MCPeer
    FirstId <- SameFirst
    IdLimit <- SameLimit
    Lengths <- BothWays
    InitialCounts = {0}
    MaxCompletions = 2
    MayStop = {}
    MayClose = {}
    MAX_DATA_SIZE = 2
    MAX_RESEND_COUNT = 2
PROPERTY AnsMeansReceived
