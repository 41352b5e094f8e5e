SPECIFICATION Spec
CONSTANTS
    a = a
    b = b
    Node <- MCNode
    Peer <- MCPeer
    FirstId <- ApartFirst
    IdLimit <- ApartLimit
    Lengths <- BothWays
    InitialCounts = {0}
    MaxCompletions = 2
    MayStop = {a}
    MayClose = {b}
    MAX_DATA_SIZE = 2
    MAX_RESEND_COUNT = 2
INVARIANT TypeOK
PROPERTY AnsMeansReceived
PROPERTY ImplementsLink
