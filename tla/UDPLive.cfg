SPECIFICATION FairSpec
CONSTANTS
    a = a
    b = b
    Node <- MCNode
    Peer <- MCPeer
    FirstId <- ApartFirst
    IdLimit <- ApartLimit
    Lengths <- OneWay
    InitialCounts = {0}
    MaxCompletions = 2
    MayStop = {b}
    MayClose = {}
    MAX_DATA_SIZE = 2
    MAX_RESEND_COUNT = 2
PROPERTY GivenUpOnlyAfterMaxResends
PROPERTY EveryMessageSettles
