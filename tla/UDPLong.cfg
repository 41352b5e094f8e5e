SPECIFICATION Spec
CONSTANTS
    a = a
    b = b
    Node <- MCNode
    Peer <- MCPeer
    FirstId <- ApartFirst
    IdLimit <- ApartLimit2
    Lengths <- MixedOneWay
    InitialCounts = {0}
    MaxCompletions = 2
    MayStop = {}
    MayClose = {}
    MAX_DATA_SIZE = 2
    MAX_RESEND_COUNT = 1
INVARIANT DeliveredWhole
INVARIANT UncompletedOrdered
INVARIANT OnlySinglePacksDelivered
CONSTRAINT SendsSucceed
