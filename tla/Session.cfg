SPECIFICATION Spec
CONSTANTS
    a1 = a1
    a2 = a2
    App <- MCApp
    Media = {"media"}
    Endpoint <- MCEndpoint
    Server <- MCServer
    MaxCalls = 2
SYMMETRY Threads
INVARIANT TypeOK
INVARIANT UsesNoDeletedReference
INVARIANT AppStaysAttached
PROPERTY OutlivesWorker
INVARIANT DataFollowsHallSocket
INVARIANT IdsRepeatOnlyOnRace
CHECK_DEADLOCK FALSE
