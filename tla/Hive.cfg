SPECIFICATION FairSpec
CONSTANTS
    hall = hall
    room = room
    java1 = java1
    java2 = java2
    Conn <- MCConn
    Caller <- MCCaller
    MaxPosts = 1
    MaxSends = 1
    MaxResets = 1
INVARIANT TypeOK
INVARIANT StopLeavesStopped
PROPERTY StopsOnlyWhenIdle
PROPERTY TimerKeepsHive
PROPERTY StopReturnsUnopened
CHECK_DEADLOCK FALSE
