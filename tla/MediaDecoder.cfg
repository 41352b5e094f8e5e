SPECIFICATION FairSpec
CONSTANTS
    Sizes <- MCSizes
    MaxFed = 3
INVARIANT TypeOK
INVARIANT NoLostWakeup
PROPERTY QueueInOrder
PROPERTY ImplementsPictureQueue
PROPERTY NothingAfterJoin
PROPERTY DestructorReturns
PROPERTY DrainsOrStalls
CHECK_DEADLOCK FALSE
