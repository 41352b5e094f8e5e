SPECIFICATION Spec
CONSTANTS
    Frames <- MCFrames
    Width = 4
    MaxFed = 3
    UserId = 7
INVARIANT TypeOK
INVARIANT FramesFedWhole
INVARIANT HangsOnlyOnReordering
INVARIANT FedInOrder
INVARIANT HeldInOrder
PROPERTY HeldUntilFed
PROPERTY LeaveNeverHeard
CHECK_DEADLOCK FALSE
