SPECIFICATION Spec
CONSTANTS
    Totals <- MCTotals
    MaxHeld = 4
    MaxList = 6
INVARIANT TypeOK
INVARIANT LoopComputesRegroup
INVARIANT CountWithinTotal
PROPERTY ReturnsUnlessHanging
CHECK_DEADLOCK FALSE
