CONSTANTS
    MaxResource = 3
    MaxWindows = 3
    Length = 3
    ChunkPlan = "matching"
    ServerWindow = 1
    Totals <- MCTotals
    Sizes <- MCSizes
    Nexts <- MCNexts
    NoOffset = NoOffset
CHECK_DEADLOCK FALSE
SPECIFICATION FairSpec
INVARIANT TypeOK
INVARIANT Bounded
INVARIANT AbsenceIsImmediate
INVARIANT HonestGatewayIsServed
INVARIANT HonestGatewayIsNotBlamed
PROPERTY ImplementsOneShot
PROPERTY EveryFetchEnds
