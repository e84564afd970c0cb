CONSTANTS
    k1 = k1
    k2 = k2
    k3 = k3
    small = small
    medium = medium
    large = large
    Ids = {k1, k2, k3}
    Data = {small, medium, large}
    Size <- MCSize
    MaxEntries = 2
    MaxBytes = 3
    MaxTick = 7
    NoId = NoId
CHECK_DEADLOCK FALSE
SPECIFICATION LoopSpec
INVARIANT TypeOK
INVARIANT Accounting
INVARIANT WithinBounds
INVARIANT TicksDistinct
INVARIANT LoopAccounting
PROPERTY PutStores
PROPERTY EvictsOldest
PROPERTY ImplementsMemoryCache
PROPERTY ImplementsBoundedCache
