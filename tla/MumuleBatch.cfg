\* Work is submitted while the pool is stopped, as in the example program.
CONSTANTS
    w1 = w1
    w2 = w2
    Workers <- TwoWorkers
    MaxQueued = 2
    LiveOps = {}
SPECIFICATION FairSpec
INVARIANTS
    IInv
    NoPhantomItem
    ItemExclusive
    SyncComplete
    StopDrains
    StoppedQuiet
PROPERTIES
    SignalPrecise
    PoolSpec
    SyncReturns
    StopReturns
    EveryItemDone
