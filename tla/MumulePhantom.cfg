CONSTANTS
    w1 = w1
    w2 = w2
    Workers <- TwoWorkers
    MaxQueued = 2
    LiveOps = {"submit"}
SPECIFICATION Spec
INVARIANTS
    NoPhantomItem
