\* One worker, as in the parser's pool, and work submitted at any time.
CONSTANTS
    w1 = w1
    w2 = w2
    Workers <- OneWorker
    MaxQueued = 5
    LiveOps = {"submit"}
SPECIFICATION FairSpec
PROPERTIES
    SignalNotMissed
    EveryItemRuns
