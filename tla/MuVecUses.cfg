SPECIFICATION Spec
CONSTANTS
    Nobody = nobody
    Threads = {a, b}
    Calls = {"alloc_relaxed", "add_relaxed", "alloc_atomic", "add_atomic", "set", "resize"}
    Shared = {TRUE, FALSE}
    Counts = {3}
    FirstLimit = 1
    MaxExtent = 2
    SpuriousFail = FALSE
INVARIANTS ContentKept Backed RangesDisjoint CapacityBacked DestroyedFreed
PROPERTY Immovable
SYMMETRY Symmetry
CHECK_DEADLOCK FALSE
