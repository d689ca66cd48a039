SPECIFICATION Spec
CONSTANTS
    Kinds = {"fixed", "memory", "resizable", "reader", "writer"}
    Size = 4
    Lens = {1, 2, 3, 5}
    Formats <- Texts
    FileSize = 9
    MaxBytes = 9
    Files = {"regular", "pipe", "failing"}
INVARIANTS TypeOK Queue Refusals Delivered
CHECK_DEADLOCK FALSE
