SPECIFICATION Spec
CONSTANTS
    Elements = {g}
    Attrs = {id, fill}
    Values = {red}
    MaxDepth = 2
    MaxNodes = 3
    MaxSlots = 4
    ManyRoots = TRUE
    FullDepth = TRUE
INVARIANTS SlotInv SlotsOwned AttrsUnique
CHECK_DEADLOCK FALSE
