SPECIFICATION Spec
CONSTANTS
    Elements = {g}
    Attrs = {id, fill}
    Values = {red, blue}
    MaxDepth = 4
    MaxNodes = 5
    MaxSlots = 2
    ManyRoots = FALSE
    FullDepth = FALSE
INVARIANTS TreeInv LinksAgree Preorder
PROPERTY TreeSpec
CHECK_DEADLOCK FALSE
