SPECIFICATION PipeSpec
CONSTANTS
    short = short
    long = long
    Elements = {g}
    Attrs = {id}
    Values = {short, long}
    MaxDepth = 4
    MaxNodes = 3
    MaxSlots = 2
    ManyRoots = FALSE
    FullDepth = FALSE
    Formats = {"xml"}
    Rounded <- LongToShort
    BareTags = {"xml"}
    Stdin = {}
    Noise <- Nothing
    Garbage <- AnyToken
    MaxAttribs = 256
INVARIANT RoundTrip
CHECK_DEADLOCK FALSE
