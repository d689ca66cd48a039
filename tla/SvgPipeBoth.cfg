SPECIFICATION PipeSpec
CONSTANTS
    short = short
    long = long
    Elements = {g}
    Attrs = {id, fill}
    Values = {short, long}
    MaxDepth = 4
    MaxNodes = 4
    MaxSlots = 2
    ManyRoots = FALSE
    FullDepth = FALSE
    Formats = {"binary", "xml"}
    Rounded <- LongToShort
    BareTags = {"binary"}
    Stdin = {}
    Noise <- Nothing
    Garbage <- AnyToken
    MaxAttribs = 256
INVARIANTS RoundTrip CutAnywhere CopyReadable
CHECK_DEADLOCK FALSE
