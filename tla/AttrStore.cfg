SPECIFICATION Spec
CONSTANTS
    Texts <- Single
    Formats = {"binary", "xml"}
    Pow2Ge <- MCPow2Ge
    MaxBuffer = 512
    MaxReads = 2
    MaxNodes = 2
INVARIANTS BlocksApart ContentKept ViewsApart RoundTrip
CHECK_DEADLOCK FALSE
