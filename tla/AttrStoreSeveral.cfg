SPECIFICATION Spec
CONSTANTS
    Texts <- Several
    Formats = {"xml"}
    Pow2Ge <- MCPow2Ge
    MaxBuffer = 512
    MaxReads = 2
    MaxNodes = 2
PROPERTY TransformsComposed
CHECK_DEADLOCK FALSE
