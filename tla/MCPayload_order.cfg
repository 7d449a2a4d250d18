\* Are the leaves of ASCII names in bytewise order?
SPECIFICATION Spec
CONSTANTS
    Directories <- MCDirectories
    Patterns <- MCPatterns
    Content <- MCContent
    DigestLength = 8
    Blake3Byte <- MCBlake3Byte
INVARIANTS LeavesBytewise
CHECK_DEADLOCK FALSE
