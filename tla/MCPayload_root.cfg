\* From a directory to the files exported: roots, names, order, patterns.
SPECIFICATION Spec
CONSTANTS
    Directories <- MCDirectories
    Patterns <- MCPatterns
    Content <- MCContent
    DigestLength = 8
    Blake3Byte <- MCBlake3Byte
INVARIANTS TypeOK RootIsTree PortableAccepted SealVerifies VerifiedIsWhole ExportsMatched SealedIsListed
PROPERTIES Terminates Advances
CHECK_DEADLOCK FALSE
