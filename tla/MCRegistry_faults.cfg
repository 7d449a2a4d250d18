\* What gets into the store and stays there: tokens, archives that do not
\* validate and two that replace each other, lists of another issuer, with a
\* crash and failing system calls.
SPECIFICATION Spec
CONSTANTS
    Handlers = {h1, h2}
    Main = main
    Names = {n1}
    DefaultName = n1
    Bodies = {b1, b2, bad}
    ValidBodies = {b1, b2}
    Revocations = {r1}
    Issuers = {i1}
    Keys = {i1, i2}
    IndexPath = index
    NoPath = NoPath
    Bearers = {secret, other}
    Token = secret
    NoToken = NoToken
    Absent = Absent
    MaxClock = 0
    MaxFaults = 3
    MaxCrashes = 1
INVARIANTS IInv OnlyValidStored NoUploadLeft NoLockLost AckedBytesSurvive
PROPERTIES WritesJustified LockGivenBack
SYMMETRY Symmetry
