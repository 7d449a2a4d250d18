\* The archive, the lists and the clock change before and while an archive is opened.
SPECIFICATION Spec
CONSTANTS
    i1 = i1
    i2 = i2
    alice = alice
    bob = bob
    t1 = t1
    t2 = t2
    t3 = t3
    t4 = t4
    x = x
    y = y
    a = a
    b = b
    nameA = nameA
    dotA = dotA
    nameB = nameB
    dotdot = dotdot
    Issuers = {i1, i2}
    Tokens = {t1, t2, t3, t4}
    Absent = Absent
    Empty = Empty
    Torn = Torn
    Paths = {a, b}
    Names = {nameA, dotA, nameB, dotdot}
    Unsafe = Unsafe
    Target <- MCTarget
    Bytes = {x, y}
    NoFile = NoFile
    Archives <- MCArchives
    Identities = {alice, bob}
    Terms <- MCTerms
    Revocable <- MCRevocable
    MaxClock = 1
    MaxWrites = 2
    MaxUpdates = 2
    MaxRuns = 1
INVARIANTS TypeOK SealedExportsGranted SuccessIsComplete NothingForBarred
CHECK_DEADLOCK FALSE
