\* A plain archive is rewritten while it is opened.
SPECIFICATION Spec
CONSTANTS
    i1 = i1
    i2 = i2
    alice = alice
    bob = bob
    t1 = t1
    t2 = t2
    t3 = t3
    t4 = t4
    x = x
    y = y
    a = a
    b = b
    nameA = nameA
    dotA = dotA
    nameB = nameB
    dotdot = dotdot
    Issuers = {i1, i2}
    Tokens = {t1, t2, t3, t4}
    Absent = Absent
    Empty = Empty
    Torn = Torn
    Paths = {a, b}
    Names = {nameA, dotA, nameB, dotdot}
    Unsafe = Unsafe
    Target <- MCTarget
    Bytes = {x, y}
    NoFile = NoFile
    Archives <- PlainArchives
    Identities = {alice, bob}
    Terms <- MCTerms
    Revocable <- MCRevocable
    MaxClock = 0
    MaxWrites = 2
    MaxUpdates = 0
    MaxRuns = 1
INVARIANTS ExportsGranted
CHECK_DEADLOCK FALSE
