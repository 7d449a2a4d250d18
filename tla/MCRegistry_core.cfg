\* Uploads, refused or not, downloads and listings of two artifacts, with a crash:
\* the index, and the store that Registry implements.
SPECIFICATION Spec
CONSTANTS
    Handlers = {h1, h2}
    Main = main
    Names = {n1, n2}
    DefaultName = n1
    Bodies = {b1, b2, bad}
    ValidBodies = {b1, b2}
    Revocations = {}
    Issuers = {}
    Keys = {}
    IndexPath = index
    NoPath = NoPath
    Bearers = {anyone}
    Token = NoToken
    NoToken = NoToken
    Absent = Absent
    MaxClock = 1
    MaxFaults = 0
    MaxCrashes = 1
INVARIANTS IndexFaithful AckedDurable StreamStable
PROPERTIES CreatedAtStable Linearizable
SYMMETRY Symmetry
