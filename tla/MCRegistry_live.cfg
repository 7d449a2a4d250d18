\* Three handlers in the queue of the lock.
SPECIFICATION FairSpec
CONSTANTS
    Handlers = {h1, h2, h3}
    Main = main
    Names = {n1}
    DefaultName = n1
    Bodies = {b1, bad}
    ValidBodies = {b1}
    Revocations = {}
    Issuers = {}
    Keys = {}
    IndexPath = index
    NoPath = NoPath
    Bearers = {anyone}
    Token = NoToken
    NoToken = NoToken
    Absent = Absent
    MaxClock = 0
    MaxFaults = 0
    MaxCrashes = 0
PROPERTIES RequestsAnswered
