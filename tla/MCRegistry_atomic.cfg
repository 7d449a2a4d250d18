\* Is a stored file replaced atomically when a rename fails?
SPECIFICATION Spec
CONSTANTS
    Handlers = {h1}
    Main = main
    Names = {n1}
    DefaultName = n1
    Bodies = {b1, b2}
    ValidBodies = {b1, b2}
    Revocations = {}
    Issuers = {}
    Keys = {}
    IndexPath = index
    NoPath = NoPath
    Bearers = {anyone}
    Token = NoToken
    NoToken = NoToken
    Absent = Absent
    MaxClock = 0
    MaxFaults = 1
    MaxCrashes = 0
PROPERTIES ReplacedAtomically
