\* Commands of two processes over the same files, alone or overlapping, killed
\* now and then.
SPECIFICATION Spec
CONSTANTS
    Issuers = {i1, i2}
    Tokens = {t1, t2}
    Absent = Absent
    Empty = Empty
    Torn = Torn
    Procs = {p1, p2}
    Lists = {f1}
    Copies = {g1}
    Publishable = {f1, g1}
    Published = f1
    Nobody = Nobody
    MaxAsked = 2
    MaxKills = 2
INVARIANTS TypeOK OnlyAskedRevoked CopiesFromIssuer
    OrderlyReportedRefused OrderlyPublishedRefused
PROPERTIES OrderlySlotsGrow
SYMMETRY ActorSymmetry
