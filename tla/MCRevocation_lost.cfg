\* Two processes add to one list at the same time.
SPECIFICATION Spec
CONSTANTS
    Issuers = {i1}
    Tokens = {t1, t2}
    Absent = Absent
    Empty = Empty
    Torn = Torn
    Procs = {p1, p2}
    Lists = {f1}
    Copies = {g1}
    Publishable = {f1}
    Published = f1
    Nobody = Nobody
    MaxAsked = 2
    MaxKills = 0
INVARIANTS ReportedRefused
SYMMETRY ActorSymmetry
