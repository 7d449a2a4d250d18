\* Two commands at a time on the same files; the directory changes; one is killed.
SPECIFICATION Spec
CONSTANTS
    p1 = p1
    p2 = p2
    k1 = k1
    k2 = k2
    k3 = k3
    x = x
    a = a
    Keys = {k1, k2, k3}
    Texts = {a, NoText}
    NoText = NoText
    Absent = Absent
    Empty = Empty
    Torn = Torn
    Procs = {p1, p2}
    NPaths = 2
    Bytes = {x, Blank}
    Blank = Blank
    NoFile = NoFile
    Trees <- MCTrees
    Signers = {k1}
    Keyfiles <- MCKeyfiles
    Givens <- MCGivens
    MaxCommands = 2
    MaxChanges = 2
    MaxKills = 1
SYMMETRY ProcSymmetry
INVARIANTS TypeOK VerifiedWasRead IssuerNamesSigner GrantedVerified CreatedUnlocks SecretsPrivate
PROPERTIES ReportedVerifies KeptUntilKeyed
CHECK_DEADLOCK FALSE
