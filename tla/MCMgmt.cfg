CONSTANTS
    p1 = p1
    p2 = p2
    c1 = c1
    c2 = c2
    Replicas = {p1, p2}
    Cidrs = {c1, c2}
    CidrOf <- MCCidrOf
    MaxStarts = 3
    MaxCreates = 1
    MaxEdits = 2
    None = None
SPECIFICATION Spec
INVARIANTS
    TypeOK
    UndisturbedPassRepairs
PROPERTIES
    LeavesTheRestAlone
    ReadyIsFinal
CHECK_DEADLOCK FALSE
