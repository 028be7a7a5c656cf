CONSTANTS
    Requests = {r1, r2, r3}
    Names = {n1}
    MaxL3 = 1
    MaxFaults = 1
    None = None
SPECIFICATION Spec
SYMMETRY RequestSymmetry
INVARIANTS
    TypeOK
    SubnetHasNad
    NadIsLock
    NadLeaksOnlyByFault
    TerminatedIsGone
PROPERTIES
    NetworkOutlivesSubnets
    SlotsAreExclusive
CHECK_DEADLOCK FALSE
