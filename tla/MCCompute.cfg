CONSTANTS
    Requests = {r1, r2, r3}
    Names = {n1}
    MaxFaults = 1
    None = None
SPECIFICATION FairSpec
INVARIANTS
    TypeOK
    LiveVmHasSecret
    TerminatedVmIsGone
PROPERTIES
    TerminateHitsItsOwn
    EveryCallReturns
    ListRecovers
CHECK_DEADLOCK FALSE
