CONSTANTS
    Requests = {r0, r1, r2}
    Earlier = {r0}
    Names = {n1}
    MaxL3 = 1
    MaxFaults = 1
    None = None
SPECIFICATION CompositeSpec
INVARIANTS
    TerminatedEverywhere
PROPERTIES
    SriovRemovedById
    EveryCallReturns
    CompositeListRecovers
CHECK_DEADLOCK FALSE
