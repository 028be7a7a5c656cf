CONSTANTS
    Requests = {r1, r2}
    Names = {n1}
    MaxL3 = 1
    MaxFaults = 0
    None = None
SPECIFICATION Spec
INVARIANT FailedCreateLeavesNothing
CHECK_DEADLOCK FALSE
