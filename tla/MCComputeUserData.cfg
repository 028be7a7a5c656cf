CONSTANTS
    Requests = {r1, r2}
    Names = {n1}
    MaxFaults = 0
    None = None
SPECIFICATION Spec
INVARIANT BootsOwnUserData
CHECK_DEADLOCK FALSE
