CONSTANTS
    Requests = {r1, r2, r3}
    Flavours = {f1}
    MaxFaults = 2
    None = None
    Foreign = Foreign
SPECIFICATION FairSpec
INVARIANTS
    TypeOK
    DeletedIsGone
    CreatedStays
PROPERTIES
    ForeignUntouched
    FlavoursAppear
CHECK_DEADLOCK FALSE
