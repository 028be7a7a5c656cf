CONSTANTS
    Requests = {r1, r2, r3}
    Names = {n1}
    MaxFaults = 2
    None = None
SPECIFICATION FairSpec
INVARIANTS
    TypeOK
    DownloadedStays
    FailedLeavesNothing
PROPERTIES
    CleanupDeletesOwn
    ImagesAppear
CHECK_DEADLOCK FALSE
