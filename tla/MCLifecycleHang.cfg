CONSTANTS
    MaxRpcs = 2
    MaxFailures = 2
SPECIFICATION FairSpecRpcs
PROPERTY
    FailureEndsProcess
CHECK_DEADLOCK FALSE
