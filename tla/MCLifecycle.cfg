CONSTANTS
    MaxRpcs = 2
    MaxFailures = 2
SPECIFICATION FairSpec
INVARIANTS
    NoRpcOnColdCache
    StoppedMeansDrained
PROPERTIES
    SignalEndsProcess
    FailureStopsServing
    SendersFinish
CHECK_DEADLOCK FALSE
