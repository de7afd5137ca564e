CONSTANTS
    MaxFiles = 2
    Top = 10
    Low = 2
    High = 10
    Travel = 5
    Search = 7
    PullOff = 2
    LocateScalar = 5
    SeekLag = 2
    FeedLag = 1
    MaxEvents = 1
    MaxHomings = 1
SPECIFICATION Spec
INVARIANT LimitsLocated
CHECK_DEADLOCK FALSE
