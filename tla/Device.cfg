CONSTANTS
    MaxFiles = 1
    Top = 10
    Low = 2
    High = 10
    Travel = 5
    Search = 7
    PullOff = 2
    LocateScalar = 5
    SeekLag = 2
    FeedLag = 1
    MaxEvents = 2
    MaxHomings = 1
SPECIFICATION Spec
INVARIANTS TypeOK EnergizedAfterSetup HomedAtSwitch DeadIsNotHomed
PROPERTIES OtherAxisKept ResetAlarms BootEnds HomingEnds
CHECK_DEADLOCK FALSE
