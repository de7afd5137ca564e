SPECIFICATION Spec
CONSTANTS
    MaxBlocks = 1
    MaxSegs = 1
    TimerWired = TRUE
    Spindle = {TRUE, FALSE}
    MaxCmds = 3
    MaxLines = 2
    Commands = {"RESET","CYCLE_START","FEED_HOLD","SAFETY_DOOR","SPINDLE_STOP","HARD_LIMIT","JOG_CANCEL"}
    LineKinds = {"move","outside","sync","$C","$SLP","$X","jog"}
INVARIANTS TypeOK CycleStopIsPending CompletedHoldStandsStill
PROPERTIES AutoStartNeverResumes ImplementsMachineStates
