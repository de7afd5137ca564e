SPECIFICATION FairSpec
CONSTANTS
    MaxBlocks = 1
    MaxSegs = 1
    TimerWired = TRUE
    Spindle = {TRUE}
    MaxCmds = 3
    MaxLines = 2
    Commands = {"RESET","CYCLE_START","FEED_HOLD","SAFETY_DOOR","HARD_LIMIT"}
    LineKinds = {"move","outside","jog","probe","$SLP"}
PROPERTIES ResetIsExecuted MotionEnds ProbeEnds SuspensionCompletes
