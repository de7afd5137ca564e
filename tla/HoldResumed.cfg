SPECIFICATION Spec
CONSTANTS
    MaxBlocks = 1
    MaxSegs = 1
    TimerWired = TRUE
    Spindle = {TRUE}
    MaxCmds = 5
    MaxLines = 2
    Commands = {"CYCLE_START","FEED_HOLD","SAFETY_DOOR"}
    LineKinds = {"move"}
PROPERTIES HoldNeedsUser
