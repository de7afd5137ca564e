SPECIFICATION Spec
CONSTANTS
    MaxBlocks = 1
    MaxSegs = 1
    TimerWired = TRUE
    Spindle = {FALSE}
    MaxCmds = 2
    MaxLines = 1
    Commands = {"RESET", "HARD_LIMIT"}
    LineKinds = {"move"}
PROPERTY AlarmNeedsUnlock
