SPECIFICATION Spec
CONSTANTS
    MaxBlocks = 1
    MaxSegs = 1
    TimerWired = TRUE
    Spindle = {FALSE}
    MaxCmds = 1
    MaxLines = 1
    Commands = {"RESET"}
    LineKinds = {"move"}
INVARIANT LostPositionIsAlarmed
