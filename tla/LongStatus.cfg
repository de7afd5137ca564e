SPECIFICATION FairSpec
CONSTANTS
    RxSize = 5
    QueueWords = 64
    LineBuffer = 80
    StatusLengths = {57, 75}
    PowerUpStates = {"IDLE"}
    LimitChecks = {FALSE, TRUE}
    MaxInputs = 1
PROPERTY WaitEnds
