SPECIFICATION FairSpec
CONSTANTS
    RxSize = 5
    QueueWords = 256
    LineBuffer = 80
    StatusLengths = {57}
    PowerUpStates = {"IDLE", "ALARM"}
    LimitChecks = {FALSE, TRUE}
    MaxInputs = 2
INVARIANTS TypeOK JogWaitsForAnswer
PROPERTIES WaitEnds WelcomeSeen Unlocks
