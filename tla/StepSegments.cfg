SPECIFICATION Spec
CONSTANTS
    SegBufSize = 3
    QueueSize = 2
    StepCounts = {1, 3}
    MaxPlan = 4
INVARIANTS TypeOK PendingIntact ExecutesItsBlock
PROPERTY ImplementsStepStream
