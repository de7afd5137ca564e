SPECIFICATION Spec
CONSTANTS
    CycleMax = 15
    CounterMax = 7
    NsecPerSec = 20
    Hclk = 32
    ApbPrescalers = {1, 2, 4, 8}
    TimPrescalers = {0, 2, 4}
    Prescaler = 1
    CounterModes = {"up", "down", "center"}
    Channels = {1}
    Complementary = {1}
    Calls <- MCCalls
    NsecCalls <- MCNsecCalls
    Callbacks = {c1}
    NoCallback = none
INVARIANTS TypeOK RegisteredIsArmed OutputAsRequested ClockRate ConversionBrackets
PROPERTIES ImplementsTimerCallback  TakesEffect
