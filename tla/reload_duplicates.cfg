CONSTANTS
    Callers = {c1}
    Workers = {w1}
    BufferSize = 2
    Watermark = 2
    Policy = "Drop"
    EarlyIngest = TRUE
    MaxAccepted <- Three
    Budget <- RestartBudget
SPECIFICATION Spec
INVARIANT DurableUntilConfirmed
