CONSTANTS
    Callers = {c1}
    Workers = {w1}
    BufferSize = 1
    Watermark = 1
    Policy = "Raise"
    EarlyIngest = FALSE
    MaxAccepted <- Two
    Budget <- LifecycleBudget
SPECIFICATION Spec
INVARIANTS Capacity StatsAddUp
