CONSTANTS
    Callers = {c1, c2}
    Workers = {w1, w2}
    BufferSize = 1
    Watermark = 1
    Policy = "Drop"
    EarlyIngest = FALSE
    MaxAccepted <- Two
    Budget <- FaultOnce
SPECIFICATION Spec
SYMMETRY Symmetry
INVARIANTS DurableUntilConfirmed HeldOnce StatsAddUp
