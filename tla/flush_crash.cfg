CONSTANTS
    Callers = {c1}
    Workers = {w1}
    BufferSize = 1
    Watermark = 1
    Policy = "Drop"
    EarlyIngest = FALSE
    MaxAccepted <- TwoOne
    Budget <- CrashOnce
SPECIFICATION Spec
INVARIANTS TypeOK Capacity NoSilentLoss DurableUntilConfirmed
PROPERTIES GateRespected AtLeastOnce
