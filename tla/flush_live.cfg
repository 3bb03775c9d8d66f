CONSTANTS
    Callers = {c1}
    Workers = {w1}
    BufferSize = 2
    Watermark = 2
    Policy = "Block"
    EarlyIngest = FALSE
    MaxAccepted <- Three
    Budget <- OneFailure
SPECIFICATION FairSpec
INVARIANT InOrder
PROPERTIES CallersReturn EventuallySettled
