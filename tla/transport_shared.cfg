CONSTANTS
    b1 = b1
    s1 = s1
    r1 = r1
    Tasks = {b1, r1}
    Role <- AllRoles
    Attempts = 2
    BatchSize = 1
    BackoffFactor = 1
    MaxBackoff = 2
    MaxRetryAfter = 1
    Encrypted = FALSE
    Threshold = 3
    Recovery = 2
    MaxFailures = 4
    MaxCalls = 2
    Window = 2
SPECIFICATION FairSpec
INVARIANTS TypeOK BreakerConsistent RateBound
PROPERTIES QuietAfterFailures CallsReturn
