CONSTANTS
    b1 = b1
    s1 = s1
    r1 = r1
    Tasks = {b1}
    Role <- AllRoles
    Attempts = 2
    BatchSize = 4
    BackoffFactor = 1
    MaxBackoff = 2
    MaxRetryAfter = 1
    Encrypted = FALSE
    Threshold = 2
    Recovery = 2
    MaxFailures = 3
    MaxCalls = 2
    Window = 2
SPECIFICATION Spec
INVARIANT SendContract
PROPERTY SendsAsPromised
