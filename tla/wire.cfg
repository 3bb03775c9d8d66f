CONSTANTS
    Facade <- SomeRecords
    Settings <- SomeSettings
    SensitiveHeaders <- Headers
    Lower <- Lowercase
    MaxRedactDepth = 3
    CompressionThreshold = 2
    BufferSize = 2
    Attempts = 2
    MaxRetryAfter = 300
    RetryAfterHeaders <- RetryHeaders
    Statuses <- Codes
    MaxItems = 2
    MaxSends = 2
    MaxDetours = 1
SPECIFICATION Spec
INVARIANTS TypeOK ServerReads EventsOnce LetGo StatusHonest
CHECK_DEADLOCK FALSE
