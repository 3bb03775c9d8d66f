CONSTANTS
    Fetchers = {loop, host}
    TheLoop = loop
    MaxVersion = 3
    Ttl <- Ttls
    MaxDelay = 1
    MaxFailures = 2
SPECIFICATION FairSpec
INVARIANTS TypeOK LoopStreak
PROPERTIES FreshEnough RulesPropagate
