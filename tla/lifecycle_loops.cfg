CONSTANTS
    None = None
    Controllers = {c1, c2}
    Loops = {"flush", "rules"}
    Gens = {g1, g2}
    Triggers = {t1}
    MaxStarts = 2
    MaxStops = 1
    Permits = 1
SPECIFICATION FairSpec
INVARIANTS TypeOK OwnedLoops StopStops InflightAwaited
PROPERTIES CallsComplete LateLoopsDie
CHECK_DEADLOCK FALSE
