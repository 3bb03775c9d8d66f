CONSTANTS
    None = None
    Controllers = {c1, c2}
    Loops = {"flush", "rules"}
    Gens = {g1, g2}
    Triggers = {}
    MaxStarts = 2
    MaxStops = 1
    Permits = 1
SPECIFICATION Spec
INVARIANT RunningMeansLoops
CHECK_DEADLOCK FALSE
