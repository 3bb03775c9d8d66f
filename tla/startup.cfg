CONSTANTS
    Processes = {p1, p2}
    Tester = p1
    Configs <- AllConfigs
    MaxBoots = 2
SPECIFICATION Spec
INVARIANTS TypeOK ReadySound
PROPERTIES ProblemsComplete IdentityStable
CHECK_DEADLOCK FALSE
