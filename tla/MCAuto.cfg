SPECIFICATION Spec
CONSTANTS
    k1 = k1
    k2 = k2
    u1 = u1
    u2 = u2
    u3 = u3
    x0 = x0
CHECK_DEADLOCK FALSE
INVARIANTS
    AutoAccounted
    StatisticsSound
PROPERTIES
    AutoStepsByRule
