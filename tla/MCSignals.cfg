SPECIFICATION Spec
CHECK_DEADLOCK FALSE
INVARIANTS
    SignalsAccounted
PROPERTIES
    SubmissionsWithinLimits
    SignalStepsByRule
