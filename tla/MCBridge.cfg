SPECIFICATION Spec
CONSTANTS
    c1 = c1
    c2 = c2
    d1 = d1
    d2 = d2
    m1 = m1
    p0 = p0
    q0 = q0
    r0 = r0
    s1 = s1
    s2 = s2
    v0 = v0
    v1 = v1
    v2 = v2
    w0 = w0
    N = 1
    Validators = {v1, v2}
    Required = 2
    Messages = {m1}
    Amounts = {1, 2}
    MaxAmount = 2
    DailyLimit = 3
    Buffers = {15}
    RouteMaxes = {1}
    RouteTotals = {2}
    RouteSpan = 1
    Delay = 1
    Deployments = {d1, d2}
    Day = 1
    Validity = 2
    MaxTime = 1
    MaxTransfers = 2
    MaxChanges = 1
CHECK_DEADLOCK FALSE
INVARIANTS
    RelayInOrder
    SharesAndFeesBacked
    TransfersSafe
PROPERTIES
    BridgeChangesByRule
    DecidedOnce
