SPECIFICATION TransferSpec
CONSTANTS
    N = 1
    Validators = {v1, v2}
    Required = 2
    Messages = {m1}
    Amounts = {1}
    MaxAmount = 2
    DailyLimit = 3
    Buffers = {15}
    RouteMaxes = {1}
    RouteTotals = {2}
    RouteSpan = 2
    Delay = 1
    Deployments = {d1}
    Day = 2
    Validity = 2
    MaxTime = 2
    MaxTransfers = 1
    MaxChanges = 1
CHECK_DEADLOCK FALSE
INVARIANT QuorumBehindRelease
