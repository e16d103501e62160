SPECIFICATION Spec
CONSTANTS
    u1 = u1
    u2 = u2
    Users = {u1, u2}
    MaxPositions = 2
    EntryPrices = {2}
    Sizes = {1, 2}
    Deltas <- Results
    Assets = {"gold"}
    CapAmounts = {2, 3}
    Tags = {"long", "short"}
    MaxPerTag = 1
    MaxQueued = 2
    QuotePrices = {0, 3}
    MaxLots = 2
    Fees = {1, 2}
    Days = {1, 2}
    MaxClock = 1
    MaxPaid = 3
CHECK_DEADLOCK FALSE
INVARIANTS
    TradesBounded
    OrdersAccounted
    PortfolioSound
PROPERTIES
    TradeStepsByRule
