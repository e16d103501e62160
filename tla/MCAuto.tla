------------------------------- MODULE MCAuto --------------------------------
(***************************************************************************)
(* The automatic trading contract for TLC: each behaviour runs one part,   *)
(* chosen in the initial state, with the small sets and bounds of its      *)
(* INSTANCE.                                                               *)
(***************************************************************************)
EXTENDS Integers

CONSTANTS
    k1, k2, u1, u2, u3, x0

VARIABLES
    part,
    nowStat, historyStat, strat, folio, folioId, pair, pairId, mr, priceStat,
    nowPlan, quote, plan, lease, epoch, policy, ran, cond, active, twap, points, berg,
    sdex, current, fills, exit, sold, grid, filledGrid, dca, bought,
    nowGuards, paused, callsGuards, acct, limits, inHour, listed, cb, admin, offer,
    guardian, operator, lastAction, keepers, oracles, entry, stats, escrow, moved,
    queue, nextId, props, execs, desk,
    nowStops, callsStops, position, priceStops, historyStops, config, liquidity,
    trigger, peak, seen, insurance, parity, matrix, index, venue, registry, paired,
    failVenue, failed, last

Stat == INSTANCE SpreadStrategies WITH
    Assets <- {1, 2, 3}, Baskets <- {<<1, 2, 3>>, <<2, 1, 1>>},
    Histories <- {<<10, 12, 9, 11, 10>>, <<10, 11, 12, 13, 16>>, <<20, 18, 21, 19, 26>>},
    Lookbacks <- {5}, Thresholds <- {5000}, Entries <- {10000}, Exits <- {3000},
    Gaps <- {1}, Values <- {100}, StopLossPct <- 15, MinHistory <- 4, MinPairs <- 5,
    MinPrices <- 5, Sizes <- {1000}, Portfolios <- {100}, Slots <- {1}, Prices <- {10},
    AdjustAfter <- 1, Scale <- 10000, MaxTime <- 2, MaxTrades <- 1, now <- nowStat,
    history <- historyStat, price <- priceStat
statarbVars == <<nowStat, historyStat, strat, folio, folioId, pair, pairId, mr, priceStat>>
StatIdle ==
    nowStat = 0 /\ historyStat = 0 /\ strat = 0 /\ folio = 0 /\ folioId = 0 /\
    pair = 0 /\ pairId = 0 /\ mr = 0 /\ priceStat = 0
ASSUME StatAssumption == Stat!SpreadTyped

Pairs == INSTANCE SpreadStrategies WITH
    Assets <- {1, 2}, Baskets <- {<<1, 2, 3>>},
    Histories <- {<<100, 140, 80, 130, 90>>, <<50, 69, 41, 64, 46>>, <<20, 24, 18, 22, 30>>, <<10, 10, 10, 10>>},
    Lookbacks <- {5}, Thresholds <- {5000}, Entries <- {5000, 15000}, Exits <- {3000},
    Gaps <- {1}, Values <- {100}, StopLossPct <- 15, MinHistory <- 4, MinPairs <- 4,
    MinPrices <- 5, Sizes <- {1000}, Portfolios <- {100}, Slots <- {1}, Prices <- {10},
    AdjustAfter <- 1, Scale <- 10000, MaxTime <- 1, MaxTrades <- 2, now <- nowStat,
    history <- historyStat, price <- priceStat

Revert == INSTANCE SpreadStrategies WITH
    Assets <- {1, 2}, Baskets <- {<<1, 2, 3>>},
    Histories <- {<<10, 12, 9, 11, 10>>, <<10, 10, 10, 10, 10>>}, Lookbacks <- {5},
    Thresholds <- {5000}, Entries <- {10000, 29500}, Exits <- {3000}, Gaps <- {1},
    Values <- {100}, StopLossPct <- 15, MinHistory <- 4, MinPairs <- 4, MinPrices <- 5,
    Sizes <- {1000}, Portfolios <- {100}, Slots <- {2}, Prices <- {6, 10, 11, 14},
    AdjustAfter <- 2, Scale <- 10000, MaxTime <- 1, MaxTrades <- 2, now <- nowStat,
    history <- historyStat, price <- priceStat

Plan == INSTANCE ScheduledOrders WITH
    Keepers <- {k1, k2}, Assets <- {x0}, Prices <- {1}, Orders <- {1}, Amounts <- {1},
    Segments <- {1}, Spans <- {1, 2}, Cooldown <- 2, Conditions <- {},
    VisiblePct <- {30}, Entry <- 100, Sizes <- {1}, GridShape <- <<1,3,3,1>>,
    Precision <- 100, MaxNow <- 6, MaxFills <- 3, now <- nowPlan
planVars == <<nowPlan, quote, plan, lease, epoch, policy, ran, cond, active, twap, points, berg,
    sdex, current, fills, exit, sold, grid, filledGrid, dca, bought>>
PlanIdle ==
    nowPlan = 0 /\ quote = 0 /\ plan = 0 /\ lease = 0 /\ epoch = 0 /\ policy = 0 /\
    ran = 0 /\ cond = 0 /\ active = 0 /\ twap = 0 /\ points = 0 /\ berg = 0 /\
    sdex = 0 /\ current = 0 /\ fills = 0 /\ exit = 0 /\ sold = 0 /\ grid = 0 /\
    filledGrid = 0 /\ dca = 0 /\ bought = 0
ASSUME PlanAssumption == Plan!ScheduledTyped

Cond == INSTANCE ScheduledOrders WITH
    Keepers <- {k1}, Assets <- {x0}, Prices <- {8, 12}, Orders <- {1, 2},
    Amounts <- {1}, Segments <- {1}, Spans <- {2}, Cooldown <- 2,
    Conditions <- {{[kind |-> "Above", asset |-> x0, level |-> 12]}, {[kind |-> "Below", asset |-> x0, level |-> 8], [kind |-> "TimeAfter", asset |-> x0, level |-> 3]}, {[kind |-> "PriceDropRebound", asset |-> x0, level |-> 20]}, {[kind |-> "VolatilityBreakout", asset |-> x0, level |-> 20], [kind |-> "TimeAfter", asset |-> x0, level |-> 3]}},
    VisiblePct <- {30}, Entry <- 100, Sizes <- {1}, GridShape <- <<1,3,3,1>>,
    Precision <- 100, MaxNow <- 3, MaxFills <- 2, now <- nowPlan

Twap == INSTANCE ScheduledOrders WITH
    Keepers <- {k1}, Assets <- {x0}, Prices <- {1}, Orders <- {1},
    Amounts <- {3, 7, 10}, Segments <- {1, 3, 4}, Spans <- {2, 4, 6, 9}, Cooldown <- 2,
    Conditions <- {}, VisiblePct <- {30}, Entry <- 100, Sizes <- {1},
    GridShape <- <<1,3,3,1>>, Precision <- 100, MaxNow <- 12, MaxFills <- 2,
    now <- nowPlan

Berg == INSTANCE ScheduledOrders WITH
    Keepers <- {k1}, Assets <- {x0}, Prices <- {1, 2}, Orders <- {1, 2},
    Amounts <- {2, 10}, Segments <- {1}, Spans <- {1}, Cooldown <- 2, Conditions <- {},
    VisiblePct <- {30}, Entry <- 100, Sizes <- {1}, GridShape <- <<1,3,3,1>>,
    Precision <- 100, MaxNow <- 2, MaxFills <- 2, now <- nowPlan

Exits == INSTANCE ScheduledOrders WITH
    Keepers <- {k1}, Assets <- {x0}, Prices <- {80, 100, 119, 125, 150, 185, 260},
    Orders <- {1}, Amounts <- {1}, Segments <- {1}, Spans <- {1}, Cooldown <- 2,
    Conditions <- {}, VisiblePct <- {30}, Entry <- 100, Sizes <- {1, 2, 3, 10},
    GridShape <- <<1,3,3,1>>, Precision <- 100, MaxNow <- 3, MaxFills <- 2,
    now <- nowPlan

Grid == INSTANCE ScheduledOrders WITH
    Keepers <- {k1}, Assets <- {x0}, Prices <- {9, 15}, Orders <- {1},
    Amounts <- {1, 2}, Segments <- {1}, Spans <- {1}, Cooldown <- 2, Conditions <- {},
    VisiblePct <- {30}, Entry <- 100, Sizes <- {1}, GridShape <- <<8, 13, 3, 10>>,
    Precision <- 100, MaxNow <- 2, MaxFills <- 2, now <- nowPlan

Dca == INSTANCE ScheduledOrders WITH
    Keepers <- {k1}, Assets <- {x0}, Prices <- {3, 7}, Orders <- {1}, Amounts <- {2, 5},
    Segments <- {1}, Spans <- {1, 2}, Cooldown <- 2, Conditions <- {},
    VisiblePct <- {30}, Entry <- 100, Sizes <- {1}, GridShape <- <<1,3,3,1>>,
    Precision <- 100, MaxNow <- 4, MaxFills <- 2, now <- nowPlan

Guards == INSTANCE TradeGuards WITH
    Users <- {u1}, Assets <- 1..2, Price <- <<100, 200>>, Amounts <- {1, 2}, Hour <- 2,
    Day <- 3,
    Limits <- {[hourly |-> 2, hourlyVolume |-> 2, daily |-> 3, dailyVolume |-> 3, capacity |-> 3, min |-> 1, cooldown |-> 0]},
    CapSteps <- [most |-> 3, least |-> 1, step |-> 1, cooldown |-> 2], DailyCap <- 2,
    TradeLimit <- 2, MaxPct <- 100, Threshold <- 2,
    Breaker <- [sample |-> 2, failPct |-> 50, volume |-> 5, window |-> 2, priceWindow |-> 1],
    Expiry <- 5, Silence <- 2, Triggers <- {1, 2, 3}, MaxReferralTrades <- 2,
    MaxActive <- 3, Window <- 2, Timelock <- 1, Cooldown <- 2, MaxExecutions <- 2,
    MaxNow <- 6, MaxTrades <- 3, MaxCalls <- 2, now <- nowGuards, calls <- callsGuards
guardsVars == <<nowGuards, paused, callsGuards, acct, limits, inHour, listed, cb, admin, offer,
    guardian, operator, lastAction, keepers, oracles, entry, stats, escrow, moved,
    queue, nextId, props, execs, desk>>
GuardsIdle ==
    nowGuards = 0 /\ paused = 0 /\ callsGuards = 0 /\ acct = 0 /\ limits = 0 /\
    inHour = 0 /\ listed = 0 /\ cb = 0 /\ admin = 0 /\ offer = 0 /\ guardian = 0 /\
    operator = 0 /\ lastAction = 0 /\ keepers = 0 /\ oracles = 0 /\ entry = 0 /\
    stats = 0 /\ escrow = 0 /\ moved = 0 /\ queue = 0 /\ nextId = 0 /\ props = 0 /\
    execs = 0 /\ desk = 0
ASSUME GuardsAssumption == Guards!GuardsTyped

Roles == INSTANCE TradeGuards WITH
    Users <- {u1, u2}, Assets <- 1..2, Price <- <<100, 200>>, Amounts <- {1, 2},
    Hour <- 2, Day <- 3,
    Limits <- {[hourly |-> 2, hourlyVolume |-> 3, daily |-> 3, dailyVolume |-> 4, capacity |-> 4, min |-> 1, cooldown |-> 0], [hourly |-> 3, hourlyVolume |-> 2, daily |-> 4, dailyVolume |-> 5, capacity |-> 9, min |-> 1, cooldown |-> 1]},
    CapSteps <- [most |-> 3, least |-> 1, step |-> 1, cooldown |-> 2], DailyCap <- 2,
    TradeLimit <- 3, MaxPct <- 100, Threshold <- 2,
    Breaker <- [sample |-> 2, failPct |-> 50, volume |-> 5, window |-> 2, priceWindow |-> 1],
    Expiry <- 2, Silence <- 2, Triggers <- {1, 2, 3}, MaxReferralTrades <- 2,
    MaxActive <- 3, Window <- 2, Timelock <- 1, Cooldown <- 2, MaxExecutions <- 2,
    MaxNow <- 4, MaxTrades <- 4, MaxCalls <- 4, now <- nowGuards, calls <- callsGuards

Refer == INSTANCE TradeGuards WITH
    Users <- {u1, u2, u3}, Assets <- 1..2, Price <- <<100, 200>>, Amounts <- {1, 2},
    Hour <- 2, Day <- 3,
    Limits <- {[hourly |-> 2, hourlyVolume |-> 3, daily |-> 3, dailyVolume |-> 4, capacity |-> 4, min |-> 1, cooldown |-> 0], [hourly |-> 3, hourlyVolume |-> 2, daily |-> 4, dailyVolume |-> 5, capacity |-> 9, min |-> 1, cooldown |-> 1]},
    CapSteps <- [most |-> 3, least |-> 1, step |-> 1, cooldown |-> 2], DailyCap <- 2,
    TradeLimit <- 3, MaxPct <- 100, Threshold <- 2,
    Breaker <- [sample |-> 2, failPct |-> 50, volume |-> 5, window |-> 2, priceWindow |-> 1],
    Expiry <- 8, Silence <- 2, Triggers <- {1, 2, 3}, MaxReferralTrades <- 2,
    MaxActive <- 3, Window <- 2, Timelock <- 1, Cooldown <- 2, MaxExecutions <- 2,
    MaxNow <- 5, MaxTrades <- 3, MaxCalls <- 5, now <- nowGuards, calls <- callsGuards

Desk == INSTANCE TradeGuards WITH
    Users <- {u1}, Assets <- 1..1, Price <- <<2>>, Amounts <- {1, 2}, Hour <- 2,
    Day <- 3,
    Limits <- {[hourly |-> 2, hourlyVolume |-> 3, daily |-> 3, dailyVolume |-> 4, capacity |-> 4, min |-> 1, cooldown |-> 0], [hourly |-> 3, hourlyVolume |-> 2, daily |-> 4, dailyVolume |-> 5, capacity |-> 9, min |-> 1, cooldown |-> 1]},
    CapSteps <- [most |-> 3, least |-> 1, step |-> 1, cooldown |-> 2], DailyCap <- 2,
    TradeLimit <- 3, MaxPct <- 100, Threshold <- 2,
    Breaker <- [sample |-> 2, failPct |-> 50, volume |-> 5, window |-> 2, priceWindow |-> 1],
    Expiry <- 8, Silence <- 2, Triggers <- {1, 2, 3}, MaxReferralTrades <- 2,
    MaxActive <- 3, Window <- 2, Timelock <- 1, Cooldown <- 2, MaxExecutions <- 2,
    MaxNow <- 6, MaxTrades <- 4, MaxCalls <- 5, now <- nowGuards, calls <- callsGuards

Stops == INSTANCE TradeRisk WITH
    Assets <- 1..1, Prices <- {1, 7, 8, 9, 10, 12}, Amounts <- {2, 3},
    Liquidity <- {-1, 1}, Bps <- 100, Ring <- 2,
    Configs <- {[stop |-> 15, trailing |-> FALSE, trail |-> 10], [stop |-> 15, trailing |-> TRUE, trail |-> 10]},
    Thresholds <- {0, 25, 100}, Values <- {-1, 0, 3, 4}, Policies <- {}, Recovered <- 5,
    Unit <- 1, Frequency <- 1, Drift <- 5, MatrixTtl <- 2, Keys <- {}, Quotes <- {},
    Reference <- 1, Sources <- {}, Asks <- {}, Slippages <- {}, Registered <- TRUE,
    MaxNow <- 1, MaxCalls <- 4, now <- nowStops, calls <- callsStops,
    price <- priceStops, history <- historyStops
stopsVars == <<nowStops, callsStops, position, priceStops, historyStops, config, liquidity,
    trigger, peak, seen, insurance, parity, matrix, index, venue, registry, paired,
    failVenue, failed, last>>
StopsIdle ==
    nowStops = 0 /\ callsStops = 0 /\ position = 0 /\ priceStops = 0 /\
    historyStops = 0 /\ config = 0 /\ liquidity = 0 /\ trigger = 0 /\ peak = 0 /\
    seen = 0 /\ insurance = 0 /\ parity = 0 /\ matrix = 0 /\ index = 0 /\ venue = 0 /\
    registry = 0 /\ paired = 0 /\ failVenue = 0 /\ failed = 0 /\ last = 0
ASSUME StopsAssumption == Stops!RiskTyped

Hedge == INSTANCE TradeRisk WITH
    Assets <- 1..2, Prices <- {40, 130}, Amounts <- {4}, Liquidity <- {-1, 1},
    Bps <- 100, Ring <- 2, Configs <- {[stop |-> 15, trailing |-> FALSE, trail |-> 10]},
    Thresholds <- {0, 25, 100}, Values <- {-1, 0, 3, 4},
    Policies <- {[enabled |-> TRUE, max |-> 15, ratio |-> 50, band |-> 10], [enabled |-> FALSE, max |-> 15, ratio |-> 100, band |-> 0]},
    Recovered <- 5, Unit <- 1, Frequency <- 1, Drift <- 5, MatrixTtl <- 2, Keys <- {},
    Quotes <- {}, Reference <- 1, Sources <- {}, Asks <- {}, Slippages <- {},
    Registered <- TRUE, MaxNow <- 1, MaxCalls <- 8, now <- nowStops,
    calls <- callsStops, price <- priceStops, history <- historyStops

Parity == INSTANCE TradeRisk WITH
    Assets <- 1..2, Prices <- {2, 3, 7}, Amounts <- {1, 9}, Liquidity <- {-1, 1},
    Bps <- 20, Ring <- 3, Configs <- {[stop |-> 15, trailing |-> FALSE, trail |-> 10]},
    Thresholds <- {0, 25, 100}, Values <- {-1, 0, 3, 4}, Policies <- {}, Recovered <- 5,
    Unit <- 1000, Frequency <- 2, Drift <- 5, MatrixTtl <- 2, Keys <- {}, Quotes <- {},
    Reference <- 1, Sources <- {}, Asks <- {}, Slippages <- {}, Registered <- TRUE,
    MaxNow <- 2, MaxCalls <- 4, now <- nowStops, calls <- callsStops,
    price <- priceStops, history <- historyStops

Routes == INSTANCE TradeRisk WITH
    Assets <- 1..1, Prices <- {1, 7, 8, 9, 10, 12}, Amounts <- {2, 3},
    Liquidity <- {-1, 1}, Bps <- 100, Ring <- 2,
    Configs <- {[stop |-> 15, trailing |-> FALSE, trail |-> 10]},
    Thresholds <- {0, 25, 100}, Values <- {-1, 0, 3, 4}, Policies <- {}, Recovered <- 5,
    Unit <- 1, Frequency <- 1, Drift <- 5, MatrixTtl <- 2,
    Keys <- {<<"Sdex", 1>>, <<"Pool", 1>>},
    Quotes <- {[left |-> 2, price |-> 100, fee |-> 1, slip |-> 10], [left |-> 4, price |-> 104, fee |-> 0, slip |-> 2]},
    Reference <- 100, Sources <- {<<"BridgePool", 1>>},
    Asks <- {[qty |-> 1, price |-> 100], [qty |-> 4, price |-> 90]},
    Slippages <- {3, 10}, Registered <- TRUE, MaxNow <- 1, MaxCalls <- 5,
    now <- nowStops, calls <- callsStops, price <- priceStops, history <- historyStops

vars == <<part, statarbVars, planVars, guardsVars, stopsVars>>

Init ==
    \/ part = "statarb" /\ Stat!Init /\ PlanIdle /\ GuardsIdle /\ StopsIdle
    \/ part = "pairs" /\ Pairs!Init /\ PlanIdle /\ GuardsIdle /\ StopsIdle
    \/ part = "reversion" /\ Revert!Init /\ PlanIdle /\ GuardsIdle /\ StopsIdle
    \/ part = "plan" /\ Plan!Init /\ StatIdle /\ GuardsIdle /\ StopsIdle
    \/ part = "cond" /\ Cond!Init /\ StatIdle /\ GuardsIdle /\ StopsIdle
    \/ part = "twap" /\ Twap!Init /\ StatIdle /\ GuardsIdle /\ StopsIdle
    \/ part = "iceberg" /\ Berg!Init /\ StatIdle /\ GuardsIdle /\ StopsIdle
    \/ part = "exits" /\ Exits!Init /\ StatIdle /\ GuardsIdle /\ StopsIdle
    \/ part = "grid" /\ Grid!Init /\ StatIdle /\ GuardsIdle /\ StopsIdle
    \/ part = "dca" /\ Dca!Init /\ StatIdle /\ GuardsIdle /\ StopsIdle
    \/ part = "guards" /\ Guards!Init /\ StatIdle /\ PlanIdle /\ StopsIdle
    \/ part = "roles" /\ Roles!Init /\ StatIdle /\ PlanIdle /\ StopsIdle
    \/ part = "referral" /\ Refer!Init /\ StatIdle /\ PlanIdle /\ StopsIdle
    \/ part = "desk" /\ Desk!Init /\ StatIdle /\ PlanIdle /\ StopsIdle
    \/ part = "stops" /\ Stops!Init /\ StatIdle /\ PlanIdle /\ GuardsIdle
    \/ part = "hedges" /\ Hedge!Init /\ StatIdle /\ PlanIdle /\ GuardsIdle
    \/ part = "parity" /\ Parity!Init /\ StatIdle /\ PlanIdle /\ GuardsIdle
    \/ part = "routes" /\ Routes!Init /\ StatIdle /\ PlanIdle /\ GuardsIdle
StatNext ==
    /\ part = "statarb" /\ Stat!StatArbNext
    /\ UNCHANGED <<part, planVars, guardsVars, stopsVars>>
PairsNext ==
    /\ part = "pairs" /\ Pairs!PairsNext
    /\ UNCHANGED <<part, planVars, guardsVars, stopsVars>>
RevertNext ==
    /\ part = "reversion" /\ Revert!ReversionNext
    /\ UNCHANGED <<part, planVars, guardsVars, stopsVars>>
PlanNext ==
    /\ part = "plan" /\ Plan!PlanNext
    /\ UNCHANGED <<part, statarbVars, guardsVars, stopsVars>>
CondNext ==
    /\ part = "cond" /\ Cond!CondNext
    /\ UNCHANGED <<part, statarbVars, guardsVars, stopsVars>>
TwapNext ==
    /\ part = "twap" /\ Twap!TwapNext
    /\ UNCHANGED <<part, statarbVars, guardsVars, stopsVars>>
BergNext ==
    /\ part = "iceberg" /\ Berg!BergNext
    /\ UNCHANGED <<part, statarbVars, guardsVars, stopsVars>>
ExitsNext ==
    /\ part = "exits" /\ Exits!ExitNext
    /\ UNCHANGED <<part, statarbVars, guardsVars, stopsVars>>
GridNext ==
    /\ part = "grid" /\ Grid!GridNext
    /\ UNCHANGED <<part, statarbVars, guardsVars, stopsVars>>
DcaNext ==
    /\ part = "dca" /\ Dca!DcaNext
    /\ UNCHANGED <<part, statarbVars, guardsVars, stopsVars>>
GuardsNext ==
    /\ part = "guards" /\ Guards!GuardNext
    /\ UNCHANGED <<part, statarbVars, planVars, stopsVars>>
RolesNext ==
    /\ part = "roles" /\ Roles!RoleNext
    /\ UNCHANGED <<part, statarbVars, planVars, stopsVars>>
ReferNext ==
    /\ part = "referral" /\ Refer!ReferralNext
    /\ UNCHANGED <<part, statarbVars, planVars, stopsVars>>
DeskNext ==
    /\ part = "desk" /\ Desk!DeskNext
    /\ UNCHANGED <<part, statarbVars, planVars, stopsVars>>
StopsNext ==
    /\ part = "stops" /\ Stops!StopNext
    /\ UNCHANGED <<part, statarbVars, planVars, guardsVars>>
HedgeNext ==
    /\ part = "hedges" /\ Hedge!HedgeNext
    /\ UNCHANGED <<part, statarbVars, planVars, guardsVars>>
ParityNext ==
    /\ part = "parity" /\ Parity!ParityNext
    /\ UNCHANGED <<part, statarbVars, planVars, guardsVars>>
RoutesNext ==
    /\ part = "routes" /\ Routes!RouteNext
    /\ UNCHANGED <<part, statarbVars, planVars, guardsVars>>
Next == StatNext \/ PairsNext \/ RevertNext \/ PlanNext \/ CondNext \/ TwapNext \/ BergNext \/ ExitsNext \/ GridNext \/ DcaNext \/ GuardsNext \/ RolesNext \/ ReferNext \/ DeskNext \/ StopsNext \/ HedgeNext \/ ParityNext \/ RoutesNext
Spec == Init /\ [][Next]_vars

-----------------------------------------------------------------------------
(* What a strategy holds is what it opened: positions within their slots,  *)
(* sides and capital, slices within their order, and flags that agree with *)
(* the records.                                                            *)
AutoAccounted ==
    /\ part = "statarb" => Stat!FolioHedged
    /\ part = "reversion" => Revert!ReversionSlotted
    /\ part = "plan" => Plan!ScheduleKept
    /\ part = "cond" => Cond!PendingListed
    /\ part = "twap" => Twap!SegmentsWithinOrder
    /\ part = "iceberg" => Berg!FillsAccounted
    /\ part = "exits" => Exits!ExitAccounted
    /\ part = "grid" => Grid!GridOnLevels
    /\ part = "dca" => Dca!PurchasesAccounted
    /\ part = "guards" => Guards!DailyLimitsHold /\ Guards!StreakGuarded
    /\ part = "referral" => Refer!ReferralsSound
    /\ part = "desk" => Desk!DeskSound
    /\ part = "stops" => Stops!PeaksKept
    /\ part = "parity" => Parity!CorrelationBounded
    /\ part = "routes" => Routes!RouteAccounted
(* Correlation of a series with itself is one, or zero when it does not    *)
(* move; the root is the integer one.                                      *)
StatisticsSound ==
    /\ part = "statarb" => Stat!StatisticsSound
    /\ part = "pairs" => Pairs!StatisticsSound
(* A position is left by its own rule, keeps its terms while it is open,   *)
(* and is not open again once closed.                                      *)
AutoStepsByRule == [][
    /\ part = "statarb" => Stat!FolioKept
    /\ part = "pairs" => Pairs!PairClosedByRule
    /\ part = "reversion" => Revert!ReversionFinal
    /\ part = "plan" => Plan!PlanByRule
    /\ part = "cond" => Cond!CondByRule
    /\ part = "exits" => Exits!ExitByRule
    /\ part = "guards" => Guards!TradesByRule
    /\ part = "roles" => Roles!RolesByRule
    /\ part = "stops" => Stops!StopsHonoured
    /\ part = "hedges" => Hedge!HedgesByRule
    /\ part = "parity" => Parity!ParityByRule
    /\ part = "routes" => Routes!DebitsWithinOrder
    ]_vars
=============================================================================
