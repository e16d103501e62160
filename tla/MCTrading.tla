------------------------------ MODULE MCTrading ------------------------------
(***************************************************************************)
(* The trade executor and the portfolios for TLC: each behaviour runs one  *)
(* part, chosen in the initial state, with the small sets and bounds of    *)
(* its INSTANCE.                                                           *)
(***************************************************************************)
EXTENDS Integers, Portfolio

CONSTANTS
    u1, u2

Results == {-1, 1}

VARIABLES
    part,
    nowDirect, wallet, priceDirect, cfg, paused, breaker, exempt, book, queued,
    queueIds, dead, deadIds, deadOf, orders, orderIds, callback, partial, done,
    nowSettle, order, fills, priceSettle, seenAt, stop, profit, trail, peak, position,
    count, watch, plan, held, invested, reserve, settled, counter, served

Direct == INSTANCE CopyTrading WITH
    Users <- {u1}, Amounts <- {1, 2}, Balances <- {15}, Prices <- {1},
    LimitPrices <- {1}, Fee <- 2, MinSize <- 2, PctBps <- {0, 2000},
    DailyLimits <- {0, 4}, InterestCaps <- {4}, PositionCaps <- {2}, Graces <- {1},
    Retries <- {1}, Depths <- {1}, PortfolioCap <- 1, Retention <- 1, BreakerSpan <- 2,
    OrderSpan <- 1, Day <- 2, MaxTime <- 4, MaxTrades <- 1, MaxOrders <- 1,
    MaxExecuted <- 4, now <- nowDirect, price <- priceDirect
directVars == <<nowDirect, wallet, priceDirect, cfg, paused, breaker, exempt, book, queued,
    queueIds, dead, deadIds, deadOf, orders, orderIds, callback, partial, done>>
DirectIdle ==
    nowDirect = 0 /\ wallet = 0 /\ priceDirect = 0 /\ cfg = 0 /\ paused = 0 /\
    breaker = 0 /\ exempt = 0 /\ book = 0 /\ queued = 0 /\ queueIds = 0 /\ dead = 0 /\
    deadIds = 0 /\ deadOf = 0 /\ orders = 0 /\ orderIds = 0 /\ callback = 0 /\
    partial = 0 /\ done = 0
ASSUME DirectAssumption == Direct!CopyTyped

Waiting == INSTANCE CopyTrading WITH
    Users <- {u1, u2}, Amounts <- {2}, Balances <- {1, 20}, Prices <- {1},
    LimitPrices <- {1}, Fee <- 2, MinSize <- 1, PctBps <- {0, 2000}, DailyLimits <- {4},
    InterestCaps <- {0}, PositionCaps <- {1}, Graces <- {1}, Retries <- {2},
    Depths <- {1}, PortfolioCap <- 1, Retention <- 1, BreakerSpan <- 2, OrderSpan <- 1,
    Day <- 2, MaxTime <- 4, MaxTrades <- 2, MaxOrders <- 1, MaxExecuted <- 2,
    now <- nowDirect, price <- priceDirect

Limited == INSTANCE CopyTrading WITH
    Users <- {u1, u2}, Amounts <- {2}, Balances <- {1, 20}, Prices <- {1, 2},
    LimitPrices <- {1, 2}, Fee <- 2, MinSize <- 1, PctBps <- {2000}, DailyLimits <- {4},
    InterestCaps <- {4}, PositionCaps <- {2}, Graces <- {1}, Retries <- {1},
    Depths <- {1}, PortfolioCap <- 2, Retention <- 1, BreakerSpan <- 2, OrderSpan <- 2,
    Day <- 2, MaxTime <- 5, MaxTrades <- 1, MaxOrders <- 3, MaxExecuted <- 3,
    now <- nowDirect, price <- priceDirect

Confirmed == INSTANCE CopyTrading WITH
    Users <- {u1}, Amounts <- {1}, Balances <- {3}, Prices <- {1}, LimitPrices <- {1},
    Fee <- 2, MinSize <- 1, PctBps <- {0, 3000}, DailyLimits <- {0},
    InterestCaps <- {4}, PositionCaps <- {3}, Graces <- {1}, Retries <- {1},
    Depths <- {0, 1, 2}, PortfolioCap <- 3, Retention <- 1, BreakerSpan <- 2,
    OrderSpan <- 1, Day <- 2, MaxTime <- 5, MaxTrades <- 2, MaxOrders <- 1,
    MaxExecuted <- 3, now <- nowDirect, price <- priceDirect

Settle == INSTANCE TradeOrders WITH
    Requests <- {3}, Fills <- {0, 1, 2, 3}, Deadlines <- {0, 3}, Bounds <- {0, 1},
    Inputs <- {1, 2}, Prices <- {5}, Stops <- {5, 8}, TrailBps <- {2000}, PriceAge <- 1,
    Totals <- {5}, Intervals <- {2, 3}, Spacing <- 2, PortfolioCap <- 2,
    Expiries <- {0, 6}, Collaterals <- {0, 5, 10, 11}, Debts <- {0, 10}, Reserve <- 8,
    MinRatioBps <- 11000, Followers <- {"f1", "f2", "f3", "f4"},
    Preferred <- {"f1", "f2"}, Window <- 0, MaxTime <- 4, MaxOrders <- 1, MaxFills <- 3,
    MaxDebts <- 3, now <- nowSettle, price <- priceSettle
settlementVars == <<nowSettle, order, fills, priceSettle, seenAt, stop, profit, trail, peak, position,
    count, watch, plan, held, invested, reserve, settled, counter, served>>
SettleIdle ==
    nowSettle = 0 /\ order = 0 /\ fills = 0 /\ priceSettle = 0 /\ seenAt = 0 /\
    stop = 0 /\ profit = 0 /\ trail = 0 /\ peak = 0 /\ position = 0 /\ count = 0 /\
    watch = 0 /\ plan = 0 /\ held = 0 /\ invested = 0 /\ reserve = 0 /\ settled = 0 /\
    counter = 0 /\ served = 0
ASSUME SettleAssumption == Settle!OrdersTyped

Trig == INSTANCE TradeOrders WITH
    Requests <- {3}, Fills <- {0, 1, 2, 3}, Deadlines <- {0, 3}, Bounds <- {0, 1},
    Inputs <- {1}, Prices <- {5, 8, 10}, Stops <- {5, 8}, TrailBps <- {2000},
    PriceAge <- 1, Totals <- {5}, Intervals <- {2, 3}, Spacing <- 2, PortfolioCap <- 2,
    Expiries <- {0, 6}, Collaterals <- {0, 5, 10, 11}, Debts <- {0, 10}, Reserve <- 8,
    MinRatioBps <- 11000, Followers <- {"f1", "f2", "f3", "f4"},
    Preferred <- {"f1", "f2"}, Window <- 0, MaxTime <- 4, MaxOrders <- 2, MaxFills <- 3,
    MaxDebts <- 3, now <- nowSettle, price <- priceSettle

Plan == INSTANCE TradeOrders WITH
    Requests <- {3}, Fills <- {0, 1, 2, 3}, Deadlines <- {0, 3}, Bounds <- {0, 1},
    Inputs <- {1}, Prices <- {5, 8, 10}, Stops <- {5, 8}, TrailBps <- {2000},
    PriceAge <- 1, Totals <- {5}, Intervals <- {2, 3}, Spacing <- 2, PortfolioCap <- 2,
    Expiries <- {0, 6}, Collaterals <- {0, 5, 10, 11}, Debts <- {0, 10}, Reserve <- 8,
    MinRatioBps <- 11000, Followers <- {"f1", "f2", "f3", "f4"},
    Preferred <- {"f1", "f2"}, Window <- 0, MaxTime <- 8, MaxOrders <- 2, MaxFills <- 3,
    MaxDebts <- 3, now <- nowSettle, price <- priceSettle

Debt == INSTANCE TradeOrders WITH
    Requests <- {3}, Fills <- {0, 1, 2, 3}, Deadlines <- {0, 3}, Bounds <- {0, 1},
    Inputs <- {1}, Prices <- {5, 8, 10}, Stops <- {5, 8}, TrailBps <- {2000},
    PriceAge <- 1, Totals <- {5}, Intervals <- {2, 3}, Spacing <- 2, PortfolioCap <- 2,
    Expiries <- {0, 6}, Collaterals <- {0, 5, 10, 11}, Debts <- {0, 10}, Reserve <- 8,
    MinRatioBps <- 11000, Followers <- {"f1", "f2", "f3", "f4"},
    Preferred <- {"f1", "f2"}, Window <- 0, MaxTime <- 8, MaxOrders <- 2, MaxFills <- 3,
    MaxDebts <- 3, now <- nowSettle, price <- priceSettle

HoldingsIdle == PortfolioInit /\ legacy = 0

Batch == INSTANCE TradeOrders WITH
    Requests <- {3}, Fills <- {0, 1, 2, 3}, Deadlines <- {0, 3}, Bounds <- {0, 1},
    Inputs <- {1}, Prices <- {5, 8, 10}, Stops <- {5, 8}, TrailBps <- {2000},
    PriceAge <- 1, Totals <- {5}, Intervals <- {2, 3}, Spacing <- 2, PortfolioCap <- 2,
    Expiries <- {0, 6}, Collaterals <- {0, 5, 10, 11}, Debts <- {0, 10}, Reserve <- 8,
    MinRatioBps <- 11000, Followers <- {"f1", "f2", "f3", "f4"},
    Preferred <- {"f1", "f2"}, Window <- 3, MaxTime <- 8, MaxOrders <- 2, MaxFills <- 3,
    MaxDebts <- 3, now <- nowSettle, price <- priceSettle

vars == <<part, directVars, settlementVars, portfolioVars>>

Init ==
    \/ part = "direct" /\ Direct!Init /\ SettleIdle /\ HoldingsIdle
    \/ part = "queue" /\ Waiting!Init /\ SettleIdle /\ HoldingsIdle
    \/ part = "limit" /\ Limited!Init /\ SettleIdle /\ HoldingsIdle
    \/ part = "confirm" /\ Confirmed!Init /\ SettleIdle /\ HoldingsIdle
    \/ part = "settlement" /\ Settle!Init /\ DirectIdle /\ HoldingsIdle
    \/ part = "triggers" /\ Trig!Init /\ DirectIdle /\ HoldingsIdle
    \/ part = "plans" /\ Plan!Init /\ DirectIdle /\ HoldingsIdle
    \/ part = "debts" /\ Debt!Init /\ DirectIdle /\ HoldingsIdle
    \/ part = "held" /\ PortfolioInit /\ DirectIdle /\ SettleIdle
    \/ part = "rules" /\ PortfolioInit /\ DirectIdle /\ SettleIdle
    \/ part = "caps" /\ PortfolioInit /\ DirectIdle /\ SettleIdle
    \/ part = "tags" /\ PortfolioInit /\ DirectIdle /\ SettleIdle
    \/ part = "books" /\ PortfolioInit /\ DirectIdle /\ SettleIdle
    \/ part = "subscriptions" /\ PortfolioInit /\ DirectIdle /\ SettleIdle
    \/ part = "batches" /\ Batch!Init /\ DirectIdle /\ HoldingsIdle
DirectNext ==
    /\ part = "direct" /\ Direct!DirectNext
    /\ UNCHANGED <<part, settlementVars, portfolioVars>>
WaitingNext ==
    /\ part = "queue" /\ Waiting!QueueNext
    /\ UNCHANGED <<part, settlementVars, portfolioVars>>
LimitedNext ==
    /\ part = "limit" /\ Limited!OrderNext
    /\ UNCHANGED <<part, settlementVars, portfolioVars>>
ConfirmedNext ==
    /\ part = "confirm" /\ Confirmed!ConfirmNext
    /\ UNCHANGED <<part, settlementVars, portfolioVars>>
SettleNext ==
    /\ part = "settlement" /\ Settle!SettlementNext
    /\ UNCHANGED <<part, directVars, portfolioVars>>
TrigNext ==
    /\ part = "triggers" /\ Trig!TriggerNext
    /\ UNCHANGED <<part, directVars, portfolioVars>>
PlanNext ==
    /\ part = "plans" /\ Plan!PlanNext
    /\ UNCHANGED <<part, directVars, portfolioVars>>
DebtNext ==
    /\ part = "debts" /\ Debt!DebtNext
    /\ UNCHANGED <<part, directVars, portfolioVars>>
HoldingsNext ==
    /\ part = "held" /\ PositionNext
    /\ UNCHANGED <<part, directVars, settlementVars>>
RulesNext ==
    /\ part = "rules" /\ RuleNext
    /\ UNCHANGED <<part, directVars, settlementVars>>
CapsNext ==
    /\ part = "caps" /\ CapNext
    /\ UNCHANGED <<part, directVars, settlementVars>>
TaggingNext ==
    /\ part = "tags" /\ TagNext
    /\ UNCHANGED <<part, directVars, settlementVars>>
BooksNext ==
    /\ part = "books" /\ BookNext
    /\ UNCHANGED <<part, directVars, settlementVars>>
SubscribedNext ==
    /\ part = "subscriptions" /\ SubscribeNext
    /\ UNCHANGED <<part, directVars, settlementVars>>
BatchNext ==
    /\ part = "batches" /\ Batch!DebtNext
    /\ UNCHANGED <<part, directVars, portfolioVars>>
Next == DirectNext \/ WaitingNext \/ LimitedNext \/ ConfirmedNext \/ SettleNext \/ TrigNext \/ PlanNext \/ DebtNext \/ HoldingsNext \/ RulesNext \/ CapsNext \/ TaggingNext \/ BooksNext \/ SubscribedNext \/ BatchNext
Spec == Init /\ [][Next]_vars

-----------------------------------------------------------------------------
(* No path - direct, batched, queued or limit - trades past the daily      *)
(* limit, the open-interest cap or the position caps, and                  *)
(* simulate_copy_trade says of every trade what executing it would do.     *)
TradesBounded ==
    /\ part = "direct" => 
        /\ Direct!TradedWithinLimit
        /\ Direct!InterestCapped
        /\ Direct!SimulationHonest
    /\ part = "queue" => Waiting!TradedWithinLimit /\ Waiting!PositionsCapped
    /\ part = "limit" => Limited!TradedWithinLimit
    /\ part = "confirm" => Confirmed!SimulationHonest
(* Every trade and order is in one place: queued trades and their dead     *)
(* letters, limit orders filled once at their limit, settlement orders and *)
(* their fills, paced DCA plans, debts settled once, batches served once;  *)
(* cost lots are what was bought and not closed, subscriptions last as     *)
(* paid.                                                                   *)
OrdersAccounted ==
    /\ part = "queue" => Waiting!TradesInOnePlace
    /\ part = "limit" => Limited!FilledAtLimit
    /\ part = "settlement" => Settle!SettledIsFills
    /\ part = "plans" => Plan!DcaPaced
    /\ part = "debts" => Debt!ReservePaysShortfall /\ Debt!BatchServedOnce
    /\ part = "batches" => Batch!BatchServedOnce
    /\ part = "held" => PortfolioTypeOK
    /\ part = "rules" => PortfolioTypeOK
    /\ part = "caps" => PortfolioTypeOK
    /\ part = "tags" => PortfolioTypeOK
    /\ part = "books" => BooksSound
    /\ part = "subscriptions" => SubscribedAsPaid
(* What is executed, cancelled, discarded, settled or closed stays so; a   *)
(* trade is final only deep and whole; keepers close a position once, on a *)
(* fresh price and by its rule.                                            *)
TradeStepsByRule == [][
    /\ part = "queue" => Waiting!FatesStand
    /\ part = "confirm" => Confirmed!FinalIsDeepAndWhole
    /\ part = "settlement" => Settle!ClosedStays
    /\ part = "triggers" => Trig!ClosedByRule
    /\ part = "held" => PositionsByRule
    /\ part = "rules" => PositionsByRule
    /\ part = "caps" => PositionsByRule
    /\ part = "books" => OldestFirst
    ]_vars
=============================================================================
