-------------------------- MODULE ScheduledOrders --------------------------
(***************************************************************************)
(* Orders of auto_trade that live over many ledgers: keeper-run plans      *)
(* (plan_lifecycle.rs), conditional orders (conditional.rs), TWAP slices   *)
(* (twap.rs), iceberg orders (iceberg.rs), exit strategies                 *)
(* (exit_strategy.rs), the grid (strategies/grid.rs) and dollar-cost       *)
(* averaging (strategies/dca.rs).  One clock stands for ledger sequence    *)
(* and timestamp; `quote' is the price the oracle last wrote per asset.    *)
(***************************************************************************)
EXTENDS Integers, FiniteSets, Sequences

CONSTANTS
    Keepers,      \* registered keepers
    Assets,       \* assets with a quote; 0 is no quote
    Prices,       \* quotes the oracle may write
    Orders,       \* order identifiers, 1..n
    Amounts,      \* order sizes
    Segments,     \* number of segments of a TWAP order
    Spans,        \* durations, intervals and lease lengths
    Cooldown,     \* recovery cooldown in ledgers
    Conditions,   \* the sets of conditions an order may carry
    VisiblePct,   \* share of an iceberg order shown, per cent
    Entry,        \* entry price of an exit strategy
    Sizes,        \* position sizes of an exit strategy
    GridShape,    \* <<lower, upper, levels, capital>>
    Precision,    \* PRECISION of dca.rs
    MaxNow,       \* bound: the clock
    MaxFills      \* bound: fills, purchases and lease epochs

ScheduledTyped ==
    /\ Prices \subseteq Nat \ {0} /\ Amounts \subseteq Nat \ {0} /\ Spans \subseteq Nat \ {0}
    /\ Orders \subseteq Nat \ {0} /\ Cooldown \in Nat \ {0} /\ Precision \in Nat \ {0}

VARIABLES
    now, quote,
    plan, lease, epoch, policy, ran,    \* a plan, its lease, the intervals it accounted for
    cond, active,                       \* conditional orders, the ActiveOrders list
    twap, points,                       \* a TWAP order, the recorded price points
    berg, sdex, current, fills,         \* icebergs, SdexToIceberg, CurrentSdexOrder, fills
    exit, sold,                         \* an exit strategy, what it has sold
    grid, filledGrid,                   \* the grid, its filled orders
    dca, bought                         \* a dca strategy, its purchases

planVars == <<plan, lease, epoch, policy, ran>>
condVars == <<cond, active>>
twapVars == <<twap, points>>
bergVars == <<berg, sdex, current, fills>>
exitVars == <<exit, sold>>
gridVars == <<grid, filledGrid>>
dcaVars  == <<dca, bought>>
market   == <<now, quote>>
vars == <<market, planVars, condVars, twapVars, bergVars, exitVars, gridVars, dcaVars>>

None == [absent |-> TRUE]
SumOf(s) == LET S[i \in 0..Len(s)] == IF i = 0 THEN 0 ELSE S[i - 1] + s[i] IN S[Len(s)]
Least(S) == CHOOSE x \in S : \A y \in S : x <= y
Greater(a, b) == IF a > b THEN a ELSE b

Init ==
    /\ now = 1 /\ quote = [a \in Assets |-> 0]
    /\ plan = None /\ lease = None /\ epoch = 0 /\ policy = "unset"
    /\ ran = [first |-> 0, scheduled |-> 0, executed |-> 0]
    /\ cond = [i \in Orders |-> None] /\ active = <<>>
    /\ twap = None /\ points = <<>>
    /\ berg = [i \in Orders |-> None] /\ sdex = <<>> /\ current = [i \in Orders |-> 0] /\ fills = [i \in Orders |-> <<>>]
    /\ exit = None /\ sold = 0
    /\ grid = None /\ filledGrid = <<>>
    /\ dca = None /\ bought = <<>>

(* The ledger closes; the oracle writes a quote. *)
Tick == now < MaxNow /\ now' = now + 1 /\ UNCHANGED quote
SetQuote(a, p) == quote' = [quote EXCEPT ![a] = p] /\ UNCHANGED now

-----------------------------------------------------------------------------
(* plan_lifecycle.rs *)

create_plan(interval) ==
    /\ plan = None
    /\ plan' = [status |-> "Draft", interval |-> interval, next |-> 0, release |-> 0]
    /\ UNCHANGED <<lease, epoch, policy, ran>>

(* Fault: a tripped plan is activated without waiting. *)
ActivateAtOnce ==
    plan # None /\ plan.status \in {"Draft", "Tripped"}
(* check_activation (asset, oracle, risk limit, balance) is the caller's   *)
(* luck: an activation that fails it changes nothing.                      *)
ReadyToActivate ==
    plan # None /\ (plan.status = "Draft" \/ (plan.status = "Tripped" /\ now >= plan.release))
activate_plan ==
    /\ ReadyToActivate
    /\ plan' = [plan EXCEPT !.status = "Active", !.next = IF @ = 0 THEN now + plan.interval ELSE @]
    /\ ran' = [ran EXCEPT !.first = IF plan.next = 0 THEN now + plan.interval ELSE @]
    /\ UNCHANGED <<lease, epoch, policy>>
trip_drawdown ==
    /\ plan # None /\ plan.status = "Active"
    /\ plan' = [plan EXCEPT !.status = "Tripped", !.release = now + Cooldown]
    /\ UNCHANGED <<lease, epoch, policy, ran>>
(* Fault: the lease survives. *)
DisableKeepsLease ==
    /\ plan # None /\ plan.status # "EmergencyDisabled"
    /\ plan' = [plan EXCEPT !.status = "EmergencyDisabled"]
    /\ UNCHANGED <<lease, epoch, policy, ran>>
emergency_disable ==
    /\ plan # None /\ plan.status # "EmergencyDisabled"
    /\ plan' = [plan EXCEPT !.status = "EmergencyDisabled"]
    /\ lease' = None
    /\ UNCHANGED <<epoch, policy, ran>>
clear_emergency_disable ==
    /\ plan # None /\ plan.status = "EmergencyDisabled"
    /\ plan' = [plan EXCEPT !.status = "Draft"]
    /\ UNCHANGED <<lease, epoch, policy, ran>>

lease_live == lease # None /\ now < lease.expires
acquire_lease(k, d) ==
    /\ plan # None /\ plan.status = "Active"
    /\ ~(lease_live /\ lease.keeper # k) /\ epoch < MaxFills
    /\ epoch' = epoch + 1
    /\ lease' = [keeper |-> k, expires |-> now + d, epoch |-> epoch + 1]
    /\ UNCHANGED <<plan, policy, ran>>
(* Fault: the expiry is not looked at. *)
LeaseNeverExpires(k, e) == lease # None /\ lease.keeper = k /\ lease.epoch = e
(* The keeper presents the epoch it was given. *)
require_live_lease(k, e) == lease_live /\ lease.keeper = k /\ lease.epoch = e
renew_lease(k, e, d) ==
    /\ require_live_lease(k, e)
    /\ lease' = [lease EXCEPT !.expires = now + d]
    /\ UNCHANGED <<plan, epoch, policy, ran>>
finalize_with_lease(k, e) ==
    /\ require_live_lease(k, e)
    /\ lease' = None
    /\ UNCHANGED <<plan, epoch, policy, ran>>
set_catch_up_policy(p) ==
    /\ plan # None /\ policy = "unset"
    /\ policy' = p
    /\ UNCHANGED <<plan, lease, epoch, ran>>

(* Fault: the next date is one interval from now. *)
DriftFromNow(next, interval, p) ==
    [scheduled |-> ((now - next) \div interval) + 1, next |-> now + interval, executed |-> 1]
(* Whole intervals only: the schedule never drifts from its first date. *)
compute_drift(next, interval, p) ==
    LET scheduled == ((now - next) \div interval) + 1
    IN  [scheduled |-> scheduled, next |-> next + scheduled * interval,
         executed |-> IF p = "Coalesce" THEN scheduled ELSE 1]
process_dca_tick(k, e) ==
    /\ require_live_lease(k, e)
    /\ plan.status = "Active" /\ now >= plan.next
    /\ LET d == compute_drift(plan.next, plan.interval, policy)
       IN  /\ plan' = [plan EXCEPT !.next = d.next]
           /\ ran' = [ran EXCEPT !.scheduled = @ + d.scheduled, !.executed = @ + d.executed]
    /\ UNCHANGED <<lease, epoch, policy>>

PlanSwitches == activate_plan \/ trip_drawdown \/ emergency_disable \/ clear_emergency_disable
LeaseCalls ==
    \/ \E k \in Keepers, d \in Spans : acquire_lease(k, d)
    \/ \E k \in Keepers, e \in 1..epoch : finalize_with_lease(k, e) \/ \E d \in Spans : renew_lease(k, e, d)
    \/ \E p \in {"Skip", "Coalesce"} : set_catch_up_policy(p)

PlanSteps ==
    \/ \E d \in Spans : create_plan(d)
    \/ PlanSwitches \/ LeaseCalls
    \/ \E k \in Keepers, e \in 1..epoch : process_dca_tick(k, e)

-----------------------------------------------------------------------------
(* conditional.rs *)

create_conditional_order(i, a, conds, logic, d) ==
    /\ cond[i] = None /\ \A j \in Orders : j < i => cond[j] # None
    /\ cond' = [cond EXCEPT ![i] = [asset |-> a, conds |-> conds, logic |-> logic, status |-> "Pending",
                   expires |-> now + d, ref |-> quote[a], trough |-> quote[a]]]
    /\ active' = Append(active, i)
Without(s, i) == SelectSeq(s, LAMBDA j : j # i)
cancel_conditional_order(i) ==
    /\ cond[i] # None /\ cond[i].status = "Pending"
    /\ cond' = [cond EXCEPT ![i].status = "Cancelled"]
    /\ active' = Without(active, i)

(* A rebound is measured on the condition's own asset against the          *)
(* reference and trough of the order's asset, as the code does.            *)
eval_condition(c, o) ==
    CASE c.kind = "Above" -> quote[c.asset] # 0 /\ quote[c.asset] >= c.level
      [] c.kind = "Below" -> quote[c.asset] # 0 /\ quote[c.asset] <= c.level
      [] c.kind = "TimeAfter" -> now >= c.level
      [] c.kind = "PriceDropRebound" ->
            /\ quote[c.asset] # 0 /\ o.ref # 0 /\ o.trough # 0
            /\ o.trough <= (o.ref * (100 - c.level)) \div 100
            /\ quote[c.asset] >= (o.trough * (100 + c.level)) \div 100
      [] c.kind = "VolatilityBreakout" ->
            /\ quote[c.asset] # 0 /\ o.ref # 0
            /\ (IF quote[c.asset] > o.ref THEN quote[c.asset] - o.ref ELSE o.ref - quote[c.asset]) * 100 >= o.ref * c.level
all_triggered(o) ==
    IF o.logic = "And" THEN \A c \in o.conds : eval_condition(c, o) ELSE \E c \in o.conds : eval_condition(c, o)
Lowered(o) ==
    LET p == quote[o.asset] IN IF p > 0 /\ (o.trough = 0 \/ p < o.trough) THEN [o EXCEPT !.trough = p] ELSE o
(* Fault: conditions are looked at before the expiry. *)
SweepLate(o) ==
    LET l == Lowered(o) IN
    IF all_triggered(l) THEN [l EXCEPT !.status = "Triggered"]
    ELSE IF now >= o.expires THEN [l EXCEPT !.status = "Expired"] ELSE l
Sweep(o) ==
    IF now >= o.expires THEN [o EXCEPT !.status = "Expired"]
    ELSE LET l == Lowered(o) IN IF all_triggered(l) THEN [l EXCEPT !.status = "Triggered"] ELSE l
Listed == {active[k] : k \in DOMAIN active}
check_and_trigger ==
    /\ cond' = [i \in Orders |-> IF i \in Listed /\ cond[i].status = "Pending" THEN Sweep(cond[i]) ELSE cond[i]]
    /\ active' = SelectSeq(active, LAMBDA i : cond'[i].status = "Pending")
mark_executed(i) ==
    /\ cond[i] # None /\ cond[i].status = "Triggered"
    /\ cond' = [cond EXCEPT ![i].status = "Executed"]
    /\ UNCHANGED active

OwnerCalls ==
    \E i \in Orders : cancel_conditional_order(i)
       \/ \E a \in Assets, cs \in Conditions, l \in {"And", "Or"}, d \in Spans : create_conditional_order(i, a, cs, l, d)
KeeperCalls == check_and_trigger \/ \E i \in Orders : mark_executed(i)

CondSteps ==
    OwnerCalls \/ KeeperCalls

-----------------------------------------------------------------------------
(* twap.rs: every recorded price is one an earlier segment read, so the    *)
(* price is the default from the first segment on.                         *)

DefaultPrice == 100
create_twap_order(total, segs, duration) ==
    /\ twap = None /\ segs <= duration
    /\ twap' = [total |-> total, segs |-> segs, interval |-> duration \div segs, start |-> now, done |-> 0,
                per |-> total \div segs, filled |-> 0, weighted |-> 0, status |-> "Active"]
    /\ UNCHANGED points
get_market_price == IF points = <<>> THEN DefaultPrice ELSE points[Len(points)]
record_price_point(n) == points' = points \o [k \in 1..n |-> get_market_price]
(* Fault: the last segment's check is off by one. *)
DueOneMore(t) ==
    LET expected == (now - t.start) \div t.interval IN IF expected <= t.segs THEN expected ELSE t.segs + 1
DueSegments(t) ==
    LET expected == (now - t.start) \div Greater(t.interval, 1) IN IF expected <= t.segs THEN expected ELSE t.segs
execute_twap_segments ==
    /\ twap # None /\ twap.status = "Active"
    /\ LET done == Greater(twap.done, DueSegments(twap))
           n == done - twap.done
       IN  /\ twap' = [twap EXCEPT !.done = done, !.filled = @ + n * twap.per,
                          !.weighted = @ + n * twap.per * get_market_price,
                          !.status = IF done >= twap.segs THEN "Complete" ELSE "Active"]
           /\ record_price_point(n)
volatility_from_history(h) ==
    LET n == Len(h) - 1
        moves == [k \in 1..n |-> LET d == h[k + 1] - h[k] IN ((IF d < 0 THEN -d ELSE d) * 10000) \div h[k]]
        avg == SumOf(moves) \div n
        var == SumOf([k \in 1..n |-> (moves[k] - avg) * (moves[k] - avg)]) \div n
    IN  IF n < 1 THEN 0 ELSE CHOOSE r \in 0..var : r * r <= var /\ (r + 1) * (r + 1) > var
Tail_(h, n) == SubSeq(h, Greater(1, Len(h) - n + 1), Len(h))
calculate_volatility(n) == LET v == volatility_from_history(Tail_(points, n)) IN IF v = 0 THEN 1000 ELSE v
get_baseline_volatility == Greater(volatility_from_history(Tail_(points, 15)), 1000)
adjust_twap_strategy ==
    /\ twap # None
    /\ twap' = IF calculate_volatility(3) * 100 > get_baseline_volatility * 150
               THEN [twap EXCEPT !.interval = (@ * 150) \div 100] ELSE twap
    /\ UNCHANGED points
cancel_twap_order ==
    /\ twap # None /\ twap.status = "Active"
    /\ twap' = [twap EXCEPT !.status = "Cancelled"]
    /\ UNCHANGED points

SegmentCalls == execute_twap_segments \/ adjust_twap_strategy

TwapSteps ==
    \/ \E t \in Amounts, s \in Segments, d \in Spans : create_twap_order(t, s, d)
    \/ SegmentCalls \/ cancel_twap_order

-----------------------------------------------------------------------------
(* iceberg.rs: an order identifier of the exchange is the sum of the time, *)
(* the amount and the price, so that two orders can share one.             *)

place_sdex_limit_order(amount, price) == now + amount + price
Placed(i, s) == sdex' = [x \in DOMAIN sdex \union {s} |-> IF x = s THEN i ELSE sdex[x]] /\ current' = [current EXCEPT ![i] = s]
create_iceberg_order(i, total, pct, price) ==
    LET visible == (total * pct) \div 100
    IN  /\ berg[i] = None /\ \A j \in Orders : j < i => berg[j] # None
        /\ visible >= 1
        /\ berg' = [berg EXCEPT ![i] = [total |-> total, visible |-> visible, price |-> price, filled |-> 0,
                       shown |-> 0, status |-> "Active"]]
        /\ Placed(i, place_sdex_limit_order(visible, price))
        /\ UNCHANGED fills
record_fill(i, n) ==
    LET h == fills[i] IN fills' = [fills EXCEPT ![i] = Append(h, (IF h = <<>> THEN 0 ELSE h[Len(h)]) + n)]
(* Fault: the slice counter is not reset when a new slice is shown. *)
FillKeepsShown(o, n) ==
    [o EXCEPT !.filled = @ + n, !.shown = @ + n, !.status = IF o.filled + n < o.total THEN "PartiallyFilled" ELSE "Filled"]
AfterFill(o, n) ==
    LET filled == o.filled + n  shown == o.shown + n
    IN  CASE shown < o.visible -> [o EXCEPT !.filled = filled, !.shown = shown, !.status = "PartiallyFilled"]
          [] shown >= o.visible /\ filled < o.total -> [o EXCEPT !.filled = filled, !.shown = 0, !.status = "PartiallyFilled"]
          [] OTHER -> [o EXCEPT !.filled = filled, !.shown = shown, !.status = "Filled"]
on_sdex_fill(s, n) ==
    LET i == sdex[s]  o == berg[i]  a == AfterFill(o, n)
    IN  /\ Len(fills[i]) < MaxFills
        /\ berg' = [berg EXCEPT ![i] = a]
        /\ record_fill(i, n)
        /\ IF o.shown + n >= o.visible /\ a.filled < o.total
           THEN Placed(i, place_sdex_limit_order(IF o.total - a.filled < o.visible THEN o.total - a.filled ELSE o.visible, o.price))
           ELSE UNCHANGED <<sdex, current>>
cancel_iceberg_order(i) ==
    /\ berg[i] # None /\ berg[i].status \notin {"Filled", "Cancelled"}
    /\ berg' = [berg EXCEPT ![i].status = "Cancelled"]
    /\ UNCHANGED <<sdex, current, fills>>
update_iceberg_price(i, p) ==
    /\ berg[i] # None /\ berg[i].status \in {"Active", "PartiallyFilled"}
    /\ berg' = [berg EXCEPT ![i].price = p]
    /\ Placed(i, place_sdex_limit_order(berg[i].visible - berg[i].shown, p))
    /\ UNCHANGED fills

SliceCalls ==
    \/ \E s \in DOMAIN sdex, n \in Amounts : on_sdex_fill(s, n)
    \/ \E i \in Orders : cancel_iceberg_order(i)

BergSteps ==
    \/ \E i \in Orders, t \in Amounts, p \in Prices, v \in VisiblePct : create_iceberg_order(i, t, v, p)
    \/ SliceCalls
    \/ \E i \in Orders, p \in Prices : update_iceberg_price(i, p)

-----------------------------------------------------------------------------
(* exit_strategy.rs, with its three presets. *)

Tier(price, pct) == [price |-> (Entry * price) \div 100, pct |-> pct, done |-> FALSE]
Stop(trigger, trail, on) == [trigger |-> trigger, trail |-> trail, on |-> on]
create_exit_strategy(size, tps, sls) ==
    /\ exit = None /\ size > 0 /\ tps # <<>>
    /\ exit' = [size |-> size, tps |-> tps, sls |-> sls, highest |-> Entry, status |-> "Active"]
    /\ sold' = 0
preset_conservative(size) ==
    create_exit_strategy(size, <<Tier(120, 3333), Tier(150, 5000), Tier(200, 10000)>>, <<Stop(0, 10, TRUE)>>)
preset_balanced(size) ==
    create_exit_strategy(size, <<Tier(130, 5000), Tier(180, 10000)>>, <<Stop(0, 10, TRUE), Stop(20, 7, FALSE)>>)
preset_aggressive(size) ==
    create_exit_strategy(size, <<Tier(115, 2500), Tier(130, 3333), Tier(160, 5000), Tier(250, 10000)>>,
        <<Stop(0, 10, TRUE), Stop(20, 7, FALSE), Stop(50, 5, FALSE)>>)

calculate_trailing_stop(highest, trail) == (highest * (100 - trail)) \div 100
(* Fault: a tier sells although nothing is left. *)
TierIgnoresSize(s, tp, price) == ~tp.done /\ price >= tp.price
TierDue(s, tp, price) == ~tp.done /\ price >= tp.price /\ s > 0
(* Sizes after each tier in turn: T[0] is what is held before the first. *)
AfterTiers(x, price) ==
    LET T[k \in 0..Len(x.tps)] ==
            IF k = 0 THEN x.size
            ELSE LET s == T[k - 1] IN
                 IF TierDue(s, x.tps[k], price) THEN s - Greater((s * x.tps[k].pct) \div 10000, 1) ELSE s
    IN  [k \in 0..Len(x.tps) |-> T[k]]
check_and_execute_exits(price) ==
    /\ exit # None /\ exit.status = "Active"
    /\ LET sizes  == AfterTiers(exit, price)
           left   == sizes[Len(exit.tps)]
           tps    == [k \in DOMAIN exit.tps |->
                         [exit.tps[k] EXCEPT !.done = @ \/ TierDue(sizes[k - 1], exit.tps[k], price)]]
           top    == Greater(exit.highest, price)
           gain   == IF price < Entry THEN -(((Entry - price) * 100) \div Entry) ELSE ((price - Entry) * 100) \div Entry
           sls    == IF left <= 0 THEN exit.sls
                     ELSE [k \in DOMAIN exit.sls |-> [exit.sls[k] EXCEPT !.on = @ \/ gain >= exit.sls[k].trigger]]
           trails == {sls[k].trail : k \in {j \in DOMAIN sls : sls[j].on}}
           stopped == left > 0 /\ trails # {} /\ price < calculate_trailing_stop(top, Least(trails))
       IN  /\ exit' = [exit EXCEPT !.size = IF stopped THEN 0 ELSE left, !.tps = tps, !.sls = sls, !.highest = top,
                          !.status = IF stopped THEN "StopHit" ELSE IF left = 0 THEN "Complete" ELSE "Active"]
           /\ sold' = sold + exit.size - (IF stopped THEN 0 ELSE left)
(* The owner says what is left; the position is what was sold plus that. *)
adjust_position_size(n) ==
    /\ exit # None
    /\ exit' = [exit EXCEPT !.size = n, !.status = IF n = 0 THEN "Complete" ELSE @]
    /\ UNCHANGED sold

Presets == \E n \in Sizes : preset_conservative(n) \/ preset_balanced(n) \/ preset_aggressive(n)

ExitSteps ==
    \/ Presets
    \/ \E p \in Prices : check_and_execute_exits(p)
    \/ \E n \in Sizes \union {0} : adjust_position_size(n)

-----------------------------------------------------------------------------
(* strategies/grid.rs *)

GridAsset == CHOOSE a \in Assets : TRUE
initialize_grid_strategy ==
    LET lower == GridShape[1]  upper == GridShape[2]  n == GridShape[3]
    IN  /\ grid = None /\ upper > lower /\ n >= 3
        /\ \E rebalance \in BOOLEAN :
           grid' = [lower |-> lower, upper |-> upper, n |-> n, spacing |-> (upper - lower) \div (n - 1),
                    size |-> GridShape[4] \div n, orders |-> [l \in 0..(n - 1) |-> None], profit |-> 0,
                    rebalance |-> rebalance, status |-> "Initializing"]
        /\ UNCHANGED filledGrid
LevelPrice(g, l) == g.lower + l * g.spacing
(* The exchange's identifier: the price plus the ledger. *)
place_limit_order(price) == price + now
GridOrder(g, l, side) == [price |-> LevelPrice(g, l), side |-> side, amount |-> g.size, id |-> place_limit_order(LevelPrice(g, l))]
(* A level at the current price gets no order and keeps the one it has. *)
WithOrders(g, price) ==
    [g EXCEPT !.status = "Active",
        !.orders = [l \in DOMAIN g.orders |->
            IF LevelPrice(g, l) < price THEN GridOrder(g, l, "Buy")
            ELSE IF LevelPrice(g, l) > price THEN GridOrder(g, l, "Sell") ELSE g.orders[l]]]
place_grid_orders ==
    /\ grid # None /\ grid' = WithOrders(grid, quote[GridAsset])
    /\ UNCHANGED filledGrid

calculate_grid_profit(side, level, price, amount) ==
    LET Match(k) == /\ filledGrid[k].side # side
                    /\ filledGrid[k].level - level \in {-1, 1}
        M == {k \in DOMAIN filledGrid : Match(k)}
        prev == filledGrid[CHOOSE k \in M : \A j \in M : j <= k]
        Part(n, d) == IF n < 0 THEN -((-n) \div d) ELSE n \div d
    IN  IF M = {} THEN 0
        ELSE IF side = "Buy" THEN Part((prev.price - price) * amount, price)
        ELSE Part((price - prev.price) * amount, prev.price)
rebalance_grid_level(g, l, price) ==
    [g EXCEPT !.orders[l] = GridOrder(g, l, IF LevelPrice(g, l) < price THEN "Buy" ELSE "Sell")]
(* The lowest level with that identifier is taken for the filled one; the  *)
(* caller names price and amount, and the whole order goes whatever the    *)
(* amount was.                                                             *)
on_grid_order_filled(id, price, amount) ==
    /\ grid # None /\ Len(filledGrid) < MaxFills
    /\ LET L == {l \in DOMAIN grid.orders : grid.orders[l] # None /\ grid.orders[l].id = id}
           l == Least(L)
           o == grid.orders[l]
       IN  /\ L # {}
           /\ filledGrid' = Append(filledGrid, [level |-> l, side |-> o.side, price |-> price, amount |-> amount])
           /\ grid' = [(IF grid.rebalance THEN rebalance_grid_level(grid, l, quote[GridAsset])
                        ELSE [grid EXCEPT !.orders[l] = None]) EXCEPT
                          !.profit = @ + calculate_grid_profit(o.side, l, price, amount)]
NotCleared(g) == g
(* Fault: the old orders are not cancelled when the grid moves. *)
Cleared(g) == [g EXCEPT !.orders = [l \in DOMAIN g.orders |-> None]]
adjust_grid_to_price_movement ==
    /\ grid # None
    /\ LET price == quote[GridAsset]
           range == grid.upper - grid.lower
           moved == [Cleared(grid) EXCEPT !.upper = price + range \div 2, !.lower = price - range \div 2,
                        !.spacing = range \div (grid.n - 1)]
       IN  /\ price > grid.upper \/ price < grid.lower
           /\ grid' = WithOrders(moved, price)
    /\ UNCHANGED filledGrid

GridMoves ==
    \/ adjust_grid_to_price_movement
    \/ grid # None /\ \E l \in DOMAIN grid.orders, p \in Prices, a \in Amounts :
          grid.orders[l] # None /\ on_grid_order_filled(grid.orders[l].id, p, a)

GridSteps ==
    initialize_grid_strategy \/ place_grid_orders \/ GridMoves

-----------------------------------------------------------------------------
(* strategies/dca.rs: a purchase the balance cannot pay pauses the plan    *)
(* when execute_due_dca_purchases swallows the error, and is rolled back   *)
(* when the caller sees it.                                                *)

create_dca_strategy(amount, interval, d) ==
    /\ dca = None
    /\ dca' = [amount |-> amount, interval |-> interval, start |-> now, end |-> IF d = 0 THEN 0 ELSE now + d,
               last |-> 0, invested |-> 0, acquired |-> 0, average |-> 0, status |-> "Active"]
    /\ UNCHANGED bought
Ended == dca.end # 0 /\ now >= dca.end
is_purchase_due ==
    /\ dca.status = "Active" /\ ~Ended
    /\ now >= IF dca.last = 0 THEN dca.start ELSE dca.last + dca.interval
sim_execute_buy(amount) == LET q == quote[GridAsset] IN (amount * Precision) \div (IF q = 0 THEN 100 ELSE q)
(* Fault: the average forgets what was held before. *)
AverageOfLast(d, n) ==
    LET got == sim_execute_buy(d.amount)
    IN  [d EXCEPT !.invested = @ + n * d.amount, !.acquired = @ + n * got, !.last = now,
            !.average = (d.amount * Precision) \div got]
Purchased(d, n) ==
    LET got == sim_execute_buy(d.amount)
    IN  [d EXCEPT !.invested = @ + n * d.amount, !.acquired = @ + n * got, !.last = now,
            !.average = ((d.invested + n * d.amount) * Precision) \div (d.acquired + n * got)]
Buys(n) == bought' = bought \o [k \in 1..n |-> [at |-> now, paid |-> dca.amount, got |-> sim_execute_buy(dca.amount)]]
CanBuy(n) == Len(bought) + n <= MaxFills /\ sim_execute_buy(dca.amount) > 0
execute_dca_purchase ==
    /\ dca # None /\ dca.status = "Active" /\ ~Ended
    /\ CanBuy(1) /\ dca' = Purchased(dca, 1) /\ Buys(1)
execute_due_dca_purchases(funded) ==
    /\ dca # None /\ is_purchase_due
    /\ IF funded THEN CanBuy(1) /\ dca' = Purchased(dca, 1) /\ Buys(1)
       ELSE dca' = [dca EXCEPT !.status = "Paused"] /\ UNCHANGED bought
calculate_expected_purchases == (now - dca.start) \div dca.interval
handle_missed_dca_purchases ==
    /\ dca # None /\ dca.status = "Active" /\ ~Ended
    /\ LET missed == calculate_expected_purchases - Len(bought)
       IN  missed > 0 /\ CanBuy(missed) /\ dca' = Purchased(dca, missed) /\ Buys(missed)
update_dca_schedule(amount, interval) ==
    /\ dca # None /\ dca' = [dca EXCEPT !.amount = amount, !.interval = interval] /\ UNCHANGED bought
pause_dca_strategy == dca # None /\ dca' = [dca EXCEPT !.status = "Paused"] /\ UNCHANGED bought
resume_dca_strategy == dca # None /\ dca' = [dca EXCEPT !.status = "Active"] /\ UNCHANGED bought

PurchaseCalls ==
    execute_dca_purchase \/ (\E b \in BOOLEAN : execute_due_dca_purchases(b)) \/ handle_missed_dca_purchases
ScheduleCalls ==
    pause_dca_strategy \/ resume_dca_strategy \/ \E a \in Amounts, i \in Spans : update_dca_schedule(a, i)

DcaSteps ==
    \/ \E a \in Amounts, i \in Spans, d \in Spans \union {0} : create_dca_strategy(a, i, d)
    \/ PurchaseCalls \/ ScheduleCalls

-----------------------------------------------------------------------------
Market == Tick \/ \E a \in Assets, p \in Prices : SetQuote(a, p)
PlanNext == UNCHANGED <<condVars, twapVars, bergVars, exitVars, gridVars, dcaVars>> /\
    \/ Tick /\ UNCHANGED planVars
    \/ PlanSteps /\ UNCHANGED market
CondNext == UNCHANGED <<planVars, twapVars, bergVars, exitVars, gridVars, dcaVars>> /\
    \/ Market /\ UNCHANGED condVars
    \/ CondSteps /\ UNCHANGED market
TwapNext == UNCHANGED <<planVars, condVars, bergVars, exitVars, gridVars, dcaVars>> /\
    \/ Tick /\ UNCHANGED twapVars
    \/ TwapSteps /\ UNCHANGED market
BergNext == UNCHANGED <<planVars, condVars, twapVars, exitVars, gridVars, dcaVars>> /\
    \/ Tick /\ UNCHANGED bergVars
    \/ BergSteps /\ UNCHANGED market
ExitNext == UNCHANGED <<market, planVars, condVars, twapVars, bergVars, gridVars, dcaVars>> /\ ExitSteps
GridNext == UNCHANGED <<planVars, condVars, twapVars, bergVars, exitVars, dcaVars>> /\
    \/ Market /\ UNCHANGED gridVars
    \/ GridSteps /\ UNCHANGED market
DcaNext == UNCHANGED <<planVars, condVars, twapVars, bergVars, exitVars, gridVars>> /\
    \/ Market /\ UNCHANGED dcaVars
    \/ DcaSteps /\ UNCHANGED market

-----------------------------------------------------------------------------
(* Keepers come and go, leases lapse and are taken over, the plan trips    *)
(* and recovers: every due interval is accounted for once, on the grid of  *)
(* the first date, and none before it is due; a disabled plan has no       *)
(* lease and the lease in force carries the newest epoch (process_dca_tick,*)
(* acquire_lease, emergency_disable).                                      *)
ScheduleKept ==
    /\ lease # None => lease.epoch = epoch /\ plan.status # "EmergencyDisabled"
    /\ plan # None /\ plan.next # 0 =>
          /\ plan.next = ran.first + ran.scheduled * plan.interval
          /\ ran.executed <= ran.scheduled
          /\ ran.scheduled > 0 => plan.next - plan.interval <= now
(* A tripped plan trades again only when its cooldown is over, and only    *)
(* the live holder of the lease moves the schedule.                        *)
PlanByRule ==
    /\ plan # None /\ plan.status = "Tripped" /\ plan'.status = "Active" => now >= plan.release
    /\ ran'.scheduled # ran.scheduled => lease_live /\ plan.status = "Active" /\ plan'.next > now
(* The list of active orders holds the pending ones, each once, and a      *)
(* trough is no higher than the reference it started from.                 *)
PendingListed ==
    /\ Cardinality(Listed) = Len(active)
    /\ \A i \in Orders : (i \in Listed) = (cond[i] # None /\ cond[i].status = "Pending")
    /\ \A i \in Orders : cond[i] # None /\ cond[i].ref # 0 => cond[i].trough <= cond[i].ref
(* A conditional order triggers before its expiry or not at all, is        *)
(* executed only after it triggered, and nothing else follows a decision.  *)
CondByRule ==
    \A i \in Orders : cond[i] # None /\ cond'[i].status # cond[i].status =>
        \/ cond[i].status = "Pending" /\ cond'[i].status = "Cancelled"
        \/ cond[i].status = "Pending" /\ cond'[i].status = "Triggered" /\ now < cond[i].expires
        \/ cond[i].status = "Pending" /\ cond'[i].status = "Expired" /\ now >= cond[i].expires
        \/ cond[i].status = "Triggered" /\ cond'[i].status = "Executed"
(* However late the sweeps come, a TWAP order fills whole segments, no     *)
(* more than it has, never ahead of the clock while its interval stands,   *)
(* and is complete when the last segment is.                               *)
SegmentsWithinOrder ==
    twap # None =>
        /\ twap.filled = twap.done * twap.per /\ twap.filled <= twap.total /\ twap.done <= twap.segs
        /\ (twap.status = "Complete") = (twap.done = twap.segs)
        /\ twap.done * twap.interval <= now - twap.start
        /\ twap.status = "Complete" => twap.total - twap.filled < twap.segs
(* An iceberg's fills add up to what it counts as filled, and an open one  *)
(* never counts a full slice as still showing.                             *)
FillsAccounted ==
    \A i \in Orders : berg[i] # None =>
        /\ berg[i].filled = IF fills[i] = <<>> THEN 0 ELSE fills[i][Len(fills[i])]
        /\ berg[i].status \in {"Active", "PartiallyFilled"} => berg[i].shown < berg[i].visible
        /\ berg[i].status = "Active" => berg[i].filled = 0
        /\ berg[i].status = "Filled" => berg[i].filled >= berg[i].total
        /\ current[i] \in DOMAIN sdex
(* An exit strategy is active exactly as long as it may still sell, and    *)
(* never sells what is not there.                                          *)
ExitAccounted ==
    exit # None => exit.size >= 0 /\ (exit.status = "Active" => exit.size > 0)
(* A tier is used once, the top never falls, and a stop sells everything   *)
(* below the tightest trail that was ever armed.                           *)
ExitByRule ==
    exit # None =>
        /\ exit'.highest >= exit.highest
        /\ \A k \in DOMAIN exit.tps : exit.tps[k].done => exit'.tps[k].done
        /\ \A k \in DOMAIN exit.sls : exit.sls[k].on => exit'.sls[k].on
        /\ exit.status = "StopHit" /\ exit'.status # exit.status => exit'.size = 0
        /\ exit'.status = "StopHit" /\ exit.status # "StopHit" => exit'.size = 0 /\ sold' > sold
(* Orders of the grid stand on the levels of the grid in force, all of one *)
(* size, and together stay within the capital.                             *)
GridOnLevels ==
    grid # None =>
        /\ grid.size * grid.n <= GridShape[4]
        /\ \A l \in DOMAIN grid.orders : grid.orders[l] # None =>
              grid.orders[l].price = LevelPrice(grid, l) /\ grid.orders[l].amount = grid.size
        /\ LevelPrice(grid, grid.n - 1) <= grid.upper + 1
(* What a dca strategy reports is the sum of its purchases, whatever was   *)
(* missed, paused or rescheduled between them, at their average price.     *)
PurchasesAccounted ==
    dca # None =>
        /\ dca.invested = SumOf([k \in DOMAIN bought |-> bought[k].paid])
        /\ dca.acquired = SumOf([k \in DOMAIN bought |-> bought[k].got])
        /\ bought # <<>> => dca.average = (dca.invested * Precision) \div dca.acquired
        /\ \A k \in DOMAIN bought : dca.end # 0 => bought[k].at < dca.end
=============================================================================
