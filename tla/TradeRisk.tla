----------------------------- MODULE TradeRisk -----------------------------
(***************************************************************************)
(* What auto_trade does with a position once it is held: the stops of      *)
(* risk.rs and advanced_risk.rs, the high water mark of drawdown.rs, the   *)
(* hedges of portfolio_insurance.rs, the rebalancing of risk_parity.rs,    *)
(* the correlations of correlation.rs, and the routes smart_routing.rs and *)
(* amm_bridge.rs send an order on. One user: positions, hedges and marks   *)
(* are kept per user and share only the prices.                            *)
(***************************************************************************)
EXTENDS Integers, FiniteSets, Sequences

CONSTANTS
    Assets,                     \* asset ids 1..n, in the order of the position map
    Prices, Amounts, Liquidity, \* prices, sizes, the "asset_liq" entries that may be set
    Bps, Ring,                  \* 100 % of a share; prices a history keeps
    Configs,                    \* risk configurations: stop (percent), trailing, trail (of Bps)
    Thresholds, Values,         \* of the drawdown trigger; portfolio values reported to it
    Policies, Recovered,        \* insurance configurations; drawdown below which hedges go
    Unit, Frequency, Drift,     \* risk parity: 10^12, days between rebalances, threshold
    MatrixTtl,
    Keys, Quotes, Reference,    \* venues, their quotes, the signal's price
    Sources, Asks, Slippages,   \* AMM sources, what a router may answer, limits of a caller
    Registered,                 \* an asset registry is configured, and it lists the pair
    MaxNow, MaxCalls            \* bounds: the clock, the calls

RiskTyped ==
    /\ Assets \subseteq Nat /\ Prices \subseteq Nat \ {0} /\ Amounts \subseteq Nat \ {0}
    /\ Bps \in Nat \ {0} /\ Ring \in Nat \ {0} /\ Unit \in Nat \ {0}

VARIABLES
    now, calls,
    position, price, history, config, liquidity,
    trigger, peak, seen,        \* seen is history: the highest value reported
    insurance, parity, matrix,
    index, venue, registry, paired, failVenue, failed,
    last                        \* history: what the last routed call took and reported

stopVars == <<config, liquidity, trigger, peak, seen>>
hedgeVars == <<insurance, parity, matrix>>
routeVars == <<index, venue, registry, paired, failVenue, failed, last>>
bookVars == <<position, price, history>>
vars == <<now, calls, bookVars, stopVars, hedgeVars, routeVars>>

None == [absent |-> TRUE]
SumOf(s) == LET S[i \in 0..Len(s)] == IF i = 0 THEN 0 ELSE S[i - 1] + s[i] IN S[Len(s)]
Smaller(a, b) == IF a < b THEN a ELSE b
Greater(a, b) == IF a > b THEN a ELSE b
Size(x) == IF x < 0 THEN -x ELSE x
Quot(a, b) == IF a < 0 THEN -((-a) \div b) ELSE a \div b
Held == {a \in Assets : position[a] # None}
Listing(S) == LET L[a \in 0..Cardinality(Assets)] ==
                    IF a = 0 THEN <<>> ELSE IF a \in S THEN Append(L[a - 1], a) ELSE L[a - 1]
              IN L[Cardinality(Assets)]
Known(a, otherwise) == IF price[a] = None THEN otherwise ELSE price[a].at

Init ==
    /\ now = 0 /\ calls = 0
    /\ position = [a \in Assets |-> None] /\ price = [a \in Assets |-> None] /\ history = [a \in Assets |-> <<>>]
    /\ config \in Configs /\ liquidity = [a \in Assets |-> None]
    /\ trigger = None /\ peak = None /\ seen = -1
    /\ insurance = None /\ parity = [enabled |-> FALSE, last |-> 0] /\ matrix = None
    /\ index = <<>> /\ venue = [k \in Keys |-> None] /\ registry = <<>> /\ paired = FALSE
    /\ failVenue = None /\ failed = {} /\ last = None

Tick == now < MaxNow /\ now' = now + 1 /\ UNCHANGED calls
Call == calls < MaxCalls /\ calls' = calls + 1 /\ UNCHANGED now

-----------------------------------------------------------------------------
(* Positions and prices. *)

(* Fault: a position bought into at a lower price takes that price for its high. *)
HighLost(pos, amt, p) ==
    IF amt = 0 THEN None
    ELSE IF pos = None THEN [amt |-> amt, entry |-> p, high |-> p]
    ELSE [amt |-> amt, entry |-> IF amt < pos.amt THEN pos.entry ELSE p, high |-> IF amt < pos.amt THEN pos.high ELSE p]
(* A position's new amount: an increase takes the price for its entry. *)
update_position(pos, amt, p) ==
    IF amt = 0 THEN None
    ELSE IF pos = None THEN [amt |-> amt, entry |-> p, high |-> p]
    ELSE [amt |-> amt, entry |-> IF amt < pos.amt THEN pos.entry ELSE p, high |-> Greater(pos.high, p)]
Bought(a, amt, p) ==
    /\ position' = [position EXCEPT ![a] = update_position(@, amt + (IF @ = None THEN 0 ELSE @.amt), p)]
    /\ UNCHANGED <<price, history>>

record_price(a, p) ==
    history' = [history EXCEPT ![a] = LET h == Append(@, p) IN IF Len(h) > Ring THEN Tail(h) ELSE h]
set_asset_price(a, p) == price' = [price EXCEPT ![a] = [at |-> p]]
record_asset_price(a, p) == record_price(a, p) /\ set_asset_price(a, p) /\ UNCHANGED position

calculate_portfolio_value ==
    SumOf([a \in 1..Cardinality(Assets) |->
        IF a \in Held /\ price[a] # None THEN Quot(position[a].amt * price[a].at, 100) ELSE 0])

-----------------------------------------------------------------------------
(* Stops: a processed price raises the mark, and sells at or below a stop  *)
(* as much as the asset's liquidity allows.                                *)

(* Fault: the trailing stop is measured from the entry. *)
TrailFromEntry(high, pct) == (high * (Bps - 2 * pct)) \div Bps
calculate_trailing_stop(high, pct) == (high * (Bps - pct)) \div Bps
get_fixed_stop_price(pos) == (pos.entry * (100 - config.stop)) \div 100
resolve_stop_trigger(pos, p) ==
    \/ config.trailing /\ p <= calculate_trailing_stop(IF pos.high > 0 THEN pos.high ELSE pos.entry, config.trail)
    \/ p <= get_fixed_stop_price(pos)
update_position_high(pos, p) == IF p > pos.high THEN [pos EXCEPT !.high = p] ELSE pos
process_price_update(a, p) ==
    /\ set_asset_price(a, p) /\ record_price(a, p)
    /\ position' = IF position[a] = None THEN position ELSE
        LET pos == update_position_high(position[a], p)
            sold == Smaller(pos.amt, IF liquidity[a] = None THEN pos.amt ELSE Greater(liquidity[a].left, 0))
        IN [position EXCEPT ![a] =
                IF resolve_stop_trigger(pos, p) /\ sold # 0 THEN update_position(pos, pos.amt - sold, p) ELSE pos]

(* Drawdown: the mark only rises, and the trigger is read against it. *)
configure_drawdown_trigger(bps) == bps \in 1..Bps /\ trigger' = [bps |-> bps] /\ UNCHANGED <<peak, seen>>
is_drawdown_breached(mark, v, bps) == mark > 0 /\ v * Bps < mark * (Bps - bps)
(* Fault: the mark follows the value down. *)
MarkFollows(v) ==
    /\ v >= 0 /\ seen' = Greater(seen, v) /\ peak' = [at |-> v, breached |-> FALSE] /\ UNCHANGED trigger
update_and_check(v) ==
    /\ v >= 0 /\ seen' = Greater(seen, v)
    /\ LET mark == IF peak = None THEN v ELSE peak.at IN
       peak' = IF v > mark THEN [at |-> v, breached |-> FALSE]
               ELSE [at |-> mark, breached |-> trigger # None /\ is_drawdown_breached(mark, v, trigger.bps)]
    /\ UNCHANGED trigger

DrawdownCalls == (\E b \in Thresholds : configure_drawdown_trigger(b)) \/ \E v \in Values : update_and_check(v)

StopNext ==
    /\ UNCHANGED <<hedgeVars, routeVars>>
    /\ \/ Call /\ UNCHANGED stopVars
          /\ \E a \in Assets, p \in Prices :
                process_price_update(a, p) \/ \E amt \in Amounts : Bought(a, amt, p)
       \/ Call /\ UNCHANGED <<bookVars, trigger, peak, seen, config>>
          /\ \E a \in Assets, l \in Liquidity : liquidity' = [liquidity EXCEPT ![a] = [left |-> l]]
       \/ Call /\ config' \in Configs /\ UNCHANGED <<bookVars, liquidity, trigger, peak, seen>>
       \/ Call /\ UNCHANGED <<bookVars, config, liquidity>>
          /\ DrawdownCalls

(* A position's high is never below its entry, and the drawdown mark is    *)
(* the highest value ever reported, whatever the order of the reports: the *)
(* trailing stop and the trigger never forget a peak.                      *)
PeaksKept ==
    /\ \A a \in Held : position[a].amt > 0 /\ position[a].high >= position[a].entry
    /\ peak # None => peak.at = seen

(* A processed price sells by the stops: what is left of a position in a   *)
(* liquid asset is above its fixed and its trailing stop, a sale keeps the *)
(* entry, and a high only falls when the position is closed.               *)
StopsHonoured ==
    \A a \in Assets :
        /\ history'[a] # history[a] /\ position'[a] # None =>
              /\ liquidity[a] = None =>
                    /\ price'[a].at > (position'[a].entry * (100 - config.stop)) \div 100
                    /\ config.trailing => price'[a].at > (position'[a].high * (Bps - config.trail)) \div Bps
              /\ position'[a].entry = position[a].entry /\ position'[a].amt <= position[a].amt
        /\ position[a] # None /\ position'[a] # None => position'[a].high >= position[a].high

-----------------------------------------------------------------------------
(* Portfolio insurance. *)

PriceOf(h) == Known(h.asset, h.entry)
HedgeValue(hedges) == SumOf([i \in DOMAIN hedges |-> Quot(hedges[i].amt * PriceOf(hedges[i]), 100)])
HedgeTarget(i) == Quot(calculate_portfolio_value * i.ratio, Bps)

configure_insurance(p) ==
    /\ p.max \in 1..Bps /\ p.ratio \in 1..Bps
    /\ insurance' = [enabled |-> p.enabled, max |-> p.max, ratio |-> p.ratio, band |-> p.band,
                     hedges |-> IF insurance = None THEN <<>> ELSE insurance.hedges,
                     hwm |-> IF insurance = None THEN 0 ELSE insurance.hwm]

calculate_drawdown == [insurance EXCEPT !.hwm = Greater(@, calculate_portfolio_value)]
DrawdownOf(i) == IF i.hwm = 0 THEN 0 ELSE Quot((i.hwm - calculate_portfolio_value) * Bps, i.hwm)

(* Fault: every asset is hedged for the whole value. *)
HedgedInFull(value, ratio) ==
    LET held == Listing(Held) IN
    IF value <= 0 THEN <<>> ELSE SelectSeq(
        [k \in DOMAIN held |->
            [asset |-> held[k], entry |-> Known(held[k], 1), amt |-> (((value * ratio) \div Bps) * 100) \div Known(held[k], 1)]],
        LAMBDA h : h.amt > 0)
(* The same value of every asset held. *)
calculate_optimal_hedges(value, ratio) ==
    LET held == Listing(Held)
        each == ((value * ratio) \div Bps) \div Len(held)
    IN IF value <= 0 \/ held = <<>> THEN <<>> ELSE SelectSeq(
        [k \in DOMAIN held |-> [asset |-> held[k], entry |-> Known(held[k], 1), amt |-> (each * 100) \div Known(held[k], 1)]],
        LAMBDA h : h.amt > 0)

check_and_apply_hedge ==
    LET marked == calculate_drawdown IN
    /\ insurance.enabled
    /\ insurance' =
        IF DrawdownOf(marked) < insurance.max \/ insurance.hedges # <<>> THEN marked
        ELSE [marked EXCEPT !.hedges = calculate_optimal_hedges(calculate_portfolio_value, insurance.ratio)]

(* Whole hedges go first, then units of the next one. *)
Reduced(hedges, excess) ==
    LET R[i \in 0..Len(hedges)] ==
            IF i = 0 THEN [rest |-> excess, kept |-> <<>>]
            ELSE LET h == hedges[i]
                     r == R[i - 1]
                     value == Quot(h.amt * PriceOf(h), 100)
                     left == h.amt - (r.rest * 100) \div Greater(PriceOf(h), 1)
                 IN IF r.rest <= 0 THEN [r EXCEPT !.kept = Append(@, h)]
                    ELSE IF value <= r.rest THEN [r EXCEPT !.rest = @ - value]
                    ELSE [rest |-> 0, kept |-> IF left > 0 THEN Append(r.kept, [h EXCEPT !.amt = left]) ELSE r.kept]
    IN R[Len(hedges)].kept
rebalance_hedges ==
    /\ insurance.enabled /\ insurance.hedges # <<>>
    /\ LET target == HedgeTarget(insurance)
           delta == target - HedgeValue(insurance.hedges)
       IN /\ (Size(delta) * Bps) \div Greater(target, 1) >= insurance.band
          /\ insurance' = [insurance EXCEPT !.hedges =
                IF delta > 0 THEN @ \o calculate_optimal_hedges(delta, Bps) ELSE Reduced(@, Size(delta))]

remove_hedges_if_recovered ==
    /\ insurance.hedges # <<>>
    /\ insurance' = LET marked == calculate_drawdown IN
                    IF DrawdownOf(marked) >= Recovered THEN marked ELSE [marked EXCEPT !.hedges = <<>>]

HedgeUpkeep == rebalance_hedges \/ remove_hedges_if_recovered

HedgeNext ==
    /\ Call /\ UNCHANGED <<stopVars, routeVars, parity, matrix>>
    /\ \/ UNCHANGED insurance
          /\ \E a \in Assets, p \in Prices :
                record_asset_price(a, p) \/ \E amt \in Amounts : Bought(a, amt, p)
       \/ UNCHANGED bookVars /\ \E p \in Policies : configure_insurance(p)
       \/ UNCHANGED bookVars /\ insurance # None
          /\ \/ insurance' = calculate_drawdown
             \/ check_and_apply_hedge
             \/ HedgeUpkeep

(* Hedges come and go by the portfolio's value: every hedge has units, the *)
(* mark never falls, hedges taken or rebalanced bring the hedged value     *)
(* nearer the target and never past it, and all of them are dropped only   *)
(* at the target or once the portfolio has recovered.                      *)
HedgesByRule ==
    insurance # None =>
        /\ \A i \in DOMAIN insurance'.hedges : insurance'.hedges[i].amt > 0
        /\ insurance'.hwm >= insurance.hwm
        /\ insurance'.hedges # insurance.hedges =>
              LET target == HedgeTarget(insurance)
                  before == HedgeValue(insurance.hedges)
                  after == HedgeValue(insurance'.hedges)
              IN \/ before < target /\ after \in before..target
                 \/ before > target /\ after \in target..before
                 \/ insurance'.hedges = <<>> /\ DrawdownOf(insurance') < Recovered

-----------------------------------------------------------------------------
(* Risk parity, and correlations of the price histories. *)

isqrt(n) == LET N[x \in 0..n] == LET y == (x + (n \div x)) \div 2 IN IF y < x THEN N[y] ELSE x
            IN IF n <= 0 THEN 0 ELSE N[n]
Returns(h) == [i \in 1..(Len(h) - 1) |-> Quot((h[i + 1] - h[i]) * Bps, h[i])]
Squares(s, avg) == SumOf([i \in DOMAIN s |-> (s[i] - avg) * (s[i] - avg)])
DefaultVolatility == Bps \div 5
calculate_volatility(a) ==
    LET r == Returns(history[a])
        v == isqrt(Squares(r, Quot(SumOf(r), Len(r))) \div Len(r))
    IN IF Len(history[a]) < 2 THEN DefaultVolatility ELSE IF v = 0 THEN DefaultVolatility ELSE v

ValueOf(a) == IF position[a] = None THEN 0 ELSE position[a].amt * Known(a, position[a].entry)
get_portfolio == SumOf([a \in 1..Cardinality(Assets) |-> ValueOf(a)])
InverseSum == SumOf([a \in 1..Cardinality(Assets) |-> IF a \in Held THEN Unit \div calculate_volatility(a) ELSE 0])
ParityTarget(a) == (get_portfolio * (Unit \div calculate_volatility(a))) \div InverseSum
calculate_risk_parity_rebalance ==
    {a \in Held : LET gap == Size(ParityTarget(a) - ValueOf(a)) IN
        IF ValueOf(a) > 0 THEN (gap * 10000) \div ValueOf(a) > Drift * 100 ELSE gap > 0}

set_risk_parity_config(on) == parity' = [parity EXCEPT !.enabled = on] /\ UNCHANGED <<bookVars, matrix>>
(* Fault: the value is traded as if it were units. *)
ValueAsUnits ==
    /\ parity.enabled /\ now >= parity.last + Frequency /\ calculate_risk_parity_rebalance # {}
    /\ position' = [a \in Assets |->
        IF a \notin calculate_risk_parity_rebalance THEN position[a]
        ELSE LET amt == position[a].amt + (ParityTarget(a) - ValueOf(a))
             IN IF amt <= 0 THEN None ELSE [position[a] EXCEPT !.amt = amt]]
    /\ parity' = [parity EXCEPT !.last = now] /\ UNCHANGED <<price, history, matrix>>
execute_risk_parity_rebalance ==
    /\ parity.enabled /\ now >= parity.last + Frequency /\ calculate_risk_parity_rebalance # {}
    /\ position' = [a \in Assets |->
        IF a \notin calculate_risk_parity_rebalance THEN position[a]
        ELSE LET amt == position[a].amt + Quot(ParityTarget(a) - ValueOf(a), Known(a, position[a].entry))
             IN IF amt <= 0 THEN None ELSE [position[a] EXCEPT !.amt = amt]]
    /\ parity' = [parity EXCEPT !.last = now] /\ UNCHANGED <<price, history, matrix>>

calculate_correlation(g, h) ==
    LET r == Returns(g)
        s == Returns(h)
        n == Smaller(Len(r), Len(s))
        avg(x) == Quot(SumOf(SubSeq(x, 1, n)), n)
        Co(x, y, m, k) == SumOf([i \in 1..n |-> (x[i] - m) * (y[i] - k)])
        d == isqrt(Co(r, r, avg(r), avg(r)) * Co(s, s, avg(s), avg(s)))
    IN IF Smaller(Len(g), Len(h)) < 3 THEN 0
       ELSE IF d = 0 THEN 0 ELSE Quot(Co(r, s, avg(r), avg(s)) * Bps, d)

(* The matrix of a user is rebuilt when it is a day old, and not before,   *)
(* whatever assets it is asked for.                                        *)
build_correlation_matrix(S) ==
    [of |-> [p \in {q \in S \X S : q[1] # q[2]} |-> calculate_correlation(history[p[1]], history[p[2]])], at |-> now]
get_or_build_matrix(S) == IF matrix # None /\ now - matrix.at < MatrixTtl THEN matrix ELSE build_correlation_matrix(S)
check_portfolio_correlation(a) ==
    matrix' = get_or_build_matrix(Held \cup {a}) /\ UNCHANGED <<bookVars, parity>>
CorrelatedWith(m, a) ==
    {h \in Held \ {a} : <<h, a>> \in DOMAIN m.of /\ Size(m.of[<<h, a>>]) * 10 > 7 * Bps}
suggest_diversification(S) == matrix' = get_or_build_matrix(Held \cup S) /\ UNCHANGED <<bookVars, parity>>

ParityNext ==
    /\ UNCHANGED <<stopVars, routeVars, insurance>>
    /\ \/ Call /\ UNCHANGED <<parity, matrix>>
          /\ \E a \in Assets, p \in Prices :
                record_asset_price(a, p) \/ \E amt \in Amounts : Bought(a, amt, p)
       \/ Call /\ \E on \in BOOLEAN : set_risk_parity_config(on)
       \/ Call /\ execute_risk_parity_rebalance
       \/ Call /\ \E a \in Assets : check_portfolio_correlation(a)
       \/ Call /\ suggest_diversification(Assets)
       \/ Tick /\ UNCHANGED <<bookVars, parity, matrix>>

(* A correlation is within [-1, 1] for any two price histories, in integer *)
(* arithmetic with a rounded root and however the histories are aligned,   *)
(* and the cached matrix is symmetric.                                     *)
CorrelationBounded ==
    /\ calls = 0 => \A m, n \in 3..Ring : \A g \in [1..m -> Prices], h \in [1..n -> Prices] :
                        Size(calculate_correlation(g, h)) <= Bps
    /\ matrix # None => \A p \in DOMAIN matrix.of : matrix.of[p] = matrix.of[<<p[2], p[1]>>]

(* A rebalance moves the value of each asset towards its risk-parity       *)
(* target and not past it, never opens a position, and comes at most once  *)
(* in the configured number of days.                                       *)
ParityByRule ==
    parity'.last # parity.last =>
        /\ parity.last # 0 => now - parity.last >= Frequency
        /\ \A a \in Held :
              LET before == ValueOf(a)
                  target == ParityTarget(a)
                  after == IF position'[a] = None THEN 0 ELSE position'[a].amt * Known(a, position[a].entry)
              IN after \in Smaller(before, target)..Greater(before, target)
        /\ \A a \in Assets \ Held : position'[a] = None

-----------------------------------------------------------------------------
(* Routes. A quote: left, price, fee and slip; a plan takes the cheapest   *)
(* quote first, each for as much as it has.                                *)

upsert_venue_liquidity(k, q) ==
    /\ q.left > 0 /\ q.price > 0
    /\ index' = IF k \in {index[i] : i \in DOMAIN index} THEN index ELSE Append(index, k)
    /\ venue' = [venue EXCEPT ![k] = q] /\ UNCHANGED <<registry, paired, failVenue, failed, last>>
register_amm_source(s, on) ==
    /\ registry' = IF \E i \in DOMAIN registry : registry[i].src = s
                   THEN [i \in DOMAIN registry |-> IF registry[i].src = s THEN [src |-> s, on |-> on] ELSE registry[i]]
                   ELSE Append(registry, [src |-> s, on |-> on])
    /\ UNCHANGED <<index, venue, paired, failVenue, failed, last>>
set_signal_token_pair == paired' = TRUE /\ UNCHANGED <<index, venue, registry, failVenue, failed, last>>
kind_to_venue(s) == <<IF s[1] \in {"BridgePool", "StellarAmm"} THEN "Pool" ELSE s[1], s[2]>>

compute_slippage_bps(amt, q) == (amt * q.slip + q.left - 1) \div q.left
apply_bps(v, bps) == (v * bps + Bps - 1) \div Bps
RouteSegment(q, amt) ==
    LET p == (q.price * (Bps + compute_slippage_bps(amt, q))) \div Bps
    IN [key |-> q.key, amt |-> amt, price |-> p, cost |-> amt * p + apply_bps(amt * p, q.fee), out |-> 0]
AmmRouteSegment(q, amt, slip) ==
    LET out == (amt * q.price) \div Bps
        notional == (amt * ((out * Bps) \div amt)) \div Bps
    IN [key |-> q.key, amt |-> amt, price |-> 0, cost |-> notional + apply_bps(notional, q.fee),
        out |-> IF slip >= Bps THEN 0 ELSE (out * (Bps - slip)) \div Bps]

(* The first of the cheapest, by total or by unit cost; <<>> when what is  *)
(* left cannot be placed.                                                  *)
Cheaper(s, t, perUnit) == IF perUnit THEN s.cost * t.amt < t.cost * s.amt ELSE s.cost < t.cost
Best(S, perUnit) ==
    LET B[i \in 1..Len(S)] == IF i = 1 THEN S[1] ELSE IF Cheaper(S[i], B[i - 1], perUnit) THEN S[i] ELSE B[i - 1]
    IN B[Len(S)]
(* Fault: a quote is used again in full. *)
PlanTwice(qs, amt, slip, smart) ==
    LET rest == SelectSeq(qs, LAMBDA q : compute_slippage_bps(Smaller(amt, q.left), q) <= slip)
        segs == [i \in DOMAIN rest |->
                    IF smart THEN RouteSegment(rest[i], amt) ELSE AmmRouteSegment(rest[i], amt, slip)]
    IN IF rest = <<>> THEN <<>> ELSE <<Best(segs, smart)>>
PlanRoute(qs, amt, slip, smart) ==
    LET P[n \in 0..Len(qs)] ==
            IF n = 0 THEN [rest |-> amt, segs |-> <<>>]
            ELSE LET before == P[n - 1]
                     open == SelectSeq(qs, LAMBDA q :
                         /\ \A i \in DOMAIN before.segs : before.segs[i].key # q.key
                         /\ compute_slippage_bps(Smaller(before.rest, q.left), q) <= slip)
                     segs == [i \in DOMAIN open |->
                         IF smart THEN RouteSegment(open[i], Smaller(before.rest, open[i].left))
                         ELSE AmmRouteSegment(open[i], Smaller(before.rest, open[i].left), slip)]
                     next == Best(segs, smart)
                 IN IF before.rest = 0 \/ open = <<>> THEN before
                    ELSE [rest |-> before.rest - next.amt, segs |-> Append(before.segs, next)]
    IN IF P[Len(qs)].rest = 0 THEN P[Len(qs)].segs ELSE <<>>

AveragePrice(segs, smart) ==
    IF smart THEN SumOf([i \in DOMAIN segs |-> segs[i].amt * segs[i].price]) \div SumOf([i \in DOMAIN segs |-> segs[i].amt])
    ELSE (SumOf([i \in DOMAIN segs |-> segs[i].out]) * Bps) \div SumOf([i \in DOMAIN segs |-> segs[i].amt])
finalize_plan(segs, slip, smart) ==
    LET avg == AveragePrice(segs, smart) IN avg <= Reference \/ ((avg - Reference) * Bps) \div Reference <= slip

VenueQuotes ==
    LET live == SelectSeq(index, LAMBDA k : venue[k].left > 0)
    IN [i \in DOMAIN live |-> [key |-> live[i], left |-> venue[live[i]].left, price |-> venue[live[i]].price,
                               fee |-> venue[live[i]].fee, slip |-> venue[live[i]].slip]]
(* A venue's quote is listed under the source kind of its venue; a router  *)
(* is asked for its own.                                                   *)
discover_quotes(qs, ask) ==
    LET asked == SelectSeq(registry, LAMBDA r : paired /\ r.on /\ ask[r.src] # None) IN
    [i \in DOMAIN qs |-> [qs[i] EXCEPT !.key = <<IF @[1] = "Pool" THEN "StellarAmm" ELSE @[1], @[2]>>]]
    \o [i \in DOMAIN asked |-> [key |-> asked[i].src, left |-> ask[asked[i].src].qty, price |-> ask[asked[i].src].price,
                                fee |-> 0, slip |-> Bps \div 20]]

execute_plan_atomically(segs) == \A i \in DOMAIN segs : failVenue # [key |-> segs[i].key]
(* One segment: its venue is debited or, failing that, its router swaps.   *)
(* s: the venues so far, what was taken, and whether it still goes well.   *)
execute_segment(s, seg, swap) ==
    LET k == kind_to_venue(seg.key)
        live == \E i \in DOMAIN registry : registry[i].src = seg.key /\ registry[i].on
        here == s.venue[k] # None
    IN IF s.went # "ok" THEN s
       ELSE IF here /\ (here => s.venue[k].left >= seg.amt)
            THEN [s EXCEPT !.venue[k].left = @ - seg.amt, !.taken = @ + seg.amt]
       ELSE IF ~live \/ ~paired THEN [s EXCEPT !.went = "failed"]
       ELSE IF swap[seg.key] = "error" THEN [s EXCEPT !.went = "error"]
       ELSE IF swap[seg.key] = "short" THEN [s EXCEPT !.went = "failed", !.taken = @ + seg.amt]
       ELSE [s EXCEPT !.taken = @ + seg.amt]
execute_amm_plan(segs, swap) ==
    LET E[i \in 0..Len(segs)] ==
            IF i = 0 THEN [venue |-> venue, taken |-> 0, went |-> "ok"] ELSE execute_segment(E[i - 1], segs[i], swap)
    IN IF \E i \in DOMAIN segs : segs[i].key \in failed THEN [venue |-> venue, taken |-> 0, went |-> "failed"]
       ELSE E[Len(segs)]

(* The sources not marked failed, in registration order: those tried in    *)
(* vain are marked, the first that swaps serves the order.                 *)
build_fallback_chain(bad) == SelectSeq(registry, LAMBDA r : r.on /\ r.src \notin bad)
Serves(r, amt, ask, swap) == paired /\ ask[r.src] # None /\ (ask[r.src] # None => ask[r.src].qty >= amt) /\ swap[r.src] = "out"
MarkedLast(bad, srcs) == IF srcs = <<>> THEN bad ELSE [key |-> kind_to_venue(srcs[Len(srcs)])]

validate_signal_pair == Registered /\ paired => \E i \in DOMAIN registry : registry[i].on

Route(segs, amt) ==
    /\ venue' = [k \in Keys |-> IF venue[k] = None THEN None ELSE
                    [venue[k] EXCEPT !.left = @ - SumOf([i \in DOMAIN segs |-> IF segs[i].key = k THEN segs[i].amt ELSE 0])]]
    /\ last' = [by |-> "route", amt |-> amt, taken |-> amt] /\ UNCHANGED <<failVenue, failed>>
Fallback(s, segs, amt, ask, swap) ==
    LET tried == [i \in DOMAIN segs |-> segs[i].key]
        bad == failed \cup {tried[i] : i \in DOMAIN tried}
        chain == build_fallback_chain(bad)
        serving == {i \in DOMAIN chain : Serves(chain[i], amt, ask, swap)}
        n == IF serving = {} THEN Len(chain) ELSE (CHOOSE i \in serving : \A j \in serving : i <= j) - 1
        vain == tried \o [i \in 1..n |-> chain[i].src]
    IN /\ venue' = s.venue
       /\ failed' = failed \cup {vain[i] : i \in DOMAIN vain} /\ failVenue' = MarkedLast(failVenue, vain)
       /\ last' = [by |-> "fallback", amt |-> amt, taken |-> s.taken + amt]
(* The whole order on one plan of the venues, else on a plan with the AMM  *)
(* sources, else on one source, else on the market (a market order that    *)
(* fails undoes the call). ask and swap are the answers of the routers.    *)
Served(quotes, amt, slip, ask, swap) ==
    LET plan == PlanRoute(quotes, amt, slip, FALSE)
        none == [venue |-> venue, taken |-> 0, went |-> "none"]
    IN IF plan = <<>> THEN Fallback(none, <<>>, amt, ask, swap)
       ELSE LET run == execute_amm_plan(plan, swap) IN
            /\ finalize_plan(plan, slip, FALSE)
            /\ \/ /\ run.went = "ok"
                  /\ venue' = run.venue /\ UNCHANGED <<failVenue, failed>>
                  /\ last' = [by |-> "amm", amt |-> amt, taken |-> run.taken]
               \/ run.went = "failed" /\ Fallback(run, plan, amt, ask, swap)
execute_swap_with_fallback(amt, slip) ==
    LET venues == VenueQuotes
        smart == PlanRoute(venues, amt, slip, TRUE)
    IN /\ validate_signal_pair
       /\ IF smart # <<>> /\ (smart # <<>> => finalize_plan(smart, slip, TRUE) /\ execute_plan_atomically(smart))
          THEN Route(smart, amt)
          ELSE \E ask \in [Sources -> Asks \cup {None}], swap \in [Sources -> {"out", "short", "error"}] :
                  Served(discover_quotes(venues, ask), amt, slip, ask, swap)
       /\ UNCHANGED <<index, registry, paired>>

VenueCalls == set_signal_token_pair \/ \E s \in Sources, on \in BOOLEAN : register_amm_source(s, on)

RouteNext ==
    /\ Call /\ UNCHANGED <<bookVars, stopVars, hedgeVars>>
    /\ \/ \E k \in Keys, q \in Quotes : upsert_venue_liquidity(k, q)
       \/ VenueCalls
       \/ \E amt \in Amounts, slip \in Slippages : execute_swap_with_fallback(amt, slip)

(* An order is filled once: a call served by a plan takes exactly what it  *)
(* reports from the venues and routers, and one served by the fallback     *)
(* takes at most what a plan that failed half way had taken before; no     *)
(* venue is drawn below zero.                                              *)
RouteAccounted ==
    /\ \A k \in Keys : venue[k] # None => venue[k].left >= 0
    /\ last # None =>
          IF last.by = "fallback" THEN last.taken \in last.amt..(2 * last.amt) ELSE last.taken = last.amt

(* What a routed order takes from the venues is never more than the order. *)
DebitsWithinOrder ==
    last' # last =>
        SumOf([i \in DOMAIN index |-> venue[index[i]].left - venue'[index[i]].left]) \in 0..last'.amt
=============================================================================
