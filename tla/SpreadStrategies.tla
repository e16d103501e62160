-------------------------- MODULE SpreadStrategies --------------------------
(***************************************************************************)
(* auto_trade: the three strategies that trade a spread against its own    *)
(* history, each with a next-state relation of its own.                    *)
(*   - statistical arbitrage (stat_arb.rs): a basket of assets hedged by   *)
(*     least squares, traded on the z-score of the residual;               *)
(*   - pairs trading (pairs_trading.rs): the ratio of two assets;          *)
(*   - mean reversion (mean_reversion.rs): one price against its mean.     *)
(* The statistics are the code's own integer arithmetic, whose division    *)
(* truncates; a call that returns an error leaves no trace, so its checks  *)
(* are guards.  The signal a trade is made on is an argument of the caller.*)
(***************************************************************************)
EXTENDS Integers, Sequences, FiniteSets, FiniteSetsExt, SequencesExt

CONSTANTS
    Assets, Baskets, Histories,     \* price histories the oracle may set
    Lookbacks, Thresholds, Entries, Exits, Gaps, Values, StopLossPct,
    MinHistory, MinPairs, MinPrices,    \* 4, 30 and 30 in the code
    Sizes, Portfolios,                  \* position_size_pct, portfolio values
    Slots, Prices, AdjustAfter,         \* AdjustAfter: 10 in the code
    Scale,                              \* 10,000 in the code
    MaxTime, MaxTrades                  \* bounds

SpreadTyped ==
    /\ Scale \in Nat \ {0} /\ {MinHistory, MinPairs, MinPrices} \subseteq Nat \ {0}
    /\ Prices \subseteq Nat \ {0} /\ Values \cup Sizes \cup Portfolios \cup Slots \subseteq Nat

VARIABLES
    now,
    history,     \* StatArbDataKey::PriceHistory: asset -> sequence of prices
    strat, folio, folioId,   \* StatArbStrategy, StatArbPortfolio, NextPortfolioId
    pair, pairId,            \* PairsTradingStrategy, NextPositionId
    mr, price                \* MeanReversionStrategy; the current price of its asset

statVars == <<strat, folio, folioId>>
pairVars == <<pair, pairId>>
mrVars == <<mr, price>>
vars == <<now, history, statVars, pairVars, mrVars>>

None == [absent |-> TRUE]
Init ==
    /\ now = 1 /\ history = [a \in Assets |-> <<>>]
    /\ strat = None /\ folio = None /\ folioId = 1
    /\ pair = None /\ pairId = 1
    /\ mr = None /\ price \in Prices

Tick == now < MaxTime /\ now' = now + 1 /\ UNCHANGED <<history, statVars, pairVars, mrVars>>

-----------------------------------------------------------------------------
(* Integer statistics *)

Abs1(a) == IF a < 0 THEN -a ELSE a
Quot(a, b) == IF a < 0 THEN -((-a) \div b) ELSE a \div b   \* b > 0
SumOf(s) == LET Upto[i \in 0..Len(s)] == IF i = 0 THEN 0 ELSE Upto[i - 1] + s[i] IN Upto[Len(s)]
Times(s, t) == [i \in DOMAIN s |-> s[i] * t[i]]
Tuple(s) == SubSeq(s, 1, Len(s))   \* s, written out
LastOf(s, n) == SubSeq(s, Max({1, Len(s) - n + 1}), Len(s))

(* Fault: Newton's iteration stops one round early. *)
SqrtOneRound(n) == IF n <= 0 THEN 0 ELSE (n + 1) \div 2
(* Newton's iteration from above. *)
integer_sqrt(n) ==
    LET Root[x \in 1..n] == LET y == (x + n \div x) \div 2 IN IF y < x THEN Root[y] ELSE x
    IN  IF n <= 0 THEN 0 ELSE Root[n]
mean(s) == Quot(SumOf(s), Len(s))
variance(s) ==
    LET avg == mean(s) IN Quot(SumOf([i \in DOMAIN s |-> (s[i] - avg) * (s[i] - avg)]), Len(s))

Denominator(x) == Len(x) * SumOf(Times(x, x)) - SumOf(x) * SumOf(x)
calculate_regression_coefficient(y, x) ==
    Quot((Len(y) * SumOf(Times(x, y)) - SumOf(x) * SumOf(y)) * Scale, Denominator(x))

-----------------------------------------------------------------------------
(* stat_arb.rs *)

validate_price_history(h) == Len(h) >= MinHistory /\ \A i \in DOMAIN h : h[i] > 0
set_price_history(a, h) ==
    /\ validate_price_history(h)
    /\ history' = [history EXCEPT ![a] = h]
    /\ UNCHANGED <<now, statVars, pairVars, mrVars>>

validate_asset_basket(b) == Len(b) \in 3..5 /\ Cardinality({b[i] : i \in DOMAIN b}) = Len(b)
(* A new strategy record, whatever portfolio is open. *)
configure_strategy ==
    \E b \in Baskets, l \in Lookbacks, t \in Thresholds, e \in Entries, x \in Exits, g \in Gaps :
       /\ validate_asset_basket(b) /\ l >= MinHistory /\ t > 0 /\ e > 0 /\ x >= 0 /\ x < e
       /\ strat' = [basket |-> b, lookback |-> l, threshold |-> t, entry |-> e, exit |-> x,
                    gap |-> g, active |-> FALSE, why |-> "None"]
       /\ UNCHANGED <<now, history, folio, folioId, pairVars, mrVars>>

(* The histories of the basket cut to one length. *)
get_aligned_price_histories ==
    LET shortest == Min({Len(history[a]) : a \in Range(strat.basket)})
        len == Min({shortest, Max({strat.lookback, MinHistory})})
    IN  [i \in DOMAIN strat.basket |-> LastOf(history[strat.basket[i]], len)]
calculate_hedge_ratios_ols(al) ==
    [i \in DOMAIN al |->
        IF i = 1 THEN Scale ELSE -calculate_regression_coefficient(al[1], al[i])]
construct_portfolio(al, ratios) ==
    [k \in DOMAIN al[1] |-> SumOf([i \in DOMAIN al |-> Quot(al[i][k] * ratios[i], Scale)])]
Lagged(r) == SubSeq(r, 1, Len(r) - 1)
Diffs(r) == [k \in 1..(Len(r) - 1) |-> r[k + 1] - r[k]]
augmented_dickey_fuller_test(r) == calculate_regression_coefficient(Diffs(r), Lagged(r))
calculate_mean_reversion_halflife(phi) == IF phi >= 0 THEN 0 ELSE (6931 * Scale) \div (-phi)

(* Every asset has a history that validates, and no series is degenerate:  *)
(* then al, the ratios and the residuals are defined.                      *)
Aligned ==
    /\ strat # None /\ \A a \in Range(strat.basket) : validate_price_history(history[a])
    /\ \A i \in 2..Len(strat.basket) : Denominator(get_aligned_price_histories[i]) # 0
(* test_cointegration_for_assets and the z-score of check_stat_arb_signal. *)
Analysis ==
    LET al == Tuple(get_aligned_price_histories)
        ratios == Tuple(calculate_hedge_ratios_ols(al))
        res == Tuple(construct_portfolio(al, ratios))
        tested == Len(res) > MinHistory /\ Denominator(Lagged(res)) # 0
        phi == IF tested THEN augmented_dickey_fuller_test(res) ELSE 0
        sd == integer_sqrt(variance(res))
    IN  [ratios |-> ratios, residual |-> Last(res), tested |-> tested, scored |-> tested /\ sd # 0,
         coint |-> phi <= -strat.threshold /\ calculate_mean_reversion_halflife(phi) > 0,
         z |-> IF sd = 0 THEN 0 ELSE Quot((Last(res) - mean(res)) * Scale, sd)]
check_stat_arb_signal(x) ==
    CASE ~x.coint -> "Hold"
      [] x.coint /\ x.z >= strat.entry -> "EnterShort"
      [] x.coint /\ x.z <= -strat.entry -> "EnterLong"
      [] OTHER -> IF Abs1(x.z) <= strat.exit THEN "Exit" ELSE "Hold"

(* Fault: the legs of a short residual are not turned around. *)
BuildOneWay(ratios, value, long) ==
    LET weight == SumOf([i \in DOMAIN ratios |-> Abs1(ratios[i])])
    IN  [i \in DOMAIN strat.basket |->
          LET last == Last(history[strat.basket[i]])
              leg == (value * Abs1(ratios[i])) \div weight
          IN  [price |-> last, weight |-> ratios[i],
               quantity |-> Max({1, (leg * Scale) \div last}), long |-> ratios[i] > 0]]
build_positions(ratios, value, long) ==
    LET weight == SumOf([i \in DOMAIN ratios |-> Abs1(ratios[i])])
    IN  [i \in DOMAIN strat.basket |->
          LET last == Last(history[strat.basket[i]])
              leg == (value * Abs1(ratios[i])) \div weight
          IN  [price |-> last, weight |-> ratios[i],
               quantity |-> Max({1, (leg * Scale) \div last}), long |-> (ratios[i] > 0) = long]]

execute_stat_arb_trade(value) ==
    /\ value > 0 /\ folio = None /\ folioId <= MaxTrades /\ Aligned
    /\ LET x == Analysis
           long == check_stat_arb_signal(x) = "EnterLong"
       IN  /\ x.scored /\ check_stat_arb_signal(x) \in {"EnterLong", "EnterShort"}
           /\ folio' = [id |-> folioId, legs |-> build_positions(x.ratios, value, long),
                        residual |-> x.residual, z |-> x.z, balanced |-> now, value |-> value,
                        long |-> long]
    /\ strat' = [strat EXCEPT !.active = TRUE]
    /\ folioId' = folioId + 1
    /\ UNCHANGED <<now, history, pairVars, mrVars>>
rebalance_stat_arb_portfolio ==
    /\ folio # None /\ strat # None /\ now - folio.balanced >= strat.gap /\ Aligned
    /\ LET x == Analysis
       IN  /\ x.tested /\ x.coint
           /\ folio' = [folio EXCEPT !.legs = build_positions(x.ratios, folio.value, folio.long),
                                     !.balanced = now]
    /\ UNCHANGED <<now, history, strat, folioId, pairVars, mrVars>>
check_stat_arb_exit(x) ==
    LET adverse == IF folio.long THEN folio.residual - x.residual ELSE x.residual - folio.residual
    IN  CASE ~x.coint -> "CointegrationBreakdown"
          [] x.coint /\ Abs1(x.z) <= strat.exit -> "Converged"
          [] OTHER -> IF Max({adverse, 0}) * 100 >= Max({Abs1(folio.residual), 1}) * StopLossPct
                      THEN "StopLoss" ELSE "None"
(* Fault: the portfolio is removed and the strategy still says it has one. *)
CloseKeepsFlag ==
    /\ folio # None /\ Aligned /\ Analysis.scored
    /\ folio' = None
    /\ UNCHANGED <<now, history, strat, folioId, pairVars, mrVars>>
(* The close needs the exit check to be computable and takes place         *)
(* whatever it says; without a reason the event says Converged.            *)
close_stat_arb_portfolio ==
    /\ folio # None /\ Aligned
    /\ LET x == Analysis  why == check_stat_arb_exit(x)
       IN  /\ x.scored
           /\ strat' = [strat EXCEPT !.active = FALSE,
                                     !.why = IF why = "None" THEN "Converged" ELSE why]
    /\ folio' = None
    /\ UNCHANGED <<now, history, folioId, pairVars, mrVars>>
SetupCalls == configure_strategy \/ \E a \in Assets, h \in Histories : set_price_history(a, h)

StatArbNext ==
    \/ Tick \/ SetupCalls \/ rebalance_stat_arb_portfolio \/ close_stat_arb_portfolio
    \/ \E v \in Values : execute_stat_arb_trade(v)

-----------------------------------------------------------------------------
(* pairs_trading.rs, on the histories of two assets *)

configure_pairs_strategy ==
    \E a, b \in Assets, e \in Entries, x \in Exits, s \in Sizes :
       /\ pair = None /\ e > x /\ s > 0 /\ s <= 10000
       /\ pair' = [a |-> a, b |-> b, entry |-> e, exit |-> x, size |-> s, pos |-> None,
                   mean |-> 0]
       /\ UNCHANGED <<now, history, pairId, statVars, mrVars>>

Analysable == /\ Len(history[pair.a]) = Len(history[pair.b]) /\ Len(history[pair.a]) >= MinPairs
PairRatios == [i \in DOMAIN history[pair.a] |-> Quot(history[pair.a][i] * Scale, history[pair.b][i])]
(* Each term is divided, and truncated, on its own. *)
Spread(s, t) ==
    LET a == mean(s)  b == mean(t)
    IN  SumOf([i \in DOMAIN s |-> Quot((s[i] - a) * (t[i] - b), Len(s))])
calculate_correlation_from_prices(s, t) ==
    LET den == integer_sqrt(Spread(s, s) * Spread(t, t))
    IN  IF den = 0 THEN 0 ELSE Quot(Spread(s, t) * Scale, den)
Crossings(r) ==
    Cardinality({i \in 2..Len(r) :
        \/ r[i - 1] > mean(r) /\ r[i] <= mean(r)
        \/ r[i - 1] < mean(r) /\ r[i] >= mean(r)})
test_cointegration(r) == (Crossings(r) * 100) \div Len(r) > 20
analyze_asset_pair ==
    LET r == Tuple(PairRatios)  sd == integer_sqrt(Spread(r, r))
    IN  [corr |-> calculate_correlation_from_prices(history[pair.a], history[pair.b]),
         mean |-> mean(r), ratio |-> Last(r), coint |-> test_cointegration(r),
         z |-> IF sd = 0 THEN 0 ELSE Quot((Last(r) - mean(r)) * Scale, sd)]
calculate_pairs_confidence(x) ==
    Min({10000, Abs1(x.corr) \div 10 + Min({3000, Abs1(x.z) \div 10}) + IF x.coint THEN 2000 ELSE 0})

(* Stores the statistics; the error paths roll that back. *)
check_pairs_trading_signal ==
    /\ pair # None /\ pair.pos = None /\ Analysable
    /\ Abs1(analyze_asset_pair.corr) > 7000 /\ analyze_asset_pair.coint
    /\ pair' = [pair EXCEPT !.mean = analyze_asset_pair.mean]
    /\ UNCHANGED <<now, history, pairId, statVars, mrVars>>
(* The signal, long and short asset and z-score, is the caller's. *)
PairSignals == {<<x, y, z>> : x \in Assets, y \in Assets, z \in Entries}
execute_pairs_trade(sig, value) ==
    /\ pair # None /\ pair.pos = None /\ pairId <= MaxTrades
    /\ LET half == ((value * pair.size) \div 10000) \div 2
       IN  pair' = [pair EXCEPT !.pos = [id |-> pairId, long |-> sig[1], short |-> sig[2],
                                         z |-> sig[3], amount |-> half, at |-> now]]
    /\ pairId' = pairId + 1
    /\ UNCHANGED <<now, history, statVars, mrVars>>
PairExit ==
    LET z == Abs1(analyze_asset_pair.z) IN z <= pair.exit \/ z >= Abs1(pair.pos.z) * 2
(* Fault: only convergence closes, and a spread that runs away does not. *)
ExitOnlyConverged ==
    /\ pair # None /\ pair.pos # None /\ Analysable /\ Abs1(analyze_asset_pair.z) > pair.exit
    /\ pair' = [pair EXCEPT !.pos = None]
    /\ UNCHANGED <<now, history, pairId, statVars, mrVars>>
check_pairs_exit ==
    /\ pair # None /\ pair.pos # None /\ Analysable /\ PairExit
    /\ pair' = [pair EXCEPT !.pos = None]
    /\ UNCHANGED <<now, history, pairId, statVars, mrVars>>

PairTrades == check_pairs_exit \/ \E sig \in PairSignals, v \in Portfolios : execute_pairs_trade(sig, v)

PairsNext ==
    \/ Tick \/ configure_pairs_strategy \/ check_pairs_trading_signal \/ PairTrades
    \/ \E a \in Assets, h \in Histories : set_price_history(a, h)

-----------------------------------------------------------------------------
(* mean_reversion.rs, on one history *)

create_mean_reversion_strategy ==
    \E e \in Entries, x \in Exits, s \in Sizes, m \in Slots, h \in Histories :
       /\ mr = None /\ e > 0 /\ x > 0 /\ s > 0 /\ m > 0
       /\ mr' = [entry |-> e, exit |-> x, size |-> s, slots |-> m, pos |-> <<>>,
                 enabled |-> TRUE, series |-> h]
       /\ UNCHANGED <<now, history, price, statVars, pairVars>>
(* The oracle: a new current price. *)
SetPrice(p) ==
    /\ price' = p /\ UNCHANGED <<now, history, mr, statVars, pairVars>>
Deviation == integer_sqrt(variance(mr.series))
calculate_statistical_metrics ==
    [mean |-> mean(mr.series), sd |-> Deviation, price |-> price,
     z |-> Quot((price - mean(mr.series)) * Scale, Deviation)]
Measurable == mr # None /\ Len(mr.series) >= MinPrices /\ Deviation # 0
(* What check_mean_reversion_signals returns, if anything. *)
check_mean_reversion_signals ==
    LET x == calculate_statistical_metrics
    IN  IF ~mr.enabled \/ Abs1(x.z) < mr.entry THEN {}
        ELSE {[sell |-> x.z > 0, entry |-> price, target |-> x.mean,
               stop |-> IF x.z > 0 THEN price + 3 * x.sd ELSE price - 3 * x.sd]}
OpenSlots == {i \in DOMAIN mr.pos : mr.pos[i].open}
(* On a signal from now or from an earlier price; disabling does not stop it. *)
execute_mean_reversion_trade(value, sig) ==
    /\ mr # None /\ Cardinality(OpenSlots) < mr.slots /\ Len(mr.pos) < MaxTrades
    /\ (value * mr.size) \div 10000 > 0
    /\ mr' = [mr EXCEPT !.pos = Append(@, [open |-> TRUE, sell |-> sig.sell, entry |-> sig.entry,
                  target |-> sig.target, stop |-> sig.stop, amount |-> (value * mr.size) \div 10000])]
    /\ UNCHANGED <<now, history, price, statVars, pairVars>>
calculate_pnl(p, x) == Quot((IF p.sell THEN p.entry - x ELSE x - p.entry) * p.amount, p.entry)
ReversionDone(p) ==
    \/ IF p.sell THEN price <= p.target \/ price >= p.stop ELSE price >= p.target \/ price <= p.stop
    \/ Abs1(calculate_statistical_metrics.z) <= mr.exit
check_reversion_exits ==
    /\ Measurable /\ \E i \in OpenSlots : ReversionDone(mr.pos[i])
    /\ mr' = [mr EXCEPT !.pos = [i \in DOMAIN mr.pos |->
                 IF mr.pos[i].open /\ ReversionDone(mr.pos[i])
                 THEN [mr.pos[i] EXCEPT !.open = FALSE] ELSE mr.pos[i]]]
    /\ UNCHANGED <<now, history, price, statVars, pairVars>>
(* Losses tighten the entry, gains loosen it; open positions are counted   *)
(* in the window of 20 but not judged.                                     *)
adjust_strategy_parameters ==
    LET recent == {i \in DOMAIN mr.pos : i > Len(mr.pos) - 20 /\ ~mr.pos[i].open}
        wins == {i \in recent : calculate_pnl(mr.pos[i], price) > 0}
        rate == (Cardinality(wins) * 100) \div Cardinality(recent)
    IN  /\ mr # None /\ Cardinality(recent) >= AdjustAfter
        /\ mr' = [mr EXCEPT !.entry =
                     IF rate < 40 THEN Min({30000, @ + 1000})
                     ELSE IF rate > 60 THEN Max({15000, @ - 500}) ELSE @]
        /\ UNCHANGED <<now, history, price, statVars, pairVars>>
set_mean_reversion_enabled(b) ==
    /\ mr # None /\ mr' = [mr EXCEPT !.enabled = b]
    /\ UNCHANGED <<now, history, price, statVars, pairVars>>

ReversionUpkeep == create_mean_reversion_strategy \/ check_reversion_exits \/ adjust_strategy_parameters

ReversionNext ==
    \/ ReversionUpkeep
    \/ \E p \in Prices : SetPrice(p)
    \/ \E b \in BOOLEAN : set_mean_reversion_enabled(b)
    \/ Measurable /\ \E v \in Portfolios, s \in check_mean_reversion_signals :
          execute_mean_reversion_trade(v, s)

-----------------------------------------------------------------------------
(* Properties *)

(* A strategy says it has a portfolio only while there is one, every leg   *)
(* is long or short as the residual was bought or sold, and the legs worth *)
(* more than one unit do not exceed the value that was put in.             *)
FolioHedged ==
    /\ (strat # None /\ strat.active) => folio # None
    /\ folio # None =>
         /\ folio.id < folioId
         /\ \A i \in DOMAIN folio.legs : folio.legs[i].long = ((folio.legs[i].weight > 0) = folio.long)
         /\ SumOf([i \in DOMAIN folio.legs |->
                IF folio.legs[i].quantity = 1 THEN 0
                ELSE (folio.legs[i].quantity * folio.legs[i].price) \div Scale]) <= folio.value
         /\ IF folio.long THEN folio.z < 0 ELSE folio.z > 0

(* An open portfolio keeps its identity, value and side through every      *)
(* rebalancing and reconfiguration, and its legs move only with its clock. *)
FolioKept ==
    (folio # None /\ folio' # None) =>
        /\ folio'.id = folio.id /\ folio'.value = folio.value /\ folio'.long = folio.long
        /\ folio'.legs # folio.legs => folio'.balanced = now

(* A pairs position is left only when the spread has come back or has run  *)
(* to twice where it was entered, and is never replaced by another.        *)
PairClosedByRule ==
    (pair # None /\ pair.pos # None /\ pair'.pos # pair.pos) =>
        /\ pair'.pos = None
        /\ LET z == Abs1(analyze_asset_pair.z) IN z <= pair.exit \/ z >= 2 * Abs1(pair.pos.z)

(* Reversion positions never exceed their slots, and none that was closed  *)
(* is open again; an adjustment never moves the entry past its bounds.     *)
ReversionSlotted ==
    mr # None =>
        /\ Cardinality(OpenSlots) <= mr.slots
        /\ \A i \in DOMAIN mr.pos : mr.pos[i].amount > 0
             /\ (mr.pos[i].sell => mr.pos[i].target <= mr.pos[i].entry)
             /\ (~mr.pos[i].sell => mr.pos[i].target >= mr.pos[i].entry)
ReversionFinal ==
    (mr # None) => \A i \in DOMAIN mr.pos : ~mr.pos[i].open => ~mr'.pos[i].open

(* Correlation of a series with itself is one, or zero when it does not    *)
(* move; the root is the integer one.                                      *)
StatisticsSound ==
    \A a \in Assets : history[a] # <<>> =>
        /\ calculate_correlation_from_prices(history[a], history[a]) \in {0, Scale}
        /\ LET v == variance(history[a]) r == integer_sqrt(v) IN r * r <= v /\ v < (r + 1) * (r + 1)
=============================================================================
