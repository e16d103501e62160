---------------------------- MODULE FeeCollector ----------------------------
(***************************************************************************)
(* The fee collector: a trade pays a fee at a rate made of the base rate,  *)
(* congestion, volume discounts and a cached configuration; the fee is     *)
(* burned, shared with the referrer, pooled and kept in the treasury.      *)
(* Withdrawals wait a day in a queue of one, the insurance fund pays each  *)
(* claim once, providers claim pending fees under a cap per day.           *)
(***************************************************************************)
EXTENDS Integers, FiniteSets, Sequences

CONSTANTS
    Traders, Providers, Tokens,
    Bps, MinRate, MaxRate,      \* 10000, MIN_FEE_RATE_BPS, MAX_FEE_RATE_BPS
    Rates, Burns, Shares, Multipliers, Congestion, Configs, Scores, TierSets,
    DefaultConfig, Slots,       \* Slots: the digits of the cache key
    Staleness, Month,
    Items, MaxQueued,           \* trades with what the oracle makes of them (0: it fails); failed collections
    Sums, Waterfalls, Day, ClaimIds, Caps,
    Pending, Conversions, RebateCaps,
    Splits,
    MaxNow, MaxCalls

CollectorTyped ==
    /\ Bps \in Nat \ {0} /\ MinRate \in Nat \ {0} /\ MaxRate \in Nat /\ MinRate <= MaxRate /\ Slots \in Nat \ {0}
    /\ Month \in Nat \ {0} /\ Day \in Nat \ {0} /\ Pending \subseteq Nat

VARIABLES
    now, calls, paused,
    rate, burn, share, refShare, congestion, signal, config, score, tiers, protocol, version, cache, referrer,
    book,                                 \* balances and statistics a collection writes
    failed,
    queued, caps, processed, payouts, waterfall, \* payouts is history
    pending, payout, maxRebate, rebated, stray, converted, \* stray, converted are history
    policy, shares, totals, first, index

rateVars == <<rate, burn, share, refShare, congestion, signal, config, score, tiers, protocol, version, referrer>>
treasuryVars == <<queued, caps, processed, payouts, waterfall>>
claimVars == <<pending, payout, maxRebate, rebated, converted>>
earningVars == <<policy, shares, totals, first, index>>
vars == <<now, calls, paused, rateVars, cache, book, failed, treasuryVars, claimVars, stray, earningVars>>

None == [absent |-> TRUE]
Least(a, b) == IF a < b THEN a ELSE b
Most(a, b) == IF a > b THEN a ELSE b
Monus(a, b) == IF a > b THEN a - b ELSE 0
Zero == [t \in Tokens |-> 0]
SumOver(f, S) == LET R[T \in SUBSET S] == IF T = {} THEN 0 ELSE LET x == CHOOSE y \in T : TRUE IN f[x] + R[T \ {x}] IN R[S]
At(f, k) == IF k \in DOMAIN f THEN f[k] ELSE 0
Put(f, k, v) == [x \in DOMAIN f \cup {k} |-> IF x = k THEN v ELSE f[x]]
Today == now \div Day

Init ==
    /\ now = 1 /\ calls = 0 /\ paused = FALSE
    /\ rate = 30 /\ burn = 1000 /\ share = 2000 /\ refShare = 0
    /\ congestion = [min |-> 5000, max |-> 30000, normal |-> 10000] /\ signal = None /\ config = DefaultConfig /\ score = 0
    /\ tiers \in {T \in TierSets : \A S \in TierSets : Cardinality(T) <= Cardinality(S)}
    /\ protocol = "none" /\ version = 0 /\ cache = [k \in {} |-> None] /\ referrer = [u \in {} |-> 0]
    /\ pending \in [Providers -> [Tokens -> Pending]]
    /\ book = [custody |-> [t \in Tokens |-> SumOver([p \in Providers |-> pending[p][t]], Providers)], treasury |-> Zero, pool |-> Zero, insurance |-> Zero,
               daily |-> [k \in {} |-> 0], traded |-> {}, volume |-> [u \in {} |-> None], forecast |-> Zero]
    /\ failed = [k \in {} |-> None]
    /\ queued = None /\ caps = Zero /\ processed = {} /\ payouts = <<>> /\ waterfall = None
    /\ payout = [p \in {} |-> "none"] /\ maxRebate = 8000 /\ rebated = [k \in {} |-> 0] /\ stray = Zero /\ converted = FALSE
    /\ policy = [protocol |-> 3000, provider |-> 7000] /\ shares = [k \in {} |-> 0] /\ totals = [p \in {} |-> 0] /\ first = [p \in {} |-> 0] /\ index = <<>>

Tick == now < MaxNow /\ now' = now + 1 /\ UNCHANGED <<calls, paused, rateVars, cache, book, failed, treasuryVars, claimVars, stray, earningVars>>
Call == calls < MaxCalls /\ calls' = calls + 1 /\ UNCHANGED now

-----------------------------------------------------------------------------
(* The rate a trader pays.                                                 *)

current_effective_multiplier ==
    IF signal = None THEN congestion.normal
    ELSE IF now - signal.at > Staleness THEN congestion.normal ELSE Most(congestion.min, Least(congestion.max, signal.multiplier))
get_active_volume_usd(b, u) == IF u \in DOMAIN b.volume /\ (u \in DOMAIN b.volume => b.volume[u].month = now \div Month) THEN b.volume[u].usd ELSE 0
Discount(usd) == LET D == {0} \cup {t.discount : t \in {s \in tiers : usd >= s.from}} IN CHOOSE d \in D : \A e \in D : e <= d
get_fee_rate_for_user(usd) == Most(MinRate, Monus((rate * current_effective_multiplier) \div Bps, Discount(usd)))
effective_fee_rate_cached(base, t, c) ==
    LET up == Most(base + ((c.score * c.config.sensitivity) \div Bps), c.config.least)
        r == Least(up, Least(c.config.most, MaxRate))
    IN IF t = c.protocol THEN Most(MinRate, r \div 2) ELSE r

(* The "transaction" cache lives in temporary storage: it outlives the      *)
(* transaction, under the last digit of the configuration's version.        *)
versioned_cache_key(v) == v % Slots
(* v is history: the version the entry was filled at. *)
Current == [config |-> config, score |-> score, burn |-> burn, protocol |-> protocol, v |-> version]
load_tx_fee_config == LET k == versioned_cache_key(version) IN IF k \in DOMAIN cache THEN cache[k] ELSE Current

fee_and_burn_amounts(x, r, b) == LET fee == (x * r) \div Bps IN [fee |-> fee, burn |-> (fee * b) \div Bps]

record_trade_volume(b, u, usd) == [b EXCEPT !.volume = Put(b.volume, u, [month |-> now \div Month, usd |-> get_active_volume_usd(b, u) + usd])]
(* Fault: the treasury is credited with the whole rest, the referrer's part included. *)
CreditForgetsReferral(b, i) ==
    LET f == fee_and_burn_amounts(i.amount, effective_fee_rate_cached(get_fee_rate_for_user(get_active_volume_usd(b, i.trader)), i.token, load_tx_fee_config), load_tx_fee_config.burn)
        rest == f.fee - f.burn
        ref == IF i.trader \in DOMAIN referrer THEN Least((f.fee * refShare) \div Bps, rest) ELSE 0
        pooled == Least((rest * share) \div Bps, rest - ref)
    IN IF i.trader \notin b.traded THEN [b EXCEPT !.traded = @ \cup {i.trader}]
       ELSE [b EXCEPT !.custody[i.token] = @ + rest - ref, !.pool[i.token] = @ + pooled, !.treasury[i.token] = @ + rest - pooled,
                      !.daily = Put(@, <<i.token, Today>>, At(@, <<i.token, Today>>) + f.fee)]
(* One collection, on the books b: the first trade of a trader is free; an oracle failure or a fee of zero fails it. *)
collect_fee_with_recovery(b, i) ==
    LET c == load_tx_fee_config
        r == effective_fee_rate_cached(get_fee_rate_for_user(get_active_volume_usd(b, i.trader)), i.token, c)
        f == fee_and_burn_amounts(i.amount, r, c.burn)
        rest == f.fee - f.burn
        ref == IF i.trader \in DOMAIN referrer THEN Least((f.fee * refShare) \div Bps, rest) ELSE 0
        pooled == Least((rest * share) \div Bps, rest - ref)
        paid == [b EXCEPT !.custody[i.token] = @ + rest - ref, !.pool[i.token] = @ + pooled, !.treasury[i.token] = @ + (rest - ref - pooled),
                          !.daily = Put(@, <<i.token, Today>>, At(@, <<i.token, Today>>) + f.fee),
                          !.forecast[i.token] = IF Today >= @ + 1 THEN Today ELSE @]
        free == [b EXCEPT !.traded = @ \cup {i.trader}]
    IN IF i.trader \notin b.traded
       THEN IF i.usd = 0 THEN free ELSE record_trade_volume(free, i.trader, i.usd)
       ELSE record_trade_volume(paid, i.trader, i.usd)
Collectable(b, i) ==
    /\ ~paused /\ i.amount > 0
    /\ i.trader \in b.traded =>
          /\ i.usd # 0
          /\ fee_and_burn_amounts(i.amount, effective_fee_rate_cached(get_fee_rate_for_user(get_active_volume_usd(b, i.trader)), i.token, load_tx_fee_config), 0).fee > 0
Cached(b, i) == cache' = IF i.trader \in b.traded THEN Put(cache, versioned_cache_key(version), load_tx_fee_config) ELSE cache

collect_fee(i) == Collectable(book, i) /\ book' = collect_fee_with_recovery(book, i) /\ Cached(book, i) /\ UNCHANGED failed
(* A batch is one transaction: one item that fails undoes the others. *)
batch_collect_fees(i, j) ==
    LET b == collect_fee_with_recovery(book, i) IN
    /\ Collectable(book, i) /\ Collectable(b, j)
    /\ book' = collect_fee_with_recovery(b, j) /\ cache' = Put(cache, versioned_cache_key(version), load_tx_fee_config) /\ UNCHANGED failed
queue_failed_fee_collection(k, i) == failed' = Put(failed, k, [item |-> i, tries |-> 0]) /\ UNCHANGED <<book, cache>>
(* A retry that fails is rolled back with its count. *)
retry_failed_fee_collection(k) ==
    /\ k \in DOMAIN failed /\ (k \in DOMAIN failed => failed[k].tries < config.retries /\ Collectable(book, failed[k].item))
    /\ book' = collect_fee_with_recovery(book, failed[k].item) /\ Cached(book, failed[k].item)
    /\ failed' = [x \in DOMAIN failed \ {k} |-> failed[x]]
(* Temporary storage: an entry of the cache may expire. *)
expire(k) == cache' = [x \in DOMAIN cache \ {k} |-> cache[x]] /\ UNCHANGED <<book, failed>>

-----------------------------------------------------------------------------
(* Settings. Those of the cached configuration raise its version; the       *)
(* protocol token does not.                                                 *)

bump_config_version == version' = version + 1
set_fee_rate(r) == r <= MaxRate /\ r >= MinRate /\ rate' = r /\ bump_config_version /\ UNCHANGED <<burn, share, refShare, congestion, signal, config, score, tiers, protocol, referrer>>
set_burn_rate(r) == r <= Bps /\ burn' = r /\ bump_config_version /\ UNCHANGED <<rate, share, refShare, congestion, signal, config, score, tiers, protocol, referrer>>
set_fee_optimization_config(c) ==
    /\ c.most >= MinRate /\ c.most <= MaxRate /\ c.sensitivity <= Bps /\ c.least >= MinRate /\ c.retries <= 10
    /\ config' = c /\ bump_config_version /\ UNCHANGED <<rate, burn, share, refShare, congestion, signal, score, tiers, protocol, referrer>>
update_network_conditions(s) == s <= Bps /\ score' = s /\ bump_config_version /\ UNCHANGED <<rate, burn, share, refShare, congestion, signal, config, tiers, protocol, referrer>>
set_protocol_token(t) == protocol' = t /\ UNCHANGED <<rate, burn, share, refShare, congestion, signal, config, score, tiers, version, referrer>>
set_congestion_config(c) ==
    /\ c.min > 0 /\ c.min <= c.max /\ c.normal >= c.min /\ c.normal <= c.max
    /\ congestion' = c /\ UNCHANGED <<rate, burn, share, refShare, signal, config, score, tiers, protocol, version, referrer>>
set_congestion_signal(x) ==
    /\ x >= congestion.min /\ x <= congestion.max /\ signal' = [multiplier |-> x, at |-> now]
    /\ UNCHANGED <<rate, burn, share, refShare, congestion, config, score, tiers, protocol, version, referrer>>
set_volume_discount_config(T) ==
    /\ Cardinality(T) >= 3 /\ \A t \in T : t.from >= 0 /\ t.discount > 0 /\ t.discount <= MaxRate
    /\ tiers' = T /\ UNCHANGED <<rate, burn, share, refShare, congestion, signal, config, score, protocol, version, referrer>>
set_revenue_share_rate_bps(r) == r <= Bps /\ share' = r /\ UNCHANGED <<rate, burn, refShare, congestion, signal, config, score, tiers, protocol, version, referrer>>
set_referral_fee_share(r) == r <= Bps /\ refShare' = r /\ UNCHANGED <<rate, burn, share, congestion, signal, config, score, tiers, protocol, version, referrer>>
register_referral(a, u) == a # u /\ u \notin DOMAIN referrer /\ referrer' = Put(referrer, u, a) /\ UNCHANGED <<rate, burn, share, refShare, congestion, signal, config, score, tiers, protocol, version>>
admin_override_referral(a, u) == a # u /\ referrer' = Put(referrer, u, a) /\ UNCHANGED <<rate, burn, share, refShare, congestion, signal, config, score, tiers, protocol, version>>
RateCalls ==
    (\E r \in Rates : set_fee_rate(r)) \/ \E r \in Burns : set_burn_rate(r)
CongestionCalls ==
    \/ \E c \in Configs : set_fee_optimization_config(c)
    \/ \E c \in Congestion : set_congestion_config(c)
    \/ \E x \in Multipliers : set_congestion_signal(x)
ReferralCalls ==
    \/ \E r \in Shares : set_referral_fee_share(r)
    \/ \E a, u \in Traders : register_referral(a, u) \/ admin_override_referral(a, u)

SetRate ==
    \/ RateCalls \/ CongestionCalls \/ ReferralCalls
    \/ \E s \in Scores : update_network_conditions(s)
    \/ \E t \in Tokens : set_protocol_token(t)
    \/ \E T \in TierSets : set_volume_discount_config(T)
    \/ \E r \in Shares : set_revenue_share_rate_bps(r)
pause(on) == paused # on /\ paused' = on

PayFee ==
    (\E i \in Items : collect_fee(i)) \/ \E i, j \in Items : batch_collect_fees(i, j)
FailedFee ==
    \/ Cardinality(DOMAIN failed) < MaxQueued /\ \E i \in Items : queue_failed_fee_collection(Cardinality(DOMAIN failed) + 1, i)
    \/ \E k \in 1..MaxQueued : retry_failed_fee_collection(k)

CollectNext ==
    /\ UNCHANGED <<treasuryVars, claimVars, stray, earningVars>>
    /\ \/ Call /\ UNCHANGED <<paused, rateVars>> /\ (PayFee \/ FailedFee)
       \/ Call /\ UNCHANGED <<paused, cache, book, failed>> /\ SetRate
       \/ Call /\ UNCHANGED <<rateVars, cache, book, failed>> /\ \E on \in BOOLEAN : pause(on)
       \/ UNCHANGED <<now, calls, paused, rateVars>> /\ \E k \in DOMAIN cache : expire(k)
       \/ Tick

(* Whatever is configured, and whatever the cache holds, the rate a trader pays stays within the minimum and the maximum, and trading more never costs more. *)
RatesBounded ==
    /\ \A u \in Traders, t \in Tokens :
          LET r == effective_fee_rate_cached(get_fee_rate_for_user(get_active_volume_usd(book, u)), t, load_tx_fee_config) IN r >= MinRate /\ r <= MaxRate
    /\ \A u, w \in Traders : get_active_volume_usd(book, u) >= get_active_volume_usd(book, w)
                             => get_fee_rate_for_user(get_active_volume_usd(book, u)) <= get_fee_rate_for_user(get_active_volume_usd(book, w))
(* A change of burn rate, score or limits is seen by the next collection: a trade is charged by an old configuration only when a multiple of Slots changes, at least one, lie between the two, since the key of the cache keeps the last digit of the version only and the entry outlives its transaction.  The protocol token, whose setter does not raise the version, is exempt. *)
StaleOnlyAfterWrap ==
    LET c == load_tx_fee_config IN
    c.burn # burn \/ c.score # score \/ c.config # config => version > c.v /\ (version - c.v) % Slots = 0

-----------------------------------------------------------------------------
(* Treasury, waterfall, insurance and the revenue pool.                     *)

queue_withdrawal(to, t, x) ==
    /\ ~paused /\ x > 0 /\ x <= book.treasury[t]
    /\ queued' = [to |-> to, token |-> t, amount |-> x, at |-> now] /\ UNCHANGED <<book, caps, processed, payouts, waterfall, stray>>
withdraw_treasury_fees(to, t, x) ==
    /\ ~paused /\ queued # None
    /\ queued # None => queued.to = to /\ queued.token = t /\ queued.amount = x /\ now >= queued.at + Day
    /\ x <= book.treasury[t]
    /\ book' = [book EXCEPT !.custody[t] = @ - x, !.treasury[t] = @ - x] /\ queued' = None /\ UNCHANGED <<caps, processed, payouts, waterfall, stray>>
set_insurance_payout_cap(t, c) == c >= 0 /\ caps' = [caps EXCEPT ![t] = c] /\ UNCHANGED <<book, queued, processed, payouts, waterfall, stray>>
deposit_insurance_fund(t, x) ==
    /\ ~paused /\ x > 0 /\ book' = [book EXCEPT !.custody[t] = @ + x, !.insurance[t] = @ + x] /\ UNCHANGED <<queued, caps, processed, payouts, waterfall, stray>>
payout_insurance(t, x, id) ==
    /\ ~paused /\ x > 0 /\ id \notin processed /\ (caps[t] > 0 => x <= caps[t]) /\ x <= book.insurance[t]
    /\ book' = [book EXCEPT !.custody[t] = @ - x, !.insurance[t] = @ - x] /\ processed' = processed \cup {id}
    /\ payouts' = Append(payouts, id) /\ UNCHANGED <<queued, caps, waterfall, stray>>
set_waterfall_config(w) == waterfall' = w /\ UNCHANGED <<book, queued, caps, processed, payouts, stray>>
(* Tiers in the order of their priority, equal ones as configured. *)
Ordered(w) == CHOOSE o \in [DOMAIN w -> DOMAIN w] :
    /\ \A i, j \in DOMAIN o : i < j => o[i] # o[j] /\ (w[o[i]].priority < w[o[j]].priority \/ (w[o[i]].priority = w[o[j]].priority /\ o[i] < o[j]))
Allocation(w, total) ==
    LET o == Ordered(w)
        A[n \in 0..Len(w)] == IF n = 0 THEN [left |-> total, paid |-> <<>>]
            ELSE LET tier == w[o[n]]
                     x == IF A[n - 1].left >= tier.target THEN tier.target ELSE IF A[n - 1].left >= tier.minimum THEN A[n - 1].left ELSE 0
                 IN [left |-> A[n - 1].left - x, paid |-> Append(A[n - 1].paid, x)]
    IN A[Len(w)]
distribute_waterfall(t, total) ==
    /\ ~paused /\ total > 0 /\ waterfall # None /\ book.treasury[t] >= total
    /\ LET spent == total - Allocation(waterfall, total).left IN book' = [book EXCEPT !.custody[t] = @ - spent, !.treasury[t] = @ - spent]
    /\ UNCHANGED <<queued, caps, processed, payouts, waterfall, stray>>
(* The snapshot announces the pool and forgets it: nobody is paid. *)
trigger_revenue_share_snapshot(t) ==
    /\ book.pool[t] > 0 /\ book' = [book EXCEPT !.pool[t] = 0] /\ stray' = [stray EXCEPT ![t] = @ + book.pool[t]]
    /\ UNCHANGED <<queued, caps, processed, payouts, waterfall>>
WithdrawalCalls ==
    \E to \in Providers, t \in Tokens, x \in Sums : queue_withdrawal(to, t, x) \/ withdraw_treasury_fees(to, t, x)
InsuranceCalls ==
    \E t \in Tokens : (\E c \in Caps : set_insurance_payout_cap(t, c)) \/ \E x \in Sums : deposit_insurance_fund(t, x)
WaterfallCalls ==
    (\E w \in Waterfalls : set_waterfall_config(w)) \/ \E t \in Tokens, x \in Sums : distribute_waterfall(t, x)

TreasuryNext ==
    /\ UNCHANGED <<rateVars, failed, claimVars, earningVars>>
    /\ \/ Call /\ UNCHANGED <<paused, treasuryVars, stray>> /\ \E i \in Items : Collectable(book, i) /\ book' = collect_fee_with_recovery(book, i) /\ Cached(book, i)
       \/ /\ Call /\ UNCHANGED <<paused, cache>>
          /\ \/ WithdrawalCalls \/ InsuranceCalls \/ WaterfallCalls
             \/ \E t \in Tokens, x \in Sums, id \in ClaimIds : payout_insurance(t, x, id)
             \/ \E t \in Tokens : trigger_revenue_share_snapshot(t)
       \/ Tick

(* Token by token, what the contract holds is exactly its treasury, its pool, its insurance fund, what it owes to providers and what it no longer counts; unless a claim was paid in another currency, it holds enough for all of them. *)
FeesSolvent == \A t \in Tokens :
    /\ book.custody[t] = book.treasury[t] + book.pool[t] + book.insurance[t] + SumOver([p \in Providers |-> pending[p][t]], Providers) + stray[t]
    /\ ~converted => stray[t] >= 0
    /\ book.treasury[t] >= 0 /\ book.pool[t] >= 0 /\ book.insurance[t] >= 0
(* No tier of a waterfall gets part of its minimum, none is passed over while its minimum is left, and nothing is paid beyond the total. *)
WaterfallFair == waterfall # None => \A total \in Sums :
    LET o == Ordered(waterfall)
        a == Allocation(waterfall, total)
        before(n) == total - SumOver(a.paid, 1..(n - 1))
    IN /\ a.left >= 0
       /\ \A n \in DOMAIN a.paid :
             /\ a.paid[n] <= waterfall[o[n]].target
             /\ a.paid[n] = 0 \/ a.paid[n] >= waterfall[o[n]].minimum \/ a.paid[n] = waterfall[o[n]].target
             /\ before(n) >= waterfall[o[n]].minimum /\ waterfall[o[n]].target > 0 /\ before(n) > 0 => a.paid[n] > 0
(* Treasury funds leave by a withdrawal that was queued, as it is, a day before, or by a waterfall; insurance pays a claim once, within the cap of that moment. *)
TreasuryByRule == \A t \in Tokens :
    /\ book'.treasury[t] < book.treasury[t] /\ queued' # queued =>
          queued # None /\ (queued # None => queued.token = t /\ book.treasury[t] - book'.treasury[t] = queued.amount /\ now >= queued.at + Day)
    /\ book'.insurance[t] < book.insurance[t] =>
          /\ \A i, j \in DOMAIN payouts' : i # j => payouts'[i] # payouts'[j]
          /\ caps[t] > 0 => book.insurance[t] - book'.insurance[t] <= caps[t]

-----------------------------------------------------------------------------
(* Claims of pending fees, capped per day by a part of the day's fees. The  *)
(* pending fees are those an earlier version of the contract recorded:      *)
(* nothing in this one adds to them.                                        *)

Headroom(t) == ((At(book.daily, <<t, Today>>) * maxRebate) \div Bps) - At(rebated, <<t, Today>>)
Claimable(p, t) == IF At(book.daily, <<t, Today>>) > 0 /\ Headroom(t) < pending[p][t] THEN Headroom(t) ELSE pending[p][t]
(* try_claim_in_preferred_currency: c.get units of the other token per c.give, 0 when the oracle fails. *)
Converted(p, t, c) ==
    LET x == (Claimable(p, t) * c.get) \div c.give IN
    IF Claimable(p, t) > 0 /\ p \in DOMAIN payout /\ (p \in DOMAIN payout => payout[p] # t /\ book.custody[payout[p]] >= x) THEN x ELSE 0
claim_fees(p, t, c) ==
    LET x == Claimable(p, t)
        y == Converted(p, t, c)
        kept == pending[p][t] - Most(x, 0)
    IN /\ ~paused /\ pending[p][t] > 0
       /\ rebated' = IF x > 0 /\ At(book.daily, <<t, Today>>) > 0 THEN Put(rebated, <<t, Today>>, At(rebated, <<t, Today>>) + x) ELSE rebated
       /\ pending' = [pending EXCEPT ![p][t] = 0]
       /\ IF y > 0
          THEN /\ book' = [book EXCEPT !.custody[payout[p]] = @ - y] /\ converted' = TRUE
               /\ stray' = [u \in Tokens |-> IF u = t THEN stray[u] + pending[p][t] ELSE IF u = payout[p] THEN stray[u] - y ELSE stray[u]]
          ELSE /\ book.custody[t] >= x /\ book' = [book EXCEPT !.custody[t] = @ - Most(x, 0)] /\ stray' = [stray EXCEPT ![t] = @ + kept] /\ UNCHANGED converted
       /\ UNCHANGED <<payout, maxRebate>>
set_payout_currency(p, t) == payout' = Put(payout, p, t) /\ UNCHANGED <<book, pending, maxRebate, rebated, converted, stray>>
clear_payout_currency(p) == p \in DOMAIN payout /\ payout' = [q \in DOMAIN payout \ {p} |-> payout[q]] /\ UNCHANGED <<book, pending, maxRebate, rebated, converted, stray>>
set_max_rebate_bps(r) == r <= Bps /\ maxRebate' = r /\ UNCHANGED <<book, pending, payout, rebated, converted, stray>>
PayoutCurrencyCalls ==
    \E p \in Providers : clear_payout_currency(p) \/ \E t \in Tokens : set_payout_currency(p, t)

ClaimNext ==
    /\ UNCHANGED <<rateVars, failed, treasuryVars, earningVars, paused>>
    /\ \/ Call /\ UNCHANGED <<claimVars, stray>> /\ \E i \in Items : Collectable(book, i) /\ book' = collect_fee_with_recovery(book, i) /\ Cached(book, i)
       \/ Call /\ UNCHANGED cache /\ \/ \E p \in Providers, t \in Tokens, c \in Conversions : claim_fees(p, t, c)
                                     \/ PayoutCurrencyCalls
                                     \/ \E r \in RebateCaps : set_max_rebate_bps(r)
       \/ Tick

(* A day's rebates grow only up to the cap on that day's fees as it is then; a claim leaves nothing pending and pays no more than was pending. *)
RebatesCapped == \A t \in Tokens :
    /\ At(rebated', <<t, Today>>) > At(rebated, <<t, Today>>) => At(rebated', <<t, Today>>) <= (At(book.daily, <<t, Today>>) * maxRebate) \div Bps
    /\ pending' # pending /\ ~converted' => \A u \in Tokens : book.custody[u] - book'.custody[u] <= SumOver([p \in Providers |-> pending[p][u] - pending'[p][u]], Providers)

-----------------------------------------------------------------------------
(* Providers' earnings, split by a policy, and the reports on them.         *)

set_fee_split_policy(s) == s.protocol + s.provider = Bps /\ policy' = s /\ UNCHANGED <<shares, totals, first, index>>
split(gross) == LET x == (gross * policy.protocol) \div Bps IN [protocol |-> x, provider |-> gross - x]
add_provider_daily_fee_shares(p, x) ==
    /\ shares' = Put(shares, <<p, Today>>, At(shares, <<p, Today>>) + x)
    /\ first' = IF p \in DOMAIN first THEN first ELSE Put(first, p, Today)
    /\ totals' = Put(totals, p, At(totals, p) + x)
    /\ index' = IF \E i \in DOMAIN index : index[i] = p THEN index ELSE Append(index, p)
    /\ UNCHANGED policy
record_provider_fee_share(p, x) == x > 0 /\ add_provider_daily_fee_shares(p, x)
record_provider_gross_fee_share(p, x) == x > 0 /\ (IF split(x).provider > 0 THEN add_provider_daily_fee_shares(p, split(x).provider) ELSE UNCHANGED earningVars)
sum_fee_shares_days(p, from) == SumOver([d \in from..Today |-> At(shares, <<p, d>>)], from..Today)
get_provider_earnings_report(p) == sum_fee_shares_days(p, IF p \in DOMAIN first THEN first[p] ELSE Today)
EarningCalls ==
    \/ \E s \in Splits : set_fee_split_policy(s)
    \/ \E p \in Providers, x \in Sums : record_provider_fee_share(p, x) \/ record_provider_gross_fee_share(p, x)

EarningNext ==
    /\ UNCHANGED <<rateVars, cache, book, failed, treasuryVars, claimVars, stray, paused>>
    /\ \/ Call /\ EarningCalls
       \/ Tick

(* The all-time report, summed day by day from the first, says what the running total says; every earner is in the index once; a split loses nothing. *)
EarningsAgree ==
    /\ \A p \in Providers : get_provider_earnings_report(p) = At(totals, p)
    /\ \A p \in Providers : Cardinality({i \in DOMAIN index : index[i] = p}) = IF At(totals, p) > 0 THEN 1 ELSE 0
    /\ \A x \in Sums : x >= 0 => split(x).protocol + split(x).provider = x /\ split(x).protocol >= 0 /\ split(x).provider >= 0
=============================================================================
