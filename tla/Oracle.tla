------------------------------- MODULE Oracle -------------------------------
(***************************************************************************)
(* The price oracle, for one pair of assets: published prices behind a     *)
(* deviation breaker, submissions of sources read through a median and a   *)
(* quorum with a fallback, the consensus of registered oracles with their  *)
(* reputation, conversions along cached paths, challenges of observations, *)
(* and the administration of pauses.                                       *)
(*                                                                         *)
(* now is both the ledger's sequence number and its time: calls of one     *)
(* ledger share both.                                                      *)
(***************************************************************************)
EXTENDS Integers, FiniteSets, Sequences, TLC

CONSTANTS
    Accounts, Prices, Bps,
    Thresholds, RecoveryRounds,            \* deviation breaker
    Bucket, MaxBuckets, TwapWindow,        \* price history
    AgingUntil, DeadAfter, StaleAfter,     \* levels of staleness, heartbeats
    Externals,                             \* batches of <<[oracle, round, price, at]>>
    Weighted,                              \* the sources that have been added, with weight one
    Window, Windows, Confidences, Counts, Fallbacks, Rejects, MaxDeviation,
    FeedConfigs, MaxPublishers,
    Week, ReviewAfter,                     \* reputation
    Assets, Base, RateSet, One, Amounts, CacheFor, MaxPath, MaxHops, HopCost, HopSlip, Tolerance,
    Observations, Durations, TransferFor, Start, MaxNow, MaxCalls

OracleTyped ==
    /\ Bps \in Nat \ {0} /\ One \in Nat \ {0} /\ Bucket \in Nat \ {0} /\ RecoveryRounds \in Nat \ {0}
    /\ Start \in Nat \ {0} /\ Prices \subseteq Nat

VARIABLES
    now, calls, pauses,
    feed, threshold, tripped, streak, history, pruned, meta, sla, round, opened, outside, \* opened, outside are history
    subs, weight, window, minCount, minConfidence, reject, fallback, state, config,
    oracles, stats, pending, consensus,
    pairs, rates, cache, paths,
    challengers, obs,
    admin, guardian, heir

publishVars == <<feed, threshold, tripped, streak, history, pruned, meta, sla, round, opened, outside>>
quorumVars == <<subs, weight, window, minCount, minConfidence, reject, fallback, state, config>>
consensusVars == <<oracles, stats, pending, consensus>>
convertVars == <<pairs, rates, cache, paths>>
challengeVars == <<challengers, obs>>
adminVars == <<admin, guardian, heir>>
vars == <<now, calls, pauses, publishVars, quorumVars, consensusVars, convertVars, challengeVars, adminVars>>

None == [absent |-> TRUE]
Abs(x) == IF x < 0 THEN -x ELSE x
Most(a, b) == IF a > b THEN a ELSE b
Least(a, b) == IF a < b THEN a ELSE b
Put(f, k, v) == [x \in DOMAIN f \cup {k} |-> IF x = k THEN v ELSE f[x]]
Drop(f, k) == [x \in DOMAIN f \ {k} |-> f[x]]
RangeOf(s) == {s[i] : i \in DOMAIN s}
PricesOf(s) == [i \in DOMAIN s |-> s[i].price]
Total(s) == LET T[n \in 0..Len(s)] == IF n = 0 THEN 0 ELSE T[n - 1] + s[n] IN T[Len(s)]
Sorted(s) == SortSeq(s, <)
Empty == [x \in {} |-> None]

Init ==
    /\ now = Start /\ calls = 0 /\ pauses = Empty
    /\ feed = None /\ threshold = 0 /\ tripped = FALSE /\ streak = 0 /\ history = [b \in {} |-> 0] /\ pruned = 0
    /\ meta = [at |-> 0, status |-> "dead"] /\ sla = [sum |-> 0, count |-> 0, prev |-> 0] /\ round = [n |-> 0, at |-> 0] /\ opened = 0 /\ outside = 0
    /\ subs = <<>> /\ weight = [a \in Weighted |-> 1] /\ window = Window /\ minCount = 0 /\ minConfidence = 0 /\ reject = 0
    /\ fallback = [members |-> {}, min |-> 1] /\ state = "primary" /\ config = None
    /\ oracles = <<>> /\ stats = Empty /\ pending = <<>> /\ consensus = None
    /\ pairs = <<>> /\ rates = Empty /\ cache = Empty /\ paths = Empty
    /\ challengers = {} /\ obs = Empty
    /\ admin \in {a \in Accounts : \A b \in Accounts : a <= b} /\ guardian = 0 /\ heir = None

Tick == now < MaxNow /\ now' = now + 1 /\ UNCHANGED <<calls, pauses, publishVars, quorumVars, consensusVars, convertVars, challengeVars, adminVars>>
Call == calls < MaxCalls /\ calls' = calls + 1 /\ UNCHANGED now

-----------------------------------------------------------------------------
(* Pauses and roles.                                                        *)

is_state_active(p) == p.until = 0 \/ now < p.until - 1
is_paused(c) == \E k \in DOMAIN pauses \cap {"all", c} : is_state_active(pauses[k])
(* until is 0 for a pause without end, else its end plus one. *)
pause_category(u, c, d) == (u = guardian \/ u = admin) /\ pauses' = Put(pauses, c, [until |-> IF d < 0 THEN 0 ELSE now + d + 1]) /\ UNCHANGED adminVars
unpause_category(u, c) == u = admin /\ pauses' = Drop(pauses, c) /\ UNCHANGED adminVars
(* apply_governance_pause, called by the governance contract. *)
set_all_paused(on) == pauses' = (IF on THEN Put(pauses, "all", [until |-> 0]) ELSE Drop(pauses, "all")) /\ UNCHANGED adminVars
set_guardian(u, g) == u = admin /\ guardian' = g /\ UNCHANGED <<pauses, admin, heir>>
revoke_guardian(u) == u = admin /\ guardian # 0 /\ guardian' = 0 /\ UNCHANGED <<pauses, admin, heir>>
propose_admin_transfer(u, v) == u = admin /\ heir' = [to |-> v, until |-> now + TransferFor, by |-> u] /\ UNCHANGED <<pauses, admin, guardian>>
accept_admin_transfer(u) ==
    /\ heir # None /\ (heir # None => heir.to = u /\ now < heir.until)
    /\ admin' = u /\ heir' = None /\ UNCHANGED <<pauses, guardian>>
cancel_admin_transfer(u) == u = admin /\ heir # None /\ heir' = None /\ UNCHANGED <<pauses, admin, guardian>>
GuardianCalls ==
    \/ \E u \in Accounts, c \in {"all", "feeds"} : unpause_category(u, c) \/ \E d \in Durations : pause_category(u, c, d)
    \/ \E u \in Accounts : revoke_guardian(u) \/ \E v \in Accounts : set_guardian(u, v)
    \/ \E on \in BOOLEAN : set_all_paused(on)
TransferCalls ==
    \E u \in Accounts : accept_admin_transfer(u) \/ cancel_admin_transfer(u) \/ \E v \in Accounts : propose_admin_transfer(u, v)

AdminNext ==
    /\ UNCHANGED <<publishVars, quorumVars, consensusVars, convertVars, challengeVars>>
    /\ \/ Call /\ (GuardianCalls \/ TransferCalls)
       \/ Tick

(* The admin changes only to an heir the admin itself named, before the offer ends; whatever the guardian did, an unpause by the admin lifts the pause. *)
AdminByRule ==
    /\ admin' # admin => heir # None /\ (heir # None => heir.by = admin /\ heir.to = admin' /\ now < heir.until)
    /\ guardian' # guardian => admin' = admin
    /\ \A c \in DOMAIN pauses : c \notin DOMAIN pauses' => guardian' = guardian /\ admin' = admin

-----------------------------------------------------------------------------
(* Published prices.                                                        *)

Within(old, new) == threshold = 0 \/ (Abs(new - old) * Bps) \div old <= threshold
store_price(p) ==
    LET b == now \div Bucket
        cut == Most(pruned, b - MaxBuckets)
        h == Put(history, b, p)
    IN IF b < MaxBuckets THEN history' = h /\ UNCHANGED pruned
       ELSE history' = [x \in {y \in DOMAIN h : y >= cut \/ y < pruned} |-> h[x]] /\ pruned' = cut
(* The end of on_price_update: the time, the heartbeat and the record of the service level. *)
on_price_update ==
    /\ meta' = [at |-> now, status |-> "healthy"]
    /\ sla' = [sla EXCEPT !.prev = now,
                          !.sum = IF sla.prev > 0 /\ now > sla.prev THEN @ + now - sla.prev ELSE @,
                          !.count = IF sla.prev > 0 /\ now > sla.prev THEN @ + 1 ELSE @]
    /\ opened' = IF opened = 0 THEN now ELSE opened
record_round == round' = [n |-> round.n + 1, at |-> now]
Publish(p) == feed' = [price |-> p, at |-> now] /\ store_price(p) /\ record_round /\ on_price_update
Hold == UNCHANGED <<feed, history, pruned, round, meta, sla, opened>>
(* A price out of band trips the breaker and is not stored; three in band, one after the other, clear it with the third. *)
set_price(p) ==
    /\ ~is_paused("all") /\ p > 0
    /\ \/ feed = None /\ (IF tripped THEN Hold ELSE Publish(p)) /\ UNCHANGED <<tripped, streak>>
       \/ feed # None /\ feed.price > 0 /\ ~Within(feed.price, p) /\ tripped' = TRUE /\ streak' = 0 /\ Hold
       \/ feed # None /\ feed.price > 0 /\ Within(feed.price, p) /\ tripped /\ streak + 1 < RecoveryRounds /\ streak' = streak + 1 /\ Hold /\ UNCHANGED tripped
       \/ feed # None /\ feed.price > 0 /\ Within(feed.price, p) /\ tripped /\ streak + 1 >= RecoveryRounds /\ tripped' = FALSE /\ streak' = 0 /\ Publish(p)
       \/ feed # None /\ feed.price > 0 /\ Within(feed.price, p) /\ ~tripped /\ Publish(p) /\ UNCHANGED <<tripped, streak>>
    /\ UNCHANGED <<threshold, outside>>
set_update_deviation_threshold(t) == threshold' = t /\ UNCHANGED <<feed, tripped, streak, history, pruned, meta, sla, round, opened, outside>>
reset_update_deviation_breaker == tripped' = FALSE /\ streak' = 0 /\ UNCHANGED <<feed, threshold, history, pruned, meta, sla, round, opened, outside>>
(* Of one batch, a source's newer round replaces its older one. *)
admit(s, who, seq) == IF \E i \in DOMAIN s : s[i].source = who THEN (IF \E i \in DOMAIN s : s[i].source = who /\ s[i].seq >= seq THEN "refused" ELSE "replaced") ELSE "appended"
Admitted(s, e) ==
    CASE admit(s, e.source, e.seq) = "refused" -> s
      [] admit(s, e.source, e.seq) = "replaced" -> [i \in DOMAIN s |-> IF s[i].source = e.source THEN e ELSE s[i]]
      [] OTHER -> Append(s, e)
process_external_prices(batch) ==
    LET ok(e) == now - e.at < window /\ e.price > 0
        A[n \in 0..Len(batch)] == IF n = 0 THEN <<>> ELSE IF ok(batch[n]) THEN Admitted(A[n - 1], batch[n]) ELSE A[n - 1]
    IN A[Len(batch)]
(* Prices from outside are stored as they are: neither pause nor breaker is asked. *)
update_with_external_data(batch) ==
    LET a == process_external_prices(batch) IN
    /\ \A i \in DOMAIN batch : batch[i].at <= now
    /\ a # <<>> /\ feed' = [price |-> Total(PricesOf(a)) \div Len(a), at |-> now] /\ on_price_update
    /\ outside' = outside + 1 /\ UNCHANGED <<threshold, tripped, streak, history, pruned, round>>
check_oracle_heartbeat ==
    LET age == now - meta.at
        s == IF meta.at = 0 \/ age > DeadAfter THEN "dead" ELSE IF age > StaleAfter THEN "stale" ELSE "healthy"
    IN /\ s # "healthy" /\ s # meta.status /\ meta' = [meta EXCEPT !.status = s]
       /\ UNCHANGED <<feed, threshold, tripped, streak, history, pruned, sla, round, opened, outside>>
get_safe_price == IF now - meta.at <= AgingUntil /\ feed # None THEN feed.price ELSE 0
calculate_twap ==
    LET B == {b \in DOMAIN history : b >= Most(now - TwapWindow, 0) \div Bucket /\ b <= now \div Bucket}
        S[X \in SUBSET B] == IF X = {} THEN 0 ELSE LET x == CHOOSE y \in X : TRUE IN history[x] + S[X \ {x}]
    IN IF B = {} THEN 0 ELSE S[B] \div Cardinality(B)
BreakerCalls ==
    reset_update_deviation_breaker \/ \E t \in Thresholds : set_update_deviation_threshold(t)

PublishNext ==
    /\ UNCHANGED <<quorumVars, consensusVars, convertVars, challengeVars, adminVars>>
    /\ \/ Call /\ UNCHANGED pauses /\ \E p \in Prices : set_price(p)
       \/ Call /\ UNCHANGED pauses /\ BreakerCalls
       \/ Call /\ UNCHANGED pauses /\ \E b \in Externals : update_with_external_data(b)
       \/ UNCHANGED <<now, calls, pauses>> /\ check_oracle_heartbeat
       \/ Call /\ UNCHANGED publishVars /\ \E on \in BOOLEAN : pauses' = (IF on THEN Put(pauses, "all", [until |-> 0]) ELSE Drop(pauses, "all"))
       \/ Tick

(* Time, service record and safe price speak of the same update: the intervals add up to the time between the first update and the last, a safe price is recent, rounds never run ahead, and the average price lies between the lowest and the highest of its window. *)
PublishedTogether ==
    /\ (feed = None) = (meta.at = 0) /\ sla.prev = meta.at /\ (feed # None => feed.at = meta.at) /\ round.at <= meta.at
    /\ sla.sum = sla.prev - opened /\ sla.count <= sla.sum
    /\ get_safe_price > 0 => now - feed.at <= AgingUntil
    /\ calculate_twap # 0 => \E a, b \in DOMAIN history : history[a] <= calculate_twap /\ calculate_twap <= history[b]
    /\ \A b \in DOMAIN history : b >= pruned
(* Behind the breaker the published price moves within the threshold only, and a tripped breaker lets it move only when it clears; streaks count rounds in band, one at a time. *)
BreakerHolds ==
    /\ outside' = outside /\ feed' # feed /\ feed # None => Within(feed.price, feed'.price) /\ ~tripped'
    /\ tripped /\ feed' # feed /\ outside' = outside => streak = RecoveryRounds - 1
    /\ streak' > streak => tripped /\ tripped' /\ streak' = streak + 1
    /\ round'.n > round.n => round'.at = now /\ feed'.at = now

-----------------------------------------------------------------------------
(* Submissions of sources, and the price they add up to.                    *)

median_of(s) == LET o == Sorted(s)
                    n == Len(s)
                IN IF n % 2 = 1 THEN o[(n \div 2) + 1] ELSE (o[n \div 2] + o[(n \div 2) + 1]) \div 2
median_within_deviation(s) == \A i \in DOMAIN s : Abs(s[i] - median_of(s)) * Bps <= median_of(s) * MaxDeviation
Fresh(s) == SelectSeq(s, LAMBDA e : now - e.at < window)
authorize_publisher(u) == config # None => (u = config.owner \/ u \in config.publishers) /\ config.enabled
check_deviation(s) == reject = 0 \/ LET o == Sorted(s) IN ((o[Len(o)] - o[1]) * Bps) \div o[1] <= reject
submit_pair_price(u, p, c) ==
    LET kept == Fresh(subs)
        e == [source |-> u, price |-> p, at |-> now, seq |-> now]
    IN /\ ~is_paused("all") /\ p > 0 /\ authorize_publisher(u) /\ ~tripped /\ c >= minConfidence
       /\ u \in DOMAIN weight /\ (u \in DOMAIN weight => weight[u] > 0) /\ admit(kept, u, now) # "refused"
       /\ check_deviation(PricesOf(Admitted(kept, e)))
       /\ subs' = Admitted(kept, e) /\ record_round
       /\ UNCHANGED <<weight, window, minCount, minConfidence, reject, fallback, state, config>>
(* Of the fresh submissions, or of the published price when there is none: the median without a fallback, the quorum with one. *)
Readable == IF subs # <<>> THEN Fresh(subs)
            ELSE IF feed # None /\ (feed # None => now - feed.at < window) THEN <<[source |-> 0, price |-> feed.price, at |-> feed.at, seq |-> now]>> ELSE <<>>
Outcome(s, p, by) == [state |-> s, price |-> p, by |-> by]
Refused == Outcome("refused", 0, <<>>)
validate_quorum_with_fallback(votes) ==
    LET enough == Len(votes) >= Most(minCount, 1)
        some == SelectSeq(votes, LAMBDA e : e.source \in fallback.members)
    IN IF enough /\ median_within_deviation(PricesOf(votes)) THEN Outcome("primary", median_of(PricesOf(votes)), votes)
       ELSE IF some # <<>> /\ Len(some) >= Most(fallback.min, 1) /\ (some # <<>> => median_within_deviation(PricesOf(some)))
            THEN Outcome("degraded", median_of(PricesOf(some)), some) ELSE Refused
get_price_with_confidence ==
    LET votes == Readable
        o == Sorted(PricesOf(votes))
    IN IF tripped \/ votes = <<>> THEN Refused
       ELSE IF fallback.members # {} THEN validate_quorum_with_fallback(votes)
       ELSE IF (minCount > 0 /\ Len(votes) < minCount) \/ ((o[Len(o)] - o[1]) * 100) \div o[1] > 10 THEN Refused
       ELSE Outcome(state, o[(Len(o) \div 2) + 1], votes)
(* A read that fails is rolled back with the state it had noted. *)
get_price == LET r == get_price_with_confidence IN
    /\ r.state # "refused" /\ state' = r.state /\ UNCHANGED <<subs, weight, window, minCount, minConfidence, reject, fallback, config, round>>
add_price_source(u, w) == weight' = Put(weight, u, w) /\ UNCHANGED <<subs, window, minCount, minConfidence, reject, fallback, state, config, round>>
set_staleness_window(w) == window' = w /\ UNCHANGED <<subs, weight, minCount, minConfidence, reject, fallback, state, config, round>>
set_min_source_count(n) == minCount' = n /\ UNCHANGED <<subs, weight, window, minConfidence, reject, fallback, state, config, round>>
set_min_confidence(c) == minConfidence' = c /\ UNCHANGED <<subs, weight, window, minCount, reject, fallback, state, config, round>>
set_deviation_reject_threshold(t) == reject' = t /\ UNCHANGED <<subs, weight, window, minCount, minConfidence, fallback, state, config, round>>
set_quorum_fallback(f) ==
    /\ f.members # {} /\ Most(f.min, 1) <= Cardinality(f.members)
    /\ fallback' = [f EXCEPT !.min = Most(@, 1)] /\ UNCHANGED <<subs, weight, window, minCount, minConfidence, reject, state, config, round>>
Reconfigure(c) == config' = c /\ UNCHANGED <<subs, weight, window, minCount, minConfidence, reject, fallback, state, round>>
Version == IF config = None THEN 0 ELSE config.version
configure_feeds(c) == c.maxAge > 0 /\ Cardinality(c.publishers) <= MaxPublishers /\ Reconfigure([owner |-> c.owner, publishers |-> c.publishers, enabled |-> c.enabled, version |-> Version + 1])
add_feed_publisher(u, v) ==
    /\ config # None /\ (config # None => config.owner = u /\ v \notin config.publishers /\ Cardinality(config.publishers) < MaxPublishers)
    /\ Reconfigure([config EXCEPT !.publishers = @ \cup {v}, !.version = @ + 1])
revoke_feed_publisher(u, v) ==
    /\ config # None /\ (config # None => config.owner = u /\ v \in config.publishers)
    /\ Reconfigure([config EXCEPT !.publishers = @ \ {v}, !.version = @ + 1])
(* Submissions live in temporary storage. *)
expire_submissions == subs # <<>> /\ subs' = <<>> /\ UNCHANGED <<weight, window, minCount, minConfidence, reject, fallback, state, config, round>>
FeedCalls ==
    \/ \E c \in FeedConfigs : configure_feeds(c)
    \/ \E u, v \in Accounts : add_feed_publisher(u, v) \/ revoke_feed_publisher(u, v)
ThresholdCalls ==
    \/ \E u \in Accounts, w \in {0, 1} : add_price_source(u, w)
    \/ \E w \in Windows : set_staleness_window(w)
    \/ \E c \in Confidences : set_min_confidence(c)
    \/ \E t \in Rejects : set_deviation_reject_threshold(t)
SourceCalls ==
    (\E n \in Counts : set_min_source_count(n)) \/ \E f \in Fallbacks : set_quorum_fallback(f)

QuorumNext ==
    /\ UNCHANGED <<pauses, consensusVars, convertVars, challengeVars, adminVars>>
    /\ \/ /\ UNCHANGED <<feed, threshold, tripped, streak, history, pruned, meta, sla, opened, outside>> /\ Call
          /\ \/ \E u \in Accounts, p \in Prices, c \in Confidences : submit_pair_price(u, p, c)
             \/ get_price
             \/ FeedCalls \/ ThresholdCalls \/ SourceCalls
       \/ UNCHANGED <<now, calls, feed, threshold, tripped, streak, history, pruned, meta, sla, opened, outside>> /\ expire_submissions
       \/ Call /\ UNCHANGED quorumVars /\ \E p \in Prices : set_price(p)
       \/ Tick

(* A source has one vote, its latest. A price that is read has enough sources behind it, all fresh, one of the two sets of sources within its deviation; and whatever a minority of them says, it lies between two prices of any majority. *)
ReadsByMajority ==
    /\ \A i, j \in DOMAIN subs : i # j => subs[i].source # subs[j].source
    /\ LET r == get_price_with_confidence IN r.state # "refused" =>
          /\ r.by # <<>> /\ \A i \in DOMAIN r.by : now - r.by[i].at < window
          /\ r.state = "primary" \/ fallback.members = {} => Len(r.by) >= minCount
          /\ \A M \in SUBSET (DOMAIN r.by) : 2 * Cardinality(M) > Len(r.by) =>
                \E i, j \in M : r.by[i].price <= r.price /\ r.price <= r.by[j].price
(* What is stored was within the limit on outliers at that time; a source's vote is replaced by a later one of its own only, and others' votes go only when they are stale; a feed's configuration never goes back to an old version. *)
SubmissionsByRule ==
    /\ round'.n > round.n /\ subs' # subs =>
          /\ check_deviation(PricesOf(subs'))
          /\ \A e \in RangeOf(subs) : e \in RangeOf(subs') \/ now - e.at >= window
                                      \/ \E f \in RangeOf(subs') : f.source = e.source /\ f.seq > e.seq
    /\ config' # config => config' # None /\ config'.version = Version + 1

-----------------------------------------------------------------------------
(* Consensus of registered oracles, and their reputation.                   *)

Newcomer == [total |-> 0, accurate |-> 0, dev |-> 0, score |-> 50, weight |-> 1, slashed |-> 0]
get_oracle_stats(st, o) == IF o \in DOMAIN st THEN st[o] ELSE Newcomer
register_oracle(o) ==
    /\ \A i \in DOMAIN oracles : oracles[i] # o
    /\ oracles' = Append(oracles, o) /\ stats' = Put(stats, o, Newcomer) /\ UNCHANGED <<pending, consensus>>
remove_oracle(o) == oracles' = SelectSeq(oracles, LAMBDA x : x # o) /\ UNCHANGED <<stats, pending, consensus>>
submit_price(o, p) ==
    /\ ~is_paused("all") /\ p > 0 /\ (\E i \in DOMAIN oracles : oracles[i] = o) /\ get_oracle_stats(stats, o).weight > 0 /\ admit(pending, o, now) # "refused"
    /\ pending' = Admitted(pending, [source |-> o, price |-> p, seq |-> now]) /\ UNCHANGED <<oracles, stats, consensus>>
(* Every price as often as its oracle weighs, at least once. *)
weighted_median(s) ==
    LET W[n \in 0..Len(s)] == IF n = 0 THEN <<>> ELSE W[n - 1] \o [k \in 1..Most(get_oracle_stats(stats, s[n].source).weight, 1) |-> s[n].price]
    IN median_of(W[Len(s)])
Deviation(p, c) == (Abs(p - c) * Bps) \div c
track_oracle_accuracy(r, p, c) ==
    [r EXCEPT !.total = @ + 1, !.dev = ((@ * r.total) + Deviation(p, c)) \div (r.total + 1), !.accurate = IF Deviation(p, c) <= 500 THEN @ + 1 ELSE @]
slash_oracle(r) == [r EXCEPT !.score = Most(@ - 20, 0), !.slashed = now]
Judged(r, p, c) == LET t == track_oracle_accuracy(r, p, c) IN IF Deviation(p, c) > 2000 THEN slash_oracle(t) ELSE t
calculate_reputation(r) ==
    IF r.total = 0 THEN 50
    ELSE Least(100, ((r.accurate * 60) \div r.total) + (30 - Least(r.dev \div 1000, 30)) + IF now - r.slashed > Week THEN 10 ELSE 0)
WeightOf(score) == IF score >= 90 THEN 10 ELSE IF score >= 75 THEN 5 ELSE IF score >= 60 THEN 2 ELSE IF score >= 50 THEN 1 ELSE 0
adjust_oracle_weight(r) == [r EXCEPT !.score = calculate_reputation(r), !.weight = WeightOf(calculate_reputation(r))]
should_remove_oracle(r) == (r.total >= ReviewAfter /\ (r.accurate * 100) \div r.total < 50) \/ calculate_reputation(r) < 50
calculate_consensus ==
    LET c == weighted_median(pending)
        voted == {pending[i].source : i \in DOMAIN pending}
        price(o) == pending[CHOOSE i \in DOMAIN pending : pending[i].source = o].price
        judged == [o \in DOMAIN stats \cup voted |-> IF o \in voted THEN Judged(get_oracle_stats(stats, o), price(o), c) ELSE stats[o]]
        weighed == [o \in DOMAIN judged |-> IF o \in RangeOf(oracles) THEN adjust_oracle_weight(judged[o]) ELSE judged[o]]
        bad == {o \in RangeOf(oracles) : should_remove_oracle(weighed[o])}
    IN /\ pending # <<>> /\ stats' = weighed
       /\ oracles' = IF Len(oracles) - Cardinality(bad) >= 2 THEN SelectSeq(oracles, LAMBDA o : o \notin bad) ELSE oracles
       /\ consensus' = [price |-> c, at |-> now, n |-> Len(pending)] /\ pending' = <<>>
ConsensusNext ==
    /\ UNCHANGED <<pauses, publishVars, quorumVars, convertVars, challengeVars, adminVars>>
    /\ \/ Call /\ \/ \E o \in Accounts : register_oracle(o) \/ remove_oracle(o) \/ \E p \in Prices : submit_price(o, p)
                  \/ calculate_consensus
       \/ Tick

(* More than half of the weight decides: the price it agrees on is the consensus. Weights follow scores, and no oracle is counted twice. *)
WeightDecides ==
    /\ pending # <<>> => \A p \in Prices :
          LET w(i) == Most(get_oracle_stats(stats, pending[i].source).weight, 1)
              all == Total([i \in DOMAIN pending |-> w(i)])
              for == Total([i \in DOMAIN pending |-> IF pending[i].price = p THEN w(i) ELSE 0])
          IN 2 * for > all => weighted_median(pending) = p
    /\ \A o \in RangeOf(oracles) : stats[o].weight = WeightOf(stats[o].score) /\ stats[o].accurate <= stats[o].total
    /\ \A i, j \in DOMAIN pending : i # j => pending[i].source # pending[j].source
(* A consensus removes oracles only while two stay, never one that is in good standing, and never forgets what an oracle did. *)
OraclesKept ==
    /\ consensus' # consensus /\ oracles' # oracles => Len(oracles') >= 2 /\ \A o \in RangeOf(oracles) \ RangeOf(oracles') : stats'[o].score < 50 \/ 2 * stats'[o].accurate < stats'[o].total
    /\ consensus' # consensus => \A o \in DOMAIN stats : stats'[o].total >= stats[o].total /\ stats'[o].accurate >= stats[o].accurate

-----------------------------------------------------------------------------
(* Conversions. Pairs link assets both ways, prices have a direction.       *)

Linked(a, b) == \E i \in DOMAIN pairs : pairs[i] = <<a, b>> \/ pairs[i] = <<b, a>>
add_pair(a, b) == (\A i \in DOMAIN pairs : pairs[i] # <<a, b>>) /\ pairs' = Append(pairs, <<a, b>>) /\ UNCHANGED <<rates, cache, paths>>
(* set_price, of the pair's normalised price. *)
set_rate(a, b, r) == rates' = Put(rates, <<a, b>>, r) /\ pairs' = (IF \E i \in DOMAIN pairs : pairs[i] = <<a, b>> THEN pairs ELSE Append(pairs, <<a, b>>)) /\ UNCHANGED <<cache, paths>>
convert_direct(x, a, b) == IF x >= 0 /\ <<a, b>> \in DOMAIN rates THEN (x * rates[<<a, b>>]) \div One ELSE -1
(* Breadth first, at most MaxPath assets: over one hop, or over the asset that the list of pairs reaches first. *)
find_conversion_path(a) ==
    LET next(i) == IF pairs[i][1] = a THEN pairs[i][2] ELSE pairs[i][1]
        via == {i \in DOMAIN pairs : a \in {pairs[i][1], pairs[i][2]} /\ Linked(next(i), Base) /\ next(i) # Base}
    IN IF Linked(a, Base) THEN <<a, Base>>
       ELSE IF via # {} /\ MaxPath >= 3 THEN <<a, next(CHOOSE i \in via : \A j \in via : i <= j), Base>> ELSE <<>>
ConvertedAlong(p, x) == LET C[n \in 1..Len(p)] == IF n = 1 THEN x ELSE convert_direct(C[n - 1], p[n - 1], p[n]) IN C[Len(p)]
Converted(x, a) ==
    IF a = Base THEN x
    ELSE IF convert_direct(x, a, Base) >= 0 THEN convert_direct(x, a, Base)
    ELSE IF find_conversion_path(a) = <<>> THEN -1 ELSE ConvertedAlong(find_conversion_path(a), x)
Live(a) == a \in DOMAIN cache /\ (a \in DOMAIN cache => now - cache[a].at < CacheFor)
(* exact is history: the price of one unit, along the way the rate was found. *)
convert_to_base(x, a) ==
    /\ ~Live(a) /\ Converted(x, a) >= 0 /\ UNCHANGED <<pairs, rates, paths>>
    /\ LET r == (Converted(x, a) * One) \div x IN
       cache' = IF x > 0 /\ (x > 0 => r > 0) THEN Put(cache, a, [rate |-> r, at |-> now, exact |-> Converted(One * One, a)]) ELSE cache
SimplePaths(a, b) == {p \in UNION {[1..n -> Assets] : n \in 2..(MaxHops + 1)} :
    p[1] = a /\ p[Len(p)] = b /\ (\A i, j \in DOMAIN p : i # j => p[i] # p[j]) /\ \A i \in 1..(Len(p) - 1) : Linked(p[i], p[i + 1])}
calculate_path_cost(p) == (Len(p) - 1) * HopCost
find_optimal_path(a, b) ==
    LET S == {p \in SimplePaths(a, b) : (Len(p) - 1) * HopSlip <= Tolerance} IN
    /\ <<a, b>> \notin DOMAIN paths /\ S # {} /\ UNCHANGED <<pairs, rates, cache>>
    /\ \E p \in S : (\A q \in S : calculate_path_cost(p) <= calculate_path_cost(q)) /\ paths' = Put(paths, <<a, b>>, p)
expire_caches == cache' = Empty /\ paths' = Empty /\ UNCHANGED <<pairs, rates>>
RateCalls(a, b) == add_pair(a, b) \/ \E r \in RateSet : set_rate(a, b, r)

ConvertNext ==
    /\ UNCHANGED <<pauses, publishVars, quorumVars, consensusVars, challengeVars, adminVars>>
    /\ \/ Call /\ \E a, b \in Assets : a # b /\ (RateCalls(a, b) \/ find_optimal_path(a, b))
       \/ Call /\ \E a \in Assets, x \in Amounts : convert_to_base(x, a)
       \/ UNCHANGED <<now, calls>> /\ expire_caches
       \/ Tick

(* A cached rate never pays more than the prices it was made of; a cached path stays a chain of pairs that meets no asset twice; a conversion over a direct price ignores the paths. *)
ConversionsSafe ==
    /\ \A a \in DOMAIN cache : cache[a].rate * One <= cache[a].exact
    /\ \A k \in DOMAIN paths : paths[k] \in SimplePaths(k[1], k[2])
    /\ \A a \in Assets \ {Base} : <<a, Base>> \in DOMAIN rates => Converted(One, a) = rates[<<a, Base>>]

-----------------------------------------------------------------------------
(* Challenges of observations.                                              *)

set_challenger(u, on) == challengers' = (IF on THEN challengers \cup {u} ELSE challengers \ {u}) /\ UNCHANGED obs
open_observation(i, p, w) ==
    /\ w > 0 /\ i \notin DOMAIN obs
    /\ obs' = Put(obs, i, [price |-> p, until |-> now + w, state |-> "open", by |-> 0, upheld |-> FALSE]) /\ UNCHANGED challengers
InState(i, s) == i \in DOMAIN obs /\ (i \in DOMAIN obs => obs[i].state = s)
challenge(u, i) ==
    /\ u \in challengers /\ InState(i, "open") /\ now < obs[i].until
    /\ obs' = [obs EXCEPT ![i].state = "challenged", ![i].by = u] /\ UNCHANGED challengers
resolve(i, upheld) == InState(i, "challenged") /\ obs' = [obs EXCEPT ![i].state = "resolved", ![i].upheld = upheld] /\ UNCHANGED challengers
expire(i) == InState(i, "open") /\ now >= obs[i].until /\ obs' = [obs EXCEPT ![i].state = "expired"] /\ UNCHANGED challengers
usable_price(o) == o.state = "expired" \/ (o.state = "resolved" /\ ~o.upheld)
ObservationCalls ==
    \/ \E u \in Accounts : (\E on \in BOOLEAN : set_challenger(u, on)) \/ \E i \in Observations : challenge(u, i)
    \/ \E i \in Observations : expire(i) \/ (\E b \in BOOLEAN : resolve(i, b)) \/ \E p \in Prices, w \in Durations : open_observation(i, p, w)

ChallengeNext ==
    /\ UNCHANGED <<pauses, publishVars, quorumVars, consensusVars, convertVars, adminVars>>
    /\ \/ Call /\ ObservationCalls
       \/ Tick

(* A price becomes usable after its window, or when the challenge against it failed; then it stays usable and the same, and one whose challenge was upheld never is. *)
ChallengesFinal == \A i \in DOMAIN obs :
    /\ i \in DOMAIN obs' /\ obs'[i].price = obs[i].price
    /\ usable_price(obs[i]) => obs'[i] = obs[i]
    /\ obs[i].upheld => ~usable_price(obs'[i])
    /\ usable_price(obs'[i]) => now >= obs[i].until \/ obs[i].state = "challenged" \/ usable_price(obs[i])
=============================================================================
