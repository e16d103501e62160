------------------------------- MODULE MCFees --------------------------------
(***************************************************************************)
(* Rewards and fees for TLC: each behaviour runs one component, chosen in  *)
(* the initial state, with the small sets and bounds of its INSTANCE. The  *)
(* five reward programs of the stake vault are one module, extended, with  *)
(* a next-state relation each.                                             *)
(***************************************************************************)
EXTENDS Integers, RewardPrograms

VARIABLES
    part,
    nowColl, callsColl, paused, rate, burn, share, refShare, congestion, signal,
    configColl, score, tiers, protocol, version, cacheColl, referrer, book, failed,
    queued, caps, processed, payouts, waterfall, pendingColl, payout, maxRebate,
    rebated, stray, converted, policy, shares, totals, first, index,
    nowPubl, callsPubl, pauses, feed, threshold, tripped, streak, history, pruned, meta,
    sla, round, opened, outside, subs, weight, window, minCount, minConfidence, reject,
    fallback, statePubl, configPubl, oracles, stats, pendingPubl, consensus, pairs,
    rates, cachePubl, paths, challengers, obs, admin, guardian, heir

CampIdle == ProgramsInit

Coll == INSTANCE FeeCollector WITH
    Traders <- 1..2, Providers <- 1..2, Tokens <- {"a", "b"}, Bps <- 10000,
    MinRate <- 1, MaxRate <- 100, Rates <- {0, 100}, Burns <- {10000, 10001},
    Shares <- {5000}, Multipliers <- {5000},
    Congestion <- {[min |-> 5000, max |-> 40000, normal |-> 20000], [min |-> 2, max |-> 1, normal |-> 1]},
    Configs <- {[most |-> 20, sensitivity |-> 10000, least |-> 30, retries |-> 0], [most |-> 20, sensitivity |-> 1, least |-> 0, retries |-> 1]},
    Scores <- {8000},
    TierSets <- {{[from |-> 2, discount |-> 5], [from |-> 4, discount |-> 10]}, {[from |-> 1, discount |-> 100], [from |-> 2, discount |-> 3], [from |-> 3, discount |-> 50]}},
    DefaultConfig <- [most |-> 100, sensitivity |-> 50, least |-> 1, retries |-> 3],
    Slots <- 2, Staleness <- 1, Month <- 3,
    Items <- {[trader |-> 1, token |-> "a", amount |-> 100000, usd |-> 2], [trader |-> 2, token |-> "b", amount |-> 100000, usd |-> 0], [trader |-> 2, token |-> "b", amount |-> 30, usd |-> 3]},
    MaxQueued <- 1, Sums <- {}, Waterfalls <- {}, Day <- 1, ClaimIds <- {}, Caps <- {},
    Pending <- {0}, Conversions <- {}, RebateCaps <- {}, Splits <- {}, MaxNow <- 2,
    MaxCalls <- 4, now <- nowColl, calls <- callsColl, config <- configColl,
    cache <- cacheColl, pending <- pendingColl
collectVars == <<nowColl, callsColl, paused, rate, burn, share, refShare, congestion, signal,
    configColl, score, tiers, protocol, version, cacheColl, referrer, book, failed,
    queued, caps, processed, payouts, waterfall, pendingColl, payout, maxRebate,
    rebated, stray, converted, policy, shares, totals, first, index>>
CollIdle ==
    nowColl = 0 /\ callsColl = 0 /\ paused = 0 /\ rate = 0 /\ burn = 0 /\ share = 0 /\
    refShare = 0 /\ congestion = 0 /\ signal = 0 /\ configColl = 0 /\ score = 0 /\
    tiers = 0 /\ protocol = 0 /\ version = 0 /\ cacheColl = 0 /\ referrer = 0 /\
    book = 0 /\ failed = 0 /\ queued = 0 /\ caps = 0 /\ processed = 0 /\ payouts = 0 /\
    waterfall = 0 /\ pendingColl = 0 /\ payout = 0 /\ maxRebate = 0 /\ rebated = 0 /\
    stray = 0 /\ converted = 0 /\ policy = 0 /\ shares = 0 /\ totals = 0 /\ first = 0 /\
    index = 0
ASSUME CollAssumption == Coll!CollectorTyped

Treas == INSTANCE FeeCollector WITH
    Traders <- {1}, Providers <- {1}, Tokens <- {"a", "b"}, Bps <- 10000, MinRate <- 1,
    MaxRate <- 100, Rates <- {}, Burns <- {}, Shares <- {}, Multipliers <- {},
    Congestion <- {}, Configs <- {}, Scores <- {},
    TierSets <- {{[from |-> 2, discount |-> 5], [from |-> 4, discount |-> 10]}},
    DefaultConfig <- [most |-> 100, sensitivity |-> 50, least |-> 1, retries |-> 3],
    Slots <- 10, Staleness <- 1, Month <- 3,
    Items <- {[trader |-> 1, token |-> "a", amount |-> 100000, usd |-> 2], [trader |-> 1, token |-> "b", amount |-> 100000, usd |-> 1]},
    MaxQueued <- 1, Sums <- {0, 50, 216},
    Waterfalls <- {<<[priority |-> 2, target |-> 100, minimum |-> 60], [priority |-> 1, target |-> 40, minimum |-> 0]>>, <<[priority |-> 1, target |-> 300, minimum |-> 300], [priority |-> 1, target |-> 50, minimum |-> 20], [priority |-> 0, target |-> 0, minimum |-> 0]>>, <<>>},
    Day <- 1, ClaimIds <- {1, 2}, Caps <- {0, 50}, Pending <- {0}, Conversions <- {},
    RebateCaps <- {}, Splits <- {}, MaxNow <- 3, MaxCalls <- 5, now <- nowColl,
    calls <- callsColl, config <- configColl, cache <- cacheColl, pending <- pendingColl

Claims == INSTANCE FeeCollector WITH
    Traders <- {1}, Providers <- 1..2, Tokens <- {"a", "b"}, Bps <- 10000, MinRate <- 1,
    MaxRate <- 100, Rates <- {}, Burns <- {}, Shares <- {}, Multipliers <- {},
    Congestion <- {}, Configs <- {}, Scores <- {},
    TierSets <- {{[from |-> 2, discount |-> 5], [from |-> 4, discount |-> 10]}},
    DefaultConfig <- [most |-> 100, sensitivity |-> 50, least |-> 1, retries |-> 3],
    Slots <- 10, Staleness <- 1, Month <- 3,
    Items <- {[trader |-> 1, token |-> "a", amount |-> 100000, usd |-> 2], [trader |-> 1, token |-> "b", amount |-> 100000, usd |-> 1]},
    MaxQueued <- 1, Sums <- {}, Waterfalls <- {}, Day <- 1, ClaimIds <- {}, Caps <- {},
    Pending <- {0, 150},
    Conversions <- {[get |-> 2, give |-> 1], [get |-> 0, give |-> 1], [get |-> 1, give |-> 40]},
    RebateCaps <- {5000, 10001}, Splits <- {}, MaxNow <- 2, MaxCalls <- 5,
    now <- nowColl, calls <- callsColl, config <- configColl, cache <- cacheColl,
    pending <- pendingColl

Earn == INSTANCE FeeCollector WITH
    Traders <- 1..2, Providers <- 1..2, Tokens <- {"a", "b"}, Bps <- 10000,
    MinRate <- 1, MaxRate <- 100, Rates <- {}, Burns <- {}, Shares <- {},
    Multipliers <- {}, Congestion <- {}, Configs <- {}, Scores <- {},
    TierSets <- {{[from |-> 2, discount |-> 5], [from |-> 4, discount |-> 10]}},
    DefaultConfig <- [most |-> 100, sensitivity |-> 50, least |-> 1, retries |-> 3],
    Slots <- 10, Staleness <- 1, Month <- 3, Items <- {}, MaxQueued <- 1,
    Sums <- {0, 1, 7}, Waterfalls <- {}, Day <- 1, ClaimIds <- {}, Caps <- {},
    Pending <- {0}, Conversions <- {}, RebateCaps <- {},
    Splits <- {[protocol |-> 10000, provider |-> 0], [protocol |-> 0, provider |-> 10000], [protocol |-> 5000, provider |-> 4000]},
    MaxNow <- 3, MaxCalls <- 4, now <- nowColl, calls <- callsColl,
    config <- configColl, cache <- cacheColl, pending <- pendingColl

Publ == INSTANCE Oracle WITH
    Accounts <- 1..3, Prices <- {0, 100, 103, 130}, Bps <- 10000, Thresholds <- {500},
    RecoveryRounds <- 2, Bucket <- 2, MaxBuckets <- 2, TwapWindow <- 4, AgingUntil <- 2,
    DeadAfter <- 3, StaleAfter <- 1,
    Externals <- {<<[source |-> 1, seq |-> 1, price |-> 100, at |-> 1], [source |-> 2, seq |-> 1, price |-> 131, at |-> 2]>>, <<[source |-> 1, seq |-> 2, price |-> 130, at |-> 1], [source |-> 1, seq |-> 1, price |-> 90, at |-> 1]>>, <<[source |-> 1, seq |-> 1, price |-> 0, at |-> 1]>>},
    Weighted <- {}, Window <- 2, Windows <- {}, Confidences <- {}, Counts <- {},
    Fallbacks <- {}, Rejects <- {}, MaxDeviation <- 1000, FeedConfigs <- {},
    MaxPublishers <- 2, Week <- 2, ReviewAfter <- 100, Assets <- {}, Base <- "usd",
    RateSet <- {}, One <- 10, Amounts <- {}, CacheFor <- 2, MaxPath <- 3, MaxHops <- 3,
    HopCost <- 40, HopSlip <- 10, Tolerance <- 500, Observations <- {}, Durations <- {},
    TransferFor <- 2, Start <- 1, MaxNow <- 5, MaxCalls <- 5, now <- nowPubl,
    calls <- callsPubl, state <- statePubl, config <- configPubl,
    pending <- pendingPubl, cache <- cachePubl
publishVars == <<nowPubl, callsPubl, pauses, feed, threshold, tripped, streak, history, pruned, meta,
    sla, round, opened, outside, subs, weight, window, minCount, minConfidence, reject,
    fallback, statePubl, configPubl, oracles, stats, pendingPubl, consensus, pairs,
    rates, cachePubl, paths, challengers, obs, admin, guardian, heir>>
PublIdle ==
    nowPubl = 0 /\ callsPubl = 0 /\ pauses = 0 /\ feed = 0 /\ threshold = 0 /\
    tripped = 0 /\ streak = 0 /\ history = 0 /\ pruned = 0 /\ meta = 0 /\ sla = 0 /\
    round = 0 /\ opened = 0 /\ outside = 0 /\ subs = 0 /\ weight = 0 /\ window = 0 /\
    minCount = 0 /\ minConfidence = 0 /\ reject = 0 /\ fallback = 0 /\ statePubl = 0 /\
    configPubl = 0 /\ oracles = 0 /\ stats = 0 /\ pendingPubl = 0 /\ consensus = 0 /\
    pairs = 0 /\ rates = 0 /\ cachePubl = 0 /\ paths = 0 /\ challengers = 0 /\
    obs = 0 /\ admin = 0 /\ guardian = 0 /\ heir = 0
ASSUME PublAssumption == Publ!OracleTyped

Sourced == INSTANCE Oracle WITH
    Accounts <- 1..3, Prices <- {100, 103, 130}, Bps <- 10000, Thresholds <- {},
    RecoveryRounds <- 3, Bucket <- 2, MaxBuckets <- 2, TwapWindow <- 4, AgingUntil <- 2,
    DeadAfter <- 3, StaleAfter <- 1, Externals <- {}, Weighted <- {1, 2}, Window <- 2,
    Windows <- {1}, Confidences <- {50}, Counts <- {2},
    Fallbacks <- {[members |-> {2, 3}, min |-> 2]}, Rejects <- {400},
    MaxDeviation <- 1000,
    FeedConfigs <- {[owner |-> 1, publishers |-> {2}, maxAge |-> 1, enabled |-> TRUE]},
    MaxPublishers <- 2, Week <- 2, ReviewAfter <- 100, Assets <- {}, Base <- "usd",
    RateSet <- {}, One <- 10, Amounts <- {}, CacheFor <- 2, MaxPath <- 3, MaxHops <- 3,
    HopCost <- 40, HopSlip <- 10, Tolerance <- 500, Observations <- {}, Durations <- {},
    TransferFor <- 2, Start <- 1, MaxNow <- 2, MaxCalls <- 5, now <- nowPubl,
    calls <- callsPubl, state <- statePubl, config <- configPubl,
    pending <- pendingPubl, cache <- cachePubl

Agreed == INSTANCE Oracle WITH
    Accounts <- 1..3, Prices <- {100, 130}, Bps <- 10000, Thresholds <- {},
    RecoveryRounds <- 3, Bucket <- 2, MaxBuckets <- 2, TwapWindow <- 4, AgingUntil <- 2,
    DeadAfter <- 3, StaleAfter <- 1, Externals <- {}, Weighted <- {}, Window <- 2,
    Windows <- {}, Confidences <- {}, Counts <- {}, Fallbacks <- {}, Rejects <- {},
    MaxDeviation <- 1000, FeedConfigs <- {}, MaxPublishers <- 2, Week <- 1,
    ReviewAfter <- 2, Assets <- {}, Base <- "usd", RateSet <- {}, One <- 10,
    Amounts <- {}, CacheFor <- 2, MaxPath <- 3, MaxHops <- 3, HopCost <- 40,
    HopSlip <- 10, Tolerance <- 500, Observations <- {}, Durations <- {},
    TransferFor <- 2, Start <- 2, MaxNow <- 3, MaxCalls <- 7, now <- nowPubl,
    calls <- callsPubl, state <- statePubl, config <- configPubl,
    pending <- pendingPubl, cache <- cachePubl

Conv == INSTANCE Oracle WITH
    Accounts <- 1..3, Prices <- {100, 103, 130}, Bps <- 10000, Thresholds <- {},
    RecoveryRounds <- 3, Bucket <- 2, MaxBuckets <- 2, TwapWindow <- 4, AgingUntil <- 2,
    DeadAfter <- 3, StaleAfter <- 1, Externals <- {}, Weighted <- {}, Window <- 2,
    Windows <- {}, Confidences <- {}, Counts <- {}, Fallbacks <- {}, Rejects <- {},
    MaxDeviation <- 1000, FeedConfigs <- {}, MaxPublishers <- 2, Week <- 2,
    ReviewAfter <- 100, Assets <- {"usd", "eur", "xlm"}, Base <- "usd",
    RateSet <- {3, 25}, One <- 10, Amounts <- {0, 7}, CacheFor <- 1, MaxPath <- 3,
    MaxHops <- 2, HopCost <- 40, HopSlip <- 10, Tolerance <- 500, Observations <- {},
    Durations <- {}, TransferFor <- 2, Start <- 1, MaxNow <- 2, MaxCalls <- 4,
    now <- nowPubl, calls <- callsPubl, state <- statePubl, config <- configPubl,
    pending <- pendingPubl, cache <- cachePubl

Chal == INSTANCE Oracle WITH
    Accounts <- 1..2, Prices <- {100, 103}, Bps <- 10000, Thresholds <- {},
    RecoveryRounds <- 3, Bucket <- 2, MaxBuckets <- 2, TwapWindow <- 4, AgingUntil <- 2,
    DeadAfter <- 3, StaleAfter <- 1, Externals <- {}, Weighted <- {}, Window <- 2,
    Windows <- {}, Confidences <- {}, Counts <- {}, Fallbacks <- {}, Rejects <- {},
    MaxDeviation <- 1000, FeedConfigs <- {}, MaxPublishers <- 2, Week <- 2,
    ReviewAfter <- 100, Assets <- {}, Base <- "usd", RateSet <- {}, One <- 10,
    Amounts <- {}, CacheFor <- 2, MaxPath <- 3, MaxHops <- 3, HopCost <- 40,
    HopSlip <- 10, Tolerance <- 500, Observations <- {1, 2}, Durations <- {0, 1, 2},
    TransferFor <- 2, Start <- 1, MaxNow <- 4, MaxCalls <- 6, now <- nowPubl,
    calls <- callsPubl, state <- statePubl, config <- configPubl,
    pending <- pendingPubl, cache <- cachePubl

Owner == INSTANCE Oracle WITH
    Accounts <- 1..3, Prices <- {100, 103, 130}, Bps <- 10000, Thresholds <- {},
    RecoveryRounds <- 3, Bucket <- 2, MaxBuckets <- 2, TwapWindow <- 4, AgingUntil <- 2,
    DeadAfter <- 3, StaleAfter <- 1, Externals <- {}, Weighted <- {}, Window <- 2,
    Windows <- {}, Confidences <- {}, Counts <- {}, Fallbacks <- {}, Rejects <- {},
    MaxDeviation <- 1000, FeedConfigs <- {}, MaxPublishers <- 2, Week <- 2,
    ReviewAfter <- 100, Assets <- {}, Base <- "usd", RateSet <- {}, One <- 10,
    Amounts <- {}, CacheFor <- 2, MaxPath <- 3, MaxHops <- 3, HopCost <- 40,
    HopSlip <- 10, Tolerance <- 500, Observations <- {}, Durations <- {-1, 0, 2},
    TransferFor <- 2, Start <- 1, MaxNow <- 4, MaxCalls <- 5, now <- nowPubl,
    calls <- callsPubl, state <- statePubl, config <- configPubl,
    pending <- pendingPubl, cache <- cachePubl

vars == <<part, programsVars, collectVars, publishVars>>

Init ==
    \/ part = "campaigns" /\ ProgramsInit /\ CollIdle /\ PublIdle
    \/ part = "accrual" /\ ProgramsInit /\ CollIdle /\ PublIdle
    \/ part = "buckets" /\ ProgramsInit /\ CollIdle /\ PublIdle
    \/ part = "dust" /\ ProgramsInit /\ CollIdle /\ PublIdle
    \/ part = "migration" /\ ProgramsInit /\ CollIdle /\ PublIdle
    \/ part = "collect" /\ Coll!Init /\ CampIdle /\ PublIdle
    \/ part = "treasury" /\ Treas!Init /\ CampIdle /\ PublIdle
    \/ part = "claims" /\ Claims!Init /\ CampIdle /\ PublIdle
    \/ part = "earnings" /\ Earn!Init /\ CampIdle /\ PublIdle
    \/ part = "publish" /\ Publ!Init /\ CampIdle /\ CollIdle
    \/ part = "sources" /\ Sourced!Init /\ CampIdle /\ CollIdle
    \/ part = "consensus" /\ Agreed!Init /\ CampIdle /\ CollIdle
    \/ part = "convert" /\ Conv!Init /\ CampIdle /\ CollIdle
    \/ part = "challenge" /\ Chal!Init /\ CampIdle /\ CollIdle
    \/ part = "oracle_admin" /\ Owner!Init /\ CampIdle /\ CollIdle
CampNext ==
    /\ part = "campaigns" /\ CampaignNext
    /\ UNCHANGED <<part, collectVars, publishVars>>
AccNext ==
    /\ part = "accrual" /\ AccrualNext
    /\ UNCHANGED <<part, collectVars, publishVars>>
BuckNext ==
    /\ part = "buckets" /\ BucketNext
    /\ UNCHANGED <<part, collectVars, publishVars>>
ResidueNext ==
    /\ part = "dust" /\ DustNext
    /\ UNCHANGED <<part, collectVars, publishVars>>
MigrNext ==
    /\ part = "migration" /\ MigrationNext
    /\ UNCHANGED <<part, collectVars, publishVars>>
CollNext ==
    /\ part = "collect" /\ Coll!CollectNext
    /\ UNCHANGED <<part, programsVars, publishVars>>
TreasNext ==
    /\ part = "treasury" /\ Treas!TreasuryNext
    /\ UNCHANGED <<part, programsVars, publishVars>>
ClaimsNext ==
    /\ part = "claims" /\ Claims!ClaimNext
    /\ UNCHANGED <<part, programsVars, publishVars>>
EarnNext ==
    /\ part = "earnings" /\ Earn!EarningNext
    /\ UNCHANGED <<part, programsVars, publishVars>>
PublNext ==
    /\ part = "publish" /\ Publ!PublishNext
    /\ UNCHANGED <<part, programsVars, collectVars>>
SourcedNext ==
    /\ part = "sources" /\ Sourced!QuorumNext
    /\ UNCHANGED <<part, programsVars, collectVars>>
AgreedNext ==
    /\ part = "consensus" /\ Agreed!ConsensusNext
    /\ UNCHANGED <<part, programsVars, collectVars>>
ConvNext ==
    /\ part = "convert" /\ Conv!ConvertNext
    /\ UNCHANGED <<part, programsVars, collectVars>>
ChalNext ==
    /\ part = "challenge" /\ Chal!ChallengeNext
    /\ UNCHANGED <<part, programsVars, collectVars>>
OwnerNext ==
    /\ part = "oracle_admin" /\ Owner!AdminNext
    /\ UNCHANGED <<part, programsVars, collectVars>>
Next == CampNext \/ AccNext \/ BuckNext \/ ResidueNext \/ MigrNext \/ CollNext \/ TreasNext \/ ClaimsNext \/ EarnNext \/ PublNext \/ SourcedNext \/ AgreedNext \/ ConvNext \/ ChalNext \/ OwnerNext
Spec == Init /\ [][Next]_vars

-----------------------------------------------------------------------------
(* Rewards, fees and prices move by rule only: what is earned stays        *)
(* earned, treasury and insurance pay what was queued or claimed, rebates  *)
(* stay under their cap.                                                   *)
EarnedIsKept == [][
    /\ part = "accrual" => AccruedIsKept
    /\ part = "treasury" => Treas!TreasuryByRule
    /\ part = "claims" => Claims!RebatesCapped
    /\ part = "publish" => Publ!BreakerHolds
    /\ part = "sources" => Sourced!SubmissionsByRule
    /\ part = "consensus" => Agreed!OraclesKept
    /\ part = "challenge" => Chal!ChallengesFinal
    /\ part = "oracle_admin" => Owner!AdminByRule
    ]_vars
(* The books of the fee collector and of the oracle agree: what is held is *)
(* owed or counted, rates and waterfalls stay within bounds, earnings and  *)
(* caches match what was recorded.                                         *)
FeesAccounted ==
    /\ part = "collect" => Coll!FeesSolvent /\ Coll!RatesBounded /\ Coll!StaleOnlyAfterWrap
    /\ part = "treasury" => Treas!FeesSolvent /\ Treas!WaterfallFair
    /\ part = "claims" => Claims!FeesSolvent
    /\ part = "earnings" => Earn!EarningsAgree
    /\ part = "publish" => Publ!PublishedTogether
    /\ part = "sources" => Sourced!ReadsByMajority
    /\ part = "consensus" => Agreed!WeightDecides
    /\ part = "convert" => Conv!ConversionsSafe
=============================================================================
