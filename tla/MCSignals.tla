------------------------------ MODULE MCSignals ------------------------------
(***************************************************************************)
(* The signal registry for TLC: each behaviour runs one part, chosen in    *)
(* the initial state, with the small sets and bounds of its INSTANCE.      *)
(***************************************************************************)
EXTENDS Integers

VARIABLES
    part,
    nowLife, callsLife, signalsLife, counterLife, activeLife, index, stats, copied,
    banned, status, cleanup, archive, minLife, authors, recorded, pendingLife, revived,
    granted, claimed, limits, stake, quota, used, lastAt, daily, cooldown, perDay, log,
    version, old, updates, updatedAt, copyOf, schedules, listedLife, mapping, imports,
    templates, presets,
    nowContest, callsContest, contests, owner, traded, closed, copies, stakesContest,
    listedContest, board, follows, firstFollow, cohort, votes, opened, dispute, frozen,
    score, trail, window, claims, suspended, taken, kept, counterContest, cursorContest,
    read, tail, tally, lost,
    nowQuorum, callsQuorum, admin, pendingQuorum, guardian, roles, settings, paused,
    multisig, proposals, activeQuorum, delays, signalsQuorum, combos, runs, v1, v2,
    counterQuorum, cursorQuorum, target, pre, verification, schema, volume, params,
    apps, reserves, records, tags, chosen, byTag, stakesQuorum, changes

Life == INSTANCE Signals WITH
    Providers <- 1..1, MaxSignals <- 3, Expiries <- {1}, Actions <- {"Buy", "Sell"},
    Prices <- {10}, MaxExpiry <- 3, EditWindow <- 1, Entries <- {10}, Exits <- {9, 11},
    Bps <- 100, Success <- 2, Failure <- -5, Archived <- 1, Batch <- 1..2,
    Lifetimes <- {1}, Splits <- {}, Fees <- {}, Rois <- {}, Limits <- {<<1, 1, 1>>},
    Stakes <- {}, GoldStake <- 4, Quotas <- {}, Cooldowns <- {}, Dailies <- {},
    Day <- 3, MaxUpdates <- 2, UpdateGap <- 1, Recurrences <- {}, MaxSchedules <- 1,
    Horizon <- 1, Chains <- {}, MaxPresets <- 1, MaxNow <- 4, MaxCalls <- 5,
    now <- nowLife, calls <- callsLife, signals <- signalsLife, counter <- counterLife,
    active <- activeLife, pending <- pendingLife, listed <- listedLife
lifeVars == <<nowLife, callsLife, signalsLife, counterLife, activeLife, index, stats, copied,
    banned, status, cleanup, archive, minLife, authors, recorded, pendingLife, revived,
    granted, claimed, limits, stake, quota, used, lastAt, daily, cooldown, perDay, log,
    version, old, updates, updatedAt, copyOf, schedules, listedLife, mapping, imports,
    templates, presets>>
LifeIdle ==
    nowLife = 0 /\ callsLife = 0 /\ signalsLife = 0 /\ counterLife = 0 /\
    activeLife = 0 /\ index = 0 /\ stats = 0 /\ copied = 0 /\ banned = 0 /\
    status = 0 /\ cleanup = 0 /\ archive = 0 /\ minLife = 0 /\ authors = 0 /\
    recorded = 0 /\ pendingLife = 0 /\ revived = 0 /\ granted = 0 /\ claimed = 0 /\
    limits = 0 /\ stake = 0 /\ quota = 0 /\ used = 0 /\ lastAt = 0 /\ daily = 0 /\
    cooldown = 0 /\ perDay = 0 /\ log = 0 /\ version = 0 /\ old = 0 /\ updates = 0 /\
    updatedAt = 0 /\ copyOf = 0 /\ schedules = 0 /\ listedLife = 0 /\ mapping = 0 /\
    imports = 0 /\ templates = 0 /\ presets = 0
ASSUME LifeAssumption == Life!SignalsTyped

Submit == INSTANCE Signals WITH
    Providers <- 1..2, MaxSignals <- 3, Expiries <- {2}, Actions <- {"Buy"},
    Prices <- {10}, MaxExpiry <- 3, EditWindow <- 1, Entries <- {10},
    Exits <- {9, 10, 11}, Bps <- 100, Success <- 2, Failure <- -5, Archived <- 1,
    Batch <- 1..2, Lifetimes <- {1}, Splits <- {}, Fees <- {}, Rois <- {},
    Limits <- {<<1, 2, 3>>, <<2, 2, 2>>}, Stakes <- {0, 4}, GoldStake <- 4,
    Quotas <- {[window |-> 2, each |-> 1, all |-> 2], [window |-> 3, each |-> 2, all |-> 1]},
    Cooldowns <- {2}, Dailies <- {1}, Day <- 3, MaxUpdates <- 2, UpdateGap <- 1,
    Recurrences <- {}, MaxSchedules <- 1, Horizon <- 1, Chains <- {}, MaxPresets <- 1,
    MaxNow <- 3, MaxCalls <- 5, now <- nowLife, calls <- callsLife,
    signals <- signalsLife, counter <- counterLife, active <- activeLife,
    pending <- pendingLife, listed <- listedLife

Pay == INSTANCE Signals WITH
    Providers <- 1..2, MaxSignals <- 2, Expiries <- {1}, Actions <- {"Buy"},
    Prices <- {10}, MaxExpiry <- 3, EditWindow <- 1, Entries <- {10}, Exits <- {9, 11},
    Bps <- 100, Success <- 2, Failure <- -5, Archived <- 1, Batch <- {2},
    Lifetimes <- {1}, Splits <- {<<33, 67>>, <<60, 30>>}, Fees <- {0, 5}, Rois <- {-4},
    Limits <- {<<2, 2, 2>>}, Stakes <- {}, GoldStake <- 4, Quotas <- {},
    Cooldowns <- {}, Dailies <- {}, Day <- 3, MaxUpdates <- 2, UpdateGap <- 1,
    Recurrences <- {}, MaxSchedules <- 1, Horizon <- 1, Chains <- {}, MaxPresets <- 1,
    MaxNow <- 3, MaxCalls <- 5, now <- nowLife, calls <- callsLife,
    signals <- signalsLife, counter <- counterLife, active <- activeLife,
    pending <- pendingLife, listed <- listedLife

Edit == INSTANCE Signals WITH
    Providers <- 1..1, MaxSignals <- 1, Expiries <- {1, 2}, Actions <- {"Buy"},
    Prices <- {10, 20}, MaxExpiry <- 3, EditWindow <- 1, Entries <- {10},
    Exits <- {9, 10, 11}, Bps <- 100, Success <- 2, Failure <- -5, Archived <- 1,
    Batch <- 1..2, Lifetimes <- {1}, Splits <- {}, Fees <- {}, Rois <- {},
    Limits <- {<<2, 2, 2>>}, Stakes <- {}, GoldStake <- 4, Quotas <- {},
    Cooldowns <- {}, Dailies <- {}, Day <- 3, MaxUpdates <- 2, UpdateGap <- 1,
    Recurrences <- {}, MaxSchedules <- 1, Horizon <- 1, Chains <- {}, MaxPresets <- 1,
    MaxNow <- 3, MaxCalls <- 5, now <- nowLife, calls <- callsLife,
    signals <- signalsLife, counter <- counterLife, active <- activeLife,
    pending <- pendingLife, listed <- listedLife

Link == INSTANCE Signals WITH
    Providers <- 1..2, MaxSignals <- 2, Expiries <- {2}, Actions <- {"Buy"},
    Prices <- {10}, MaxExpiry <- 3, EditWindow <- 1, Entries <- {10},
    Exits <- {9, 10, 11}, Bps <- 100, Success <- 2, Failure <- -5, Archived <- 1,
    Batch <- 1..2, Lifetimes <- {1}, Splits <- {}, Fees <- {}, Rois <- {},
    Limits <- {<<2, 2, 2>>}, Stakes <- {}, GoldStake <- 4, Quotas <- {},
    Cooldowns <- {}, Dailies <- {}, Day <- 3, MaxUpdates <- 2, UpdateGap <- 1,
    Recurrences <- {[gap |-> 1, left |-> 0], [gap |-> 1, left |-> 2]},
    MaxSchedules <- 1, Horizon <- 1, Chains <- 1..2, MaxPresets <- 1, MaxNow <- 4,
    MaxCalls <- 5, now <- nowLife, calls <- callsLife, signals <- signalsLife,
    counter <- counterLife, active <- activeLife, pending <- pendingLife,
    listed <- listedLife

Contest == INSTANCE SignalScores WITH
    Providers <- 1..2, Users <- 1..2,
    Windows <- {[start |-> 1, end |-> 3], [start |-> 2, end |-> 2], [start |-> 2, end |-> 3]},
    Metrics <- {"roi", "followers"}, MinSignals <- {1}, Pools <- {10},
    Places <- <<50, 30>>, Delay <- 1, Returns <- {-1, 2}, Volumes <- {1},
    MinClosed <- 1, Capacity <- 2, Stakes <- {}, Powers <- {}, VoteWindow <- 1,
    DisputeAt <- 3000, AppealWindow <- 1, Delta <- 5, History <- 2, Points <- {},
    Durations <- {}, Claims <- {}, PageSizes <- {}, MaxSignals <- 2, Rates <- {},
    Averages <- {}, Shares <- {}, Ages <- {}, Feeds <- {}, MaxNow <- 4, MaxCalls <- 5,
    now <- nowContest, calls <- callsContest, stakes <- stakesContest,
    listed <- listedContest, counter <- counterContest, cursor <- cursorContest
contestsVars == <<nowContest, callsContest, contests, owner, traded, closed, copies, stakesContest,
    listedContest, board, follows, firstFollow, cohort, votes, opened, dispute, frozen,
    score, trail, window, claims, suspended, taken, kept, counterContest, cursorContest,
    read, tail, tally, lost>>
ContestIdle ==
    nowContest = 0 /\ callsContest = 0 /\ contests = 0 /\ owner = 0 /\ traded = 0 /\
    closed = 0 /\ copies = 0 /\ stakesContest = 0 /\ listedContest = 0 /\ board = 0 /\
    follows = 0 /\ firstFollow = 0 /\ cohort = 0 /\ votes = 0 /\ opened = 0 /\
    dispute = 0 /\ frozen = 0 /\ score = 0 /\ trail = 0 /\ window = 0 /\ claims = 0 /\
    suspended = 0 /\ taken = 0 /\ kept = 0 /\ counterContest = 0 /\ cursorContest = 0 /\
    read = 0 /\ tail = 0 /\ tally = 0 /\ lost = 0
ASSUME ContestAssumption == Contest!ScoresTyped

Board == INSTANCE SignalScores WITH
    Providers <- 1..3, Users <- {7}, Windows <- {},
    Metrics <- {"rate", "profit", "adopters", "stake"}, MinSignals <- {}, Pools <- {},
    Places <- <<50, 30, 20>>, Delay <- 1, Returns <- {2}, Volumes <- {}, MinClosed <- 1,
    Capacity <- 2, Stakes <- {0, 3}, Powers <- {}, VoteWindow <- 1, DisputeAt <- 3000,
    AppealWindow <- 1, Delta <- 5, History <- 2, Points <- {}, Durations <- {},
    Claims <- {}, PageSizes <- {}, MaxSignals <- 3, Rates <- {}, Averages <- {},
    Shares <- {}, Ages <- {}, Feeds <- {}, MaxNow <- 3, MaxCalls <- 5,
    now <- nowContest, calls <- callsContest, stakes <- stakesContest,
    listed <- listedContest, counter <- counterContest, cursor <- cursorContest

Ballot == INSTANCE SignalScores WITH
    Providers <- 1..2, Users <- 1..2, Windows <- {}, Metrics <- {}, MinSignals <- {},
    Pools <- {}, Places <- <<50, 30, 20>>, Delay <- 1, Returns <- {}, Volumes <- {},
    MinClosed <- 1, Capacity <- 2, Stakes <- {}, Powers <- {0, 2}, VoteWindow <- 1,
    DisputeAt <- 3000, AppealWindow <- 1, Delta <- 5, History <- 2, Points <- {0, 100},
    Durations <- {}, Claims <- {}, PageSizes <- {}, MaxSignals <- 3, Rates <- {},
    Averages <- {}, Shares <- {}, Ages <- {}, Feeds <- {}, MaxNow <- 4, MaxCalls <- 5,
    now <- nowContest, calls <- callsContest, stakes <- stakesContest,
    listed <- listedContest, counter <- counterContest, cursor <- cursorContest

Epochs == INSTANCE SignalScores WITH
    Providers <- 1..2, Users <- 1..2, Windows <- {}, Metrics <- {}, MinSignals <- {},
    Pools <- {5}, Places <- <<50, 30, 20>>, Delay <- 1, Returns <- {}, Volumes <- {},
    MinClosed <- 1, Capacity <- 2, Stakes <- {}, Powers <- {}, VoteWindow <- 1,
    DisputeAt <- 3000, AppealWindow <- 1, Delta <- 5, History <- 2, Points <- {},
    Durations <- {0, 1}, Claims <- {0, 4}, PageSizes <- {}, MaxSignals <- 3,
    Rates <- {0, 4999, 10000}, Averages <- {-20000, 0, 10000}, Shares <- {0, 1, 3, 7},
    Ages <- {0, 200, 400}, Feeds <- 0..4, MaxNow <- 4, MaxCalls <- 5, now <- nowContest,
    calls <- callsContest, stakes <- stakesContest, listed <- listedContest,
    counter <- counterContest, cursor <- cursorContest

Reader == INSTANCE SignalScores WITH
    Providers <- 1..2, Users <- 1..2, Windows <- {}, Metrics <- {}, MinSignals <- {},
    Pools <- {}, Places <- <<50, 30, 20>>, Delay <- 1, Returns <- {}, Volumes <- {},
    MinClosed <- 1, Capacity <- 2, Stakes <- {}, Powers <- {}, VoteWindow <- 1,
    DisputeAt <- 3000, AppealWindow <- 1, Delta <- 5, History <- 2, Points <- {},
    Durations <- {}, Claims <- {}, PageSizes <- 1..2, MaxSignals <- 4, Rates <- {},
    Averages <- {}, Shares <- {}, Ages <- {}, Feeds <- {}, MaxNow <- 1, MaxCalls <- 9,
    now <- nowContest, calls <- callsContest, stakes <- stakesContest,
    listed <- listedContest, counter <- counterContest, cursor <- cursorContest

Quorum == INSTANCE SignalTools WITH
    Accounts <- 1..3,
    Payloads <- {[kind |-> "fee", v |-> 2], [kind |-> "transfer", v |-> 2]},
    DelayConfigs <- {[fee |-> 1, param |-> 0, pause |-> 0, unpause |-> 1, guardian |-> 0, transfer |-> 1, config |-> 0], [fee |-> 0, param |-> 0, pause |-> 0, unpause |-> 0, guardian |-> 0, transfer |-> 0, config |-> 0]},
    TransferWindow <- 1,
    SignerSets <- {[signers |-> <<1, 2>>, threshold |-> 2], [signers |-> <<2, 3>>, threshold |-> 1], [signers |-> <<2, 2>>, threshold |-> 2]},
    MaxProposals <- 2, MaxFee <- 2, MaxRisk <- 1, Signals <- {}, Expiries <- {},
    Combos <- {}, WeightTotal <- 4, Amounts <- {}, Rois <- {}, Ids <- {},
    BatchSizes <- {}, Volumes <- {}, Deposits <- {}, Minimums <- {}, Tags <- {},
    TagChoices <- {}, MaxTags <- 2, MaxChosen <- 2, Stakes <- {}, MinStake <- 2,
    ChangesPerDay <- 2, FeeSamples <- {}, MaxNow <- 2, MaxCalls <- 5, now <- nowQuorum,
    calls <- callsQuorum, pending <- pendingQuorum, active <- activeQuorum,
    signals <- signalsQuorum, counter <- counterQuorum, cursor <- cursorQuorum,
    stakes <- stakesQuorum
quorumVars == <<nowQuorum, callsQuorum, admin, pendingQuorum, guardian, roles, settings, paused,
    multisig, proposals, activeQuorum, delays, signalsQuorum, combos, runs, v1, v2,
    counterQuorum, cursorQuorum, target, pre, verification, schema, volume, params,
    apps, reserves, records, tags, chosen, byTag, stakesQuorum, changes>>
QuorumIdle ==
    nowQuorum = 0 /\ callsQuorum = 0 /\ admin = 0 /\ pendingQuorum = 0 /\
    guardian = 0 /\ roles = 0 /\ settings = 0 /\ paused = 0 /\ multisig = 0 /\
    proposals = 0 /\ activeQuorum = 0 /\ delays = 0 /\ signalsQuorum = 0 /\
    combos = 0 /\ runs = 0 /\ v1 = 0 /\ v2 = 0 /\ counterQuorum = 0 /\
    cursorQuorum = 0 /\ target = 0 /\ pre = 0 /\ verification = 0 /\ schema = 0 /\
    volume = 0 /\ params = 0 /\ apps = 0 /\ reserves = 0 /\ records = 0 /\ tags = 0 /\
    chosen = 0 /\ byTag = 0 /\ stakesQuorum = 0 /\ changes = 0
ASSUME QuorumAssumption == Quorum!ToolsTyped

Admin == INSTANCE SignalTools WITH
    Accounts <- 1..2,
    Payloads <- {[kind |-> "fee", v |-> 1], [kind |-> "fee", v |-> 3], [kind |-> "stake", v |-> 0], [kind |-> "stake", v |-> 2], [kind |-> "risk", v |-> <<1, 1>>], [kind |-> "risk", v |-> <<0, 2>>], [kind |-> "tiers", v |-> 1], [kind |-> "pause", v |-> [cat |-> "all", for |-> 0]], [kind |-> "unpause", v |-> "all"], [kind |-> "fees_off"], [kind |-> "fees_on"], [kind |-> "guardian", v |-> 2], [kind |-> "transfer", v |-> 2]},
    DelayConfigs <- {[fee |-> 1, param |-> 0, pause |-> 0, unpause |-> 1, guardian |-> 0, transfer |-> 1, config |-> 0]},
    TransferWindow <- 1, SignerSets <- {[signers |-> <<1, 2>>, threshold |-> 1]},
    MaxProposals <- 2, MaxFee <- 2, MaxRisk <- 1, Signals <- {}, Expiries <- {},
    Combos <- {}, WeightTotal <- 4, Amounts <- {}, Rois <- {}, Ids <- {},
    BatchSizes <- {}, Volumes <- {}, Deposits <- {}, Minimums <- {}, Tags <- {},
    TagChoices <- {}, MaxTags <- 2, MaxChosen <- 2, Stakes <- {}, MinStake <- 2,
    ChangesPerDay <- 2, FeeSamples <- {}, MaxNow <- 2, MaxCalls <- 4, now <- nowQuorum,
    calls <- callsQuorum, pending <- pendingQuorum, active <- activeQuorum,
    signals <- signalsQuorum, counter <- counterQuorum, cursor <- cursorQuorum,
    stakes <- stakesQuorum

Combine == INSTANCE SignalTools WITH
    Accounts <- 1..3, Payloads <- {}, DelayConfigs <- {0}, TransferWindow <- 1,
    SignerSets <- {}, MaxProposals <- 2, MaxFee <- 2, MaxRisk <- 1, Signals <- 1..2,
    Expiries <- {3},
    Combos <- {[type |-> "simultaneous", parts |-> <<[signal |-> 1, weight |-> 3, when |-> "always", on |-> 0], [signal |-> 2, weight |-> 1, when |-> "always", on |-> 0]>>], [type |-> "conditional", parts |-> <<[signal |-> 1, weight |-> 2, when |-> "always", on |-> 0], [signal |-> 2, weight |-> 2, when |-> "success", on |-> 1]>>], [type |-> "conditional", parts |-> <<[signal |-> 1, weight |-> 3, when |-> "failure", on |-> 2], [signal |-> 2, weight |-> 1, when |-> "always", on |-> 0]>>], [type |-> "conditional", parts |-> <<[signal |-> 1, weight |-> 4, when |-> "above", on |-> 1]>>], [type |-> "sequential", parts |-> <<[signal |-> 1, weight |-> 4, when |-> "always", on |-> 0], [signal |-> 2, weight |-> 1, when |-> "always", on |-> 0]>>], [type |-> "conditional", parts |-> <<[signal |-> 1, weight |-> 4, when |-> "success", on |-> 2]>>]},
    WeightTotal <- 4, Amounts <- {0, 7}, Rois <- {-3, 2}, Ids <- {}, BatchSizes <- {},
    Volumes <- {}, Deposits <- {}, Minimums <- {}, Tags <- {}, TagChoices <- {},
    MaxTags <- 2, MaxChosen <- 2, Stakes <- {}, MinStake <- 2, ChangesPerDay <- 2,
    FeeSamples <- {}, MaxNow <- 3, MaxCalls <- 6, now <- nowQuorum,
    calls <- callsQuorum, pending <- pendingQuorum, active <- activeQuorum,
    signals <- signalsQuorum, counter <- counterQuorum, cursor <- cursorQuorum,
    stakes <- stakesQuorum

Migrate == INSTANCE SignalTools WITH
    Accounts <- 1..3, Payloads <- {}, DelayConfigs <- {0}, TransferWindow <- 1,
    SignerSets <- {}, MaxProposals <- 2, MaxFee <- 2, MaxRisk <- 1, Signals <- {},
    Expiries <- {}, Combos <- {}, WeightTotal <- 4, Amounts <- {}, Rois <- {},
    Ids <- 1..3, BatchSizes <- 0..2, Volumes <- {0, 2}, Deposits <- {}, Minimums <- {},
    Tags <- {}, TagChoices <- {}, MaxTags <- 2, MaxChosen <- 2, Stakes <- {},
    MinStake <- 2, ChangesPerDay <- 2, FeeSamples <- {}, MaxNow <- 3, MaxCalls <- 6,
    now <- nowQuorum, calls <- callsQuorum, pending <- pendingQuorum,
    active <- activeQuorum, signals <- signalsQuorum, counter <- counterQuorum,
    cursor <- cursorQuorum, stakes <- stakesQuorum

Onboard == INSTANCE SignalTools WITH
    Accounts <- 1..2, Payloads <- {}, DelayConfigs <- {0}, TransferWindow <- 1,
    SignerSets <- {}, MaxProposals <- 2, MaxFee <- 2, MaxRisk <- 1, Signals <- {},
    Expiries <- {}, Combos <- {}, WeightTotal <- 4, Amounts <- {}, Rois <- {},
    Ids <- {}, BatchSizes <- {}, Volumes <- {},
    Deposits <- {[collateral |-> 2, fee |-> 1], [collateral |-> 1, fee |-> 1], [collateral |-> 3, fee |-> 0]},
    Minimums <- {[collateral |-> 2, fee |-> 1], [collateral |-> 1, fee |-> 1], [collateral |-> 0, fee |-> 1]},
    Tags <- {}, TagChoices <- {}, MaxTags <- 2, MaxChosen <- 2, Stakes <- {},
    MinStake <- 2, ChangesPerDay <- 2, FeeSamples <- {}, MaxNow <- 3, MaxCalls <- 7,
    now <- nowQuorum, calls <- callsQuorum, pending <- pendingQuorum,
    active <- activeQuorum, signals <- signalsQuorum, counter <- counterQuorum,
    cursor <- cursorQuorum, stakes <- stakesQuorum

Tagged == INSTANCE SignalTools WITH
    Accounts <- 1..2, Payloads <- {}, DelayConfigs <- {0}, TransferWindow <- 1,
    SignerSets <- {}, MaxProposals <- 2, MaxFee <- 2, MaxRisk <- 1, Signals <- {},
    Expiries <- {}, Combos <- {}, WeightTotal <- 4, Amounts <- {}, Rois <- {},
    Ids <- {}, BatchSizes <- {}, Volumes <- {}, Deposits <- {}, Minimums <- {},
    Tags <- {"defi", "forex", "gold"},
    TagChoices <- {<<>>, <<"defi">>, <<"forex", "defi">>, <<"gold", "gold">>, <<"gold", "forex", "defi">>},
    MaxTags <- 2, MaxChosen <- 2, Stakes <- {0, 1, 2}, MinStake <- 2,
    ChangesPerDay <- 2, FeeSamples <- {1000, 1999, 12345, 1000000}, MaxNow <- 3,
    MaxCalls <- 6, now <- nowQuorum, calls <- callsQuorum, pending <- pendingQuorum,
    active <- activeQuorum, signals <- signalsQuorum, counter <- counterQuorum,
    cursor <- cursorQuorum, stakes <- stakesQuorum

vars == <<part, lifeVars, contestsVars, quorumVars>>

Init ==
    \/ part = "life" /\ Life!Init /\ ContestIdle /\ QuorumIdle
    \/ part = "submit" /\ Submit!Init /\ ContestIdle /\ QuorumIdle
    \/ part = "pay" /\ Pay!Init /\ ContestIdle /\ QuorumIdle
    \/ part = "edit" /\ Edit!Init /\ ContestIdle /\ QuorumIdle
    \/ part = "link" /\ Link!Init /\ ContestIdle /\ QuorumIdle
    \/ part = "contests" /\ Contest!Init /\ LifeIdle /\ QuorumIdle
    \/ part = "boards" /\ Board!Init /\ LifeIdle /\ QuorumIdle
    \/ part = "votes" /\ Ballot!Init /\ LifeIdle /\ QuorumIdle
    \/ part = "windows" /\ Epochs!Init /\ LifeIdle /\ QuorumIdle
    \/ part = "pages" /\ Reader!Init /\ LifeIdle /\ QuorumIdle
    \/ part = "quorum" /\ Quorum!Init /\ LifeIdle /\ ContestIdle
    \/ part = "admin" /\ Admin!Init /\ LifeIdle /\ ContestIdle
    \/ part = "combos" /\ Combine!Init /\ LifeIdle /\ ContestIdle
    \/ part = "migrate" /\ Migrate!Init /\ LifeIdle /\ ContestIdle
    \/ part = "onboard" /\ Onboard!Init /\ LifeIdle /\ ContestIdle
    \/ part = "tags" /\ Tagged!Init /\ LifeIdle /\ ContestIdle
LifeNext ==
    /\ part = "life" /\ Life!LifeNext
    /\ UNCHANGED <<part, contestsVars, quorumVars>>
SubmitNext ==
    /\ part = "submit" /\ Submit!SubmitNext
    /\ UNCHANGED <<part, contestsVars, quorumVars>>
PayNext ==
    /\ part = "pay" /\ Pay!PayNext
    /\ UNCHANGED <<part, contestsVars, quorumVars>>
EditNext ==
    /\ part = "edit" /\ Edit!EditNext
    /\ UNCHANGED <<part, contestsVars, quorumVars>>
LinkNext ==
    /\ part = "link" /\ Link!LinkNext
    /\ UNCHANGED <<part, contestsVars, quorumVars>>
ContestNext ==
    /\ part = "contests" /\ Contest!ContestNext
    /\ UNCHANGED <<part, lifeVars, quorumVars>>
BoardNext ==
    /\ part = "boards" /\ Board!BoardNext
    /\ UNCHANGED <<part, lifeVars, quorumVars>>
BallotNext ==
    /\ part = "votes" /\ Ballot!VoteNext
    /\ UNCHANGED <<part, lifeVars, quorumVars>>
EpochsNext ==
    /\ part = "windows" /\ Epochs!WindowNext
    /\ UNCHANGED <<part, lifeVars, quorumVars>>
ReaderNext ==
    /\ part = "pages" /\ Reader!PageNext
    /\ UNCHANGED <<part, lifeVars, quorumVars>>
QuorumNext ==
    /\ part = "quorum" /\ Quorum!AdminNext
    /\ UNCHANGED <<part, lifeVars, contestsVars>>
AdminNext ==
    /\ part = "admin" /\ Admin!AdminNext
    /\ UNCHANGED <<part, lifeVars, contestsVars>>
CombineNext ==
    /\ part = "combos" /\ Combine!ComboNext
    /\ UNCHANGED <<part, lifeVars, contestsVars>>
MigrateNext ==
    /\ part = "migrate" /\ Migrate!MigrateNext
    /\ UNCHANGED <<part, lifeVars, contestsVars>>
OnboardNext ==
    /\ part = "onboard" /\ Onboard!OnboardNext
    /\ UNCHANGED <<part, lifeVars, contestsVars>>
TaggedNext ==
    /\ part = "tags" /\ Tagged!ProviderNext
    /\ UNCHANGED <<part, lifeVars, contestsVars>>
Next == LifeNext \/ SubmitNext \/ PayNext \/ EditNext \/ LinkNext \/ ContestNext \/ BoardNext \/ BallotNext \/ EpochsNext \/ ReaderNext \/ QuorumNext \/ AdminNext \/ CombineNext \/ MigrateNext \/ OnboardNext \/ TaggedNext
Spec == Init /\ [][Next]_vars

-----------------------------------------------------------------------------
(* The books of the registry agree: what outcomes pay is pending or        *)
(* claimed, versions, indices, schedules and scores match what happened.   *)
SignalsAccounted ==
    /\ part = "pay" => Pay!OutcomesPaidOnce
    /\ part = "life" => Life!RegistryAccounted
    /\ part = "edit" => Edit!RegistryAccounted
    /\ part = "link" => Link!LinksSound
    /\ part = "contests" => Contest!ContestsFair
    /\ part = "boards" => Board!BoardsCurrent
    /\ part = "votes" => Ballot!DisputesSound
    /\ part = "windows" => Epochs!ScoresMonotone
    /\ part = "pages" => Reader!PagesComplete
    /\ part = "quorum" => Quorum!ProposalsCounted
    /\ part = "admin" => Admin!ProposalsCounted
    /\ part = "combos" => Combine!CombosWithinTotal
    /\ part = "migrate" => Migrate!MigrationLosesNothing
    /\ part = "onboard" => Onboard!ReservesMatch
    /\ part = "tags" => Tagged!TagsIndexed
(* A submission is within every limit in force, counted from the           *)
(* submissions themselves and not from the counters the code keeps: its    *)
(* spacing, its day, its window since the quota was set, and, until a      *)
(* closed signal of the provider is revived by a late trade or approval,   *)
(* the slots of the provider's tier.                                       *)
SubmissionsWithinLimits == [][
    /\ part = "life" => Life!SubmissionsWithinLimits
    /\ part = "submit" => Submit!SubmissionsWithinLimits
    ]_vars
(* Signals, contests, applications and settings change by their own rules  *)
(* only: nothing is edited, removed, paid or reopened out of turn.         *)
SignalStepsByRule == [][
    /\ part = "life" => Life!SignalsByRule
    /\ part = "pay" => Pay!SignalsByRule
    /\ part = "edit" => Edit!SignalsByRule
    /\ part = "link" => Link!SignalsByRule
    /\ part = "contests" => Contest!ContestsFinal
    /\ part = "votes" => Ballot!DisputesByRule
    /\ part = "windows" => Epochs!ClaimsByRule
    /\ part = "quorum" => Quorum!CriticalByQuorum
    /\ part = "admin" => Admin!CriticalByQuorum
    /\ part = "combos" => Combine!CombosFinal
    /\ part = "migrate" => Migrate!VerifiedMeansSame
    /\ part = "onboard" => Onboard!ApplicationsByRule
    ]_vars
=============================================================================
