---------------------------- MODULE MCGovernance -----------------------------
(***************************************************************************)
(* The governance contract for TLC: each behaviour runs one component,     *)
(* chosen in the initial state, with the small sets and bounds of its      *)
(* INSTANCE. The proposal lifecycle appears three times, with and without  *)
(* an execution delay and in a contract initialised again, and the         *)
(* committees once for their decisions and once for the requests between   *)
(* two of them.                                                            *)
(***************************************************************************)
EXTENDS Integers, ProposalLifecycle

CONSTANTS
    a0, adm, b0, c0, executor, f0, grd, u0, u1, u2, v1

VARIABLES
    part,
    nowInstant, pausedInstant, initsInstant, propInstant, lockInstant, queueInstant,
    treasuryInstant, forfeitedInstant, balanceInstant, paidInstant, passedInstant,
    seq, balancePower, stakedPower, holders, delegation, expiry, snap, poll, claims,
    nowKeys, initialized, admin, pendingAdmin, guardian, enforced, grantsKeys,
    pausedKeys, targets, downstream, pendingKeys, effects,
    nowBudget, assets, budget, approval, payments, window, spends,
    nowSeats, stake, members, chair, active, election, held, result,
    committees, decisions, requests, treasuryDecided, rate, elections, executions,
    nowConvict, decay, pool, proposalsConvict, refilled, grantsConvict, since,
    nowVested, balanceVested, stakedVested, locked, schedules, reserved, claimed,
    threshold, pendingVested,
    nowRepute, rep, proposalsRepute, payouts

DelayedIdle == LifecycleInit

Instant == INSTANCE ProposalLifecycle WITH
    N <- 2, Admin <- adm, Guardian <- grd, Quorum <- 50, Approval <- 60,
    Participation <- 50, VotingDelay <- 0, VotingPeriod <- 1, ExecutionDelay <- 0,
    ExecutionWindow <- 1, QueueDelay <- 1, StuckGrace <- 1, Extension <- 1,
    Deposit <- 1, Spend <- 1, Funds <- 10, MaxProposals <- 1, MaxTime <- 4,
    MaxInits <- 0, now <- nowInstant, paused <- pausedInstant, inits <- initsInstant,
    prop <- propInstant, lock <- lockInstant, queue <- queueInstant,
    treasury <- treasuryInstant, forfeited <- forfeitedInstant,
    balance <- balanceInstant, paid <- paidInstant, passed <- passedInstant
instantVars == <<nowInstant, pausedInstant, initsInstant, propInstant, lockInstant, queueInstant,
    treasuryInstant, forfeitedInstant, balanceInstant, paidInstant, passedInstant>>
InstantIdle ==
    nowInstant = 0 /\ pausedInstant = 0 /\ initsInstant = 0 /\ propInstant = 0 /\
    lockInstant = 0 /\ queueInstant = 0 /\ treasuryInstant = 0 /\
    forfeitedInstant = 0 /\ balanceInstant = 0 /\ paidInstant = 0 /\ passedInstant = 0
ASSUME InstantAssumption == Instant!LifecycleTyped

Again == INSTANCE ProposalLifecycle WITH
    N <- 1, Admin <- adm, Guardian <- grd, Quorum <- 50, Approval <- 60,
    Participation <- 50, VotingDelay <- 0, VotingPeriod <- 1, ExecutionDelay <- 1,
    ExecutionWindow <- 1, QueueDelay <- 1, StuckGrace <- 1, Extension <- 1,
    Deposit <- 1, Spend <- 1, Funds <- 10, MaxProposals <- 1, MaxTime <- 3,
    MaxInits <- 1, now <- nowInstant, paused <- pausedInstant, inits <- initsInstant,
    prop <- propInstant, lock <- lockInstant, queue <- queueInstant,
    treasury <- treasuryInstant, forfeited <- forfeitedInstant,
    balance <- balanceInstant, paid <- paidInstant, passed <- passedInstant
ASSUME AgainAssumption == Again!LifecycleTyped

Power == INSTANCE Voting WITH
    N <- 2, Wealth <- 2, Multipliers <- {15000}, MaxSeq <- 2, MaxProposals <- 1,
    balance <- balancePower, staked <- stakedPower
votingVars == <<seq, balancePower, stakedPower, holders, delegation, expiry, snap, poll, claims>>
PowerIdle ==
    seq = 0 /\ balancePower = 0 /\ stakedPower = 0 /\ holders = 0 /\ delegation = 0 /\
    expiry = 0 /\ snap = 0 /\ poll = 0 /\ claims = 0
ASSUME PowerAssumption == Power!VotingTyped

Keys == INSTANCE AdminTimelock WITH
    N <- 2, Targets <- {executor}, Granted <- {"ParameterChange", "SuperAdmin"},
    Delay <- 1, MaxTime <- 1, MaxEntries <- 1, MaxEffects <- 1, now <- nowKeys,
    grants <- grantsKeys, paused <- pausedKeys, pending <- pendingKeys
adminVars == <<nowKeys, initialized, admin, pendingAdmin, guardian, enforced, grantsKeys,
    pausedKeys, targets, downstream, pendingKeys, effects>>
KeysIdle ==
    nowKeys = 0 /\ initialized = 0 /\ admin = 0 /\ pendingAdmin = 0 /\ guardian = 0 /\
    enforced = 0 /\ grantsKeys = 0 /\ pausedKeys = 0 /\ targets = 0 /\ downstream = 0 /\
    pendingKeys = 0 /\ effects = 0
ASSUME KeysAssumption == Keys!AdminTyped

Budget == INSTANCE GovTreasury WITH
    Amounts <- {1}, Allocated <- 3, SpendLimit <- 2, Caps <- {3}, Funds <- 4,
    Period <- 2, Frequency <- 1, Window <- 2, WindowCap <- 1, MaxTime <- 4,
    MaxPayments <- 1, MaxSpends <- 2, now <- nowBudget
treasuryVars == <<nowBudget, assets, budget, approval, payments, window, spends>>
BudgetIdle ==
    nowBudget = 0 /\ assets = 0 /\ budget = 0 /\ approval = 0 /\ payments = 0 /\
    window = 0 /\ spends = 0
ASSUME BudgetAssumption == Budget!TreasuryTyped

Seats == INSTANCE CommitteeElections WITH
    Addrs <- {a0, b0, c0}, Founder <- f0, Stakes <- {1, 2}, MaxMembers <- 3,
    MinParticipation <- 2, QuorumStake <- 2, MaxTime <- 1, MaxElections <- 1,
    now <- nowSeats
electionsVars == <<nowSeats, stake, members, chair, active, election, held, result>>
SeatsIdle ==
    nowSeats = 0 /\ stake = 0 /\ members = 0 /\ chair = 0 /\ active = 0 /\
    election = 0 /\ held = 0 /\ result = 0
ASSUME SeatsAssumption == Seats!ElectionsTyped

Decided == INSTANCE CommitteeDecisions WITH
    Addrs <- {a0, b0, c0}, Committees <- {1}, Sizes <- {3}, SpendCap <- 1,
    MaxChangePct <- 50, Amounts <- {1, 2}, Rates <- {2, 3, 4}, Funds <- 2,
    MaxDecisions <- 1, MaxRequests <- 0, MaxElections <- 1, treasury <- treasuryDecided
decisionsVars == <<committees, decisions, requests, treasuryDecided, rate, elections, executions>>
DecidedIdle ==
    committees = 0 /\ decisions = 0 /\ requests = 0 /\ treasuryDecided = 0 /\
    rate = 0 /\ elections = 0 /\ executions = 0
ASSUME DecidedAssumption == Decided!CommitteesTyped

Asked == INSTANCE CommitteeDecisions WITH
    Addrs <- {a0}, Committees <- {1, 2}, Sizes <- {1}, SpendCap <- 1,
    MaxChangePct <- 50, Amounts <- {1}, Rates <- {2, 4}, Funds <- 1, MaxDecisions <- 2,
    MaxRequests <- 1, MaxElections <- 0, treasury <- treasuryDecided
ASSUME AskedAssumption == Asked!CommitteesTyped

Convict == INSTANCE Conviction WITH
    Voters <- {v1}, Tokens <- {2000000}, Requested <- {3}, Funding <- 3,
    RefillRate <- 1, RefillPeriod <- 2, PenaltyDays <- 2, PenaltyMultiplier <- 2,
    BonusPct <- 20, Cap <- 0, DecayRates <- {200}, MaxProposals <- 2, MaxTime <- 3,
    MaxGrants <- 1, MaxListed <- 1, SwitchFloor <- 2000000, now <- nowConvict,
    proposals <- proposalsConvict, grants <- grantsConvict
convictionVars == <<nowConvict, decay, pool, proposalsConvict, refilled, grantsConvict, since>>
ConvictIdle ==
    nowConvict = 0 /\ decay = 0 /\ pool = 0 /\ proposalsConvict = 0 /\ refilled = 0 /\
    grantsConvict = 0 /\ since = 0
ASSUME ConvictAssumption == Convict!ConvictionTyped

Vested == INSTANCE TokenDistribution WITH
    Supply <- 20, Users <- {u0}, Amounts <- {1, 2}, Thresholds <- {1, 3},
    CustomTotal <- 2, CustomCliff <- 1, CustomDuration <- 2, MaxTime <- 3,
    now <- nowVested, balance <- balanceVested, staked <- stakedVested,
    pending <- pendingVested
distributionVars == <<nowVested, balanceVested, stakedVested, locked, schedules, reserved, claimed,
    threshold, pendingVested>>
VestedIdle ==
    nowVested = 0 /\ balanceVested = 0 /\ stakedVested = 0 /\ locked = 0 /\
    schedules = 0 /\ reserved = 0 /\ claimed = 0 /\ threshold = 0 /\ pendingVested = 0
ASSUME VestedAssumption == Vested!DistributionTyped

Repute == INSTANCE Reputation WITH
    Users <- {u1, u2}, Pool <- 10, StepDays <- 31, Grace <- 30, DecayBps <- 50,
    MaxDecayDays <- 90, MaxUsers <- 2, MaxDays <- 31, MaxProposals <- 1,
    now <- nowRepute, proposals <- proposalsRepute
reputationVars == <<nowRepute, rep, proposalsRepute, payouts>>
ReputeIdle ==
    nowRepute = 0 /\ rep = 0 /\ proposalsRepute = 0 /\ payouts = 0
ASSUME ReputeAssumption == Repute!ReputationTyped

vars == <<part, lifecycleVars, instantVars, votingVars, adminVars, treasuryVars, electionsVars, decisionsVars, convictionVars, distributionVars, reputationVars>>

Init ==
    \/ part = "lifecycle" /\ LifecycleInit /\ InstantIdle /\ PowerIdle /\ KeysIdle /\ BudgetIdle /\ SeatsIdle /\ DecidedIdle /\ ConvictIdle /\ VestedIdle /\ ReputeIdle
    \/ part = "instant" /\ Instant!LifecycleInit /\ DelayedIdle /\ PowerIdle /\ KeysIdle /\ BudgetIdle /\ SeatsIdle /\ DecidedIdle /\ ConvictIdle /\ VestedIdle /\ ReputeIdle
    \/ part = "again" /\ Again!LifecycleInit /\ DelayedIdle /\ PowerIdle /\ KeysIdle /\ BudgetIdle /\ SeatsIdle /\ DecidedIdle /\ ConvictIdle /\ VestedIdle /\ ReputeIdle
    \/ part = "voting" /\ Power!Init /\ DelayedIdle /\ InstantIdle /\ KeysIdle /\ BudgetIdle /\ SeatsIdle /\ DecidedIdle /\ ConvictIdle /\ VestedIdle /\ ReputeIdle
    \/ part = "admin" /\ Keys!Init /\ DelayedIdle /\ InstantIdle /\ PowerIdle /\ BudgetIdle /\ SeatsIdle /\ DecidedIdle /\ ConvictIdle /\ VestedIdle /\ ReputeIdle
    \/ part = "treasury" /\ Budget!Init /\ DelayedIdle /\ InstantIdle /\ PowerIdle /\ KeysIdle /\ SeatsIdle /\ DecidedIdle /\ ConvictIdle /\ VestedIdle /\ ReputeIdle
    \/ part = "elections" /\ Seats!Init /\ DelayedIdle /\ InstantIdle /\ PowerIdle /\ KeysIdle /\ BudgetIdle /\ DecidedIdle /\ ConvictIdle /\ VestedIdle /\ ReputeIdle
    \/ part = "decisions" /\ Decided!Init /\ DelayedIdle /\ InstantIdle /\ PowerIdle /\ KeysIdle /\ BudgetIdle /\ SeatsIdle /\ ConvictIdle /\ VestedIdle /\ ReputeIdle
    \/ part = "requests" /\ Asked!Init /\ DelayedIdle /\ InstantIdle /\ PowerIdle /\ KeysIdle /\ BudgetIdle /\ SeatsIdle /\ ConvictIdle /\ VestedIdle /\ ReputeIdle
    \/ part = "conviction" /\ Convict!Init /\ DelayedIdle /\ InstantIdle /\ PowerIdle /\ KeysIdle /\ BudgetIdle /\ SeatsIdle /\ DecidedIdle /\ VestedIdle /\ ReputeIdle
    \/ part = "distribution" /\ Vested!Init /\ DelayedIdle /\ InstantIdle /\ PowerIdle /\ KeysIdle /\ BudgetIdle /\ SeatsIdle /\ DecidedIdle /\ ConvictIdle /\ ReputeIdle
    \/ part = "reputation" /\ Repute!Init /\ DelayedIdle /\ InstantIdle /\ PowerIdle /\ KeysIdle /\ BudgetIdle /\ SeatsIdle /\ DecidedIdle /\ ConvictIdle /\ VestedIdle
DelayedNext ==
    /\ part = "lifecycle" /\ LifecycleNext
    /\ UNCHANGED <<part, instantVars, votingVars, adminVars, treasuryVars, electionsVars, decisionsVars, convictionVars, distributionVars, reputationVars>>
InstantNext ==
    /\ part = "instant" /\ Instant!LifecycleNext
    /\ UNCHANGED <<part, lifecycleVars, votingVars, adminVars, treasuryVars, electionsVars, decisionsVars, convictionVars, distributionVars, reputationVars>>
AgainNext ==
    /\ part = "again" /\ Again!LifecycleNext
    /\ UNCHANGED <<part, lifecycleVars, votingVars, adminVars, treasuryVars, electionsVars, decisionsVars, convictionVars, distributionVars, reputationVars>>
PowerNext ==
    /\ part = "voting" /\ Power!Next
    /\ UNCHANGED <<part, lifecycleVars, instantVars, adminVars, treasuryVars, electionsVars, decisionsVars, convictionVars, distributionVars, reputationVars>>
KeysNext ==
    /\ part = "admin" /\ Keys!Next
    /\ UNCHANGED <<part, lifecycleVars, instantVars, votingVars, treasuryVars, electionsVars, decisionsVars, convictionVars, distributionVars, reputationVars>>
BudgetNext ==
    /\ part = "treasury" /\ Budget!Next
    /\ UNCHANGED <<part, lifecycleVars, instantVars, votingVars, adminVars, electionsVars, decisionsVars, convictionVars, distributionVars, reputationVars>>
SeatsNext ==
    /\ part = "elections" /\ Seats!Next
    /\ UNCHANGED <<part, lifecycleVars, instantVars, votingVars, adminVars, treasuryVars, decisionsVars, convictionVars, distributionVars, reputationVars>>
DecidedNext ==
    /\ part = "decisions" /\ Decided!Next
    /\ UNCHANGED <<part, lifecycleVars, instantVars, votingVars, adminVars, treasuryVars, electionsVars, convictionVars, distributionVars, reputationVars>>
AskedNext ==
    /\ part = "requests" /\ Asked!Next
    /\ UNCHANGED <<part, lifecycleVars, instantVars, votingVars, adminVars, treasuryVars, electionsVars, convictionVars, distributionVars, reputationVars>>
ConvictNext ==
    /\ part = "conviction" /\ Convict!Next
    /\ UNCHANGED <<part, lifecycleVars, instantVars, votingVars, adminVars, treasuryVars, electionsVars, decisionsVars, distributionVars, reputationVars>>
VestedNext ==
    /\ part = "distribution" /\ Vested!Next
    /\ UNCHANGED <<part, lifecycleVars, instantVars, votingVars, adminVars, treasuryVars, electionsVars, decisionsVars, convictionVars, reputationVars>>
ReputeNext ==
    /\ part = "reputation" /\ Repute!Next
    /\ UNCHANGED <<part, lifecycleVars, instantVars, votingVars, adminVars, treasuryVars, electionsVars, decisionsVars, convictionVars, distributionVars>>
Next == DelayedNext \/ InstantNext \/ AgainNext \/ PowerNext \/ KeysNext \/ BudgetNext \/ SeatsNext \/ DecidedNext \/ AskedNext \/ ConvictNext \/ VestedNext \/ ReputeNext
Spec == Init /\ [][Next]_vars

-----------------------------------------------------------------------------
(* Whatever the order of deposits, spends, grants, vesting, mining and     *)
(* rewards, governance pays out only what it has: every token is in one    *)
(* place, deposits are settled, budgets, pools and reserves match what was *)
(* taken from them and nothing vests early.                                *)
FundsAccounted ==
    /\ part = "instant" => Instant!TokensConserved /\ Instant!DepositSettled
    /\ part = "treasury" => Budget!BooksMatchSpends
    /\ part = "decisions" => Decided!SpendsAccounted
    /\ part = "conviction" => Convict!PoolBacked
    /\ part = "distribution" => 
        /\ Vested!CirculatingAccounted
        /\ Vested!ReserveMatchesPending
        /\ Vested!NeverAheadOfVesting
    /\ part = "reputation" => Repute!PayoutsWithinPool
(* Every vote, seat and decision rests on weight counted once, taken when  *)
(* it has to be: snapshots and delegations, one rule for each of the two   *)
(* voting calls, quadratic references, stake left at the end of an         *)
(* election, majorities of a committee, conviction that was really earned, *)
(* a history that is recorded once.                                        *)
WeighedOnce ==
    /\ part = "voting" => 
        /\ Power!EachStakeOnce
        /\ Power!TallyIsSnapshot
        /\ Power!WithinReference
    /\ part = "elections" => Seats!SeatsByWeight
    /\ part = "decisions" => Decided!VotesDecide
    /\ part = "requests" => Asked!RequestsBackedByDecisions
    /\ part = "conviction" => Convict!NoRetroactiveConviction
    /\ part = "reputation" => Repute!RecordsMatchHistory
(* No path around a delay, a window or a schedule: an enforced timelock is *)
(* waited for by every operation that has a queue, its entries are spent   *)
(* once, direct spends stay within the window and payments keep their      *)
(* distance.                                                               *)
DelaysRespected ==
    /\ part = "admin" => Keys!EnforcedMeansDelayed /\ Keys!EntryUsedOnce
    /\ part = "treasury" => Budget!DirectSpendsWithinWindow /\ Budget!PaymentsSpaced
(* The admin changes hands only to the address an admin has proposed, a    *)
(* proposal acts without its vote only from an entry queued before the     *)
(* contract was initialised again, a committee changes only by an election *)
(* that reaches its quorum with the stake that is left, the reward rate    *)
(* only by a step measured against the rate in force.                      *)
ChangesByRule == [][
    /\ part = "admin" => Keys!AdminHandover
    /\ part = "again" => Again!UnvotedOnlyIfStale
    /\ part = "elections" => Seats!QuorumOfRemainingStake
    /\ part = "requests" => Asked!RateStepBounded
    ]_vars
=============================================================================
