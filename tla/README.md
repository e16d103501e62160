# StellarSwipe contracts: TLA+ verification project

StellarSwipe is a set of Soroban (Stellar) smart contracts, written in Rust, for
social trading: providers publish signals, followers copy them, stake backs the
providers and is slashed for bad conduct, fees and rewards are paid out, and
governance, an oracle and a bridge surround it. This directory holds TLA+ models
of these contracts, TLC configurations that check the models on small instances,
and TLAPS proofs that hold for any number of accounts, proposals, transfers and
amounts.

Paths below are relative to the repository's `stellar-swipe/contracts/`;
`lib.rs` alone is `stake_vault/src/lib.rs`.

1. The system
2. The modules
3. Runs
4. Proofs
5. What the code does differently from what it says
6. Not modelled
7. Plan

## 1. The system

### Execution model

A contract runs only inside an invocation. The host serialises invocations, so
there are no threads: the interleavings that matter are orders of invocations by
different parties (stakers, providers, followers, the admin, multi-sig signers,
validators, keepers, governance). An invocation that returns `Err` or panics is
rolled back as a whole, so a failing call is no step of a model. Partial effects
survive in exactly two ways, and both are modelled:

* a batch entry point that catches an item's `Err` and goes on
  (`batch_slash_stake`, `batch_resolve_appeal`, `process_unstake_queue`, batches
  of trades, fees and imports): what the item wrote before it failed stays;
* a `try_` call to another contract (a token, the router, the portfolio) whose
  failure the caller handles, e.g. by queueing a claim or a dead letter.

Time is the ledger sequence and the ledger timestamp. Timeouts, cooldowns,
lockups and windows are compared with it when somebody calls; nothing fires on
its own. Amounts are `i128` with checked arithmetic, so an overflow is an error
and no step; divisions round toward zero and are modelled as they are written.
Authorisation is by signature: a model's action takes the caller as a parameter
where the code compares it with a stored address.

### Components

| Component | State it keeps | What must hold |
|---|---|---|
| **stake_vault core** (`lib.rs`) | stakes, delegations and their totals, slash records, held funds, appeals, lockups, cooldowns, settings | custody covers what the tables owe; a slash is spent once; a slashed provider does not get out early |
| **unstake queue** | FIFO of tickets, head, tail, cap | requests are paid in order, none is lost, the queue moves |
| **emergency unstake** | signer config, requests, approvals, last exit | no way around a lockup; exits spaced |
| **reward index, queued claims** | stakes, index and dust per asset, snapshots, accruals, claims | never promises more than was funded; a stake change neither gives nor takes rewards |
| **reward programs** | campaigns, vesting, fee accrual, buckets, dust, V1-V2 migration | budgets cover what is promised, one claim each, each stake moved once |
| **shared multi-sig** | config, proposals, approvals | no gated change without an approved live proposal |
| **governance: proposals** | proposals, votes, deposits, timelock queue | an action runs only if it passed; deposits are settled; no token is lost |
| **governance: the rest** | voting power and delegation, admin timelock, treasury, committees and elections, conviction voting, token distribution, reputation | weight counts once, delays cannot be skipped, budgets match spends |
| **bridge** | transfers, validators, proposals of signers, messages, monitoring, pool, fees | one mint per message, supply balanced, releases have a quorum, changes are signed |
| **trade_executor** | trades, queue, limit orders, triggers, settlement orders, plans, debts | nothing past the caps, filled once, closed once |
| **user_portfolio** | positions with their indexes, exposure, results, tags, lots | indexes, results and tags agree with the positions |
| **auto_trade** | spread and scheduled strategies, guards, stops, hedges, routes | positions are what was opened and are left by their own rule |
| **signal_registry** | signals, limits, outcomes, contests, boards, votes, migration, tags | limits hold, books agree, closed things stay closed |
| **fee_collector** | rates and cache, treasury queue, insurance, claims, earnings | what is held is owed or counted |
| **oracle** | feeds, submissions, consensus, paths, challenges | prices within their rules, records match what happened |
| analytics, `stake_vault_kani`, first-generation `contracts/`, frontend, scripts | reports, superseded code, UI | not modelled |

How they interact. stake_vault tells its reward index of stake changes and hands
settings and verdicts to the multi-sig; governance pauses and configures other
contracts and acts through its timelock; the trade executor asks the portfolio
for its positions and tells it of new ones, and takes prices from the oracle; the
bridge's transfers read the validator set that its signers' proposals install;
every contract calls token contracts, whose transfers may fail.

The parts of one contract share hardly any state: the bridge's pool never reads
its messages, the committees never read the conviction pool. Parts that do share
state are in one module or EXTEND one another (the unstake queue, the emergency
exit and the multi-sig all extend `StakeVault`).

### What is hard here

The list with source lines is `hazards` in `PROJECT.json`. In short: errors
swallowed inside batches after state was written; settings read at a different
time than the state they judge (appeal window, lockup default, quorum, activation
delay, tier limits); two tables describing the same thing (balances and reward
index, delegations and totals, queue and tickets, positions and their indexes,
counters and what they count); rounding in slashes, indexes, shares and integer
statistics; several entry points to one privileged operation; retries of
what was already done; a queue whose head may never be servable.

## 2. The modules

| Module | Models | Built on |
|---|---|---|
| `Totals` | the sum of a table indexed `1..n`, as a recursive function, with lemmas about it and about rounded division | |
| `Approval` | abstract: requests are granted or given up, and take effect only when granted | |
| `StakeVault` | core of stake_vault | `Totals` |
| `UnstakeQueue`, `EmergencyUnstake`, `VaultMultisig` | the queue, the exit, the multi-sig over the vault | `StakeVault` |
| `RewardIndex` | reward index and queued claims, one asset | `Totals` |
| `RewardPrograms` | campaigns, vesting, fee accrual, buckets, dust, migration, with proofs | `Totals` |
| `ProposalLifecycle` | proposals, deposits, execution queue, with proofs | `Totals`, refines `Approval` |
| `Voting`, `AdminTimelock`, `GovTreasury`, `CommitteeElections`, `CommitteeDecisions`, `Conviction`, `TokenDistribution`, `Reputation` | the rest of governance | |
| `BridgeTransfers` | transfers, limits, validators | `Totals` |
| `BridgeGovernance` | signers' proposals and validator sets, with proofs | refines `Approval` |
| `BridgeMessaging`, `BridgeMonitoring`, `BridgeLiquidity`, `BridgeFees` | the rest of the bridge | |
| `CopyTrading`, `TradeOrders` | trade_executor | |
| `Portfolio` | user_portfolio | |
| `SpreadStrategies`, `ScheduledOrders`, `TradeGuards`, `TradeRisk` | auto_trade | |
| `Signals`, `SignalScores`, `SignalTools` | signal_registry | |
| `FeeCollector`, `Oracle` | fee_collector, oracle | |
| `StakeVaultProofs`, `RewardIndexProofs`, `PortfolioProofs`, `BridgeProofs` | theorems | the module they name |
| `MCVault`, `MCGovernance`, `MCBridge`, `MCFees`, `MCTrading`, `MCAuto`, `MCSignals` | instances for TLC | see below |

Each module's first comment says what it models and what it abstracts;
`PROJECT.json`'s `map` gives, for each definition, the source lines it stands
for. An entry names the lines of the helpers and of the neighbouring handlers it
groups as well, each line once: `AllocationCalls` of `RewardPrograms` stands for
`distribute` and `claim`, `GuardianCalls` of `Oracle` for the five guardian
entry points. A module has one action per entry point, named after it, whose guard is the
code's conditions and early returns; constants that are only bounds for TLC
(`MaxTime`, `MaxSlashes`, `MaxProposals`, `MaxCalls`...) appear in guards only.

### How a contract is put together for TLC

The MC module of a contract holds one INSTANCE per part, with small sets and
bounds of its own, and a variable `part`. The initial state chooses a part; from
then on only that part's variables move. Since the parts keep no state in common
this loses no behaviour, and one run covers a contract. An invariant of such a
run is a conjunction `part = "x" => X!Invariant` whose comment says what it adds up
to; the invariants it names are defined, with their own comments, in the part's
module. A part may occur twice with different constants (the proposal lifecycle
with and without an execution delay, copy trades with and without queueing).
Parts that a theorem is about are EXTENDed instead (`BridgeTransfers`,
`ProposalLifecycle`, `Portfolio`, `StakeVault`, `RewardPrograms`), so that TLC checks the very
definitions the theorem states.

### StakeVault and what extends it

Accounts are `1..N`; every account may stake, delegate (to itself as well, as in
the code) and be slashed. `balance`, `lockedUntil` are StakesV2; `delegated`,
`totalDelegated` the two delegation tables; `slash`, `held`, `appeal`,
`lastSlash` the slash tables; `lockupEnd` the provider lockup; `rate` the
StakeChange rate limit; `userStake`, `totalStake` what the reward index was last
told; `cfg` the admin settings; `wallet` and `vault` the token balances.
`stakedNow` are the accounts whose LastStakeLedger is the current ledger. Two
history variables explain custody: `stranded[id]` are slashed tokens that a failed
burn left in custody with no table owing them, `unbacked[id]` is stake credited
by a reversal whose tokens had been burned.

`do_slash(p, severity, burns)` keeps the code's order: stake and delegations are
reduced, the record, counter and cooldown written, then the tokens held or
burned, then the provider locked; with `burns = FALSE` it stops before the lock,
which only the batch entry point can make visible. A batch is modelled one item
at a time: the items run in the same ledger and each outcome is independent of
the batch. `ProcessBlocked` is the one write that a request refused in
`process_unstake_queue` leaves behind. `approve_emergency_unstake` executes in
the same step when the threshold is reached; `execute_action` runs the very
operators of the core that the single-admin entry points run. At this commit
`lib.rs` defines `add_index_reward_asset` twice (3239 and 3321), a merge
artefact; the second, complete body is the one modelled.

### Refinement

`Approval` is the scheme behind everything that is proposed, agreed to and then
done: a request is asked for, granted or given up, decided once, and whatever
takes effect was granted. `BridgeGovernance` implements it with
`phase[id]` computed from the proposals' status (`DecidedOnce`, run `bridge`), and
`ProposalLifecycle` with the vote as the grant (`ExecutedOnlyIfGranted`, run
`governance`): direct execution, execution inside finalize, the timelock's queue,
its batch and its emergency unblock all map to "take effect" of a granted request.
Both refinements are also proved.

## 3. Runs

Nine runs pass and three show a violation. Deadlock is checked in `queue`,
`vault` and `index_rewards`; in the others a part stops when its bounds are used
up.

| Run | Instance | Checks |
|---|---|---|
| `vault` | *custody*: 2 accounts with 6 tokens in portions of 3, 1 slash, 3 ledgers, appeals enabled; *settings*: 1 account, 2 slashes, lockup 0 or 2, appeal window 0 or 1, a slash table that must be refused; *exit*: 2-of-2 signers, 20 % penalty, 4 ledgers; *multisig*: 2-of-2 signers, one proposal out of nine payloads; *duel*: 1-of-2 signers, two proposals for opposite verdicts on one appeal | `TypeOK`, `Solvency`, `DelegationLedger`, `SlashDisposition`, `ParticipationTotal`, `CustodyExact`, `PartsHold`, `LockupsHold`, `DecisionsStand` |
| `queue` | 2 accounts, 2 tickets, 1 slash, 4 ledgers, rate limit of 1, cap of 0 or 2, every payout large | `QueueMatchesTickets`, `RequestsLeavePaid`, `QueueMoves` (liveness) |
| `index_rewards` | 2 stakers with stakes 0, 2 or 3, Scale 5, up to 4 tokens funded, 1 queued claim each | `TypeOK`, `EveryoneCanClaim`, `Conservation`, `OnlyFundingEarns` |
| `governance` | lifecycle (2 proposals with a delay; 1 proposal, 2 voters without; 1 proposal in a contract initialised twice), voting with plain, quadratic and reputation-weighted votes, admin, treasury, elections, decisions, requests, conviction, distribution, reputation | `ProposalsAccounted`, `FundsAccounted`, `WeighedOnce`, `DelaysRespected`, `ChangesByRule`, `ExecutedOnlyIfGranted` |
| `bridge` | transfers (2 validators, 2 transfers, 1 message, 2 deployments), proposals, messages, monitoring, pool, fees | `TransfersSafe`, `RelayInOrder`, `SharesAndFeesBacked`, `BridgeChangesByRule`, `DecidedOnce` |
| `fees` | 2 campaigns with 2 recipients and 2 distributions each, a budget of 2 split by weights 0 to 2; accrual for 2 stakers with Precision 3; 3 buckets; dust; migration of 3 stakes in batches of 0 to 2; collect, treasury, claims, earnings; the oracle in six parts | `RewardsBacked`, `FeesAccounted`, `EarnedIsKept` |
| `trading` | direct, queued, limit and confirmed copy trades; settlement orders, triggers, plans, debts, batches; the portfolio's parts | `TradesBounded`, `OrdersAccounted`, `PortfolioSound`, `TradeStepsByRule` |
| `auto` | three spread strategies, six kinds of scheduled orders, guards, roles, desk, stops, hedges, parity, routes | `AutoAccounted`, `StatisticsSound`, `AutoStepsByRule` |
| `signals` | the life of a signal, submission limits, payouts, edits, links; contests, boards, votes, windows, pages; admin quorum, combos, migration, onboarding, tags | `SignalsAccounted`, `SubmissionsWithinLimits`, `SignalStepsByRule` |

Why the bounds are enough to be interesting. Bounds are chosen per part so that
each guard is met from both sides: amounts that round (three tokens slashed by
5 % give the minimum of one, seven by 30 % round down; Scale 5 with stakes 2 and
3 makes every funding leave dust), times one past each window, caps that the
second of two calls meets, at least two parties where a property is about one
against another, and a setting with two values where it may change while
something is under way. Two delegations and an own stake exist at once, so
rounding each and rounding the sum differ. Every disjunct of every next-state
relation fires in these runs, and every property is violated by at least one
plausible fault of the code (`mutants` in `PROJECT.json`).

Three runs show where the code disagrees with what its own comments say; each
checks one property and TLC returns the trace. They are the `findings` of
`PROJECT.json`.

| Run | Trace in short |
|---|---|
| `reversal_after_burn` (`BurnedNeverRestored`) | appeal window 0: a slash burns; the window is raised; the provider appeals; the reversal credits the recorded amount. The vault now owes more than it holds. |
| `queue_stuck` (`WaitersServed`) | a staker queues, then withdraws directly; its ticket reaches the head, fails with NoStake for ever, and blocks the rest. |
| `transfer_retry` (`QuorumBehindRelease`) | a transfer is marked failed before anyone approved it; retry_transfer makes it ReadyToExecute; it executes with no approval. |

### Fairness

Only `FairQueueSpec` has a fairness condition: weak fairness of
`process_unstake_queue`. Anyone may call it, and the queue exists so that keepers
do. No fairness is assumed of the clock, of the admin, of the stakers or of the
token contract. `QueueMoves` therefore says only that a queue in which everybody
may leave right now is not left standing; `WaitersServed` weakens the premise to
stakers that still have stake, and fails. Elsewhere nothing obliges anybody to
call, so no other liveness is claimed.

## 4. Proofs

The theorems hold for every value of the constants that satisfies the named
assumptions: sizes and bounds are naturals, amounts and settings are sets of
naturals, the sets of users, signers and validators are finite. These assumptions
are ASSUMEs of the modules (`SizesAreNat`, `AmountsArePositive`, `SettingsTyped`,
`QueueTyped`, `IndexTyped`, `ProgramsTyped`, `BridgeTyped`,
`PortfolioAssumption`, `LifecycleAssumption`) or, where a module is instantiated by a run rather than
extended, hypotheses of its theorems (`EmergencyTyped`, `MultisigTyped`,
`GovernanceTyped`) that the run's MC module assumes of its instance. TLC evaluates
all of them.

### The stake vault: `StakeVaultProofs`

| Theorem | Statement | Extra hypothesis |
|---|---|---|
| `TypeCorrect`, `CustodyIsExact`, `DelegationsAddUp`, `ParticipationAddsUp` | `[]TypeOK`, `[]CustodyExact`, `[]DelegationLedger`, `[]ParticipationTotal` | |
| `UndecidedSlashIsWhole`, `VaultIsSolvent` | `[]SlashDisposition`, `[]Solvency` | `0 \notin AppealWindows` |
| `SlashesAreSpaced` | `[]SlashesSpaced` | |
| `LockupsOnlyGrow` | `[][LockupNeverShortened]_vars` | |
| `LockedWhileSlashed` | `[][SlashedProviderStaysIn]_vars` | `0 \notin AppealWindows` |
| `QueueIsConsistent`, `QueueKeepsCustody`, `QueuePaysInOrder` | `[]QueueMatchesTickets`, `[]CustodyExact`, `RequestsLeavePaid` for the vault with its queue | |
| `ExitKeepsCustody`, `ExitsAreSpaced`, `LockedWhileSlashedByExit` | the same custody, spacing and lock for the vault with its emergency exit | for the last, `0 \notin AppealWindows` |
| `MultisigKeepsCustody`, `SettingsMoveByProposal`, `VerdictsAreFinal` | custody, gating and finality under a multi-sig | |

`CustodyExact` is not inductive alone. A slash reduces the delegations one by one
and the total by their sum, so it needs `DelegationLedger` to know that the total
covers the sum; a reversal credits `slash[id].provider`, so recorded slashes must
name an account, and must cover what is held and stranded of them (`RecordsOK`).
The inductive invariant is

    IInv == TypeOK /\ DelegationLedger /\ RecordsOK /\ CustodyExact

with one lemma per action, combined in `NextInv`. `CustodyStep` reduces each to
the differences of five totals, and `Totals` supplies those: what one changed
entry does to a sum, that sums add, that a sum of naturals is natural. Because an
operator-valued induction rule cannot be used with the installed provers, `Totals`
derives induction on the index of a table from a least-counterexample argument
on sets. It also holds what the reward proofs need of rounded division
(`DivRoundsDown`, `FactorOut`, `FactorOrder`), because the arithmetic solver does
not multiply variables.

Solvency needs more. With appeal windows never 0, every slash is held when it is
made, so an undecided slash has `held + stranded = amount`, a decided one holds
nothing, and no reversal is unbacked (`Disposed`, inductive relative to `IInv`);
`CustodyExact` with `unbacked = 0` then gives `Solvency`. Without the hypothesis the
theorem is false: that is the run `reversal_after_burn`. The hypothesis of
`LockedWhileSlashed` has the same origin: with a window of 0 a failing burn inside
`batch_slash_stake` leaves a recorded slash without its lock.

The spacing of slashes needs `SpacedInv` (each recorded slash lies before the
provider's next allowed one); the lock needs `LocksCover` (every slash is covered by
a lockup of some configurable length, or that length has passed). The three
extensions each carry `IInv` along (`QueueInv`, `ExitInv`, `MsInv`): the
invariant's lemmas are about the vault's own actions and are reused, and only the
new actions need new ones. `ExitInv` adds `FiledOutsideCooldown`, because only the
request looks at the cooldown while the last approval executes.

### The reward index: `RewardIndexProofs`

`IndexTypeCorrect`, `IndexStakesAddUp`, `IndexConserves` (`[]Conservation`),
`IndexIsSolvent` (`[]EveryoneCanClaim`) and `IndexEarnsByFunding`
(`OnlyFundingEarns`).

`EveryoneCanClaim` is not inductive: it speaks of rounded credits, and a funding
adds to credits that are still unrounded. `Conservation` is the same statement in
units of `1/Scale`, before any rounding, dust included. It needs three companions:
snapshots never exceed the index and none exists before the asset does
(`SnapshotsOK`), a nonce not yet handed out has no claim (`ClaimsOK`), and the
divisor is the sum of the stakes it divides by (`ParticipationSum`). A claim, a
retry, a cancellation or a stake change moves one staker's books only
(`OneStakerConserves`); funding moves everyone's (`FundInv`). `BooksCoverClaims`
then divides by `Scale`. `OnlyFundingEarns` says that those one-staker steps keep
what a staker was paid plus what it may still get, to the unit.

### The reward programs: `RewardPrograms`

`RewardsAlwaysBacked` (`[]RewardsBacked`) says that every program can pay what it
promised, and `AccruedAlwaysKept` that what a staker earned in fees is lowered by
its own claim only. The programs share no state, so the invariant is one per program,

    RewardsInv == CampaignInv /\ AccrualInv /\ DustInv /\ BucketInv /\ MigrationInv

and a step of one program leaves the other four parts as they are.

* *Campaigns.* `LiabilitiesCounted` speaks of open campaigns only; the invariant says
  what holds in every status (`CampaignsSound`): a campaign not yet opened has no
  allocation and no schedule (`Fresh`), the rows after its last distribution are
  empty, and a schedule never paid more than its total. The crux is `SplitIsExact`:
  for any weights, the floors and the units handed out by largest remainder add up
  to exactly the total, because the floors leave fewer units than there are
  recipients (`RestIsSmall`) and ranking by remainder, ties by address, is a strict
  order, so exactly that many recipients have fewer than that many ahead. Were
  it a unit more, `distribute` would promise what it did not count. A claim or an
  expiry of any set of allocations takes exactly their amounts and their number
  out of what is pending (`IdsSettled`).
* *Fee accrual.* `FeesCovered` is about rounded amounts and not inductive: a deposit
  adds to positions whose fractions nobody sees. `WorthCovered` is the same
  statement in units of `1/Precision`, unrounded and dust included: what a position
  is worth is its realized amount and what its shares earned over its debt. A debt
  rounded up makes a change of shares never raise that worth (`PositionMoves`); a
  deposit raises it by at most what was deposited, since the shares add up to the
  divisor (`SharesCounted`). Dividing by `Precision` gives `FeesCovered`.
* *Buckets, dust, migration.* A provider's balance is the total of its unclaimed
  buckets; a batch of bucket ids takes their total out of both sides. Migration
  needs that `sinceV2` is 0 for a provider whose stake is still to be moved.

### Proposals: `ProposalLifecycle`

`ProposalsStayAccounted` (`[]ProposalsAccounted`: tokens conserved, deposits
settled once decided, no action repeated along either path) and
`ProposalsImplementApproval` (the refinement of `Approval`), both for a contract
that is initialised once (`MaxInits = 0`). `initialize_timelock` may be called at any
time, as the code allows. Once the guardian has revoked the admin, `initialize` may
be called again and starts the proposals afresh, but neither the timelock's queue
nor the locked deposits, and both statements are false: an old queued action acts
for a new proposal of the same number. What remains then
(`UnvotedOnlyIfStale`) is checked by TLC, in part *again* of run `governance`. The
inductive invariant is

    LifecycleInv == LifecycleTypeOK /\ TokensConserved /\ VotesSettled
                    /\ QueuedOnce /\ ActsAtMostOncePerPath

`VotesSettled` ties a proposal's status to the vote that passed it, to its deposit
and to what it has paid: a proposal that has not passed, or waits to be executed,
has paid nothing. `QueuedOnce` says that a proposal is queued once, only after its
vote, and that its action waits while the proposal does. Together they bound the
spend: at most once directly and at most once from the queue. Both can happen (see
section 5), so the bound cannot be sharper. `execute_multiple_actions` acts on two
proposals in one step, which is why the abstract step takes a set of requests.

### Bridge: `BridgeProofs`, `BridgeGovernance`

`TransfersTypeCorrect` and `TransfersAreSafe` (`[]TransfersSafe`) rest on

    TransferInv == TransferTypeOK /\ Len(transfers) <= MaxTransfers
                   /\ MessagesLocked /\ SupplyBalanced /\ DaysCounted /\ ReadyIsBacked

The limit `TransfersSafe` speaks of is the code's: one per calendar day, hence up to
twice as much in 24 hours that begin at another moment (`RollingVolume`, see section
5). `MessagesLocked` makes "one mint per message" inductive (a message in use belongs to
one transfer), `DaysCounted` ties the day's volume to the transfers of that day, and
`ReadyIsBacked` remembers the approvals behind every transfer that became ready
without a retry.

`PendingStaysAhead`, `AttestationWaits`, `ChangesAreSigned` and
`GovernanceImplementsApproval` rest on `GovernanceInv`: types, `PendingAhead`, no
validator set smaller than the number of signatures, and a pending set's
activation time computed from the delay it was approved under.

### Portfolio: `PortfolioProofs`

`PortfolioTypeCorrect`, `PortfolioIsSound` (`[]PortfolioSound`) and
`PositionsMoveByRule` rest on `PortfolioTypeOK /\ PortfolioSound /\ Unused`:
nothing is recorded (result, asset, tag) under a number not yet handed out, without
which opening a position could inherit the result or the tag of another.

### Only model-checked, and why

* `QueueMoves` and `WaitersServed`: liveness under fairness is out of the
  prover's reach.
* `StatisticsSound` and what integer roots, sorted boards, medians, paths and
  paged readers compute: they need induction over data, which the installed
  provers cannot use.
* `PartsHold`, `LockupsHold` and `DecisionsStand` of run `vault` as such: they
  are about an MC module's instances; the statements they are made of are the
  theorems above. The same holds for `DecidedOnce` and, for its validator sets,
  `RelayInOrder` of run `bridge`.
* `FundsAccounted`, `WeighedOnce`, `DelaysRespected`, `ChangesByRule`,
  `RelayInOrder` (messages, monitoring), `SharesAndFeesBacked`,
  `FeesAccounted`, `EarnedIsKept` beyond the vault's fees, `TradesBounded`, `OrdersAccounted`,
  `TradeStepsByRule` beyond the positions, `AutoAccounted`, `AutoStepsByRule`,
  `SignalsAccounted`, `SubmissionsWithinLimits`, `SignalStepsByRule`: not yet
  proved.

## 5. What the code does differently from what it says

Besides the three findings above, modelling met the following. They are part of
the models; most have no statement in the repository to hold them against, or
were confirmed with TLC and are recorded here only.

stake_vault: a failing burn inside `batch_slash_stake` leaves a slash recorded
whose provider was never locked; slashes, reversals and emergency exits do not
tell the reward index; an asset registered after stakers came in gives those no
snapshot; under a multi-sig a single admin decides an appeal through
`batch_resolve_appeal`; approvals of an emergency request count although their
signer has been removed since (`emergency_unstake.rs:241`), and an approved request
pays out of a paused vault (`emergency_unstake.rs:243`, while `lib.rs:967` says
"Pause all stake/unstake operations").

governance: a queued action executes after its proposal's deadline
(`timelock.rs:160`; `proposals.rs:883` says such proposals are reclaimed instead),
and a proposal executed directly may be executed from the queue as well;
`cancel_proposal` turns a withdrawn proposal, "immutable" by `proposals.rs:1008`,
into a cancelled one; a cancelled proposal's deposit stays locked.
`cast_reputation_weighted_vote` adds up to 1.5 times a voter's power to the same tally
as `cast_vote`, without the square root of a quadratic proposal and also while the
contract is paused, so such a tally may exceed the total that a quadratic proposal's
quorum is measured against: `WeighedOnce` says that a voter counts once, by the rule
of the call it used. `initialize_timelock` is documented as one-time setup
(`docs/governance-timelock-audit.md:87`) and may be repeated by any holder of the
ParameterChange capability: it names a new guardian and forgets every queued action,
and the latch of `enforce_admin_timelock`, which is to leave no way around the delay
(`governance/src/lib.rs:2688`), does not cover it. `DelaysRespected` holds of what is
queued, in the presence of that call. `accept_key_rotation` asks for nobody's
authorisation, so anyone can complete a rotation that the admin proposed; only the
proposed key can receive the role, but its consent, which `governance/src/lib.rs:390`
and `408` describe, is not asked for. After an election a committee's decision is
taken by the votes of former members against the number of new ones; a conviction
proposal is funded from the sum stored at its last update, and again whenever funding
is called again.

bridge: the daily limit is one per calendar day, while `bridge/src/lib.rs:38` and `137`
call it a rolling volume: around midnight twice the limit passes within 24 hours.
Cancelling a pending validator set does not roll its version back; a monitored
transaction may be minted before it is final, and `complete_transfer` looks at no
approvals: that approvals are given after the last reorganization
(`ApprovedSinceReorg`) is said of approved and minting transfers only.
`create_bridge_transfer` overwrites a transfer of the same id, and `collect_bridge_fee`
does not remember which transfers have paid; calling it once per transfer is up to
its caller. `add_signer` and `remove_signer`, "(requires proposal)" by
`bridge/src/governance.rs:934` and `951`, check no proposal; no entry point calls them
and they are not modelled. A failed transfer keeps its status after its refund.

trade_executor: failed trades consume daily volume; the daily limit is called rolling
(`trade_executor/src/errors.rs:52`, `151`) but counts calendar days, and it counts the
amount asked for while the trade executes the amount resolved from a portfolio
percentage (`lib.rs` 931 and 965), so trades sized by percentage pass it
(`TradedWithinLimit` says by how much); one failing limit order blocks
the others; with a window above 0 the priority queue's fairness branch is
unreachable; batch settlement has no entry point yet and is modelled by its own
functions.

auto_trade: `configure_strategy` resets the active flag while a portfolio is open;
four-point histories pass validation though the stationarity test needs five; a
user's close without a reason is reported as Converged; DCA plans never reach
Completed; grid order ids collide and placing the grid again leaves ghost orders;
momentum trailing stops never trigger; an iceberg whose total is no multiple of its
slice is never Filled; an exit strategy whose size is adjusted after completion is
left unguarded; clearing the emergency disable bypasses the recovery cooldown; the
oracle circuit breaker's trip is always rolled back with its call; the referral
count is decremented twice; an escrow can be initiated again after settlement.

signal_registry: the active count is not decremented by a ban nor incremented when
a late trade revives a signal; published schedules never create signals; a frozen
reputation is still moved by outcomes; contest prizes are recorded and never paid;
any single signer can disable the multi-sig; the stake board ranks the stake of a
provider's last closed signal, not of today; a stake's lock is never set, although
`stake.rs:52` lets it out only after the lock period; a share of a loss without a fee
is not recorded; the migration's verification compares
with a count taken at its start and fails when signals are submitted meanwhile.

fee_collector, oracle: the cache of rates, scoped to a transaction by `fee_cache.rs:13`
and missing "after any rate change" by `storage.rs:152`, is temporary storage that
outlives the transaction, and its version key wraps modulo 10: after ten changes an
entry that has not expired serves the rates of ten versions ago
(`StaleOnlyAfterWrap` says that nothing else makes it stale); retry counts are rolled back with the
failing call, so the retry limit never bites; a capped claim forfeits the rest; a
removed oracle's pending submission still counts; a failing quorum read is rolled
back, so its Conflicting and Depleted states never persist; a path with a missing
or reversed pair converts 1:1.

user_portfolio: exposure only grows (`remove_exposure` has no caller, although
`storage.rs` says closing decrements it); plain `open_position` bypasses the caps;
a legacy user's first new position creates an index without the old ones, which
readers miss until the closed index is rebuilt or the user migrated; partial closes
create no tax event.

## 6. Not modelled

The signal-submission gate, slash strategies (a registry no operation applies),
token migration and contract upgrade in `lib.rs`; analytics; the shared and common
libraries beyond the rate limiter, the pause flag and the multi-sig; code that is
not compiled at this commit (auto_trade's `ml_prediction.rs`, `breakout.rs`,
`emergency.rs`, `compat.rs`, `budget_guard.rs`; signal_registry's export, position
sizing, audit log and bundles; fee_collector's `analytics.rs`; oracle's
`governance.rs`); the first-generation contracts, the frontend and the scripts. Each
is a component in `PROJECT.json` with the reason, and the notes of components marked
"partly" say what is left out of them. Authorisation by signature is trusted to the
host. Events, storage expiry (TTL) and storage rent are not modelled.

## 7. Plan

Done: the modules of section 2, their runs, and the proofs of section 4.

Next, in this order:

1. `GovTreasury`: `BooksMatchSpends` and `DirectSpendsWithinWindow`, with the
   invariant that a window's spends are those since it began.
2. `BridgeMessaging`: delivery in order, for any number of chains and messages.
3. `CopyTrading`: `TradesBounded`, whose invariant ties the day's volume to the
   trades of that day along four paths.
4. `Conviction` and `Voting`: weight counted once.
5. The signal-submission gate composed with `StakeVault`.
