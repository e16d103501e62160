----------------------------- MODULE StakeVault -----------------------------
(***************************************************************************)
(* The core of the stake_vault contract: stake deposits and withdrawals,   *)
(* delegation, slashing, slash appeals and the admin settings they depend  *)
(* on.  One action is one successful contract invocation; an invocation    *)
(* that returns Err is rolled back by the host and changes nothing, so it  *)
(* is not a step.  The exception is an error swallowed inside a batch,     *)
(* whose partial writes persist: those steps are modelled.                 *)
(*                                                                         *)
(* Ledger sequence and ledger timestamp are one clock, now, that starts at *)
(* 1; any number of invocations may happen in one ledger.  An absent       *)
(* storage entry is 0 (amounts, times), as the code's unwrap_or(0) has it. *)
(*                                                                         *)
(* The batch entry points are modelled for batches of one item.  A batch   *)
(* of k items runs the same item function k times in one ledger, and every *)
(* item's outcome is independent of the batch, so it ends in the state k   *)
(* batches of one item end in.                                             *)
(***************************************************************************)
EXTENDS Totals

CONSTANTS
    N,                   \* accounts are 1..N: stakers, delegators, providers
    MaxSlashes,          \* bound on the number of slashes
    MaxTime,             \* bound on the clock
    Amounts,             \* amounts a caller passes
    InitialWallet,       \* stake tokens each account starts with
    LargeThreshold,      \* LARGE_WITHDRAWAL_THRESHOLD
    RateWindow,          \* StakeChange rate limit: window length
    RateMax,             \* StakeChange rate limit: actions per window
    (* values the admin may give each setting *)
    MinStakes, MinDurations, WithdrawalCooldowns, SlashCooldowns,
    Lockups, AppealWindows, SlashTiers,
    MultisigChoices      \* {FALSE}: never configured; BOOLEAN: may change

Accounts == 1..N
SlashIds == 1..MaxSlashes
Severities == {"Minor", "Major", "Critical"}

BPS_DENOMINATOR == 10000
MAX_APPEAL_WINDOW == 2592000
MAX_WITHDRAWAL_COOLDOWN_SECS == 2592000
MAX_PROVIDER_LOCKUP_LEDGERS == 1000000

(* validate_slash_tiers: in range, and a worse violation never slashes a   *)
(* smaller fraction.                                                       *)
ValidTiers(t) ==
    /\ \A s \in Severities : t[s] \in 0..BPS_DENOMINATOR
    /\ t["Minor"] <= t["Major"] /\ t["Major"] <= t["Critical"]

(* SlashTierConfig::default_config: 5 %, 30 % and all of the stake. *)
DefaultTiers == [Minor |-> 500, Major |-> 3000, Critical |-> 10000]
DefaultTable == {DefaultTiers}

ASSUME SizesAreNat ==
    /\ N \in Nat /\ MaxSlashes \in Nat /\ MaxTime \in Nat
    /\ InitialWallet \in Nat /\ LargeThreshold \in Nat
    /\ RateWindow \in Nat /\ RateMax \in Nat
ASSUME AmountsArePositive == Amounts \subseteq Nat \ {0}
ASSUME SettingsTyped ==
    /\ MinStakes \subseteq Nat /\ MinDurations \subseteq Nat
    /\ WithdrawalCooldowns \subseteq Nat /\ SlashCooldowns \subseteq Nat
    /\ Lockups \subseteq Nat /\ AppealWindows \subseteq Nat
    /\ SlashTiers \subseteq [Severities -> Nat]
    /\ MultisigChoices \subseteq BOOLEAN

VARIABLES
    now,            \* the ledger clock
    paused,         \* shared::pausable
    multisig,       \* whether a multi-sig config is stored
    cfg,            \* the admin settings
    balance,        \* StakesV2: own stake per account
    lockedUntil,    \* StakesV2: minimum-duration lock per account
    stakedNow,      \* accounts whose LastStakeLedger is the current ledger
    requestedAt,    \* LargeWithdrawalRequestedAt, 0 when absent
    lockupEnd,      \* ProviderLockup.end_ledger, 0 when absent
    rate,           \* StakeChange rate-limit window, count 0 when absent
    delegated,      \* ProviderDelegatedStakes: provider -> delegator -> amount
    totalDelegated, \* ProviderTotalDelegated
    userStake,      \* reward_index UserStake: participating stake
    totalStake,     \* reward_index TotalStake
    lastSlash,      \* LastSlashLedger: ledger + 1, 0 for never slashed
    slashes,        \* SlashCounter: the number of slashes recorded
    slash,          \* SlashRecord
    held,           \* SlashedFundsHeld
    appeal,         \* SlashAppeal status
    wallet,         \* stake tokens outside the vault
    vault,          \* stake tokens in the vault's custody
    stranded,       \* history: slashed tokens in custody that no table owes
    unbacked        \* history: stake restored after its tokens were burned

clockVars == <<now, stakedNow>>
adminVars == <<paused, multisig, cfg>>
stakeVars == <<balance, lockedUntil, requestedAt, lockupEnd, rate>>
delegationVars == <<delegated, totalDelegated>>
indexVars == <<userStake, totalStake>>
slashVars == <<lastSlash, slashes, slash, held, appeal, stranded, unbacked>>
tokenVars == <<wallet, vault>>
vars == <<clockVars, adminVars, stakeVars, delegationVars, indexVars,
          slashVars, tokenVars>>

Settings == [minStake : MinStakes, minDuration : MinDurations,
             withdrawalCooldown : WithdrawalCooldowns,
             slashCooldown : SlashCooldowns, lockup : Lockups,
             appealWindow : AppealWindows,
             tiers : {t \in SlashTiers : ValidTiers(t)}]

NoSlash == [provider |-> 0, amount |-> 0, at |-> 0]
AppealStatuses == {"None", "Pending", "Upheld", "Reversed"}

TypeOK ==
    /\ now \in Nat \ {0}
    /\ paused \in BOOLEAN
    /\ multisig \in BOOLEAN
    /\ cfg \in Settings
    /\ balance \in [Accounts -> Nat]
    /\ lockedUntil \in [Accounts -> Nat]
    /\ stakedNow \in SUBSET Accounts
    /\ requestedAt \in [Accounts -> Nat]
    /\ lockupEnd \in [Accounts -> Nat]
    /\ rate \in [Accounts -> [start : Nat, count : Nat]]
    /\ delegated \in [Accounts -> [Accounts -> Nat]]
    /\ totalDelegated \in [Accounts -> Nat]
    /\ userStake \in [Accounts -> Nat]
    /\ totalStake \in Nat
    /\ lastSlash \in [Accounts -> Nat]
    /\ slashes \in 0..MaxSlashes
    /\ slash \in [SlashIds -> [provider : 0..N, amount : Nat, at : Nat]]
    /\ held \in [SlashIds -> Nat]
    /\ appeal \in [SlashIds -> AppealStatuses]
    /\ wallet \in [Accounts -> Nat]
    /\ vault \in Nat
    /\ stranded \in [SlashIds -> Nat]
    /\ unbacked \in [SlashIds -> Nat]

(* initialize, followed by the setters the admin called before the first   *)
(* deposit.                                                                *)
Init ==
    /\ now = 1
    /\ paused = FALSE
    /\ multisig = FALSE
    /\ cfg \in Settings
    /\ balance = [a \in Accounts |-> 0]
    /\ lockedUntil = [a \in Accounts |-> 0]
    /\ stakedNow = {}
    /\ requestedAt = [a \in Accounts |-> 0]
    /\ lockupEnd = [a \in Accounts |-> 0]
    /\ rate = [a \in Accounts |-> [start |-> 0, count |-> 0]]
    /\ delegated = [p \in Accounts |-> [d \in Accounts |-> 0]]
    /\ totalDelegated = [p \in Accounts |-> 0]
    /\ userStake = [a \in Accounts |-> 0]
    /\ totalStake = 0
    /\ lastSlash = [a \in Accounts |-> 0]
    /\ slashes = 0
    /\ slash = [i \in SlashIds |-> NoSlash]
    /\ held = [i \in SlashIds |-> 0]
    /\ appeal = [i \in SlashIds |-> "None"]
    /\ wallet = [a \in Accounts |-> InitialWallet]
    /\ vault = 0
    /\ stranded = [i \in SlashIds |-> 0]
    /\ unbacked = [i \in SlashIds |-> 0]

-----------------------------------------------------------------------------
(* Helpers *)

Larger(x, y) == IF x >= y THEN x ELSE y
Smaller(x, y) == IF x <= y THEN x ELSE y

(* apply_multiplier_bps, for amounts that do not overflow i128. *)
apply_multiplier_bps(x, bps) == (x * bps) \div BPS_DENOMINATOR

(* What a slash of bps takes from one stake: at least one unit, at most    *)
(* all of it, nothing from an empty one.                                   *)
SlashOf(x, bps) ==
    IF x = 0 THEN 0
    ELSE Smaller(Larger(apply_multiplier_bps(x, bps), 1), x)

(* Fault: an active lockup is replaced, not extended. *)
LockProviderOverwrites(p) == [lockupEnd EXCEPT ![p] = now + cfg.lockup]

(* lock_provider: apply the default lockup, or extend an active one. *)
lock_provider(p) ==
    IF cfg.lockup = 0 THEN lockupEnd
    ELSE [lockupEnd EXCEPT ![p] =
            IF @ >= now THEN Larger(@, now + cfg.lockup) ELSE now + cfg.lockup]

(* require_lockup_released: the end ledger itself is still locked. *)
LockupReleased(p) == now > lockupEnd[p]

(* common::rate_limit over shared::rate_limiter's fixed window. *)
check_rate_limit(a) ==
    ~(rate[a].count >= RateMax /\ now - rate[a].start < RateWindow)
record_action(a) ==
    [rate EXCEPT ![a] =
        IF @.count = 0 \/ now - @.start >= RateWindow
        THEN [start |-> now, count |-> 1]
        ELSE [start |-> @.start, count |-> @.count + 1]]

(* Fault: the old participating stake is not subtracted. *)
StakeChangeAddsOnly(s, stake) ==
    /\ userStake' = [userStake EXCEPT ![s] = stake]
    /\ totalStake' = totalStake + stake

(* reward_index::on_stake_change: record s's participating stake. *)
on_stake_change(s, stake) ==
    /\ totalStake - userStake[s] + stake >= 0
    /\ userStake' = [userStake EXCEPT ![s] = stake]
    /\ totalStake' = totalStake - userStake[s] + stake

(* The token contract moves amount out of, or into, the vault. *)
PayOut(a, amount) ==
    /\ vault >= amount
    /\ vault' = vault - amount
    /\ wallet' = [wallet EXCEPT ![a] = @ + amount]
PayIn(a, amount) ==
    /\ wallet[a] >= amount
    /\ vault' = vault + amount
    /\ wallet' = [wallet EXCEPT ![a] = @ - amount]

-----------------------------------------------------------------------------
(* Staking *)

deposit_stake(s, amount) ==
    /\ ~paused
    /\ balance' = [balance EXCEPT ![s] = @ + amount]
    /\ lockedUntil' = [lockedUntil EXCEPT ![s] =
            IF balance[s] = 0 THEN now + cfg.minDuration
            ELSE IF cfg.minDuration > 0
                 THEN Larger(@, now + cfg.minDuration)
                 ELSE @]
    /\ on_stake_change(s, balance[s] + amount)
    /\ stakedNow' = stakedNow \cup {s}
    /\ PayIn(s, amount)
    /\ UNCHANGED <<now, adminVars, requestedAt, lockupEnd, rate,
                   delegationVars, slashVars>>

delegate_stake(d, p, amount) ==
    /\ ~paused
    /\ delegated' = [delegated EXCEPT ![p][d] = @ + amount]
    /\ totalDelegated' = [totalDelegated EXCEPT ![p] = @ + amount]
    /\ PayIn(d, amount)
    /\ UNCHANGED <<clockVars, adminVars, stakeVars, indexVars, slashVars>>

(* A request by a small staker is accepted and changes nothing. *)
request_withdrawal(s) ==
    /\ ~paused
    /\ balance[s] >= LargeThreshold
    /\ requestedAt' = [requestedAt EXCEPT ![s] = now]
    /\ UNCHANGED <<clockVars, adminVars, balance, lockedUntil, lockupEnd, rate,
                   delegationVars, indexVars, slashVars, tokenVars>>

(* The checks of do_withdraw_locked and do_partial_unstake_locked, for     *)
(* amount leaving s's stake.                                               *)
MayLeave(s, amount) ==
    /\ balance[s] > 0
    /\ now >= lockedUntil[s]
    /\ LockupReleased(s)
    /\ s \notin stakedNow
    /\ amount >= LargeThreshold =>
         /\ requestedAt[s] # 0
         /\ now >= requestedAt[s] + cfg.withdrawalCooldown

(* Fault: a partial withdrawal empties the stake, as a full one does. *)
LeaveEmptiesStake(s, amount) ==
    /\ MayLeave(s, amount)
    /\ PayOut(s, amount)
    /\ lockupEnd' = [lockupEnd EXCEPT ![s] = 0]
    /\ requestedAt' = [requestedAt EXCEPT ![s] =
                          IF amount >= LargeThreshold THEN 0 ELSE @]
    /\ balance' = [balance EXCEPT ![s] = 0]
    /\ on_stake_change(s, 0)
    /\ rate' = record_action(s)
    /\ UNCHANGED <<clockVars, adminVars, lockedUntil, delegationVars, slashVars>>

(* Their effects: an elapsed lockup is cleared, a large withdrawal consumes *)
(* its request, the rest of the stake keeps its lock.                       *)
Leave(s, amount) ==
    /\ MayLeave(s, amount)
    /\ PayOut(s, amount)
    /\ lockupEnd' = [lockupEnd EXCEPT ![s] = 0]
    /\ requestedAt' = [requestedAt EXCEPT ![s] =
                          IF amount >= LargeThreshold THEN 0 ELSE @]
    /\ balance' = [balance EXCEPT ![s] = @ - amount]
    /\ on_stake_change(s, balance[s] - amount)
    /\ rate' = record_action(s)
    /\ UNCHANGED <<clockVars, adminVars, lockedUntil, delegationVars, slashVars>>

withdraw_stake(s) ==
    /\ ~paused
    /\ check_rate_limit(s)
    /\ Leave(s, balance[s])

(* Fault: the amount is not compared with the balance. *)
PartialUnstakeUnbounded(s, amount) ==
    /\ ~paused
    /\ check_rate_limit(s)
    /\ cfg.minStake > 0 => balance[s] - amount >= cfg.minStake
    /\ Leave(s, amount)

partial_unstake(s, amount) ==
    /\ ~paused
    /\ check_rate_limit(s)
    /\ amount < balance[s]
    /\ cfg.minStake > 0 => balance[s] - amount >= cfg.minStake
    /\ Leave(s, amount)

(* Clears an elapsed lockup; anyone may call it. *)
release_provider_lockup(p) ==
    /\ lockupEnd[p] # 0
    /\ LockupReleased(p)
    /\ lockupEnd' = [lockupEnd EXCEPT ![p] = 0]
    /\ UNCHANGED <<clockVars, adminVars, balance, lockedUntil, requestedAt, rate,
                   delegationVars, indexVars, slashVars, tokenVars>>

(* Records s's stake in the reward index as it is now; anyone may call it. *)
sync_index_stake(s) ==
    /\ on_stake_change(s, balance[s])
    /\ UNCHANGED <<clockVars, adminVars, stakeVars, delegationVars, slashVars,
                   tokenVars>>

-----------------------------------------------------------------------------
(* Slashing *)

(* Fault: the cooldown ends a ledger early. *)
SlashCooldownOffByOne(p) ==
    lastSlash[p] > 0 /\ now - (lastSlash[p] - 1) + 1 < cfg.slashCooldown

(* The cooldown check, with the ledger of the last slash stored plus one.  *)
SlashCooldownActive(p) ==
    lastSlash[p] > 0 /\ now - (lastSlash[p] - 1) < cfg.slashCooldown

(* Every delegation to p is slashed and rounded on its own. *)
DelegatorSlashes(p, bps) == [d \in Accounts |-> SlashOf(delegated[p][d], bps)]
(* Fault: the total is slashed instead of the delegations. *)
SlashOfTotal(p, bps) == SlashOf(totalDelegated[p], bps)

DelegatedSlashTotal(p, bps) == Total(DelegatorSlashes(p, bps), N)

(* do_slash takes the severity's share of the provider's own stake and of  *)
(* every delegation to it, records the slash, and holds the tokens while   *)
(* appeals are enabled or else burns them.  burns says whether the token   *)
(* contract's burn succeeds.  A failed burn returns before lock_provider.  *)
do_slash(p, severity, burns) ==
    LET bps == cfg.tiers[severity]
        ownSlash == SlashOf(balance[p], bps)
        dSlash == DelegatorSlashes(p, bps)
        delegatedSlashTotal == DelegatedSlashTotal(p, bps)
        taken == ownSlash + delegatedSlashTotal
        slashAmount == IF taken = 0 THEN 1 ELSE taken
        id == slashes + 1
        hold == cfg.appealWindow > 0
    IN  /\ slashes < MaxSlashes
        /\ ~SlashCooldownActive(p)
        /\ balance[p] # 0
        /\ balance' = [balance EXCEPT ![p] = @ - ownSlash]
        /\ delegated' = [delegated EXCEPT ![p] =
                            [d \in Accounts |-> delegated[p][d] - dSlash[d]]]
        /\ totalDelegated' =
              [totalDelegated EXCEPT ![p] = @ - delegatedSlashTotal]
        /\ slashes' = id
        /\ slash' = [slash EXCEPT ![id] =
                        [provider |-> p, amount |-> slashAmount, at |-> now]]
        /\ lastSlash' = [lastSlash EXCEPT ![p] = now + 1]
        /\ held' = [held EXCEPT ![id] = IF hold THEN slashAmount ELSE 0]
        /\ \/ hold /\ vault' = vault /\ stranded' = stranded
              /\ lockupEnd' = lock_provider(p)
           \/ ~hold /\ burns /\ vault >= slashAmount
              /\ vault' = vault - slashAmount /\ stranded' = stranded
              /\ lockupEnd' = lock_provider(p)
           \/ ~hold /\ ~burns /\ vault' = vault
              /\ stranded' = [stranded EXCEPT ![id] = slashAmount]
              /\ lockupEnd' = lockupEnd
        /\ UNCHANGED <<clockVars, adminVars, lockedUntil, requestedAt, rate,
                       indexVars, appeal, unbacked, wallet>>

(* slash_stake propagates a failed burn, which undoes the whole slash. *)
slash_stake(p, severity) == do_slash(p, severity, TRUE)

(* batch_slash_stake swallows a failed burn and keeps what was written. *)
batch_slash_stake(p, severity, burns) == do_slash(p, severity, burns)

(* Fault: a decided appeal can be filed again. *)
MayAppealAgain(appellant, id) ==
    /\ id <= slashes /\ slash[id].provider = appellant
    /\ cfg.appealWindow # 0 /\ now <= slash[id].at + cfg.appealWindow

(* The checks of appeal_slash.  The window is the one configured now, not  *)
(* at the time of the slash.                                               *)
MayAppeal(appellant, id) ==
    /\ id <= slashes /\ slash[id].provider = appellant
    /\ cfg.appealWindow # 0 /\ now <= slash[id].at + cfg.appealWindow
    /\ appeal[id] = "None"

appeal_slash(appellant, id) ==
    /\ MayAppeal(appellant, id)
    /\ appeal' = [appeal EXCEPT ![id] = "Pending"]
    /\ UNCHANGED <<clockVars, adminVars, stakeVars, delegationVars, indexVars,
                   lastSlash, slashes, slash, held, stranded, unbacked,
                   tokenVars>>

(* do_resolve_appeal, slash upheld: the held funds are burned.  If that     *)
(* fails inside a batch, the held entry is already gone and the appeal     *)
(* stays pending.                                                          *)
UpholdSlash(id, burns) ==
    /\ id <= slashes
    /\ appeal[id] = "Pending"
    /\ held' = [held EXCEPT ![id] = 0]
    /\ \/ /\ held[id] = 0 \/ burns
          /\ vault >= held[id]
          /\ vault' = vault - held[id]
          /\ appeal' = [appeal EXCEPT ![id] = "Upheld"]
          /\ stranded' = stranded
       \/ /\ held[id] > 0 /\ ~burns
          /\ stranded' = [stranded EXCEPT ![id] = @ + held[id]]
          /\ UNCHANGED <<vault, appeal>>
    /\ UNCHANGED <<clockVars, adminVars, stakeVars, delegationVars, indexVars,
                   lastSlash, slashes, slash, unbacked, wallet>>

(* Fault: the held entry is not removed. *)
ReverseKeepsHeld(id) ==
    /\ id <= slashes
    /\ appeal[id] = "Pending"
    /\ balance' = [balance EXCEPT ![slash[id].provider] = @ + slash[id].amount]
    /\ appeal' = [appeal EXCEPT ![id] = "Reversed"]
    /\ UNCHANGED <<clockVars, adminVars, lockedUntil, requestedAt, lockupEnd,
                   rate, delegationVars, indexVars, lastSlash, slashes, slash,
                   held, stranded, unbacked, tokenVars>>

(* do_resolve_appeal, slash reversed: the held funds, or the recorded      *)
(* amount when none are held, are credited to the provider's own stake.    *)
ReverseSlash(id) ==
    LET amountToRestore == IF held[id] > 0 THEN held[id] ELSE slash[id].amount
    IN  /\ id <= slashes
        /\ appeal[id] = "Pending"
        /\ balance' = [balance EXCEPT ![slash[id].provider] = @ + amountToRestore]
        /\ held' = [held EXCEPT ![id] = 0]
        /\ appeal' = [appeal EXCEPT ![id] = "Reversed"]
        /\ stranded' = [stranded EXCEPT ![id] =
                            IF held[id] > 0 THEN @ ELSE 0]
        /\ unbacked' = [unbacked EXCEPT ![id] =
                            IF held[id] > 0 THEN @
                            ELSE @ + amountToRestore - stranded[id]]
        /\ UNCHANGED <<clockVars, adminVars, lockedUntil, requestedAt, lockupEnd,
                       rate, delegationVars, indexVars, lastSlash, slashes,
                       slash, tokenVars>>

do_resolve_appeal(id, uphold, burns) ==
    \/ uphold /\ UpholdSlash(id, burns)
    \/ ~uphold /\ ReverseSlash(id)

resolve_appeal(id, uphold) ==
    /\ ~multisig
    /\ do_resolve_appeal(id, uphold, TRUE)

(* The batch is not routed through the multi-sig. *)
batch_resolve_appeal(id, uphold, burns) == do_resolve_appeal(id, uphold, burns)

-----------------------------------------------------------------------------
(* Administration *)

SetPaused(b) ==
    /\ paused' = b
    /\ UNCHANGED <<clockVars, multisig, cfg, stakeVars, delegationVars,
                   indexVars, slashVars, tokenVars>>

(* pause and unpause; apply_governance_pause bypasses the multi-sig. *)
pause == ~multisig /\ ~paused /\ SetPaused(TRUE)
unpause == ~multisig /\ paused /\ SetPaused(FALSE)
apply_governance_pause(b) == paused # b /\ SetPaused(b)

Set(settings) ==
    /\ cfg' = settings
    /\ UNCHANGED <<clockVars, paused, multisig, stakeVars, delegationVars,
                   indexVars, slashVars, tokenVars>>

PutMinimumStake(v) == Set([cfg EXCEPT !.minStake = v])
PutMinimumStakeDuration(v) == Set([cfg EXCEPT !.minDuration = v])
PutWithdrawalCooldown(v) ==
    /\ v <= MAX_WITHDRAWAL_COOLDOWN_SECS
    /\ Set([cfg EXCEPT !.withdrawalCooldown = v])
PutAppealWindow(v) ==
    /\ v <= MAX_APPEAL_WINDOW
    /\ Set([cfg EXCEPT !.appealWindow = v])
PutSlashTiers(t) == ValidTiers(t) /\ Set([cfg EXCEPT !.tiers = t])

set_minimum_stake(v) == ~multisig /\ PutMinimumStake(v)
set_minimum_stake_duration(v) == ~multisig /\ PutMinimumStakeDuration(v)
set_withdrawal_cooldown(v) == ~multisig /\ PutWithdrawalCooldown(v)
set_appeal_window(v) == ~multisig /\ PutAppealWindow(v)
configure_slash_tiers(t) == ~multisig /\ PutSlashTiers(t)
governance_configure_slash_tiers(t) == PutSlashTiers(t)
set_slash_cooldown(v) == Set([cfg EXCEPT !.slashCooldown = v])
set_default_provider_lockup(v) ==
    /\ ~multisig
    /\ v <= MAX_PROVIDER_LOCKUP_LEDGERS
    /\ Set([cfg EXCEPT !.lockup = v])

set_multisig_config(b) ==
    /\ multisig' = b
    /\ UNCHANGED <<clockVars, paused, cfg, stakeVars, delegationVars, indexVars,
                   slashVars, tokenVars>>

(* A ledger closes. *)
Tick ==
    /\ now < MaxTime
    /\ now' = now + 1
    /\ stakedNow' = {}
    /\ UNCHANGED <<adminVars, stakeVars, delegationVars, indexVars, slashVars,
                   tokenVars>>

-----------------------------------------------------------------------------
StakerNext ==
    \E s \in Accounts :
        \/ \E amount \in Amounts :
            \/ deposit_stake(s, amount)
            \/ partial_unstake(s, amount)
            \/ \E p \in Accounts : delegate_stake(s, p, amount)
        \/ request_withdrawal(s)
        \/ withdraw_stake(s)
        \/ release_provider_lockup(s)
        \/ sync_index_stake(s)

SlashNext ==
    \/ \E p \in Accounts, severity \in Severities :
        \/ slash_stake(p, severity)
        \/ \E burns \in BOOLEAN : batch_slash_stake(p, severity, burns)
    \/ \E id \in SlashIds :
        \/ \E appellant \in Accounts : appeal_slash(appellant, id)
        \/ \E uphold \in BOOLEAN :
            \/ resolve_appeal(id, uphold)
            \/ \E burns \in BOOLEAN : batch_resolve_appeal(id, uphold, burns)

AdminNext ==
    \/ pause
    \/ unpause
    \/ \E b \in BOOLEAN : apply_governance_pause(b)
    \/ \E v \in MinStakes : set_minimum_stake(v)
    \/ \E v \in MinDurations : set_minimum_stake_duration(v)
    \/ \E v \in WithdrawalCooldowns : set_withdrawal_cooldown(v)
    \/ \E v \in SlashCooldowns : set_slash_cooldown(v)
    \/ \E v \in Lockups : set_default_provider_lockup(v)
    \/ \E v \in AppealWindows : set_appeal_window(v)
    \/ \E t \in SlashTiers :
        configure_slash_tiers(t) \/ governance_configure_slash_tiers(t)

VaultNext == StakerNext \/ SlashNext \/ AdminNext \/ Tick

Next == VaultNext \/ \E b \in MultisigChoices : set_multisig_config(b)

Spec == Init /\ [][Next]_vars
-----------------------------------------------------------------------------
(* Properties *)

(* What the vault owes: own stakes, delegated stakes and held slashes. *)
Liabilities ==
    Total(balance, N) + Total(totalDelegated, N) + Total(held, MaxSlashes)

(* The vault's custody accounts for every token: whatever deposits,        *)
(* delegations, withdrawals, slashes and appeals did, the tokens in the    *)
(* vault are exactly what its tables owe, plus slashed tokens a failed     *)
(* burn left behind, minus stake restored after its tokens were burned.    *)
CustodyExact ==
    vault + Total(unbacked, MaxSlashes) =
        Liabilities + Total(stranded, MaxSlashes)

(* The vault can always pay everyone: its tokens cover every own stake,    *)
(* every delegation and every held slash at once.  Holds of a vault whose  *)
(* appeal window is never 0.                                               *)
Solvency == vault >= Liabilities

(* The per-provider total kept by delegate_stake and do_slash is the sum   *)
(* of the delegations it summarises, although each slash rounds every      *)
(* delegation on its own.                                                  *)
DelegationLedger ==
    \A p \in Accounts : totalDelegated[p] = Total(delegated[p], N)

(* The participating total that funds are divided by is the sum of the     *)
(* recorded participating stakes, so on_stake_change never underflows      *)
(* after the token transfer it follows.                                    *)
ParticipationTotal == totalStake = Total(userStake, N)

(* A slash that is neither upheld nor reversed can still go either way:    *)
(* its whole amount is in custody, set aside from every stake.  A decided  *)
(* one holds nothing.  ("This puts the slash in a disputed state that      *)
(* blocks final fund disposition.")  Holds of a vault whose appeal window  *)
(* is never 0.                                                             *)
SlashDisposition ==
    \A id \in SlashIds :
        /\ id > slashes => held[id] = 0 /\ stranded[id] = 0 /\ appeal[id] = "None"
        /\ (id <= slashes /\ appeal[id] \in {"None", "Pending"}) =>
               held[id] + stranded[id] = slash[id].amount
        /\ appeal[id] \in {"Upheld", "Reversed"} => held[id] = 0

(* Stake is restored only from tokens that are still there: a slash whose  *)
(* tokens were burned is never also credited back.  do_resolve_appeal      *)
(* relies on it: "Reversed -- tokens are still in the vault".              *)
BurnedNeverRestored == \A id \in SlashIds : unbacked[id] = 0

(* Two slashes of one provider are at least a configured cooldown apart,   *)
(* whichever of slash_stake and batch_slash_stake made them.               *)
SlashesSpaced ==
    \A i, j \in 1..slashes :
        (i < j /\ slash[i].provider = slash[j].provider) =>
            \E c \in SlashCooldowns : slash[j].at - slash[i].at >= c

(* A lockup is only ever extended, or cleared once it has elapsed: no      *)
(* later slash under a shorter default lets a provider out earlier.        *)
LockupNeverShortened ==
    \A p \in Accounts :
        lockupEnd'[p] < lockupEnd[p] => now > lockupEnd[p]

(* A slashed provider takes no tokens out of the vault until the lockup    *)
(* the slash set has passed, by any path, the emergency exit included      *)
(* ("lock the provider's stake so it cannot be withdrawn ... to dodge this *)
(* slash's consequences").                                                 *)
SlashedProviderStaysIn ==
    \A a \in Accounts : wallet'[a] > wallet[a] =>
        \A id \in 1..slashes : slash[id].provider = a =>
            \E l \in Lockups : l = 0 \/ now > slash[id].at + l
=============================================================================
