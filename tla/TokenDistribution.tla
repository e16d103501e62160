-------------------------- MODULE TokenDistribution --------------------------
(***************************************************************************)
(* governance: the token's distribution (distribution.rs, token.rs).  Part *)
(* of the supply is paid out at once, part vests, part is mined: rewards   *)
(* are reserved as they accrue and paid when they are claimed.  The admin  *)
(* may add vesting schedules of his own.  Time is in years.                *)
(***************************************************************************)
EXTENDS Integers, FiniteSets, FiniteSetsExt

CONSTANTS Supply,                  \* total_supply, a multiple of 20
          Users,                   \* holders beside the recipients
          Amounts,                 \* staked, unstaked and mined amounts
          Thresholds,              \* values of min_claim_threshold
          CustomTotal, CustomCliff, CustomDuration,
          MaxTime                  \* bound

DistributionTyped ==
    /\ Supply \in Nat /\ Supply % 20 = 0
    /\ Amounts \cup Thresholds \cup {CustomTotal, CustomCliff, CustomDuration} \subseteq Nat \ {0}
    /\ CustomCliff <= CustomDuration /\ MaxTime \in Nat

Recipients == {"team", "early_investors", "community_rewards", "treasury", "public_sale"}
Holders == Recipients \cup Users

VARIABLES
    now,
    balance, staked, locked,       \* per holder; locked: set_vote_lock
    schedules,                     \* VestingSchedule per beneficiary, or NoSchedule
    reserved, claimed, threshold,  \* of DistributionState
    pending                        \* PendingRewards

vars == <<now, balance, staked, locked, schedules, reserved, claimed, threshold, pending>>

NoSchedule == [absent |-> TRUE]
VestingSchedule == [total : Nat, released : Nat, start : Nat, cliff : Nat, duration : Nat,
                    custom : BOOLEAN]
TypeOK ==
    /\ now \in 0..MaxTime
    /\ balance \in [Holders -> Nat] /\ staked \in [Holders -> Nat]
    /\ locked \in [Holders -> BOOLEAN] /\ pending \in [Holders -> Nat]
    /\ schedules \in [Holders -> VestingSchedule \cup {NoSchedule}]
    /\ {reserved, claimed} \subseteq Nat /\ threshold \in Thresholds

(* In twentieths of the supply: team 4, early investors 3, community 6,    *)
(* liquidity mining 4, treasury 2, public sale 1.                          *)
create_allocation(part) == (Supply \div 20) * part
LiquidityMining == create_allocation(4)
Schedule(total, cliff, duration, custom) ==
    [total |-> total, released |-> 0, start |-> now, cliff |-> cliff,
     duration |-> duration, custom |-> custom]
initialize_distribution ==
    /\ balance = [h \in Holders |-> CASE h = "community_rewards" -> create_allocation(6)
                                      [] h = "treasury" -> create_allocation(2)
                                      [] h = "public_sale" -> create_allocation(1)
                                      [] OTHER -> 0]
    /\ schedules = [h \in Holders |->
                      CASE h = "team" -> Schedule(create_allocation(4), 1, 4, FALSE)
                        [] h = "early_investors" -> Schedule(create_allocation(3), 0, 2, FALSE)
                        [] OTHER -> NoSchedule]
    /\ reserved = 0 /\ claimed = 0
Init ==
    /\ now = 0 /\ initialize_distribution
    /\ staked = [h \in Holders |-> 0] /\ locked = [h \in Holders |-> FALSE]
    /\ pending = [h \in Holders |-> 0] /\ threshold \in Thresholds

Tick == now < MaxTime /\ now' = now + 1
        /\ UNCHANGED <<balance, staked, locked, schedules, reserved, claimed, threshold, pending>>

stake(h, a) ==
    /\ balance[h] >= a
    /\ balance' = [balance EXCEPT ![h] = @ - a] /\ staked' = [staked EXCEPT ![h] = @ + a]
    /\ UNCHANGED <<now, locked, schedules, reserved, claimed, threshold, pending>>
unstake(h, a) ==
    /\ ~locked[h]
    /\ staked[h] >= a
    /\ staked' = [staked EXCEPT ![h] = @ - a] /\ balance' = [balance EXCEPT ![h] = @ + a]
    /\ UNCHANGED <<now, locked, schedules, reserved, claimed, threshold, pending>>
set_vote_lock(h, on) ==
    /\ locked' = [locked EXCEPT ![h] = on]
    /\ UNCHANGED <<now, balance, staked, schedules, reserved, claimed, threshold, pending>>

create_vesting_schedule(h) ==
    /\ schedules[h] = NoSchedule
    /\ schedules' = [schedules EXCEPT ![h] = Schedule(CustomTotal, CustomCliff, CustomDuration, TRUE)]
    /\ UNCHANGED <<now, balance, staked, locked, reserved, claimed, threshold, pending>>
(* Vested after the cliff in proportion to the time since the cliff. *)
ReleasableFromStart(s) ==
    IF now < s.start + s.cliff THEN 0
    ELSE (IF now >= s.start + s.duration \/ s.duration = s.cliff THEN s.total
          ELSE (s.total * (now - s.start)) \div s.duration) - s.released
releasable_amount(s) ==
    IF now < s.start + s.cliff THEN 0
    ELSE (IF now >= s.start + s.duration \/ s.duration = s.cliff THEN s.total
          ELSE (s.total * (now - (s.start + s.cliff))) \div (s.duration - s.cliff)) - s.released
release_vested_tokens(h) ==
    /\ schedules[h] # NoSchedule
    /\ releasable_amount(schedules[h]) > 0
    /\ schedules' = [schedules EXCEPT ![h].released = @ + releasable_amount(schedules[h])]
    /\ balance' = [balance EXCEPT ![h] = @ + releasable_amount(schedules[h])]
    /\ UNCHANGED <<now, staked, locked, reserved, claimed, threshold, pending>>

reserve_liquidity_rewards(a) ==
    /\ claimed + reserved + a <= LiquidityMining
    /\ reserved' = reserved + a
accrue_liquidity_rewards(h, reward) ==
    /\ reserve_liquidity_rewards(reward)
    /\ pending' = [pending EXCEPT ![h] = @ + reward]
    /\ UNCHANGED <<now, balance, staked, locked, schedules, claimed, threshold>>
ClaimThreshold(a) == reserved' = reserved - threshold /\ claimed' = claimed + a
claim_reserved_liquidity_rewards(a) == reserved' = reserved - a /\ claimed' = claimed + a
ClaimKeepsReserve(h) ==
    /\ pending[h] > 0 /\ pending[h] >= threshold
    /\ pending' = [pending EXCEPT ![h] = 0]
    /\ balance' = [balance EXCEPT ![h] = @ + pending[h]]
    /\ UNCHANGED <<now, staked, locked, schedules, reserved, claimed, threshold>>
claim_liquidity_rewards(h) ==
    /\ pending[h] > 0 /\ pending[h] >= threshold
    /\ pending' = [pending EXCEPT ![h] = 0]
    /\ claim_reserved_liquidity_rewards(pending[h])
    /\ balance' = [balance EXCEPT ![h] = @ + pending[h]]
    /\ UNCHANGED <<now, staked, locked, schedules, threshold>>
update_reward_config(t) ==
    threshold' = t /\ UNCHANGED <<now, balance, staked, locked, schedules, reserved, claimed, pending>>

(* What analytics reports: the supply less what vests and what is unmined. *)
locked_vesting_supply ==
    MapThenSumSet(LAMBDA h : schedules[h].total - schedules[h].released,
                  {h \in Holders : schedules[h] # NoSchedule})
circulating_supply == (Supply - locked_vesting_supply) - (LiquidityMining - claimed)

Stakers == Users \cup {"public_sale"}
TokenCalls ==
    \/ \E h \in Stakers, a \in Amounts : stake(h, a) \/ unstake(h, a)
    \/ \E h \in Stakers, b \in BOOLEAN : set_vote_lock(h, b)
    \/ \E h \in Users, a \in Amounts : accrue_liquidity_rewards(h, a)
    \/ \E h \in Holders : claim_liquidity_rewards(h)
VestingCalls ==
    \/ \E h \in Holders : release_vested_tokens(h)
    \/ \E h \in Users : create_vesting_schedule(h)
Next == Tick \/ TokenCalls \/ VestingCalls \/ \E t \in Thresholds : update_reward_config(t)

Spec == Init /\ [][Next]_vars

-----------------------------------------------------------------------------
(* What circulates by the contract's own account is what the holders hold, *)
(* free and staked, less the schedules the admin added: tokens leave the   *)
(* vesting and mining allocations only into balances.  (A schedule of the  *)
(* admin's is backed by nothing and is released on top of the supply.)     *)
CirculatingAccounted ==
    MapThenSumSet(LAMBDA h : balance[h] + staked[h], Holders)
        = circulating_supply
          + MapThenSumSet(LAMBDA h : schedules[h].total,
                          {h \in Holders : schedules[h] # NoSchedule /\ schedules[h].custom})

(* Mining rewards are promised once: the reserve is what holders have      *)
(* pending, and claims and reserve together never exceed the allocation,   *)
(* through changes of the claim threshold.                                 *)
ReserveMatchesPending ==
    /\ reserved = MapThenSumSet(LAMBDA h : pending[h], Holders)
    /\ reserved + claimed <= LiquidityMining

(* Nothing vests before its cliff, and after it never faster than in       *)
(* proportion to the time since the cliff.                                 *)
NeverAheadOfVesting ==
    \A h \in Holders :
      LET s == schedules[h]
      IN s # NoSchedule =>
           /\ s.released <= s.total
           /\ now < s.start + s.duration =>
                s.released * (s.duration - s.cliff) <= s.total * Max({0, now - s.start - s.cliff})
=============================================================================
