---------------------------- MODULE RewardIndex ----------------------------
(***************************************************************************)
(* stake_vault's index rewards (reward_index.rs, withdrawal_claims.rs):    *)
(* funding raises a global index per unit of participating stake, stakers  *)
(* are credited from the index they last saw, and a payout whose transfer  *)
(* fails becomes a queued claim that is retried or cancelled.              *)
(*                                                                         *)
(* One reward asset: assets share nothing but the participating stakes.    *)
(* A stake change reports any new stake, since sync_index_stake lets any   *)
(* balance the vault reached be reported at any time.  Overflow of i128 is *)
(* an error in the code, hence no step.                                    *)
(***************************************************************************)
EXTENDS Totals

CONSTANTS
    N,             \* stakers are 1..N
    Scale,         \* INDEX_SCALE
    Stakes,        \* participating stakes a staker may have
    Amounts,       \* amounts a funder passes
    MaxFunded,     \* bound on the rewards funded in all
    MaxClaims,     \* bound on the claims one staker queues
    ClaimTtl,      \* DEFAULT_CLAIM_TTL_SECS
    MaxTime        \* bound on the clock

ASSUME IndexTyped ==
    /\ N \in Nat /\ MaxFunded \in Nat /\ MaxClaims \in Nat
    /\ ClaimTtl \in Nat /\ MaxTime \in Nat
    /\ Scale \in Nat \ {0}
    /\ Stakes \subseteq Nat /\ Amounts \subseteq Nat \ {0}

Stakers == 1..N
Nonces == 1..MaxClaims    \* the code's nonces, plus 1
Absent == -1

VARIABLES
    now,          \* the ledger clock
    listed,       \* whether the asset is in Assets
    userStake,    \* UserStake
    totalStake,   \* TotalStake
    index,        \* Index
    dust,         \* Dust, in 1/Scale units
    userIndex,    \* UserIndex, or Absent
    accrued,      \* Accrued
    claims,       \* NextNonce: how many claims each staker has queued
    claim,        \* QueuedClaim
    custody,      \* reward tokens in the vault
    funded,       \* history: rewards ever funded
    received      \* history: rewards each staker was paid

stakeVars == <<userStake, totalStake>>
indexVars == <<listed, index, dust>>
claimVars == <<claims, claim>>
tokenVars == <<custody, funded, received>>
vars == <<now, stakeVars, indexVars, userIndex, accrued, claimVars, tokenVars>>

NoClaim == [amount |-> 0, expiresAt |-> 0, status |-> "None"]
ClaimStatuses == {"None", "Pending", "Claimed", "Cancelled"}

TypeOK ==
    /\ now \in Nat
    /\ listed \in BOOLEAN
    /\ userStake \in [Stakers -> Nat]
    /\ totalStake \in Nat
    /\ index \in Nat
    /\ dust \in Nat
    /\ userIndex \in [Stakers -> Nat \cup {Absent}]
    /\ accrued \in [Stakers -> Nat]
    /\ claims \in [Stakers -> 0..MaxClaims]
    /\ claim \in [Stakers -> [Nonces -> [amount : Nat, expiresAt : Nat,
                                         status : ClaimStatuses]]]
    /\ custody \in Nat
    /\ funded \in Nat
    /\ received \in [Stakers -> Nat]

Init ==
    /\ now = 0
    /\ listed = FALSE
    /\ userStake = [a \in Stakers |-> 0]
    /\ totalStake = 0
    /\ index = 0
    /\ dust = 0
    /\ userIndex = [a \in Stakers |-> Absent]
    /\ accrued = [a \in Stakers |-> 0]
    /\ claims = [a \in Stakers |-> 0]
    /\ claim = [a \in Stakers |-> [n \in Nonces |-> NoClaim]]
    /\ custody = 0
    /\ funded = 0
    /\ received = [a \in Stakers |-> 0]

-----------------------------------------------------------------------------
(* The index a was last credited at; a staker without one starts here. *)
Snapshot(a) == IF userIndex[a] = Absent THEN index ELSE userIndex[a]

(* What the next checkpoint credits to a. *)
Earned(a) == (userStake[a] * (index - Snapshot(a))) \div Scale

(* a's snapshot, given its participating stake. *)
Resnap(a, stake) ==
    IF listed
    THEN [userIndex EXCEPT ![a] = IF stake > 0 THEN index ELSE Absent]
    ELSE userIndex

(* Fault: the new stake takes effect without crediting the old one. *)
StakeChangeUncredited(a, stake) ==
    /\ totalStake - userStake[a] + stake >= 0
    /\ totalStake' = totalStake - userStake[a] + stake
    /\ userStake' = [userStake EXCEPT ![a] = stake]
    /\ userIndex' = Resnap(a, stake)
    /\ UNCHANGED <<now, indexVars, accrued, claimVars, tokenVars>>

(* checkpoint, then record the new participating stake. *)
on_stake_change(a, stake) ==
    /\ totalStake - userStake[a] + stake >= 0
    /\ accrued' = [accrued EXCEPT ![a] = @ + Earned(a)]
    /\ totalStake' = totalStake - userStake[a] + stake
    /\ userStake' = [userStake EXCEPT ![a] = stake]
    /\ userIndex' = Resnap(a, stake)
    /\ UNCHANGED <<now, indexVars, claimVars, tokenVars>>

add_index_reward_asset ==
    /\ ~listed
    /\ listed' = TRUE
    /\ UNCHANGED <<now, stakeVars, index, dust, userIndex, accrued, claimVars,
                   tokenVars>>

(* Fault: the increment is rounded up and the dust goes negative. *)
NotifyOwesDust(amount) ==
    LET num == amount * Scale + dust
        inc == (num + totalStake - 1) \div totalStake
    IN  /\ listed /\ totalStake > 0
        /\ index' = index + inc
        /\ dust' = num - inc * totalStake
(* Fault: the increment is rounded up although the remainder is kept. *)
NotifyRoundsUp(amount) ==
    LET num == amount * Scale + dust
    IN  /\ listed /\ totalStake > 0
        /\ index' = index + (num + totalStake - 1) \div totalStake
        /\ dust' = num % totalStake

(* The increment rounds down and the remainder is carried in dust. *)
notify_reward(amount) ==
    LET num == amount * Scale + dust
    IN  /\ listed /\ totalStake > 0
        /\ index' = index + num \div totalStake
        /\ dust' = num % totalStake

fund_index_rewards(amount) ==
    /\ funded + amount <= MaxFunded
    /\ notify_reward(amount)
    /\ custody' = custody + amount
    /\ funded' = funded + amount
    /\ UNCHANGED <<now, stakeVars, listed, userIndex, accrued, claimVars, received>>

(* Reward tokens leave the vault. *)
Pay(a, amount) ==
    /\ custody >= amount
    /\ custody' = custody - amount
    /\ received' = [received EXCEPT ![a] = @ + amount]
    /\ UNCHANGED funded

(* pay_or_queue, when the transfer fails. *)
Queue(a, amount) ==
    /\ claims[a] < MaxClaims
    /\ claims' = [claims EXCEPT ![a] = @ + 1]
    /\ claim' = [claim EXCEPT ![a][claims[a] + 1] =
                    [amount |-> amount, expiresAt |-> now + ClaimTtl,
                     status |-> "Pending"]]

(* take_accrued, then pay_or_queue.  pays says whether the transfer works. *)
claim_index_rewards(a, pays) ==
    LET amount == accrued[a] + Earned(a)
    IN  /\ amount > 0
        /\ accrued' = [accrued EXCEPT ![a] = 0]
        /\ userIndex' = Resnap(a, userStake[a])
        /\ \/ pays /\ Pay(a, amount) /\ UNCHANGED claimVars
           \/ ~pays /\ Queue(a, amount) /\ UNCHANGED tokenVars
        /\ UNCHANGED <<now, stakeVars, indexVars>>

(* A retry: a claim is paid before it expires, and only once. *)
claim_queued_withdrawal(a, n) ==
    /\ claim[a][n].status = "Pending"
    /\ now < claim[a][n].expiresAt
    /\ claim' = [claim EXCEPT ![a][n].status = "Claimed"]
    /\ Pay(a, claim[a][n].amount)
    /\ UNCHANGED <<now, stakeVars, indexVars, userIndex, accrued, claims>>

(* Fault: a cancelled claim can still be claimed. *)
CancelKeepsPending(a, n) ==
    /\ claim[a][n].status = "Pending"
    /\ accrued' = [accrued EXCEPT ![a] = @ + claim[a][n].amount]
    /\ UNCHANGED <<now, stakeVars, indexVars, userIndex, claimVars, tokenVars>>

(* An expired claim can be cancelled too; the amount is credited again. *)
cancel_queued_withdrawal(a, n) ==
    /\ claim[a][n].status = "Pending"
    /\ claim' = [claim EXCEPT ![a][n].status = "Cancelled"]
    /\ accrued' = [accrued EXCEPT ![a] = @ + claim[a][n].amount]
    /\ UNCHANGED <<now, stakeVars, indexVars, userIndex, claims, tokenVars>>

Tick ==
    /\ now < MaxTime
    /\ now' = now + 1
    /\ UNCHANGED <<stakeVars, indexVars, userIndex, accrued, claimVars, tokenVars>>

Next ==
    \/ add_index_reward_asset
    \/ \E amount \in Amounts : fund_index_rewards(amount)
    \/ \E a \in Stakers :
        \/ \E stake \in Stakes : on_stake_change(a, stake)
        \/ \E pays \in BOOLEAN : claim_index_rewards(a, pays)
        \/ \E n \in Nonces :
            claim_queued_withdrawal(a, n) \/ cancel_queued_withdrawal(a, n)
    \/ Tick

Spec == Init /\ [][Next]_vars
-----------------------------------------------------------------------------
(* Properties *)

PendingOf(a) ==
    Total([n \in Nonces |-> IF claim[a][n].status = "Pending"
                            THEN claim[a][n].amount ELSE 0], MaxClaims)

(* What a could claim or cancel back now. *)
Entitled(a) == accrued[a] + Earned(a) + PendingOf(a)

(* No reward is promised twice: whatever the order of fundings, stake      *)
(* changes, claims, retries and cancellations, everyone could be paid at   *)
(* once from the tokens in custody.                                        *)
EveryoneCanClaim == Total([a \in Stakers |-> Entitled(a)], N) <= custody

(* The scaled books behind it: credited and queued rewards, the index      *)
(* growth not yet credited to its stake, and the dust.                     *)
Uncredited(a) == userStake[a] * (index - Snapshot(a))
Conservation ==
    Scale * Total([a \in Stakers |-> accrued[a] + PendingOf(a)], N)
      + Total([a \in Stakers |-> Uncredited(a)], N) + dust
        <= Scale * custody

(* Only funding earns: no stake change, claim, retry or cancellation of    *)
(* anyone adds to or takes from what a staker was paid or may still get.   *)
OnlyFundingEarns ==
    [][funded' = funded =>
          \A a \in Stakers :
              received'[a] + Entitled(a)' = received[a] + Entitled(a)]_vars
=============================================================================
