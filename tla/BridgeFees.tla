------------------------------ MODULE BridgeFees ------------------------------
(***************************************************************************)
(* bridge: fees of one bridge (fees.rs).  Fees of the transfers are added  *)
(* up; the validators' and the treasury's shares of the total are paid on  *)
(* demand, less what was paid before; failed transfers get theirs back.    *)
(***************************************************************************)
EXTENDS Integers, FiniteSets, FiniteSetsExt

CONSTANTS Transfers, Amounts, Validators,
          BaseBps, MinFee, MaxFee,
          Shares,                \* choices for validator_reward_pct and treasury_pct, in bps
          MaxCapacity,           \* get_bridge_max_capacity
          MaxOwed, MaxCollects, MaxAdjusts   \* bounds

FeesTyped ==
    /\ Amounts \subseteq Nat \ {0} /\ Shares \subseteq 0..10000
    /\ {BaseBps, MinFee, MaxFee, MaxCapacity, MaxOwed, MaxCollects, MaxAdjusts} \subseteq Nat

VARIABLES
    bps, vshare, tshare,   \* BridgeFeeConfig
    stats,                 \* BridgeFeeStats: collected, validators, treasury, count
    daily,                 \* DailyTransfers
    transfer,              \* of each id: "none", "open" or "Failed", the fee it paid
    received,              \* history: what the validators were sent one by one
    peak, adjusts          \* history: the most ever collected; the adjustments made

vars == <<bps, vshare, tshare, stats, daily, transfer, received, peak, adjusts>>

TypeOK ==
    /\ bps \in Nat /\ {vshare, tshare} \subseteq Shares
    /\ stats \in [collected : Int, validators : Nat, treasury : Nat, count : Nat]
    /\ daily \in Nat /\ received \in Nat /\ peak \in Nat /\ adjusts \in 0..MaxAdjusts
    /\ transfer \in [Transfers -> [status : {"none", "open", "Failed"}, fee : Nat]]

Init ==
    /\ bps = BaseBps /\ vshare \in Shares /\ tshare \in Shares /\ vshare + tshare <= 10000
    /\ stats = [collected |-> 0, validators |-> 0, treasury |-> 0, count |-> 0]
    /\ daily = 0 /\ received = 0 /\ peak = 0 /\ adjusts = 0
    /\ transfer = [i \in Transfers |-> [status |-> "none", fee |-> 0]]

calculate_bridge_fee(amount) == Max({MinFee, Min({MaxFee, (amount * bps) \div 10000})})
(* The caller of monitoring.rs records with a transfer the fee that        *)
(* calculate_bridge_fee names; an id used again starts over.               *)
RecordTransfer(i, amount) ==
    /\ transfer' = [transfer EXCEPT ![i] =
                       [status |-> "open", fee |-> calculate_bridge_fee(amount)]]
    /\ UNCHANGED <<bps, vshare, tshare, stats, daily, received, peak, adjusts>>
(* The fee is counted each time it is collected, for any amount: that it   *)
(* is once for a transfer is left to the caller.                           *)
collect_bridge_fee(i, amount) ==
    LET fee == calculate_bridge_fee(amount)
    IN /\ transfer[i].status # "none"
       /\ stats.count < MaxCollects
       /\ stats' = [stats EXCEPT !.collected = @ + fee, !.count = @ + 1]
       /\ peak' = Max({peak, stats.collected + fee})
       /\ daily' = daily + 1
       /\ UNCHANGED <<bps, vshare, tshare, transfer, received, adjusts>>
MarkFailed(i) ==
    /\ transfer[i].status = "open"
    /\ transfer' = [transfer EXCEPT ![i].status = "Failed"]
    /\ UNCHANGED <<bps, vshare, tshare, stats, daily, received, peak, adjusts>>

Due(share, paid) == (stats.collected * share) \div 10000 - paid
PaysTotalShare ==
    LET due == (stats.collected * vshare) \div 10000
    IN /\ due > 0
       /\ stats' = [stats EXCEPT !.validators = @ + due]
       /\ received' = received + (due \div Cardinality(Validators)) * Cardinality(Validators)
       /\ UNCHANGED <<bps, vshare, tshare, daily, transfer, peak, adjusts>>
(* Each validator is sent an equal part; all that is due counts as paid.   *)
distribute_validator_rewards ==
    LET due == Due(vshare, stats.validators)
    IN /\ due > 0
       /\ stats' = [stats EXCEPT !.validators = @ + due]
       /\ received' = received + (due \div Cardinality(Validators)) * Cardinality(Validators)
       /\ UNCHANGED <<bps, vshare, tshare, daily, transfer, peak, adjusts>>
allocate_to_treasury ==
    LET due == Due(tshare, stats.treasury)
    IN /\ due > 0
       /\ stats' = [stats EXCEPT !.treasury = @ + due]
       /\ UNCHANGED <<bps, vshare, tshare, daily, transfer, received, peak, adjusts>>
(* The fee goes off the total; the transfer is left as it is. *)
refund_bridge_fee(i) ==
    /\ transfer[i].status = "Failed"
    /\ stats.collected - transfer[i].fee >= -MaxOwed
    /\ stats' = [stats EXCEPT !.collected = @ - transfer[i].fee]
    /\ UNCHANGED <<bps, vshare, tshare, daily, transfer, received, peak, adjusts>>

calculate_bridge_utilization == Min({(daily * 10000) \div MaxCapacity, 10000})
UnboundedStep ==
    /\ adjusts < MaxAdjusts /\ adjusts' = adjusts + 1
    /\ bps' = CASE calculate_bridge_utilization <= 3000 -> Max({0, bps - 5})
                [] calculate_bridge_utilization >= 7000 -> bps + 5
                [] OTHER -> bps
    /\ UNCHANGED <<vshare, tshare, stats, daily, transfer, received, peak>>
adjust_bridge_fees_dynamically ==
    /\ adjusts < MaxAdjusts /\ adjusts' = adjusts + 1
    /\ bps' = CASE calculate_bridge_utilization <= 3000 -> Max({10, bps - 5})
                [] calculate_bridge_utilization >= 7000 -> Min({100, bps + 5})
                [] OTHER -> bps
    /\ UNCHANGED <<vshare, tshare, stats, daily, transfer, received, peak>>

ShareOut == distribute_validator_rewards \/ allocate_to_treasury

Next ==
    \/ \E i \in Transfers :
         \/ \E a \in Amounts : RecordTransfer(i, a) \/ collect_bridge_fee(i, a)
         \/ MarkFailed(i) \/ refund_bridge_fee(i)
    \/ ShareOut \/ adjust_bridge_fees_dynamically
Spec == Init /\ [][Next]_vars

-----------------------------------------------------------------------------
(* distribute_validator_rewards and allocate_to_treasury pay a share of    *)
(* each fee once, however often they are called between fees and refunds:  *)
(* together they never pay more than was collected at the highest, and the *)
(* validators never receive more than is recorded as paid to them.         *)
SharesPaidOnce ==
    /\ stats.validators + stats.treasury <= peak
    /\ received <= stats.validators

(* adjust_bridge_fees_dynamically keeps a fee that starts within 10 and    *)
(* 100 basis points there, and no fee leaves the configured bounds.        *)
FeeInBand ==
    /\ BaseBps \in 10..100 => bps \in 10..100
    /\ \A i \in Transfers : transfer[i].status # "none" => transfer[i].fee \in MinFee..MaxFee
=============================================================================
