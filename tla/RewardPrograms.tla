--------------------------- MODULE RewardPrograms ---------------------------
(***************************************************************************)
(* stake_vault: the reward programs beside the reward index.  They share   *)
(* no state, and each has a next-state relation of its own:                *)
(*   - campaigns (reward_campaign.rs): a funded budget allocated to        *)
(*     recipients by weight, claimed, expired, vested, and closed;         *)
(*   - fee accrual (fee_accrual.rs) and the dust ledger (reward_dust.rs):  *)
(*     a fee accumulator per share with carried remainders;                *)
(*   - buckets (reward_vault.rs) and the migration of V1 stakes            *)
(*     (migration.rs).                                                     *)
(* fund_campaign, activate_campaign and cancel_campaign are called but not *)
(* defined in this tree: they are modelled from their callers and docs.    *)
(* AmountGrid of several records are totals of tables indexed from 1 (Totals).*)
(* The theorems at the end prove that every program is backed, by one      *)
(* invariant for each program.                                             *)
(***************************************************************************)
EXTENDS Integers, Sequences, FiniteSets, FiniteSetTheorems, Totals

CONSTANTS
    NumCampaigns, NumRecipients,   \* recipients in address order
    Budget, Deposits, Weights, ClaimWindow, CliffSecs, VestSecs,
    NumStakers, Precision, ShareAmounts, FeeAmounts, Scaled,
    NumProviders, BucketAmounts, V1Stake, BatchSizes,
    MaxTime, MaxDistributions, MaxShares, MaxFees, MaxDust, MaxBuckets, MaxRuns  \* bounds

ASSUME ProgramsTyped ==
    /\ {NumCampaigns, NumRecipients, NumStakers, NumProviders} \subseteq Nat
    /\ Budget \in Nat /\ Deposits \subseteq Nat \ {0} /\ Weights \subseteq Nat \ {0}
    /\ {ClaimWindow, CliffSecs, VestSecs, V1Stake, Precision} \subseteq Nat \ {0}
    /\ {ShareAmounts, FeeAmounts, BucketAmounts, Scaled} \subseteq SUBSET (Nat \ {0})
    /\ BatchSizes \subseteq Nat
    /\ {MaxTime, MaxDistributions, MaxShares, MaxFees, MaxDust, MaxBuckets, MaxRuns} \subseteq Nat

Campaigns == 1..NumCampaigns
Recipients == 1..NumRecipients
Distributions == 1..MaxDistributions
Stakers == 1..NumStakers
Providers == 1..NumProviders

VARIABLES
    now,
    campaign,      \* RewardCampaign; distributions counts its distributions
    alloc,         \* CampaignAllocation, by campaign, distribution and recipient
    vesting,       \* VestingAllocation, total 0 when absent: one for each campaign
    pot,           \* reward tokens the vault holds for campaigns
    state,         \* FeeAccrualState
    position,      \* StakerFeePosition
    paid,          \* history: fees claimed
    dust,          \* DustTotals of one asset
    bucket,        \* RewardBucket with Claimed
    owed,          \* ProviderAssetBalance
    bucketPot,     \* tokens held for buckets
    migrated,      \* MigrationState.migrated and complete, runs made
    v2,            \* StakesV2
    sinceV2        \* history: stake added to an entry after its migration

campaignVars == <<now, campaign, alloc, vesting, pot>>
feeVars == <<state, position, paid>>
bucketVars == <<bucket, owed, bucketPot>>
migrationVars == <<migrated, v2, sinceV2>>
programsVars == <<campaignVars, feeVars, dust, bucketVars, migrationVars>>

NoCampaign == [status |-> "None", budget |-> 0, allocated |-> 0, claimed |-> 0, expired |-> 0,
               pending |-> 0, distributions |-> 0, funded |-> 0, epoch |-> 0]
NoAllocation == [amount |-> 0, status |-> "None", expires |-> 0, epoch |-> 0]
NoVesting == [to |-> 0, total |-> 0, start |-> 0, claimed |-> 0]
CampaignIdle ==
    /\ now = 1 /\ campaign = [c \in Campaigns |-> NoCampaign] /\ pot = 0
    /\ alloc = [c \in Campaigns |-> [d \in Distributions |-> [r \in Recipients |-> NoAllocation]]]
    /\ vesting = [c \in Campaigns |-> NoVesting]
AccrualIdle ==
    /\ state = [acc |-> 0, shares |-> 0, carry |-> 0, dust |-> 0, deposited |-> 0,
                distributed |-> 0, epoch |-> 0]
    /\ position = [s \in Stakers |-> [shares |-> 0, debt |-> 0, realized |-> 0]]
    /\ paid = 0
DustIdle == dust = [held |-> 0, recorded |-> 0, reconciled |-> 0]
BucketIdle == bucket = <<>> /\ owed = [p \in Providers |-> 0] /\ bucketPot = 0
MigrationIdle ==
    /\ migrated = [who |-> {}, complete |-> FALSE, runs |-> 0]
    /\ v2 = [p \in Providers |-> 0] /\ sinceV2 = [p \in Providers |-> 0]
ProgramsInit == CampaignIdle /\ AccrualIdle /\ DustIdle /\ BucketIdle /\ MigrationIdle

-----------------------------------------------------------------------------
(* Campaigns.  An allocation is named by its distribution and recipient: a *)
(* distribution makes at most one for each.  A campaign's epoch is 1 once  *)
(* it is activated.                                                        *)

outstanding(k) == k.allocated - k.claimed - k.expired
available(k) == k.budget - k.allocated + k.expired
load_open(c) == campaign[c].status = "Open"

(* The total of a table of amounts by distribution and recipient, at ids.  *)
RowAt(row, d, ids) == [r \in Recipients |-> IF <<d, r>> \in ids THEN row[r] ELSE 0]
SumAt(table, ids) ==
    Total([d \in Distributions |-> Total(RowAt(table[d], d, ids), NumRecipients)], MaxDistributions)
AmountGrid(table) == [d \in Distributions |-> [r \in Recipients |-> table[d][r].amount]]
Ones == [d \in Distributions |-> [r \in Recipients |-> 1]]
AmountOf(table, ids) == SumAt(AmountGrid(table), ids)
CountOf(ids) == SumAt(Ones, ids)
AllocationIds == Distributions \X Recipients
PendingIds(table) == {id \in AllocationIds : table[id[1]][id[2]].status = "Pending"}

(* Floors by weight; the rest one unit each by the largest remainder, ties *)
(* to the lower address.  Weight 0: not on the list of recipients.         *)
split_by_weight(total, w) ==
    LET all == Total(w, NumRecipients)
        floor == [r \in Recipients |-> (total * w[r]) \div all]
        frac == [r \in Recipients |-> (total * w[r]) % all]
        rest == total - Total(floor, NumRecipients)
        ahead(r) == {q \in Recipients : frac[q] > frac[r] \/ (frac[q] = frac[r] /\ q < r)}
    IN [r \in Recipients |-> floor[r] + (IF Cardinality(ahead(r)) < rest THEN 1 ELSE 0)]

create_campaign(c) ==
    /\ campaign[c].status = "None"
    /\ campaign' = [campaign EXCEPT ![c] = [NoCampaign EXCEPT !.status = "Pending", !.budget = Budget]]
    /\ UNCHANGED <<now, alloc, vesting, pot>>
fund_campaign(c, a) ==
    /\ campaign[c].status = "Pending" /\ campaign[c].funded + a <= Budget + 1
    /\ campaign' = [campaign EXCEPT ![c].funded = @ + a]
    /\ pot' = pot + a
    /\ UNCHANGED <<now, alloc, vesting>>
activate_campaign(c) ==
    /\ campaign[c].status = "Pending" /\ campaign[c].funded >= campaign[c].budget
    /\ campaign' = [campaign EXCEPT ![c].status = "Open", ![c].epoch = 1]
    /\ UNCHANGED <<now, alloc, vesting, pot>>
cancel_campaign(c) ==
    /\ campaign[c].status = "Pending"
    /\ campaign' = [campaign EXCEPT ![c].status = "Canceled"]
    /\ pot' = pot - campaign[c].funded
    /\ UNCHANGED <<now, alloc, vesting>>

(* A share that rounds to zero gets no allocation. *)
NewAllocation(c, amount) ==
    IF amount = 0 THEN NoAllocation
    ELSE [amount |-> amount, status |-> "Pending", expires |-> now + ClaimWindow,
          epoch |-> campaign[c].epoch]
distribute(c, total, w) ==
    LET share == split_by_weight(total, w)
        d == campaign[c].distributions + 1
        made == Total([r \in Recipients |-> IF share[r] = 0 THEN 0 ELSE 1], NumRecipients)
    IN /\ load_open(c) /\ total <= available(campaign[c])
       /\ \E r \in Recipients : w[r] # 0
       /\ d <= MaxDistributions
       /\ alloc' = [alloc EXCEPT ![c][d] = [r \in Recipients |-> NewAllocation(c, share[r])]]
       /\ campaign' = [campaign EXCEPT ![c].allocated = @ + total, ![c].pending = @ + made,
                                       ![c].distributions = d]
       /\ UNCHANGED <<now, vesting, pot>>

Claimable(c, r, id) ==
    LET a == alloc[c][id[1]][id[2]]
    IN id[2] = r /\ a.status = "Pending" /\ now < a.expires /\ a.epoch = campaign[c].epoch
Settled(table, ids, status) ==
    [d \in Distributions |-> [r \in Recipients |->
        IF <<d, r>> \in ids THEN [table[d][r] EXCEPT !.status = status] ELSE table[d][r]]]
(* All or nothing.  The per-account cap is 0, no cap: it has no setter. *)
claim(c, r, ids) ==
    /\ load_open(c) /\ ids # {} /\ \A id \in ids : Claimable(c, r, id)
    /\ pot >= AmountOf(alloc[c], ids)
    /\ alloc' = [alloc EXCEPT ![c] = Settled(@, ids, "Claimed")]
    /\ campaign' = [campaign EXCEPT ![c].claimed = @ + AmountOf(alloc[c], ids),
                                    ![c].pending = @ - CountOf(ids)]
    /\ pot' = pot - AmountOf(alloc[c], ids)
    /\ UNCHANGED <<now, vesting>>
expire_allocations(c, ids) ==
    /\ load_open(c) /\ ids # {}
    /\ ids \subseteq PendingIds(alloc[c]) /\ \A id \in ids : now >= alloc[c][id[1]][id[2]].expires
    /\ alloc' = [alloc EXCEPT ![c] = Settled(@, ids, "Expired")]
    /\ campaign' = [campaign EXCEPT ![c].expired = @ + AmountOf(alloc[c], ids),
                                    ![c].pending = @ - CountOf(ids)]
    /\ UNCHANGED <<now, vesting, pot>>
(* Fault: the whole budget is refunded, what was claimed of it too. *)
CloseRefundsBudget(c) ==
    /\ load_open(c) /\ outstanding(campaign[c]) = 0 /\ campaign[c].pending = 0
    /\ pot' = pot - (campaign[c].budget - campaign[c].allocated + campaign[c].claimed)
    /\ campaign' = [campaign EXCEPT ![c].status = "Closed"]
    /\ UNCHANGED <<now, alloc, vesting>>
close_campaign(c) ==
    /\ load_open(c) /\ outstanding(campaign[c]) = 0 /\ campaign[c].pending = 0
    /\ pot >= available(campaign[c]) /\ pot' = pot - available(campaign[c])
    /\ campaign' = [campaign EXCEPT ![c].status = "Closed"]
    /\ UNCHANGED <<now, alloc, vesting>>

vested_amount(v) ==
    IF now < v.start + CliffSecs THEN 0
    ELSE IF now >= v.start + VestSecs THEN v.total
    ELSE (v.total * (now - v.start)) \div VestSecs
create_vesting_allocation(c, r, total) ==
    /\ load_open(c) /\ total <= available(campaign[c]) /\ vesting[c] = NoVesting
    /\ vesting' = [vesting EXCEPT ![c] = [to |-> r, total |-> total, start |-> now, claimed |-> 0]]
    /\ campaign' = [campaign EXCEPT ![c].allocated = @ + total, ![c].pending = @ + 1]
    /\ UNCHANGED <<now, alloc, pot>>
claim_vesting(c) ==
    LET payout == vested_amount(vesting[c]) - vesting[c].claimed
        settles == vesting[c].claimed + payout >= vesting[c].total
    IN /\ load_open(c) /\ vesting[c] # NoVesting /\ payout > 0 /\ pot >= payout
       /\ vesting' = [vesting EXCEPT ![c].claimed = @ + payout]
       /\ campaign' = [campaign EXCEPT ![c].claimed = @ + payout,
                                       ![c].pending = IF settles THEN @ - 1 ELSE @]
       /\ pot' = pot - payout
       /\ UNCHANGED <<now, alloc>>
CampaignTick == now < MaxTime /\ now' = now + 1 /\ UNCHANGED <<campaign, alloc, vesting, pot>>

(* The calls on one campaign: its life, its allocations, its schedule.     *)
CampaignCalls(c) ==
    \/ create_campaign(c) \/ activate_campaign(c) \/ cancel_campaign(c) \/ close_campaign(c)
    \/ \E a \in Deposits : fund_campaign(c, a)
AllocationCalls(c) ==
    \/ \E a \in Deposits, w \in [Recipients -> Weights \cup {0}] : distribute(c, a, w)
    \/ \E ids \in SUBSET AllocationIds :
         (\E r \in Recipients : claim(c, r, ids)) \/ expire_allocations(c, ids)
VestingCalls(c) ==
    (\E r \in Recipients, a \in Deposits : create_vesting_allocation(c, r, a)) \/ claim_vesting(c)
CampaignNext ==
    /\ CampaignTick \/ \E c \in Campaigns : CampaignCalls(c) \/ AllocationCalls(c) \/ VestingCalls(c)
    /\ UNCHANGED <<feeVars, dust, bucketVars, migrationVars>>

-----------------------------------------------------------------------------
(* Fee accrual.                                                            *)

accumulated_for(shares, acc) == (shares * acc) \div Precision
(* Rounded up, so that a position never earns what it did not wait for. *)
debt_checkpoint(shares, acc) == (shares * acc + Precision - 1) \div Precision
settle(p, acc) ==
    LET a == accumulated_for(p.shares, acc)
    IN IF a <= p.debt THEN p ELSE [p EXCEPT !.realized = @ + (a - p.debt), !.debt = a]
pending_fees(s) == settle(position[s], state.acc).realized

accrue_deposit(amount) ==
    LET pool == amount + state.carry
        scaled == pool * Precision + state.dust
        delta == IF state.shares = 0 THEN 0 ELSE scaled \div state.shares
        rest == scaled - delta * state.shares
        carry == rest \div Precision
    IN /\ state.deposited + amount <= MaxFees
       /\ state' = [state EXCEPT !.acc = @ + delta, !.carry = carry, !.dust = rest % Precision,
                        !.deposited = @ + amount, !.distributed = @ + (pool - carry), !.epoch = @ + 1]
       /\ UNCHANGED <<position, paid>>
(* add_shares, remove_shares and apply_slash settle before the shares move. *)
SetShares(s, n) ==
    /\ position' = [position EXCEPT ![s] =
                        [settle(@, state.acc) EXCEPT !.shares = n, !.debt = debt_checkpoint(n, state.acc)]]
    /\ state' = [state EXCEPT !.shares = @ + (n - position[s].shares)]
    /\ UNCHANGED paid
add_shares(s, a) == SetShares(s, position[s].shares + a)
remove_shares(s, a) == a <= position[s].shares /\ SetShares(s, position[s].shares - a)
SharesLeft(s, a) == IF a > position[s].shares THEN 0 ELSE position[s].shares - a
(* Fault: the shares are slashed without settling first. *)
UnsettledSlash(s, a) ==
    /\ position[s].shares > 0
    /\ position' = [position EXCEPT ![s].shares = SharesLeft(s, a),
                                    ![s].debt = debt_checkpoint(SharesLeft(s, a), state.acc)]
    /\ state' = [state EXCEPT !.shares = @ + (SharesLeft(s, a) - position[s].shares)]
    /\ UNCHANGED paid
apply_slash(s, a) == position[s].shares > 0 /\ SetShares(s, SharesLeft(s, a))
claim_fees(s) ==
    /\ pending_fees(s) > 0
    /\ position' = [position EXCEPT ![s] = [settle(@, state.acc) EXCEPT !.realized = 0]]
    /\ paid' = paid + pending_fees(s)
    /\ UNCHANGED state

ShareCalls(s) ==
    \E a \in ShareAmounts :
        \/ position[s].shares + a <= MaxShares /\ add_shares(s, a)
        \/ remove_shares(s, a) \/ apply_slash(s, a)
AccrualNext ==
    /\ (\E a \in FeeAmounts : accrue_deposit(a)) \/ \E s \in Stakers : claim_fees(s) \/ ShareCalls(s)
    /\ UNCHANGED <<campaignVars, dust, bucketVars, migrationVars>>

record_dust(scaled) ==
    /\ dust.recorded + scaled <= MaxDust
    /\ dust' = [dust EXCEPT !.held = @ + scaled, !.recorded = @ + scaled]
reconcile_dust ==
    LET units == dust.held \div Precision
    IN /\ units > 0
       /\ dust' = [dust EXCEPT !.held = @ - units * Precision, !.reconciled = @ + units]
DustCalls == (\E d \in Scaled : record_dust(d)) \/ reconcile_dust
DustNext == DustCalls /\ UNCHANGED <<campaignVars, feeVars, bucketVars, migrationVars>>

-----------------------------------------------------------------------------
(* Buckets and the stake migration.                                        *)

BucketIds == 1..MaxBuckets
BucketTotal(ids) == Total([i \in BucketIds |-> IF i \in ids THEN bucket[i].amount ELSE 0], MaxBuckets)
Unclaimed(p) == {i \in DOMAIN bucket : bucket[i].provider = p /\ ~bucket[i].claimed}
deposit_reward(p, a) ==
    /\ Len(bucket) < MaxBuckets
    /\ bucket' = Append(bucket, [provider |-> p, amount |-> a, claimed |-> FALSE])
    /\ owed' = [owed EXCEPT ![p] = @ + a]
    /\ bucketPot' = bucketPot + a
batch_claim_rewards(p, ids) ==
    /\ ids # {} /\ ids \subseteq Unclaimed(p)
    /\ owed[p] >= BucketTotal(ids) /\ bucketPot >= BucketTotal(ids)
    /\ bucket' = [i \in DOMAIN bucket |-> [bucket[i] EXCEPT !.claimed = @ \/ i \in ids]]
    /\ owed' = [owed EXCEPT ![p] = @ - BucketTotal(ids)]
    /\ bucketPot' = bucketPot - BucketTotal(ids)
BucketCalls ==
    \E p \in Providers :
        \/ \E a \in BucketAmounts : deposit_reward(p, a)
        \/ \E ids \in SUBSET DOMAIN bucket : batch_claim_rewards(p, ids)
BucketNext == BucketCalls /\ UNCHANGED <<campaignVars, feeVars, dust, migrationVars>>

(* The V1 table holds V1Stake for every provider.  A batch takes the first *)
(* entries not migrated yet and overwrites their V2 entries.               *)
migrate_stakes_v1_to_v2(n) ==
    LET left == Providers \ migrated.who
        batch == {p \in left : Cardinality({q \in left : q < p}) < n}
    IN /\ ~migrated.complete /\ migrated.runs < MaxRuns
       /\ v2' = [p \in Providers |-> IF p \in batch THEN V1Stake ELSE v2[p]]
       /\ migrated' = [who |-> migrated.who \cup batch, runs |-> migrated.runs + 1,
                       complete |-> migrated.who \cup batch = Providers]
       /\ UNCHANGED sinceV2
(* deposit_stake meanwhile, as the V2 table sees it. *)
DepositV2(p) ==
    /\ v2[p] < V1Stake + 2
    /\ v2' = [v2 EXCEPT ![p] = @ + 1]
    /\ sinceV2' = [sinceV2 EXCEPT ![p] = IF p \in migrated.who THEN @ + 1 ELSE @]
    /\ UNCHANGED migrated
MigrationNext ==
    /\ (\E p \in Providers : DepositV2(p)) \/ \E n \in BatchSizes : migrate_stakes_v1_to_v2(n)
    /\ UNCHANGED <<campaignVars, feeVars, dust, bucketVars>>

ProgramsNext == CampaignNext \/ AccrualNext \/ DustNext \/ BucketNext \/ MigrationNext
ProgramsSpec == ProgramsInit /\ [][ProgramsNext]_programsVars

-----------------------------------------------------------------------------
(* What a campaign still owes its funder or its recipients, or may yet     *)
(* hand out, is in the vault, for all campaigns at once: through claims,   *)
(* expiries, vesting and refunds.                                          *)
Owing(k) ==
    CASE k.status = "Pending" -> k.funded
      [] k.status = "Open" -> outstanding(k) + available(k)
      [] OTHER -> 0
PotCoversCampaigns == pot >= Total([c \in Campaigns |-> Owing(campaign[c])], NumCampaigns)

(* k, its allocations and its schedule agree.                              *)
Counted(k, table, v) ==
    /\ outstanding(k) = AmountOf(table, PendingIds(table)) + v.total - v.claimed
    /\ k.pending = CountOf(PendingIds(table)) + (IF v.claimed < v.total THEN 1 ELSE 0)
    /\ outstanding(k) >= 0 /\ available(k) >= 0
(* The counters of an open campaign agree with its records: what is        *)
(* outstanding is what pending allocations and the vesting schedule still  *)
(* promise, each of them is counted as a liability until it is settled,    *)
(* and neither what is outstanding nor what is available is negative.      *)
LiabilitiesCounted ==
    \A c \in Campaigns : load_open(c) => Counted(campaign[c], alloc[c], vesting[c])

(* Fees are not paid twice: what stakers could claim, what they claimed    *)
(* and the carry never exceed what was deposited, although shares change   *)
(* hands between deposits and every share is rounded.                      *)
FeesCovered ==
    paid + state.carry + Total([s \in Stakers |-> pending_fees(s)], NumStakers) <= state.deposited

(* is_conserved: recorded dust is held dust and reconciled dust.           *)
DustConserved == dust.reconciled * Precision + dust.held = dust.recorded

(* A provider's balance is the sum of its unclaimed buckets, and the pot   *)
(* pays all of them.                                                       *)
BucketsBacked ==
    /\ \A p \in Providers : owed[p] = BucketTotal(Unclaimed(p))
    /\ bucketPot >= Total(owed, NumProviders)

(* Batches move each V1 stake once: what a staker adds after its entry was *)
(* migrated is not overwritten by a later batch.                           *)
MigratedOnce == \A p \in migrated.who : v2[p] = V1Stake + sinceV2[p]

(* Every reward program can pay what it promised.                          *)
RewardsBacked ==
    /\ PotCoversCampaigns /\ LiabilitiesCounted /\ FeesCovered
    /\ DustConserved /\ BucketsBacked /\ MigratedOnce

(* Adding, removing or slashing shares never costs what the staker already *)
(* earned: only a claim lowers what is pending, and only the claimer's.    *)
AccruedIsKept ==
    \A s \in Stakers : pending_fees(s)' < pending_fees(s) => pending_fees(s)' = 0 /\ paid' = paid + pending_fees(s)

-----------------------------------------------------------------------------
(* The parameters, in the form the proofs use. *)
LEMMA Parameters ==
  /\ NumCampaigns \in Nat /\ NumRecipients \in Nat /\ NumStakers \in Nat /\ NumProviders \in Nat
  /\ MaxDistributions \in Nat /\ MaxBuckets \in Nat
  /\ Budget \in Nat /\ ClaimWindow \in Nat /\ CliffSecs \in Nat
  /\ VestSecs \in Nat \ {0} /\ V1Stake \in Nat /\ Precision \in Nat \ {0}
  /\ \A a \in Deposits : a \in Nat \ {0}
  /\ \A a \in ShareAmounts : a \in Nat \ {0}
  /\ \A a \in FeeAmounts : a \in Nat \ {0}
  /\ \A a \in BucketAmounts : a \in Nat \ {0}
  /\ \A a \in Scaled : a \in Nat \ {0}
  /\ \A a \in Weights : a \in Nat \ {0}
BY ProgramsTyped

(* A table of amounts by distribution and recipient. *)
AmountTables == [Distributions -> [Recipients -> Nat]]

(* One row of a sum. *)
RowSum(table, d, ids) == Total(RowAt(table[d], d, ids), NumRecipients)

(* The row of a table at a set of allocations is a table of amounts. *)
IsRow(f, t, d, ids) ==
    /\ f \in [1..NumRecipients -> Nat] /\ f \in [1..NumRecipients -> Int]
    /\ \A r \in Recipients : f[r] = IF <<d, r>> \in ids THEN t[d][r] ELSE 0

(* Rows of a typed table are amounts. *)
LEMMA RowTyped ==
  ASSUME NEW t \in AmountTables, NEW d \in Distributions, NEW ids
  PROVE  IsRow(RowAt(t[d], d, ids), t, d, ids) /\ RowSum(t, d, ids) \in Nat
<1>1. t[d] \in [Recipients -> Nat]
  BY DEF AmountTables
<1>2. RowAt(t[d], d, ids) \in [1..NumRecipients -> Nat]
  BY <1>1 DEF RowAt, Recipients
<1>3. RowSum(t, d, ids) \in Nat
  BY <1>2, Parameters, TotalNat DEF RowSum
<1>4. RowAt(t[d], d, ids) \in [1..NumRecipients -> Int]
  BY <1>2
<1>5. \A r \in Recipients : RowAt(t[d], d, ids)[r] = IF <<d, r>> \in ids THEN t[d][r] ELSE 0
  BY DEF RowAt
<1> QED BY <1>2, <1>3, <1>4, <1>5 DEF IsRow

(* SumAt is the total of its rows. *)
Rows(table, ids) == [d \in Distributions |-> RowSum(table, d, ids)]

(* A sum at ids is the total of its row sums. *)
LEMMA SumAtRows ==
  ASSUME NEW t \in AmountTables, NEW ids
  PROVE  /\ SumAt(t, ids) = Total(Rows(t, ids), MaxDistributions)
         /\ Rows(t, ids) \in [1..MaxDistributions -> Nat]
         /\ Rows(t, ids) \in [1..MaxDistributions -> Int]
         /\ \A d \in Distributions : Rows(t, ids)[d] = RowSum(t, d, ids)
         /\ SumAt(t, ids) \in Nat
<1>1. SumAt(t, ids) = Total(Rows(t, ids), MaxDistributions)
  BY DEF SumAt, Rows, RowSum
<1>2. \A d \in Distributions : Rows(t, ids)[d] = RowSum(t, d, ids)
  BY DEF Rows
<1>3. \A d \in Distributions : RowSum(t, d, ids) \in Nat
  BY RowTyped
<1>4. Rows(t, ids) \in [1..MaxDistributions -> Nat]
  BY <1>3 DEF Rows, Distributions
<1>5. Rows(t, ids) \in [1..MaxDistributions -> Int]
  BY <1>4
<1>6. Total(Rows(t, ids), MaxDistributions) \in Nat
  BY <1>4, Parameters, TotalNat
<1> QED BY <1>1, <1>2, <1>4, <1>5, <1>6

(* Taking some allocations out takes their sum out. *)
LEMMA SumAtWithout ==
  ASSUME NEW t \in AmountTables, NEW S, NEW ids, ids \subseteq S
  PROVE  SumAt(t, S) = SumAt(t, S \ ids) + SumAt(t, ids)
<1>1. ASSUME NEW d \in Distributions
      PROVE  RowSum(t, d, S) = RowSum(t, d, S \ ids) + RowSum(t, d, ids)
  <2> DEFINE f == RowAt(t[d], d, S \ ids)
             e == RowAt(t[d], d, ids)
             h == RowAt(t[d], d, S)
  <2>1. IsRow(f, t, d, S \ ids) /\ IsRow(e, t, d, ids) /\ IsRow(h, t, d, S)
    BY RowTyped
  <2>2. /\ \A r \in 1..NumRecipients : h[r] = f[r] + e[r]
        /\ f \in [1..NumRecipients -> Int] /\ e \in [1..NumRecipients -> Int]
        /\ h \in [1..NumRecipients -> Int]
    <3> HIDE DEF f, e, h
    <3>1. ASSUME NEW r \in 1..NumRecipients PROVE h[r] = f[r] + e[r]
      <4>1. r \in Recipients /\ t[d][r] \in Nat
        BY DEF Recipients, AmountTables
      <4>2. <<d, r>> \in ids => <<d, r>> \in S
        OBVIOUS
      <4>3. /\ f[r] = IF <<d, r>> \in S \ ids THEN t[d][r] ELSE 0
            /\ e[r] = IF <<d, r>> \in ids THEN t[d][r] ELSE 0
            /\ h[r] = IF <<d, r>> \in S THEN t[d][r] ELSE 0
        BY <2>1, <4>1 DEF IsRow
      <4> QED BY <4>1, <4>2, <4>3
    <3> QED BY <2>1, <3>1 DEF IsRow
  <2>3. RowSum(t, d, S) = Total(h, NumRecipients) /\ RowSum(t, d, S \ ids) = Total(f, NumRecipients)
        /\ RowSum(t, d, ids) = Total(e, NumRecipients)
    BY DEF RowSum
  <2> HIDE DEF f, e, h
  <2>4. NumRecipients \in Nat
    BY Parameters
  <2>5. Total(h, NumRecipients) = Total(f, NumRecipients) + Total(e, NumRecipients)
    BY <2>2, <2>4, TotalAdd, ZenonT(30)
  <2> QED BY <2>3, <2>5
<1>2. \A d \in 1..MaxDistributions : Rows(t, S)[d] = Rows(t, S \ ids)[d] + Rows(t, ids)[d]
  BY <1>1, SumAtRows DEF Distributions
<1>3. /\ Rows(t, S) \in [1..MaxDistributions -> Int] /\ Rows(t, S \ ids) \in [1..MaxDistributions -> Int]
      /\ Rows(t, ids) \in [1..MaxDistributions -> Int]
      /\ SumAt(t, S) = Total(Rows(t, S), MaxDistributions)
      /\ SumAt(t, S \ ids) = Total(Rows(t, S \ ids), MaxDistributions)
      /\ SumAt(t, ids) = Total(Rows(t, ids), MaxDistributions)
  BY SumAtRows
<1>4. MaxDistributions \in Nat
  BY Parameters
<1>5. Total(Rows(t, S), MaxDistributions)
        = Total(Rows(t, S \ ids), MaxDistributions) + Total(Rows(t, ids), MaxDistributions)
  BY <1>2, <1>3, <1>4, TotalAdd, ZenonT(30)
<1> QED BY <1>3, <1>5

(* Row d of u at the recipients in T; S gains it and becomes W.            *)
NewRow(u, d, T) == [r \in Recipients |-> IF r \in T THEN u[d][r] ELSE 0]

GainsRow(t, u, S, d, T, W) ==
    /\ W = S \cup ({d} \X T)
    /\ \A e \in Distributions : e # d => u[e] = t[e]
    /\ \A r \in Recipients : <<d, r>> \notin S

(* Sums at a set that gains a row gain that row. *)
LEMMA SumAtNewRow ==
  ASSUME NEW t \in AmountTables, NEW u \in AmountTables, NEW d \in Distributions,
         NEW T \in SUBSET Recipients, NEW S, NEW W, GainsRow(t, u, S, d, T, W)
  PROVE  SumAt(u, W) = SumAt(t, S) + Total(NewRow(u, d, T), NumRecipients)
<1> DEFINE new == NewRow(u, d, T)
<1>0. W = S \cup ({d} \X T)
  BY DEF GainsRow
<1>1. RowAt(u[d], d, W) = new
  <2>1. \A r \in Recipients : <<d, r>> \in W <=> r \in T
    BY <1>0 DEF GainsRow
  <2> QED BY <2>1 DEF RowAt, NewRow
<1>2. RowSum(u, d, W) = Total(new, NumRecipients)
  BY <1>1 DEF RowSum
<1>3. RowSum(t, d, S) = 0
  <2>1. RowAt(t[d], d, S) = [r \in 1..NumRecipients |-> 0]
    BY DEF RowAt, Recipients, GainsRow
  <2> QED BY <2>1, Parameters, TotalZero DEF RowSum
<1>4. ASSUME NEW e \in Distributions, e # d PROVE RowSum(u, e, W) = RowSum(t, e, S)
  <2>1. \A r \in Recipients : <<e, r>> \in W <=> <<e, r>> \in S
    BY <1>0, <1>4
  <2>2. RowAt(u[e], e, W) = RowAt(t[e], e, S)
    BY <2>1, <1>4 DEF RowAt, GainsRow
  <2> QED BY <2>2 DEF RowSum
<1> HIDE DEF new
<1>5. /\ Rows(u, W) \in [1..MaxDistributions -> Int] /\ Rows(t, S) \in [1..MaxDistributions -> Int]
      /\ SumAt(u, W) = Total(Rows(u, W), MaxDistributions)
      /\ SumAt(t, S) = Total(Rows(t, S), MaxDistributions)
      /\ \A e \in Distributions : Rows(u, W)[e] = RowSum(u, e, W) /\ Rows(t, S)[e] = RowSum(t, e, S)
      /\ SumAt(t, S) \in Int /\ RowSum(u, d, W) \in Int
  <2>1. SumAt(t, S) \in Nat /\ RowSum(u, d, W) \in Nat
    BY SumAtRows, RowTyped
  <2> QED BY <2>1, SumAtRows
<1>6. \A e \in 1..MaxDistributions : e # d => Rows(u, W)[e] = Rows(t, S)[e]
  BY <1>4, <1>5 DEF Distributions
<1>7. d \in 1..MaxDistributions /\ Rows(u, W)[d] = Total(new, NumRecipients) /\ Rows(t, S)[d] = 0
  BY <1>2, <1>3, <1>5 DEF Distributions
<1>8. Total(Rows(u, W), MaxDistributions)
        = Total(Rows(t, S), MaxDistributions) + Rows(u, W)[d] - Rows(t, S)[d]
  <2>1. MaxDistributions \in Nat
    BY Parameters
  <2>2. Rows(u, W) \in [1..MaxDistributions -> Int] /\ Rows(t, S) \in [1..MaxDistributions -> Int]
        /\ d \in 1..MaxDistributions
    BY <1>5, <1>7
  <2> QED BY <1>6, <2>1, <2>2, TotalChange, ZenonT(30)
<1>9. Total(new, NumRecipients) \in Int
  BY <1>2, <1>5
<1>10. SumAt(u, W) = SumAt(t, S) + Total(new, NumRecipients)
  BY <1>5, <1>7, <1>8, <1>9
<1> QED BY <1>10 DEF new

(* Sums at ids see only the table at ids. *)
LEMMA SumAtAgree ==
  ASSUME NEW t, NEW u, NEW ids,
         \A d \in Distributions : \A r \in Recipients : <<d, r>> \in ids => u[d][r] = t[d][r]
  PROVE  SumAt(u, ids) = SumAt(t, ids)
<1>1. \A d \in Distributions : RowAt(u[d], d, ids) = RowAt(t[d], d, ids)
  BY DEF RowAt
<1> QED BY <1>1 DEF SumAt

(* Counting a set of indices is adding up ones. *)
LEMMA TotalCount ==
  ASSUME NEW n \in Nat, NEW S \in SUBSET (1..n)
  PROVE  Total([i \in 1..n |-> IF i \in S THEN 1 ELSE 0], n) = Cardinality(S)
<1> DEFINE f == [i \in 1..n |-> IF i \in S THEN 1 ELSE 0]
<1>0. f \in [1..n -> Int] /\ \A i \in 1..n : f[i] = IF i \in S THEN 1 ELSE 0
  OBVIOUS
<1> HIDE DEF f
<1>1. PICK g \in [0..n -> Int] : IsPartial(g, f, n) /\ Total(f, n) = g[n]
  BY <1>0, TotalIsPartial
<1>2. g[0] = 0 /\ \A i \in 1..n : g[i] = g[i-1] + f[i]
  BY <1>0, <1>1, PartialStep
<1>s. \A j \in S : j \in Nat /\ 1 <= j /\ j <= n
  OBVIOUS
<1> DEFINE Upto(i) == {j \in S : j <= i}
<1> DEFINE Bad == {i \in 0..n : g[i] # Cardinality(Upto(i))}
<1>3. \A i \in 0..n : IsFiniteSet(Upto(i))
  <2>1. IsFiniteSet(1..n)
    BY FS_Interval
  <2>2. \A i \in 0..n : Upto(i) \in SUBSET (1..n)
    OBVIOUS
  <2> QED BY <2>1, <2>2, FS_Subset
<1>4. 0 \notin Bad
  <2>1. Upto(0) = {}
    <3>1. ASSUME NEW j \in S, j <= 0 PROVE FALSE
      BY <1>s, <3>1
    <3> QED BY <3>1
  <2> QED BY <2>1, <1>2, FS_EmptySet
<1>5. ASSUME NEW k \in 1..n, k-1 \notin Bad PROVE k \notin Bad
  <2>1. k-1 \in 0..n /\ k \in 0..n
    OBVIOUS
  <2>2. g[k-1] = Cardinality(Upto(k-1)) /\ g[k] = g[k-1] + f[k]
    BY <1>2, <1>5, <2>1
  <2>3. CASE k \in S
    <3>1. Upto(k) = Upto(k-1) \cup {k} /\ k \notin Upto(k-1)
      <4>1. ASSUME NEW j \in S PROVE j <= k <=> j <= k-1 \/ j = k
        BY <1>s
      <4>2. ~(k <= k-1) /\ k <= k
        OBVIOUS
      <4> QED BY <4>1, <4>2, <2>3
    <3>2. Cardinality(Upto(k)) = Cardinality(Upto(k-1)) + 1
      <4> HIDE DEF Upto
      <4> QED BY <3>1, <2>1, <1>3, FS_AddElement
    <3>3. f[k] = 1
      BY <1>0, <2>3
    <3> QED BY <2>2, <3>2, <3>3
  <2>4. CASE k \notin S
    <3>1. Upto(k) = Upto(k-1)
      <4>1. ASSUME NEW j \in S PROVE j <= k <=> j <= k-1
        BY <1>s, <2>4
      <4> QED BY <4>1
    <3>2. f[k] = 0 /\ g[k-1] \in Int
      BY <1>0, <2>4, <2>1
    <3>3. g[k] = Cardinality(Upto(k))
      <4> HIDE DEF Upto
      <4> QED BY <2>2, <3>1, <3>2
    <3> QED BY <3>3
  <2> QED BY <2>3, <2>4
<1>6. Bad = {}
  <2>1. \A k \in 1..n : k \in Bad => k-1 \in Bad
    BY <1>5
  <2>2. Bad \in SUBSET (0..n)
    OBVIOUS
  <2> HIDE DEF Bad
  <2> QED BY <1>4, <2>1, <2>2, InductionOnIndex
<1>7. g[n] = Cardinality(Upto(n)) /\ Upto(n) = S
  <2>1. n \in 0..n /\ n \notin Bad
    BY <1>6
  <2>2. g[n] = Cardinality(Upto(n))
    BY <2>1
  <2>3. Upto(n) = S
    BY <1>s
  <2> QED BY <2>2, <2>3
<1>8. Total(f, n) = Cardinality(S)
  BY <1>1, <1>7
<1> QED BY <1>8 DEF f

(* The ranks of an ordering of 1..n without ties are 0, ..., n-1: exactly  *)
(* k indices have a rank below k.  before[i] is the set of those ahead of i.*)
LEMMA RanksAreDense ==
  ASSUME NEW n \in Nat, NEW before, NEW k \in 0..n,
         \A i \in 1..n : before[i] \in SUBSET (1..n) /\ i \notin before[i],
         \A i, j \in 1..n : i # j => i \in before[j] \/ j \in before[i],
         \A i, j \in 1..n : i \in before[j] => before[i] \subseteq before[j]
  PROVE  Cardinality({i \in 1..n : Cardinality(before[i]) < k}) = k
<1> DEFINE I == 1..n
           rank == [i \in I |-> Cardinality(before[i])]
           Low == {i \in I : rank[i] < k}
<1>1. IsFiniteSet(I) /\ Cardinality(I) = n
  BY FS_Interval
<1>2. \A i \in I : IsFiniteSet(before[i]) /\ Cardinality(before[i]) \in Nat
  BY <1>1, FS_Subset, FS_CardinalityType
<1>3. \A i \in I : rank[i] \in 0..(n-1)
  <2>1. ASSUME NEW i \in I PROVE rank[i] \in 0..(n-1)
    <3>1. before[i] \in SUBSET I /\ before[i] # I
      OBVIOUS
    <3>2. Cardinality(before[i]) <= n /\ Cardinality(before[i]) # n
      BY <1>1, <3>1, FS_Subset
    <3> QED BY <3>2, <1>2
  <2> QED BY <2>1
<1>4. \A i, j \in I : i # j => rank[i] # rank[j]
  <2>1. ASSUME NEW i \in I, NEW j \in I, i \in before[j] PROVE rank[i] # rank[j]
    <3>1. before[i] \in SUBSET before[j] /\ before[i] # before[j]
      BY <2>1
    <3>2. Cardinality(before[i]) # Cardinality(before[j])
      BY <1>2, <3>1, FS_Subset
    <3> QED BY <3>2
  <2> QED BY <2>1
<1>5. rank \in Surjection(I, 0..(n-1))
  <2>1. rank \in [I -> 0..(n-1)]
    BY <1>3
  <2>2. rank \in Injection(I, 0..(n-1))
    BY <2>1, <1>4 DEF Injection, IsInjective
  <2>3. IsFiniteSet(0..(n-1)) /\ Cardinality(0..(n-1)) = n
    BY FS_Interval
  <2> HIDE DEF rank, I
  <2> QED BY <1>1, <2>2, <2>3, FS_Injection
<1>6. Low \in SUBSET I /\ IsFiniteSet(Low)
  BY <1>1, FS_Subset
<1> DEFINE low == [i \in Low |-> rank[i]]
<1>7. low \in Injection(Low, 0..(k-1)) /\ low \in Surjection(Low, 0..(k-1))
  <2>1. low \in [Low -> 0..(k-1)]
    BY <1>3
  <2>2. \A i, j \in Low : low[i] = low[j] => i = j
    BY <1>4
  <2>3. \A x \in 0..(k-1) : \E i \in Low : low[i] = x
    <3>1. ASSUME NEW x \in 0..(k-1) PROVE \E i \in Low : low[i] = x
      <4>1. x \in 0..(n-1)
        OBVIOUS
      <4>2. PICK i \in I : rank[i] = x
        BY <1>5, <4>1 DEF Surjection
      <4> QED BY <4>2
    <3> QED BY <3>1
  <2> HIDE DEF low, Low
  <2> QED BY <2>1, <2>2, <2>3 DEF Injection, IsInjective, Surjection
<1>8. IsFiniteSet(0..(k-1)) /\ Cardinality(0..(k-1)) = k
  <2>1. 0 \in Int /\ k-1 \in Int /\ (0 > k-1 <=> k = 0) /\ (k-1) - 0 + 1 = k
    OBVIOUS
  <2>2. IsFiniteSet(0..(k-1)) /\ Cardinality(0..(k-1)) = IF 0 > k-1 THEN 0 ELSE (k-1) - 0 + 1
    BY <2>1, FS_Interval
  <2> QED BY <2>1, <2>2
<1>9. Cardinality(Low) = k
  <2> HIDE DEF low, Low
  <2> QED BY <1>7, <1>8, FS_Injection
<1> QED BY <1>9
(* A list of weights: 0 for who is not on it, and someone is. *)
WeightLists == {w \in [Recipients -> Nat] : \E r \in Recipients : w[r] # 0}

(* Every weight list has a positive total. *)
LEMMA WeightsPositive ==
  ASSUME NEW w \in WeightLists
  PROVE  Total(w, NumRecipients) \in Nat \ {0} /\ NumRecipients \in Nat \ {0}
<1>1. w \in [1..NumRecipients -> Nat] /\ NumRecipients \in Nat
  BY Parameters DEF WeightLists, Recipients
<1>2. Total(w, NumRecipients) \in Nat /\ \A r \in 1..NumRecipients : w[r] <= Total(w, NumRecipients)
  BY <1>1, TotalNat
<1>3. PICK r \in 1..NumRecipients : w[r] # 0 /\ w[r] \in Nat
  BY <1>1 DEF WeightLists, Recipients
<1> QED BY <1>1, <1>2, <1>3

(* The floors, the remainders and the rest of a split. *)
Floors(total, w) == [r \in Recipients |-> (total * w[r]) \div Total(w, NumRecipients)]
Fracs(total, w) == [r \in Recipients |-> (total * w[r]) % Total(w, NumRecipients)]
Rest(total, w) == total - Total(Floors(total, w), NumRecipients)
Ahead(total, w) ==
    [r \in Recipients |-> {q \in Recipients :
        Fracs(total, w)[q] > Fracs(total, w)[r]
          \/ (Fracs(total, w)[q] = Fracs(total, w)[r] /\ q < r)}]
Lucky(total, w) == {r \in Recipients : Cardinality(Ahead(total, w)[r]) < Rest(total, w)}

(* split_by_weight in these terms: a floor, and one unit more for the      *)
(* lucky.                                                                  *)
LEMMA SplitParts ==
  ASSUME NEW total, NEW w
  PROVE  split_by_weight(total, w) =
           [r \in Recipients |-> Floors(total, w)[r] + (IF r \in Lucky(total, w) THEN 1 ELSE 0)]
<1>1. \A r \in Recipients : Ahead(total, w)[r] = {q \in Recipients :
        Fracs(total, w)[q] > Fracs(total, w)[r]
          \/ (Fracs(total, w)[q] = Fracs(total, w)[r] /\ q < r)}
  BY DEF Ahead
<1> QED BY <1>1 DEF split_by_weight, Floors, Fracs, Rest, Lucky

(* The floors and remainders are amounts, and the floors leave a rest of   *)
(* fewer units than there are recipients.                                  *)
LEMMA RestIsSmall ==
  ASSUME NEW total \in Nat, NEW w \in WeightLists
  PROVE  /\ Floors(total, w) \in [1..NumRecipients -> Nat]
         /\ Fracs(total, w) \in [1..NumRecipients -> Nat]
         /\ Rest(total, w) \in 0..NumRecipients
<1> DEFINE n == NumRecipients
           all == Total(w, NumRecipients)
           floor == Floors(total, w)
           frac == Fracs(total, w)
<1>1. all \in Nat \ {0} /\ n \in Nat \ {0} /\ w \in [1..n -> Nat] /\ w \in [1..n -> Int]
  <2>1. all \in Nat \ {0} /\ n \in Nat \ {0}
    BY WeightsPositive
  <2>2. w \in [1..n -> Nat]
    BY DEF WeightLists, Recipients
  <2>3. w \in [1..n -> Int]
    BY <2>2
  <2> QED BY <2>1, <2>2, <2>3
<1>2. \A r \in 1..n : /\ floor[r] = (total * w[r]) \div all
                      /\ frac[r] = (total * w[r]) % all
  BY DEF Floors, Fracs, Recipients
<1>3. DOMAIN floor = 1..n /\ DOMAIN frac = 1..n /\ floor = [r \in 1..n |-> floor[r]]
      /\ frac = [r \in 1..n |-> frac[r]]
  BY DEF Floors, Fracs, Recipients
<1> HIDE DEF all, floor, frac, n
<1>4. \A r \in 1..n : /\ floor[r] \in Nat /\ frac[r] \in Nat /\ frac[r] <= all - 1
                      /\ total * w[r] = all * floor[r] + frac[r] /\ total * w[r] \in Nat
                      /\ all * floor[r] \in Nat
  <2>1. ASSUME NEW r \in 1..n
        PROVE  /\ floor[r] \in Nat /\ frac[r] \in Nat /\ frac[r] <= all - 1
               /\ total * w[r] = all * floor[r] + frac[r] /\ total * w[r] \in Nat
               /\ all * floor[r] \in Nat
    <3>1. w[r] \in Nat
      BY <1>1
    <3>2. total * w[r] \in Nat
      BY <3>1, ProductNat
    <3> DEFINE x == total * w[r]
    <3>3. floor[r] = x \div all /\ frac[r] = x % all /\ x \in Nat
      BY <1>2, <3>2
    <3> HIDE DEF x
    <3>4. /\ x \div all \in Nat /\ x % all \in Nat /\ x = all * (x \div all) + (x % all) /\ x % all < all
      BY <1>1, <3>3, DivRoundsDown
    <3>5. all * floor[r] \in Nat
      BY <1>1, <3>3, <3>4, ProductNat
    <3>6. frac[r] <= all - 1
      BY <1>1, <3>3, <3>4
    <3>7. x = all * floor[r] + frac[r]
      BY <3>3, <3>4
    <3> QED BY <3>2, <3>3, <3>4, <3>5, <3>6, <3>7 DEF x
  <2> QED BY <2>1
<1>5. floor \in [1..n -> Nat] /\ frac \in [1..n -> Nat] /\ floor \in [1..n -> Int] /\ frac \in [1..n -> Int]
  <2>1. floor \in [1..n -> Nat] /\ frac \in [1..n -> Nat]
    BY <1>3, <1>4
  <2> QED BY <2>1
<1> DEFINE tw == [r \in 1..n |-> total * w[r]]
           af == [r \in 1..n |-> all * floor[r]]
           ones == [r \in 1..n |-> IF r \in 1..n THEN 1 ELSE 0]
           most == [r \in 1..n |-> (all - 1) * ones[r]]
<1>6. /\ tw \in [1..n -> Int] /\ \A r \in 1..n : tw[r] = total * w[r]
      /\ af \in [1..n -> Int] /\ \A r \in 1..n : af[r] = all * floor[r]
      /\ ones \in [1..n -> Int] /\ \A r \in 1..n : ones[r] = 1
      /\ \A r \in 1..n : tw[r] = af[r] + frac[r]
  BY <1>4
<1>7. most \in [1..n -> Int] /\ (\A r \in 1..n : most[r] = (all - 1) * ones[r])
      /\ \A r \in 1..n : frac[r] <= most[r]
  BY <1>1, <1>4, <1>6
<1>8. Total(ones, n) = n
  <2>1. Total(ones, n) = Cardinality(1..n)
    BY <1>1, TotalCount
  <2>2. Cardinality(1..n) = n
    BY <1>1, FS_Interval
  <2> QED BY <2>1, <2>2
<1> HIDE DEF tw, af, ones, most
<1>n. n \in Nat /\ all \in Int /\ all - 1 \in Int /\ total \in Int
  BY <1>1
<1>9. Total(tw, n) = total * Total(w, n)
  BY <1>1, <1>6, <1>n, TotalScale, ZenonT(30)
<1>10. Total(af, n) = all * Total(floor, n)
  BY <1>5, <1>6, <1>n, TotalScale, ZenonT(30)
<1>11. Total(tw, n) = Total(af, n) + Total(frac, n)
  BY <1>5, <1>6, <1>n, TotalAdd, ZenonT(30)
<1>12. Total(most, n) = (all - 1) * n
  <2>1. Total(most, n) = (all - 1) * Total(ones, n)
    BY <1>6, <1>7, <1>n, TotalScale, ZenonT(30)
  <2> QED BY <2>1, <1>8
<1>13. Total(frac, n) <= Total(most, n)
  BY <1>5, <1>7, <1>n, TotalLeq, ZenonT(30)
<1>14. Total(floor, n) \in Nat /\ Total(frac, n) \in Nat
  BY <1>5, <1>n, TotalNat
<1> DEFINE rest == total - Total(floor, n)
<1>15. rest \in Int /\ all * rest = Total(frac, n)
  <2>1. Total(w, n) = all
    BY DEF all, n
  <2>3. total * all = all * Total(floor, n) + Total(frac, n)
    BY <1>9, <1>10, <1>11, <2>1
  <2>4. total \in Int /\ Total(floor, n) \in Int /\ Total(frac, n) \in Int
    BY <1>14, <1>n
  <2>5. PICK F \in Int : F = Total(floor, n)
    BY <2>4
  <2>6. PICK Q \in Int : Q = Total(frac, n)
    BY <2>4
  <2>7. total * all = all * F + Q
    BY <2>3, <2>5, <2>6
  <2>8. all * (total - F) = Q
    BY <2>7, <1>n, FactorOut
  <2> QED BY <2>4, <2>5, <2>6, <2>8
<1>16. 0 <= rest /\ rest < n
  <2>1. 0 <= all * rest /\ all * rest <= (all - 1) * n
    BY <1>12, <1>13, <1>14, <1>15
  <2> HIDE DEF rest
  <2> QED BY <2>1, <1>1, <1>15, FactorBounds
<1>17. Rest(total, w) = rest
  BY DEF Rest, floor, n
<1> QED BY <1>5, <1>15, <1>16, <1>17, <1>n DEF floor, frac, n

(* The shares of a split are amounts that add up to exactly its total.     *)
LEMMA SplitIsExact ==
  ASSUME NEW total \in Nat, NEW w \in WeightLists
  PROVE  /\ split_by_weight(total, w) \in [Recipients -> Nat]
         /\ Total(split_by_weight(total, w), NumRecipients) = total
<1> DEFINE n == NumRecipients
           share == split_by_weight(total, w)
           floor == Floors(total, w)
           frac == Fracs(total, w)
           rest == Rest(total, w)
           before == Ahead(total, w)
           extra == [r \in 1..n |-> IF r \in Lucky(total, w) THEN 1 ELSE 0]
<1>1. n \in Nat /\ Recipients = 1..n
  BY Parameters DEF Recipients
<1>2. floor \in [1..n -> Nat] /\ frac \in [1..n -> Nat] /\ rest \in 0..n
  BY RestIsSmall
<1>3. \A i \in 1..n : before[i] = {q \in 1..n : frac[q] > frac[i] \/ (frac[q] = frac[i] /\ q < i)}
  BY <1>1 DEF Ahead
<1>4. Lucky(total, w) = {r \in 1..n : Cardinality(before[r]) < rest}
  BY <1>1 DEF Lucky
<1>5. share = [r \in 1..n |-> floor[r] + extra[r]]
  BY <1>1, SplitParts
<1> HIDE DEF n, share, floor, frac, rest, before
<1>6. Cardinality({r \in 1..n : Cardinality(before[r]) < rest}) = rest
  <2>1. \A i \in 1..n : before[i] \in SUBSET (1..n) /\ i \notin before[i]
    BY <1>2, <1>3
  <2>2. \A i, j \in 1..n : i # j => i \in before[j] \/ j \in before[i]
    BY <1>2, <1>3
  <2>3. \A i, j \in 1..n : i \in before[j] => before[i] \subseteq before[j]
    BY <1>2, <1>3
  <2> QED BY <1>1, <1>2, <2>1, <2>2, <2>3, RanksAreDense
<1>7. Total(extra, n) = rest
  <2>1. Lucky(total, w) \in SUBSET (1..n)
    BY <1>4
  <2>2. Total(extra, n) = Cardinality(Lucky(total, w))
    BY <1>1, <2>1, TotalCount
  <2> QED BY <2>2, <1>4, <1>6
<1>8. /\ extra \in [1..n -> Int] /\ floor \in [1..n -> Int]
      /\ share \in [1..n -> Int] /\ share \in [1..n -> Nat]
      /\ \A r \in 1..n : share[r] = floor[r] + extra[r]
  BY <1>2, <1>5
<1> HIDE DEF extra
<1>9. Total(share, n) = Total(floor, n) + Total(extra, n)
  BY <1>1, <1>8, TotalAdd, ZenonT(30)
<1>10. rest = total - Total(floor, n) /\ Total(floor, n) \in Nat
  <2>1. Total(floor, n) \in Nat
    BY <1>1, <1>2, TotalNat
  <2> QED BY <2>1 DEF rest, Rest, floor, n
<1>11. Total(share, n) = total
  BY <1>7, <1>9, <1>10
<1> QED BY <1>1, <1>8, <1>11 DEF share, n

-----------------------------------------------------------------------------
(* Campaigns.                                                              *)

CampaignRecords ==
    [status : {"None", "Pending", "Open", "Closed", "Canceled"}, budget : Nat, allocated : Nat,
     claimed : Nat, expired : Nat, pending : Int, distributions : Nat, funded : Nat, epoch : Nat]
Allocations ==
    [amount : Nat, status : {"None", "Pending", "Claimed", "Expired"}, expires : Nat, epoch : Nat]
Tables == [Distributions -> [Recipients -> Allocations]]
Vestings == [to : Nat, total : Nat, start : Nat, claimed : Nat]

(* A campaign not opened yet has counted nothing, distributions not made   *)
(* have no allocations, and a schedule pays no more than its total.        *)
Fresh(k, v) ==
    /\ k.allocated = 0 /\ k.claimed = 0 /\ k.expired = 0 /\ k.pending = 0
    /\ k.distributions = 0 /\ v = NoVesting
Sound(k, table, v) ==
    /\ k.status \in {"None", "Pending"} => Fresh(k, v)
    /\ \A d \in Distributions : d > k.distributions => \A r \in Recipients : table[d][r] = NoAllocation
    /\ v.claimed <= v.total
    /\ k.status = "Open" => Counted(k, table, v)
CampaignTypeOK ==
    /\ now \in Nat /\ pot \in Int /\ campaign \in [Campaigns -> CampaignRecords]
    /\ alloc \in [Campaigns -> Tables] /\ vesting \in [Campaigns -> Vestings]
CampaignsSound == \A c \in Campaigns : Sound(campaign[c], alloc[c], vesting[c])
CampaignInv == CampaignTypeOK /\ CampaignsSound /\ PotCoversCampaigns

(* A step on campaign c that leaves records k, table and v, pays amounts   *)
(* out of the pot or into it, and owes no more than what the pot gained.   *)
CampaignMoves(c, k, table, v) ==
    /\ now' = now
    /\ campaign' = [campaign EXCEPT ![c] = k] /\ k \in CampaignRecords
    /\ alloc' = [alloc EXCEPT ![c] = table] /\ table \in Tables
    /\ vesting' = [vesting EXCEPT ![c] = v] /\ v \in Vestings
    /\ Sound(k, table, v)
    /\ pot' \in Int /\ pot' - pot >= Owing(k) - Owing(campaign[c])

(* What a campaign owes is a number. *)
LEMMA OwingTyped ==
  ASSUME NEW k \in CampaignRecords
  PROVE  Owing(k) \in Int
BY DEF CampaignRecords, Owing, outstanding, available

(* Such a step keeps the invariant of the campaigns. *)
LEMMA CampaignMoveKeeps ==
  ASSUME CampaignInv, NEW c \in Campaigns, NEW k, NEW table, NEW v, CampaignMoves(c, k, table, v)
  PROVE  CampaignInv'
<1>1. CampaignTypeOK'
  BY DEF CampaignInv, CampaignTypeOK, CampaignMoves
<1>2. CampaignsSound'
  <2>1. ASSUME NEW e \in Campaigns PROVE Sound(campaign'[e], alloc'[e], vesting'[e])
    <3>1. CASE e = c
      <4>1. campaign'[e] = k /\ alloc'[e] = table /\ vesting'[e] = v
        BY <3>1 DEF CampaignInv, CampaignTypeOK, CampaignMoves
      <4> QED BY <4>1 DEF CampaignMoves
    <3>2. CASE e # c
      <4>1. campaign'[e] = campaign[e] /\ alloc'[e] = alloc[e] /\ vesting'[e] = vesting[e]
        BY <3>2 DEF CampaignInv, CampaignTypeOK, CampaignMoves
      <4> QED BY <4>1 DEF CampaignInv, CampaignsSound
    <3> QED BY <3>1, <3>2
  <2> QED BY <2>1 DEF CampaignsSound, Sound, Counted, AmountOf, CountOf, SumAt, AmountGrid, Ones, PendingIds
<1>3. PotCoversCampaigns'
  <2> DEFINE n == NumCampaigns
             f == [e \in 1..n |-> Owing(campaign[e])]
             h == [e \in 1..n |-> Owing(campaign'[e])]
  <2>1. n \in Nat /\ Campaigns = 1..n
    BY Parameters DEF Campaigns
  <2>2. f \in [1..n -> Int] /\ h \in [1..n -> Int]
    BY <1>1, <2>1, OwingTyped DEF CampaignInv, CampaignTypeOK
  <2>3. \A e \in 1..n : e # c => h[e] = f[e]
    BY <2>1 DEF CampaignInv, CampaignTypeOK, CampaignMoves
  <2>4. h[c] = Owing(k) /\ f[c] = Owing(campaign[c]) /\ c \in 1..n
    BY <2>1 DEF CampaignInv, CampaignTypeOK, CampaignMoves
  <2>5. pot >= Total(f, n)
    BY <2>1 DEF CampaignInv, PotCoversCampaigns
  <2>6. PotCoversCampaigns' <=> pot' >= Total(h, n)
    BY <2>1 DEF PotCoversCampaigns, Owing, outstanding, available
  <2> HIDE DEF f, h, n
  <2>7. Total(h, n) = Total(f, n) + h[c] - f[c]
    BY <2>1, <2>2, <2>3, <2>4, TotalChange, ZenonT(30)
  <2>8. Total(f, n) \in Int /\ h[c] \in Int /\ f[c] \in Int
    BY <2>1, <2>2, <2>4, TotalInt
  <2>9. pot' \in Int /\ pot \in Int /\ pot' - pot >= h[c] - f[c]
    BY <2>4 DEF CampaignInv, CampaignTypeOK, CampaignMoves
  <2> QED BY <2>5, <2>6, <2>7, <2>8, <2>9
<1> QED BY <1>1, <1>2, <1>3 DEF CampaignInv

(* The amounts and the ones of a table of allocations. *)
LEMMA AmountsTyped ==
  ASSUME NEW table \in Tables
  PROVE  AmountGrid(table) \in AmountTables
BY DEF Tables, AmountGrid, AmountTables, Allocations

(* The table of ones is a table of amounts. *)
LEMMA OnesTyped == Ones \in AmountTables
BY DEF Ones, AmountTables

(* What is summed of a typed table is an amount. *)
LEMMA SumsTyped ==
  ASSUME NEW table \in Tables, NEW ids
  PROVE  AmountOf(table, ids) \in Nat /\ CountOf(ids) \in Nat
<1>1. AmountOf(table, ids) \in Nat
  BY AmountsTyped, SumAtRows DEF AmountOf
<1>2. CountOf(ids) \in Nat
  BY OnesTyped, SumAtRows DEF CountOf
<1> QED BY <1>1, <1>2

(* What the invariant says of one campaign. *)
LEMMA CampaignFacts ==
  ASSUME CampaignInv, NEW c \in Campaigns
  PROVE  /\ campaign[c] \in CampaignRecords /\ alloc[c] \in Tables /\ vesting[c] \in Vestings
         /\ Sound(campaign[c], alloc[c], vesting[c]) /\ pot \in Int /\ now \in Nat
         /\ alloc = [alloc EXCEPT ![c] = alloc[c]] /\ vesting = [vesting EXCEPT ![c] = vesting[c]]
BY DEF CampaignInv, CampaignTypeOK, CampaignsSound

(* A campaign nobody opened yet: created, funded, activated or cancelled.  *)
LEMMA CreateKeeps ==
  ASSUME CampaignInv, NEW c \in Campaigns, create_campaign(c)
  PROVE  CampaignInv'
<1> DEFINE k == [NoCampaign EXCEPT !.status = "Pending", !.budget = Budget]
<1>1. /\ campaign[c] \in CampaignRecords /\ alloc[c] \in Tables /\ vesting[c] \in Vestings
      /\ Sound(campaign[c], alloc[c], vesting[c]) /\ pot \in Int
      /\ alloc = [alloc EXCEPT ![c] = alloc[c]] /\ vesting = [vesting EXCEPT ![c] = vesting[c]]
  BY CampaignFacts
<1>2. k \in CampaignRecords /\ k.status = "Pending" /\ k.distributions = 0 /\ k.allocated = 0
      /\ k.claimed = 0 /\ k.expired = 0 /\ k.pending = 0 /\ k.funded = 0
  <2>1. Budget \in Nat
    BY Parameters
  <2>2. NoCampaign \in CampaignRecords /\ NoCampaign.allocated = 0 /\ NoCampaign.claimed = 0
        /\ NoCampaign.expired = 0 /\ NoCampaign.pending = 0 /\ NoCampaign.distributions = 0
        /\ NoCampaign.funded = 0
    BY DEF CampaignRecords, NoCampaign
  <2> QED BY <2>1, <2>2 DEF CampaignRecords
<1>3. /\ campaign[c].status = "None" /\ campaign' = [campaign EXCEPT ![c] = k] /\ now' = now
      /\ alloc' = alloc /\ vesting' = vesting /\ pot' = pot
  BY DEF create_campaign
<1> HIDE DEF k
<1>4. Sound(k, alloc[c], vesting[c])
  BY <1>1, <1>2, <1>3 DEF Sound, Fresh
<1>5. Owing(k) = 0 /\ Owing(campaign[c]) = 0
  BY <1>2, <1>3 DEF Owing
<1>6. CampaignMoves(c, k, alloc[c], vesting[c])
  BY <1>1, <1>2, <1>3, <1>4, <1>5 DEF CampaignMoves
<1> QED BY <1>6, CampaignMoveKeeps

(* What is funded is in the pot. *)
LEMMA FundKeeps ==
  ASSUME CampaignInv, NEW c \in Campaigns, NEW a \in Deposits, fund_campaign(c, a)
  PROVE  CampaignInv'
<1> DEFINE k == [campaign[c] EXCEPT !.funded = @ + a]
<1>1. /\ campaign[c] \in CampaignRecords /\ alloc[c] \in Tables /\ vesting[c] \in Vestings
      /\ Sound(campaign[c], alloc[c], vesting[c]) /\ pot \in Int
      /\ alloc = [alloc EXCEPT ![c] = alloc[c]] /\ vesting = [vesting EXCEPT ![c] = vesting[c]]
  BY CampaignFacts
<1>a. a \in Nat
  BY Parameters
<1>2. k \in CampaignRecords /\ k.status = campaign[c].status /\ k.funded = campaign[c].funded + a
      /\ k.distributions = campaign[c].distributions /\ k.allocated = campaign[c].allocated
      /\ k.claimed = campaign[c].claimed /\ k.expired = campaign[c].expired
      /\ k.pending = campaign[c].pending
  BY <1>1, <1>a DEF CampaignRecords
<1>3. /\ campaign[c].status = "Pending" /\ campaign' = [campaign EXCEPT ![c] = k] /\ now' = now
      /\ alloc' = alloc /\ vesting' = vesting /\ pot' = pot + a
  BY DEF fund_campaign
<1> HIDE DEF k
<1>4. Sound(k, alloc[c], vesting[c])
  BY <1>1, <1>2, <1>3 DEF Sound, Fresh
<1>5. Owing(k) = campaign[c].funded + a /\ Owing(campaign[c]) = campaign[c].funded
      /\ campaign[c].funded \in Nat
  BY <1>1, <1>2, <1>3 DEF Owing, CampaignRecords
<1>6. CampaignMoves(c, k, alloc[c], vesting[c])
  <2>1. pot' \in Int /\ pot' - pot >= Owing(k) - Owing(campaign[c])
    BY <1>1, <1>3, <1>5, <1>a
  <2> QED BY <1>1, <1>2, <1>3, <1>4, <2>1 DEF CampaignMoves
<1> QED BY <1>6, CampaignMoveKeeps

(* Nothing is pending in a table without allocations. *)
LEMMA EmptyTable ==
  ASSUME NEW table \in Tables,
         \A d \in Distributions : \A r \in Recipients : table[d][r] = NoAllocation
  PROVE  AmountOf(table, PendingIds(table)) = 0 /\ CountOf(PendingIds(table)) = 0
<1>1. PendingIds(table) = {}
  BY DEF PendingIds, AllocationIds, NoAllocation
<1>2. ASSUME NEW t \in AmountTables PROVE SumAt(t, {}) = 0
  <2> DEFINE none == {}
  <2>1. SumAt(t, none) = SumAt(t, none \ none) + SumAt(t, none)
    BY SumAtWithout
  <2>2. none \ none = none
    OBVIOUS
  <2>3. SumAt(t, none) \in Nat
    BY SumAtRows
  <2> HIDE DEF none
  <2>4. SumAt(t, none) = SumAt(t, none) + SumAt(t, none)
    BY <2>1, <2>2
  <2>5. SumAt(t, none) = 0
    <3>1. \A x \in Nat : x = x + x => x = 0
      OBVIOUS
    <3> QED BY <3>1, <2>3, <2>4, Zenon
  <2> QED BY <2>5 DEF none
<1> QED BY <1>1, <1>2, AmountsTyped, OnesTyped DEF AmountOf, CountOf

(* An activated campaign owes its budget, which was funded. *)
LEMMA ActivateKeeps ==
  ASSUME CampaignInv, NEW c \in Campaigns, activate_campaign(c)
  PROVE  CampaignInv'
<1> DEFINE k == [campaign[c] EXCEPT !.status = "Open", !.epoch = 1]
           v == vesting[c]
<1>1. /\ campaign[c] \in CampaignRecords /\ alloc[c] \in Tables /\ vesting[c] \in Vestings
      /\ Sound(campaign[c], alloc[c], vesting[c]) /\ pot \in Int
      /\ alloc = [alloc EXCEPT ![c] = alloc[c]] /\ vesting = [vesting EXCEPT ![c] = vesting[c]]
  BY CampaignFacts
<1>3. /\ campaign[c].status = "Pending" /\ campaign[c].funded >= campaign[c].budget
      /\ campaign' = [campaign EXCEPT ![c] = k] /\ now' = now
      /\ alloc' = alloc /\ vesting' = vesting /\ pot' = pot
  BY DEF activate_campaign
<1>2. k \in CampaignRecords /\ k.status = "Open" /\ k.budget = campaign[c].budget
      /\ k.distributions = 0 /\ k.allocated = 0 /\ k.claimed = 0 /\ k.expired = 0 /\ k.pending = 0
      /\ v = NoVesting /\ k.budget \in Nat /\ campaign[c].distributions = 0
  BY <1>1, <1>3 DEF CampaignRecords, Sound, Fresh
<1> HIDE DEF k
<1>4. Sound(k, alloc[c], v)
  <2>1. \A d \in Distributions : \A r \in Recipients : alloc[c][d][r] = NoAllocation
    <3>1. \A d \in Distributions : d > 0
      BY DEF Distributions
    <3> QED BY <3>1, <1>1, <1>2 DEF Sound
  <2>2. AmountOf(alloc[c], PendingIds(alloc[c])) = 0 /\ CountOf(PendingIds(alloc[c])) = 0
    BY <2>1, <1>1, EmptyTable
  <2>3. v.total = 0 /\ v.claimed = 0
    BY <1>2 DEF NoVesting
  <2>4. Counted(k, alloc[c], v)
    BY <1>2, <2>2, <2>3 DEF Counted, outstanding, available
  <2> QED BY <1>2, <2>1, <2>3, <2>4 DEF Sound
<1>5. Owing(k) = k.budget /\ Owing(campaign[c]) = campaign[c].funded
      /\ campaign[c].funded \in Nat
  BY <1>1, <1>2, <1>3 DEF Owing, CampaignRecords, outstanding, available
<1>6. CampaignMoves(c, k, alloc[c], vesting[c])
  <2>1. pot' \in Int /\ pot' - pot >= Owing(k) - Owing(campaign[c])
    BY <1>1, <1>2, <1>3, <1>5
  <2> QED BY <1>1, <1>2, <1>3, <1>4, <2>1 DEF CampaignMoves
<1> QED BY <1>6, CampaignMoveKeeps

(* A cancelled campaign gives back what was funded. *)
LEMMA CancelKeeps ==
  ASSUME CampaignInv, NEW c \in Campaigns, cancel_campaign(c)
  PROVE  CampaignInv'
<1> DEFINE k == [campaign[c] EXCEPT !.status = "Canceled"]
<1>1. /\ campaign[c] \in CampaignRecords /\ alloc[c] \in Tables /\ vesting[c] \in Vestings
      /\ Sound(campaign[c], alloc[c], vesting[c]) /\ pot \in Int
      /\ alloc = [alloc EXCEPT ![c] = alloc[c]] /\ vesting = [vesting EXCEPT ![c] = vesting[c]]
  BY CampaignFacts
<1>2. k \in CampaignRecords /\ k.status = "Canceled" /\ k.distributions = campaign[c].distributions
  BY <1>1 DEF CampaignRecords
<1>3. /\ campaign[c].status = "Pending" /\ campaign' = [campaign EXCEPT ![c] = k] /\ now' = now
      /\ alloc' = alloc /\ vesting' = vesting /\ pot' = pot - campaign[c].funded
  BY DEF cancel_campaign
<1> HIDE DEF k
<1>4. Sound(k, alloc[c], vesting[c])
  BY <1>1, <1>2, <1>3 DEF Sound
<1>5. Owing(k) = 0 /\ Owing(campaign[c]) = campaign[c].funded /\ campaign[c].funded \in Nat
  BY <1>1, <1>2, <1>3 DEF Owing, CampaignRecords
<1>6. CampaignMoves(c, k, alloc[c], vesting[c])
  <2>1. pot' \in Int /\ pot' - pot >= Owing(k) - Owing(campaign[c])
    BY <1>1, <1>3, <1>5
  <2> QED BY <1>1, <1>2, <1>3, <1>4, <2>1 DEF CampaignMoves
<1> QED BY <1>6, CampaignMoveKeeps

(* Closing refunds what is available: nothing is outstanding. *)
LEMMA CloseKeeps ==
  ASSUME CampaignInv, NEW c \in Campaigns, close_campaign(c)
  PROVE  CampaignInv'
<1> DEFINE k == [campaign[c] EXCEPT !.status = "Closed"]
<1>1. /\ campaign[c] \in CampaignRecords /\ alloc[c] \in Tables /\ vesting[c] \in Vestings
      /\ Sound(campaign[c], alloc[c], vesting[c]) /\ pot \in Int
      /\ alloc = [alloc EXCEPT ![c] = alloc[c]] /\ vesting = [vesting EXCEPT ![c] = vesting[c]]
  BY CampaignFacts
<1>2. k \in CampaignRecords /\ k.status = "Closed" /\ k.distributions = campaign[c].distributions
  BY <1>1 DEF CampaignRecords
<1>3. /\ campaign[c].status = "Open" /\ campaign' = [campaign EXCEPT ![c] = k] /\ now' = now
      /\ alloc' = alloc /\ vesting' = vesting /\ outstanding(campaign[c]) = 0
      /\ pot' = pot - available(campaign[c])
  BY DEF close_campaign, load_open
<1> HIDE DEF k
<1>4. Sound(k, alloc[c], vesting[c])
  BY <1>1, <1>2, <1>3 DEF Sound
<1>5. Owing(k) = 0 /\ Owing(campaign[c]) = available(campaign[c]) /\ available(campaign[c]) \in Int
  BY <1>1, <1>2, <1>3 DEF Owing, CampaignRecords, available
<1>6. CampaignMoves(c, k, alloc[c], vesting[c])
  <2>1. pot' \in Int /\ pot' - pot >= Owing(k) - Owing(campaign[c])
    BY <1>1, <1>3, <1>5
  <2> QED BY <1>1, <1>2, <1>3, <1>4, <2>1 DEF CampaignMoves
<1> QED BY <1>6, CampaignMoveKeeps

(* One for every share that is not zero: the allocations it makes.         *)
Made(share) == [r \in Recipients |-> IF share[r] = 0 THEN 0 ELSE 1]

(* u is the table with its empty row d filled from the shares; then its    *)
(* shares are pending beside what was pending.                             *)
FillsRow(c, table, d, share, u) ==
    /\ u = [table EXCEPT ![d] = [r \in Recipients |-> NewAllocation(c, share[r])]]
    /\ \A r \in Recipients : table[d][r] = NoAllocation
RowFilled(table, d, share, u) ==
    /\ u \in Tables
    /\ AmountOf(u, PendingIds(u))
         = AmountOf(table, PendingIds(table)) + Total(share, NumRecipients)
    /\ CountOf(PendingIds(u))
         = CountOf(PendingIds(table)) + Total(Made(share), NumRecipients)
    /\ \A e \in Distributions : e # d => u[e] = table[e]

(* The row is pending, and counted by its shares. *)
LEMMA NewRowCounted ==
  ASSUME CampaignInv, NEW c \in Campaigns, NEW table \in Tables, NEW d \in Distributions,
         NEW share \in [Recipients -> Nat], NEW u, FillsRow(c, table, d, share, u)
  PROVE  RowFilled(table, d, share, u)
<1> DEFINE T == {r \in Recipients : share[r] # 0}
           S == PendingIds(table)
<1>0. campaign[c] \in CampaignRecords /\ now \in Nat /\ ClaimWindow \in Nat
  BY CampaignFacts, Parameters
<1>1. ASSUME NEW r \in Recipients
      PROVE  /\ NewAllocation(c, share[r]) \in Allocations
             /\ NewAllocation(c, share[r]).amount = share[r]
             /\ NewAllocation(c, share[r]).status = "Pending" <=> share[r] # 0
  BY <1>0 DEF NewAllocation, NoAllocation, Allocations, CampaignRecords
<1>2. /\ u \in Tables
      /\ \A e \in Distributions : e # d => u[e] = table[e]
      /\ \A r \in Recipients : u[d][r] = NewAllocation(c, share[r])
  <2>1. [r \in Recipients |-> NewAllocation(c, share[r])] \in [Recipients -> Allocations]
    BY <1>1
  <2> QED BY <2>1 DEF Tables, FillsRow
<1>3. PendingIds(u) = S \cup ({d} \X T)
  <2>1. ASSUME NEW e \in Distributions, NEW r \in Recipients
        PROVE  u[e][r].status = "Pending" <=> table[e][r].status = "Pending" \/ (e = d /\ r \in T)
    <3>1. CASE e = d
      BY <3>1, <1>1, <1>2 DEF NoAllocation, FillsRow
    <3>2. CASE e # d
      BY <3>2, <1>2
    <3> QED BY <3>1, <3>2
  <2>2. ASSUME NEW id \in AllocationIds
        PROVE  id \in PendingIds(u) <=> id \in S \cup ({d} \X T)
    <3>1. PICK e \in Distributions, r \in Recipients : id = <<e, r>>
      BY DEF AllocationIds
    <3>2. id \in PendingIds(u) <=> u[e][r].status = "Pending"
      BY <3>1 DEF PendingIds, AllocationIds
    <3>3. id \in S <=> table[e][r].status = "Pending"
      BY <3>1 DEF PendingIds, AllocationIds
    <3>4. id \in {d} \X T <=> e = d /\ r \in T
      BY <3>1
    <3> QED BY <3>2, <3>3, <3>4, <2>1
  <2>3. PendingIds(u) \subseteq AllocationIds /\ S \subseteq AllocationIds /\ {d} \X T \subseteq AllocationIds
    BY DEF PendingIds, AllocationIds
  <2> QED BY <2>2, <2>3
<1>4. \A r \in Recipients : <<d, r>> \notin S
  <2>1. ASSUME NEW r \in Recipients, <<d, r>> \in S PROVE FALSE
    <3>1. table[d][r].status = "Pending"
      BY <2>1 DEF PendingIds
    <3> QED BY <3>1 DEF NoAllocation, FillsRow
  <2> QED BY <2>1
<1>5. /\ AmountGrid(table) \in AmountTables /\ AmountGrid(u) \in AmountTables /\ Ones \in AmountTables
      /\ T \in SUBSET Recipients
  BY <1>2, AmountsTyped, OnesTyped
<1>6. \A e \in Distributions : e # d => AmountGrid(u)[e] = AmountGrid(table)[e]
  BY <1>2 DEF AmountGrid
<1> DEFINE W == S \cup ({d} \X T)
<1> HIDE DEF S, T
<1>w. W = S \cup ({d} \X T)
  OBVIOUS
<1>a. GainsRow(AmountGrid(table), AmountGrid(u), S, d, T, W) /\ GainsRow(Ones, Ones, S, d, T, W)
  BY <1>w, <1>4, <1>6 DEF GainsRow
<1> HIDE DEF W
<1>7. SumAt(AmountGrid(u), W)
        = SumAt(AmountGrid(table), S) + Total(NewRow(AmountGrid(u), d, T), NumRecipients)
  BY <1>a, <1>5, SumAtNewRow
<1>8. SumAt(Ones, W) = SumAt(Ones, S) + Total(NewRow(Ones, d, T), NumRecipients)
  BY <1>a, <1>5, SumAtNewRow
<1>9. NewRow(AmountGrid(u), d, T) = share
  <2>1. ASSUME NEW r \in Recipients PROVE (IF r \in T THEN AmountGrid(u)[d][r] ELSE 0) = share[r]
    BY <1>1, <1>2 DEF AmountGrid, T
  <2> QED BY <2>1 DEF NewRow
<1>10. NewRow(Ones, d, T) = Made(share)
  BY DEF NewRow, Ones, T, Made
<1> QED BY <1>2, <1>3, <1>w, <1>7, <1>8, <1>9, <1>10 DEF AmountOf, CountOf, S, RowFilled

(* A distribution allocates exactly what it takes from what is available.  *)
LEMMA DistributeKeeps ==
  ASSUME CampaignInv, NEW c \in Campaigns, NEW total \in Deposits,
         NEW w \in [Recipients -> Weights \cup {0}], distribute(c, total, w)
  PROVE  CampaignInv'
<1> DEFINE share == split_by_weight(total, w)
           d == campaign[c].distributions + 1
           made == Total(Made(share), NumRecipients)
           table == alloc[c]
           v == vesting[c]
           u == [table EXCEPT ![d] = [r \in Recipients |-> NewAllocation(c, share[r])]]
           k == [campaign[c] EXCEPT !.allocated = @ + total, !.pending = @ + made,
                                    !.distributions = d]
<1>1. /\ campaign[c] \in CampaignRecords /\ table \in Tables /\ v \in Vestings
      /\ Sound(campaign[c], table, v) /\ pot \in Int
      /\ alloc = [alloc EXCEPT ![c] = table] /\ vesting = [vesting EXCEPT ![c] = v]
  BY CampaignFacts
<1>2. /\ campaign[c].status = "Open" /\ total <= available(campaign[c]) /\ d <= MaxDistributions
      /\ \E r \in Recipients : w[r] # 0
      /\ campaign' = [campaign EXCEPT ![c] = k] /\ alloc' = [alloc EXCEPT ![c] = u]
      /\ now' = now /\ vesting' = vesting /\ pot' = pot
  BY <1>1 DEF distribute, load_open, CampaignInv, CampaignTypeOK, Made
<1>3. total \in Nat /\ w \in WeightLists
  <2>1. \A a \in Weights : a \in Nat
    BY Parameters
  <2>2. w \in [Recipients -> Nat]
    BY <2>1
  <2> QED BY <1>2, <2>2, Parameters DEF WeightLists
<1>4. share \in [Recipients -> Nat] /\ Total(share, NumRecipients) = total
  BY <1>3, SplitIsExact
<1>5. campaign[c].distributions \in Nat /\ d \in Distributions
  BY <1>1, <1>2, Parameters DEF CampaignRecords, Distributions
<1>6. \A e \in Distributions : e > campaign[c].distributions
        => \A r \in Recipients : table[e][r] = NoAllocation
  BY <1>1 DEF Sound
<1>7. \A r \in Recipients : table[d][r] = NoAllocation
  BY <1>5, <1>6
<1>8. made \in Nat
  <2>1. Made(share) \in [1..NumRecipients -> Nat]
    BY DEF Made, Recipients
  <2> HIDE DEF share
  <2> QED BY <2>1, Parameters, TotalNat
<1> HIDE DEF share
<1>9. /\ u \in Tables
      /\ AmountOf(u, PendingIds(u)) = AmountOf(table, PendingIds(table)) + total
      /\ CountOf(PendingIds(u)) = CountOf(PendingIds(table)) + made
      /\ \A e \in Distributions : e # d => u[e] = table[e]
  <2> DEFINE uu == u
  <2>1. FillsRow(c, table, d, share, uu)
    BY <1>7 DEF FillsRow
  <2> HIDE DEF uu, d, table
  <2>2. RowFilled(table, d, share, uu)
    BY <1>1, <1>4, <1>5, <2>1, NewRowCounted
  <2> QED BY <2>2, <1>4 DEF uu, RowFilled
<1> HIDE DEF made, u
<1>10. /\ k \in CampaignRecords /\ k.status = "Open" /\ k.budget = campaign[c].budget
       /\ k.allocated = campaign[c].allocated + total /\ k.claimed = campaign[c].claimed
       /\ k.expired = campaign[c].expired /\ k.pending = campaign[c].pending + made
       /\ k.distributions = d
  <2>1. d \in Nat /\ campaign[c].allocated + total \in Nat /\ campaign[c].pending + made \in Int
    BY <1>1, <1>3, <1>5, <1>8 DEF CampaignRecords
  <2> HIDE DEF d
  <2> QED BY <1>1, <1>2, <2>1 DEF CampaignRecords
<1> HIDE DEF k
<1>11. /\ outstanding(k) = outstanding(campaign[c]) + total
       /\ available(k) = available(campaign[c]) - total
       /\ outstanding(campaign[c]) \in Int /\ available(campaign[c]) \in Int
  BY <1>1, <1>3, <1>10 DEF outstanding, available, CampaignRecords
<1>12. AmountOf(table, PendingIds(table)) \in Nat /\ CountOf(PendingIds(table)) \in Nat
  BY <1>1, SumsTyped
<1>13. Counted(campaign[c], table, v) /\ v.claimed <= v.total
  BY <1>1, <1>2 DEF Sound
<1>14. Counted(k, u, v)
  <2>1. v.claimed \in Nat /\ v.total \in Nat /\ campaign[c].pending \in Int
    BY <1>1 DEF Vestings, CampaignRecords
  <2>2. outstanding(k) = AmountOf(u, PendingIds(u)) + v.total - v.claimed
    BY <1>9, <1>11, <1>12, <1>13, <2>1, <1>3 DEF Counted
  <2>3. k.pending = CountOf(PendingIds(u)) + (IF v.claimed < v.total THEN 1 ELSE 0)
    BY <1>9, <1>10, <1>12, <1>13, <2>1, <1>8 DEF Counted
  <2>4. outstanding(k) >= 0 /\ available(k) >= 0
    BY <1>11, <1>13, <1>2, <1>3 DEF Counted
  <2> QED BY <2>2, <2>3, <2>4 DEF Counted
<1>15. Sound(k, u, v)
  <2>1. ASSUME NEW e \in Distributions, e > k.distributions
        PROVE  \A r \in Recipients : u[e][r] = NoAllocation
    <3>1. e # d /\ e > campaign[c].distributions
      BY <2>1, <1>5, <1>10 DEF Distributions
    <3> HIDE DEF d
    <3> QED BY <3>1, <1>6, <1>9
  <2> QED BY <2>1, <1>10, <1>13, <1>14 DEF Sound
<1>16. Owing(k) = Owing(campaign[c]) /\ Owing(k) \in Int
  <2>1. Owing(k) = outstanding(k) + available(k)
        /\ Owing(campaign[c]) = outstanding(campaign[c]) + available(campaign[c])
    BY <1>2, <1>10 DEF Owing
  <2> QED BY <2>1, <1>11, <1>3
<1>17. CampaignMoves(c, k, u, v)
  <2>1. pot' \in Int /\ pot' - pot >= Owing(k) - Owing(campaign[c])
    BY <1>1, <1>2, <1>16
  <2> QED BY <1>1, <1>2, <1>9, <1>10, <1>15, <2>1 DEF CampaignMoves
<1> QED BY <1>17, CampaignMoveKeeps

(* Settling pending allocations takes exactly them out of what is pending. *)
IdsSettled(table, ids, u) ==
    /\ u \in Tables
    /\ AmountOf(u, PendingIds(u)) = AmountOf(table, PendingIds(table)) - AmountOf(table, ids)
    /\ CountOf(PendingIds(u)) = CountOf(PendingIds(table)) - CountOf(ids)
    /\ \A d \in Distributions : \A r \in Recipients :
         table[d][r] = NoAllocation => u[d][r] = NoAllocation

(* Settled pending allocations are taken out of the sums. *)
LEMMA SettledCounted ==
  ASSUME NEW table \in Tables, NEW ids, ids \subseteq PendingIds(table),
         NEW st \in {"Claimed", "Expired"}
  PROVE  IdsSettled(table, ids, Settled(table, ids, st))
<1> DEFINE u == Settled(table, ids, st)
           S == PendingIds(table)
<1>1. ASSUME NEW d \in Distributions, NEW r \in Recipients
      PROVE  /\ u[d][r] \in Allocations /\ table[d][r] \in Allocations
             /\ u[d][r].amount = table[d][r].amount
             /\ u[d][r].status = IF <<d, r>> \in ids THEN st ELSE table[d][r].status
             /\ <<d, r>> \notin ids => u[d][r] = table[d][r]
  <2>1. u[d][r] = IF <<d, r>> \in ids THEN [table[d][r] EXCEPT !.status = st] ELSE table[d][r]
    BY DEF Settled
  <2>2. table[d][r] \in Allocations
    BY DEF Tables
  <2> QED BY <2>1, <2>2 DEF Allocations
<1>2. u \in Tables
  <2>1. u = [d \in Distributions |-> [r \in Recipients |-> u[d][r]]]
    BY DEF Settled
  <2> HIDE DEF u
  <2> QED BY <1>1, <2>1 DEF Tables
<1>3. PendingIds(u) = S \ ids
  <2>1. ASSUME NEW id \in AllocationIds PROVE id \in PendingIds(u) <=> id \in S \ ids
    <3>1. PICK d \in Distributions, r \in Recipients : id = <<d, r>>
      BY DEF AllocationIds
    <3>2. id \in PendingIds(u) <=> u[d][r].status = "Pending"
      BY <3>1 DEF PendingIds, AllocationIds
    <3>3. id \in S <=> table[d][r].status = "Pending"
      BY <3>1 DEF PendingIds, AllocationIds
    <3>4. u[d][r].status = IF <<d, r>> \in ids THEN st ELSE table[d][r].status
      BY <1>1
    <3> HIDE DEF u, S
    <3> QED BY <3>1, <3>2, <3>3, <3>4
  <2>2. PendingIds(u) \subseteq AllocationIds /\ S \subseteq AllocationIds
    BY DEF PendingIds
  <2> QED BY <2>1, <2>2
<1>4. ASSUME NEW d \in Distributions, NEW r \in Recipients, table[d][r] = NoAllocation
      PROVE  u[d][r] = NoAllocation
  <2>1. <<d, r>> \notin ids
    <3>1. ASSUME <<d, r>> \in ids PROVE FALSE
      <4>1. table[d][r].status = "Pending"
        BY <3>1 DEF PendingIds
      <4> QED BY <4>1, <1>4 DEF NoAllocation
    <3> QED BY <3>1
  <2> QED BY <2>1, <1>1, <1>4
<1>5. AmountGrid(u) = AmountGrid(table)
  BY <1>1 DEF AmountGrid
<1> HIDE DEF u
<1>6. AmountOf(table, S) = AmountOf(table, S \ ids) + AmountOf(table, ids)
  BY AmountsTyped, SumAtWithout DEF AmountOf
<1>7. CountOf(S) = CountOf(S \ ids) + CountOf(ids)
  BY OnesTyped, SumAtWithout DEF CountOf
<1>8. /\ AmountOf(table, S \ ids) \in Nat /\ AmountOf(table, ids) \in Nat
      /\ CountOf(S \ ids) \in Nat /\ CountOf(ids) \in Nat
  BY SumsTyped
<1>9. AmountOf(u, PendingIds(u)) = AmountOf(table, S \ ids)
  BY <1>3, <1>5 DEF AmountOf
<1>10. AmountOf(u, PendingIds(u)) = AmountOf(table, S) - AmountOf(table, ids)
  BY <1>6, <1>8, <1>9
<1>11. CountOf(PendingIds(u)) = CountOf(S) - CountOf(ids)
  BY <1>3, <1>7, <1>8
<1>12. IdsSettled(table, ids, u)
  BY <1>2, <1>4, <1>10, <1>11 DEF IdsSettled
<1> QED BY <1>12 DEF u

(* The records k of a campaign after allocations worth a were claimed      *)
(* (given = a) or expired (given = 0): its counters move with the table.   *)
SettledSound(k0, k, table, u, v, a, n, given) ==
    /\ k \in CampaignRecords /\ k.status = "Open" /\ k.budget = k0.budget
    /\ k.allocated = k0.allocated /\ k.distributions = k0.distributions
    /\ k.claimed = k0.claimed + given /\ k.expired = k0.expired + (a - given)
    /\ k.pending = k0.pending - n
    /\ AmountOf(u, PendingIds(u)) = AmountOf(table, PendingIds(table)) - a
    /\ CountOf(PendingIds(u)) = CountOf(PendingIds(table)) - n
    /\ \A d \in Distributions : \A r \in Recipients :
         table[d][r] = NoAllocation => u[d][r] = NoAllocation

(* So what is counted stays counted, and only what was paid is owed no     *)
(* more.                                                                   *)
LEMMA SettleMoves ==
  ASSUME CampaignInv, NEW c \in Campaigns, campaign[c].status = "Open",
         NEW u \in Tables, NEW k, NEW a \in Nat, NEW n \in Nat, NEW paidOut \in {0, a},
         SettledSound(campaign[c], k, alloc[c], u, vesting[c], a, n, paidOut)
  PROVE  Sound(k, u, vesting[c]) /\ Owing(k) = Owing(campaign[c]) - paidOut /\ Owing(k) \in Int
<1> DEFINE k0 == campaign[c]
           table == alloc[c]
           v == vesting[c]
<1>1. k0 \in CampaignRecords /\ table \in Tables /\ v \in Vestings /\ Sound(k0, table, v)
  BY CampaignFacts
<1>2. Counted(k0, table, v) /\ v.claimed <= v.total
  BY <1>1 DEF Sound
<1> HIDE DEF k0, table, v
<1>3. SettledSound(k0, k, table, u, v, a, n, paidOut) /\ k0.status = "Open"
  BY DEF k0, table, v
<1>4. /\ k0.allocated \in Nat /\ k0.claimed \in Nat /\ k0.expired \in Nat /\ k0.budget \in Nat
      /\ k0.pending \in Int /\ v.total \in Nat /\ v.claimed \in Nat
  BY <1>1 DEF CampaignRecords, Vestings
<1>5. /\ outstanding(k) = outstanding(k0) - a /\ available(k) = available(k0) + (a - paidOut)
      /\ outstanding(k0) \in Int /\ available(k0) \in Int
  BY <1>3, <1>4 DEF SettledSound, outstanding, available
<1>6. AmountOf(u, PendingIds(u)) \in Nat /\ CountOf(PendingIds(u)) \in Nat
      /\ AmountOf(table, PendingIds(table)) \in Nat /\ CountOf(PendingIds(table)) \in Nat
  BY <1>1, SumsTyped
<1>7. Counted(k, u, v)
  <2>1. outstanding(k) = AmountOf(u, PendingIds(u)) + v.total - v.claimed
    BY <1>2, <1>3, <1>4, <1>5, <1>6 DEF Counted, SettledSound
  <2>2. k.pending = CountOf(PendingIds(u)) + (IF v.claimed < v.total THEN 1 ELSE 0)
    BY <1>2, <1>3, <1>4, <1>6 DEF Counted, SettledSound
  <2>3. outstanding(k) >= 0
    BY <2>1, <1>2, <1>4, <1>6
  <2>4. available(k) >= 0
    BY <1>2, <1>5 DEF Counted
  <2> QED BY <2>1, <2>2, <2>3, <2>4 DEF Counted
<1>8. Sound(k, u, v)
  <2>1. \A d \in Distributions : d > k.distributions =>
          \A r \in Recipients : u[d][r] = NoAllocation
    BY <1>1, <1>3 DEF Sound, SettledSound
  <2> QED BY <2>1, <1>2, <1>3, <1>7 DEF Sound, SettledSound
<1>9. Owing(k) = Owing(k0) - paidOut /\ Owing(k) \in Int
  <2>1. Owing(k) = outstanding(k) + available(k) /\ Owing(k0) = outstanding(k0) + available(k0)
    BY <1>3 DEF Owing, SettledSound
  <2> QED BY <2>1, <1>5
<1> QED BY <1>8, <1>9 DEF k0, v

(* A claim pays what it takes out of what is outstanding. *)
LEMMA ClaimKeeps ==
  ASSUME CampaignInv, NEW c \in Campaigns, NEW r \in Recipients,
         NEW ids \in SUBSET AllocationIds, claim(c, r, ids)
  PROVE  CampaignInv'
<1> DEFINE table == alloc[c]
           v == vesting[c]
           a == AmountOf(table, ids)
           n == CountOf(ids)
           u == Settled(table, ids, "Claimed")
           k == [campaign[c] EXCEPT !.claimed = @ + a, !.pending = @ - n]
<1>1. /\ campaign[c] \in CampaignRecords /\ table \in Tables /\ v \in Vestings
      /\ pot \in Int /\ vesting = [vesting EXCEPT ![c] = v]
  BY CampaignFacts
<1>2. /\ campaign[c].status = "Open"
      /\ campaign' = [campaign EXCEPT ![c] = k] /\ alloc' = [alloc EXCEPT ![c] = u]
      /\ now' = now /\ vesting' = vesting /\ pot' = pot - a
  BY <1>1 DEF claim, load_open, CampaignInv, CampaignTypeOK
<1>3. ids \subseteq PendingIds(table)
  BY DEF claim, Claimable, PendingIds
<1>4. IdsSettled(table, ids, u)
  BY <1>1, <1>3, SettledCounted
<1>5. a \in Nat /\ n \in Nat
  BY <1>1, SumsTyped
<1> HIDE DEF a, n, u
<1>6. /\ k \in CampaignRecords /\ k.status = "Open" /\ k.budget = campaign[c].budget
      /\ k.allocated = campaign[c].allocated /\ k.distributions = campaign[c].distributions
      /\ k.claimed = campaign[c].claimed + a /\ k.expired = campaign[c].expired
      /\ k.pending = campaign[c].pending - n
  <2>1. campaign[c].claimed + a \in Nat /\ campaign[c].pending - n \in Int
    BY <1>1, <1>5 DEF CampaignRecords
  <2> QED BY <1>1, <1>2, <2>1 DEF CampaignRecords
<1> HIDE DEF k
<1>7. SettledSound(campaign[c], k, table, u, v, a, n, a)
  <2>1. campaign[c].expired = campaign[c].expired + (a - a)
    BY <1>1, <1>5 DEF CampaignRecords
  <2> QED BY <1>4, <1>6, <2>1 DEF SettledSound, IdsSettled, a, n
<1>8. u \in Tables
  BY <1>4 DEF IdsSettled
<1>9. Sound(k, u, v) /\ Owing(k) = Owing(campaign[c]) - a /\ Owing(k) \in Int
  BY <1>2, <1>5, <1>7, <1>8, SettleMoves
<1>10. CampaignMoves(c, k, u, v)
  <2>1. Owing(campaign[c]) \in Int
    BY <1>1, OwingTyped
  <2>2. pot' \in Int /\ pot' - pot >= Owing(k) - Owing(campaign[c])
    BY <1>1, <1>2, <1>5, <1>9, <2>1
  <2> QED BY <1>1, <1>2, <1>6, <1>8, <1>9, <2>2 DEF CampaignMoves
<1> QED BY <1>10, CampaignMoveKeeps

(* What expires is available again. *)
LEMMA ExpireKeeps ==
  ASSUME CampaignInv, NEW c \in Campaigns, NEW ids \in SUBSET AllocationIds,
         expire_allocations(c, ids)
  PROVE  CampaignInv'
<1> DEFINE table == alloc[c]
           v == vesting[c]
           a == AmountOf(table, ids)
           n == CountOf(ids)
           u == Settled(table, ids, "Expired")
           k == [campaign[c] EXCEPT !.expired = @ + a, !.pending = @ - n]
<1>1. /\ campaign[c] \in CampaignRecords /\ table \in Tables /\ v \in Vestings
      /\ pot \in Int /\ vesting = [vesting EXCEPT ![c] = v]
  BY CampaignFacts
<1>2. /\ campaign[c].status = "Open"
      /\ campaign' = [campaign EXCEPT ![c] = k] /\ alloc' = [alloc EXCEPT ![c] = u]
      /\ now' = now /\ vesting' = vesting /\ pot' = pot
  BY <1>1 DEF expire_allocations, load_open, CampaignInv, CampaignTypeOK
<1>3. ids \subseteq PendingIds(table)
  BY DEF expire_allocations
<1>4. IdsSettled(table, ids, u)
  BY <1>1, <1>3, SettledCounted
<1>5. a \in Nat /\ n \in Nat
  BY <1>1, SumsTyped
<1> HIDE DEF a, n, u
<1>6. /\ k \in CampaignRecords /\ k.status = "Open" /\ k.budget = campaign[c].budget
      /\ k.allocated = campaign[c].allocated /\ k.distributions = campaign[c].distributions
      /\ k.claimed = campaign[c].claimed /\ k.expired = campaign[c].expired + a
      /\ k.pending = campaign[c].pending - n
  <2>1. campaign[c].expired + a \in Nat /\ campaign[c].pending - n \in Int
    BY <1>1, <1>5 DEF CampaignRecords
  <2> QED BY <1>1, <1>2, <2>1 DEF CampaignRecords
<1> HIDE DEF k
<1>7. SettledSound(campaign[c], k, table, u, v, a, n, 0)
  <2>1. campaign[c].claimed = campaign[c].claimed + 0 /\ a - 0 = a
    BY <1>1, <1>5 DEF CampaignRecords
  <2> QED BY <1>4, <1>6, <2>1 DEF SettledSound, IdsSettled, a, n
<1>8. u \in Tables
  BY <1>4 DEF IdsSettled
<1>9. Sound(k, u, v) /\ Owing(k) = Owing(campaign[c]) - 0 /\ Owing(k) \in Int
  BY <1>2, <1>5, <1>7, <1>8, SettleMoves
<1>10. CampaignMoves(c, k, u, v)
  <2>1. Owing(campaign[c]) \in Int
    BY <1>1, OwingTyped
  <2>2. pot' \in Int /\ pot' - pot >= Owing(k) - Owing(campaign[c])
    BY <1>1, <1>2, <1>9, <2>1
  <2> QED BY <1>1, <1>2, <1>6, <1>8, <1>9, <2>2 DEF CampaignMoves
<1> QED BY <1>10, CampaignMoveKeeps

(* A schedule is allocated from what is available, and pending as one. *)
LEMMA CreateVestingKeeps ==
  ASSUME CampaignInv, NEW c \in Campaigns, NEW r \in Recipients, NEW total \in Deposits,
         create_vesting_allocation(c, r, total)
  PROVE  CampaignInv'
<1> DEFINE table == alloc[c]
           v == [to |-> r, total |-> total, start |-> now, claimed |-> 0]
           k == [campaign[c] EXCEPT !.allocated = @ + total, !.pending = @ + 1]
<1>1. /\ campaign[c] \in CampaignRecords /\ table \in Tables /\ now \in Nat
      /\ Sound(campaign[c], table, vesting[c])
      /\ pot \in Int /\ alloc = [alloc EXCEPT ![c] = table]
  BY CampaignFacts
<1>2. /\ campaign[c].status = "Open" /\ total <= available(campaign[c]) /\ vesting[c] = NoVesting
      /\ campaign' = [campaign EXCEPT ![c] = k] /\ vesting' = [vesting EXCEPT ![c] = v]
      /\ now' = now /\ alloc' = alloc /\ pot' = pot
  BY DEF create_vesting_allocation, load_open
<1>3. total \in Nat /\ total > 0
  BY Parameters
<1>4. v \in Vestings /\ v.total = total /\ v.claimed = 0
  BY <1>1, <1>3 DEF Vestings, Recipients
<1> HIDE DEF v
<1>5. /\ k \in CampaignRecords /\ k.status = "Open" /\ k.budget = campaign[c].budget
      /\ k.allocated = campaign[c].allocated + total /\ k.claimed = campaign[c].claimed
      /\ k.expired = campaign[c].expired /\ k.pending = campaign[c].pending + 1
      /\ k.distributions = campaign[c].distributions
  <2>1. campaign[c].allocated + total \in Nat /\ campaign[c].pending + 1 \in Int
    BY <1>1, <1>3 DEF CampaignRecords
  <2> QED BY <1>1, <1>2, <2>1 DEF CampaignRecords
<1> HIDE DEF k
<1>6. /\ outstanding(k) = outstanding(campaign[c]) + total
      /\ available(k) = available(campaign[c]) - total
      /\ outstanding(campaign[c]) \in Int /\ available(campaign[c]) \in Int
  BY <1>1, <1>3, <1>5 DEF outstanding, available, CampaignRecords
<1>7. AmountOf(table, PendingIds(table)) \in Nat /\ CountOf(PendingIds(table)) \in Nat
  BY <1>1, SumsTyped
<1>8. /\ outstanding(campaign[c]) = AmountOf(table, PendingIds(table))
      /\ campaign[c].pending = CountOf(PendingIds(table))
      /\ outstanding(campaign[c]) >= 0 /\ available(campaign[c]) >= 0
  BY <1>1, <1>2, <1>7 DEF Sound, Counted, NoVesting
<1>9. Counted(k, table, v)
  <2>1. outstanding(k) = AmountOf(table, PendingIds(table)) + v.total - v.claimed
    BY <1>3, <1>4, <1>6, <1>7, <1>8
  <2>2. k.pending = CountOf(PendingIds(table)) + (IF v.claimed < v.total THEN 1 ELSE 0)
    BY <1>3, <1>4, <1>5, <1>7, <1>8
  <2>3. outstanding(k) >= 0 /\ available(k) >= 0
    BY <1>2, <1>3, <1>6, <1>8
  <2> QED BY <2>1, <2>2, <2>3 DEF Counted
<1>10. Sound(k, table, v)
  BY <1>1, <1>3, <1>4, <1>5, <1>9 DEF Sound
<1>11. Owing(k) = Owing(campaign[c]) /\ Owing(k) \in Int
  <2>1. Owing(k) = outstanding(k) + available(k)
        /\ Owing(campaign[c]) = outstanding(campaign[c]) + available(campaign[c])
    BY <1>2, <1>5 DEF Owing
  <2> QED BY <2>1, <1>6, <1>3
<1>12. CampaignMoves(c, k, table, v)
  <2>1. pot' \in Int /\ pot' - pot >= Owing(k) - Owing(campaign[c])
    BY <1>1, <1>2, <1>11
  <2> QED BY <1>1, <1>2, <1>4, <1>5, <1>10, <2>1 DEF CampaignMoves
<1> QED BY <1>12, CampaignMoveKeeps

(* Never more than the total of a schedule is vested. *)
LEMMA VestedBounded ==
  ASSUME NEW v \in Vestings, now \in Nat
  PROVE  vested_amount(v) \in Nat /\ vested_amount(v) <= v.total
<1>1. v.total \in Nat /\ v.start \in Nat /\ VestSecs \in Nat \ {0} /\ CliffSecs \in Nat
  BY Parameters DEF Vestings
<1>2. CASE now < v.start + CliffSecs \/ now >= v.start + VestSecs
  BY <1>1, <1>2 DEF vested_amount
<1>3. CASE ~(now < v.start + CliffSecs \/ now >= v.start + VestSecs)
  <2>1. PICK e \in Nat : e = now - v.start /\ e < VestSecs
    BY <1>1, <1>3
  <2>2. PICK t \in Nat : t = v.total
    BY <1>1
  <2>3. vested_amount(v) = (t * e) \div VestSecs
    BY <1>3, <2>1, <2>2, <1>1 DEF vested_amount
  <2>4. PICK x \in Nat : x = t * e
    BY ProductNat
  <2>5. x \div VestSecs \in Nat /\ VestSecs * (x \div VestSecs) <= x
    BY <1>1, DivRoundsDown
  <2>6. PICK q \in Nat : q = x \div VestSecs /\ VestSecs * q <= t * e
    BY <2>4, <2>5
  <2>7. PICK s \in Nat : VestSecs = e + s /\ s >= 1
    <3>1. VestSecs - e \in Nat /\ VestSecs = e + (VestSecs - e) /\ VestSecs - e >= 1
      BY <1>1, <2>1
    <3> QED BY <3>1
  <2>8. ASSUME q > t PROVE FALSE
    <3>1. PICK y \in Nat : q = t + y /\ y >= 1
      <4>1. q - t \in Nat /\ q = t + (q - t) /\ q - t >= 1
        BY <2>8
      <4> QED BY <4>1
    <3>2. (e + s) * (t + y) = t * e + (e * y + s * t) + s * y
      OBVIOUS
    <3>3. s * y >= 1
      BY <2>7, <3>1
    <3>4. e * y \in Nat /\ s * t \in Nat /\ s * y \in Nat /\ t * e \in Nat
      BY ProductNat
    <3>5. VestSecs * q = (e + s) * (t + y)
      BY <2>7, <3>1
    <3> QED BY <2>6, <3>2, <3>3, <3>4, <3>5
  <2> QED BY <2>2, <2>3, <2>4, <2>6, <2>8
<1> QED BY <1>2, <1>3

(* A schedule pays what vested and is pending until it paid its total. *)
LEMMA ClaimVestingKeeps ==
  ASSUME CampaignInv, NEW c \in Campaigns, claim_vesting(c)
  PROVE  CampaignInv'
<1> DEFINE table == alloc[c]
           v0 == vesting[c]
           payout == vested_amount(v0) - v0.claimed
           settles == v0.claimed + payout >= v0.total
           rest == IF settles THEN campaign[c].pending - 1 ELSE campaign[c].pending
           v == [v0 EXCEPT !.claimed = @ + payout]
           k == [campaign[c] EXCEPT !.claimed = @ + payout, !.pending = rest]
<1>1. /\ campaign[c] \in CampaignRecords /\ table \in Tables /\ v0 \in Vestings
      /\ Sound(campaign[c], table, v0) /\ now \in Nat
      /\ pot \in Int /\ alloc = [alloc EXCEPT ![c] = table]
  BY CampaignFacts
<1>2. /\ campaign[c].status = "Open" /\ payout > 0
      /\ campaign' = [campaign EXCEPT ![c] = k] /\ vesting' = [vesting EXCEPT ![c] = v]
      /\ now' = now /\ alloc' = alloc /\ pot' = pot - payout
  BY <1>1 DEF claim_vesting, load_open, CampaignInv, CampaignTypeOK
<1>3. vested_amount(v0) \in Nat /\ vested_amount(v0) <= v0.total
  BY <1>1, VestedBounded
<1>4. v0.claimed \in Nat /\ v0.total \in Nat /\ payout \in Nat /\ v0.claimed + payout <= v0.total
      /\ v0.claimed < v0.total
  BY <1>1, <1>2, <1>3 DEF Vestings
<1> HIDE DEF payout
<1>5. v \in Vestings /\ v.total = v0.total /\ v.claimed = v0.claimed + payout
  BY <1>1, <1>4 DEF Vestings
<1>6. rest \in Int /\ rest = campaign[c].pending - (IF v.claimed < v.total THEN 0 ELSE 1)
      /\ campaign[c].pending \in Int
  BY <1>1, <1>4, <1>5 DEF CampaignRecords
<1> HIDE DEF v, rest
<1>7. /\ k \in CampaignRecords /\ k.status = "Open" /\ k.budget = campaign[c].budget
      /\ k.allocated = campaign[c].allocated /\ k.claimed = campaign[c].claimed + payout
      /\ k.expired = campaign[c].expired /\ k.pending = rest
      /\ k.distributions = campaign[c].distributions
  <2>1. campaign[c].claimed + payout \in Nat
    BY <1>1, <1>4 DEF CampaignRecords
  <2> QED BY <1>1, <1>2, <1>6, <2>1 DEF CampaignRecords
<1> HIDE DEF k
<1>8. /\ outstanding(k) = outstanding(campaign[c]) - payout
      /\ available(k) = available(campaign[c])
      /\ outstanding(campaign[c]) \in Int /\ available(campaign[c]) \in Int
  BY <1>1, <1>4, <1>7 DEF outstanding, available, CampaignRecords
<1>9. AmountOf(table, PendingIds(table)) \in Nat /\ CountOf(PendingIds(table)) \in Nat
  BY <1>1, SumsTyped
<1>10. Counted(campaign[c], table, v0)
  BY <1>1, <1>2 DEF Sound
<1>11. Counted(k, table, v)
  <2>1. outstanding(k) = AmountOf(table, PendingIds(table)) + v.total - v.claimed
    BY <1>4, <1>5, <1>8, <1>9, <1>10 DEF Counted
  <2>2. k.pending = CountOf(PendingIds(table)) + (IF v.claimed < v.total THEN 1 ELSE 0)
    BY <1>4, <1>5, <1>6, <1>7, <1>9, <1>10 DEF Counted
  <2>3. outstanding(k) >= 0 /\ available(k) >= 0
    BY <2>1, <1>4, <1>5, <1>8, <1>9, <1>10 DEF Counted
  <2> QED BY <2>1, <2>2, <2>3 DEF Counted
<1>12. Sound(k, table, v)
  BY <1>1, <1>4, <1>5, <1>7, <1>11 DEF Sound
<1>13. Owing(k) = Owing(campaign[c]) - payout /\ Owing(k) \in Int /\ Owing(campaign[c]) \in Int
  <2>1. Owing(k) = outstanding(k) + available(k)
        /\ Owing(campaign[c]) = outstanding(campaign[c]) + available(campaign[c])
    BY <1>2, <1>7 DEF Owing
  <2> QED BY <2>1, <1>8, <1>4
<1>14. CampaignMoves(c, k, table, v)
  <2>1. pot' \in Int /\ pot' - pot >= Owing(k) - Owing(campaign[c])
    BY <1>1, <1>2, <1>4, <1>13
  <2> QED BY <1>1, <1>2, <1>5, <1>7, <1>12, <2>1 DEF CampaignMoves
<1> QED BY <1>14, CampaignMoveKeeps

(* Time alone changes no campaign. *)
LEMMA TickKeeps ==
  ASSUME CampaignInv, CampaignTick
  PROVE  CampaignInv'
<1>1. /\ now \in Nat /\ now' = now + 1 /\ campaign' = campaign /\ alloc' = alloc
      /\ vesting' = vesting /\ pot' = pot
  BY DEF CampaignInv, CampaignTypeOK, CampaignTick
<1>2. CampaignTypeOK'
  BY <1>1 DEF CampaignInv, CampaignTypeOK
<1>3. CampaignsSound'
  BY <1>1 DEF CampaignInv, CampaignsSound
<1>4. PotCoversCampaigns'
  BY <1>1 DEF CampaignInv, PotCoversCampaigns
<1> QED BY <1>2, <1>3, <1>4 DEF CampaignInv

(* The other programs leave the campaigns alone. *)
LEMMA CampaignUnchanged ==
  ASSUME CampaignInv, UNCHANGED campaignVars
  PROVE  CampaignInv'
<1>1. /\ now' = now /\ campaign' = campaign /\ alloc' = alloc /\ vesting' = vesting /\ pot' = pot
  BY DEF campaignVars
<1>2. CampaignTypeOK'
  BY <1>1 DEF CampaignInv, CampaignTypeOK
<1>3. CampaignsSound'
  BY <1>1 DEF CampaignInv, CampaignsSound
<1>4. PotCoversCampaigns'
  BY <1>1 DEF CampaignInv, PotCoversCampaigns
<1> QED BY <1>2, <1>3, <1>4 DEF CampaignInv

(* Every call on a campaign keeps the invariant. *)
LEMMA CampaignStep ==
  ASSUME CampaignInv, CampaignNext
  PROVE  CampaignInv'
<1>1. CASE CampaignTick
  BY <1>1, TickKeeps
<1>2. ASSUME NEW c \in Campaigns, CampaignCalls(c) PROVE CampaignInv'
  BY <1>2, CreateKeeps, ActivateKeeps, CancelKeeps, CloseKeeps, FundKeeps DEF CampaignCalls
<1>3. ASSUME NEW c \in Campaigns, AllocationCalls(c) PROVE CampaignInv'
  BY <1>3, DistributeKeeps, ClaimKeeps, ExpireKeeps DEF AllocationCalls
<1>4. ASSUME NEW c \in Campaigns, VestingCalls(c) PROVE CampaignInv'
  BY <1>4, CreateVestingKeeps, ClaimVestingKeeps DEF VestingCalls
<1> QED BY <1>1, <1>2, <1>3, <1>4 DEF CampaignNext

(* Without campaigns nothing is owed. *)
LEMMA CampaignStart ==
  ASSUME CampaignIdle
  PROVE  CampaignInv
<1>1. CampaignTypeOK
  BY DEF CampaignIdle, CampaignTypeOK, CampaignRecords, NoCampaign, Tables, Allocations,
         NoAllocation, Vestings, NoVesting
<1>2. CampaignsSound
  BY DEF CampaignIdle, CampaignsSound, Sound, Fresh, NoCampaign, NoAllocation, NoVesting
<1>3. PotCoversCampaigns
  <2>1. [c \in Campaigns |-> Owing(campaign[c])] = [c \in 1..NumCampaigns |-> 0]
    BY DEF CampaignIdle, Campaigns, Owing, NoCampaign
  <2>2. NumCampaigns \in Nat
    BY Parameters
  <2>3. Total([c \in Campaigns |-> Owing(campaign[c])], NumCampaigns) = 0
    BY <2>1, <2>2, TotalZero, Zenon
  <2>4. pot = 0
    BY DEF CampaignIdle
  <2> QED BY <2>3, <2>4 DEF PotCoversCampaigns
<1> QED BY <1>1, <1>2, <1>3 DEF CampaignInv

-----------------------------------------------------------------------------
(* Fee accrual.                                                            *)

FeeStates == [acc : Nat, shares : Nat, carry : Nat, dust : Nat, deposited : Nat,
              distributed : Int, epoch : Nat]
Positions == [shares : Nat, debt : Nat, realized : Nat]

(* What a position is worth, scaled by Precision: what it realized, and    *)
(* what its shares earned above its checkpoint.                            *)
Over(x) == IF x > 0 THEN x ELSE 0
Worth(p, acc) == Precision * p.realized + Over(p.shares * acc - Precision * p.debt)

AccrualTypeOK == state \in FeeStates /\ position \in [Stakers -> Positions] /\ paid \in Nat
SharesCounted == state.shares = Total([s \in Stakers |-> position[s].shares], NumStakers)
WorthCovered ==
    Precision * paid + Precision * state.carry + state.dust
        + Total([s \in Stakers |-> Worth(position[s], state.acc)], NumStakers)
      <= Precision * state.deposited
AccrualInv == AccrualTypeOK /\ SharesCounted /\ WorthCovered

(* A worth is an amount. *)
LEMMA WorthTyped ==
  ASSUME NEW p \in Positions, NEW acc \in Nat
  PROVE  Worth(p, acc) \in Nat
<1>1. /\ p.shares \in Nat /\ p.debt \in Nat /\ p.realized \in Nat /\ Precision \in Nat
  BY Parameters DEF Positions
<1>2. PICK x \in Nat : x = Precision * p.realized
  BY <1>1, ProductNat
<1>3. PICK y \in Int : y = p.shares * acc - Precision * p.debt
  BY <1>1
<1> QED BY <1>2, <1>3 DEF Worth, Over

(* Settling moves earnings into what is realized and changes no worth.     *)
LEMMA SettleKeepsWorth ==
  ASSUME NEW p \in Positions, NEW acc \in Nat
  PROVE  /\ settle(p, acc) \in Positions /\ settle(p, acc).shares = p.shares
         /\ Worth(settle(p, acc), acc) = Worth(p, acc)
         /\ accumulated_for(p.shares, acc) <= settle(p, acc).debt
         /\ accumulated_for(p.shares, acc) \in Nat
<1> DEFINE q == settle(p, acc)
<1>1. /\ p.shares \in Nat /\ p.debt \in Nat /\ p.realized \in Nat /\ Precision \in Nat \ {0}
  BY Parameters DEF Positions
<1>2. PICK x \in Nat : x = p.shares * acc
  BY <1>1, ProductNat
<1>3. x \div Precision \in Nat /\ Precision * (x \div Precision) <= x
  BY <1>1, DivRoundsDown
<1>4. PICK a \in Nat : a = accumulated_for(p.shares, acc) /\ Precision * a <= x
  BY <1>2, <1>3 DEF accumulated_for
<1>5. CASE a <= p.debt
  BY <1>4, <1>5 DEF settle
<1>6. CASE a > p.debt
  <2>1. PICK e \in Nat : a = p.debt + e /\ e >= 1 /\ a - p.debt = e
    <3>1. a - p.debt \in Nat /\ a = p.debt + (a - p.debt) /\ a - p.debt >= 1
      BY <1>1, <1>6
    <3> QED BY <3>1
  <2>2. q = [p EXCEPT !.realized = @ + e, !.debt = a]
    <3>1. ~(accumulated_for(p.shares, acc) <= p.debt)
      BY <1>1, <1>4, <1>6
    <3>2. q = [p EXCEPT !.realized = @ + (accumulated_for(p.shares, acc) - p.debt),
                        !.debt = accumulated_for(p.shares, acc)]
      BY <3>1, Zenon DEF settle
    <3> QED BY <1>4, <2>1, <3>2
  <2>3. q \in Positions /\ q.shares = p.shares /\ q.debt = a /\ q.realized = p.realized + e
    <3>1. p.realized + e \in Nat
      BY <1>1
    <3> HIDE DEF q
    <3> QED BY <1>1, <2>2, <3>1 DEF Positions
  <2> HIDE DEF q
  <2>4. PICK pd \in Nat, pe \in Nat, pr \in Nat :
          pd = Precision * p.debt /\ pe = Precision * e /\ pr = Precision * p.realized
    BY <1>1, ProductNat
  <2>5. Precision * a = pd + pe /\ Precision * (p.realized + e) = pr + pe /\ pe >= 1
    <3>1. Precision * (p.debt + e) = Precision * p.debt + Precision * e
      BY <1>1
    <3>2. Precision * (p.realized + e) = Precision * p.realized + Precision * e
      BY <1>1
    <3>3. Precision * e >= 1
      BY <1>1, <2>1
    <3> QED BY <2>1, <2>4, <3>1, <3>2, <3>3
  <2>6. Worth(p, acc) = pr + Over(x - pd)
    BY <1>2, <2>4 DEF Worth
  <2>7. Worth(q, acc) = (pr + pe) + Over(x - (pd + pe))
    BY <1>2, <2>3, <2>5 DEF Worth
  <2>8. Worth(q, acc) = Worth(p, acc)
    BY <1>4, <2>5, <2>6, <2>7 DEF Over
  <2> QED BY <2>3, <2>8, <1>4 DEF q
<1> QED BY <1>1, <1>4, <1>5, <1>6

(* The checkpoint of a share change leaves nothing earned above it.        *)
LEMMA CheckpointCovers ==
  ASSUME NEW n \in Nat, NEW acc \in Nat
  PROVE  /\ debt_checkpoint(n, acc) \in Nat
         /\ n * acc <= Precision * debt_checkpoint(n, acc)
         /\ accumulated_for(n, acc) <= debt_checkpoint(n, acc)
<1>1. Precision \in Nat \ {0}
  BY Parameters
<1>2. PICK x \in Nat : x = n * acc
  BY ProductNat
<1>3. PICK y \in Nat : y = x + Precision - 1
  BY <1>1
<1>4. /\ y \div Precision \in Nat /\ y % Precision \in Nat
      /\ y = Precision * (y \div Precision) + (y % Precision) /\ y % Precision < Precision
      /\ x \div Precision \in Nat /\ Precision * (x \div Precision) <= x
  BY <1>1, DivRoundsDown
<1>5. debt_checkpoint(n, acc) = y \div Precision /\ accumulated_for(n, acc) = x \div Precision
  BY <1>2, <1>3 DEF debt_checkpoint, accumulated_for
<1>6. PICK g \in Nat, m \in Nat, a \in Nat : g = y \div Precision /\ m = Precision * g
        /\ a = x \div Precision
  BY <1>1, <1>4, ProductNat
<1>7. x <= m
  BY <1>1, <1>3, <1>4, <1>6
<1>8. ASSUME a > g PROVE FALSE
  <2>1. PICK e \in Nat : a = g + e /\ e >= 1
    <3>1. a - g \in Nat /\ a = g + (a - g) /\ a - g >= 1
      BY <1>8
    <3> QED BY <3>1
  <2>2. Precision * (g + e) = Precision * g + Precision * e
    BY <1>1
  <2>3. Precision * e >= 1
    BY <1>1, <2>1
  <2>4. Precision * a <= m
    BY <1>4, <1>6, <1>7, <1>1
  <2> QED BY <1>1, <1>6, <2>1, <2>2, <2>3, <2>4
<1> QED BY <1>2, <1>5, <1>6, <1>7, <1>8

(* A step that moves one position, and pays out no more than it loses.     *)
PositionMoves(s, q) ==
    /\ position' = [position EXCEPT ![s] = q] /\ q \in Positions
    /\ state' = [state EXCEPT !.shares = @ + (q.shares - position[s].shares)]
    /\ paid' \in Nat
    /\ Precision * paid' + Worth(q, state.acc) <= Precision * paid + Worth(position[s], state.acc)

(* Such a step keeps the shares counted and the worth covered. *)
LEMMA PositionMoveKeeps ==
  ASSUME AccrualInv, NEW s \in Stakers, NEW q, PositionMoves(s, q)
  PROVE  AccrualInv'
<1> DEFINE n == NumStakers
           f == [x \in 1..n |-> position[x].shares]
           h == [x \in 1..n |-> position'[x].shares]
           g == [x \in 1..n |-> Worth(position[x], state.acc)]
           l == [x \in 1..n |-> Worth(position'[x], state.acc)]
<1>1. /\ state \in FeeStates /\ position \in [Stakers -> Positions] /\ paid \in Nat
      /\ q \in Positions /\ paid' \in Nat
      /\ position' \in [Stakers -> Positions] /\ position'[s] = q
      /\ \A x \in Stakers : x # s => position'[x] = position[x]
  BY DEF AccrualInv, AccrualTypeOK, PositionMoves
<1>2. n \in Nat /\ Stakers = 1..n /\ s \in 1..n /\ Precision \in Nat
  BY Parameters DEF Stakers
<1>3. state.acc \in Nat /\ state.shares \in Nat /\ state.carry \in Nat /\ state.dust \in Nat
      /\ state.deposited \in Nat
  BY <1>1 DEF FeeStates
<1>4. /\ f \in [1..n -> Int] /\ h \in [1..n -> Int] /\ h \in [1..n -> Nat]
      /\ f[s] = position[s].shares /\ h[s] = q.shares
      /\ \A x \in 1..n : x # s => h[x] = f[x]
  BY <1>1, <1>2 DEF Positions
<1>5. /\ g \in [1..n -> Int] /\ l \in [1..n -> Int]
      /\ g[s] = Worth(position[s], state.acc) /\ l[s] = Worth(q, state.acc)
      /\ \A x \in 1..n : x # s => l[x] = g[x]
  <2>1. \A x \in 1..n : Worth(position[x], state.acc) \in Nat /\ Worth(position'[x], state.acc) \in Nat
    BY <1>1, <1>2, <1>3, WorthTyped
  <2> QED BY <1>1, <1>2, <2>1
<1>6. state.shares = Total(f, n)
  BY <1>2 DEF AccrualInv, SharesCounted
<1>7. Precision * paid + Precision * state.carry + state.dust + Total(g, n)
        <= Precision * state.deposited
  BY <1>2 DEF AccrualInv, WorthCovered
<1>h. SharesCounted' <=> state'.shares = Total(h, n)
  BY <1>2 DEF SharesCounted
<1>w. state'.acc = state.acc => (WorthCovered' <=>
        Precision * paid' + Precision * state'.carry + state'.dust + Total(l, n)
          <= Precision * state'.deposited)
  BY <1>2 DEF WorthCovered, Worth
<1> HIDE DEF f, h, g, l
<1>8. Total(h, n) = Total(f, n) + h[s] - f[s] /\ Total(h, n) \in Nat /\ Total(f, n) \in Int
  <2>1. Total(h, n) = Total(f, n) + h[s] - f[s]
    BY <1>2, <1>4, TotalChange, ZenonT(30)
  <2> QED BY <1>2, <1>4, <2>1, TotalNat, TotalInt
<1>9. Total(l, n) = Total(g, n) + l[s] - g[s] /\ Total(l, n) \in Int /\ Total(g, n) \in Int
      /\ l[s] \in Int /\ g[s] \in Int
  <2>1. Total(l, n) = Total(g, n) + l[s] - g[s]
    BY <1>2, <1>5, TotalChange, ZenonT(30)
  <2> QED BY <1>2, <1>5, <2>1, TotalInt
<1>10. /\ state' \in FeeStates /\ state'.acc = state.acc /\ state'.carry = state.carry
       /\ state'.dust = state.dust /\ state'.deposited = state.deposited
       /\ state'.shares = Total(h, n)
  <2>1. state.shares + (q.shares - position[s].shares) = Total(h, n)
    <3>1. f[s] \in Int /\ h[s] \in Int
      BY <1>2, <1>4
    <3> QED BY <1>4, <1>6, <1>8, <3>1
  <2>2. state' = [state EXCEPT !.shares = Total(h, n)]
    BY <2>1, <1>1 DEF PositionMoves, FeeStates
  <2> QED BY <2>2, <1>1, <1>8 DEF FeeStates
<1>11. WorthCovered'
  <2>1. PICK pp \in Nat, pp1 \in Nat, pc \in Nat, pd \in Nat :
          /\ pp = Precision * paid /\ pp1 = Precision * paid'
          /\ pc = Precision * state.carry /\ pd = Precision * state.deposited
    BY <1>1, <1>2, <1>3, ProductNat
  <2>2. pp1 + l[s] <= pp + g[s]
    BY <1>5, <2>1 DEF PositionMoves
  <2>3. pp + pc + state.dust + Total(g, n) <= pd
    BY <1>7, <2>1
  <2>4. pp1 + pc + state.dust + Total(l, n) <= pd
    BY <1>3, <1>9, <2>2, <2>3
  <2> QED BY <1>w, <1>10, <2>1, <2>4
<1> QED BY <1>1, <1>h, <1>10, <1>11 DEF AccrualInv, AccrualTypeOK

(* What the invariant says of one position. *)
LEMMA PositionFacts ==
  ASSUME AccrualInv, NEW s \in Stakers
  PROVE  /\ position[s] \in Positions /\ position[s].shares \in Nat
         /\ settle(position[s], state.acc) \in Positions
         /\ settle(position[s], state.acc).shares = position[s].shares
         /\ Worth(settle(position[s], state.acc), state.acc) = Worth(position[s], state.acc)
         /\ state \in FeeStates /\ state.acc \in Nat /\ paid \in Nat
<1>1. position[s] \in Positions /\ state \in FeeStates /\ state.acc \in Nat /\ paid \in Nat
  BY DEF AccrualInv, AccrualTypeOK, FeeStates
<1>2. position[s].shares \in Nat
  BY <1>1 DEF Positions
<1> QED BY <1>1, <1>2, SettleKeepsWorth

(* Shares move after settling: the checkpoint covers what they could earn. *)
LEMMA SetSharesKeeps ==
  ASSUME AccrualInv, NEW s \in Stakers, NEW n \in Nat, SetShares(s, n)
  PROVE  AccrualInv'
<1> DEFINE p == position[s]
           acc == state.acc
           r == settle(p, acc)
           g == debt_checkpoint(n, acc)
           q == [r EXCEPT !.shares = n, !.debt = g]
<1>1. /\ p \in Positions /\ r \in Positions /\ Worth(r, acc) = Worth(p, acc)
      /\ acc \in Nat /\ paid \in Nat
  BY PositionFacts
<1>2. g \in Nat /\ n * acc <= Precision * g
  BY <1>1, CheckpointCovers
<1>3. /\ position' = [position EXCEPT ![s] = q]
      /\ state' = [state EXCEPT !.shares = @ + (n - p.shares)] /\ paid' = paid
  BY DEF SetShares, AccrualInv, AccrualTypeOK
<1> HIDE DEF r, g, p, acc
<1>4. q \in Positions /\ q.shares = n /\ q.debt = g /\ q.realized = r.realized
  BY <1>1, <1>2 DEF Positions
<1> HIDE DEF q
<1>5. Worth(q, acc) <= Worth(r, acc)
  <2>1. Precision \in Nat /\ r.realized \in Nat /\ r.shares \in Nat /\ r.debt \in Nat
    BY <1>1, Parameters DEF Positions
  <2>2. PICK x \in Nat, y \in Nat, z \in Nat, w \in Int :
          x = n * acc /\ y = Precision * g /\ z = Precision * r.realized
            /\ w = r.shares * acc - Precision * r.debt
    BY <1>1, <1>2, <2>1, ProductNat
  <2>3. Worth(q, acc) = z + Over(x - y) /\ Worth(r, acc) = z + Over(w) /\ x <= y
    BY <1>2, <1>4, <2>2 DEF Worth
  <2> QED BY <2>2, <2>3 DEF Over
<1>6. PositionMoves(s, q)
  <2>1. Precision * paid \in Nat /\ Worth(q, acc) \in Nat /\ Worth(p, acc) \in Nat
    BY <1>1, <1>4, WorthTyped, ProductNat, Parameters
  <2>2. Precision * paid' + Worth(q, acc) <= Precision * paid + Worth(p, acc)
    BY <1>1, <1>3, <1>5, <2>1
  <2> QED BY <1>1, <1>3, <1>4, <2>2 DEF PositionMoves, p, acc
<1> QED BY <1>6, PositionMoveKeeps

(* A claim pays what it takes out of the worth of a position. *)
LEMMA ClaimFeesKeeps ==
  ASSUME AccrualInv, NEW s \in Stakers, claim_fees(s)
  PROVE  AccrualInv'
<1> DEFINE p == position[s]
           acc == state.acc
           r == settle(p, acc)
           q == [r EXCEPT !.realized = 0]
<1>1. /\ p \in Positions /\ r \in Positions /\ Worth(r, acc) = Worth(p, acc) /\ r.shares = p.shares
      /\ acc \in Nat /\ paid \in Nat /\ state \in FeeStates
  BY PositionFacts
<1>2. position' = [position EXCEPT ![s] = q] /\ state' = state /\ paid' = paid + r.realized
  BY DEF claim_fees, pending_fees, AccrualInv, AccrualTypeOK
<1> HIDE DEF r, p, acc
<1>3. /\ q \in Positions /\ q.shares = r.shares /\ q.debt = r.debt /\ q.realized = 0
      /\ r.realized \in Nat /\ r.shares \in Nat /\ r.debt \in Nat
  BY <1>1 DEF Positions
<1> HIDE DEF q
<1>4. Precision \in Nat
  BY Parameters
<1>5. PICK y \in Nat, z \in Nat, w \in Int :
        z = Precision * r.realized /\ y = Precision * paid /\ w = r.shares * acc - Precision * r.debt
  <2>1. /\ Precision * r.realized \in Nat /\ Precision * paid \in Nat
        /\ r.shares * acc \in Nat /\ Precision * r.debt \in Nat
    BY <1>1, <1>3, <1>4, ProductNat
  <2>2. r.shares * acc - Precision * r.debt \in Int
    BY <2>1
  <2> QED BY <2>1, <2>2
<1>6. Worth(q, acc) = Over(w) /\ Worth(r, acc) = z + Over(w) /\ Over(w) \in Nat
  <2>1. Precision * 0 = 0
    BY <1>4
  <2> QED BY <1>3, <1>5, <2>1 DEF Worth, Over
<1>7. Precision * paid' = y + z
  <2>1. Precision * (paid + r.realized) = Precision * paid + Precision * r.realized
    BY <1>1, <1>3, <1>4
  <2> QED BY <1>2, <1>5, <2>1
<1>8. PositionMoves(s, q)
  <2>1. Precision * paid' + Worth(q, acc) <= Precision * paid + Worth(p, acc)
    BY <1>1, <1>5, <1>6, <1>7
  <2>2. state' = [state EXCEPT !.shares = @ + (q.shares - p.shares)]
    <3>1. state.shares \in Nat /\ p.shares \in Nat /\ q.shares = p.shares
      BY <1>1, <1>3 DEF FeeStates, Positions
    <3>2. state.shares + (q.shares - p.shares) = state.shares
      BY <3>1
    <3>3. state = [state EXCEPT !.shares = state.shares]
      BY <1>1 DEF FeeStates
    <3> QED BY <1>2, <3>2, <3>3
  <2>3. paid' \in Nat
    BY <1>1, <1>2, <1>3
  <2> QED BY <1>2, <1>3, <2>1, <2>2, <2>3 DEF PositionMoves, p, acc
<1> QED BY <1>8, PositionMoveKeeps

(* A deposit raises the worth of a position by what its shares earn.       *)
LEMMA WorthGrows ==
  ASSUME NEW p \in Positions, NEW acc \in Nat, NEW delta \in Nat
  PROVE  Worth(p, acc + delta) <= Worth(p, acc) + delta * p.shares
<1>1. p.shares \in Nat /\ p.debt \in Nat /\ p.realized \in Nat /\ Precision \in Nat
  BY Parameters DEF Positions
<1>2. PICK a \in Nat, d \in Nat, b \in Nat, z \in Nat :
        /\ a = p.shares * acc /\ d = delta * p.shares /\ b = Precision * p.debt
        /\ z = Precision * p.realized
  BY <1>1, ProductNat
<1>3. p.shares * (acc + delta) = a + d
  <2>1. p.shares * (acc + delta) = p.shares * acc + delta * p.shares
    BY <1>1
  <2> QED BY <2>1, <1>2
<1>4. Worth(p, acc + delta) = z + Over((a + d) - b) /\ Worth(p, acc) = z + Over(a - b)
  BY <1>2, <1>3 DEF Worth
<1>5. Worth(p, acc + delta) <= Worth(p, acc) + d
  BY <1>4, <1>2 DEF Over
<1> QED BY <1>2, <1>5

(* A deposit: what it adds to the worth of all positions, the carry and    *)
(* the dust together are what was deposited.                               *)
LEMMA AccrueKeeps ==
  ASSUME AccrualInv, NEW amount \in FeeAmounts, accrue_deposit(amount)
  PROVE  AccrualInv'
<1> DEFINE pool == amount + state.carry
           scaled == pool * Precision + state.dust
           delta == IF state.shares = 0 THEN 0 ELSE scaled \div state.shares
           rest == scaled - delta * state.shares
           carry == rest \div Precision
           n == NumStakers
           f == [x \in 1..n |-> position[x].shares]
           g == [x \in 1..n |-> Worth(position[x], state.acc)]
           l == [x \in 1..n |-> Worth(position[x], state.acc + delta)]
           e == [x \in 1..n |-> delta * position[x].shares]
           m == [x \in 1..n |-> Worth(position[x], state.acc) + delta * position[x].shares]
<1>1. /\ state \in FeeStates /\ position \in [Stakers -> Positions] /\ paid \in Nat
      /\ amount \in Nat /\ n \in Nat /\ Stakers = 1..n /\ Precision \in Nat \ {0}
      /\ state.acc \in Nat /\ state.shares \in Nat /\ state.carry \in Nat /\ state.dust \in Nat
      /\ state.deposited \in Nat /\ state.distributed \in Int /\ state.epoch \in Nat
  BY Parameters DEF AccrualInv, AccrualTypeOK, FeeStates, Stakers
<1>2. pool \in Nat /\ scaled \in Nat
  <2>1. pool \in Nat
    BY <1>1
  <2> HIDE DEF pool
  <2>2. pool * Precision \in Nat
    BY <1>1, <2>1, ProductNat
  <2> QED BY <1>1, <2>1, <2>2
<1>s. PICK sc \in Nat : sc = scaled /\ sc = pool * Precision + state.dust
  BY <1>2
<1>3. delta \in Nat /\ delta * state.shares \in Nat /\ delta * state.shares <= sc /\ rest \in Nat
  <2> HIDE DEF scaled
  <2>1. CASE state.shares = 0
    <3>1. delta = 0 /\ delta * state.shares = 0
      BY <2>1
    <3> QED BY <3>1, <1>s
  <2>2. CASE state.shares # 0
    <3>1. /\ sc \div state.shares \in Nat /\ state.shares * (sc \div state.shares) <= sc
      BY <1>1, <2>2, DivRoundsDown
    <3>2. PICK y \in Nat : y = sc \div state.shares /\ delta = y
      BY <1>s, <2>2, <3>1
    <3>3. y * state.shares \in Nat /\ y * state.shares = state.shares * y
      BY <1>1, ProductNat
    <3> HIDE DEF delta
    <3>4. delta * state.shares \in Nat /\ delta * state.shares <= sc
      BY <3>1, <3>2, <3>3
    <3> QED BY <1>s, <3>2, <3>4
  <2> QED BY <2>1, <2>2
<1> HIDE DEF delta, scaled
<1>4. PICK rs \in Nat : rs = rest /\ rs = sc - delta * state.shares
  BY <1>3, <1>s
<1> HIDE DEF rest
<1>5. carry \in Nat /\ rest % Precision \in Nat /\ Precision * carry + (rest % Precision) = rs
  <2>1. rs \div Precision \in Nat /\ rs % Precision \in Nat
        /\ rs = Precision * (rs \div Precision) + (rs % Precision)
    BY <1>1, DivRoundsDown
  <2> QED BY <2>1, <1>4
<1>6. state' = [state EXCEPT !.acc = @ + delta, !.carry = carry, !.dust = rest % Precision,
                   !.deposited = @ + amount, !.distributed = @ + (pool - carry), !.epoch = @ + 1]
      /\ position' = position /\ paid' = paid
  BY DEF accrue_deposit, delta, rest, scaled
<1>7. /\ state' \in FeeStates /\ state'.acc = state.acc + delta /\ state'.shares = state.shares
      /\ state'.carry = carry /\ state'.dust = rest % Precision
      /\ state'.deposited = state.deposited + amount
  <2>1. /\ state.acc + delta \in Nat /\ state.deposited + amount \in Nat
        /\ state.distributed + (pool - carry) \in Int /\ state.epoch + 1 \in Nat
    <3> HIDE DEF carry, pool
    <3>1. delta \in Nat /\ carry \in Nat /\ pool \in Nat
      BY <1>2, <1>3, <1>5
    <3>2. PICK a \in Nat, b \in Nat, c \in Int, d \in Nat :
            /\ a = state.acc /\ b = state.deposited /\ c = state.distributed /\ d = state.epoch
      BY <1>1
    <3>3. a + delta \in Nat /\ b + amount \in Nat /\ c + (pool - carry) \in Int /\ d + 1 \in Nat
      BY <1>1, <3>1
    <3> QED BY <3>2, <3>3
  <2> HIDE DEF carry, pool
  <2> QED BY <1>1, <1>5, <1>6, <2>1 DEF FeeStates
<1> HIDE DEF carry
<1>8. ASSUME NEW x \in 1..n
      PROVE  /\ position[x].shares \in Nat /\ delta * position[x].shares \in Nat
             /\ Worth(position[x], state.acc) \in Nat /\ Worth(position[x], state.acc + delta) \in Nat
             /\ Worth(position[x], state.acc + delta)
                  <= Worth(position[x], state.acc) + delta * position[x].shares
  <2>d. delta \in Nat
    BY <1>3
  <2>1. position[x] \in Positions /\ state.acc + delta \in Nat
    BY <1>1, <2>d
  <2>2. position[x].shares \in Nat
    BY <2>1 DEF Positions
  <2>3. delta * position[x].shares \in Nat
    BY <2>2, <1>3, ProductNat
  <2> QED BY <1>1, <1>3, <2>1, <2>2, <2>3, WorthTyped, WorthGrows
<1>9. /\ f \in [1..n -> Int] /\ g \in [1..n -> Int] /\ l \in [1..n -> Int]
      /\ e \in [1..n -> Int] /\ m \in [1..n -> Int]
      /\ \A x \in 1..n : e[x] = delta * f[x]
      /\ \A x \in 1..n : m[x] = g[x] + e[x]
      /\ \A x \in 1..n : l[x] <= m[x]
  BY <1>8
<1>10. state.shares = Total(f, n)
  BY <1>1 DEF AccrualInv, SharesCounted
<1>11. Precision * paid + Precision * state.carry + state.dust + Total(g, n)
         <= Precision * state.deposited
  BY <1>1 DEF AccrualInv, WorthCovered
<1>12. SharesCounted'
  BY <1>6, <1>7 DEF AccrualInv, SharesCounted
<1>13. WorthCovered' <=> Precision * paid' + Precision * state'.carry + state'.dust + Total(l, n)
          <= Precision * state'.deposited
  BY <1>1, <1>6, <1>7 DEF WorthCovered, Worth
<1> HIDE DEF f, g, l, e, m
<1>14. Total(m, n) = Total(g, n) + Total(e, n)
  BY <1>1, <1>9, TotalAdd, ZenonT(30)
<1>15. Total(e, n) = delta * Total(f, n)
  <2>1. delta \in Int
    BY <1>3
  <2> QED BY <1>1, <1>9, <2>1, TotalScale, ZenonT(30)
<1>16. Total(l, n) <= Total(m, n)
  BY <1>1, <1>9, TotalLeq, ZenonT(30)
<1>17. Total(l, n) \in Int /\ Total(m, n) \in Int /\ Total(g, n) \in Int
  BY <1>1, <1>9, TotalInt
<1>18. WorthCovered'
  <2>1. PICK y \in Nat : y = delta * state.shares
    BY <1>3
  <2>2. Total(l, n) <= Total(g, n) + y
    BY <2>1, <1>10, <1>14, <1>15, <1>16, <1>17
  <2>3. PICK pp \in Nat, pa \in Nat, pc \in Nat, pd \in Nat, pc1 \in Nat, pm \in Nat :
          /\ pp = Precision * paid /\ pa = Precision * amount /\ pc = Precision * state.carry
          /\ pd = Precision * state.deposited /\ pc1 = Precision * carry /\ pm = pool * Precision
    BY <1>1, <1>2, <1>5, ProductNat
  <2>4. pm = pa + pc
    <3>1. (amount + state.carry) * Precision = Precision * amount + Precision * state.carry
      BY <1>1
    <3> QED BY <2>3, <3>1
  <2>5. Precision * state'.deposited = pd + pa
    <3>1. Precision * (state.deposited + amount) = Precision * state.deposited + Precision * amount
      BY <1>1
    <3> QED BY <2>3, <3>1, <1>7
  <2>6. pp + pc + state.dust + Total(g, n) <= pd
    BY <1>11, <2>3
  <2>7. pc1 + state'.dust = (pm + state.dust) - y /\ state'.dust \in Nat
    <3>1. rs = (pm + state.dust) - y
      BY <1>4, <1>s, <2>1, <2>3
    <3> QED BY <1>5, <1>7, <2>3, <3>1
  <2>8. pp + pc1 + state'.dust + Total(l, n) <= pd + pa
    <3>1. PICK tl \in Int, tg \in Int, d0 \in Nat, d1 \in Nat :
            tl = Total(l, n) /\ tg = Total(g, n) /\ d0 = state.dust /\ d1 = state'.dust
      BY <1>1, <1>17, <2>7
    <3>2. /\ tl <= tg + y /\ pm = pa + pc /\ pp + pc + d0 + tg <= pd
          /\ pc1 + d1 = (pm + d0) - y
      BY <2>2, <2>4, <2>6, <2>7, <3>1
    <3>3. pp + pc1 + d1 + tl <= pd + pa
      BY <3>2
    <3> QED BY <3>1, <3>3
  <2> QED BY <1>6, <1>7, <1>13, <2>3, <2>5, <2>8
<1> QED BY <1>1, <1>6, <1>7, <1>12, <1>18 DEF AccrualInv, AccrualTypeOK

(* The other programs leave the accrual alone. *)
LEMMA AccrualUnchanged ==
  ASSUME AccrualInv, UNCHANGED feeVars
  PROVE  AccrualInv'
<1>1. state' = state /\ position' = position /\ paid' = paid
  BY DEF feeVars
<1>2. AccrualTypeOK'
  BY <1>1 DEF AccrualInv, AccrualTypeOK
<1>3. SharesCounted'
  BY <1>1 DEF AccrualInv, SharesCounted
<1>4. WorthCovered'
  BY <1>1 DEF AccrualInv, WorthCovered, Worth
<1> QED BY <1>2, <1>3, <1>4 DEF AccrualInv

(* Every change of shares goes through SetShares. *)
LEMMA ShareCallsSet ==
  ASSUME AccrualInv, NEW s \in Stakers, ShareCalls(s)
  PROVE  \E n \in Nat : SetShares(s, n)
<1>1. position[s].shares \in Nat
  BY PositionFacts
<1>2. PICK a \in ShareAmounts :
        \/ add_shares(s, a) \/ remove_shares(s, a) \/ apply_slash(s, a)
  BY DEF ShareCalls
<1>3. a \in Nat
  BY Parameters
<1>4. CASE add_shares(s, a)
  <2>1. position[s].shares + a \in Nat
    BY <1>1, <1>3
  <2> QED BY <2>1, <1>4 DEF add_shares
<1>5. CASE remove_shares(s, a)
  <2>1. position[s].shares - a \in Nat
    BY <1>1, <1>3, <1>5 DEF remove_shares
  <2> QED BY <2>1, <1>5 DEF remove_shares
<1>6. CASE apply_slash(s, a)
  <2>1. SharesLeft(s, a) \in Nat
    BY <1>1, <1>3 DEF SharesLeft
  <2> QED BY <2>1, <1>6 DEF apply_slash
<1> QED BY <1>2, <1>4, <1>5, <1>6

(* Every call on the accrual keeps the invariant. *)
LEMMA AccrualStep ==
  ASSUME AccrualInv, AccrualNext
  PROVE  AccrualInv'
BY AccrueKeeps, ClaimFeesKeeps, ShareCallsSet, SetSharesKeeps DEF AccrualNext

(* Without deposits no position is worth anything. *)
LEMMA AccrualStart ==
  ASSUME AccrualIdle
  PROVE  AccrualInv
<1>1. /\ state = [acc |-> 0, shares |-> 0, carry |-> 0, dust |-> 0, deposited |-> 0,
                  distributed |-> 0, epoch |-> 0]
      /\ position = [s \in Stakers |-> [shares |-> 0, debt |-> 0, realized |-> 0]] /\ paid = 0
  BY DEF AccrualIdle
<1>2. AccrualTypeOK
  BY <1>1 DEF AccrualTypeOK, FeeStates, Positions
<1>3. NumStakers \in Nat /\ Precision \in Nat /\ Stakers = 1..NumStakers
  BY Parameters DEF Stakers
<1>4. [s \in Stakers |-> position[s].shares] = [s \in 1..NumStakers |-> 0]
  BY <1>1, <1>3
<1>5. [s \in Stakers |-> Worth(position[s], state.acc)] = [s \in 1..NumStakers |-> 0]
  BY <1>1, <1>3 DEF Worth, Over
<1>6. Total([s \in 1..NumStakers |-> 0], NumStakers) = 0
  BY <1>3, TotalZero
<1>7. SharesCounted
  BY <1>1, <1>4, <1>6 DEF SharesCounted
<1>8. WorthCovered
  <2>1. Precision * paid + Precision * state.carry + state.dust + 0 <= Precision * state.deposited
    BY <1>1, <1>3
  <2> QED BY <2>1, <1>5, <1>6 DEF WorthCovered
<1> QED BY <1>2, <1>7, <1>8 DEF AccrualInv
(* What is pending of a position is a part of its worth. *)
LEMMA PendingIsWorth ==
  ASSUME AccrualInv, NEW s \in Stakers
  PROVE  /\ pending_fees(s) \in Nat /\ Precision * pending_fees(s) \in Nat
         /\ Precision * pending_fees(s) <= Worth(position[s], state.acc)
         /\ Worth(position[s], state.acc) \in Nat
<1> DEFINE r == settle(position[s], state.acc)
<1>1. /\ r \in Positions /\ Worth(r, state.acc) = Worth(position[s], state.acc)
      /\ state.acc \in Nat /\ position[s] \in Positions
  BY PositionFacts
<1>2. pending_fees(s) = r.realized
  BY DEF pending_fees
<1> HIDE DEF r
<1>3. r.realized \in Nat /\ r.shares \in Nat /\ r.debt \in Nat /\ Precision \in Nat
  BY <1>1, Parameters DEF Positions
<1>4. PICK z \in Nat, w \in Int :
        z = Precision * r.realized /\ w = r.shares * state.acc - Precision * r.debt
  <2>1. /\ Precision * r.realized \in Nat /\ r.shares * state.acc \in Nat
        /\ Precision * r.debt \in Nat
    BY <1>1, <1>3, ProductNat
  <2>2. r.shares * state.acc - Precision * r.debt \in Int
    BY <2>1
  <2> QED BY <2>1, <2>2
<1>5. Worth(r, state.acc) = z + Over(w) /\ Over(w) \in Nat
  BY <1>4 DEF Worth, Over
<1>6. Worth(position[s], state.acc) \in Nat
  BY <1>1, WorthTyped
<1> QED BY <1>1, <1>2, <1>3, <1>4, <1>5, <1>6

(* Worth covered is fees covered: unscale the inequality. *)
LEMMA FeesAreCovered ==
  ASSUME AccrualInv
  PROVE  FeesCovered
<1> DEFINE n == NumStakers
           f == [s \in 1..n |-> pending_fees(s)]
           h == [s \in 1..n |-> Precision * pending_fees(s)]
           g == [s \in 1..n |-> Worth(position[s], state.acc)]
<1>1. /\ n \in Nat /\ Stakers = 1..n /\ Precision \in Nat \ {0} /\ Precision \in Int
      /\ state.carry \in Nat /\ state.dust \in Nat /\ state.deposited \in Nat /\ paid \in Nat
  BY Parameters DEF Stakers, AccrualInv, AccrualTypeOK, FeeStates
<1>2. /\ f \in [1..n -> Int] /\ h \in [1..n -> Int] /\ g \in [1..n -> Int]
      /\ \A s \in 1..n : h[s] = Precision * f[s]
      /\ \A s \in 1..n : h[s] <= g[s]
  <2>1. \A s \in 1..n : /\ pending_fees(s) \in Nat /\ Precision * pending_fees(s) \in Nat
                        /\ Precision * pending_fees(s) <= Worth(position[s], state.acc)
                        /\ Worth(position[s], state.acc) \in Nat
    BY <1>1, PendingIsWorth
  <2> QED BY <2>1
<1>3. Precision * paid + Precision * state.carry + state.dust + Total(g, n)
        <= Precision * state.deposited
  BY <1>1 DEF AccrualInv, WorthCovered
<1>4. FeesCovered <=> paid + state.carry + Total(f, n) <= state.deposited
  BY <1>1 DEF FeesCovered
<1> HIDE DEF f, h, g
<1>5. Total(h, n) = Precision * Total(f, n)
  BY <1>1, <1>2, TotalScale, ZenonT(30)
<1>6. Total(h, n) <= Total(g, n)
  BY <1>1, <1>2, TotalLeq, ZenonT(30)
<1>7. Total(h, n) \in Int /\ Total(f, n) \in Int /\ Total(g, n) \in Int
  BY <1>1, <1>2, TotalInt
<1>8. PICK x \in Int : x = paid + state.carry + Total(f, n)
  BY <1>1, <1>7
<1>9. Precision * x <= Precision * state.deposited
  <2>1. PICK t \in Int : t = Total(f, n)
    BY <1>7
  <2>2. Precision * (paid + state.carry + t)
          = Precision * paid + Precision * state.carry + Precision * t
    BY <1>1
  <2>3. PICK pp \in Nat, pc \in Nat, pt \in Int, pd \in Nat, tg \in Int :
          /\ pp = Precision * paid /\ pc = Precision * state.carry /\ pt = Precision * t
          /\ pd = Precision * state.deposited /\ tg = Total(g, n)
    <3>1. Precision * t \in Int
      BY <1>1
    <3> QED BY <1>1, <1>7, <3>1, ProductNat
  <2>4. pp + pc + state.dust + tg <= pd /\ pt <= tg
    BY <1>3, <1>5, <1>6, <2>1, <2>3
  <2>5. pp + pc + pt <= pd
    BY <1>1, <2>4
  <2> QED BY <1>8, <2>1, <2>2, <2>3, <2>5
<1>10. x <= state.deposited
  <2>1. state.deposited \in Int
    BY <1>1
  <2> QED BY <1>1, <1>9, <2>1, FactorOrder
<1> QED BY <1>4, <1>8, <1>10

-----------------------------------------------------------------------------
(* The dust ledger.                                                        *)

DustInv == dust \in [held : Int, recorded : Int, reconciled : Int] /\ DustConserved

(* Recording and reconciling move dust, they make none. *)
LEMMA DustStep ==
  ASSUME DustInv, DustCalls
  PROVE  DustInv'
<1>1. /\ dust.held \in Int /\ dust.recorded \in Int /\ dust.reconciled \in Int
      /\ Precision \in Nat \ {0}
      /\ dust \in [held : Int, recorded : Int, reconciled : Int]
  BY Parameters DEF DustInv
<1>2. dust.reconciled * Precision + dust.held = dust.recorded
  BY DEF DustInv, DustConserved
<1>3. ASSUME NEW d \in Scaled, record_dust(d) PROVE DustInv'
  <2>1. d \in Nat /\ dust' = [dust EXCEPT !.held = @ + d, !.recorded = @ + d]
    BY <1>3, Parameters DEF record_dust
  <2>2. /\ dust' \in [held : Int, recorded : Int, reconciled : Int]
        /\ dust'.held = dust.held + d /\ dust'.recorded = dust.recorded + d
        /\ dust'.reconciled = dust.reconciled
    <3>1. dust.held + d \in Int /\ dust.recorded + d \in Int
      BY <1>1, <2>1
    <3>2. dust' = [dust EXCEPT !.held = dust.held + d, !.recorded = dust.recorded + d]
      BY <2>1
    <3> QED BY <1>1, <3>1, <3>2
  <2> QED BY <1>1, <1>2, <2>1, <2>2 DEF DustInv, DustConserved
<1>4. ASSUME reconcile_dust PROVE DustInv'
  <2>1. PICK u \in Int : u = dust.held \div Precision
    BY <1>1
  <2>2. PICK x \in Int : x = u * Precision
    BY <1>1
  <2>3. dust' = [dust EXCEPT !.held = @ - x, !.reconciled = @ + u]
    BY <1>4, <2>1, <2>2 DEF reconcile_dust
  <2>4. /\ dust' \in [held : Int, recorded : Int, reconciled : Int]
        /\ dust'.held = dust.held - x /\ dust'.recorded = dust.recorded
        /\ dust'.reconciled = dust.reconciled + u
    <3>1. dust.held - x \in Int /\ dust.reconciled + u \in Int
      BY <1>1
    <3>2. dust' = [dust EXCEPT !.held = dust.held - x, !.reconciled = dust.reconciled + u]
      BY <2>3
    <3> QED BY <1>1, <3>1, <3>2
  <2>5. (dust.reconciled + u) * Precision = dust.reconciled * Precision + x
    <3>1. (dust.reconciled + u) * Precision = dust.reconciled * Precision + u * Precision
      BY <1>1
    <3> QED BY <2>2, <3>1
  <2>6. PICK y \in Int : y = dust.reconciled * Precision
    BY <1>1
  <2> QED BY <1>1, <1>2, <2>4, <2>5, <2>6 DEF DustInv, DustConserved
<1> QED BY <1>3, <1>4 DEF DustCalls

-----------------------------------------------------------------------------
(* Buckets.                                                                *)

Buckets == [provider : Providers, amount : Nat, claimed : BOOLEAN]
AmountsAt(b, ids) == [i \in BucketIds |-> IF i \in ids THEN b[i].amount ELSE 0]
OpenOf(b, p) == {i \in DOMAIN b : b[i].provider = p /\ ~b[i].claimed}
BucketTypeOK ==
    /\ bucket \in Seq(Buckets) /\ Len(bucket) <= MaxBuckets
    /\ owed \in [Providers -> Int] /\ bucketPot \in Int
BucketInv == BucketTypeOK /\ BucketsBacked

(* The open buckets of a provider that loses some, or gains one.           *)
LEMMA AmountsAtTyped ==
  ASSUME NEW b \in Seq(Buckets), Len(b) <= MaxBuckets, NEW ids \in SUBSET (DOMAIN b)
  PROVE  /\ AmountsAt(b, ids) \in [1..MaxBuckets -> Int]
         /\ AmountsAt(b, ids) \in [1..MaxBuckets -> Nat]
         /\ Total(AmountsAt(b, ids), MaxBuckets) \in Nat
         /\ MaxBuckets \in Nat
<1>1. \A i \in DOMAIN b : b[i] \in Buckets /\ i \in BucketIds
  BY Parameters DEF BucketIds
<1>2. \A i \in ids : b[i].amount \in Nat
  BY <1>1 DEF Buckets
<1>3. AmountsAt(b, ids) \in [1..MaxBuckets -> Nat]
  BY <1>2 DEF AmountsAt, BucketIds
<1>4. MaxBuckets \in Nat
  BY Parameters
<1>5. Total(AmountsAt(b, ids), MaxBuckets) \in Nat
  BY <1>3, <1>4, TotalNat
<1> QED BY <1>3, <1>4, <1>5

(* A deposit is owed to its provider, and in the pot. *)
LEMMA DepositKeeps ==
  ASSUME BucketInv, NEW p \in Providers, NEW a \in BucketAmounts, deposit_reward(p, a)
  PROVE  BucketInv'
<1> DEFINE new == [provider |-> p, amount |-> a, claimed |-> FALSE]
           b == Append(bucket, new)
           j == Len(bucket) + 1
           n == NumProviders
<1>1. /\ bucket \in Seq(Buckets) /\ Len(bucket) < MaxBuckets /\ a \in Nat /\ new \in Buckets
      /\ owed \in [Providers -> Int] /\ bucketPot \in Int /\ MaxBuckets \in Nat
      /\ n \in Nat /\ Providers = 1..n
      /\ bucket' = b /\ owed' = [owed EXCEPT ![p] = @ + a] /\ bucketPot' = bucketPot + a
  BY Parameters DEF BucketInv, BucketTypeOK, deposit_reward, Buckets, Providers
<1>2. /\ b \in Seq(Buckets) /\ Len(b) = j /\ DOMAIN b = (DOMAIN bucket) \cup {j}
      /\ \A i \in DOMAIN bucket : b[i] = bucket[i]
      /\ b[j] = new /\ j \notin DOMAIN bucket /\ j \in 1..MaxBuckets /\ Len(b) <= MaxBuckets
  <2> HIDE DEF new
  <2>1. b \in Seq(Buckets) /\ Len(b) = j /\ b[j] = new /\ \A i \in 1..Len(bucket) : b[i] = bucket[i]
    BY <1>1
  <2>2. DOMAIN bucket = 1..Len(bucket) /\ DOMAIN b = 1..j /\ Len(bucket) \in Nat
    BY <1>1, <2>1
  <2> HIDE DEF b
  <2> QED BY <1>1, <2>1, <2>2
<1>3. new.provider = p /\ new.amount = a /\ new.claimed = FALSE
  OBVIOUS
<1>4. BucketTypeOK'
  BY <1>1, <1>2 DEF BucketTypeOK
<1> HIDE DEF new, b, j
<1>5. \A q \in Providers : OpenOf(bucket, q) \in SUBSET DOMAIN bucket /\ OpenOf(b, q) \in SUBSET DOMAIN b
  BY DEF OpenOf
<1>6. \A q \in Providers : owed[q] = Total(AmountsAt(bucket, OpenOf(bucket, q)), MaxBuckets)
  BY DEF BucketInv, BucketsBacked, BucketTotal, Unclaimed, OpenOf, AmountsAt
<1>7. ASSUME NEW q \in Providers, q # p
      PROVE  owed'[q] = Total(AmountsAt(b, OpenOf(b, q)), MaxBuckets)
  <2>1. OpenOf(b, q) = OpenOf(bucket, q)
    BY <1>2, <1>3, <1>7 DEF OpenOf
  <2>2. AmountsAt(b, OpenOf(b, q)) = AmountsAt(bucket, OpenOf(bucket, q))
    BY <2>1, <1>2, <1>5 DEF AmountsAt
  <2> QED BY <2>2, <1>1, <1>6, <1>7
<1>8. owed'[p] = Total(AmountsAt(b, OpenOf(b, p)), MaxBuckets)
  <2> DEFINE f == AmountsAt(bucket, OpenOf(bucket, p))
             h == AmountsAt(b, OpenOf(b, p))
  <2>1. /\ f \in [1..MaxBuckets -> Int] /\ h \in [1..MaxBuckets -> Int]
        /\ Total(f, MaxBuckets) \in Nat
    <3>1. f \in [1..MaxBuckets -> Int] /\ Total(f, MaxBuckets) \in Nat
      <4>1. OpenOf(bucket, p) \in SUBSET DOMAIN bucket /\ Len(bucket) <= MaxBuckets
        BY <1>1, <1>5
      <4> QED BY <1>1, <4>1, AmountsAtTyped
    <3>2. h \in [1..MaxBuckets -> Int]
      <4>1. OpenOf(b, p) \in SUBSET DOMAIN b
        BY <1>5
      <4> QED BY <1>2, <4>1, AmountsAtTyped
    <3> QED BY <3>1, <3>2
  <2>2. \A i \in 1..MaxBuckets : i # j => h[i] = f[i]
    <3>1. ASSUME NEW i \in 1..MaxBuckets, i # j PROVE h[i] = f[i]
      <4>1. i \in OpenOf(b, p) <=> i \in OpenOf(bucket, p)
        BY <1>2, <3>1 DEF OpenOf
      <4>2. i \in OpenOf(bucket, p) => b[i] = bucket[i]
        BY <1>2, <1>5
      <4> QED BY <4>1, <4>2 DEF AmountsAt, BucketIds
    <3> QED BY <3>1
  <2>3. h[j] = a /\ f[j] = 0
    <3>1. j \in OpenOf(b, p) /\ j \notin OpenOf(bucket, p)
      BY <1>2, <1>3, <1>5 DEF OpenOf
    <3> QED BY <3>1, <1>2, <1>3 DEF AmountsAt, BucketIds
  <2>4. owed[p] = Total(f, MaxBuckets)
    BY <1>6
  <2> HIDE DEF f, h
  <2>5. Total(h, MaxBuckets) = Total(f, MaxBuckets) + h[j] - f[j]
    <3>1. j \in 1..MaxBuckets /\ MaxBuckets \in Nat
      BY <1>1, <1>2
    <3> QED BY <2>1, <2>2, <3>1, TotalChange, ZenonT(30)
  <2>6. Total(h, MaxBuckets) = owed[p] + a
    BY <1>1, <2>1, <2>3, <2>4, <2>5
  <2>7. owed'[p] = owed[p] + a
    BY <1>1
  <2> QED BY <2>6, <2>7 DEF h
<1>9. bucketPot' >= Total(owed', n)
  <2>1. owed \in [1..n -> Int] /\ p \in 1..n /\ a \in Int /\ n \in Nat
        /\ owed' = [owed EXCEPT ![p] = owed[p] + a]
    BY <1>1
  <2>2. Total(owed', n) = Total(owed, n) + a
    BY <2>1, TotalMove, ZenonT(30)
  <2>3. Total(owed, n) \in Int /\ bucketPot >= Total(owed, n)
    BY <2>1, TotalInt DEF BucketInv, BucketsBacked
  <2> QED BY <1>1, <2>2, <2>3
<1>10. BucketsBacked'
  <2>1. \A q \in Providers : owed'[q] = Total(AmountsAt(bucket', OpenOf(bucket', q)), MaxBuckets)
    BY <1>1, <1>7, <1>8
  <2>2. \A q \in Providers : owed'[q] = BucketTotal(Unclaimed(q))'
    BY <2>1 DEF BucketTotal, Unclaimed, OpenOf, AmountsAt
  <2> QED BY <1>9, <2>2 DEF BucketsBacked
<1> QED BY <1>4, <1>10 DEF BucketInv

(* A batch pays its buckets, which are open no more. *)
LEMMA BatchClaimKeeps ==
  ASSUME BucketInv, NEW p \in Providers, NEW ids, batch_claim_rewards(p, ids)
  PROVE  BucketInv'
<1> DEFINE b == [i \in DOMAIN bucket |-> [bucket[i] EXCEPT !.claimed = @ \/ i \in ids]]
           t == BucketTotal(ids)
           n == NumProviders
<1>1. /\ bucket \in Seq(Buckets) /\ Len(bucket) <= MaxBuckets
      /\ owed \in [Providers -> Int] /\ bucketPot \in Int /\ MaxBuckets \in Nat
      /\ n \in Nat /\ Providers = 1..n
      /\ bucket' = b /\ owed' = [owed EXCEPT ![p] = @ - t] /\ bucketPot' = bucketPot - t
      /\ ids \subseteq OpenOf(bucket, p)
  BY Parameters DEF BucketInv, BucketTypeOK, batch_claim_rewards, Providers, OpenOf, Unclaimed
<1>2. \A i \in DOMAIN bucket :
        /\ b[i] \in Buckets /\ b[i].provider = bucket[i].provider
        /\ b[i].amount = bucket[i].amount /\ b[i].claimed = (bucket[i].claimed \/ i \in ids)
  <2>1. ASSUME NEW i \in DOMAIN bucket
        PROVE  /\ b[i] \in Buckets /\ b[i].provider = bucket[i].provider
               /\ b[i].amount = bucket[i].amount
               /\ b[i].claimed = (bucket[i].claimed \/ i \in ids)
    <3>1. bucket[i] \in Buckets
      BY <1>1
    <3>2. b[i] = [bucket[i] EXCEPT !.claimed = @ \/ i \in ids]
      OBVIOUS
    <3> HIDE DEF b
    <3> QED BY <3>1, <3>2 DEF Buckets
  <2> QED BY <2>1
<1>3. DOMAIN b = DOMAIN bucket /\ b \in Seq(Buckets) /\ Len(b) = Len(bucket)
  <2>1. DOMAIN b = DOMAIN bucket
    OBVIOUS
  <2>2. DOMAIN bucket = 1..Len(bucket) /\ Len(bucket) \in Nat
    BY <1>1
  <2>3. b = [i \in DOMAIN bucket |-> b[i]]
    OBVIOUS
  <2> HIDE DEF b
  <2>4. b \in [1..Len(bucket) -> Buckets]
    BY <1>2, <2>1, <2>2, <2>3
  <2> QED BY <2>1, <2>2, <2>4
<1>4. t = Total(AmountsAt(bucket, ids), MaxBuckets)
  BY DEF BucketTotal, AmountsAt
<1>5. /\ \A q \in Providers : OpenOf(bucket, q) \in SUBSET DOMAIN bucket
      /\ ids \in SUBSET DOMAIN bucket
      /\ OpenOf(bucket, p) \ ids \in SUBSET DOMAIN bucket
  BY <1>1 DEF OpenOf
<1>6. t \in Nat
  BY <1>1, <1>4, <1>5, AmountsAtTyped
<1>7. BucketTypeOK'
  <2>1. owed' \in [Providers -> Int] /\ bucketPot' \in Int
    <3> HIDE DEF t
    <3> QED BY <1>1, <1>6
  <2> QED BY <1>1, <1>3, <2>1 DEF BucketTypeOK
<1> HIDE DEF b, t
<1>8. \A q \in Providers : owed[q] = Total(AmountsAt(bucket, OpenOf(bucket, q)), MaxBuckets)
  BY DEF BucketInv, BucketsBacked, BucketTotal, Unclaimed, OpenOf, AmountsAt
<1>9. \A s \in SUBSET DOMAIN bucket : AmountsAt(b, s) = AmountsAt(bucket, s)
  BY <1>2 DEF AmountsAt
<1>10. ASSUME NEW q \in Providers, q # p
       PROVE  owed'[q] = Total(AmountsAt(b, OpenOf(b, q)), MaxBuckets)
  <2>1. OpenOf(b, q) = OpenOf(bucket, q)
    BY <1>1, <1>2, <1>3, <1>10 DEF OpenOf
  <2> QED BY <2>1, <1>1, <1>5, <1>8, <1>9, <1>10
<1>11. owed'[p] = Total(AmountsAt(b, OpenOf(b, p)), MaxBuckets)
  <2>1. OpenOf(b, p) = OpenOf(bucket, p) \ ids
    BY <1>1, <1>2, <1>3 DEF OpenOf
  <2> DEFINE f == AmountsAt(bucket, OpenOf(bucket, p))
             h == AmountsAt(bucket, OpenOf(bucket, p) \ ids)
             e == AmountsAt(bucket, ids)
  <2>2. /\ f \in [1..MaxBuckets -> Int] /\ h \in [1..MaxBuckets -> Int]
        /\ e \in [1..MaxBuckets -> Int] /\ h \in [1..MaxBuckets -> Nat] /\ e \in [1..MaxBuckets -> Nat]
        /\ Total(h, MaxBuckets) \in Nat
    BY <1>1, <1>5, AmountsAtTyped
  <2>3. \A i \in 1..MaxBuckets : f[i] = h[i] + e[i]
    <3>1. ASSUME NEW i \in 1..MaxBuckets PROVE f[i] = h[i] + e[i]
      <4>1. h[i] \in Nat /\ e[i] \in Nat
        <5> HIDE DEF h, e
        <5> QED BY <2>2
      <4>2. /\ f[i] = IF i \in OpenOf(bucket, p) THEN bucket[i].amount ELSE 0
            /\ h[i] = IF i \in OpenOf(bucket, p) \ ids THEN bucket[i].amount ELSE 0
            /\ e[i] = IF i \in ids THEN bucket[i].amount ELSE 0
        BY DEF AmountsAt, BucketIds
      <4> HIDE DEF f, h, e
      <4> QED BY <1>1, <4>1, <4>2
    <3> QED BY <3>1
  <2>4. owed[p] = Total(f, MaxBuckets) /\ t = Total(e, MaxBuckets)
    BY <1>4, <1>8
  <2>5. Total(AmountsAt(b, OpenOf(b, p)), MaxBuckets) = Total(h, MaxBuckets)
    BY <1>5, <1>9, <2>1
  <2> HIDE DEF f, h, e
  <2>6. Total(f, MaxBuckets) = Total(h, MaxBuckets) + Total(e, MaxBuckets)
    <3>1. MaxBuckets \in Nat
      BY <1>1
    <3> QED BY <2>2, <2>3, <3>1, TotalAdd, ZenonT(30)
  <2>7. owed'[p] = owed[p] - t
    BY <1>1
  <2> QED BY <2>2, <2>4, <2>5, <2>6, <2>7, <1>6
<1>12. bucketPot' >= Total(owed', n)
  <2>1. PICK d \in Int : d = -t
    BY <1>6
  <2>2. owed \in [1..n -> Int] /\ p \in 1..n /\ n \in Nat
        /\ owed' = [owed EXCEPT ![p] = owed[p] + d]
    <3>1. owed[p] - t = owed[p] + d
      BY <1>1, <1>6, <2>1
    <3> QED BY <1>1, <3>1
  <2>3. Total(owed', n) = Total(owed, n) + d
    BY <2>1, <2>2, TotalMove, ZenonT(30)
  <2>4. Total(owed, n) \in Int /\ bucketPot >= Total(owed, n)
    BY <2>2, TotalInt DEF BucketInv, BucketsBacked
  <2> QED BY <1>1, <1>6, <2>1, <2>3, <2>4
<1>13. BucketsBacked'
  <2>1. \A q \in Providers : owed'[q] = Total(AmountsAt(bucket', OpenOf(bucket', q)), MaxBuckets)
    BY <1>1, <1>10, <1>11
  <2>2. \A q \in Providers : owed'[q] = BucketTotal(Unclaimed(q))'
    BY <2>1 DEF BucketTotal, Unclaimed, OpenOf, AmountsAt
  <2> QED BY <1>12, <2>2 DEF BucketsBacked
<1> QED BY <1>7, <1>13 DEF BucketInv

(* The other programs leave the buckets alone. *)
LEMMA BucketUnchanged ==
  ASSUME BucketInv, UNCHANGED bucketVars
  PROVE  BucketInv'
<1>1. bucket' = bucket /\ owed' = owed /\ bucketPot' = bucketPot
  BY DEF bucketVars
<1> QED BY <1>1 DEF BucketInv, BucketTypeOK, BucketsBacked, BucketTotal, Unclaimed

(* Without buckets nothing is owed. *)
LEMMA BucketStart ==
  ASSUME BucketIdle
  PROVE  BucketInv
<1>1. bucket = <<>> /\ owed = [p \in Providers |-> 0] /\ bucketPot = 0
  BY DEF BucketIdle
<1>2. NumProviders \in Nat /\ MaxBuckets \in Nat /\ Providers = 1..NumProviders
  BY Parameters DEF Providers
<1>3. BucketTypeOK
  BY <1>1, <1>2 DEF BucketTypeOK
<1>4. ASSUME NEW p \in Providers PROVE owed[p] = BucketTotal(Unclaimed(p))
  <2>1. Unclaimed(p) = {}
    BY <1>1 DEF Unclaimed
  <2>2. [i \in BucketIds |-> IF i \in Unclaimed(p) THEN bucket[i].amount ELSE 0]
          = [i \in 1..MaxBuckets |-> 0]
    BY <2>1 DEF BucketIds
  <2>3. BucketTotal(Unclaimed(p)) = 0
    BY <2>2, <1>2, TotalZero, Zenon DEF BucketTotal
  <2> QED BY <1>1, <2>3
<1>5. bucketPot >= Total(owed, NumProviders)
  <2>1. Total([p \in 1..NumProviders |-> 0], NumProviders) = 0
    BY <1>2, TotalZero, Zenon
  <2> QED BY <1>1, <1>2, <2>1
<1> QED BY <1>3, <1>4, <1>5 DEF BucketInv, BucketsBacked

-----------------------------------------------------------------------------
(* The migration.                                                          *)

(* Nothing is added after its migration to an entry not migrated yet.      *)
MigrationInv ==
    /\ v2 \in [Providers -> Nat] /\ sinceV2 \in [Providers -> Nat]
    /\ migrated.who \subseteq Providers
    /\ \A p \in Providers \ migrated.who : sinceV2[p] = 0
    /\ MigratedOnce

(* A batch migrates only entries that were not migrated. *)
LEMMA BatchMigrates ==
  ASSUME MigrationInv, NEW n, migrate_stakes_v1_to_v2(n)
  PROVE  MigrationInv'
<1> DEFINE left == Providers \ migrated.who
           batch == {p \in left : Cardinality({q \in left : q < p}) < n}
<1>1. /\ v2 \in [Providers -> Nat] /\ sinceV2 \in [Providers -> Nat] /\ V1Stake \in Nat
      /\ migrated.who \subseteq Providers
  BY Parameters DEF MigrationInv
<1>2. /\ v2' = [p \in Providers |-> IF p \in batch THEN V1Stake ELSE v2[p]]
      /\ migrated'.who = migrated.who \cup batch /\ sinceV2' = sinceV2
      /\ batch \subseteq Providers \ migrated.who
  BY DEF migrate_stakes_v1_to_v2
<1> HIDE DEF batch
<1>3. v2' \in [Providers -> Nat] /\ migrated'.who \subseteq Providers
  BY <1>1, <1>2
<1>4. ASSUME NEW p \in Providers \ migrated'.who PROVE sinceV2'[p] = 0
  BY <1>2 DEF MigrationInv
<1>5. ASSUME NEW p \in migrated'.who PROVE v2'[p] = V1Stake + sinceV2'[p]
  <2>1. CASE p \in batch
    <3>1. v2'[p] = V1Stake /\ sinceV2'[p] = 0
      BY <1>2, <2>1 DEF MigrationInv
    <3> QED BY <3>1, <1>1
  <2>2. CASE p \notin batch
    BY <1>1, <1>2, <1>5, <2>2 DEF MigrationInv, MigratedOnce
  <2> QED BY <2>1, <2>2
<1> QED BY <1>1, <1>2, <1>3, <1>4, <1>5 DEF MigrationInv, MigratedOnce

(* A deposit is counted as added after the migration exactly if its entry  *)
(* was migrated.                                                           *)
LEMMA DepositMigrates ==
  ASSUME MigrationInv, NEW p \in Providers, DepositV2(p)
  PROVE  MigrationInv'
<1>1. /\ v2 \in [Providers -> Nat] /\ sinceV2 \in [Providers -> Nat] /\ V1Stake \in Nat
      /\ migrated.who \subseteq Providers
  BY Parameters DEF MigrationInv
<1>2. /\ v2' = [v2 EXCEPT ![p] = @ + 1] /\ migrated' = migrated
      /\ sinceV2' = [sinceV2 EXCEPT ![p] = IF p \in migrated.who THEN @ + 1 ELSE @]
  BY DEF DepositV2
<1>3. v2' \in [Providers -> Nat] /\ sinceV2' \in [Providers -> Nat]
  BY <1>1, <1>2
<1>4. ASSUME NEW q \in Providers \ migrated.who PROVE sinceV2'[q] = 0
  BY <1>1, <1>2 DEF MigrationInv
<1>5. ASSUME NEW q \in migrated.who PROVE v2'[q] = V1Stake + sinceV2'[q]
  <2>1. v2[q] = V1Stake + sinceV2[q] /\ q \in Providers /\ v2[q] \in Nat /\ sinceV2[q] \in Nat
    BY <1>1 DEF MigrationInv, MigratedOnce
  <2> QED BY <1>1, <1>2, <2>1, <1>5
<1> QED BY <1>1, <1>2, <1>3, <1>4, <1>5 DEF MigrationInv, MigratedOnce

(* The other programs leave the migration alone. *)
LEMMA MigrationUnchanged ==
  ASSUME MigrationInv, UNCHANGED migrationVars
  PROVE  MigrationInv'
BY DEF MigrationInv, MigratedOnce, migrationVars

(* Nothing is migrated at first. *)
LEMMA MigrationStart ==
  ASSUME MigrationIdle
  PROVE  MigrationInv
BY DEF MigrationIdle, MigrationInv, MigratedOnce

-----------------------------------------------------------------------------
(* All programs together.                                                  *)

RewardsInv == CampaignInv /\ AccrualInv /\ DustInv /\ BucketInv /\ MigrationInv

(* The invariant holds at first, *)
LEMMA RewardsInvStart ==
  ASSUME ProgramsInit
  PROVE  RewardsInv
<1>1. DustInv
  <2>1. Precision \in Nat
    BY Parameters
  <2> QED BY <2>1 DEF ProgramsInit, DustIdle, DustInv, DustConserved
<1> QED BY <1>1, CampaignStart, AccrualStart, BucketStart, MigrationStart DEF ProgramsInit, RewardsInv

(* every step of a program keeps it, its own part by the lemmas above and  *)
(* the others unchanged,                                                   *)
LEMMA RewardsInvStep ==
  ASSUME RewardsInv, [ProgramsNext]_programsVars
  PROVE  RewardsInv'
<1>1. CampaignInv /\ AccrualInv /\ DustInv /\ BucketInv /\ MigrationInv
  BY DEF RewardsInv
<1>2. ASSUME UNCHANGED dust PROVE DustInv'
  BY <1>1, <1>2 DEF DustInv, DustConserved
<1>3. ASSUME CampaignNext PROVE RewardsInv'
  <2>1. UNCHANGED feeVars /\ UNCHANGED dust /\ UNCHANGED bucketVars /\ UNCHANGED migrationVars
    BY <1>3 DEF CampaignNext
  <2> QED BY <1>1, <1>2, <1>3, <2>1, CampaignStep, AccrualUnchanged, BucketUnchanged,
             MigrationUnchanged DEF RewardsInv
<1>4. ASSUME AccrualNext PROVE RewardsInv'
  <2>1. UNCHANGED campaignVars /\ UNCHANGED dust /\ UNCHANGED bucketVars /\ UNCHANGED migrationVars
    BY <1>4 DEF AccrualNext
  <2> QED BY <1>1, <1>2, <1>4, <2>1, CampaignUnchanged, AccrualStep, BucketUnchanged,
             MigrationUnchanged DEF RewardsInv
<1>5. ASSUME DustNext PROVE RewardsInv'
  <2>1. DustCalls /\ UNCHANGED campaignVars /\ UNCHANGED feeVars /\ UNCHANGED bucketVars
        /\ UNCHANGED migrationVars
    BY <1>5 DEF DustNext
  <2> QED BY <1>1, <2>1, CampaignUnchanged, AccrualUnchanged, DustStep, BucketUnchanged,
             MigrationUnchanged DEF RewardsInv
<1>6. ASSUME BucketNext PROVE RewardsInv'
  <2>1. BucketCalls /\ UNCHANGED campaignVars /\ UNCHANGED feeVars /\ UNCHANGED dust
        /\ UNCHANGED migrationVars
    BY <1>6 DEF BucketNext
  <2>2. BucketInv'
    BY <1>1, <2>1, DepositKeeps, BatchClaimKeeps DEF BucketCalls
  <2> QED BY <1>1, <1>2, <2>1, <2>2, CampaignUnchanged, AccrualUnchanged,
             MigrationUnchanged DEF RewardsInv
<1>7. ASSUME MigrationNext PROVE RewardsInv'
  <2>1. UNCHANGED campaignVars /\ UNCHANGED feeVars /\ UNCHANGED dust /\ UNCHANGED bucketVars
    BY <1>7 DEF MigrationNext
  <2>2. MigrationInv'
    BY <1>1, <1>7, DepositMigrates, BatchMigrates DEF MigrationNext
  <2> QED BY <1>1, <1>2, <2>1, <2>2, CampaignUnchanged, AccrualUnchanged, BucketUnchanged
             DEF RewardsInv
<1>8. ASSUME UNCHANGED programsVars PROVE RewardsInv'
  <2>1. UNCHANGED campaignVars /\ UNCHANGED feeVars /\ UNCHANGED dust /\ UNCHANGED bucketVars
        /\ UNCHANGED migrationVars
    BY <1>8 DEF programsVars
  <2> QED BY <1>1, <1>2, <2>1, CampaignUnchanged, AccrualUnchanged, BucketUnchanged,
             MigrationUnchanged DEF RewardsInv
<1> QED BY <1>3, <1>4, <1>5, <1>6, <1>7, <1>8 DEF ProgramsNext

(* and it implies that every program is backed. *)
LEMMA RewardsInvImplies ==
  ASSUME RewardsInv
  PROVE  RewardsBacked
<1>1. PotCoversCampaigns
  BY DEF RewardsInv, CampaignInv
<1>2. LiabilitiesCounted
  BY DEF RewardsInv, CampaignInv, CampaignsSound, Sound, LiabilitiesCounted, load_open
<1>3. FeesCovered
  BY FeesAreCovered DEF RewardsInv
<1>4. DustConserved /\ BucketsBacked /\ MigratedOnce
  BY DEF RewardsInv, DustInv, BucketInv, MigrationInv
<1> QED BY <1>1, <1>2, <1>3, <1>4 DEF RewardsBacked

(* Every reward program can pay what it promised, always, for any number   *)
(* of campaigns, recipients, stakers and providers and any weights, fees   *)
(* and precision: the promise of reward_campaign.rs, fee_accrual.rs,       *)
(* reward_dust.rs, reward_vault.rs and migration.rs together.              *)
THEOREM RewardsAlwaysBacked == ProgramsSpec => []RewardsBacked
<1>1. ProgramsInit => RewardsInv
  BY RewardsInvStart
<1>2. RewardsInv /\ [ProgramsNext]_programsVars => RewardsInv'
  BY RewardsInvStep
<1>3. RewardsInv => RewardsBacked
  BY RewardsInvImplies
<1> QED BY <1>1, <1>2, <1>3, PTL DEF ProgramsSpec

-----------------------------------------------------------------------------
(* What was earned is kept. *)

(* A greater accumulator never lowers what is pending. *)
LEMMA PendingMonotone ==
  ASSUME NEW p \in Positions, NEW acc \in Nat, NEW delta \in Nat
  PROVE  /\ settle(p, acc).realized \in Nat
         /\ settle(p, acc).realized <= settle(p, acc + delta).realized
<1>1. /\ p.shares \in Nat /\ p.debt \in Nat /\ p.realized \in Nat /\ Precision \in Nat \ {0}
      /\ acc + delta \in Nat
  BY Parameters DEF Positions
<1>2. PICK x \in Nat, y \in Nat, d \in Nat :
        x = p.shares * acc /\ d = p.shares * delta /\ y = p.shares * (acc + delta)
  BY <1>1, ProductNat
<1>3. x <= y
  <2>1. p.shares * (acc + delta) = p.shares * acc + p.shares * delta
    BY <1>1
  <2> QED BY <1>2, <2>1
<1>4. /\ x \div Precision \in Nat /\ Precision * (x \div Precision) <= x
      /\ y \div Precision \in Nat /\ y = Precision * (y \div Precision) + (y % Precision)
      /\ y % Precision \in Nat /\ y % Precision < Precision
  BY <1>1, DivRoundsDown
<1>5. PICK a \in Nat, b \in Nat :
        a = accumulated_for(p.shares, acc) /\ b = accumulated_for(p.shares, acc + delta)
          /\ a = x \div Precision /\ b = y \div Precision
  BY <1>2, <1>4 DEF accumulated_for
<1>6. a <= b
  <2>1. ASSUME a > b PROVE FALSE
    <3>1. PICK e \in Nat : a = b + e /\ e >= 1
      <4>1. a - b \in Nat /\ a = b + (a - b) /\ a - b >= 1
        BY <2>1
      <4> QED BY <4>1
    <3>2. PICK pa \in Nat, pb \in Nat, pe \in Nat :
            pa = Precision * a /\ pb = Precision * b /\ pe = Precision * e
      BY <1>1, ProductNat
    <3>3. pa = pb + pe
      <4>1. Precision * (b + e) = Precision * b + Precision * e
        BY <1>1
      <4> QED BY <3>1, <3>2, <4>1
    <3>4. pe >= Precision
      BY <1>1, <3>1, <3>2
    <3>5. pa <= x /\ y < pb + Precision
      BY <1>1, <1>4, <1>5, <3>2
    <3> QED BY <1>1, <1>3, <3>3, <3>4, <3>5
  <2> QED BY <2>1
<1>7. settle(p, acc).realized = p.realized + Over(a - p.debt)
  <2>1. CASE a <= p.debt
    BY <1>1, <1>5, <2>1 DEF settle, Over
  <2>2. CASE a > p.debt
    <3>1. settle(p, acc) = [p EXCEPT !.realized = @ + (accumulated_for(p.shares, acc) - p.debt),
                                     !.debt = accumulated_for(p.shares, acc)]
      <4>1. ~(accumulated_for(p.shares, acc) <= p.debt)
        BY <1>1, <1>5, <2>2
      <4> QED BY <4>1, Zenon DEF settle
    <3>2. settle(p, acc).realized = p.realized + (a - p.debt)
      BY <3>1, <1>5 DEF Positions
    <3> QED BY <3>2, <1>1, <2>2 DEF Over
  <2> QED BY <1>1, <2>1, <2>2
<1>8. settle(p, acc + delta).realized = p.realized + Over(b - p.debt)
  <2>1. CASE b <= p.debt
    BY <1>1, <1>5, <2>1 DEF settle, Over
  <2>2. CASE b > p.debt
    <3>1. settle(p, acc + delta) =
            [p EXCEPT !.realized = @ + (accumulated_for(p.shares, acc + delta) - p.debt),
                      !.debt = accumulated_for(p.shares, acc + delta)]
      <4>1. ~(accumulated_for(p.shares, acc + delta) <= p.debt)
        BY <1>1, <1>5, <2>2
      <4> QED BY <4>1, Zenon DEF settle
    <3>2. settle(p, acc + delta).realized = p.realized + (b - p.debt)
      BY <3>1, <1>5 DEF Positions
    <3> QED BY <3>2, <1>1, <2>2 DEF Over
  <2> QED BY <1>1, <2>1, <2>2
<1> QED BY <1>1, <1>6, <1>7, <1>8 DEF Over

(* The accumulator only grows. *)
LEMMA AccumulatorGrows ==
  ASSUME AccrualInv, NEW amount \in FeeAmounts, accrue_deposit(amount)
  PROVE  \E delta \in Nat : state'.acc = state.acc + delta
<1> DEFINE scaled == (amount + state.carry) * Precision + state.dust
           delta == IF state.shares = 0 THEN 0 ELSE scaled \div state.shares
<1>1. /\ state \in FeeStates /\ amount \in Nat /\ Precision \in Nat
      /\ state.shares \in Nat /\ state.carry \in Nat /\ state.dust \in Nat
  BY Parameters DEF AccrualInv, AccrualTypeOK, FeeStates
<1>2. scaled \in Nat
  <2>1. amount + state.carry \in Nat
    BY <1>1
  <2>2. (amount + state.carry) * Precision \in Nat
    BY <1>1, <2>1, ProductNat
  <2> QED BY <1>1, <2>2
<1>3. state'.acc = state.acc + delta
  BY <1>1 DEF accrue_deposit, FeeStates
<1> HIDE DEF scaled
<1>4. delta \in Nat
  <2>1. CASE state.shares = 0
    BY <2>1
  <2>2. CASE state.shares # 0
    BY <1>1, <1>2, <2>2, DivRoundsDown
  <2> QED BY <2>1, <2>2
<1> QED BY <1>3, <1>4

(* A position whose earnings are within its checkpoint has pending only    *)
(* what it realized.                                                       *)
LEMMA CoveredPending ==
  ASSUME NEW q, NEW acc, accumulated_for(q.shares, acc) <= q.debt
  PROVE  settle(q, acc).realized = q.realized
BY DEF settle

(* Only a claim lowers what is pending, to 0, and pays it. *)
LEMMA KeptByStep ==
  ASSUME AccrualInv, [AccrualNext]_feeVars, NEW s \in Stakers, pending_fees(s)' < pending_fees(s)
  PROVE  pending_fees(s)' = 0 /\ paid' = paid + pending_fees(s)
<1>1. /\ position[s] \in Positions /\ state.acc \in Nat /\ pending_fees(s) \in Nat
      /\ position \in [Stakers -> Positions]
      /\ pending_fees(s) = settle(position[s], state.acc).realized
      /\ pending_fees(s)' = settle(position'[s], state'.acc).realized
      /\ ~(pending_fees(s) <= pending_fees(s)')
  <2>1. pending_fees(s)' \in Nat
    <3>1. AccrualInv'
      BY AccrualStep, AccrualUnchanged
    <3>2. position'[s] \in Positions /\ state'.acc \in Nat /\ 0 \in Nat
      BY <3>1 DEF AccrualInv, AccrualTypeOK, FeeStates
    <3>3. settle(position'[s], state'.acc).realized \in Nat
      BY <3>2, PendingMonotone
    <3> QED BY <3>3 DEF pending_fees, settle, accumulated_for
  <2>2. pending_fees(s) = settle(position[s], state.acc).realized
        /\ pending_fees(s)' = settle(position'[s], state'.acc).realized
    BY DEF pending_fees, settle, accumulated_for
  <2>3. pending_fees(s) \in Nat /\ position[s] \in Positions /\ state.acc \in Nat
    BY PendingIsWorth, PositionFacts
  <2> QED BY <2>1, <2>2, <2>3 DEF AccrualInv, AccrualTypeOK
<1>2. ASSUME NEW amount \in FeeAmounts, accrue_deposit(amount) PROVE FALSE
  <2>1. PICK delta \in Nat : state'.acc = state.acc + delta
    BY <1>2, AccumulatorGrows
  <2>2. position' = position
    BY <1>2 DEF accrue_deposit
  <2>3. settle(position[s], state.acc).realized
          <= settle(position[s], state.acc + delta).realized
    BY <1>1, PendingMonotone
  <2> QED BY <1>1, <2>1, <2>2, <2>3
<1>3. ASSUME NEW e \in Stakers, NEW n \in Nat, SetShares(e, n) PROVE FALSE
  <2>1. state'.acc = state.acc
    <3>1. state \in FeeStates
      BY DEF AccrualInv, AccrualTypeOK
    <3> QED BY <1>3, <3>1 DEF SetShares, FeeStates
  <2>2. CASE e = s
    <3> DEFINE r == settle(position[s], state.acc)
               g == debt_checkpoint(n, state.acc)
               q == [r EXCEPT !.shares = n, !.debt = g]
    <3>1. r \in Positions
      BY PositionFacts
    <3>2. position'[s] = q
      BY <1>1, <1>3, <2>2 DEF SetShares
    <3>3. g \in Nat /\ accumulated_for(n, state.acc) <= g
      BY <1>1, CheckpointCovers
    <3> HIDE DEF r, g
    <3>4. q.shares = n /\ q.debt = g /\ q.realized = r.realized
      BY <3>1, <3>3 DEF Positions
    <3> HIDE DEF q
    <3>5. settle(q, state.acc).realized = r.realized
      BY <3>3, <3>4, CoveredPending
    <3>6. pending_fees(s)' = pending_fees(s)
      BY <1>1, <2>1, <3>2, <3>5 DEF r
    <3> QED BY <1>1, <3>6
  <2>3. CASE e # s
    <3>1. position'[s] = position[s]
      BY <1>1, <1>3, <2>3 DEF SetShares
    <3>2. pending_fees(s)' = pending_fees(s)
      BY <1>1, <2>1, <3>1
    <3> QED BY <1>1, <3>2
  <2> QED BY <2>2, <2>3
<1>4. ASSUME NEW e \in Stakers, claim_fees(e) PROVE pending_fees(s)' = 0 /\ paid' = paid + pending_fees(s)
  <2>1. state' = state
    BY <1>4 DEF claim_fees
  <2>2. CASE e = s
    <3> DEFINE r == settle(position[s], state.acc)
               q == [r EXCEPT !.realized = 0]
    <3>1. r \in Positions /\ r.shares = position[s].shares
          /\ accumulated_for(position[s].shares, state.acc) <= r.debt
      BY <1>1, SettleKeepsWorth
    <3>2. position'[s] = q
      BY <1>1, <1>4, <2>2 DEF claim_fees
    <3> HIDE DEF r
    <3>3. q.shares = r.shares /\ q.debt = r.debt /\ q.realized = 0
      BY <3>1 DEF Positions
    <3> HIDE DEF q
    <3>4. settle(q, state.acc).realized = 0
      BY <3>1, <3>3, CoveredPending
    <3>5. pending_fees(s)' = 0
      BY <1>1, <2>1, <3>2, <3>4
    <3>6. paid' = paid + pending_fees(s)
      BY <1>4, <2>2 DEF claim_fees
    <3> QED BY <3>5, <3>6
  <2>3. CASE e # s
    <3>1. position'[s] = position[s]
      BY <1>1, <1>4, <2>3 DEF claim_fees
    <3>2. pending_fees(s)' = pending_fees(s)
      BY <1>1, <2>1, <3>1
    <3> QED BY <1>1, <3>2
  <2> QED BY <2>2, <2>3
<1>5. ASSUME UNCHANGED feeVars PROVE FALSE
  <2>1. position' = position /\ state' = state
    BY <1>5 DEF feeVars
  <2>2. pending_fees(s)' = pending_fees(s)
    BY <1>1, <2>1
  <2> QED BY <1>1, <2>2
<1>6. ASSUME NEW e \in Stakers, ShareCalls(e) PROVE FALSE
  BY <1>3, <1>6, ShareCallsSet
<1> QED BY <1>2, <1>4, <1>5, <1>6 DEF AccrualNext

(* What a staker earned in fees is never lost: no deposit, share change or *)
(* slash lowers it, and a claim pays all of it (settle, claim and          *)
(* apply_slash of fee_accrual.rs).                                         *)
THEOREM AccruedAlwaysKept == ProgramsSpec => [][AccruedIsKept]_programsVars
<1>1. ProgramsInit => RewardsInv
  BY RewardsInvStart
<1>2. RewardsInv /\ [ProgramsNext]_programsVars => RewardsInv'
  BY RewardsInvStep
<1>3. RewardsInv /\ [ProgramsNext]_programsVars => [AccruedIsKept]_programsVars
  <2> SUFFICES ASSUME RewardsInv, [ProgramsNext]_programsVars PROVE AccruedIsKept
    OBVIOUS
  <2>1. AccrualInv
    BY DEF RewardsInv
  <2>2. [AccrualNext]_feeVars
    BY DEF ProgramsNext, CampaignNext, DustNext, BucketNext, MigrationNext, programsVars
  <2> QED BY <2>1, <2>2, KeptByStep DEF AccruedIsKept
<1> QED BY <1>1, <1>2, <1>3, PTL DEF ProgramsSpec
=============================================================================
