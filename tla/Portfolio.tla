----------------------------- MODULE Portfolio -----------------------------
(***************************************************************************)
(* The user portfolios: positions and the indexes kept of them, also for   *)
(* users of the first version, whose list is not split yet; partial and    *)
(* full closes with their tax events and streaks; exposure caps; tags;     *)
(* cost lots and snapshots; subscriptions to providers.                    *)
(***************************************************************************)
EXTENDS Integers, Sequences, FiniteSets, Totals

CONSTANTS
    Users, MaxPositions,          \* positions have the numbers 1, 2, ...
    EntryPrices, Sizes, Deltas,   \* what users open and close with
    Assets, CapAmounts,
    Tags, MaxPerTag,
    MaxQueued,                    \* users waiting to be migrated
    QuotePrices, MaxLots, Fees, Days, MaxClock, MaxPaid

Ids == 1..MaxPositions
NoTag == "none"
NoAsset == "none"

(* The constants have their types. *)
ASSUME PortfolioAssumption ==
    /\ MaxPositions \in Nat /\ MaxPerTag \in Nat \ {0} /\ MaxQueued \in Nat
    /\ EntryPrices \subseteq Nat \ {0} /\ Sizes \subseteq Nat \ {0} /\ Deltas \subseteq Int
    /\ CapAmounts \subseteq Nat \ {0} /\ NoTag \notin Tags /\ NoAsset \notin Assets

VARIABLES
    nextId, positions, list,                  \* Position(id), UserPositions
    openIds, closedIds, hasOpen, hasClosed,   \* the two indexes, and whether they are stored
    migrated, migrationQueue,
    legacy,                                   \* history: the positions of the first version are 1..legacy
    executor, kyc, kycRequired, restricted,
    tax, partials, streak, best,              \* partials is history: what partial closes realized
    asset, cap, exposure, capSince,           \* capSince is history: the exposure when the cap was set
    tag, byTag,
    clock, lots, fifoPnl, bought, snapshots,  \* bought is history: units ever added, less units closed
    terms, expires, paid                      \* paid is history: the days ever paid for

positionVars == <<nextId, positions, list, openIds, closedIds, hasOpen, hasClosed, legacy>>
migrationVars == <<migrated, migrationQueue>>
ruleVars == <<executor, kyc, kycRequired, restricted>>
closeVars == <<tax, partials, streak, best>>
capVars == <<asset, cap, exposure, capSince>>
tagVars == <<tag, byTag>>
bookVars == <<clock, lots, fifoPnl, bought, snapshots>>
subscriptionVars == <<terms, expires, paid>>
portfolioVars == <<positionVars, migrationVars, ruleVars, closeVars, capVars, tagVars, bookVars, subscriptionVars>>

NoPosition == [price |-> 0, amount |-> 0, status |-> "None", realized |-> 0]
Untaxed == [events |-> 0, pnl |-> 0, amount |-> 0]
OpenOf(u) == {i \in list[u] : positions[i].status = "Open"}
ClosedOf(u) == {i \in list[u] : positions[i].status = "Closed"}

(* A new contract, or one upgraded from the first version: that one kept one list of positions for each user and no index. *)
PortfolioInit ==
    /\ legacy \in {n \in {0, 1} : n <= MaxPositions} /\ nextId = legacy + 1
    /\ \E u \in Users, s \in {"Open", "Closed"}, p \in EntryPrices, x \in Sizes, d \in Deltas :
          /\ positions = [i \in Ids |-> IF i <= legacy THEN [price |-> p, amount |-> x, status |-> s, realized |-> IF s = "Open" THEN 0 ELSE d] ELSE NoPosition]
          /\ list = [v \in Users |-> IF v = u THEN 1..legacy ELSE {}]
    /\ openIds = [u \in Users |-> {}] /\ closedIds = [u \in Users |-> {}]
    /\ hasOpen = [u \in Users |-> FALSE] /\ hasClosed = [u \in Users |-> FALSE]
    /\ migrated = [u \in Users |-> FALSE] /\ migrationQueue = <<>>
    /\ executor = FALSE /\ kyc = [u \in Users |-> FALSE] /\ kycRequired = FALSE /\ restricted = [u \in Users |-> FALSE]
    /\ tax = [i \in Ids |-> Untaxed] /\ partials = [i \in Ids |-> positions[i].realized]
    /\ streak = [u \in Users |-> 0] /\ best = [u \in Users |-> 0]
    /\ asset = [i \in Ids |-> NoAsset] /\ cap = [u \in Users |-> [a \in Assets |-> 0]]
    /\ exposure = [u \in Users |-> [a \in Assets |-> 0]] /\ capSince = [u \in Users |-> [a \in Assets |-> 0]]
    /\ tag = [i \in Ids |-> NoTag] /\ byTag = [u \in Users |-> [t \in Tags |-> {}]]
    /\ clock = 0 /\ lots = [u \in Users |-> <<>>] /\ fifoPnl = [u \in Users |-> 0]
    /\ bought = [u \in Users |-> 0] /\ snapshots = [u \in Users |-> <<>>]
    /\ terms = [u \in Users |-> 0] /\ expires = [u \in Users |-> [p \in Users |-> 0]] /\ paid = [u \in Users |-> [p \in Users |-> 0]]

-----------------------------------------------------------------------------
(* Opening and closing.                                                     *)

MayOpen(u) == (kycRequired => kyc[u]) /\ ~restricted[u]
Enter(u, p, x) ==
    /\ nextId <= MaxPositions /\ nextId' = nextId + 1
    /\ positions' = [positions EXCEPT ![nextId] = [price |-> p, amount |-> x, status |-> "Open", realized |-> 0]]
    /\ list' = [list EXCEPT ![u] = @ \cup {nextId}]
    /\ openIds' = [openIds EXCEPT ![u] = @ \cup {nextId}] /\ hasOpen' = [hasOpen EXCEPT ![u] = TRUE]
    /\ UNCHANGED <<closedIds, hasClosed, legacy>>
open_position(u, p, x) ==
    /\ MayOpen(u) /\ Enter(u, p, x)
    /\ UNCHANGED <<migrationVars, ruleVars, closeVars, capVars, tagVars, bookVars, subscriptionVars>>

require_open_position(u, i) == i \in list[u] /\ positions[i].status = "Open"
(* Fault: the position stays in the index of the open ones. *)
MarkLeavesOpen(u, i) ==
    /\ UNCHANGED openIds /\ hasOpen' = [hasOpen EXCEPT ![u] = TRUE]
    /\ closedIds' = [closedIds EXCEPT ![u] = @ \cup {i}] /\ hasClosed' = [hasClosed EXCEPT ![u] = TRUE]
mark_position_closed(u, i) ==
    /\ openIds' = [openIds EXCEPT ![u] = @ \ {i}] /\ hasOpen' = [hasOpen EXCEPT ![u] = TRUE]
    /\ closedIds' = [closedIds EXCEPT ![u] = @ \cup {i}] /\ hasClosed' = [hasClosed EXCEPT ![u] = TRUE]
Taxed(i, d) == [events |-> tax[i].events + 1, pnl |-> tax[i].pnl + d, amount |-> positions[i].amount]
close_position(u, i, d) ==
    /\ require_open_position(u, i)
    /\ positions' = [positions EXCEPT ![i].status = "Closed", ![i].realized = @ + d]
    /\ mark_position_closed(u, i) /\ tax' = [tax EXCEPT ![i] = Taxed(i, d)]
    /\ streak' = [streak EXCEPT ![u] = IF d > 0 THEN @ + 1 ELSE 0]
    /\ best' = [best EXCEPT ![u] = IF d > 0 /\ streak[u] + 1 > @ THEN streak[u] + 1 ELSE @]
    /\ UNCHANGED <<nextId, list, legacy, partials, migrationVars, ruleVars, capVars, tagVars, bookVars, subscriptionVars>>
(* The keeper reports no result: nothing is realized, the streak stays. *)
close_position_keeper(u, i) ==
    /\ executor /\ require_open_position(u, i)
    /\ positions' = [positions EXCEPT ![i].status = "Closed"]
    /\ mark_position_closed(u, i) /\ tax' = [tax EXCEPT ![i] = Taxed(i, 0)]
    /\ UNCHANGED <<nextId, list, legacy, partials, streak, best, migrationVars, ruleVars, capVars, tagVars, bookVars, subscriptionVars>>
(* A partial close that takes all closes the position, without a tax event. *)
close_position_partial(u, i, x, d) ==
    /\ require_open_position(u, i) /\ x <= positions[i].amount
    /\ positions' = [positions EXCEPT ![i].amount = @ - x, ![i].realized = @ + d,
                                      ![i].status = IF x = positions[i].amount THEN "Closed" ELSE @]
    /\ \/ x = positions[i].amount /\ mark_position_closed(u, i)
       \/ x < positions[i].amount /\ UNCHANGED <<openIds, closedIds, hasOpen, hasClosed>>
    /\ partials' = [partials EXCEPT ![i] = @ + d]
    /\ UNCHANGED <<nextId, list, legacy, tax, streak, best, migrationVars, ruleVars, capVars, tagVars, bookVars, subscriptionVars>>

SetRules == UNCHANGED <<positionVars, migrationVars, closeVars, capVars, tagVars, bookVars, subscriptionVars>>
set_trade_executor == executor' = TRUE /\ SetRules /\ UNCHANGED <<kyc, kycRequired, restricted>>
set_kyc_status(u, b) == kyc' = [kyc EXCEPT ![u] = b] /\ SetRules /\ UNCHANGED <<executor, kycRequired, restricted>>
set_kyc_required_mode(b) == kycRequired' = b /\ SetRules /\ UNCHANGED <<executor, kyc, restricted>>
set_user_restriction(u, b) == restricted' = [restricted EXCEPT ![u] = b] /\ SetRules /\ UNCHANGED <<executor, kyc, kycRequired>>

Indexed(S) ==
    /\ openIds' = [u \in Users |-> IF u \in S THEN OpenOf(u) ELSE openIds[u]]
    /\ closedIds' = [u \in Users |-> IF u \in S THEN ClosedOf(u) ELSE closedIds[u]]
    /\ hasOpen' = [u \in Users |-> u \in S \/ hasOpen[u]] /\ hasClosed' = [u \in Users |-> u \in S \/ hasClosed[u]]
    /\ UNCHANGED <<nextId, positions, list, legacy, ruleVars, closeVars, capVars, tagVars, bookVars, subscriptionVars>>
(* A read that misses an index (get_portfolio, get_trade_history) writes both. *)
rebuild_position_indexes(u) == (~hasOpen[u] \/ ~hasClosed[u]) /\ Indexed({u}) /\ UNCHANGED migrationVars
register_migration_users(u) ==
    /\ Len(migrationQueue) < MaxQueued /\ migrationQueue' = Append(migrationQueue, u)
    /\ UNCHANGED <<positionVars, migrated, ruleVars, closeVars, capVars, tagVars, bookVars, subscriptionVars>>
(* The last n of the queue, each at most once. *)
migrate_portfolio_v1_to_v2(n) ==
    LET left == Len(migrationQueue) - n
        batch == {migrationQueue[k] : k \in (left + 1)..Len(migrationQueue)}
    IN /\ n \in 0..Len(migrationQueue) /\ Indexed({u \in batch : ~migrated[u]})
       /\ migrated' = [u \in Users |-> migrated[u] \/ u \in batch]
       /\ migrationQueue' = SubSeq(migrationQueue, 1, left)

-----------------------------------------------------------------------------
(* Exposure caps and tags.                                                  *)

check_cap(u, a, x) == cap[u][a] = 0 \/ exposure[u][a] + x <= cap[u][a]
open_position_with_cap_check(u, a, p, x) ==
    /\ MayOpen(u) /\ check_cap(u, a, x) /\ Enter(u, p, x)
    /\ asset' = [asset EXCEPT ![nextId] = a] /\ exposure' = [exposure EXCEPT ![u][a] = @ + x]
    /\ UNCHANGED <<cap, capSince, migrationVars, ruleVars, closeVars, tagVars, bookVars, subscriptionVars>>
SetCap(u, a, c) ==
    /\ cap' = [cap EXCEPT ![u][a] = c] /\ capSince' = [capSince EXCEPT ![u][a] = exposure[u][a]]
    /\ UNCHANGED <<asset, exposure, positionVars, migrationVars, ruleVars, closeVars, tagVars, bookVars, subscriptionVars>>
set_asset_exposure_cap(u, a, c) == SetCap(u, a, c)
remove_asset_exposure_cap(u, a) == SetCap(u, a, 0)

Untagged(u, i) == [t \in Tags |-> byTag[u][t] \ {i}]
tag_position(u, i, t) ==
    /\ i \in list[u] /\ Cardinality(Untagged(u, i)[t]) < MaxPerTag
    /\ tag' = [tag EXCEPT ![i] = t] /\ byTag' = [byTag EXCEPT ![u] = [Untagged(u, i) EXCEPT ![t] = @ \cup {i}]]
    /\ UNCHANGED <<positionVars, migrationVars, ruleVars, closeVars, capVars, bookVars, subscriptionVars>>
untag_position(u, i) ==
    /\ i \in list[u] /\ tag' = [tag EXCEPT ![i] = NoTag] /\ byTag' = [byTag EXCEPT ![u] = Untagged(u, i)]
    /\ UNCHANGED <<positionVars, migrationVars, ruleVars, closeVars, capVars, bookVars, subscriptionVars>>

-----------------------------------------------------------------------------
(* Cost lots, snapshots, subscriptions.                                     *)

Others == UNCHANGED <<positionVars, migrationVars, ruleVars, closeVars, capVars, tagVars>>
add_cost_lot(u, p, x) ==
    /\ Len(lots[u]) < MaxLots /\ lots' = [lots EXCEPT ![u] = Append(@, [price |-> p, amount |-> x])]
    /\ bought' = [bought EXCEPT ![u] = @ + x] /\ Others /\ UNCHANGED <<clock, fifoPnl, snapshots, subscriptionVars>>
(* Before[n] units lie in the first n lots; a close takes the oldest ones first. *)
Before(s) == [n \in 0..Len(s) |-> Total([k \in 1..Len(s) |-> s[k].amount], n)]
Consumed(s, x) == [n \in 1..Len(s) |->
    IF Before(s)[n] <= x THEN s[n].amount ELSE IF Before(s)[n - 1] < x THEN x - Before(s)[n - 1] ELSE 0]
TowardsZero(a, b) == IF a < 0 THEN -((-a) \div b) ELSE a \div b
FifoPnl(s, x, q) == Total([n \in 1..Len(s) |-> TowardsZero((q - s[n].price) * Consumed(s, x)[n], s[n].price)], Len(s))
Remaining(s, x) == SelectSeq([n \in 1..Len(s) |-> [s[n] EXCEPT !.amount = @ - Consumed(s, x)[n]]], LAMBDA l : l.amount > 0)
close_fifo(u, x, q) ==
    /\ Before(lots[u])[Len(lots[u])] >= x
    /\ fifoPnl' = [fifoPnl EXCEPT ![u] = @ + FifoPnl(lots[u], x, q)]
    /\ lots' = [lots EXCEPT ![u] = Remaining(@, x)] /\ bought' = [bought EXCEPT ![u] = @ - x]
    /\ Others /\ UNCHANGED <<clock, snapshots, subscriptionVars>>
(* Realized results count once the position is closed; without a fresh price (0) open positions are left out. *)
Realized(u) == Total([i \in Ids |-> IF i \in list[u] /\ positions[i].status = "Closed" THEN positions[i].realized ELSE 0], MaxPositions) + fifoPnl[u]
Unrealized(u, q) == Total([i \in Ids |-> IF i \in OpenOf(u) THEN TowardsZero((q - positions[i].price) * positions[i].amount, positions[i].price) ELSE 0], MaxPositions)
compute_get_pnl(u, q) == Realized(u) + IF q = 0 THEN 0 ELSE Unrealized(u, q)
take_snapshot(u, q) ==
    /\ Len(snapshots[u]) < MaxLots
    /\ snapshots' = [snapshots EXCEPT ![u] = Append([k \in DOMAIN @ |-> IF @[k].at = clock THEN [@[k] EXCEPT !.value = compute_get_pnl(u, q)] ELSE @[k]],
                                                    [at |-> clock, value |-> compute_get_pnl(u, q)])]
    /\ Others /\ UNCHANGED <<clock, lots, fifoPnl, bought, subscriptionVars>>
compute_concentration_score(u) ==
    LET total == Total([i \in Ids |-> IF i \in openIds[u] THEN positions[i].amount ELSE 0], MaxPositions)
        weight(i) == IF i \in openIds[u] /\ total > 0 THEN (positions[i].amount * 10000) \div total ELSE 0
    IN  Total([i \in Ids |-> (weight(i) * weight(i)) \div 10000], MaxPositions)
Tick == clock < MaxClock /\ clock' = clock + 1 /\ Others /\ UNCHANGED <<lots, fifoPnl, bought, snapshots, subscriptionVars>>

set_provider_subscription_terms(p, f) ==
    /\ f > 0 /\ terms' = [terms EXCEPT ![p] = f] /\ Others /\ UNCHANGED <<bookVars, expires, paid>>
subscribe_to_provider(u, p, d) ==
    /\ u # p /\ d > 0 /\ terms[p] > 0 /\ paid[u][p] + d <= MaxPaid
    /\ expires' = [expires EXCEPT ![u][p] = (IF @ > clock THEN @ ELSE clock) + d]
    /\ paid' = [paid EXCEPT ![u][p] = @ + d] /\ Others /\ UNCHANGED <<bookVars, terms>>
check_subscription(u, p) == clock < expires[u][p]

-----------------------------------------------------------------------------
CloseNext == \E u \in Users : \E i \in list[u], d \in Deltas :
    close_position(u, i, d) \/ \E x \in Sizes : close_position_partial(u, i, x, d)
OpenNext == \E u \in Users, p \in EntryPrices, x \in Sizes : open_position(u, p, x)
PositionNext ==
    \/ OpenNext \/ CloseNext
    \/ \E u \in Users : rebuild_position_indexes(u) \/ register_migration_users(u)
    \/ \E n \in 0..MaxQueued : migrate_portfolio_v1_to_v2(n)
RuleNext ==
    \/ OpenNext \/ set_trade_executor \/ \E u \in Users : \E i \in list[u] : close_position_keeper(u, i)
    \/ \E b \in BOOLEAN : set_kyc_required_mode(b) \/ \E u \in Users : set_kyc_status(u, b) \/ set_user_restriction(u, b)
CapNext ==
    \/ CloseNext
    \/ \E u \in Users, a \in Assets :
          \/ \E p \in EntryPrices, x \in Sizes : open_position_with_cap_check(u, a, p, x)
          \/ \E c \in CapAmounts : set_asset_exposure_cap(u, a, c)
          \/ remove_asset_exposure_cap(u, a)
TagNext ==
    \/ OpenNext
    \/ \E u \in Users : \E i \in list[u] : untag_position(u, i) \/ \E t \in Tags : tag_position(u, i, t)
BookNext ==
    \/ \E u \in Users, x \in Sizes, p \in EntryPrices : add_cost_lot(u, p, x) \/ close_fifo(u, x, p)
    \/ \E u \in Users, q \in QuotePrices : take_snapshot(u, q)
    \/ (\E u \in Users : \E i \in list[u], d \in Deltas : close_position(u, i, d)) \/ Tick
SubscribeNext ==
    \/ \E p \in Users : (\E f \in Fees : set_provider_subscription_terms(p, f)) \/ \E u \in Users, d \in Days : subscribe_to_provider(u, p, d)
    \/ Tick
PortfolioNext == PositionNext \/ RuleNext \/ CapNext \/ TagNext \/ BookNext \/ SubscribeNext
PortfolioSpec == PortfolioInit /\ [][PortfolioNext]_portfolioVars

-----------------------------------------------------------------------------
Positions == [price : Nat, amount : Nat, status : {"None", "Open", "Closed"}, realized : Int]
TaxEvents == [events : Nat, pnl : Int, amount : Nat]
(* Every variable of the position store has its type. *)
PortfolioTypeOK ==
    /\ legacy \in Nat /\ nextId \in 1..(MaxPositions + 1) /\ legacy < nextId
    /\ positions \in [Ids -> Positions] /\ list \in [Users -> SUBSET Ids]
    /\ openIds \in [Users -> SUBSET Ids] /\ closedIds \in [Users -> SUBSET Ids]
    /\ hasOpen \in [Users -> BOOLEAN] /\ hasClosed \in [Users -> BOOLEAN]
    /\ migrated \in [Users -> BOOLEAN] /\ migrationQueue \in Seq(Users)
    /\ tax \in [Ids -> TaxEvents] /\ partials \in [Ids -> Int]
    /\ streak \in [Users -> Nat] /\ best \in [Users -> Nat]
    /\ asset \in [Ids -> Assets \cup {NoAsset}]
    /\ cap \in [Users -> [Assets -> Nat]] /\ exposure \in [Users -> [Assets -> Nat]] /\ capSince \in [Users -> [Assets -> Nat]]
    /\ tag \in [Ids -> Tags \cup {NoTag}] /\ byTag \in [Users -> [Tags -> SUBSET Ids]]

(* The numbers handed out have one owner each; the indexes hold no position of another user and none of the wrong state; they miss at most positions of the first version, and none once the user is migrated. *)
PositionsIndexed ==
    /\ \A i \in Ids : i < nextId <=> \E u \in Users : i \in list[u]
    /\ \A u, v \in Users : u # v => list[u] \cap list[v] = {}
    /\ \A i \in Ids : positions[i].status = "None" <=> i >= nextId
    /\ \A u \in Users :
          /\ openIds[u] \subseteq OpenOf(u) /\ closedIds[u] \subseteq ClosedOf(u)
          /\ \A i \in list[u] : i > legacy \/ migrated[u] => i \in openIds[u] \cup closedIds[u]
          /\ (~hasOpen[u] => openIds[u] = {}) /\ (~hasClosed[u] => closedIds[u] = {})
(* What a position realized is what its partial closes and its tax event say, together; it has a tax event once at most, when it is closed; an open position still holds something, a closed one without a tax event is of the first version or was taken apart to nothing. *)
RealizedOnce ==
    /\ \A i \in Ids : positions[i].realized = partials[i] + tax[i].pnl
    /\ \A i \in Ids : tax[i].events <= 1 /\ (tax[i].events = 1 => positions[i].status = "Closed" /\ tax[i].amount = positions[i].amount)
    /\ \A i \in Ids : tax[i].events = 0 => tax[i].pnl = 0
    /\ \A i \in Ids : positions[i].status = "Open" => positions[i].amount > 0
    /\ \A i \in Ids : positions[i].status = "Closed" /\ tax[i].events = 0 => i <= legacy \/ positions[i].amount = 0
    /\ \A u \in Users : streak[u] <= best[u]
(* The amounts open in an asset, of the positions opened against the cap. *)
OpenIn(u, a) == [i \in Ids |-> IF i \in list[u] /\ asset[i] = a /\ positions[i].status = "Open" THEN positions[i].amount ELSE 0]
(* The tracked exposure covers what is open in the asset, and it exceeds a cap only as far as it did when the cap was set. *)
CapsHold == \A u \in Users, a \in Assets :
    /\ Total(OpenIn(u, a), MaxPositions) <= exposure[u][a]
    /\ cap[u][a] # 0 => exposure[u][a] <= cap[u][a] \/ exposure[u][a] = capSince[u][a]
(* The index by tag is the tags of the user's own positions, turned round; no tag has more positions than the limit. *)
TagsIndexed == \A u \in Users, t \in Tags :
    /\ byTag[u][t] = {i \in list[u] : tag[i] = t}
    /\ Cardinality(byTag[u][t]) <= MaxPerTag
(* Positions, results, caps and tags agree with each other, whatever the order of opening, closing, migrating, capping and tagging. *)
PortfolioSound == PositionsIndexed /\ RealizedOnce /\ CapsHold /\ TagsIndexed

(* A position that is closed never changes; an open one keeps its price and never grows; it stays in its owner's list, and numbers are not used again. A restricted user, or one who lacks a required verification, opens none. *)
PositionsByRule ==
    /\ \A i \in Ids : positions[i].status = "Closed" => positions'[i] = positions[i]
    /\ \A i \in Ids : positions[i].status = "Open" => positions'[i].price = positions[i].price /\ positions'[i].amount <= positions[i].amount
    /\ \A u \in Users : list[u] \subseteq list'[u] /\ (list'[u] # list[u] => ~restricted[u] /\ (kycRequired => kyc[u]))
    /\ \A u \in Users : migrated[u] => migrated'[u]

(* The lots of a user are what was bought and not closed, none is empty, and the newest ones are the last to go; snapshots are in the order of time, and those of one moment agree; the concentration of one position is full, and no portfolio exceeds it. *)
BooksSound == \A u \in Users :
    /\ Before(lots[u])[Len(lots[u])] = bought[u] /\ \A k \in DOMAIN lots[u] : lots[u][k].amount > 0
    /\ \A j, k \in DOMAIN snapshots[u] : j < k => snapshots[u][j].at <= snapshots[u][k].at
    /\ \A j, k \in DOMAIN snapshots[u] : snapshots[u][j].at = snapshots[u][k].at => snapshots[u][j].value = snapshots[u][k].value
    /\ compute_concentration_score(u) <= 10000 /\ (Cardinality(openIds[u]) = 1 => compute_concentration_score(u) = 10000)
(* A subscription lasts no longer than was paid for, and paying again never shortens one. *)
SubscribedAsPaid == \A u, p \in Users :
    /\ check_subscription(u, p) => expires[u][p] - clock <= paid[u][p]
    /\ expires[u][p] > 0 => expires[u][p] >= paid[u][p]
(* A close of lots takes the oldest first: what stays is an end of the list, of which only the first lot may have shrunk. *)
OldestFirst == \A u \in Users : Len(lots'[u]) <= Len(lots[u]) /\ lots'[u] # lots[u] /\ Len(lots'[u]) > 0 =>
    LET skip == Len(lots[u]) - Len(lots'[u]) IN
    /\ \A k \in 2..Len(lots'[u]) : lots'[u][k] = lots[u][k + skip]
    /\ lots'[u][1].price = lots[u][1 + skip].price /\ lots'[u][1].amount <= lots[u][1 + skip].amount
=============================================================================
