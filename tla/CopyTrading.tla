---------------------------- MODULE CopyTrading ----------------------------
(***************************************************************************)
(* trade_executor/src/lib.rs for one token: market copy trades and the     *)
(* four ways they are started - directly, in batches, as limit orders and  *)
(* from the queue with its grace period, retries and dead letters - and    *)
(* the confirmation of the last trade.  Every way ends in                  *)
(* execute_market_copy_trade, modelled as a function on the book (the      *)
(* tables it writes): a caller that swallows its error keeps what it wrote *)
(* before it failed.  Ledger and timestamp are one clock.                  *)
(***************************************************************************)
EXTENDS Integers, Sequences, FiniteSets, FiniteSetsExt, SequencesExt, Functions

CONSTANTS
    Users, Amounts, Balances, Prices, LimitPrices,
    Fee, MinSize,           \* estimated fee, minimum trade size of the token
    PctBps,                 \* portfolio_pct_bps; 0 when absent, or no oracle is set
    DailyLimits, InterestCaps, PositionCaps, Graces, Retries, Depths,
    PortfolioCap, Retention, BreakerSpan, OrderSpan, Day,
    MaxTime, MaxTrades, MaxOrders, MaxExecuted   \* bounds

CopyTyped ==
    /\ Amounts \subseteq Nat /\ Balances \subseteq Nat /\ Prices \subseteq Nat \ {0}
    /\ DailyLimits \cup InterestCaps \cup PositionCaps \cup Graces \cup Retries \subseteq Nat
    /\ {Day, BreakerSpan, OrderSpan} \subseteq Nat \ {0} /\ {Fee, MinSize, Retention} \subseteq Nat

VARIABLES
    now, wallet, price,
    cfg,         \* DailyVolumeLimit, MaxOpenInterestPerPair, MaxOpenPositions, ...
    paused, breaker,  \* CircuitBreakerLedger, -1 when inactive
    exempt,      \* PositionLimitExempt
    book,        \* what execute_market_copy_trade writes, see NewBook
    queued, queueIds,        \* QueuedTrade, QueuedTradeIds
    dead, deadIds, deadOf,   \* DeadLetterTrade, DeadLetterAllIds, DeadLetterIds
    orders, orderIds,        \* PendingLimitOrder, PendingLimitOrderIds
    callback, partial,       \* CallbackContext, PartialFillRecord of trade ids
    done         \* history: fate of queued trades, fills of limit orders, finalized trades

settingVars == <<cfg, exempt>>
queueVars == <<queued, queueIds, dead, deadIds, deadOf>>
orderVars == <<orders, orderIds>>
confirmVars == <<callback, partial>>
vars == <<now, wallet, price, settingVars, paused, breaker, book, queueVars, orderVars,
          confirmVars, done>>

NewBook ==
    [interest |-> 0, count |-> [u \in Users |-> 0], held |-> [u \in Users |-> 0],
     volume |-> [u \in Users |-> 0], day |-> [u \in Users |-> 0], receipts |-> 0,
     confirm |-> [id |-> 0, at |-> 0, status |-> "None"],
     \* history: amounts executed today, and how many of them were sized by percentage
     traded |-> [u \in Users |-> 0], sized |-> [u \in Users |-> 0]]
Min2(S) == CHOOSE x \in S : \A y \in S : x <= y
Init ==
    /\ now = Day /\ wallet \in [Users -> Balances] /\ price \in Prices
    /\ cfg \in [limit : DailyLimits, interest : InterestCaps, positions : PositionCaps,
                grace : {Min2(Graces)}, retries : Retries, depth : Depths]
    /\ paused = FALSE /\ breaker = -1 /\ exempt = {} /\ book = NewBook
    /\ queued = <<>> /\ queueIds = <<>> /\ dead = <<>> /\ deadIds = <<>>
    /\ deadOf = [u \in Users |-> <<>>] /\ orders = <<>> /\ orderIds = <<>>
    /\ callback = {} /\ partial = {}
    /\ done = [fate |-> <<>>, fills |-> {}, finalized |-> {}]

Today == now \div Day
Put(f, k, v) == [x \in DOMAIN f \cup {k} |-> IF x = k THEN v ELSE f[x]]
Without(f, k) == Restrict(f, DOMAIN f \ {k})

-----------------------------------------------------------------------------
(* execute_market_copy_trade *)

market_circuit_breaker_active == breaker >= 0 /\ now - breaker < BreakerSpan
check_open_interest_limit(b, a) == cfg.interest <= 0 \/ b.interest + a <= cfg.interest
VolumeOf(b, u) == IF b.day[u] = Today THEN b.volume[u] ELSE 0
validate_min_trade_size(a) == a >= MinSize
check_position_cap(b, u) == u \in exempt \/ b.count[u] < cfg.positions
resolve_trade_amount(u, a, pct) ==
    LET computed == (wallet[u] * pct) \div 10000
    IN  IF pct = 0 \/ computed <= 0 THEN a ELSE computed
MAX_POSITION_PCT_BPS == 2000
(* With the fee, or without it when the fee can come from what is received. *)
check_user_balance(u, a) == wallet[u] >= a + Fee \/ wallet[u] >= a
validate_and_record_position(b, u) == u \in exempt \/ b.held[u] < PortfolioCap

Admitted(b, u, a) ==
    /\ a > 0 /\ validate_min_trade_size(a)
    /\ ~market_circuit_breaker_active /\ check_open_interest_limit(b, a)
(* A bug: the volume of a day is compared before the trade is added. *)
WithinVolumeBefore(b, u, a) == cfg.limit > 0 => VolumeOf(b, u) <= cfg.limit
WithinVolume(b, u, a) == cfg.limit > 0 => VolumeOf(b, u) + a <= cfg.limit
Charged(b, u, a) ==
    IF cfg.limit > 0
      THEN [b EXCEPT !.volume[u] = VolumeOf(b, u) + a, !.day[u] = Today] ELSE b
Allowed(b, u, a, pct) ==
    /\ check_position_cap(b, u) /\ pct <= MAX_POSITION_PCT_BPS
    /\ check_user_balance(u, resolve_trade_amount(u, a, pct))
    /\ validate_and_record_position(b, u)
(* Interest and volume count the amount asked for, the receipt and the     *)
(* order to be confirmed the amount that is executed.                      *)
Opened(b, u, a, pct) ==
    [b EXCEPT !.interest = @ + a, !.count[u] = @ + 1, !.held[u] = @ + 1,
              !.receipts = @ + 1, !.traded[u] = @ + resolve_trade_amount(u, a, pct),
              !.sized[u] = IF pct > 0 THEN @ + 1 ELSE @,
              !.confirm = [id |-> b.receipts + 1, at |-> now,
                           status |-> "ExecutedAwaitingConfirmation"]]
execute_market_copy_trade(b, u, a, pct) ==
    IF ~(Admitted(b, u, a) /\ WithinVolume(b, u, a)) THEN [book |-> b, ok |-> FALSE]
    ELSE IF ~Allowed(b, u, a, pct) THEN [book |-> Charged(b, u, a), ok |-> FALSE]
    ELSE [book |-> Opened(Charged(b, u, a), u, a, pct), ok |-> TRUE]
(* simulate_copy_trade: would the same call succeed?  The portfolio's own  *)
(* cap is not looked at.                                                   *)
simulate_market_copy_trade(u, a, pct) ==
    /\ a > 0 /\ a >= MinSize /\ ~(breaker >= 0 /\ now - breaker < BreakerSpan)
    /\ check_open_interest_limit(book, a)
    /\ cfg.limit > 0 => VolumeOf(book, u) + a <= cfg.limit
    /\ check_position_cap(book, u) /\ pct <= MAX_POSITION_PCT_BPS
    /\ check_user_balance(u, resolve_trade_amount(u, a, pct))

(* market_circuit_breaker_active also clears an elapsed breaker; that      *)
(* write stays unless the call fails.                                      *)
Cleared == IF market_circuit_breaker_active THEN breaker ELSE -1
Bounded(b) == b.receipts <= MaxExecuted

execute_copy_trade(u) ==
    \E a \in Amounts, pct \in PctBps :
       LET r == execute_market_copy_trade(book, u, a, pct)
       IN  /\ ~paused /\ r.ok /\ Bounded(r.book)
           /\ book' = r.book /\ breaker' = Cleared
           /\ UNCHANGED <<now, wallet, price, settingVars, paused, queueVars, orderVars,
                          confirmVars, done>>

(* Each user at most once in a batch.  The daily limit and the breaker are *)
(* those of the beginning; errors are results, unless the batch is atomic. *)
batch_execute_impl(atomic) ==
    \E us \in {s \in SeqOf(Users, 2) : Len(s) > 0 /\ IsInjective(s)} :
      \E as \in [DOMAIN us -> Amounts] :
        LET step(acc, i) ==
                LET r == execute_market_copy_trade(acc.book, us[i], as[i], 0)
                IN  [book |-> r.book, ok |-> acc.ok /\ r.ok]
            r == FoldLeft(step, [book |-> book, ok |-> TRUE], [i \in DOMAIN us |-> i])
        IN  /\ atomic => r.ok
            /\ Bounded(r.book) /\ book' = r.book /\ breaker' = Cleared
            /\ UNCHANGED <<now, wallet, price, settingVars, paused, queueVars, orderVars,
                           confirmVars, done>>

(* The caller names the amount; the swap's outcome is the router's.  The   *)
(* portfolio closes the position.                                          *)
cancel_copy_trade(u) ==
    \E a \in Amounts :
       /\ book.held[u] > 0
       /\ book' = [book EXCEPT !.interest = Max({0, @ - a}), !.held[u] = @ - 1,
                               !.count[u] = Max({0, @ - 1})]
       /\ UNCHANGED <<now, wallet, price, settingVars, paused, breaker, queueVars, orderVars,
                      confirmVars, done>>
(* The user closes a position in the portfolio itself; nobody tells the    *)
(* executor, whose count stays.                                            *)
close_in_portfolio(u) ==
    /\ book.held[u] > 0 /\ book' = [book EXCEPT !.held[u] = @ - 1]
    /\ UNCHANGED <<now, wallet, price, settingVars, paused, breaker, queueVars, orderVars,
                   confirmVars, done>>

-----------------------------------------------------------------------------
(* The queue *)

queue_copy_trade(u) ==
    \E a \in Amounts, pct \in PctBps :
       LET id == Len(done.fate) + 1
       IN  /\ id <= MaxTrades /\ check_position_cap(book, u)
           /\ queued' = Put(queued, id, [user |-> u, amount |-> a, pct |-> pct,
                                         at |-> now, retries |-> 0])
           /\ queueIds' = Append(queueIds, id)
           /\ done' = [done EXCEPT !.fate = Append(@, "queued")]
           /\ UNCHANGED <<now, wallet, price, settingVars, paused, breaker, book, dead,
                          deadIds, deadOf, orderVars, confirmVars>>

grace_period_elapsed(t) == now - t.at >= cfg.grace

cancel_queued_trade(id) ==
    /\ id \in DOMAIN queued /\ ~grace_period_elapsed(queued[id])
    /\ queued' = Without(queued, id)
    /\ queueIds' = RemoveFirst(queueIds, id)
    /\ done' = [done EXCEPT !.fate[id] = "cancelled"]
    /\ UNCHANGED <<now, wallet, price, settingVars, paused, breaker, book, dead, deadIds,
                   deadOf, orderVars, confirmVars>>

dead_letter_trade_internal(acc, id) ==
    LET t == acc.queued[id] IN
    [acc EXCEPT !.dead = Put(@, id, [user |-> t.user, amount |-> t.amount,
                                     pct |-> t.pct, at |-> now]),
                !.deadOf[t.user] = Append(@, id), !.deadIds = Append(@, id),
                !.queued = Without(@, id), !.fate[id] = "dead"]
(* A bug: a trade that is given up stays in the list of queued trades. *)
RunQueuedKeepsDead(acc, id) ==
    LET t == acc.queued[id]
        r == execute_market_copy_trade(acc.book, t.user, t.amount, t.pct)
    IN  IF ~grace_period_elapsed(t) THEN [acc EXCEPT !.remaining = Append(@, id)]
        ELSE IF r.ok
          THEN [acc EXCEPT !.book = r.book, !.queued = Without(@, id), !.fate[id] = "executed"]
        ELSE dead_letter_trade_internal(
                 [acc EXCEPT !.book = r.book, !.remaining = Append(@, id)], id)
(* One queued trade: it stays, is executed, is tried again later, or is    *)
(* given up.                                                               *)
RunQueued(acc, id) ==
    LET t == acc.queued[id]
        r == execute_market_copy_trade(acc.book, t.user, t.amount, t.pct)
    IN  IF ~grace_period_elapsed(t) THEN [acc EXCEPT !.remaining = Append(@, id)]
        ELSE IF r.ok
          THEN [acc EXCEPT !.book = r.book, !.queued = Without(@, id), !.fate[id] = "executed"]
        ELSE IF t.retries + 1 >= cfg.retries
          THEN dead_letter_trade_internal([acc EXCEPT !.book = r.book], id)
        ELSE [acc EXCEPT !.book = r.book, !.queued[id].retries = @ + 1,
                         !.remaining = Append(@, id)]
execute_queued_trades ==
    LET r == FoldLeft(LAMBDA acc, id : IF id \in DOMAIN acc.queued THEN RunQueued(acc, id) ELSE acc,
                      [book |-> book, queued |-> queued, remaining |-> <<>>, dead |-> dead,
                       deadIds |-> deadIds, deadOf |-> deadOf, fate |-> done.fate], queueIds)
    IN  /\ queueIds # <<>> /\ Bounded(r.book)
        /\ book' = r.book /\ queued' = r.queued /\ queueIds' = r.remaining
        /\ dead' = r.dead /\ deadIds' = r.deadIds /\ deadOf' = r.deadOf
        /\ done' = [done EXCEPT !.fate = r.fate] /\ breaker' = Cleared
        /\ UNCHANGED <<now, wallet, price, settingVars, paused, orderVars, confirmVars>>

(* A bug: the user's list is forgotten. *)
TakeDeadHalf(id) ==
    dead' = Without(dead, id) /\ deadIds' = RemoveFirst(deadIds, id) /\ deadOf' = deadOf
(* requeue, discard and prune take a dead letter out of all three tables. *)
TakeDead(id) ==
    /\ dead' = Without(dead, id)
    /\ deadIds' = RemoveFirst(deadIds, id)
    /\ deadOf' = [deadOf EXCEPT ![dead[id].user] = RemoveFirst(@, id)]
requeue_dead_lettered_trade(id) ==
    /\ id \in DOMAIN dead /\ TakeDead(id)
    /\ queued' = Put(queued, id, [user |-> dead[id].user, amount |-> dead[id].amount,
                                  pct |-> dead[id].pct, at |-> now, retries |-> 0])
    /\ queueIds' = Append(queueIds, id)
    /\ done' = [done EXCEPT !.fate[id] = "queued"]
    /\ UNCHANGED <<now, wallet, price, settingVars, paused, breaker, book, orderVars,
                   confirmVars>>
discard_dead_lettered_trade(id) ==
    /\ id \in DOMAIN dead /\ TakeDead(id)
    /\ done' = [done EXCEPT !.fate[id] = "discarded"]
    /\ UNCHANGED <<now, wallet, price, settingVars, paused, breaker, book, queued, queueIds,
                   orderVars, confirmVars>>
(* One entry; a larger max_entries repeats it. *)
prune_dead_letter_queue(id) ==
    /\ id \in DOMAIN dead /\ now - dead[id].at >= Retention /\ TakeDead(id)
    /\ done' = [done EXCEPT !.fate[id] = "discarded"]
    /\ UNCHANGED <<now, wallet, price, settingVars, paused, breaker, book, queued, queueIds,
                   orderVars, confirmVars>>

-----------------------------------------------------------------------------
(* Limit orders *)

place_limit_order(u) ==
    \E a \in Amounts, p \in LimitPrices, pct \in PctBps :
       LET id == Len(done.fate) + 1
       IN  /\ ~paused /\ id <= MaxOrders /\ a > 0 /\ p > 0
           /\ validate_min_trade_size(a) /\ wallet[u] >= a + Fee
           /\ orders' = Put(orders, id, [user |-> u, amount |-> a, pct |-> pct, limit |-> p,
                                         expires |-> now + OrderSpan])
           /\ orderIds' = Append(orderIds, id)
           /\ done' = [done EXCEPT !.fate = Append(@, "queued")]
           /\ UNCHANGED <<now, wallet, price, settingVars, paused, breaker, book, queueVars,
                          confirmVars>>

(* A bug: expiry is looked at only when the price is out of reach. *)
RunOrderExpiredLast(acc, id) ==
    LET o == orders[id]
        r == execute_market_copy_trade(acc.book, o.user, o.amount, o.pct)
    IN  IF price > o.limit /\ now >= o.expires
          THEN [acc EXCEPT !.orders = Without(@, id), !.fate[id] = "expired"]
        ELSE IF price > o.limit THEN [acc EXCEPT !.remaining = Append(@, id)]
        ELSE [acc EXCEPT !.ok = @ /\ r.ok, !.book = r.book, !.orders = Without(@, id),
                         !.fate[id] = "executed",
                         !.fills = @ \cup {[id |-> id, limit |-> o.limit, price |-> price,
                                            late |-> now >= o.expires]}]
(* An order that fails fails the whole call, and nothing is written. *)
RunOrder(acc, id) ==
    LET o == orders[id]
        r == execute_market_copy_trade(acc.book, o.user, o.amount, o.pct)
    IN  IF now >= o.expires
          THEN [acc EXCEPT !.orders = Without(@, id), !.fate[id] = "expired"]
        ELSE IF price > o.limit THEN [acc EXCEPT !.remaining = Append(@, id)]
        ELSE [acc EXCEPT !.ok = @ /\ r.ok, !.book = r.book, !.orders = Without(@, id),
                         !.fate[id] = "executed",
                         !.fills = @ \cup {[id |-> id, limit |-> o.limit, price |-> price,
                                            late |-> now >= o.expires]}]
check_pending_limit_orders ==
    LET r == FoldLeft(LAMBDA acc, id : RunOrder(acc, id),
                      [book |-> book, orders |-> orders, remaining |-> <<>>, ok |-> TRUE,
                       fate |-> done.fate, fills |-> done.fills], orderIds)
    IN  /\ orderIds # <<>> /\ r.ok /\ Bounded(r.book)
        /\ book' = r.book /\ orders' = r.orders /\ orderIds' = r.remaining
        /\ done' = [done EXCEPT !.fate = r.fate, !.fills = r.fills] /\ breaker' = Cleared
        /\ UNCHANGED <<now, wallet, price, settingVars, paused, queueVars, confirmVars>>

-----------------------------------------------------------------------------
(* Confirmation *)

(* A bug: any status but Filled may be finalized. *)
FinalizeAny ==
    /\ book.confirm.status \notin {"None", "Filled"} /\ now - book.confirm.at >= cfg.depth
    /\ book' = [book EXCEPT !.confirm.status = "Filled"]
    /\ done' = [done EXCEPT !.finalized = @ \cup {[id |-> book.confirm.id,
                     age |-> now - book.confirm.at, partial |-> book.confirm.id \in partial]}]
    /\ UNCHANGED <<now, wallet, price, settingVars, paused, breaker, queueVars, orderVars,
                   confirmVars>>
finalize_trade ==
    /\ book.confirm.status = "ExecutedAwaitingConfirmation"
    /\ now - book.confirm.at >= cfg.depth
    /\ book' = [book EXCEPT !.confirm.status = "Filled"]
    /\ done' = [done EXCEPT !.finalized = @ \cup {[id |-> book.confirm.id,
                     age |-> now - book.confirm.at, partial |-> book.confirm.id \in partial]}]
    /\ UNCHANGED <<now, wallet, price, settingVars, paused, breaker, queueVars, orderVars,
                   confirmVars>>
(* Only a fill short of the request is recorded. *)
record_partial_fill ==
    /\ book.confirm.status # "None"
    /\ partial' = partial \cup {book.confirm.id}
    /\ book' = [book EXCEPT !.confirm.status = "PartiallyFilled"]
    /\ UNCHANGED <<now, wallet, price, settingVars, paused, breaker, queueVars, orderVars,
                   callback, done>>
expect_settlement_callback(id) ==
    /\ id \notin callback /\ callback' = callback \cup {id}
    /\ UNCHANGED <<now, wallet, price, settingVars, paused, breaker, book, queueVars,
                   orderVars, partial, done>>
accept_settlement_callback(id) ==
    /\ id \in callback /\ callback' = callback \ {id}
    /\ UNCHANGED <<now, wallet, price, settingVars, paused, breaker, book, queueVars,
                   orderVars, partial, done>>
set_depth(d) ==
    /\ cfg' = [cfg EXCEPT !.depth = d]
    /\ UNCHANGED <<now, wallet, price, exempt, paused, breaker, book, queueVars, orderVars,
                   confirmVars, done>>

-----------------------------------------------------------------------------
(* Settings and the surroundings *)

activate_market_circuit_breaker ==
    /\ breaker' = now
    /\ UNCHANGED <<now, wallet, price, settingVars, paused, book, queueVars, orderVars,
                   confirmVars, done>>
reset_market_circuit_breaker ==
    /\ breaker' = -1
    /\ UNCHANGED <<now, wallet, price, settingVars, paused, book, queueVars, orderVars,
                   confirmVars, done>>
apply_governance_pause ==
    /\ paused' = ~paused
    /\ UNCHANGED <<now, wallet, price, settingVars, breaker, book, queueVars, orderVars,
                   confirmVars, done>>
set_position_limit_exempt(u) ==
    /\ exempt' = IF u \in exempt THEN exempt \ {u} ELSE exempt \cup {u}
    /\ UNCHANGED <<now, wallet, price, cfg, paused, breaker, book, queueVars, orderVars,
                   confirmVars, done>>
set_trade_grace_period(g) ==
    /\ cfg' = [cfg EXCEPT !.grace = g]
    /\ UNCHANGED <<now, wallet, price, exempt, paused, breaker, book, queueVars, orderVars,
                   confirmVars, done>>
set_sdex_price(p) ==
    /\ price' = p
    /\ UNCHANGED <<now, wallet, settingVars, paused, breaker, book, queueVars, orderVars,
                   confirmVars, done>>
(* The user's balance of the token moves outside the contract. *)
MoveFunds(u, x) ==
    /\ wallet' = [wallet EXCEPT ![u] = x]
    /\ UNCHANGED <<now, price, settingVars, paused, breaker, book, queueVars, orderVars,
                   confirmVars, done>>
Tick ==
    /\ now < MaxTime /\ now' = now + 1
    /\ book' = IF now' \div Day # Today
                 THEN [book EXCEPT !.traded = [u \in Users |-> 0], !.sized = [u \in Users |-> 0]]
                 ELSE book
    /\ UNCHANGED <<wallet, price, settingVars, paused, breaker, queueVars, orderVars,
                   confirmVars, done>>

BreakerCalls == activate_market_circuit_breaker \/ reset_market_circuit_breaker
QueueCalls ==
    (\E g \in Graces : set_trade_grace_period(g)) \/ (\E u \in Users : queue_copy_trade(u)) \/ \E id \in 1..MaxTrades : cancel_queued_trade(id)
DeadLetterCalls ==
    \E id \in 1..MaxTrades : requeue_dead_lettered_trade(id) \/ discard_dead_lettered_trade(id) \/ prune_dead_letter_queue(id)
SettlementCalls ==
    \/ finalize_trade \/ \E d \in Depths : set_depth(d)
    \/ \E id \in 1..MaxTrades : expect_settlement_callback(id) \/ accept_settlement_callback(id)

DirectNext ==
    \/ Tick \/ BreakerCalls
    \/ \E atomic \in BOOLEAN : batch_execute_impl(atomic)
    \/ \E u \in Users :
          \/ execute_copy_trade(u) \/ cancel_copy_trade(u) \/ close_in_portfolio(u)
          \/ set_position_limit_exempt(u)
QueueNext ==
    \/ Tick \/ execute_queued_trades \/ activate_market_circuit_breaker
    \/ QueueCalls \/ DeadLetterCalls
    \/ \E u \in Users : cancel_copy_trade(u) \/ \E x \in Balances : MoveFunds(u, x)
OrderNext ==
    \/ Tick \/ check_pending_limit_orders \/ apply_governance_pause
    \/ \E u \in Users : place_limit_order(u) \/ (\E x \in Balances : MoveFunds(u, x))
    \/ \E p \in Prices : set_sdex_price(p)
ConfirmNext ==
    \/ Tick \/ SettlementCalls \/ record_partial_fill
    \/ \E u \in Users : execute_copy_trade(u)

-----------------------------------------------------------------------------
(* A user executes no more than the daily limit in a calendar day, on      *)
(* whatever paths the trades come, and although failed trades are charged  *)
(* as well; but the limit counts the amount asked for, so each trade that  *)
(* is sized by percentage adds up to a fifth of the user's balance to it.  *)
TradedWithinLimit ==
    cfg.limit > 0 =>
        \A u \in Users : book.traded[u] <= cfg.limit + book.sized[u] * (Max(Balances) \div 5)

(* Open interest, in amounts asked for, stays within its cap on every      *)
(* path, although closing a position takes off what its owner names.       *)
InterestCapped == cfg.interest > 0 => book.interest <= cfg.interest

(* No user gets more positions than the executor's cap and the portfolio's *)
(* cap allow, whatever was queued when there was still room.               *)
PositionsCapped ==
    \A u \in Users : book.count[u] <= cfg.positions /\ book.held[u] <= PortfolioCap

(* simulate_copy_trade tells the truth: a trade it would let through, for  *)
(* a user whose portfolio has room, succeeds, and no other does.           *)
SimulationHonest ==
    \A u \in Users, a \in Amounts, pct \in PctBps :
        execute_market_copy_trade(book, u, a, pct).ok
            <=> simulate_market_copy_trade(u, a, pct) /\ validate_and_record_position(book, u)

(* A queued trade is in one place: waiting, a dead letter in all three     *)
(* tables, or gone - executed, cancelled or discarded once and for all.    *)
TradesInOnePlace ==
    /\ ToSet(queueIds) = DOMAIN queued /\ IsInjective(queueIds)
    /\ ToSet(deadIds) = DOMAIN dead /\ IsInjective(deadIds)
    /\ \A u \in Users : /\ IsInjective(deadOf[u])
                        /\ ToSet(deadOf[u]) = {id \in DOMAIN dead : dead[id].user = u}
    /\ \A id \in DOMAIN done.fate :
          /\ id \in DOMAIN queued <=> done.fate[id] = "queued"
          /\ id \in DOMAIN dead <=> done.fate[id] = "dead"

(* A trade that was executed, cancelled or discarded does not come back. *)
FatesStand ==
    \A id \in DOMAIN done.fate :
        done.fate[id] \in {"executed", "cancelled", "discarded", "expired"}
            => done'.fate[id] = done.fate[id]

(* check_pending_limit_orders: a limit order is filled once, at its limit  *)
(* or better and before it expires; the lists agree.                       *)
FilledAtLimit ==
    /\ ToSet(orderIds) = DOMAIN orders /\ IsInjective(orderIds)
    /\ \A f \in done.fills : f.price <= f.limit /\ ~f.late
    /\ \A f, g \in done.fills : f.id = g.id => f = g

(* finalize_trade: a trade is final only after the confirmation depth in   *)
(* force, counted from its own execution although one slot is shared by    *)
(* all trades, and not after a partial fill of it was recorded.            *)
FinalIsDeepAndWhole ==
    done'.finalized # done.finalized =>
        \A f \in done'.finalized \ done.finalized : f.age >= cfg.depth /\ ~f.partial
=============================================================================
