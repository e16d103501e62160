---------------------------- MODULE TradeOrders ----------------------------
(***************************************************************************)
(* trade_executor: what lives beside the copy trades themselves, each with *)
(* a next-state relation of its own.                                       *)
(*   - settlement orders (batch_settlement.rs), filled in several batches; *)
(*     nothing in the contract calls them yet, so a refused call keeps the *)
(*     Expired status it wrote, as in the tests;                           *)
(*   - triggers (triggers.rs, keeper.rs): stop loss, take profit and       *)
(*     trailing stop of one position, run by keepers on the oracle's price;*)
(*   - DCA plans (dca.rs), and the undercollateralized debts of            *)
(*     leverage.rs settled from collateral and reserve.                    *)
(***************************************************************************)
EXTENDS Integers, Sequences, FiniteSets, FiniteSetsExt, SequencesExt

CONSTANTS
    Requests, Fills, Deadlines, Bounds,      \* Bounds: minimum output of a fill
    Inputs,                                  \* of a fill, and their maximum
    Prices, Stops, TrailBps, PriceAge,
    Totals, Intervals, Spacing, Expiries,
    PortfolioCap,                            \* positions the portfolio lets a user hold
    Collaterals, Debts, Reserve, MinRatioBps,
    Followers, Preferred, Window,   \* Preferred: above the standard tier
    MaxTime, MaxOrders, MaxFills, MaxDebts   \* bounds

OrdersTyped ==
    /\ Requests \subseteq Nat \ {0} /\ Fills \subseteq Nat /\ Bounds \cup Inputs \subseteq Nat
    /\ Deadlines \cup Expiries \subseteq Nat /\ Prices \subseteq Nat /\ TrailBps \subseteq 0..10000
    /\ {Spacing, MinRatioBps} \subseteq Nat \ {0} /\ {Reserve, PriceAge, Window, PortfolioCap} \subseteq Nat

VARIABLES
    now,
    order,       \* SettlementOrder, a sequence
    fills,       \* FillRecord of each order
    price, seenAt,                  \* the oracle's price and its timestamp
    stop, profit, trail, peak,      \* StopLoss, TakeProfit, TrailBps, TrailPeak: 0 when absent
    position,    \* the portfolio's position: open, and how it was closed
    count,       \* UserPositionCount
    watch,       \* WatchList
    plan,        \* DCAPlan, remaining 0 when absent
    held,        \* the portfolio's open positions of the user
    invested,    \* history: DCA executions of the current plan
    reserve, settled,               \* leverage.rs: reserve left; history of settlements
    counter, served                 \* PriorityBatchCounter; history: last batch

orderVars == <<order, fills>>
triggerVars == <<price, seenAt, stop, profit, trail, peak, position, count, watch>>
planVars == <<plan, held, invested>>
debtVars == <<reserve, settled, counter, served>>
vars == <<now, orderVars, triggerVars, planVars, debtVars>>

NoPlan == [per |-> 0, remaining |-> 0, total |-> 0, next |-> 0, expiry |-> 0, executed |-> 0]
Init ==
    /\ now = 1 /\ order = <<>> /\ fills = <<>>
    /\ price \in Prices /\ seenAt = 1 /\ stop = 0 /\ profit = 0 /\ trail = 0 /\ peak = 0
    /\ position = "open" /\ count \in {0, 1} /\ watch = FALSE
    /\ plan = NoPlan /\ invested = [total |-> 0, at |-> <<>>]
    /\ held = 0 /\ reserve = Reserve /\ settled = <<>>
    /\ counter = 0 /\ served = [in |-> <<>>, out |-> <<>>]

Tick ==
    /\ now < MaxTime /\ now' = now + 1
    /\ UNCHANGED <<orderVars, triggerVars, planVars, debtVars>>

-----------------------------------------------------------------------------
(* batch_settlement.rs *)

Closed == {"FullySettled", "Failed", "Cancelled", "Expired"}
is_past_deadline(o) == o.deadline # 0 /\ now > o.deadline
remaining(o) == Max({0, o.requested - o.settled})

create_order_internal ==
    \E r \in Requests, d \in Deadlines, b \in Bounds, x \in Inputs :
       /\ Len(order) < MaxOrders /\ (d # 0 => d > now)
       /\ order' = Append(order, [requested |-> r, settled |-> 0, status |-> "Open",
                                  count |-> 0, deadline |-> d, min |-> b, max |-> x])
       /\ fills' = Append(fills, <<>>)
       /\ UNCHANGED <<now, triggerVars, planVars, debtVars>>

(* settle_batch and cancel_settlement_order on an order that is due. *)
CloseExpired(i) ==
    /\ order[i].status \notin Closed /\ is_past_deadline(order[i])
    /\ order' = [order EXCEPT ![i].status = "Expired"]
    /\ UNCHANGED <<now, fills, triggerVars, planVars, debtVars>>
(* A bug: the fill is compared with the request, not with what is left. *)
SettleAgainstRequest(i) ==
    \E f \in Fills, x \in Inputs :
       /\ order[i].status \notin Closed /\ ~is_past_deadline(order[i])
       /\ f >= order[i].min /\ x <= order[i].max /\ f <= order[i].requested /\ order[i].count < MaxFills
       /\ order' = [order EXCEPT ![i].settled = @ + f, ![i].count = @ + 1,
                        ![i].status = IF order[i].settled + f >= order[i].requested
                                        THEN "FullySettled" ELSE "PartiallyFilled"]
       /\ fills' = [fills EXCEPT ![i] = Append(@, [amount |-> f, in |-> x, final |-> FALSE,
                                               at |-> now])]
       /\ UNCHANGED <<now, triggerVars, planVars, debtVars>>
settle_batch(i) ==
    \E f \in Fills, x \in Inputs :
       LET left == remaining(order[i]) - f
           settledNow == order[i].settled + f
       IN  /\ order[i].status \notin Closed /\ ~is_past_deadline(order[i])
           /\ f >= order[i].min /\ x <= order[i].max /\ f <= remaining(order[i])
           /\ order[i].count < MaxFills
           /\ order' = [order EXCEPT ![i].settled = settledNow, ![i].count = @ + 1,
                            ![i].status = IF left = 0 THEN "FullySettled" ELSE "PartiallyFilled"]
           /\ fills' = [fills EXCEPT ![i] = Append(@, [amount |-> f, in |-> x, final |-> left = 0,
                                                   at |-> now])]
           /\ UNCHANGED <<now, triggerVars, planVars, debtVars>>
cancel_settlement_order(i) ==
    /\ order[i].status \notin Closed /\ ~is_past_deadline(order[i])
    /\ order' = [order EXCEPT ![i].status = "Cancelled"]
    /\ UNCHANGED <<now, fills, triggerVars, planVars, debtVars>>
(* Also after the deadline. *)
fail_settlement_order(i) ==
    /\ order[i].status \notin Closed
    /\ order' = [order EXCEPT ![i].status = "Failed"]
    /\ UNCHANGED <<now, fills, triggerVars, planVars, debtVars>>
SettlementNext ==
    \/ Tick \/ create_order_internal
    \/ \E i \in DOMAIN order : \/ settle_batch(i) \/ cancel_settlement_order(i)
                               \/ fail_settlement_order(i) \/ CloseExpired(i)

-----------------------------------------------------------------------------
(* triggers.rs, keeper.rs *)

set_stop_loss(x) ==
    /\ stop' = x
    /\ UNCHANGED <<now, orderVars, price, seenAt, profit, trail, peak, position, count, watch,
                   planVars, debtVars>>
set_trailing_stop(bps, x) ==
    /\ trail' = bps /\ peak' = x
    /\ UNCHANGED <<now, orderVars, price, seenAt, stop, profit, position, count, watch,
                   planVars, debtVars>>
(* With or without an entry in the keepers' watch list. *)
set_take_profit(x, watched) ==
    /\ profit' = x /\ watch' = (watch \/ watched)
    /\ UNCHANGED <<now, orderVars, price, seenAt, stop, trail, peak, position, count,
                   planVars, debtVars>>
(* The oracle: a new price, or none for a while. *)
Quote(x) ==
    /\ price' = x /\ seenAt' = now
    /\ UNCHANGED <<now, orderVars, stop, profit, trail, peak, position, count, watch,
                   planVars, debtVars>>

Fresh == now - seenAt <= PriceAge
(* The portfolio refuses a position that is not open; the call fails. *)
close_position_keeper(why) ==
    /\ position = "open" /\ position' = why
    /\ count' = Max({0, count - 1})
check_and_trigger_stop_loss ==
    /\ stop # 0 /\ Fresh /\ price <= stop /\ close_position_keeper("stop")
    /\ UNCHANGED <<now, orderVars, price, seenAt, stop, profit, trail, peak, watch,
                   planVars, debtVars>>
(* A bug: the stop loss does not come first. *)
TakeProfitFirst ==
    /\ profit # 0 /\ Fresh /\ price >= profit /\ close_position_keeper("profit")
    /\ UNCHANGED <<now, orderVars, price, seenAt, stop, profit, trail, peak, watch,
                   planVars, debtVars>>
check_and_trigger_take_profit ==
    /\ profit # 0 /\ Fresh /\ ~(stop # 0 /\ price <= stop) /\ price >= profit
    /\ close_position_keeper("profit")
    /\ UNCHANGED <<now, orderVars, price, seenAt, stop, profit, trail, peak, watch,
                   planVars, debtVars>>
update_trailing_peak == Max({peak, price})
TrailTrigger(p) == (p * (10000 - trail)) \div 10000
check_and_trigger_trailing_stop ==
    /\ trail # 0 /\ Fresh /\ peak' = update_trailing_peak
    /\ IF price <= TrailTrigger(peak')
         THEN close_position_keeper("trail") ELSE UNCHANGED <<position, count>>
    /\ UNCHANGED <<now, orderVars, price, seenAt, stop, profit, trail, watch,
                   planVars, debtVars>>
(* get_triggerable_positions: what the keepers are told. *)
get_triggerable_positions ==
    IF ~watch THEN "none" ELSE IF stop # 0 /\ price <= stop THEN "stop"
    ELSE IF profit # 0 /\ price >= profit THEN "profit" ELSE "none"
StopCalls ==
    \/ \E x \in Stops : set_stop_loss(x) \/ \E w \in BOOLEAN : set_take_profit(x, w)
    \/ \E x \in Prices, b \in TrailBps : set_trailing_stop(b, x)

TriggerNext ==
    \/ Tick \/ check_and_trigger_stop_loss \/ check_and_trigger_take_profit
    \/ check_and_trigger_trailing_stop
    \/ StopCalls \/ \E x \in Prices : Quote(x)

-----------------------------------------------------------------------------
(* dca.rs *)

execute_dca_copy_trade ==
    \E t \in Totals, n \in Intervals, e \in Expiries :
       /\ plan = NoPlan /\ (e > 0 => now < e) /\ t \div n > 0
       /\ plan' = [per |-> t \div n, remaining |-> n, total |-> n, next |-> now,
                   expiry |-> e, executed |-> 0]
       /\ invested' = [total |-> t, at |-> <<>>]
       /\ UNCHANGED <<now, orderVars, triggerVars, held, debtVars>>
(* The plan of an expired signal is removed and the call fails, so the     *)
(* removal is undone.                                                      *)
(* The portfolio records a position for each interval, or refuses it, and  *)
(* then the interval is not run; the balance is not looked at.             *)
validate_and_record == held < PortfolioCap /\ held' = held + 1
DcaDue == ~(plan.expiry > 0 /\ now >= plan.expiry) /\ now >= plan.next
(* A bug: the next interval is counted from the last one that was due. *)
IntervalFromDue ==
    /\ plan # NoPlan /\ DcaDue /\ validate_and_record
    /\ plan' = IF plan.remaining = 1 THEN NoPlan
               ELSE [plan EXCEPT !.remaining = @ - 1, !.executed = @ + plan.per,
                                 !.next = @ + Spacing]
    /\ invested' = [invested EXCEPT !.at = Append(@, now)]
    /\ UNCHANGED <<now, orderVars, triggerVars, debtVars>>
execute_dca_interval ==
    /\ plan # NoPlan /\ DcaDue /\ validate_and_record
    /\ plan' = IF plan.remaining = 1 THEN NoPlan
               ELSE [plan EXCEPT !.remaining = @ - 1, !.executed = @ + plan.per,
                                 !.next = now + Spacing]
    /\ invested' = [invested EXCEPT !.at = Append(@, now)]
    /\ UNCHANGED <<now, orderVars, triggerVars, debtVars>>
cancel_dca_plan ==
    /\ plan # NoPlan /\ plan' = NoPlan
    /\ UNCHANGED <<now, orderVars, triggerVars, held, invested, debtVars>>
(* The user closes a position in the portfolio. *)
close_in_portfolio ==
    /\ held > 0 /\ held' = held - 1
    /\ UNCHANGED <<now, orderVars, triggerVars, plan, invested, debtVars>>
DcaCalls == execute_dca_interval \/ cancel_dca_plan

PlanNext == Tick \/ execute_dca_copy_trade \/ DcaCalls \/ close_in_portfolio

-----------------------------------------------------------------------------
(* leverage.rs *)

is_undercollateralized(c, d) == d # 0 /\ (c * 10000) \div d < MinRatioBps
(* A bug: the reserve pays before the collateral. *)
ReserveFirst(c, d) ==
    LET used == Min({d, reserve})
        applied == Min({c, d - used})
    IN  /\ is_undercollateralized(c, d) /\ Len(settled) < MaxDebts
        /\ reserve' = reserve - used
        /\ settled' = Append(settled, [collateral |-> c, debt |-> d,
                                       cleared |-> applied + used, used |-> used,
                                       left |-> c - applied])
        /\ UNCHANGED <<now, orderVars, triggerVars, planVars, counter, served>>
(* The reserve is the caller's to keep: it is told how much was used. *)
settle_debt(c, d) ==
    LET applied == Min({c, d})
        used == Min({d - applied, reserve})
    IN  /\ is_undercollateralized(c, d) /\ Len(settled) < MaxDebts
        /\ reserve' = reserve - used
        /\ settled' = Append(settled, [collateral |-> c, debt |-> d,
                                       cleared |-> applied + used, used |-> used,
                                       left |-> c - applied])
        /\ UNCHANGED <<now, orderVars, triggerVars, planVars, counter, served>>
(* A bug: the trade that moves ahead is served again in its place. *)
SortRepeats(batch) ==
    LET first == SelectSeq(batch, LAMBDA t : t \in Preferred)
        rest == SelectSeq(batch, LAMBDA t : t \notin Preferred)
    IN  /\ counter' = 0
        /\ served' = [in |-> batch, out |-> IF first # <<>> /\ rest # <<>>
                                              THEN <<rest[1]>> \o first \o rest ELSE first \o rest]
        /\ UNCHANGED <<now, orderVars, triggerVars, planVars, reserve, settled>>
(* priority.rs: followers above the standard tier first, each group in the *)
(* order it came; after Window batches of priority trades only, one        *)
(* standard trade would move ahead of the last priority trade.             *)
sort_trades_by_priority(batch) ==
    LET first == SelectSeq(batch, LAMBDA t : t \in Preferred)
        rest == SelectSeq(batch, LAMBDA t : t \notin Preferred)
        c == IF rest = <<>> /\ batch # <<>> THEN counter + 1 ELSE 0
        mixed == SubSeq(first, 1, Len(first) - 1) \o <<rest[1]>> \o <<Last(first)>> \o Tail(rest)
    IN  /\ IF c >= Window /\ rest # <<>>
             THEN /\ counter' = 0
                  /\ served' = [in |-> batch, out |-> IF first # <<>> THEN mixed ELSE rest]
             ELSE counter' = c /\ served' = [in |-> batch, out |-> first \o rest]
        /\ UNCHANGED <<now, orderVars, triggerVars, planVars, reserve, settled>>
DebtNext ==
    \/ \E c \in Collaterals, d \in Debts : settle_debt(c, d)
    \/ \E batch \in SeqOf(Followers, 3) :
          /\ IsInjective(batch) /\ counter < Window + 2 /\ sort_trades_by_priority(batch)

-----------------------------------------------------------------------------
(* The total settled is the sum of the fills and never more than was       *)
(* asked for, an order is FullySettled exactly when nothing is left, only  *)
(* its last fill is marked final, and no fill is late or out of bounds.    *)
SettledIsFills ==
    \A i \in DOMAIN order :
        LET o == order[i] IN
        /\ o.settled = FoldLeft(LAMBDA s, f : s + f.amount, 0, fills[i])
        /\ o.settled <= o.requested /\ o.count = Len(fills[i])
        /\ o.status = "FullySettled" <=> o.settled = o.requested
        /\ \A k \in DOMAIN fills[i] : fills[i][k].final
               <=> k = Len(fills[i]) /\ o.status = "FullySettled"
        /\ \A k \in DOMAIN fills[i] :
              /\ o.deadline # 0 => fills[i][k].at <= o.deadline
              /\ fills[i][k].amount >= o.min /\ fills[i][k].in <= o.max

(* A closed order is settled, failed, cancelled or expired for good. *)
ClosedStays ==
    \A i \in DOMAIN order : order[i].status \in Closed => order'[i] = order[i]

(* Keepers close a position once, on a price that is fresh, and a position *)
(* at or below its stop loss is never closed as a profit.                  *)
ClosedByRule ==
    position' # position =>
        /\ position = "open" /\ now - seenAt <= PriceAge
        /\ position' = "profit" => ~(stop # 0 /\ price <= stop)
        /\ position' = "trail" => price <= TrailTrigger(Max({peak, price}))

(* What keepers are told to trigger does trigger, when the price is fresh. *)
TriggerableTriggers ==
    Fresh /\ position = "open" =>
        /\ get_triggerable_positions = "stop" => stop # 0 /\ price <= stop
        /\ get_triggerable_positions = "profit" => ~(stop # 0 /\ price <= stop)

(* A DCA plan invests no more than its total, in intervals that are at     *)
(* least the spacing apart however late they are run, and nothing once the *)
(* signal has expired.                                                     *)
DcaPaced ==
    /\ plan # NoPlan => /\ plan.per * plan.total <= invested.total
                        /\ plan.executed = plan.per * Len(invested.at)
                        /\ Len(invested.at) = plan.total - plan.remaining
                        /\ plan.expiry > 0 => \A k \in DOMAIN invested.at : invested.at[k] < plan.expiry
    /\ \A k \in DOMAIN invested.at : k > 1 => invested.at[k] >= invested.at[k - 1] + Spacing

(* An undercollateralized debt is paid from its collateral first; the      *)
(* reserve pays only what the collateral does not cover, nothing is paid   *)
(* beyond the debt, and the reserve is spent once.                         *)
ReservePaysShortfall ==
    /\ \A k \in DOMAIN settled :
          LET s == settled[k] IN
          /\ s.cleared <= s.debt /\ s.cleared + s.left = s.collateral + s.used
          /\ s.used > 0 => s.left = 0
    /\ reserve + FoldLeft(LAMBDA x, s : x + s.used, 0, settled) = Reserve

(* Sorting serves every trade of a batch once, and no standard trade is    *)
(* overtaken by a later standard one.                                      *)
BatchServedOnce ==
    /\ IsInjective(served.out) /\ ToSet(served.out) = ToSet(served.in)
    /\ SelectSeq(served.out, LAMBDA t : t \notin Preferred) = SelectSeq(served.in, LAMBDA t : t \notin Preferred)
=============================================================================
