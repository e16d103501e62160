---------------------------- MODULE GovTreasury ----------------------------
(***************************************************************************)
(* governance: the treasury of one asset and one budget category           *)
(* (treasury.rs), with the spend window of spend_window.rs.  A direct      *)
(* spend consumes the window, the category's period budget and its         *)
(* approval; recurring payments consume the budget and the approval only.  *)
(***************************************************************************)
EXTENDS Integers, Sequences, FiniteSets, FiniteSetsExt, SequencesExt

CONSTANTS Amounts,                 \* amounts of spends and payments
          Allocated, SpendLimit,   \* of every budget that is created
          Caps,                    \* caps that may be approved
          Funds,                   \* the asset's balance at first
          Period, Frequency, Window, WindowCap,
          MaxTime, MaxPayments, MaxSpends     \* bounds

TreasuryTyped ==
    {Allocated, SpendLimit, Funds, Period, Frequency, Window, WindowCap,
     MaxTime, MaxPayments, MaxSpends} \cup Amounts \cup Caps \subseteq Nat

VARIABLES
    now, assets,
    budget,      \* Budget, or NoBudget
    approval,    \* BudgetApproval, or NoApproval
    payments,    \* recurring_payments
    window,      \* SpendWindowConfig with its state, or NoWindow
    spends       \* spending_history, with what the spend counted against

vars == <<now, assets, budget, approval, payments, window, spends>>

NoBudget == [absent |-> TRUE]
NoApproval == [absent |-> TRUE]
NoWindow == [absent |-> TRUE]
Budget == [spent : Nat, remaining : Nat, start : Nat, end : Nat, renew : BOOLEAN]
BudgetApproval == [cap : Caps, drawn : Nat]
RecurringPayment == [amount : Amounts, last : Nat, end : Nat, active : BOOLEAN]
(* The last three: whether the budget, approval or window it was counted   *)
(* against is still the current one.                                       *)
TreasurySpend == [amount : Amounts, at : Nat, payment : Nat,
                  budget : BOOLEAN, approval : BOOLEAN, window : BOOLEAN]
Detach(field) == [i \in DOMAIN spends |-> [spends[i] EXCEPT ![field] = FALSE]]
Sum(S) == MapThenSumSet(LAMBDA i : spends[i].amount, S)
Made(P(_)) == {i \in DOMAIN spends : P(spends[i])}

TypeOK ==
    /\ now \in 0..MaxTime /\ assets \in Nat
    /\ budget \in Budget \cup {NoBudget}
    /\ approval \in BudgetApproval \cup {NoApproval}
    /\ payments \in Seq(RecurringPayment) /\ spends \in Seq(TreasurySpend)

Init ==
    /\ now = 1 /\ assets = Funds
    /\ budget = NoBudget /\ approval = NoApproval /\ window = NoWindow
    /\ payments = <<>> /\ spends = <<>>

Tick == now < MaxTime /\ now' = now + 1
        /\ UNCHANGED <<assets, budget, approval, payments, window, spends>>

set_asset_balance(amount) ==
    /\ assets' = amount
    /\ UNCHANGED <<now, budget, approval, payments, window, spends>>
upsert_budget(renew) ==
    /\ budget' = [spent |-> 0, remaining |-> Allocated,
                  start |-> now, end |-> now + Period, renew |-> renew]
    /\ spends' = Detach("budget")
    /\ UNCHANGED <<now, assets, approval, payments, window>>
approve_budget(cap) ==
    /\ cap > 0
    /\ budget # NoBudget
    /\ cap <= Allocated
    /\ approval' = [cap |-> cap, drawn |-> 0]
    /\ spends' = Detach("approval")
    /\ UNCHANGED <<now, assets, budget, payments, window>>

-----------------------------------------------------------------------------
configure ==
    /\ window' = [anchor |-> now, start |-> now, spent |-> 0]
    /\ spends' = Detach("window")
    /\ UNCHANGED <<now, assets, budget, approval, payments>>
window_start_for(w) == w.anchor + ((now - w.anchor) \div Window) * Window
current(w) == IF window_start_for(w) = w.start THEN w
              ELSE [w EXCEPT !.start = window_start_for(w), !.spent = 0]
ConsumeSliding(amount) ==
    IF window = NoWindow THEN UNCHANGED window
    ELSE LET w == IF now > window.start THEN [window EXCEPT !.start = now, !.spent = 0] ELSE window
         IN w.spent + amount <= WindowCap /\ window' = [w EXCEPT !.spent = @ + amount]
consume(amount) ==
    IF window = NoWindow THEN UNCHANGED window
    ELSE /\ current(window).spent + amount <= WindowCap
         /\ window' = [current(window) EXCEPT !.spent = @ + amount]

(* The budget as it counts now: a period that is over is renewed, or ended. *)
RenewLate(b) ==
    IF now <= b.end THEN b
    ELSE LET k == (now - b.start) \div Period
         IN [b EXCEPT !.start = @ + k * Period, !.end = @ + k * Period,
                      !.spent = 0, !.remaining = Allocated]
renew_budget_if_needed(b) ==
    IF now < b.end THEN b
    ELSE LET k == (now - b.start) \div Period
         IN [b EXCEPT !.start = @ + k * Period, !.end = @ + k * Period,
                      !.spent = 0, !.remaining = Allocated]

CanSpend(t, amount) ==
    /\ t.budget # NoBudget
    /\ now >= t.budget.end => t.budget.renew
    /\ amount <= renew_budget_if_needed(t.budget).remaining
    /\ amount <= SpendLimit
    /\ t.approval # NoApproval
    /\ t.approval.drawn + amount <= t.approval.cap
    /\ t.assets >= amount
(* execute_spend on the treasury t, a record of what it changes. *)
execute_spend(t, amount, payment, w) ==
    LET b == renew_budget_if_needed(t.budget)
    IN [t EXCEPT
        !.approval = [t.approval EXCEPT !.drawn = @ + amount],
        !.budget = [b EXCEPT !.spent = @ + amount, !.remaining = @ - amount],
        !.assets = @ - amount,
        !.spends = Append(@, [amount |-> amount, at |-> now, payment |-> payment,
                              budget |-> TRUE, approval |-> TRUE, window |-> w])]
Treasury == [assets |-> assets, budget |-> budget, approval |-> approval,
             payments |-> payments, spends |-> spends]
put_treasury(t) ==
    /\ assets' = t.assets /\ budget' = t.budget /\ approval' = t.approval
    /\ payments' = t.payments /\ spends' = t.spends
    /\ UNCHANGED now

execute_treasury_spend(amount) ==
    /\ Len(spends) < MaxSpends
    /\ consume(amount)
    /\ CanSpend(Treasury, amount)
    /\ put_treasury(execute_spend(Treasury, amount, 0, window # NoWindow))

schedule_recurring_payment(amount, end) ==
    /\ Len(payments) < MaxPayments
    /\ end > now
    /\ budget # NoBudget /\ approval # NoApproval
    /\ payments' = Append(payments, [amount |-> amount, last |-> now, end |-> end, active |-> TRUE])
    /\ UNCHANGED <<now, assets, budget, approval, window, spends>>

(* One payment of the run: ended, paid, or given up for good on the first  *)
(* error.                                                                  *)
PayInArrears(t, i) ==
    LET p == t.payments[i]
        due == p.active /\ now <= p.end /\ now >= p.last + Frequency
        paid == due /\ CanSpend(t, p.amount) /\ Len(t.spends) < MaxSpends
        u == IF paid THEN execute_spend(t, p.amount, i, FALSE) ELSE t
    IN [u EXCEPT !.payments[i] =
          [p EXCEPT !.last = IF paid THEN @ + Frequency ELSE @,
                    !.active = @ /\ ~(now > p.end) /\ (due => paid /\ now < p.end)]]
Pay(t, i) ==
    LET p == t.payments[i]
        due == p.active /\ now <= p.end /\ now >= p.last + Frequency
        paid == due /\ CanSpend(t, p.amount) /\ Len(t.spends) < MaxSpends
        u == IF paid THEN execute_spend(t, p.amount, i, FALSE) ELSE t
    IN [u EXCEPT !.payments[i] =
          [p EXCEPT !.last = IF paid THEN now ELSE @,
                    !.active = @ /\ ~(now > p.end) /\ (due => paid /\ now < p.end)]]
process_recurring_payments ==
    /\ payments # <<>>
    /\ put_treasury(FoldLeftDomain(Pay, Treasury, payments))
    /\ UNCHANGED window

BudgetCalls ==
    (\E a \in {0, Funds} : set_asset_balance(a)) \/ (\E b \in BOOLEAN : upsert_budget(b)) \/ \E c \in Caps : approve_budget(c)

Next ==
    \/ Tick \/ configure \/ process_recurring_payments
    \/ BudgetCalls
    \/ \E a \in Amounts : execute_treasury_spend(a)
    \/ \E a \in Amounts, end \in {MaxTime - 1, MaxTime} : schedule_recurring_payment(a, end)

Spec == Init /\ [][Next]_vars

-----------------------------------------------------------------------------
(* What the budget and the approval say was spent is what the spends of    *)
(* this period, and under this approval, add up to: by direct spends and   *)
(* payment runs alike, through renewals and new approvals.                 *)
BooksMatchSpends ==
    /\ approval # NoApproval => approval.drawn = Sum(Made(LAMBDA s : s.approval))
    /\ budget # NoBudget =>
         /\ budget.spent + budget.remaining = Allocated
         /\ budget.spent = Sum(Made(LAMBDA s : s.budget /\ s.at >= budget.start /\ s.at < budget.end))

(* Direct spends never take more than WindowCap out of one window, whose   *)
(* boundaries lie a multiple of Window after the configuration.            *)
DirectSpendsWithinWindow ==
    window # NoWindow =>
      \A k \in 0..MaxTime :
        Sum(Made(LAMBDA s : s.window
                            /\ (s.at - window.anchor) \div Window = k)) <= WindowCap

(* Two payments of the same schedule are at least Frequency apart, however *)
(* late the payment runs come: missed periods are not made up for.         *)
PaymentsSpaced ==
    \A i, j \in DOMAIN spends :
        i < j /\ spends[i].payment # 0 /\ spends[i].payment = spends[j].payment
            => spends[j].at >= spends[i].at + Frequency

=============================================================================
