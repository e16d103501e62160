------------------------------ MODULE Signals ------------------------------
(***************************************************************************)
(* The signal registry: how a signal is submitted, copied, executed,       *)
(* edited, expired, pruned and archived, who is paid for its outcome, and  *)
(* the limits on submission. The ledger sequence and the clock advance     *)
(* together. Signals are kept by id; 0 is no id.                           *)
(***************************************************************************)
EXTENDS Integers, FiniteSets, Sequences

CONSTANTS
    Providers, MaxSignals,      \* providers (and co-authors); signals ever created
    Expiries, Actions, Prices,  \* expiry delays and prices of a submission, Buy or Sell
    MaxExpiry, EditWindow,      \* 30 days, 60 seconds
    Entries, Exits, Bps,        \* prices of a trade; 100 % of a return
    Success, Failure,           \* SUCCESS_THRESHOLD_BPS, FAILURE_THRESHOLD_BPS
    Archived, Batch, Lifetimes, \* ARCHIVE_THRESHOLD_SECONDS, cleanup budgets, min lifetimes
    Splits, Fees, Rois,         \* contributions of a collaboration; fees and results of an outcome
    Limits, Stakes, GoldStake,  \* limits [bronze, silver, gold]; stakes; GOLD_TIER_STAKE
    Quotas, Cooldowns, Dailies, Day,
    MaxUpdates, UpdateGap,      \* of a versioned update
    Recurrences, MaxSchedules, Horizon, Chains, \* schedules; source chain ids of an import
    MaxPresets,
    MaxNow, MaxCalls            \* bounds: the clock, the calls

SignalsTyped ==
    /\ MaxSignals \in Nat /\ MaxExpiry \in Nat /\ Bps \in Nat \ {0} /\ Day \in Nat \ {0}
    /\ Expiries \subseteq Nat /\ Failure < Success /\ Stakes \subseteq Nat

VARIABLES
    now, calls,
    signals, counter, active, index,      \* index: the category's list, as a set
    stats, copied, banned, status,        \* copied: the adoption nonces used
    cleanup, archive, minLife,            \* the two cursors
    authors, recorded, pending, revived, granted, claimed, \* the last three are history
    limits, stake, quota, used, lastAt, daily, cooldown, perDay, log, \* log is history
    version, old, updates, updatedAt, copyOf,
    schedules, listed, mapping, imports, templates, presets

core == <<signals, counter, active, index, lastAt, daily, used, log>>
tradeVars == <<stats, copied, banned, revived>>
sweepVars == <<cleanup, archive, minLife>>
payVars == <<authors, recorded, pending, granted, claimed>>
ruleVars == <<limits, stake, quota, cooldown, perDay, status>>
editVars == <<version, old, updates, updatedAt, copyOf>>
linkVars == <<schedules, listed, mapping, imports, templates, presets>>
vars == <<now, calls, core, tradeVars, sweepVars, payVars, ruleVars, editVars, linkVars>>

None == [absent |-> TRUE]
All == 0   \* the key of the quota all providers share; providers are positive
Ids == 1..MaxSignals
Quot(a, b) == IF a < 0 THEN -((-a) \div b) ELSE a \div b
SumOver(f, S) == LET R[T \in SUBSET S] == IF T = {} THEN 0 ELSE LET x == CHOOSE y \in T : TRUE IN f[x] + R[T \ {x}] IN R[S]
Kept == {s \in Ids : signals[s] # None}
OpenOf(p) == {s \in Kept : signals[s].owner = p /\ signals[s].status = "Active"}
is_expired(s) == now > signals[s].expiry
Window(q) == now \div q.window

NoReward == [fee |-> 0, roi |-> 0]
Init ==
    /\ now = 1 /\ calls = 0
    /\ signals = [s \in Ids |-> None] /\ counter = 0 /\ active = [p \in Providers |-> 0] /\ index = {}
    /\ stats = [p \in Providers |-> [total |-> 0, good |-> 0, bad |-> 0, copies |-> 0]]
    /\ copied = {} /\ banned = {} /\ status = [p \in Providers |-> None]
    /\ cleanup = 0 /\ archive = 0 /\ minLife = 0
    /\ authors = [s \in Ids |-> <<>>] /\ recorded = {} /\ pending = [p \in Providers |-> NoReward]
    /\ revived = [p \in Providers |-> 0] /\ granted = NoReward /\ claimed = NoReward
    /\ limits \in Limits /\ stake = [p \in Providers |-> 0] /\ quota = None /\ used = [k \in {} |-> 0]
    /\ lastAt = [p \in Providers |-> 0] /\ daily = [k \in {} |-> 0] /\ cooldown = 0 /\ perDay = 0 /\ log = <<>>
    /\ version = [s \in Ids |-> 1] /\ old = [s \in Ids |-> <<>>] /\ updates = [s \in Ids |-> 0]
    /\ updatedAt = [s \in Ids |-> 0] /\ copyOf = [s \in Ids |-> None]
    /\ schedules = <<>> /\ listed = [p \in Providers |-> 0] /\ mapping = None /\ imports = [c \in Chains |-> None]
    /\ templates = <<>> /\ presets = [p \in Providers |-> 0]

Tick == now < MaxNow /\ now' = now + 1 /\ UNCHANGED <<calls, core, tradeVars, sweepVars, payVars, ruleVars, editVars, linkVars>>
Call == calls < MaxCalls /\ calls' = calls + 1 /\ UNCHANGED now

-----------------------------------------------------------------------------
(* Submission. Every way in goes through create_signal_internal: the       *)
(* provider's standing, the quota of the ledger window, the slots of its   *)
(* tier, the cooldown, the day's limit and the expiry, in this order.      *)

At(f, k) == IF k \in DOMAIN f THEN f[k] ELSE 0
Bumped(f, k) == [x \in DOMAIN f \cup {k} |-> IF x = k THEN At(f, k) + 1 ELSE f[x]]

get_status(p) == IF status[p] # None THEN status[p].at ELSE IF p \in banned THEN "Banned" ELSE "Active"
can_submit(p) == get_status(p) = "Active"
check(p) ==
    quota # None =>
        /\ quota.each > 0 => At(used, <<p, Window(quota)>>) < quota.each
        /\ quota.all > 0 => At(used, <<All, Window(quota)>>) < quota.all
(* A provider's profile would be asked for its tier first; only tests create one. *)
Tier(p) == IF stake[p] >= GoldStake THEN 3 ELSE IF stake[p] >= GoldStake \div 2 THEN 2 ELSE 1
SlotLimit(p) == limits[Tier(p)]
validate_provider_signal_limit(p) == active[p] < SlotLimit(p)
CooledDown(p) == cooldown > 0 /\ lastAt[p] > 0 => now >= lastAt[p] + cooldown
WithinDay(p) == perDay > 0 => At(daily, <<p, now \div Day>>) < perDay
(* Fault: the quota of the window is counted for everybody, never per provider. *)
GlobalOnly(p) == used' = IF quota = None THEN used ELSE Bumped(used, <<All, Window(quota)>>)
consume(p) ==
    used' = IF quota = None THEN used
            ELSE Bumped(Bumped(used, <<p, Window(quota)>>), <<All, Window(quota)>>)

SignalAt(p, exp, act, price, st) ==
    [owner |-> p, status |-> st, at |-> now, expiry |-> exp, action |-> act, price |-> price,
     execs |-> 0, wins |-> 0, roi |-> 0, copies |-> 0]
create_signal_internal(p, exp, act, price, st) ==
    /\ counter < MaxSignals
    /\ p \notin banned /\ can_submit(p) /\ check(p) /\ validate_provider_signal_limit(p)
    /\ CooledDown(p) /\ WithinDay(p)
    /\ exp > now /\ exp <= now + MaxExpiry
    /\ counter' = counter + 1
    /\ signals' = [signals EXCEPT ![counter + 1] = SignalAt(p, exp, act, price, st)]
    /\ active' = [active EXCEPT ![p] = @ + 1] /\ index' = index \cup {counter + 1}
    /\ lastAt' = [lastAt EXCEPT ![p] = now] /\ daily' = Bumped(daily, <<p, now \div Day>>)
    /\ consume(p) /\ log' = Append(log, [by |-> p, at |-> now])
create_signal(p, d, act, price) == create_signal_internal(p, now + d, act, price, "Active")

(* The limits change under running windows; a quota is validated. *)
set_submission_quota(q) ==
    /\ q.window > 0 /\ (q.all # 0 => q.each <= q.all)
    /\ quota' = [window |-> q.window, each |-> q.each, all |-> q.all, since |-> now] /\ UNCHANGED <<limits, stake, cooldown, perDay, status>>
set_limits ==
    \/ limits' \in Limits /\ UNCHANGED <<stake, quota, cooldown, perDay, status>>
    \/ cooldown' \in Cooldowns /\ UNCHANGED <<limits, stake, quota, perDay, status>>
    \/ perDay' \in Dailies /\ UNCHANGED <<limits, stake, quota, cooldown, status>>
set_provider_stake(p, amt) == stake' = [stake EXCEPT ![p] = amt] /\ UNCHANGED <<limits, quota, cooldown, perDay, status>>

is_allowed(from, to) ==
    \/ from = "Pending" /\ to \in {"Active", "Retired"}
    \/ from = "Active" /\ to \in {"Suspended", "Banned", "Retired"}
    \/ from = "Suspended" /\ to \in {"Active", "Banned", "Retired"}
    \/ from = "Banned" /\ to = "Active"
(* An administrator, or the provider itself into retirement. *)
transition(p, to) ==
    /\ is_allowed(get_status(p), to)
    /\ status' = [status EXCEPT ![p] = [at |-> to]] /\ UNCHANGED <<limits, stake, quota, cooldown, perDay>>

-----------------------------------------------------------------------------
(* The active count of a provider is kept beside the map, by hand.         *)

Released(cnt, p) == [cnt EXCEPT ![p] = IF @ > 0 THEN @ - 1 ELSE 0]
ReleasedAll(S) == [p \in Providers |->
    LET n == Cardinality({s \in S : signals[s].owner = p /\ signals[s].status = "Active"})
    IN IF active[p] > n THEN active[p] - n ELSE 0]
SetStatus(S, st) == [s \in Ids |-> IF s \in S THEN [signals[s] EXCEPT !.status = st] ELSE signals[s]]

(* Reading a signal expires it. *)
get_signal(s) ==
    /\ s \in Kept /\ signals[s].status = "Active" /\ is_expired(s)
    /\ signals' = SetStatus({s}, "Expired") /\ active' = Released(active, signals[s].owner)
    /\ UNCHANGED <<counter, index, lastAt, daily, used, log>>
cancel_signal(p, s) ==
    /\ s \in Kept /\ signals[s].owner = p /\ signals[s].status = "Active" /\ now - signals[s].at >= minLife
    /\ signals' = SetStatus({s}, "Cancelled") /\ active' = Released(active, p)
    /\ UNCHANGED <<counter, index, lastAt, daily, used, log>>

calculate_roi(entry, exit, act) ==
    LET d == IF act = "Buy" THEN exit - entry ELSE entry - exit
        roi == Quot(d * Bps, entry)
    IN IF roi < -Bps THEN -Bps ELSE roi
update_signal_stats(sig, roi) ==
    [sig EXCEPT !.execs = @ + 1, !.wins = IF roi > 0 THEN @ + 1 ELSE @, !.roi = @ + roi]
evaluate_signal_status(sig) ==
    LET avg == Quot(sig.roi, sig.execs)
    IN IF avg > Success THEN "Successful" ELSE IF avg < Failure THEN "Failed" ELSE "Active"
should_update_provider_stats(from, to) == from # to /\ to \in {"Successful", "Failed"}
update_provider_performance(st, from, to) ==
    IF from \notin {"Active", "Pending"} \/ to \notin {"Successful", "Failed"} THEN st
    ELSE [st EXCEPT !.total = @ + 1, !.good = IF to = "Successful" THEN @ + 1 ELSE @, !.bad = IF to = "Failed" THEN @ + 1 ELSE @]
(* A closed copy: whatever the signal's status was, it takes the one its average return gives it. *)
record_trade_execution(s, entry, exit) ==
    /\ s \in Kept
    /\ LET sig == update_signal_stats(signals[s], calculate_roi(entry, exit, signals[s].action))
           from == signals[s].status
           to == evaluate_signal_status(sig)
           p == sig.owner
       IN /\ signals' = [signals EXCEPT ![s] = [sig EXCEPT !.status = to]]
          /\ active' = IF from = "Active" /\ to # "Active" THEN Released(active, p) ELSE active
          /\ stats' = IF should_update_provider_stats(from, to)
                      THEN [stats EXCEPT ![p] = update_provider_performance(@, from, to)] ELSE stats
          /\ revived' = IF from \notin {"Active", "Pending"} /\ to = "Active" THEN [revived EXCEPT ![p] = @ + 1] ELSE revived
    /\ UNCHANGED <<counter, index, lastAt, daily, used, log, copied, banned>>
(* The executor reports a copy under a nonce. *)
increment_adoption(s, nonce) ==
    /\ <<s, nonce>> \notin copied /\ s \in Kept /\ signals[s].status = "Active"
    /\ signals' = [signals EXCEPT ![s].copies = @ + 1]
    /\ stats' = [stats EXCEPT ![signals[s].owner].copies = @ + 1] /\ copied' = copied \cup {<<s, nonce>>}
    /\ UNCHANGED <<counter, active, index, lastAt, daily, used, log, banned, revived>>
(* A ban fails the active signals and leaves the count as it was. *)
ban_provider(p) ==
    /\ banned' = banned \cup {p} /\ signals' = SetStatus(OpenOf(p), "Failed")
    /\ UNCHANGED <<counter, active, index, lastAt, daily, used, log, stats, copied, revived>>

-----------------------------------------------------------------------------
(* Sweeping: a cleanup and an archive cursor go round the kept ids, and    *)
(* keepers prune what has expired, oldest first.                           *)

Lowest(S, n) == {s \in S : Cardinality({t \in S : t < s}) < n}
cursor_window(c, n) ==
    LET after == {s \in Kept : s > c}
        w == Lowest(after, n)
    IN w \cup Lowest(Kept \ after, n - Cardinality(w))
LastOf(c, w) ==
    LET before == {s \in w : s <= c}
        S == IF before = {} THEN w ELSE before
    IN CHOOSE s \in S : \A t \in S : t <= s
cleanup_expired_signals(n) ==
    /\ Kept # {}
    /\ LET w == cursor_window(cleanup, n)
           X == {s \in w : signals[s].status = "Active" /\ is_expired(s)}
       IN signals' = SetStatus(X, "Expired") /\ active' = ReleasedAll(X) /\ cleanup' = LastOf(cleanup, w)
    /\ UNCHANGED <<counter, index, lastAt, daily, used, log, archive, minLife>>
is_archivable(s) ==
    /\ signals[s].status = "Expired" \/ (signals[s].status = "Active" /\ is_expired(s))
    /\ now - signals[s].expiry > Archived
Removed(S) == [s \in Ids |-> IF s \in S THEN None ELSE signals[s]]
(* Fault: a slot is released for whatever signal is removed. *)
ReleaseAny(S) ==
    /\ signals' = Removed(S) /\ index' = index \ S
    /\ active' = [p \in Providers |-> LET n == Cardinality({s \in S : signals[s].owner = p})
                                      IN IF active[p] > n THEN active[p] - n ELSE 0]
    /\ UNCHANGED <<counter, lastAt, daily, used, log>>
release_removed_signals(S) ==
    /\ signals' = Removed(S) /\ index' = index \ S /\ active' = ReleasedAll(S)
    /\ UNCHANGED <<counter, lastAt, daily, used, log>>
archive_old_signals(n) ==
    /\ Kept # {}
    /\ LET w == cursor_window(archive, n)
       IN release_removed_signals({s \in w : is_archivable(s)}) /\ archive' = LastOf(archive, w)
    /\ UNCHANGED <<cleanup, minLife>>
prune_expired_signals(n) ==
    release_removed_signals(Lowest({s \in Kept : is_expired(s)}, n)) /\ UNCHANGED sweepVars

SweepCalls == \E n \in Batch : cleanup_expired_signals(n) \/ archive_old_signals(n) \/ prune_expired_signals(n)

LifeNext ==
    /\ UNCHANGED <<payVars, ruleVars, editVars, linkVars>>
    /\ \/ Call /\ UNCHANGED <<tradeVars, sweepVars>>
          /\ ((\E p \in Providers, d \in Expiries, a \in Actions, pr \in Prices : create_signal(p, d, a, pr))
              \/ (\E p \in Providers, s \in Ids : get_signal(s) \/ cancel_signal(p, s)))
       \/ Call /\ UNCHANGED sweepVars
          /\ ((\E s \in Ids : (\E e \in Entries, x \in Exits : record_trade_execution(s, e, x)) \/ (\E n \in 1..2 : increment_adoption(s, n)))
              \/ (\E p \in Providers : ban_provider(p)))
       \/ Call /\ UNCHANGED tradeVars
          /\ SweepCalls
       \/ Call /\ minLife' \in Lifetimes /\ UNCHANGED <<core, tradeVars, cleanup, archive>>
       \/ Tick

SubmitNext ==
    /\ UNCHANGED <<sweepVars, payVars, editVars, linkVars>>
    /\ \/ Call /\ UNCHANGED <<tradeVars, ruleVars>>
          /\ ((\E p \in Providers, d \in Expiries, a \in Actions, pr \in Prices : create_signal(p, d, a, pr))
              \/ (\E p \in Providers, s \in Ids : cancel_signal(p, s)))
       \/ Call /\ UNCHANGED <<core, tradeVars>>
          /\ ((\E q \in Quotas : set_submission_quota(q)) \/ set_limits
              \/ (\E p \in Providers, a \in Stakes : set_provider_stake(p, a))
              \/ (\E p \in Providers, to \in {"Active", "Suspended", "Banned", "Retired"} : transition(p, to)))
       \/ Call /\ UNCHANGED ruleVars /\ \E p \in Providers : ban_provider(p)
       \/ Tick

-----------------------------------------------------------------------------
(* Collaboration and the rewards of an outcome.                            *)

(* The signal is created, then set back to Pending until every author has approved. *)
create_collaborative_signal(p, q, split, d, act, price) ==
    /\ create_signal_internal(p, now + d, act, price, "Pending") /\ split[1] + split[2] = Bps
    /\ authors' = [authors EXCEPT ![counter + 1] = <<[who |-> p, pct |-> split[1], ok |-> TRUE], [who |-> q, pct |-> split[2], ok |-> FALSE]>>]
    /\ UNCHANGED <<recorded, pending, granted, claimed, revived>>
(* The first author of that address approves; the last approval sets the    *)
(* signal Active, whatever happened to it since.                           *)
approve_collaborative_signal(q, s) ==
    /\ \E i \in 1..Len(authors[s]) :
          /\ authors[s][i].who = q /\ ~authors[s][i].ok /\ \A j \in 1..(i - 1) : authors[s][j].who # q
          /\ authors' = [authors EXCEPT ![s][i].ok = TRUE]
    /\ IF \A i \in 1..Len(authors[s]) : authors'[s][i].ok
       THEN /\ s \in Kept /\ signals' = SetStatus({s}, "Active")
            /\ revived' = IF signals[s].status \in {"Active", "Pending"} THEN revived ELSE [revived EXCEPT ![signals[s].owner] = @ + 1]
       ELSE UNCHANGED <<signals, revived>>
    /\ UNCHANGED <<counter, active, index, lastAt, daily, used, log, recorded, pending, granted, claimed>>
(* Division cuts towards zero, a loss as well as a gain. *)
Part(x, pct) == IF x < 0 THEN -(((-x) * pct) \div Bps) ELSE (x * pct) \div Bps
(* Fault: what the division leaves goes to nobody. *)
SharesCut(au, total) == [i \in 1..Len(au) |-> Part(total, au[i].pct)]
distribute_collaborative_rewards(au, total) ==
    LET cut == [i \in 1..Len(au) |-> Part(total, au[i].pct)]
    IN [i \in 1..Len(au) |-> IF i < Len(au) THEN cut[i] ELSE cut[i] + total - SumOver(cut, 1..Len(au))]
Rewards(r, fee, roi) == [fee |-> r.fee + fee, roi |-> r.roi + roi]
(* An author whose shares are both no gain is passed over. *)
Credited(au, fee, roi, p) ==
    LET fees == distribute_collaborative_rewards(au, fee)
        rois == distribute_collaborative_rewards(au, roi)
        mine == {i \in 1..Len(au) : au[i].who = p /\ (fees[i] > 0 \/ rois[i] > 0)}
    IN  Rewards(pending[p], SumOver(fees, mine), SumOver(rois, mine))
record_signal_outcome(s, fee, roi) ==
    /\ s \notin recorded /\ s \in Kept /\ signals[s].status # "Active"
    /\ recorded' = recorded \cup {s} /\ granted' = Rewards(granted, fee, roi)
    /\ pending' = IF authors[s] = <<>>
                  THEN [pending EXCEPT ![signals[s].owner] = Rewards(@, fee, roi)]
                  ELSE [p \in Providers |-> Credited(authors[s], fee, roi, p)]
    /\ UNCHANGED <<core, authors, claimed, revived>>
claim_pending_rewards(p) ==
    /\ pending[p] # NoReward /\ pending' = [pending EXCEPT ![p] = NoReward]
    /\ claimed' = Rewards(claimed, pending[p].fee, pending[p].roi)
    /\ UNCHANGED <<core, authors, recorded, granted, revived>>

PayNext ==
    /\ UNCHANGED <<sweepVars, ruleVars, editVars, linkVars>>
    /\ \/ Call /\ UNCHANGED <<stats, copied, banned>>
          /\ ((\E p, q \in Providers, sp \in Splits, d \in Expiries, a \in Actions, pr \in Prices : create_collaborative_signal(p, q, sp, d, a, pr))
              \/ (\E q \in Providers, s \in Ids : approve_collaborative_signal(q, s))
              \/ (\E s \in Ids, f \in Fees, r \in Rois : record_signal_outcome(s, f, r))
              \/ (\E p \in Providers : claim_pending_rewards(p)))
       \/ Call /\ UNCHANGED <<payVars, tradeVars>>
          /\ ((\E p \in Providers, d \in Expiries, a \in Actions, pr \in Prices : create_signal(p, d, a, pr))
              \/ (\E p \in Providers, s \in Ids : cancel_signal(p, s)) \/ (\E n \in Batch : release_removed_signals(Lowest({s \in Kept : is_expired(s)}, n))))
       \/ Call /\ UNCHANGED payVars /\ \E s \in Ids, e \in Entries, x \in Exits : record_trade_execution(s, e, x)
       \/ Tick

-----------------------------------------------------------------------------
(* Editing: within the first minute, before a copy, or as a new version.   *)

Repriced(s, price, exp) == signals' = [signals EXCEPT ![s].price = price, ![s].expiry = exp]
update_signal(p, s, price) ==
    /\ s \in Kept /\ signals[s].owner = p /\ signals[s].copies = 0 /\ now - signals[s].at <= EditWindow
    /\ Repriced(s, price, signals[s].expiry) /\ UNCHANGED editVars
NewVersion(s) ==
    /\ version' = [version EXCEPT ![s] = @ + 1]
    /\ old' = [old EXCEPT ![s] = Append(@, [v |-> version[s], price |-> signals[s].price, expiry |-> signals[s].expiry])]
(* Whatever the status: only the copies and the expiry are asked about. *)
edit_signal_with_audit(p, s, price, exp) ==
    /\ s \in Kept /\ signals[s].owner = p /\ signals[s].copies = 0 /\ now < signals[s].expiry /\ exp > now
    /\ NewVersion(s) /\ Repriced(s, price, exp) /\ UNCHANGED <<updates, updatedAt, copyOf>>
(* Fault: a versioned update forgets the terms it replaces. *)
UpdateUnversioned(p, s, price, exp) ==
    /\ s \in Kept /\ signals[s].owner = p /\ signals[s].status = "Active" /\ updates[s] < MaxUpdates
    /\ now >= updatedAt[s] + UpdateGap /\ now < signals[s].expiry /\ exp > now
    /\ Repriced(s, price, exp) /\ updates' = [updates EXCEPT ![s] = @ + 1] /\ updatedAt' = [updatedAt EXCEPT ![s] = now]
    /\ UNCHANGED <<version, old, copyOf>>
update_signal_versioned(p, s, price, exp) ==
    /\ s \in Kept /\ signals[s].owner = p /\ signals[s].status = "Active" /\ updates[s] < MaxUpdates
    /\ now >= updatedAt[s] + UpdateGap /\ now < signals[s].expiry /\ exp > now
    /\ NewVersion(s) /\ Repriced(s, price, exp)
    /\ updates' = [updates EXCEPT ![s] = @ + 1] /\ updatedAt' = [updatedAt EXCEPT ![s] = now] /\ UNCHANGED copyOf
record_copy(s) == copyOf' = [copyOf EXCEPT ![s] = [version |-> version[s], told |-> {}]]
mark_notified(s, v) == copyOf[s] # None /\ copyOf' = [copyOf EXCEPT ![s].told = @ \cup {v}]
get_pending_updates(s) == IF copyOf[s] = None THEN {} ELSE ((copyOf[s].version + 1)..version[s]) \ copyOf[s].told

CopyCalls == \E s \in Ids : record_copy(s) \/ \E v \in 1..3 : mark_notified(s, v)

EditNext ==
    /\ UNCHANGED <<sweepVars, payVars, ruleVars, linkVars>>
    /\ \/ Call /\ UNCHANGED <<tradeVars, editVars>>
          /\ ((\E p \in Providers, d \in Expiries, a \in Actions, pr \in Prices : create_signal(p, d, a, pr))
              \/ (\E p \in Providers, s \in Ids : cancel_signal(p, s) \/ get_signal(s)))
       \/ Call /\ UNCHANGED editVars /\ \E s \in Ids, n \in 1..2 : increment_adoption(s, n)
       \/ Call /\ UNCHANGED <<counter, active, index, lastAt, daily, used, log, tradeVars>>
          /\ \E p \in Providers, s \in Ids, pr \in Prices :
                \/ update_signal(p, s, pr)
                \/ \E d \in Expiries : edit_signal_with_audit(p, s, pr, now + d) \/ update_signal_versioned(p, s, pr, now + d)
       \/ Call /\ UNCHANGED <<core, tradeVars, version, old, updates, updatedAt>>
          /\ CopyCalls
       \/ Tick

-----------------------------------------------------------------------------
(* Schedules, imports from other chains, and templates.                    *)

(* root is history: the schedule an occurrence descends from. *)
schedule_signal(p, delay, rec) ==
    /\ delay \in 1..Horizon /\ listed[p] < MaxSchedules
    /\ schedules' = Append(schedules, [by |-> p, at |-> now + delay, gap |-> rec.gap, left |-> rec.left, of |-> rec.left, st |-> "Pending", root |-> Len(schedules) + 1])
    /\ listed' = [listed EXCEPT ![p] = @ + 1] /\ UNCHANGED <<core, mapping, imports, templates, presets>>
Due(i) == schedules[i].st = "Pending" /\ now >= schedules[i].at
schedule_next_occurrence(e) == [e EXCEPT !.at = @ + e.gap, !.left = @ - 1]
(* Every due entry is marked, and its next occurrence is appended: it is    *)
(* looked at by the next call.                                             *)
publish_scheduled_signals ==
    /\ \E i \in DOMAIN schedules : Due(i)
    /\ LET again == SelectSeq([i \in DOMAIN schedules |-> IF Due(i) THEN schedules[i] ELSE None], LAMBDA e : e # None /\ e.left > 0)
       IN schedules' = [i \in DOMAIN schedules |-> IF Due(i) THEN [schedules[i] EXCEPT !.st = "Published"] ELSE schedules[i]]
                       \o [i \in DOMAIN again |-> schedule_next_occurrence(again[i])]
    /\ UNCHANGED <<core, listed, mapping, imports, templates, presets>>
cancel_scheduled_signal(p, i) ==
    /\ schedules[i].by = p /\ schedules' = [schedules EXCEPT ![i].st = "Cancelled"]
    /\ UNCHANGED <<core, listed, mapping, imports, templates, presets>>

(* Anyone may register the source address as its own: the proof is not looked at. *)
register_address(p) == mapping' = [to |-> p] /\ UNCHANGED <<core, schedules, listed, imports, templates, presets>>
request_signal_import(p, c) ==
    /\ mapping # None /\ mapping.to = p /\ imports[c] = None
    /\ imports' = [imports EXCEPT ![c] = [owner |-> p, st |-> "Pending", sig |-> 0]]
    /\ UNCHANGED <<core, schedules, listed, mapping, templates, presets>>
import_verified_signal(c, d, act, price) ==
    /\ imports[c] # None /\ imports[c].st = "Pending"
    /\ create_signal_internal(imports[c].owner, now + d, act, price, "Active")
    /\ imports' = [imports EXCEPT ![c].st = "Imported", ![c].sig = counter + 1]
    /\ UNCHANGED <<schedules, listed, mapping, templates, presets>>
sync_signal_update(c, price) ==
    /\ imports[c] # None /\ imports[c].st = "Imported" /\ imports[c].sig \in Kept
    /\ signals' = [signals EXCEPT ![imports[c].sig].price = price]
    /\ UNCHANGED <<counter, active, index, lastAt, daily, used, log, linkVars>>

create_template(p) ==
    /\ Len(templates) < MaxSignals /\ templates' = Append(templates, [by |-> p, public |-> FALSE, uses |-> 0])
    /\ UNCHANGED <<core, schedules, listed, mapping, imports, presets>>
set_template_public(p, t, on) ==
    /\ templates[t].by = p /\ templates' = [templates EXCEPT ![t].public = on]
    /\ UNCHANGED <<core, schedules, listed, mapping, imports, presets>>
submit_from_template(p, t, d, act, price) ==
    /\ templates[t].public \/ templates[t].by = p
    /\ create_signal(p, d, act, price) /\ templates' = [templates EXCEPT ![t].uses = @ + 1]
    /\ UNCHANGED <<schedules, listed, mapping, imports, presets>>
save_signal_template(p) ==
    /\ presets[p] < MaxPresets /\ presets' = [presets EXCEPT ![p] = @ + 1]
    /\ UNCHANGED <<core, schedules, listed, mapping, imports, templates>>
submit_signal_from_template(p, d, act, price) == presets[p] > 0 /\ create_signal(p, d, act, price) /\ UNCHANGED linkVars

SavedTemplateCalls ==
    \E p \in Providers : save_signal_template(p) \/ \E d \in Expiries, a \in Actions, pr \in Prices : submit_signal_from_template(p, d, a, pr)
TemplateCalls ==
    \E p \in Providers : \/ create_template(p)
                         \/ \E t \in DOMAIN templates : \/ \E on \in BOOLEAN : set_template_public(p, t, on)
                                                        \/ \E d \in Expiries, a \in Actions, pr \in Prices : submit_from_template(p, t, d, a, pr)
ImportCalls ==
    \E c \in Chains, pr \in Prices : sync_signal_update(c, pr) \/ \E d \in Expiries, a \in Actions : import_verified_signal(c, d, a, pr)

PlanCalls ==
    publish_scheduled_signals \/ \E p \in Providers, d \in 1..Horizon, r \in Recurrences : schedule_signal(p, d, r)

LinkNext ==
    /\ UNCHANGED <<tradeVars, sweepVars, payVars, ruleVars, editVars>>
    /\ \/ Call
          /\ \/ PlanCalls \/ SavedTemplateCalls \/ TemplateCalls \/ ImportCalls
             \/ \E p \in Providers : register_address(p) \/ (\E i \in DOMAIN schedules : cancel_scheduled_signal(p, i)) \/ \E c \in Chains : request_signal_import(p, c)
       \/ Tick

-----------------------------------------------------------------------------

(* What an outcome pays is pending for its authors or claimed, to the last *)
(* unit of a split, each outcome once, whatever is pruned in between; only *)
(* an author's loss that comes without a fee is left out.                  *)
OutcomesPaidOnce ==
    LET Sum(x, f) == x + SumOver(f, Providers)
        fee == Sum(claimed.fee, [p \in Providers |-> pending[p].fee])
        roi == Sum(claimed.roi, [p \in Providers |-> pending[p].roi])
    IN  /\ granted.fee = fee /\ granted.roi <= roi
        /\ (\A s \in recorded : authors[s] = <<>>) => granted.roi = roi

(* Bookkeeping of the registry: a provider's closed signals are its good   *)
(* and its bad ones, a signal's wins are among its executions and its      *)
(* copies are the nonces used for it, everything kept is in the category's *)
(* list, and every version before the latest is on record, in order.       *)
RegistryAccounted ==
    /\ \A p \in Providers : stats[p].total = stats[p].good + stats[p].bad
    /\ \A s \in Kept : /\ signals[s].wins <= signals[s].execs
                       /\ signals[s].copies = Cardinality({k \in copied : k[1] = s})
    /\ index = Kept
    /\ \A s \in Ids : /\ Len(old[s]) = version[s] - 1 /\ \A v \in DOMAIN old[s] : old[s][v].v = v
                      /\ updates[s] <= MaxUpdates

(* A recurring schedule has one pending occurrence at most, never more     *)
(* occurrences than it asked for, a gap apart; every imported signal has   *)
(* its own id and belongs to the one who asked for it.                     *)
LinksSound ==
    /\ \A i, j \in DOMAIN schedules : i < j /\ schedules[i].root = schedules[j].root =>
          /\ schedules[i].st # "Pending" /\ schedules[i].left > schedules[j].left
          /\ schedules[j].at - schedules[i].at = (schedules[i].left - schedules[j].left) * schedules[i].gap
    /\ \A c, e \in Chains : imports[c] # None /\ imports[c].st = "Imported" =>
          /\ imports[c].sig \in Kept => signals[imports[c].sig].owner = imports[c].owner
          /\ imports[e] # None /\ imports[e].sig = imports[c].sig => e = c

(* A submission is within every limit in force, counted from the            *)
(* submissions themselves and not from the counters the code keeps: its     *)
(* spacing, its day, its window since the quota was set, and, until a       *)
(* closed signal of the provider is revived by a late trade or approval,    *)
(* the slots of the provider's tier.                                        *)
SubmissionsWithinLimits ==
    \A p \in Providers : counter' # counter /\ log'[Len(log')].by = p =>
        LET mine == {i \in DOMAIN log : log[i].by = p}
            here(S, size) == {i \in S : log[i].at \div size = now \div size}
        IN /\ p \notin banned /\ get_status(p) = "Active"
           /\ \A i \in mine : cooldown > 0 => now - log[i].at >= cooldown
           /\ perDay > 0 => Cardinality(here(mine, Day)) < perDay
           /\ quota # None /\ quota.each > 0 =>
                 Cardinality({i \in here(mine, quota.window) : log[i].at > quota.since}) < quota.each
           /\ quota # None /\ quota.all > 0 =>
                 Cardinality({i \in here(DOMAIN log, quota.window) : log[i].at > quota.since}) < quota.all
           /\ revived[p] = 0 => Cardinality(OpenOf(p)) < SlotLimit(p)

(* A signal changes by its own rules: it is removed after its expiry only, *)
(* copies are added while it is active, a signal nobody imported that has  *)
(* been copied changes its terms only by leaving the old ones on record,   *)
(* and a closed signal is closed for good but for a late trade or approval. *)
SignalsByRule ==
    \A s \in Kept :
        /\ signals'[s] = None => now > signals[s].expiry
        /\ signals'[s] # None =>
              /\ signals'[s].copies # signals[s].copies => signals[s].status = "Active"
              /\ signals[s].copies > 0 /\ (signals'[s].price # signals[s].price \/ signals'[s].expiry # signals[s].expiry)
                    /\ (\A c \in Chains : imports[c] # None => imports[c].sig # s) =>
                    old'[s] = Append(old[s], [v |-> version[s], price |-> signals[s].price, expiry |-> signals[s].expiry])
              /\ signals[s].status \in {"Expired", "Cancelled", "Failed", "Successful"} /\ signals'[s].status = "Active" =>
                    signals'[s].execs = signals[s].execs + 1 \/ (authors[s] # <<>> /\ authors'[s] # authors[s])
=============================================================================
