---------------------------- MODULE TradeGuards ----------------------------
(***************************************************************************)
(* What stands between a user and a trade in auto_trade: execute_trade of  *)
(* lib.rs with the pauses and the circuit breaker of admin.rs, the         *)
(* authorization of auth.rs, the loss streak, the daily cap, rate_limit.rs *)
(* and the limits of risk.rs; the roles of admin.rs, keeper.rs and         *)
(* oracle.rs; and the small ledgers beside a trade: referral.rs,           *)
(* escrow.rs, priority_queue.rs, governance.rs and positions.rs.           *)
(* A call that fails is rolled back and is no step here.                   *)
(***************************************************************************)
EXTENDS Integers, FiniteSets, Sequences

CONSTANTS
    Users, Assets, Price,       \* accounts; signals 1..n with their price
    Amounts,                    \* sizes of a trade
    Hour, Day,                  \* lengths of the two windows
    Limits,                     \* BridgeRateLimits that may be in force
    CapSteps,                   \* bounds and steps of adjust_limits_based_on_load
    DailyCap, TradeLimit,       \* executions a day, filled trades a day
    MaxPct,                     \* share of the portfolio one position may have
    Threshold,                  \* losses in a row that pause a user
    Breaker,                    \* circuit breaker: sample, failure share, volume, window, price window
    Expiry,                     \* the signal's and a handover's life
    Silence,                    \* inactivity window of the admin
    Triggers,                   \* trigger types with their priority
    MaxReferralTrades, MaxActive, Window,
    Timelock, Cooldown, MaxExecutions,
    MaxNow, MaxTrades, MaxCalls \* bounds: the clock, trades and queue entries, other calls

GuardsTyped ==
    /\ Amounts \subseteq Nat \ {0} /\ Hour \in Nat /\ Day \in Nat /\ Hour <= Day
    /\ DailyCap \in Nat \ {0} /\ Threshold \in Nat \ {0} /\ MaxExecutions \in Nat \ {0}

VARIABLES
    now, paused,
    calls,                      \* bound: calls other than trades
    acct,                       \* per user: permission, flag, streak, caps, transfers, positions
    limits, inHour, listed,     \* rate limits in force, GlobalHourlyCount, the whitelist
    cb,                         \* CircuitBreakerStats, with `on' once configured
    admin, offer, guardian, operator, lastAction, keepers, oracles,
    entry, stats,               \* referrals
    escrow, moved, queue, nextId, props, execs, desk

guardVars == <<acct, limits, inHour, listed, cb>>
roleVars == <<admin, offer, guardian, operator, lastAction, keepers, oracles>>
referralVars == <<entry, stats>>
deskVars == <<escrow, moved, queue, nextId, props, execs, desk>>
vars == <<now, paused, calls, guardVars, roleVars, referralVars, deskVars>>

None == [absent |-> TRUE]
SumOf(s) == LET S[i \in 0..Len(s)] == IF i = 0 THEN 0 ELSE S[i - 1] + s[i] IN S[Len(s)]
Smaller(a, b) == IF a < b THEN a ELSE b
Greater(a, b) == IF a > b THEN a ELSE b
Categories == {"all", "trading"}

(* log and waived are history: the executions, a pause taken back since.   *)
NewAccount ==
    [authz |-> None, flagged |-> 0, streak |-> 0, resting |-> FALSE, cap |-> None, sent |-> <<>>, last |-> 0,
     strikes |-> 0, penalty |-> 0, hour |-> None, day |-> None, held |-> [a \in Assets |-> 0], trades |-> <<>>,
     log |-> <<>>, waived |-> FALSE]
Init ==
    /\ now = 1 /\ calls = 0 /\ paused = [c \in Categories |-> None]
    /\ acct = [u \in Users |-> NewAccount] /\ inHour = 0 /\ limits \in Limits /\ listed = {}
    /\ cb = [n |-> 0, fails |-> 0, start |-> 1, volume |-> 0, quotedAt |-> 0, on |-> FALSE]
    /\ admin \in Users /\ offer = None /\ guardian = None /\ operator = None /\ lastAction = 0
    /\ keepers = {} /\ oracles = {}
    /\ entry = [u \in Users |-> None]
    /\ stats = [u \in Users |-> [total |-> 0, active |-> 0, earned |-> 0]]
    /\ escrow = [a \in Assets |-> None] /\ moved = [a \in Assets |-> [in |-> 0, out |-> 0]]
    /\ queue = <<>> /\ nextId = 0 /\ props = [a \in Assets |-> None] /\ execs = [a \in Assets |-> <<>>]
    /\ desk = <<>>

Tick == now < MaxNow /\ now' = now + 1 /\ UNCHANGED calls
Call == calls < MaxCalls /\ calls' = calls + 1 /\ UNCHANGED now

-----------------------------------------------------------------------------
(* Pauses: one per category, until unpaused or until auto_unpause_at. *)

is_state_active(p) == p # None /\ (p.until = 0 \/ now < p.until)
is_paused == \E c \in Categories : is_state_active(paused[c])
pause_category(c, d) == paused' = [paused EXCEPT ![c] = [until |-> IF d = 0 THEN 0 ELSE now + d]]
unpause_category(c) == paused[c] # None /\ paused' = [paused EXCEPT ![c] = None]

-----------------------------------------------------------------------------
(* The guards of execute_trade, on the record r of the calling user. *)

is_authorized(r, amt) == r.authz # None /\ now < r.authz.until /\ amt <= r.authz.max

(* A fixed window: it restarts with the first use after it has run out. *)
Used(w, len) == IF w # None /\ now - w.start < len THEN w.n ELSE 0
Counted(w, len) == IF w # None /\ now - w.start < len THEN [w EXCEPT !.n = @ + 1] ELSE [n |-> 1, start |-> now]
check_daily_execution_cap(r) == Used(r.cap, Day) < DailyCap
record_execution(r) == Counted(r.cap, Day)

(* Fault: the day's volume is the hour's. *)
VolumeOfHour(r, ago) == SumOf([i \in 1..Len(r.sent) |-> IF r.sent[i].t > now - Hour THEN r.sent[i].amt ELSE 0])
(* The volume of the records prune_old_records keeps. *)
VolumeWithin(r, ago) == SumOf([i \in 1..Len(r.sent) |-> IF r.sent[i].t > now - ago THEN r.sent[i].amt ELSE 0])
check_rate_limits(r, amt) ==
    /\ now >= r.penalty /\ amt >= limits.min
    /\ r.last = 0 \/ now - r.last >= limits.cooldown
    /\ Used(r.hour, Hour) < limits.hourly /\ Used(r.day, Day) < limits.daily
    /\ VolumeWithin(r, Hour) + amt <= limits.hourlyVolume /\ VolumeWithin(r, Day) + amt <= limits.dailyVolume
    /\ inHour < limits.capacity
record_transfer(r, amt) ==
    [r EXCEPT !.sent = Append(SelectSeq(@, LAMBDA x : x.t > now - Day), [t |-> now, amt |-> amt]),
              !.last = now, !.hour = Counted(@, Hour), !.day = Counted(@, Day)]

(* Limits of risk.rs: filled trades of the last day, share of one position. *)
(* Fault: a trade of exactly a day ago is not counted. *)
TradeLimitOpen(r) == Cardinality({i \in 1..Len(r.trades) : r.trades[i] > now - Day}) < TradeLimit
check_daily_trade_limit(r) == Cardinality({i \in 1..Len(r.trades) : r.trades[i] >= now - Day}) < TradeLimit
calculate_portfolio_value(r) == SumOf([a \in Assets |-> (r.held[a] * Price[a]) \div 100])
check_position_limit(r, a, amt) ==
    LET value == calculate_portfolio_value(r)
        worth(n) == (n * Price[a]) \div 100
    IN  value = 0 \/ (worth(r.held[a] + amt) * 100) \div (value + worth(amt)) <= MaxPct

MayTrade(u, a, amt) ==
    LET r == acct[u] IN
    /\ ~is_paused /\ now >= r.flagged /\ ~r.resting
    /\ check_daily_execution_cap(r) /\ now <= Expiry /\ is_authorized(r, amt)
    /\ u \in listed \/ check_rate_limits(r, amt)
    /\ check_daily_trade_limit(r) /\ check_position_limit(r, a, amt)

(* Fault: a filled trade does not end the streak. *)
StreakKept(r, ok) ==
    IF ok THEN [r EXCEPT !.resting = FALSE] ELSE [r EXCEPT !.streak = @ + 1, !.resting = r.streak + 1 >= Threshold]
record_trade_outcome(r, ok) ==
    IF ok THEN [r EXCEPT !.streak = 0, !.resting = FALSE]
    ELSE [r EXCEPT !.streak = @ + 1, !.resting = r.streak + 1 >= Threshold]

(* The volume is never reset; a failed trade carries price 0, which the    *)
(* price rule takes for a fall of the whole price.                         *)
update_cb_stats(done) ==
    LET fresh == now >= cb.start + Breaker.window
        next == [cb EXCEPT !.n = (IF fresh THEN 0 ELSE @) + 1,
                           !.fails = (IF fresh THEN 0 ELSE @) + (IF done = 0 THEN 1 ELSE 0),
                           !.start = IF fresh THEN now ELSE @, !.volume = @ + done,
                           !.quotedAt = IF done > 0 THEN now ELSE @]
        check_thresholds == \/ next.n >= Breaker.sample /\ next.fails * 100 > Breaker.failPct * next.n
                            \/ done = 0 /\ next.quotedAt > 0 /\ now < next.quotedAt + Breaker.priceWindow
                            \/ next.volume > Breaker.volume
    IN  /\ cb' = next
        /\ paused' = IF cb.on /\ check_thresholds THEN [paused EXCEPT !["all"] = [until |-> 0]] ELSE paused

(* What the trade leaves in the user's records. *)
Settled(r, a, done) ==
    LET q == [record_trade_outcome(r, done > 0) EXCEPT
                !.cap = record_execution(r), !.log = Append(@, [t |-> now, ok |-> done > 0]), !.waived = FALSE]
    IN  IF done = 0 THEN q
        ELSE record_transfer([q EXCEPT !.held[a] = @ + done, !.trades = Append(@, now)], done)
(* done = 0 is a limit order above the market; a market order is filled as *)
(* far as the liquidity goes.                                              *)
execute_trade(u, a, amt, done) ==
    /\ MayTrade(u, a, amt) /\ done \in 0..amt /\ Len(acct[u].log) < MaxTrades
    /\ update_cb_stats(done)
    /\ acct' = [acct EXCEPT ![u] = Settled(@, a, done)]
    /\ inHour' = inHour + (IF done > 0 THEN 1 ELSE 0)
    /\ UNCHANGED <<limits, listed>>

-----------------------------------------------------------------------------
(* The calls that change one user's record, and those that change limits. *)

grant_authorization(r, max, d) == [r EXCEPT !.authz = [max |-> max, until |-> now + d]]
revoke_authorization(r) == [r EXCEPT !.authz = None]
resume_after_loss_streak(r) == IF r.resting THEN [r EXCEPT !.resting = FALSE, !.waived = TRUE] ELSE r
set_rate_limited(r) == [r EXCEPT !.flagged = now + Hour]
clear_rate_limited(r) == [r EXCEPT !.flagged = 0]
PenaltyOf(n) == CASE n <= 2 -> Hour [] n \in 3..5 -> Day [] n \in 6..10 -> 7 * Day [] OTHER -> 30 * Day
record_violation(r) ==
    IF r.strikes < MaxTrades THEN [r EXCEPT !.strikes = @ + 1, !.penalty = now + PenaltyOf(r.strikes + 1)] ELSE r
AuthorizationCalls(r) == {revoke_authorization(r)} \cup {grant_authorization(r, m, Day + 2) : m \in Amounts}
LimitCalls(r) == {set_rate_limited(r), clear_rate_limited(r)}

AccountCalls(r) ==
    AuthorizationCalls(r) \cup LimitCalls(r) \cup {resume_after_loss_streak(r), record_violation(r)}

add_to_whitelist(u) == u \notin listed /\ listed' = listed \cup {u}
remove_from_whitelist(u) == u \in listed /\ listed' = listed \ {u}
set_limits(l) == l # limits /\ limits' = l
adjust_limits_based_on_load ==
    LET load == IF limits.capacity > 0 THEN (inHour * 100) \div limits.capacity ELSE 100 IN
    \/ load <= 50 /\ limits' = [limits EXCEPT !.hourly = Smaller(@ + 1, CapSteps.most)]
    \/ load \in 80..100 /\ limits' = [limits EXCEPT !.hourly = Greater(@ - 1, CapSteps.least),
                                                    !.cooldown = Smaller(@ + CapSteps.step, CapSteps.cooldown)]
set_cb_config == cb' = [cb EXCEPT !.on = TRUE]

ListCalls == \E u \in Users : add_to_whitelist(u) \/ remove_from_whitelist(u)

GuardNext ==
    /\ UNCHANGED <<roleVars, referralVars, deskVars>>
    /\ \/ Tick /\ UNCHANGED <<paused, guardVars>>
       \/ UNCHANGED <<now, calls>> /\ \E u \in Users, a \in Assets, amt \in Amounts : \E done \in 0..amt : execute_trade(u, a, amt, done)
       \/ Call /\ UNCHANGED <<paused, limits, inHour, listed, cb>>
          /\ \E u \in Users : \E r \in AccountCalls(acct[u]) : acct' = [acct EXCEPT ![u] = r]
       \/ Call /\ UNCHANGED <<paused, acct, inHour, cb, limits>> /\ ListCalls
       \/ Call /\ UNCHANGED <<paused, acct, inHour, cb, listed>> /\ ((\E l \in Limits : set_limits(l)) \/ adjust_limits_based_on_load)
       \/ Call /\ UNCHANGED <<paused, acct, inHour, limits, listed>> /\ set_cb_config
       \/ Call /\ UNCHANGED guardVars /\ \E c \in Categories : pause_category(c, 1) \/ unpause_category(c)

(* Daily limits: no day of any phase holds more than TradeLimit filled     *)
(* trades of a user nor, across two windows of the cap, 2 * DailyCap       *)
(* executions.                                                             *)
DailyLimitsHold ==
    \A u \in Users : \A t \in 1..now :
      /\ Cardinality({i \in 1..Len(acct[u].trades) : acct[u].trades[i] \in t..(t + Day)}) <= TradeLimit
      /\ Cardinality({i \in 1..Len(acct[u].log) : acct[u].log[i].t \in t..(t + Day - 1)}) < 2 * DailyCap

(* A user rests exactly when the last Threshold executions failed and the  *)
(* user has not taken the pause back since: loss_streak.rs.                *)
StreakGuarded ==
    \A u \in Users :
      LET r == acct[u] n == Len(r.log)
          lost == n >= Threshold /\ \A i \in (n - Threshold + 1)..n : ~r.log[i].ok
      IN  r.resting <=> (lost /\ ~r.waived)

(* While the contract, or the user, is paused nothing is executed; a fill  *)
(* of a user outside the whitelist leaves the hour's and the day's volume  *)
(* within the limits in force and comes a cooldown after the one before.   *)
TradesByRule ==
    \A u \in Users : acct'[u].log # acct[u].log =>
      /\ ~is_paused /\ ~acct[u].resting
      /\ (u \notin listed /\ acct'[u].sent # acct[u].sent) =>
           /\ \A w \in {<<Hour, limits.hourlyVolume>>, <<Day, limits.dailyVolume>>} :
                SumOf([i \in 1..Len(acct'[u].sent) |-> IF acct'[u].sent[i].t > now - w[1] THEN acct'[u].sent[i].amt ELSE 0]) <= w[2]
           /\ \A i \in 1..Len(acct[u].sent) : now - acct[u].sent[i].t >= limits.cooldown

-----------------------------------------------------------------------------
(* Roles: every call of the admin also renews lastAction. *)

AdminActs(u) == u = admin /\ lastAction' = now
PauseBy(u, c, d) ==
    /\ pause_category(c, d)
    /\ (u = guardian /\ UNCHANGED lastAction) \/ (u # guardian /\ AdminActs(u))
    /\ UNCHANGED <<admin, offer, guardian, operator, keepers, oracles>>
UnpauseBy(u, c) == AdminActs(u) /\ unpause_category(c) /\ UNCHANGED <<admin, offer, guardian, operator, keepers, oracles>>
(* Fault: silence is counted from the start of the contract. *)
TriggerEarly ==
    /\ lastAction = 0 \/ now >= Silence
    /\ paused' = [paused EXCEPT !["all"] = [until |-> 0]] /\ UNCHANGED roleVars
(* Anyone may call it. *)
trigger_inactivity_pause ==
    /\ lastAction = 0 \/ now >= lastAction + Silence
    /\ paused' = [paused EXCEPT !["all"] = [until |-> 0]] /\ UNCHANGED roleVars
set_guardian(u, g) == AdminActs(u) /\ guardian' = g /\ UNCHANGED <<paused, admin, offer, operator, keepers, oracles>>
revoke_guardian(u) == AdminActs(u) /\ guardian # None /\ guardian' = None /\ UNCHANGED <<paused, admin, offer, operator, keepers, oracles>>
set_operator(u, o) == AdminActs(u) /\ operator' = o /\ UNCHANGED <<paused, admin, offer, guardian, keepers, oracles>>
propose_admin_transfer(u, v) ==
    /\ AdminActs(u) /\ offer' = [to |-> v, until |-> now + Expiry, by |-> u]
    /\ UNCHANGED <<paused, admin, guardian, operator, keepers, oracles>>
(* Fault: an offer does not expire. *)
AcceptLate(u) ==
    /\ offer # None /\ offer.to = u /\ admin' = u /\ offer' = None
    /\ UNCHANGED <<paused, guardian, operator, lastAction, keepers, oracles>>
accept_admin_transfer(u) ==
    /\ offer # None /\ offer.to = u /\ now < offer.until
    /\ admin' = u /\ offer' = None
    /\ UNCHANGED <<paused, guardian, operator, lastAction, keepers, oracles>>
cancel_admin_transfer(u) ==
    AdminActs(u) /\ offer # None /\ offer' = None /\ UNCHANGED <<paused, admin, guardian, operator, keepers, oracles>>
add_keeper(u, k) == AdminActs(u) /\ k \notin keepers /\ keepers' = keepers \cup {k} /\ UNCHANGED <<paused, admin, offer, guardian, operator, oracles>>
remove_keeper(u, k) == AdminActs(u) /\ k \in keepers /\ keepers' = keepers \ {k} /\ UNCHANGED <<paused, admin, offer, guardian, operator, oracles>>
add_oracle(u, o) == AdminActs(u) /\ oracles' = oracles \cup {o} /\ UNCHANGED <<paused, admin, offer, guardian, operator, keepers>>
(* Fault: the last oracle of a pair may go. *)
RemoveAnyOracle(u, o) == AdminActs(u) /\ oracles' = oracles \ {o} /\ UNCHANGED <<paused, admin, offer, guardian, operator, keepers>>
remove_oracle(u, o) ==
    AdminActs(u) /\ Cardinality(oracles) > 1 /\ oracles' = oracles \ {o} /\ UNCHANGED <<paused, admin, offer, guardian, operator, keepers>>

OperatorCalls ==
    \/ \E u, v \in Users : set_guardian(u, v) \/ set_operator(u, v)
    \/ \E u \in Users, c \in Categories : PauseBy(u, c, 0) \/ PauseBy(u, c, 1) \/ UnpauseBy(u, c)
    \/ \E u \in Users : revoke_guardian(u)
TransferCalls ==
    \E u \in Users : accept_admin_transfer(u) \/ \E v \in Users : propose_admin_transfer(u, v)
KeeperCalls == \E u, v \in Users : add_keeper(u, v) \/ remove_keeper(u, v)
OracleCalls == \E u, v \in Users : add_oracle(u, v) \/ remove_oracle(u, v)

RoleNext ==
    /\ UNCHANGED <<guardVars, referralVars, deskVars>>
    /\ \/ Tick /\ UNCHANGED <<paused, roleVars>>
       \/ Call /\ \/ trigger_inactivity_pause
                  \/ OperatorCalls \/ TransferCalls \/ KeeperCalls \/ OracleCalls
                  \/ \E u \in Users : cancel_admin_transfer(u)

(* The contract changes hands only to the account the admin of that time   *)
(* offered it to, before the offer ran out; a pair that has an oracle      *)
(* keeps one; and only an admin, the guardian, or the admin's silence of a *)
(* whole window (or since the beginning) stops the contract.               *)
RolesByRule ==
    /\ admin' # admin => offer # None /\ offer.by = admin /\ offer.to = admin' /\ now < offer.until
    /\ oracles # {} => oracles' # {}
    /\ (paused' # paused /\ paused'["all"] # None /\ lastAction' # now /\ guardian = None) =>
         lastAction = 0 \/ now - lastAction >= Silence

-----------------------------------------------------------------------------
(* Referrals. *)

Referrer(u) == entry[u].by
(* has_cycle walks up from the referrer; at most MaxActive steps. *)
Chain(u) == LET C[i \in 0..MaxActive] == IF i = 0 THEN {u}
                                         ELSE C[i - 1] \cup {Referrer(x) : x \in {y \in C[i - 1] : entry[y] # None}}
            IN C[MaxActive]
(* Fault: only the referrer's own referrer is looked at. *)
CycleOfTwo(start, candidate) == entry[start] # None /\ Referrer(start) = candidate
has_cycle(start, candidate) == candidate \in {Referrer(x) : x \in {y \in Chain(start) : entry[y] # None}}
set_referrer(u, r) ==
    /\ u # r /\ entry[u] = None /\ ~has_cycle(r, u) /\ stats[r].active < MaxActive
    /\ stats[r].total < MaxTrades
    /\ entry' = [entry EXCEPT ![u] = [by |-> r, since |-> now, n |-> 0]]
    /\ stats' = [stats EXCEPT ![r].total = @ + 1, ![r].active = @ + 1]
(* Fault: an ended referral is kept as it is. *)
RewardWithoutEnd(u, reward) ==
    /\ entry[u] # None /\ entry[u].n < MaxTrades
    /\ entry' = [entry EXCEPT ![u].n = @ + 1]
    /\ stats' = [stats EXCEPT ![Referrer(u)].earned = @ + reward]
process_referral_reward(u, reward) ==
    /\ entry[u] # None
    /\ LET r == Referrer(u) ended == now - entry[u].since > Window \/ entry[u].n >= MaxReferralTrades IN
       IF ended
       THEN /\ stats' = [stats EXCEPT ![r].active = Greater(@ - 1, 0)]
            /\ entry' = [entry EXCEPT ![u] = None]
       ELSE /\ reward > 0
            /\ entry' = [entry EXCEPT ![u].n = @ + 1]
            /\ stats' = [stats EXCEPT ![r].earned = @ + reward,
                                      ![r].active = IF entry[u].n + 1 >= MaxReferralTrades THEN Greater(@ - 1, 0) ELSE @]
ReferralNext ==
    /\ UNCHANGED <<paused, guardVars, roleVars, deskVars>>
    /\ \/ Tick /\ UNCHANGED referralVars
       \/ Call /\ \/ \E u, r \in Users : set_referrer(u, r)
                  \/ \E u \in Users, reward \in 0..1 : process_referral_reward(u, reward)

(* No account refers itself through others, no referral is paid more than  *)
(* MaxReferralTrades times, and a referrer has no more active referrals    *)
(* than there are entries.                                                 *)
ReferralsSound ==
    \A u \in Users :
      /\ u \notin {Referrer(x) : x \in {y \in Chain(u) : entry[y] # None}}
      /\ entry[u] # None => entry[u].n <= MaxReferralTrades
      /\ stats[u].active <= Cardinality({x \in Users : entry[x] # None /\ Referrer(x) = u})

-----------------------------------------------------------------------------
(* Escrow, the queue of triggered actions, proposals and positions. *)

initiate_escrow(a, amt) ==
    /\ (escrow[a] # None => escrow[a].status # "Active") /\ moved[a].in < MaxTrades
    /\ escrow' = [escrow EXCEPT ![a] = [amt |-> amt, status |-> "Active"]]
    /\ moved' = [moved EXCEPT ![a].in = @ + amt]
    /\ UNCHANGED <<queue, nextId, props, execs, desk>>
(* Fault: a settled escrow may be cancelled. *)
CloseTwice(a, status) ==
    /\ escrow[a] # None /\ moved[a].out < 2 * MaxTrades
    /\ escrow' = [escrow EXCEPT ![a].status = status] /\ moved' = [moved EXCEPT ![a].out = @ + escrow[a].amt]
    /\ UNCHANGED <<queue, nextId, props, execs, desk>>
(* settle_escrow and cancel_escrow differ in where the amount goes. *)
close_escrow(a, status) ==
    /\ escrow[a] # None /\ escrow[a].status = "Active"
    /\ escrow' = [escrow EXCEPT ![a].status = status] /\ moved' = [moved EXCEPT ![a].out = @ + escrow[a].amt]
    /\ UNCHANGED <<queue, nextId, props, execs, desk>>

(* Fault: a new action goes before its equals. *)
EnqueueBefore(kind) ==
    LET k == Cardinality({i \in 1..Len(queue) : queue[i].kind > kind}) IN
    /\ nextId < MaxTrades
    /\ queue' = SubSeq(queue, 1, k) \o <<[id |-> nextId, kind |-> kind]>> \o SubSeq(queue, k + 1, Len(queue))
    /\ nextId' = nextId + 1 /\ UNCHANGED <<escrow, moved, props, execs, desk>>
enqueue_action(kind) ==
    LET k == Cardinality({i \in 1..Len(queue) : queue[i].kind >= kind}) IN
    /\ nextId < MaxTrades
    /\ queue' = SubSeq(queue, 1, k) \o <<[id |-> nextId, kind |-> kind]>> \o SubSeq(queue, k + 1, Len(queue))
    /\ nextId' = nextId + 1 /\ UNCHANGED <<escrow, moved, props, execs, desk>>
drain_priority_batch(n) ==
    /\ queue # <<>> /\ queue' = SubSeq(queue, Smaller(n, Len(queue)) + 1, Len(queue))
    /\ UNCHANGED <<escrow, moved, nextId, props, execs, desk>>

create_proposal(p) ==
    /\ props[p] = None /\ props' = [props EXCEPT ![p] = [at |-> now, status |-> "Pending", n |-> 0, last |-> 0]]
    /\ UNCHANGED <<escrow, moved, queue, nextId, execs, desk>>
(* Fault: the cooldown is forgotten. *)
ExecuteAgain(p) ==
    /\ props[p] # None /\ props[p].status # "Executed" /\ now >= props[p].at + Timelock /\ props[p].n < MaxExecutions
    /\ props' = [props EXCEPT ![p].n = @ + 1, ![p].last = now,
                              ![p].status = IF props[p].n + 1 >= MaxExecutions THEN "Executed" ELSE "Active"]
    /\ execs' = [execs EXCEPT ![p] = Append(@, now)] /\ UNCHANGED <<escrow, moved, queue, nextId, desk>>
execute_proposal(p) ==
    /\ props[p] # None /\ props[p].status # "Executed" /\ now >= props[p].at + Timelock
    /\ props[p].last = 0 \/ now >= props[p].last + Cooldown
    /\ props[p].n < MaxExecutions
    /\ props' = [props EXCEPT ![p].n = @ + 1, ![p].last = now,
                              ![p].status = IF props[p].n + 1 >= MaxExecutions THEN "Executed" ELSE "Active"]
    /\ execs' = [execs EXCEPT ![p] = Append(@, now)] /\ UNCHANGED <<escrow, moved, queue, nextId, desk>>

open_position(u, amt) ==
    /\ Len(desk) < 2
    /\ desk' = Append(desk, [by |-> u, amt |-> amt, entry |-> Price[1], exit |-> 0, pnl |-> 0, open |-> TRUE])
    /\ UNCHANGED <<escrow, moved, queue, nextId, props, execs>>
close_position(u, i, exit) ==
    /\ i \in 1..Len(desk) /\ desk[i].by = u /\ desk[i].open
    /\ desk' = [desk EXCEPT ![i].open = FALSE, ![i].exit = exit, ![i].pnl = (exit - desk[i].entry) * desk[i].amt]
    /\ UNCHANGED <<escrow, moved, queue, nextId, props, execs>>

DeskOnly == UNCHANGED <<paused, guardVars, roleVars, referralVars>>
EscrowCalls ==
    \E a \in Assets : (\E amt \in Amounts : initiate_escrow(a, amt)) \/ \E s \in {"Settled", "Cancelled"} : close_escrow(a, s)
PriorityCalls == (\E k \in Triggers : enqueue_action(k)) \/ \E n \in 1..2 : drain_priority_batch(n)
ProposalCalls == \E p \in Assets : create_proposal(p) \/ execute_proposal(p)
PositionCalls ==
    \E u \in Users : \/ \E amt \in Amounts : open_position(u, amt)
                     \/ \E i \in 1..2, x \in {Price[1] - 1, Price[1] + 1} : close_position(u, i, x)

DeskNext ==
    /\ DeskOnly
    /\ \/ Tick /\ UNCHANGED deskVars
       \/ Call /\ (EscrowCalls \/ PriorityCalls \/ ProposalCalls \/ PositionCalls)

(* What left an escrow is what entered it; the queue is by priority and    *)
(* first come first served within one; a proposal waits out its timelock   *)
(* and is carried out at most MaxExecutions times, a cooldown apart.       *)
DeskSound ==
    /\ \A a \in Assets : moved[a].in - moved[a].out = IF escrow[a] # None /\ escrow[a].status = "Active" THEN escrow[a].amt ELSE 0
    /\ \A i, j \in 1..Len(queue) : i < j => queue[i].kind > queue[j].kind \/ (queue[i].kind = queue[j].kind /\ queue[i].id < queue[j].id)
    /\ \A p \in Assets : /\ Len(execs[p]) <= MaxExecutions
                         /\ \A i \in 1..Len(execs[p]) : execs[p][i] >= props[p].at + Timelock
                         /\ \A i \in 2..Len(execs[p]) : execs[p][i] - execs[p][i - 1] >= Cooldown

Spec == Init /\ [][GuardNext]_vars
=============================================================================
