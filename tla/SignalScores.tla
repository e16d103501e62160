--------------------------- MODULE SignalScores ---------------------------
(***************************************************************************)
(* What the registry makes of the signals: contests and their winners, the *)
(* leaderboards and followers, votes, disputes and appeals about a         *)
(* provider's reputation, the reward windows, the scores, and the pages in *)
(* which histories and analytics are read while signals come and go.       *)
(***************************************************************************)
EXTENDS Integers, FiniteSets, Sequences

CONSTANTS
    Providers, Users,
    Windows, Metrics, MinSignals, Pools, Places, Delay, \* Places: the percentages of the winners
    Returns, Volumes,
    MinClosed, Capacity,        \* MIN_CLOSED_SIGNALS, INDEX_CAPACITY
    Stakes,                     \* amounts a provider may have staked
    Powers, VoteWindow, DisputeAt, AppealWindow, Delta, History, Points,
    Durations, Claims,
    PageSizes, MaxSignals,      \* pages read; signals ever created
    Rates, Averages, Shares, Ages, Feeds, \* samples of the scores' inputs, lengths of a feed
    MaxNow, MaxCalls

ScoresTyped ==
    /\ MaxSignals \in Nat /\ Capacity \in Nat \ {0} /\ Pools \subseteq Nat
    /\ \A i \in DOMAIN Places : Places[i] \in 0..100

VARIABLES
    now, calls,
    contests, owner, traded,              \* owner: of each signal; traded is history
    closed, copies, stakes, listed, board, follows, firstFollow, cohort, \* listed is history: the stake last put on the boards
    votes, opened, dispute, frozen, score, trail,
    window, claims, suspended, taken,     \* taken is history: every claim ever recorded
    kept, counter, cursor, read, tail, tally, lost  \* the last three pages' reading; tail and lost are history

contestVars == <<contests, owner, traded>>
boardVars == <<closed, copies, stakes, listed, board, follows, firstFollow, cohort>>
voteVars == <<votes, opened, dispute, frozen, score, trail>>
windowVars == <<window, claims, suspended, taken>>
pageVars == <<kept, counter, cursor, read, tail, tally, lost>>
vars == <<now, calls, contestVars, boardVars, voteVars, windowVars, pageVars>>

None == [absent |-> TRUE]
Least(a, b) == IF a < b THEN a ELSE b
Most(a, b) == IF a > b THEN a ELSE b
Quot(a, b) == IF a < 0 THEN -((-a) \div b) ELSE a \div b
SumOver(f, S) == LET R[T \in SUBSET S] == IF T = {} THEN 0 ELSE LET x == CHOOSE y \in T : TRUE IN f[x] + R[T \ {x}] IN R[S]

Init ==
    /\ now = 1 /\ calls = 0
    /\ contests = <<>> /\ owner = <<>> /\ traded = <<>>
    /\ closed = [p \in Providers |-> [good |-> 0, bad |-> 0, avg |-> 0]] /\ copies = [p \in Providers |-> 0]
    /\ stakes = [p \in Providers |-> 0] /\ listed = [p \in Providers |-> 0]
    /\ board = [m \in Metrics |-> <<>>] /\ follows = {} /\ firstFollow = [k \in {} |-> 0] /\ cohort = [k \in {} |-> 0]
    /\ votes = [v \in {} |-> None] /\ opened = 0 /\ dispute = None /\ frozen = FALSE /\ score = None /\ trail = <<>>
    /\ window = None /\ claims = [k \in {} |-> 0] /\ suspended = [p \in Providers |-> None] /\ taken = {}
    /\ kept = {} /\ counter = 0 /\ cursor = None /\ read = <<>> /\ tail = {} /\ tally = None /\ lost = FALSE

Tick == now < MaxNow /\ now' = now + 1 /\ UNCHANGED <<calls, contestVars, boardVars, voteVars, windowVars, pageVars>>
Call == calls < MaxCalls /\ calls' = calls + 1 /\ UNCHANGED now

-----------------------------------------------------------------------------
(* Contests. Every new signal enters every contest that is running; trades *)
(* on entered signals count while it runs; anyone finalizes it.            *)

create_contest(w, metric, min, pool) ==
    /\ w.start < w.end /\ w.end > now /\ pool >= 0
    /\ contests' = Append(contests, [start |-> w.start, end |-> w.end, metric |-> metric, min |-> min, pool |-> pool, after |-> now + Delay,
                                     open |-> TRUE, entries |-> [p \in {} |-> None], winners |-> <<>>, prize |-> <<>>])
    /\ UNCHANGED <<owner, traded>>
Running(c) == c.open /\ now >= c.start /\ now <= c.end
calculate_contest_score(e, metric) ==
    CASE metric = "roi" -> e.roi [] metric = "volume" -> e.volume [] OTHER -> 0
Scored(e, metric) == [e EXCEPT !.score = calculate_contest_score(e, metric)]
EntryOf(c, p) == IF p \in DOMAIN c.entries THEN c.entries[p] ELSE [signals |-> {}, roi |-> 0, volume |-> 0, score |-> 0]
WithEntry(c, p, e) == [c EXCEPT !.entries = [q \in DOMAIN c.entries \cup {p} |-> IF q = p THEN Scored(e, c.metric) ELSE c.entries[q]]]
auto_enter_signal(p) ==
    LET s == Len(owner) + 1 IN
    /\ owner' = Append(owner, p) /\ UNCHANGED traded
    /\ contests' = [i \in DOMAIN contests |->
          IF Running(contests[i])
          THEN LET e == EntryOf(contests[i], p) IN WithEntry(contests[i], p, [e EXCEPT !.signals = @ \cup {s}])
          ELSE contests[i]]
apply_trade_to_contest_entries(s, roi, volume) ==
    LET p == owner[s] IN
    /\ contests' = [i \in DOMAIN contests |->
          IF Running(contests[i]) /\ s \in EntryOf(contests[i], p).signals
          THEN LET e == EntryOf(contests[i], p) IN WithEntry(contests[i], p, [e EXCEPT !.roi = @ + roi, !.volume = @ + volume])
          ELSE contests[i]]
    /\ traded' = Append(traded, [s |-> s, at |-> now, roi |-> roi, volume |-> volume, in |-> {i \in DOMAIN contests : contests[i].open}])
    /\ UNCHANGED owner
(* Ties are broken by a nonce nobody can foresee: any order of equal scores. *)
should_swap(a, b) == a.score < b.score
Rankings(c, Q) == {o \in [1..Cardinality(Q) -> Q] :
    /\ \A i, j \in DOMAIN o : i < j => o[i] # o[j] /\ ~should_swap(c.entries[o[i]], c.entries[o[j]])}
Qualified(c) == {p \in DOMAIN c.entries : Cardinality(c.entries[p].signals) >= c.min}
distribute_prize_pool(c, n) == [i \in 1..n |-> (c.pool * Places[i]) \div 100]
finalize_contest(i) ==
    LET c == contests[i]
        Q == Qualified(c)
        n == Least(Cardinality(Q), Len(Places))
    IN /\ now >= c.end /\ c.open /\ now >= c.after
       /\ \E o \in Rankings(c, Q) :
             contests' = [contests EXCEPT ![i] = [c EXCEPT !.open = FALSE, !.winners = SubSeq(o, 1, n), !.prize = distribute_prize_pool(c, n)]]
       /\ UNCHANGED <<owner, traded>>

EntryCalls ==
    \/ Len(owner) < MaxSignals /\ \E p \in Providers : auto_enter_signal(p)
    \/ \E s \in DOMAIN owner, r \in Returns, v \in Volumes : apply_trade_to_contest_entries(s, r, v)

ContestNext ==
    /\ UNCHANGED <<boardVars, voteVars, windowVars, pageVars>>
    /\ \/ Call /\ \/ Len(contests) < 2 /\ \E w \in Windows, m \in Metrics, k \in MinSignals, pool \in Pools : create_contest(w, m, k, pool)
                  \/ EntryCalls
                  \/ \E i \in DOMAIN contests : finalize_contest(i)
       \/ Tick

-----------------------------------------------------------------------------
(* Leaderboards, kept sorted at every change of a provider's statistics,   *)
(* and followers. Providers are numbered in the order of their addresses;  *)
(* no profile is ever created, so all registered at the same time.         *)

Rate(p) == LET n == closed[p].good + closed[p].bad IN IF n = 0 THEN 0 ELSE (closed[p].good * 100) \div n
IndexEntry(cl, cp, st, p) ==
    LET n == cl[p].good + cl[p].bad IN
    [stake |-> st[p], who |-> p, closed |-> n, adopters |-> cp[p], rate |-> IF n = 0 THEN 0 ELSE (cl[p].good * 100) \div n, profit |-> cl[p].avg * n]
is_qualified(e) == e.closed >= MinClosed /\ e.adopters > 0
BoardValue(e, m) == CASE m = "rate" -> e.rate [] m = "adopters" -> e.adopters [] m = "stake" -> e.stake [] OTHER -> e.profit
Outranks(e, f, m) == BoardValue(e, m) > BoardValue(f, m) \/ (BoardValue(e, m) = BoardValue(f, m) /\ e.who < f.who)
upsert_sorted(ix, e, m) ==
    LET without == SelectSeq(ix, LAMBDA f : f.who # e.who)
        at == {i \in DOMAIN without : Outranks(e, without[i], m)}
        k == IF at = {} THEN Len(without) + 1 ELSE CHOOSE i \in at : \A j \in at : i <= j
        all == SubSeq(without, 1, k - 1) \o <<e>> \o SubSeq(without, k, Len(without))
    IN IF is_qualified(e) THEN SubSeq(all, 1, Least(Capacity, Len(all))) ELSE without
update_leaderboard_index(cl, cp, p) ==
    /\ board' = [m \in Metrics |-> upsert_sorted(board[m], IndexEntry(cl, cp, stakes, p), m)]
    /\ listed' = [listed EXCEPT ![p] = stakes[p]] /\ UNCHANGED stakes
(* A closed signal: the rolling average of update_provider_performance. *)
close_signal(p, good, roi) ==
    LET n == closed[p].good + closed[p].bad + 1
        cl == [closed EXCEPT ![p] = [good |-> @.good + (IF good THEN 1 ELSE 0), bad |-> @.bad + (IF good THEN 0 ELSE 1), avg |-> Quot(@.avg * (n - 1) + roi, n)]]
    IN closed' = cl /\ update_leaderboard_index(cl, copies, p) /\ UNCHANGED <<copies, follows, firstFollow, cohort>>
adopt(p) ==
    LET cp == [copies EXCEPT ![p] = @ + 1] IN
    copies' = cp /\ update_leaderboard_index(closed, cp, p) /\ UNCHANGED <<closed, follows, firstFollow, cohort>>
(* stake_tokens and unstake_tokens leave the boards alone. *)
SetStake(p, x) == x # stakes[p] /\ stakes' = [stakes EXCEPT ![p] = x] /\ UNCHANGED <<closed, copies, listed, board, follows, firstFollow, cohort>>
(* The week of a user's first follow is its cohort, whatever it does later. *)
week_slot(t) == t \div 2
record_follow(u, p) ==
    IF <<p, u>> \in DOMAIN firstFollow THEN UNCHANGED <<firstFollow, cohort>>
    ELSE /\ firstFollow' = [k \in DOMAIN firstFollow \cup {<<p, u>>} |-> IF k = <<p, u>> THEN week_slot(now) ELSE firstFollow[k]]
         /\ LET slot == <<p, week_slot(now)>> IN
            cohort' = [k \in DOMAIN cohort \cup {slot} |-> IF k # slot THEN cohort[k] ELSE IF slot \in DOMAIN cohort THEN cohort[slot] + 1 ELSE 1]
follow_provider(u, p) ==
    /\ <<u, p>> \notin follows /\ follows' = follows \cup {<<u, p>>} /\ record_follow(u, p)
    /\ update_leaderboard_index(closed, copies, p) /\ UNCHANGED <<closed, copies>>
unfollow_provider(u, p) ==
    /\ <<u, p>> \in follows /\ follows' = follows \ {<<u, p>>}
    /\ update_leaderboard_index(closed, copies, p) /\ UNCHANGED <<closed, copies, firstFollow, cohort>>
FollowCalls == \E u \in Users, p \in Providers : follow_provider(u, p) \/ unfollow_provider(u, p)

BoardNext ==
    /\ UNCHANGED <<contestVars, voteVars, windowVars, pageVars>>
    /\ \/ Call /\ \/ \E p \in Providers : adopt(p) \/ (\E g \in BOOLEAN, r \in Returns : close_signal(p, g, r)) \/ \E x \in Stakes : SetStake(p, x)
                  \/ FollowCalls
       \/ Tick

-----------------------------------------------------------------------------
(* Votes about one provider. A vote arriving after the window counts the   *)
(* votes before it; a dispute opened by the count freezes the score.       *)

Score == IF score = None THEN 50 ELSE score.at
append_history(x) == trail' = IF Len(trail) < History THEN Append(trail, x) ELSE Append(Tail(trail), x)
PowerOf(vs, S) == SumOver([v \in S |-> vs[v].power], S)
open_dispute == IF dispute # None /\ dispute.st = "Open" THEN UNCHANGED <<dispute, frozen>>
                ELSE dispute' = [st |-> "Open", appeal |-> "None", at |-> 0] /\ frozen' = TRUE
check_dispute_threshold(down, total) ==
    IF total # 0 /\ (down * 10000) \div total >= DisputeAt THEN open_dispute ELSE UNCHANGED <<dispute, frozen>>
tally_and_adjust(vs) ==
    LET down == PowerOf(vs, {v \in DOMAIN vs : vs[v].down})
        total == PowerOf(vs, DOMAIN vs)
        new == IF total - down >= down THEN Least(Score + Delta, 100) ELSE Most(Score - Delta, 0)
    IN IF DOMAIN vs = {} \/ frozen THEN UNCHANGED <<score, trail, dispute, frozen>>
       ELSE score' = [at |-> new] /\ append_history(new) /\ check_dispute_threshold(down, total)
cast_vote(u, down, power) ==
    LET start == IF opened = 0 THEN now ELSE opened
        over == now >= start + VoteWindow
        before == IF over THEN [v \in {} |-> None] ELSE votes
    IN /\ IF over THEN tally_and_adjust(votes) ELSE UNCHANGED <<score, trail, dispute, frozen>>
       /\ opened' = IF over THEN now ELSE start
       /\ votes' = [v \in DOMAIN before \cup {u} |-> IF v = u THEN [down |-> down, power |-> power] ELSE before[v]]
apply_recovery == LET new == Least((IF score = None THEN 0 ELSE score.at) + Delta, 100) IN score' = [at |-> new] /\ append_history(new)
Resolved(d, restore) ==
    /\ dispute' = IF d = None THEN [st |-> "Resolved", appeal |-> "None", at |-> 0]
                  ELSE [d EXCEPT !.st = "Resolved", !.appeal = IF @ = "Pending" THEN "None" ELSE @]
    /\ frozen' = FALSE /\ IF restore THEN apply_recovery ELSE UNCHANGED <<score, trail>>
resolve_dispute(restore) == Resolved(dispute, restore) /\ UNCHANGED <<votes, opened>>
submit_appeal ==
    /\ dispute # None => dispute.st = "Open" /\ dispute.appeal = "None"
    /\ dispute # None /\ dispute' = [dispute EXCEPT !.appeal = "Pending", !.at = now] /\ UNCHANGED <<votes, opened, frozen, score, trail>>
AppealPending == IF dispute = None THEN FALSE ELSE dispute.appeal = "Pending"
resolve_appeal(approve) ==
    /\ AppealPending
    /\ IF approve THEN Resolved([dispute EXCEPT !.appeal = "Approved"], TRUE)
       ELSE dispute' = [dispute EXCEPT !.appeal = "Rejected"] /\ UNCHANGED <<frozen, score, trail>>
    /\ UNCHANGED <<votes, opened>>
process_appeal_timeout ==
    /\ AppealPending /\ now >= dispute.at + AppealWindow
    /\ dispute' = [dispute EXCEPT !.appeal = "Rejected"] /\ UNCHANGED <<votes, opened, frozen, score, trail>>
next_reputation_score(x, pts) == (x * 9 + pts) \div 10
(* The outcome of a signal moves the same score, frozen or not. *)
record_outcome(pts) == score' = [at |-> next_reputation_score(Score, pts)] /\ UNCHANGED <<votes, opened, dispute, frozen, trail>>
DisputeCalls ==
    submit_appeal \/ process_appeal_timeout \/ \E r \in BOOLEAN : resolve_dispute(r) \/ resolve_appeal(r)

VoteNext ==
    /\ UNCHANGED <<contestVars, boardVars, windowVars, pageVars>>
    /\ \/ Call /\ \/ \E u \in Users, d \in BOOLEAN, w \in Powers : cast_vote(u, d, w)
                  \/ DisputeCalls
                  \/ \E k \in Points : record_outcome(k)
       \/ Tick

-----------------------------------------------------------------------------
(* Reward windows: a new one replaces the last, open or not.               *)

open_reward_window(d, pool) ==
    /\ window' = [epoch |-> IF window = None THEN 1 ELSE window.epoch + 1, close |-> now + d, pool |-> pool]
    /\ UNCHANGED <<claims, suspended, taken>>
check_claim_eligibility(p) ==
    IF window = None THEN FALSE
    ELSE /\ now <= window.close /\ <<p, window.epoch>> \notin DOMAIN claims
         /\ suspended[p] # None => window.epoch < suspended[p].epoch
record_claim(p, amt) ==
    /\ amt > 0 /\ check_claim_eligibility(p)
    /\ claims' = [k \in DOMAIN claims \cup {<<p, window.epoch>>} |-> IF k = <<p, window.epoch>> THEN amt ELSE claims[k]]
    /\ taken' = taken \cup {<<p, window.epoch>>} /\ UNCHANGED <<window, suspended>>
suspend_provider(p, e) == suspended' = [suspended EXCEPT ![p] = [epoch |-> e]] /\ UNCHANGED <<window, claims, taken>>
reinstate_provider(p) == suspended' = [suspended EXCEPT ![p] = None] /\ UNCHANGED <<window, claims, taken>>
forfeit_claim(k) ==
    /\ k \in DOMAIN claims /\ claims' = [j \in DOMAIN claims \ {k} |-> claims[j]]
    /\ UNCHANGED <<window, suspended, taken>>
RecordCalls ==
    \/ \E d \in Durations, pool \in Pools : open_reward_window(d, pool)
    \/ \E p \in Providers, a \in Claims : record_claim(p, a)
StandingCalls ==
    \E p \in Providers : reinstate_provider(p) \/ \E e \in 1..3 : suspend_provider(p, e) \/ forfeit_claim(<<p, e>>)

WindowNext ==
    /\ UNCHANGED <<contestVars, boardVars, voteVars, pageVars>>
    /\ \/ Call /\ (RecordCalls \/ StandingCalls)
       \/ Tick

-----------------------------------------------------------------------------
(* Pages. A reader walks a provider's history from the newest signal down, *)
(* and the day's analytics from the oldest up, each with a cursor of its   *)
(* own, while signals are added and pruned.                                *)

Highest(S, n) == {s \in S : Cardinality({t \in S : t > s}) < n}
Lowest(S, n) == {s \in S : Cardinality({t \in S : t < s}) < n}
LeastOf(S) == CHOOSE s \in S : \A t \in S : s <= t
MostOf(S) == CHOOSE s \in S : \A t \in S : t <= s
Descending(S) == LET n == Cardinality(S) IN [i \in 1..n |-> CHOOSE s \in S : Cardinality({t \in S : t > s}) = i - 1]
get_provider_signal_history(n) ==
    /\ cursor # None => cursor.more
    /\ LET below == IF cursor = None THEN kept ELSE {s \in kept : s < cursor.at}
           page == Highest(below, n)
           more == below # page /\ page # {}
       IN /\ read' = (IF cursor = None THEN <<>> ELSE read) \o Descending(page)
          /\ tail' = IF cursor = None THEN kept ELSE tail
          /\ cursor' = [at |-> IF page = {} THEN 0 ELSE LeastOf(page), more |-> more]
    /\ UNCHANGED <<kept, counter, tally, lost>>
(* A cursor whose signal has been pruned is not found: the walk restarts. *)
calculate_global_analytics_paginated(n) ==
    /\ tally # None => tally.more
    /\ LET rest == IF tally = None THEN kept ELSE IF tally.at \in kept THEN {s \in kept : s > tally.at} ELSE kept
           page == Lowest(rest, n)
       IN /\ tally' = [at |-> IF page = {} THEN 0 ELSE MostOf(page), more |-> rest # page,
                       count |-> [s \in 1..MaxSignals |-> (IF tally = None THEN 0 ELSE tally.count[s]) + (IF s \in page THEN 1 ELSE 0)]]
          /\ lost' = IF tally = None THEN FALSE ELSE (lost \/ tally.at \notin kept)
    /\ UNCHANGED <<kept, counter, cursor, read, tail>>
PageNext ==
    /\ UNCHANGED <<contestVars, boardVars, voteVars, windowVars>>
    /\ \/ Call /\ \/ counter < MaxSignals /\ counter' = counter + 1 /\ kept' = kept \cup {counter + 1} /\ UNCHANGED <<cursor, read, tail, tally, lost>>
                  \/ \E s \in kept : kept' = kept \ {s} /\ tail' = tail \ {s} /\ UNCHANGED <<counter, cursor, read, tally, lost>>
                  \/ \E n \in PageSizes : get_provider_signal_history(n) \/ calculate_global_analytics_paginated(n)
       \/ Tick

-----------------------------------------------------------------------------
(* Scores, as functions of what they are computed from.                    *)

calculate_consistency_component(rate, avg) ==
    LET clamped == Most(-10000, Least(10000, avg))
        back == ((clamped + 10000) * 10000) \div 20000
    IN Least((Least(rate, 10000) * 60 + back * 40) \div 100, 10000)
calculate_stake_component(stake, median) ==
    IF stake <= 0 THEN 0 ELSE IF median <= 0 THEN 5000
    ELSE Least(IF stake > median * 2 THEN 20000 ELSE (stake * 10000) \div median, 10000)
calculate_tenure_component(days) == IF days >= 365 THEN 10000 ELSE (days * 10000) \div 365
calculate_weighted_score(rate, cons, stake, foll, tenure) ==
    Least((rate * 4000 + cons * 2000 + stake * 1500 + foll * 1500 + tenure * 1000) \div 1000000, 100)
TrustScore(rate, avg, stake, foll, days) ==
    calculate_weighted_score(rate, calculate_consistency_component(rate, avg), calculate_stake_component(stake, 2),
                             IF foll > 6 THEN 10000 ELSE Least((foll * 10000) \div 2, 10000), calculate_tenure_component(days))
TierScore(stake) == IF stake >= 10 THEN 100 ELSE IF stake >= 5 THEN 66 ELSE IF stake >= 1 THEN 33 ELSE 0
normalize_adoption(n) == IF n >= 100 THEN 100 ELSE n
calculate_quality_score(wins, execs, copied, stake, ai) ==
    LET rate == IF execs = 0 THEN 0 ELSE (wins * 100) \div execs
        base == normalize_adoption(copied) * 2000 + TierScore(stake) * 2000
    IN Least(IF ai = None THEN (rate * 6000 + base) \div 10000 ELSE (rate * 4000 + base + ai.at * 2000) \div 10000, 100)
DeclineScore(new, old) == IF old = 0 \/ new >= old THEN 0 ELSE ((old - new) * 100) \div old
freq_decline_score(recent, prior) == IF prior = 0 THEN (IF recent = 0 THEN 50 ELSE 0) ELSE DeclineScore(recent, prior)
ChurnRisk(recent, prior, foll, before, rate, overall) ==
    (freq_decline_score(recent, prior) * 40 + DeclineScore(foll, before) * 30 + DeclineScore(rate, overall) * 30) \div 100
(* The feed: a bottom-up merge sort by descending weight. *)
Merge(a, b) ==
    LET M[i \in 0..Len(a), j \in 0..Len(b)] ==
            IF i = Len(a) THEN SubSeq(b, j + 1, Len(b))
            ELSE IF j = Len(b) THEN SubSeq(a, i + 1, Len(a))
            ELSE IF ~(a[i + 1].w < b[j + 1].w) THEN <<a[i + 1]>> \o M[i + 1, j] ELSE <<b[j + 1]>> \o M[i, j + 1]
    IN M[0, 0]
sort_feed_mergesort(v) ==
    LET n == Len(v)
        Pass(u, w) == LET P[st \in 0..n] ==
                              IF st >= n THEN <<>>
                              ELSE LET m == Least(st + w, n)
                                       e == Least(st + 2 * w, n)
                                   IN Merge(SubSeq(u, st + 1, m), SubSeq(u, m + 1, e)) \o P[e]
                      IN P[0]
        once == Pass(v, 1)
        twice == Pass(once, 2)
    IN IF n <= 1 THEN v ELSE IF n <= 2 THEN once ELSE twice

-----------------------------------------------------------------------------

(* Contests are won by their own numbers: an entry's return is that of the *)
(* trades made on its signals while the contest was open and running, the  *)
(* winners are qualified, ranked, and beaten by nobody qualified they left *)
(* behind, and the prizes never exceed the pool.                           *)
ContestsFair ==
    \A i \in DOMAIN contests :
        LET c == contests[i]
            won == {c.winners[k] : k \in DOMAIN c.winners}
        IN /\ \A p \in DOMAIN c.entries :
                 LET mine == {t \in DOMAIN traded : traded[t].s \in c.entries[p].signals /\ i \in traded[t].in
                                                    /\ traded[t].at >= c.start /\ traded[t].at <= c.end}
                 IN c.entries[p].roi = SumOver([t \in mine |-> traded[t].roi], mine) /\ \A s \in c.entries[p].signals : owner[s] = p
           /\ ~c.open => /\ \A p \in won : Cardinality(c.entries[p].signals) >= c.min
                         /\ \A j, k \in DOMAIN c.winners : j < k => c.entries[c.winners[j]].score >= c.entries[c.winners[k]].score
                         /\ \A p \in Qualified(c) \ won, q \in won : c.entries[p].score <= c.entries[q].score
                         /\ SumOver(c.prize, DOMAIN c.prize) <= c.pool

(* A finalized contest is final, and a running one changes for those who   *)
(* enter it or trade in it only.                                           *)
ContestsFinal ==
    \A i \in DOMAIN contests :
        /\ ~contests[i].open => contests'[i] = contests[i]
        /\ contests[i].open /\ contests'[i].entries # contests[i].entries => now >= contests[i].start /\ now <= contests[i].end

(* The boards list every provider once, ranked, with its latest figures,   *)
(* except for the stake, which is the one of its last update on all of     *)
(* them, and leave a qualified one out only when they are full; a follower *)
(* is in one cohort, the one of its first follow.                          *)
BoardsCurrent ==
    /\ \A m \in Metrics :
          /\ \A i, j \in DOMAIN board[m] : i < j => Outranks(board[m][i], board[m][j], m)
          /\ \A i \in DOMAIN board[m] : is_qualified(board[m][i]) /\ board[m][i] = IndexEntry(closed, copies, listed, board[m][i].who)
          /\ Len(board[m]) < Capacity => \A p \in Providers :
                is_qualified(IndexEntry(closed, copies, listed, p)) => \E i \in DOMAIN board[m] : board[m][i].who = p
    /\ SumOver(cohort, DOMAIN cohort) = Cardinality(DOMAIN firstFollow)
    /\ \A f \in follows : <<f[2], f[1]>> \in DOMAIN firstFollow

(* A score is a percentage, it is frozen exactly while a dispute is open,  *)
(* and an appeal is pending or has been turned down in an open dispute     *)
(* only, unless the dispute was settled after the refusal.                 *)
DisputesSound ==
    /\ Score \in 0..100 /\ Len(trail) <= History
    /\ frozen = (dispute # None /\ dispute.st = "Open")
    /\ dispute # None => /\ dispute.appeal = "Pending" => dispute.st = "Open"
                         /\ dispute.appeal = "Approved" => dispute.st = "Resolved"

(* While a score is frozen votes leave it alone, and a refused appeal is   *)
(* not heard again in the same dispute.                                    *)
DisputesByRule ==
    /\ frozen /\ frozen' => trail' = trail
    /\ dispute # None /\ dispute.appeal \in {"Rejected", "Approved"} /\ dispute' # dispute =>
          dispute'.appeal = dispute.appeal \/ (dispute.st = "Resolved" /\ dispute'.st = "Open")

(* Epochs only go up; a claim is made in the window's own epoch, by a      *)
(* provider that is not suspended for it, and a second time only after it  *)
(* was forfeited.                                                          *)
ClaimsByRule ==
    /\ window # None => window'.epoch >= window.epoch
    /\ \A k \in DOMAIN claims' \ DOMAIN claims :
          /\ k[2] = window.epoch /\ now <= window.close
          /\ suspended[k[1]] # None => k[2] < suspended[k[1]].epoch
    /\ \A k \in DOMAIN claims \cap DOMAIN claims' : claims'[k] = claims[k]

(* A history read to its end, page by page, shows every signal that was    *)
(* there from the first page to the last, none twice, newest first; the    *)
(* analytics count none twice unless the signal at the cursor was pruned.  *)
PagesComplete ==
    /\ \A i, j \in DOMAIN read : i < j => read[i] > read[j]
    /\ cursor # None => (cursor.more \/ tail \subseteq {read[i] : i \in DOMAIN read})
    /\ tally # None /\ ~lost => \A s \in 1..MaxSignals : tally.count[s] <= 1

(* The scores keep their ranges, reach both ends of them, never fall when  *)
(* the provider does better, and the feed is sorted, equal weights in the  *)
(* order they had.                                                         *)
ScoresMonotone ==
    calls = 0 =>
        /\ \A r, q \in Rates, a \in Averages, s, f \in Shares, d, e \in Ages :
              /\ TrustScore(r, a, s, f, d) \in 0..100
              /\ r <= q /\ d <= e => TrustScore(r, a, s, f, d) <= TrustScore(q, a, s, f, e)
        /\ \A n \in Shares, c \in {0, 50, 100, 200}, s \in {0, 1, 5, 10} : \A w \in 0..n :
              /\ calculate_quality_score(w, n, c, s, None) \in 0..100
              /\ \A i \in {0, 100} : calculate_quality_score(w, n, c, s, [at |-> i]) \in 0..100
        /\ \A a, b, c, d \in Shares : /\ ChurnRisk(a, b, c, d, a, d) \in 0..100
                                      /\ a <= b => ChurnRisk(a, b, c, d, a, d) >= ChurnRisk(b, b, c, d, b, d)
        /\ \A n \in Feeds : \A f \in [1..n -> 0..2] :
              LET v == [i \in 1..n |-> [w |-> f[i], id |-> i]]
                  u == sort_feed_mergesort(v)
              IN /\ Len(u) = n /\ {u[i] : i \in 1..n} = {v[i] : i \in 1..n}
                 /\ \A i \in 1..(n - 1) : u[i].w > u[i + 1].w \/ (u[i].w = u[i + 1].w /\ u[i].id < u[i + 1].id)
=============================================================================
