------------------------------ MODULE Conviction ------------------------------
(***************************************************************************)
(* governance: conviction voting (conviction_voting.rs) in one funding     *)
(* pool.  Tokens committed to a proposal earn conviction with the days     *)
(* they stay; a proposal whose conviction reaches its threshold is funded. *)
(* Time is in days; the fixed-point scale of the decay is 1000.            *)
(***************************************************************************)
EXTENDS Integers, Sequences, FiniteSets, FiniteSetsExt, SequencesExt, TLC

CONSTANTS Voters, Tokens,          \* what a voter may commit
          Requested,               \* what a proposal may ask for
          Funding, RefillRate, RefillPeriod,          \* of the pool
          PenaltyDays, PenaltyMultiplier, BonusPct, Cap, DecayRates,
          MaxProposals, MaxTime, MaxGrants, MaxListed, SwitchFloor      \* bounds

ConvictionTyped ==
    /\ {PenaltyDays, BonusPct, Cap, MaxProposals, MaxTime, MaxGrants, MaxListed, SwitchFloor, Funding, RefillRate}
           \cup Tokens \cup Requested \subseteq Nat
    /\ {RefillPeriod, PenaltyMultiplier} \subseteq Nat \ {0}
    /\ DecayRates \subseteq 1..999

VARIABLES
    now, decay,       \* the day; decay_rate_bps of the calibration
    pool,             \* funding_amount and last_refill
    proposals,        \* by id
    refilled, grants, \* history: what refills added, the grants paid
    since             \* history: when a voter last put in more tokens

vars == <<now, decay, pool, proposals, refilled, grants, since>>

Scale == 1000
NoVote == [absent |-> TRUE]
ConvictionVote == [tokens : Nat, started : Nat, conviction : Nat]
ConvictionProposal ==
    [requested : Requested, threshold : Nat, accumulated : Int,
     status : {"Active", "Funded"}, votes : [Voters -> ConvictionVote \cup {NoVote}],
     voters : Seq(Voters)]
TypeOK ==
    /\ now \in 0..MaxTime /\ decay \in DecayRates
    /\ pool \in [funding : Nat, last_refill : Nat]
    /\ proposals \in Seq(ConvictionProposal)

isqrt(n) == CHOOSE r \in 0..n : r * r <= n /\ (r + 1) * (r + 1) > n
(* Binary exponentiation, rescaled after every multiplication. *)
pow_fixed_point(base, exponent) ==
    FoldLeft(LAMBDA x, bit :
                [r |-> IF (exponent \div bit) % 2 = 1 THEN (x.r * x.b) \div Scale ELSE x.r,
                 b |-> (x.b * x.b) \div Scale],
             [r |-> Scale, b |-> base], <<1, 2, 4>>).r
calculate_conviction(tokens, days) ==
    IF days = 0 THEN 0
    ELSE LET base == (tokens * isqrt(days)) \div 1000
             decayed == (base * pow_fixed_point(Scale - decay, days)) \div Scale
             penalised == IF days < PenaltyDays /\ PenaltyMultiplier > 1
                          THEN decayed - decayed \div PenaltyMultiplier ELSE decayed
             rewarded == IF days >= PenaltyDays
                         THEN penalised + (penalised * BonusPct) \div 100 ELSE penalised
         IN IF Cap > 0 /\ rewarded > Cap THEN Cap ELSE rewarded
(* pool.total_conviction is never updated: 1000 stands in for it. *)
calculate_conviction_threshold(requested, total) ==
    LET ratio == (requested * 10000) \div total
    IN Max({1000, (((ratio * ratio) \div 10000) * 200) \div 1000})

Init ==
    /\ now = 0 /\ decay \in DecayRates
    /\ pool = [funding |-> Funding, last_refill |-> 0]
    /\ proposals = <<>> /\ refilled = 0 /\ grants = <<>> /\ since = <<>>

Tick == now < MaxTime /\ now' = now + 1
        /\ UNCHANGED <<decay, pool, proposals, refilled, grants, since>>
set_conviction_decay_rate(r) ==
    decay' = r /\ UNCHANGED <<now, pool, proposals, refilled, grants, since>>

create_conviction_proposal(requested) ==
    /\ Len(proposals) < MaxProposals
    /\ requested <= pool.funding
    /\ proposals' = Append(proposals,
          [requested |-> requested, accumulated |-> 0, status |-> "Active",
           threshold |-> calculate_conviction_threshold(requested, pool.funding),
           votes |-> [v \in Voters |-> NoVote], voters |-> <<>>])
    /\ since' = Append(since, [v \in Voters |-> 0])
    /\ UNCHANGED <<now, decay, pool, refilled, grants>>

update_vote_conviction(vote) ==
    [vote EXCEPT !.conviction = calculate_conviction(vote.tokens, now - vote.started)]
(* More tokens start over; fewer keep their share of the conviction, in   *)
(* tenths here (PRECISION is 10000).                                       *)
UpdateInPlace(vote, tokens) ==
    LET v == update_vote_conviction(vote)
    IN IF tokens = vote.tokens THEN vote ELSE [v EXCEPT !.tokens = tokens]
update_conviction_vote(vote, tokens) ==
    LET v == update_vote_conviction(vote)
    IN CASE tokens > vote.tokens -> [tokens |-> tokens, started |-> now, conviction |-> 0]
         [] tokens < vote.tokens ->
              [v EXCEPT !.tokens = tokens,
                        !.conviction = (@ * ((tokens * 10) \div vote.tokens)) \div 10]
         [] OTHER -> vote
vote_conviction(p, voter, tokens) ==
    LET q == proposals[p]
        old == q.votes[voter]
    IN /\ q.status = "Active"
       /\ old = NoVote => Len(q.voters) < MaxListed
       /\ proposals' = [proposals EXCEPT ![p] =
             IF old # NoVote THEN [q EXCEPT !.votes[voter] = update_conviction_vote(old, tokens)]
             ELSE [q EXCEPT !.votes[voter] = [tokens |-> tokens, started |-> now, conviction |-> 0],
                            !.voters = Append(@, voter)]]
       /\ since' = IF old = NoVote THEN [since EXCEPT ![p][voter] = now]
                   ELSE IF tokens > old.tokens THEN [since EXCEPT ![p][voter] = now] ELSE since
       /\ UNCHANGED <<now, decay, pool, refilled, grants>>

(* What funding the proposal q makes of it: paid again if it is called     *)
(* again, for the status is not looked at.                                 *)
execute_conviction_funding_internal(p, q) ==
    /\ q.accumulated >= q.threshold
    /\ pool.funding >= q.requested
    /\ Len(grants) < MaxGrants
    /\ pool' = [pool EXCEPT !.funding = @ - q.requested]
    /\ proposals' = [proposals EXCEPT ![p] = [q EXCEPT !.status = "Funded"]]
    /\ grants' = Append(grants, [proposal |-> p, amount |-> q.requested])
    /\ UNCHANGED <<now, decay, refilled, since>>
execute_conviction_funding(p) == execute_conviction_funding_internal(p, proposals[p])
(* Every vote is brought up to date, once for each time its voter is       *)
(* listed; a proposal that gets there and cannot be paid fails the call.   *)
update_proposal_conviction(p) ==
    LET votes == [v \in Voters |-> IF proposals[p].votes[v] = NoVote THEN NoVote
                                   ELSE update_vote_conviction(proposals[p].votes[v])]
        total == FoldLeft(LAMBDA sum, v : sum + (IF votes[v] = NoVote THEN 0 ELSE votes[v].conviction),
                          0, proposals[p].voters)
        q == [proposals[p] EXCEPT !.votes = votes, !.accumulated = total]
    IN IF total >= q.threshold /\ q.status = "Active"
       THEN execute_conviction_funding_internal(p, q)
       ELSE /\ proposals' = [proposals EXCEPT ![p] = q]
            /\ UNCHANGED <<now, decay, pool, refilled, grants, since>>

apply_vote_switch_decay(tokens) == tokens - tokens \div 10
change_conviction_vote(from, to, voter) ==
    LET vote == proposals[from].votes[voter]
        left == [proposals EXCEPT ![from].votes[voter] = NoVote,
                                  ![from].accumulated = @ - vote.conviction]
        target == proposals[to]
    IN /\ vote # NoVote
       /\ vote.tokens >= SwitchFloor
       /\ proposals' = [left EXCEPT ![to] =
             [target EXCEPT
                !.votes[voter] = [tokens |-> apply_vote_switch_decay(vote.tokens),
                                  started |-> now, conviction |-> 0],
                !.voters = IF Contains(@, voter) THEN @ ELSE Append(@, voter)]]
       /\ since' = [since EXCEPT ![to][voter] = now]
       /\ UNCHANGED <<now, decay, pool, refilled, grants>>
withdraw_conviction_vote(p, voter) ==
    LET vote == proposals[p].votes[voter]
    IN /\ vote # NoVote
       /\ proposals' = [proposals EXCEPT ![p].votes[voter] = NoVote,
                                         ![p].accumulated = @ - vote.conviction]
       /\ UNCHANGED <<now, decay, pool, refilled, grants, since>>

RefillKeepsClock ==
    LET refills == (now - pool.last_refill) \div RefillPeriod
    IN /\ refills > 0
       /\ pool' = [pool EXCEPT !.funding = @ + RefillRate * refills]
       /\ refilled' = refilled + RefillRate * refills
       /\ UNCHANGED <<now, decay, proposals, grants, since>>
refill_conviction_pool ==
    LET refills == (now - pool.last_refill) \div RefillPeriod
    IN /\ refills > 0
       /\ pool' = [funding |-> pool.funding + RefillRate * refills, last_refill |-> now]
       /\ refilled' = refilled + RefillRate * refills
       /\ UNCHANGED <<now, decay, proposals, grants, since>>

VoteCalls ==
    \E p \in DOMAIN proposals : \/ update_proposal_conviction(p) \/ execute_conviction_funding(p)
                               \/ \E v \in Voters, t \in Tokens : vote_conviction(p, v, t)
SwitchCalls ==
    \/ \E p \in DOMAIN proposals, v \in Voters : withdraw_conviction_vote(p, v) \/ \E q \in DOMAIN proposals : change_conviction_vote(p, q, v)
    \/ refill_conviction_pool

Calls ==
    \/ \E r \in Requested : create_conviction_proposal(r)
    \/ VoteCalls \/ SwitchCalls
Next == Tick \/ Calls \/ \E r \in DecayRates : set_conviction_decay_rate(r)

Spec == Init /\ [][Next]_vars

-----------------------------------------------------------------------------
(* Every token the pool pays out was in it: what is left is what it began  *)
(* with and was refilled less the grants, and the refills are no more than *)
(* the rate allows for the time that has passed, however they are timed.   *)
PoolBacked ==
    /\ pool.funding >= 0
    /\ pool.funding = Funding + refilled
                      - MapThenSumSet(LAMBDA g : grants[g].amount, DOMAIN grants)
    /\ refilled <= RefillRate * (now \div RefillPeriod)

(* No vote has more conviction than its tokens could have earned since the *)
(* day they were put in: adding tokens late, switching or cutting down a   *)
(* vote buys no conviction for days the tokens were not there.             *)
NoRetroactiveConviction ==
    \A p \in DOMAIN proposals, v \in Voters :
      LET vote == proposals[p].votes[v]
          days == now - since[p][v]
      IN vote # NoVote =>
           vote.conviction * 100 <= ((vote.tokens * isqrt(days)) \div 1000) * (100 + BonusPct)

=============================================================================
