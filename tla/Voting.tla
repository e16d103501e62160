------------------------------ MODULE Voting ------------------------------
(***************************************************************************)
(* governance: where voting power comes from.  Holders stake and unstake   *)
(* (token.rs), delegate with or without an expiry ledger (proposals.rs,    *)
(* delegation_expiry.rs); creating a proposal snapshots everybody's        *)
(* effective power and votes are counted with it: plainly or by the square *)
(* root (proposals.rs), or through the other entry point, which multiplies *)
(* it by the voter's reputation instead (reputation.rs).  A deposit        *)
(* forfeited to the treasury address, here the last holder, is the way     *)
(* tokens move from one holder to another.                                 *)
(***************************************************************************)
EXTENDS Integers, FiniteSets, FiniteSetsExt, TLC

CONSTANTS N,              \* addresses
          Wealth,         \* tokens each of the first N - 1 holds at first
          Multipliers,    \* 10000 plus half of a reputation score
          MaxSeq,         \* bound on the ledger sequence
          MaxProposals    \* bound on proposals

VotingTyped == {N, Wealth, MaxSeq, MaxProposals} \subseteq Nat /\ N > 1
               /\ Multipliers \subseteq 10000..15000

VARIABLES seq, balance, staked,
          holders,       \* addresses track_holder has seen
          delegation,    \* DelegationState.delegations
          expiry,        \* DelegationExpiryKey::Expiry, 0 when there is none
          snap,          \* vote snapshots, one per proposal
          poll,          \* the proposal: tally, voters with their multiplier, how it counts
          claims         \* history: what each holder could claim at creation

vars == <<seq, balance, staked, holders, delegation, expiry, snap, poll, claims>>
money == <<balance, staked, holders>>
delegations == <<delegation, expiry>>
ballot == <<snap, poll, claims>>

Users == 1..N
Treasury == N
Ids == 1..MaxProposals
VoteDelegation == [delegate : Users, power : Nat]     \* with active = true
NoDelegation == [delegate |-> 0, power |-> 0]         \* none, or an inactive one
Total(f, S) == MapThenSumSet(LAMBDA u : f[u], S)
isqrt(n) == CHOOSE r \in 0..n : r * r <= n /\ (r + 1) * (r + 1) > n

TypeOK ==
    /\ balance \in [Users -> Nat] /\ staked \in [Users -> Nat]
    /\ holders \subseteq Users
    /\ delegation \in [Users -> VoteDelegation \cup {NoDelegation}]
    /\ expiry \in [Users -> Nat]

Init ==
    /\ seq = 0
    /\ balance = [u \in Users |-> IF u = Treasury THEN 0 ELSE Wealth]
    /\ staked = [u \in Users |-> 0]
    /\ holders = Users \ {Treasury}
    /\ delegation = [u \in Users |-> NoDelegation]
    /\ expiry = [u \in Users |-> 0]
    /\ snap = [p \in Ids |-> <<>>] /\ claims = [p \in Ids |-> 0]
    /\ poll = [p \in Ids |-> [made |-> FALSE]]

NewLedger == seq < MaxSeq /\ seq' = seq + 1 /\ UNCHANGED <<money, delegations, ballot>>

-----------------------------------------------------------------------------
stake(u, amount) ==
    /\ balance[u] >= amount
    /\ balance' = [balance EXCEPT ![u] = @ - amount]
    /\ staked' = [staked EXCEPT ![u] = @ + amount]
    /\ UNCHANGED <<seq, holders, delegations, ballot>>
(* Unless the admin has set a vote lock on u: a veto that may be there or *)
(* not at any time, so no state of its own.                               *)
unstake(u, amount) ==
    /\ staked[u] >= amount
    /\ staked' = [staked EXCEPT ![u] = @ - amount]
    /\ balance' = [balance EXCEPT ![u] = @ + amount]
    /\ UNCHANGED <<seq, holders, delegations, ballot>>
(* settle_proposal_deposit against the proposer. *)
Forfeit(u, amount) ==
    /\ u # Treasury /\ balance[u] >= amount
    /\ balance' = [balance EXCEPT ![u] = @ - amount, ![Treasury] = @ + amount]
    /\ holders' = holders \cup {Treasury}
    /\ UNCHANGED <<seq, staked, delegations, ballot>>

is_expired(u) == expiry[u] # 0 /\ seq >= expiry[u]
is_live(u) == delegation[u] # NoDelegation /\ ~is_expired(u)

delegate_voting_power(u, d, e) ==
    /\ u # d
    /\ ~is_live(u)
    /\ staked[u] > 0
    /\ delegation' = [delegation EXCEPT ![u] =
                        [delegate |-> d, power |-> staked[u]]]
    /\ expiry' = [expiry EXCEPT ![u] = e]
    /\ UNCHANGED <<seq, money, ballot>>
delegate_until(u, d, e) == e > seq /\ delegate_voting_power(u, d, e)
renew(u, e) ==
    /\ is_live(u)
    /\ e > seq
    /\ expiry' = [expiry EXCEPT ![u] = e]
    /\ UNCHANGED <<seq, money, delegation, ballot>>
undelegate_voting_power(u) ==
    /\ delegation[u] # NoDelegation
    /\ delegation' = [delegation EXCEPT ![u] = NoDelegation]
    /\ expiry' = [expiry EXCEPT ![u] = 0]
    /\ UNCHANGED <<seq, money, ballot>>
cleanup_expired ==
    /\ \E u \in Users : is_expired(u)
    /\ delegation' = [u \in Users |-> IF is_expired(u) THEN NoDelegation ELSE delegation[u]]
    /\ expiry' = [u \in Users |-> IF is_expired(u) THEN 0 ELSE expiry[u]]
    /\ UNCHANGED <<seq, money, ballot>>

(* A delegator's own stake does not count while the delegation is live;    *)
(* the delegate counts the amount fixed when it was made.                  *)
OwnAlwaysCounts(u) ==
    staked[u] + Total([d \in Users |-> delegation[d].power],
                      {d \in Users : delegation[d].delegate = u /\ is_live(d)})
get_effective_voting_power(u) ==
    (IF is_live(u) THEN 0 ELSE staked[u])
      + Total([d \in Users |-> delegation[d].power],
              {d \in Users : delegation[d].delegate = u /\ is_live(d)})

-----------------------------------------------------------------------------
Count(quadratic, power) == IF quadratic THEN isqrt(power) ELSE power

(* quadratic_total_supply in create_proposal. *)
RootOfTotal(quadratic, s) == Count(quadratic, Total(s, DOMAIN s))
reference(quadratic, s) == Total([u \in DOMAIN s |-> Count(quadratic, s[u])], DOMAIN s)

create_proposal(p, u, quadratic) ==
    /\ ~poll[p].made /\ \A q \in 1..(p - 1) : poll[q].made
    /\ get_effective_voting_power(u) > 0
    /\ LET s == [h \in {h \in holders : get_effective_voting_power(h) > 0} |->
                   get_effective_voting_power(h)]
       IN /\ snap' = [snap EXCEPT ![p] = s]
          /\ poll' = [poll EXCEPT ![p] =
                [made |-> TRUE, quadratic |-> quadratic, voters |-> <<>>, tally |-> 0,
                 whole |-> reference(quadratic, s)]]
    /\ claims' = [claims EXCEPT ![p] =
                    Total([h \in Users |-> IF is_live(h) THEN delegation[h].power
                                                         ELSE staked[h]], Users)]
    /\ UNCHANGED <<seq, money, delegations>>

VotePower(p, v) ==
    /\ v \in DOMAIN snap[p]
    /\ Count(poll[p].quadratic, snap[p][v]) > 0
Plain == 0                \* in place of a multiplier: a vote of cast_vote
Weighted(power, m) == (power * m) \div 10000
NotVoted(p, v) == poll[p].made /\ v \notin DOMAIN poll[p].voters
Tallied(p, v, path, weight) ==
    /\ poll' = [poll EXCEPT ![p].voters = @ @@ (v :> path), ![p].tally = @ + weight]
    /\ UNCHANGED <<seq, money, delegations, snap, claims>>
LiveVote(p, v) ==
    /\ NotVoted(p, v) /\ v \in DOMAIN snap[p]
    /\ get_effective_voting_power(v) > 0
    /\ Tallied(p, v, Plain, Count(poll[p].quadratic, get_effective_voting_power(v)))
cast_vote(p, v) ==
    /\ NotVoted(p, v)
    /\ VotePower(p, v)
    /\ Tallied(p, v, Plain, Count(poll[p].quadratic, snap[p][v]))
(* No square root here, whatever the proposal says; Reputation.tla has the *)
(* scores, any of which the voter may have.                                *)
cast_reputation_weighted_vote(p, v, m) ==
    /\ NotVoted(p, v) /\ v \in DOMAIN snap[p]
    /\ Tallied(p, v, m, Weighted(snap[p][v], m))

DelegationCalls(u) ==
    undelegate_voting_power(u) \/ \E d \in Users : delegate_voting_power(u, d, 0)
ExpiryCalls ==
    cleanup_expired \/ \E u \in Users, e \in 1..MaxSeq : renew(u, e) \/ \E d \in Users : delegate_until(u, d, e)

TokenCalls(u) == \E a \in 1..Wealth : stake(u, a) \/ unstake(u, a)

Next ==
    \/ NewLedger \/ ExpiryCalls
    \/ \E u \in Users :
         \/ TokenCalls(u) \/ \E a \in 1..Wealth : Forfeit(u, a)
         \/ DelegationCalls(u)
         \/ \E p \in Ids :
              \/ cast_vote(p, u) \/ \E q \in BOOLEAN : create_proposal(p, u, q)
              \/ \E m \in Multipliers : cast_reputation_weighted_vote(p, u, m)

Spec == Init /\ [][Next]_vars

-----------------------------------------------------------------------------
(* A snapshot counts no stake twice: its powers add up to no more than one *)
(* claim per holder, the stake or the amount delegated in its place, for   *)
(* chains of delegations and delegations that have just expired too.       *)
EachStakeOnce ==
    \A p \in Ids : poll[p].made => Total(snap[p], DOMAIN snap[p]) <= claims[p]

(* Each voter is counted once, by the snapshot and by the rule of the call *)
(* the vote came through, however stakes and delegations changed since the *)
(* proposal was made.                                                      *)
TallyIsSnapshot ==
    \A p \in Ids : poll[p].made =>
        poll[p].tally = MapThenSumSet(LAMBDA v :
            IF poll[p].voters[v] = Plain THEN Count(poll[p].quadratic, snap[p][v])
            ELSE Weighted(snap[p][v], poll[p].voters[v]), DOMAIN poll[p].voters)

(* Votes by the square root never count more than quadratic_total_supply,  *)
(* the supply the quorum is measured against.  Reputation-weighted votes   *)
(* may, in any proposal: all a proposal can count is half as much again as *)
(* its snapshot.                                                           *)
WithinReference ==
    \A p \in Ids : poll[p].made =>
        /\ poll[p].quadratic /\ (\A v \in DOMAIN poll[p].voters : poll[p].voters[v] = Plain)
              => poll[p].tally <= poll[p].whole
        /\ 2 * poll[p].tally <= 3 * Total(snap[p], DOMAIN snap[p])
=============================================================================
