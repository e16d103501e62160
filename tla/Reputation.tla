------------------------------ MODULE Reputation ------------------------------
(***************************************************************************)
(* governance: participation records and reputation scores (reputation.rs) *)
(* kept as proposals are created, voted on and finalized.  Proposals are   *)
(* reduced to who created them, who voted how and their outcome; the       *)
(* score's tiers and badges, which need 50 actions and more, to Bronze.    *)
(* Time is in days.                                                        *)
(***************************************************************************)
EXTENDS Integers, Sequences, FiniteSets, FiniteSetsExt, SequencesExt, TLC

CONSTANTS Users, Pool,             \* a reward pool
          StepDays,                \* days that pass at a time
          Grace, DecayBps, MaxDecayDays,              \* of the Bronze tier
          MaxUsers,                \* MAX_REPUTATION_USERS
          MaxDays, MaxProposals    \* bounds

ReputationTyped ==
    /\ {Pool, StepDays, MaxUsers} \subseteq Nat \ {0}
    /\ {Grace, MaxDecayDays, MaxDays, MaxProposals} \subseteq Nat
    /\ DecayBps \in 0..10000

VARIABLES
    now,
    rep,         \* GovernanceReputation per user, or NoRep
    proposals,   \* proposer, votes and status of each
    payouts      \* what distribute_reputation_rewards last returned

vars == <<now, rep, proposals, payouts>>

NoRep == [absent |-> TRUE]
GovernanceReputation ==
    [created : Nat, succeeded : Nat, cast : Nat, aligned : Nat, last : Nat, score : Nat]
VoteType == {"For", "Against"}
Proposal == [proposer : Users, votes : UNION {[V -> VoteType] : V \in SUBSET Users},
             status : {"Active", "Succeeded", "Failed"}]
TypeOK ==
    /\ now \in 0..MaxDays
    /\ rep \in [Users -> GovernanceReputation \cup {NoRep}]
    /\ proposals \in Seq(Proposal)

Init == now = 0 /\ rep = [u \in Users |-> NoRep] /\ proposals = <<>> /\ payouts = <<>>

get_governance_reputation(u) ==
    IF rep[u] # NoRep THEN rep[u]
    ELSE [created |-> 0, succeeded |-> 0, cast |-> 0, aligned |-> 0, last |-> now, score |-> 0]

apply_tiered_decay(score, last) ==
    LET days == Min({Max({0, now - last - Grace}), MaxDecayDays})
    IN FoldLeft(LAMBDA s, d : (s * (10000 - DecayBps)) \div 10000, score, [d \in 1..days |-> d])
staleness_penalty_multiplier(last) ==
    LET days == now - last
    IN CASE days <= 30 -> 10000 [] days <= 90 -> 8000 [] days <= 180 -> 5000 [] OTHER -> 2000
Ratio(a, b) == IF b = 0 THEN 0 ELSE (a * 10000) \div b
calculate_reputation_score(r) ==
    LET raw == Min({2000, r.created * 100})
               + Min({2000, (Ratio(r.succeeded, r.created) * 2) \div 10})
               + Min({2000, r.cast * 20})
               + Min({2000, (Ratio(r.aligned, r.cast) * 2) \div 10})
    IN Min({10000, (apply_tiered_decay(raw, r.last) * staleness_penalty_multiplier(r.last)) \div 10000})

(* Both score the record as it was stored before the call. *)
Rescored(u, r) == [r EXCEPT !.score = calculate_reputation_score(get_governance_reputation(u))]
record_proposal_creation(u) ==
    LET r == get_governance_reputation(u)
    IN rep' = [rep EXCEPT ![u] = Rescored(u, [r EXCEPT !.created = @ + 1, !.last = now])]
record_vote(u) ==
    LET r == get_governance_reputation(u)
    IN rep' = [rep EXCEPT ![u] = Rescored(u, [r EXCEPT !.cast = @ + 1, !.last = now])]

create_proposal(u) ==
    /\ Len(proposals) < MaxProposals
    /\ proposals' = Append(proposals, [proposer |-> u, votes |-> <<>>, status |-> "Active"])
    /\ record_proposal_creation(u)
    /\ payouts' = <<>> /\ UNCHANGED now
cast_vote(u, p, v) ==
    /\ proposals[p].status = "Active"
    /\ u \notin DOMAIN proposals[p].votes
    /\ proposals' = [proposals EXCEPT ![p].votes = @ @@ (u :> v)]
    /\ record_vote(u)
    /\ payouts' = <<>> /\ UNCHANGED now

(* The records are read from storage one at a time and written together:   *)
(* a proposer who also voted with the outcome is written twice, the second *)
(* time without the success.                                               *)
Aligned(p, ok) == {u \in DOMAIN proposals[p].votes : proposals[p].votes[u] = IF ok THEN "For" ELSE "Against"}
record_proposal_outcome(p, ok) ==
    rep' = [u \in Users |->
              LET r == get_governance_reputation(u)
              IN CASE u \in Aligned(p, ok) -> Rescored(u, [r EXCEPT !.aligned = @ + 1])
                   [] u \notin Aligned(p, ok) /\ ok /\ u = proposals[p].proposer
                        -> Rescored(u, [r EXCEPT !.succeeded = @ + 1])
                   [] OTHER -> rep[u]]
FinalizeAgain(p, ok) ==
    /\ proposals[p].status = "Active" \/ proposals[p].status = (IF ok THEN "Succeeded" ELSE "Failed")
    /\ proposals' = [proposals EXCEPT ![p].status = IF ok THEN "Succeeded" ELSE "Failed"]
    /\ record_proposal_outcome(p, ok)
    /\ payouts' = <<>> /\ UNCHANGED now
finalize_proposal(p, ok) ==
    /\ proposals[p].status = "Active"
    /\ proposals' = [proposals EXCEPT ![p].status = IF ok THEN "Succeeded" ELSE "Failed"]
    /\ record_proposal_outcome(p, ok)
    /\ payouts' = <<>> /\ UNCHANGED now

refresh_stale_reputation(u) ==
    /\ rep' = [rep EXCEPT ![u] = Rescored(u, get_governance_reputation(u))]
    /\ payouts' = <<>> /\ UNCHANGED <<now, proposals>>
(* The leaderboard holds everyone, or is refused. *)
get_reputation_leaderboard == {u \in Users : rep[u] # NoRep}
SharesOfTop(U) == [u \in U |-> (Pool * rep[u].score) \div Max({rep[w].score : w \in U})]
Shares(U) ==
    LET total == MapThenSumSet(LAMBDA u : rep[u].score, U)
    IN [u \in U |-> (Pool * rep[u].score) \div total]
distribute_reputation_rewards ==
    /\ Cardinality(get_reputation_leaderboard) <= MaxUsers
    /\ \E u \in get_reputation_leaderboard : rep[u].score > 0
    /\ payouts' = Shares(get_reputation_leaderboard)
    /\ UNCHANGED <<now, rep, proposals>>
Tick == now + StepDays <= MaxDays /\ now' = now + StepDays
        /\ payouts' = <<>> /\ UNCHANGED <<rep, proposals>>

RewardCalls == distribute_reputation_rewards \/ \E u \in Users : refresh_stale_reputation(u)

BallotCalls ==
    \E p \in DOMAIN proposals : \/ \E u \in Users, v \in VoteType : cast_vote(u, p, v)
                               \/ \E ok \in BOOLEAN : finalize_proposal(p, ok)

Next ==
    \/ Tick \/ RewardCalls
    \/ \E u \in Users : create_proposal(u)
    \/ BallotCalls

Spec == Init /\ [][Next]_vars

-----------------------------------------------------------------------------
(* The records are the history: a proposal's success and a vote with the   *)
(* outcome are each counted once, except that a proposer who voted for its *)
(* own successful proposal gets no credit for the success.                 *)
RecordsMatchHistory ==
    \A u \in Users :
      LET r == get_governance_reputation(u)
          Won(p) == proposals[p].status = "Succeeded"
          Voted(p, v) == u \in DOMAIN proposals[p].votes /\ proposals[p].votes[u] = v
      IN /\ r.cast = Cardinality({p \in DOMAIN proposals : u \in DOMAIN proposals[p].votes})
         /\ r.aligned = Cardinality({p \in DOMAIN proposals :
                (Won(p) /\ Voted(p, "For")) \/ (proposals[p].status = "Failed" /\ Voted(p, "Against"))})
         /\ r.succeeded = Cardinality({p \in DOMAIN proposals :
                Won(p) /\ proposals[p].proposer = u /\ ~Voted(p, "For")})

(* A reward pool is never overspent, whatever the scores. *)
PayoutsWithinPool == MapThenSumSet(LAMBDA u : payouts[u], DOMAIN payouts) <= Pool
=============================================================================
