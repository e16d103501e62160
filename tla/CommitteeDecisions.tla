-------------------------- MODULE CommitteeDecisions --------------------------
(***************************************************************************)
(* governance: what committees decide (committees.rs).  Members propose,   *)
(* vote on and execute decisions: treasury spends within the committee's   *)
(* authority, and changes of the reward rate by a bounded percentage.  The *)
(* admin may override a decision, an election may replace the members, and *)
(* one committee may ask others to approve its request.                    *)
(***************************************************************************)
EXTENDS Integers, Sequences, FiniteSets, FiniteSetsExt, SequencesExt, TLC

CONSTANTS Addrs, Committees,       \* Committees is a set of numbers
          Sizes,                   \* how many members a committee may have
          SpendCap,                \* TreasurySpendAuthority.max_amount
          MaxChangePct,            \* ParameterAdjustmentAuthority.max_change_pct
          Amounts, Rates,          \* of proposed spends and reward rates
          Funds,                   \* what the treasury lets them spend
          MaxDecisions, MaxRequests, MaxElections      \* bounds

CommitteesTyped ==
    {SpendCap, MaxChangePct, Funds, MaxDecisions, MaxRequests, MaxElections}
        \cup Committees \cup Sizes \cup Amounts \cup Rates \subseteq Nat

VARIABLES
    committees,  \* per committee: its members, the chair, whether it is active
    decisions,   \* all decisions, by decision_id
    requests,    \* cross_committee_requests, by id
    treasury, rate,        \* what can be spent; liquidity_reward_bps
    elections,   \* how many elections replaced members
    executions   \* history: how often each decision had its effect

vars == <<committees, decisions, requests, treasury, rate, elections, executions>>
Perms == Permutations(Addrs)

NoCommittee == [absent |-> TRUE]
VoteType == {"For", "Against", "Abstain"}
CommitteeAction == [kind : {"TreasurySpend"}, value : Amounts]
                   \cup [kind : {"RewardConfigUpdate"}, value : Rates]
Committee == [members : SUBSET Addrs, chair : Addrs, active : BOOLEAN]
CommitteeDecision ==
    [committee : Committees, action : CommitteeAction,
     status : {"Voting", "Approved", "Rejected", "Executed", "Overridden"},
     votes : UNION {[V -> VoteType] : V \in SUBSET Addrs}]
CrossCommitteeRequest ==
    [by : Committees, approving : Seq(Committees),
     approvals : UNION {[C -> 1..MaxDecisions] : C \in SUBSET Committees},
     status : {"Pending", "Approved"}]

TypeOK ==
    /\ committees \in [Committees -> Committee \cup {NoCommittee}]
    /\ decisions \in Seq(CommitteeDecision) /\ requests \in Seq(CrossCommitteeRequest)
    /\ treasury \in Nat /\ rate \in Rates

Init ==
    /\ committees = [c \in Committees |-> NoCommittee]
    /\ decisions = <<>> /\ requests = <<>> /\ executions = <<>>
    /\ treasury = Funds /\ rate \in Rates /\ elections = 0

Exists(c) == committees[c] # NoCommittee
ensure_committee_active(c) == Exists(c) /\ committees[c].active
IsMember(a, c) == Exists(c) /\ a \in committees[c].members
Voters(d, v) == {a \in DOMAIN d.votes : d.votes[a] = v}

create_committee(c, ms, chair) ==
    /\ committees[c] = NoCommittee
    /\ \A b \in Committees : b < c => Exists(b)
    /\ chair \in ms
    /\ committees' = [committees EXCEPT ![c] = [members |-> ms, chair |-> chair, active |-> TRUE]]
    /\ UNCHANGED <<decisions, requests, treasury, rate, elections, executions>>
propose_decision(c, proposer, action) ==
    /\ ensure_committee_active(c)
    /\ IsMember(proposer, c)
    /\ Len(decisions) < MaxDecisions
    /\ decisions' = Append(decisions, [committee |-> c, action |-> action,
                                       status |-> "Voting", votes |-> <<>>])
    /\ executions' = Append(executions, 0)
    /\ UNCHANGED <<committees, requests, treasury, rate, elections>>

(* The status after a vote: a majority of the members of today, or, once   *)
(* there are as many votes as members, more for than against.              *)
DecideByPlurality(d, n) ==
    LET for == Cardinality(Voters(d, "For"))
        against == Cardinality(Voters(d, "Against"))
    IN CASE for > against -> "Approved"
         [] Cardinality(DOMAIN d.votes) = n -> "Rejected"
         [] OTHER -> "Voting"
Decide(d, n) ==
    LET for == Cardinality(Voters(d, "For"))
        against == Cardinality(Voters(d, "Against"))
        majority == n \div 2 + 1
    IN CASE for >= majority -> "Approved"
         [] against >= majority -> "Rejected"
         [] Cardinality(DOMAIN d.votes) = n -> IF for > against THEN "Approved" ELSE "Rejected"
         [] OTHER -> "Voting"
vote_on_decision(i, voter, vote) ==
    LET d == decisions[i]
        e == [d EXCEPT !.votes = @ @@ (voter :> vote)]
    IN /\ IsMember(voter, d.committee)
       /\ d.status = "Voting"
       /\ voter \notin DOMAIN d.votes
       /\ decisions' = [decisions EXCEPT ![i] =
              [e EXCEPT !.status = Decide(e, Cardinality(committees[d.committee].members))]]
       /\ UNCHANGED <<committees, requests, treasury, rate, elections, executions>>

pct_change(current, proposed) ==
    (100 * (IF proposed >= current THEN proposed - current ELSE current - proposed)) \div current
SpendAuthorityOnly(action) ==
    action.kind = "TreasurySpend" => action.value <= SpendCap
validate_reward_config_authority(new) ==
    new # rate /\ pct_change(rate, new) <= MaxChangePct
verify_committee_authority(action) ==
    IF action.kind = "TreasurySpend" THEN action.value <= SpendCap
    ELSE validate_reward_config_authority(action.value)
(* treasury::execute_spend is GovTreasury's; here it wants the funds. *)
execute_decision_action(action) ==
    IF action.kind = "TreasurySpend"
    THEN action.value <= treasury /\ treasury' = treasury - action.value /\ UNCHANGED rate
    ELSE rate' = action.value /\ UNCHANGED treasury
ExecuteUnmarked(i, executor) ==
    LET d == decisions[i]
    IN /\ ensure_committee_active(d.committee)
       /\ IsMember(executor, d.committee) \/ executor = committees[d.committee].chair
       /\ d.status = "Approved"
       /\ verify_committee_authority(d.action)
       /\ execute_decision_action(d.action)
       /\ UNCHANGED decisions
       /\ executions' = [executions EXCEPT ![i] = @ + 1]
       /\ UNCHANGED <<committees, requests, elections>>
execute_decision(i, executor) ==
    LET d == decisions[i]
    IN /\ ensure_committee_active(d.committee)
       /\ IsMember(executor, d.committee) \/ executor = committees[d.committee].chair
       /\ d.status = "Approved"
       /\ verify_committee_authority(d.action)
       /\ execute_decision_action(d.action)
       /\ decisions' = [decisions EXCEPT ![i].status = "Executed"]
       /\ executions' = [executions EXCEPT ![i] = @ + 1]
       /\ UNCHANGED <<committees, requests, elections>>
override_decision(i) ==
    /\ decisions[i].status \notin {"Rejected", "Overridden"}
    /\ decisions' = [decisions EXCEPT ![i].status = "Overridden"]
    /\ UNCHANGED <<committees, requests, treasury, rate, elections, executions>>

(* The outcome of an election, CommitteeElections' subject: new members.   *)
finalize_election(c, winners, chair) ==
    /\ Exists(c) /\ committees[c].active
    /\ chair \in winners
    /\ elections < MaxElections /\ elections' = elections + 1
    /\ committees' = [committees EXCEPT ![c].members = winners, ![c].chair = chair]
    /\ UNCHANGED <<decisions, requests, treasury, rate, executions>>
dissolve_committee(c) ==
    /\ ensure_committee_active(c)
    /\ committees' = [committees EXCEPT ![c].active = FALSE]
    /\ UNCHANGED <<decisions, requests, treasury, rate, elections, executions>>

request_cross_committee_approval(c, requester, approving) ==
    /\ ensure_committee_active(c)
    /\ IsMember(requester, c)
    /\ \A b \in ToSet(approving) : b # c /\ Exists(b)
    /\ Len(requests) < MaxRequests
    /\ requests' = Append(requests, [by |-> c, approving |-> approving,
                                     approvals |-> <<>>, status |-> "Pending"])
    /\ UNCHANGED <<committees, decisions, treasury, rate, elections, executions>>
ApproveAnyDecision(r, c, approver, i) ==
    LET q == requests[r]
        approvals == q.approvals @@ (c :> i)
    IN /\ q.status = "Pending" /\ c \in ToSet(q.approving) /\ c \notin DOMAIN q.approvals
       /\ IsMember(approver, c)
       /\ decisions[i].status \in {"Approved", "Executed"}
       /\ requests' = [requests EXCEPT ![r] = [q EXCEPT !.approvals = approvals,
              !.status = IF Cardinality(DOMAIN approvals) = Len(q.approving) THEN "Approved" ELSE @]]
       /\ UNCHANGED <<committees, decisions, treasury, rate, elections, executions>>
approve_cross_committee_request(r, c, approver, i) ==
    LET q == requests[r]
        approvals == q.approvals @@ (c :> i)
    IN /\ q.status = "Pending" /\ c \in ToSet(q.approving) /\ c \notin DOMAIN q.approvals
       /\ IsMember(approver, c)
       /\ decisions[i].committee = c
       /\ decisions[i].status \in {"Approved", "Executed"}
       /\ requests' = [requests EXCEPT ![r] = [q EXCEPT !.approvals = approvals,
              !.status = IF Cardinality(DOMAIN approvals) = Len(q.approving) THEN "Approved" ELSE @]]
       /\ UNCHANGED <<committees, decisions, treasury, rate, elections, executions>>

Boards == {M \in SUBSET Addrs : Cardinality(M) \in Sizes}
(* The entry points: of members, of the admin, and between committees. *)
MemberCalls ==
    \/ \E c \in Committees, a \in Addrs, x \in CommitteeAction : propose_decision(c, a, x)
    \/ \E i \in DOMAIN decisions, a \in Addrs, v \in VoteType : vote_on_decision(i, a, v)
    \/ \E i \in DOMAIN decisions, a \in Addrs : execute_decision(i, a)
AdminCalls ==
    \/ \E i \in DOMAIN decisions : override_decision(i)
    \/ \E c \in Committees : dissolve_committee(c)
CrossCommitteeCalls ==
    \/ \E c \in Committees, a \in Addrs, s \in SeqOf(Committees, 2) :
          s # <<>> /\ request_cross_committee_approval(c, a, s)
    \/ \E r \in DOMAIN requests, c \in Committees, a \in Addrs, i \in DOMAIN decisions :
          approve_cross_committee_request(r, c, a, i)
Oversight == AdminCalls \/ CrossCommitteeCalls

Next ==
    \/ \E c \in Committees, M \in Boards, a \in Addrs :
          create_committee(c, M, a) \/ finalize_election(c, M, a)
    \/ MemberCalls \/ Oversight

Spec == Init /\ [][Next]_vars

-----------------------------------------------------------------------------
(* A decision has its effect at most once, and funds move only by executed *)
(* decisions: what is left in the treasury and the executed (or since      *)
(* overridden) decisions account for all of it.                            *)
SpendsAccounted ==
    /\ \A i \in DOMAIN executions : executions[i] <= 1
    /\ treasury + MapThenSumSet(LAMBDA i : executions[i] * decisions[i].action.value,
           {i \in DOMAIN decisions : decisions[i].action.kind = "TreasurySpend"}) = Funds

(* While no election replaced members, a decision that passed has more     *)
(* members for it than against it, and no undecided one has every member's *)
(* vote: a vote cannot pass on a minority or hang.                         *)
VotesDecide ==
    elections = 0 =>
      \A i \in DOMAIN decisions :
        LET d == decisions[i]
        IN /\ d.status \in {"Approved", "Executed"} =>
                /\ Cardinality(Voters(d, "For")) > Cardinality(Voters(d, "Against"))
                /\ 2 * Cardinality(Voters(d, "For")) > Cardinality(committees[d.committee].members)
                     \/ DOMAIN d.votes = committees[d.committee].members
           /\ d.status = "Voting" => DOMAIN d.votes # committees[d.committee].members

(* A change of the reward rate is measured against the rate in force when  *)
(* the decision is executed, however long ago it was approved.             *)
RateStepBounded ==
    rate' # rate =>
       100 * (IF rate' > rate THEN rate' - rate ELSE rate - rate') < (MaxChangePct + 1) * rate

(* A request that others approved has, from each of them, a decision of    *)
(* their own, and it was not a decision that had been turned down.         *)
RequestsBackedByDecisions ==
    \A r \in DOMAIN requests :
      requests[r].status = "Approved" =>
        \A c \in ToSet(requests[r].approving) :
          /\ c \in DOMAIN requests[r].approvals
          /\ decisions[requests[r].approvals[c]].committee = c
          /\ decisions[requests[r].approvals[c]].status \in {"Approved", "Executed", "Overridden"}
=============================================================================
