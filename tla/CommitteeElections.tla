-------------------------- MODULE CommitteeElections --------------------------
(***************************************************************************)
(* governance: elections of one committee (committees.rs).  Any staked     *)
(* address nominates and votes while the election runs; ballots are weighed *)
(* by what the voter still stakes when the admin finalizes the election.   *)
(* Staking itself is Voting's; here the stake of a voter may go.           *)
(***************************************************************************)
EXTENDS Integers, Sequences, FiniteSets, FiniteSetsExt, SequencesExt, TLC

CONSTANTS Addrs, Founder,          \* voters and candidates; the member at first
          Stakes, MaxMembers,
          MinParticipation, QuorumStake,      \* of every election
          MaxTime, MaxElections               \* bounds

ElectionsTyped ==
    /\ Stakes \subseteq Nat \ {0}
    /\ {MaxMembers, MinParticipation, QuorumStake, MaxTime, MaxElections} \subseteq Nat

VARIABLES
    now,
    stake,       \* StakedBalances
    members, chair, active,       \* of the Committee
    election,    \* CommitteeElection, or NoElection
    held,        \* number of elections started
    result       \* the ElectionResult last returned, with the tally it rests on

vars == <<now, stake, members, chair, active, election, held, result>>
Perms == Permutations(Addrs)

MinSeats == 3
NoElection == [absent |-> TRUE]
NoResult == [status |-> "Pending"]
CommitteeElection ==
    [candidates : Seq(Addrs), votes : UNION {[V -> Addrs] : V \in SUBSET Addrs},
     end : Nat, positions : MinSeats..MaxMembers]

TypeOK ==
    /\ now \in 0..MaxTime /\ held \in 0..MaxElections
    /\ stake \in [Addrs -> Stakes \cup {0}]
    /\ members \subseteq Addrs \cup {Founder} /\ chair \in members /\ active \in BOOLEAN
    /\ election \in CommitteeElection \cup {NoElection}

(* create_committee, by the admin: the members, one of them the chair. *)
create_committee == members = {Founder} /\ chair = Founder /\ active = TRUE
Init ==
    /\ now = 0 /\ stake \in [Addrs -> Stakes]
    /\ create_committee
    /\ election = NoElection /\ held = 0 /\ result = NoResult

Tick == now < MaxTime /\ now' = now + 1 /\ result' = NoResult
        /\ UNCHANGED <<stake, members, chair, active, election, held>>
Unstake(a) == stake[a] > 0 /\ stake' = [stake EXCEPT ![a] = 0] /\ result' = NoResult
              /\ UNCHANGED <<now, members, chair, active, election, held>>

start_election(positions) ==
    /\ active
    /\ positions \in MinSeats..MaxMembers
    /\ election # NoElection => now >= election.end
    /\ held < MaxElections /\ held' = held + 1
    /\ election' = [candidates |-> <<>>, votes |-> <<>>, end |-> now + 1, positions |-> positions]
    /\ result' = NoResult
    /\ UNCHANGED <<now, stake, members, chair, active>>
nominate_for_committee(nominee, nominator) ==
    /\ election # NoElection
    /\ now < election.end
    /\ stake[nominator] > 0
    /\ IF nominee \in ToSet(election.candidates) THEN UNCHANGED election
       ELSE election' = [election EXCEPT !.candidates = Append(@, nominee)]
    /\ result' = NoResult
    /\ UNCHANGED <<now, stake, members, chair, active, held>>
vote_in_election(voter, candidate) ==
    /\ election # NoElection
    /\ now < election.end
    /\ candidate \in ToSet(election.candidates)
    /\ stake[voter] > 0
    /\ voter \notin DOMAIN election.votes
    /\ election' = [election EXCEPT !.votes = @ @@ (voter :> candidate)]
    /\ result' = NoResult
    /\ UNCHANGED <<now, stake, members, chair, active, held>>

(* The ballots that count when the election is finalized, what they weigh. *)
CountAllBallots(e) == DOMAIN e.votes
tally_election_votes_with_validation(e) == {v \in DOMAIN e.votes : stake[v] > 0}
Weight(V) == MapThenSumSet(LAMBDA v : stake[v], V)
VotesFor(e, c) ==
    Weight({v \in tally_election_votes_with_validation(e) : e.votes[v] = c})

(* Seats go to the candidate with most weight behind it that has no seat,  *)
(* to the first nominated of equals; a candidate nobody voted for counts.  *)
FewestFirst(e, chosen) ==
    CHOOSE i \in DOMAIN e.candidates :
        /\ e.candidates[i] \notin chosen
        /\ \A j \in DOMAIN e.candidates :
             e.candidates[j] \notin chosen =>
               \/ VotesFor(e, e.candidates[i]) < VotesFor(e, e.candidates[j])
               \/ VotesFor(e, e.candidates[i]) = VotesFor(e, e.candidates[j]) /\ i <= j
Best(e, chosen) ==
    CHOOSE i \in DOMAIN e.candidates :
        /\ e.candidates[i] \notin chosen
        /\ \A j \in DOMAIN e.candidates :
             e.candidates[j] \notin chosen =>
               \/ VotesFor(e, e.candidates[i]) > VotesFor(e, e.candidates[j])
               \/ VotesFor(e, e.candidates[i]) = VotesFor(e, e.candidates[j]) /\ i <= j
select_election_winners(e) ==
    LET seats == Min({e.positions, Len(e.candidates)})
    IN FoldLeft(LAMBDA ws, k : Append(ws, e.candidates[Best(e, ToSet(ws))]),
                <<>>, [k \in 1..seats |-> k])

Status(e) ==
    LET valid == tally_election_votes_with_validation(e)
    IN CASE MinParticipation > 0 /\ Cardinality(valid) < MinParticipation
                -> "FailedQuorumParticipation"
         [] QuorumStake > 0 /\ Weight(valid) < QuorumStake -> "FailedQuorumStake"
         [] Len(select_election_winners(e)) < MinSeats -> "FailedInsufficientWinners"
         [] OTHER -> "Succeeded"
finalize_election ==
    /\ election # NoElection
    /\ now >= election.end
    /\ result' = [status |-> Status(election), ballots |-> election.votes, on |-> election.candidates]
    /\ LET winners == select_election_winners(election)
       IN IF Status(election) = "Succeeded"
          THEN members' = ToSet(winners) /\ chair' = Head(winners)
          ELSE UNCHANGED <<members, chair>>
    /\ election' = NoElection
    /\ UNCHANGED <<now, stake, active, held>>
dissolve_committee ==
    /\ active /\ active' = FALSE
    /\ election' = NoElection /\ result' = NoResult
    /\ UNCHANGED <<now, stake, members, chair, held>>

BallotCalls ==
    (\E p \in MinSeats..MaxMembers : start_election(p)) \/ \E a, b \in Addrs : nominate_for_committee(a, b) \/ vote_in_election(a, b)

ElectionCalls ==
    BallotCalls \/ finalize_election
Next == Tick \/ ElectionCalls \/ dissolve_committee \/ \E a \in Addrs : Unstake(a)

Spec == Init /\ [][Next]_vars

-----------------------------------------------------------------------------
(* docs/committee_elections.md, Quorum checks: only ballots of voters who  *)
(* are still staked at finalization count, so voters who leave after they  *)
(* voted cannot carry an election over its quorum: the seats change hands  *)
(* only with enough stake and enough voters behind the ballots that last.  *)
QuorumOfRemainingStake ==
    members' # members =>
       LET lasting == {v \in DOMAIN election.votes : stake[v] > 0}
       IN /\ Cardinality(lasting) >= MinParticipation
          /\ MapThenSumSet(LAMBDA v : stake[v], lasting) >= QuorumStake

(* The seats go by weight: whoever stood and did not get a seat has no     *)
(* more stake behind it than anyone who did, and the chair has the most;   *)
(* the chair is always a member and there are never more than MaxMembers.  *)
SeatsByWeight ==
    /\ chair \in members /\ Cardinality(members) <= MaxMembers
    /\ result.status = "Succeeded" =>
         LET weight(c) == MapThenSumSet(LAMBDA v : stake[v],
                            {v \in DOMAIN result.ballots : result.ballots[v] = c})
         IN /\ members \subseteq ToSet(result.on)
            /\ \A c \in ToSet(result.on) : weight(chair) >= weight(c)
            /\ \A w \in members, c \in ToSet(result.on) \ members : weight(w) >= weight(c)

=============================================================================
