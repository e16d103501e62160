------------------------- MODULE ProposalLifecycle -------------------------
(***************************************************************************)
(* governance: a proposal from its creation to its execution, directly     *)
(* (proposals.rs) or through the timelock's queue (timelock.rs), with the  *)
(* spam deposit (proposal_deposit.rs) locked at creation and settled when  *)
(* the vote is finalised or the proposal withdrawn.                        *)
(*                                                                         *)
(* Every holder has one vote here: Voting.tla models where power comes from. *)
(* A proposal either spends Spend from the treasury or has an effect that  *)
(* cannot fail (a parameter, a feature, an upgrade hash, nothing); a spend *)
(* is paid to its proposer, who may be the recipient he names.  The        *)
(* deposit is a constant: set_deposit_config asks twice for the admin's    *)
(* authorisation in one call, which the host refuses.                      *)
(*                                                                         *)
(* The guardian can take the contract out of service, and whoever then     *)
(* initialises it again starts with no proposals but with the old queue:   *)
(* the MaxInits fresh initialisations are a parameter.                     *)
(***************************************************************************)
EXTENDS Integers, Sequences, FiniteSets, FiniteSetTheorems, SequenceTheorems,
        Totals

CONSTANTS
    N,                           \* holders, with a voting power of one each
    Admin, Guardian,             \* addresses that hold no tokens
    Quorum, Approval,            \* thresholds, in percent of supply and of votes
    Participation,               \* min_participation_bps, in percent
    VotingDelay, VotingPeriod, ExecutionDelay, ExecutionWindow,
    QueueDelay, StuckGrace, Extension,
    Deposit, Spend, Funds,       \* deposit, amount of a spend, initial treasury
    MaxProposals, MaxTime,       \* bounds
    MaxInits                     \* fresh initialisations after the first

LifecycleTyped ==
    {N, Quorum, Approval, Participation, VotingDelay, VotingPeriod,
     ExecutionDelay, ExecutionWindow, QueueDelay, StuckGrace, Extension,
     Deposit, Spend, Funds, MaxProposals, MaxTime, MaxInits} \subseteq Nat
ASSUME LifecycleAssumption == LifecycleTyped

VARIABLES
    now, paused,
    inits,       \* history: fresh initialisations so far
    prop,        \* ProposalsState.proposals, for the ids given out so far
    lock,        \* LockedDeposit: the proposer it is held for
    queue,       \* Timelock.queued_actions; its index is the action's id
                 \* and round the initialisation it was queued under
    treasury, forfeited, balance,
    paid,        \* history: executions of the proposal's action
    passed       \* history: proposals that finalize_proposal found approved

lifecycleVars == <<now, paused, inits, prop, lock, queue, treasury, forfeited, balance, paid,
                   passed>>
tokens == <<treasury, balance, paid>>

Users == 1..N
Ids == 1..MaxProposals
Nobody == 0
ProposalStatus == {"Pending", "Active", "Succeeded", "Failed", "Executed",
                   "Cancelled", "Withdrawn"}
VoteType == {"For", "Against", "Abstain"}
Absent == [status |-> "Absent"]
Removed == [status |-> "Removed"]
Proposal == [status : ProposalStatus, by : Users, kind : {"spend", "other"},
             starts : Nat, ends : Nat, votes : [Users -> VoteType \cup {"None"}]]
Records == Proposal \cup {Absent, Removed}
QueuedAction == [pid : Ids, available : Nat, round : Nat,
                 state : {"queued", "executed", "cancelled"}]

Exists(p) == prop[p].status \in ProposalStatus
execution_deadline(p) == prop[p].ends + ExecutionWindow

LifecycleTypeOK ==
    /\ now \in 0..MaxTime /\ paused \in BOOLEAN /\ inits \in Nat
    /\ prop \in [Ids -> Records]
    /\ lock \in [Ids -> Users \cup {Nobody}]
    /\ queue \in Seq(QueuedAction)
    /\ treasury \in Nat /\ forfeited \in Nat /\ balance \in [Users -> Nat]
    /\ paid \in [Ids -> Nat]
    /\ passed \subseteq Ids

LifecycleInit ==
    /\ now = 0 /\ paused = FALSE /\ inits = 0
    /\ prop = [p \in Ids |-> Absent]
    /\ lock = [p \in Ids |-> Nobody]
    /\ queue = <<>>
    /\ treasury = Funds /\ forfeited = 0
    /\ balance = [u \in Users |-> MaxProposals * Deposit]
    /\ paid = [p \in Ids |-> 0]
    /\ passed = {}

Tick == now < MaxTime /\ now' = now + 1
        /\ UNCHANGED <<paused, inits, prop, lock, queue, forfeited, tokens, passed>>
SetPaused(b) == paused # b /\ paused' = b
        /\ UNCHANGED <<now, inits, prop, lock, queue, forfeited, tokens, passed>>
require_not_paused == ~paused

-----------------------------------------------------------------------------
SetStatus(p, s) == prop' = [prop EXCEPT ![p].status = s]

create_proposal(p, u, kind) ==
    /\ kind = "spend" => treasury >= 10 * Spend    \* validate_proposal
    /\ prop' = [prop EXCEPT ![p] =
                  [status |-> "Pending", by |-> u, kind |-> kind,
                   starts |-> now + VotingDelay,
                   ends |-> now + VotingDelay + VotingPeriod,
                   votes |-> [v \in Users |-> "None"]]]
lock_proposal_deposit(p, u) ==
    /\ balance[u] >= Deposit
    /\ balance' = [balance EXCEPT ![u] = @ - Deposit]
    /\ lock' = [lock EXCEPT ![p] = u]
CreateProposal(u, kind) == \E p \in Ids :
    /\ require_not_paused
    /\ prop[p] = Absent /\ \A q \in Ids : q < p => prop[q] # Absent
    /\ create_proposal(p, u, kind)
    /\ lock_proposal_deposit(p, u)
    /\ UNCHANGED <<now, inits, paused, queue, treasury, forfeited, paid, passed>>

cast_vote(p, v, vt) ==
    /\ Exists(p)
    /\ prop[p].starts <= now /\ now < prop[p].ends
    /\ prop[p].status \in {"Pending", "Active"}
    /\ prop[p].votes[v] = "None"
    /\ prop' = [prop EXCEPT ![p].votes[v] = vt, ![p].status = "Active"]
(* The weight of one is one vote whatever the reputation; the call does    *)
(* not look at the pause flag.                                             *)
CastReputationVote(p, v, vt) ==
    /\ cast_vote(p, v, vt)
    /\ UNCHANGED <<now, inits, paused, lock, queue, forfeited, tokens, passed>>
CastVote(p, v, vt) == require_not_paused /\ CastReputationVote(p, v, vt)

VotesOf(p, types) ==
    Cardinality({v \in Users : prop[p].votes[v] \in types})
quorum_met(p) == VotesOf(p, VoteType) * 100 >= N * Quorum
approved(p) ==
    /\ VotesOf(p, {"For", "Against"}) > 0
    /\ VotesOf(p, {"For"}) * 100 >= VotesOf(p, {"For", "Against"}) * Approval

(* The action of a proposal: what it does to the treasury, and whether it  *)
(* can be done at all.                                                     *)
CanAct(p) == Exists(p) /\ (prop[p].kind = "spend" => treasury >= Spend)
execute_proposal_action(p, recipient) ==
    /\ CanAct(p)
    /\ paid' = [paid EXCEPT ![p] = @ + 1]
    /\ IF prop[p].kind = "spend"
       THEN /\ treasury' = treasury - Spend
            /\ balance' = [balance EXCEPT ![recipient] = @ + Spend]
       ELSE UNCHANGED <<treasury, balance>>

(* settle_proposal_deposit, on balances b: refunded, or forfeited to the   *)
(* treasury address (an account of its own).                               *)
SettleSucceededOnly(p, b) ==
    IF lock[p] = Nobody \/ ~quorum_met(p)
    THEN balance' = b /\ UNCHANGED <<lock, forfeited>>
    ELSE /\ balance' = [b EXCEPT ![lock[p]] = @ + Deposit] /\ UNCHANGED forfeited
         /\ lock' = [lock EXCEPT ![p] = Nobody]
settle_proposal_deposit(p, b) ==
    IF lock[p] = Nobody THEN balance' = b /\ UNCHANGED <<lock, forfeited>>
    ELSE /\ IF VotesOf(p, VoteType) * 100 >= N * Participation
            THEN balance' = [b EXCEPT ![lock[p]] = @ + Deposit] /\ UNCHANGED forfeited
            ELSE balance' = b /\ forfeited' = forfeited + Deposit
         /\ lock' = [lock EXCEPT ![p] = Nobody]

finalize_proposal(p) ==
    /\ Exists(p) /\ now >= prop[p].ends
    /\ prop[p].status \in {"Pending", "Active"}
FinalizeProposal(p) ==
    /\ require_not_paused
    /\ finalize_proposal(p)
    /\ LET ok == quorum_met(p) /\ approved(p)
           act == ok /\ ExecutionDelay = 0 /\ CanAct(p) /\ now <= execution_deadline(p)
           spent == act /\ prop[p].kind = "spend"
       IN /\ SetStatus(p, IF act THEN "Executed" ELSE IF ok THEN "Succeeded" ELSE "Failed")
          /\ passed' = IF ok THEN passed \cup {p} ELSE passed
          /\ paid' = IF act THEN [paid EXCEPT ![p] = @ + 1] ELSE paid
          /\ treasury' = IF spent THEN treasury - Spend ELSE treasury
          /\ settle_proposal_deposit(p,
                IF spent THEN [balance EXCEPT ![prop[p].by] = @ + Spend] ELSE balance)
    /\ UNCHANGED <<now, inits, paused, queue>>

ExecuteLate(p) ==
    /\ require_not_paused
    /\ Exists(p)
    /\ prop[p].status \in {"Succeeded", "Executed"}
    /\ now >= prop[p].ends + ExecutionDelay
    /\ execute_proposal_action(p, prop[p].by)
    /\ SetStatus(p, "Executed")
    /\ UNCHANGED <<now, inits, paused, lock, queue, forfeited, passed>>
ExecuteProposal(p) ==
    /\ require_not_paused
    /\ Exists(p)
    /\ prop[p].status = "Succeeded"
    /\ now >= prop[p].ends + ExecutionDelay
    /\ now <= execution_deadline(p)
    /\ execute_proposal_action(p, prop[p].by)
    /\ SetStatus(p, "Executed")
    /\ UNCHANGED <<now, inits, paused, lock, queue, forfeited, passed>>

(* By the proposer, the admin or the guardian; the deposit stays locked    *)
(* and a queued action stays queued.                                       *)
CancelProposal(p, who) ==
    /\ Exists(p)
    /\ who \in {prop[p].by, Admin, Guardian}
    /\ prop[p].status # "Executed"
    /\ SetStatus(p, "Cancelled")
    /\ UNCHANGED <<now, inits, paused, lock, queue, forfeited, tokens, passed>>

WithdrawRefundsTwice(p) ==
    /\ Exists(p)
    /\ prop[p].status = "Pending"
    /\ SetStatus(p, "Withdrawn")
    /\ balance' = [balance EXCEPT ![prop[p].by] = @ + Deposit]
    /\ UNCHANGED lock
withdraw_proposal(p) ==
    /\ Exists(p)
    /\ prop[p].status = "Pending"
    /\ SetStatus(p, "Withdrawn")
    /\ IF lock[p] = prop[p].by
       THEN /\ balance' = [balance EXCEPT ![prop[p].by] = @ + Deposit]
            /\ lock' = [lock EXCEPT ![p] = Nobody]
       ELSE UNCHANGED <<balance, lock>>
WithdrawProposal(p) ==
    /\ require_not_paused
    /\ withdraw_proposal(p)
    /\ UNCHANGED <<now, inits, paused, queue, treasury, forfeited, paid, passed>>

reclaim_expired_proposal(p) ==
    /\ Exists(p)
    /\ prop[p].status = "Succeeded"
    /\ now > execution_deadline(p)
    /\ prop' = [prop EXCEPT ![p] = Removed]
ReclaimExpiredProposal(p) ==
    /\ require_not_paused
    /\ reclaim_expired_proposal(p)
    /\ UNCHANGED <<now, inits, paused, lock, queue, forfeited, tokens, passed>>

effective_status(p) ==
    IF prop[p].status = "Succeeded" /\ now > execution_deadline(p)
    THEN "Expired" ELSE prop[p].status
(* With a limit that covers them all: every terminal proposal is removed.  *)
cleanup_terminal_proposals ==
    LET terminal == {p \in Ids : Exists(p) /\ effective_status(p) \in
                        {"Failed", "Executed", "Cancelled", "Expired", "Withdrawn"}}
    IN /\ terminal # {}
       /\ prop' = [p \in Ids |-> IF p \in terminal THEN Removed ELSE prop[p]]
CleanupProposals ==
    /\ cleanup_terminal_proposals
    /\ UNCHANGED <<now, inits, paused, lock, queue, forfeited, tokens, passed>>

-----------------------------------------------------------------------------
Live(a) == a \in DOMAIN queue /\ queue[a].state = "queued"

QueueFailed(p) ==
    /\ Exists(p)
    /\ prop[p].status \in {"Succeeded", "Failed"}
    /\ \A a \in DOMAIN queue : queue[a].pid = p => ~Live(a)
    /\ queue' = Append(queue, [pid |-> p, available |-> now + QueueDelay,
                               round |-> inits, state |-> "queued"])
queue_action(p) ==
    /\ Exists(p)
    /\ prop[p].status = "Succeeded"
    /\ \A a \in DOMAIN queue : queue[a].pid = p => ~Live(a)
    /\ queue' = Append(queue, [pid |-> p, available |-> now + QueueDelay,
                               round |-> inits, state |-> "queued"])
QueueAction(p) ==
    /\ require_not_paused
    /\ queue_action(p)
    /\ UNCHANGED <<now, inits, paused, prop, lock, forfeited, tokens, passed>>

(* The proposal's status is not looked at again: only that it still exists. *)
RunAction(a) ==
    /\ Live(a)
    /\ execute_proposal_action(queue[a].pid, prop[queue[a].pid].by)
    /\ queue' = [queue EXCEPT ![a].state = "executed"]
    /\ SetStatus(queue[a].pid, "Executed")      \* mark_proposal_executed
    /\ UNCHANGED <<now, inits, paused, lock, forfeited, passed>>
ExecuteQueuedAction(a) ==
    /\ require_not_paused
    /\ Live(a) /\ now >= queue[a].available
    /\ RunAction(a)
EmergencyUnblockAction(a) ==
    /\ Live(a) /\ now >= queue[a].available + StuckGrace
    /\ RunAction(a)

(* execute_multiple_actions with two ids: what fails is skipped. *)
ExecuteMultipleActions(a, b) ==
    /\ require_not_paused
    /\ a < b
    /\ \A x \in {a, b} : Live(x) /\ now >= queue[x].available
    /\ LET pa == queue[a].pid
           pb == queue[b].pid
           cost(p) == IF prop[p].kind = "spend" THEN Spend ELSE 0
       IN /\ CanAct(pa) /\ CanAct(pb) /\ treasury >= cost(pa) + cost(pb)
          /\ treasury' = treasury - cost(pa) - cost(pb)
          /\ balance' = [u \in Users |-> balance[u]
                            + (IF u = prop[pa].by THEN cost(pa) ELSE 0)
                            + (IF u = prop[pb].by THEN cost(pb) ELSE 0)]
          /\ paid' = [p \in Ids |-> paid[p] + (IF p = pa THEN 1 ELSE 0) + (IF p = pb THEN 1 ELSE 0)]
          /\ prop' = [p \in Ids |-> IF p \in {pa, pb} THEN [prop[p] EXCEPT !.status = "Executed"]
                                                      ELSE prop[p]]
    /\ queue' = [queue EXCEPT ![a].state = "executed", ![b].state = "executed"]
    /\ UNCHANGED <<now, inits, paused, lock, forfeited, passed>>

(* By the admin or the timelock's guardian; the proposal is cancelled too, *)
(* whatever its status.                                                    *)
CancelQueuedAction(a) ==
    /\ Live(a)
    /\ Exists(queue[a].pid)
    /\ queue' = [queue EXCEPT ![a].state = "cancelled"]
    /\ SetStatus(queue[a].pid, "Cancelled")
    /\ UNCHANGED <<now, inits, paused, lock, forfeited, tokens, passed>>

ExtendExecutionWindow(a) ==
    /\ Live(a)
    /\ queue[a].available + Extension <= MaxTime
    /\ queue' = [queue EXCEPT ![a].available = @ + Extension]
    /\ UNCHANGED <<now, inits, paused, prop, lock, forfeited, tokens, passed>>

(* Every action is forgotten, and the next one is number 1 again. *)
InitializeTimelock ==
    /\ queue # <<>> /\ queue' = <<>>
    /\ UNCHANGED <<now, inits, paused, prop, lock, forfeited, tokens, passed>>
(* emergency_revoke_admin and the initialize it makes possible, in one     *)
(* step, since nothing here can be called in between: proposals, votes and *)
(* balances start afresh, the queue and the locked deposits do not.        *)
Reinitialize ==
    /\ inits < MaxInits /\ inits' = inits + 1
    /\ paused' = FALSE
    /\ prop' = [p \in Ids |-> Absent] /\ passed' = {} /\ paid' = [p \in Ids |-> 0]
    /\ balance' = [u \in Users |-> MaxProposals * Deposit]
    /\ treasury' = Funds /\ forfeited' = 0
    /\ UNCHANGED <<now, lock, queue>>

LifecycleNext ==
    \/ Tick
    \/ \E b \in BOOLEAN : SetPaused(b)
    \/ \E u \in Users, kind \in {"spend", "other"} : CreateProposal(u, kind)
    \/ \E p \in Ids :
         \/ \E v \in Users, vt \in VoteType : CastVote(p, v, vt) \/ CastReputationVote(p, v, vt)
         \/ FinalizeProposal(p) \/ ExecuteProposal(p)
         \/ \E who \in Users \cup {Admin, Guardian} : CancelProposal(p, who)
         \/ WithdrawProposal(p) \/ ReclaimExpiredProposal(p) \/ QueueAction(p)
    \/ CleanupProposals \/ InitializeTimelock \/ Reinitialize
    \/ \E a \in DOMAIN queue :
         \/ ExecuteQueuedAction(a) \/ EmergencyUnblockAction(a)
         \/ CancelQueuedAction(a) \/ ExtendExecutionWindow(a)
         \/ \E b \in DOMAIN queue : ExecuteMultipleActions(a, b)

LifecycleSpec == LifecycleInit /\ [][LifecycleNext]_lifecycleVars

-----------------------------------------------------------------------------
(* What is locked, proposal by proposal. *)
Deposits(locks) == [p \in Ids |-> IF locks[p] = Nobody THEN 0 ELSE Deposit]

(* No proposal step creates or destroys tokens: what the proposers hold,   *)
(* what lies locked, what was forfeited and what is left of the treasury   *)
(* always add up, whichever way the proposal ends.                         *)
TokensConserved ==
    Total(balance, N) + treasury + forfeited + Total(Deposits(lock), MaxProposals)
    = Total([u \in Users |-> MaxProposals * Deposit], N) + Funds

(* Once a vote was decided, or the proposal withdrawn, its deposit is no   *)
(* longer held: only cancel_proposal leaves one locked.                    *)
DepositSettled ==
    \A p \in Ids : prop[p].status \in {"Succeeded", "Failed", "Executed", "Withdrawn"}
                      => lock[p] = Nobody

(* A passed proposal acts at most twice, once directly and once from the   *)
(* queue, and the second time only if its action was still waiting; a      *)
(* timelock initialised again in between changes nothing about it.         *)
ActsAtMostTwice ==
    /\ \A p \in Ids : paid[p] <= 2
    /\ \A a \in DOMAIN queue : Live(a) => paid[queue[a].pid] <= 1

(* Deposits and spends of proposals.rs, proposal_deposit.rs and timelock.rs *)
(* are accounted for along every path: no token is made or lost, deposits  *)
(* are settled and no path repeats an action.                              *)
ProposalsAccounted == TokensConserved /\ DepositSettled /\ ActsAtMostTwice

(* After a fresh initialisation too an action takes effect without a vote  *)
(* only if it was queued before it, under the id that a new proposal has   *)
(* been given again.                                                       *)
UnvotedOnlyIfStale ==
    \A p \in Ids : paid'[p] > paid[p] /\ p \notin passed' =>
        \E a \in DOMAIN queue : Live(a) /\ queue[a].pid = p /\ queue[a].round < inits

(* What the theorems at the end rest on.  A vote that passed has settled   *)
(* its deposit and never goes back to voting; nothing else may be          *)
(* executed; an approved proposal waiting to be executed has not acted.    *)
VotesSettled ==
    \A p \in Ids :
      /\ p \in passed => /\ prop[p].status \in {"Succeeded", "Executed", "Cancelled", "Removed"}
                         /\ lock[p] = Nobody
      /\ prop[p].status \in {"Succeeded", "Executed"} => p \in passed
      /\ prop[p].status = "Pending" => lock[p] = prop[p].by
      /\ prop[p].status \in {"Absent", "Failed", "Withdrawn"} => lock[p] = Nobody
      /\ (p \notin passed \/ prop[p].status = "Succeeded") => paid[p] = 0

(* The queue holds a proposal once, only after its vote has passed, and    *)
(* while it waits to be executed its action waits too.                     *)
QueuedOnce ==
    /\ \A a, b \in DOMAIN queue : queue[a].pid = queue[b].pid => a = b
    /\ \A a \in DOMAIN queue :
         /\ queue[a].pid \in passed
         /\ prop[queue[a].pid].status = "Succeeded" => queue[a].state = "queued"

LifecycleInv ==
    /\ LifecycleTypeOK /\ TokensConserved /\ VotesSettled /\ QueuedOnce
    /\ ActsAtMostTwice

(* The grant is the vote: asked when created, granted when finalize_proposal
   finds it approved, and in effect each time its action is executed.      *)
PhaseOf(r, granted) ==
    CASE granted -> "granted"
      [] ~granted /\ r.status = "Absent" -> "absent"
      [] ~granted /\ r.status \in {"Pending", "Active"} -> "asked"
      [] OTHER -> "refused"
phase == [p \in Ids |-> PhaseOf(prop[p], p \in passed)]
ByVote == INSTANCE Approval WITH Items <- Ids, effects <- paid

(* Neither the direct path nor the timelock's queue executes a proposal    *)
(* that the vote has not approved: the queue never looks at the status     *)
(* again, so queue_action's guard has to be enough.                        *)
ExecutedOnlyIfGranted == ByVote!Spec

-----------------------------------------------------------------------------
(* Records, queue and amounts under the updates of the actions.            *)
LEMMA LifecycleConstants ==
    /\ N \in Nat /\ VotingDelay \in Nat /\ VotingPeriod \in Nat /\ ExecutionWindow \in Nat
    /\ QueueDelay \in Nat /\ Extension \in Nat /\ Deposit \in Nat /\ Spend \in Nat
    /\ Funds \in Nat /\ MaxProposals \in Nat /\ MaxTime \in Nat
BY LifecycleAssumption DEF LifecycleTyped

LEMMA ProposalExists ==
  ASSUME NEW r \in Records
  PROVE  /\ r.status \in ProposalStatus => r \in Proposal
         /\ r.status \in ProposalStatus \cup {"Absent", "Removed"}
         /\ r = Absent <=> r.status = "Absent"
BY DEF Records, Proposal, ProposalStatus, Absent, Removed

LEMMA StatusSet ==
  ASSUME NEW props \in [Ids -> Records], NEW p \in Ids, NEW s \in ProposalStatus, NEW up,
         props[p].status \in ProposalStatus, up = [props EXCEPT ![p].status = s]
  PROVE  /\ up \in [Ids -> Records] /\ up[p].status = s
         /\ up[p].by = props[p].by /\ props[p].by \in Users /\ props[p].ends \in Nat
         /\ \A q \in Ids : q # p => up[q] = props[q]
<1>1. props[p] \in Proposal
  BY ProposalExists
<1>2. /\ up[p] = [props[p] EXCEPT !.status = s] /\ DOMAIN up = Ids
      /\ \A q \in Ids : q # p => up[q] = props[q]
  BY DEF Proposal
<1>3. up[p] \in Proposal /\ up[p].status = s /\ up[p].by = props[p].by
  BY <1>1, <1>2 DEF Proposal
<1>4. \A q \in Ids : up[q] \in Records
  BY <1>2, <1>3 DEF Records
<1> QED BY <1>1, <1>2, <1>3, <1>4 DEF Proposal

LEMMA QueueExtended ==
  ASSUME NEW list \in Seq(QueuedAction), NEW e \in QueuedAction, NEW up, up = Append(list, e)
  PROVE  /\ up \in Seq(QueuedAction) /\ Len(list) \in Nat
         /\ DOMAIN list = 1..Len(list) /\ DOMAIN up = 1..(Len(list) + 1)
         /\ up[Len(list) + 1] = e
         /\ \A a \in DOMAIN list : up[a] = list[a]
BY LenProperties, AppendProperties

WithState(list, a, s) == [list EXCEPT ![a].state = s]

Moved(list, up, a, s) ==
    /\ up \in Seq(QueuedAction) /\ DOMAIN up = DOMAIN list
    /\ up[a].pid = list[a].pid /\ up[a].state = s /\ list[a].pid \in Ids
    /\ \A b \in DOMAIN list : b # a => up[b] = list[b]

LEMMA QueueMoved ==
  ASSUME NEW list \in Seq(QueuedAction), NEW a \in DOMAIN list, NEW s \in {"executed", "cancelled"},
         NEW up
  PROVE  up = WithState(list, a, s) => Moved(list, up, a, s)
<1> SUFFICES ASSUME up = WithState(list, a, s) PROVE Moved(list, up, a, s)
  OBVIOUS
<1>1. list[a] \in QueuedAction /\ DOMAIN list = 1..Len(list) /\ Len(list) \in Nat
  BY LenProperties, ElementOfSeq
<1>2. /\ up[a] = [list[a] EXCEPT !.state = s] /\ DOMAIN up = DOMAIN list
      /\ \A b \in DOMAIN list : b # a => up[b] = list[b]
  BY DEF WithState
<1>3. up[a] \in QueuedAction /\ up[a].pid = list[a].pid /\ up[a].state = s
  BY <1>1, <1>2 DEF QueuedAction
<1>4. \A b \in 1..Len(list) : up[b] \in QueuedAction
  <2>1. \A b \in 1..Len(list) : list[b] \in QueuedAction
    BY ElementOfSeq
  <2> QED BY <1>1, <1>2, <1>3, <2>1
<1>5. up \in [1..Len(list) -> QueuedAction]
  <2>1. up = [b \in 1..Len(list) |-> up[b]]
    BY <1>1 DEF WithState
  <2> QED BY <1>4, <2>1
<1>6. up \in Seq(QueuedAction)
  BY <1>1, <1>5, SeqDef
<1> QED BY <1>1, <1>2, <1>3, <1>6 DEF QueuedAction, Moved

(* Tables that agree everywhere but at j. *)
ChangedAt(new, old, j) == \A i \in DOMAIN old : i # j => new[i] = old[i]

LEMMA BalanceMoves ==
  ASSUME NEW b \in [Users -> Nat], NEW up \in [Users -> Nat], NEW u \in Users, ChangedAt(up, b, u)
  PROVE  Total(up, N) = Total(b, N) + up[u] - b[u] /\ Total(b, N) \in Int
<1>1. N \in Nat /\ b \in [1..N -> Int] /\ up \in [1..N -> Int] /\ u \in 1..N
      /\ \A i \in 1..N : i # u => up[i] = b[i]
  BY LifecycleConstants DEF Users, ChangedAt
<1>2. Total(up, N) = Total(b, N) + up[u] - b[u]
  BY <1>1, TotalChange, ZenonT(30)
<1> QED BY <1>1, <1>2, TotalInt

LEMMA LocksTyped ==
  ASSUME NEW locks \in [Ids -> Users \cup {Nobody}]
  PROVE  /\ Deposits(locks) \in [1..MaxProposals -> Int] /\ Total(Deposits(locks), MaxProposals) \in Int
<1>1. Deposits(locks) \in [1..MaxProposals -> Int]
  BY LifecycleConstants DEF Deposits, Ids
<1> QED BY <1>1, LifecycleConstants, TotalInt

LEMMA LockMoves ==
  ASSUME NEW locks \in [Ids -> Users \cup {Nobody}], NEW up \in [Ids -> Users \cup {Nobody}],
         NEW p \in Ids, ChangedAt(up, locks, p)
  PROVE  Total(Deposits(up), MaxProposals)
              = Total(Deposits(locks), MaxProposals) + Deposits(up)[p] - Deposits(locks)[p]
<1>1. \A q \in Ids : q # p => up[q] = locks[q]
  BY DEF ChangedAt
<1>2. Deposits(up) \in [1..MaxProposals -> Int] /\ Deposits(locks) \in [1..MaxProposals -> Int]
  BY LocksTyped
<1>3. p \in 1..MaxProposals /\ \A q \in 1..MaxProposals : q # p => Deposits(up)[q] = Deposits(locks)[q]
  BY <1>1 DEF Deposits, Ids
<1>4. Total(Deposits(up), MaxProposals)
        = Total(Deposits(locks), MaxProposals) + Deposits(up)[p] - Deposits(locks)[p]
  <2> DEFINE h == Deposits(up)
  <2> DEFINE f == Deposits(locks)
  <2>1. /\ MaxProposals \in Nat /\ h \in [1..MaxProposals -> Int] /\ f \in [1..MaxProposals -> Int]
        /\ p \in 1..MaxProposals /\ \A q \in 1..MaxProposals : q # p => h[q] = f[q]
    BY <1>2, <1>3, LifecycleConstants
  <2> HIDE DEF h, f
  <2>2. Total(h, MaxProposals) = Total(f, MaxProposals) + h[p] - f[p]
    BY <2>1, TotalChange, ZenonT(30)
  <2> QED BY <2>2 DEF h, f
<1> QED BY <1>4

-----------------------------------------------------------------------------
(* What the actions have in common.                                        *)
LEMMA TokensKept ==
  ASSUME TokensConserved, UNCHANGED <<balance, treasury, forfeited, lock>>
  PROVE  TokensConserved'
BY DEF TokensConserved, Deposits

LEMMA QueueKept ==
  ASSUME LifecycleTypeOK, QueuedOnce, UNCHANGED queue, passed \subseteq passed',
         \A p \in passed : prop'[p].status = "Succeeded" => prop[p].status = "Succeeded"
  PROVE  QueuedOnce'
BY DEF QueuedOnce, LifecycleTypeOK

LEMMA ActsKept ==
  ASSUME ActsAtMostTwice, UNCHANGED <<queue, paid>>
  PROVE  ActsAtMostTwice'
BY DEF ActsAtMostTwice, Live

(* execute_proposal_action pays what it takes from the treasury. *)
LEMMA ActionPays ==
  ASSUME LifecycleInv, NEW p \in Ids, execute_proposal_action(p, prop[p].by),
         UNCHANGED <<lock, forfeited>>
  PROVE  /\ balance' \in [Users -> Nat] /\ treasury' \in Nat /\ paid' \in [Ids -> Nat]
         /\ Exists(p) /\ paid'[p] = paid[p] + 1 /\ \A q \in Ids : q # p => paid'[q] = paid[q]
         /\ TokensConserved'
<1>1. Exists(p) /\ prop[p].by \in Users /\ (prop[p].kind = "spend" => treasury >= Spend)
  BY ProposalExists DEF execute_proposal_action, CanAct, Exists, LifecycleInv, LifecycleTypeOK, Proposal
<1>2. paid' \in [Ids -> Nat] /\ paid'[p] = paid[p] + 1 /\ \A q \in Ids : q # p => paid'[q] = paid[q]
  BY DEF execute_proposal_action, LifecycleInv, LifecycleTypeOK
<1>3. CASE prop[p].kind = "spend"
  <2>1. treasury' = treasury - Spend /\ balance' = [balance EXCEPT ![prop[p].by] = balance[prop[p].by] + Spend]
    BY <1>3 DEF execute_proposal_action
  <2>2. balance \in [Users -> Nat] /\ balance[prop[p].by] + Spend >= 0 /\ Spend \in Int /\ treasury \in Nat
        /\ treasury' \in Nat
    BY <1>1, <1>3, <2>1, LifecycleConstants DEF LifecycleInv, LifecycleTypeOK
  <2>3. balance' \in [Users -> Nat] /\ Total(balance', N) = Total(balance, N) + Spend /\ Total(balance, N) \in Int
    <3>1. /\ balance' \in [Users -> Nat] /\ balance'[prop[p].by] = balance[prop[p].by] + Spend
          /\ balance[prop[p].by] \in Nat /\ ChangedAt(balance', balance, prop[p].by)
      BY <1>1, <2>1, <2>2, LifecycleConstants DEF ChangedAt
    <3>2. Total(balance', N) = Total(balance, N) + balance'[prop[p].by] - balance[prop[p].by]
          /\ Total(balance, N) \in Int
      BY <1>1, <2>2, <3>1, BalanceMoves
    <3> QED BY <3>1, <3>2, LifecycleConstants
  <2>4. Total(Deposits(lock), MaxProposals) \in Int /\ Deposits(lock)' = Deposits(lock) /\ forfeited \in Nat
    BY LocksTyped DEF Deposits, LifecycleInv, LifecycleTypeOK
  <2>5. TokensConserved'
    BY <2>1, <2>2, <2>3, <2>4, LifecycleConstants DEF TokensConserved, LifecycleInv
  <2> QED BY <1>1, <1>2, <2>2, <2>3, <2>5
<1>4. CASE prop[p].kind # "spend"
  <2>1. UNCHANGED <<treasury, balance>>
    BY <1>4 DEF execute_proposal_action
  <2>2. TokensConserved'
    BY <2>1, TokensKept DEF LifecycleInv
  <2> QED BY <1>1, <1>2, <2>1, <2>2 DEF LifecycleInv, LifecycleTypeOK
<1> QED BY <1>3, <1>4

(* A deposit leaves the lock. *)
LEMMA Unlocked ==
  ASSUME LifecycleInv, NEW p \in Ids, lock[p] # Nobody, lock' = [lock EXCEPT ![p] = Nobody]
  PROVE  /\ lock' \in [Ids -> Users \cup {Nobody}] /\ lock'[p] = Nobody /\ lock[p] \in Users
         /\ \A q \in Ids : q # p => lock'[q] = lock[q]
         /\ Total(Deposits(lock'), MaxProposals) = Total(Deposits(lock), MaxProposals) - Deposit
         /\ Total(Deposits(lock), MaxProposals) \in Int
<1>1. lock \in [Ids -> Users \cup {Nobody}]
  BY DEF LifecycleInv, LifecycleTypeOK
<1>2. /\ lock' \in [Ids -> Users \cup {Nobody}] /\ lock'[p] = Nobody
      /\ \A q \in Ids : q # p => lock'[q] = lock[q]
  BY <1>1
<1>3. ChangedAt(lock', lock, p)
  BY <1>1, <1>2 DEF ChangedAt
<1>4. Total(Deposits(lock'), MaxProposals)
        = Total(Deposits(lock), MaxProposals) + Deposits(lock')[p] - Deposits(lock)[p]
  <2>1. lock' \in [Ids -> Users \cup {Nobody}]
    BY <1>2
  <2> QED BY <1>1, <1>3, <2>1, LockMoves
<1>5. Deposits(lock')[p] = 0 /\ Deposits(lock)[p] = Deposit
  BY <1>2 DEF Deposits
<1> QED BY <1>1, <1>2, <1>4, <1>5, LocksTyped, LifecycleConstants

Credit(b, u, d) == [b EXCEPT ![u] = b[u] + d]
LEMMA Credited ==
  ASSUME NEW b \in [Users -> Nat], NEW u \in Users, NEW d \in Nat, NEW up, up = Credit(b, u, d)
  PROVE  up \in [Users -> Nat] /\ Total(up, N) = Total(b, N) + d /\ Total(b, N) \in Int
<1>1. up \in [Users -> Nat] /\ up[u] = b[u] + d /\ b[u] \in Nat /\ ChangedAt(up, b, u)
  BY DEF ChangedAt, Credit
<1>2. Total(up, N) = Total(b, N) + up[u] - b[u] /\ Total(b, N) \in Int
  BY <1>1, BalanceMoves
<1> QED BY <1>1, <1>2

(* settle_proposal_deposit moves a deposit to one side or the other. *)
LEMMA SettleKeeps ==
  ASSUME LifecycleInv, NEW p \in Ids, NEW b \in [Users -> Nat], settle_proposal_deposit(p, b)
  PROVE  /\ balance' \in [Users -> Nat] /\ forfeited' \in Nat
         /\ lock' \in [Ids -> Users \cup {Nobody}] /\ lock'[p] = Nobody
         /\ \A q \in Ids : q # p => lock'[q] = lock[q]
         /\ Total(balance', N) + forfeited' + Total(Deposits(lock'), MaxProposals)
              = Total(b, N) + forfeited + Total(Deposits(lock), MaxProposals)
<1>0. /\ lock \in [Ids -> Users \cup {Nobody}] /\ forfeited \in Nat /\ Deposit \in Nat
      /\ Total(Deposits(lock), MaxProposals) \in Int /\ Total(b, N) \in Int
  <2>1. N \in Nat /\ b \in [1..N -> Int]
    BY LifecycleConstants DEF Users
  <2>2. Total(b, N) \in Int
    BY <2>1, TotalInt
  <2> QED BY <2>2, LocksTyped, LifecycleConstants DEF LifecycleInv, LifecycleTypeOK
<1>1. CASE lock[p] = Nobody
  <2>1. balance' = b /\ lock' = lock /\ forfeited' = forfeited
    BY <1>1 DEF settle_proposal_deposit
  <2> QED BY <1>0, <1>1, <2>1
<1>2. CASE lock[p] # Nobody
  <2>1. /\ lock' \in [Ids -> Users \cup {Nobody}] /\ lock'[p] = Nobody /\ lock[p] \in Users
        /\ \A q \in Ids : q # p => lock'[q] = lock[q]
        /\ Total(Deposits(lock'), MaxProposals) = Total(Deposits(lock), MaxProposals) - Deposit
    BY <1>2, Unlocked DEF settle_proposal_deposit
  <2>2. \/ balance' = [b EXCEPT ![lock[p]] = @ + Deposit] /\ forfeited' = forfeited
        \/ balance' = b /\ forfeited' = forfeited + Deposit
    BY <1>2 DEF settle_proposal_deposit
  <2>3. CASE balance' = [b EXCEPT ![lock[p]] = @ + Deposit] /\ forfeited' = forfeited
    <3>1. balance' \in [Users -> Nat] /\ Total(balance', N) = Total(b, N) + Deposit
      <4>1. balance' = Credit(b, lock[p], Deposit)
        BY <2>3 DEF Credit
      <4> QED BY <1>0, <2>1, <4>1, Credited
    <3> QED BY <1>0, <2>1, <2>3, <3>1
  <2>4. CASE balance' = b /\ forfeited' = forfeited + Deposit
    BY <1>0, <2>1, <2>4
  <2> QED BY <2>2, <2>3, <2>4
<1> QED BY <1>1, <1>2

-----------------------------------------------------------------------------
(* The invariant, action by action.                                        *)
LEMMA LifecycleBegins ==
  ASSUME LifecycleInit PROVE LifecycleInv
<1>1. LifecycleTypeOK
  <2>1. queue \in Seq(QueuedAction)
    BY DEF LifecycleInit
  <2>2. prop \in [Ids -> Records] /\ lock \in [Ids -> Users \cup {Nobody}] /\ balance \in [Users -> Nat]
        /\ paid \in [Ids -> Nat]
    BY LifecycleConstants DEF LifecycleInit, Records
  <2>3. now \in 0..MaxTime /\ treasury \in Nat /\ forfeited \in Nat /\ passed \subseteq Ids
    BY LifecycleConstants DEF LifecycleInit
  <2>4. paused \in BOOLEAN /\ inits \in Nat
    BY DEF LifecycleInit
  <2> QED BY <2>1, <2>2, <2>3, <2>4 DEF LifecycleTypeOK
<1>2. TokensConserved
  <2>1. Deposits(lock) = [p \in 1..MaxProposals |-> 0]
    BY DEF LifecycleInit, Deposits, Ids, Nobody
  <2>2. Total(Deposits(lock), MaxProposals) = 0
    BY <2>1, TotalZero, LifecycleConstants
  <2>3. Total(balance, N) \in Int
    <3>1. balance \in [1..N -> Int]
      BY LifecycleConstants DEF LifecycleInit, Users
    <3> QED BY <3>1, LifecycleConstants, TotalInt
  <2> QED BY <2>2, <2>3, LifecycleConstants DEF LifecycleInit, TokensConserved
<1>3. VotesSettled
  BY DEF LifecycleInit, VotesSettled, Absent
<1>4. QueuedOnce /\ ActsAtMostTwice
  BY LifecycleConstants DEF LifecycleInit, QueuedOnce, ActsAtMostTwice, Live
<1> QED BY <1>1, <1>2, <1>3, <1>4 DEF LifecycleInv

LEMMA QuietInv ==
  ASSUME LifecycleInv, \/ Tick \/ \E b \in BOOLEAN : SetPaused(b)
  PROVE  LifecycleInv'
<1>1. /\ UNCHANGED <<inits, prop, lock, queue, treasury, forfeited, balance, paid, passed>>
      /\ now' \in 0..MaxTime /\ paused' \in BOOLEAN
  BY LifecycleConstants DEF Tick, SetPaused, tokens, LifecycleInv, LifecycleTypeOK
<1>2. LifecycleTypeOK' /\ VotesSettled'
  BY <1>1 DEF LifecycleInv, LifecycleTypeOK, VotesSettled
<1> QED BY <1>1, <1>2, TokensKept, QueueKept, ActsKept DEF LifecycleInv

LEMMA CreateInv ==
  ASSUME LifecycleInv, NEW u \in Users, NEW kind \in {"spend", "other"}, CreateProposal(u, kind)
  PROVE  LifecycleInv'
<1>1. PICK p \in Ids :
        /\ prop[p] = Absent /\ create_proposal(p, u, kind) /\ lock_proposal_deposit(p, u)
        /\ UNCHANGED <<now, inits, paused, queue, treasury, forfeited, paid, passed>>
  BY DEF CreateProposal
<1> DEFINE r == [status |-> "Pending", by |-> u, kind |-> kind, starts |-> now + VotingDelay,
                 ends |-> now + VotingDelay + VotingPeriod, votes |-> [v \in Users |-> "None"]]
<1>2. r \in Proposal
  <2>1. now \in Nat
    BY LifecycleConstants DEF LifecycleInv, LifecycleTypeOK
  <2> QED BY <2>1, LifecycleConstants DEF Proposal, ProposalStatus
<1>3. /\ prop' \in [Ids -> Records] /\ prop'[p].status = "Pending" /\ prop'[p].by = u
      /\ \A q \in Ids : q # p => prop'[q] = prop[q]
  <2>1. prop' = [prop EXCEPT ![p] = r] /\ prop \in [Ids -> Records]
    BY <1>1 DEF create_proposal, LifecycleInv, LifecycleTypeOK
  <2>2. prop'[p] = r /\ r.status = "Pending" /\ r.by = u /\ \A q \in Ids : q # p => prop'[q] = prop[q]
    BY <2>1
  <2> HIDE DEF r
  <2> QED BY <1>2, <2>1, <2>2 DEF Records
<1>4. lock[p] = Nobody /\ p \notin passed /\ prop[p].status = "Absent"
  BY <1>1 DEF LifecycleInv, VotesSettled, Absent
<1>5. /\ balance' = [balance EXCEPT ![u] = balance[u] - Deposit] /\ balance[u] >= Deposit
      /\ lock' = [lock EXCEPT ![p] = u]
  BY <1>1 DEF lock_proposal_deposit
<1>6. balance' \in [Users -> Nat] /\ Total(balance', N) = Total(balance, N) - Deposit /\ Total(balance, N) \in Int
  <2>1. balance \in [Users -> Nat] /\ Deposit \in Nat
    BY LifecycleConstants DEF LifecycleInv, LifecycleTypeOK
  <2>2. /\ balance' \in [Users -> Nat] /\ balance'[u] = balance[u] - Deposit
        /\ ChangedAt(balance', balance, u) /\ balance[u] \in Nat
    BY <1>5, <2>1 DEF ChangedAt
  <2>3. Total(balance', N) = Total(balance, N) + balance'[u] - balance[u] /\ Total(balance, N) \in Int
    BY <2>1, <2>2, BalanceMoves
  <2> QED BY <2>1, <2>2, <2>3
<1>7. /\ lock' \in [Ids -> Users \cup {Nobody}] /\ lock'[p] = u
      /\ \A q \in Ids : q # p => lock'[q] = lock[q]
      /\ Total(Deposits(lock'), MaxProposals)
              = Total(Deposits(lock), MaxProposals) + Deposits(lock')[p] - Deposits(lock)[p]
  <2>1. lock \in [Ids -> Users \cup {Nobody}] /\ u \in Users \cup {Nobody}
    BY DEF LifecycleInv, LifecycleTypeOK
  <2>2. /\ lock' \in [Ids -> Users \cup {Nobody}] /\ lock'[p] = u
        /\ \A q \in Ids : q # p => lock'[q] = lock[q]
    BY <1>5, <2>1
  <2>3. ChangedAt(lock', lock, p)
    BY <2>1, <2>2 DEF ChangedAt
  <2> QED BY <2>1, <2>2, <2>3, LockMoves
<1>8. Deposits(lock')[p] = Deposit /\ Deposits(lock)[p] = 0
  BY <1>4, <1>7 DEF Deposits, Users, Nobody
<1>9. TokensConserved'
  <2>1. Total(Deposits(lock), MaxProposals) \in Int
    BY LocksTyped DEF LifecycleInv, LifecycleTypeOK
  <2>2. /\ Total(balance, N) + treasury + forfeited + Total(Deposits(lock), MaxProposals)
             = Total([v \in Users |-> MaxProposals * Deposit], N) + Funds
        /\ treasury \in Nat /\ forfeited \in Nat /\ treasury' = treasury /\ forfeited' = forfeited
    BY <1>1 DEF TokensConserved, LifecycleInv, LifecycleTypeOK
  <2>3. Deposits(lock)' = Deposits(lock')
    BY DEF Deposits
  <2> QED BY <1>6, <1>7, <1>8, <2>1, <2>2, <2>3, LifecycleConstants DEF TokensConserved
<1>10. LifecycleTypeOK'
  BY <1>1, <1>3, <1>6, <1>7 DEF LifecycleInv, LifecycleTypeOK
<1>11. VotesSettled'
  BY <1>1, <1>3, <1>4, <1>7 DEF LifecycleInv, VotesSettled
<1>12. QueuedOnce' /\ ActsAtMostTwice'
  BY <1>1, <1>3, <1>4, QueueKept, ActsKept DEF LifecycleInv, LifecycleTypeOK
<1> QED BY <1>9, <1>10, <1>11, <1>12 DEF LifecycleInv

LEMMA VoteInv ==
  ASSUME LifecycleInv, NEW p \in Ids, NEW v \in Users, NEW vt \in VoteType, CastReputationVote(p, v, vt)
  PROVE  LifecycleInv'
<1>1. /\ prop[p].status \in {"Pending", "Active"} /\ prop[p] \in Proposal
      /\ prop' = [prop EXCEPT ![p].votes[v] = vt, ![p].status = "Active"]
      /\ prop \in [Ids -> Records]
  BY ProposalExists DEF CastReputationVote, cast_vote, Exists, LifecycleInv, LifecycleTypeOK
<1>2. UNCHANGED <<now, inits, paused, lock, queue, treasury, forfeited, balance, paid, passed>>
  BY DEF CastReputationVote, tokens
<1>3. /\ prop' \in [Ids -> Records] /\ prop'[p].status = "Active"
      /\ \A q \in Ids : q # p => prop'[q] = prop[q]
  <2> DEFINE r == [[prop[p] EXCEPT !.votes[v] = vt] EXCEPT !.status = "Active"]
  <2>1. prop' = [prop EXCEPT ![p] = r]
    BY <1>1
  <2>2. [prop[p] EXCEPT !.votes[v] = vt] \in Proposal
    BY <1>1 DEF Proposal
  <2>3. r \in Proposal /\ r.status = "Active"
    BY <2>2 DEF Proposal, ProposalStatus
  <2> HIDE DEF r
  <2> QED BY <1>1, <2>1, <2>3 DEF Records
<1>4. p \notin passed
  BY <1>1 DEF LifecycleInv, VotesSettled
<1>5. LifecycleTypeOK'
  BY <1>2, <1>3 DEF LifecycleInv, LifecycleTypeOK
<1>6. VotesSettled'
  BY <1>2, <1>3, <1>4 DEF LifecycleInv, VotesSettled
<1>7. QueuedOnce'
  BY <1>2, <1>3, <1>4, QueueKept DEF LifecycleInv, LifecycleTypeOK
<1> QED BY <1>2, <1>5, <1>6, <1>7, TokensKept, ActsKept DEF LifecycleInv

(* A status set without tokens moving: cancel_proposal, and what           *)
(* cancel_queued_action does to the proposal.                              *)
LEMMA CancelInv ==
  ASSUME LifecycleInv, NEW p \in Ids, NEW who, CancelProposal(p, who)
  PROVE  LifecycleInv'
<1>1. /\ prop \in [Ids -> Records] /\ prop[p].status \in ProposalStatus
      /\ prop' = [prop EXCEPT ![p].status = "Cancelled"] /\ "Cancelled" \in ProposalStatus
  BY DEF CancelProposal, SetStatus, Exists, LifecycleInv, LifecycleTypeOK, ProposalStatus
<1>2. UNCHANGED <<now, inits, paused, lock, queue, treasury, forfeited, balance, paid, passed>>
  BY DEF CancelProposal, tokens
<1>3. /\ prop' \in [Ids -> Records] /\ prop'[p].status = "Cancelled"
      /\ \A q \in Ids : q # p => prop'[q] = prop[q]
  BY <1>1, StatusSet
<1>5. LifecycleTypeOK'
  BY <1>2, <1>3 DEF LifecycleInv, LifecycleTypeOK
<1>6. VotesSettled'
  BY <1>2, <1>3 DEF LifecycleInv, VotesSettled
<1>7. QueuedOnce'
  BY <1>2, <1>3, QueueKept DEF LifecycleInv, LifecycleTypeOK
<1> QED BY <1>2, <1>5, <1>6, <1>7, TokensKept, ActsKept DEF LifecycleInv

LEMMA ExecuteInv ==
  ASSUME LifecycleInv, NEW p \in Ids, ExecuteProposal(p)
  PROVE  LifecycleInv'
<1>1. /\ prop \in [Ids -> Records] /\ prop[p].status = "Succeeded" /\ prop[p].status \in ProposalStatus
      /\ prop' = [prop EXCEPT ![p].status = "Executed"] /\ "Executed" \in ProposalStatus
  BY DEF ExecuteProposal, SetStatus, Exists, LifecycleInv, LifecycleTypeOK, ProposalStatus
<1>2. UNCHANGED <<now, inits, paused, lock, queue, forfeited, passed>>
  BY DEF ExecuteProposal
<1>3. /\ prop' \in [Ids -> Records] /\ prop'[p].status = "Executed"
      /\ \A q \in Ids : q # p => prop'[q] = prop[q]
  BY <1>1, StatusSet
<1>4. /\ balance' \in [Users -> Nat] /\ treasury' \in Nat /\ paid' \in [Ids -> Nat]
      /\ paid'[p] = paid[p] + 1 /\ \A q \in Ids : q # p => paid'[q] = paid[q]
      /\ TokensConserved'
  BY <1>2, ActionPays DEF ExecuteProposal
<1>5. LifecycleTypeOK'
  BY <1>2, <1>3, <1>4 DEF LifecycleInv, LifecycleTypeOK
<1>6. p \in passed /\ paid[p] = 0
  BY <1>1 DEF LifecycleInv, VotesSettled
<1>7. VotesSettled'
  BY <1>2, <1>3, <1>4, <1>6 DEF LifecycleInv, VotesSettled
<1>8. QueuedOnce'
  BY <1>2, <1>3, QueueKept DEF LifecycleInv, LifecycleTypeOK
<1>9. ActsAtMostTwice'
  <2>1. paid'[p] = 1 /\ \A q \in Ids : q # p => paid'[q] = paid[q]
    BY <1>4, <1>6
  <2>2. \A q \in Ids : paid'[q] <= 2
    <3>1. \A q \in Ids : paid[q] <= 2
      BY DEF LifecycleInv, ActsAtMostTwice
    <3> QED BY <2>1, <3>1
  <2>3. \A a \in DOMAIN queue : Live(a) => paid'[queue[a].pid] <= 1
    <3>1. \A a \in DOMAIN queue : queue[a].pid \in Ids /\ (Live(a) => paid[queue[a].pid] <= 1)
      BY DEF LifecycleInv, LifecycleTypeOK, QueuedOnce, ActsAtMostTwice
    <3> QED BY <2>1, <3>1
  <2> QED BY <1>2, <2>2, <2>3 DEF ActsAtMostTwice, Live
<1> QED BY <1>4, <1>5, <1>7, <1>8, <1>9 DEF LifecycleInv

LEMMA WithdrawInv ==
  ASSUME LifecycleInv, NEW p \in Ids, WithdrawProposal(p)
  PROVE  LifecycleInv'
<1>1. /\ prop \in [Ids -> Records] /\ prop[p].status = "Pending" /\ prop[p].status \in ProposalStatus
      /\ prop' = [prop EXCEPT ![p].status = "Withdrawn"] /\ "Withdrawn" \in ProposalStatus
  BY DEF WithdrawProposal, withdraw_proposal, SetStatus, Exists, LifecycleInv, LifecycleTypeOK, ProposalStatus
<1>2. UNCHANGED <<now, inits, paused, queue, treasury, forfeited, paid, passed>>
  BY DEF WithdrawProposal
<1>3. /\ prop' \in [Ids -> Records] /\ prop'[p].status = "Withdrawn" /\ prop[p].by \in Users
      /\ \A q \in Ids : q # p => prop'[q] = prop[q]
  BY <1>1, StatusSet
<1>4. lock[p] = prop[p].by /\ lock[p] # Nobody /\ p \notin passed
  BY <1>1, <1>3 DEF LifecycleInv, VotesSettled, Users, Nobody
<1>5. /\ balance' = [balance EXCEPT ![prop[p].by] = @ + Deposit]
      /\ lock' = [lock EXCEPT ![p] = Nobody]
  BY <1>4 DEF WithdrawProposal, withdraw_proposal
<1>6. /\ lock' \in [Ids -> Users \cup {Nobody}] /\ lock'[p] = Nobody
      /\ \A q \in Ids : q # p => lock'[q] = lock[q]
      /\ Total(Deposits(lock'), MaxProposals) = Total(Deposits(lock), MaxProposals) - Deposit
      /\ Total(Deposits(lock), MaxProposals) \in Int
  BY <1>4, <1>5, Unlocked
<1>7. balance' \in [Users -> Nat] /\ Total(balance', N) = Total(balance, N) + Deposit /\ Total(balance, N) \in Int
  <2>1. balance \in [Users -> Nat] /\ Deposit \in Nat
    BY LifecycleConstants DEF LifecycleInv, LifecycleTypeOK
  <2>2. balance' = Credit(balance, prop[p].by, Deposit)
    BY <1>5 DEF Credit
  <2> QED BY <1>3, <2>1, <2>2, Credited
<1>8. TokensConserved'
  <2>1. /\ Total(balance, N) + treasury + forfeited + Total(Deposits(lock), MaxProposals)
             = Total([v \in Users |-> MaxProposals * Deposit], N) + Funds
        /\ treasury \in Nat /\ forfeited \in Nat /\ treasury' = treasury /\ forfeited' = forfeited
    BY <1>2 DEF TokensConserved, LifecycleInv, LifecycleTypeOK
  <2>2. Deposits(lock)' = Deposits(lock')
    BY DEF Deposits
  <2> QED BY <1>6, <1>7, <2>1, <2>2, LifecycleConstants DEF TokensConserved
<1>9. LifecycleTypeOK'
  BY <1>2, <1>3, <1>6, <1>7 DEF LifecycleInv, LifecycleTypeOK
<1>10. VotesSettled'
  BY <1>2, <1>3, <1>4, <1>6 DEF LifecycleInv, VotesSettled
<1>11. QueuedOnce'
  BY <1>2, <1>3, QueueKept DEF LifecycleInv, LifecycleTypeOK
<1> QED BY <1>2, <1>8, <1>9, <1>10, <1>11, ActsKept DEF LifecycleInv

(* finalize_proposal: the vote decides, an execution without delay pays,   *)
(* and the deposit is settled on the balances that leaves.                 *)
LEMMA FinalizeInv ==
  ASSUME LifecycleInv, NEW p \in Ids, FinalizeProposal(p)
  PROVE  LifecycleInv'
<1> DEFINE ok == quorum_met(p) /\ approved(p)
<1> DEFINE act == ok /\ ExecutionDelay = 0 /\ CanAct(p) /\ now <= execution_deadline(p)
<1> DEFINE spent == act /\ prop[p].kind = "spend"
<1> DEFINE s == IF act THEN "Executed" ELSE IF ok THEN "Succeeded" ELSE "Failed"
<1> DEFINE b == IF spent THEN Credit(balance, prop[p].by, Spend) ELSE balance
<1>1. /\ prop \in [Ids -> Records] /\ prop[p].status \in {"Pending", "Active"}
      /\ prop[p].status \in ProposalStatus /\ s \in ProposalStatus
  BY DEF FinalizeProposal, finalize_proposal, Exists, LifecycleInv, LifecycleTypeOK, ProposalStatus
<1>2. /\ prop' = [prop EXCEPT ![p].status = s]
      /\ passed' = IF ok THEN passed \cup {p} ELSE passed
      /\ paid' = IF act THEN [paid EXCEPT ![p] = @ + 1] ELSE paid
      /\ treasury' = IF spent THEN treasury - Spend ELSE treasury
      /\ UNCHANGED <<now, inits, paused, queue>>
  BY DEF FinalizeProposal, SetStatus
<1>3. settle_proposal_deposit(p, b)
  BY DEF FinalizeProposal, Credit
<1>4. /\ act => ok /\ s = "Executed"
      /\ ok /\ ~act => s = "Succeeded"
      /\ ~ok => s = "Failed" /\ ~act
      /\ spent => act /\ treasury >= Spend
  BY DEF CanAct
<1> HIDE DEF ok, act, spent, s, b
<1>5. /\ prop' \in [Ids -> Records] /\ prop'[p].status = s /\ prop[p].by \in Users
      /\ \A q \in Ids : q # p => prop'[q] = prop[q]
  BY <1>1, <1>2, StatusSet
<1>6. /\ b \in [Users -> Nat] /\ treasury' \in Nat /\ treasury \in Nat /\ Total(balance, N) \in Int
      /\ Total(b, N) + treasury' = Total(balance, N) + treasury /\ Total(b, N) \in Int
  <2>1. balance \in [Users -> Nat] /\ treasury \in Nat /\ Spend \in Nat
    BY LifecycleConstants DEF LifecycleInv, LifecycleTypeOK
  <2>2. Total(balance, N) \in Int
    <3>1. N \in Nat /\ balance \in [1..N -> Int]
      BY <2>1, LifecycleConstants DEF Users
    <3> QED BY <3>1, TotalInt
  <2>3. CASE spent
    <3>1. b = Credit(balance, prop[p].by, Spend)
      BY <2>3 DEF b
    <3>2. b \in [Users -> Nat] /\ Total(b, N) = Total(balance, N) + Spend
      BY <1>5, <2>1, <3>1, Credited
    <3> QED BY <1>2, <1>4, <2>1, <2>2, <2>3, <3>2
  <2>4. CASE ~spent
    <3>1. b = balance
      BY <2>4 DEF b
    <3> QED BY <1>2, <2>1, <2>2, <2>4, <3>1
  <2> QED BY <2>3, <2>4
<1>7. /\ balance' \in [Users -> Nat] /\ forfeited' \in Nat
      /\ lock' \in [Ids -> Users \cup {Nobody}] /\ lock'[p] = Nobody
      /\ \A q \in Ids : q # p => lock'[q] = lock[q]
      /\ Total(balance', N) + forfeited' + Total(Deposits(lock'), MaxProposals)
           = Total(b, N) + forfeited + Total(Deposits(lock), MaxProposals)
  BY <1>3, <1>6, SettleKeeps
<1>8. /\ paid' \in [Ids -> Nat] /\ (act => paid'[p] = paid[p] + 1) /\ (~act => paid'[p] = paid[p])
      /\ \A q \in Ids : q # p => paid'[q] = paid[q]
  BY <1>2 DEF LifecycleInv, LifecycleTypeOK
<1>9. p \notin passed /\ paid[p] = 0
  BY <1>1 DEF LifecycleInv, VotesSettled
<1>10. LifecycleTypeOK'
  BY <1>2, <1>5, <1>6, <1>7, <1>8 DEF LifecycleInv, LifecycleTypeOK
<1>11. TokensConserved'
  <2>1. /\ Total(balance, N) + treasury + forfeited + Total(Deposits(lock), MaxProposals)
             = Total([v \in Users |-> MaxProposals * Deposit], N) + Funds
        /\ forfeited \in Nat /\ Total(Deposits(lock), MaxProposals) \in Int
    BY LocksTyped DEF TokensConserved, LifecycleInv, LifecycleTypeOK
  <2>2. Deposits(lock)' = Deposits(lock')
    BY DEF Deposits
  <2>3. Total(balance', N) \in Int /\ Total(Deposits(lock'), MaxProposals) \in Int
    <3>1. N \in Nat /\ balance' \in [1..N -> Int]
      BY <1>7, LifecycleConstants DEF Users
    <3> QED BY <1>7, <3>1, TotalInt, LocksTyped
  <2> QED BY <1>6, <1>7, <2>1, <2>2, <2>3 DEF TokensConserved
<1>12. VotesSettled'
  BY <1>2, <1>4, <1>5, <1>7, <1>8, <1>9 DEF LifecycleInv, VotesSettled
<1>13. QueuedOnce'
  BY <1>2, <1>5, <1>9, QueueKept DEF LifecycleInv, LifecycleTypeOK
<1>14. ActsAtMostTwice'
  BY <1>2, <1>8, <1>9 DEF LifecycleInv, LifecycleTypeOK, QueuedOnce, ActsAtMostTwice, Live
<1> QED BY <1>10, <1>11, <1>12, <1>13, <1>14 DEF LifecycleInv

(* A proposal that is removed keeps its vote, its payments and its queue.  *)
LEMMA RemovedRecord ==
    Removed \in Records /\ Removed.status = "Removed"
BY DEF Records, Removed

LEMMA ReclaimInv ==
  ASSUME LifecycleInv, NEW p \in Ids, ReclaimExpiredProposal(p)
  PROVE  LifecycleInv'
<1>1. prop' = [prop EXCEPT ![p] = Removed] /\ prop \in [Ids -> Records] /\ prop[p].status = "Succeeded"
  BY DEF ReclaimExpiredProposal, reclaim_expired_proposal, LifecycleInv, LifecycleTypeOK
<1>2. UNCHANGED <<now, inits, paused, lock, queue, treasury, forfeited, balance, paid, passed>>
  BY DEF ReclaimExpiredProposal, tokens
<1>3. /\ prop' \in [Ids -> Records] /\ prop'[p].status = "Removed"
      /\ \A q \in Ids : q # p => prop'[q] = prop[q]
  BY <1>1, RemovedRecord
<1>4. LifecycleTypeOK'
  BY <1>2, <1>3 DEF LifecycleInv, LifecycleTypeOK
<1>5. VotesSettled'
  BY <1>2, <1>3 DEF LifecycleInv, VotesSettled
<1>6. QueuedOnce'
  BY <1>2, <1>3, QueueKept DEF LifecycleInv, LifecycleTypeOK
<1> QED BY <1>2, <1>4, <1>5, <1>6, TokensKept, ActsKept DEF LifecycleInv

LEMMA CleanupInv ==
  ASSUME LifecycleInv, CleanupProposals
  PROVE  LifecycleInv'
<1> DEFINE terminal == {p \in Ids : Exists(p) /\ effective_status(p) \in
                           {"Failed", "Executed", "Cancelled", "Expired", "Withdrawn"}}
<1>1. prop' = [p \in Ids |-> IF p \in terminal THEN Removed ELSE prop[p]] /\ prop \in [Ids -> Records]
  BY DEF CleanupProposals, cleanup_terminal_proposals, LifecycleInv, LifecycleTypeOK
<1> HIDE DEF terminal
<1>2. UNCHANGED <<now, inits, paused, lock, queue, treasury, forfeited, balance, paid, passed>>
  BY DEF CleanupProposals, tokens
<1>3. /\ prop' \in [Ids -> Records]
      /\ \A q \in Ids : prop'[q] = prop[q] \/ prop'[q].status = "Removed"
  BY <1>1, RemovedRecord
<1>4. LifecycleTypeOK'
  BY <1>2, <1>3 DEF LifecycleInv, LifecycleTypeOK
<1>5. VotesSettled'
  BY <1>2, <1>3 DEF LifecycleInv, VotesSettled
<1>6. QueuedOnce'
  BY <1>2, <1>3, QueueKept DEF LifecycleInv, LifecycleTypeOK
<1> QED BY <1>2, <1>4, <1>5, <1>6, TokensKept, ActsKept DEF LifecycleInv

-----------------------------------------------------------------------------
(* The execution queue.                                                    *)
LEMMA QueueInv ==
  ASSUME LifecycleInv, NEW p \in Ids, QueueAction(p)
  PROVE  LifecycleInv'
<1> DEFINE e == [pid |-> p, available |-> now + QueueDelay,
                 round |-> inits, state |-> "queued"]
<1>1. /\ prop[p].status = "Succeeded" /\ queue' = Append(queue, e)
      /\ \A a \in DOMAIN queue : queue[a].pid = p => queue[a].state # "queued"
      /\ UNCHANGED <<now, inits, paused, prop, lock, treasury, forfeited, balance, paid, passed>>
  BY DEF QueueAction, queue_action, Live, tokens
<1>2. e \in QueuedAction /\ e.pid = p /\ e.state = "queued" /\ queue \in Seq(QueuedAction)
  BY LifecycleConstants DEF QueuedAction, LifecycleInv, LifecycleTypeOK
<1> HIDE DEF e
<1>3. /\ queue' \in Seq(QueuedAction) /\ Len(queue) \in Nat
      /\ DOMAIN queue = 1..Len(queue) /\ DOMAIN queue' = 1..(Len(queue) + 1)
      /\ queue'[Len(queue) + 1] = e
      /\ \A a \in DOMAIN queue : queue'[a] = queue[a]
  BY <1>1, <1>2, QueueExtended
<1>4. p \in passed /\ \A a \in DOMAIN queue : queue[a].pid # p
  BY <1>1 DEF LifecycleInv, VotesSettled, QueuedOnce
<1>5. LifecycleTypeOK'
  BY <1>1, <1>3 DEF LifecycleInv, LifecycleTypeOK
<1>6. VotesSettled'
  BY <1>1 DEF LifecycleInv, VotesSettled
<1>7. QueuedOnce'
  <2>1. \A a \in DOMAIN queue' : a \in DOMAIN queue \/ (a = Len(queue) + 1 /\ a \notin DOMAIN queue)
    BY <1>3
  <2>2. ASSUME NEW a \in DOMAIN queue', NEW b \in DOMAIN queue', queue'[a].pid = queue'[b].pid
        PROVE  a = b
    BY <1>2, <1>3, <1>4, <2>1, <2>2 DEF LifecycleInv, QueuedOnce
  <2>3. ASSUME NEW a \in DOMAIN queue'
        PROVE  /\ queue'[a].pid \in passed'
               /\ prop'[queue'[a].pid].status = "Succeeded" => queue'[a].state = "queued"
    BY <1>1, <1>2, <1>3, <1>4, <2>1 DEF LifecycleInv, QueuedOnce
  <2> QED BY <2>2, <2>3 DEF QueuedOnce
<1>8. ActsAtMostTwice'
  <2>1. paid' = paid /\ paid[p] = 0 /\ \A q \in Ids : paid[q] <= 2
    BY <1>1 DEF LifecycleInv, VotesSettled, ActsAtMostTwice
  <2>2. ASSUME NEW a \in DOMAIN queue', queue'[a].state = "queued"
        PROVE  paid'[queue'[a].pid] <= 1
    <3>1. CASE a \in DOMAIN queue
      BY <1>3, <2>1, <2>2, <3>1 DEF LifecycleInv, ActsAtMostTwice, Live
    <3>2. CASE a = Len(queue) + 1
      BY <1>2, <1>3, <2>1, <3>2
    <3> QED BY <1>3, <3>1, <3>2
  <2> QED BY <2>1, <2>2 DEF ActsAtMostTwice, Live
<1> QED BY <1>1, <1>5, <1>6, <1>7, <1>8, TokensKept DEF LifecycleInv

LEMMA RunInv ==
  ASSUME LifecycleInv, NEW a \in DOMAIN queue, RunAction(a)
  PROVE  LifecycleInv'
<1> DEFINE p == queue[a].pid
<1>1. /\ queue[a].state = "queued" /\ queue' = WithState(queue, a, "executed")
      /\ execute_proposal_action(p, prop[p].by) /\ prop' = [prop EXCEPT ![p].status = "Executed"]
      /\ UNCHANGED <<now, inits, paused, lock, forfeited, passed>>
  BY DEF RunAction, Live, SetStatus, WithState
<1>2. queue \in Seq(QueuedAction) /\ prop \in [Ids -> Records]
  BY DEF LifecycleInv, LifecycleTypeOK
<1>3. /\ queue' \in Seq(QueuedAction) /\ DOMAIN queue' = DOMAIN queue
      /\ queue'[a].pid = p /\ queue'[a].state = "executed" /\ p \in Ids
      /\ \A b \in DOMAIN queue : b # a => queue'[b] = queue[b]
  <2>1. Moved(queue, queue', a, "executed")
    BY <1>1, <1>2, QueueMoved
  <2> QED BY <2>1 DEF Moved
<1>4. p \in passed /\ \A b \in DOMAIN queue : queue[b].pid = p => b = a
  BY DEF LifecycleInv, QueuedOnce
<1> HIDE DEF p
<1>5. /\ balance' \in [Users -> Nat] /\ treasury' \in Nat /\ paid' \in [Ids -> Nat]
      /\ Exists(p) /\ paid'[p] = paid[p] + 1 /\ \A q \in Ids : q # p => paid'[q] = paid[q]
      /\ TokensConserved'
  BY <1>1, <1>3, ActionPays
<1>6. /\ prop' \in [Ids -> Records] /\ prop'[p].status = "Executed"
      /\ \A q \in Ids : q # p => prop'[q] = prop[q]
  <2>1. prop[p].status \in ProposalStatus /\ "Executed" \in ProposalStatus
    BY <1>5 DEF Exists, ProposalStatus
  <2>2. prop' = [prop EXCEPT ![p].status = "Executed"] /\ prop \in [Ids -> Records] /\ p \in Ids
    BY <1>1, <1>2, <1>3
  <2> QED BY <2>1, <2>2, StatusSet
<1>7. LifecycleTypeOK'
  BY <1>1, <1>3, <1>5, <1>6 DEF LifecycleInv, LifecycleTypeOK
<1>8. VotesSettled'
  <2>1. UNCHANGED <<lock, passed>> /\ p \in passed /\ p \in Ids
    BY <1>1, <1>3, <1>4
  <2>2. paid'[p] = paid[p] + 1 /\ \A q \in Ids : q # p => paid'[q] = paid[q]
    BY <1>5
  <2> QED BY <2>1, <2>2, <1>6 DEF LifecycleInv, VotesSettled
<1>9. QueuedOnce'
  <2>1. \A b \in DOMAIN queue : queue'[b].pid = queue[b].pid
    BY <1>3 DEF p
  <2>2. ASSUME NEW b \in DOMAIN queue, prop'[queue[b].pid].status = "Succeeded"
        PROVE  queue'[b].state = "queued"
    <3>1. queue[b].pid \in passed /\ passed \subseteq Ids
      BY DEF LifecycleInv, QueuedOnce, LifecycleTypeOK
    <3>2. queue[b].pid # p /\ b # a
      BY <1>6, <2>2 DEF p
    <3>3. prop[queue[b].pid].status = "Succeeded"
      BY <1>6, <2>2, <3>1, <3>2
    <3> QED BY <1>3, <3>2, <3>3 DEF LifecycleInv, QueuedOnce
  <2> QED BY <1>1, <1>3, <2>1, <2>2 DEF LifecycleInv, QueuedOnce
<1>10. ActsAtMostTwice'
  <2>1. paid[p] <= 1 /\ paid[p] \in Nat
    BY <1>1, <1>3 DEF LifecycleInv, ActsAtMostTwice, LifecycleTypeOK, Live, p
  <2>2. \A q \in Ids : paid'[q] <= 2
    <3>1. \A q \in Ids : paid[q] <= 2
      BY DEF LifecycleInv, ActsAtMostTwice
    <3>2. paid'[p] <= 2 /\ \A q \in Ids : q # p => paid'[q] = paid[q]
      BY <1>5, <2>1
    <3> QED BY <3>1, <3>2
  <2>3. ASSUME NEW b \in DOMAIN queue, queue'[b].state = "queued"
        PROVE  paid'[queue'[b].pid] <= 1
    <3>1. b # a /\ queue'[b] = queue[b] /\ queue[b].pid \in passed /\ passed \subseteq Ids
      BY <1>3, <2>3 DEF LifecycleInv, QueuedOnce, LifecycleTypeOK
    <3>2. queue[b].pid # p
      BY <1>4, <3>1
    <3> QED BY <1>5, <2>3, <3>1, <3>2 DEF LifecycleInv, ActsAtMostTwice, Live
  <2> QED BY <1>3, <2>2, <2>3 DEF ActsAtMostTwice, Live
<1> QED BY <1>5, <1>7, <1>8, <1>9, <1>10 DEF LifecycleInv

LEMMA CancelQueuedInv ==
  ASSUME LifecycleInv, NEW a \in DOMAIN queue, CancelQueuedAction(a)
  PROVE  LifecycleInv'
<1> DEFINE p == queue[a].pid
<1>1. /\ queue[a].state = "queued" /\ queue' = WithState(queue, a, "cancelled")
      /\ prop[p].status \in ProposalStatus /\ prop' = [prop EXCEPT ![p].status = "Cancelled"]
      /\ UNCHANGED <<now, inits, paused, lock, treasury, forfeited, balance, paid, passed>>
      /\ queue \in Seq(QueuedAction) /\ prop \in [Ids -> Records]
  BY DEF CancelQueuedAction, Live, WithState, SetStatus, Exists, tokens, LifecycleInv, LifecycleTypeOK
<1>2. /\ queue' \in Seq(QueuedAction) /\ DOMAIN queue' = DOMAIN queue
      /\ queue'[a].pid = p /\ queue'[a].state = "cancelled" /\ p \in Ids
      /\ \A b \in DOMAIN queue : b # a => queue'[b] = queue[b]
  <2>1. Moved(queue, queue', a, "cancelled")
    BY <1>1, QueueMoved
  <2> QED BY <2>1 DEF Moved
<1>3. p \in passed /\ \A b \in DOMAIN queue : queue[b].pid = p => b = a
  BY DEF LifecycleInv, QueuedOnce
<1>4. /\ prop' \in [Ids -> Records] /\ prop'[p].status = "Cancelled"
      /\ \A q \in Ids : q # p => prop'[q] = prop[q]
  <2> HIDE DEF p
  <2>1. "Cancelled" \in ProposalStatus
    BY DEF ProposalStatus
  <2>2. /\ prop' = [prop EXCEPT ![p].status = "Cancelled"] /\ prop \in [Ids -> Records] /\ p \in Ids
        /\ prop[p].status \in ProposalStatus
    BY <1>1, <1>2
  <2> QED BY <2>1, <2>2, StatusSet
<1>5. LifecycleTypeOK'
  BY <1>1, <1>2, <1>4 DEF LifecycleInv, LifecycleTypeOK
<1>6. VotesSettled'
  BY <1>1, <1>2, <1>3, <1>4 DEF LifecycleInv, VotesSettled
<1>7. QueuedOnce'
  <2>1. \A b \in DOMAIN queue : queue'[b].pid = queue[b].pid
    BY <1>2
  <2>2. ASSUME NEW b \in DOMAIN queue, prop'[queue[b].pid].status = "Succeeded"
        PROVE  queue'[b].state = "queued"
    <3>1. queue[b].pid \in passed /\ passed \subseteq Ids
      BY DEF LifecycleInv, QueuedOnce, LifecycleTypeOK
    <3>2. queue[b].pid # p /\ b # a
      BY <1>4, <2>2
    <3>3. prop[queue[b].pid].status = "Succeeded"
      BY <1>4, <2>2, <3>1, <3>2
    <3> QED BY <1>2, <3>2, <3>3 DEF LifecycleInv, QueuedOnce
  <2>3. /\ DOMAIN queue' = DOMAIN queue /\ passed' = passed
        /\ \A x, y \in DOMAIN queue : queue[x].pid = queue[y].pid => x = y
        /\ \A x \in DOMAIN queue : queue[x].pid \in passed
    BY <1>1, <1>2 DEF LifecycleInv, QueuedOnce
  <2> QED BY <2>1, <2>2, <2>3 DEF QueuedOnce
<1>8. ActsAtMostTwice'
  <2>1. ASSUME NEW b \in DOMAIN queue, queue'[b].state = "queued"
        PROVE  queue'[b] = queue[b]
    BY <1>2, <2>1
  <2> QED BY <1>1, <1>2, <2>1 DEF LifecycleInv, ActsAtMostTwice, Live
<1> QED BY <1>1, <1>5, <1>6, <1>7, <1>8, TokensKept DEF LifecycleInv

LEMMA ExtendInv ==
  ASSUME LifecycleInv, NEW a \in DOMAIN queue, ExtendExecutionWindow(a)
  PROVE  LifecycleInv'
<1>1. /\ queue' = [queue EXCEPT ![a].available = @ + Extension] /\ queue \in Seq(QueuedAction)
      /\ UNCHANGED <<now, inits, paused, prop, lock, treasury, forfeited, balance, paid, passed>>
  BY DEF ExtendExecutionWindow, tokens, LifecycleInv, LifecycleTypeOK
<1>2. /\ DOMAIN queue' = DOMAIN queue /\ queue'[a] = [queue[a] EXCEPT !.available = @ + Extension]
      /\ \A b \in DOMAIN queue : b # a => queue'[b] = queue[b]
  BY <1>1
<1>3. DOMAIN queue = 1..Len(queue) /\ Len(queue) \in Nat /\ \A b \in 1..Len(queue) : queue[b] \in QueuedAction
  BY <1>1, LenProperties, ElementOfSeq
<1>4. /\ queue'[a] \in QueuedAction /\ queue'[a].pid = queue[a].pid /\ queue'[a].state = queue[a].state
  <2>1. queue[a] \in QueuedAction
    BY <1>3
  <2> QED BY <1>2, <2>1, LifecycleConstants DEF QueuedAction
<1>5. queue' \in Seq(QueuedAction)
  <2>1. queue' = [b \in 1..Len(queue) |-> queue'[b]]
    BY <1>1, <1>2, <1>3
  <2>2. \A b \in 1..Len(queue) : queue'[b] \in QueuedAction
    BY <1>2, <1>3, <1>4
  <2>3. queue' \in [1..Len(queue) -> QueuedAction]
    BY <2>1, <2>2
  <2> QED BY <1>3, <2>3, SeqDef
<1>6. \A b \in DOMAIN queue : queue'[b].pid = queue[b].pid /\ queue'[b].state = queue[b].state
  BY <1>2, <1>4
<1>7. LifecycleTypeOK'
  BY <1>1, <1>5 DEF LifecycleInv, LifecycleTypeOK
<1>8. VotesSettled'
  BY <1>1 DEF LifecycleInv, VotesSettled
<1>9. QueuedOnce' /\ ActsAtMostTwice'
  BY <1>1, <1>2, <1>6 DEF LifecycleInv, QueuedOnce, ActsAtMostTwice, Live
<1> QED BY <1>1, <1>7, <1>8, <1>9, TokensKept DEF LifecycleInv

(* execute_multiple_actions: the two actions belong to two proposals.      *)
LEMMA MultipleInv ==
  ASSUME LifecycleInv, NEW a \in DOMAIN queue, NEW b \in DOMAIN queue, ExecuteMultipleActions(a, b)
  PROVE  LifecycleInv'
<1> DEFINE pa == queue[a].pid
<1> DEFINE pb == queue[b].pid
<1> DEFINE ca == IF prop[pa].kind = "spend" THEN Spend ELSE 0
<1> DEFINE cb == IF prop[pb].kind = "spend" THEN Spend ELSE 0
<1>1. /\ a < b /\ queue[a].state = "queued" /\ queue[b].state = "queued"
      /\ prop[pa].status \in ProposalStatus /\ prop[pb].status \in ProposalStatus
      /\ treasury >= ca + cb /\ treasury' = treasury - ca - cb
      /\ balance' = [u \in Users |-> balance[u] + (IF u = prop[pa].by THEN ca ELSE 0)
                                                + (IF u = prop[pb].by THEN cb ELSE 0)]
      /\ paid' = [p \in Ids |-> paid[p] + (IF p = pa THEN 1 ELSE 0) + (IF p = pb THEN 1 ELSE 0)]
      /\ prop' = [p \in Ids |-> IF p \in {pa, pb} THEN [prop[p] EXCEPT !.status = "Executed"] ELSE prop[p]]
      /\ queue' = [queue EXCEPT ![a].state = "executed", ![b].state = "executed"]
      /\ UNCHANGED <<now, inits, paused, lock, forfeited, passed>>
  BY DEF ExecuteMultipleActions, Live, CanAct, Exists
<1>2. queue \in Seq(QueuedAction) /\ prop \in [Ids -> Records] /\ DOMAIN queue \subseteq Nat
  <2>1. queue \in Seq(QueuedAction) /\ prop \in [Ids -> Records]
    BY DEF LifecycleInv, LifecycleTypeOK
  <2>2. DOMAIN queue = 1..Len(queue)
    BY <2>1, LenProperties
  <2> QED BY <2>1, <2>2
<1>3. /\ queue' \in Seq(QueuedAction) /\ DOMAIN queue' = DOMAIN queue /\ pa \in Ids /\ pb \in Ids
      /\ queue'[a].state = "executed" /\ queue'[b].state = "executed"
      /\ \A x \in DOMAIN queue : queue'[x].pid = queue[x].pid
      /\ \A x \in DOMAIN queue : x \notin {a, b} => queue'[x] = queue[x]
  <2> DEFINE mid == WithState(queue, a, "executed")
  <2>1. mid = WithState(queue, a, "executed")
    OBVIOUS
  <2>2. queue' = WithState(mid, b, "executed") /\ b \in DOMAIN mid /\ a # b
    BY <1>1, <1>2 DEF WithState
  <2> HIDE DEF mid
  <2>3. /\ mid \in Seq(QueuedAction) /\ DOMAIN mid = DOMAIN queue
        /\ mid[a].pid = queue[a].pid /\ mid[a].state = "executed" /\ queue[a].pid \in Ids
        /\ \A x \in DOMAIN queue : x # a => mid[x] = queue[x]
    <3>1. /\ queue \in Seq(QueuedAction) /\ a \in DOMAIN queue /\ mid = WithState(queue, a, "executed")
          /\ "executed" \in {"executed", "cancelled"}
      BY <1>2, <2>1
    <3>2. Moved(queue, mid, a, "executed")
      BY <3>1, QueueMoved
    <3> QED BY <3>2 DEF Moved
  <2>4. /\ queue' \in Seq(QueuedAction) /\ DOMAIN queue' = DOMAIN mid
        /\ queue'[b].pid = mid[b].pid /\ queue'[b].state = "executed" /\ mid[b].pid \in Ids
        /\ \A x \in DOMAIN mid : x # b => queue'[x] = mid[x]
    <3>1. /\ mid \in Seq(QueuedAction) /\ b \in DOMAIN mid /\ queue' = WithState(mid, b, "executed")
          /\ "executed" \in {"executed", "cancelled"}
      BY <2>2, <2>3
    <3>2. Moved(mid, queue', b, "executed")
      BY <3>1, QueueMoved
    <3> QED BY <3>2 DEF Moved
  <2> QED BY <2>2, <2>3, <2>4
<1>4. /\ pa \in passed /\ pb \in passed /\ pa # pb
      /\ \A x \in DOMAIN queue : queue[x].pid = pa => x = a
      /\ \A x \in DOMAIN queue : queue[x].pid = pb => x = b
  BY <1>1, <1>2 DEF LifecycleInv, QueuedOnce
<1> HIDE DEF pa, pb
<1>5. /\ prop' \in [Ids -> Records] /\ prop'[pa].status = "Executed" /\ prop'[pb].status = "Executed"
      /\ \A q \in Ids : q \notin {pa, pb} => prop'[q] = prop[q]
      /\ prop[pa].by \in Users /\ prop[pb].by \in Users
  <2>1. prop[pa] \in Proposal /\ prop[pb] \in Proposal
    BY <1>1, <1>2, <1>3, ProposalExists
  <2>2. ASSUME NEW r \in Proposal
        PROVE  [r EXCEPT !.status = "Executed"] \in Records
               /\ [r EXCEPT !.status = "Executed"].status = "Executed"
    BY DEF Records, Proposal, ProposalStatus
  <2>3. /\ prop'[pa] = [prop[pa] EXCEPT !.status = "Executed"]
        /\ prop'[pb] = [prop[pb] EXCEPT !.status = "Executed"]
        /\ \A q \in Ids : q \notin {pa, pb} => prop'[q] = prop[q]
        /\ prop' = [q \in Ids |-> prop'[q]]
    BY <1>1, <1>3
  <2>4. \A q \in Ids : prop'[q] \in Records
    BY <1>2, <2>1, <2>2, <2>3
  <2>5. prop' \in [Ids -> Records]
    BY <2>3, <2>4
  <2> QED BY <2>1, <2>2, <2>3, <2>5 DEF Proposal
<1>6. /\ paid' \in [Ids -> Nat] /\ paid'[pa] = paid[pa] + 1 /\ paid'[pb] = paid[pb] + 1
      /\ paid \in [Ids -> Nat] /\ \A q \in Ids : q \notin {pa, pb} => paid'[q] = paid[q]
  BY <1>1, <1>3, <1>4 DEF LifecycleInv, LifecycleTypeOK
<1>7. /\ ca \in Nat /\ cb \in Nat /\ treasury \in Nat /\ treasury' = treasury - ca - cb /\ treasury' \in Nat
  <2>1. ca \in Nat /\ cb \in Nat /\ treasury \in Nat
    BY LifecycleConstants DEF LifecycleInv, LifecycleTypeOK
  <2>2. treasury >= ca + cb /\ treasury' = treasury - ca - cb
    BY <1>1
  <2> HIDE DEF ca, cb
  <2> QED BY <2>1, <2>2
<1>8. /\ balance' \in [Users -> Nat] /\ Total(balance', N) = Total(balance, N) + ca + cb
      /\ Total(balance, N) \in Int
  <2> DEFINE mid == Credit(balance, prop[pa].by, ca)
  <2>1. balance \in [Users -> Nat]
    BY DEF LifecycleInv, LifecycleTypeOK
  <2> HIDE DEF ca, cb
  <2>2. mid \in [Users -> Nat] /\ Total(mid, N) = Total(balance, N) + ca /\ Total(balance, N) \in Int
    BY <1>5, <1>7, <2>1, Credited
  <2>3. balance' = Credit(mid, prop[pb].by, cb)
    <3>1. balance' = [u \in Users |-> balance[u] + (IF u = prop[pa].by THEN ca ELSE 0)
                                                 + (IF u = prop[pb].by THEN cb ELSE 0)]
      BY <1>1 DEF ca, cb
    <3>2. \A u \in Users : mid[u] = balance[u] + (IF u = prop[pa].by THEN ca ELSE 0)
      BY <1>7, <2>1 DEF Credit
    <3> HIDE DEF mid
    <3>3. \A u \in Users : balance'[u] = Credit(mid, prop[pb].by, cb)[u]
      BY <1>5, <1>7, <2>1, <2>2, <3>1, <3>2 DEF Credit
    <3>4. Credit(mid, prop[pb].by, cb) = [u \in Users |-> Credit(mid, prop[pb].by, cb)[u]]
      BY <2>2 DEF Credit
    <3> QED BY <3>1, <3>3, <3>4
  <2> HIDE DEF mid
  <2>4. balance' \in [Users -> Nat] /\ Total(balance', N) = Total(mid, N) + cb
    BY <1>5, <1>7, <2>2, <2>3, Credited
  <2> QED BY <1>7, <2>2, <2>4
<1>9. TokensConserved'
  <2>1. /\ Total(balance, N) + treasury + forfeited + Total(Deposits(lock), MaxProposals)
             = Total([v \in Users |-> MaxProposals * Deposit], N) + Funds
        /\ forfeited \in Nat /\ Total(Deposits(lock), MaxProposals) \in Int
    BY LocksTyped DEF TokensConserved, LifecycleInv, LifecycleTypeOK
  <2>2. Deposits(lock)' = Deposits(lock) /\ forfeited' = forfeited
    BY <1>1 DEF Deposits
  <2> HIDE DEF ca, cb
  <2> QED BY <1>7, <1>8, <2>1, <2>2 DEF TokensConserved
<1>10. LifecycleTypeOK'
  BY <1>1, <1>3, <1>5, <1>6, <1>7, <1>8 DEF LifecycleInv, LifecycleTypeOK
<1>11. VotesSettled'
  <2>1. UNCHANGED <<lock, passed>>
    BY <1>1
  <2>2. ASSUME NEW q \in Ids
        PROVE  q \in {pa, pb} \/ (q \notin {pa, pb} /\ prop'[q] = prop[q] /\ paid'[q] = paid[q])
    BY <1>5, <1>6
  <2>3. /\ pa \in Ids /\ pb \in Ids /\ pa \in passed /\ pb \in passed
        /\ prop'[pa].status = "Executed" /\ prop'[pb].status = "Executed"
        /\ lock[pa] = Nobody /\ lock[pb] = Nobody
    BY <1>3, <1>4, <1>5 DEF LifecycleInv, VotesSettled
  <2> QED BY <2>1, <2>2, <2>3 DEF LifecycleInv, VotesSettled
<1>12. QueuedOnce'
  <2>1. ASSUME NEW x \in DOMAIN queue, prop'[queue[x].pid].status = "Succeeded"
        PROVE  queue'[x].state = "queued"
    <3>1. queue[x].pid \in passed /\ passed \subseteq Ids
      BY DEF LifecycleInv, QueuedOnce, LifecycleTypeOK
    <3>2. queue[x].pid \notin {pa, pb} /\ x \notin {a, b}
      BY <1>5, <2>1 DEF pa, pb
    <3>3. prop[queue[x].pid].status = "Succeeded"
      BY <1>5, <2>1, <3>1, <3>2
    <3> QED BY <1>3, <3>2, <3>3 DEF LifecycleInv, QueuedOnce
  <2>2. passed' = passed
    BY <1>1
  <2> QED BY <1>3, <2>1, <2>2 DEF LifecycleInv, QueuedOnce
<1>13. ActsAtMostTwice'
  <2>1. paid[pa] <= 1 /\ paid[pb] <= 1
    BY <1>1, <1>3, <1>6 DEF LifecycleInv, ActsAtMostTwice, Live, pa, pb
  <2>2. \A q \in Ids : paid'[q] <= 2
    <3>1. \A q \in Ids : paid[q] <= 2
      BY DEF LifecycleInv, ActsAtMostTwice
    <3>2. paid'[pa] <= 2 /\ paid'[pb] <= 2 /\ \A q \in Ids : q \notin {pa, pb} => paid'[q] = paid[q]
      BY <1>3, <1>6, <2>1
    <3> QED BY <3>1, <3>2
  <2>3. ASSUME NEW x \in DOMAIN queue, queue'[x].state = "queued"
        PROVE  paid'[queue'[x].pid] <= 1
    <3>1. x \notin {a, b} /\ queue'[x] = queue[x] /\ queue[x].pid \in passed /\ passed \subseteq Ids
      BY <1>3, <2>3 DEF LifecycleInv, QueuedOnce, LifecycleTypeOK
    <3>2. queue[x].pid \notin {pa, pb}
      BY <1>4, <3>1
    <3> QED BY <1>6, <2>3, <3>1, <3>2 DEF LifecycleInv, ActsAtMostTwice, Live
  <2> QED BY <1>3, <2>2, <2>3 DEF ActsAtMostTwice, Live
<1> QED BY <1>9, <1>10, <1>11, <1>12, <1>13 DEF LifecycleInv

-----------------------------------------------------------------------------
LEMMA TimelockInv ==
  ASSUME LifecycleInv, InitializeTimelock
  PROVE  LifecycleInv'
<1>1. /\ queue' = <<>> /\ queue' \in Seq(QueuedAction) /\ DOMAIN queue' = {}
      /\ UNCHANGED <<now, inits, paused, prop, lock, treasury, forfeited, balance, paid, passed>>
  BY DEF InitializeTimelock, tokens
<1>2. LifecycleTypeOK' /\ VotesSettled'
  BY <1>1 DEF LifecycleInv, LifecycleTypeOK, VotesSettled
<1>3. QueuedOnce' /\ ActsAtMostTwice'
  BY <1>1 DEF LifecycleInv, QueuedOnce, ActsAtMostTwice, Live
<1> QED BY <1>1, <1>2, <1>3, TokensKept DEF LifecycleInv

LEMMA LifecycleInductive ==
  ASSUME MaxInits = 0, LifecycleInv, [LifecycleNext]_lifecycleVars
  PROVE  LifecycleInv'
<1>1. CASE UNCHANGED lifecycleVars
  BY <1>1, TokensKept DEF lifecycleVars, LifecycleInv, LifecycleTypeOK, VotesSettled, QueuedOnce,
                          ActsAtMostTwice, Live
<1>2. CASE Tick \/ \E b \in BOOLEAN : SetPaused(b)
  BY <1>2, QuietInv
<1>3. CASE \E u \in Users, kind \in {"spend", "other"} : CreateProposal(u, kind)
  BY <1>3, CreateInv
<1>4. ASSUME NEW p \in Ids,
             \/ \E v \in Users, vt \in VoteType : CastVote(p, v, vt) \/ CastReputationVote(p, v, vt)
             \/ FinalizeProposal(p) \/ ExecuteProposal(p)
             \/ \E who \in Users \cup {Admin, Guardian} : CancelProposal(p, who)
             \/ WithdrawProposal(p) \/ ReclaimExpiredProposal(p) \/ QueueAction(p)
      PROVE  LifecycleInv'
  BY <1>4, VoteInv, FinalizeInv, ExecuteInv, CancelInv, WithdrawInv, ReclaimInv, QueueInv DEF CastVote
<1>5. CASE CleanupProposals \/ InitializeTimelock
  BY <1>5, CleanupInv, TimelockInv
<1>6. ASSUME NEW a \in DOMAIN queue,
             \/ ExecuteQueuedAction(a) \/ EmergencyUnblockAction(a)
             \/ CancelQueuedAction(a) \/ ExtendExecutionWindow(a)
             \/ \E b \in DOMAIN queue : ExecuteMultipleActions(a, b)
      PROVE  LifecycleInv'
  BY <1>6, RunInv, CancelQueuedInv, ExtendInv, MultipleInv DEF ExecuteQueuedAction, EmergencyUnblockAction
<1>7. ~Reinitialize
  BY DEF Reinitialize, LifecycleInv, LifecycleTypeOK
<1> QED BY <1>1, <1>2, <1>3, <1>4, <1>5, <1>6, <1>7 DEF LifecycleNext

(* The inductive invariant of proposals, deposits and the queue, as long   *)
(* as the contract is not initialised a second time.                       *)
THEOREM LifecycleInvariant ==
  ASSUME MaxInits = 0
  PROVE  LifecycleSpec => []LifecycleInv
<1>1. LifecycleInit => LifecycleInv
  BY LifecycleBegins
<1>2. LifecycleInv /\ [LifecycleNext]_lifecycleVars => LifecycleInv'
  BY LifecycleInductive
<1> QED BY <1>1, <1>2, PTL DEF LifecycleSpec

(* ProposalsAccounted: whichever way proposals of proposals.rs end, no     *)
(* token is made or lost, decided votes have settled their deposits and    *)
(* neither the direct path nor the timelock's queue acts twice, in a       *)
(* contract that is initialised once.                                      *)
THEOREM ProposalsStayAccounted ==
  ASSUME MaxInits = 0
  PROVE  LifecycleSpec => []ProposalsAccounted
<1>1. LifecycleInv => ProposalsAccounted
  BY DEF LifecycleInv, VotesSettled, ProposalsAccounted, DepositSettled
<1> QED BY <1>1, LifecycleInvariant, PTL

-----------------------------------------------------------------------------
(* The proposals implement Approval.                                        *)
LEMMA PhaseIs ==
  /\ phase = [p \in Ids |-> PhaseOf(prop[p], p \in passed)]
  /\ \A p \in Ids : phase[p] = PhaseOf(prop[p], p \in passed)
  /\ phase' = [p \in Ids |-> PhaseOf(prop'[p], p \in passed')]
BY DEF phase

(* A step that leaves every phase and every payment alone stutters. *)
LEMMA PhaseStays ==
  ASSUME \A p \in Ids : PhaseOf(prop'[p], p \in passed') = PhaseOf(prop[p], p \in passed),
         UNCHANGED paid
  PROVE  UNCHANGED <<phase, paid>>
<1>1. phase' = phase
  BY PhaseIs
<1> QED BY <1>1

(* A step that moves the phase of p alone. *)
LEMMA PhaseMoves ==
  ASSUME NEW p \in Ids, NEW to,
         PhaseOf(prop'[p], p \in passed') = to,
         \A q \in Ids : q # p => prop'[q] = prop[q] /\ (q \in passed' <=> q \in passed)
  PROVE  phase' = [q \in Ids |-> IF q \in {p} THEN to ELSE phase[q]]
BY PhaseIs

LEMMA CreateAsks ==
  ASSUME LifecycleInv, NEW u \in Users, NEW kind \in {"spend", "other"}, CreateProposal(u, kind)
  PROVE  ByVote!Next
<1>1. PICK p \in Ids : prop[p] = Absent /\ create_proposal(p, u, kind) /\ UNCHANGED <<paid, passed>>
  BY DEF CreateProposal
<1>2. prop'[p].status = "Pending" /\ \A q \in Ids : q # p => prop'[q] = prop[q]
  BY <1>1 DEF create_proposal, LifecycleInv, LifecycleTypeOK
<1>3. p \notin passed /\ prop[p].status = "Absent"
  BY <1>1 DEF LifecycleInv, VotesSettled, Absent
<1>4. phase[p] = "absent"
  BY <1>3, PhaseIs DEF PhaseOf
<1>5. PhaseOf(prop'[p], p \in passed') = "asked"
  BY <1>1, <1>2, <1>3 DEF PhaseOf
<1>6. phase' = [q \in Ids |-> IF q \in {p} THEN "asked" ELSE phase[q]]
  BY <1>1, <1>2, <1>5, PhaseMoves
<1>7. ByVote!Ask({p})
  BY <1>1, <1>4, <1>6 DEF ByVote!Ask, ByVote!Move
<1> QED BY <1>7 DEF ByVote!Next

(* A proposal still voted on, or not any more, is given up. *)
LEMMA GivenUp ==
  ASSUME LifecycleInv, NEW p \in Ids, prop[p].status \in ProposalStatus,
         prop'[p].status \in {"Cancelled", "Withdrawn", "Failed"}, UNCHANGED <<paid, passed>>,
         \A q \in Ids : q # p => prop'[q] = prop[q]
  PROVE  ByVote!Next \/ UNCHANGED <<phase, paid>>
<1>1. CASE p \notin passed /\ prop[p].status \in {"Pending", "Active"}
  <2>1. phase[p] = "asked"
    BY <1>1, PhaseIs DEF PhaseOf
  <2>2. PhaseOf(prop'[p], p \in passed') = "refused"
    BY <1>1 DEF PhaseOf
  <2>3. phase' = [q \in Ids |-> IF q \in {p} THEN "refused" ELSE phase[q]]
    BY <2>2, PhaseMoves
  <2>4. ByVote!Refuse({p})
    BY <2>1, <2>3 DEF ByVote!Refuse, ByVote!Move
  <2> QED BY <2>4 DEF ByVote!Next
<1>2. CASE p \in passed \/ prop[p].status \notin {"Pending", "Active"}
  <2>1. prop[p].status # "Absent"
    BY DEF ProposalStatus
  <2>2. PhaseOf(prop'[p], p \in passed') = PhaseOf(prop[p], p \in passed)
    BY <1>2, <2>1 DEF PhaseOf
  <2>3. \A q \in Ids : PhaseOf(prop'[q], q \in passed') = PhaseOf(prop[q], q \in passed)
    BY <2>2
  <2> QED BY <2>3, PhaseStays
<1> QED BY <1>1, <1>2

(* Proposals that were granted take effect once more. *)
LEMMA ActsGranted ==
  ASSUME LifecycleInv, LifecycleInv', NEW T \in SUBSET Ids, T \subseteq passed, UNCHANGED passed,
         \A q \in T : paid'[q] > paid[q],
         \A q \in Ids \ T : prop'[q] = prop[q] /\ paid'[q] = paid[q]
  PROVE  ByVote!Next
<1>1. \A q \in Ids : PhaseOf(prop'[q], q \in passed') = PhaseOf(prop[q], q \in passed)
  BY DEF PhaseOf
<1>2. phase' = phase /\ phase = [q \in Ids |-> phase[q]]
  BY <1>1, PhaseIs
<1>3. \A q \in T : phase'[q] = "granted"
  BY <1>2, PhaseIs DEF PhaseOf
<1>4. ByVote!TakeEffect({}, T)
  BY <1>2, <1>3 DEF ByVote!TakeEffect, ByVote!Move
<1> QED BY <1>4 DEF ByVote!Next

LEMMA VoteStutters ==
  ASSUME LifecycleInv, NEW p \in Ids, NEW v \in Users, NEW vt \in VoteType, CastReputationVote(p, v, vt)
  PROVE  UNCHANGED <<phase, paid>>
<1>1. /\ prop[p].status \in {"Pending", "Active"} /\ prop[p] \in Proposal
      /\ prop' = [prop EXCEPT ![p].votes[v] = vt, ![p].status = "Active"]
      /\ prop \in [Ids -> Records] /\ UNCHANGED <<paid, passed>>
  BY ProposalExists DEF CastReputationVote, cast_vote, Exists, tokens, LifecycleInv, LifecycleTypeOK
<1>2. prop'[p].status = "Active" /\ \A q \in Ids : q # p => prop'[q] = prop[q]
  <2>1. prop' = [prop EXCEPT ![p] = [[prop[p] EXCEPT !.votes[v] = vt] EXCEPT !.status = "Active"]]
    BY <1>1
  <2> QED BY <1>1, <2>1 DEF Proposal
<1>3. PhaseOf(prop'[p], p \in passed') = PhaseOf(prop[p], p \in passed)
  BY <1>1, <1>2 DEF PhaseOf
<1>4. \A q \in Ids : PhaseOf(prop'[q], q \in passed') = PhaseOf(prop[q], q \in passed)
  BY <1>1, <1>2, <1>3
<1> QED BY <1>1, <1>4, PhaseStays

LEMMA FinalizeDecides ==
  ASSUME LifecycleInv, NEW p \in Ids, FinalizeProposal(p)
  PROVE  ByVote!Next \/ UNCHANGED <<phase, paid>>
<1> DEFINE ok == quorum_met(p) /\ approved(p)
<1> DEFINE act == ok /\ ExecutionDelay = 0 /\ CanAct(p) /\ now <= execution_deadline(p)
<1> DEFINE s == IF act THEN "Executed" ELSE IF ok THEN "Succeeded" ELSE "Failed"
<1>1. /\ prop \in [Ids -> Records] /\ prop[p].status \in {"Pending", "Active"}
      /\ prop[p].status \in ProposalStatus /\ s \in ProposalStatus
      /\ prop' = [prop EXCEPT ![p].status = s]
  BY DEF FinalizeProposal, finalize_proposal, Exists, SetStatus, LifecycleInv, LifecycleTypeOK, ProposalStatus
<1>2. /\ passed' = IF ok THEN passed \cup {p} ELSE passed
      /\ paid' = IF act THEN [paid EXCEPT ![p] = @ + 1] ELSE paid
      /\ act => ok
      /\ ~ok => s = "Failed"
  BY DEF FinalizeProposal
<1> HIDE DEF ok, act, s
<1>3. prop'[p].status = s /\ \A q \in Ids : q # p => prop'[q] = prop[q]
  BY <1>1, StatusSet
<1>4. p \notin passed /\ paid \in [Ids -> Nat]
  BY <1>1 DEF LifecycleInv, VotesSettled, LifecycleTypeOK
<1>5. phase[p] = "asked"
  BY <1>1, <1>4, PhaseIs DEF PhaseOf
<1>6. CASE ~ok
  <2>1. UNCHANGED <<paid, passed>> /\ prop'[p].status = "Failed"
    BY <1>2, <1>3, <1>6
  <2> QED BY <1>1, <1>3, <2>1, GivenUp
<1>7. CASE ok
  <2>1. PhaseOf(prop'[p], p \in passed') = "granted"
    BY <1>2, <1>7 DEF PhaseOf
  <2>2. \A q \in Ids : q # p => prop'[q] = prop[q] /\ (q \in passed' <=> q \in passed)
    BY <1>2, <1>3
  <2>3. phase' = [q \in Ids |-> IF q \in {p} THEN "granted" ELSE phase[q]]
    BY <2>1, <2>2, PhaseMoves
  <2>4. CASE act
    <3>1. paid'[p] > paid[p] /\ \A q \in Ids : q # p => paid'[q] = paid[q]
      BY <1>2, <1>4, <2>4
    <3>2. ByVote!TakeEffect({p}, {p})
      BY <1>5, <2>3, <3>1 DEF ByVote!TakeEffect, ByVote!Move
    <3> QED BY <3>2 DEF ByVote!Next
  <2>5. CASE ~act
    <3>1. ByVote!Grant({p})
      BY <1>2, <1>5, <2>3, <2>5 DEF ByVote!Grant, ByVote!Move
    <3> QED BY <3>1 DEF ByVote!Next
  <2> QED BY <2>4, <2>5
<1> QED BY <1>6, <1>7

LEMMA ExecuteActs ==
  ASSUME LifecycleInv, LifecycleInv', NEW p \in Ids, ExecuteProposal(p)
  PROVE  ByVote!Next
<1>1. /\ prop \in [Ids -> Records] /\ prop[p].status = "Succeeded" /\ paid \in [Ids -> Nat]
      /\ prop' = [prop EXCEPT ![p].status = "Executed"] /\ UNCHANGED passed
      /\ paid' = [paid EXCEPT ![p] = @ + 1]
  BY DEF ExecuteProposal, SetStatus, execute_proposal_action, LifecycleInv, LifecycleTypeOK
<1>2. p \in passed
  BY <1>1 DEF LifecycleInv, VotesSettled
<1>3. \A q \in {p} : paid'[q] > paid[q]
  BY <1>1
<1>4. \A q \in Ids \ {p} : prop'[q] = prop[q] /\ paid'[q] = paid[q]
  BY <1>1
<1>5. {p} \in SUBSET Ids /\ {p} \subseteq passed /\ passed' = passed
  BY <1>1, <1>2
<1> QED BY <1>3, <1>4, <1>5, ActsGranted

LEMMA RunActs ==
  ASSUME LifecycleInv, LifecycleInv', NEW a \in DOMAIN queue, RunAction(a)
  PROVE  ByVote!Next
<1> DEFINE p == queue[a].pid
<1>1. /\ prop \in [Ids -> Records] /\ paid \in [Ids -> Nat]
      /\ prop' = [prop EXCEPT ![p].status = "Executed"] /\ UNCHANGED passed
      /\ paid' = [paid EXCEPT ![p] = @ + 1]
  BY DEF RunAction, SetStatus, execute_proposal_action, LifecycleInv, LifecycleTypeOK
<1>2. p \in passed /\ p \in Ids
  BY DEF LifecycleInv, QueuedOnce, LifecycleTypeOK
<1> HIDE DEF p
<1>3. \A q \in {p} : paid'[q] > paid[q]
  BY <1>1, <1>2
<1>4. \A q \in Ids \ {p} : prop'[q] = prop[q] /\ paid'[q] = paid[q]
  BY <1>1, <1>2
<1>5. {p} \in SUBSET Ids /\ {p} \subseteq passed /\ passed' = passed
  BY <1>1, <1>2
<1> QED BY <1>3, <1>4, <1>5, ActsGranted

LEMMA MultipleActs ==
  ASSUME LifecycleInv, LifecycleInv', NEW a \in DOMAIN queue, NEW b \in DOMAIN queue,
         ExecuteMultipleActions(a, b)
  PROVE  ByVote!Next
<1> DEFINE pa == queue[a].pid
<1> DEFINE pb == queue[b].pid
<1>1. /\ paid' = [p \in Ids |-> paid[p] + (IF p = pa THEN 1 ELSE 0) + (IF p = pb THEN 1 ELSE 0)]
      /\ prop' = [p \in Ids |-> IF p \in {pa, pb} THEN [prop[p] EXCEPT !.status = "Executed"] ELSE prop[p]]
      /\ UNCHANGED passed
  BY DEF ExecuteMultipleActions
<1>2. {pa, pb} \subseteq passed /\ {pa, pb} \in SUBSET Ids /\ paid \in [Ids -> Nat]
  BY DEF LifecycleInv, QueuedOnce, LifecycleTypeOK
<1> HIDE DEF pa, pb
<1>3. \A q \in {pa, pb} : paid'[q] > paid[q]
  BY <1>1, <1>2
<1>4. \A q \in Ids \ {pa, pb} : prop'[q] = prop[q] /\ paid'[q] = paid[q]
  BY <1>1, <1>2
<1> QED BY <1>1, <1>2, <1>3, <1>4, ActsGranted

(* What only removes records, or touches no proposal. *)
LEMMA QuietStutters ==
  ASSUME LifecycleInv,
         \/ Tick \/ \E b \in BOOLEAN : SetPaused(b)
         \/ \E p \in Ids : ReclaimExpiredProposal(p) \/ QueueAction(p)
         \/ CleanupProposals \/ InitializeTimelock
         \/ \E a \in DOMAIN queue : ExtendExecutionWindow(a)
         \/ UNCHANGED lifecycleVars
  PROVE  UNCHANGED <<phase, paid>>
<1>1. CASE UNCHANGED <<prop, paid, passed>>
  BY <1>1, PhaseStays
<1>2. ASSUME NEW p \in Ids, ReclaimExpiredProposal(p) PROVE UNCHANGED <<phase, paid>>
  <2>1. /\ prop' = [prop EXCEPT ![p] = Removed] /\ prop[p].status = "Succeeded" /\ UNCHANGED <<paid, passed>>
        /\ prop \in [Ids -> Records]
    BY <1>2 DEF ReclaimExpiredProposal, reclaim_expired_proposal, tokens, LifecycleInv, LifecycleTypeOK
  <2>2. p \in passed
    BY <2>1 DEF LifecycleInv, VotesSettled
  <2>3. \A q \in Ids : PhaseOf(prop'[q], q \in passed') = PhaseOf(prop[q], q \in passed)
    BY <2>1, <2>2 DEF PhaseOf
  <2> QED BY <2>1, <2>3, PhaseStays
<1>3. CASE CleanupProposals
  <2> DEFINE terminal == {p \in Ids : Exists(p) /\ effective_status(p) \in
                             {"Failed", "Executed", "Cancelled", "Expired", "Withdrawn"}}
  <2>1. prop' = [p \in Ids |-> IF p \in terminal THEN Removed ELSE prop[p]] /\ UNCHANGED <<paid, passed>>
    BY <1>3 DEF CleanupProposals, cleanup_terminal_proposals, tokens
  <2>2. ASSUME NEW p \in terminal
        PROVE  p \in Ids /\ prop[p].status \notin {"Absent", "Pending", "Active"}
    BY DEF effective_status, Exists, ProposalStatus
  <2> HIDE DEF terminal
  <2>3. ASSUME NEW q \in Ids
        PROVE  PhaseOf(prop'[q], q \in passed') = PhaseOf(prop[q], q \in passed)
    <3>1. CASE q \in terminal
      <4>1. prop'[q].status = "Removed"
        BY <2>1, <3>1, RemovedRecord
      <4> QED BY <2>1, <2>2, <3>1, <4>1 DEF PhaseOf
    <3>2. CASE q \notin terminal
      BY <2>1, <3>2
    <3> QED BY <3>1, <3>2
  <2> QED BY <2>1, <2>3, PhaseStays
<1> QED BY <1>1, <1>2, <1>3 DEF Tick, SetPaused, QueueAction, ExtendExecutionWindow, InitializeTimelock,
                               tokens, lifecycleVars

LEMMA CancelGivesUp ==
  ASSUME LifecycleInv, NEW p \in Ids, prop[p].status \in ProposalStatus,
         NEW s \in {"Cancelled", "Withdrawn"}, SetStatus(p, s), UNCHANGED <<paid, passed>>
  PROVE  ByVote!Next \/ UNCHANGED <<phase, paid>>
<1>1. prop \in [Ids -> Records] /\ prop' = [prop EXCEPT ![p].status = s] /\ s \in ProposalStatus
  BY DEF SetStatus, LifecycleInv, LifecycleTypeOK, ProposalStatus
<1>2. prop'[p].status = s /\ \A q \in Ids : q # p => prop'[q] = prop[q]
  BY <1>1, StatusSet
<1> QED BY <1>2, GivenUp

LEMMA LifecycleStep ==
  ASSUME MaxInits = 0, LifecycleInv, LifecycleInv', [LifecycleNext]_lifecycleVars
  PROVE  ByVote!Next \/ UNCHANGED <<phase, paid>>
<1>1. CASE \/ Tick \/ \E b \in BOOLEAN : SetPaused(b)
           \/ \E p \in Ids : ReclaimExpiredProposal(p) \/ QueueAction(p)
           \/ CleanupProposals \/ InitializeTimelock
           \/ \E a \in DOMAIN queue : ExtendExecutionWindow(a)
           \/ UNCHANGED lifecycleVars
  BY <1>1, QuietStutters
<1>2. CASE \E u \in Users, kind \in {"spend", "other"} : CreateProposal(u, kind)
  BY <1>2, CreateAsks
<1>3. ASSUME NEW p \in Ids,
             \/ \E v \in Users, vt \in VoteType : CastVote(p, v, vt) \/ CastReputationVote(p, v, vt)
             \/ FinalizeProposal(p) \/ ExecuteProposal(p)
      PROVE  ByVote!Next \/ UNCHANGED <<phase, paid>>
  BY <1>3, VoteStutters, FinalizeDecides, ExecuteActs DEF CastVote
<1>4. ASSUME NEW p \in Ids,
             (\E who \in Users \cup {Admin, Guardian} : CancelProposal(p, who)) \/ WithdrawProposal(p)
      PROVE  ByVote!Next \/ UNCHANGED <<phase, paid>>
  <2>1. /\ prop[p].status \in ProposalStatus /\ UNCHANGED <<paid, passed>>
        /\ SetStatus(p, "Cancelled") \/ SetStatus(p, "Withdrawn")
    BY <1>4 DEF CancelProposal, WithdrawProposal, withdraw_proposal, Exists, tokens
  <2> QED BY <2>1, CancelGivesUp
<1>5. ASSUME NEW a \in DOMAIN queue,
             \/ ExecuteQueuedAction(a) \/ EmergencyUnblockAction(a)
             \/ \E b \in DOMAIN queue : ExecuteMultipleActions(a, b)
      PROVE  ByVote!Next
  BY <1>5, RunActs, MultipleActs DEF ExecuteQueuedAction, EmergencyUnblockAction
<1>6. ASSUME NEW a \in DOMAIN queue, CancelQueuedAction(a)
      PROVE  ByVote!Next \/ UNCHANGED <<phase, paid>>
  <2>1. queue[a].pid \in Ids
    BY DEF LifecycleInv, QueuedOnce, LifecycleTypeOK
  <2>2. prop[queue[a].pid].status \in ProposalStatus /\ UNCHANGED <<paid, passed>>
        /\ SetStatus(queue[a].pid, "Cancelled")
    BY <1>6 DEF CancelQueuedAction, Exists, tokens
  <2> QED BY <2>1, <2>2, CancelGivesUp
<1>7. ~Reinitialize
  BY DEF Reinitialize, LifecycleInv, LifecycleTypeOK
<1> QED BY <1>1, <1>2, <1>3, <1>4, <1>5, <1>6, <1>7 DEF LifecycleNext

(* ExecutedOnlyIfGranted: along every path through direct execution and    *)
(* the timelock's queue, proposals implement the approval scheme: decided  *)
(* once, by the vote, and executed only after the vote granted it, in a    *)
(* contract that is initialised once.                                      *)
THEOREM ProposalsImplementApproval ==
  ASSUME MaxInits = 0
  PROVE  LifecycleSpec => ExecutedOnlyIfGranted
<1>1. LifecycleInit => ByVote!Init
  <2> SUFFICES ASSUME LifecycleInit PROVE ByVote!Init
    OBVIOUS
  <2>1. \A p \in Ids : PhaseOf(prop[p], p \in passed) = "absent"
    BY DEF LifecycleInit, Absent, PhaseOf
  <2>2. phase = [p \in Ids |-> "absent"]
    BY <2>1 DEF phase
  <2> QED BY <2>2 DEF LifecycleInit, ByVote!Init
<1>2. LifecycleInv /\ LifecycleInv' /\ [LifecycleNext]_lifecycleVars
        => [ByVote!Next]_(ByVote!approvalVars)
  BY LifecycleStep DEF ByVote!approvalVars
<1> QED BY <1>1, <1>2, LifecycleInvariant, PTL
        DEF LifecycleSpec, ExecutedOnlyIfGranted, ByVote!Spec
=============================================================================
