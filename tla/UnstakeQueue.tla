---------------------------- MODULE UnstakeQueue ----------------------------
(***************************************************************************)
(* stake_vault's unstake queue, on top of the vault: a staker queues a     *)
(* request for its whole stake, and anyone may have the requests processed *)
(* in ticket order.  Processing runs the checks and effects of             *)
(* do_withdraw for the request at the head; a request that fails stays     *)
(* there and processing stops.                                             *)
(*                                                                         *)
(* process_unstake_queue(limit) is modelled one request at a time: nothing *)
(* else can run between the requests of one call, and a call of limit k    *)
(* ends as k calls of limit 1 in the same ledger do.  Queue slots are only *)
(* removed at the head, so the code's branch for an orphaned slot is never *)
(* taken; storage expiry is not modelled.                                  *)
(***************************************************************************)
EXTENDS StakeVault

CONSTANTS MaxTickets,    \* bound on the number of tickets issued
          QueueSizes     \* values of MaxUnstakeQueueSize

(* A slash schedule with one partial tier. *)
FlatTable == {[Minor |-> 3000, Major |-> 3000, Critical |-> 10000]}

ASSUME QueueTyped == MaxTickets \in Nat /\ QueueSizes \subseteq Nat

VARIABLES
    head,          \* UnstakeQueueHead
    tail,          \* UnstakeQueueTail
    entry,         \* UnstakeQueueEntry: ticket -> staker, 0 when absent
    userTicket,    \* UserUnstakeTicket: ticket + 1, 0 when absent
    maxQueueSize   \* MaxUnstakeQueueSize

queueVars == <<head, tail, entry, userTicket, maxQueueSize>>
queueAllVars == <<vars, queueVars>>

Tickets == 0..(MaxTickets - 1)

QueueInit ==
    /\ Init
    /\ head = 0
    /\ tail = 0
    /\ entry = [t \in Tickets |-> 0]
    /\ userTicket = [a \in Accounts |-> 0]
    /\ maxQueueSize \in QueueSizes

-----------------------------------------------------------------------------
(* Fault: a staker with a pending request may queue another. *)
MayQueueTwice(s) == ~paused /\ balance[s] > 0 /\ tail - head < maxQueueSize
(* The checks of queue_unstake. *)
MayQueue(s) ==
    ~paused /\ userTicket[s] = 0 /\ balance[s] > 0 /\ tail - head < maxQueueSize

queue_unstake(s) ==
    /\ MayQueue(s)
    /\ tail < MaxTickets
    /\ entry' = [entry EXCEPT ![tail] = s]
    /\ userTicket' = [userTicket EXCEPT ![s] = tail + 1]
    /\ tail' = tail + 1
    /\ UNCHANGED <<vars, head, maxQueueSize>>

set_max_unstake_queue_size(v) ==
    /\ ~multisig
    /\ maxQueueSize' = v
    /\ UNCHANGED <<vars, head, tail, entry, userTicket>>

(* Take the request at the head, s's, off the queue. *)
Dequeue(s) ==
    /\ entry' = [entry EXCEPT ![head] = 0]
    /\ userTicket' = [userTicket EXCEPT ![s] = 0]
    /\ head' = head + 1
    /\ UNCHANGED <<tail, maxQueueSize>>

(* Fault: the loop stops one slot short of the tail. *)
ProcessStopsShort ==
    LET s == entry[head]
    IN  ~paused /\ head + 1 < tail /\ Leave(s, balance[s]) /\ Dequeue(s)

(* The request at the head is paid.  The rate limit is recorded, as for a  *)
(* direct withdrawal, but not checked.                                     *)
ProcessHead ==
    LET s == entry[head]
    IN  ~paused /\ head < tail /\ Leave(s, balance[s]) /\ Dequeue(s)

(* Fault: a blocked request is dropped instead of left at the head. *)
ProcessDropsBlocked ==
    LET s == entry[head]
    IN  ~paused /\ head < tail /\ ~MayLeave(s, balance[s]) /\ Dequeue(s) /\ UNCHANGED vars

(* The request at the head is refused by a check that comes after the      *)
(* lockup check, which has then cleared an elapsed lockup: the one write   *)
(* of a failed request that stays.                                         *)
ProcessBlocked ==
    LET s == entry[head]
    IN  /\ ~paused
        /\ head < tail
        /\ balance[s] > 0
        /\ now >= lockedUntil[s]
        /\ lockupEnd[s] # 0
        /\ LockupReleased(s)
        /\ ~(MayLeave(s, balance[s]) /\ vault >= balance[s])
        /\ lockupEnd' = [lockupEnd EXCEPT ![s] = 0]
        /\ UNCHANGED <<clockVars, adminVars, balance, lockedUntil, requestedAt,
                       rate, delegationVars, indexVars, slashVars, tokenVars,
                       queueVars>>

process_unstake_queue == ProcessHead \/ ProcessBlocked

QueueNext ==
    \/ Next /\ UNCHANGED queueVars
    \/ \E s \in Accounts : queue_unstake(s)
    \/ process_unstake_queue
    \/ \E v \in QueueSizes : set_max_unstake_queue_size(v)

QueueSpec == QueueInit /\ [][QueueNext]_queueAllVars

(* Keepers call process_unstake_queue again and again. *)
FairQueueSpec == QueueSpec /\ WF_queueAllVars(process_unstake_queue)
-----------------------------------------------------------------------------
(* Properties *)

Queued == {entry[t] : t \in head..(tail - 1)}

(* The queue and the per-user tickets describe the same requests: the      *)
(* slots in use are the ones between head and tail, each holds a staker    *)
(* whose ticket names it, and no staker waits twice.  queue_unstake and    *)
(* process_unstake_queue write the two tables and the two ends apart.      *)
QueueMatchesTickets ==
    /\ head <= tail
    /\ \A t \in Tickets :
          IF t \in head..(tail - 1)
          THEN entry[t] \in Accounts /\ userTicket[entry[t]] = t + 1
          ELSE entry[t] = 0
    /\ \A a \in Accounts : userTicket[a] # 0 => entry[userTicket[a] - 1] = a

(* A request leaves the queue only by being paid in full, after every      *)
(* request queued before it.                                               *)
LeavesQueuePaid ==
    \A a \in Accounts : (userTicket[a] # 0 /\ userTicket'[a] = 0) =>
        /\ userTicket[a] = head + 1
        /\ wallet'[a] = wallet[a] + balance[a]
        /\ balance'[a] = 0
RequestsLeavePaid == [][LeavesQueuePaid]_queueAllVars

(* The queue moves: a queue whose stakers all have stake and may all leave *)
(* an open vault is not left standing.                                     *)
Standing ==
    /\ head < tail /\ ~paused
    /\ \A a \in Queued : MayLeave(a, balance[a]) /\ vault >= Total(balance, N)
QueueMoves == []<>~Standing

(* A blocked request only delays the ones behind it ("The caller should    *)
(* retry later once the blocking condition is resolved"): a staker that    *)
(* may leave an open vault does not wait for ever once no queued stake is  *)
(* locked any more.                                                        *)
WaitersServed ==
    \A a \in Accounts :
        []<>~(/\ a \in Queued /\ balance[a] > 0 /\ ~paused
              /\ vault >= Total(balance, N)
              /\ \A b \in Queued : balance[b] > 0 => MayLeave(b, balance[b]))
=============================================================================
