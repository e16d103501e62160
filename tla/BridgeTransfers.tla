--------------------------- MODULE BridgeTransfers ---------------------------
(***************************************************************************)
(* bridge: transfers between a source chain and the wrapped asset (lib.rs, *)
(* validators.rs).  A lock/mint reports a message of the source chain; the *)
(* validators approve it and the admin executes it, which mints.  A burn/  *)
(* unlock burns first and is approved and executed afterwards.  One route  *)
(* (source chain, destination chain, asset), its limits set by the admin.  *)
(***************************************************************************)
EXTENDS Integers, Sequences, FiniteSets, Totals

CONSTANTS N,                              \* users are 1..N
          Validators, Required,          \* the ValidatorSet
          Messages,                      \* <<source_tx_hash, source_nonce>>
          Amounts, MaxAmount, DailyLimit, Buffers,
          RouteMaxes, RouteTotals, RouteSpan,   \* choices for the route's limits
          Delay,                         \* withdraw_delay_seconds
          Deployments, Day, Validity,
          MaxTime, MaxTransfers, MaxChanges     \* bounds; changes of the settings

ASSUME BridgeTyped ==
    /\ N \in Nat /\ IsFiniteSet(Validators)
    /\ {Required, MaxAmount, DailyLimit, Day, Validity} \subseteq Nat \ {0}
    /\ {Delay, MaxTime, MaxTransfers, MaxChanges} \subseteq Nat
    /\ Amounts \subseteq Nat \ {0} /\ Buffers \cup RouteMaxes \cup RouteTotals \cup {RouteSpan} \subseteq Nat

Users == 1..N
Ids == 1..MaxTransfers

VARIABLES
    now,
    transfers,     \* <<BridgeTransfer>>, by id
    balance,       \* WrappedBalance of each user
    totalMinted,   \* TotalMinted
    daily,         \* DailyVolume
    route, window, \* WithdrawalRouteConfig and WithdrawalWindow, or None
    buffer,        \* LiquidityBuffer, or None
    replay,        \* ReplayLock
    consumed,      \* ConsumedMessage, by deployment and message
    deployment,    \* DeploymentId
    paused,
    chains,        \* SupportedChains
    changes        \* changes of the settings so far

adminVars == <<deployment, paused, chains, route, buffer, changes>>
ledgerVars == <<balance, totalMinted>>
volumeVars == <<daily, window>>
transferVars == <<now, transfers, ledgerVars, volumeVars, replay, consumed, adminVars>>

None == [absent |-> TRUE]
NoMessage == "none"
Chains == {"destination", "elsewhere"}
BridgeTransfer ==
    [kind : {"LockMint", "BurnUnlock"}, user : Users, amount : Amounts,
     msg : Messages \cup {NoMessage}, approvals : SUBSET Validators,
     status : {"PendingValidators", "ReadyToExecute", "Completed", "Failed"},
     created : Nat, expires : Nat, retryable : BOOLEAN,
     retried : BOOLEAN]     \* retried: history, the transfer went through retry_transfer

TransferTypeOK ==
    /\ now \in 0..MaxTime /\ transfers \in Seq(BridgeTransfer)
    /\ balance \in [Users -> Nat] /\ totalMinted \in Nat
    /\ daily \in [day : Nat, total : Nat]
    /\ window \in [start : Nat, total : Nat] \cup {None}
    /\ route \in [max : Nat, total : Nat, span : Nat] \cup {None}
    /\ buffer \in Buffers \cup {-1} /\ replay \subseteq Messages
    /\ consumed \subseteq Deployments \X Messages
    /\ deployment \in Deployments /\ paused \in BOOLEAN /\ chains \subseteq Chains
    /\ changes \in Nat

build_validator_set == Validators # {} /\ Required \in 1..Cardinality(Validators)
TransferInit ==
    /\ build_validator_set
    /\ now = 0 /\ transfers = <<>> /\ balance = [u \in Users |-> 0] /\ totalMinted = 0
    /\ daily = [day |-> 0, total |-> 0] /\ window = None /\ route = None /\ buffer = -1
    /\ replay = {} /\ consumed = {} /\ deployment \in Deployments
    /\ paused = FALSE /\ chains = {} /\ changes = 0

Tick == now < MaxTime /\ now' = now + 1
        /\ UNCHANGED <<transfers, ledgerVars, volumeVars, replay, consumed, adminVars>>

day_bucket(t) == (t \div Day) * Day

(* The volumeVars an amount must respect; both running totals are then moved.  *)
DailyAt(t) == IF daily.day = day_bucket(t) THEN daily ELSE [day |-> day_bucket(t), total |-> 0]
WindowAt(t) == IF window # None /\ t - window.start < route.span THEN window
               ELSE [start |-> t, total |-> 0]
Windowed == route # None /\ route.total > 0 /\ route.span > 0
FirstOfDayCounted(amount) ==
    /\ amount <= MaxAmount
    /\ route # None /\ route.max > 0 => amount <= route.max
    /\ UNCHANGED window
    /\ (IF daily.day = day_bucket(now) THEN daily.total ELSE 0) + amount <= DailyLimit
    /\ daily' = [DailyAt(now) EXCEPT !.total = IF daily.day = day_bucket(now) THEN @ ELSE amount]

validate_amount_and_limits(amount) ==
    /\ amount <= MaxAmount
    /\ route # None /\ route.max > 0 => amount <= route.max
    /\ IF Windowed
       THEN /\ WindowAt(now).total + amount <= route.total
            /\ window' = [WindowAt(now) EXCEPT !.total = @ + amount]
       ELSE UNCHANGED window
    /\ DailyAt(now).total + amount <= DailyLimit
    /\ buffer # -1 => amount <= 1 \/ amount <= buffer \div 10
    /\ daily' = [DailyAt(now) EXCEPT !.total = @ + amount]
(* An empty list of supported chains allows every destination. *)
ensure_chain_allowed == chains = {} \/ "destination" \in chains
validate_message_expiry(expires) == expires > now /\ expires - now <= 7 * Day
ensure_not_expired(t) == t.expires = 0 \/ now < t.expires

NewTransfer(kind, u, amount, msg, expires) ==
    [kind |-> kind, user |-> u, amount |-> amount, msg |-> msg, approvals |-> {},
     status |-> "PendingValidators", created |-> now,
     expires |-> expires, retryable |-> FALSE, retried |-> FALSE]

OnlyConsumedChecked(u, amount, msg, expires) ==
    /\ ~paused
    /\ validate_message_expiry(expires)
    /\ ensure_chain_allowed
    /\ validate_amount_and_limits(amount)
    /\ <<deployment, msg>> \notin consumed
    /\ Len(transfers) < MaxTransfers
    /\ transfers' = Append(transfers, NewTransfer("LockMint", u, amount, msg, expires))
    /\ UNCHANGED <<now, ledgerVars, consumed, adminVars, replay>>
initiate_lock_mint_inner(u, amount, msg, expires) ==
    /\ ~paused
    /\ validate_message_expiry(expires)
    /\ ensure_chain_allowed
    /\ validate_amount_and_limits(amount)
    /\ msg \notin replay
    /\ <<deployment, msg>> \notin consumed
    /\ Len(transfers) < MaxTransfers
    /\ transfers' = Append(transfers, NewTransfer("LockMint", u, amount, msg, expires))
    /\ replay' = replay \cup {msg}
    /\ UNCHANGED <<now, ledgerVars, consumed, adminVars>>
initiate_lock_mint(u, amount, msg) == initiate_lock_mint_inner(u, amount, msg, now + Validity)
initiate_lock_mint_with_expiry(u, amount, msg, expires) ==
    initiate_lock_mint_inner(u, amount, msg, expires)

(* validators.rs: one approval of each validator, whatever its signature.  *)
verify_and_record_approval(t, v) == v \in Validators /\ v \notin t.approvals
OneShort(approvals) == Cardinality(approvals) >= Required - 1
has_quorum(approvals) == Cardinality(approvals) >= Required
Approved(t, v) ==
    LET given == t.approvals \cup {v}
    IN [t EXCEPT !.approvals = given, !.status = IF has_quorum(given) THEN "ReadyToExecute" ELSE @]
approve_lock_mint(v, id) ==
    LET t == transfers[id]
    IN /\ t.kind = "LockMint" /\ t.status # "Completed"
       /\ ensure_not_expired(t)
       /\ verify_and_record_approval(t, v)
       /\ transfers' = [transfers EXCEPT ![id] = Approved(t, v)]
       /\ UNCHANGED <<now, ledgerVars, volumeVars, replay, consumed, adminVars>>
approve_burn_unlock(v, id) ==
    LET t == transfers[id]
    IN /\ t.kind = "BurnUnlock" /\ t.status # "Completed"
       /\ verify_and_record_approval(t, v)
       /\ transfers' = [transfers EXCEPT ![id] = Approved(t, v)]
       /\ UNCHANGED <<now, ledgerVars, volumeVars, replay, consumed, adminVars>>

Executed(t) == [t EXCEPT !.status = "Completed"]
MintLeavesReady(id) ==
    LET t == transfers[id]
    IN /\ ~paused
       /\ t.kind = "LockMint" /\ t.status = "ReadyToExecute"
       /\ ensure_not_expired(t)
       /\ balance' = [balance EXCEPT ![t.user] = @ + t.amount]
       /\ totalMinted' = totalMinted + t.amount
       /\ UNCHANGED transfers
       /\ consumed' = consumed \cup {<<deployment, t.msg>>}
       /\ UNCHANGED <<now, volumeVars, replay, adminVars>>

execute_lock_mint(id) ==
    LET t == transfers[id]
    IN /\ ~paused
       /\ t.kind = "LockMint" /\ t.status = "ReadyToExecute"
       /\ ensure_not_expired(t)
       /\ balance' = [balance EXCEPT ![t.user] = @ + t.amount]
       /\ totalMinted' = totalMinted + t.amount
       /\ transfers' = [transfers EXCEPT ![id] = Executed(t)]
       /\ consumed' = consumed \cup {<<deployment, t.msg>>}
       /\ UNCHANGED <<now, volumeVars, replay, adminVars>>
initiate_burn_unlock(u, amount) ==
    /\ ~paused
    /\ ensure_chain_allowed
    /\ validate_amount_and_limits(amount)
    /\ balance[u] >= amount
    /\ balance' = [balance EXCEPT ![u] = @ - amount]
    /\ totalMinted' = totalMinted - amount
    /\ Len(transfers) < MaxTransfers
    /\ transfers' = Append(transfers, NewTransfer("BurnUnlock", u, amount, NoMessage, 0))
    /\ UNCHANGED <<now, replay, consumed, adminVars>>
execute_burn_unlock(id) ==
    LET t == transfers[id]
    IN /\ ~paused
       /\ t.kind = "BurnUnlock" /\ t.status = "ReadyToExecute"
       /\ now >= t.created + Delay
       /\ transfers' = [transfers EXCEPT ![id] = Executed(t)]
       /\ UNCHANGED <<now, ledgerVars, volumeVars, replay, consumed, adminVars>>

mark_transfer_failed(id, retryable) ==
    LET t == transfers[id]
    IN /\ t.status # "Completed"
       /\ t.status = "Failed" => t.retryable
       /\ transfers' = [transfers EXCEPT ![id] = [t EXCEPT !.status = "Failed", !.retryable = retryable]]
       /\ UNCHANGED <<now, ledgerVars, volumeVars, replay, consumed, adminVars>>
retry_transfer(id) ==
    LET t == transfers[id]
    IN /\ t.status = "Failed" /\ t.retryable
       /\ transfers' = [transfers EXCEPT ![id] =
             [t EXCEPT !.status = "ReadyToExecute", !.retryable = FALSE, !.retried = TRUE]]
       /\ UNCHANGED <<now, ledgerVars, volumeVars, replay, consumed, adminVars>>

apply_governance_pause(p) ==
    /\ paused' = p
    /\ UNCHANGED <<now, transfers, ledgerVars, volumeVars, replay, consumed, deployment, chains, route, buffer>>
update_liquidity_buffer(b) ==
    /\ buffer' = b
    /\ UNCHANGED <<now, transfers, ledgerVars, volumeVars, replay, consumed, deployment, chains, route, paused>>
add_supported_chain(c) ==
    /\ chains' = chains \cup {c}
    /\ UNCHANGED <<now, transfers, ledgerVars, volumeVars, replay, consumed, deployment, paused, route, buffer>>
remove_supported_chain(c) ==
    /\ chains' = chains \ {c}
    /\ UNCHANGED <<now, transfers, ledgerVars, volumeVars, replay, consumed, deployment, paused, route, buffer>>
set_deployment_id(d) ==
    /\ deployment' = d
    /\ UNCHANGED <<now, transfers, ledgerVars, volumeVars, replay, consumed, paused, chains, route, buffer>>
set_withdrawal_route_limit(max, total) ==
    /\ route' = [max |-> max, total |-> total, span |-> RouteSpan]
    /\ window' = IF window = None THEN [start |-> now, total |-> 0] ELSE window
    /\ UNCHANGED <<now, transfers, ledgerVars, daily, replay, consumed, paused, chains, deployment, buffer>>

UserCalls ==
    \E u \in Users, a \in Amounts :
        \/ \E m \in Messages :
             \/ initiate_lock_mint(u, a, m)
             \/ initiate_lock_mint_with_expiry(u, a, m, now + 1)
        \/ initiate_burn_unlock(u, a)
TransferCalls ==
    \E id \in DOMAIN transfers :
        \/ \E v \in Validators : approve_lock_mint(v, id) \/ approve_burn_unlock(v, id)
        \/ execute_lock_mint(id) \/ execute_burn_unlock(id)
        \/ \E r \in BOOLEAN : mark_transfer_failed(id, r)
        \/ retry_transfer(id)
AdminCalls ==
    /\ changes < MaxChanges /\ changes' = changes + 1
    /\ \/ \E p \in BOOLEAN : apply_governance_pause(p)
       \/ \E b \in Buffers : update_liquidity_buffer(b)
       \/ \E c \in Chains : add_supported_chain(c) \/ remove_supported_chain(c)
       \/ \E d \in Deployments : set_deployment_id(d)
       \/ \E m \in RouteMaxes, t \in RouteTotals : set_withdrawal_route_limit(m, t)
TransferNext == Tick \/ UserCalls \/ TransferCalls \/ AdminCalls

TransferSpec == TransferInit /\ [][TransferNext]_transferVars

-----------------------------------------------------------------------------
(* What the transfers of S move in all. *)
Amount(S) == Total([id \in Ids |-> IF id \in S THEN transfers[id].amount ELSE 0], MaxTransfers)
Completed(kind) == {id \in DOMAIN transfers : transfers[id].kind = kind /\ transfers[id].status = "Completed"}

(* lib.rs 1632: a message of the source chain mints at most once, through  *)
(* failures, retries, expiry and a change of the deployment id, which the  *)
(* ConsumedMessage key of execute_lock_mint depends on.                    *)
MintedOncePerMessage ==
    \A i, j \in Completed("LockMint") : transfers[i].msg = transfers[j].msg => i = j

(* The wrapped supply is accounted for: what users hold is TotalMinted, and *)
(* it is what the completed mints brought minus everything burned, whether *)
(* the unlock completed, is pending or failed.                             *)
SupplyAccounted ==
    LET burns == {id \in DOMAIN transfers : transfers[id].kind = "BurnUnlock"}
    IN /\ totalMinted = Total(balance, N)
       /\ totalMinted = Amount(Completed("LockMint")) - Amount(burns)

(* The daily limit of initialize bounds what all users together start on   *)
(* one calendar day, mints and burns, however the calls fall.  lib.rs 38   *)
(* and 137 speak of a rolling day instead; of that, see RollingVolume.     *)
DailyLimitHolds ==
    \A d \in {day_bucket(t) : t \in 0..now} :
        Amount({id \in DOMAIN transfers : day_bucket(transfers[id].created) = d}) <= DailyLimit

(* In a day that begins at any moment the volume stays within twice the    *)
(* limit, and not within the limit: around midnight two days' limits can   *)
(* be used one after the other.                                            *)
RollingVolume ==
    \A t \in 0..now :
        Amount({id \in DOMAIN transfers : transfers[id].created \in t..(t + Day - 1)})
            <= 2 * DailyLimit

(* A transfer that nobody retried is released only with the approvals of   *)
(* the required number of different validators.                            *)
QuorumUnlessRetried ==
    \A id \in DOMAIN transfers :
        transfers[id].status = "Completed" /\ ~transfers[id].retried
            => Cardinality(transfers[id].approvals) >= Required

(* lib.rs 1562: a retry resets a transfer "so validators can re-approve":  *)
(* a retried transfer still has its quorum behind it when it completes.    *)
QuorumBehindRelease ==
    \A id \in DOMAIN transfers :
        transfers[id].status = "Completed" => Cardinality(transfers[id].approvals) >= Required

(* A message of the other chain mints at most once, the wrapped supply is  *)
(* what was minted less what was burned, the limit holds on every calendar *)
(* day and twice the limit in any day however the calls fall, and every    *)
(* release that nobody retried has a quorum.                               *)
TransfersSafe ==
    /\ MintedOncePerMessage /\ SupplyAccounted
    /\ DailyLimitHolds /\ RollingVolume /\ QuorumUnlessRetried
=============================================================================
