--------------------------- MODULE BridgeMessaging ---------------------------
(***************************************************************************)
(* bridge: messages to other chains (messaging.rs) and the relayer's fee   *)
(* in escrow for each (fee_escrow.rs).  Validators relay a message and     *)
(* confirm its delivery in the order of the chain's nonces; anyone may     *)
(* mark a message failed, expire it or put a failed one back.              *)
(***************************************************************************)
EXTENDS Integers, Sequences, FiniteSets, SequencesExt, TLC

CONSTANTS Chains,                 \* target chains with a bridge
          MessageTimeout,
          Expiries,               \* of a fee escrow, from now
          MaxTime, MaxMessages, \* bounds
          MaxEscrows              \* messages with an escrow

MessagingTyped ==
    /\ Expiries \subseteq Nat \ {0} /\ {MessageTimeout, MaxTime, MaxMessages, MaxEscrows} \subseteq Nat

VARIABLES
    now,
    messages,     \* <<CrossChainMessage>>, by id; "Removed" when storage no longer holds it
    outboundSeq, expectedNonce,   \* of each chain
    escrows,      \* FeeEscrow of each message id, or None
    deliveries    \* history: ids in the order their delivery was confirmed

vars == <<now, messages, outboundSeq, expectedNonce, escrows, deliveries>>
Perms == Permutations(Chains)

None == [absent |-> TRUE]
CrossChainMessage ==
    [chain : Chains, nonce : Nat, callback : BOOLEAN, sent : Nat,
     status : {"Pending", "Relayed", "Delivered", "Failed", "Removed"}]
FeeEscrow == [expiry : Nat, disposition : {"Pending", "ReleasedToClaimant", "RefundedToPayer"}]

TypeOK ==
    /\ now \in 0..MaxTime /\ messages \in Seq(CrossChainMessage)
    /\ outboundSeq \in [Chains -> Nat] /\ expectedNonce \in [Chains -> Nat]
    /\ escrows \in [1..MaxMessages -> FeeEscrow \cup {None}]
    /\ deliveries \in Seq(1..MaxMessages)

Init ==
    /\ now = 0 /\ messages = <<>> /\ deliveries = <<>>
    /\ outboundSeq = [c \in Chains |-> 0] /\ expectedNonce = [c \in Chains |-> 0]
    /\ escrows = [i \in 1..MaxMessages |-> None]

Tick == now < MaxTime /\ now' = now + 1
        /\ UNCHANGED <<messages, outboundSeq, expectedNonce, escrows, deliveries>>

assign_outbound_nonce(c) == outboundSeq' = [outboundSeq EXCEPT ![c] = @ + 1]
(* A message over MAX_MESSAGE_SIZE is refused before it takes a nonce. *)
send_cross_chain_message(c, callback) ==
    /\ Len(messages) < MaxMessages
    /\ assign_outbound_nonce(c)
    /\ messages' = Append(messages,
         [chain |-> c, nonce |-> outboundSeq[c], callback |-> callback, sent |-> now,
          status |-> "Pending"])
    /\ UNCHANGED <<now, expectedNonce, escrows, deliveries>>

SetStatus(id, s) ==
    /\ messages' = [messages EXCEPT ![id].status = s]
    /\ UNCHANGED <<now, outboundSeq, escrows>>
relay_message_to_target_chain(id) ==
    /\ messages[id].status = "Pending"
    /\ SetStatus(id, "Relayed") /\ UNCHANGED <<expectedNonce, deliveries>>
(* Without a callback the message is removed when it is delivered. *)
ConfirmAhead(id) ==
    LET msg == messages[id]
    IN /\ msg.status = "Relayed"
       /\ msg.nonce >= expectedNonce[msg.chain]
       /\ expectedNonce' = [expectedNonce EXCEPT ![msg.chain] = @ + 1]
       /\ deliveries' = Append(deliveries, id)
       /\ SetStatus(id, IF msg.callback THEN "Delivered" ELSE "Removed")
confirm_message_delivery(id) ==
    LET msg == messages[id]
    IN /\ msg.status = "Relayed"
       /\ msg.nonce = expectedNonce[msg.chain]
       /\ expectedNonce' = [expectedNonce EXCEPT ![msg.chain] = @ + 1]
       /\ deliveries' = Append(deliveries, id)
       /\ SetStatus(id, IF msg.callback THEN "Delivered" ELSE "Removed")
receive_message_callback(id) ==
    /\ messages[id].callback /\ messages[id].status = "Delivered"
    /\ SetStatus(id, "Removed") /\ UNCHANGED <<expectedNonce, deliveries>>
Incomplete(id) == messages[id].status \in {"Pending", "Relayed", "Failed"}
mark_message_failed(id) ==
    /\ Incomplete(id)
    /\ SetStatus(id, "Failed") /\ UNCHANGED <<expectedNonce, deliveries>>
retry_failed_message(id) ==
    /\ messages[id].status = "Failed"
    /\ SetStatus(id, "Pending") /\ UNCHANGED <<expectedNonce, deliveries>>
ExpiredIsRemoved(id) ==
    /\ now - messages[id].sent >= MessageTimeout
    /\ Incomplete(id)
    /\ SetStatus(id, "Removed") /\ UNCHANGED <<expectedNonce, deliveries>>
expire_timed_out_message(id) ==
    /\ now - messages[id].sent >= MessageTimeout
    /\ Incomplete(id)
    /\ SetStatus(id, "Failed") /\ UNCHANGED <<expectedNonce, deliveries>>

SetEscrow(id, e) ==
    /\ escrows' = [escrows EXCEPT ![id] = e]
    /\ UNCHANGED <<now, messages, outboundSeq, expectedNonce, deliveries>>
create_escrow(id, expiry) ==
    /\ expiry > now
    /\ escrows[id] = None
    /\ SetEscrow(id, [expiry |-> expiry, disposition |-> "Pending"])
Settle(id, d) == SetEscrow(id, [escrows[id] EXCEPT !.disposition = d])
release_on_execution(id) ==
    /\ escrows[id] # None /\ escrows[id].disposition = "Pending"
    /\ now < escrows[id].expiry
    /\ Settle(id, "ReleasedToClaimant")
RefundWhateverHappened(id) ==
    /\ escrows[id] # None
    /\ now >= escrows[id].expiry
    /\ Settle(id, "RefundedToPayer")
refund_on_timeout(id) ==
    /\ escrows[id] # None /\ escrows[id].disposition = "Pending"
    /\ now >= escrows[id].expiry
    /\ Settle(id, "RefundedToPayer")

DeliveryCalls ==
    \/ \E c \in Chains, callback \in BOOLEAN : send_cross_chain_message(c, callback)
    \/ \E id \in DOMAIN messages : relay_message_to_target_chain(id) \/ confirm_message_delivery(id)
FailureCalls ==
    \E id \in DOMAIN messages : receive_message_callback(id) \/ mark_message_failed(id) \/ retry_failed_message(id) \/ expire_timed_out_message(id)
EscrowCalls ==
    \E id \in DOMAIN messages : \/ id <= MaxEscrows /\ \E e \in Expiries : create_escrow(id, now + e)
                               \/ release_on_execution(id) \/ refund_on_timeout(id)

Next ==
    Tick \/ DeliveryCalls \/ FailureCalls \/ EscrowCalls
Spec == Init /\ [][Next]_vars

-----------------------------------------------------------------------------
(* messaging.rs 290: deliveries to a chain are confirmed in the order the  *)
(* messages were sent, each once, whatever failures, timeouts and retries  *)
(* happen to them and to those sent before.                                *)
DeliveredInOrder ==
    \A c \in Chains :
        LET toC == SelectSeq(deliveries, LAMBDA id : messages[id].chain = c)
        IN /\ Len(toC) = expectedNonce[c]
           /\ \A k \in DOMAIN toC : messages[toC[k]].nonce = k - 1

(* No chain is blocked for good: the message whose turn it is at a chain   *)
(* is still there to be relayed, retried or confirmed.                     *)
NextInLineAlive ==
    \A c \in Chains :
        expectedNonce[c] < outboundSeq[c] =>
            \E id \in DOMAIN messages :
                /\ messages[id].chain = c /\ messages[id].nonce = expectedNonce[c]
                /\ messages[id].status \in {"Pending", "Relayed", "Failed"}

(* fee_escrow.rs 5: "an escrow reaches exactly one final disposition",     *)
(* although the release races the refund when the expiry comes.            *)
OneDisposition ==
    \A id \in 1..MaxMessages :
       escrows[id] # None /\ escrows[id].disposition # "Pending"
           => escrows'[id] = escrows[id]
=============================================================================
