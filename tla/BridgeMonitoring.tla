--------------------------- MODULE BridgeMonitoring ---------------------------
(***************************************************************************)
(* bridge: monitoring of source transactions (monitoring.rs): finality and *)
(* reorganizations, the transfer each belongs to with its signatures, the  *)
(* circuit breaker on the latency of finality, and the volume statistics   *)
(* that a completed transfer updates (analytics.rs).  Transfer ids are     *)
(* given by the caller, one used again starts its transfer over, and every *)
(* call may come at any time.                                              *)
(***************************************************************************)
EXTENDS Integers, Sequences, FiniteSets, FiniteSetsExt, SequencesExt, TLC

CONSTANTS Ids, Signatures, Amounts,
          Method, RequiredConfirmations,      \* ChainFinalityConfig of the source chain
          WindowSize, LatencyThreshold,       \* LatencyCircuitBreakerConfig
          Day, Blocks,
          MaxTime, MaxLatencies, MaxCompleted \* bounds

MonitoringTyped ==
    /\ Method \in {"BlockConfirmations", "EpochFinality", "Probabilistic"}
    /\ Amounts \subseteq Nat \ {0} /\ Blocks \subseteq Nat
    /\ {WindowSize, Day} \subseteq Nat \ {0}
    /\ {RequiredConfirmations, LatencyThreshold, MaxTime, MaxLatencies, MaxCompleted} \subseteq Nat

VARIABLES
    now,
    monitored,    \* MonitoredTransaction of each id, or None
    transfer,     \* BridgeTransfer of each id, or None
    latencies,    \* LatencyWindow
    tripped,      \* CircuitBreakerTripped
    stats,        \* BridgeAnalytics: transfers, volume, volume_by_period
    since         \* history: latencies recorded since the breaker was last cleared

breaker == <<latencies, tripped, since>>
vars == <<now, monitored, transfer, breaker, stats>>

None == [absent |-> TRUE]
MonitoredTransaction ==
    [block : Nat, status : {"Pending", "Confirming", "Finalized", "Reorged", "Failed"}, first_seen : Nat]
BridgeTransfer ==
    [amount : Amounts, signatures : SUBSET Signatures,
     status : {"Pending", "ValidatorApproved", "Minting", "Complete", "Failed"},
     fresh : SUBSET Signatures]       \* history: those given since it was created or reorganized

TypeOK ==
    /\ now \in 0..MaxTime
    /\ monitored \in [Ids -> MonitoredTransaction \cup {None}]
    /\ transfer \in [Ids -> BridgeTransfer \cup {None}]
    /\ latencies \in Seq(Nat) /\ since \in Seq(Nat) /\ tripped \in BOOLEAN
    /\ stats \in [transfers : Nat, volume : Nat, series : Seq([at : Nat, value : Nat])]

Init ==
    /\ now = 0 /\ monitored = [i \in Ids |-> None] /\ transfer = [i \in Ids |-> None]
    /\ latencies = <<>> /\ since = <<>> /\ tripped = FALSE
    /\ stats = [transfers |-> 0, volume |-> 0, series |-> <<>>]

Tick == now < MaxTime /\ now' = now + 1 /\ UNCHANGED <<monitored, transfer, breaker, stats>>

(* Watching a transfer again starts over. *)
monitor_source_transaction(i, block) ==
    /\ monitored' = [monitored EXCEPT ![i] = [block |-> block, status |-> "Pending", first_seen |-> now]]
    /\ UNCHANGED <<now, transfer, breaker, stats>>

LastOf(s, n) == SubSeq(s, Len(s) - n + 1, Len(s))
Average(s) == FoldLeft(+, 0, s) \div Len(s)
record_finality_latency(l) ==
    LET w == Append(latencies, l)
        kept == IF Len(w) > WindowSize THEN LastOf(w, WindowSize) ELSE w
    IN /\ Len(since) < MaxLatencies
       /\ latencies' = kept /\ since' = Append(since, l)
       /\ tripped' = (tripped \/ (Len(kept) >= WindowSize /\ Average(kept) > LatencyThreshold))
IsFinal(confirmations) ==
    CASE Method = "BlockConfirmations" -> confirmations >= RequiredConfirmations
      [] Method = "EpochFinality" -> confirmations >= RequiredConfirmations \div 2
      [] Method = "Probabilistic" -> confirmations >= RequiredConfirmations * 2
mark_as_finalized(i) ==
    /\ monitored' = [monitored EXCEPT ![i].status = "Finalized"]
    /\ record_finality_latency(now - monitored[i].first_seen)
update_transaction_confirmation_count(i, block) ==
    /\ monitored[i] # None /\ monitored[i].status # "Finalized"
    /\ IF IsFinal(Max({block - monitored[i].block, 0}))
       THEN mark_as_finalized(i)
       ELSE monitored' = [monitored EXCEPT ![i].status = "Confirming"] /\ UNCHANGED breaker
    /\ UNCHANGED <<now, transfer, stats>>
ClearKeepsWindow ==
    /\ tripped' = FALSE /\ since' = <<>>
    /\ UNCHANGED <<now, monitored, transfer, stats, latencies>>
clear_circuit_breaker ==
    /\ tripped' = FALSE /\ latencies' = <<>> /\ since' = <<>>
    /\ UNCHANGED <<now, monitored, transfer, stats>>

ReorgKeepsSignatures(i) ==
    /\ monitored[i] # None
    /\ monitored' = [monitored EXCEPT ![i].status = "Reorged"]
    /\ transfer' = IF transfer[i] = None THEN transfer
                   ELSE [transfer EXCEPT ![i].status = "Pending", ![i].fresh = {}]
    /\ UNCHANGED <<now, breaker, stats>>
(* The transfer starts over, whatever it has reached. *)
handle_reorg(i) ==
    /\ monitored[i] # None
    /\ monitored' = [monitored EXCEPT ![i].status = "Reorged"]
    /\ transfer' = IF transfer[i] = None THEN transfer
                   ELSE [transfer EXCEPT ![i].status = "Pending", ![i].signatures = {}, ![i].fresh = {}]
    /\ UNCHANGED <<now, breaker, stats>>
mark_transaction_failed(i) ==
    /\ monitored[i] # None
    /\ monitored' = [monitored EXCEPT ![i].status = "Failed"]
    /\ transfer' = IF transfer[i] = None THEN transfer ELSE [transfer EXCEPT ![i].status = "Failed"]
    /\ UNCHANGED <<now, breaker, stats>>

create_bridge_transfer(i, amount) ==
    /\ ~tripped
    /\ transfer' = [transfer EXCEPT ![i] =
          [amount |-> amount, signatures |-> {}, status |-> "Pending",
           fresh |-> {}]]
    /\ UNCHANGED <<now, monitored, breaker, stats>>
(* Two signatures approve; the check is on the signature, not its author.  *)
add_validator_signature(i, sig) ==
    LET t == transfer[i]
        signed == t.signatures \cup {sig}
    IN /\ t # None /\ sig \notin t.signatures
       /\ transfer' = [transfer EXCEPT ![i] =
             [t EXCEPT !.signatures = signed, !.fresh = @ \cup {sig},
                       !.status = IF Cardinality(signed) >= 2 THEN "ValidatorApproved" ELSE @]]
       /\ UNCHANGED <<now, monitored, breaker, stats>>
approve_transfer_for_minting(i) ==
    /\ transfer[i] # None /\ transfer[i].status = "ValidatorApproved"
    /\ transfer' = [transfer EXCEPT ![i].status = "Minting"]
    /\ UNCHANGED <<now, monitored, breaker, stats>>

PointPerCompletion(series, value) == Append(series, [at |-> (now \div Day) * Day, value |-> value])
add_to_time_series(series, value) ==
    LET period == (now \div Day) * Day
        n == Len(series)
    IN IF n > 0 /\ series[n].at = period
       THEN [series EXCEPT ![n].value = @ + value]
       ELSE Append(series, [at |-> period, value |-> value])
update_transfer_analytics(t) ==
    stats' = [transfers |-> stats.transfers + 1, volume |-> stats.volume + t.amount,
              series |-> add_to_time_series(stats.series, t.amount)]
complete_transfer(i) ==
    /\ transfer[i] # None
    /\ stats.transfers < MaxCompleted
    /\ transfer' = [transfer EXCEPT ![i].status = "Complete"]
    /\ update_transfer_analytics(transfer[i])
    /\ UNCHANGED <<now, monitored, breaker>>

TransferCalls(i) ==
    \/ \E a \in Amounts : create_bridge_transfer(i, a)
    \/ \E s \in Signatures : add_validator_signature(i, s)
    \/ approve_transfer_for_minting(i) \/ complete_transfer(i)

Next ==
    \/ Tick \/ clear_circuit_breaker
    \/ \E i \in Ids :
         \/ \E b \in Blocks : monitor_source_transaction(i, b) \/ update_transaction_confirmation_count(i, b)
         \/ handle_reorg(i) \/ mark_transaction_failed(i)
         \/ TransferCalls(i)
Spec == Init /\ [][Next]_vars
Perms == Permutations(Signatures)

-----------------------------------------------------------------------------
(* monitoring.rs 388: the breaker trips on the average of the last         *)
(* latencies, all of them recorded since it was last cleared: it does not  *)
(* trip again on what the admin has already dealt with.                    *)
TripsOnFreshLatencies ==
    /\ Len(latencies) <= Len(since) /\ latencies = LastOf(since, Len(latencies))
    /\ tripped => \E k \in WindowSize..Len(since) :
                     Average(SubSeq(since, k - WindowSize + 1, k)) > LatencyThreshold

(* handle_reorg starts a transfer over: while a transfer stands approved,  *)
(* or being minted, two signatures given after the last reorganization are *)
(* behind it.  A transfer that is completed, and a source transaction that *)
(* is final, need no approval in the code, and nothing is said of them.    *)
ApprovedSinceReorg ==
    \A i \in Ids :
        transfer[i] # None /\ transfer[i].status \in {"ValidatorApproved", "Minting"} =>
            Cardinality(transfer[i].fresh) >= 2

(* The volume of the periods adds up to the total volume, one point for    *)
(* each period, in order: what get_bridge_volume_stats sums per period.    *)
SeriesAddsUp ==
    /\ stats.volume = FoldLeft(LAMBDA s, p : s + p.value, 0, stats.series)
    /\ \A j, k \in DOMAIN stats.series : j < k => stats.series[j].at < stats.series[k].at

=============================================================================
