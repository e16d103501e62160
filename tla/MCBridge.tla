------------------------------ MODULE MCBridge -------------------------------
(***************************************************************************)
(* The bridge contract for TLC: each behaviour runs one component, chosen  *)
(* in the initial state, with the small sets and bounds of its INSTANCE.   *)
(* The components keep no state in common, so checking them one at a time  *)
(* loses nothing.                                                          *)
(***************************************************************************)
EXTENDS Integers, BridgeTransfers

CONSTANTS
    c1, c2, d1, d2, m1, p0, q0, r0, s1, s2, v0, v1, v2, w0

VARIABLES
    part,
    nowSigned, signers, required, proposals, validators, status, limits, active,
    version, pending, delay, approvedSigned,
    nowMsg, messages, outboundSeq, expectedNonce, escrows, deliveries,
    nowMon, monitored, transferMon, latencies, tripped, statsMon, since,
    kind, reserve, totalLp, lp, rewards, pausedPool, approvedPool, operator,
    bps, vshare, tshare, statsFee, dailyFee, transferFee, received, peak, adjusts

XferIdle == TransferInit /\ deployment = d1

Signed == INSTANCE BridgeGovernance WITH
    Signers <- {s1, s2}, InitialSigners <- {s1, s2}, InitialRequired <- 2,
    Validators <- {v1, v2}, InitialValidators <- {v1}, MinValidatorSignatures <- 1,
    Delays <- {0, 1}, ProposalExpiry <- 0, MaxTime <- 1, MaxProposals <- 2,
    now <- nowSigned, approved <- approvedSigned
proposalsVars == <<nowSigned, signers, required, proposals, validators, status, limits, active,
    version, pending, delay, approvedSigned>>
SignedIdle ==
    nowSigned = 0 /\ signers = 0 /\ required = 0 /\ proposals = 0 /\ validators = 0 /\
    status = 0 /\ limits = 0 /\ active = 0 /\ version = 0 /\ pending = 0 /\ delay = 0 /\
    approvedSigned = 0
ASSUME SignedAssumption == Signed!GovernanceTyped

Msg == INSTANCE BridgeMessaging WITH
    Chains <- {c1, c2}, MessageTimeout <- 1, Expiries <- {1}, MaxTime <- 1,
    MaxEscrows <- 1, MaxMessages <- 3, now <- nowMsg
messagesVars == <<nowMsg, messages, outboundSeq, expectedNonce, escrows, deliveries>>
MsgIdle ==
    nowMsg = 0 /\ messages = 0 /\ outboundSeq = 0 /\ expectedNonce = 0 /\ escrows = 0 /\
    deliveries = 0
ASSUME MsgAssumption == Msg!MessagingTyped

Mon == INSTANCE BridgeMonitoring WITH
    Ids <- {1}, Signatures <- {s1, s2}, Amounts <- {1, 2}, Method <- "EpochFinality",
    RequiredConfirmations <- 2, WindowSize <- 2, LatencyThreshold <- 0, Day <- 1,
    Blocks <- {0, 1}, MaxTime <- 2, MaxLatencies <- 3, MaxCompleted <- 2, now <- nowMon,
    transfer <- transferMon, stats <- statsMon
monitoringVars == <<nowMon, monitored, transferMon, latencies, tripped, statsMon, since>>
MonIdle ==
    nowMon = 0 /\ monitored = 0 /\ transferMon = 0 /\ latencies = 0 /\ tripped = 0 /\
    statsMon = 0 /\ since = 0
ASSUME MonAssumption == Mon!MonitoringTyped

Pool == INSTANCE BridgeLiquidity WITH
    Providers <- {p0, q0}, Others <- {r0}, Amounts <- {1, 5},
    PoolTypes <- {"ConstantProduct", "StableSwap"}, FeeBps <- 2500, RewardBps <- 2000,
    MaxReserve <- 7, paused <- pausedPool, approved <- approvedPool
poolVars == <<kind, reserve, totalLp, lp, rewards, pausedPool, approvedPool, operator>>
PoolIdle ==
    kind = 0 /\ reserve = 0 /\ totalLp = 0 /\ lp = 0 /\ rewards = 0 /\ pausedPool = 0 /\
    approvedPool = 0 /\ operator = 0
ASSUME PoolAssumption == Pool!LiquidityTyped

Fee == INSTANCE BridgeFees WITH
    Transfers <- {1}, Amounts <- {1000, 2500}, Validators <- {v0, w0}, BaseBps <- 12,
    MinFee <- 1, MaxFee <- 2, Shares <- {0, 5000, 7000}, MaxCapacity <- 4, MaxOwed <- 3,
    MaxCollects <- 4, MaxAdjusts <- 2, stats <- statsFee, daily <- dailyFee,
    transfer <- transferFee
feesVars == <<bps, vshare, tshare, statsFee, dailyFee, transferFee, received, peak, adjusts>>
FeeIdle ==
    bps = 0 /\ vshare = 0 /\ tshare = 0 /\ statsFee = 0 /\ dailyFee = 0 /\
    transferFee = 0 /\ received = 0 /\ peak = 0 /\ adjusts = 0
ASSUME FeeAssumption == Fee!FeesTyped

vars == <<part, transferVars, proposalsVars, messagesVars, monitoringVars, poolVars, feesVars>>

Init ==
    \/ part = "transfers" /\ TransferInit /\ SignedIdle /\ MsgIdle /\ MonIdle /\ PoolIdle /\ FeeIdle
    \/ part = "proposals" /\ Signed!Init /\ XferIdle /\ MsgIdle /\ MonIdle /\ PoolIdle /\ FeeIdle
    \/ part = "messages" /\ Msg!Init /\ XferIdle /\ SignedIdle /\ MonIdle /\ PoolIdle /\ FeeIdle
    \/ part = "monitoring" /\ Mon!Init /\ XferIdle /\ SignedIdle /\ MsgIdle /\ PoolIdle /\ FeeIdle
    \/ part = "pool" /\ Pool!Init /\ XferIdle /\ SignedIdle /\ MsgIdle /\ MonIdle /\ FeeIdle
    \/ part = "fees" /\ Fee!Init /\ XferIdle /\ SignedIdle /\ MsgIdle /\ MonIdle /\ PoolIdle
XferNext ==
    /\ part = "transfers" /\ TransferNext
    /\ UNCHANGED <<part, proposalsVars, messagesVars, monitoringVars, poolVars, feesVars>>
SignedNext ==
    /\ part = "proposals" /\ Signed!Next
    /\ UNCHANGED <<part, transferVars, messagesVars, monitoringVars, poolVars, feesVars>>
MsgNext ==
    /\ part = "messages" /\ Msg!Next
    /\ UNCHANGED <<part, transferVars, proposalsVars, monitoringVars, poolVars, feesVars>>
MonNext ==
    /\ part = "monitoring" /\ Mon!Next
    /\ UNCHANGED <<part, transferVars, proposalsVars, messagesVars, poolVars, feesVars>>
PoolNext ==
    /\ part = "pool" /\ Pool!Next
    /\ UNCHANGED <<part, transferVars, proposalsVars, messagesVars, monitoringVars, feesVars>>
FeeNext ==
    /\ part = "fees" /\ Fee!Next
    /\ UNCHANGED <<part, transferVars, proposalsVars, messagesVars, monitoringVars, poolVars>>
Next == XferNext \/ SignedNext \/ MsgNext \/ MonNext \/ PoolNext \/ FeeNext
Spec == Init /\ [][Next]_vars

-----------------------------------------------------------------------------
(* Messages are confirmed in the order they were sent and no chain is      *)
(* blocked for good; a pending validator set is ahead of the active one;   *)
(* the breaker trips on fresh measurements only, and a transfer that       *)
(* stands approved, or is being minted, has two signatures given since the *)
(* last reorganization.                                                    *)
RelayInOrder ==
    /\ part = "messages" => Msg!DeliveredInOrder /\ Msg!NextInLineAlive
    /\ part = "proposals" => Signed!PendingAhead
    /\ part = "monitoring" => Mon!ApprovedSinceReorg /\ Mon!TripsOnFreshLatencies
(* Pool shares are backed and a round trip gains nothing, shares of a fee  *)
(* are paid once, fees stay in their band and the volume series add up to  *)
(* the totals.                                                             *)
SharesAndFeesBacked ==
    /\ part = "pool" => Pool!SharesBacked /\ Pool!RoundTripNoGain
    /\ part = "fees" => Fee!SharesPaidOnce /\ Fee!FeeInBand
    /\ part = "monitoring" => Mon!SeriesAddsUp
(* A validator set attests only after its activation delay, the bridge     *)
(* changes only by a proposal with the signatures the rule in force        *)
(* demands, an escrow has one final disposition and no step takes value    *)
(* from the shares others hold.                                            *)
BridgeChangesByRule == [][
    /\ part = "proposals" => Signed!AttestsAfterDelay /\ Signed!ChangedBySignatures
    /\ part = "messages" => Msg!OneDisposition
    /\ part = "pool" => Pool!ShareValueKept
    ]_vars
(* The proposals of the bridge's signers implement the scheme of Approval:  *)
(* each is decided once, for good (sign, execute, cancel and the emergency  *)
(* path of governance.rs).                                                  *)
phase == IF part = "proposals" THEN Signed!phase ELSE [i \in 1..2 |-> "absent"]
effects == IF part = "proposals" THEN Signed!effects ELSE [i \in 1..2 |-> 0]
BySignatures == INSTANCE Approval WITH Items <- 1..2
DecidedOnce == BySignatures!Spec
=============================================================================
