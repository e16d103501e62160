------------------------------ MODULE MCVault ------------------------------
(***************************************************************************)
(* The stake vault for TLC.  Each behaviour runs one part, chosen in the   *)
(* initial state: "custody" is StakeVault with the constants of the cfg;   *)
(* the others have a vault of their own, whose variables end in V, with    *)
(* the constants of their INSTANCE: StakeVault again under changing        *)
(* settings (an appeal window of 0 too, where slashes burn at once), and   *)
(* StakeVault extended by the emergency exit, by the multi-sig, and by the *)
(* multi-sig again with two proposals for opposite verdicts at a time.     *)
(* Slash shares are the contract's defaults; a table that is out of order  *)
(* must be refused, and a milder one is proposed under the multi-sig.      *)
(***************************************************************************)
EXTENDS StakeVault

CONSTANTS s1, s2   \* signers

MildTiers == [Minor |-> 0, Major |-> 2500, Critical |-> 5000]
BadOrder == [Minor |-> 4000, Major |-> 3000, Critical |-> 10000]
SeveralTables == {DefaultTiers, BadOrder}

(* Emergency exits: a penalty that rounds, and a threshold the list cannot *)
(* reach, which configure refuses.                                         *)
ExitTwoOfTwo == [admins |-> <<s1, s2>>, required |-> 2, penalty |-> 2000, timeout |-> 1]
ExitTooMany == [admins |-> <<s1>>, required |-> 2, penalty |-> 0, timeout |-> 0]
(* Multi-sig: the default timeout, and a config validate_config refuses. *)
TwoOfTwo == [signers |-> {s1, s2}, threshold |-> 2, timeout |-> 0]
OneOfTwo == [signers |-> {s1, s2}, threshold |-> 1, timeout |-> 0]
Unreachable == [signers |-> {s1}, threshold |-> 2, timeout |-> 0]
Proposable ==
    {<<"PAUSE">>, <<"UNPAUSE">>, <<"SET_MINIMUM_STAKE", 4>>,
     <<"SET_MINIMUM_STAKE_DURATION", 0>>, <<"CONFIGURE_SLASH_TIERS", MildTiers>>,
     <<"SET_APPEAL_WINDOW", 1>>, <<"SET_WITHDRAWAL_COOLDOWN", 0>>,
     <<"RESOLVE_APPEAL", 1, TRUE>>, <<"RESOLVE_APPEAL", 1, FALSE>>}
Verdicts == {<<"RESOLVE_APPEAL", 1, TRUE>>, <<"RESOLVE_APPEAL", 1, FALSE>>}

VARIABLES
    part,
    nowV, pausedV, multisigV, cfgV, balanceV, lockedUntilV, stakedNowV, requestedAtV,
    lockupEndV, rateV, delegatedV, totalDelegatedV, userStakeV, totalStakeV, lastSlashV,
    slashesV, slashV, heldV, appealV, walletV, vaultV, strandedV, unbackedV,
    config, cooldown, request, lastUnstakeAt,
    msConfig, proposalCount, proposal

vaultVars ==
    <<nowV, pausedV, multisigV, cfgV, balanceV, lockedUntilV, stakedNowV, requestedAtV,
    lockupEndV, rateV, delegatedV, totalDelegatedV, userStakeV, totalStakeV, lastSlashV,
    slashesV, slashV, heldV, appealV, walletV, vaultV, strandedV, unbackedV>>
VaultIdle ==
    nowV = 0 /\ pausedV = 0 /\ multisigV = 0 /\ cfgV = 0 /\ balanceV = 0 /\ lockedUntilV
    = 0 /\ stakedNowV = 0 /\ requestedAtV = 0 /\ lockupEndV = 0 /\ rateV = 0 /\
    delegatedV = 0 /\ totalDelegatedV = 0 /\ userStakeV = 0 /\ totalStakeV = 0 /\
    lastSlashV = 0 /\ slashesV = 0 /\ slashV = 0 /\ heldV = 0 /\ appealV = 0 /\ walletV
    = 0 /\ vaultV = 0 /\ strandedV = 0 /\ unbackedV = 0
exitVars == <<config, cooldown, request, lastUnstakeAt>>
ExitIdle == config = 0 /\ cooldown = 0 /\ request = 0 /\ lastUnstakeAt = 0
msVars == <<msConfig, proposalCount, proposal>>
MsIdle == msConfig = 0 /\ proposalCount = 0 /\ proposal = 0
all == <<part, vars, vaultVars, exitVars, msVars>>

Ruled == INSTANCE StakeVault WITH
    N <- 1, MaxSlashes <- 2, MaxTime <- 2, Amounts <- {3}, InitialWallet <- 3,
    LargeThreshold <- 3, RateWindow <- 2, RateMax <- 2, MinStakes <- {0}, MinDurations
    <- {0}, WithdrawalCooldowns <- {0}, SlashCooldowns <- {1}, Lockups <- {0, 2},
    AppealWindows <- {0, 1}, MultisigChoices <- {FALSE}, SlashTiers <- SeveralTables,
    now <- nowV, paused <- pausedV, multisig <- multisigV, cfg <- cfgV, balance <-
    balanceV, lockedUntil <- lockedUntilV, stakedNow <- stakedNowV, requestedAt <-
    requestedAtV, lockupEnd <- lockupEndV, rate <- rateV, delegated <- delegatedV,
    totalDelegated <- totalDelegatedV, userStake <- userStakeV, totalStake <-
    totalStakeV, lastSlash <- lastSlashV, slashes <- slashesV, slash <- slashV, held <-
    heldV, appeal <- appealV, wallet <- walletV, vault <- vaultV, stranded <- strandedV,
    unbacked <- unbackedV
Exit == INSTANCE EmergencyUnstake WITH
    N <- 1, MaxSlashes <- 1, MaxTime <- 3, Amounts <- {7}, InitialWallet <- 14,
    LargeThreshold <- 100, RateWindow <- 2, RateMax <- 1, MinStakes <- {0}, MinDurations
    <- {0}, WithdrawalCooldowns <- {1}, SlashCooldowns <- {1}, Lockups <- {1},
    AppealWindows <- {1}, MultisigChoices <- {FALSE}, SlashTiers <- DefaultTable,
    EmergencyCooldowns <- {2}, EmergencyConfigs <- {ExitTwoOfTwo, ExitTooMany},
    now <- nowV, paused <- pausedV, multisig <- multisigV, cfg <- cfgV, balance <-
    balanceV, lockedUntil <- lockedUntilV, stakedNow <- stakedNowV, requestedAt <-
    requestedAtV, lockupEnd <- lockupEndV, rate <- rateV, delegated <- delegatedV,
    totalDelegated <- totalDelegatedV, userStake <- userStakeV, totalStake <-
    totalStakeV, lastSlash <- lastSlashV, slashes <- slashesV, slash <- slashV, held <-
    heldV, appeal <- appealV, wallet <- walletV, vault <- vaultV, stranded <- strandedV,
    unbacked <- unbackedV
ASSUME ExitAssumption == Exit!EmergencyTyped
Ms == INSTANCE VaultMultisig WITH
    N <- 1, MaxSlashes <- 1, MaxTime <- 2, Amounts <- {3}, InitialWallet <- 3,
    LargeThreshold <- 10, RateWindow <- 3, RateMax <- 1, MinStakes <- {0, 4},
    MinDurations <- {0}, WithdrawalCooldowns <- {0}, SlashCooldowns <- {0}, Lockups <-
    {0}, AppealWindows <- {1}, MultisigChoices <- {TRUE}, SlashTiers <- {DefaultTiers,
    MildTiers}, MaxProposals <- 1, DefaultProposalTimeout <- 0, MultisigConfigs <-
    {TwoOfTwo, Unreachable}, Payloads <- Proposable,
    now <- nowV, paused <- pausedV, multisig <- multisigV, cfg <- cfgV, balance <-
    balanceV, lockedUntil <- lockedUntilV, stakedNow <- stakedNowV, requestedAt <-
    requestedAtV, lockupEnd <- lockupEndV, rate <- rateV, delegated <- delegatedV,
    totalDelegated <- totalDelegatedV, userStake <- userStakeV, totalStake <-
    totalStakeV, lastSlash <- lastSlashV, slashes <- slashesV, slash <- slashV, held <-
    heldV, appeal <- appealV, wallet <- walletV, vault <- vaultV, stranded <- strandedV,
    unbacked <- unbackedV
(* Two proposals at once, one for each verdict on the same appeal. *)
Duel == INSTANCE VaultMultisig WITH
    N <- 1, MaxSlashes <- 1, MaxTime <- 1, Amounts <- {3}, InitialWallet <- 3,
    LargeThreshold <- 10, RateWindow <- 2, RateMax <- 1, MinStakes <- {0},
    MinDurations <- {0}, WithdrawalCooldowns <- {0}, SlashCooldowns <- {0}, Lockups <-
    {0}, AppealWindows <- {1}, MultisigChoices <- {TRUE}, SlashTiers <- DefaultTable,
    MaxProposals <- 2, DefaultProposalTimeout <- 0, MultisigConfigs <- {OneOfTwo},
    Payloads <- Verdicts,
    now <- nowV, paused <- pausedV, multisig <- multisigV, cfg <- cfgV, balance <-
    balanceV, lockedUntil <- lockedUntilV, stakedNow <- stakedNowV, requestedAt <-
    requestedAtV, lockupEnd <- lockupEndV, rate <- rateV, delegated <- delegatedV,
    totalDelegated <- totalDelegatedV, userStake <- userStakeV, totalStake <-
    totalStakeV, lastSlash <- lastSlashV, slashes <- slashesV, slash <- slashV, held <-
    heldV, appeal <- appealV, wallet <- walletV, vault <- vaultV, stranded <- strandedV,
    unbacked <- unbackedV
ASSUME MsAssumption == Ms!MultisigTyped /\ Duel!MultisigTyped

CustodyInit ==
    part = "custody" /\ Init /\ VaultIdle /\ ExitIdle /\ MsIdle
MCInit ==
    \/ CustodyInit
    \/ part = "settings" /\ Ruled!Init /\ Init /\ ExitIdle /\ MsIdle
    \/ part = "exit" /\ Exit!EmergencyInit /\ Init /\ MsIdle
    \/ part = "multisig" /\ Ms!MultisigInit /\ Init /\ ExitIdle
    \/ part = "duel" /\ Duel!MultisigInit /\ Init /\ ExitIdle
CustodyNext ==
    part = "custody" /\ Next /\ UNCHANGED <<part, vaultVars, exitVars, msVars>>
RuledNext ==
    part = "settings" /\ Ruled!Next /\ UNCHANGED <<part, vars, exitVars, msVars>>
ExitNext == part = "exit" /\ Exit!EmergencyNext /\ UNCHANGED <<part, vars, msVars>>
MsNext == part = "multisig" /\ Ms!MultisigNext /\ UNCHANGED <<part, vars, exitVars>>
DuelNext == part = "duel" /\ Duel!MultisigNext /\ UNCHANGED <<part, vars, exitVars>>
MCNext == CustodyNext \/ RuledNext \/ ExitNext \/ MsNext \/ DuelNext
MCSpec == MCInit /\ [][MCNext]_all

(* The custody part alone. *)
CustodySpec == CustodyInit /\ [][CustodyNext]_all

-----------------------------------------------------------------------------
(* Under changing settings, with the emergency exit and under a multi-sig  *)
(* the vault's tokens still are exactly what it owes, and two slashes of   *)
(* one provider are at least a configured cooldown apart.                  *)
PartsHold ==
    /\ part = "settings" => Ruled!CustodyExact /\ Ruled!SlashesSpaced
    /\ part = "exit" => Exit!CustodyExact
    /\ part = "multisig" => Ms!CustodyExact
    /\ part = "duel" => Duel!CustodyExact
(* A lockup is only ever extended, or cleared once it has elapsed; on no   *)
(* path does a slashed provider take anything out before it has passed,    *)
(* and two emergency exits of one staker are a cooldown apart.             *)
LockupsHold == [][
    /\ part = "settings" => Ruled!LockupNeverShortened
    /\ part = "exit" => Exit!EmergencyExitsSpaced /\ Exit!SlashedProviderStaysIn
    ]_all
(* Under a multi-sig a gated setting moves only with an approved, live and *)
(* unspent proposal, and a slash that was upheld or reversed is not        *)
(* reopened by another proposal, a batch or a single admin.                *)
DecisionsStand ==
    [][ /\ part = "multisig" => Ms!SettingsNeedProposal /\ Ms!VerdictsFinal
        /\ part = "duel" => Duel!SettingsNeedProposal /\ Duel!VerdictsFinal ]_all
=============================================================================
