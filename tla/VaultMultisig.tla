--------------------------- MODULE VaultMultisig ---------------------------
(***************************************************************************)
(* stake_vault under shared::multisig: once the admin has stored a config, *)
(* privileged settings are changed by proposals that a threshold of        *)
(* signers approve before they expire.  execute_action performs the        *)
(* proposal's payload on the vault and marks it executed; a payload that   *)
(* fails leaves the proposal pending.                                      *)
(*                                                                         *)
(* A config's signers are a set: validate_config refuses a repeated one.   *)
(* A payload is its action tag with the arguments it decodes to.           *)
(***************************************************************************)
EXTENDS StakeVault, Sequences, FiniteSets

CONSTANTS MultisigConfigs,         \* configs the admin may submit
          Payloads,                \* payloads a signer may propose
          MaxProposals,            \* bound on the number of proposals
          DefaultProposalTimeout   \* DEFAULT_PROPOSAL_TIMEOUT_SECS

MAX_SIGNERS == 20

MultisigTyped ==
    /\ MaxProposals \in Nat /\ DefaultProposalTimeout \in Nat
    /\ \A c \in MultisigConfigs :
          IsFiniteSet(c.signers) /\ c.threshold \in Nat /\ c.timeout \in Nat
    /\ \A p \in Payloads :
          /\ p[1] = "SET_MINIMUM_STAKE" => p[2] \in MinStakes
          /\ p[1] = "SET_MINIMUM_STAKE_DURATION" => p[2] \in MinDurations
          /\ p[1] = "CONFIGURE_SLASH_TIERS" => p[2] \in SlashTiers
          /\ p[1] = "SET_APPEAL_WINDOW" => p[2] \in AppealWindows
          /\ p[1] = "SET_WITHDRAWAL_COOLDOWN" => p[2] \in WithdrawalCooldowns
          /\ p[1] = "RESOLVE_APPEAL" => p[2] \in SlashIds /\ p[3] \in BOOLEAN

VARIABLES
    msConfig,        \* MultisigConfig, or NoMultisig
    proposalCount,   \* NextId - 1
    proposal         \* Proposal

multisigVars == <<msConfig, proposalCount, proposal>>
multisigAllVars == <<vars, multisigVars>>

NoMultisig == [signers |-> {}, threshold |-> 0, timeout |-> 0]
NoProposal == [payload |-> <<>>, approvals |-> {}, status |-> "None", expiresAt |-> 0]
ProposalIds == 1..MaxProposals
ConfigurableSigners == UNION {c.signers : c \in MultisigConfigs}

MultisigInit ==
    /\ Init
    /\ msConfig = NoMultisig
    /\ proposalCount = 0
    /\ proposal = [id \in ProposalIds |-> NoProposal]

-----------------------------------------------------------------------------
validate_config(c) ==
    /\ c.threshold > 0 /\ c.threshold <= Cardinality(c.signers)
    /\ Cardinality(c.signers) <= MAX_SIGNERS

(* The admin stores a config, or clears it. *)
SetConfig(c) ==
    /\ validate_config(c)
    /\ msConfig' = c
    /\ set_multisig_config(TRUE)
    /\ UNCHANGED <<proposalCount, proposal>>
ClearConfig ==
    /\ msConfig' = NoMultisig
    /\ set_multisig_config(FALSE)
    /\ UNCHANGED <<proposalCount, proposal>>

(* The proposer approves its proposal. *)
propose_action(signer, payload) ==
    LET timeout == IF msConfig.timeout > 0 THEN msConfig.timeout
                   ELSE DefaultProposalTimeout
    IN  /\ msConfig # NoMultisig
        /\ signer \in msConfig.signers
        /\ proposalCount < MaxProposals
        /\ proposalCount' = proposalCount + 1
        /\ proposal' = [proposal EXCEPT ![proposalCount + 1] =
                [payload |-> payload, approvals |-> {signer},
                 status |-> "Pending", expiresAt |-> now + timeout]]
        /\ UNCHANGED <<vars, msConfig>>

approve_action(signer, id) ==
    /\ msConfig # NoMultisig
    /\ signer \in msConfig.signers
    /\ proposal[id].status = "Pending"
    /\ now <= proposal[id].expiresAt
    /\ signer \notin proposal[id].approvals
    /\ proposal' = [proposal EXCEPT ![id].approvals = @ \cup {signer}]
    /\ UNCHANGED <<vars, msConfig, proposalCount>>

(* The privileged action a payload stands for. *)
Perform(payload) ==
    \/ payload = <<"PAUSE">> /\ SetPaused(TRUE)
    \/ payload = <<"UNPAUSE">> /\ SetPaused(FALSE)
    \/ payload[1] = "SET_MINIMUM_STAKE" /\ PutMinimumStake(payload[2])
    \/ payload[1] = "SET_MINIMUM_STAKE_DURATION"
       /\ PutMinimumStakeDuration(payload[2])
    \/ payload[1] = "CONFIGURE_SLASH_TIERS" /\ PutSlashTiers(payload[2])
    \/ payload[1] = "SET_APPEAL_WINDOW" /\ PutAppealWindow(payload[2])
    \/ payload[1] = "SET_WITHDRAWAL_COOLDOWN" /\ PutWithdrawalCooldown(payload[2])
    \/ payload[1] = "RESOLVE_APPEAL"
       /\ do_resolve_appeal(payload[2], payload[3], TRUE)

(* Fault: the deadline is not looked at when executing. *)
ExecuteAnyTime(p) ==
    /\ msConfig # NoMultisig
    /\ p.status = "Pending"
    /\ Cardinality(p.approvals) >= msConfig.threshold

(* Approvals are counted, whoever is a signer by now. *)
require_can_execute(p) ==
    /\ msConfig # NoMultisig
    /\ p.status = "Pending"
    /\ Cardinality(p.approvals) >= msConfig.threshold
    /\ now <= p.expiresAt

(* Anyone may execute an approved proposal. *)
execute_action(id) ==
    /\ require_can_execute(proposal[id])
    /\ Perform(proposal[id].payload)
    /\ proposal' = [proposal EXCEPT ![id].status = "Executed"]
    /\ UNCHANGED <<msConfig, proposalCount>>

MultisigNext ==
    \/ VaultNext /\ UNCHANGED multisigVars
    \/ \E c \in MultisigConfigs : SetConfig(c)
    \/ ClearConfig
    \/ \E signer \in ConfigurableSigners :
        \/ \E payload \in Payloads : propose_action(signer, payload)
        \/ \E id \in ProposalIds : approve_action(signer, id)
    \/ \E id \in ProposalIds : execute_action(id)

MultisigSpec == MultisigInit /\ [][MultisigNext]_multisigAllVars
-----------------------------------------------------------------------------
(* Properties *)

Executes(id) ==
    proposal[id].status = "Pending" /\ proposal'[id].status = "Executed"

(* The settings whose single-admin entry points refuse under a multi-sig. *)
Gated(settings) ==
    <<settings.minStake, settings.minDuration, settings.withdrawalCooldown,
      settings.appealWindow, settings.lockup>>

(* "Once configured, single-admin-gated entrypoints ... must instead be    *)
(* invoked via propose_action / approve_action / execute_action": under a  *)
(* multi-sig such a setting moves only with a proposal that was approved   *)
(* by the threshold, within its lifetime, and is spent by the change.      *)
SettingsNeedProposal ==
    (multisig /\ Gated(cfg') # Gated(cfg)) =>
        \E id \in ProposalIds :
            /\ Executes(id)
            /\ Cardinality(proposal[id].approvals) >= msConfig.threshold
            /\ now <= proposal[id].expiresAt

(* A verdict is final: no second proposal, batch or refiled appeal reopens *)
(* a slash that was upheld or reversed.                                    *)
VerdictsFinal ==
    \A i \in SlashIds :
        appeal[i] \in {"Upheld", "Reversed"} => appeal'[i] = appeal[i]
=============================================================================
