-------------------------- MODULE EmergencyUnstake --------------------------
(***************************************************************************)
(* stake_vault's emergency exit (emergency_unstake.rs), on top of the      *)
(* vault: a staker asks to leave early, configured signers approve, and    *)
(* the approval that reaches the threshold pays the stake out less a       *)
(* burned penalty.                                                         *)
(*                                                                         *)
(* An approval of an expired request removes the request and returns Err:  *)
(* the host rolls the removal back, so only expire_emergency_request       *)
(* clears it.  Neither pause nor the vault's multi-sig guards this path.   *)
(***************************************************************************)
EXTENDS StakeVault, Sequences, FiniteSets

CONSTANTS EmergencyConfigs,    \* configurations the admin may submit
          EmergencyCooldowns   \* values of EmergencyCooldownSecs

NoConfig == [admins |-> <<>>, required |-> 0, penalty |-> 0, timeout |-> 0]

(* The checks of configure: admins is a list and may repeat a signer. *)
ValidConfig(c) ==
    /\ c.required > 0 /\ c.required <= Len(c.admins)
    /\ c.penalty <= BPS_DENOMINATOR

EmergencyTyped ==
    /\ \A c \in EmergencyConfigs :
          /\ DOMAIN c.admins = 1..Len(c.admins)
          /\ c.required \in Nat /\ c.penalty \in Nat /\ c.timeout \in Nat
    /\ EmergencyCooldowns \subseteq Nat

Signers == UNION {{c.admins[i] : i \in DOMAIN c.admins} : c \in EmergencyConfigs}

VARIABLES
    config,          \* EmergencyMultiSigConfig, or NoConfig
    cooldown,        \* EmergencyCooldownSecs
    request,         \* EmergencyRequest per staker; at is 0 when absent
    lastUnstakeAt    \* LastEmergencyUnstakeAt, 0 when absent

emergencyVars == <<config, cooldown, request, lastUnstakeAt>>
exitAllVars == <<vars, emergencyVars>>

NoRequest == [at |-> 0, approvals |-> {}]

EmergencyInit ==
    /\ Init
    /\ config = NoConfig
    /\ cooldown \in EmergencyCooldowns
    /\ request = [a \in Accounts |-> NoRequest]
    /\ lastUnstakeAt = [a \in Accounts |-> 0]

-----------------------------------------------------------------------------
IsAdmin(signer) == \E i \in DOMAIN config.admins : config.admins[i] = signer

(* The last ledger of a request is still in time; timeout 0 never expires. *)
Expired(r) == config.timeout > 0 /\ now > r.at + config.timeout

(* Fault: the cooldown is not consulted. *)
NeverCoolingDown(s) == FALSE

CoolingDown(s) ==
    cooldown # 0 /\ lastUnstakeAt[s] # 0 /\ now < lastUnstakeAt[s] + cooldown

configure_emergency_multisig(c) ==
    /\ ValidConfig(c)
    /\ config' = c
    /\ UNCHANGED <<vars, cooldown, request, lastUnstakeAt>>

set_emergency_cooldown(v) ==
    /\ cooldown' = v
    /\ UNCHANGED <<vars, config, request, lastUnstakeAt>>

request_emergency_unstake(s) ==
    /\ config # NoConfig
    /\ request[s] = NoRequest
    /\ ~CoolingDown(s)
    /\ request' = [request EXCEPT ![s] = [at |-> now, approvals |-> {}]]
    /\ UNCHANGED <<vars, config, cooldown, lastUnstakeAt>>

(* Fault: only the net amount leaves custody; the penalty is not burned. *)
PenaltyKept(s, gross, penalty) ==
    /\ vault >= gross
    /\ vault' = vault - (gross - penalty)
    /\ wallet' = [wallet EXCEPT ![s] = @ + (gross - penalty)]

(* The penalty is burned and the rest transferred. *)
PayLessPenalty(s, gross, penalty) ==
    /\ vault >= gross
    /\ vault' = vault - gross
    /\ wallet' = [wallet EXCEPT ![s] = @ + (gross - penalty)]

(* Fault: the lockup a slash set is not consulted. *)
EarlyUnstakeDespiteLockup(s) ==
    LET gross == balance[s]
        penalty == Smaller(apply_multiplier_bps(gross, config.penalty), gross)
    IN  /\ gross > 0
        /\ PayLessPenalty(s, gross, penalty)
        /\ balance' = [balance EXCEPT ![s] = 0]
        /\ lockedUntil' = [lockedUntil EXCEPT ![s] = 0]
        /\ lockupEnd' = [lockupEnd EXCEPT ![s] = 0]
        /\ UNCHANGED <<clockVars, adminVars, requestedAt, rate, delegationVars,
                       indexVars, slashVars>>

(* The whole stake leaves, whatever its minimum-duration lock.  The reward *)
(* index is not told.                                                      *)
execute_early_unstake(s) ==
    LET gross == balance[s]
        penalty == Smaller(apply_multiplier_bps(gross, config.penalty), gross)
    IN  /\ gross > 0
        /\ LockupReleased(s)
        /\ PayLessPenalty(s, gross, penalty)
        /\ balance' = [balance EXCEPT ![s] = 0]
        /\ lockedUntil' = [lockedUntil EXCEPT ![s] = 0]
        /\ lockupEnd' = [lockupEnd EXCEPT ![s] = 0]
        /\ UNCHANGED <<clockVars, adminVars, requestedAt, rate, delegationVars,
                       indexVars, slashVars>>

MayApprove(signer, s) ==
    /\ IsAdmin(signer)
    /\ request[s] # NoRequest
    /\ ~Expired(request[s])
    /\ signer \notin request[s].approvals

(* An approval below the threshold is recorded; the one that reaches it    *)
(* executes the request.  Approvals count even if their signer has been    *)
(* removed from the configuration since.                                   *)
approve_emergency_unstake(signer, s) ==
    LET approvals == request[s].approvals \cup {signer}
    IN  /\ MayApprove(signer, s)
        /\ \/ /\ Cardinality(approvals) < config.required
              /\ request' = [request EXCEPT ![s].approvals = approvals]
              /\ UNCHANGED <<vars, lastUnstakeAt>>
           \/ /\ Cardinality(approvals) >= config.required
              /\ execute_early_unstake(s)
              /\ request' = [request EXCEPT ![s] = NoRequest]
              /\ lastUnstakeAt' = [lastUnstakeAt EXCEPT ![s] = now]
        /\ UNCHANGED <<config, cooldown>>

expire_emergency_request(s) ==
    /\ config # NoConfig
    /\ request[s] # NoRequest
    /\ Expired(request[s])
    /\ request' = [request EXCEPT ![s] = NoRequest]
    /\ UNCHANGED <<vars, config, cooldown, lastUnstakeAt>>

EmergencyNext ==
    \/ Next /\ UNCHANGED emergencyVars
    \/ \E c \in EmergencyConfigs : configure_emergency_multisig(c)
    \/ \E v \in EmergencyCooldowns : set_emergency_cooldown(v)
    \/ \E s \in Accounts :
        \/ request_emergency_unstake(s)
        \/ \E signer \in Signers : approve_emergency_unstake(signer, s)
        \/ expire_emergency_request(s)

EmergencySpec == EmergencyInit /\ [][EmergencyNext]_exitAllVars
-----------------------------------------------------------------------------
(* Properties *)

(* Two emergency exits of one staker are a configured cooldown apart,      *)
(* although the cooldown is only looked at when a request is filed.        *)
EmergencyExitsSpaced ==
    \A s \in Accounts :
        (lastUnstakeAt[s] # 0 /\ lastUnstakeAt'[s] # lastUnstakeAt[s]) =>
            \E c \in EmergencyCooldowns : now - lastUnstakeAt[s] >= c
=============================================================================
