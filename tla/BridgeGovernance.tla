--------------------------- MODULE BridgeGovernance ---------------------------
(***************************************************************************)
(* bridge: multi-signature governance of one bridge (governance.rs).  The  *)
(* signers change the validators, the limits and the pause by proposals; a *)
(* changed validator set waits out the activation delay before it attests. *)
(***************************************************************************)
EXTENDS Integers, Sequences, FiniteSets, FiniteSetTheorems, SequenceTheorems, TLAPS

CONSTANTS Signers, InitialSigners, InitialRequired,
          Validators, InitialValidators, MinValidatorSignatures,
          Delays,                         \* choices for the activation delay
          ProposalExpiry,
          MaxTime, MaxProposals           \* bounds

GovernanceTyped ==
    /\ IsFiniteSet(Signers) /\ IsFiniteSet(Validators)
    /\ InitialSigners \subseteq Signers /\ InitialRequired \in 1..Cardinality(InitialSigners)
    /\ InitialValidators \subseteq Validators
    /\ Delays \subseteq Nat
    /\ {MinValidatorSignatures, ProposalExpiry, MaxTime, MaxProposals} \subseteq Nat

VARIABLES
    now,
    signers, required,        \* BridgeGovernance
    proposals,                \* <<GovernanceProposal>>, by id
    validators, status, limits,   \* Bridge: the approved validators, BridgeStatus, security_config
    active, version,          \* ActiveValidatorSet, ValidatorVersion
    pending,                  \* PendingValidatorSet, or None
    delay,                    \* ValidatorActivationDelay
    approved                  \* history: when the last set was approved, under which delay

bridge == <<validators, status, limits, active, version, pending, approved>>
vars == <<now, signers, required, proposals, delay, bridge>>

None == [absent |-> TRUE]
ProposalType ==
    [op : {"AddValidator", "RemoveValidator"}, who : Validators]
    \cup [op : {"PauseBridge", "UnpauseBridge", "UpdateSecurityLimits", "EmergencyWithdraw"}]
    \cup [op : {"UpdateRequiredSignatures"}, n : 0..Cardinality(Signers)]
GovernanceProposal ==
    [proposer : Signers, type : ProposalType, signatures : SUBSET Signers,
     status : {"Pending", "Executed", "Cancelled"}, expiry : Nat]

TypeOK ==
    /\ now \in 0..MaxTime /\ signers \subseteq Signers /\ required \in 1..Cardinality(signers)
    /\ proposals \in Seq(GovernanceProposal)
    /\ validators \subseteq Validators /\ active \subseteq Validators /\ version \in Nat
    /\ status \in {"Active", "Paused"} /\ limits \in {"initial", "updated"}
    /\ pending \in [validators : SUBSET Validators, version : Nat, activate_at : Nat] \cup {None}
    /\ delay \in Delays /\ approved \in [at : Nat, delay : Nat]

initialize_bridge_governance ==
    signers = InitialSigners /\ required = InitialRequired
initialize_bridge ==
    /\ MinValidatorSignatures \in 1..Cardinality(InitialValidators)
    /\ validators = InitialValidators /\ status = "Active" /\ limits = "initial"
    /\ active = InitialValidators /\ version = 1
Init ==
    /\ now = 0 /\ initialize_bridge_governance /\ initialize_bridge
    /\ proposals = <<>> /\ pending = None /\ delay \in Delays
    /\ approved = [at |-> 0, delay |-> 0]

Tick == now < MaxTime /\ now' = now + 1
        /\ UNCHANGED <<signers, required, proposals, delay, bridge>>

validate_proposal_type(t) ==
    CASE t.op = "AddValidator" -> t.who \notin validators
      [] t.op = "RemoveValidator" ->
            t.who \in validators /\ Cardinality(validators) > MinValidatorSignatures
      [] t.op = "UpdateRequiredSignatures" -> t.n \in 1..Cardinality(signers)
      [] OTHER -> TRUE
create_bridge_proposal(s, t) ==
    /\ s \in signers
    /\ validate_proposal_type(t)
    /\ Len(proposals) < MaxProposals
    /\ proposals' = Append(proposals,
         [proposer |-> s, type |-> t, signatures |-> {s}, status |-> "Pending",
          expiry |-> now + ProposalExpiry])
    /\ UNCHANGED <<now, signers, required, delay, bridge>>
(* Not a rotation yet: it asks for the new number of signatures only. *)
rotate_bridge_signers(s, new, n) ==
    /\ n \in 1..Cardinality(new)
    /\ create_bridge_proposal(s, [op |-> "UpdateRequiredSignatures", n |-> n])

(* An approved set attests at once without a delay; else it is pending,    *)
(* instead of the one that was pending, until activate_validator_set.      *)
ClockOfFirstChange(new) ==
    /\ approved' = [at |-> now, delay |-> delay]
    /\ IF delay = 0
       THEN active' = new /\ version' = version + 1 /\ pending' = None
       ELSE /\ pending' = [validators |-> new, version |-> version + 1,
                           activate_at |-> IF pending = None THEN now + delay ELSE pending.activate_at]
            /\ UNCHANGED <<active, version>>
ImmediateKeepsPending(new) ==
    /\ approved' = [at |-> now, delay |-> delay]
    /\ IF delay = 0
       THEN active' = new /\ version' = version + 1 /\ UNCHANGED pending
       ELSE /\ pending' = [validators |-> new, version |-> version + 1, activate_at |-> now + delay]
            /\ UNCHANGED <<active, version>>
stage_validator_change(new) ==
    /\ approved' = [at |-> now, delay |-> delay]
    /\ IF delay = 0
       THEN active' = new /\ version' = version + 1 /\ pending' = None
       ELSE /\ pending' = [validators |-> new, version |-> version + 1, activate_at |-> now + delay]
            /\ UNCHANGED <<active, version>>
execute_add_validator(v) ==
    /\ v \notin validators
    /\ validators' = validators \cup {v}
    /\ stage_validator_change(validators')
    /\ UNCHANGED <<status, limits, required>>
execute_remove_validator(v) ==
    /\ v \in validators
    /\ Cardinality(validators \ {v}) >= MinValidatorSignatures
    /\ validators' = validators \ {v}
    /\ stage_validator_change(validators')
    /\ UNCHANGED <<status, limits, required>>
execute_update_security_limits ==
    limits' = "updated" /\ UNCHANGED <<status, required, validators, active, version, pending, approved>>
execute_pause_bridge ==
    status' = "Paused" /\ UNCHANGED <<limits, required, validators, active, version, pending, approved>>
execute_unpause_bridge ==
    status' = "Active" /\ UNCHANGED <<limits, required, validators, active, version, pending, approved>>
execute_update_required_signatures(n) ==
    /\ n \in 1..Cardinality(signers)
    /\ required' = n
    /\ UNCHANGED bridge
(* Publishes an event; nothing is moved. *)
execute_emergency_withdraw == UNCHANGED <<bridge, required>>

Effect(t) ==
    \/ t.op = "AddValidator" /\ execute_add_validator(t.who)
    \/ t.op = "RemoveValidator" /\ execute_remove_validator(t.who)
    \/ t.op = "UpdateSecurityLimits" /\ execute_update_security_limits
    \/ t.op = "PauseBridge" /\ execute_pause_bridge
    \/ t.op = "UnpauseBridge" /\ execute_unpause_bridge
    \/ t.op = "UpdateRequiredSignatures" /\ execute_update_required_signatures(t.n)
    \/ t.op = "EmergencyWithdraw" /\ execute_emergency_withdraw

(* A proposal p carried out as proposal id; an expired one stays Pending,  *)
(* for the error undoes the change of its status.                          *)
CarryOut(id, p) ==
    /\ p.status = "Pending"
    /\ now <= p.expiry
    /\ Cardinality(p.signatures) >= required
    /\ Effect(p.type)
    /\ proposals' = [proposals EXCEPT ![id] = [p EXCEPT !.status = "Executed"]]
execute_bridge_proposal(id) == CarryOut(id, proposals[id]) /\ UNCHANGED <<now, signers, delay>>
(* The signature that completes the quorum carries the proposal out; when  *)
(* that fails the signature is lost with it.                               *)
sign_bridge_proposal(s, id) ==
    LET p == [proposals[id] EXCEPT !.signatures = @ \cup {s}]
    IN /\ s \in signers
       /\ s \notin proposals[id].signatures
       /\ p.status = "Pending" /\ now <= p.expiry
       /\ IF Cardinality(p.signatures) >= required
          THEN CarryOut(id, p)
          ELSE proposals' = [proposals EXCEPT ![id] = p] /\ UNCHANGED <<required, bridge>>
       /\ UNCHANGED <<now, signers, delay>>
SuperMajority == (Cardinality(signers) * 75) \div 100
SuperMajorityAlone(id) ==
    /\ proposals[id].status = "Pending"
    /\ Cardinality(proposals[id].signatures) >= SuperMajority
    /\ proposals[id].type.op \in {"PauseBridge", "EmergencyWithdraw"}
    /\ Effect(proposals[id].type)
    /\ proposals' = [proposals EXCEPT ![id].status = "Executed"]
    /\ UNCHANGED <<now, signers, delay>>
emergency_execute_proposal(id) ==
    /\ proposals[id].status = "Pending"
    /\ Cardinality(proposals[id].signatures) >= SuperMajority
    /\ proposals[id].type.op \in {"PauseBridge", "EmergencyWithdraw"}
    /\ execute_bridge_proposal(id)
CancelExecuted(s, id) ==
    /\ proposals[id].proposer = s
    /\ proposals' = [proposals EXCEPT ![id].status = "Cancelled"]
    /\ UNCHANGED <<now, signers, required, delay, bridge>>
cancel_proposal(s, id) ==
    /\ proposals[id].proposer = s
    /\ proposals[id].status = "Pending"
    /\ proposals' = [proposals EXCEPT ![id].status = "Cancelled"]
    /\ UNCHANGED <<now, signers, required, delay, bridge>>

activate_validator_set ==
    /\ pending # None
    /\ now >= pending.activate_at
    /\ pending.version > version
    /\ active' = pending.validators /\ version' = pending.version /\ pending' = None
    /\ UNCHANGED <<now, signers, required, proposals, delay, validators, status, limits, approved>>
cancel_pending_validator_set(s) ==
    /\ s \in signers
    /\ pending # None /\ pending' = None
    /\ UNCHANGED <<now, signers, required, proposals, delay, validators, status, limits, active, version, approved>>
set_validator_activation_delay(s, d) ==
    /\ s \in signers
    /\ delay' = d
    /\ UNCHANGED <<now, signers, required, proposals, bridge>>

(* Called by the hosting contract: neither checks who calls. *)
add_signer(s) ==
    /\ s \notin signers
    /\ signers' = signers \cup {s}
    /\ UNCHANGED <<now, required, proposals, delay, bridge>>
remove_signer(s) ==
    /\ s \in signers
    /\ Cardinality(signers) - 1 >= required
    /\ signers' = signers \ {s}
    /\ UNCHANGED <<now, required, proposals, delay, bridge>>

SignerCalls ==
    \E s \in Signers :
        \/ \E t \in ProposalType : create_bridge_proposal(s, t)
        \/ \E n \in 1..Cardinality(Signers) : rotate_bridge_signers(s, Signers, n)
        \/ \E id \in DOMAIN proposals : sign_bridge_proposal(s, id) \/ cancel_proposal(s, id)
        \/ cancel_pending_validator_set(s)
        \/ \E d \in Delays : set_validator_activation_delay(s, d)
        \/ add_signer(s) \/ remove_signer(s)
Next ==
    \/ Tick \/ SignerCalls \/ activate_validator_set
    \/ \E id \in DOMAIN proposals : execute_bridge_proposal(id) \/ emergency_execute_proposal(id)

Spec == Init /\ [][Next]_vars

-----------------------------------------------------------------------------
(* governance.rs 441: "the approved set only becomes usable for            *)
(* attestations once the activation delay has elapsed": the set that       *)
(* starts to attest was approved that long ago, also when it replaced      *)
(* another pending set and when the delay was changed meanwhile.           *)
AttestsAfterDelay ==
    active' # active => now >= approved'.at + approved'.delay

(* governance.rs 98: a pending set has a version ahead of the active one,  *)
(* is the set last approved, and the bridge never attests with fewer       *)
(* validators than signatures it needs.                                    *)
PendingAhead ==
    /\ pending # None => pending.version > version /\ pending.validators = validators
    /\ Cardinality(active) >= MinValidatorSignatures

(* Only a proposal changes the bridge, in the step that marks it executed, *)
(* signed by as many as the rule in force demands - along the emergency    *)
(* path too, whose super-majority may be smaller.                          *)
ChangedBySignatures ==
    <<validators, limits, status, required>>' # <<validators, limits, status, required>> =>
       \E id \in DOMAIN proposals :
          /\ proposals[id].status = "Pending" /\ proposals'[id].status = "Executed"
          /\ Cardinality(proposals'[id].signatures) >= required

(* Each proposal is decided once, for good: the scheme of Approval.  What  *)
(* expired is neither granted nor refused.                                 *)
PhaseIn(list, i) ==
    IF i > Len(list) THEN "absent"
    ELSE IF list[i].status = "Pending" THEN "asked"
    ELSE IF list[i].status = "Executed" THEN "granted" ELSE "refused"
phase == [i \in 1..MaxProposals |-> PhaseIn(proposals, i)]
effects == [i \in 1..MaxProposals |-> IF phase[i] = "granted" THEN 1 ELSE 0]
BySignatures == INSTANCE Approval WITH Items <- 1..MaxProposals
DecidedOnce == BySignatures!Spec

-----------------------------------------------------------------------------
(* What the signatures of a proposal put in force: the pending set waits   *)
(* exactly the delay its approval was given under, and no approved set is  *)
(* smaller than the number of signatures the bridge needs.                 *)
GovernanceInv ==
    /\ TypeOK /\ Len(proposals) <= MaxProposals /\ PendingAhead
    /\ Cardinality(validators) >= MinValidatorSignatures
    /\ pending # None => pending.activate_at = approved.at + approved.delay

LEMMA GovernanceConstants ==
  ASSUME GovernanceTyped
  PROVE  /\ IsFiniteSet(Signers) /\ IsFiniteSet(Validators) /\ Delays \subseteq Nat
         /\ MinValidatorSignatures \in Nat /\ ProposalExpiry \in Nat /\ MaxTime \in Nat
         /\ MaxProposals \in Nat /\ Cardinality(Signers) \in Nat
BY FS_CardinalityType DEF GovernanceTyped

LEMMA SetSizes ==
  ASSUME GovernanceTyped, NEW S, S \subseteq Signers \/ S \subseteq Validators
  PROVE  /\ IsFiniteSet(S) /\ Cardinality(S) \in Nat
         /\ \A x : x \notin S => Cardinality(S \cup {x}) = Cardinality(S) + 1
         /\ \A x : x \in S => Cardinality(S \ {x}) = Cardinality(S) - 1
<1>1. IsFiniteSet(S)
  BY GovernanceConstants, FS_Subset
<1>2. Cardinality(S) \in Nat
  BY <1>1, FS_CardinalityType
<1>3. \A x : x \notin S => Cardinality(S \cup {x}) = Cardinality(S) + 1
  BY <1>1, FS_AddElement
<1>4. \A x : x \in S => Cardinality(S \ {x}) = Cardinality(S) - 1
  BY <1>1, FS_RemoveElement
<1> QED BY <1>1, <1>2, <1>3, <1>4

LEMMA GovernanceBegins ==
  ASSUME GovernanceTyped, Init
  PROVE  GovernanceInv
<1>1. /\ signers = InitialSigners /\ required = InitialRequired /\ now = 0
      /\ validators = InitialValidators /\ active = InitialValidators /\ version = 1
      /\ MinValidatorSignatures \in 1..Cardinality(InitialValidators)
      /\ status = "Active" /\ limits = "initial" /\ proposals = <<>> /\ pending = None
      /\ delay \in Delays /\ approved = [at |-> 0, delay |-> 0]
  BY DEF Init, initialize_bridge_governance, initialize_bridge
<1>2. MaxTime \in Nat /\ MaxProposals \in Nat /\ Cardinality(InitialValidators) \in Nat
  BY GovernanceConstants, SetSizes DEF GovernanceTyped
<1>3. TypeOK
  <2>1. proposals \in Seq(GovernanceProposal) /\ now \in 0..MaxTime
    BY <1>1, <1>2
  <2>2. signers \subseteq Signers /\ required \in 1..Cardinality(signers) /\ validators \subseteq Validators
    BY <1>1 DEF GovernanceTyped
  <2> QED BY <1>1, <2>1, <2>2 DEF TypeOK
<1>4. Cardinality(validators) >= MinValidatorSignatures
  BY <1>1, <1>2
<1>5. PendingAhead
  BY <1>1, <1>4 DEF PendingAhead
<1>6. Len(proposals) <= MaxProposals
  BY <1>1, <1>2
<1> QED BY <1>1, <1>3, <1>4, <1>5, <1>6 DEF GovernanceInv

(* The list of proposals after a step. *)
ListOK(list) == list \in Seq(GovernanceProposal) /\ Len(list) <= MaxProposals

LEMMA ListUpdated ==
  ASSUME NEW list, ListOK(list), NEW id \in DOMAIN list, NEW p \in GovernanceProposal,
         NEW up, up = [list EXCEPT ![id] = p]
  PROVE  /\ ListOK(up) /\ Len(up) = Len(list) /\ DOMAIN up = DOMAIN list /\ up[id] = p
         /\ \A i \in DOMAIN list : i # id => up[i] = list[i]
<1>1. list \in Seq(GovernanceProposal)
  BY DEF ListOK
<1>2. /\ up \in Seq(GovernanceProposal) /\ Len(up) = Len(list)
      /\ \A j \in 1..Len(list) : up[j] = IF j = id THEN p ELSE list[j]
  BY <1>1, ExceptSeq, LenProperties
<1>3. DOMAIN list = 1..Len(list) /\ DOMAIN up = 1..Len(up)
  BY <1>1, <1>2, LenProperties
<1> QED BY <1>2, <1>3 DEF ListOK

LEMMA ListExtended ==
  ASSUME GovernanceTyped, NEW list, ListOK(list), Len(list) < MaxProposals,
         NEW p \in GovernanceProposal, NEW up, up = Append(list, p)
  PROVE  /\ ListOK(up) /\ Len(up) = Len(list) + 1 /\ Len(list) \in Nat /\ up[Len(list) + 1] = p
         /\ \A i \in 1..Len(list) : up[i] = list[i]
<1>1. list \in Seq(GovernanceProposal) /\ MaxProposals \in Nat
  BY GovernanceConstants DEF ListOK
<1>2. /\ up \in Seq(GovernanceProposal) /\ Len(up) = Len(list) + 1 /\ Len(list) \in Nat
      /\ up[Len(list) + 1] = p /\ \A i \in 1..Len(list) : up[i] = list[i]
  BY <1>1
<1> QED BY <1>1, <1>2 DEF ListOK

(* A proposal keeps its type, and its shape, when it is signed or decided. *)
LEMMA ProposalFields ==
  ASSUME NEW p \in GovernanceProposal
  PROVE  /\ p.type \in ProposalType /\ p.signatures \in SUBSET Signers
         /\ p.status \in {"Pending", "Executed", "Cancelled"} /\ p.expiry \in Nat
         /\ \A S \in SUBSET Signers : [p EXCEPT !.signatures = S] \in GovernanceProposal
         /\ \A st \in {"Pending", "Executed", "Cancelled"} :
                [p EXCEPT !.status = st] \in GovernanceProposal
BY DEF GovernanceProposal

(* The variables the effect of a proposal may change. *)
EffectOK ==
    /\ validators' \subseteq Validators /\ active' \subseteq Validators /\ version' \in Nat
    /\ status' \in {"Active", "Paused"} /\ limits' \in {"initial", "updated"}
    /\ pending' \in [validators : SUBSET Validators, version : Nat, activate_at : Nat] \cup {None}
    /\ approved' \in [at : Nat, delay : Nat] /\ required' \in 1..Cardinality(signers)
    /\ PendingAhead' /\ Cardinality(validators') >= MinValidatorSignatures
    /\ pending' # None => pending'.activate_at = approved'.at + approved'.delay
    /\ active' # active => now >= approved'.at + approved'.delay

LEMMA SetStaged ==
  ASSUME GovernanceTyped, GovernanceInv, validators' \subseteq Validators,
         Cardinality(validators') >= MinValidatorSignatures,
         stage_validator_change(validators'), UNCHANGED <<status, limits, required>>
  PROVE  EffectOK
<1>1. /\ now \in Nat /\ delay \in Nat /\ version \in Nat /\ active \subseteq Validators
      /\ Cardinality(active) >= MinValidatorSignatures
  BY GovernanceConstants DEF GovernanceInv, TypeOK, PendingAhead
<1>2. approved' = [at |-> now, delay |-> delay]
  BY DEF stage_validator_change
<1>3. /\ approved' \in [at : Nat, delay : Nat] /\ approved'.at = now /\ approved'.delay = delay
  BY <1>1, <1>2
<1>4. /\ status' \in {"Active", "Paused"} /\ limits' \in {"initial", "updated"}
      /\ required' \in 1..Cardinality(signers)
  BY DEF GovernanceInv, TypeOK
<1>5. CASE delay = 0
  <2>1. active' = validators' /\ version' = version + 1 /\ pending' = None
    BY <1>5 DEF stage_validator_change
  <2>2. PendingAhead'
    BY <2>1 DEF PendingAhead
  <2>3. now >= approved'.at + approved'.delay
    BY <1>1, <1>3, <1>5
  <2> QED BY <1>1, <1>3, <1>4, <2>1, <2>2, <2>3 DEF EffectOK
<1>6. CASE delay # 0
  <2> DEFINE q == [validators |-> validators', version |-> version + 1, activate_at |-> now + delay]
  <2>1. active' = active /\ version' = version /\ pending' = q
    BY <1>6 DEF stage_validator_change
  <2>2. /\ q \in [validators : SUBSET Validators, version : Nat, activate_at : Nat]
        /\ q.validators = validators' /\ q.version = version + 1 /\ q.activate_at = now + delay
    BY <1>1
  <2> HIDE DEF q
  <2>3. PendingAhead'
    BY <1>1, <2>1, <2>2 DEF PendingAhead
  <2> QED BY <1>1, <1>3, <1>4, <2>1, <2>2, <2>3 DEF EffectOK
<1> QED BY <1>5, <1>6

LEMMA EffectKeeps ==
  ASSUME GovernanceTyped, GovernanceInv, NEW t \in ProposalType, Effect(t)
  PROVE  EffectOK
<1>1. /\ validators \subseteq Validators /\ active \subseteq Validators /\ version \in Nat
      /\ status \in {"Active", "Paused"} /\ limits \in {"initial", "updated"}
      /\ pending \in [validators : SUBSET Validators, version : Nat, activate_at : Nat] \cup {None}
      /\ approved \in [at : Nat, delay : Nat] /\ required \in 1..Cardinality(signers)
      /\ PendingAhead /\ Cardinality(validators) >= MinValidatorSignatures
      /\ pending # None => pending.activate_at = approved.at + approved.delay
  BY DEF GovernanceInv, TypeOK
<1>2. ASSUME UNCHANGED <<validators, active, version, pending, approved>>,
             status' \in {"Active", "Paused"}, limits' \in {"initial", "updated"},
             required' \in 1..Cardinality(signers)
      PROVE  EffectOK
  <2>1. PendingAhead'
    BY <1>1, <1>2 DEF PendingAhead
  <2> QED BY <1>1, <1>2, <2>1 DEF EffectOK
<1>3. ASSUME t.op = "AddValidator", execute_add_validator(t.who)
      PROVE  EffectOK
  <2>1. t.who \in Validators
    BY <1>3 DEF ProposalType
  <2>2. validators' = validators \cup {t.who} /\ t.who \notin validators
        /\ stage_validator_change(validators') /\ UNCHANGED <<status, limits, required>>
    BY <1>3 DEF execute_add_validator
  <2>3. Cardinality(validators') = Cardinality(validators) + 1 /\ Cardinality(validators) \in Nat
    BY <1>1, <2>2, SetSizes
  <2>4. validators' \subseteq Validators /\ Cardinality(validators') >= MinValidatorSignatures
    BY <1>1, <2>1, <2>2, <2>3, GovernanceConstants
  <2> QED BY <2>2, <2>4, SetStaged
<1>4. ASSUME t.op = "RemoveValidator", execute_remove_validator(t.who)
      PROVE  EffectOK
  <2>1. /\ validators' = validators \ {t.who} /\ Cardinality(validators') >= MinValidatorSignatures
        /\ stage_validator_change(validators') /\ UNCHANGED <<status, limits, required>>
    BY <1>4 DEF execute_remove_validator
  <2>2. validators' \subseteq Validators
    BY <1>1, <2>1
  <2> QED BY <2>1, <2>2, SetStaged
<1>5. ASSUME execute_update_security_limits
      PROVE  EffectOK
  BY <1>1, <1>2, <1>5 DEF execute_update_security_limits
<1>6. ASSUME execute_pause_bridge \/ execute_unpause_bridge
      PROVE  EffectOK
  BY <1>1, <1>2, <1>6 DEF execute_pause_bridge, execute_unpause_bridge
<1>7. ASSUME execute_update_required_signatures(t.n)
      PROVE  EffectOK
  BY <1>1, <1>2, <1>7 DEF execute_update_required_signatures, bridge
<1>8. ASSUME execute_emergency_withdraw
      PROVE  EffectOK
  BY <1>1, <1>2, <1>8 DEF execute_emergency_withdraw, bridge
<1> QED BY <1>3, <1>4, <1>5, <1>6, <1>7, <1>8 DEF Effect

(* The four ways a step treats the list of proposals. *)
Asked == \E p \in GovernanceProposal :
    p.status = "Pending" /\ Len(proposals) < MaxProposals /\ proposals' = Append(proposals, p)
DecidedAs(st) == \E id \in DOMAIN proposals, p \in GovernanceProposal :
    /\ proposals[id].status = "Pending" /\ p.status = st
    /\ proposals' = [proposals EXCEPT ![id] = p]

(* A proposal is carried out with the signatures the rule demands. *)
CarriedOut == \E id \in DOMAIN proposals, p \in GovernanceProposal :
    /\ proposals[id].status = "Pending" /\ p.status = "Executed"
    /\ Cardinality(p.signatures) >= required
    /\ proposals' = [proposals EXCEPT ![id] = p]

Quiet == UNCHANGED <<validators, active, version, pending, approved, status, limits, required>>

(* Every step is one of these, as far as the proposals and what they put   *)
(* in force are concerned.                                                 *)
StepKinds ==
    \/ CarriedOut /\ EffectOK /\ UNCHANGED <<now, signers, delay>>
    \/ (Asked \/ DecidedAs("Pending") \/ DecidedAs("Cancelled")) /\ Quiet /\ UNCHANGED <<now, signers, delay>>
    \/ /\ proposals' = proposals /\ UNCHANGED <<validators, status, limits, required, approved>>
       /\ \/ Quiet /\ signers' = signers /\ delay' \in Delays /\ now' \in 0..MaxTime
          \/ Quiet /\ signers' \subseteq Signers /\ required <= Cardinality(signers')
             /\ UNCHANGED <<now, delay>>
          \/ /\ pending # None /\ pending' = None /\ UNCHANGED <<now, signers, delay>>
             /\ \/ UNCHANGED <<active, version>>
                \/ now >= pending.activate_at
                   /\ active' = pending.validators /\ version' = pending.version

LEMMA CarryOutKinds ==
  ASSUME GovernanceTyped, GovernanceInv, NEW id \in DOMAIN proposals, NEW p \in GovernanceProposal,
         proposals[id].status = "Pending", CarryOut(id, p), UNCHANGED <<now, signers, delay>>
  PROVE  StepKinds
<1> DEFINE q == [p EXCEPT !.status = "Executed"]
<1>1. /\ q \in GovernanceProposal /\ q.status = "Executed" /\ q.signatures = p.signatures
      /\ p.type \in ProposalType
  <2>1. q \in GovernanceProposal /\ p.type \in ProposalType
    BY ProposalFields
  <2>2. q.status = "Executed" /\ q.signatures = p.signatures
    BY DEF GovernanceProposal
  <2> QED BY <2>1, <2>2
<1>2. proposals' = [proposals EXCEPT ![id] = q] /\ Effect(p.type) /\ Cardinality(p.signatures) >= required
  BY DEF CarryOut
<1> HIDE DEF q
<1>3. CarriedOut
  BY <1>1, <1>2 DEF CarriedOut
<1>4. EffectOK
  BY <1>1, <1>2, EffectKeeps
<1> QED BY <1>3, <1>4 DEF StepKinds

LEMMA AskKinds ==
  ASSUME GovernanceTyped, GovernanceInv, NEW s \in Signers, NEW t \in ProposalType,
         create_bridge_proposal(s, t)
  PROVE  StepKinds
<1> DEFINE p == [proposer |-> s, type |-> t, signatures |-> {s}, status |-> "Pending",
                 expiry |-> now + ProposalExpiry]
<1>1. p \in GovernanceProposal /\ p.status = "Pending"
  BY GovernanceConstants DEF GovernanceProposal, GovernanceInv, TypeOK
<1>2. Len(proposals) < MaxProposals /\ proposals' = Append(proposals, p)
  BY DEF create_bridge_proposal
<1> HIDE DEF p
<1>3. Asked
  BY <1>1, <1>2 DEF Asked
<1> QED BY <1>3 DEF create_bridge_proposal, bridge, Quiet, StepKinds

LEMMA SignKinds ==
  ASSUME GovernanceTyped, GovernanceInv, NEW s \in Signers, NEW id \in DOMAIN proposals,
         sign_bridge_proposal(s, id)
  PROVE  StepKinds
<1> DEFINE o == proposals[id]
           S == o.signatures \cup {s}
           p == [o EXCEPT !.signatures = S]
<1>1. o \in GovernanceProposal
  BY ElementOfSeq, LenProperties DEF GovernanceInv, TypeOK
<1>2. S \in SUBSET Signers
  BY <1>1, ProposalFields
<1>3. p \in GovernanceProposal /\ p.status = o.status
  <2> HIDE DEF o, S
  <2>1. p \in GovernanceProposal
    BY <1>1, <1>2, ProposalFields
  <2>2. p.status = o.status
    BY <1>1 DEF GovernanceProposal
  <2> QED BY <2>1, <2>2
<1>4. /\ p.status = "Pending" /\ UNCHANGED <<now, signers, delay>>
      /\ IF Cardinality(p.signatures) >= required
         THEN CarryOut(id, p)
         ELSE proposals' = [proposals EXCEPT ![id] = p] /\ UNCHANGED <<required, bridge>>
  BY DEF sign_bridge_proposal
<1>5. proposals[id].status = "Pending"
  BY <1>3, <1>4
<1> HIDE DEF p, S, o
<1>6. CASE Cardinality(p.signatures) >= required
  BY <1>3, <1>4, <1>5, <1>6, CarryOutKinds
<1>7. CASE ~(Cardinality(p.signatures) >= required)
  <2>1. proposals' = [proposals EXCEPT ![id] = p] /\ UNCHANGED <<required, bridge>>
    BY <1>4, <1>7
  <2>2. DecidedAs("Pending")
    BY <1>3, <1>4, <1>5, <2>1 DEF DecidedAs
  <2> QED BY <1>4, <2>1, <2>2 DEF StepKinds, Quiet, bridge
<1> QED BY <1>6, <1>7

LEMMA CancelKinds ==
  ASSUME GovernanceTyped, GovernanceInv, NEW s \in Signers, NEW id \in DOMAIN proposals,
         cancel_proposal(s, id)
  PROVE  StepKinds
<1> DEFINE o == proposals[id]
           p == [o EXCEPT !.status = "Cancelled"]
<1>1. o \in GovernanceProposal
  BY ElementOfSeq, LenProperties DEF GovernanceInv, TypeOK
<1>2. p \in GovernanceProposal /\ p.status = "Cancelled"
  <2> HIDE DEF o
  <2>1. p \in GovernanceProposal
    BY <1>1, ProposalFields
  <2>2. p.status = "Cancelled"
    BY <1>1 DEF GovernanceProposal
  <2> QED BY <2>1, <2>2
<1>3. proposals' = [proposals EXCEPT ![id] = p] /\ proposals[id].status = "Pending"
  BY DEF cancel_proposal
<1> HIDE DEF p
<1>4. DecidedAs("Cancelled")
  BY <1>2, <1>3 DEF DecidedAs
<1> QED BY <1>4 DEF StepKinds, Quiet, cancel_proposal, bridge

LEMMA NextKinds ==
  ASSUME GovernanceTyped, GovernanceInv, Next
  PROVE  StepKinds
<1>0. /\ now \in 0..MaxTime /\ delay \in Delays /\ signers \subseteq Signers
      /\ required \in 1..Cardinality(signers) /\ MaxTime \in Nat
  BY GovernanceConstants DEF GovernanceInv, TypeOK
<1>1. ASSUME Tick PROVE StepKinds
  <2>1. now' \in 0..MaxTime
    BY <1>0, <1>1 DEF Tick
  <2> QED BY <1>0, <1>1, <2>1 DEF Tick, bridge, StepKinds, Quiet
<1>2. ASSUME activate_validator_set PROVE StepKinds
  BY <1>2 DEF activate_validator_set, StepKinds
<1>3. ASSUME NEW id \in DOMAIN proposals,
             execute_bridge_proposal(id) \/ emergency_execute_proposal(id)
      PROVE  StepKinds
  <2>1. proposals[id] \in GovernanceProposal
    BY ElementOfSeq, LenProperties DEF GovernanceInv, TypeOK
  <2>2. CarryOut(id, proposals[id]) /\ UNCHANGED <<now, signers, delay>>
    BY <1>3 DEF execute_bridge_proposal, emergency_execute_proposal
  <2>3. proposals[id].status = "Pending"
    BY <2>2 DEF CarryOut
  <2> QED BY <2>1, <2>2, <2>3, CarryOutKinds
<1>4. ASSUME NEW s \in Signers, NEW n \in 1..Cardinality(Signers), rotate_bridge_signers(s, Signers, n)
      PROVE  StepKinds
  <2> DEFINE t == [op |-> "UpdateRequiredSignatures", n |-> n]
  <2>1. t \in ProposalType
    BY GovernanceConstants DEF ProposalType
  <2>2. create_bridge_proposal(s, t)
    BY <1>4 DEF rotate_bridge_signers
  <2> HIDE DEF t
  <2> QED BY <2>1, <2>2, AskKinds
<1>5. ASSUME NEW s \in Signers, cancel_pending_validator_set(s) PROVE StepKinds
  BY <1>5 DEF cancel_pending_validator_set, StepKinds
<1>6. ASSUME NEW s \in Signers, NEW d \in Delays, set_validator_activation_delay(s, d)
      PROVE  StepKinds
  BY <1>0, <1>6 DEF set_validator_activation_delay, bridge, StepKinds, Quiet
<1>7. ASSUME NEW s \in Signers, add_signer(s) PROVE StepKinds
  <2>1. s \notin signers /\ signers' = signers \cup {s}
    BY <1>7 DEF add_signer
  <2>2. Cardinality(signers') = Cardinality(signers) + 1 /\ Cardinality(signers) \in Nat
    BY <1>0, <2>1, SetSizes
  <2>3. signers' \subseteq Signers /\ required <= Cardinality(signers')
    BY <1>0, <2>1, <2>2
  <2> QED BY <1>7, <2>3 DEF add_signer, bridge, StepKinds, Quiet
<1>8. ASSUME NEW s \in Signers, remove_signer(s) PROVE StepKinds
  <2>1. s \in signers /\ signers' = signers \ {s} /\ Cardinality(signers) - 1 >= required
    BY <1>8 DEF remove_signer
  <2>2. Cardinality(signers') = Cardinality(signers) - 1 /\ Cardinality(signers) \in Nat
    BY <1>0, <2>1, SetSizes
  <2>3. signers' \subseteq Signers /\ required <= Cardinality(signers')
    BY <1>0, <2>1, <2>2
  <2> QED BY <1>8, <2>3 DEF remove_signer, bridge, StepKinds, Quiet
<1>9. CASE SignerCalls
  BY <1>4, <1>5, <1>6, <1>7, <1>8, <1>9, AskKinds, SignKinds, CancelKinds DEF SignerCalls
<1> QED BY <1>1, <1>2, <1>3, <1>9 DEF Next

LEMMA ListStays ==
  ASSUME GovernanceTyped, GovernanceInv, StepKinds
  PROVE  proposals' \in Seq(GovernanceProposal) /\ Len(proposals') <= MaxProposals
<1>1. ListOK(proposals)
  BY DEF GovernanceInv, TypeOK, ListOK
<1>2. ASSUME NEW id \in DOMAIN proposals, NEW p \in GovernanceProposal,
             proposals' = [proposals EXCEPT ![id] = p]
      PROVE  ListOK(proposals')
  BY <1>1, <1>2, ListUpdated
<1>3. ASSUME Asked PROVE ListOK(proposals')
  BY <1>1, <1>3, ListExtended DEF Asked
<1>4. ListOK(proposals')
  BY <1>1, <1>2, <1>3 DEF StepKinds, CarriedOut, DecidedAs
<1> QED BY <1>4 DEF ListOK

LEMMA GovernanceKept ==
  ASSUME GovernanceTyped, GovernanceInv, StepKinds
  PROVE  GovernanceInv'
<1>0. /\ now \in 0..MaxTime /\ delay \in Delays /\ signers \subseteq Signers
      /\ required \in 1..Cardinality(signers) /\ Cardinality(signers) \in Nat
      /\ validators \subseteq Validators /\ active \subseteq Validators /\ version \in Nat
      /\ status \in {"Active", "Paused"} /\ limits \in {"initial", "updated"}
      /\ pending \in [validators : SUBSET Validators, version : Nat, activate_at : Nat] \cup {None}
      /\ approved \in [at : Nat, delay : Nat]
  BY SetSizes DEF GovernanceInv, TypeOK
<1>1. proposals' \in Seq(GovernanceProposal) /\ Len(proposals') <= MaxProposals
  BY ListStays
<1>2. CASE EffectOK /\ UNCHANGED <<now, signers, delay>>
  <2>1. TypeOK'
    BY <1>0, <1>1, <1>2 DEF EffectOK, TypeOK
  <2> QED BY <1>1, <1>2, <2>1 DEF EffectOK, GovernanceInv
<1>3. ASSUME Quiet, now' \in 0..MaxTime, delay' \in Delays, signers' \subseteq Signers,
             required <= Cardinality(signers')
      PROVE  GovernanceInv'
  <2>1. required' \in 1..Cardinality(signers')
    <3>1. Cardinality(signers') \in Nat
      BY <1>3, SetSizes
    <3> QED BY <1>0, <1>3, <3>1 DEF Quiet
  <2>2. TypeOK'
    BY <1>0, <1>1, <1>3, <2>1 DEF Quiet, TypeOK
  <2>3. PendingAhead'
    BY <1>3 DEF Quiet, GovernanceInv, PendingAhead
  <2> QED BY <1>1, <1>3, <2>2, <2>3 DEF Quiet, GovernanceInv
<1>4. ASSUME pending # None, pending' = None, UNCHANGED <<now, signers, delay>>,
             UNCHANGED <<validators, status, limits, required, approved>>,
             \/ UNCHANGED <<active, version>>
             \/ active' = pending.validators /\ version' = pending.version
      PROVE  GovernanceInv'
  <2>1. pending.validators = validators /\ pending.version \in Nat
    BY <1>0, <1>4 DEF GovernanceInv, PendingAhead
  <2>2. active' \subseteq Validators /\ version' \in Nat
    BY <1>0, <1>4, <2>1
  <2>3. TypeOK'
    BY <1>0, <1>1, <1>4, <2>2 DEF TypeOK
  <2>4. PendingAhead'
    BY <1>4, <2>1 DEF GovernanceInv, PendingAhead
  <2> QED BY <1>1, <1>4, <2>3, <2>4 DEF GovernanceInv
<1>5. required <= Cardinality(signers)
  BY <1>0
<1> QED BY <1>0, <1>2, <1>3, <1>4, <1>5 DEF StepKinds

LEMMA GovernanceInductive ==
  ASSUME GovernanceTyped, GovernanceInv, [Next]_vars
  PROVE  GovernanceInv'
<1>1. CASE Next
  BY <1>1, NextKinds, GovernanceKept
<1>2. CASE UNCHANGED vars
  BY <1>2 DEF vars, bridge, GovernanceInv, TypeOK, PendingAhead
<1> QED BY <1>1, <1>2

(* For any signers, validators and delays, GovernanceInv is inductive:     *)
(* also when signers come and go while proposals are open.                 *)
THEOREM GovernanceInvariant ==
  ASSUME GovernanceTyped
  PROVE  Spec => []GovernanceInv
<1>1. Init => GovernanceInv
  BY GovernanceBegins
<1>2. GovernanceInv /\ [Next]_vars => GovernanceInv'
  BY GovernanceInductive
<1> QED BY <1>1, <1>2, PTL DEF Spec

(* PendingAhead: the pending set is the one last approved, ahead of the    *)
(* active one, and no set that attests is too small.                       *)
THEOREM PendingStaysAhead ==
  ASSUME GovernanceTyped
  PROVE  Spec => []PendingAhead
<1>1. GovernanceInv => PendingAhead
  BY DEF GovernanceInv
<1> QED BY <1>1, GovernanceInvariant, PTL

(* AttestsAfterDelay: no interleaving of replaced sets, cancellations and  *)
(* changed delays lets a set attest before its own delay is over.          *)
THEOREM AttestationWaits ==
  ASSUME GovernanceTyped
  PROVE  Spec => [][AttestsAfterDelay]_vars
<1>1. ASSUME GovernanceInv, Next
      PROVE  AttestsAfterDelay
  <2>1. StepKinds
    BY <1>1, NextKinds
  <2>2. pending # None => pending.activate_at = approved.at + approved.delay
    BY <1>1 DEF GovernanceInv
  <2> QED BY <2>1, <2>2 DEF StepKinds, EffectOK, Quiet, AttestsAfterDelay
<1>2. GovernanceInv /\ [Next]_vars => [AttestsAfterDelay]_vars
  BY <1>1
<1> QED BY <1>2, GovernanceInvariant, PTL DEF Spec

(* ChangedBySignatures: validators, limits, pause and the signatures rule  *)
(* itself change with a proposal signed as the rule in force demands.      *)
THEOREM ChangesAreSigned ==
  ASSUME GovernanceTyped
  PROVE  Spec => [][ChangedBySignatures]_vars
<1>1. ASSUME GovernanceInv, Next
      PROVE  ChangedBySignatures
  <2>1. StepKinds
    BY <1>1, NextKinds
  <2>2. CASE CarriedOut
    <3>1. PICK id \in DOMAIN proposals, p \in GovernanceProposal :
            /\ proposals[id].status = "Pending" /\ p.status = "Executed"
            /\ Cardinality(p.signatures) >= required
            /\ proposals' = [proposals EXCEPT ![id] = p]
      BY <2>2 DEF CarriedOut
    <3>2. proposals'[id] = p
      BY <3>1
    <3> QED BY <3>1, <3>2 DEF ChangedBySignatures
  <2>3. CASE ~CarriedOut
    <3>1. UNCHANGED <<validators, limits, status, required>>
      BY <2>1, <2>3 DEF StepKinds, Quiet
    <3> QED BY <3>1 DEF ChangedBySignatures
  <2> QED BY <2>2, <2>3
<1>2. GovernanceInv /\ [Next]_vars => [ChangedBySignatures]_vars
  BY <1>1
<1> QED BY <1>2, GovernanceInvariant, PTL DEF Spec

-----------------------------------------------------------------------------
(* The proposals implement Approval.                                        *)
LEMMA PhaseInside ==
  ASSUME NEW i \in 1..MaxProposals
  PROVE  phase[i] = PhaseIn(proposals, i)
BY DEF phase

LEMMA PhasesKept ==
  ASSUME NEW list, NEW up, ListOK(list), Len(up) = Len(list),
         \A i \in 1..Len(list) : up[i].status = list[i].status
  PROVE  \A i \in 1..MaxProposals : PhaseIn(up, i) = PhaseIn(list, i)
<1>1. Len(list) \in Nat
  BY LenProperties DEF ListOK
<1> QED BY <1>1 DEF PhaseIn

LEMMA PhaseMoves ==
  ASSUME NEW id \in 1..MaxProposals, NEW to,
         \A i \in 1..MaxProposals :
             PhaseIn(proposals', i) = IF i = id THEN to ELSE PhaseIn(proposals, i)
  PROVE  /\ phase' = [i \in 1..MaxProposals |-> IF i \in {id} THEN to ELSE phase[i]]
         /\ \A i \in 1..MaxProposals :
                effects'[i] = IF i = id THEN (IF to = "granted" THEN 1 ELSE 0) ELSE effects[i]
<1>1. phase' = [i \in 1..MaxProposals |-> PhaseIn(proposals', i)]
  BY DEF phase
<1>2. phase' = [i \in 1..MaxProposals |-> IF i \in {id} THEN to ELSE phase[i]]
  BY <1>1, PhaseInside
<1>3. effects' = [i \in 1..MaxProposals |-> IF phase'[i] = "granted" THEN 1 ELSE 0]
  BY DEF effects
<1> QED BY <1>2, <1>3 DEF effects

(* A decision moves one proposal's phase. *)
LEMMA DecisionMoves ==
  ASSUME GovernanceTyped, GovernanceInv, NEW id \in DOMAIN proposals, NEW p \in GovernanceProposal,
         proposals[id].status = "Pending", proposals' = [proposals EXCEPT ![id] = p]
  PROVE  /\ id \in 1..MaxProposals /\ phase[id] = "asked"
         /\ \A i \in 1..MaxProposals :
                PhaseIn(proposals', i) = IF i = id
                                         THEN (CASE p.status = "Pending" -> "asked"
                                                 [] p.status = "Executed" -> "granted"
                                                 [] OTHER -> "refused")
                                         ELSE PhaseIn(proposals, i)
<1>1. ListOK(proposals)
  BY DEF GovernanceInv, TypeOK, ListOK
<1>2. /\ DOMAIN proposals = 1..Len(proposals) /\ Len(proposals) \in Nat /\ Len(proposals) <= MaxProposals
      /\ MaxProposals \in Nat
  BY <1>1, LenProperties, GovernanceConstants DEF ListOK
<1>3. /\ Len(proposals') = Len(proposals) /\ proposals'[id] = p
      /\ \A i \in DOMAIN proposals : i # id => proposals'[i] = proposals[i]
  BY <1>1, ListUpdated
<1>4. id \in 1..Len(proposals) /\ id \in 1..MaxProposals /\ id <= Len(proposals)
  <2>1. id \in 1..Len(proposals)
    BY <1>2
  <2> QED BY <1>2, <2>1
<1>5. phase[id] = "asked"
  BY <1>2, <1>4, PhaseInside DEF PhaseIn
<1>6. ASSUME NEW i \in 1..MaxProposals, i # id
      PROVE  PhaseIn(proposals', i) = PhaseIn(proposals, i)
  BY <1>2, <1>3, <1>6 DEF PhaseIn
<1>7. PhaseIn(proposals', id) = CASE p.status = "Pending" -> "asked"
                                  [] p.status = "Executed" -> "granted"
                                  [] OTHER -> "refused"
  BY <1>2, <1>3, <1>4 DEF PhaseIn
<1> QED BY <1>4, <1>5, <1>6, <1>7

(* The steps of Approval: an item is asked for, refused, or takes effect.  *)
LEMMA StepImplements ==
  ASSUME GovernanceTyped, GovernanceInv, StepKinds
  PROVE  BySignatures!Next \/ UNCHANGED <<phase, effects>>
<1> DEFINE Items == 1..MaxProposals
<1>0. ListOK(proposals) /\ MaxProposals \in Nat
  BY GovernanceConstants DEF GovernanceInv, TypeOK, ListOK
<1>1. ASSUME \A i \in Items : PhaseIn(proposals', i) = PhaseIn(proposals, i)
      PROVE  UNCHANGED <<phase, effects>>
  <2>1. phase' = phase
    BY <1>1 DEF phase
  <2> QED BY <2>1 DEF effects
<1>2. ASSUME Asked PROVE BySignatures!Next
  <2>1. PICK p \in GovernanceProposal :
          p.status = "Pending" /\ Len(proposals) < MaxProposals /\ proposals' = Append(proposals, p)
    BY <1>2 DEF Asked
  <2> DEFINE id == Len(proposals) + 1
  <2>2. /\ Len(proposals') = id /\ Len(proposals) \in Nat /\ proposals'[id] = p
        /\ \A i \in 1..Len(proposals) : proposals'[i] = proposals[i]
    BY <1>0, <2>1, ListExtended
  <2>3. id \in Items /\ id > Len(proposals)
    BY <1>0, <2>1, <2>2
  <2>4. \A i \in Items : PhaseIn(proposals', i) = IF i = id THEN "asked" ELSE PhaseIn(proposals, i)
    BY <1>0, <2>1, <2>2, <2>3 DEF PhaseIn
  <2>5. phase[id] = "absent"
    BY <2>3, PhaseInside DEF PhaseIn
  <2> HIDE DEF id
  <2>6. phase' = [i \in Items |-> IF i \in {id} THEN "asked" ELSE phase[i]]
    BY <2>3, <2>4, PhaseMoves
  <2>7. \A i \in Items : effects'[i] = effects[i]
    <3>1. effects[id] = 0
      BY <2>3, <2>5 DEF effects
    <3> QED BY <2>3, <2>4, <3>1, PhaseMoves
  <2>8. effects' = effects
    BY <2>7 DEF effects
  <2>9. BySignatures!Ask({id})
    BY <2>5, <2>6, <2>8 DEF BySignatures!Ask, BySignatures!Move
  <2> QED BY <2>3, <2>9 DEF BySignatures!Next
<1>3. ASSUME DecidedAs("Pending") PROVE UNCHANGED <<phase, effects>>
  <2>1. PICK id \in DOMAIN proposals, p \in GovernanceProposal :
          /\ proposals[id].status = "Pending" /\ p.status = "Pending"
          /\ proposals' = [proposals EXCEPT ![id] = p]
    BY <1>3 DEF DecidedAs
  <2>2. /\ id \in Items /\ phase[id] = "asked"
        /\ \A i \in Items : PhaseIn(proposals', i) = IF i = id THEN "asked" ELSE PhaseIn(proposals, i)
    BY <2>1, DecisionMoves
  <2>3. \A i \in Items : PhaseIn(proposals', i) = PhaseIn(proposals, i)
    BY <2>2, PhaseInside
  <2> QED BY <1>1, <2>3
<1>4. ASSUME DecidedAs("Cancelled") PROVE BySignatures!Next
  <2>1. PICK id \in DOMAIN proposals, p \in GovernanceProposal :
          /\ proposals[id].status = "Pending" /\ p.status = "Cancelled"
          /\ proposals' = [proposals EXCEPT ![id] = p]
    BY <1>4 DEF DecidedAs
  <2>2. /\ id \in Items /\ phase[id] = "asked"
        /\ \A i \in Items : PhaseIn(proposals', i) = IF i = id THEN "refused" ELSE PhaseIn(proposals, i)
    BY <2>1, DecisionMoves
  <2>3. phase' = [i \in Items |-> IF i \in {id} THEN "refused" ELSE phase[i]]
    BY <2>2, PhaseMoves
  <2>4. \A i \in Items : effects'[i] = effects[i]
    <3>1. effects[id] = 0
      BY <2>2 DEF effects
    <3> QED BY <2>2, <3>1, PhaseMoves
  <2>5. effects' = effects
    BY <2>4 DEF effects
  <2>6. BySignatures!Refuse({id})
    BY <2>2, <2>3, <2>5 DEF BySignatures!Refuse, BySignatures!Move
  <2> QED BY <2>2, <2>6 DEF BySignatures!Next
<1>5. ASSUME CarriedOut PROVE BySignatures!Next
  <2>1. PICK id \in DOMAIN proposals, p \in GovernanceProposal :
          /\ proposals[id].status = "Pending" /\ p.status = "Executed"
          /\ proposals' = [proposals EXCEPT ![id] = p]
    BY <1>5 DEF CarriedOut
  <2>2. /\ id \in Items /\ phase[id] = "asked"
        /\ \A i \in Items : PhaseIn(proposals', i) = IF i = id THEN "granted" ELSE PhaseIn(proposals, i)
    BY <2>1, DecisionMoves
  <2>3. /\ phase' = [i \in Items |-> IF i \in {id} THEN "granted" ELSE phase[i]]
        /\ \A i \in Items : effects'[i] = IF i = id THEN 1 ELSE effects[i]
    BY <2>2, PhaseMoves
  <2>4. effects[id] = 0
    BY <2>2 DEF effects
  <2>5. BySignatures!TakeEffect({id}, {id})
    BY <2>2, <2>3, <2>4 DEF BySignatures!TakeEffect, BySignatures!Move
  <2> QED BY <2>2, <2>5 DEF BySignatures!Next
<1>6. CASE proposals' = proposals
  BY <1>1, <1>6
<1> QED BY <1>2, <1>3, <1>4, <1>5, <1>6 DEF StepKinds

(* DecidedOnce: the bridge's proposals implement the approval scheme, for  *)
(* every order of signing, cancelling, expiry and execution.               *)
THEOREM GovernanceImplementsApproval ==
  ASSUME GovernanceTyped
  PROVE  Spec => DecidedOnce
<1>1. Init => BySignatures!Init
  <2> SUFFICES ASSUME Init PROVE BySignatures!Init
    OBVIOUS
  <2>1. Len(proposals) = 0
    BY DEF Init
  <2>2. phase = [i \in 1..MaxProposals |-> "absent"]
    BY <2>1 DEF phase, PhaseIn
  <2> QED BY <2>2 DEF effects, BySignatures!Init
<1>2. GovernanceInv /\ [Next]_vars => [BySignatures!Next]_(BySignatures!approvalVars)
  <2> SUFFICES ASSUME GovernanceInv, [Next]_vars
               PROVE  BySignatures!Next \/ UNCHANGED <<phase, effects>>
    BY DEF BySignatures!approvalVars
  <2>1. CASE Next
    BY <2>1, NextKinds, StepImplements
  <2>2. CASE UNCHANGED vars
    <3>1. phase' = phase
      BY <2>2 DEF vars, phase
    <3> QED BY <3>1 DEF effects
  <2> QED BY <2>1, <2>2
<1> QED BY <1>1, <1>2, GovernanceInvariant, PTL DEF Spec, DecidedOnce, BySignatures!Spec
=============================================================================
