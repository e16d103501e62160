--------------------------- MODULE AdminTimelock ---------------------------
(***************************************************************************)
(* governance: who may administer the contract and how.  The admin key and *)
(* its rotation, the guardian's emergency revocation and the fresh         *)
(* initialisation it allows, capabilities, the pause flag and its          *)
(* propagation, and the queue/execute pairs of lib.rs that put an admin    *)
(* operation behind ADMIN_ACTION_DELAY, made compulsory by                 *)
(* enforce_admin_timelock.  initialize_timelock, which may be repeated and *)
(* names a new guardian, has no pair and ignores the latch; what it does   *)
(* to the queue of proposals is in ProposalLifecycle.                      *)
(*                                                                         *)
(* Admin operations are told apart by who may execute them.  "setguard"    *)
(* stands for the pairs that check require_admin_identity (treasury        *)
(* assets and spends, budgets, recurring payments, committees, timelock    *)
(* delays, vesting, rebalancing): they have no effect here but having been *)
(* done.  "govcfg" only asks for the entry's caller; "capgrant" and        *)
(* "caprevk" may be queued by anybody.  The pairs whose inner call asks    *)
(* again for an authorisation already given (category thresholds, shadow   *)
(* mode) are refused by the host and have no action.                       *)
(***************************************************************************)
EXTENDS Integers, Sequences, FiniteSets

CONSTANTS N,            \* addresses
          Targets,      \* contracts that may be told about a pause
          Granted,      \* the capabilities that are given to anybody
          Delay,        \* ADMIN_ACTION_DELAY
          MaxTime, MaxEntries, MaxEffects     \* bounds


Addr == 1..N
None == 0
Capability == {"Pause", "ParameterChange", "SuperAdmin"}
AdminTyped == {N, Delay, MaxTime, MaxEntries, MaxEffects} \subseteq Nat /\ N > 0
              /\ Granted \subseteq Capability
AdminOps == {"setguard"}
CallerOps == {"govcfg"}
OpenOps == {"capgrant", "caprevk"}
Ops == AdminOps \cup CallerOps \cup OpenOps
AdminTimelockEntry == [op : Ops, caller : Addr, available : Nat,
                       state : {"pending", "executed", "cancelled"}]

VARIABLES
    now, initialized, admin, pendingAdmin, guardian, enforced,
    grants,        \* CapabilityStorageKey::Grant, as pairs
    paused, targets, downstream,   \* the flag, who is told, what they were told
    pending,       \* AdminPendingActions; an entry's index is its id
    effects        \* history: admin operations that took effect

vars == <<now, initialized, admin, pendingAdmin, guardian, enforced, grants,
          paused, targets, downstream, pending, effects>>
keys == <<initialized, admin, pendingAdmin, guardian>>
pause == <<paused, targets, downstream>>

TypeOK ==
    /\ now \in 0..MaxTime /\ {initialized, enforced, paused} \subseteq BOOLEAN
    /\ admin \in Addr \cup {None} /\ pendingAdmin \in Addr \cup {None}
    /\ guardian \in Addr \cup {None}
    /\ grants \subseteq Granted \X Addr
    /\ targets \subseteq Targets /\ downstream \in [Targets -> BOOLEAN]
    /\ pending \in Seq(AdminTimelockEntry)

Init ==
    /\ now = 0 /\ initialized = TRUE /\ enforced = FALSE
    /\ admin = 1 /\ pendingAdmin = None /\ guardian = N
    /\ grants = {}
    /\ paused = FALSE /\ targets = {} /\ downstream = [a \in Targets |-> FALSE]
    /\ pending = <<>> /\ effects = {}

Tick == now < MaxTime /\ now' = now + 1
        /\ UNCHANGED <<keys, enforced, grants, pause, pending, effects>>

-----------------------------------------------------------------------------
require_admin(a) == initialized /\ admin # None /\ admin = a
has_capability(a, c) == <<"SuperAdmin", a>> \in grants \/ <<c, a>> \in grants
require_capability(a, c) == initialized /\ (has_capability(a, c) \/ (admin # None /\ admin = a))
require_no_timelock_bypass == ~enforced

(* What an operation does, and the record of it; from is the entry that    *)
(* authorised it, 0 for a direct call.                                     *)
Effect(op, from, who, c) ==
    /\ Cardinality(effects) < MaxEffects
    /\ effects' = effects \cup {[op |-> op, from |-> from, at |-> now, enforced |-> enforced]}
    /\ guardian' = IF op = "setguard" THEN who ELSE guardian
    /\ grants' = CASE op = "capgrant" -> grants \cup {<<c, who>>}
                   [] op = "caprevk" -> grants \ {<<c, who>>}
                   [] OTHER -> grants

Unlatched(op, by, who, c) ==
    /\ IF op \in OpenOps THEN require_capability(by, "SuperAdmin") ELSE require_admin(by)
    /\ Effect(op, 0, who, c)
Direct(op, by, who, c) ==
    /\ IF op \in OpenOps THEN require_capability(by, "SuperAdmin") ELSE require_admin(by)
    /\ require_no_timelock_bypass
    /\ Effect(op, 0, who, c)
DirectCall(op, by, who, c) ==
    /\ Direct(op, by, who, c)
    /\ UNCHANGED <<now, initialized, admin, pendingAdmin, enforced, pause, pending>>

queue_admin_action(op, by) ==
    /\ Len(pending) < MaxEntries
    /\ pending' = Append(pending, [op |-> op, caller |-> by,
                                   available |-> now + Delay, state |-> "pending"])
Queue(op, by) ==
    /\ IF op \in OpenOps THEN initialized ELSE require_admin(by)
    /\ queue_admin_action(op, by)
    /\ UNCHANGED <<now, keys, enforced, grants, pause, effects>>

(* The entry's op is returned and nobody looks at it. *)
ForgetsExecuted(id, by) ==
    /\ id \in DOMAIN pending
    /\ now >= pending[id].available
    /\ pending[id].state = "pending"
    /\ pending[id].caller = by
    /\ UNCHANGED pending
execute_admin_action(id, by) ==
    /\ id \in DOMAIN pending
    /\ now >= pending[id].available
    /\ pending[id].state = "pending"
    /\ pending[id].caller = by
    /\ pending' = [pending EXCEPT ![id].state = "executed"]
Timelocked(op, by, id, who, c) ==
    /\ IF op \in AdminOps THEN require_admin(by) ELSE initialized
    /\ execute_admin_action(id, by)
    /\ Effect(op, id, who, c)
    /\ UNCHANGED <<now, initialized, admin, pendingAdmin, enforced, pause>>

cancel_admin_action(id, by) ==
    /\ initialized /\ admin # None /\ by = admin
    /\ id \in DOMAIN pending /\ pending[id].state = "pending"
    /\ pending' = [pending EXCEPT ![id].state = "cancelled"]
    /\ UNCHANGED <<now, keys, enforced, grants, pause, effects>>
enforce_admin_timelock(by) ==
    /\ require_admin(by)
    /\ enforced' = TRUE
    /\ UNCHANGED <<now, keys, grants, pause, pending, effects>>

-----------------------------------------------------------------------------
propose_key_rotation(by, new) ==
    /\ require_admin(by) /\ new # by
    /\ pendingAdmin' = new
    /\ UNCHANGED <<now, initialized, admin, guardian, enforced, grants, pause, pending, effects>>
(* Called by anybody: nobody's authorisation is asked for, the new admin's *)
(* neither.                                                                *)
accept_key_rotation(by, new) ==
    /\ by \in Addr
    /\ pendingAdmin # None /\ pendingAdmin = new
    /\ admin' = new /\ pendingAdmin' = None
    /\ UNCHANGED <<now, initialized, guardian, enforced, grants, pause, pending, effects>>
cancel_key_rotation(by) ==
    /\ require_admin(by)
    /\ pendingAdmin' = None
    /\ UNCHANGED <<now, initialized, admin, guardian, enforced, grants, pause, pending, effects>>

(* The guardian takes the admin away and the contract out of service; the  *)
(* queue, the latch, the grants and the guardian survive.                  *)
RevokeKeepsPending(by) ==
    /\ guardian # None /\ guardian = by
    /\ admin' = None /\ initialized' = FALSE
    /\ UNCHANGED <<now, pendingAdmin, guardian, enforced, grants, pause, pending, effects>>
emergency_revoke_admin(by) ==
    /\ guardian # None /\ guardian = by
    /\ admin' = None /\ pendingAdmin' = None /\ initialized' = FALSE
    /\ UNCHANGED <<now, guardian, enforced, grants, pause, pending, effects>>
initialize(by) ==
    /\ ~initialized
    /\ admin' = by /\ initialized' = TRUE /\ paused' = FALSE
    /\ UNCHANGED <<now, pendingAdmin, guardian, enforced, grants, targets, downstream,
                   pending, effects>>

(* The guardian is replaced at once, latch or no latch. *)
initialize_timelock(by, who) ==
    /\ require_capability(by, "ParameterChange")
    /\ guardian' = who
    /\ UNCHANGED <<now, initialized, admin, pendingAdmin, enforced, grants, pause, pending, effects>>

(* Telling the registered contracts may fail one by one (the set deaf). *)
propagate_pause_to_downstream(b, deaf) ==
    downstream' = [a \in Targets |-> IF a \in targets \ deaf THEN b ELSE downstream[a]]
set_contract_paused(by, b, deaf) ==
    /\ require_capability(by, "Pause")
    /\ paused # b
    /\ paused' = b
    /\ propagate_pause_to_downstream(b, deaf)
    /\ UNCHANGED <<now, keys, enforced, grants, targets, pending, effects>>
register_pause_target(by, a) ==
    /\ require_capability(by, "Pause")
    /\ targets' = targets \cup {a}
    /\ UNCHANGED <<now, keys, enforced, grants, paused, downstream, pending, effects>>
unregister_pause_target(by, a) ==
    /\ require_capability(by, "Pause")
    /\ targets' = targets \ {a}
    /\ UNCHANGED <<now, keys, enforced, grants, paused, downstream, pending, effects>>

RotationCalls(by) ==
    \/ cancel_key_rotation(by) \/ emergency_revoke_admin(by)
    \/ \E new \in Addr : propose_key_rotation(by, new) \/ accept_key_rotation(by, new) \/ initialize_timelock(by, new)
PauseCalls(by) ==
    \/ \E b \in BOOLEAN, deaf \in SUBSET targets : set_contract_paused(by, b, deaf)
    \/ \E a \in Targets : register_pause_target(by, a) \/ unregister_pause_target(by, a)

ScheduledCalls(by) ==
    \/ \E op \in Ops, who \in Addr, c \in Granted, id \in DOMAIN pending : Timelocked(op, by, id, who, c)
    \/ \E op \in Ops : Queue(op, by)
    \/ \E id \in DOMAIN pending : cancel_admin_action(id, by)

Next ==
    \/ Tick
    \/ \E by \in Addr :
         \/ \E op \in Ops, who \in Addr, c \in Granted : DirectCall(op, by, who, c)
         \/ ScheduledCalls(by)
         \/ enforce_admin_timelock(by)
         \/ RotationCalls(by) \/ PauseCalls(by) \/ initialize(by)

Spec == Init /\ [][Next]_vars

-----------------------------------------------------------------------------
(* Once the admin timelock is enforced no operation that has a queue/execute *)
(* pair skips the delay: each effect comes from an entry queued at least   *)
(* Delay earlier, through key rotations, revocations, fresh                *)
(* initialisations and a timelock that is initialised again.               *)
EnforcedMeansDelayed ==
    \A e \in effects : e.enforced => e.from # 0 /\ e.at >= pending[e.from].available

(* An entry authorises one effect, and none once it was cancelled. *)
EntryUsedOnce ==
    \A id \in DOMAIN pending :
        Cardinality({e \in effects : e.from = id})
            = (IF pending[id].state = "executed" THEN 1 ELSE 0)

(* The admin changes only to the address an admin had proposed, whoever    *)
(* completes the rotation, by revocation, or by a fresh initialisation.    *)
AdminHandover ==
    admin' # admin => \/ admin' = pendingAdmin /\ initialized
                      \/ admin' = None /\ guardian # None
                      \/ ~initialized /\ initialized'

=============================================================================
