---------------------------- MODULE SignalTools ----------------------------
(***************************************************************************)
(* The registry's tools around the signals: the admin, its roles, guardian *)
(* and M-of-N approvals of critical actions; combos of a provider's        *)
(* signals; the migration of the V1 records in batches; the onboarding of  *)
(* providers with collateral and fee; specialization tags and stakes.      *)
(***************************************************************************)
EXTENDS Integers, FiniteSets, Sequences

CONSTANTS
    Accounts, Payloads, DelayConfigs, TransferWindow, SignerSets, MaxProposals,
    MaxFee, MaxRisk,            \* MAX_FEE_BPS, MAX_RISK_PERCENTAGE
    Signals, Expiries, Combos, WeightTotal, Amounts, Rois,
    Ids, BatchSizes, Volumes,
    Deposits, Minimums,
    Tags, TagChoices, MaxTags, MaxChosen, Stakes, MinStake, ChangesPerDay,
    FeeSamples,
    MaxNow, MaxCalls

ToolsTyped ==
    /\ TransferWindow \in Nat /\ MaxProposals \in Nat /\ WeightTotal \in Nat \ {0}
    /\ \A d \in Deposits : d.collateral \in Int /\ d.fee \in Int
    /\ MinStake \in Nat \ {0} /\ MaxTags \in Nat /\ MaxChosen \in Nat

VARIABLES
    now, calls,
    admin, pending, guardian, roles, settings, paused, multisig, proposals, active, delays,
    signals, combos, runs,                \* runs: executions of combos, in order
    v1, v2, counter, cursor, target, pre, verification, schema, volume, \* volume is history
    params, apps, reserves, records,
    tags, chosen, byTag, stakes, changes

adminVars == <<admin, pending, guardian, roles, settings, paused, multisig, proposals, active, delays>>
comboVars == <<signals, combos, runs>>
migrateVars == <<v1, v2, counter, cursor, target, pre, verification, schema, volume>>
onboardVars == <<params, apps, reserves, records>>
providerVars == <<tags, chosen, byTag, stakes, changes>>
vars == <<now, calls, adminVars, comboVars, migrateVars, onboardVars, providerVars>>

None == [absent |-> TRUE]
Quot(a, b) == IF a < 0 THEN -((-a) \div b) ELSE a \div b
SumOver(f, S) == LET R[T \in SUBSET S] == IF T = {} THEN 0 ELSE LET x == CHOOSE y \in T : TRUE IN f[x] + R[T \ {x}] IN R[S]
Put(f, k, v) == [x \in DOMAIN f \cup {k} |-> IF x = k THEN v ELSE f[x]]

Init ==
    /\ now = 1 /\ calls = 0
    /\ admin = 1 /\ pending = None /\ guardian = 0 /\ roles = [r \in {"config", "emergency"} |-> 0]
    /\ settings = [fee |-> 0, stake |-> 1, risk |-> <<0, 0>>, tiers |-> 0, feesOff |-> FALSE, locked |-> TRUE]
    /\ paused = [c \in {} |-> None] /\ multisig = [on |-> FALSE, signers |-> <<>>, threshold |-> 0]
    /\ proposals = <<>> /\ active = 0 /\ delays \in DelayConfigs
    /\ signals \in [Signals -> [active : {TRUE}, expiry : Expiries, roi : {0}, n : {0}]] /\ combos = <<>> /\ runs = <<>>
    /\ v1 \in UNION {[S -> Volumes] : S \in SUBSET Ids} /\ v2 = [i \in {} |-> 0] /\ counter = Cardinality(Ids)
    /\ cursor = 1 /\ target = 0 /\ pre = None /\ verification = None /\ schema = 1 /\ volume = v1
    /\ params = None /\ apps = [p \in {} |-> None] /\ records = [p \in {} |-> "none"]
    /\ reserves = [collateral |-> 0, fees |-> 0, bonds |-> 0, collected |-> 0, refunded |-> 0, total |-> 0]
    /\ tags = {} /\ chosen = [p \in Accounts |-> <<>>] /\ byTag = [t \in Tags |-> {}]
    /\ stakes = [p \in Accounts |-> 0] /\ changes = [p \in Accounts |-> 0]

Tick == now < MaxNow /\ now' = now + 1 /\ UNCHANGED <<calls, adminVars, comboVars, migrateVars, onboardVars, providerVars>>
Call == calls < MaxCalls /\ calls' = calls + 1 /\ UNCHANGED now

-----------------------------------------------------------------------------
(* Who may do what. With multi-sig enabled every signer counts as admin for *)
(* what needs no approval, and critical actions need a proposal.            *)

Range(s) == {s[i] : i \in DOMAIN s}
is_multisig_signer(c) == multisig.on /\ c \in Range(multisig.signers)
require_admin(c) == IF multisig.on THEN is_multisig_signer(c) ELSE c = admin
require_role_or_admin(c, r) == roles[r] = c \/ require_admin(c)
require_direct_admin_or_not_multisig(c) == ~multisig.on /\ require_admin(c)
is_category_paused(cat) == \E c \in {"all", cat} \cap DOMAIN paused : paused[c] = 0 \/ now < paused[c]

-----------------------------------------------------------------------------
(* The critical actions: what each does once it is allowed.                *)

Others(x) == UNCHANGED <<admin, roles, x>>
set_trade_fee_direct(v) == v <= MaxFee /\ settings' = [settings EXCEPT !.fee = v] /\ Others(<<pending, guardian, paused>>)
set_min_stake_direct(v) == v > 0 /\ settings' = [settings EXCEPT !.stake = v] /\ Others(<<pending, guardian, paused>>)
set_risk_defaults_direct(v) == v[1] <= MaxRisk /\ v[2] <= MaxRisk /\ settings' = [settings EXCEPT !.risk = v] /\ Others(<<pending, guardian, paused>>)
set_tier_signal_limits_direct(v) == settings' = [settings EXCEPT !.tiers = v] /\ Others(<<pending, guardian, paused>>)
pause_fee_collection_direct == settings' = [settings EXCEPT !.feesOff = TRUE] /\ Others(<<pending, guardian, paused>>)
resume_fee_collection_direct == settings' = [settings EXCEPT !.feesOff = FALSE] /\ Others(<<pending, guardian, paused>>)
(* A pause without a duration has no end: 0. *)
pause_category_direct(v) == paused' = Put(paused, v.cat, IF v.for = 0 THEN 0 ELSE now + v.for) /\ Others(<<pending, guardian, settings>>)
unpause_category_direct(cat) == paused' = [c \in DOMAIN paused \ {cat} |-> paused[c]] /\ Others(<<pending, guardian, settings>>)
set_guardian_direct(a) == guardian' = a /\ Others(<<pending, paused, settings>>)
propose_admin_transfer_direct(a) == pending' = [to |-> a, until |-> now + TransferWindow, was |-> admin] /\ Others(<<guardian, paused, settings>>)

dispatch_payload(p) ==
    \/ p.kind = "fee" /\ set_trade_fee_direct(p.v)
    \/ p.kind = "stake" /\ set_min_stake_direct(p.v)
    \/ p.kind = "risk" /\ set_risk_defaults_direct(p.v)
    \/ p.kind = "tiers" /\ set_tier_signal_limits_direct(p.v)
    \/ p.kind = "pause" /\ pause_category_direct(p.v)
    \/ p.kind = "unpause" /\ unpause_category_direct(p.v)
    \/ p.kind = "fees_off" /\ pause_fee_collection_direct
    \/ p.kind = "fees_on" /\ resume_fee_collection_direct
    \/ p.kind = "guardian" /\ set_guardian_direct(p.v)
    \/ p.kind = "transfer" /\ propose_admin_transfer_direct(p.v)
action_type_for_payload(p) ==
    CASE p.kind \in {"stake", "risk", "tiers"} -> "param" [] p.kind \in {"fees_off", "fees_on"} -> "config" [] OTHER -> p.kind

(* The same actions called directly, each behind its own check. *)
set_trade_fee(c, v) == ~multisig.on /\ require_role_or_admin(c, "config") /\ set_trade_fee_direct(v)
set_min_stake(c, v) == require_role_or_admin(c, "config") /\ set_min_stake_direct(v)
set_risk_defaults(c, v) == require_role_or_admin(c, "config") /\ set_risk_defaults_direct(v)
set_tier_signal_limits(c, v) == require_role_or_admin(c, "config") /\ set_tier_signal_limits_direct(v)
pause_category(c, v) == (guardian = c \/ (~multisig.on /\ require_role_or_admin(c, "emergency"))) /\ pause_category_direct(v)
unpause_category(c, cat) == require_role_or_admin(c, "emergency") /\ unpause_category_direct(cat)
pause_fee_collection(c) == require_role_or_admin(c, "emergency") /\ pause_fee_collection_direct
resume_fee_collection(c) == require_role_or_admin(c, "emergency") /\ resume_fee_collection_direct
set_guardian(c, a) == require_role_or_admin(c, "emergency") /\ set_guardian_direct(a)
propose_admin_transfer(c, a) == require_direct_admin_or_not_multisig(c) /\ propose_admin_transfer_direct(a)
SetDirectly(c, p) ==
    \/ p.kind = "fee" /\ set_trade_fee(c, p.v)
    \/ p.kind = "stake" /\ set_min_stake(c, p.v)
    \/ p.kind = "risk" /\ set_risk_defaults(c, p.v)
    \/ p.kind = "tiers" /\ set_tier_signal_limits(c, p.v)
    \/ p.kind = "pause" /\ pause_category(c, p.v)
    \/ p.kind = "unpause" /\ unpause_category(c, p.v)
    \/ p.kind = "fees_off" /\ pause_fee_collection(c)
    \/ p.kind = "fees_on" /\ resume_fee_collection(c)
    \/ p.kind = "guardian" /\ set_guardian(c, p.v)
    \/ p.kind = "transfer" /\ propose_admin_transfer(c, p.v)

revoke_guardian(c) == require_role_or_admin(c, "emergency") /\ guardian # 0 /\ guardian' = 0 /\ UNCHANGED <<admin, pending, roles, settings, paused>>
set_admin_role(c, r, a) == require_direct_admin_or_not_multisig(c) /\ roles' = [roles EXCEPT ![r] = a] /\ UNCHANGED <<admin, pending, guardian, settings, paused>>
accept_admin_transfer(c) ==
    /\ pending # None /\ (pending # None => now <= pending.until /\ c = pending.to)
    /\ admin' = c /\ pending' = None /\ UNCHANGED <<guardian, roles, settings, paused>>
cancel_admin_transfer(c) ==
    /\ require_admin(c) /\ pending # None /\ (pending # None => now <= pending.until)
    /\ pending' = None /\ UNCHANGED <<admin, guardian, roles, settings, paused>>
disable_self_destruct_protection(c) == require_admin(c) /\ settings' = [settings EXCEPT !.locked = FALSE] /\ UNCHANGED <<admin, pending, guardian, roles, paused>>

-----------------------------------------------------------------------------
(* Multi-sig: the signers and the proposals. Proposals outlive a change of  *)
(* the signers, and even multi-sig being switched off and on again.         *)

validate_signer_config(s, t) == t > 0 /\ t <= Len(s) /\ Len(s) = Cardinality(Range(s))
enable_multisig(c, s, t) == require_admin(c) /\ validate_signer_config(s, t) /\ multisig' = [on |-> TRUE, signers |-> s, threshold |-> t]
disable_multisig(c) == require_admin(c) /\ multisig' = [multisig EXCEPT !.on = FALSE]
add_multisig_signer(c, a) == require_admin(c) /\ multisig.on /\ a \notin Range(multisig.signers) /\ multisig' = [multisig EXCEPT !.signers = Append(@, a)]
remove_multisig_signer(c, a) ==
    /\ require_admin(c) /\ multisig.on /\ Len(multisig.signers) - 1 >= multisig.threshold /\ a \in Range(multisig.signers)
    /\ multisig' = [multisig EXCEPT !.signers = SelectSeq(@, LAMBDA x : x # a)]
set_timelock_config(c, d) == require_admin(c) /\ delays' = d

Approved(p) == [p EXCEPT !.status = "approved", !.at = now, !.executable = now + delays[action_type_for_payload(p.payload)], !.needed = multisig.threshold]
Reached(p) == IF Len(p.approvals) >= multisig.threshold THEN Approved(p) ELSE p
propose(c, payload) ==
    /\ is_multisig_signer(c) /\ validate_signer_config(multisig.signers, multisig.threshold) /\ active < MaxProposals
    /\ proposals' = Append(proposals, Reached([payload |-> payload, approvals |-> <<c>>, status |-> "pending", at |-> 0, executable |-> 0, needed |-> 0]))
    /\ active' = active + 1
approve(c, i) ==
    LET p == proposals[i] IN
    /\ is_multisig_signer(c) /\ p.status = "pending" /\ c \notin Range(p.approvals)
    /\ proposals' = [proposals EXCEPT ![i] = Reached([p EXCEPT !.approvals = Append(@, c)])] /\ UNCHANGED active
cancel(c, i) ==
    /\ is_multisig_signer(c) /\ proposals[i].status \in {"pending", "approved"}
    /\ proposals' = [proposals EXCEPT ![i].status = "cancelled"] /\ active' = IF active > 0 THEN active - 1 ELSE 0
prepare_execution(c, i) ==
    /\ is_multisig_signer(c) /\ proposals[i].status = "approved" /\ now >= proposals[i].executable
    /\ proposals' = [proposals EXCEPT ![i].status = "executed"] /\ active' = IF active > 0 THEN active - 1 ELSE 0
execute_proposal(c, i) == prepare_execution(c, i) /\ dispatch_payload(proposals[i].payload)

RoleCalls(c) ==
    revoke_guardian(c) \/ \E r \in {"config", "emergency"} : set_admin_role(c, r, 3)
TransferCalls(c) == accept_admin_transfer(c) \/ cancel_admin_transfer(c)
SwitchCalls(c) == disable_multisig(c) \/ \E s \in SignerSets : enable_multisig(c, s.signers, s.threshold)
SignerCalls(c) == \E a \in Accounts : add_multisig_signer(c, a) \/ remove_multisig_signer(c, a)
ProposalCalls(c) ==
    (\E p \in Payloads : propose(c, p)) \/ \E i \in DOMAIN proposals : approve(c, i) \/ cancel(c, i)

AdminNext ==
    /\ UNCHANGED <<comboVars, migrateVars, onboardVars, providerVars>>
    /\ \/ /\ Call /\ UNCHANGED <<multisig, proposals, active, delays>>
          /\ \E c \in Accounts : \/ \E p \in Payloads : SetDirectly(c, p)
                                 \/ RoleCalls(c) \/ TransferCalls(c) \/ disable_self_destruct_protection(c)
       \/ /\ Call /\ UNCHANGED <<admin, pending, guardian, roles, settings, paused, proposals, active>>
          /\ \E c \in Accounts : \/ (SwitchCalls(c) \/ SignerCalls(c)) /\ UNCHANGED delays
                                 \/ \E d \in DelayConfigs : set_timelock_config(c, d) /\ UNCHANGED multisig
       \/ /\ Call /\ UNCHANGED <<admin, pending, guardian, roles, settings, paused, multisig, delays>>
          /\ \E c \in Accounts : ProposalCalls(c)
       \/ /\ Call /\ UNCHANGED <<multisig, delays>>
          /\ \E c \in Accounts, i \in DOMAIN proposals : execute_proposal(c, i)
       \/ Tick

(* The cached number of open proposals, which limits new ones, is the number of open proposals; no signer is counted twice and nothing is approved with fewer approvals than the threshold then in force. *)
ProposalsCounted ==
    /\ active = Cardinality({i \in DOMAIN proposals : proposals[i].status \in {"pending", "approved"}})
    /\ \A i \in DOMAIN proposals : LET p == proposals[i] IN
          /\ Len(p.approvals) = Cardinality(Range(p.approvals))
          /\ p.status \in {"approved", "executed"} => p.needed > 0 /\ Len(p.approvals) >= p.needed

(* While multi-sig is on, the fee and the next admin change only by executing a proposal for exactly that value, approved at least its delay ago; the admin itself only by the nominee's own acceptance, in time, of a transfer that an admin or a quorum started. *)
CriticalByQuorum ==
    /\ multisig.on /\ multisig'.on =>
          /\ settings'.fee # settings.fee => \E i \in DOMAIN proposals : proposals[i].status = "approved" /\ proposals'[i].status = "executed"
                 /\ proposals[i].payload.kind = "fee" /\ (proposals[i].payload.kind = "fee" => proposals[i].payload.v = settings'.fee) /\ now >= proposals[i].executable
          /\ pending' # pending /\ pending' # None => \E i \in DOMAIN proposals : proposals[i].status = "approved" /\ proposals'[i].status = "executed"
                 /\ proposals[i].payload.kind = "transfer" /\ (proposals[i].payload.kind = "transfer" => proposals[i].payload.v = pending'.to) /\ now >= proposals[i].executable
    /\ admin' # admin => pending # None /\ (pending # None => admin' = pending.to /\ now <= pending.until)

-----------------------------------------------------------------------------
(* Combos. A combination is fixed when it is created; its signals go on     *)
(* trading, and may be cancelled, meanwhile.                                *)

create_combo_signal(c) ==
    /\ Len(c.parts) > 0
    /\ \A i \in DOMAIN c.parts : signals[c.parts[i].signal].active
    /\ SumOver([i \in DOMAIN c.parts |-> c.parts[i].weight], DOMAIN c.parts) = WeightTotal
    /\ c.type = "conditional" => \A i \in DOMAIN c.parts : c.parts[i].when # "always" => \E j \in DOMAIN c.parts : c.parts[j].signal = c.parts[i].on
    /\ combos' = Append(combos, [parts |-> c.parts, type |-> c.type, status |-> "active"]) /\ UNCHANGED <<signals, runs>>
simulate_trade_roi(s) == IF signals[s].n > 0 THEN Quot(signals[s].roi, signals[s].n) ELSE 0
(* The condition looks at the first earlier execution of the signal it names. *)
evaluate_condition(part, earlier) ==
    LET seen == {i \in DOMAIN earlier : earlier[i].signal = part.on}
        dep == earlier[CHOOSE i \in seen : \A j \in seen : i <= j]
    IN \/ part.when = "always"
       \/ /\ seen # {} /\ ~dep.skipped
          /\ CASE part.when = "success" -> dep.roi > 0 [] part.when = "failure" -> dep.roi <= 0 [] OTHER -> dep.roi > 1
Executed(combo, total) ==
    LET E[n \in 0..Len(combo.parts)] ==
          IF n = 0 THEN <<>>
          ELSE LET part == combo.parts[n]
                   go == combo.type # "conditional" \/ evaluate_condition(part, E[n - 1])
               IN Append(E[n - 1], [signal |-> part.signal, skipped |-> ~go, amount |-> IF go THEN (total * part.weight) \div WeightTotal ELSE 0,
                                    roi |-> IF go THEN simulate_trade_roi(part.signal) ELSE 0])
    IN E[Len(combo.parts)]
calculate_combined_roi(ex) ==
    LET done == {i \in DOMAIN ex : ~ex[i].skipped /\ ex[i].amount > 0}
        amount == SumOver([i \in DOMAIN ex |-> ex[i].amount], done)
    IN IF amount = 0 THEN 0 ELSE Quot(SumOver([i \in DOMAIN ex |-> ex[i].roi * ex[i].amount], done), amount)
execute_combo_signal(k, total) ==
    LET ex == Executed(combos[k], total) IN
    /\ combos[k].status = "active" /\ total > 0
    /\ \A i \in DOMAIN combos[k].parts : signals[combos[k].parts[i].signal].expiry > now
    /\ runs' = Append(runs, [combo |-> k, total |-> total, parts |-> ex, roi |-> calculate_combined_roi(ex)])
    /\ combos' = IF \A i \in DOMAIN ex : ex[i].skipped THEN [combos EXCEPT ![k].status = "completed"] ELSE combos
    /\ UNCHANGED signals
cancel_combo(k) == combos[k].status = "active" /\ combos' = [combos EXCEPT ![k].status = "cancelled"] /\ UNCHANGED <<signals, runs>>
(* What the rest of the registry does to a component signal meanwhile. *)
signal_moves(s) ==
    /\ \/ \E r \in Rois : signals' = [signals EXCEPT ![s].roi = @ + r, ![s].n = @ + 1]
       \/ signals' = [signals EXCEPT ![s].active = FALSE]
    /\ UNCHANGED <<combos, runs>>
ComboNext ==
    /\ UNCHANGED <<adminVars, migrateVars, onboardVars, providerVars>>
    /\ \/ Call /\ \/ Len(combos) < 2 /\ \E c \in Combos : create_combo_signal(c)
                  \/ \E k \in DOMAIN combos, t \in Amounts : execute_combo_signal(k, t)
                  \/ \E k \in DOMAIN combos : cancel_combo(k)
                  \/ \E s \in Signals : signal_moves(s)
       \/ Tick

(* An execution never spends more than it was given; a component runs only on the outcome of one that ran before it; the combined return lies between the returns of what ran. *)
CombosWithinTotal == \A k \in DOMAIN runs :
    LET ex == runs[k].parts
        ran == {i \in DOMAIN ex : ~ex[i].skipped /\ ex[i].amount > 0}
        parts == combos[runs[k].combo].parts
    IN /\ SumOver([i \in DOMAIN ex |-> ex[i].amount], DOMAIN ex) <= runs[k].total
       /\ ran # {} => (\E i \in ran : ex[i].roi <= runs[k].roi) /\ (\E i \in ran : ex[i].roi >= runs[k].roi)
       /\ combos[runs[k].combo].type = "conditional" => \A i \in ran : parts[i].when = "always" \/ \E j \in 1..(i - 1) : ~ex[j].skipped /\ ex[j].signal = parts[i].on
(* A combo that was cancelled or completed is never executed again, and a completed one has no run that spent anything after it. *)
CombosFinal == \A k \in DOMAIN combos : combos[k].status # "active" => combos'[k] = combos[k] /\ \A r \in DOMAIN runs' \ DOMAIN runs : runs'[r].combo # k

-----------------------------------------------------------------------------
(* Migration of the V1 records, in batches along a cursor, while new signals *)
(* are submitted and migrated ones are traded.                               *)

Snapshot(m) == [count |-> Cardinality(DOMAIN m), volume |-> SumOver(m, DOMAIN m)]
reconcile(before, after) == [verified |-> before = after, post |-> after]
migrate_signals_v1_to_v2(batch) ==
    LET first == pre = None
        last == IF cursor + batch - 1 > counter THEN counter ELSE cursor + batch - 1
        moved == DOMAIN v1 \cap cursor..last
        left == [i \in DOMAIN v1 \ moved |-> v1[i]]
        all == [i \in DOMAIN v2 \cup moved |-> IF i \in moved THEN v1[i] ELSE v2[i]]
        done == last >= counter /\ DOMAIN left = {}
        before == IF first THEN Snapshot(v1) ELSE pre
    IN /\ batch > 0 /\ counter > 0
       /\ IF DOMAIN v1 = {}
          THEN cursor' = counter + 1 /\ UNCHANGED <<v1, v2, target, pre, verification, schema>>
          ELSE /\ target' = IF first THEN Cardinality(DOMAIN v1) ELSE target
               /\ pre' = before /\ v1' = left /\ v2' = all /\ cursor' = last + 1
               /\ schema' = IF done THEN 2 ELSE schema
               /\ verification' = IF done THEN reconcile(before, Snapshot(all)) ELSE verification
       /\ UNCHANGED <<counter, volume>>
submit_during(x) == counter' = counter + 1 /\ v2' = Put(v2, counter + 1, x) /\ volume' = Put(volume, counter + 1, x) /\ UNCHANGED <<v1, cursor, target, pre, verification, schema>>
trade_during(i, x) == i \in DOMAIN v2 /\ v2' = [v2 EXCEPT ![i] = @ + x] /\ volume' = [volume EXCEPT ![i] = @ + x] /\ UNCHANGED <<v1, counter, cursor, target, pre, verification, schema>>
upgrade_preflight ==
    IF verification # None /\ (verification # None => ~verification.verified) THEN "unverified" ELSE IF DOMAIN v1 # {} THEN "required" ELSE "ready"
MigrateNext ==
    /\ UNCHANGED <<adminVars, comboVars, onboardVars, providerVars>>
    /\ Call /\ \/ \E b \in BatchSizes : migrate_signals_v1_to_v2(b)
               \/ \E x \in Volumes : submit_during(x)
               \/ \E i \in DOMAIN v2, x \in Volumes : trade_during(i, x)

(* Through any batches and any traffic every record is in exactly one store with the volume it should have, none is left behind the cursor, and the preflight says ready only when none is left. *)
MigrationLosesNothing ==
    /\ DOMAIN v1 \cap DOMAIN v2 = {} /\ DOMAIN v1 \cup DOMAIN v2 = DOMAIN volume
    /\ \A i \in DOMAIN volume : volume[i] = IF i \in DOMAIN v1 THEN v1[i] ELSE v2[i]
    /\ \A i \in DOMAIN v1 : i >= cursor
    /\ schema = 2 => DOMAIN v1 = {}
    /\ upgrade_preflight = "ready" => DOMAIN v1 = {}
(* The verification at the end of the migration succeeds exactly if no record was submitted meanwhile and the total volume is that counted before the first batch: a record that was lost and one that is new, or volumes of different records, never make up for each other unnoticed. *)
VerifiedMeansSame == verification' # verification =>
    (verification'.verified <=> DOMAIN volume' \subseteq Ids /\ SumOver(volume', DOMAIN volume') = pre'.volume)

-----------------------------------------------------------------------------
(* Onboarding: an application reserves collateral and fee, which approval   *)
(* turns into a bond and income and a failure gives back. Anybody who signs *)
(* as governance may configure, approve and reject.                         *)

configure_onboarding(m) == m.collateral > 0 /\ m.fee > 0 /\ params' = m /\ UNCHANGED <<apps, reserves, records>>
validate_application(d) == d.collateral > 0 /\ d.fee > 0 /\ d.collateral >= params.collateral /\ d.fee >= params.fee
StatusOf(p) == IF p \in DOMAIN apps THEN apps[p].status ELSE "none"
submit_application(p, d) ==
    /\ params # None /\ (params # None => validate_application(d)) /\ StatusOf(p) \notin {"pending", "active"}
    /\ reserves' = [reserves EXCEPT !.collateral = @ + d.collateral, !.fees = @ + d.fee, !.total = @ + d.collateral + d.fee]
    /\ apps' = Put(apps, p, [status |-> "pending", collateral |-> d.collateral, fee |-> d.fee, refunded |-> 0, tries |-> IF p \in DOMAIN apps THEN apps[p].tries + 1 ELSE 1])
    /\ UNCHANGED <<params, records>>
approve_application(p) ==
    /\ StatusOf(p) = "pending"
    /\ reserves' = [reserves EXCEPT !.collateral = @ - apps[p].collateral, !.bonds = @ + apps[p].collateral, !.fees = @ - apps[p].fee, !.collected = @ + apps[p].fee]
    /\ apps' = [apps EXCEPT ![p].status = "active", ![p].fee = 0] /\ UNCHANGED <<params, records>>
fail_and_refund(p) ==
    LET refund == apps[p].collateral + apps[p].fee IN
    /\ StatusOf(p) = "pending" /\ (StatusOf(p) = "pending" => refund > 0)
    /\ reserves' = [reserves EXCEPT !.collateral = @ - apps[p].collateral, !.fees = @ - apps[p].fee, !.refunded = @ + refund]
    /\ apps' = [apps EXCEPT ![p].status = "failed", ![p].collateral = 0, ![p].fee = 0, ![p].refunded = @ + refund] /\ UNCHANGED <<params, records>>
reserves_balanced(r) == r.collateral + r.fees + r.bonds + r.collected + r.refunded = r.total
RecordOf(p) == IF p \in DOMAIN records THEN records[p] ELSE "none"
register_provider(p) == RecordOf(p) = "none" /\ records' = Put(records, p, "pending") /\ UNCHANGED <<params, apps, reserves>>
approve_provider(p) == RecordOf(p) = "pending" /\ records' = [records EXCEPT ![p] = "approved"] /\ UNCHANGED <<params, apps, reserves>>
reject_provider(p) == RecordOf(p) = "pending" /\ records' = [records EXCEPT ![p] = "rejected"] /\ UNCHANGED <<params, apps, reserves>>
request_reverification(p) == RecordOf(p) = "rejected" /\ records' = [records EXCEPT ![p] = "pending"] /\ UNCHANGED <<params, apps, reserves>>
RegistrationCalls ==
    \E p \in Accounts : register_provider(p) \/ approve_provider(p) \/ reject_provider(p) \/ request_reverification(p)
ApplicationCalls ==
    (\E m \in Minimums : configure_onboarding(m)) \/ \E p \in Accounts, d \in Deposits : submit_application(p, d)

OnboardNext ==
    /\ UNCHANGED <<adminVars, comboVars, migrateVars, providerVars>>
    /\ Call /\ \/ ApplicationCalls \/ RegistrationCalls
               \/ \E p \in Accounts : approve_application(p) \/ fail_and_refund(p)

(* What is reserved, bonded and refunded is exactly what the applications hold, bond and got back, through rejections and new attempts; no application loses its deposit to another. *)
ReservesMatch ==
    LET Held(field, st) == SumOver([p \in DOMAIN apps |-> IF apps[p].status \in st THEN apps[p][field] ELSE 0], DOMAIN apps) IN
    /\ reserves.collateral = Held("collateral", {"pending"}) /\ reserves.fees = Held("fee", {"pending"})
    /\ reserves.bonds = Held("collateral", {"active"}) /\ reserves_balanced(reserves)
    /\ reserves.refunded >= Held("refunded", {"failed"})
(* An application leaves its state only by the next decision on it: a deposit comes in once, at least the minimum then in force; approval keeps the collateral and earns exactly the fee; a failure gives back exactly what was deposited; an active application stays, and one of two applications never moves with the other. *)
ApplicationsByRule ==
    LET moved == {p \in DOMAIN apps' : p \notin DOMAIN apps \/ (p \in DOMAIN apps => apps'[p] # apps[p])}
        Gain(field) == reserves'[field] - reserves[field]
    IN /\ Cardinality(moved) <= 1 /\ DOMAIN apps \subseteq DOMAIN apps' /\ (moved = {} => reserves' = reserves)
       /\ \A p \in moved : LET a == apps'[p] IN
             \/ /\ a.status = "pending" /\ StatusOf(p) \in {"none", "failed"} /\ a.collateral >= params.collateral /\ a.fee >= params.fee
                /\ Gain("total") = a.collateral + a.fee /\ Gain("refunded") = 0 /\ Gain("collected") = 0
             \/ /\ StatusOf(p) = "pending" /\ Gain("total") = 0
                /\ \/ a.status = "active" /\ Gain("bonds") = apps[p].collateral /\ Gain("collected") = apps[p].fee
                   \/ a.status = "failed" /\ Gain("refunded") = apps[p].collateral + apps[p].fee /\ Gain("bonds") = 0
       /\ \A p \in DOMAIN records : records'[p] # records[p] => <<records[p], records'[p]>> \in {<<"pending", "approved">>, <<"pending", "rejected">>, <<"rejected", "pending">>}

-----------------------------------------------------------------------------
(* Tags, with an index from a tag to the providers that chose it; stakes of  *)
(* the registry, limited to a number of changes a day.                       *)

add_specialization_tag(t) == (t \in tags \/ Cardinality(tags) < MaxTags) /\ tags' = tags \cup {t} /\ UNCHANGED <<chosen, byTag, stakes, changes>>
remove_specialization_tag(t) == tags' = tags \ {t} /\ UNCHANGED <<chosen, byTag, stakes, changes>>
set_provider_specializations(p, ts) ==
    /\ Len(ts) <= MaxChosen /\ Range(ts) \subseteq tags
    /\ byTag' = [t \in Tags |-> (byTag[t] \ (IF t \in Range(chosen[p]) THEN {p} ELSE {})) \cup (IF t \in Range(ts) THEN {p} ELSE {})]
    /\ chosen' = [chosen EXCEPT ![p] = ts] /\ UNCHANGED <<tags, stakes, changes>>
Limited(p) == changes[p] < ChangesPerDay /\ changes' = [changes EXCEPT ![p] = @ + 1] /\ UNCHANGED <<tags, chosen, byTag>>
stake_tokens(p, x) == Limited(p) /\ x > 0 /\ stakes[p] + x >= MinStake /\ stakes' = [stakes EXCEPT ![p] = @ + x]
(* The lock of a stake is always over: record_signal, which sets it, is called by tests only. *)
unstake_tokens(p) == Limited(p) /\ stakes[p] > 0 /\ stakes' = [stakes EXCEPT ![p] = 0]
next_day == changes' = [p \in Accounts |-> 0] /\ changes # changes' /\ UNCHANGED <<tags, chosen, byTag, stakes>>
calculate_fee_breakdown(x) == LET fee == (x * 10) \div 10000 IN [total |-> fee, platform |-> (fee * 70) \div 100, provider |-> fee - (fee * 70) \div 100, after |-> x - fee]
TagCalls == \E t \in Tags : add_specialization_tag(t) \/ remove_specialization_tag(t)
StakeCalls == \E p \in Accounts : unstake_tokens(p) \/ \E x \in Stakes : stake_tokens(p, x)

ProviderNext ==
    /\ UNCHANGED <<adminVars, comboVars, migrateVars, onboardVars>>
    /\ Call /\ \/ TagCalls \/ StakeCalls
               \/ \E p \in Accounts, ts \in TagChoices : set_provider_specializations(p, ts)
               \/ next_day

(* The index from tags to providers says exactly what the providers chose, whatever the admin removes; a stake is never left below the minimum; and no part of a traded amount is lost between fee and rest. *)
TagsIndexed ==
    /\ \A p \in Accounts, t \in Tags : p \in byTag[t] <=> t \in Range(chosen[p])
    /\ \A p \in Accounts : stakes[p] = 0 \/ stakes[p] >= MinStake
    /\ calls = 0 => \A x \in FeeSamples : LET b == calculate_fee_breakdown(x) IN
          x >= 1000 => b.total > 0 /\ b.platform + b.provider + b.after = x /\ b.platform >= 0 /\ b.provider > 0
=============================================================================
