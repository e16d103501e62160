-------------------------- MODULE StakeVaultProofs --------------------------
(***************************************************************************)
(* Proofs about StakeVault, for any number of accounts and slashes, any    *)
(* amounts and any settings the admin may choose.                          *)
(*                                                                         *)
(* Neither TypeOK nor CustodyExact is inductive.  do_slash subtracts the   *)
(* delegators' slashes from totalDelegated, which stays a natural number   *)
(* because it is the sum of the delegations (DelegationLedger); a reversal *)
(* credits the provider named in the slash record, and what it restores    *)
(* exceeds the stranded tokens by a natural number (RecordsOK).            *)
(*                                                                         *)
(* The second half is about what is built on the vault: the unstake queue, *)
(* the emergency exit and the multi-sig, and about cooldowns and lockups.  *)
(* The steps each part adds keep the vault's invariant; what a part        *)
(* promises on top of it has an invariant of its own.                      *)
(***************************************************************************)
EXTENDS StakeVault, UnstakeQueue, EmergencyUnstake, VaultMultisig

(* Every recorded slash names an account, and no more than its amount is   *)
(* held or stranded; ids not used yet hold nothing.                        *)
RecordsOK ==
    \A id \in SlashIds :
        /\ id <= slashes => slash[id].provider \in Accounts
        /\ held[id] + stranded[id] <= slash[id].amount
        /\ id > slashes => held[id] = 0 /\ stranded[id] = 0

IInv == TypeOK /\ DelegationLedger /\ RecordsOK /\ CustodyExact

-----------------------------------------------------------------------------
(* A slash of one stake takes between nothing and all of it. *)
LEMMA SlashOfBounds ==
  ASSUME NEW x \in Nat, NEW bps \in Nat
  PROVE  SlashOf(x, bps) \in Nat /\ SlashOf(x, bps) <= x
<1>1. apply_multiplier_bps(x, bps) \in Int
  <2>1. x * bps \in Int
    OBVIOUS
  <2> QED BY <2>1 DEF apply_multiplier_bps, BPS_DENOMINATOR
<1> QED BY <1>1 DEF SlashOf, Smaller, Larger

(* A slash of a nonempty stake takes something. *)
LEMMA SlashOfPositive ==
  ASSUME NEW x \in Nat \ {0}, NEW bps \in Nat
  PROVE  SlashOf(x, bps) >= 1
<1>1. apply_multiplier_bps(x, bps) \in Int
  <2>1. x * bps \in Int
    OBVIOUS
  <2> QED BY <2>1 DEF apply_multiplier_bps, BPS_DENOMINATOR
<1> QED BY <1>1 DEF SlashOf, Smaller, Larger

(* The tables of a typed state, as the lemmas on totals want them. *)
LEMMA Tables ==
  ASSUME TypeOK
  PROVE  /\ N \in Nat /\ MaxSlashes \in Nat
         /\ balance \in [1..N -> Int]
         /\ totalDelegated \in [1..N -> Int]
         /\ held \in [1..MaxSlashes -> Int]
         /\ stranded \in [1..MaxSlashes -> Int]
         /\ unbacked \in [1..MaxSlashes -> Int]
         /\ Total(balance, N) \in Int
         /\ Total(totalDelegated, N) \in Int
         /\ Total(held, MaxSlashes) \in Int
         /\ Total(stranded, MaxSlashes) \in Int
         /\ Total(unbacked, MaxSlashes) \in Int
<1>1. N \in Nat /\ MaxSlashes \in Nat
  BY SizesAreNat
<1>2. /\ balance \in [1..N -> Int]
      /\ totalDelegated \in [1..N -> Int]
      /\ held \in [1..MaxSlashes -> Int]
      /\ stranded \in [1..MaxSlashes -> Int]
      /\ unbacked \in [1..MaxSlashes -> Int]
  BY DEF TypeOK, Accounts, SlashIds
<1> QED BY <1>1, <1>2, TotalInt

(* How far a step moves the vault's tokens and each table's total decides   *)
(* whether custody stays exact.                                             *)
LEMMA CustodyStep ==
  ASSUME TypeOK, CustodyExact,
         NEW dv \in Int, NEW db \in Int, NEW dt \in Int,
         NEW dh \in Int, NEW ds \in Int, NEW du \in Int,
         vault' = vault + dv,
         Total(balance', N) = Total(balance, N) + db,
         Total(totalDelegated', N) = Total(totalDelegated, N) + dt,
         Total(held', MaxSlashes) = Total(held, MaxSlashes) + dh,
         Total(stranded', MaxSlashes) = Total(stranded, MaxSlashes) + ds,
         Total(unbacked', MaxSlashes) = Total(unbacked, MaxSlashes) + du,
         dv + du = db + dt + dh + ds
  PROVE  CustodyExact'
<1>1. vault \in Int
  BY DEF TypeOK
<1>2. /\ Total(balance, N) \in Int
      /\ Total(totalDelegated, N) \in Int
      /\ Total(held, MaxSlashes) \in Int
      /\ Total(stranded, MaxSlashes) \in Int
      /\ Total(unbacked, MaxSlashes) \in Int
  BY Tables
<1>3. vault + Total(unbacked, MaxSlashes) =
        Total(balance, N) + Total(totalDelegated, N) + Total(held, MaxSlashes)
          + Total(stranded, MaxSlashes)
  BY DEF CustodyExact, Liabilities
<1>4. vault' + Total(unbacked', MaxSlashes) =
        Total(balance', N) + Total(totalDelegated', N) + Total(held', MaxSlashes)
          + Total(stranded', MaxSlashes)
  BY <1>1, <1>2, <1>3
<1> QED BY <1>4 DEF CustodyExact, Liabilities

(* A table a step leaves alone keeps its total. *)
LEMMA SameTotals ==
  ASSUME TypeOK
  PROVE  /\ balance' = balance => Total(balance', N) = Total(balance, N) + 0
         /\ totalDelegated' = totalDelegated =>
              Total(totalDelegated', N) = Total(totalDelegated, N) + 0
         /\ held' = held => Total(held', MaxSlashes) = Total(held, MaxSlashes) + 0
         /\ stranded' = stranded =>
              Total(stranded', MaxSlashes) = Total(stranded, MaxSlashes) + 0
         /\ unbacked' = unbacked =>
              Total(unbacked', MaxSlashes) = Total(unbacked, MaxSlashes) + 0
BY Tables

(* A step that leaves the token tables alone keeps custody exact. *)
LEMMA CustodyFrame ==
  ASSUME CustodyExact,
         UNCHANGED <<balance, totalDelegated, held, stranded, unbacked, vault>>
  PROVE  CustodyExact'
BY DEF CustodyExact, Liabilities

(* A table with one entry replaced. *)
LEMMA PutTotals ==
  ASSUME TypeOK
  PROVE  /\ \A j \in Accounts, v \in Int :
              balance' = [balance EXCEPT ![j] = v] =>
                Total(balance', N) = Total(balance, N) + (v - balance[j])
         /\ \A j \in Accounts, v \in Int :
              totalDelegated' = [totalDelegated EXCEPT ![j] = v] =>
                Total(totalDelegated', N) =
                  Total(totalDelegated, N) + (v - totalDelegated[j])
         /\ \A i \in SlashIds, v \in Int :
              held' = [held EXCEPT ![i] = v] =>
                Total(held', MaxSlashes) = Total(held, MaxSlashes) + (v - held[i])
         /\ \A i \in SlashIds, v \in Int :
              stranded' = [stranded EXCEPT ![i] = v] =>
                Total(stranded', MaxSlashes) =
                  Total(stranded, MaxSlashes) + (v - stranded[i])
         /\ \A i \in SlashIds, v \in Int :
              unbacked' = [unbacked EXCEPT ![i] = v] =>
                Total(unbacked', MaxSlashes) =
                  Total(unbacked, MaxSlashes) + (v - unbacked[i])
<1>1. /\ N \in Nat /\ MaxSlashes \in Nat /\ Accounts = 1..N
      /\ SlashIds = 1..MaxSlashes
      /\ balance \in [1..N -> Int]
      /\ totalDelegated \in [1..N -> Int]
      /\ held \in [1..MaxSlashes -> Int]
      /\ stranded \in [1..MaxSlashes -> Int]
      /\ unbacked \in [1..MaxSlashes -> Int]
  BY Tables DEF Accounts, SlashIds
<1>2. ASSUME NEW j \in Accounts, NEW v \in Int, balance' = [balance EXCEPT ![j] = v]
      PROVE  Total(balance', N) = Total(balance, N) + (v - balance[j])
  <2>1. balance \in [1..N -> Int] /\ N \in Nat /\ j \in 1..N
    BY <1>1
  <2> QED BY <1>2, <2>1, TotalPut
<1>3. ASSUME NEW j \in Accounts, NEW v \in Int, totalDelegated' = [totalDelegated EXCEPT ![j] = v]
      PROVE  Total(totalDelegated', N) = Total(totalDelegated, N) + (v - totalDelegated[j])
  <2>1. totalDelegated \in [1..N -> Int] /\ N \in Nat /\ j \in 1..N
    BY <1>1
  <2> QED BY <1>3, <2>1, TotalPut
<1>4. ASSUME NEW i \in SlashIds, NEW v \in Int, held' = [held EXCEPT ![i] = v]
      PROVE  Total(held', MaxSlashes) = Total(held, MaxSlashes) + (v - held[i])
  <2>1. held \in [1..MaxSlashes -> Int] /\ MaxSlashes \in Nat /\ i \in 1..MaxSlashes
    BY <1>1
  <2> QED BY <1>4, <2>1, TotalPut
<1>5. ASSUME NEW i \in SlashIds, NEW v \in Int, stranded' = [stranded EXCEPT ![i] = v]
      PROVE  Total(stranded', MaxSlashes) = Total(stranded, MaxSlashes) + (v - stranded[i])
  <2>1. stranded \in [1..MaxSlashes -> Int] /\ MaxSlashes \in Nat /\ i \in 1..MaxSlashes
    BY <1>1
  <2> QED BY <1>5, <2>1, TotalPut
<1>6. ASSUME NEW i \in SlashIds, NEW v \in Int, unbacked' = [unbacked EXCEPT ![i] = v]
      PROVE  Total(unbacked', MaxSlashes) = Total(unbacked, MaxSlashes) + (v - unbacked[i])
  <2>1. unbacked \in [1..MaxSlashes -> Int] /\ MaxSlashes \in Nat /\ i \in 1..MaxSlashes
    BY <1>1
  <2> QED BY <1>6, <2>1, TotalPut
<1> QED BY <1>2, <1>3, <1>4, <1>5, <1>6

-----------------------------------------------------------------------------
LEMMA InitInv == Init => IInv
<1> SUFFICES ASSUME Init PROVE IInv
  OBVIOUS
<1> USE DEF Accounts, SlashIds
<1>0. N \in Nat /\ MaxSlashes \in Nat /\ InitialWallet \in Nat
  BY SizesAreNat
<1>1. TypeOK
  <2>1. rate \in [Accounts -> [start : Nat, count : Nat]]
    BY DEF Init
  <2>2. slash \in [SlashIds -> [provider : 0..N, amount : Nat, at : Nat]]
    BY <1>0 DEF Init, NoSlash
  <2>3. delegated \in [Accounts -> [Accounts -> Nat]]
    BY DEF Init
  <2>4. /\ appeal \in [SlashIds -> AppealStatuses]
        /\ cfg \in Settings
        /\ paused \in BOOLEAN /\ multisig \in BOOLEAN
    BY DEF Init, AppealStatuses
  <2>5. slashes \in 0..MaxSlashes /\ now \in Nat \ {0}
    BY <1>0 DEF Init
  <2>6. /\ stakedNow \in SUBSET Accounts
        /\ wallet \in [Accounts -> Nat]
        /\ vault \in Nat /\ totalStake \in Nat
    BY <1>0 DEF Init
  <2> QED BY <2>1, <2>2, <2>3, <2>4, <2>5, <2>6 DEF Init, TypeOK
<1>2. DelegationLedger
  BY <1>0, TotalZero DEF Init, DelegationLedger
<1>3. RecordsOK
  BY <1>0 DEF Init, RecordsOK, NoSlash
<1>4. CustodyExact
  <2>1. Total([i \in 1..N |-> 0], N) = 0
    BY <1>0, TotalZero
  <2>2. Total([i \in 1..MaxSlashes |-> 0], MaxSlashes) = 0
    BY <1>0, TotalZero
  <2> QED BY <2>1, <2>2 DEF Init, CustodyExact, Liabilities
<1> QED BY <1>1, <1>2, <1>3, <1>4 DEF IInv

(* deposit_stake *)
LEMMA DepositInv ==
  ASSUME IInv, NEW s \in Accounts, NEW amount \in Amounts,
         deposit_stake(s, amount)
  PROVE  IInv'
<1> USE DEF IInv
<1>0. amount \in Nat /\ amount \in Int /\ s \in 1..N
  BY AmountsArePositive DEF Accounts
<1>1. TypeOK'
  <2>1. cfg.minDuration \in Nat /\ now \in Nat
    BY SettingsTyped DEF TypeOK, Settings
  <2>2. lockedUntil' \in [Accounts -> Nat]
    BY <2>1 DEF TypeOK, deposit_stake, Larger
  <2>3. totalStake' \in Nat /\ userStake' \in [Accounts -> Nat]
    BY <1>0 DEF TypeOK, deposit_stake, on_stake_change
  <2>4. balance' \in [Accounts -> Nat] /\ stakedNow' \in SUBSET Accounts
    BY <1>0 DEF TypeOK, deposit_stake
  <2>5. wallet' \in [Accounts -> Nat] /\ vault' \in Nat
    BY <1>0 DEF TypeOK, deposit_stake, PayIn
  <2> QED BY <2>2, <2>3, <2>4, <2>5
          DEF TypeOK, deposit_stake, adminVars, delegationVars, slashVars
<1>2. DelegationLedger'
  BY DEF DelegationLedger, deposit_stake, delegationVars
<1>3. RecordsOK'
  BY DEF RecordsOK, deposit_stake, slashVars
<1>4. CustodyExact'
  <2>1. balance \in [1..N -> Int] /\ N \in Nat
    BY Tables
  <2>2. balance' = [balance EXCEPT ![s] = balance[s] + amount] /\ amount \in Int
    BY <1>0 DEF deposit_stake
  <2>3. Total(balance', N) = Total(balance, N) + amount
    BY <1>0, <2>1, <2>2, TotalMove
  <2>4. vault' = vault + amount
    BY DEF deposit_stake, PayIn
  <2>5. UNCHANGED <<totalDelegated, held, stranded, unbacked>>
    BY DEF deposit_stake, delegationVars, slashVars
  <2>6. amount + 0 = amount + 0 + 0 + 0
    BY <1>0
  <2> QED BY <1>0, <2>3, <2>4, <2>5, <2>6, SameTotals, CustodyStep
<1> QED BY <1>1, <1>2, <1>3, <1>4

(* delegate_stake *)
LEMMA DelegateInv ==
  ASSUME IInv, NEW d \in Accounts, NEW p \in Accounts, NEW amount \in Amounts,
         delegate_stake(d, p, amount)
  PROVE  IInv'
<1> USE DEF IInv
<1>0. amount \in Nat /\ amount \in Int /\ d \in 1..N /\ p \in 1..N /\ N \in Nat
  BY AmountsArePositive, SizesAreNat DEF Accounts
<1>a. /\ delegated \in [Accounts -> [Accounts -> Nat]]
      /\ totalDelegated \in [Accounts -> Nat]
  BY DEF TypeOK
<1>b. /\ delegated' \in [Accounts -> [Accounts -> Nat]]
      /\ delegated'[p] = [delegated[p] EXCEPT ![d] = delegated[p][d] + amount]
      /\ \A q \in Accounts : q # p => delegated'[q] = delegated[q]
  BY <1>0, <1>a DEF delegate_stake
<1>c. totalDelegated' = [totalDelegated EXCEPT ![p] = totalDelegated[p] + amount]
  BY DEF delegate_stake
<1>1. TypeOK'
  <2>1. delegated' \in [Accounts -> [Accounts -> Nat]]
    BY <1>0, <1>a, <1>b
  <2>2. totalDelegated' \in [Accounts -> Nat]
    BY <1>0, <1>a, <1>c
  <2>3. wallet' \in [Accounts -> Nat] /\ vault' \in Nat
    BY <1>0 DEF TypeOK, delegate_stake, PayIn
  <2> QED BY <2>1, <2>2, <2>3
          DEF TypeOK, delegate_stake, clockVars, adminVars, stakeVars, indexVars, slashVars
<1>2. DelegationLedger'
  <2>1. ASSUME NEW q \in Accounts, q # p
        PROVE  totalDelegated'[q] = Total(delegated'[q], N)
    <3>1. totalDelegated'[q] = totalDelegated[q] /\ delegated'[q] = delegated[q]
      BY <1>a, <1>b, <1>c, <2>1
    <3> QED BY <3>1 DEF DelegationLedger
  <2>2. totalDelegated'[p] = Total(delegated'[p], N)
    <3>1. /\ delegated[p] \in [1..N -> Int]
          /\ delegated'[p] = [delegated[p] EXCEPT ![d] = delegated[p][d] + amount]
          /\ totalDelegated'[p] = totalDelegated[p] + amount
      BY <1>0, <1>a, <1>b, <1>c DEF Accounts
    <3>2. Total(delegated'[p], N) = Total(delegated[p], N) + amount
      <4> DEFINE f == delegated[p]
                 h == delegated'[p]
      <4>1. N \in Nat /\ d \in 1..N /\ f \in [1..N -> Int]
        BY <1>0, <3>1
      <4>2. h \in [1..N -> Int] /\ h[d] = f[d] + amount
            /\ \A i \in 1..N : i # d => h[i] = f[i]
        BY <1>0, <3>1
      <4> HIDE DEF f, h
      <4>3. Total(h, N) = Total(f, N) + h[d] - f[d]
        BY <4>1, <4>2, TotalChange
      <4>4. Total(f, N) \in Int /\ f[d] \in Int
        BY <1>0, <4>1, TotalInt
      <4>5. Total(h, N) = Total(f, N) + amount
        BY <1>0, <4>2, <4>3, <4>4
      <4> QED BY <4>5 DEF f, h
    <3> QED BY <3>1, <3>2 DEF DelegationLedger
  <2> QED BY <2>1, <2>2 DEF DelegationLedger
<1>3. RecordsOK'
  BY DEF RecordsOK, delegate_stake, slashVars
<1>4. CustodyExact'
  <2>1. totalDelegated \in [1..N -> Int]
    BY Tables
  <2>2. Total(totalDelegated', N) = Total(totalDelegated, N) + amount
    <3> DEFINE f == totalDelegated
               h == totalDelegated'
    <3>1. N \in Nat /\ p \in 1..N /\ f \in [1..N -> Int]
      BY <1>0, <1>c, <2>1
    <3>2. h \in [1..N -> Int] /\ h[p] = f[p] + amount
          /\ \A i \in 1..N : i # p => h[i] = f[i]
      BY <1>0, <1>c, <2>1
    <3> HIDE DEF f, h
    <3>3. Total(h, N) = Total(f, N) + h[p] - f[p]
      BY <3>1, <3>2, TotalChange
    <3>4. Total(f, N) \in Int /\ f[p] \in Int
      BY <1>0, <3>1, TotalInt
    <3>5. Total(h, N) = Total(f, N) + amount
      BY <1>0, <3>2, <3>3, <3>4
    <3> QED BY <3>5 DEF f, h
  <2>3. vault' = vault + amount
    BY DEF delegate_stake, PayIn
  <2>4. UNCHANGED <<balance, held, stranded, unbacked>>
    BY DEF delegate_stake, stakeVars, slashVars
  <2>5. amount + 0 = 0 + amount + 0 + 0
    BY <1>0
  <2> QED BY <1>0, <2>2, <2>3, <2>4, <2>5, SameTotals, CustodyStep
<1> QED BY <1>1, <1>2, <1>3, <1>4

(* request_withdrawal *)
LEMMA RequestInv ==
  ASSUME IInv, NEW s \in Accounts, request_withdrawal(s)
  PROVE  IInv'
<1> USE DEF IInv, request_withdrawal, clockVars, adminVars, delegationVars,
        indexVars, slashVars, tokenVars
<1>1. TypeOK'
  <2>1. requestedAt' \in [Accounts -> Nat]
    BY DEF TypeOK
  <2> QED BY <2>1 DEF TypeOK
<1>2. DelegationLedger' /\ RecordsOK'
  BY DEF DelegationLedger, RecordsOK
<1>3. CustodyExact'
  BY CustodyFrame
<1> QED BY <1>1, <1>2, <1>3

(* The common part of withdraw_stake and partial_unstake. *)
LEMMA LeaveInv ==
  ASSUME IInv, NEW s \in Accounts, NEW amount \in Nat, amount <= balance[s],
         Leave(s, amount)
  PROVE  IInv'
<1> USE DEF IInv
<1>0. s \in 1..N /\ N \in Nat /\ amount \in Int /\ -amount \in Int
  BY SizesAreNat DEF Accounts
<1>1. TypeOK'
  <2>1. balance' \in [Accounts -> Nat]
    BY DEF TypeOK, Leave
  <2>2. userStake' \in [Accounts -> Nat] /\ totalStake' \in Nat
    <3>1. balance[s] - amount \in Nat
      BY DEF TypeOK
    <3> QED BY <3>1 DEF TypeOK, Leave, on_stake_change
  <2>3. rate' \in [Accounts -> [start : Nat, count : Nat]]
    <3>1. rate \in [Accounts -> [start : Nat, count : Nat]] /\ now \in Nat
      BY DEF TypeOK
    <3> QED BY <3>1 DEF Leave, record_action
  <2>4. lockupEnd' \in [Accounts -> Nat] /\ requestedAt' \in [Accounts -> Nat]
    BY DEF TypeOK, Leave
  <2>5. wallet' \in [Accounts -> Nat] /\ vault' \in Nat
    BY DEF TypeOK, Leave, PayOut
  <2> QED BY <2>1, <2>2, <2>3, <2>4, <2>5
          DEF TypeOK, Leave, clockVars, adminVars, delegationVars, slashVars
<1>2. DelegationLedger' /\ RecordsOK'
  BY DEF DelegationLedger, RecordsOK, Leave, delegationVars, slashVars
<1>3. CustodyExact'
  <2>1. balance \in [1..N -> Int]
    BY Tables
  <2>2. balance' = [balance EXCEPT ![s] = balance[s] - amount]
    BY DEF Leave
  <2>3. Total(balance', N) = Total(balance, N) + (-amount)
    <3>1. /\ balance[s] - amount \in Int
          /\ (balance[s] - amount) - balance[s] = -amount
      BY <1>0, <2>1
    <3>2. Total(balance', N) = Total(balance, N) + ((balance[s] - amount) - balance[s])
      BY <2>2, <3>1, PutTotals
    <3> QED BY <3>1, <3>2
  <2>4. vault' = vault + (-amount)
    BY <1>0 DEF Leave, PayOut, TypeOK
  <2>5. UNCHANGED <<totalDelegated, held, stranded, unbacked>>
    BY DEF Leave, delegationVars, slashVars
  <2>6. (-amount) + 0 = (-amount) + 0 + 0 + 0
    BY <1>0
  <2> QED BY <1>0, <2>3, <2>4, <2>5, <2>6, SameTotals, CustodyStep
<1> QED BY <1>1, <1>2, <1>3

(* release_provider_lockup *)
LEMMA ReleaseInv ==
  ASSUME IInv, NEW p \in Accounts, release_provider_lockup(p)
  PROVE  IInv'
<1> USE DEF IInv, release_provider_lockup, clockVars, adminVars, delegationVars,
        indexVars, slashVars, tokenVars
<1>1. TypeOK'
  <2>1. lockupEnd' \in [Accounts -> Nat]
    BY DEF TypeOK
  <2> QED BY <2>1 DEF TypeOK
<1>2. DelegationLedger' /\ RecordsOK'
  BY DEF DelegationLedger, RecordsOK
<1>3. CustodyExact'
  BY CustodyFrame
<1> QED BY <1>1, <1>2, <1>3

(* sync_index_stake: only the reward index moves. *)
LEMMA SyncInv ==
  ASSUME IInv, NEW s \in Accounts, sync_index_stake(s)
  PROVE  IInv'
<1> USE DEF IInv, sync_index_stake, clockVars, adminVars, stakeVars,
        delegationVars, slashVars, tokenVars
<1>1. TypeOK'
  <2>1. userStake' \in [Accounts -> Nat]
    BY DEF TypeOK, on_stake_change
  <2>2. totalStake' \in Nat
    BY DEF TypeOK, on_stake_change
  <2> QED BY <2>1, <2>2 DEF TypeOK
<1>2. DelegationLedger' /\ RecordsOK'
  BY DEF DelegationLedger, RecordsOK
<1>3. CustodyExact'
  BY CustodyFrame
<1> QED BY <1>1, <1>2, <1>3

(* do_slash: what it takes leaves the provider's stake and the delegations  *)
(* to it, and is held, burned or stranded as a whole.                       *)
LEMMA SlashInv ==
  ASSUME IInv, NEW p \in Accounts, NEW severity \in Severities,
         NEW burns \in BOOLEAN, do_slash(p, severity, burns)
  PROVE  IInv'
<1> USE DEF IInv
<1> DEFINE bps == cfg.tiers[severity]
           own == SlashOf(balance[p], bps)
           dSlash == DelegatorSlashes(p, bps)
           dTotal == DelegatedSlashTotal(p, bps)
           rest == [d \in Accounts |-> delegated[p][d] - dSlash[d]]
           amt == own + dTotal
           id == slashes + 1
           hold == cfg.appealWindow > 0
<1>0. N \in Nat /\ MaxSlashes \in Nat /\ p \in 1..N /\ Accounts = 1..N
      /\ SlashIds = 1..MaxSlashes
  BY SizesAreNat DEF Accounts, SlashIds
<1>1. /\ bps \in Nat /\ now \in Nat /\ cfg.lockup \in Nat
      /\ cfg.appealWindow \in Nat
  <2>1. cfg \in Settings /\ now \in Nat
    BY DEF TypeOK
  <2>2. /\ cfg.tiers \in SlashTiers /\ cfg.lockup \in Lockups
        /\ cfg.appealWindow \in AppealWindows
    BY <2>1 DEF Settings
  <2>3. cfg.tiers \in [Severities -> Nat]
    BY <2>2, SettingsTyped
  <2> QED BY <2>1, <2>2, <2>3, SettingsTyped
<1>2. /\ balance \in [Accounts -> Nat] /\ balance[p] \in Nat \ {0}
      /\ delegated \in [Accounts -> [Accounts -> Nat]]
      /\ totalDelegated \in [Accounts -> Nat]
  BY DEF TypeOK, do_slash
<1>3. own \in Nat /\ own <= balance[p] /\ own >= 1
  BY <1>1, <1>2, SlashOfBounds, SlashOfPositive
<1>4. \A d \in Accounts : /\ dSlash[d] \in Nat
                          /\ dSlash[d] <= delegated[p][d]
                          /\ delegated[p][d] \in Nat
  BY <1>1, <1>2, SlashOfBounds DEF DelegatorSlashes
<1> HIDE DEF own
<1>5. dSlash \in [1..N -> Nat] /\ dSlash \in [1..N -> Int]
      /\ dTotal = Total(dSlash, N)
  BY <1>0, <1>4 DEF DelegatorSlashes, DelegatedSlashTotal
<1> HIDE DEF dSlash, dTotal
<1>6. dTotal \in Nat
  BY <1>0, <1>5, TotalNat
<1>7. rest \in [Accounts -> Nat]
  BY <1>4
<1>8. Total(delegated[p], N) = Total(rest, N) + dTotal
  <2>1. rest \in [1..N -> Int]
    BY <1>0, <1>7
  <2>3. delegated[p] \in [1..N -> Int]
    <3>1. delegated[p] \in [Accounts -> Nat]
      BY <1>2
    <3> QED BY <1>0, <3>1
  <2>2. \A i \in 1..N : delegated[p][i] = rest[i] + dSlash[i]
    BY <1>0, <1>4
  <2> HIDE DEF rest
  <2> QED BY <1>0, <1>5, <2>1, <2>2, <2>3, TotalAdd
<1>9. Total(rest, N) \in Nat
  BY <1>0, <1>7, TotalNat
<1>10. totalDelegated[p] = Total(rest, N) + dTotal
  BY <1>8 DEF DelegationLedger
<1>11. amt \in Nat /\ amt >= 1 /\ (IF amt = 0 THEN 1 ELSE amt) = amt
  BY <1>3, <1>6
<1>12. slashes \in Nat /\ slashes < MaxSlashes /\ id \in SlashIds /\ id \in Nat
  BY <1>0 DEF TypeOK, do_slash
<1>13. /\ balance' = [balance EXCEPT ![p] = balance[p] - own]
       /\ delegated' = [delegated EXCEPT ![p] = rest]
       /\ totalDelegated' = [totalDelegated EXCEPT ![p] = totalDelegated[p] - dTotal]
       /\ slashes' = id
       /\ lastSlash' = [lastSlash EXCEPT ![p] = now + 1]
  BY DEF do_slash, own, dSlash, dTotal
<1>14. /\ slash' = [slash EXCEPT ![id] =
                        [provider |-> p, amount |-> amt, at |-> now]]
       /\ held' = [held EXCEPT ![id] = IF hold THEN amt ELSE 0]
       /\ \/ hold /\ vault' = vault /\ stranded' = stranded
             /\ lockupEnd' = lock_provider(p)
          \/ ~hold /\ burns /\ vault >= amt
             /\ vault' = vault - amt /\ stranded' = stranded
             /\ lockupEnd' = lock_provider(p)
          \/ ~hold /\ ~burns /\ vault' = vault
             /\ stranded' = [stranded EXCEPT ![id] = amt]
             /\ lockupEnd' = lockupEnd
  BY <1>11 DEF do_slash, own, dTotal
<1>15. UNCHANGED <<clockVars, adminVars, lockedUntil, requestedAt, rate,
                   indexVars, appeal, unbacked, wallet>>
  BY DEF do_slash
<1> HIDE DEF amt, rest, id, hold, bps
<1>16. TypeOK'
  <2>1. balance' \in [Accounts -> Nat]
    BY <1>2, <1>3, <1>13
  <2>2. delegated' \in [Accounts -> [Accounts -> Nat]]
    BY <1>2, <1>7, <1>13
  <2>3. totalDelegated' \in [Accounts -> Nat]
    <3>1. totalDelegated[p] - dTotal \in Nat
      BY <1>6, <1>9, <1>10
    <3> QED BY <1>2, <1>13, <3>1
  <2>4. slashes' \in 0..MaxSlashes
    BY <1>0, <1>12, <1>13 DEF id
  <2>5. lastSlash' \in [Accounts -> Nat]
    BY <1>1, <1>13 DEF TypeOK
  <2>6. slash' \in [SlashIds -> [provider : 0..N, amount : Nat, at : Nat]]
    <3>1. [provider |-> p, amount |-> amt, at |-> now]
            \in [provider : 0..N, amount : Nat, at : Nat]
      BY <1>0, <1>1, <1>11
    <3> QED BY <1>14, <3>1 DEF TypeOK
  <2>7. held' \in [SlashIds -> Nat] /\ stranded' \in [SlashIds -> Nat]
    <3>1. held \in [SlashIds -> Nat] /\ stranded \in [SlashIds -> Nat]
      BY DEF TypeOK
    <3> QED BY <1>11, <1>14, <3>1
  <2>8. vault' \in Nat
    BY <1>11, <1>14 DEF TypeOK
  <2>9. lockupEnd' \in [Accounts -> Nat]
    <3>1. lock_provider(p) \in [Accounts -> Nat]
      BY <1>1 DEF lock_provider, Larger, TypeOK
    <3> QED BY <1>14, <3>1 DEF TypeOK
  <2> QED BY <1>15, <2>1, <2>2, <2>3, <2>4, <2>5, <2>6, <2>7, <2>8, <2>9
          DEF TypeOK, clockVars, adminVars, indexVars
<1>17. DelegationLedger'
  <2>1. ASSUME NEW q \in Accounts PROVE totalDelegated'[q] = Total(delegated'[q], N)
    <3>1. CASE q = p
      <4>1. delegated'[p] = rest /\ totalDelegated'[p] = totalDelegated[p] - dTotal
        BY <1>2, <1>13
      <4>2. totalDelegated[p] - dTotal = Total(rest, N)
        BY <1>6, <1>9, <1>10
      <4> QED BY <3>1, <4>1, <4>2
    <3>2. CASE q # p
      <4>1. delegated'[q] = delegated[q] /\ totalDelegated'[q] = totalDelegated[q]
        BY <1>2, <1>13, <3>2
      <4> QED BY <4>1 DEF DelegationLedger
    <3> QED BY <3>1, <3>2
  <2> QED BY <2>1 DEF DelegationLedger
<1>18. held[id] = 0 /\ stranded[id] = 0
  BY <1>12 DEF RecordsOK, id
<1>19. RecordsOK'
  <2>1. /\ held \in [SlashIds -> Nat] /\ stranded \in [SlashIds -> Nat]
        /\ slash \in [SlashIds -> [provider : 0..N, amount : Nat, at : Nat]]
    BY DEF TypeOK
  <2>2. ASSUME NEW i \in SlashIds
        PROVE  /\ i <= slashes' => slash'[i].provider \in Accounts
               /\ held'[i] + stranded'[i] <= slash'[i].amount
               /\ i > slashes' => held'[i] = 0 /\ stranded'[i] = 0
    <3>1. CASE i = id
      <4>1. slash'[i] = [provider |-> p, amount |-> amt, at |-> now]
        BY <1>14, <2>1, <3>1
      <4>2. held'[i] + stranded'[i] <= amt
        BY <1>11, <1>14, <1>18, <2>1, <3>1
      <4> QED BY <1>12, <1>13, <3>1, <4>1, <4>2
    <3>2. CASE i # id
      <4>1. slash'[i] = slash[i] /\ held'[i] = held[i] /\ stranded'[i] = stranded[i]
        BY <1>14, <2>1, <3>2
      <4>2. (i <= slashes' => i <= slashes) /\ (i > slashes' => i > slashes)
        BY <1>0, <1>12, <1>13, <3>2 DEF id
      <4> QED BY <4>1, <4>2 DEF RecordsOK
    <3> QED BY <3>1, <3>2
  <2> QED BY <2>2 DEF RecordsOK
<1>20. CustodyExact'
  <2>1. /\ balance[p] \in Int /\ totalDelegated[p] \in Int
        /\ own \in Int /\ dTotal \in Int /\ amt \in Int /\ 0 \in Int
        /\ -own \in Int /\ -dTotal \in Int /\ -amt \in Int
    BY <1>2, <1>3, <1>6, <1>11
  <2>2. Total(balance', N) = Total(balance, N) + (-own)
    <3>1. balance[p] - own \in Int /\ (balance[p] - own) - balance[p] = -own
      BY <2>1
    <3>2. Total(balance', N) = Total(balance, N) + ((balance[p] - own) - balance[p])
      BY <1>13, <3>1, PutTotals
    <3> QED BY <3>1, <3>2
  <2>3. Total(totalDelegated', N) = Total(totalDelegated, N) + (-dTotal)
    <3>1. /\ totalDelegated[p] - dTotal \in Int
          /\ (totalDelegated[p] - dTotal) - totalDelegated[p] = -dTotal
      BY <2>1
    <3>2. Total(totalDelegated', N) =
            Total(totalDelegated, N) + ((totalDelegated[p] - dTotal) - totalDelegated[p])
      BY <1>13, <3>1, PutTotals
    <3> QED BY <3>1, <3>2
  <2>4. Total(unbacked', MaxSlashes) = Total(unbacked, MaxSlashes) + 0
    BY <1>15, SameTotals
  <2>5. amt = own + dTotal
    BY DEF amt
  <2>6. vault \in Int
    BY DEF TypeOK
  <2>7. CASE hold
    <3>1. held' = [held EXCEPT ![id] = amt]
      BY <1>14, <2>7
    <3>2. Total(held', MaxSlashes) = Total(held, MaxSlashes) + amt
      <4>1. Total(held', MaxSlashes) = Total(held, MaxSlashes) + (amt - held[id])
        BY <1>12, <2>1, <3>1, PutTotals
      <4> QED BY <1>18, <2>1, <4>1
    <3>3. stranded' = stranded /\ vault' = vault + 0
      BY <1>14, <2>6, <2>7
    <3>4. 0 + 0 = (-own) + (-dTotal) + amt + 0
      BY <2>1, <2>5
    <3>5. Total(stranded', MaxSlashes) = Total(stranded, MaxSlashes) + 0
      BY <3>3, SameTotals
    <3> QED BY <2>1, <2>2, <2>3, <2>4, <3>2, <3>3, <3>4, <3>5, CustodyStep
  <2>8. ASSUME ~hold
        PROVE  Total(held', MaxSlashes) = Total(held, MaxSlashes) + 0
    <3>1. held' = [held EXCEPT ![id] = 0]
      BY <1>14, <2>8
    <3>2. Total(held', MaxSlashes) = Total(held, MaxSlashes) + (0 - held[id])
      BY <1>12, <2>1, <3>1, PutTotals
    <3> QED BY <1>18, <2>1, <3>2
  <2>9. CASE ~hold /\ burns
    <3>1. vault' = vault + (-amt) /\ stranded' = stranded
      BY <1>14, <2>1, <2>6, <2>9
    <3>2. (-amt) + 0 = (-own) + (-dTotal) + 0 + 0
      BY <2>1, <2>5
    <3>3. Total(stranded', MaxSlashes) = Total(stranded, MaxSlashes) + 0
      BY <3>1, SameTotals
    <3> QED BY <2>1, <2>2, <2>3, <2>4, <2>8, <2>9, <3>1, <3>2, <3>3, CustodyStep
  <2>10. CASE ~hold /\ ~burns
    <3>1. stranded' = [stranded EXCEPT ![id] = amt] /\ vault' = vault + 0
      BY <1>14, <2>6, <2>10
    <3>2. Total(stranded', MaxSlashes) = Total(stranded, MaxSlashes) + amt
      <4>1. Total(stranded', MaxSlashes) = Total(stranded, MaxSlashes) + (amt - stranded[id])
        BY <1>12, <2>1, <3>1, PutTotals
      <4> QED BY <1>18, <2>1, <4>1
    <3>3. 0 + 0 = (-own) + (-dTotal) + 0 + amt
      BY <2>1, <2>5
    <3>4. Total(held', MaxSlashes) = Total(held, MaxSlashes) + 0 /\ vault' = vault + 0
      BY <2>8, <2>10, <3>1
    <3> QED BY <2>1, <2>2, <2>3, <2>4, <3>2, <3>3, <3>4, CustodyStep
  <2> QED BY <2>7, <2>9, <2>10
<1> QED BY <1>16, <1>17, <1>19, <1>20

(* appeal_slash *)
LEMMA AppealInv ==
  ASSUME IInv, NEW a \in Accounts, NEW id \in SlashIds, appeal_slash(a, id)
  PROVE  IInv'
<1> USE DEF IInv, appeal_slash, clockVars, adminVars, stakeVars, delegationVars,
        indexVars, tokenVars
<1>1. TypeOK'
  <2>1. appeal' \in [SlashIds -> AppealStatuses]
    BY DEF TypeOK, AppealStatuses
  <2> QED BY <2>1 DEF TypeOK
<1>2. DelegationLedger' /\ RecordsOK'
  BY DEF DelegationLedger, RecordsOK
<1>3. CustodyExact'
  BY CustodyFrame
<1> QED BY <1>1, <1>2, <1>3

(* An upheld slash: its held tokens are burned, or stranded by a failed burn. *)
LEMMA UpholdInv ==
  ASSUME IInv, NEW id \in SlashIds, NEW burns \in BOOLEAN, UpholdSlash(id, burns)
  PROVE  IInv'
<1> USE DEF IInv
<1>1. /\ held \in [SlashIds -> Nat] /\ stranded \in [SlashIds -> Nat]
      /\ appeal \in [SlashIds -> AppealStatuses] /\ vault \in Nat
  BY DEF TypeOK
<1>2. /\ held' = [held EXCEPT ![id] = 0]
      /\ \/ /\ vault >= held[id] /\ vault' = vault - held[id]
            /\ appeal' = [appeal EXCEPT ![id] = "Upheld"]
            /\ stranded' = stranded
         \/ /\ stranded' = [stranded EXCEPT ![id] = stranded[id] + held[id]]
            /\ UNCHANGED <<vault, appeal>>
  BY DEF UpholdSlash
<1>3. UNCHANGED <<clockVars, adminVars, stakeVars, delegationVars, indexVars,
                  lastSlash, slashes, slash, unbacked, wallet>>
  BY DEF UpholdSlash
<1>4. TypeOK'
  <2>1. held' \in [SlashIds -> Nat] /\ stranded' \in [SlashIds -> Nat]
    BY <1>1, <1>2
  <2>2. vault' \in Nat /\ appeal' \in [SlashIds -> AppealStatuses]
    BY <1>1, <1>2 DEF AppealStatuses
  <2> QED BY <1>3, <2>1, <2>2
          DEF TypeOK, clockVars, adminVars, stakeVars, delegationVars, indexVars
<1>5. DelegationLedger'
  BY <1>3 DEF DelegationLedger, delegationVars
<1>6. RecordsOK'
  <2>1. ASSUME NEW i \in SlashIds
        PROVE  /\ held'[i] + stranded'[i] <= held[i] + stranded[i]
               /\ (held[i] = 0 /\ stranded[i] = 0) => (held'[i] = 0 /\ stranded'[i] = 0)
               /\ held'[i] + stranded'[i] \in Nat /\ held[i] + stranded[i] \in Nat
    BY <1>1, <1>2
  <2>2. slash' = slash /\ slashes' = slashes
        /\ slash \in [SlashIds -> [provider : 0..N, amount : Nat, at : Nat]]
    BY <1>3 DEF TypeOK
  <2> QED BY <2>1, <2>2 DEF RecordsOK
<1>7. CustodyExact'
  <2>1. held[id] \in Int /\ stranded[id] \in Int /\ vault \in Int
        /\ -held[id] \in Int /\ 0 - held[id] \in Int /\ 0 \in Int
    BY <1>1
  <2>2. Total(held', MaxSlashes) = Total(held, MaxSlashes) + (0 - held[id])
    BY <1>2, <2>1, PutTotals
  <2>3. /\ Total(balance', N) = Total(balance, N) + 0
        /\ Total(totalDelegated', N) = Total(totalDelegated, N) + 0
        /\ Total(unbacked', MaxSlashes) = Total(unbacked, MaxSlashes) + 0
    BY <1>3, SameTotals DEF stakeVars, delegationVars
  <2>4. CASE stranded' = stranded /\ vault' = vault - held[id]
    <3>1. vault' = vault + (-held[id])
      BY <2>1, <2>4
    <3>2. Total(stranded', MaxSlashes) = Total(stranded, MaxSlashes) + 0
      BY <2>4, SameTotals
    <3>3. (-held[id]) + 0 = 0 + 0 + (0 - held[id]) + 0
      BY <2>1
    <3> QED BY <2>1, <2>2, <2>3, <3>1, <3>2, <3>3, CustodyStep
  <2>5. CASE /\ stranded' = [stranded EXCEPT ![id] = stranded[id] + held[id]]
             /\ vault' = vault
    <3>1. vault' = vault + 0
      BY <2>1, <2>5
    <3>2. stranded[id] + held[id] \in Int
          /\ (stranded[id] + held[id]) - stranded[id] \in Int
      BY <2>1
    <3>3. Total(stranded', MaxSlashes) =
            Total(stranded, MaxSlashes) + ((stranded[id] + held[id]) - stranded[id])
      BY <2>5, <3>2, PutTotals
    <3>4. 0 + 0 = 0 + 0 + (0 - held[id]) + ((stranded[id] + held[id]) - stranded[id])
      BY <2>1
    <3> QED BY <2>1, <2>2, <2>3, <3>1, <3>2, <3>3, <3>4, CustodyStep
  <2> QED BY <1>2, <2>4, <2>5
<1> QED BY <1>4, <1>5, <1>6, <1>7

(* A reversed slash: what is credited was held, was stranded, or is unbacked. *)
LEMMA ReverseInv ==
  ASSUME IInv, NEW id \in SlashIds, ReverseSlash(id)
  PROVE  IInv'
<1> USE DEF IInv
<1> DEFINE p == slash[id].provider
           back == IF held[id] > 0 THEN held[id] ELSE slash[id].amount
           lost == IF held[id] > 0 THEN unbacked[id]
                   ELSE unbacked[id] + back - stranded[id]
           kept == IF held[id] > 0 THEN stranded[id] ELSE 0
<1>1. /\ held \in [SlashIds -> Nat] /\ stranded \in [SlashIds -> Nat]
      /\ unbacked \in [SlashIds -> Nat] /\ balance \in [Accounts -> Nat]
      /\ appeal \in [SlashIds -> AppealStatuses]
      /\ slash \in [SlashIds -> [provider : 0..N, amount : Nat, at : Nat]]
  BY DEF TypeOK
<1>2. p \in Accounts /\ held[id] + stranded[id] <= slash[id].amount
  BY DEF RecordsOK, ReverseSlash
<1>3. /\ held[id] \in Nat /\ stranded[id] \in Nat /\ unbacked[id] \in Nat
      /\ slash[id].amount \in Nat /\ balance[p] \in Nat
  BY <1>1, <1>2
<1>4. back \in Nat /\ lost \in Nat /\ kept \in Nat
      /\ back + (kept - stranded[id]) = held[id] + (lost - unbacked[id])
  BY <1>2, <1>3
<1>5. /\ balance' = [balance EXCEPT ![p] = balance[p] + back]
      /\ held' = [held EXCEPT ![id] = 0]
      /\ appeal' = [appeal EXCEPT ![id] = "Reversed"]
      /\ stranded' = [stranded EXCEPT ![id] = kept]
      /\ unbacked' = [unbacked EXCEPT ![id] = lost]
  BY DEF ReverseSlash
<1>6. UNCHANGED <<clockVars, adminVars, lockedUntil, requestedAt, lockupEnd,
                  rate, delegationVars, indexVars, lastSlash, slashes,
                  slash, tokenVars>>
  BY DEF ReverseSlash
<1> HIDE DEF back, lost
<1>7. TypeOK'
  <2>1. balance' \in [Accounts -> Nat] /\ appeal' \in [SlashIds -> AppealStatuses]
    BY <1>1, <1>2, <1>4, <1>5 DEF AppealStatuses
  <2>2. /\ held' \in [SlashIds -> Nat] /\ stranded' \in [SlashIds -> Nat]
        /\ unbacked' \in [SlashIds -> Nat]
    BY <1>1, <1>4, <1>5
  <2> QED BY <1>6, <2>1, <2>2
          DEF TypeOK, clockVars, adminVars, delegationVars, indexVars, tokenVars
<1>8. DelegationLedger'
  BY <1>6 DEF DelegationLedger, delegationVars
<1>9. RecordsOK'
  <2>1. ASSUME NEW i \in SlashIds
        PROVE  /\ held'[i] + stranded'[i] <= held[i] + stranded[i]
               /\ (held[i] = 0 /\ stranded[i] = 0) => (held'[i] = 0 /\ stranded'[i] = 0)
               /\ held'[i] + stranded'[i] \in Nat /\ held[i] + stranded[i] \in Nat
    BY <1>1, <1>5
  <2>2. slash' = slash /\ slashes' = slashes
    BY <1>6
  <2>3. \A i \in SlashIds : slash[i].amount \in Nat
    BY <1>1
  <2> QED BY <2>1, <2>2, <2>3 DEF RecordsOK
<1> HIDE DEF p, kept
<1>10. CustodyExact'
  <2>1. /\ balance[p] + back \in Int /\ lost \in Int /\ kept \in Int /\ 0 \in Int
        /\ (balance[p] + back) - balance[p] \in Int
        /\ 0 - held[id] \in Int /\ kept - stranded[id] \in Int
        /\ lost - unbacked[id] \in Int
    BY <1>3, <1>4
  <2>2. Total(balance', N) = Total(balance, N) + ((balance[p] + back) - balance[p])
    BY <1>2, <1>5, <2>1, PutTotals
  <2>3. Total(held', MaxSlashes) = Total(held, MaxSlashes) + (0 - held[id])
    BY <1>5, <2>1, PutTotals
  <2>4. Total(stranded', MaxSlashes) = Total(stranded, MaxSlashes) + (kept - stranded[id])
    BY <1>5, <2>1, PutTotals
  <2>5. Total(unbacked', MaxSlashes) = Total(unbacked, MaxSlashes) + (lost - unbacked[id])
    BY <1>5, <2>1, PutTotals
  <2>6. Total(totalDelegated', N) = Total(totalDelegated, N) + 0
    BY <1>6, SameTotals DEF delegationVars
  <2>7. vault' = vault + 0
    BY <1>6 DEF tokenVars, TypeOK
  <2>8. 0 + (lost - unbacked[id]) = ((balance[p] + back) - balance[p]) + 0
                                      + (0 - held[id]) + (kept - stranded[id])
    BY <1>3, <1>4
  <2> QED BY <2>1, <2>2, <2>3, <2>4, <2>5, <2>6, <2>7, <2>8, CustodyStep
<1> QED BY <1>7, <1>8, <1>9, <1>10

(* A step that leaves every ledger table alone. *)
LEMMA LedgerFrame ==
  ASSUME IInv, TypeOK',
         UNCHANGED <<balance, delegationVars, slashVars, tokenVars>>
  PROVE  IInv'
<1> USE DEF IInv, delegationVars, slashVars, tokenVars
<1>1. DelegationLedger' /\ RecordsOK'
  BY DEF DelegationLedger, RecordsOK
<1>2. CustodyExact'
  BY CustodyFrame
<1> QED BY <1>1, <1>2

(* Every admin setter installs settings of the declared ranges. *)
LEMMA SetInv ==
  ASSUME IInv, NEW settings \in Settings, Set(settings)
  PROVE  IInv'
<1>1. TypeOK'
  BY DEF IInv, TypeOK, Set, clockVars, stakeVars, delegationVars, indexVars,
         slashVars, tokenVars
<1> QED BY <1>1, LedgerFrame DEF Set, stakeVars

LEMMA PausedInv ==
  ASSUME IInv, NEW b \in BOOLEAN, SetPaused(b)
  PROVE  IInv'
<1>1. TypeOK'
  BY DEF IInv, TypeOK, SetPaused, clockVars, stakeVars, delegationVars, indexVars,
         slashVars, tokenVars
<1> QED BY <1>1, LedgerFrame DEF SetPaused, stakeVars

LEMMA AdminInv ==
  ASSUME IInv, AdminNext
  PROVE  IInv'
<1>0. cfg \in Settings
  BY DEF IInv, TypeOK
<1>2. ASSUME pause \/ unpause \/ \E b \in BOOLEAN : apply_governance_pause(b)
      PROVE  IInv'
  BY <1>2, PausedInv DEF pause, unpause, apply_governance_pause
<1>3. ASSUME NEW v \in MinStakes, set_minimum_stake(v) PROVE IInv'
  <2>1. [cfg EXCEPT !.minStake = v] \in Settings
    BY <1>0, <1>3 DEF Settings
  <2> QED BY <1>3, <2>1, SetInv DEF set_minimum_stake, PutMinimumStake
<1>4. ASSUME NEW v \in MinDurations, set_minimum_stake_duration(v) PROVE IInv'
  <2>1. [cfg EXCEPT !.minDuration = v] \in Settings
    BY <1>0, <1>4 DEF Settings
  <2> QED BY <1>4, <2>1, SetInv DEF set_minimum_stake_duration, PutMinimumStakeDuration
<1>5. ASSUME NEW v \in WithdrawalCooldowns, set_withdrawal_cooldown(v) PROVE IInv'
  <2>1. [cfg EXCEPT !.withdrawalCooldown = v] \in Settings
    BY <1>0, <1>5 DEF Settings
  <2> QED BY <1>5, <2>1, SetInv DEF set_withdrawal_cooldown, PutWithdrawalCooldown
<1>6. ASSUME NEW v \in SlashCooldowns, set_slash_cooldown(v) PROVE IInv'
  <2>1. [cfg EXCEPT !.slashCooldown = v] \in Settings
    BY <1>0, <1>6 DEF Settings
  <2> QED BY <1>6, <2>1, SetInv DEF set_slash_cooldown
<1>7. ASSUME NEW v \in Lockups, set_default_provider_lockup(v) PROVE IInv'
  <2>1. [cfg EXCEPT !.lockup = v] \in Settings
    BY <1>0, <1>7 DEF Settings
  <2> QED BY <1>7, <2>1, SetInv DEF set_default_provider_lockup
<1>8. ASSUME NEW v \in AppealWindows, set_appeal_window(v) PROVE IInv'
  <2>1. [cfg EXCEPT !.appealWindow = v] \in Settings
    BY <1>0, <1>8 DEF Settings
  <2> QED BY <1>8, <2>1, SetInv DEF set_appeal_window, PutAppealWindow
<1>9. ASSUME NEW t \in SlashTiers,
             configure_slash_tiers(t) \/ governance_configure_slash_tiers(t)
      PROVE  IInv'
  <2>1. ValidTiers(t) /\ Set([cfg EXCEPT !.tiers = t])
    BY <1>9 DEF configure_slash_tiers, governance_configure_slash_tiers, PutSlashTiers
  <2>2. [cfg EXCEPT !.tiers = t] \in Settings
    BY <1>0, <1>9, <2>1 DEF Settings
  <2> QED BY <2>1, <2>2, SetInv
<1> QED BY <1>2, <1>3, <1>4, <1>5, <1>6, <1>7, <1>8, <1>9 DEF AdminNext

(* A ledger closes. *)
LEMMA TickInv ==
  ASSUME IInv, Tick
  PROVE  IInv'
<1>1. TypeOK'
  <2>1. now' \in Nat \ {0} /\ stakedNow' \in SUBSET Accounts
    BY DEF IInv, TypeOK, Tick
  <2> QED BY <2>1 DEF IInv, TypeOK, Tick, adminVars, stakeVars, delegationVars,
                      indexVars, slashVars, tokenVars
<1> QED BY <1>1, LedgerFrame DEF Tick, stakeVars

LEMMA MultisigInv ==
  ASSUME IInv, NEW b \in BOOLEAN, set_multisig_config(b)
  PROVE  IInv'
<1>1. TypeOK'
  <2>1. multisig' \in BOOLEAN
    BY DEF set_multisig_config
  <2> QED BY <2>1 DEF IInv, TypeOK, set_multisig_config, clockVars, stakeVars,
                      delegationVars, indexVars, slashVars, tokenVars
<1> QED BY <1>1, LedgerFrame DEF set_multisig_config, stakeVars

LEMMA StakerInv ==
  ASSUME IInv, StakerNext
  PROVE  IInv'
<1>1. ASSUME NEW s \in Accounts, NEW amount \in Amounts, partial_unstake(s, amount)
      PROVE  IInv'
  <2>1. amount \in Nat /\ balance[s] \in Nat /\ amount < balance[s]
    BY <1>1, AmountsArePositive DEF IInv, TypeOK, partial_unstake
  <2>2. amount <= balance[s]
    BY <2>1
  <2> QED BY <1>1, <2>1, <2>2, LeaveInv DEF partial_unstake
<1>2. ASSUME NEW s \in Accounts, withdraw_stake(s)
      PROVE  IInv'
  <2>1. balance[s] \in Nat
    BY <1>2 DEF IInv, TypeOK
  <2>2. balance[s] <= balance[s]
    BY <2>1
  <2> QED BY <1>2, <2>1, <2>2, LeaveInv DEF withdraw_stake
<1> QED BY <1>1, <1>2, DepositInv, DelegateInv, RequestInv, ReleaseInv, SyncInv
    DEF StakerNext

LEMMA SlashingInv ==
  ASSUME IInv, SlashNext
  PROVE  IInv'
<1>1. ASSUME NEW id \in SlashIds, NEW uphold \in BOOLEAN, NEW burns \in BOOLEAN,
             do_resolve_appeal(id, uphold, burns)
      PROVE  IInv'
  BY <1>1, UpholdInv, ReverseInv DEF do_resolve_appeal
<1>2. ASSUME NEW p \in Accounts, NEW severity \in Severities,
             slash_stake(p, severity)
      PROVE  IInv'
  BY <1>2, SlashInv DEF slash_stake
<1>3. ASSUME NEW p \in Accounts, NEW severity \in Severities, NEW burns \in BOOLEAN,
             batch_slash_stake(p, severity, burns)
      PROVE  IInv'
  BY <1>3, SlashInv DEF batch_slash_stake
<1>4. ASSUME NEW id \in SlashIds, NEW uphold \in BOOLEAN, resolve_appeal(id, uphold)
      PROVE  IInv'
  BY <1>1, <1>4 DEF resolve_appeal
<1>5. ASSUME NEW id \in SlashIds, NEW uphold \in BOOLEAN, NEW burns \in BOOLEAN,
             batch_resolve_appeal(id, uphold, burns)
      PROVE  IInv'
  BY <1>1, <1>5 DEF batch_resolve_appeal
<1> QED BY <1>2, <1>3, <1>4, <1>5, AppealInv DEF SlashNext

LEMMA NextInv ==
  ASSUME IInv, [Next]_vars
  PROVE  IInv'
<1>1. CASE UNCHANGED vars
  <2>1. TypeOK'
    BY <1>1 DEF IInv, TypeOK, vars, clockVars, adminVars, stakeVars,
                delegationVars, indexVars, slashVars, tokenVars
  <2> QED BY <1>1, <2>1, LedgerFrame DEF vars, stakeVars
<1>2. CASE Next
  BY <1>2, StakerInv, SlashingInv, AdminInv, TickInv, MultisigInv, SettingsTyped
     DEF Next, VaultNext
<1> QED BY <1>1, <1>2

(* The inductive invariant holds of every reachable state. *)
THEOREM VaultInvariant == Spec => []IInv
<1>1. Init => IInv
  BY InitInv
<1>2. IInv /\ [Next]_vars => IInv'
  BY NextInv
<1> QED BY <1>1, <1>2, PTL DEF Spec

(* TypeOK: no amount, total or counter the contract stores ever goes       *)
(* negative, so none of its checked subtractions can fail.                 *)
THEOREM TypeCorrect == Spec => []TypeOK
<1>1. IInv => TypeOK
  BY DEF IInv
<1> QED BY <1>1, VaultInvariant, PTL

(* CustodyExact: every token in the vault is accounted for. *)
THEOREM CustodyIsExact == Spec => []CustodyExact
<1>1. IInv => CustodyExact
  BY DEF IInv
<1> QED BY <1>1, VaultInvariant, PTL

(* DelegationLedger: the total kept per provider is the sum of the         *)
(* delegations that do_slash rounds one by one.                            *)
THEOREM DelegationsAddUp == Spec => []DelegationLedger
<1>1. IInv => DelegationLedger
  BY DEF IInv
<1> QED BY <1>1, VaultInvariant, PTL

-----------------------------------------------------------------------------
(* With the appeal window never 0, nothing is burned while an appeal could  *)
(* still return it.                                                         *)
Disposed == SlashDisposition /\ BurnedNeverRestored

LEMMA SlashDisposed ==
  ASSUME IInv, Disposed, 0 \notin AppealWindows,
         NEW p \in Accounts, NEW severity \in Severities, NEW burns \in BOOLEAN,
         do_slash(p, severity, burns)
  PROVE  Disposed'
<1>1. /\ held \in [SlashIds -> Nat] /\ slashes \in Nat
      /\ slash \in [SlashIds -> [provider : 0..N, amount : Nat, at : Nat]]
      /\ cfg.appealWindow \in AppealWindows
  BY SizesAreNat DEF IInv, TypeOK, Settings
<1>2. cfg.appealWindow > 0
  <2>1. AppealWindows \subseteq Nat
    BY SettingsTyped
  <2>2. cfg.appealWindow \in Nat
    BY <1>1, <2>1
  <2>3. cfg.appealWindow # 0
    BY <1>1
  <2> QED BY <2>2, <2>3
<1>3. PICK amt : /\ slash' = [slash EXCEPT ![slashes + 1] =
                                [provider |-> p, amount |-> amt, at |-> now]]
                 /\ held' = [held EXCEPT ![slashes + 1] = amt]
  BY <1>2 DEF do_slash
<1>4. /\ slashes' = slashes + 1
      /\ UNCHANGED <<stranded, appeal, unbacked>>
  BY <1>2 DEF do_slash
<1>5. TypeOK'
  BY SlashInv DEF IInv
<1>6. ASSUME NEW i \in SlashIds
      PROVE  /\ i > slashes' => held'[i] = 0 /\ stranded'[i] = 0 /\ appeal'[i] = "None"
             /\ (i <= slashes' /\ appeal'[i] \in {"None", "Pending"}) =>
                    held'[i] + stranded'[i] = slash'[i].amount
             /\ appeal'[i] \in {"Upheld", "Reversed"} => held'[i] = 0
  <2>1. i \in Nat
    BY SizesAreNat DEF SlashIds
  <2>2. CASE i = slashes + 1
    <3>1. held'[i] = amt /\ slash'[i].amount = amt /\ held'[i] \in Nat
      BY <1>1, <1>3, <1>5, <2>2 DEF TypeOK
    <3>2. stranded'[i] = 0 /\ appeal'[i] = "None"
      BY <1>1, <1>4, <2>2 DEF Disposed, SlashDisposition
    <3> QED BY <1>1, <1>4, <2>2, <3>1, <3>2
  <2>3. CASE i # slashes + 1
    <3>1. held'[i] = held[i] /\ slash'[i] = slash[i]
      BY <1>1, <1>3, <2>3
    <3>2. (i > slashes' => i > slashes) /\ (i <= slashes' => i <= slashes)
      BY <1>1, <1>4, <2>1, <2>3
    <3> QED BY <1>4, <3>1, <3>2 DEF Disposed, SlashDisposition
  <2> QED BY <2>2, <2>3
<1>7. SlashDisposition'
  BY <1>6 DEF SlashDisposition
<1>8. BurnedNeverRestored'
  BY <1>4 DEF Disposed, BurnedNeverRestored
<1> QED BY <1>7, <1>8 DEF Disposed

LEMMA UpholdDisposed ==
  ASSUME IInv, Disposed, NEW id \in SlashIds, NEW burns \in BOOLEAN,
         UpholdSlash(id, burns)
  PROVE  Disposed'
<1>1. /\ held \in [SlashIds -> Nat] /\ stranded \in [SlashIds -> Nat]
      /\ appeal \in [SlashIds -> AppealStatuses]
  BY DEF IInv, TypeOK
<1>2. /\ held' = [held EXCEPT ![id] = 0] /\ id <= slashes /\ appeal[id] = "Pending"
      /\ \/ /\ appeal' = [appeal EXCEPT ![id] = "Upheld"]
            /\ stranded' = stranded
         \/ /\ stranded' = [stranded EXCEPT ![id] = stranded[id] + held[id]]
            /\ appeal' = appeal
      /\ UNCHANGED <<slashes, slash, unbacked>>
  BY DEF UpholdSlash
<1>3. ASSUME NEW i \in SlashIds
      PROVE  /\ i > slashes' => held'[i] = 0 /\ stranded'[i] = 0 /\ appeal'[i] = "None"
             /\ (i <= slashes' /\ appeal'[i] \in {"None", "Pending"}) =>
                    held'[i] + stranded'[i] = slash'[i].amount
             /\ appeal'[i] \in {"Upheld", "Reversed"} => held'[i] = 0
  <2>1. CASE i = id
    <3>1. ~(id > slashes)
      BY <1>2, SizesAreNat DEF SlashIds, IInv, TypeOK
    <3>2. held[id] + stranded[id] = slash[id].amount
      BY <1>2 DEF Disposed, SlashDisposition
    <3> QED BY <1>1, <1>2, <2>1, <3>1, <3>2
  <2>2. CASE i # id
    <3>1. held'[i] = held[i] /\ stranded'[i] = stranded[i] /\ appeal'[i] = appeal[i]
      BY <1>1, <1>2, <2>2
    <3> QED BY <1>2, <3>1 DEF Disposed, SlashDisposition
  <2> QED BY <2>1, <2>2
<1> QED BY <1>2, <1>3 DEF Disposed, SlashDisposition, BurnedNeverRestored

LEMMA ReverseDisposed ==
  ASSUME IInv, Disposed, NEW id \in SlashIds, ReverseSlash(id)
  PROVE  Disposed'
<1>1. /\ held \in [SlashIds -> Nat] /\ stranded \in [SlashIds -> Nat]
      /\ unbacked \in [SlashIds -> Nat]
      /\ appeal \in [SlashIds -> AppealStatuses]
      /\ slash \in [SlashIds -> [provider : 0..N, amount : Nat, at : Nat]]
  BY DEF IInv, TypeOK
<1>2. /\ held' = [held EXCEPT ![id] = 0] /\ id <= slashes /\ appeal[id] = "Pending"
      /\ appeal' = [appeal EXCEPT ![id] = "Reversed"]
      /\ stranded' = [stranded EXCEPT ![id] = IF held[id] > 0 THEN stranded[id] ELSE 0]
      /\ unbacked' = [unbacked EXCEPT ![id] =
                          IF held[id] > 0 THEN unbacked[id]
                          ELSE unbacked[id] + slash[id].amount - stranded[id]]
      /\ UNCHANGED <<slashes, slash>>
  BY DEF ReverseSlash
<1>3. held[id] + stranded[id] = slash[id].amount /\ unbacked[id] = 0
  BY <1>2 DEF Disposed, SlashDisposition, BurnedNeverRestored
<1>4. ASSUME NEW i \in SlashIds
      PROVE  /\ i > slashes' => held'[i] = 0 /\ stranded'[i] = 0 /\ appeal'[i] = "None"
             /\ (i <= slashes' /\ appeal'[i] \in {"None", "Pending"}) =>
                    held'[i] + stranded'[i] = slash'[i].amount
             /\ appeal'[i] \in {"Upheld", "Reversed"} => held'[i] = 0
  <2>1. CASE i = id
    <3>1. ~(id > slashes)
      BY <1>2, SizesAreNat DEF SlashIds, IInv, TypeOK
    <3> QED BY <1>1, <1>2, <2>1, <3>1
  <2>2. CASE i # id
    <3>1. held'[i] = held[i] /\ stranded'[i] = stranded[i] /\ appeal'[i] = appeal[i]
      BY <1>1, <1>2, <2>2
    <3> QED BY <1>2, <3>1 DEF Disposed, SlashDisposition
  <2> QED BY <2>1, <2>2
<1>5. SlashDisposition'
  BY <1>4 DEF SlashDisposition
<1>6. ASSUME NEW i \in SlashIds PROVE unbacked'[i] = 0
  <2>1. unbacked[i] = 0
    BY DEF Disposed, BurnedNeverRestored
  <2>2. CASE i = id
    <3>1. held[id] \in Nat /\ stranded[id] \in Nat /\ slash[id].amount \in Nat
      BY <1>1
    <3>2. held[id] > 0 \/ unbacked[id] + slash[id].amount - stranded[id] = 0
      BY <1>3, <3>1
    <3> QED BY <1>1, <1>2, <1>3, <2>2, <3>2
  <2>3. CASE i # id
    BY <1>1, <1>2, <2>1, <2>3
  <2> QED BY <2>2, <2>3
<1>7. BurnedNeverRestored'
  BY <1>6 DEF BurnedNeverRestored
<1> QED BY <1>5, <1>7 DEF Disposed

LEMMA AppealDisposed ==
  ASSUME IInv, Disposed, NEW a \in Accounts, NEW id \in SlashIds,
         appeal_slash(a, id)
  PROVE  Disposed'
<1>1. appeal \in [SlashIds -> AppealStatuses] /\ slashes \in Nat /\ id \in Nat
  BY SizesAreNat DEF IInv, TypeOK, SlashIds
<1>2. /\ id <= slashes /\ appeal[id] = "None"
      /\ appeal' = [appeal EXCEPT ![id] = "Pending"]
      /\ UNCHANGED <<slashes, slash, held, stranded, unbacked>>
  BY DEF appeal_slash, MayAppeal
<1>3. ASSUME NEW i \in SlashIds
      PROVE  \/ appeal'[i] = appeal[i]
             \/ i <= slashes /\ ~(i > slashes) /\ appeal[i] = "None" /\ appeal'[i] = "Pending"
  BY <1>1, <1>2
<1> QED BY <1>2, <1>3 DEF Disposed, SlashDisposition, BurnedNeverRestored

LEMMA NextDisposed ==
  ASSUME IInv, Disposed, 0 \notin AppealWindows, [Next]_vars
  PROVE  Disposed'
<1>1. ASSUME UNCHANGED slashVars PROVE Disposed'
  BY <1>1 DEF slashVars, Disposed, SlashDisposition, BurnedNeverRestored
<1>2. CASE StakerNext
  <2>1. UNCHANGED slashVars
    BY <1>2 DEF StakerNext, deposit_stake, partial_unstake, withdraw_stake, Leave,
                delegate_stake, request_withdrawal, release_provider_lockup,
                sync_index_stake
  <2> QED BY <1>1, <2>1
<1>3. CASE SlashNext
  <2>1. ASSUME NEW id \in SlashIds, NEW uphold \in BOOLEAN, NEW burns \in BOOLEAN,
               do_resolve_appeal(id, uphold, burns)
        PROVE  Disposed'
    BY <2>1, UpholdDisposed, ReverseDisposed DEF do_resolve_appeal
  <2>2. ASSUME NEW p \in Accounts, NEW severity \in Severities,
               slash_stake(p, severity)
        PROVE  Disposed'
    BY <2>2, SlashDisposed DEF slash_stake
  <2>3. ASSUME NEW p \in Accounts, NEW severity \in Severities,
               NEW burns \in BOOLEAN, batch_slash_stake(p, severity, burns)
        PROVE  Disposed'
    BY <2>3, SlashDisposed DEF batch_slash_stake
  <2>4. ASSUME NEW id \in SlashIds, NEW uphold \in BOOLEAN, resolve_appeal(id, uphold)
        PROVE  Disposed'
    BY <2>1, <2>4 DEF resolve_appeal
  <2>5. ASSUME NEW id \in SlashIds, NEW uphold \in BOOLEAN, NEW burns \in BOOLEAN,
               batch_resolve_appeal(id, uphold, burns)
        PROVE  Disposed'
    BY <2>1, <2>5 DEF batch_resolve_appeal
  <2> QED BY <1>3, <2>2, <2>3, <2>4, <2>5, AppealDisposed DEF SlashNext
<1>4. CASE AdminNext
  <2>1. UNCHANGED slashVars
    BY <1>4 DEF AdminNext, pause, unpause, apply_governance_pause, SetPaused,
                set_minimum_stake, PutMinimumStake, set_minimum_stake_duration,
                PutMinimumStakeDuration, set_withdrawal_cooldown,
                PutWithdrawalCooldown, set_slash_cooldown,
                set_default_provider_lockup, set_appeal_window, PutAppealWindow,
                configure_slash_tiers, governance_configure_slash_tiers,
                PutSlashTiers, Set
  <2> QED BY <1>1, <2>1
<1>5. CASE Tick
  BY <1>1, <1>5 DEF Tick
<1>6. CASE \E b \in MultisigChoices : set_multisig_config(b)
  BY <1>1, <1>6 DEF set_multisig_config
<1>7. CASE UNCHANGED vars
  BY <1>1, <1>7 DEF vars
<1> QED BY <1>2, <1>3, <1>4, <1>5, <1>6, <1>7 DEF Next, VaultNext

LEMMA DisposedInvariant ==
  ASSUME 0 \notin AppealWindows
  PROVE  Spec => [](IInv /\ Disposed)
<1>1. Init => IInv /\ Disposed
  <2>1. Init => Disposed
    <3> SUFFICES ASSUME Init PROVE Disposed
      OBVIOUS
    <3>1. \A i \in SlashIds : i \in Nat /\ i > 0
      BY SizesAreNat DEF SlashIds
    <3> QED BY <3>1 DEF Init, Disposed, SlashDisposition, BurnedNeverRestored
  <2> QED BY <2>1, InitInv
<1>2. IInv /\ Disposed /\ [Next]_vars => IInv' /\ Disposed'
  BY NextInv, NextDisposed
<1> QED BY <1>1, <1>2, PTL DEF Spec

-----------------------------------------------------------------------------
(* The reward index's total is the sum of what it recorded, so the check    *)
(* of on_stake_change never fails.                                          *)
LEMMA StakeChangeTotal ==
  ASSUME TypeOK, ParticipationTotal, NEW s \in Accounts, NEW v \in Nat,
         on_stake_change(s, v)
  PROVE  ParticipationTotal'
<1>1. /\ N \in Nat /\ userStake \in [1..N -> Int] /\ s \in 1..N
      /\ userStake[s] \in Int /\ v \in Int
  BY SizesAreNat DEF TypeOK, Accounts
<1>2. userStake' = [userStake EXCEPT ![s] = v]
  BY DEF on_stake_change
<1>3. Total(userStake', N) = Total(userStake, N) + (v - userStake[s])
  <2> DEFINE f == userStake
             h == userStake'
  <2>1. N \in Nat /\ f \in [1..N -> Int] /\ s \in 1..N /\ v \in Int
    BY <1>1
  <2>2. h \in [1..N -> Int] /\ h[s] = v /\ \A i \in 1..N : i # s => h[i] = f[i]
    BY <1>1, <1>2
  <2> HIDE DEF f, h
  <2>3. Total(h, N) = Total(f, N) + h[s] - f[s]
    BY <2>1, <2>2, TotalChange
  <2>4. Total(f, N) \in Int /\ f[s] \in Int
    BY <2>1, TotalInt
  <2>5. Total(h, N) = Total(f, N) + (v - f[s])
    BY <2>1, <2>2, <2>3, <2>4
  <2> QED BY <2>5 DEF f, h
<1>4. totalStake' = totalStake - userStake[s] + v
  BY DEF on_stake_change
<1>5. Total(userStake, N) \in Int
  BY <1>1, TotalInt
<1> QED BY <1>1, <1>3, <1>4, <1>5 DEF ParticipationTotal

LEMMA NextParticipation ==
  ASSUME IInv, ParticipationTotal, [Next]_vars
  PROVE  ParticipationTotal'
<1>1. ASSUME UNCHANGED indexVars PROVE ParticipationTotal'
  BY <1>1 DEF indexVars, ParticipationTotal
<1>2. CASE StakerNext
  <2>1. ASSUME NEW s \in Accounts, NEW amount \in Amounts,
               deposit_stake(s, amount)
        PROVE  ParticipationTotal'
    <3>1. balance[s] + amount \in Nat
      BY AmountsArePositive DEF IInv, TypeOK
    <3> QED BY <2>1, <3>1, StakeChangeTotal DEF IInv, deposit_stake
  <2>2. ASSUME NEW s \in Accounts, NEW amount \in Amounts,
               partial_unstake(s, amount)
        PROVE  ParticipationTotal'
    <3>1. balance[s] - amount \in Nat
      BY <2>2, AmountsArePositive DEF IInv, TypeOK, partial_unstake
    <3> QED BY <2>2, <3>1, StakeChangeTotal DEF IInv, partial_unstake, Leave
  <2>3. ASSUME NEW s \in Accounts, withdraw_stake(s)
        PROVE  ParticipationTotal'
    <3>1. balance[s] - balance[s] \in Nat
      BY DEF IInv, TypeOK
    <3> QED BY <2>3, <3>1, StakeChangeTotal DEF IInv, withdraw_stake, Leave
  <2>4. ASSUME NEW s \in Accounts, sync_index_stake(s)
        PROVE  ParticipationTotal'
    <3>1. balance[s] \in Nat
      BY DEF IInv, TypeOK
    <3> QED BY <2>4, <3>1, StakeChangeTotal DEF IInv, sync_index_stake
  <2>5. ASSUME NEW s \in Accounts, NEW p \in Accounts, NEW amount \in Amounts,
               delegate_stake(s, p, amount)
        PROVE  ParticipationTotal'
    BY <1>1, <2>5 DEF delegate_stake
  <2>6. ASSUME NEW s \in Accounts,
               request_withdrawal(s) \/ release_provider_lockup(s)
        PROVE  ParticipationTotal'
    BY <1>1, <2>6 DEF request_withdrawal, release_provider_lockup
  <2> QED BY <1>2, <2>1, <2>2, <2>3, <2>4, <2>5, <2>6 DEF StakerNext
<1>3. CASE SlashNext
  <2>1. ASSUME NEW p, NEW severity, NEW burns, do_slash(p, severity, burns)
        PROVE  UNCHANGED indexVars
    BY <2>1 DEF do_slash
  <2>2. ASSUME NEW id, NEW uphold, NEW burns, do_resolve_appeal(id, uphold, burns)
        PROVE  UNCHANGED indexVars
    BY <2>2 DEF do_resolve_appeal, UpholdSlash, ReverseSlash
  <2>3. ASSUME NEW appellant, NEW id, appeal_slash(appellant, id)
        PROVE  UNCHANGED indexVars
    BY <2>3 DEF appeal_slash
  <2>4. UNCHANGED indexVars
    BY <1>3, <2>1, <2>2, <2>3, Zenon DEF SlashNext, slash_stake, batch_slash_stake,
       resolve_appeal, batch_resolve_appeal
  <2> QED BY <1>1, <2>4
<1>4. CASE AdminNext
  <2>1. UNCHANGED indexVars
    BY <1>4 DEF AdminNext, pause, unpause, apply_governance_pause, SetPaused,
                set_minimum_stake, PutMinimumStake, set_minimum_stake_duration,
                PutMinimumStakeDuration, set_withdrawal_cooldown,
                PutWithdrawalCooldown, set_slash_cooldown,
                set_default_provider_lockup, set_appeal_window, PutAppealWindow,
                configure_slash_tiers, governance_configure_slash_tiers,
                PutSlashTiers, Set
  <2> QED BY <1>1, <2>1
<1>5. CASE Tick
  BY <1>1, <1>5 DEF Tick
<1>6. CASE \E b \in MultisigChoices : set_multisig_config(b)
  BY <1>1, <1>6 DEF set_multisig_config
<1>7. CASE UNCHANGED vars
  BY <1>1, <1>7 DEF vars
<1> QED BY <1>2, <1>3, <1>4, <1>5, <1>6, <1>7 DEF Next, VaultNext

(* ParticipationTotal: deposits, withdrawals and syncs keep the divisor of  *)
(* every reward equal to the sum of the participating stakes.               *)
THEOREM ParticipationAddsUp == Spec => []ParticipationTotal
<1>1. Init => IInv /\ ParticipationTotal
  <2>1. Init => ParticipationTotal
    BY SizesAreNat, TotalZero DEF Init, ParticipationTotal, Accounts
  <2> QED BY <2>1, InitInv
<1>2. IInv /\ ParticipationTotal /\ [Next]_vars => IInv' /\ ParticipationTotal'
  BY NextInv, NextParticipation
<1> QED BY <1>1, <1>2, PTL DEF Spec

-----------------------------------------------------------------------------
(* SlashDisposition: while a slash is undecided its whole amount is still   *)
(* in custody, and a decided one holds nothing.                             *)
THEOREM UndecidedSlashIsWhole ==
  ASSUME 0 \notin AppealWindows
  PROVE  Spec => []SlashDisposition
<1>1. IInv /\ Disposed => SlashDisposition
  BY DEF Disposed
<1> QED BY <1>1, DisposedInvariant, PTL

(* Solvency: the vault can pay every own stake, every delegation and every  *)
(* held slash at once.                                                      *)
THEOREM VaultIsSolvent ==
  ASSUME 0 \notin AppealWindows
  PROVE  Spec => []Solvency
<1>1. IInv /\ Disposed => Solvency
  <2> SUFFICES ASSUME IInv, Disposed PROVE Solvency
    OBVIOUS
  <2>1. MaxSlashes \in Nat /\ stranded \in [1..MaxSlashes -> Nat]
    BY SizesAreNat DEF IInv, TypeOK, SlashIds
  <2>2. Total(stranded, MaxSlashes) \in Nat
    BY <2>1, TotalNat
  <2>3. unbacked = [i \in 1..MaxSlashes |-> 0]
    BY DEF IInv, TypeOK, Disposed, BurnedNeverRestored, SlashIds
  <2>4. Total(unbacked, MaxSlashes) = 0
    BY <2>1, <2>3, TotalZero
  <2>5. /\ Total(balance, N) \in Int /\ Total(totalDelegated, N) \in Int
        /\ Total(held, MaxSlashes) \in Int /\ vault \in Int
    <3>1. TypeOK
      BY DEF IInv
    <3>2. vault \in Int
      BY <3>1 DEF TypeOK
    <3> QED BY <3>1, <3>2, Tables
  <2>6. vault + 0 = Total(balance, N) + Total(totalDelegated, N)
                      + Total(held, MaxSlashes) + Total(stranded, MaxSlashes)
    BY <2>4 DEF IInv, CustodyExact, Liabilities
  <2>7. vault >= Total(balance, N) + Total(totalDelegated, N)
                   + Total(held, MaxSlashes)
    BY <2>2, <2>5, <2>6
  <2> QED BY <2>7 DEF Solvency, Liabilities
<1> QED BY <1>1, DisposedInvariant, PTL

-----------------------------------------------------------------------------
(* A step that changes neither stakes, delegations, slashes nor tokens. *)
LEMMA VaultStutter ==
  ASSUME IInv, UNCHANGED vars
  PROVE  IInv'
BY NextInv

-----------------------------------------------------------------------------
(* The unstake queue.                                                       *)

(* The tables of the queue have their types; tickets are not issued twice. *)
QueueTypeOK ==
    /\ head \in Nat /\ tail \in 0..MaxTickets
    /\ entry \in [Tickets -> Accounts \cup {0}]
    /\ userTicket \in [Accounts -> 0..MaxTickets]
    /\ maxQueueSize \in Nat

QueueInv == IInv /\ QueueTypeOK /\ QueueMatchesTickets

LEMMA QueueInitInv == QueueInit => QueueInv
<1> SUFFICES ASSUME QueueInit PROVE QueueInv
  OBVIOUS
<1>1. IInv
  BY InitInv DEF QueueInit
<1>2. QueueTypeOK /\ QueueMatchesTickets
  BY QueueTyped DEF QueueInit, QueueTypeOK, QueueMatchesTickets, Tickets
<1> QED BY <1>1, <1>2 DEF QueueInv

(* Taking the request at the head off the queue. *)
LEMMA DequeueMatches ==
  ASSUME QueueTypeOK, QueueMatchesTickets, head < tail, Dequeue(entry[head])
  PROVE  QueueTypeOK' /\ QueueMatchesTickets'
<1> DEFINE s == entry[head]
<1>0. /\ MaxTickets \in Nat /\ head \in Tickets /\ head \in head..(tail - 1)
      /\ s \in Accounts /\ userTicket[s] = head + 1
  BY QueueTyped DEF QueueTypeOK, QueueMatchesTickets, Tickets
<1>1. QueueTypeOK'
  BY <1>0 DEF QueueTypeOK, Dequeue, Tickets
<1>2. QueueMatchesTickets'
  <2>1. head' <= tail'
    BY <1>0 DEF QueueTypeOK, Dequeue
  <2>2. ASSUME NEW t \in Tickets
        PROVE  IF t \in head'..(tail' - 1)
               THEN entry'[t] \in Accounts /\ userTicket'[entry'[t]] = t + 1
               ELSE entry'[t] = 0
    <3>1. CASE t = head
      BY <1>0, <3>1 DEF QueueTypeOK, Dequeue, Tickets
    <3>2. CASE t # head
      BY <1>0, <3>2 DEF QueueTypeOK, QueueMatchesTickets, Dequeue, Tickets
    <3> QED BY <3>1, <3>2
  <2>3. ASSUME NEW a \in Accounts, userTicket'[a] # 0
        PROVE  entry'[userTicket'[a] - 1] = a
    <3>1. a # s /\ userTicket'[a] = userTicket[a] /\ entry[userTicket[a] - 1] = a
      BY <1>0, <2>3 DEF QueueTypeOK, QueueMatchesTickets, Dequeue
    <3>2. userTicket[a] - 1 # head /\ userTicket[a] - 1 \in Tickets
      BY <1>0, <3>1, <2>3 DEF QueueTypeOK, Tickets
    <3> QED BY <1>0, <3>1, <3>2 DEF QueueTypeOK, Dequeue
  <2> QED BY <2>1, <2>2, <2>3 DEF QueueMatchesTickets
<1> QED BY <1>1, <1>2

(* queue_unstake *)
LEMMA QueueUnstakeMatches ==
  ASSUME QueueTypeOK, QueueMatchesTickets, NEW s \in Accounts, queue_unstake(s)
  PROVE  QueueTypeOK' /\ QueueMatchesTickets'
<1>0. /\ MaxTickets \in Nat /\ tail \in Tickets /\ userTicket[s] = 0
      /\ head \in Nat /\ tail \in Nat /\ head <= tail
  BY QueueTyped DEF QueueTypeOK, QueueMatchesTickets, Tickets, queue_unstake, MayQueue
<1>1. QueueTypeOK'
  BY <1>0 DEF QueueTypeOK, queue_unstake, Tickets
<1>2. QueueMatchesTickets'
  <2>1. head' <= tail'
    BY <1>0 DEF queue_unstake
  <2>2. ASSUME NEW t \in Tickets
        PROVE  IF t \in head'..(tail' - 1)
               THEN entry'[t] \in Accounts /\ userTicket'[entry'[t]] = t + 1
               ELSE entry'[t] = 0
    <3>1. CASE t = tail
      BY <1>0, <3>1 DEF QueueTypeOK, queue_unstake, Tickets
    <3>2. CASE t # tail
      <4>1. /\ entry'[t] = entry[t]
            /\ t \in head'..(tail' - 1) <=> t \in head..(tail - 1)
        BY <1>0, <3>2 DEF QueueTypeOK, queue_unstake, Tickets
      <4>2. t \in head..(tail - 1) => entry[t] # s
        BY <1>0 DEF QueueTypeOK, QueueMatchesTickets, Tickets
      <4> QED BY <1>0, <4>1, <4>2 DEF QueueTypeOK, QueueMatchesTickets, queue_unstake
    <3> QED BY <3>1, <3>2
  <2>3. ASSUME NEW a \in Accounts, userTicket'[a] # 0
        PROVE  entry'[userTicket'[a] - 1] = a
    <3>1. CASE a = s
      BY <1>0, <3>1 DEF QueueTypeOK, queue_unstake, Tickets
    <3>2. CASE a # s
      <4>1. userTicket'[a] = userTicket[a] /\ entry[userTicket[a] - 1] = a
        BY <2>3, <3>2 DEF QueueTypeOK, QueueMatchesTickets, queue_unstake
      <4>2. userTicket[a] - 1 \in Tickets /\ entry[tail] = 0 /\ a # 0
        BY <1>0, <2>3, <4>1 DEF QueueTypeOK, QueueMatchesTickets, Tickets, Accounts
      <4>3. userTicket[a] - 1 # tail
        BY <4>1, <4>2
      <4> QED BY <1>0, <4>1, <4>2, <4>3 DEF QueueTypeOK, queue_unstake
    <3> QED BY <3>1, <3>2
  <2> QED BY <2>1, <2>2, <2>3 DEF QueueMatchesTickets
<1> QED BY <1>1, <1>2

LEMMA QueueNextInv ==
  ASSUME QueueInv, [QueueNext]_queueAllVars
  PROVE  QueueInv'
<1> USE DEF QueueInv
<1>1. CASE Next /\ UNCHANGED queueVars
  <2>1. IInv'
    BY <1>1, NextInv
  <2>2. QueueTypeOK' /\ QueueMatchesTickets'
    BY <1>1 DEF queueVars, QueueTypeOK, QueueMatchesTickets
  <2> QED BY <2>1, <2>2
<1>2. ASSUME NEW s \in Accounts, queue_unstake(s)
      PROVE  QueueInv'
  BY <1>2, VaultStutter, QueueUnstakeMatches DEF queue_unstake
<1>3. CASE ProcessHead
  <2>1. /\ head < tail /\ Leave(entry[head], balance[entry[head]])
        /\ Dequeue(entry[head])
    BY <1>3 DEF ProcessHead
  <2>2. entry[head] \in Accounts
    BY <2>1, QueueTyped DEF QueueTypeOK, QueueMatchesTickets, Tickets
  <2>3. balance[entry[head]] \in Nat /\ balance[entry[head]] <= balance[entry[head]]
    BY <2>2 DEF IInv, TypeOK
  <2>4. IInv'
    BY <2>1, <2>2, <2>3, LeaveInv
  <2> QED BY <2>1, <2>4, DequeueMatches
<1>4. CASE ProcessBlocked
  <2>1. head < tail /\ entry[head] \in Accounts
    BY <1>4, QueueTyped DEF ProcessBlocked, QueueTypeOK, QueueMatchesTickets, Tickets
  <2>2. TypeOK'
    <3>1. lockupEnd' \in [Accounts -> Nat]
      BY <1>4, <2>1 DEF ProcessBlocked, IInv, TypeOK
    <3> QED BY <1>4, <3>1 DEF ProcessBlocked, IInv, TypeOK, clockVars, adminVars,
               delegationVars, indexVars, slashVars, tokenVars
  <2>3. IInv'
    BY <1>4, <2>2, LedgerFrame DEF ProcessBlocked
  <2>4. QueueTypeOK' /\ QueueMatchesTickets'
    BY <1>4 DEF ProcessBlocked, queueVars, QueueTypeOK, QueueMatchesTickets
  <2> QED BY <2>3, <2>4
<1>5. ASSUME NEW v \in QueueSizes, set_max_unstake_queue_size(v)
      PROVE  QueueInv'
  <2>1. QueueTypeOK' /\ QueueMatchesTickets'
    BY <1>5, QueueTyped
       DEF set_max_unstake_queue_size, QueueTypeOK, QueueMatchesTickets
  <2> QED BY <1>5, <2>1, VaultStutter DEF set_max_unstake_queue_size
<1>6. CASE UNCHANGED queueAllVars
  <2>1. QueueTypeOK' /\ QueueMatchesTickets'
    BY <1>6 DEF queueAllVars, queueVars, QueueTypeOK, QueueMatchesTickets
  <2> QED BY <1>6, <2>1, VaultStutter DEF queueAllVars
<1> QED BY <1>1, <1>2, <1>3, <1>4, <1>5, <1>6 DEF QueueNext, process_unstake_queue

LEMMA QueueInvariant == QueueSpec => []QueueInv
<1>1. QueueInit => QueueInv
  BY QueueInitInv
<1>2. QueueInv /\ [QueueNext]_queueAllVars => QueueInv'
  BY QueueNextInv
<1> QED BY <1>1, <1>2, PTL DEF QueueSpec

(* QueueMatchesTickets: queue_unstake and process_unstake_queue keep the   *)
(* slots and the per-user tickets in step, whatever withdrawals, slashes   *)
(* and setting changes come between.                                       *)
THEOREM QueueIsConsistent == QueueSpec => []QueueMatchesTickets
<1>1. QueueInv => QueueMatchesTickets
  BY DEF QueueInv
<1> QED BY <1>1, QueueInvariant, PTL

(* CustodyExact, with payouts through process_unstake_queue. *)
THEOREM QueueKeepsCustody == QueueSpec => []CustodyExact
<1>1. QueueInv => CustodyExact
  BY DEF QueueInv, IInv
<1> QED BY <1>1, QueueInvariant, PTL

LEMMA QueueStepPays ==
  ASSUME QueueInv, QueueNext
  PROVE  LeavesQueuePaid
<1> SUFFICES ASSUME NEW a \in Accounts, userTicket[a] # 0, userTicket'[a] = 0
             PROVE  /\ userTicket[a] = head + 1
                    /\ wallet'[a] = wallet[a] + balance[a]
                    /\ balance'[a] = 0
  BY DEF LeavesQueuePaid
<1>0. MaxTickets \in Nat /\ userTicket \in [Accounts -> 0..MaxTickets] /\ tail \in Nat
  BY QueueTyped DEF QueueInv, QueueTypeOK
<1>1. userTicket' # userTicket
  OBVIOUS
<1>2. ASSUME NEW s \in Accounts, queue_unstake(s)
      PROVE  FALSE
  BY <1>0, <1>2 DEF queue_unstake
<1>3. ASSUME ProcessHead
      PROVE  /\ userTicket[a] = head + 1
             /\ wallet'[a] = wallet[a] + balance[a]
             /\ balance'[a] = 0
  <2>1. /\ head < tail /\ Leave(entry[head], balance[entry[head]])
        /\ userTicket' = [userTicket EXCEPT ![entry[head]] = 0]
    BY <1>3 DEF ProcessHead, Dequeue
  <2>2. head \in Tickets /\ head \in head..(tail - 1)
    BY <2>1, QueueTyped DEF QueueInv, QueueTypeOK, Tickets
  <2>3. entry[head] \in Accounts /\ userTicket[entry[head]] = head + 1
    BY <2>2 DEF QueueInv, QueueMatchesTickets
  <2>4. a = entry[head]
    BY <1>0, <2>1, <2>3
  <2>5. /\ wallet \in [Accounts -> Nat] /\ balance \in [Accounts -> Nat]
        /\ wallet' = [wallet EXCEPT ![a] = @ + balance[a]]
        /\ balance' = [balance EXCEPT ![a] = @ - balance[a]]
    BY <2>1, <2>4 DEF Leave, PayOut, QueueInv, IInv, TypeOK
  <2> QED BY <2>3, <2>4, <2>5
<1> QED BY <1>1, <1>2, <1>3 DEF QueueNext, process_unstake_queue, ProcessBlocked,
           set_max_unstake_queue_size, queueVars

(* RequestsLeavePaid: whatever else happens to the vault, a request leaves *)
(* the queue at its head, and only by being paid in full: no path of       *)
(* process_unstake_queue drops one.                                        *)
THEOREM QueuePaysInOrder == QueueSpec => RequestsLeavePaid
<1>1. QueueInv /\ [QueueNext]_queueAllVars => [LeavesQueuePaid]_queueAllVars
  BY QueueStepPays
<1> QED BY <1>1, QueueInvariant, PTL DEF QueueSpec, RequestsLeavePaid

-----------------------------------------------------------------------------
(* Cooldowns and lockups of slashed providers.                              *)

Slashes == \E p \in Accounts, severity \in Severities, burns \in BOOLEAN :
    do_slash(p, severity, burns)
(* A step may end a lockup that has elapsed. *)
LockupsKept ==
    \/ lockupEnd' = lockupEnd
    \/ \E s \in Accounts : LockupReleased(s) /\ lockupEnd' = [lockupEnd EXCEPT ![s] = 0]
(* Only an account whose lockup has passed takes tokens out. *)
PaysReleased == \A a \in Accounts : wallet'[a] > wallet[a] => LockupReleased(a)
(* What a step that records no slash does to cooldowns and lockups. *)
RecordsNone ==
    /\ UNCHANGED <<lastSlash, slashes, slash>> /\ LockupsKept /\ PaysReleased
    /\ now' \in {now, now + 1}

LEMMA PayInOut ==
  ASSUME TypeOK, NEW s \in Accounts, NEW amount \in Nat
  PROVE  /\ PayIn(s, amount) => PaysReleased
         /\ PayOut(s, amount) /\ LockupReleased(s) => PaysReleased
<1>1. wallet \in [Accounts -> Nat]
  BY DEF TypeOK
<1> QED BY <1>1 DEF PayIn, PayOut, PaysReleased

LEMMA WalletKept ==
  ASSUME TypeOK, UNCHANGED wallet
  PROVE  PaysReleased
BY DEF TypeOK, PaysReleased

LEMMA StakerRecordsNone ==
  ASSUME TypeOK, StakerNext
  PROVE  RecordsNone
<1>1. PICK s \in Accounts :
        \/ \E amount \in Amounts :
            \/ deposit_stake(s, amount)
            \/ partial_unstake(s, amount)
            \/ \E p \in Accounts : delegate_stake(s, p, amount)
        \/ request_withdrawal(s)
        \/ withdraw_stake(s)
        \/ release_provider_lockup(s)
        \/ sync_index_stake(s)
  BY DEF StakerNext
<1> USE DEF RecordsNone
<1>2. ASSUME NEW amount \in Nat, Leave(s, amount) PROVE RecordsNone
  <2>1. PaysReleased
    BY <1>2, PayInOut DEF Leave, MayLeave
  <2>2. LockupsKept
    BY <1>2 DEF Leave, MayLeave, LockupsKept
  <2> QED BY <1>2, <2>1, <2>2 DEF Leave, clockVars, slashVars
<1>3. ASSUME NEW amount \in Amounts, deposit_stake(s, amount) PROVE RecordsNone
  <2>1. amount \in Nat
    BY AmountsArePositive
  <2>2. PaysReleased
    BY <1>3, <2>1, PayInOut DEF deposit_stake
  <2> QED BY <1>3, <2>2 DEF deposit_stake, slashVars, LockupsKept
<1>4. ASSUME NEW amount \in Amounts, NEW p \in Accounts, delegate_stake(s, p, amount)
      PROVE  RecordsNone
  <2>1. amount \in Nat
    BY AmountsArePositive
  <2>2. PaysReleased
    BY <1>4, <2>1, PayInOut DEF delegate_stake
  <2> QED BY <1>4, <2>2
          DEF delegate_stake, slashVars, clockVars, stakeVars, LockupsKept
<1>5. ASSUME NEW amount \in Amounts, partial_unstake(s, amount) PROVE RecordsNone
  <2>1. amount \in Nat
    BY AmountsArePositive
  <2> QED BY <1>2, <1>5, <2>1 DEF partial_unstake
<1>6. ASSUME withdraw_stake(s) PROVE RecordsNone
  <2>1. balance[s] \in Nat
    BY DEF TypeOK
  <2> QED BY <1>2, <1>6, <2>1 DEF withdraw_stake
<1>7. ASSUME request_withdrawal(s) \/ release_provider_lockup(s) \/ sync_index_stake(s)
      PROVE  RecordsNone
  <2>1. UNCHANGED wallet /\ UNCHANGED <<lastSlash, slashes, slash, now>>
    BY <1>7 DEF request_withdrawal, release_provider_lockup, sync_index_stake,
                tokenVars, slashVars, clockVars
  <2>2. LockupsKept
    BY <1>7 DEF request_withdrawal, release_provider_lockup, sync_index_stake,
                stakeVars, LockupsKept
  <2> QED BY <2>1, <2>2, WalletKept
<1> QED BY <1>1, <1>3, <1>4, <1>5, <1>6, <1>7

LEMMA AppealsRecordNone ==
  ASSUME TypeOK, NEW id \in SlashIds, NEW uphold \in BOOLEAN, NEW burns \in BOOLEAN,
         do_resolve_appeal(id, uphold, burns)
  PROVE  RecordsNone
<1>1. UNCHANGED wallet /\ UNCHANGED <<lastSlash, slashes, slash, now, lockupEnd>>
  BY DEF do_resolve_appeal, UpholdSlash, ReverseSlash, tokenVars, clockVars, stakeVars
<1> QED BY <1>1, WalletKept DEF RecordsNone, LockupsKept

LEMMA NextKinds ==
  ASSUME TypeOK, Next
  PROVE  Slashes \/ RecordsNone
<1>1. CASE StakerNext
  BY <1>1, StakerRecordsNone
<1>2. CASE SlashNext
  <2>1. ASSUME NEW id \in SlashIds, NEW appellant \in Accounts, appeal_slash(appellant, id)
        PROVE  RecordsNone
    BY <2>1, WalletKept DEF appeal_slash, tokenVars, clockVars, stakeVars,
       RecordsNone, LockupsKept
  <2>2. ASSUME NEW id \in SlashIds, NEW uphold \in BOOLEAN,
               resolve_appeal(id, uphold) \/ \E burns \in BOOLEAN : batch_resolve_appeal(id, uphold, burns)
        PROVE  RecordsNone
    BY <2>2, AppealsRecordNone DEF resolve_appeal, batch_resolve_appeal
  <2> QED BY <1>2, <2>1, <2>2 DEF SlashNext, slash_stake, batch_slash_stake, Slashes
<1>3. CASE AdminNext
  <2>1. UNCHANGED <<clockVars, stakeVars, slashVars, tokenVars>>
    BY <1>3 DEF AdminNext, pause, unpause, apply_governance_pause, SetPaused, Set,
       set_minimum_stake, PutMinimumStake, set_minimum_stake_duration,
       PutMinimumStakeDuration, set_withdrawal_cooldown, PutWithdrawalCooldown,
       set_slash_cooldown, set_default_provider_lockup, set_appeal_window,
       PutAppealWindow, configure_slash_tiers, governance_configure_slash_tiers,
       PutSlashTiers
  <2> QED BY <2>1, WalletKept DEF clockVars, stakeVars, slashVars, tokenVars,
             RecordsNone, LockupsKept
<1>4. CASE Tick
  BY <1>4, WalletKept DEF Tick, stakeVars, slashVars, tokenVars, RecordsNone, LockupsKept
<1>5. ASSUME NEW b \in MultisigChoices, set_multisig_config(b) PROVE RecordsNone
  BY <1>5, WalletKept DEF set_multisig_config, clockVars, stakeVars, slashVars,
     tokenVars, RecordsNone, LockupsKept
<1> QED BY <1>1, <1>2, <1>3, <1>4, <1>5 DEF Next, VaultNext

(* Slashes of one provider are as far apart as some cooldown the admin may *)
(* set, because LastSlashLedger is past every one of them.                 *)
SpacedInv ==
    /\ \A i \in 1..slashes : slash[i].at < lastSlash[slash[i].provider]
    /\ SlashesSpaced

LEMMA SpacedStep ==
  ASSUME IInv, SpacedInv, Slashes \/ UNCHANGED <<lastSlash, slashes, slash>>
  PROVE  SpacedInv'
<1>1. CASE UNCHANGED <<lastSlash, slashes, slash>>
  BY <1>1 DEF SpacedInv, SlashesSpaced
<1>2. CASE Slashes
  <2> PICK p \in Accounts, severity \in Severities, burns \in BOOLEAN :
        do_slash(p, severity, burns)
    BY <1>2 DEF Slashes
  <2> DEFINE id == slashes + 1
  <2>0. /\ MaxSlashes \in Nat /\ slashes \in 0..MaxSlashes /\ now \in Nat
        /\ slash \in [SlashIds -> [provider : 0..N, amount : Nat, at : Nat]]
        /\ lastSlash \in [Accounts -> Nat] /\ cfg.slashCooldown \in SlashCooldowns
        /\ SlashCooldowns \subseteq Nat
    BY SizesAreNat, SettingsTyped DEF IInv, TypeOK, Settings
  <2>1. id \in SlashIds /\ slashes' = id
    BY <2>0 DEF do_slash, SlashIds
  <2>2. /\ slash'[id].provider = p /\ slash'[id].at = now
        /\ \A i \in SlashIds : i # id => slash'[i] = slash[i]
    BY <2>0, <2>1 DEF do_slash
  <2>3. ~SlashCooldownActive(p)
    BY DEF do_slash
  <2>4. \A i \in 1..slashes :
          /\ i \in SlashIds /\ slash'[i] = slash[i]
          /\ slash[i].provider \in Accounts /\ slash[i].at \in Nat
          /\ slash[i].at < lastSlash[slash[i].provider]
    <3> TAKE i \in 1..slashes
    <3>1. i \in SlashIds /\ i # id /\ i <= slashes
      BY <2>0 DEF SlashIds
    <3>2. slash[i].at \in Nat /\ slash[i].provider \in Accounts
      BY <2>0, <3>1 DEF IInv, RecordsOK
    <3> QED BY <2>2, <3>1, <3>2 DEF SpacedInv
  <2>5. \A a \in Accounts : lastSlash'[a] = IF a = p THEN now + 1 ELSE lastSlash[a]
    <3>1. lastSlash' = [lastSlash EXCEPT ![p] = now + 1]
      BY DEF do_slash
    <3> QED BY <2>0, <3>1
  <2>6. \A i \in 1..slashes :
          /\ slash[i].at < now + 1 \/ slash[i].provider # p
          /\ slash[i].provider = p => now - slash[i].at >= cfg.slashCooldown
    <3> SUFFICES ASSUME NEW i \in 1..slashes, slash[i].provider = p
                 PROVE  slash[i].at < now + 1 /\ now - slash[i].at >= cfg.slashCooldown
      OBVIOUS
    <3>1. slash[i].at \in Nat /\ slash[i].at < lastSlash[p] /\ lastSlash[p] \in Nat
      BY <2>0, <2>4
    <3>2. cfg.slashCooldown \in Nat /\ now \in Nat
      BY <2>0
    <3>3. ~(now - (lastSlash[p] - 1) < cfg.slashCooldown)
      BY <2>3, <3>1 DEF SlashCooldownActive
    <3> QED BY <3>1, <3>2, <3>3
  <2>7. \A i \in 1..slashes' : i \in 1..slashes \/ i = id
    BY <2>0, <2>1
  <2>8. \A i \in 1..slashes' : slash'[i].at < lastSlash'[slash'[i].provider]
    BY <2>0, <2>2, <2>4, <2>5, <2>6, <2>7
  <2>9. ASSUME NEW i \in 1..slashes', NEW j \in 1..slashes', i < j,
               slash'[i].provider = slash'[j].provider
        PROVE  \E c \in SlashCooldowns : slash'[j].at - slash'[i].at >= c
    <3>1. i \in 1..slashes
      BY <2>0, <2>1, <2>7, <2>9
    <3>2. CASE j \in 1..slashes
      <4>1. slash[i].provider = slash[j].provider
        BY <2>4, <2>9, <3>1, <3>2
      <4>2. \E c \in SlashCooldowns : slash[j].at - slash[i].at >= c
        BY <2>9, <3>1, <3>2, <4>1 DEF SpacedInv, SlashesSpaced
      <4> QED BY <2>4, <3>1, <3>2, <4>2
    <3>3. CASE j = id
      BY <2>0, <2>2, <2>4, <2>6, <2>9, <3>1, <3>3
    <3> QED BY <2>7, <3>2, <3>3
  <2> QED BY <2>8, <2>9 DEF SpacedInv, SlashesSpaced
<1> QED BY <1>1, <1>2

(* SlashesSpaced: two slashes of one provider are a cooldown apart, by     *)
(* slash_stake or by batch_slash_stake, however the cooldown was changed   *)
(* in between.                                                             *)
THEOREM SlashesAreSpaced == Spec => []SlashesSpaced
<1>1. Init => SpacedInv
  BY DEF Init, SpacedInv, SlashesSpaced
<1>2. IInv /\ SpacedInv /\ [Next]_vars => SpacedInv'
  BY SpacedStep, NextKinds DEF IInv, RecordsNone, vars, slashVars
<1>3. SpacedInv => SlashesSpaced
  BY DEF SpacedInv
<1> QED BY <1>1, <1>2, <1>3, VaultInvariant, PTL DEF Spec

(* How do_slash moves the lockups. *)
LEMMA SlashLocks ==
  ASSUME IInv, Slashes
  PROVE  /\ UNCHANGED <<now, wallet>>
         /\ \A a \in Accounts : lockupEnd[a] >= now => lockupEnd'[a] >= lockupEnd[a]
<1> PICK p \in Accounts, severity \in Severities, burns \in BOOLEAN :
      do_slash(p, severity, burns)
  BY DEF Slashes
<1>1. /\ lockupEnd \in [Accounts -> Nat] /\ now \in Nat
      /\ cfg.lockup \in Nat
  BY SettingsTyped DEF IInv, TypeOK, Settings
<1>2. lockupEnd' = lockupEnd \/ lockupEnd' = lock_provider(p)
  BY DEF do_slash
<1>3. \A a \in Accounts : lockupEnd[a] >= now => lockupEnd'[a] >= lockupEnd[a]
  BY <1>1, <1>2 DEF lock_provider, Larger
<1> QED BY <1>3 DEF do_slash, clockVars

(* LockupNeverShortened: a lockup is extended by a later slash, and ends   *)
(* early on no path, whatever default the admin sets.                      *)
THEOREM LockupsOnlyGrow == Spec => [][LockupNeverShortened]_vars
<1>1. ASSUME IInv, Next
      PROVE  LockupNeverShortened
  <2>0. lockupEnd \in [Accounts -> Nat] /\ now \in Nat /\ now' \in Nat /\ lockupEnd' \in [Accounts -> Nat]
    BY <1>1, NextInv DEF IInv, TypeOK
  <2>1. CASE Slashes
    BY <1>1, <2>0, <2>1, SlashLocks DEF LockupNeverShortened
  <2>2. CASE RecordsNone
    BY <2>0, <2>2 DEF RecordsNone, LockupsKept, LockupReleased, LockupNeverShortened
  <2> QED BY <1>1, <2>1, <2>2, NextKinds DEF IInv
<1>2. IInv /\ [Next]_vars => [LockupNeverShortened]_vars
  BY <1>1
<1> QED BY <1>2, VaultInvariant, PTL DEF Spec

-----------------------------------------------------------------------------
(* Lockups and the emergency exit.                                          *)

(* Every slash on record locked its provider for a lockup the admin may    *)
(* set: that lockup has passed, or the provider is still locked by it.     *)
LocksCover ==
    \A id \in 1..slashes : \E l \in Lockups :
        \/ l = 0
        \/ now > slash[id].at + l
        \/ lockupEnd[slash[id].provider] >= slash[id].at + l

LEMMA SlashCovers ==
  ASSUME 0 \notin AppealWindows, IInv, LocksCover, Slashes
  PROVE  LocksCover'
<1> PICK p \in Accounts, severity \in Severities, burns \in BOOLEAN :
      do_slash(p, severity, burns)
  BY DEF Slashes
<1> DEFINE id == slashes + 1
<1>1. /\ lockupEnd \in [Accounts -> Nat] /\ now \in Nat /\ now' = now
      /\ cfg.lockup \in Lockups /\ cfg.lockup \in Nat /\ Lockups \subseteq Nat
      /\ cfg.appealWindow > 0
      /\ slashes \in Nat /\ slashes' = id /\ id \in SlashIds
      /\ slash \in [SlashIds -> [provider : 0..N, amount : Nat, at : Nat]]
  <2>1. cfg.appealWindow \in AppealWindows /\ cfg.appealWindow \in Nat
    BY SettingsTyped DEF IInv, TypeOK, Settings
  <2>2. slashes \in Nat /\ slashes' = id /\ id \in SlashIds
    BY SizesAreNat DEF do_slash, IInv, TypeOK, SlashIds
  <2>3. cfg.lockup \in Lockups
    BY DEF IInv, TypeOK, Settings
  <2>4. now' = now
    BY DEF do_slash, clockVars
  <2>5. cfg.appealWindow > 0
    BY <2>1
  <2>6. cfg.lockup \in Nat /\ Lockups \subseteq Nat
    BY <2>3, SettingsTyped
  <2>7. now \in Nat /\ lockupEnd \in [Accounts -> Nat]
        /\ slash \in [SlashIds -> [provider : 0..N, amount : Nat, at : Nat]]
    BY DEF IInv, TypeOK
  <2> QED BY <2>2, <2>3, <2>4, <2>5, <2>6, <2>7
<1>2. lockupEnd' = lock_provider(p)
  BY <1>1 DEF do_slash
<1>3. \A a \in Accounts : lockupEnd[a] >= now => lockupEnd'[a] >= lockupEnd[a]
  BY SlashLocks
<1>4. cfg.lockup = 0 \/ lockupEnd'[p] >= now + cfg.lockup
  BY <1>1, <1>2 DEF lock_provider, Larger
<1>5. /\ slash'[id].provider = p /\ slash'[id].at = now
      /\ \A i \in SlashIds : i # id => slash'[i] = slash[i]
  BY <1>1 DEF do_slash
<1>6. ASSUME NEW i \in 1..slashes
      PROVE  \E l \in Lockups : \/ l = 0
                                \/ now' > slash'[i].at + l
                                \/ lockupEnd'[slash'[i].provider] >= slash'[i].at + l
  <2>0. i \in SlashIds /\ i # id
    <3>1. slashes \in Nat /\ slashes < MaxSlashes /\ MaxSlashes \in Nat
      BY <1>1, SizesAreNat DEF SlashIds
    <3> HIDE DEF id
    <3>2. i \in 1..MaxSlashes /\ i # slashes + 1
      BY <3>1
    <3> QED BY <3>2 DEF SlashIds, id
  <2>1. i \in SlashIds /\ i # id /\ slash'[i] = slash[i]
    <3> HIDE DEF id
    <3> QED BY <1>5, <2>0
  <2>2. slash[i].at \in Nat /\ slash[i].provider \in Accounts
    BY <1>1, <2>1 DEF IInv, RecordsOK
  <2>3. PICK l \in Lockups : \/ l = 0
                             \/ now > slash[i].at + l
                             \/ lockupEnd[slash[i].provider] >= slash[i].at + l
    BY DEF LocksCover
  <2>4. \/ l = 0 \/ now > slash[i].at + l
        \/ lockupEnd'[slash[i].provider] >= slash[i].at + l
    <3> DEFINE q == slash[i].provider
    <3>1. /\ lockupEnd[q] \in Nat /\ l \in Nat /\ q \in Accounts
          /\ lockupEnd'[q] \in Nat
      BY <1>1, <1>2, <2>2 DEF lock_provider, Larger
    <3>2. lockupEnd[q] >= now => lockupEnd'[q] >= lockupEnd[q]
      BY <1>3, <2>2
    <3> HIDE DEF q
    <3>3. l = 0 \/ now > slash[i].at + l \/ lockupEnd[q] >= slash[i].at + l
      BY <2>3 DEF q
    <3>4. l = 0 \/ now > slash[i].at + l \/ lockupEnd'[q] >= slash[i].at + l
      BY <1>1, <2>2, <3>1, <3>2, <3>3
    <3> QED BY <3>4 DEF q
  <2> QED BY <1>1, <2>1, <2>4
<1>7. \A i \in 1..slashes' : i \in 1..slashes \/ i = id
  BY <1>1
<1> QED BY <1>1, <1>4, <1>5, <1>6, <1>7 DEF LocksCover

LEMMA NoSlashCovers ==
  ASSUME IInv, LocksCover, UNCHANGED <<slashes, slash>>, LockupsKept,
         now' \in {now, now + 1}
  PROVE  LocksCover'
<1> SUFFICES ASSUME NEW i \in 1..slashes
             PROVE  \E l \in Lockups : \/ l = 0
                                       \/ now' > slash[i].at + l
                                       \/ lockupEnd'[slash[i].provider] >= slash[i].at + l
  BY DEF LocksCover
<1> DEFINE q == slash[i].provider
           at == slash[i].at
<1>1. /\ lockupEnd \in [Accounts -> Nat] /\ now \in Nat /\ Lockups \subseteq Nat
      /\ at \in Nat /\ q \in Accounts
  BY SettingsTyped, SizesAreNat DEF IInv, TypeOK, RecordsOK, SlashIds
<1>2. PICK l \in Lockups : l = 0 \/ now > at + l \/ lockupEnd[q] >= at + l
  BY DEF LocksCover
<1>3. lockupEnd'[q] = lockupEnd[q] \/ now > lockupEnd[q]
  BY <1>1 DEF LockupsKept, LockupReleased
<1> HIDE DEF q, at
<1>4. l = 0 \/ now' > at + l \/ lockupEnd'[q] >= at + l
  <2>1. l \in Nat /\ lockupEnd[q] \in Nat
    BY <1>1
  <2> QED BY <1>1, <1>2, <1>3, <2>1
<1> QED BY <1>4 DEF q, at

(* A step by which only released accounts take tokens out pays no slashed  *)
(* provider inside its lockup.                                             *)
LEMMA ReleasedStaysIn ==
  ASSUME IInv, LocksCover, PaysReleased
  PROVE  SlashedProviderStaysIn
<1> SUFFICES ASSUME NEW a \in Accounts, wallet'[a] > wallet[a],
                    NEW i \in 1..slashes, slash[i].provider = a
             PROVE  \E l \in Lockups : l = 0 \/ now > slash[i].at + l
  BY DEF SlashedProviderStaysIn
<1>1. /\ lockupEnd[a] \in Nat /\ now \in Nat /\ Lockups \subseteq Nat
      /\ slash[i].at \in Nat
  <2>1. i \in SlashIds
    BY SizesAreNat DEF IInv, TypeOK, SlashIds
  <2> QED BY <2>1, SettingsTyped DEF IInv, TypeOK
<1>2. PICK l \in Lockups : \/ l = 0 \/ now > slash[i].at + l
                           \/ lockupEnd[a] >= slash[i].at + l
  BY DEF LocksCover
<1>3. now > lockupEnd[a]
  BY DEF PaysReleased, LockupReleased
<1>4. l = 0 \/ now > slash[i].at + l
  <2>1. l \in Nat
    BY <1>1
  <2> QED BY <1>1, <1>2, <1>3, <2>1
<1> QED BY <1>4

LEMMA VaultStepCovers ==
  ASSUME 0 \notin AppealWindows, IInv, LocksCover, [Next]_vars
  PROVE  LocksCover' /\ SlashedProviderStaysIn
<1>1. CASE Slashes
  <2>1. PaysReleased
    BY <1>1, SlashLocks, WalletKept DEF IInv
  <2> QED BY <1>1, <2>1, SlashCovers, ReleasedStaysIn
<1>2. CASE RecordsNone
  BY <1>2, NoSlashCovers, ReleasedStaysIn DEF RecordsNone
<1>3. CASE UNCHANGED vars
  <2>1. PaysReleased
    BY <1>3, WalletKept DEF IInv, vars, tokenVars
  <2>2. /\ UNCHANGED <<slashes, slash>> /\ LockupsKept /\ now' \in {now, now + 1}
    BY <1>3 DEF vars, slashVars, stakeVars, clockVars, LockupsKept
  <2> QED BY <2>1, <2>2, NoSlashCovers, ReleasedStaysIn
<1> QED BY <1>1, <1>2, <1>3, NextKinds DEF IInv

(* SlashedProviderStaysIn: with appeals enabled, no withdrawal, partial     *)
(* unstake or payout of any kind pays a provider inside the lockup a slash *)
(* set, although the admin may change the default and elapsed lockups are  *)
(* cleared by anyone.                                                      *)
THEOREM LockedWhileSlashed ==
  ASSUME 0 \notin AppealWindows
  PROVE  Spec => [][SlashedProviderStaysIn]_vars
<1>1. Init => LocksCover
  BY DEF Init, LocksCover
<1>2. IInv /\ LocksCover /\ [Next]_vars => LocksCover' /\ [SlashedProviderStaysIn]_vars
  BY VaultStepCovers
<1> QED BY <1>1, <1>2, VaultInvariant, PTL DEF Spec

(* The emergency exit pays the whole stake out of custody: the penalty is  *)
(* burned and the rest transferred.                                        *)
LEMMA EarlyUnstakeInv ==
  ASSUME IInv, NEW s \in Accounts, config.penalty \in Nat, execute_early_unstake(s)
  PROVE  IInv'
<1> USE DEF IInv
<1> DEFINE gross == balance[s]
           penalty == Smaller(apply_multiplier_bps(gross, config.penalty), gross)
<1>0. /\ s \in 1..N /\ N \in Nat /\ gross \in Nat /\ gross \in Int /\ -gross \in Int
      /\ balance \in [Accounts -> Nat]
  <2>1. balance \in [Accounts -> Nat]
    BY DEF TypeOK
  <2>2. gross \in Nat
    BY <2>1
  <2>3. s \in 1..N /\ N \in Nat
    BY SizesAreNat DEF Accounts
  <2> HIDE DEF gross
  <2> QED BY <2>1, <2>2, <2>3
<1>1. TypeOK'
  <2>1. gross - penalty \in Nat
    <3>1. apply_multiplier_bps(gross, config.penalty) \in Int
      <4>1. gross * config.penalty \in Int
        BY <1>0
      <4> QED BY <4>1 DEF apply_multiplier_bps, BPS_DENOMINATOR
    <3>2. penalty \in Int /\ penalty <= gross
      BY <1>0, <3>1 DEF Smaller
    <3> QED BY <1>0, <3>2
  <2> HIDE DEF penalty
  <2>2. wallet' \in [Accounts -> Nat] /\ vault' \in Nat
    <3>1. /\ wallet' = [wallet EXCEPT ![s] = @ + (gross - penalty)]
          /\ vault >= gross /\ vault' = vault - gross
      BY DEF execute_early_unstake, PayLessPenalty, penalty
    <3>2. wallet \in [Accounts -> Nat] /\ vault \in Nat
      BY DEF TypeOK
    <3> QED BY <1>0, <2>1, <3>1, <3>2
  <2>3. /\ balance' \in [Accounts -> Nat] /\ lockedUntil' \in [Accounts -> Nat]
        /\ lockupEnd' \in [Accounts -> Nat]
    BY DEF TypeOK, execute_early_unstake
  <2> QED BY <2>2, <2>3
          DEF TypeOK, execute_early_unstake, clockVars, adminVars, delegationVars,
              indexVars, slashVars
<1>2. DelegationLedger' /\ RecordsOK'
  BY DEF DelegationLedger, RecordsOK, execute_early_unstake, delegationVars, slashVars
<1>3. CustodyExact'
  <2>1. balance' = [balance EXCEPT ![s] = 0] /\ 0 \in Int
    BY DEF execute_early_unstake
  <2>2. Total(balance', N) = Total(balance, N) + (0 - gross)
    BY <2>1, PutTotals
  <2>3. Total(balance', N) = Total(balance, N) + (-gross)
    BY <1>0, <2>2
  <2>4. vault' = vault + (-gross)
    BY <1>0 DEF execute_early_unstake, PayLessPenalty, TypeOK
  <2>5. UNCHANGED <<totalDelegated, held, stranded, unbacked>>
    BY DEF execute_early_unstake, delegationVars, slashVars
  <2>6. (-gross) + 0 = (-gross) + 0 + 0 + 0
    BY <1>0
  <2> HIDE DEF gross
  <2> QED BY <1>0, <2>3, <2>4, <2>5, <2>6, SameTotals, CustodyStep
<1> QED BY <1>1, <1>2, <1>3

(* A pending request was filed outside the cooldown of the last exit, and  *)
(* time only takes it further from it.                                     *)
FiledOutsideCooldown ==
    \A s \in Accounts :
        /\ lastUnstakeAt[s] <= now
        /\ (request[s] # NoRequest /\ lastUnstakeAt[s] # 0) =>
               \E c \in EmergencyCooldowns : now - lastUnstakeAt[s] >= c

ExitTypeOK ==
    /\ config \in EmergencyConfigs \cup {NoConfig}
    /\ cooldown \in EmergencyCooldowns
    /\ request \in [Accounts -> [at : Nat, approvals : SUBSET Signers]]
    /\ lastUnstakeAt \in [Accounts -> Nat]

ExitInv == IInv /\ ExitTypeOK /\ FiledOutsideCooldown

LEMMA ExitInitInv == EmergencyInit => ExitInv
<1> SUFFICES ASSUME EmergencyInit PROVE ExitInv
  OBVIOUS
<1>1. IInv
  BY InitInv DEF EmergencyInit
<1>2. ExitTypeOK
  BY DEF EmergencyInit, ExitTypeOK, NoRequest
<1>3. FiledOutsideCooldown
  BY DEF EmergencyInit, Init, FiledOutsideCooldown
<1> QED BY <1>1, <1>2, <1>3 DEF ExitInv

(* Nothing but the clock moves what FiledOutsideCooldown looks at. *)
LEMMA FiledLater ==
  ASSUME EmergencyTyped, ExitInv, UNCHANGED <<request, lastUnstakeAt>>,
         now' \in {now, now + 1}
  PROVE  FiledOutsideCooldown'
<1>1. /\ lastUnstakeAt \in [Accounts -> Nat] /\ now \in Nat
      /\ EmergencyCooldowns \subseteq Nat
  BY DEF ExitInv, ExitTypeOK, IInv, TypeOK, EmergencyTyped
<1> SUFFICES ASSUME NEW s \in Accounts
             PROVE  /\ lastUnstakeAt[s] <= now'
                    /\ (request[s] # NoRequest /\ lastUnstakeAt[s] # 0) =>
                         \E c \in EmergencyCooldowns : now' - lastUnstakeAt[s] >= c
  BY DEF FiledOutsideCooldown
<1>2. lastUnstakeAt[s] <= now'
  BY <1>1 DEF ExitInv, FiledOutsideCooldown
<1>3. ASSUME request[s] # NoRequest, lastUnstakeAt[s] # 0
      PROVE  \E c \in EmergencyCooldowns : now' - lastUnstakeAt[s] >= c
  <2>1. PICK c \in EmergencyCooldowns : now - lastUnstakeAt[s] >= c
    BY <1>3 DEF ExitInv, FiledOutsideCooldown
  <2>2. now' - lastUnstakeAt[s] >= c
    BY <1>1, <2>1
  <2> QED BY <2>2
<1> QED BY <1>2, <1>3

(* The clock moves by at most one ledger in a step of the vault. *)
LEMMA ClockSteps ==
  ASSUME IInv, [Next]_vars
  PROVE  now' \in {now, now + 1}
<1>1. CASE Next
  BY <1>1, NextKinds, SlashLocks DEF IInv, RecordsNone
<1>2. CASE UNCHANGED vars
  BY <1>2 DEF vars, clockVars
<1> QED BY <1>1, <1>2

(* A step of the exit: it files or clears requests, or pays one out. *)
LEMMA ExitNextInv ==
  ASSUME EmergencyTyped, ExitInv, [EmergencyNext]_exitAllVars
  PROVE  ExitInv'
<1>0. /\ IInv /\ ExitTypeOK /\ FiledOutsideCooldown /\ now \in Nat
      /\ EmergencyCooldowns \subseteq Nat /\ lastUnstakeAt \in [Accounts -> Nat]
  BY DEF ExitInv, IInv, TypeOK, EmergencyTyped, ExitTypeOK
<1>1. CASE [Next]_vars /\ UNCHANGED emergencyVars
  <2>1. IInv'
    BY <1>0, <1>1, NextInv
  <2>2. ExitTypeOK'
    BY <1>0, <1>1 DEF ExitTypeOK, emergencyVars
  <2>3. FiledOutsideCooldown'
    BY <1>0, <1>1, FiledLater, ClockSteps DEF emergencyVars
  <2> QED BY <2>1, <2>2, <2>3 DEF ExitInv
<1>2. ASSUME UNCHANGED <<vars, request, lastUnstakeAt>>, ExitTypeOK' PROVE ExitInv'
  <2>1. now' = now
    BY <1>2 DEF vars, clockVars
  <2> QED BY <1>0, <1>2, <2>1, VaultStutter, FiledLater DEF ExitInv
<1>3. ASSUME NEW c \in EmergencyConfigs, configure_emergency_multisig(c) PROVE ExitInv'
  BY <1>0, <1>2, <1>3 DEF configure_emergency_multisig, ExitTypeOK
<1>4. ASSUME NEW v \in EmergencyCooldowns, set_emergency_cooldown(v) PROVE ExitInv'
  BY <1>0, <1>2, <1>4 DEF set_emergency_cooldown, ExitTypeOK
<1>5. ASSUME NEW s \in Accounts, request_emergency_unstake(s) PROVE ExitInv'
  <2>1. UNCHANGED <<vars, config, cooldown, lastUnstakeAt>> /\ now' = now
    BY <1>5 DEF request_emergency_unstake, vars, clockVars
  <2>2. request' = [request EXCEPT ![s] = [at |-> now, approvals |-> {}]]
    BY <1>5 DEF request_emergency_unstake
  <2>3. ExitTypeOK'
    BY <1>0, <2>1, <2>2 DEF ExitTypeOK
  <2>4. lastUnstakeAt[s] # 0 => \E c \in EmergencyCooldowns : now - lastUnstakeAt[s] >= c
    <3> SUFFICES ASSUME lastUnstakeAt[s] # 0
                 PROVE  now - lastUnstakeAt[s] >= cooldown /\ cooldown \in EmergencyCooldowns
      OBVIOUS
    <3>1. /\ cooldown \in EmergencyCooldowns /\ cooldown \in Nat
          /\ lastUnstakeAt[s] \in Nat /\ lastUnstakeAt[s] <= now
      BY <1>0 DEF ExitTypeOK, FiledOutsideCooldown
    <3>2. cooldown = 0 \/ ~(now < lastUnstakeAt[s] + cooldown)
      BY <1>5 DEF request_emergency_unstake, CoolingDown
    <3> QED BY <1>0, <3>1, <3>2
  <2>5. \A a \in Accounts : a # s => request'[a] = request[a]
    BY <1>0, <2>2 DEF ExitTypeOK
  <2>6. FiledOutsideCooldown'
    BY <1>0, <2>1, <2>4, <2>5 DEF FiledOutsideCooldown
  <2> QED BY <1>0, <2>1, <2>3, <2>6, VaultStutter DEF ExitInv
<1>6. ASSUME NEW s \in Accounts, NEW signer \in Signers, approve_emergency_unstake(signer, s)
      PROVE  ExitInv'
  <2>1. CASE /\ UNCHANGED <<vars, lastUnstakeAt, config, cooldown>>
             /\ request' = [request EXCEPT ![s].approvals = request[s].approvals \cup {signer}]
    <3>1. ExitTypeOK'
      BY <1>0, <2>1 DEF ExitTypeOK
    <3>2. request[s] # NoRequest /\ now' = now
      BY <1>6, <2>1 DEF approve_emergency_unstake, MayApprove, vars, clockVars
    <3>3. \A a \in Accounts : a # s => request'[a] = request[a]
      BY <1>0, <2>1 DEF ExitTypeOK
    <3>4. FiledOutsideCooldown'
      BY <1>0, <2>1, <3>2, <3>3 DEF FiledOutsideCooldown
    <3> QED BY <1>0, <2>1, <3>1, <3>4, VaultStutter DEF ExitInv
  <2>2. CASE /\ execute_early_unstake(s)
             /\ request' = [request EXCEPT ![s] = NoRequest]
             /\ lastUnstakeAt' = [lastUnstakeAt EXCEPT ![s] = now]
             /\ UNCHANGED <<config, cooldown>>
    <3>1. config.penalty \in Nat
      BY <1>0 DEF ExitTypeOK, NoConfig, EmergencyTyped
    <3>2. IInv'
      BY <1>0, <2>2, <3>1, EarlyUnstakeInv
    <3>3. ExitTypeOK'
      BY <1>0, <2>2 DEF ExitTypeOK, NoRequest
    <3>4. now' = now
      BY <2>2 DEF execute_early_unstake, clockVars
    <3>5. \A a \in Accounts : IF a = s THEN request'[a] = NoRequest /\ lastUnstakeAt'[a] = now
                              ELSE request'[a] = request[a] /\ lastUnstakeAt'[a] = lastUnstakeAt[a]
      BY <1>0, <2>2 DEF ExitTypeOK
    <3>6. FiledOutsideCooldown'
      BY <1>0, <3>4, <3>5 DEF FiledOutsideCooldown
    <3> QED BY <3>2, <3>3, <3>6 DEF ExitInv
  <2> QED BY <1>6, <2>1, <2>2 DEF approve_emergency_unstake
<1>7. ASSUME NEW s \in Accounts, expire_emergency_request(s) PROVE ExitInv'
  <2>1. UNCHANGED <<vars, config, cooldown, lastUnstakeAt>> /\ now' = now
    BY <1>7 DEF expire_emergency_request, vars, clockVars
  <2>2. request' = [request EXCEPT ![s] = NoRequest]
    BY <1>7 DEF expire_emergency_request
  <2>3. ExitTypeOK'
    BY <1>0, <2>1, <2>2 DEF ExitTypeOK, NoRequest
  <2>4. \A a \in Accounts : request'[a] = IF a = s THEN NoRequest ELSE request[a]
    BY <1>0, <2>2 DEF ExitTypeOK
  <2>5. FiledOutsideCooldown'
    BY <1>0, <2>1, <2>4 DEF FiledOutsideCooldown
  <2> QED BY <1>0, <2>1, <2>3, <2>5, VaultStutter DEF ExitInv
<1>8. CASE UNCHANGED exitAllVars
  BY <1>1, <1>8 DEF exitAllVars
<1> QED BY <1>1, <1>3, <1>4, <1>5, <1>6, <1>7, <1>8 DEF EmergencyNext

LEMMA ExitInvariant ==
  ASSUME EmergencyTyped
  PROVE  EmergencySpec => []ExitInv
<1>1. ExitInv /\ [EmergencyNext]_exitAllVars => ExitInv'
  BY ExitNextInv
<1> QED BY <1>1, ExitInitInv, PTL DEF EmergencySpec

(* CustodyExact with the emergency exit: paying a stake out early and      *)
(* burning its penalty leaves the vault with exactly what it still owes.   *)
THEOREM ExitKeepsCustody ==
  ASSUME EmergencyTyped
  PROVE  EmergencySpec => []CustodyExact
<1>1. ExitInv => CustodyExact
  BY DEF ExitInv, IInv
<1> QED BY <1>1, ExitInvariant, PTL

(* EmergencyExitsSpaced: two emergency exits of one staker are a cooldown   *)
(* apart, although only the request looks at the cooldown, the approvals   *)
(* that pay it out arrive later and the admin may change it in between.    *)
THEOREM ExitsAreSpaced ==
  ASSUME EmergencyTyped
  PROVE  EmergencySpec => [][EmergencyExitsSpaced]_exitAllVars
<1>1. ASSUME ExitInv, [EmergencyNext]_exitAllVars
      PROVE  EmergencyExitsSpaced
  <2> SUFFICES ASSUME NEW s \in Accounts, lastUnstakeAt[s] # 0,
                      lastUnstakeAt'[s] # lastUnstakeAt[s]
               PROVE  request[s] # NoRequest
    BY <1>1 DEF EmergencyExitsSpaced, ExitInv, FiledOutsideCooldown
  <2>1. PICK t \in Accounts, signer \in Signers : approve_emergency_unstake(signer, t)
    BY <1>1 DEF EmergencyNext, exitAllVars, emergencyVars, configure_emergency_multisig,
       set_emergency_cooldown, request_emergency_unstake, expire_emergency_request
  <2>2. t = s
    BY <1>1, <2>1 DEF approve_emergency_unstake, ExitInv, ExitTypeOK
  <2> QED BY <2>1, <2>2 DEF approve_emergency_unstake, MayApprove
<1>2. ExitInv /\ [EmergencyNext]_exitAllVars => [EmergencyExitsSpaced]_exitAllVars
  BY <1>1
<1> QED BY <1>2, ExitInvariant, PTL DEF EmergencySpec

(* SlashedProviderStaysIn on every path, the emergency exit included. *)
THEOREM LockedWhileSlashedByExit ==
  ASSUME EmergencyTyped, 0 \notin AppealWindows
  PROVE  EmergencySpec => [][SlashedProviderStaysIn]_exitAllVars
<1>1. EmergencyInit => LocksCover
  BY DEF EmergencyInit, Init, LocksCover
<1>2. ASSUME ExitInv, LocksCover, [EmergencyNext]_exitAllVars
      PROVE  LocksCover' /\ SlashedProviderStaysIn
  <2>0. IInv
    BY <1>2 DEF ExitInv
  <2>1. CASE [Next]_vars
    BY <1>2, <2>0, <2>1, VaultStepCovers
  <2>2. ASSUME NEW s \in Accounts, execute_early_unstake(s)
        PROVE  LocksCover' /\ SlashedProviderStaysIn
    <3>1. LockupsKept /\ UNCHANGED <<slashes, slash>> /\ now' \in {now, now + 1}
      BY <2>2 DEF execute_early_unstake, LockupsKept, slashVars, clockVars
    <3>2. PaysReleased
      BY <2>0, <2>2 DEF IInv, TypeOK, execute_early_unstake, PayLessPenalty, PaysReleased
    <3> QED BY <1>2, <2>0, <3>1, <3>2, NoSlashCovers, ReleasedStaysIn
  <2> QED BY <1>2, <2>1, <2>2 DEF EmergencyNext, exitAllVars, configure_emergency_multisig,
             set_emergency_cooldown, request_emergency_unstake, expire_emergency_request,
             approve_emergency_unstake
<1>3. ExitInv /\ LocksCover /\ [EmergencyNext]_exitAllVars
        => LocksCover' /\ [SlashedProviderStaysIn]_exitAllVars
  BY <1>2
<1> QED BY <1>1, <1>3, ExitInvariant, PTL DEF EmergencySpec

-----------------------------------------------------------------------------
(* The multi-sig.                                                           *)

(* What a proposal does to the vault keeps the vault's invariant. *)
LEMMA PerformInv ==
  ASSUME MultisigTyped, IInv, NEW payload \in Payloads, Perform(payload)
  PROVE  IInv'
<1>0. cfg \in Settings
  BY DEF IInv, TypeOK
<1>1. ASSUME NEW b \in BOOLEAN, SetPaused(b) PROVE IInv'
  BY <1>1, PausedInv
<1>2. CASE payload[1] = "SET_MINIMUM_STAKE" /\ PutMinimumStake(payload[2])
  <2>1. payload[2] \in MinStakes
    BY <1>2 DEF MultisigTyped
  <2>2. [cfg EXCEPT !.minStake = payload[2]] \in Settings
    BY <1>0, <2>1 DEF Settings
  <2> QED BY <1>2, <2>2, SetInv DEF PutMinimumStake
<1>3. CASE payload[1] = "SET_MINIMUM_STAKE_DURATION" /\ PutMinimumStakeDuration(payload[2])
  <2>1. payload[2] \in MinDurations
    BY <1>3 DEF MultisigTyped
  <2>2. [cfg EXCEPT !.minDuration = payload[2]] \in Settings
    BY <1>0, <2>1 DEF Settings
  <2> QED BY <1>3, <2>2, SetInv DEF PutMinimumStakeDuration
<1>4. CASE payload[1] = "CONFIGURE_SLASH_TIERS" /\ PutSlashTiers(payload[2])
  <2>1. payload[2] \in SlashTiers /\ ValidTiers(payload[2])
    BY <1>4 DEF MultisigTyped, PutSlashTiers
  <2>2. [cfg EXCEPT !.tiers = payload[2]] \in Settings
    BY <1>0, <2>1 DEF Settings
  <2> QED BY <1>4, <2>2, SetInv DEF PutSlashTiers
<1>5. CASE payload[1] = "SET_APPEAL_WINDOW" /\ PutAppealWindow(payload[2])
  <2>1. payload[2] \in AppealWindows
    BY <1>5 DEF MultisigTyped
  <2>2. [cfg EXCEPT !.appealWindow = payload[2]] \in Settings
    BY <1>0, <2>1 DEF Settings
  <2> QED BY <1>5, <2>2, SetInv DEF PutAppealWindow
<1>6. CASE payload[1] = "SET_WITHDRAWAL_COOLDOWN" /\ PutWithdrawalCooldown(payload[2])
  <2>1. payload[2] \in WithdrawalCooldowns
    BY <1>6 DEF MultisigTyped
  <2>2. [cfg EXCEPT !.withdrawalCooldown = payload[2]] \in Settings
    BY <1>0, <2>1 DEF Settings
  <2> QED BY <1>6, <2>2, SetInv DEF PutWithdrawalCooldown
<1>7. CASE payload[1] = "RESOLVE_APPEAL" /\ do_resolve_appeal(payload[2], payload[3], TRUE)
  <2>1. payload[2] \in SlashIds
    BY <1>7 DEF MultisigTyped
  <2> QED BY <1>7, <2>1, UpholdInv, ReverseInv DEF do_resolve_appeal
<1> QED BY <1>1, <1>2, <1>3, <1>4, <1>5, <1>6, <1>7 DEF Perform

MsTypeOK ==
    /\ proposalCount \in 0..MaxProposals
    /\ proposal \in [ProposalIds ->
          [payload : Payloads \cup {<<>>}, approvals : SUBSET ConfigurableSigners,
           status : {"None", "Pending", "Executed"}, expiresAt : Nat]]
    /\ msConfig \in MultisigConfigs \cup {NoMultisig}

(* A pending proposal carries a payload a signer may propose. *)
MsInv ==
    /\ IInv /\ MsTypeOK
    /\ \A id \in ProposalIds : proposal[id].status = "Pending" =>
                                   proposal[id].payload \in Payloads

LEMMA MsInitInv ==
  ASSUME MultisigTyped, MultisigInit
  PROVE  MsInv
<1>1. IInv
  BY InitInv DEF MultisigInit
<1>2. MsTypeOK
  BY DEF MultisigTyped, MultisigInit, MsTypeOK, NoProposal
<1> QED BY <1>1, <1>2 DEF MsInv, MultisigInit, NoProposal

LEMMA MsNextInv ==
  ASSUME MultisigTyped, MsInv, [MultisigNext]_multisigAllVars
  PROVE  MsInv'
<1>0. /\ IInv /\ MsTypeOK /\ now \in Nat
      /\ \A id \in ProposalIds : proposal[id].status = "Pending" =>
                                     proposal[id].payload \in Payloads
  BY DEF MsInv, IInv, TypeOK
<1>1. CASE [Next]_vars /\ UNCHANGED multisigVars
  <2>1. IInv'
    BY <1>0, <1>1, NextInv
  <2> QED BY <1>0, <1>1, <2>1 DEF MsInv, MsTypeOK, multisigVars
<1>2. ASSUME NEW c \in MultisigConfigs, SetConfig(c) PROVE MsInv'
  <2>1. IInv'
    BY <1>0, <1>2, MultisigInv DEF SetConfig
  <2> QED BY <1>0, <1>2, <2>1 DEF MsInv, MsTypeOK, SetConfig
<1>3. CASE ClearConfig
  <2>1. IInv'
    BY <1>0, <1>3, MultisigInv DEF ClearConfig
  <2> QED BY <1>0, <1>3, <2>1 DEF MsInv, MsTypeOK, ClearConfig
<1>4. ASSUME NEW signer \in ConfigurableSigners, NEW payload \in Payloads,
             propose_action(signer, payload)
      PROVE  MsInv'
  <2> DEFINE n == proposalCount + 1
  <2>1. /\ n \in ProposalIds /\ proposalCount' = n /\ proposalCount' \in 0..MaxProposals
        /\ UNCHANGED <<vars, msConfig>>
    BY <1>0, <1>4 DEF propose_action, MsTypeOK, MultisigTyped, ProposalIds
  <2>2. PICK expiry \in Nat :
          proposal' = [proposal EXCEPT ![n] =
            [payload |-> payload, approvals |-> {signer}, status |-> "Pending",
             expiresAt |-> expiry]]
    <3>1. msConfig.timeout \in Nat /\ DefaultProposalTimeout \in Nat
      BY <1>0 DEF MsTypeOK, NoMultisig, MultisigTyped
    <3>2. now + (IF msConfig.timeout > 0 THEN msConfig.timeout
                 ELSE DefaultProposalTimeout) \in Nat
      BY <1>0, <3>1
    <3> QED BY <1>4, <3>2 DEF propose_action
  <2>3. IInv'
    BY <1>0, <2>1, VaultStutter
  <2>4. MsTypeOK'
    BY <1>0, <2>1, <2>2 DEF MsTypeOK
  <2>5. \A id \in ProposalIds : proposal'[id] = IF id = n
          THEN [payload |-> payload, approvals |-> {signer}, status |-> "Pending",
                expiresAt |-> expiry]
          ELSE proposal[id]
    BY <1>0, <2>2 DEF MsTypeOK
  <2> HIDE DEF n
  <2>6. \A id \in ProposalIds : proposal'[id].status = "Pending" =>
                                    proposal'[id].payload \in Payloads
    BY <1>0, <2>5
  <2> QED BY <2>3, <2>4, <2>6 DEF MsInv
<1>5. ASSUME NEW signer \in ConfigurableSigners, NEW id \in ProposalIds,
             approve_action(signer, id)
      PROVE  MsInv'
  <2>1. /\ UNCHANGED <<vars, msConfig, proposalCount>>
        /\ proposal' = [proposal EXCEPT ![id].approvals = @ \cup {signer}]
    BY <1>5 DEF approve_action
  <2>2. MsTypeOK'
    BY <1>0, <2>1 DEF MsTypeOK
  <2>3. \A i \in ProposalIds : /\ proposal'[i].status = proposal[i].status
                               /\ proposal'[i].payload = proposal[i].payload
    BY <1>0, <2>1 DEF MsTypeOK
  <2> QED BY <1>0, <2>1, <2>2, <2>3, VaultStutter DEF MsInv
<1>6. ASSUME NEW id \in ProposalIds, execute_action(id) PROVE MsInv'
  <2>1. /\ UNCHANGED <<msConfig, proposalCount>>
        /\ proposal' = [proposal EXCEPT ![id].status = "Executed"]
    BY <1>6 DEF execute_action
  <2>2. proposal[id].payload \in Payloads /\ Perform(proposal[id].payload)
    BY <1>0, <1>6 DEF execute_action, require_can_execute
  <2>3. IInv'
    BY <1>0, <2>2, PerformInv
  <2>4. MsTypeOK'
    BY <1>0, <2>1 DEF MsTypeOK
  <2>5. \A i \in ProposalIds : /\ proposal'[i].status \in {proposal[i].status, "Executed"}
                               /\ proposal'[i].payload = proposal[i].payload
    BY <1>0, <2>1 DEF MsTypeOK
  <2> QED BY <1>0, <2>3, <2>4, <2>5 DEF MsInv
<1>7. CASE UNCHANGED multisigAllVars
  BY <1>1, <1>7 DEF multisigAllVars
<1> QED BY <1>1, <1>2, <1>3, <1>4, <1>5, <1>6, <1>7 DEF MultisigNext, Next

LEMMA MsInvariant ==
  ASSUME MultisigTyped
  PROVE  MultisigSpec => []MsInv
<1>1. MultisigInit => MsInv
  BY MsInitInv
<1>2. MsInv /\ [MultisigNext]_multisigAllVars => MsInv'
  BY MsNextInv
<1> QED BY <1>1, <1>2, PTL DEF MultisigSpec

(* CustodyExact under a multi-sig: no proposal, whatever it resolves or     *)
(* configures, loses or creates a token.                                   *)
THEOREM MultisigKeepsCustody ==
  ASSUME MultisigTyped
  PROVE  MultisigSpec => []CustodyExact
<1>1. MsInv => CustodyExact
  BY DEF MsInv, IInv
<1> QED BY <1>1, MsInvariant, PTL

(* No step of the vault itself moves a gated setting under a multi-sig. *)
LEMMA VaultGated ==
  ASSUME IInv, multisig, VaultNext
  PROVE  Gated(cfg') = Gated(cfg)
<1>1. CASE StakerNext
  <2>1. UNCHANGED adminVars
    BY <1>1 DEF StakerNext, deposit_stake, partial_unstake, delegate_stake,
       request_withdrawal, withdraw_stake, Leave, release_provider_lockup, sync_index_stake
  <2> QED BY <2>1 DEF adminVars
<1>2. CASE SlashNext
  <2>1. ASSUME Slashes PROVE cfg' = cfg
    BY <2>1 DEF Slashes, do_slash, adminVars
  <2>2. ASSUME NEW id \in SlashIds, NEW a \in Accounts, appeal_slash(a, id)
        PROVE  cfg' = cfg
    BY <2>2 DEF appeal_slash, adminVars
  <2>3. ASSUME NEW id \in SlashIds, NEW uphold \in BOOLEAN, NEW burns \in BOOLEAN,
               do_resolve_appeal(id, uphold, burns)
        PROVE  cfg' = cfg
    BY <2>3 DEF do_resolve_appeal, UpholdSlash, ReverseSlash, adminVars
  <2> QED BY <1>2, <2>1, <2>2, <2>3
          DEF SlashNext, slash_stake, batch_slash_stake, Slashes, resolve_appeal,
              batch_resolve_appeal
<1>3. CASE AdminNext
  <2>1. \/ cfg' = cfg
        \/ \E v : cfg' = [cfg EXCEPT !.slashCooldown = v]
        \/ \E v : cfg' = [cfg EXCEPT !.tiers = v]
    BY <1>3 DEF AdminNext, pause, unpause, apply_governance_pause, SetPaused, Set,
       set_minimum_stake, set_minimum_stake_duration, set_withdrawal_cooldown,
       set_slash_cooldown, set_default_provider_lockup, set_appeal_window,
       configure_slash_tiers, governance_configure_slash_tiers, PutSlashTiers
  <2>2. cfg \in Settings
    BY DEF IInv, TypeOK
  <2> QED BY <2>1, <2>2 DEF Gated, Settings
<1>4. CASE Tick
  BY <1>4 DEF Tick, adminVars
<1> QED BY <1>1, <1>2, <1>3, <1>4 DEF VaultNext

(* SettingsNeedProposal: under a multi-sig no single admin, batch or        *)
(* governance call moves a gated setting; only an approved, live proposal  *)
(* does, and it is spent by the change.                                    *)
THEOREM SettingsMoveByProposal ==
  ASSUME MultisigTyped
  PROVE  MultisigSpec => [][SettingsNeedProposal]_multisigAllVars
<1>1. ASSUME MsInv, [MultisigNext]_multisigAllVars
      PROVE  SettingsNeedProposal
  <2> SUFFICES ASSUME multisig, Gated(cfg') # Gated(cfg)
               PROVE  \E id \in ProposalIds :
                        /\ Executes(id)
                        /\ Cardinality(proposal[id].approvals) >= msConfig.threshold
                        /\ now <= proposal[id].expiresAt
    BY DEF SettingsNeedProposal
  <2>1. cfg' # cfg
    OBVIOUS
  <2>2. ~VaultNext
    BY <1>1, VaultGated DEF MsInv
  <2>3. PICK id \in ProposalIds : execute_action(id)
    BY <1>1, <2>1, <2>2 DEF MultisigNext, SetConfig, ClearConfig, set_multisig_config,
       propose_action, approve_action, multisigAllVars, vars, adminVars
  <2>4. Executes(id)
    BY <1>1, <2>3 DEF execute_action, require_can_execute, Executes, MsInv, MsTypeOK
  <2> QED BY <2>3, <2>4 DEF execute_action, require_can_execute
<1>2. MsInv /\ [MultisigNext]_multisigAllVars => [SettingsNeedProposal]_multisigAllVars
  BY <1>1
<1> QED BY <1>2, MsInvariant, PTL DEF MultisigSpec

(* Only a pending appeal is decided, and only an absent one filed. *)
LEMMA ResolveFinal ==
  ASSUME TypeOK, NEW id \in SlashIds, NEW uphold, NEW burns,
         do_resolve_appeal(id, uphold, burns)
  PROVE  VerdictsFinal
<1>1. appeal \in [SlashIds -> AppealStatuses]
  BY DEF TypeOK
<1> QED BY <1>1 DEF do_resolve_appeal, UpholdSlash, ReverseSlash, VerdictsFinal

LEMMA VaultFinal ==
  ASSUME TypeOK, VaultNext
  PROVE  VerdictsFinal
<1>0. ASSUME UNCHANGED appeal PROVE VerdictsFinal
  BY <1>0 DEF VerdictsFinal
<1>1. CASE StakerNext
  BY <1>0, <1>1 DEF StakerNext, deposit_stake, partial_unstake, delegate_stake,
     request_withdrawal, withdraw_stake, Leave, release_provider_lockup,
     sync_index_stake, slashVars
<1>2. CASE SlashNext
  <2>1. ASSUME NEW a \in Accounts, NEW id \in SlashIds, appeal_slash(a, id)
        PROVE  VerdictsFinal
    BY <2>1 DEF appeal_slash, MayAppeal, TypeOK, VerdictsFinal
  <2>2. ASSUME Slashes PROVE VerdictsFinal
    BY <1>0, <2>2 DEF Slashes, do_slash
  <2>3. ASSUME NEW id \in SlashIds, NEW uphold \in BOOLEAN, NEW burns \in BOOLEAN,
               do_resolve_appeal(id, uphold, burns)
        PROVE  VerdictsFinal
    BY <2>3, ResolveFinal
  <2> QED BY <1>2, <2>1, <2>2, <2>3
          DEF SlashNext, slash_stake, batch_slash_stake, Slashes, resolve_appeal,
              batch_resolve_appeal
<1>3. CASE AdminNext
  BY <1>0, <1>3 DEF AdminNext, pause, unpause, apply_governance_pause, SetPaused, Set,
       set_minimum_stake, PutMinimumStake, set_minimum_stake_duration,
       PutMinimumStakeDuration, set_withdrawal_cooldown, PutWithdrawalCooldown,
       set_slash_cooldown, set_default_provider_lockup, set_appeal_window,
       PutAppealWindow, configure_slash_tiers, governance_configure_slash_tiers,
       PutSlashTiers, slashVars
<1>4. CASE Tick
  BY <1>0, <1>4 DEF Tick, slashVars
<1> QED BY <1>1, <1>2, <1>3, <1>4 DEF VaultNext

(* VerdictsFinal: a slash that was upheld or reversed is not reopened by    *)
(* another proposal, a batch, or an appeal that is filed again.            *)
THEOREM VerdictsAreFinal ==
  ASSUME MultisigTyped
  PROVE  MultisigSpec => [][VerdictsFinal]_multisigAllVars
<1>1. ASSUME MsInv, [MultisigNext]_multisigAllVars
      PROVE  VerdictsFinal
  <2>0. ASSUME UNCHANGED appeal PROVE VerdictsFinal
    BY <2>0 DEF VerdictsFinal
  <2>1. CASE VaultNext
    BY <1>1, <2>1, VaultFinal DEF MsInv, IInv
  <2>2. ASSUME NEW id \in ProposalIds, execute_action(id) PROVE VerdictsFinal
    <3>1. proposal[id].payload \in Payloads /\ Perform(proposal[id].payload)
      BY <1>1, <2>2 DEF MsInv, execute_action, require_can_execute
    <3>2. PICK payload \in Payloads : Perform(payload)
      BY <3>1
    <3>3. CASE /\ payload[1] = "RESOLVE_APPEAL"
               /\ do_resolve_appeal(payload[2], payload[3], TRUE)
      <4>1. payload[2] \in SlashIds
        BY <3>3 DEF MultisigTyped
      <4> QED BY <1>1, <3>3, <4>1, ResolveFinal DEF MsInv, IInv
    <3> QED BY <2>0, <3>2, <3>3 DEF Perform, SetPaused, PutMinimumStake, Set,
               PutMinimumStakeDuration, PutSlashTiers, PutAppealWindow,
               PutWithdrawalCooldown, slashVars
  <2> QED BY <1>1, <2>0, <2>1, <2>2
          DEF MultisigNext, SetConfig, ClearConfig, set_multisig_config,
              propose_action, approve_action, multisigAllVars, vars, slashVars
<1>2. MsInv /\ [MultisigNext]_multisigAllVars => [VerdictsFinal]_multisigAllVars
  BY <1>1
<1> QED BY <1>2, MsInvariant, PTL DEF MultisigSpec
=============================================================================
