------------------------- MODULE RewardIndexProofs -------------------------
(***************************************************************************)
(* Theorems about RewardIndex, for any number of stakers, any amounts and  *)
(* any scale: the scaled books never promise more than was funded, so      *)
(* everyone could be paid at once.                                         *)
(***************************************************************************)
EXTENDS RewardIndex

(* Snapshots are of the past, and there is none before the asset exists.   *)
SnapshotsOK ==
    \A a \in Stakers : userIndex[a] # Absent => listed /\ userIndex[a] <= index

(* Nonces not handed out yet have no claim. *)
ClaimsOK ==
    \A a \in Stakers, n \in Nonces : n > claims[a] => claim[a][n] = NoClaim

ParticipationSum == totalStake = Total(userStake, N)

(* The inductive invariant. *)
IInv == TypeOK /\ SnapshotsOK /\ ClaimsOK /\ ParticipationSum /\ Conservation

ClaimRecord == [amount : Nat, expiresAt : Nat, status : ClaimStatuses]

(* What a claim adds to its staker's queued rewards. *)
Due(c) == IF c.status = "Pending" THEN c.amount ELSE 0

(* The two tables Conservation sums. *)
Booked == [a \in Stakers |-> accrued[a] + PendingOf(a)]
Growth == [a \in Stakers |-> Uncredited(a)]

-----------------------------------------------------------------------------
(* A checkpoint credits a natural amount that its share of the index       *)
(* growth covers.                                                          *)
LEMMA EarnedCovered ==
  ASSUME TypeOK, SnapshotsOK, NEW a \in Stakers
  PROVE  /\ Uncredited(a) \in Nat
         /\ Earned(a) \in Nat
         /\ Scale * Earned(a) <= Uncredited(a)
<1>1. index - Snapshot(a) \in Nat /\ userStake[a] \in Nat
  BY DEF TypeOK, SnapshotsOK, Snapshot, Absent
<1>2. Uncredited(a) \in Nat
  BY <1>1, ProductNat DEF Uncredited
<1>3. Earned(a) = Uncredited(a) \div Scale
  BY DEF Earned, Uncredited
<1> QED BY <1>2, <1>3, DivRoundsDown, IndexTyped

LEMMA DueNat ==
  ASSUME TypeOK, NEW a \in Stakers, NEW n \in Nonces
  PROVE  Due(claim[a][n]) \in Nat
BY DEF TypeOK, Due

(* The rewards queued for a staker are an amount that covers each claim. *)
LEMMA PendingCovers ==
  ASSUME TypeOK, NEW a \in Stakers
  PROVE  /\ PendingOf(a) \in Nat
         /\ \A n \in Nonces : Due(claim[a][n]) <= PendingOf(a)
<1> DEFINE row == [n \in Nonces |-> Due(claim[a][n])]
<1>1. row \in [1..MaxClaims -> Nat] /\ MaxClaims \in Nat
  BY DueNat, IndexTyped DEF Nonces
<1>2. PendingOf(a) = Total(row, MaxClaims)
  BY DEF PendingOf, Due
<1>3. \A n \in 1..MaxClaims : row[n] = Due(claim[a][n])
  BY DEF Nonces
<1> HIDE DEF row
<1> QED BY <1>1, <1>2, <1>3, TotalNat DEF Nonces

(* One claim changes the queued rewards by the change of its own amount. *)
LEMMA PendingChange ==
  ASSUME TypeOK, TypeOK', NEW a \in Stakers, NEW n \in Nonces,
         \A m \in Nonces : m # n => claim'[a][m] = claim[a][m]
  PROVE  PendingOf(a)' = PendingOf(a) + Due(claim'[a][n]) - Due(claim[a][n])
<1> DEFINE row == [m \in Nonces |-> Due(claim[a][m])]
           new == [m \in Nonces |-> Due(claim'[a][m])]
<1>1. row \in [1..MaxClaims -> Int] /\ MaxClaims \in Nat /\ n \in 1..MaxClaims
  BY DueNat, IndexTyped DEF Nonces
<1>2. new \in [1..MaxClaims -> Int]
  <2>1. \A m \in Nonces : Due(claim'[a][m]) \in Nat
    BY DEF TypeOK, Due
  <2> QED BY <2>1 DEF Nonces
<1>3. PendingOf(a) = Total(row, MaxClaims) /\ PendingOf(a)' = Total(new, MaxClaims)
  BY DEF PendingOf, Due
<1>4. /\ \A m \in 1..MaxClaims : m # n => new[m] = row[m]
      /\ new[n] = Due(claim'[a][n]) /\ row[n] = Due(claim[a][n])
  BY DEF Nonces
<1> HIDE DEF row, new
<1> QED BY <1>1, <1>2, <1>3, <1>4, TotalChange

(* The tables of a typed state. *)
LEMMA Books ==
  ASSUME TypeOK, SnapshotsOK
  PROVE  /\ N \in Nat /\ Scale \in Nat \ {0} /\ Stakers = 1..N
         /\ Booked \in [1..N -> Int] /\ Growth \in [1..N -> Int]
         /\ Total(Booked, N) \in Int /\ Total(Growth, N) \in Int
         /\ (Conservation <=>
               Scale * Total(Booked, N) + Total(Growth, N) + dust
                 <= Scale * custody)
<1>1. N \in Nat /\ Scale \in Nat \ {0} /\ Stakers = 1..N
  BY IndexTyped DEF Stakers
<1>2. \A a \in Stakers : accrued[a] + PendingOf(a) \in Int /\ Uncredited(a) \in Int
  BY EarnedCovered, PendingCovers DEF TypeOK
<1>3. Booked \in [1..N -> Int] /\ Growth \in [1..N -> Int]
  BY <1>1, <1>2 DEF Booked, Growth
<1>4. Conservation <=>
        Scale * Total(Booked, N) + Total(Growth, N) + dust <= Scale * custody
  BY DEF Conservation, Booked, Growth
<1> QED BY <1>1, <1>3, <1>4, TotalInt

LEMMA BooksAlways ==
  TypeOK /\ SnapshotsOK =>
    /\ Booked \in [1..N -> Int] /\ Growth \in [1..N -> Int]
    /\ (Conservation <=>
          Scale * Total(Booked, N) + Total(Growth, N) + dust <= Scale * custody)
BY Books

(* Multiplication distributes. *)
LEMMA Distribute ==
  ASSUME NEW s \in Int, NEW x \in Int, NEW y \in Int
  PROVE  s * (x + y) = s * x + s * y /\ s * x \in Int /\ s * y \in Int
OBVIOUS

(* Books that balance still do when they grow by at most what is paid in. *)
LEMMA BooksGrow ==
  ASSUME NEW s \in Int, NEW tb \in Int, NEW tg \in Int, NEW d \in Int, NEW c \in Int,
         NEW up \in Int, NEW grow \in Int, NEW pay \in Int,
         s * tb + tg + d <= s * c,
         s * up + grow <= s * pay
  PROVE  s * (tb + up) + (tg + grow) + d <= s * (c + pay)
<1> DEFINE A == s * tb
           B == s * up
           C == s * c
           D == s * pay
<1>1. /\ s * (tb + up) = A + B /\ s * (c + pay) = C + D
      /\ A \in Int /\ B \in Int /\ C \in Int /\ D \in Int
  BY Distribute
<1>2. A + tg + d <= C /\ B + grow <= D
  OBVIOUS
<1> HIDE DEF A, B, C, D
<1>3. (A + B) + (tg + grow) + d <= C + D
  BY <1>1, <1>2
<1> QED BY <1>1, <1>3

(* A step that moves the books of one staker only conserves them if the    *)
(* tokens that move pay for it.                                            *)
LEMMA OneStakerConserves ==
  ASSUME TypeOK, SnapshotsOK, Conservation, TypeOK', SnapshotsOK',
         NEW j \in Stakers, dust' = dust,
         \A a \in Stakers : a # j =>
             Booked'[a] = Booked[a] /\ Growth'[a] = Growth[a],
         NEW up \in Int, NEW grow \in Int, NEW pay \in Int,
         Booked'[j] = Booked[j] + up, Growth'[j] = Growth[j] + grow,
         custody' = custody + pay,
         Scale * up + grow <= Scale * pay
  PROVE  Conservation'
<1>1. /\ N \in Nat /\ Scale \in Nat \ {0} /\ Stakers = 1..N
      /\ Booked \in [1..N -> Int] /\ Growth \in [1..N -> Int]
      /\ Total(Booked, N) \in Int /\ Total(Growth, N) \in Int
      /\ Scale * Total(Booked, N) + Total(Growth, N) + dust <= Scale * custody
  BY Books
<1>2. /\ Booked' \in [1..N -> Int] /\ Growth' \in [1..N -> Int]
      /\ (Conservation' <=>
            Scale * Total(Booked', N) + Total(Growth', N) + dust'
              <= Scale * custody')
  <2>1. (TypeOK /\ SnapshotsOK =>
          /\ Booked \in [1..N -> Int] /\ Growth \in [1..N -> Int]
          /\ (Conservation <=>
                Scale * Total(Booked, N) + Total(Growth, N) + dust
                  <= Scale * custody))'
    BY BooksAlways, PTL
  <2> QED BY <2>1
<1>3. Total(Booked', N) = Total(Booked, N) + up
  <2>1. Total(Booked', N) = Total(Booked, N) + Booked'[j] - Booked[j]
    BY <1>1, <1>2, TotalChange
  <2>2. Booked[j] \in Int /\ Total(Booked, N) \in Int
    BY <1>1
  <2> QED BY <2>1, <2>2
<1>4. Total(Growth', N) = Total(Growth, N) + grow
  <2>1. Total(Growth', N) = Total(Growth, N) + Growth'[j] - Growth[j]
    BY <1>1, <1>2, TotalChange
  <2>2. Growth[j] \in Int /\ Total(Growth, N) \in Int
    BY <1>1
  <2> QED BY <2>1, <2>2
<1>5. Scale * (Total(Booked, N) + up) + (Total(Growth, N) + grow) + dust
        <= Scale * (custody + pay)
  <2>1. custody \in Int /\ dust \in Int /\ Scale \in Int
    BY <1>1 DEF TypeOK
  <2> QED BY <1>1, <2>1, BooksGrow
<1> QED BY <1>2, <1>3, <1>4, <1>5

(* A step that leaves the books alone conserves them. *)
LEMMA BooksFrame ==
  ASSUME Conservation,
         UNCHANGED <<accrued, claim, userStake, userIndex, index, dust, custody>>
  PROVE  Conservation'
BY DEF Conservation, PendingOf, Uncredited, Snapshot

(* A checkpoint leaves its staker a snapshot of the present, or none. *)
LEMMA Resnapped ==
  ASSUME TypeOK, SnapshotsOK, NEW a \in Stakers, NEW stake \in Nat,
         userIndex' = Resnap(a, stake), UNCHANGED <<index, listed>>
  PROVE  /\ userIndex' \in [Stakers -> Nat \cup {Absent}]
         /\ SnapshotsOK'
         /\ Snapshot(a)' = index
         /\ \A x \in Stakers : x # a => Snapshot(x)' = Snapshot(x)
<1>1. /\ userIndex \in [Stakers -> Nat \cup {Absent}]
      /\ index \in Nat /\ listed \in BOOLEAN
  BY DEF TypeOK
<1>2. CASE listed
  <2>1. userIndex' = [userIndex EXCEPT ![a] = IF stake > 0 THEN index ELSE Absent]
    BY <1>2 DEF Resnap
  <2>2. userIndex' \in [Stakers -> Nat \cup {Absent}]
    BY <1>1, <2>1
  <2>3. SnapshotsOK'
    BY <1>1, <1>2, <2>1 DEF SnapshotsOK
  <2>4. Snapshot(a)' = index
    BY <1>1, <2>1 DEF Snapshot
  <2>5. \A x \in Stakers : x # a => Snapshot(x)' = Snapshot(x)
    BY <1>1, <2>1 DEF Snapshot
  <2> QED BY <2>2, <2>3, <2>4, <2>5
<1>3. CASE ~listed
  <2>1. userIndex' = userIndex
    BY <1>3 DEF Resnap
  <2>2. userIndex[a] = Absent
    BY <1>3 DEF SnapshotsOK
  <2> QED BY <1>1, <2>1, <2>2 DEF SnapshotsOK, Snapshot
<1> QED BY <1>2, <1>3

(* Settling a queued claim touches no other. *)
LEMMA ClaimMarked ==
  ASSUME claim \in [Stakers -> [Nonces -> ClaimRecord]],
         NEW a \in Stakers, NEW n \in Nonces, NEW status \in ClaimStatuses,
         claim' = [claim EXCEPT ![a] = [claim[a] EXCEPT ![n] =
                     [claim[a][n] EXCEPT !.status = status]]]
  PROVE  /\ claim' \in [Stakers -> [Nonces -> ClaimRecord]]
         /\ claim'[a][n].status = status
         /\ \A m \in Nonces : m # n => claim'[a][m] = claim[a][m]
         /\ \A x \in Stakers : x # a => claim'[x] = claim[x]
<1> DEFINE c == [claim[a][n] EXCEPT !.status = status]
           row == [claim[a] EXCEPT ![n] = c]
<1>1. c \in ClaimRecord /\ c.status = status
  BY DEF ClaimRecord
<1> HIDE DEF c
<1>2. row \in [Nonces -> ClaimRecord] /\ row[n] = c
      /\ \A m \in Nonces : m # n => row[m] = claim[a][m]
  BY <1>1
<1>3. claim' = [claim EXCEPT ![a] = row]
  BY DEF c
<1> HIDE DEF row
<1>4. claim' \in [Stakers -> [Nonces -> ClaimRecord]] /\ claim'[a] = row
      /\ \A x \in Stakers : x # a => claim'[x] = claim[x]
  BY <1>2, <1>3
<1> QED BY <1>1, <1>2, <1>4

-----------------------------------------------------------------------------
LEMMA InitInv == Init => IInv
<1> SUFFICES ASSUME Init PROVE IInv
  OBVIOUS
<1>1. TypeOK
  <2>1. NoClaim \in [amount : Nat, expiresAt : Nat, status : ClaimStatuses]
    BY DEF NoClaim, ClaimStatuses
  <2>2. claim \in [Stakers -> [Nonces -> [amount : Nat, expiresAt : Nat,
                                         status : ClaimStatuses]]]
    BY <2>1 DEF Init
  <2>3. claims \in [Stakers -> 0..MaxClaims]
    BY IndexTyped DEF Init
  <2> QED BY <2>2, <2>3 DEF Init, TypeOK
<1>2. SnapshotsOK /\ ClaimsOK
  BY DEF Init, SnapshotsOK, ClaimsOK
<1>3. ParticipationSum
  BY IndexTyped, TotalZero DEF Init, ParticipationSum, Stakers
<1>4. Conservation
  <2>1. /\ N \in Nat /\ Scale \in Nat \ {0} /\ Stakers = 1..N
        /\ (Conservation <=>
              Scale * Total(Booked, N) + Total(Growth, N) + dust
                <= Scale * custody)
    BY <1>1, <1>2, Books
  <2>2. ASSUME NEW a \in Stakers PROVE Booked[a] = 0 /\ Growth[a] = 0
    <3>1. PendingOf(a) = 0
      <4>1. [n \in Nonces |-> IF claim[a][n].status = "Pending"
                              THEN claim[a][n].amount ELSE 0]
              = [n \in 1..MaxClaims |-> 0]
        BY DEF Init, NoClaim, Nonces
      <4> QED BY <4>1, TotalZero, IndexTyped DEF PendingOf
    <3>2. Uncredited(a) = 0
      BY DEF Init, Uncredited, Snapshot
    <3> QED BY <3>1, <3>2 DEF Init, Booked, Growth
  <2>3. Booked = [i \in 1..N |-> 0] /\ Growth = [i \in 1..N |-> 0]
    BY <2>1, <2>2 DEF Booked, Growth
  <2>4. Total(Booked, N) = 0 /\ Total(Growth, N) = 0
    BY <2>1, <2>3, TotalZero
  <2> QED BY <2>1, <2>4 DEF Init
<1> QED BY <1>1, <1>2, <1>3, <1>4 DEF IInv

LEMMA StakeChangeInv ==
  ASSUME IInv, NEW a \in Stakers, NEW stake \in Stakes, on_stake_change(a, stake)
  PROVE  IInv'
<1>1. TypeOK /\ SnapshotsOK /\ ClaimsOK /\ ParticipationSum /\ Conservation
  BY DEF IInv
<1>2. stake \in Nat /\ Earned(a) \in Nat /\ Uncredited(a) \in Nat
      /\ Scale * Earned(a) <= Uncredited(a)
  BY <1>1, EarnedCovered, IndexTyped
<1>3. /\ userIndex' \in [Stakers -> Nat \cup {Absent}]
      /\ SnapshotsOK'
      /\ Snapshot(a)' = index
      /\ \A x \in Stakers : x # a => Snapshot(x)' = Snapshot(x)
  BY <1>1, <1>2, Resnapped DEF on_stake_change, indexVars
<1>4. TypeOK'
  BY <1>1, <1>2, <1>3 DEF on_stake_change, TypeOK, indexVars, claimVars, tokenVars
<1>5. ClaimsOK'
  BY <1>1 DEF on_stake_change, ClaimsOK, claimVars
<1>6. ParticipationSum'
  <2>1. N \in Nat /\ userStake \in [1..N -> Int] /\ a \in 1..N /\ stake \in Int
    BY <1>1, <1>2, IndexTyped DEF TypeOK, Stakers
  <2>2. Total(userStake', N) = Total(userStake, N) + (stake - userStake[a])
    BY <2>1, TotalPut DEF on_stake_change
  <2>3. Total(userStake, N) \in Int /\ userStake[a] \in Int
    BY <2>1, TotalInt
  <2> QED BY <1>1, <2>1, <2>2, <2>3 DEF on_stake_change, ParticipationSum
<1>7. Conservation'
  <2>1. /\ accrued' = [accrued EXCEPT ![a] = accrued[a] + Earned(a)]
        /\ userStake' = [userStake EXCEPT ![a] = stake]
        /\ claim' = claim /\ index' = index /\ dust' = dust /\ custody' = custody
    BY DEF on_stake_change, indexVars, claimVars, tokenVars
  <2>2. \A x \in Stakers : PendingOf(x)' = PendingOf(x)
    BY <2>1 DEF PendingOf
  <2>3. /\ accrued \in [Stakers -> Nat] /\ userStake \in [Stakers -> Nat]
        /\ PendingOf(a) \in Nat /\ index \in Nat
    BY <1>1, PendingCovers DEF TypeOK
  <2>4. ASSUME NEW x \in Stakers, x # a
        PROVE  Booked'[x] = Booked[x] /\ Growth'[x] = Growth[x]
    BY <1>3, <2>1, <2>2, <2>3, <2>4 DEF Booked, Growth, Uncredited
  <2>5. Booked'[a] = Booked[a] + Earned(a)
    BY <1>2, <2>1, <2>2, <2>3 DEF Booked
  <2>6. Growth'[a] = Growth[a] + (0 - Uncredited(a))
    <3>1. Uncredited(a)' = stake * (index - index)
      BY <1>3, <2>1, <2>3 DEF Uncredited
    <3>2. Uncredited(a)' = 0
      BY <1>2, <2>3, <3>1
    <3>3. Growth'[a] = Uncredited(a)' /\ Growth[a] = Uncredited(a)
      BY DEF Growth
    <3> QED BY <1>2, <3>2, <3>3
  <2>7. Scale * Earned(a) + (0 - Uncredited(a)) <= Scale * 0
    <3>1. Scale * Earned(a) \in Int
      BY <1>2, IndexTyped
    <3> QED BY <1>2, <3>1, IndexTyped
  <2>8. custody' = custody + 0 /\ 0 - Uncredited(a) \in Int /\ Earned(a) \in Int
    BY <1>1, <1>2, <2>1 DEF TypeOK
  <2> QED BY <1>1, <1>3, <1>4, <2>1, <2>4, <2>5, <2>6, <2>7, <2>8, OneStakerConserves
<1> QED BY <1>3, <1>4, <1>5, <1>6, <1>7 DEF IInv

(* Rewards funded: the index grows by what the stakes divide evenly, the   *)
(* rest is dust.                                                           *)
LEMMA FundInv ==
  ASSUME IInv, NEW amount \in Amounts, fund_index_rewards(amount)
  PROVE  IInv'
<1> DEFINE num == amount * Scale + dust
           inc == num \div totalStake
<1>1. TypeOK /\ SnapshotsOK /\ ClaimsOK /\ ParticipationSum /\ Conservation
  BY DEF IInv
<1>2. /\ amount \in Nat /\ Scale \in Nat \ {0} /\ dust \in Nat /\ index \in Nat
      /\ custody \in Nat /\ funded \in Nat /\ totalStake \in Nat \ {0}
  BY <1>1, IndexTyped DEF TypeOK, fund_index_rewards, notify_reward
<1>3. num \in Nat
  BY <1>2, ProductNat
<1>4. /\ listed /\ index' = index + inc /\ dust' = num % totalStake
      /\ custody' = custody + amount /\ funded' = funded + amount
      /\ UNCHANGED <<now, userStake, totalStake, listed, userIndex, accrued,
                     claims, claim, received>>
  BY DEF fund_index_rewards, notify_reward, stakeVars, claimVars
<1>5. /\ inc \in Nat /\ num % totalStake \in Nat
      /\ num = totalStake * inc + (num % totalStake)
  <2> HIDE DEF num
  <2> QED BY <1>2, <1>3, DivRoundsDown
<1> HIDE DEF inc
<1>6. TypeOK'
  BY <1>1, <1>2, <1>4, <1>5 DEF TypeOK
<1>7. SnapshotsOK' /\ ClaimsOK' /\ ParticipationSum'
  BY <1>1, <1>2, <1>4, <1>5 DEF SnapshotsOK, ClaimsOK, ParticipationSum, TypeOK
<1>8. Conservation'
  <2>1. /\ N \in Nat /\ Stakers = 1..N
        /\ Booked \in [1..N -> Int] /\ Growth \in [1..N -> Int]
        /\ Total(Booked, N) \in Int /\ Total(Growth, N) \in Int
        /\ Scale * Total(Booked, N) + Total(Growth, N) + dust <= Scale * custody
    BY <1>1, Books
  <2>2. /\ Growth' \in [1..N -> Int]
        /\ (Conservation' <=>
              Scale * Total(Booked', N) + Total(Growth', N) + dust'
                <= Scale * custody')
    <3>1. (TypeOK /\ SnapshotsOK =>
            /\ Booked \in [1..N -> Int] /\ Growth \in [1..N -> Int]
            /\ (Conservation <=>
                  Scale * Total(Booked, N) + Total(Growth, N) + dust
                    <= Scale * custody))'
      BY BooksAlways, PTL
    <3> QED BY <1>6, <1>7, <3>1
  <2>3. Booked' = Booked
    BY <1>4 DEF Booked, PendingOf
  <2> DEFINE share == [a \in 1..N |-> inc * userStake[a]]
             most == [a \in 1..N |-> Growth[a] + share[a]]
  <2>4. userStake \in [1..N -> Int]
    BY <1>1, <2>1 DEF TypeOK
  <2>5. share \in [1..N -> Int] /\ most \in [1..N -> Int]
    <3>1. \A a \in 1..N : inc * userStake[a] \in Int /\ Growth[a] \in Int
      BY <1>5, <2>1, <2>4
    <3> QED BY <3>1
  <2>6. ASSUME NEW a \in 1..N PROVE Growth'[a] <= most[a]
    <3>1. Growth'[a] = Uncredited(a)' /\ Growth[a] = Uncredited(a)
      BY <2>1 DEF Growth
    <3>2. userStake[a] \in Nat /\ userIndex[a] \in Nat \cup {Absent}
      BY <1>1, <2>1 DEF TypeOK
    <3>3. inc * userStake[a] \in Nat
      BY <1>5, <3>2, ProductNat
    <3>4. CASE userIndex[a] = Absent
      <4>1. Uncredited(a)' = 0 /\ Uncredited(a) = 0
        BY <1>2, <1>4, <1>5, <3>2, <3>4 DEF Uncredited, Snapshot
      <4> QED BY <3>1, <3>3, <4>1
    <3>5. CASE userIndex[a] # Absent
      <4>1. /\ Uncredited(a)' = userStake[a] * ((index + inc) - userIndex[a])
            /\ Uncredited(a) = userStake[a] * (index - userIndex[a])
        BY <1>4, <3>5 DEF Uncredited, Snapshot
      <4>2. \A x, y, z, w \in Int : x * ((y + z) - w) = x * (y - w) + z * x
        OBVIOUS
      <4>3. Uncredited(a)' = Uncredited(a) + inc * userStake[a]
        BY <1>2, <1>5, <3>2, <3>5, <4>1, <4>2
      <4>4. Uncredited(a) \in Int
        BY <1>1, <2>1, EarnedCovered
      <4> QED BY <3>1, <3>3, <4>3, <4>4
    <3> QED BY <3>4, <3>5
  <2>7. Total(most, N) = Total(Growth, N) + Total(share, N)
    <3>1. \A a \in 1..N : most[a] = Growth[a] + share[a]
      OBVIOUS
    <3> HIDE DEF most, share
    <3> QED BY <2>1, <2>5, <3>1, TotalAdd
  <2>8. Total(share, N) = inc * Total(userStake, N)
    <3>1. \A a \in 1..N : share[a] = inc * userStake[a]
      OBVIOUS
    <3>2. inc \in Int
      BY <1>5
    <3> HIDE DEF share
    <3> QED BY <2>1, <2>4, <2>5, <3>1, <3>2, TotalScale
  <2>9. Total(Growth', N) <= Total(most, N)
    <3> HIDE DEF most
    <3> QED BY <2>1, <2>2, <2>5, <2>6, TotalLeq
  <2>10. Total(Growth', N) \in Int
    BY <2>1, <2>2, TotalInt
  <2> DEFINE g == Total(Growth, N)
             gg == Total(Growth', N)
             b == Scale * Total(Booked, N)
             c == Scale * custody
             t == totalStake * inc
             r == num % totalStake
             k == amount * Scale
  <2>11. /\ g \in Int /\ gg \in Int /\ b \in Int /\ c \in Int /\ t \in Int
         /\ r \in Int /\ k \in Int
    BY <1>2, <1>5, <2>1, <2>10
  <2>12. /\ b + g + dust <= c /\ gg <= g + t /\ k + dust = t + r
    <3>1. inc * Total(userStake, N) = totalStake * inc
      BY <1>1, <1>2, <1>5 DEF ParticipationSum
    <3> QED BY <1>5, <2>1, <2>7, <2>8, <2>9, <3>1
  <2>13. Scale * custody' = c + k
    BY <1>2, <1>4
  <2> HIDE DEF g, gg, b, c, t, r, k
  <2>14. b + gg + r <= c + k
    BY <1>2, <2>11, <2>12
  <2> QED BY <1>4, <2>2, <2>3, <2>13, <2>14 DEF b, gg, r
<1> QED BY <1>6, <1>7, <1>8 DEF IInv

(* A claim whose transfer works, or one that becomes a queued claim.        *)
LEMMA ClaimInv ==
  ASSUME IInv, NEW a \in Stakers, NEW pays \in BOOLEAN, claim_index_rewards(a, pays)
  PROVE  IInv'
<1> DEFINE amount == accrued[a] + Earned(a)
<1>1. TypeOK /\ SnapshotsOK /\ ClaimsOK /\ ParticipationSum /\ Conservation
  BY DEF IInv
<1>2. /\ Earned(a) \in Nat /\ Uncredited(a) \in Nat
      /\ Scale * Earned(a) <= Uncredited(a)
      /\ accrued[a] \in Nat /\ userStake[a] \in Nat /\ PendingOf(a) \in Nat
  BY <1>1, EarnedCovered, PendingCovers DEF TypeOK
<1>3. /\ accrued' = [accrued EXCEPT ![a] = 0]
      /\ userIndex' = Resnap(a, userStake[a])
      /\ UNCHANGED <<now, userStake, totalStake, listed, index, dust, funded>>
      /\ \/ /\ custody >= amount
            /\ custody' = custody - amount
            /\ received' = [received EXCEPT ![a] = @ + amount]
            /\ UNCHANGED <<claims, claim>>
         \/ /\ Queue(a, amount)
            /\ UNCHANGED <<custody, received>>
  BY DEF claim_index_rewards, Pay, stakeVars, indexVars, claimVars, tokenVars
<1>4. amount \in Nat
  BY <1>2
<1> HIDE DEF amount
<1>5. /\ userIndex' \in [Stakers -> Nat \cup {Absent}]
      /\ SnapshotsOK'
      /\ Snapshot(a)' = index
      /\ \A x \in Stakers : x # a => Snapshot(x)' = Snapshot(x)
  BY <1>1, <1>2, <1>3, Resnapped
<1>6. ASSUME Queue(a, amount)
      PROVE  /\ claims[a] + 1 \in Nonces /\ claims[a] \in Nat
             /\ claims' = [claims EXCEPT ![a] = claims[a] + 1]
             /\ claim' = [claim EXCEPT ![a] = [claim[a] EXCEPT ![claims[a] + 1] =
                            [amount |-> amount, expiresAt |-> now + ClaimTtl,
                             status |-> "Pending"]]]
  BY <1>1, <1>6, IndexTyped DEF Queue, TypeOK, Nonces
<1>7. TypeOK'
  <2>1. claims' \in [Stakers -> 0..MaxClaims]
    <3>1. claims \in [Stakers -> 0..MaxClaims]
      BY <1>1 DEF TypeOK
    <3>2. CASE UNCHANGED claims
      BY <3>1, <3>2
    <3>3. CASE Queue(a, amount)
      <4>1. claims' = [claims EXCEPT ![a] = claims[a] + 1]
        BY <1>6, <3>3
      <4>2. claims[a] + 1 \in 0..MaxClaims
        BY <1>6, <3>3, IndexTyped DEF Nonces
      <4> QED BY <3>1, <4>1, <4>2
    <3> QED BY <1>3, <3>2, <3>3
  <2>2. claim' \in [Stakers -> [Nonces -> [amount : Nat, expiresAt : Nat,
                                          status : ClaimStatuses]]]
    <3> DEFINE c == [amount |-> amount, expiresAt |-> now + ClaimTtl,
                     status |-> "Pending"]
    <3>1. c \in ClaimRecord
      BY <1>1, <1>4, IndexTyped DEF TypeOK, ClaimStatuses, ClaimRecord
    <3>2. claim \in [Stakers -> [Nonces -> ClaimRecord]]
      BY <1>1 DEF TypeOK, ClaimRecord
    <3>3. CASE UNCHANGED claim
      BY <3>2, <3>3 DEF ClaimRecord
    <3>4. CASE Queue(a, amount)
      <4>1. /\ claim' = [claim EXCEPT ![a] = [claim[a] EXCEPT ![claims[a] + 1] = c]]
            /\ claims[a] + 1 \in Nonces
        BY <1>6, <3>4
      <4> HIDE DEF c
      <4>2. [claim[a] EXCEPT ![claims[a] + 1] = c] \in [Nonces -> ClaimRecord]
        BY <3>1, <3>2
      <4>3. claim' \in [Stakers -> [Nonces -> ClaimRecord]]
        BY <3>2, <4>1, <4>2
      <4> QED BY <4>3 DEF ClaimRecord
    <3> QED BY <1>3, <3>3, <3>4
  <2>3. custody' \in Nat /\ received' \in [Stakers -> Nat]
    <3>1. custody \in Nat /\ received \in [Stakers -> Nat]
      BY <1>1 DEF TypeOK
    <3>2. CASE UNCHANGED <<custody, received>>
      BY <3>1, <3>2
    <3>3. CASE /\ custody >= amount
               /\ custody' = custody - amount
               /\ received' = [received EXCEPT ![a] = @ + amount]
      BY <1>4, <3>1, <3>3
    <3> QED BY <1>3, <3>2, <3>3
  <2>4. accrued' \in [Stakers -> Nat]
    BY <1>1, <1>3 DEF TypeOK
  <2> QED BY <1>1, <1>3, <1>5, <2>1, <2>2, <2>3, <2>4 DEF TypeOK
<1>8. ClaimsOK'
  <2>1. CASE UNCHANGED <<claims, claim>>
    BY <1>1, <2>1 DEF ClaimsOK
  <2>2. CASE Queue(a, amount)
    <3> SUFFICES ASSUME NEW x \in Stakers, NEW n \in Nonces, n > claims'[x]
                 PROVE  claim'[x][n] = NoClaim
      BY DEF ClaimsOK
    <3>1. /\ claim \in [Stakers -> [Nonces -> [amount : Nat, expiresAt : Nat,
                                              status : ClaimStatuses]]]
          /\ claims \in [Stakers -> 0..MaxClaims]
      BY <1>1 DEF TypeOK
    <3>0. n \in Int
      BY DEF Nonces
    <3>2. CASE x # a
      <4>1. claims'[x] = claims[x] /\ claim'[x] = claim[x]
        BY <1>6, <2>2, <3>1, <3>2
      <4> QED BY <1>1, <4>1 DEF ClaimsOK
    <3>3. CASE x = a
      <4>1. claims'[a] = claims[a] + 1
        BY <1>6, <2>2, <3>1
      <4>2. n > claims[a] /\ n # claims[a] + 1
        BY <1>6, <2>2, <3>0, <3>3, <4>1
      <4>3. claim'[a][n] = claim[a][n]
        BY <1>6, <2>2, <3>1, <4>2
      <4> QED BY <1>1, <3>3, <4>2, <4>3 DEF ClaimsOK
    <3> QED BY <3>2, <3>3
  <2> QED BY <1>3, <2>1, <2>2
<1>9. ParticipationSum'
  BY <1>1, <1>3 DEF ParticipationSum
<1>10. Conservation'
  <2>1. accrued \in [Stakers -> Nat] /\ userStake \in [Stakers -> Nat]
        /\ index \in Nat /\ custody \in Nat
    BY <1>1 DEF TypeOK
  <2>2. Growth'[a] = Growth[a] + (0 - Uncredited(a))
    <3>1. Uncredited(a)' = userStake[a] * (index - index)
      BY <1>3, <1>5 DEF Uncredited
    <3>2. Uncredited(a)' = 0
      BY <1>2, <2>1, <3>1
    <3>3. Growth'[a] = Uncredited(a)' /\ Growth[a] = Uncredited(a)
      BY DEF Growth
    <3> QED BY <1>2, <3>2, <3>3
  <2>3. ASSUME NEW x \in Stakers, x # a PROVE Growth'[x] = Growth[x]
    BY <1>3, <1>5, <2>3 DEF Growth, Uncredited
  <2>4. ASSUME NEW x \in Stakers, x # a PROVE Booked'[x] = Booked[x]
    <3>1. claim'[x] = claim[x]
      BY <1>1, <1>3, <1>6, <2>4 DEF TypeOK
    <3>2. PendingOf(x)' = PendingOf(x)
      BY <3>1 DEF PendingOf
    <3> QED BY <1>3, <2>1, <2>4, <3>2 DEF Booked
  <2>5. CASE /\ custody >= amount
             /\ custody' = custody - amount
             /\ UNCHANGED <<claims, claim>>
    <3>1. PendingOf(a)' = PendingOf(a)
      BY <2>5 DEF PendingOf
    <3>2. Booked'[a] = Booked[a] + (0 - accrued[a])
      BY <1>2, <1>3, <2>1, <3>1 DEF Booked
    <3>3. custody' = custody + (0 - amount)
      BY <1>4, <2>1, <2>5
    <3>4. Scale * (0 - accrued[a]) + (0 - Uncredited(a)) <= Scale * (0 - amount)
      <4> DEFINE p == Scale * accrued[a]
                 q == Scale * Earned(a)
      <4>1. /\ Scale * (0 - accrued[a]) = 0 - p /\ p \in Int /\ q \in Int
            /\ Scale * (0 - amount) = 0 - p - q
        BY <1>2, IndexTyped DEF amount
      <4>2. q <= Uncredited(a)
        BY <1>2
      <4> HIDE DEF p, q
      <4> QED BY <1>2, <4>1, <4>2
    <3>5. 0 - accrued[a] \in Int /\ 0 - Uncredited(a) \in Int /\ 0 - amount \in Int
      BY <1>2, <1>4
    <3> QED BY <1>1, <1>3, <1>5, <1>7, <2>2, <2>3, <2>4, <3>2, <3>3, <3>4, <3>5,
               OneStakerConserves
  <2>6. CASE Queue(a, amount) /\ UNCHANGED custody
    <3> DEFINE n == claims[a] + 1
    <3>1. /\ n \in Nonces /\ n > claims[a]
          /\ claim'[a][n] = [amount |-> amount, expiresAt |-> now + ClaimTtl,
                             status |-> "Pending"]
          /\ \A m \in Nonces : m # n => claim'[a][m] = claim[a][m]
      BY <1>1, <1>6, <2>6 DEF TypeOK
    <3> HIDE DEF n
    <3>2. Due(claim'[a][n]) = amount /\ Due(claim[a][n]) = 0
      <4>1. claim[a][n] = NoClaim
        BY <1>1, <3>1 DEF ClaimsOK
      <4> QED BY <3>1, <4>1 DEF Due, NoClaim
    <3>3. PendingOf(a)' = PendingOf(a) + amount - 0
      BY <1>1, <1>7, <3>1, <3>2, PendingChange
    <3>4. Booked'[a] = Booked[a] + Earned(a)
      BY <1>2, <1>3, <2>1, <3>3 DEF Booked, amount
    <3>5. Scale * Earned(a) + (0 - Uncredited(a)) <= Scale * 0
      <4>1. Scale * Earned(a) \in Int
        BY <1>2, IndexTyped
      <4> QED BY <1>2, <4>1, IndexTyped
    <3>6. 0 - Uncredited(a) \in Int /\ Earned(a) \in Int /\ custody' = custody + 0
      BY <1>2, <2>1, <2>6
    <3> QED BY <1>1, <1>3, <1>5, <1>7, <2>2, <2>3, <2>4, <3>4, <3>5, <3>6,
               OneStakerConserves
  <2> QED BY <1>3, <2>5, <2>6
<1> QED BY <1>5, <1>7, <1>8, <1>9, <1>10 DEF IInv

(* A retry that pays a queued claim. *)
LEMMA RetryInv ==
  ASSUME IInv, NEW a \in Stakers, NEW n \in Nonces, claim_queued_withdrawal(a, n)
  PROVE  IInv'
<1> DEFINE amount == claim[a][n].amount
<1>1. TypeOK /\ SnapshotsOK /\ ClaimsOK /\ ParticipationSum /\ Conservation
  BY DEF IInv
<1>2. claim \in [Stakers -> [Nonces -> ClaimRecord]]
  BY <1>1 DEF TypeOK, ClaimRecord
<1>3. /\ claim[a][n].status = "Pending" /\ custody >= amount
      /\ claim' = [claim EXCEPT ![a] = [claim[a] EXCEPT ![n] =
                      [claim[a][n] EXCEPT !.status = "Claimed"]]]
      /\ custody' = custody - amount
      /\ received' = [received EXCEPT ![a] = @ + amount]
      /\ UNCHANGED <<now, userStake, totalStake, listed, index, dust, userIndex,
                     accrued, claims, funded>>
  BY DEF claim_queued_withdrawal, Pay, stakeVars, indexVars
<1>4. amount \in Nat
  BY <1>2 DEF ClaimRecord
<1>5. /\ claim' \in [Stakers -> [Nonces -> ClaimRecord]]
      /\ claim'[a][n].status = "Claimed"
      /\ \A m \in Nonces : m # n => claim'[a][m] = claim[a][m]
      /\ \A x \in Stakers : x # a => claim'[x] = claim[x]
  BY <1>2, <1>3, ClaimMarked, "Claimed" \in ClaimStatuses DEF ClaimStatuses
<1> HIDE DEF amount
<1>6. TypeOK'
  <2>1. custody \in Nat /\ received \in [Stakers -> Nat]
    BY <1>1 DEF TypeOK
  <2>2. custody' \in Nat /\ received' \in [Stakers -> Nat]
    BY <1>3, <1>4, <2>1
  <2> QED BY <1>1, <1>3, <1>5, <2>2 DEF TypeOK, ClaimRecord
<1>7. SnapshotsOK' /\ ParticipationSum'
  BY <1>1, <1>3 DEF SnapshotsOK, ParticipationSum
<1>8. ClaimsOK'
  BY <1>1, <1>3, <1>5 DEF ClaimsOK, NoClaim
<1>9. Conservation'
  <2>1. Due(claim'[a][n]) = 0 /\ Due(claim[a][n]) = amount
    BY <1>3, <1>5 DEF Due, amount
  <2>2. PendingOf(a)' = PendingOf(a) + 0 - amount
    BY <1>1, <1>5, <1>6, <2>1, PendingChange
  <2>3. \A x \in Stakers : Growth'[x] = Growth[x]
    BY <1>3 DEF Growth, Uncredited, Snapshot
  <2>4. ASSUME NEW x \in Stakers, x # a PROVE Booked'[x] = Booked[x]
    BY <1>3, <1>5, <2>4 DEF Booked, PendingOf
  <2>5. accrued[a] \in Nat /\ PendingOf(a) \in Nat /\ custody \in Nat
    BY <1>1, PendingCovers DEF TypeOK
  <2>6. Booked'[a] = Booked[a] + (0 - amount)
    BY <1>3, <1>4, <2>2, <2>5 DEF Booked
  <2>7. Growth'[a] = Growth[a] + 0
    <3>1. Growth[a] \in Int
      BY <1>1, EarnedCovered DEF Growth
    <3> QED BY <2>3, <3>1
  <2>8. custody' = custody + (0 - amount) /\ 0 - amount \in Int
    BY <1>3, <1>4, <2>5
  <2>9. Scale * (0 - amount) + 0 <= Scale * (0 - amount)
    <3>1. Scale * (0 - amount) \in Int
      BY <2>8, IndexTyped
    <3> QED BY <3>1
  <2> QED BY <1>1, <1>3, <1>6, <1>7, <2>3, <2>4, <2>6, <2>7, <2>8, <2>9,
             OneStakerConserves
<1> QED BY <1>6, <1>7, <1>8, <1>9 DEF IInv

(* A cancellation credits the queued amount back. *)
LEMMA CancelInv ==
  ASSUME IInv, NEW a \in Stakers, NEW n \in Nonces, cancel_queued_withdrawal(a, n)
  PROVE  IInv'
<1> DEFINE amount == claim[a][n].amount
<1>1. TypeOK /\ SnapshotsOK /\ ClaimsOK /\ ParticipationSum /\ Conservation
  BY DEF IInv
<1>2. claim \in [Stakers -> [Nonces -> ClaimRecord]]
  BY <1>1 DEF TypeOK, ClaimRecord
<1>3. /\ claim[a][n].status = "Pending"
      /\ claim' = [claim EXCEPT ![a] = [claim[a] EXCEPT ![n] =
                      [claim[a][n] EXCEPT !.status = "Cancelled"]]]
      /\ accrued' = [accrued EXCEPT ![a] = accrued[a] + amount]
      /\ UNCHANGED <<now, userStake, totalStake, listed, index, dust, userIndex,
                     claims, custody, funded, received>>
  BY DEF cancel_queued_withdrawal, stakeVars, indexVars, tokenVars
<1>4. amount \in Nat
  BY <1>2 DEF ClaimRecord
<1>5. /\ claim' \in [Stakers -> [Nonces -> ClaimRecord]]
      /\ claim'[a][n].status = "Cancelled"
      /\ \A m \in Nonces : m # n => claim'[a][m] = claim[a][m]
      /\ \A x \in Stakers : x # a => claim'[x] = claim[x]
  BY <1>2, <1>3, ClaimMarked, "Cancelled" \in ClaimStatuses DEF ClaimStatuses
<1> HIDE DEF amount
<1>6. TypeOK'
  <2>1. accrued \in [Stakers -> Nat]
    BY <1>1 DEF TypeOK
  <2>2. accrued' \in [Stakers -> Nat]
    BY <1>3, <1>4, <2>1
  <2> QED BY <1>1, <1>3, <1>5, <2>2 DEF TypeOK, ClaimRecord
<1>7. SnapshotsOK' /\ ParticipationSum'
  BY <1>1, <1>3 DEF SnapshotsOK, ParticipationSum
<1>8. ClaimsOK'
  BY <1>1, <1>3, <1>5 DEF ClaimsOK, NoClaim
<1>9. Conservation'
  <2>1. Due(claim'[a][n]) = 0 /\ Due(claim[a][n]) = amount
    BY <1>3, <1>5 DEF Due, amount
  <2>2. PendingOf(a)' = PendingOf(a) + 0 - amount
    BY <1>1, <1>5, <1>6, <2>1, PendingChange
  <2>3. \A x \in Stakers : Growth'[x] = Growth[x]
    BY <1>3 DEF Growth, Uncredited, Snapshot
  <2>4. accrued \in [Stakers -> Nat] /\ PendingOf(a) \in Nat /\ custody \in Nat
    BY <1>1, PendingCovers DEF TypeOK
  <2>5. ASSUME NEW x \in Stakers, x # a PROVE Booked'[x] = Booked[x]
    BY <1>3, <1>5, <2>4, <2>5 DEF Booked, PendingOf
  <2>6. Booked'[a] = Booked[a] + 0
    BY <1>3, <1>4, <2>2, <2>4 DEF Booked
  <2>7. Growth'[a] = Growth[a] + 0
    <3>1. Growth[a] \in Int
      BY <1>1, EarnedCovered DEF Growth
    <3> QED BY <2>3, <3>1
  <2>8. custody' = custody + 0
    BY <1>3, <2>4
  <2>9. Scale * 0 + 0 <= Scale * 0
    BY IndexTyped
  <2> QED BY <1>1, <1>3, <1>6, <1>7, <2>3, <2>5, <2>6, <2>7, <2>8, <2>9,
             OneStakerConserves
<1> QED BY <1>6, <1>7, <1>8, <1>9 DEF IInv

LEMMA NextInv == IInv /\ [Next]_vars => IInv'
<1> SUFFICES ASSUME IInv, [Next]_vars PROVE IInv'
  OBVIOUS
<1>1. CASE add_index_reward_asset
  <2>1. /\ ~listed /\ listed' = TRUE
        /\ UNCHANGED <<now, userStake, totalStake, index, dust, userIndex, accrued,
                       claims, claim, custody, funded, received>>
    BY <1>1 DEF add_index_reward_asset, stakeVars, claimVars, tokenVars
  <2>2. Conservation'
    BY <2>1, BooksFrame DEF IInv
  <2> QED BY <2>1, <2>2 DEF IInv, TypeOK, SnapshotsOK, ClaimsOK, ParticipationSum
<1>2. ASSUME NEW amount \in Amounts, fund_index_rewards(amount) PROVE IInv'
  BY <1>2, FundInv
<1>3. ASSUME NEW a \in Stakers, NEW stake \in Stakes, on_stake_change(a, stake)
      PROVE  IInv'
  BY <1>3, StakeChangeInv
<1>4. ASSUME NEW a \in Stakers, NEW pays \in BOOLEAN, claim_index_rewards(a, pays)
      PROVE  IInv'
  BY <1>4, ClaimInv
<1>5. ASSUME NEW a \in Stakers, NEW n \in Nonces, claim_queued_withdrawal(a, n)
      PROVE  IInv'
  BY <1>5, RetryInv
<1>6. ASSUME NEW a \in Stakers, NEW n \in Nonces, cancel_queued_withdrawal(a, n)
      PROVE  IInv'
  BY <1>6, CancelInv
<1>7. CASE Tick \/ UNCHANGED vars
  <2>1. /\ now' \in Nat
        /\ UNCHANGED <<listed, userStake, totalStake, index, dust, userIndex, accrued,
                       claims, claim, custody, funded, received>>
    BY <1>7 DEF Tick, vars, stakeVars, indexVars, claimVars, tokenVars, IInv, TypeOK
  <2>2. Conservation'
    BY <2>1, BooksFrame DEF IInv
  <2> QED BY <2>1, <2>2 DEF IInv, TypeOK, SnapshotsOK, ClaimsOK, ParticipationSum
<1> QED BY <1>1, <1>2, <1>3, <1>4, <1>5, <1>6, <1>7 DEF Next

(* Books that balance cover what everyone could claim. *)
LEMMA BooksCoverClaims ==
  ASSUME IInv
  PROVE  EveryoneCanClaim
<1> DEFINE owed == [a \in 1..N |-> Entitled(a)]
           scaled == [a \in 1..N |-> Scale * Booked[a]]
           most == [a \in 1..N |-> scaled[a] + Growth[a]]
           low == [a \in 1..N |-> Scale * owed[a]]
<1>1. TypeOK /\ SnapshotsOK /\ Conservation
  BY DEF IInv
<1>2. /\ N \in Nat /\ Scale \in Nat \ {0} /\ Stakers = 1..N
      /\ Booked \in [1..N -> Int] /\ Growth \in [1..N -> Int]
      /\ Total(Booked, N) \in Int /\ Total(Growth, N) \in Int
      /\ Scale * Total(Booked, N) + Total(Growth, N) + dust <= Scale * custody
  BY <1>1, Books
<1>3. custody \in Nat /\ dust \in Nat
  BY <1>1 DEF TypeOK
<1>4. ASSUME NEW a \in 1..N
      PROVE  /\ owed[a] \in Int /\ scaled[a] \in Int /\ most[a] \in Int /\ low[a] \in Int
             /\ low[a] <= most[a]
  <2>1. /\ accrued[a] \in Nat /\ PendingOf(a) \in Nat /\ Earned(a) \in Nat
        /\ Uncredited(a) \in Nat /\ Scale * Earned(a) <= Uncredited(a)
    BY <1>1, <1>2, EarnedCovered, PendingCovers DEF TypeOK
  <2>2. /\ Booked[a] = accrued[a] + PendingOf(a) /\ Growth[a] = Uncredited(a)
        /\ owed[a] = Booked[a] + Earned(a)
        /\ Booked[a] \in Int /\ Earned(a) \in Int
    <3>1. a \in Stakers
      BY <1>2
    <3>2. Booked[a] = accrued[a] + PendingOf(a) /\ Growth[a] = Uncredited(a)
      BY <3>1 DEF Booked, Growth
    <3>3. owed[a] = accrued[a] + Earned(a) + PendingOf(a)
      BY DEF Entitled
    <3> QED BY <2>1, <3>2, <3>3
  <2>3. /\ Scale * owed[a] = Scale * Booked[a] + Scale * Earned(a)
        /\ Scale * Booked[a] \in Int /\ Scale * Earned(a) \in Int
    BY <1>2, <2>2, Distribute
  <2> QED BY <2>1, <2>2, <2>3
<1>5. /\ owed \in [1..N -> Int] /\ scaled \in [1..N -> Int]
      /\ most \in [1..N -> Int] /\ low \in [1..N -> Int]
  BY <1>4
<1>6. /\ \A a \in 1..N : scaled[a] = Scale * Booked[a]
      /\ \A a \in 1..N : most[a] = scaled[a] + Growth[a]
      /\ \A a \in 1..N : low[a] = Scale * owed[a]
      /\ \A a \in 1..N : low[a] <= most[a]
  BY <1>4
<1>7. EveryoneCanClaim <=> Total(owed, N) <= custody
  BY <1>2 DEF EveryoneCanClaim
<1> HIDE DEF owed, scaled, most, low
<1>8. Total(scaled, N) = Scale * Total(Booked, N)
  <2>1. N \in Nat /\ Scale \in Int /\ Booked \in [1..N -> Int]
    BY <1>2
  <2>2. scaled \in [1..N -> Int] /\ \A a \in 1..N : scaled[a] = Scale * Booked[a]
    BY <1>5, <1>6
  <2> QED BY <2>1, <2>2, TotalScale
<1>9. Total(most, N) = Total(scaled, N) + Total(Growth, N)
  <2>1. N \in Nat /\ scaled \in [1..N -> Int] /\ Growth \in [1..N -> Int]
    BY <1>2, <1>5
  <2>2. most \in [1..N -> Int] /\ \A a \in 1..N : most[a] = scaled[a] + Growth[a]
    BY <1>5, <1>6
  <2> QED BY <2>1, <2>2, TotalAdd
<1>10. Total(low, N) = Scale * Total(owed, N)
  <2>1. N \in Nat /\ Scale \in Int /\ owed \in [1..N -> Int]
    BY <1>2, <1>5
  <2>2. low \in [1..N -> Int] /\ \A a \in 1..N : low[a] = Scale * owed[a]
    BY <1>5, <1>6
  <2> QED BY <2>1, <2>2, TotalScale
<1>11. Total(low, N) <= Total(most, N)
  <2>1. N \in Nat /\ low \in [1..N -> Int] /\ most \in [1..N -> Int]
    BY <1>2, <1>5
  <2>2. \A a \in 1..N : low[a] <= most[a]
    BY <1>6
  <2> QED BY <2>1, <2>2, TotalLeq
<1>12. Total(owed, N) \in Int
  BY <1>2, <1>5, TotalInt
<1>13. Scale * Total(owed, N) <= Scale * custody
  <2> DEFINE p == Scale * Total(owed, N)
             q == Scale * Total(Booked, N)
             r == Scale * custody
  <2>1. p \in Int /\ q \in Int /\ r \in Int
    BY <1>2, <1>3, <1>12
  <2>2. p <= q + Total(Growth, N) /\ q + Total(Growth, N) + dust <= r
    BY <1>2, <1>8, <1>9, <1>10, <1>11
  <2> HIDE DEF p, q, r
  <2>3. p <= r
    BY <1>2, <1>3, <2>1, <2>2
  <2> QED BY <2>3 DEF p, r
<1>14. \A s, x, y \in Int : s > 0 /\ s * x <= s * y => x <= y
  OBVIOUS
<1> QED BY <1>2, <1>3, <1>7, <1>12, <1>13, <1>14

-----------------------------------------------------------------------------
LEMMA IndexInvariant == Spec => []IInv
BY InitInv, NextInv, PTL DEF Spec

(* reward_index.rs and withdrawal_claims.rs keep their storage well typed: *)
(* no checkpoint credits a negative amount and no payout overdraws.        *)
THEOREM IndexTypeCorrect == Spec => []TypeOK
<1>1. IInv => TypeOK
  BY DEF IInv
<1> QED BY <1>1, IndexInvariant, PTL

(* on_stake_change keeps TotalStake the sum of the stakes it was told of.  *)
THEOREM IndexStakesAddUp == Spec => []ParticipationSum
<1>1. IInv => ParticipationSum
  BY DEF IInv
<1> QED BY <1>1, IndexInvariant, PTL

(* Whatever order the index is funded, checkpointed, claimed, retried and  *)
(* cancelled in, the books never exceed the reward tokens in custody.      *)
THEOREM IndexConserves == Spec => []Conservation
<1>1. IInv => Conservation
  BY DEF IInv
<1> QED BY <1>1, IndexInvariant, PTL

(* claim_index_rewards and claim_queued_withdrawal could pay everyone at   *)
(* once, for any number of stakers, any amounts and any scale.             *)
THEOREM IndexIsSolvent == Spec => []EveryoneCanClaim
<1>1. IInv => EveryoneCanClaim
  BY BooksCoverClaims
<1> QED BY <1>1, IndexInvariant, PTL

-----------------------------------------------------------------------------
(* What a staker was paid, or may still get. *)
Worth(a) == received[a] + Entitled(a)

(* The amounts it is made of. *)
LEMMA WorthNat ==
  ASSUME IInv, NEW a \in Stakers
  PROVE  received[a] \in Nat /\ accrued[a] \in Nat /\ Earned(a) \in Nat /\ PendingOf(a) \in Nat
BY EarnedCovered, PendingCovers DEF IInv, TypeOK

(* Right after a checkpoint the index owes nothing. *)
LEMMA CheckpointedEarnsNothing ==
  ASSUME TypeOK', NEW a \in Stakers, Snapshot(a)' = index'
  PROVE  Earned(a)' = 0
<1>1. userStake'[a] \in Nat /\ index' \in Nat
  BY DEF TypeOK
<1>2. Earned(a)' = (userStake'[a] * (index' - Snapshot(a)')) \div Scale
  BY DEF Earned
<1>3. userStake'[a] * (index' - Snapshot(a)') = 0
  BY <1>1
<1>4. 0 \div Scale = 0
  BY IndexTyped
<1> QED BY <1>2, <1>3, <1>4

(* A step of others leaves a staker's worth alone. *)
LEMMA WorthFrame ==
  ASSUME NEW a \in Stakers, userStake'[a] = userStake[a], Snapshot(a)' = Snapshot(a),
         index' = index, accrued'[a] = accrued[a], claim'[a] = claim[a],
         received'[a] = received[a]
  PROVE  Worth(a)' = Worth(a)
<1>1. Earned(a)' = Earned(a)
  BY DEF Earned
<1>2. PendingOf(a)' = PendingOf(a)
  BY DEF PendingOf
<1> QED BY <1>1, <1>2 DEF Worth, Entitled

LEMMA StakeChangeWorth ==
  ASSUME IInv, NEW a \in Stakers, NEW stake \in Stakes, on_stake_change(a, stake),
         NEW x \in Stakers
  PROVE  Worth(x)' = Worth(x)
<1>1. TypeOK /\ SnapshotsOK /\ TypeOK' /\ stake \in Nat
  BY StakeChangeInv, IndexTyped DEF IInv
<1>2. /\ userStake' = [userStake EXCEPT ![a] = stake] /\ userIndex' = Resnap(a, stake)
      /\ accrued' = [accrued EXCEPT ![a] = accrued[a] + Earned(a)]
      /\ UNCHANGED <<listed, index, claim, received>>
      /\ accrued \in [Stakers -> Nat] /\ userStake \in [Stakers -> Nat]
  BY <1>1 DEF on_stake_change, indexVars, claimVars, tokenVars, TypeOK
<1>3. /\ Snapshot(a)' = index /\ \A y \in Stakers : y # a => Snapshot(y)' = Snapshot(y)
  BY <1>1, <1>2, Resnapped
<1>4. CASE x # a
  BY <1>2, <1>3, <1>4, WorthFrame
<1>5. CASE x = a
  <2>1. Earned(a)' = 0
    BY <1>1, <1>2, <1>3, CheckpointedEarnsNothing
  <2>2. PendingOf(a)' = PendingOf(a) /\ accrued'[a] = accrued[a] + Earned(a)
        /\ received'[a] = received[a]
    BY <1>2 DEF PendingOf
  <2> QED BY <1>5, <2>1, <2>2, WorthNat DEF Worth, Entitled
<1> QED BY <1>4, <1>5

LEMMA ClaimWorth ==
  ASSUME IInv, NEW a \in Stakers, NEW pays \in BOOLEAN, claim_index_rewards(a, pays),
         NEW x \in Stakers
  PROVE  Worth(x)' = Worth(x)
<1> DEFINE amount == accrued[a] + Earned(a)
<1>1. TypeOK /\ SnapshotsOK /\ ClaimsOK /\ TypeOK'
  BY ClaimInv DEF IInv
<1>2. /\ accrued' = [accrued EXCEPT ![a] = 0] /\ userIndex' = Resnap(a, userStake[a])
      /\ UNCHANGED <<userStake, listed, index>>
      /\ \/ received' = [received EXCEPT ![a] = received[a] + amount] /\ UNCHANGED claim
         \/ Queue(a, amount) /\ UNCHANGED received
      /\ accrued \in [Stakers -> Nat] /\ received \in [Stakers -> Nat]
      /\ userStake[a] \in Nat
  BY <1>1 DEF claim_index_rewards, Pay, stakeVars, indexVars, claimVars, tokenVars, TypeOK
<1>3. /\ Snapshot(a)' = index /\ \A y \in Stakers : y # a => Snapshot(y)' = Snapshot(y)
  BY <1>1, <1>2, Resnapped
<1>4. received[a] \in Nat /\ accrued[a] \in Nat /\ Earned(a) \in Nat /\ PendingOf(a) \in Nat
      /\ amount \in Nat
  BY WorthNat
<1>5. Earned(a)' = 0
  BY <1>1, <1>2, <1>3, CheckpointedEarnsNothing
<1> HIDE DEF amount
<1>6. CASE x # a
  <2>1. claim'[x] = claim[x] /\ received'[x] = received[x]
    BY <1>1, <1>2, <1>6 DEF Queue, TypeOK
  <2> QED BY <1>2, <1>3, <1>6, <2>1, WorthFrame
<1>7. CASE x = a /\ received' = [received EXCEPT ![a] = received[a] + amount] /\ UNCHANGED claim
  <2>1. PendingOf(a)' = PendingOf(a) /\ accrued'[a] = 0 /\ received'[a] = received[a] + amount
    BY <1>2, <1>7 DEF PendingOf
  <2> QED BY <1>4, <1>5, <1>7, <2>1 DEF Worth, Entitled, amount
<1>8. CASE x = a /\ Queue(a, amount) /\ UNCHANGED received
  <2> DEFINE n == claims[a] + 1
  <2>1. /\ n \in Nonces /\ n > claims[a]
        /\ claim' = [claim EXCEPT ![a] = [claim[a] EXCEPT ![n] =
                       [amount |-> amount, expiresAt |-> now + ClaimTtl, status |-> "Pending"]]]
    <3>1. /\ claims[a] < MaxClaims
          /\ claim' = [claim EXCEPT ![a] = [claim[a] EXCEPT ![n] =
                       [amount |-> amount, expiresAt |-> now + ClaimTtl, status |-> "Pending"]]]
      BY <1>8 DEF Queue
    <3>2. claims[a] \in 0..MaxClaims
      BY <1>1 DEF TypeOK
    <3>3. n \in Nonces /\ n > claims[a]
      BY <3>1, <3>2, IndexTyped DEF Nonces
    <3> QED BY <3>1, <3>3
  <2> HIDE DEF n
  <2>2. /\ claim'[a][n] = [amount |-> amount, expiresAt |-> now + ClaimTtl, status |-> "Pending"]
        /\ \A m \in Nonces : m # n => claim'[a][m] = claim[a][m]
    BY <1>1, <2>1 DEF TypeOK
  <2>3. Due(claim'[a][n]) = amount /\ Due(claim[a][n]) = 0
    <3>1. claim[a][n] = NoClaim
      BY <1>1, <2>1 DEF ClaimsOK
    <3> QED BY <2>2, <3>1 DEF Due, NoClaim
  <2>4. PendingOf(a)' = PendingOf(a) + amount - 0
    BY <1>1, <2>1, <2>2, <2>3, PendingChange
  <2>5. accrued'[a] = 0 /\ received'[a] = received[a]
    BY <1>2, <1>8
  <2> QED BY <1>4, <1>5, <1>8, <2>4, <2>5 DEF Worth, Entitled, amount
<1> QED BY <1>2, <1>6, <1>7, <1>8

(* A queued claim leaves the queue: it is paid, or credited back. *)
LEMMA SettleWorth ==
  ASSUME IInv, NEW a \in Stakers, NEW n \in Nonces,
         claim_queued_withdrawal(a, n) \/ cancel_queued_withdrawal(a, n), NEW x \in Stakers
  PROVE  Worth(x)' = Worth(x)
<1> DEFINE amount == claim[a][n].amount
<1>1. TypeOK /\ TypeOK' /\ claim \in [Stakers -> [Nonces -> ClaimRecord]]
  BY RetryInv, CancelInv DEF IInv, TypeOK, ClaimRecord
<1>2. PICK status \in {"Claimed", "Cancelled"} :
         /\ claim[a][n].status = "Pending"
         /\ claim' = [claim EXCEPT ![a] = [claim[a] EXCEPT ![n] =
                         [claim[a][n] EXCEPT !.status = status]]]
  BY DEF claim_queued_withdrawal, cancel_queued_withdrawal
<1>3. UNCHANGED <<userStake, index, userIndex>>
  BY DEF claim_queued_withdrawal, cancel_queued_withdrawal, stakeVars, indexVars
<1>4. \/ received' = [received EXCEPT ![a] = received[a] + amount] /\ UNCHANGED accrued
      \/ accrued' = [accrued EXCEPT ![a] = accrued[a] + amount] /\ UNCHANGED received
  BY DEF claim_queued_withdrawal, cancel_queued_withdrawal, Pay, tokenVars
<1>5. amount \in Nat /\ accrued \in [Stakers -> Nat] /\ received \in [Stakers -> Nat]
  BY <1>1 DEF ClaimRecord, TypeOK
<1>6. /\ claim'[a][n].status = status
      /\ \A m \in Nonces : m # n => claim'[a][m] = claim[a][m]
      /\ \A y \in Stakers : y # a => claim'[y] = claim[y]
  <2>1. status \in ClaimStatuses
    BY DEF ClaimStatuses
  <2> QED BY <1>1, <1>2, <2>1, ClaimMarked
<1> HIDE DEF amount
<1>7. \A y \in Stakers : Snapshot(y)' = Snapshot(y) /\ Earned(y)' = Earned(y)
  BY <1>3 DEF Earned, Snapshot
<1>8. CASE x # a
  <2>1. accrued'[x] = accrued[x] /\ received'[x] = received[x]
    BY <1>4, <1>5, <1>8
  <2> QED BY <1>3, <1>6, <1>7, <1>8, <2>1, WorthFrame
<1>9. CASE x = a
  <2>1. Due(claim'[a][n]) = 0 /\ Due(claim[a][n]) = amount
    BY <1>2, <1>6 DEF Due, amount
  <2>2. PendingOf(a)' = PendingOf(a) + 0 - amount
    BY <1>1, <1>6, <2>1, PendingChange
  <2>3. \/ received'[a] = received[a] + amount /\ accrued'[a] = accrued[a]
        \/ accrued'[a] = accrued[a] + amount /\ received'[a] = received[a]
    BY <1>4, <1>5
  <2> QED BY <1>5, <1>7, <1>9, <2>2, <2>3, WorthNat DEF Worth, Entitled
<1> QED BY <1>8, <1>9

LEMMA StepKeepsWorth ==
  ASSUME IInv, Next, funded' = funded, NEW x \in Stakers
  PROVE  Worth(x)' = Worth(x)
<1>1. ASSUME NEW amount \in Amounts, fund_index_rewards(amount)
      PROVE  FALSE
  <2>1. amount \in Nat \ {0} /\ funded \in Nat /\ funded' = funded + amount
    BY <1>1, IndexTyped DEF IInv, TypeOK, fund_index_rewards
  <2> QED BY <2>1
<1>2. CASE add_index_reward_asset \/ Tick
  BY <1>2 DEF add_index_reward_asset, Tick, stakeVars, indexVars, claimVars, tokenVars,
              Worth, Entitled, Earned, Snapshot, PendingOf
<1> QED BY <1>1, <1>2, StakeChangeWorth, ClaimWorth, SettleWorth DEF Next

(* Only funding earns: no stake change, claim, retry or cancellation of    *)
(* anyone (reward_index.rs, withdrawal_claims.rs) moves what a staker was  *)
(* paid or may still get, by as little as one rounding.                    *)
THEOREM IndexEarnsByFunding == Spec => OnlyFundingEarns
<1>1. IInv /\ [Next]_vars =>
        [funded' = funded => \A a \in Stakers :
            received'[a] + Entitled(a)' = received[a] + Entitled(a)]_vars
  BY StepKeepsWorth DEF Worth
<1> QED BY <1>1, IndexInvariant, PTL DEF Spec, OnlyFundingEarns
=============================================================================
