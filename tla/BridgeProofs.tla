---------------------------- MODULE BridgeProofs ----------------------------
(***************************************************************************)
(* Proofs about the bridge's transfers.  The inductive invariant says of   *)
(* every transfer, not only of completed ones, that its message is locked  *)
(* and that no other transfer carries it; that the running total of the    *)
(* day is what that day's transfers move; and that approvals back every    *)
(* transfer that is ready.                                                 *)
(***************************************************************************)
EXTENDS BridgeTransfers, FiniteSetTheorems, SequenceTheorems

(* The tables the properties sum, of any list of transfers. *)
AmountOf(tr, S) == Total([id \in Ids |-> IF id \in S THEN tr[id].amount ELSE 0], MaxTransfers)
Mints(tr) == {id \in DOMAIN tr : tr[id].kind = "LockMint" /\ tr[id].status = "Completed"}
Burns(tr) == {id \in DOMAIN tr : tr[id].kind = "BurnUnlock"}
OfDay(tr, d) == {id \in DOMAIN tr : day_bucket(tr[id].created) = d}

(* initiate_lock_mint_inner locks the message of every mint it starts. *)
MessagesLocked ==
    /\ \A i \in DOMAIN transfers : transfers[i].kind = "LockMint" =>
           transfers[i].msg \in Messages /\ transfers[i].msg \in replay
    /\ \A i, j \in DOMAIN transfers :
           (transfers[i].kind = "LockMint" /\ transfers[j].kind = "LockMint"
              /\ transfers[i].msg = transfers[j].msg) => i = j

SupplyBalanced ==
    /\ totalMinted = Total(balance, N)
    /\ totalMinted = AmountOf(transfers, Mints(transfers)) - AmountOf(transfers, Burns(transfers))

(* DailyVolume counts the transfers of its day, the latest one that has any. *)
DaysCounted ==
    /\ daily.day <= day_bucket(now)
    /\ \A i \in DOMAIN transfers : day_bucket(transfers[i].created) <= daily.day
    /\ daily.total = AmountOf(transfers, OfDay(transfers, daily.day))
    /\ \A d \in Nat : AmountOf(transfers, OfDay(transfers, d)) <= DailyLimit

Backed(r) ==
    r.status \in {"ReadyToExecute", "Completed"} /\ ~r.retried =>
        Cardinality(r.approvals) >= Required
ReadyIsBacked == \A i \in DOMAIN transfers : Backed(transfers[i])

TransferInv ==
    /\ TransferTypeOK /\ Len(transfers) <= MaxTransfers
    /\ MessagesLocked /\ SupplyBalanced /\ DaysCounted /\ ReadyIsBacked

-----------------------------------------------------------------------------
LEMMA BridgeConstants ==
  /\ N \in Nat /\ IsFiniteSet(Validators) /\ MaxTransfers \in Nat /\ MaxTime \in Nat
  /\ Required \in Nat /\ DailyLimit \in Nat /\ Day \in Nat \ {0} /\ Validity \in Nat
  /\ Amounts \subseteq Nat /\ RouteMaxes \subseteq Nat /\ RouteTotals \subseteq Nat
  /\ RouteSpan \in Nat /\ Buffers \subseteq Nat /\ Users = 1..N /\ Ids = 1..MaxTransfers
BY BridgeTyped DEF Users, Ids

LEMMA ListShape ==
  ASSUME NEW tr \in Seq(BridgeTransfer)
  PROVE  /\ DOMAIN tr = 1..Len(tr) /\ Len(tr) \in Nat
         /\ \A i \in DOMAIN tr : tr[i] \in BridgeTransfer /\ tr[i].amount \in Nat
                                 /\ tr[i].created \in Nat /\ tr[i].user \in Users
<1>1. DOMAIN tr = 1..Len(tr) /\ Len(tr) \in Nat /\ \A i \in DOMAIN tr : tr[i] \in BridgeTransfer
  BY LenProperties, ElementOfSeq
<1>2. \A r \in BridgeTransfer : r.amount \in Nat /\ r.created \in Nat /\ r.user \in Users
  BY BridgeConstants DEF BridgeTransfer
<1> QED BY <1>1, <1>2

(* A sum of transfers is an amount. *)
LEMMA AmountNat ==
  ASSUME NEW tr \in Seq(BridgeTransfer), NEW S \in SUBSET (DOMAIN tr)
  PROVE  AmountOf(tr, S) \in Nat
<1> DEFINE f == [id \in Ids |-> IF id \in S THEN tr[id].amount ELSE 0]
<1>1. f \in [1..MaxTransfers -> Nat] /\ MaxTransfers \in Nat
  BY ListShape, BridgeConstants
<1> HIDE DEF f
<1>2. Total(f, MaxTransfers) \in Nat
  BY <1>1, TotalNat
<1> QED BY <1>2 DEF AmountOf, f

(* One more transfer in the sum. *)
LEMMA AmountJoin ==
  ASSUME NEW tr \in Seq(BridgeTransfer), NEW S \in SUBSET (DOMAIN tr), NEW i \in DOMAIN tr,
         i \notin S, Len(tr) <= MaxTransfers
  PROVE  AmountOf(tr, S \cup {i}) = AmountOf(tr, S) + tr[i].amount
<1> DEFINE f == [id \in Ids |-> IF id \in S THEN tr[id].amount ELSE 0]
           h == [id \in Ids |-> IF id \in S \cup {i} THEN tr[id].amount ELSE 0]
<1>1. /\ f \in [1..MaxTransfers -> Int] /\ h \in [1..MaxTransfers -> Int]
      /\ MaxTransfers \in Nat /\ i \in 1..MaxTransfers
      /\ h[i] = tr[i].amount /\ f[i] = 0 /\ tr[i].amount \in Nat
      /\ \A j \in 1..MaxTransfers : j # i => h[j] = f[j]
  BY ListShape, BridgeConstants
<1> HIDE DEF f, h
<1>2. Total(h, MaxTransfers) = Total(f, MaxTransfers) + h[i] - f[i]
  BY <1>1, TotalChange, ZenonT(30)
<1>3. Total(f, MaxTransfers) \in Int
  BY <1>1, TotalInt
<1>4. Total(h, MaxTransfers) = Total(f, MaxTransfers) + tr[i].amount
  BY <1>1, <1>2, <1>3
<1> QED BY <1>4 DEF AmountOf, f, h

(* Sums look at the amounts of their transfers only. *)
LEMMA AmountKeeps ==
  ASSUME NEW tr, NEW up, NEW S, \A i \in S : up[i].amount = tr[i].amount
  PROVE  AmountOf(up, S) = AmountOf(tr, S)
<1>1. [id \in Ids |-> IF id \in S THEN up[id].amount ELSE 0]
      = [id \in Ids |-> IF id \in S THEN tr[id].amount ELSE 0]
  OBVIOUS
<1> QED BY <1>1 DEF AmountOf

(* Starting a transfer. *)
Extended(up, tr, r) ==
    /\ tr \in Seq(BridgeTransfer) /\ r \in BridgeTransfer /\ r.status = "PendingValidators"
    /\ Len(tr) < MaxTransfers /\ up = Append(tr, r)
OneMore(up, tr, r) ==
    /\ up \in Seq(BridgeTransfer) /\ Len(up) = Len(tr) + 1 /\ Len(up) <= MaxTransfers
    /\ DOMAIN up = DOMAIN tr \cup {Len(tr) + 1} /\ Len(tr) + 1 \notin DOMAIN tr
    /\ up[Len(tr) + 1] = r /\ \A i \in DOMAIN tr : up[i] = tr[i]
DaysJoined(up, tr, r) ==
    \A d : AmountOf(up, OfDay(up, d)) = AmountOf(tr, OfDay(tr, d))
              + (IF day_bucket(r.created) = d THEN r.amount ELSE 0)
LEMMA Appended ==
  ASSUME NEW tr, NEW r, NEW up, Extended(up, tr, r)
  PROVE  /\ OneMore(up, tr, r) /\ DaysJoined(up, tr, r)
         /\ AmountOf(up, Mints(up)) = AmountOf(tr, Mints(tr))
         /\ AmountOf(up, Burns(up)) = AmountOf(tr, Burns(tr))
              + (IF r.kind = "BurnUnlock" THEN r.amount ELSE 0)
<1>0. /\ tr \in Seq(BridgeTransfer) /\ r \in BridgeTransfer /\ r.status # "Completed"
      /\ Len(tr) < MaxTransfers /\ up = Append(tr, r)
  BY DEF Extended
<1>1. /\ up \in Seq(BridgeTransfer) /\ Len(up) = Len(tr) + 1
      /\ up[Len(tr) + 1] = r /\ \A i \in 1..Len(tr) : up[i] = tr[i]
  BY <1>0
<1>2. /\ DOMAIN tr = 1..Len(tr) /\ DOMAIN up = 1..(Len(tr) + 1) /\ Len(tr) \in Nat
      /\ MaxTransfers \in Nat
  BY <1>0, <1>1, ListShape, BridgeConstants
<1> DEFINE n == Len(tr) + 1
<1>3. /\ DOMAIN up = DOMAIN tr \cup {n} /\ n \notin DOMAIN tr /\ Len(up) <= MaxTransfers
      /\ up[n] = r /\ \A i \in DOMAIN tr : up[i] = tr[i]
  BY <1>0, <1>1, <1>2
<1> HIDE DEF n
<1>4. ASSUME NEW S \in SUBSET (DOMAIN tr)
      PROVE  /\ AmountOf(up, S) = AmountOf(tr, S)
             /\ AmountOf(up, S \cup {n}) = AmountOf(tr, S) + r.amount
             /\ AmountOf(tr, S) \in Nat
  <2>0. \A i \in S : up[i].amount = tr[i].amount
    BY <1>3
  <2>1. AmountOf(up, S) = AmountOf(tr, S)
    BY <2>0, AmountKeeps
  <2>2. S \in SUBSET (DOMAIN up) /\ n \in DOMAIN up /\ n \notin S
    BY <1>3
  <2>3. AmountOf(up, S \cup {n}) = AmountOf(up, S) + up[n].amount
    BY <1>1, <1>3, <2>2, AmountJoin
  <2> QED BY <1>0, <1>3, <2>1, <2>3, AmountNat
<1>5. Mints(up) = Mints(tr) /\ Mints(tr) \in SUBSET (DOMAIN tr)
  BY <1>0, <1>3 DEF Mints
<1>6. /\ Burns(tr) \in SUBSET (DOMAIN tr)
      /\ Burns(up) = IF r.kind = "BurnUnlock" THEN Burns(tr) \cup {n} ELSE Burns(tr)
  BY <1>3 DEF Burns
<1>7. ASSUME NEW d
      PROVE  /\ OfDay(tr, d) \in SUBSET (DOMAIN tr)
             /\ OfDay(up, d) = IF day_bucket(r.created) = d THEN OfDay(tr, d) \cup {n}
                               ELSE OfDay(tr, d)
  BY <1>3 DEF OfDay
<1>8. AmountOf(up, Mints(up)) = AmountOf(tr, Mints(tr))
  BY <1>4, <1>5
<1>9. AmountOf(up, Burns(up)) = AmountOf(tr, Burns(tr))
         + (IF r.kind = "BurnUnlock" THEN r.amount ELSE 0)
  <2>1. CASE r.kind = "BurnUnlock"
    BY <1>4, <1>6, <2>1
  <2>2. CASE r.kind # "BurnUnlock"
    <3>1. Burns(up) = Burns(tr)
      BY <1>6, <2>2
    <3>2. AmountOf(up, Burns(up)) = AmountOf(tr, Burns(tr)) /\ AmountOf(tr, Burns(tr)) \in Nat
      BY <1>4, <1>6, <3>1
    <3> QED BY <2>2, <3>2
  <2> QED BY <2>1, <2>2
<1>10. \A d : AmountOf(up, OfDay(up, d)) = AmountOf(tr, OfDay(tr, d))
         + (IF day_bucket(r.created) = d THEN r.amount ELSE 0)
  <2> TAKE d
  <2>1. CASE day_bucket(r.created) = d
    BY <1>4, <1>7, <2>1
  <2>2. CASE day_bucket(r.created) # d
    <3>1. OfDay(up, d) = OfDay(tr, d) /\ OfDay(tr, d) \in SUBSET (DOMAIN tr)
      BY <1>7, <2>2
    <3>2. AmountOf(up, OfDay(up, d)) = AmountOf(tr, OfDay(tr, d)) /\ AmountOf(tr, OfDay(tr, d)) \in Nat
      BY <1>4, <3>1
    <3> QED BY <2>2, <3>2
  <2> QED BY <2>1, <2>2
<1>11. OneMore(up, tr, r)
  BY <1>1, <1>3 DEF n, OneMore
<1>12. DaysJoined(up, tr, r)
  BY <1>10 DEF DaysJoined
<1> QED BY <1>8, <1>9, <1>11, <1>12

(* Changing one transfer: its kind, amount, message and date stay. *)
SameDeal(r, t) ==
    r.kind = t.kind /\ r.amount = t.amount /\ r.msg = t.msg /\ r.created = t.created
DealsKept(up, tr) ==
    /\ \A i \in DOMAIN tr : SameDeal(up[i], tr[i])
    /\ Burns(up) = Burns(tr) /\ \A d : OfDay(up, d) = OfDay(tr, d)
    /\ \A S \in SUBSET (DOMAIN tr) : AmountOf(up, S) = AmountOf(tr, S)
LEMMA Updated ==
  ASSUME NEW tr \in Seq(BridgeTransfer), NEW id \in DOMAIN tr, NEW r \in BridgeTransfer,
         SameDeal(r, tr[id]), NEW up, up = [tr EXCEPT ![id] = r]
  PROVE  /\ up \in Seq(BridgeTransfer) /\ Len(up) = Len(tr) /\ DOMAIN up = DOMAIN tr
         /\ up[id] = r /\ \A i \in DOMAIN tr : i # id => up[i] = tr[i]
         /\ DealsKept(up, tr)
<1>1. DOMAIN tr = 1..Len(tr)
  BY ListShape
<1>2. /\ up \in Seq(BridgeTransfer) /\ Len(up) = Len(tr)
      /\ \A j \in 1..Len(tr) : up[j] = IF j = id THEN r ELSE tr[j]
  BY <1>1, ExceptSeq
<1>3. DOMAIN up = DOMAIN tr /\ up[id] = r /\ \A i \in DOMAIN tr : i # id => up[i] = tr[i]
  BY <1>1, <1>2, ListShape
<1>4. \A i \in DOMAIN tr : SameDeal(up[i], tr[i])
  BY <1>3 DEF SameDeal
<1>5. Burns(up) = Burns(tr) /\ \A d : OfDay(up, d) = OfDay(tr, d)
  BY <1>3, <1>4 DEF Burns, OfDay, SameDeal
<1>6. ASSUME NEW S \in SUBSET (DOMAIN tr)
      PROVE  AmountOf(up, S) = AmountOf(tr, S)
  <2>1. \A i \in S : up[i].amount = tr[i].amount
    BY <1>4 DEF SameDeal
  <2> QED BY <2>1, AmountKeeps
<1>7. DealsKept(up, tr)
  BY <1>4, <1>5, <1>6 DEF DealsKept
<1> QED BY <1>2, <1>3, <1>7

(* Calendar days do not go back. *)
LEMMA DaysAdvance ==
  ASSUME NEW t \in Nat
  PROVE  /\ day_bucket(t) \in Nat /\ day_bucket(t) <= day_bucket(t + 1)
<1> DEFINE p == t \div Day
           q == (t + 1) \div Day
<1>1. /\ Day \in Nat \ {0} /\ p \in Nat /\ q \in Nat
      /\ Day * p <= t /\ t < Day * p + Day /\ t + 1 < Day * q + Day
  BY BridgeConstants
<1>2. p <= q
  <2>1. SUFFICES ASSUME q + 1 <= p PROVE FALSE
    BY <1>1
  <2> HIDE DEF p, q
  <2>2. Day * (q + 1) <= Day * p /\ Day * (q + 1) = Day * q + Day
    BY <1>1, <2>1
  <2> QED BY <1>1, <2>2
<1>3. \A x, y \in Nat : x <= y => x * Day <= y * Day
  BY <1>1
<1>4. p * Day \in Nat /\ p * Day <= q * Day
  BY <1>1, <1>2, <1>3
<1> QED BY <1>4 DEF day_bucket

-----------------------------------------------------------------------------
LEMMA AmountEmpty ==
  ASSUME NEW tr
  PROVE  AmountOf(tr, {}) = 0
<1>1. [id \in Ids |-> IF id \in {} THEN tr[id].amount ELSE 0] = [id \in 1..MaxTransfers |-> 0]
  BY BridgeConstants
<1>2. Total([id \in 1..MaxTransfers |-> 0], MaxTransfers) = 0
  BY TotalZero, BridgeConstants
<1> QED BY <1>1, <1>2 DEF AmountOf

(* validate_amount_and_limits counts a new transfer on its calendar day.   *)
LEMMA StartCounted ==
  ASSUME TransferInv, NEW r \in BridgeTransfer, r.status = "PendingValidators",
         r.created = now, Len(transfers) < MaxTransfers,
         transfers' = Append(transfers, r), validate_amount_and_limits(r.amount), now' = now
  PROVE  DaysCounted' /\ daily' \in [day : Nat, total : Nat]
<1> DEFINE b == day_bucket(now)
<1>1. /\ transfers \in Seq(BridgeTransfer) /\ daily \in [day : Nat, total : Nat]
      /\ r.amount \in Nat /\ DailyLimit \in Nat /\ now \in Nat
  BY BridgeConstants DEF TransferInv, TransferTypeOK, BridgeTransfer
<1>2. b \in Nat
  BY <1>1, DaysAdvance
<1>3. /\ DOMAIN transfers' = DOMAIN transfers \cup {Len(transfers) + 1}
      /\ transfers'[Len(transfers) + 1] = r
      /\ \A i \in DOMAIN transfers : transfers'[i] = transfers[i]
      /\ \A d : AmountOf(transfers', OfDay(transfers', d)) = AmountOf(transfers, OfDay(transfers, d))
              + (IF b = d THEN r.amount ELSE 0)
  <2>1. Extended(transfers', transfers, r)
    BY <1>1 DEF Extended
  <2> HIDE DEF b
  <2>2. OneMore(transfers', transfers, r) /\ DaysJoined(transfers', transfers, r)
    BY <2>1, Appended
  <2> QED BY <2>2 DEF b, OneMore, DaysJoined
<1>4. /\ daily.day <= b /\ daily.day \in Nat /\ daily.total \in Nat
      /\ \A i \in DOMAIN transfers : day_bucket(transfers[i].created) <= daily.day
      /\ daily.total = AmountOf(transfers, OfDay(transfers, daily.day))
      /\ \A d \in Nat : AmountOf(transfers, OfDay(transfers, d)) <= DailyLimit
  BY <1>1 DEF TransferInv, DaysCounted
<1>5. /\ daily'.day = b
      /\ daily'.total = (IF daily.day = b THEN daily.total ELSE 0) + r.amount
      /\ daily'.total <= DailyLimit /\ daily' \in [day : Nat, total : Nat]
  <2> DEFINE v == DailyAt(now)
  <2>1. /\ v \in [day : Nat, total : Nat] /\ v.day = b
        /\ v.total = IF daily.day = b THEN daily.total ELSE 0
    BY <1>1, <1>2 DEF DailyAt
  <2>2. v.total + r.amount <= DailyLimit /\ daily' = [v EXCEPT !.total = v.total + r.amount]
    BY DEF validate_amount_and_limits
  <2> HIDE DEF v, b
  <2> QED BY <1>1, <2>1, <2>2
<1> HIDE DEF b
<1>6. AmountOf(transfers, OfDay(transfers, b)) = IF daily.day = b THEN daily.total ELSE 0
  <2>1. CASE daily.day = b
    BY <1>4, <2>1
  <2>2. CASE daily.day # b
    <3>1. ASSUME NEW i \in DOMAIN transfers PROVE day_bucket(transfers[i].created) # b
      <4>1. transfers[i].created \in Nat
        BY <1>1, ListShape
      <4>2. day_bucket(transfers[i].created) \in Nat
        BY <4>1, DaysAdvance
      <4> QED BY <1>2, <1>4, <2>2, <4>2
    <3>2. OfDay(transfers, b) = {}
      BY <3>1 DEF OfDay
    <3> QED BY <2>2, <3>2, AmountEmpty
  <2> QED BY <2>1, <2>2
<1>7. AmountOf(transfers', OfDay(transfers', b)) = daily'.total
  BY <1>3, <1>5, <1>6
<1>8. ASSUME NEW d \in Nat
      PROVE  AmountOf(transfers', OfDay(transfers', d)) <= DailyLimit
  <2>1. CASE d = b
    BY <1>5, <1>7, <2>1
  <2>2. CASE d # b
    <3>1. OfDay(transfers, d) \in SUBSET (DOMAIN transfers)
      BY DEF OfDay
    <3>2. AmountOf(transfers, OfDay(transfers, d)) \in Nat
      BY <1>1, <3>1, AmountNat
    <3>3. AmountOf(transfers', OfDay(transfers', d)) = AmountOf(transfers, OfDay(transfers, d)) + 0
      BY <1>3, <2>2, Zenon
    <3> QED BY <1>4, <3>2, <3>3
  <2> QED BY <2>1, <2>2
<1>9. ASSUME NEW i \in DOMAIN transfers'
      PROVE  day_bucket(transfers'[i].created) <= b
  <2>1. CASE i = Len(transfers) + 1
    BY <1>2, <1>3, <2>1 DEF b
  <2>2. CASE i # Len(transfers) + 1
    <3>1. i \in DOMAIN transfers /\ transfers'[i] = transfers[i]
      BY <1>3, <2>2
    <3>2. day_bucket(transfers[i].created) <= daily.day
      BY <1>4, <3>1
    <3>3. transfers[i].created \in Nat
      BY <1>1, <3>1, ListShape
    <3>4. day_bucket(transfers[i].created) \in Nat
      BY <3>3, DaysAdvance
    <3> QED BY <1>2, <1>4, <3>1, <3>2, <3>4
  <2> QED BY <2>1, <2>2
<1>10. b <= day_bucket(now')
  BY <1>2 DEF b
<1> QED BY <1>5, <1>7, <1>8, <1>9, <1>10 DEF DaysCounted

(* A new transfer has no approvals and is not ready. *)
LEMMA StartBacked ==
  ASSUME TransferInv, NEW r \in BridgeTransfer, r.status = "PendingValidators",
         Len(transfers) < MaxTransfers, transfers' = Append(transfers, r)
  PROVE  /\ transfers' \in Seq(BridgeTransfer) /\ Len(transfers') <= MaxTransfers
         /\ ReadyIsBacked'
<1>1. Extended(transfers', transfers, r)
  BY DEF TransferInv, TransferTypeOK, Extended
<1>2. /\ transfers' \in Seq(BridgeTransfer) /\ Len(transfers') <= MaxTransfers
      /\ DOMAIN transfers' = DOMAIN transfers \cup {Len(transfers) + 1}
      /\ transfers'[Len(transfers) + 1] = r
      /\ \A i \in DOMAIN transfers : transfers'[i] = transfers[i]
  <2>1. OneMore(transfers', transfers, r)
    BY <1>1, Appended
  <2> QED BY <2>1 DEF OneMore
<1>3. \A i \in DOMAIN transfers : Backed(transfers[i])
  BY DEF TransferInv, ReadyIsBacked
<1>4. Backed(r)
  BY DEF Backed
<1>5. \A i \in DOMAIN transfers' : Backed(transfers'[i])
  BY <1>2, <1>3, <1>4
<1> QED BY <1>2, <1>5 DEF ReadyIsBacked

LEMMA WindowTyped ==
  ASSUME TransferInv, NEW amount \in Amounts, validate_amount_and_limits(amount)
  PROVE  window' \in [start : Nat, total : Nat] \cup {None}
<1>1. /\ window \in [start : Nat, total : Nat] \cup {None} /\ now \in Nat /\ amount \in Nat
  BY BridgeConstants DEF TransferInv, TransferTypeOK
<1>2. CASE Windowed
  <2>1. WindowAt(now) \in [start : Nat, total : Nat]
    BY <1>1 DEF WindowAt
  <2>2. window' = [WindowAt(now) EXCEPT !.total = @ + amount]
    BY <1>2 DEF validate_amount_and_limits
  <2> QED BY <1>1, <2>1, <2>2
<1>3. CASE ~Windowed
  BY <1>1, <1>3 DEF validate_amount_and_limits
<1> QED BY <1>2, <1>3

(* initiate_lock_mint_inner: a fresh message, locked by the call. *)
LEMMA MintStarts ==
  ASSUME TransferInv, NEW u \in Users, NEW amount \in Amounts, NEW msg \in Messages,
         NEW expires \in Nat, initiate_lock_mint_inner(u, amount, msg, expires)
  PROVE  TransferInv'
<1> DEFINE r == NewTransfer("LockMint", u, amount, msg, expires)
<1>1. /\ transfers' = Append(transfers, r) /\ validate_amount_and_limits(amount)
      /\ now' = now /\ Len(transfers) < MaxTransfers /\ msg \notin replay
      /\ replay' = replay \cup {msg} /\ balance' = balance /\ totalMinted' = totalMinted
      /\ consumed' = consumed /\ UNCHANGED adminVars
  BY DEF initiate_lock_mint_inner, ledgerVars
<1>2. /\ r \in BridgeTransfer /\ r.status = "PendingValidators" /\ r.created = now
      /\ r.amount = amount /\ r.kind = "LockMint" /\ r.msg = msg
  BY DEF NewTransfer, BridgeTransfer, TransferInv, TransferTypeOK
<1> HIDE DEF r
<1>3. DaysCounted' /\ daily' \in [day : Nat, total : Nat]
  BY <1>1, <1>2, StartCounted
<1>4. transfers' \in Seq(BridgeTransfer) /\ Len(transfers') <= MaxTransfers /\ ReadyIsBacked'
  BY <1>1, <1>2, StartBacked
<1>5. window' \in [start : Nat, total : Nat] \cup {None}
  BY <1>1, WindowTyped
<1>6. TransferTypeOK'
  BY <1>1, <1>3, <1>4, <1>5 DEF TransferInv, TransferTypeOK, adminVars
<1>7. Extended(transfers', transfers, r)
  BY <1>1, <1>2 DEF Extended, TransferInv, TransferTypeOK
<1>8. MessagesLocked'
  <2>1. /\ DOMAIN transfers' = DOMAIN transfers \cup {Len(transfers) + 1}
        /\ transfers'[Len(transfers) + 1] = r
        /\ \A i \in DOMAIN transfers : transfers'[i] = transfers[i]
    <3>1. OneMore(transfers', transfers, r)
      BY <1>7, Appended
    <3> QED BY <3>1 DEF OneMore
  <2>2. /\ \A i \in DOMAIN transfers : transfers[i].kind = "LockMint" =>
             transfers[i].msg \in Messages /\ transfers[i].msg \in replay
        /\ \A i, j \in DOMAIN transfers :
             (transfers[i].kind = "LockMint" /\ transfers[j].kind = "LockMint"
                /\ transfers[i].msg = transfers[j].msg) => i = j
    BY DEF TransferInv, MessagesLocked
  <2>3. ASSUME NEW i \in DOMAIN transfers', transfers'[i].kind = "LockMint"
        PROVE  transfers'[i].msg \in Messages /\ transfers'[i].msg \in replay'
    BY <1>1, <1>2, <2>1, <2>2, <2>3
  <2>4. ASSUME NEW i \in DOMAIN transfers', NEW j \in DOMAIN transfers',
               transfers'[i].kind = "LockMint", transfers'[j].kind = "LockMint",
               transfers'[i].msg = transfers'[j].msg
        PROVE  i = j
    BY <1>1, <1>2, <2>1, <2>2, <2>4
  <2> QED BY <2>3, <2>4 DEF MessagesLocked
<1>9. SupplyBalanced'
  <2>1. AmountOf(transfers', Mints(transfers')) = AmountOf(transfers, Mints(transfers))
    BY <1>7, Appended
  <2>2. AmountOf(transfers', Burns(transfers')) = AmountOf(transfers, Burns(transfers)) + 0
    <3>1. (IF r.kind = "BurnUnlock" THEN r.amount ELSE 0) = 0
      BY <1>2
    <3> QED BY <1>7, <3>1, Appended, Zenon
  <2>3. AmountOf(transfers, Burns(transfers)) \in Nat
    <3>1. Burns(transfers) \in SUBSET (DOMAIN transfers)
      BY DEF Burns
    <3> QED BY <3>1, AmountNat DEF TransferInv, TransferTypeOK
  <2>4. AmountOf(transfers', Burns(transfers')) = AmountOf(transfers, Burns(transfers))
    BY <2>2, <2>3
  <2> QED BY <1>1, <2>1, <2>4 DEF SupplyBalanced, TransferInv
<1> QED BY <1>3, <1>4, <1>6, <1>8, <1>9 DEF TransferInv

(* initiate_burn_unlock: the amount leaves the user and the supply. *)
LEMMA BurnStarts ==
  ASSUME TransferInv, NEW u \in Users, NEW amount \in Amounts,
         initiate_burn_unlock(u, amount)
  PROVE  TransferInv'
<1> DEFINE r == NewTransfer("BurnUnlock", u, amount, NoMessage, 0)
<1>1. /\ transfers' = Append(transfers, r) /\ validate_amount_and_limits(amount)
      /\ now' = now /\ Len(transfers) < MaxTransfers /\ balance[u] >= amount
      /\ balance' = [balance EXCEPT ![u] = balance[u] - amount]
      /\ totalMinted' = totalMinted - amount
      /\ replay' = replay /\ consumed' = consumed /\ UNCHANGED adminVars
  BY DEF initiate_burn_unlock
<1>2. /\ r \in BridgeTransfer /\ r.status = "PendingValidators" /\ r.created = now
      /\ r.amount = amount /\ r.kind = "BurnUnlock"
  BY DEF NewTransfer, BridgeTransfer, TransferInv, TransferTypeOK
<1> HIDE DEF r
<1>3. DaysCounted' /\ daily' \in [day : Nat, total : Nat]
  BY <1>1, <1>2, StartCounted
<1>4. transfers' \in Seq(BridgeTransfer) /\ Len(transfers') <= MaxTransfers /\ ReadyIsBacked'
  BY <1>1, <1>2, StartBacked
<1>5. window' \in [start : Nat, total : Nat] \cup {None}
  BY <1>1, WindowTyped
<1>6. /\ balance \in [1..N -> Nat] /\ N \in Nat /\ u \in 1..N /\ amount \in Nat
      /\ totalMinted \in Nat /\ totalMinted = Total(balance, N)
  BY BridgeConstants DEF TransferInv, TransferTypeOK, SupplyBalanced
<1>7. /\ balance' \in [1..N -> Nat]
      /\ totalMinted' \in Nat /\ totalMinted' = Total(balance', N)
  <2>1. balance' \in [1..N -> Nat] /\ balance \in [1..N -> Int]
    BY <1>1, <1>6
  <2>2. /\ balance' \in [1..N -> Int] /\ balance'[u] = balance[u] - amount /\ balance[u] \in Nat
        /\ \A i \in 1..N : i # u => balance'[i] = balance[i]
    BY <1>1, <1>6, <2>1
  <2>3. Total(balance', N) = Total(balance, N) + balance'[u] - balance[u]
    BY <1>6, <2>1, <2>2, TotalChange
  <2>4. Total(balance', N) \in Nat
    BY <1>6, <2>1, TotalNat
  <2>5. Total(balance', N) = totalMinted - amount
    <3>1. balance'[u] - balance[u] = 0 - amount /\ balance'[u] \in Int /\ balance[u] \in Int
      BY <1>6, <2>2
    <3> QED BY <1>6, <2>3, <3>1
  <2>6. totalMinted' = totalMinted - amount
    BY <1>1
  <2> QED BY <2>1, <2>4, <2>5, <2>6
<1>8. TransferTypeOK'
  BY <1>1, <1>3, <1>4, <1>5, <1>7, BridgeConstants DEF TransferInv, TransferTypeOK, adminVars
<1>9. Extended(transfers', transfers, r)
  BY <1>1, <1>2 DEF Extended, TransferInv, TransferTypeOK
<1>10. MessagesLocked'
  <2>1. /\ DOMAIN transfers' = DOMAIN transfers \cup {Len(transfers) + 1}
        /\ transfers'[Len(transfers) + 1] = r
        /\ \A i \in DOMAIN transfers : transfers'[i] = transfers[i]
    <3>1. OneMore(transfers', transfers, r)
      BY <1>9, Appended
    <3> QED BY <3>1 DEF OneMore
  <2>2. \A i \in DOMAIN transfers' :
            transfers'[i].kind = "LockMint" => i \in DOMAIN transfers /\ transfers'[i] = transfers[i]
    BY <1>2, <2>1
  <2> QED BY <1>1, <2>2 DEF TransferInv, MessagesLocked
<1>11. SupplyBalanced'
  <2>1. AmountOf(transfers', Mints(transfers')) = AmountOf(transfers, Mints(transfers))
    BY <1>9, Appended
  <2>2. AmountOf(transfers', Burns(transfers')) = AmountOf(transfers, Burns(transfers)) + amount
    <3>1. (IF r.kind = "BurnUnlock" THEN r.amount ELSE 0) = amount
      BY <1>2
    <3> QED BY <1>9, <3>1, Appended, Zenon
  <2>3. AmountOf(transfers, Burns(transfers)) \in Nat /\ AmountOf(transfers, Mints(transfers)) \in Nat
    <3>1. /\ Burns(transfers) \in SUBSET (DOMAIN transfers)
          /\ Mints(transfers) \in SUBSET (DOMAIN transfers)
      BY DEF Burns, Mints
    <3> QED BY <3>1, AmountNat DEF TransferInv, TransferTypeOK
  <2>4. totalMinted = AmountOf(transfers, Mints(transfers)) - AmountOf(transfers, Burns(transfers))
    BY DEF TransferInv, SupplyBalanced
  <2>5. totalMinted' = AmountOf(transfers', Mints(transfers')) - AmountOf(transfers', Burns(transfers'))
    BY <1>1, <1>6, <2>1, <2>2, <2>3, <2>4
  <2> QED BY <1>7, <2>5 DEF SupplyBalanced
<1> QED BY <1>3, <1>4, <1>8, <1>10, <1>11 DEF TransferInv

-----------------------------------------------------------------------------
(* Steps on one transfer. *)
Moved(id, r) ==
    /\ id \in DOMAIN transfers /\ r \in BridgeTransfer /\ SameDeal(r, transfers[id]) /\ Backed(r)
    /\ transfers' = [transfers EXCEPT ![id] = r]
    /\ now' = now /\ daily' = daily /\ replay' = replay

LEMMA MoveKeeps ==
  ASSUME TransferInv, NEW id, NEW r, Moved(id, r)
  PROVE  /\ transfers' \in Seq(BridgeTransfer) /\ Len(transfers') <= MaxTransfers
         /\ MessagesLocked' /\ DaysCounted' /\ ReadyIsBacked'
         /\ DOMAIN transfers' = DOMAIN transfers /\ transfers'[id] = r
         /\ \A i \in DOMAIN transfers : i # id => transfers'[i] = transfers[i]
         /\ \A i \in DOMAIN transfers : SameDeal(transfers'[i], transfers[i])
         /\ AmountOf(transfers', Burns(transfers')) = AmountOf(transfers, Burns(transfers))
         /\ \A S \in SUBSET (DOMAIN transfers) : AmountOf(transfers', S) = AmountOf(transfers, S)
<1>0. /\ transfers \in Seq(BridgeTransfer) /\ id \in DOMAIN transfers /\ r \in BridgeTransfer
      /\ SameDeal(r, transfers[id]) /\ transfers' = [transfers EXCEPT ![id] = r]
      /\ Len(transfers) <= MaxTransfers
  BY DEF TransferInv, TransferTypeOK, Moved
<1>1. /\ transfers' \in Seq(BridgeTransfer) /\ Len(transfers') = Len(transfers)
      /\ DOMAIN transfers' = DOMAIN transfers
      /\ transfers'[id] = r /\ \A i \in DOMAIN transfers : i # id => transfers'[i] = transfers[i]
  BY <1>0, Updated
<1>2. /\ \A i \in DOMAIN transfers : SameDeal(transfers'[i], transfers[i])
      /\ Burns(transfers') = Burns(transfers)
      /\ \A d : OfDay(transfers', d) = OfDay(transfers, d)
      /\ \A S \in SUBSET (DOMAIN transfers) : AmountOf(transfers', S) = AmountOf(transfers, S)
  <2>1. DealsKept(transfers', transfers)
    BY <1>0, Updated
  <2> QED BY <2>1 DEF DealsKept
<1>3. MessagesLocked'
  <2>1. replay' = replay
    BY DEF Moved
  <2>2. \A i \in DOMAIN transfers : transfers'[i].kind = transfers[i].kind
                                    /\ transfers'[i].msg = transfers[i].msg
    BY <1>2 DEF SameDeal
  <2> QED BY <1>1, <2>1, <2>2 DEF TransferInv, MessagesLocked
<1>4. DaysCounted'
  <2>1. now' = now /\ daily' = daily
    BY DEF Moved
  <2>2. \A d : AmountOf(transfers', OfDay(transfers', d)) = AmountOf(transfers, OfDay(transfers, d))
    <3> TAKE d
    <3>1. OfDay(transfers, d) \in SUBSET (DOMAIN transfers)
      BY DEF OfDay
    <3> QED BY <1>2, <3>1
  <2>3. \A i \in DOMAIN transfers : transfers'[i].created = transfers[i].created
    BY <1>2 DEF SameDeal
  <2> QED BY <1>1, <2>1, <2>2, <2>3 DEF TransferInv, DaysCounted
<1>5. ReadyIsBacked'
  <2>1. Backed(r)
    BY DEF Moved
  <2> QED BY <1>1, <2>1 DEF TransferInv, ReadyIsBacked
<1>6. AmountOf(transfers', Burns(transfers')) = AmountOf(transfers, Burns(transfers))
  <2>1. Burns(transfers) \in SUBSET (DOMAIN transfers)
    BY DEF Burns
  <2> QED BY <1>2, <2>1
<1> QED BY <1>0, <1>1, <1>2, <1>3, <1>4, <1>5, <1>6

(* Every step on one transfer but a mint leaves the supply alone. *)
LEMMA MoveInv ==
  ASSUME TransferInv, NEW id, NEW r, Moved(id, r),
         transfers[id].kind = "LockMint" => r.status # "Completed" /\ transfers[id].status # "Completed",
         UNCHANGED <<ledgerVars, volumeVars, replay, consumed, adminVars>>
  PROVE  TransferInv'
<1>1. /\ transfers' \in Seq(BridgeTransfer) /\ Len(transfers') <= MaxTransfers
      /\ MessagesLocked' /\ DaysCounted' /\ ReadyIsBacked'
  BY MoveKeeps
<1>2. /\ DOMAIN transfers' = DOMAIN transfers /\ transfers'[id] = r
      /\ \A i \in DOMAIN transfers : i # id => transfers'[i] = transfers[i]
      /\ AmountOf(transfers', Burns(transfers')) = AmountOf(transfers, Burns(transfers))
      /\ \A S \in SUBSET (DOMAIN transfers) : AmountOf(transfers', S) = AmountOf(transfers, S)
  BY MoveKeeps
<1>3. id \in DOMAIN transfers /\ r.kind = transfers[id].kind
  BY DEF Moved, SameDeal
<1>4. Mints(transfers') = Mints(transfers) /\ Mints(transfers) \in SUBSET (DOMAIN transfers)
  BY <1>2, <1>3 DEF Mints
<1>5. SupplyBalanced'
  <2>1. AmountOf(transfers', Mints(transfers')) = AmountOf(transfers, Mints(transfers))
    BY <1>2, <1>4
  <2> QED BY <1>2, <2>1 DEF TransferInv, SupplyBalanced, ledgerVars
<1>6. TransferTypeOK'
  BY <1>1 DEF TransferInv, TransferTypeOK, Moved, ledgerVars, volumeVars, adminVars
<1> QED BY <1>1, <1>5, <1>6 DEF TransferInv

(* A transfer keeps its shape in every step on it. *)
LEMMA TransferFields ==
  ASSUME NEW t \in BridgeTransfer
  PROVE  /\ t.kind \in {"LockMint", "BurnUnlock"} /\ t.user \in Users /\ t.amount \in Nat
         /\ t.approvals \in SUBSET Validators /\ t.retried \in BOOLEAN
         /\ t.status \in {"PendingValidators", "ReadyToExecute", "Completed", "Failed"}
BY BridgeConstants DEF BridgeTransfer

LEMMA ApprovedKeeps ==
  ASSUME NEW t \in BridgeTransfer, NEW v \in Validators, Backed(t), t.status # "Completed"
  PROVE  /\ Approved(t, v) \in BridgeTransfer /\ SameDeal(Approved(t, v), t)
         /\ Backed(Approved(t, v)) /\ Approved(t, v).status # "Completed"
<1> DEFINE given == t.approvals \cup {v}
           st == IF has_quorum(given) THEN "ReadyToExecute" ELSE t.status
           r == [t EXCEPT !.approvals = given, !.status = st]
<1>1. r = Approved(t, v)
  BY DEF Approved
<1>2. given \in SUBSET Validators /\ t.approvals \subseteq given /\ t.approvals \in SUBSET Validators
  BY TransferFields
<1>3. st \in {"PendingValidators", "ReadyToExecute", "Completed", "Failed"} /\ st # "Completed"
  BY TransferFields
<1>4. /\ r \in BridgeTransfer /\ SameDeal(r, t) /\ r.status = st /\ r.approvals = given
      /\ r.retried = t.retried
  <2> HIDE DEF given, st
  <2>1. r \in BridgeTransfer
    BY <1>2, <1>3 DEF BridgeTransfer
  <2>2. SameDeal(r, t) /\ r.status = st /\ r.approvals = given /\ r.retried = t.retried
    BY DEF SameDeal, BridgeTransfer
  <2> QED BY <2>1, <2>2
<1>5. IsFiniteSet(given) /\ IsFiniteSet(t.approvals)
  BY <1>2, BridgeConstants, FS_Subset
<1>6. Cardinality(t.approvals) <= Cardinality(given) /\ Cardinality(t.approvals) \in Nat
      /\ Cardinality(given) \in Nat
  BY <1>2, <1>5, FS_Subset, FS_CardinalityType
<1>7. Backed(r)
  <2> HIDE DEF given, r
  <2>1. CASE has_quorum(given)
    BY <1>4, <2>1 DEF Backed, has_quorum
  <2>2. CASE ~has_quorum(given)
    <3>1. ~(Cardinality(t.approvals) >= Required)
      BY <1>6, <2>2, BridgeConstants DEF has_quorum
    <3>2. st = t.status
      BY <2>2
    <3> QED BY <1>4, <3>1, <3>2 DEF Backed
  <2> QED BY <2>1, <2>2
<1> HIDE DEF r, st
<1> QED BY <1>1, <1>3, <1>4, <1>7

LEMMA ExecutedKeeps ==
  ASSUME NEW t \in BridgeTransfer, Backed(t), t.status = "ReadyToExecute"
  PROVE  /\ Executed(t) \in BridgeTransfer /\ SameDeal(Executed(t), t)
         /\ Backed(Executed(t)) /\ Executed(t).status = "Completed"
<1>1. Executed(t) \in BridgeTransfer
  BY DEF Executed, BridgeTransfer
<1>2. /\ SameDeal(Executed(t), t) /\ Executed(t).status = "Completed"
      /\ Executed(t).retried = t.retried /\ Executed(t).approvals = t.approvals
  BY DEF Executed, BridgeTransfer, SameDeal
<1> QED BY <1>1, <1>2 DEF Backed

(* execute_lock_mint: the amount reaches the user and the supply. *)
LEMMA MintLands ==
  ASSUME TransferInv, NEW id \in DOMAIN transfers, execute_lock_mint(id)
  PROVE  TransferInv'
<1> DEFINE t == transfers[id]
           r == Executed(t)
<1>0. t \in BridgeTransfer /\ Backed(t) /\ t.user \in Users /\ t.amount \in Nat /\ t.msg \in Messages
      /\ t.kind = "LockMint" /\ t.status = "ReadyToExecute"
  <2>1. t.kind = "LockMint" /\ t.status = "ReadyToExecute"
    BY DEF execute_lock_mint
  <2>2. t \in BridgeTransfer /\ t.user \in Users /\ t.amount \in Nat
    BY ListShape DEF TransferInv, TransferTypeOK
  <2>3. Backed(t) /\ t.msg \in Messages
    BY <2>1 DEF TransferInv, ReadyIsBacked, MessagesLocked
  <2> QED BY <2>1, <2>2, <2>3
<1>1. /\ transfers' = [transfers EXCEPT ![id] = r]
      /\ balance' = [balance EXCEPT ![t.user] = balance[t.user] + t.amount]
      /\ totalMinted' = totalMinted + t.amount
      /\ consumed' = consumed \cup {<<deployment, t.msg>>}
      /\ now' = now /\ daily' = daily /\ replay' = replay /\ window' = window /\ UNCHANGED adminVars
  BY DEF execute_lock_mint, volumeVars
<1> HIDE DEF t
<1>2. r \in BridgeTransfer /\ SameDeal(r, t) /\ Backed(r) /\ r.status = "Completed"
  BY <1>0, ExecutedKeeps
<1> HIDE DEF r
<1>3. Moved(id, r)
  BY <1>1, <1>2 DEF Moved, t
<1>4. /\ transfers' \in Seq(BridgeTransfer) /\ Len(transfers') <= MaxTransfers
      /\ MessagesLocked' /\ DaysCounted' /\ ReadyIsBacked'
  BY <1>3, MoveKeeps
<1>5. /\ DOMAIN transfers' = DOMAIN transfers /\ transfers'[id] = r
      /\ \A i \in DOMAIN transfers : i # id => transfers'[i] = transfers[i]
      /\ AmountOf(transfers', Burns(transfers')) = AmountOf(transfers, Burns(transfers))
      /\ \A S \in SUBSET (DOMAIN transfers) : AmountOf(transfers', S) = AmountOf(transfers, S)
  BY <1>3, MoveKeeps
<1>6. /\ Mints(transfers) \in SUBSET (DOMAIN transfers) /\ id \notin Mints(transfers)
      /\ Mints(transfers') = Mints(transfers) \cup {id}
  <2>1. r.kind = "LockMint" /\ transfers[id].status # "Completed"
    BY <1>0, <1>2 DEF SameDeal, t
  <2> QED BY <1>2, <1>5, <2>1 DEF Mints
<1>7. AmountOf(transfers', Mints(transfers')) = AmountOf(transfers, Mints(transfers)) + t.amount
  <2> DEFINE S == Mints(transfers)
  <2>1. S \in SUBSET (DOMAIN transfers') /\ id \in DOMAIN transfers' /\ id \notin S
    BY <1>5, <1>6
  <2>2. AmountOf(transfers', S \cup {id}) = AmountOf(transfers', S) + transfers'[id].amount
    BY <1>4, <2>1, AmountJoin
  <2>3. transfers'[id].amount = t.amount
    BY <1>2, <1>5 DEF SameDeal
  <2>4. AmountOf(transfers', S) = AmountOf(transfers, S)
    BY <1>5, <1>6
  <2> QED BY <1>6, <2>2, <2>3, <2>4
<1>8. AmountOf(transfers, Burns(transfers)) \in Nat /\ AmountOf(transfers, Mints(transfers)) \in Nat
  <2>1. Burns(transfers) \in SUBSET (DOMAIN transfers)
    BY DEF Burns
  <2> QED BY <1>6, <2>1, AmountNat DEF TransferInv, TransferTypeOK
<1>9. /\ balance \in [1..N -> Nat] /\ N \in Nat /\ t.user \in 1..N /\ totalMinted \in Nat
      /\ totalMinted = Total(balance, N)
      /\ totalMinted = AmountOf(transfers, Mints(transfers)) - AmountOf(transfers, Burns(transfers))
  BY <1>0, BridgeConstants DEF TransferInv, TransferTypeOK, SupplyBalanced
<1>10. balance' \in [1..N -> Nat] /\ totalMinted' \in Nat /\ totalMinted' = Total(balance', N)
  <2> DEFINE u == t.user
  <2>1. /\ balance' \in [1..N -> Nat] /\ balance' \in [1..N -> Int] /\ balance \in [1..N -> Int]
        /\ balance'[u] = balance[u] + t.amount /\ balance[u] \in Nat
        /\ \A i \in 1..N : i # u => balance'[i] = balance[i]
    BY <1>0, <1>1, <1>9
  <2>2. u \in 1..N
    BY <1>9
  <2> HIDE DEF u
  <2>3. Total(balance', N) = Total(balance, N) + balance'[u] - balance[u]
    BY <1>9, <2>1, <2>2, TotalChange
  <2>4. balance'[u] - balance[u] = t.amount
    BY <1>0, <2>1
  <2>5. Total(balance', N) = totalMinted + t.amount
    <3>1. balance'[u] \in Nat /\ balance[u] \in Nat /\ totalMinted \in Nat
      BY <1>9, <2>1, <2>2
    <3> QED BY <1>9, <2>3, <2>4, <3>1
  <2>6. totalMinted' = totalMinted + t.amount /\ totalMinted \in Nat /\ t.amount \in Nat
    BY <1>0, <1>1, <1>9
  <2>7. totalMinted' \in Nat /\ totalMinted' = Total(balance', N)
    BY <2>5, <2>6
  <2> QED BY <2>1, <2>7
<1>11. SupplyBalanced'
  <2>1. totalMinted' = AmountOf(transfers', Mints(transfers')) - AmountOf(transfers', Burns(transfers'))
    BY <1>0, <1>1, <1>5, <1>7, <1>8, <1>9
  <2> QED BY <1>10, <2>1 DEF SupplyBalanced
<1>12. TransferTypeOK'
  <2>1. consumed' \subseteq Deployments \X Messages
    BY <1>0, <1>1 DEF TransferInv, TransferTypeOK
  <2>2. balance' \in [Users -> Nat]
    BY <1>10, BridgeConstants
  <2> QED BY <1>1, <1>4, <1>10, <2>1, <2>2 DEF TransferInv, TransferTypeOK, adminVars
<1> QED BY <1>4, <1>11, <1>12 DEF TransferInv

LEMMA CallsInv ==
  ASSUME TransferInv, TransferCalls
  PROVE  TransferInv'
<1> PICK id \in DOMAIN transfers :
        \/ \E v \in Validators : approve_lock_mint(v, id) \/ approve_burn_unlock(v, id)
        \/ execute_lock_mint(id) \/ execute_burn_unlock(id)
        \/ \E rt \in BOOLEAN : mark_transfer_failed(id, rt)
        \/ retry_transfer(id)
  BY DEF TransferCalls
<1> DEFINE t == transfers[id]
           Frame == UNCHANGED <<ledgerVars, volumeVars, replay, consumed, adminVars>> /\ now' = now
<1>0. t \in BridgeTransfer /\ Backed(t)
  BY ListShape DEF TransferInv, TransferTypeOK, ReadyIsBacked
<1>1. ASSUME NEW v \in Validators, approve_lock_mint(v, id) \/ approve_burn_unlock(v, id)
      PROVE  TransferInv'
  <2> DEFINE r == Approved(t, v)
  <2>1. t.status # "Completed" /\ transfers' = [transfers EXCEPT ![id] = r] /\ Frame
    BY <1>1 DEF approve_lock_mint, approve_burn_unlock
  <2>2. r \in BridgeTransfer /\ SameDeal(r, t) /\ Backed(r) /\ r.status # "Completed"
    BY <1>0, <2>1, ApprovedKeeps
  <2> HIDE DEF r
  <2>3. Moved(id, r)
    BY <2>1, <2>2 DEF Moved, volumeVars
  <2> QED BY <2>1, <2>2, <2>3, MoveInv
<1>2. ASSUME execute_burn_unlock(id)
      PROVE  TransferInv'
  <2> DEFINE r == Executed(t)
  <2>1. /\ t.kind = "BurnUnlock" /\ t.status = "ReadyToExecute"
        /\ transfers' = [transfers EXCEPT ![id] = r] /\ Frame
    BY <1>2 DEF execute_burn_unlock
  <2>2. r \in BridgeTransfer /\ SameDeal(r, t) /\ Backed(r)
    BY <1>0, <2>1, ExecutedKeeps
  <2> HIDE DEF r
  <2>3. Moved(id, r)
    BY <2>1, <2>2 DEF Moved, volumeVars
  <2> QED BY <2>1, <2>3, MoveInv
<1>3. ASSUME NEW rt \in BOOLEAN, mark_transfer_failed(id, rt)
      PROVE  TransferInv'
  <2> DEFINE r == [t EXCEPT !.status = "Failed", !.retryable = rt]
  <2>1. t.status # "Completed" /\ transfers' = [transfers EXCEPT ![id] = r] /\ Frame
    BY <1>3 DEF mark_transfer_failed
  <2>2. r \in BridgeTransfer
    BY <1>0 DEF BridgeTransfer
  <2>3. SameDeal(r, t) /\ r.status = "Failed"
    BY <1>0 DEF BridgeTransfer, SameDeal
  <2> HIDE DEF r
  <2>4. Backed(r)
    BY <2>3 DEF Backed
  <2>5. Moved(id, r)
    BY <2>1, <2>2, <2>3, <2>4 DEF Moved, volumeVars
  <2> QED BY <2>1, <2>3, <2>5, MoveInv
<1>4. ASSUME retry_transfer(id)
      PROVE  TransferInv'
  <2> DEFINE r == [t EXCEPT !.status = "ReadyToExecute", !.retryable = FALSE, !.retried = TRUE]
  <2>1. t.status = "Failed" /\ transfers' = [transfers EXCEPT ![id] = r] /\ Frame
    BY <1>4 DEF retry_transfer
  <2>2. r \in BridgeTransfer
    BY <1>0 DEF BridgeTransfer
  <2>3. SameDeal(r, t) /\ r.status = "ReadyToExecute" /\ r.retried = TRUE
    BY <1>0 DEF BridgeTransfer, SameDeal
  <2> HIDE DEF r
  <2>4. Backed(r)
    BY <2>3 DEF Backed
  <2>5. Moved(id, r)
    BY <2>1, <2>2, <2>3, <2>4 DEF Moved, volumeVars
  <2> QED BY <2>1, <2>3, <2>5, MoveInv
<1> QED BY <1>1, <1>2, <1>3, <1>4, MintLands

-----------------------------------------------------------------------------
(* The rest of the steps leave transfers, supply and volume alone. *)
LEMMA QuietInv ==
  ASSUME TransferInv, UNCHANGED <<transfers, ledgerVars, daily, replay>>,
         day_bucket(now) <= day_bucket(now'), day_bucket(now) \in Nat, day_bucket(now') \in Nat
  PROVE  MessagesLocked' /\ SupplyBalanced' /\ DaysCounted' /\ ReadyIsBacked'
         /\ Len(transfers') <= MaxTransfers
<1>1. daily.day \in Nat
  BY DEF TransferInv, TransferTypeOK
<1>2. MessagesLocked' /\ SupplyBalanced' /\ ReadyIsBacked' /\ Len(transfers') <= MaxTransfers
  BY DEF TransferInv, MessagesLocked, SupplyBalanced, ReadyIsBacked, ledgerVars
<1>3. daily'.day <= day_bucket(now')
  BY <1>1 DEF TransferInv, DaysCounted
<1>4. DaysCounted'
  BY <1>3 DEF TransferInv, DaysCounted
<1> QED BY <1>2, <1>4

LEMMA TickInv ==
  ASSUME TransferInv, Tick
  PROVE  TransferInv'
<1>1. now \in Nat /\ now' = now + 1 /\ MaxTime \in Nat /\ now < MaxTime
  BY BridgeConstants DEF TransferInv, TransferTypeOK, Tick
<1>2. now' \in Nat /\ now' \in 0..MaxTime
  BY <1>1 DEF TransferInv, TransferTypeOK
<1>3. day_bucket(now) <= day_bucket(now + 1) /\ day_bucket(now) \in Nat
  BY <1>1, DaysAdvance
<1>4. day_bucket(now') \in Nat
  BY <1>2, DaysAdvance
<1>5. MessagesLocked' /\ SupplyBalanced' /\ DaysCounted' /\ ReadyIsBacked'
      /\ Len(transfers') <= MaxTransfers
  BY <1>1, <1>3, <1>4, QuietInv DEF Tick, volumeVars
<1>6. TransferTypeOK'
  BY <1>2 DEF TransferInv, TransferTypeOK, Tick, ledgerVars, volumeVars, adminVars
<1> QED BY <1>5, <1>6 DEF TransferInv

LEMMA AdminInv ==
  ASSUME TransferInv, AdminCalls
  PROVE  TransferInv'
<1>1. UNCHANGED <<now, transfers, ledgerVars, daily, replay, consumed>>
  BY DEF AdminCalls, apply_governance_pause, update_liquidity_buffer, add_supported_chain,
         remove_supported_chain, set_deployment_id, set_withdrawal_route_limit, volumeVars
<1>2. now \in Nat /\ now' = now
  BY <1>1 DEF TransferInv, TransferTypeOK
<1>3. day_bucket(now) \in Nat
  BY <1>2, DaysAdvance
<1>4. day_bucket(now) <= day_bucket(now') /\ day_bucket(now') \in Nat
  BY <1>2, <1>3
<1>5. MessagesLocked' /\ SupplyBalanced' /\ DaysCounted' /\ ReadyIsBacked'
      /\ Len(transfers') <= MaxTransfers
  BY <1>1, <1>3, <1>4, QuietInv
<1>6. changes' \in Nat
  BY DEF AdminCalls, TransferInv, TransferTypeOK
<1>7. deployment' \in Deployments /\ paused' \in BOOLEAN /\ chains' \subseteq Chains
  BY DEF AdminCalls, apply_governance_pause, update_liquidity_buffer, add_supported_chain,
         remove_supported_chain, set_deployment_id, set_withdrawal_route_limit,
         TransferInv, TransferTypeOK
<1>8. buffer' \in Buffers \cup {-1}
  BY DEF AdminCalls, apply_governance_pause, update_liquidity_buffer, add_supported_chain,
         remove_supported_chain, set_deployment_id, set_withdrawal_route_limit,
         TransferInv, TransferTypeOK
<1>9. /\ route' \in [max : Nat, total : Nat, span : Nat] \cup {None}
      /\ window' \in [start : Nat, total : Nat] \cup {None}
  <2>1. CASE route' = route /\ window' = window
    BY <2>1 DEF TransferInv, TransferTypeOK
  <2>2. ASSUME NEW m \in RouteMaxes, NEW t \in RouteTotals, set_withdrawal_route_limit(m, t)
        PROVE  <1>9!:
    <3>1. m \in Nat /\ t \in Nat /\ RouteSpan \in Nat
      BY BridgeConstants
    <3>2. route' = [max |-> m, total |-> t, span |-> RouteSpan]
      BY <2>2 DEF set_withdrawal_route_limit
    <3>3. window' = window \/ window' = [start |-> now, total |-> 0]
      BY <2>2 DEF set_withdrawal_route_limit
    <3>4. window' \in [start : Nat, total : Nat] \cup {None}
      BY <1>2, <3>3 DEF TransferInv, TransferTypeOK
    <3> QED BY <3>1, <3>2, <3>4
  <2>3. \/ route' = route /\ window' = window
        \/ \E m \in RouteMaxes, t \in RouteTotals : set_withdrawal_route_limit(m, t)
    BY DEF AdminCalls, apply_governance_pause, update_liquidity_buffer, add_supported_chain,
           remove_supported_chain, set_deployment_id, volumeVars
  <2> QED BY <2>1, <2>2, <2>3
<1>10. TransferTypeOK'
  BY <1>1, <1>6, <1>7, <1>8, <1>9 DEF TransferInv, TransferTypeOK, ledgerVars
<1> QED BY <1>5, <1>10 DEF TransferInv

LEMMA UserInv ==
  ASSUME TransferInv, UserCalls
  PROVE  TransferInv'
<1>1. now \in Nat /\ now + Validity \in Nat /\ now + 1 \in Nat
  BY BridgeConstants DEF TransferInv, TransferTypeOK
<1>2. ASSUME NEW u \in Users, NEW a \in Amounts, NEW m \in Messages,
             initiate_lock_mint(u, a, m) \/ initiate_lock_mint_with_expiry(u, a, m, now + 1)
      PROVE  TransferInv'
  BY <1>1, <1>2, MintStarts DEF initiate_lock_mint, initiate_lock_mint_with_expiry
<1> QED BY <1>2, BurnStarts DEF UserCalls

LEMMA InitInv ==
  ASSUME TransferInit
  PROVE  TransferInv
<1>1. TransferTypeOK
  <2>1. /\ now \in 0..MaxTime /\ transfers \in Seq(BridgeTransfer) /\ balance \in [Users -> Nat]
        /\ totalMinted \in Nat /\ daily \in [day : Nat, total : Nat]
    BY BridgeConstants DEF TransferInit
  <2> QED BY <2>1 DEF TransferInit, TransferTypeOK, Chains
<1>2. transfers = <<>> /\ DOMAIN transfers = {} /\ Len(transfers) = 0
  BY DEF TransferInit
<1>3. /\ Mints(transfers) = {} /\ Burns(transfers) = {} /\ \A d : OfDay(transfers, d) = {}
  BY <1>2 DEF Mints, Burns, OfDay
<1>4. AmountOf(transfers, {}) = 0
  BY AmountEmpty
<1>5. SupplyBalanced
  <2>1. balance = [u \in 1..N |-> 0] /\ totalMinted = 0
    BY BridgeConstants DEF TransferInit
  <2>2. Total(balance, N) = 0
    BY <2>1, TotalZero, BridgeConstants
  <2> QED BY <1>3, <1>4, <2>1, <2>2 DEF SupplyBalanced
<1>6. DaysCounted
  <2>1. day_bucket(now) \in Nat
    <3>1. now \in Nat
      BY DEF TransferInit
    <3> QED BY <3>1, DaysAdvance
  <2>2. daily.day = 0 /\ daily.total = 0
    BY DEF TransferInit
  <2>3. \A d \in Nat : AmountOf(transfers, OfDay(transfers, d)) <= DailyLimit
    <3> TAKE d \in Nat
    <3>1. AmountOf(transfers, OfDay(transfers, d)) = 0
      BY <1>3, <1>4
    <3> QED BY <3>1, BridgeConstants
  <2>4. daily.total = AmountOf(transfers, OfDay(transfers, daily.day))
    BY <1>3, <1>4, <2>2
  <2> QED BY <1>2, <2>1, <2>2, <2>3, <2>4 DEF DaysCounted
<1>7. MessagesLocked /\ ReadyIsBacked
  BY <1>2 DEF MessagesLocked, ReadyIsBacked
<1> QED BY <1>1, <1>2, <1>5, <1>6, <1>7, BridgeConstants DEF TransferInv

(* A day that begins at t meets the calendar day of t and the next one.    *)
LEMMA TwoBuckets ==
  ASSUME NEW t \in Nat, NEW c \in t..(t + Day - 1)
  PROVE  /\ day_bucket(c) = day_bucket(t) \/ day_bucket(c) = day_bucket(t) + Day
         /\ day_bucket(t) + Day \in Nat
<1> DEFINE p == t \div Day
           q == c \div Day
<1>1. /\ Day \in Nat \ {0} /\ c \in Nat /\ p \in Nat /\ q \in Nat
      /\ Day * p <= t /\ t < Day * p + Day /\ Day * q <= c /\ c < Day * q + Day
      /\ t <= c /\ c < t + Day
  BY BridgeConstants
<1> HIDE DEF p, q
<1>2. p <= q
  <2>1. SUFFICES ASSUME q + 1 <= p PROVE FALSE
    BY <1>1
  <2>2. Day * (q + 1) <= Day * p /\ Day * (q + 1) = Day * q + Day
    BY <1>1, <2>1
  <2> QED BY <1>1, <2>2
<1>3. q <= p + 1
  <2>1. SUFFICES ASSUME p + 2 <= q PROVE FALSE
    BY <1>1
  <2>2. Day * (p + 2) <= Day * q /\ Day * (p + 2) = Day * p + Day + Day
    BY <1>1, <2>1
  <2> QED BY <1>1, <2>2
<1>4. /\ q = p \/ q = p + 1
      /\ p * Day \in Nat /\ (p + 1) * Day = p * Day + Day
  BY <1>1, <1>2, <1>3
<1> QED BY <1>1, <1>4 DEF p, q, day_bucket

(* What is moved by transfers of one set or the other is at most what both *)
(* move.                                                                   *)
LEMMA AmountUnion ==
  ASSUME NEW tr \in Seq(BridgeTransfer), NEW S \in SUBSET (DOMAIN tr),
         NEW A \in SUBSET (DOMAIN tr), NEW B \in SUBSET (DOMAIN tr), S \subseteq A \cup B
  PROVE  AmountOf(tr, S) <= AmountOf(tr, A) + AmountOf(tr, B)
<1> DEFINE of(X) == [id \in Ids |-> IF id \in X THEN tr[id].amount ELSE 0]
           both == [id \in Ids |-> of(A)[id] + of(B)[id]]
<1>1. \A X \in SUBSET (DOMAIN tr) : of(X) \in [1..MaxTransfers -> Nat]
  BY ListShape, BridgeConstants
<1>2. /\ of(S) \in [1..MaxTransfers -> Int] /\ of(A) \in [1..MaxTransfers -> Int]
      /\ of(B) \in [1..MaxTransfers -> Int] /\ MaxTransfers \in Nat
  BY <1>1, BridgeConstants
<1>3. /\ both \in [1..MaxTransfers -> Int]
      /\ \A i \in 1..MaxTransfers : both[i] = of(A)[i] + of(B)[i]
  BY <1>2, BridgeConstants
<1>4. \A i \in 1..MaxTransfers : of(S)[i] <= both[i]
  <2> TAKE i \in 1..MaxTransfers
  <2>1. i \in S => tr[i].amount \in Nat
    BY ListShape
  <2>2. i \in S => i \in A \/ i \in B
    OBVIOUS
  <2>3. /\ of(S)[i] = IF i \in S THEN tr[i].amount ELSE 0
        /\ of(A)[i] = IF i \in A THEN tr[i].amount ELSE 0
        /\ of(B)[i] = IF i \in B THEN tr[i].amount ELSE 0
    BY BridgeConstants
  <2>4. of(A)[i] \in Nat /\ of(B)[i] \in Nat
    BY <1>1
  <2> QED BY <1>3, <2>1, <2>2, <2>3, <2>4
<1> HIDE DEF of, both
<1>5. Total(both, MaxTransfers) = Total(of(A), MaxTransfers) + Total(of(B), MaxTransfers)
  BY <1>2, <1>3, TotalAdd
<1>6. Total(of(S), MaxTransfers) <= Total(both, MaxTransfers)
  BY <1>2, <1>3, <1>4, TotalLeq
<1> QED BY <1>5, <1>6 DEF AmountOf, of

(* Two calendar days, a limit each. *)
LEMMA RollingBounded ==
  ASSUME TransferInv, NEW t \in 0..now
  PROVE  AmountOf(transfers, {id \in DOMAIN transfers : transfers[id].created \in t..(t + Day - 1)})
            <= 2 * DailyLimit
<1> DEFINE S == {id \in DOMAIN transfers : transfers[id].created \in t..(t + Day - 1)}
           A == OfDay(transfers, day_bucket(t))
           B == OfDay(transfers, day_bucket(t) + Day)
<1>1. t \in Nat /\ transfers \in Seq(BridgeTransfer) /\ DailyLimit \in Nat
  BY BridgeConstants DEF TransferInv, TransferTypeOK
<1>2. day_bucket(t) \in Nat /\ day_bucket(t) + Day \in Nat
  <2>1. day_bucket(t) \in Nat
    BY <1>1, DaysAdvance
  <2> QED BY <2>1, BridgeConstants
<1>3. S \subseteq A \cup B
  BY <1>1, TwoBuckets DEF OfDay
<1>4. /\ S \in SUBSET (DOMAIN transfers) /\ A \in SUBSET (DOMAIN transfers)
      /\ B \in SUBSET (DOMAIN transfers)
  BY DEF OfDay
<1>5. AmountOf(transfers, A) <= DailyLimit /\ AmountOf(transfers, B) <= DailyLimit
  BY <1>2 DEF TransferInv, DaysCounted
<1> HIDE DEF S, A, B
<1>6. /\ AmountOf(transfers, S) <= AmountOf(transfers, A) + AmountOf(transfers, B)
      /\ AmountOf(transfers, S) \in Nat /\ AmountOf(transfers, A) \in Nat
      /\ AmountOf(transfers, B) \in Nat
  BY <1>1, <1>3, <1>4, AmountUnion, AmountNat
<1>7. AmountOf(transfers, S) <= 2 * DailyLimit
  BY <1>1, <1>5, <1>6
<1> QED BY <1>7 DEF S

LEMMA InvSafe ==
  ASSUME TransferInv
  PROVE  TransfersSafe
<1>1. MintedOncePerMessage
  BY DEF TransferInv, MessagesLocked, MintedOncePerMessage, Completed
<1>2. \A S : Amount(S) = AmountOf(transfers, S)
  BY DEF Amount, AmountOf
<1>3. SupplyAccounted
  <2>1. Mints(transfers) = Completed("LockMint")
    BY DEF Mints, Completed
  <2> QED BY <1>2, <2>1 DEF TransferInv, SupplyBalanced, SupplyAccounted, Burns
<1>4. DailyLimitHolds
  <2> SUFFICES ASSUME NEW t \in 0..now
               PROVE  Amount({id \in DOMAIN transfers :
                          day_bucket(transfers[id].created) = day_bucket(t)}) <= DailyLimit
    BY DEF DailyLimitHolds
  <2>1. t \in Nat
    OBVIOUS
  <2>2. day_bucket(t) \in Nat
    BY <2>1, DaysAdvance
  <2>3. AmountOf(transfers, OfDay(transfers, day_bucket(t))) <= DailyLimit
    BY <2>2 DEF TransferInv, DaysCounted
  <2> QED BY <1>2, <2>3 DEF OfDay
<1>5. QuorumUnlessRetried
  BY DEF TransferInv, ReadyIsBacked, Backed, QuorumUnlessRetried
<1>6. RollingVolume
  BY <1>2, RollingBounded DEF RollingVolume
<1> QED BY <1>1, <1>3, <1>4, <1>5, <1>6 DEF TransfersSafe

(* TransferInv is inductive: every call of a user, a validator or the      *)
(* admin, and the passing of time, keeps it.                               *)
THEOREM TransfersInvariant == TransferSpec => []TransferInv
<1>1. TransferInit => TransferInv
  BY InitInv
<1>2. TransferInv /\ [TransferNext]_transferVars => TransferInv'
  <2> SUFFICES ASSUME TransferInv, [TransferNext]_transferVars PROVE TransferInv'
    OBVIOUS
  <2>1. CASE TransferNext
    BY <2>1, TickInv, UserInv, CallsInv, AdminInv DEF TransferNext
  <2>2. CASE UNCHANGED transferVars
    <3>1. UNCHANGED <<now, transfers, balance, totalMinted, daily, window, replay, consumed,
                      deployment, paused, chains, route, buffer, changes>>
      BY <2>2 DEF transferVars, ledgerVars, volumeVars, adminVars
    <3>2. TransferTypeOK'
      BY <3>1 DEF TransferInv, TransferTypeOK
    <3>3. day_bucket(now) \in Nat
      <4>1. now \in Nat
        BY DEF TransferInv, TransferTypeOK
      <4> QED BY <4>1, DaysAdvance
    <3>4. day_bucket(now) <= day_bucket(now') /\ day_bucket(now') \in Nat
      BY <3>1, <3>3
    <3>5. MessagesLocked' /\ SupplyBalanced' /\ DaysCounted' /\ ReadyIsBacked'
          /\ Len(transfers') <= MaxTransfers
      BY <3>1, <3>3, <3>4, QuietInv DEF ledgerVars
    <3> QED BY <3>2, <3>5 DEF TransferInv
  <2> QED BY <2>1, <2>2
<1> QED BY <1>1, <1>2, PTL DEF TransferSpec

(* The state of transfers, supply and limits keeps its shape: no balance   *)
(* and no supply becomes negative.                                         *)
THEOREM TransfersTypeCorrect == TransferSpec => []TransferTypeOK
<1>1. TransferInv => TransferTypeOK
  BY DEF TransferInv
<1> QED BY <1>1, TransfersInvariant, PTL

(* TransfersSafe, for any number of users, validators, messages and        *)
(* transfers: one mint for each message, a supply that is what was minted  *)
(* less what was burned, the daily limit, and a quorum behind releases.    *)
THEOREM TransfersAreSafe == TransferSpec => []TransfersSafe
<1>1. TransferInv => TransfersSafe
  BY InvSafe
<1> QED BY <1>1, TransfersInvariant, PTL
=============================================================================
