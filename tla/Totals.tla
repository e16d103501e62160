------------------------------- MODULE Totals -------------------------------
(***************************************************************************)
(* Totals of finite tables of amounts, indexed 1..n: what the vault owes   *)
(* is the total of its tables of balances, delegations and held slashes.   *)
(* The lemmas say how a total moves when its table moves; induction on the *)
(* index is by the least index at which a claim fails.                     *)
(* Last, the facts about division and multiples that scaled amounts need.  *)
(***************************************************************************)
EXTENDS Integers, WellFoundedInduction, TLAPS

(* The total of f[1], ..., f[n]. *)
Total(f, n) ==
    LET partial[i \in 0..n] == IF i = 0 THEN 0 ELSE partial[i-1] + f[i]
    IN  partial[n]

(* g holds the partial totals of f over 0..n. *)
IsPartial(g, f, n) ==
    g = [i \in 0..n |-> IF i = 0 THEN 0 ELSE g[i-1] + f[i]]

-----------------------------------------------------------------------------
(* < on Nat has no infinite descent. *)
LEMMA NatDescent ==
    IsWellFoundedOn({ss \in Nat \X Nat : ss[1] < ss[2]}, Nat)
BY NatLessThanWellFounded, SMT DEF OpToRel

(* Every nonempty set of naturals has a least element. *)
LEMMA LeastNatural ==
  ASSUME NEW T, T \subseteq Nat, T # {}
  PROVE  \E m \in T : \A k \in T : m <= k
<1> DEFINE Less == {ss \in Nat \X Nat : ss[1] < ss[2]}
<1>1. PICK m \in T : \A k \in T : ~ (<<k, m>> \in Less)
  <2>1. IsWellFoundedOn(Less, Nat)
    BY NatDescent
  <2> HIDE DEF Less
  <2> QED BY <2>1, WFMin
<1>2. ASSUME NEW k \in T PROVE m <= k
  <2>1. k \in Nat /\ m \in Nat
    OBVIOUS
  <2>2. ~(k < m)
    BY <1>1, <2>1
  <2> QED BY <2>1, <2>2
<1> QED BY <1>2

(* The least index of 0..n at which a claim fails: the shape every         *)
(* induction below uses, with Bad the set of indices where it fails.       *)
LEMMA InductionOnIndex ==
  ASSUME NEW n \in Nat, NEW Bad \in SUBSET (0..n),
         0 \notin Bad,
         \A k \in 1..n : k \in Bad => k-1 \in Bad
  PROVE  Bad = {}
<1>1. SUFFICES ASSUME Bad # {} PROVE FALSE
  OBVIOUS
<1>2. PICK m \in Bad : \A k \in Bad : m <= k
  <2>1. Bad \subseteq Nat
    OBVIOUS
  <2> QED BY <1>1, <2>1, LeastNatural
<1>3. m \in 1..n
  BY <1>2
<1> QED BY <1>2, <1>3

(* Partial totals exist. *)
LEMMA PartialExists ==
  ASSUME NEW n \in Nat, NEW f \in [1..n -> Int]
  PROVE  \E g \in [0..n -> Int] : IsPartial(g, f, n)
<1> DEFINE Ok(k) == \E g \in [0..k -> Int] : IsPartial(g, f, k)
<1> DEFINE Bad == {k \in 0..n : ~Ok(k)}
<1>1. 0 \notin Bad
  <2> DEFINE g == [i \in 0..0 |-> 0]
  <2>1. g \in [0..0 -> Int] OBVIOUS
  <2>2. IsPartial(g, f, 0) BY DEF IsPartial
  <2> QED BY <2>1, <2>2
<1>2. ASSUME NEW m \in 1..n, Ok(m-1) PROVE Ok(m)
  <2>3. PICK h \in [0..(m-1) -> Int] : IsPartial(h, f, m-1)
    BY <1>2
  <2> DEFINE g == [i \in 0..m |-> IF i = m THEN h[m-1] + f[m] ELSE h[i]]
  <2>4. g \in [0..m -> Int]
    BY <2>3
  <2>5. IsPartial(g, f, m)
    <3>1. \A i \in 0..(m-1) : h[i] = IF i = 0 THEN 0 ELSE h[i-1] + f[i]
      BY <2>3 DEF IsPartial
    <3>2. ASSUME NEW i \in 0..m PROVE g[i] = IF i = 0 THEN 0 ELSE g[i-1] + f[i]
      <4>1. CASE i = m
        <5>1. g[m] = h[m-1] + f[m] /\ g[m-1] = h[m-1]
          OBVIOUS
        <5> QED BY <4>1, <5>1
      <4>2. CASE i # m
        <5>1. i \in 0..(m-1) /\ g[i] = h[i]
          BY <4>2
        <5>2. i # 0 => i-1 \in 0..(m-1) /\ g[i-1] = h[i-1]
          BY <5>1
        <5> QED BY <3>1, <5>1, <5>2
      <4> QED BY <4>1, <4>2
    <3> QED BY <3>2 DEF IsPartial
  <2> QED BY <2>4, <2>5
<1>3. Bad = {}
  <2>1. ASSUME NEW k \in 1..n, k \in Bad PROVE k-1 \in Bad
    <3>1. ~Ok(k) /\ k-1 \in 0..n
      BY <2>1
    <3>2. ~Ok(k-1)
      BY <1>2, <3>1
    <3> QED BY <3>1, <3>2
  <2>2. Bad \in SUBSET (0..n)
    OBVIOUS
  <2> HIDE DEF Bad
  <2> QED BY <1>1, <2>1, <2>2, InductionOnIndex
<1> QED BY <1>3

(* Total is the last of some list of partial totals. *)
LEMMA TotalIsPartial ==
  ASSUME NEW n \in Nat, NEW f \in [1..n -> Int]
  PROVE  \E g \in [0..n -> Int] :
            /\ IsPartial(g, f, n)
            /\ Total(f, n) = g[n]
<1> DEFINE Rec(g) == g = [i \in 0..n |-> IF i = 0 THEN 0 ELSE g[i-1] + f[i]]
<1> DEFINE c == CHOOSE g : Rec(g)
<1>1. \E g : Rec(g)
  BY PartialExists DEF IsPartial
<1>2. Rec(c)
  <2> HIDE DEF Rec
  <2> QED BY <1>1
<1>3. Total(f, n) = c[n]
  BY DEF Total
<1>4. \A i \in 0..n : c[i] = IF i = 0 THEN 0 ELSE c[i-1] + f[i]
  <2> HIDE DEF c
  <2> QED BY <1>2
<1>5. \A i \in 0..n : c[i] \in Int
  <2> HIDE DEF c
  <2> DEFINE Bad == {i \in 0..n : c[i] \notin Int}
  <2>1. 0 \notin Bad
    BY <1>4
  <2>2. \A k \in 1..n : k \in Bad => k-1 \in Bad
    BY <1>4
  <2>3. Bad = {}
    <3>1. Bad \in SUBSET (0..n)
      OBVIOUS
    <3> HIDE DEF Bad
    <3> QED BY <2>1, <2>2, <3>1, InductionOnIndex
  <2> QED BY <2>3
<1>6. c \in [0..n -> Int]
  <2> HIDE DEF c
  <2> QED BY <1>2, <1>5
<1> HIDE DEF c
<1> QED BY <1>2, <1>3, <1>6 DEF IsPartial

(* Partial totals, entry by entry. *)
LEMMA PartialStep ==
  ASSUME NEW n \in Nat, NEW f \in [1..n -> Int], NEW g \in [0..n -> Int],
         IsPartial(g, f, n)
  PROVE  /\ g[0] = 0
         /\ \A i \in 1..n : g[i] = g[i-1] + f[i]
BY DEF IsPartial

(* A total of integers is an integer. *)
LEMMA TotalInt ==
  ASSUME NEW n \in Nat, NEW f \in [1..n -> Int]
  PROVE  Total(f, n) \in Int
BY TotalIsPartial

(* A total of amounts is an amount, and no entry exceeds it. *)
LEMMA TotalNat ==
  ASSUME NEW n \in Nat, NEW f \in [1..n -> Nat]
  PROVE  /\ Total(f, n) \in Nat
         /\ \A j \in 1..n : f[j] <= Total(f, n)
<1>0. f \in [1..n -> Int]
  OBVIOUS
<1>1. PICK g \in [0..n -> Int] : IsPartial(g, f, n) /\ Total(f, n) = g[n]
  BY <1>0, TotalIsPartial
<1>2. g[0] = 0 /\ \A i \in 1..n : g[i] = g[i-1] + f[i]
  BY <1>0, <1>1, PartialStep
<1> DEFINE Bad == {i \in 0..n : ~(g[i] >= 0 /\ \A j \in 1..i : f[j] <= g[i])}
<1>3. Bad = {}
  <2>1. 0 \notin Bad
    BY <1>2
  <2>2. ASSUME NEW k \in 1..n, k-1 \notin Bad PROVE k \notin Bad
    <3>1. g[k-1] >= 0 /\ \A j \in 1..(k-1) : f[j] <= g[k-1]
      BY <2>2
    <3>2. g[k] = g[k-1] + f[k] /\ f[k] >= 0 /\ g[k-1] \in Int
      BY <1>2
    <3>3. ASSUME NEW j \in 1..k PROVE f[j] <= g[k]
      <4>0. f[j] \in Nat
        OBVIOUS
      <4>1. CASE j = k
        BY <3>1, <3>2, <4>1, <4>0
      <4>2. CASE j # k
        <5>1. j \in 1..(k-1)
          BY <4>2
        <5> QED BY <3>1, <3>2, <5>1, <4>0
      <4> QED BY <4>1, <4>2
    <3> QED BY <3>1, <3>2, <3>3
  <2>3. \A k \in 1..n : k \in Bad => k-1 \in Bad
    BY <2>2
  <2>4. Bad \in SUBSET (0..n)
    OBVIOUS
  <2> HIDE DEF Bad
  <2> QED BY <2>1, <2>3, <2>4, InductionOnIndex
<1>4. n \notin Bad /\ n \in 0..n
  <2>1. n \in 0..n
    OBVIOUS
  <2>2. n \notin Bad
    <3> HIDE DEF Bad
    <3> QED BY <1>3
  <2> QED BY <2>1, <2>2
<1> QED BY <1>1, <1>4

(* Adding two tables entry by entry adds their totals. *)
LEMMA TotalAdd ==
  ASSUME NEW n \in Nat, NEW f \in [1..n -> Int], NEW d \in [1..n -> Int],
         NEW h \in [1..n -> Int], \A i \in 1..n : h[i] = f[i] + d[i]
  PROVE  Total(h, n) = Total(f, n) + Total(d, n)
<1>1. PICK p \in [0..n -> Int] : IsPartial(p, f, n) /\ Total(f, n) = p[n]
  BY TotalIsPartial
<1>2. PICK q \in [0..n -> Int] : IsPartial(q, d, n) /\ Total(d, n) = q[n]
  BY TotalIsPartial
<1>3. PICK r \in [0..n -> Int] : IsPartial(r, h, n) /\ Total(h, n) = r[n]
  BY TotalIsPartial
<1>4. /\ p[0] = 0 /\ \A i \in 1..n : p[i] = p[i-1] + f[i]
      /\ q[0] = 0 /\ \A i \in 1..n : q[i] = q[i-1] + d[i]
      /\ r[0] = 0 /\ \A i \in 1..n : r[i] = r[i-1] + h[i]
  BY <1>1, <1>2, <1>3, PartialStep
<1> DEFINE Bad == {i \in 0..n : r[i] # p[i] + q[i]}
<1>5. Bad = {}
  <2>1. 0 \notin Bad
    BY <1>4
  <2>2. ASSUME NEW k \in 1..n, k-1 \notin Bad PROVE k \notin Bad
    <3>1. r[k-1] = p[k-1] + q[k-1]
      BY <2>2
    <3>2. /\ p[k] = p[k-1] + f[k] /\ q[k] = q[k-1] + d[k]
          /\ r[k] = r[k-1] + (f[k] + d[k])
      BY <1>4
    <3>3. /\ p[k-1] \in Int /\ q[k-1] \in Int /\ f[k] \in Int /\ d[k] \in Int
      OBVIOUS
    <3>4. r[k] = p[k] + q[k]
      BY <3>1, <3>2, <3>3
    <3> QED BY <3>4
  <2>3. Bad \in SUBSET (0..n) /\ \A k \in 1..n : k \in Bad => k-1 \in Bad
    BY <2>2
  <2> HIDE DEF Bad
  <2> QED BY <2>1, <2>3, InductionOnIndex
<1>6. n \in 0..n
  OBVIOUS
<1>7. r[n] = p[n] + q[n]
  BY <1>5, <1>6
<1> QED BY <1>1, <1>2, <1>3, <1>7

(* A table with one nonzero entry totals that entry. *)
LEMMA TotalSingle ==
  ASSUME NEW n \in Nat, NEW j \in 1..n, NEW v \in Int
  PROVE  Total([i \in 1..n |-> IF i = j THEN v ELSE 0], n) = v
<1> DEFINE f == [i \in 1..n |-> IF i = j THEN v ELSE 0]
<1>0. f \in [1..n -> Int] /\ \A i \in 1..n : f[i] = IF i = j THEN v ELSE 0
  OBVIOUS
<1> HIDE DEF f
<1>1. PICK g \in [0..n -> Int] : IsPartial(g, f, n) /\ Total(f, n) = g[n]
  BY <1>0, TotalIsPartial
<1>2. g[0] = 0 /\ \A i \in 1..n : g[i] = g[i-1] + f[i]
  BY <1>0, <1>1, PartialStep
<1> DEFINE Bad == {i \in 0..n : g[i] # IF i < j THEN 0 ELSE v}
<1>3. Bad = {}
  <2>1. 0 \notin Bad
    BY <1>2
  <2>2. ASSUME NEW k \in 1..n, k-1 \notin Bad PROVE k \notin Bad
    <3>1. g[k-1] = IF k-1 < j THEN 0 ELSE v
      BY <2>2
    <3>2. g[k] = g[k-1] + f[k] /\ f[k] = IF k = j THEN v ELSE 0
      BY <1>2, <1>0
    <3>3. CASE k < j
      BY <3>1, <3>2, <3>3
    <3>4. CASE k = j
      BY <3>1, <3>2, <3>4
    <3>5. CASE k > j
      BY <3>1, <3>2, <3>5
    <3> QED BY <3>3, <3>4, <3>5
  <2>3. Bad \in SUBSET (0..n) /\ \A k \in 1..n : k \in Bad => k-1 \in Bad
    BY <2>2
  <2> HIDE DEF Bad
  <2> QED BY <2>1, <2>3, InductionOnIndex
<1>4. n \notin Bad /\ n \in 0..n /\ ~(n < j)
  BY <1>3
<1>5. Total(f, n) = v
  BY <1>1, <1>4
<1> QED BY <1>5 DEF f

(* An all-zero table totals zero. *)
LEMMA TotalZero ==
  ASSUME NEW n \in Nat
  PROVE  Total([i \in 1..n |-> 0], n) = 0
<1> DEFINE f == [i \in 1..n |-> 0]
<1>1. f \in [1..n -> Int] /\ \A i \in 1..n : f[i] = f[i] + f[i]
  OBVIOUS
<1> HIDE DEF f
<1>2. Total(f, n) = Total(f, n) + Total(f, n)
  BY <1>1, TotalAdd
<1>3. Total(f, n) \in Int
  BY <1>1, TotalInt
<1>4. \A x \in Int : x = x + x => x = 0
  OBVIOUS
<1>5. Total(f, n) = 0
  BY <1>2, <1>3, <1>4
<1> QED BY <1>5 DEF f

(* Two tables that differ in one entry differ in total by that entry. *)
LEMMA TotalChange ==
  ASSUME NEW n \in Nat, NEW f \in [1..n -> Int], NEW h \in [1..n -> Int],
         NEW j \in 1..n, \A i \in 1..n : i # j => h[i] = f[i]
  PROVE  Total(h, n) = Total(f, n) + h[j] - f[j]
<1> DEFINE v == h[j] - f[j]
<1> DEFINE d == [i \in 1..n |-> IF i = j THEN v ELSE 0]
<1>1. /\ v \in Int
      /\ d \in [1..n -> Int]
      /\ \A i \in 1..n : h[i] = f[i] + d[i]
  OBVIOUS
<1>2. Total(d, n) = v
  <2> HIDE DEF v
  <2> QED BY <1>1, TotalSingle
<1>3. Total(h, n) = Total(f, n) + Total(d, n)
  <2> HIDE DEF d
  <2> QED BY <1>1, TotalAdd
<1>4. Total(f, n) \in Int /\ f[j] \in Int /\ h[j] \in Int
  BY TotalInt
<1> HIDE DEF d
<1> QED BY <1>2, <1>3, <1>4

(* Adding d to one entry adds d to the total. *)
LEMMA TotalMove ==
  ASSUME NEW n \in Nat, NEW f \in [1..n -> Int], NEW j \in 1..n, NEW d \in Int,
         NEW h, h = [f EXCEPT ![j] = f[j] + d]
  PROVE  Total(h, n) = Total(f, n) + d
<1>1. /\ h \in [1..n -> Int] /\ h[j] = f[j] + d /\ f[j] \in Int
      /\ \A i \in 1..n : i # j => h[i] = f[i]
  OBVIOUS
<1>2. Total(h, n) = Total(f, n) + h[j] - f[j]
  BY <1>1, TotalChange, ZenonT(30)
<1>3. Total(f, n) \in Int
  BY TotalInt
<1> QED BY <1>1, <1>2, <1>3

(* A total after one entry is replaced. *)
LEMMA TotalPut ==
  ASSUME NEW n \in Nat, NEW f \in [1..n -> Int], NEW j \in 1..n, NEW v \in Int,
         NEW h, h = [f EXCEPT ![j] = v]
  PROVE  Total(h, n) = Total(f, n) + (v - f[j])
<1>1. /\ h \in [1..n -> Int] /\ h[j] = v /\ f[j] \in Int
      /\ \A i \in 1..n : i # j => h[i] = f[i]
  OBVIOUS
<1>2. Total(h, n) = Total(f, n) + h[j] - f[j]
  BY <1>1, TotalChange, ZenonT(30)
<1>3. Total(f, n) \in Int
  BY TotalInt
<1> QED BY <1>1, <1>2, <1>3

(* A table that is nowhere larger has no larger total. *)
LEMMA TotalLeq ==
  ASSUME NEW n \in Nat, NEW f \in [1..n -> Int], NEW h \in [1..n -> Int],
         \A i \in 1..n : f[i] <= h[i]
  PROVE  Total(f, n) <= Total(h, n)
<1> DEFINE d == [i \in 1..n |-> h[i] - f[i]]
<1>1. /\ d \in [1..n -> Nat] /\ d \in [1..n -> Int]
      /\ \A i \in 1..n : h[i] = f[i] + d[i]
  OBVIOUS
<1> HIDE DEF d
<1>2. Total(h, n) = Total(f, n) + Total(d, n)
  BY <1>1, TotalAdd
<1>3. Total(d, n) \in Nat
  BY <1>1, TotalNat
<1>4. Total(f, n) \in Int
  BY TotalInt
<1> QED BY <1>2, <1>3, <1>4

(* Multiplying every entry multiplies the total. *)
LEMMA TotalScale ==
  ASSUME NEW n \in Nat, NEW f \in [1..n -> Int], NEW c \in Int,
         NEW h \in [1..n -> Int], \A i \in 1..n : h[i] = c * f[i]
  PROVE  Total(h, n) = c * Total(f, n)
<1>1. PICK p \in [0..n -> Int] : IsPartial(p, f, n) /\ Total(f, n) = p[n]
  BY TotalIsPartial
<1>2. PICK q \in [0..n -> Int] : IsPartial(q, h, n) /\ Total(h, n) = q[n]
  BY TotalIsPartial
<1>3. /\ p[0] = 0 /\ \A i \in 1..n : p[i] = p[i-1] + f[i]
      /\ q[0] = 0 /\ \A i \in 1..n : q[i] = q[i-1] + h[i]
  BY <1>1, <1>2, PartialStep
<1> DEFINE Bad == {i \in 0..n : q[i] # c * p[i]}
<1>4. Bad = {}
  <2>1. 0 \notin Bad
    BY <1>3
  <2>2. ASSUME NEW k \in 1..n, k-1 \notin Bad PROVE k \notin Bad
    <3>1. q[k-1] = c * p[k-1] /\ p[k-1] \in Int /\ f[k] \in Int
      BY <2>2
    <3>2. p[k] = p[k-1] + f[k] /\ q[k] = q[k-1] + c * f[k]
      BY <1>3
    <3>3. \A x, y \in Int : c * (x + y) = c * x + c * y
      OBVIOUS
    <3>4. q[k] = c * p[k]
      BY <3>1, <3>2, <3>3
    <3> QED BY <3>4
  <2>3. Bad \in SUBSET (0..n) /\ \A k \in 1..n : k \in Bad => k-1 \in Bad
    BY <2>2
  <2> HIDE DEF Bad
  <2> QED BY <2>1, <2>3, InductionOnIndex
<1>5. n \in 0..n
  OBVIOUS
<1>6. q[n] = c * p[n]
  BY <1>4, <1>5
<1> QED BY <1>1, <1>2, <1>6

-----------------------------------------------------------------------------
(* Division and multiples.                                                 *)

(* Dividing rounds down: quotient and remainder, and what the quotient     *)
(* covers of the dividend.                                                 *)
LEMMA DivRoundsDown ==
  ASSUME NEW x \in Nat, NEW d \in Nat \ {0}
  PROVE  /\ x \div d \in Nat /\ x % d \in Nat
         /\ x = d * (x \div d) + (x % d)
         /\ d * (x \div d) <= x
         /\ x % d < d
<1>1. x \div d \in Int /\ x % d \in 0..(d-1)
  OBVIOUS
<1>2. x = d * (x \div d) + (x % d)
  OBVIOUS
<1>3. x \div d >= 0
  OBVIOUS
<1>4. d * (x \div d) \in Int
  BY <1>1
<1> QED BY <1>1, <1>2, <1>3, <1>4

(* A product of amounts is an amount. *)
LEMMA ProductNat ==
  ASSUME NEW x \in Nat, NEW y \in Nat
  PROVE  x * y \in Nat
OBVIOUS

(* A multiple between 0 and its factor's last multiple below n is a         *)
(* multiple by less than n.                                                *)
LEMMA FactorBounds ==
  ASSUME NEW f \in Nat \ {0}, NEW x \in Int, NEW n \in Nat \ {0},
         0 <= f * x, f * x <= (f - 1) * n
  PROVE  0 <= x /\ x < n
<1>1. ASSUME x < 0 PROVE FALSE
  <2>1. PICK y \in Nat : y = -x /\ y >= 1
    BY <1>1
  <2>2. f * y >= 1
    BY <2>1
  <2>3. f * x = -(f * y)
    BY <2>1
  <2> QED BY <2>2, <2>3
<1>2. ASSUME x >= n PROVE FALSE
  <2>1. PICK y \in Nat : x = n + y
    <3>1. x - n \in Nat /\ x = n + (x - n)
      BY <1>2
    <3> QED BY <3>1
  <2>2. f * x = f * n + f * y /\ f * y >= 0 /\ (f - 1) * n = f * n - n
    BY <2>1
  <2>3. f * n \in Int /\ f * y \in Int
    OBVIOUS
  <2> QED BY <2>2, <2>3
<1> QED BY <1>1, <1>2

(* A difference of two multiples of y is a multiple of y. *)
LEMMA FactorOut ==
  ASSUME NEW x \in Int, NEW y \in Int, NEW z \in Int, NEW q \in Int, x * y = y * z + q
  PROVE  y * (x - z) = q
OBVIOUS

(* Multiples of a positive factor compare as what is multiplied. *)
LEMMA FactorOrder ==
  ASSUME NEW f \in Nat \ {0}, NEW x \in Int, NEW y \in Int, f * x <= f * y
  PROVE  x <= y
<1>1. ASSUME x > y PROVE FALSE
  <2>1. PICK e \in Nat : x = y + e /\ e >= 1
    <3>1. x - y \in Nat /\ x = y + (x - y) /\ x - y >= 1
      BY <1>1
    <3> QED BY <3>1
  <2>2. f * (y + e) = f * y + f * e
    OBVIOUS
  <2>3. f * e >= 1
    BY <2>1
  <2>4. f * y \in Int /\ f * e \in Int
    OBVIOUS
  <2> QED BY <2>1, <2>2, <2>3, <2>4
<1> QED BY <1>1
=============================================================================
