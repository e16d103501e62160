-------------------------- MODULE PortfolioProofs --------------------------
(***************************************************************************)
(* Proofs about the user portfolios.  The inductive invariant joins the    *)
(* types, the four parts of PortfolioSound, which need one another, and    *)
(* what is known of numbers not handed out yet: a position starts with no  *)
(* result, no asset and no tag only because nothing was written under its  *)
(* number before.                                                          *)
(***************************************************************************)
EXTENDS Portfolio, FiniteSetTheorems, SequenceTheorems

(* Nothing is recorded under a number that was not handed out. *)
Unused ==
    \A i \in Ids : i >= nextId =>
        positions[i].realized = 0 /\ asset[i] = NoAsset /\ tag[i] = NoTag

PortfolioInv == PortfolioTypeOK /\ PortfolioSound /\ Unused

LEMMA Store ==
  ASSUME PortfolioTypeOK
  PROVE  /\ MaxPositions \in Nat /\ Ids \subseteq Nat /\ Ids = 1..MaxPositions
         /\ nextId \in Nat /\ nextId >= 1 /\ nextId <= MaxPositions + 1
         /\ legacy \in Nat /\ legacy < nextId
         /\ positions \in [Ids -> Positions] /\ list \in [Users -> SUBSET Ids]
         /\ openIds \in [Users -> SUBSET Ids] /\ closedIds \in [Users -> SUBSET Ids]
         /\ hasOpen \in [Users -> BOOLEAN] /\ hasClosed \in [Users -> BOOLEAN]
         /\ migrated \in [Users -> BOOLEAN]
         /\ tax \in [Ids -> TaxEvents] /\ partials \in [Ids -> Int]
BY PortfolioAssumption DEF PortfolioTypeOK, Ids

-----------------------------------------------------------------------------
LEMMA PortfolioInitInv == PortfolioInit => PortfolioInv
<1> SUFFICES ASSUME PortfolioInit PROVE PortfolioInv
  OBVIOUS
<1>0. /\ MaxPositions \in Nat /\ legacy \in {0, 1} /\ legacy <= MaxPositions
      /\ nextId = legacy + 1 /\ Ids = 1..MaxPositions
      /\ MaxPerTag \in Nat \ {0} /\ NoTag \notin Tags /\ NoAsset \notin Assets
  BY PortfolioAssumption DEF PortfolioInit, Ids
<1>1. PICK u \in Users, s \in {"Open", "Closed"}, p \in EntryPrices, x \in Sizes, d \in Deltas :
        /\ positions = [i \in Ids |-> IF i <= legacy
              THEN [price |-> p, amount |-> x, status |-> s,
                    realized |-> IF s = "Open" THEN 0 ELSE d]
              ELSE NoPosition]
        /\ list = [v \in Users |-> IF v = u THEN 1..legacy ELSE {}]
  BY DEF PortfolioInit
<1>2. /\ p \in Nat \ {0} /\ x \in Nat \ {0} /\ d \in Int
  BY PortfolioAssumption
<1>3. positions \in [Ids -> Positions]
  BY <1>1, <1>2 DEF NoPosition, Positions
<1>4. \A i \in Ids : /\ i <= legacy => positions[i].status = s /\ positions[i].amount = x
                     /\ i > legacy => positions[i] = NoPosition
  BY <1>0, <1>1
<1>5. PortfolioTypeOK
  <2>1. list \in [Users -> SUBSET Ids]
    BY <1>0, <1>1
  <2>2. nextId \in 1..(MaxPositions + 1) /\ legacy < nextId /\ legacy \in Nat
    BY <1>0
  <2>3. tax \in [Ids -> TaxEvents] /\ partials \in [Ids -> Int]
    BY <1>3 DEF PortfolioInit, Untaxed, TaxEvents, Positions
  <2>4. migrationQueue \in Seq(Users)
    BY DEF PortfolioInit
  <2>5. /\ openIds \in [Users -> SUBSET Ids] /\ closedIds \in [Users -> SUBSET Ids]
        /\ hasOpen \in [Users -> BOOLEAN] /\ hasClosed \in [Users -> BOOLEAN]
        /\ migrated \in [Users -> BOOLEAN]
        /\ streak \in [Users -> Nat] /\ best \in [Users -> Nat]
    BY DEF PortfolioInit
  <2>6. /\ asset \in [Ids -> Assets \cup {NoAsset}]
        /\ cap \in [Users -> [Assets -> Nat]] /\ exposure \in [Users -> [Assets -> Nat]]
        /\ capSince \in [Users -> [Assets -> Nat]]
        /\ tag \in [Ids -> Tags \cup {NoTag}] /\ byTag \in [Users -> [Tags -> SUBSET Ids]]
    BY DEF PortfolioInit
  <2> QED BY <1>3, <2>1, <2>2, <2>3, <2>4, <2>5, <2>6 DEF PortfolioTypeOK
<1>6. PositionsIndexed
  <2>1. \A i \in Ids : i < nextId <=> \E v \in Users : i \in list[v]
    BY <1>0, <1>1
  <2>2. \A v, w \in Users : v # w => list[v] \cap list[w] = {}
    BY <1>1
  <2>3. \A i \in Ids : positions[i].status = "None" <=> i >= nextId
    BY <1>0, <1>4 DEF NoPosition
  <2>4. \A v \in Users :
          /\ openIds[v] \subseteq OpenOf(v) /\ closedIds[v] \subseteq ClosedOf(v)
          /\ \A i \in list[v] : i > legacy \/ migrated[v] => i \in openIds[v] \cup closedIds[v]
          /\ (~hasOpen[v] => openIds[v] = {}) /\ (~hasClosed[v] => closedIds[v] = {})
    <3> TAKE v \in Users
    <3>1. openIds[v] = {} /\ closedIds[v] = {} /\ ~migrated[v]
      BY DEF PortfolioInit
    <3>2. \A i \in list[v] : ~(i > legacy)
      BY <1>0, <1>1
    <3> QED BY <3>1, <3>2
  <2> QED BY <2>1, <2>2, <2>3, <2>4 DEF PositionsIndexed
<1>7. RealizedOnce
  <2>1. \A i \in Ids : tax[i].events = 0 /\ tax[i].pnl = 0 /\ partials[i] = positions[i].realized
    BY DEF PortfolioInit, Untaxed
  <2>2. \A i \in Ids : positions[i].realized \in Int
    BY <1>3 DEF Positions
  <2>3. \A v \in Users : streak[v] <= best[v]
    BY DEF PortfolioInit
  <2>4. \A i \in Ids : i <= legacy \/ positions[i].status = "None"
    BY <1>0, <1>4 DEF NoPosition
  <2>5. \A i \in Ids : positions[i].status = "Open" => positions[i].amount > 0
    BY <1>2, <1>4, <2>4
  <2> QED BY <2>1, <2>2, <2>3, <2>4, <2>5 DEF RealizedOnce
<1>8. CapsHold
  <2> SUFFICES ASSUME NEW v \in Users, NEW a \in Assets
               PROVE  Total(OpenIn(v, a), MaxPositions) <= exposure[v][a] /\ cap[v][a] = 0
    BY DEF CapsHold
  <2>1. \A i \in Ids : asset[i] # a
    BY <1>0 DEF PortfolioInit
  <2>2. OpenIn(v, a) = [i \in 1..MaxPositions |-> 0]
    BY <1>0, <2>1 DEF OpenIn
  <2>3. exposure[v][a] = 0 /\ cap[v][a] = 0
    BY DEF PortfolioInit
  <2> QED BY <1>0, <2>2, <2>3, TotalZero
<1>9. TagsIndexed
  <2> SUFFICES ASSUME NEW v \in Users, NEW t \in Tags
               PROVE  /\ byTag[v][t] = {i \in list[v] : tag[i] = t}
                      /\ Cardinality(byTag[v][t]) <= MaxPerTag
    BY DEF TagsIndexed
  <2>1. \A i \in Ids : tag[i] # t
    BY <1>0 DEF PortfolioInit
  <2>2. list[v] \subseteq Ids /\ byTag[v][t] = {}
    BY <1>0, <1>1 DEF PortfolioInit
  <2>3. Cardinality({}) = 0
    BY FS_EmptySet
  <2> QED BY <1>0, <2>1, <2>2, <2>3
<1>10. Unused
  BY <1>0, <1>4 DEF PortfolioInit, Unused, NoPosition
<1> QED BY <1>5, <1>6, <1>7, <1>8, <1>9, <1>10 DEF PortfolioInv, PortfolioSound

-----------------------------------------------------------------------------
(* Frames: what a part of the invariant does not look at may move.          *)

LEMMA TagFrame ==
  ASSUME TagsIndexed, UNCHANGED <<tagVars, list>>
  PROVE  TagsIndexed'
BY DEF TagsIndexed, tagVars

LEMMA ResultFrame ==
  ASSUME RealizedOnce, UNCHANGED <<positions, legacy, closeVars>>
  PROVE  RealizedOnce'
BY DEF RealizedOnce, closeVars

(* The amount a position has open in an asset. *)
LEMMA OpenInTable ==
  ASSUME PortfolioTypeOK, NEW u \in Users, NEW a \in Assets
  PROVE  /\ OpenIn(u, a) \in [1..MaxPositions -> Int]
         /\ OpenIn(u, a) \in [1..MaxPositions -> Nat]
<1>1. \A i \in Ids : positions[i].amount \in Nat
  BY Store DEF Positions
<1> QED BY <1>1, Store DEF OpenIn

(* Caps are kept by a step that leaves the cap tables alone and opens      *)
(* nothing more under any asset.                                           *)
LEMMA CapFrame ==
  ASSUME PortfolioTypeOK, PortfolioTypeOK', CapsHold, UNCHANGED capVars,
         \A u \in Users, a \in Assets : \A i \in Ids : OpenIn(u, a)'[i] <= OpenIn(u, a)[i]
  PROVE  CapsHold'
<1> SUFFICES ASSUME NEW u \in Users, NEW a \in Assets
             PROVE  /\ Total(OpenIn(u, a)', MaxPositions) <= exposure'[u][a]
                    /\ cap'[u][a] # 0 => exposure'[u][a] <= cap'[u][a]
                                         \/ exposure'[u][a] = capSince'[u][a]
  BY DEF CapsHold
<1> DEFINE f == OpenIn(u, a)
           h == OpenIn(u, a)'
<1>1. f \in [1..MaxPositions -> Int] /\ h \in [1..MaxPositions -> Int]
  <2>1. \A i \in Ids : positions'[i].amount \in Nat
    BY DEF PortfolioTypeOK, Positions
  <2> QED BY <2>1, OpenInTable, Store DEF OpenIn
<1>2. MaxPositions \in Nat /\ \A i \in 1..MaxPositions : h[i] <= f[i]
  BY Store
<1>3. exposure[u][a] \in Nat
  BY DEF PortfolioTypeOK
<1>4. Total(f, MaxPositions) <= exposure[u][a]
      /\ (cap[u][a] # 0 => exposure[u][a] <= cap[u][a] \/ exposure[u][a] = capSince[u][a])
  BY DEF CapsHold
<1> HIDE DEF f, h
<1>5. Total(h, MaxPositions) <= Total(f, MaxPositions)
  BY <1>1, <1>2, TotalLeq
<1>6. Total(h, MaxPositions) \in Int /\ Total(f, MaxPositions) \in Int
  BY <1>1, <1>2, TotalInt
<1>7. Total(h, MaxPositions) <= exposure[u][a]
  BY <1>3, <1>4, <1>5, <1>6
<1> QED BY <1>4, <1>7 DEF capVars, h

-----------------------------------------------------------------------------
(* A step that changes one open position, or closes it: what the three     *)
(* ways to close have in common.                                           *)
Changes(u, i, r) ==
    /\ require_open_position(u, i)
    /\ r \in Positions /\ r.amount <= positions[i].amount
    /\ r.price = positions[i].price
    /\ positions' = [positions EXCEPT ![i] = r]
    /\ \/ r.status = "Closed" /\ mark_position_closed(u, i)
       \/ r.status = "Open" /\ UNCHANGED <<openIds, closedIds, hasOpen, hasClosed>>
    /\ UNCHANGED <<nextId, list, legacy, migrationVars, ruleVars, capVars, tagVars>>

LEMMA ChangeTypes ==
  ASSUME PortfolioTypeOK, NEW u \in Users, NEW i, NEW r, Changes(u, i, r),
         tax' \in [Ids -> TaxEvents], partials' \in [Ids -> Int],
         streak' \in [Users -> Nat], best' \in [Users -> Nat]
  PROVE  PortfolioTypeOK'
<1>1. i \in Ids /\ positions' \in [Ids -> Positions]
  BY Store DEF Changes, require_open_position
<1>2. openIds' \in [Users -> SUBSET Ids] /\ closedIds' \in [Users -> SUBSET Ids]
  <2>1. openIds \in [Users -> SUBSET Ids] /\ closedIds \in [Users -> SUBSET Ids]
    BY Store
  <2>2. CASE UNCHANGED <<openIds, closedIds>>
    BY <2>1, <2>2
  <2>3. CASE mark_position_closed(u, i)
    <3>1. openIds' \in [Users -> SUBSET Ids]
      BY <2>1, <2>3 DEF mark_position_closed
    <3>2. closedIds' \in [Users -> SUBSET Ids]
      BY <1>1, <2>1, <2>3 DEF mark_position_closed
    <3> QED BY <3>1, <3>2
  <2> QED BY <2>2, <2>3 DEF Changes
<1>3. hasOpen' \in [Users -> BOOLEAN] /\ hasClosed' \in [Users -> BOOLEAN]
  BY Store DEF Changes, mark_position_closed
<1> QED BY <1>1, <1>2, <1>3 DEF PortfolioTypeOK, Changes, migrationVars, capVars, tagVars

LEMMA ChangeIndexed ==
  ASSUME PortfolioTypeOK, PositionsIndexed, NEW u \in Users, NEW i, NEW r, Changes(u, i, r)
  PROVE  PositionsIndexed'
<1>0. /\ i \in Ids /\ i \in list[u] /\ positions[i].status = "Open"
      /\ r.status \in {"Open", "Closed"}
      /\ UNCHANGED <<nextId, list, legacy, migrated>>
  BY Store DEF Changes, require_open_position, migrationVars
<1>1. \A j \in Ids : positions'[j] = IF j = i THEN r ELSE positions[j]
  BY Store DEF Changes
<1>2. \A j \in Ids : j < nextId' <=> \E v \in Users : j \in list'[v]
  BY <1>0 DEF PositionsIndexed
<1>3. \A v, w \in Users : v # w => list'[v] \cap list'[w] = {}
  BY <1>0 DEF PositionsIndexed
<1>4. \A j \in Ids : positions'[j].status = "None" <=> j >= nextId'
  BY <1>0, <1>1 DEF PositionsIndexed
<1>5. ASSUME NEW v \in Users
      PROVE  /\ openIds'[v] \subseteq OpenOf(v)' /\ closedIds'[v] \subseteq ClosedOf(v)'
             /\ \A j \in list'[v] : j > legacy' \/ migrated'[v] => j \in openIds'[v] \cup closedIds'[v]
             /\ (~hasOpen'[v] => openIds'[v] = {}) /\ (~hasClosed'[v] => closedIds'[v] = {})
  <2>0. /\ openIds[v] \subseteq OpenOf(v) /\ closedIds[v] \subseteq ClosedOf(v)
        /\ \A j \in list[v] : j > legacy \/ migrated[v] => j \in openIds[v] \cup closedIds[v]
        /\ (~hasOpen[v] => openIds[v] = {}) /\ (~hasClosed[v] => closedIds[v] = {})
        /\ list[v] \subseteq Ids
    BY Store DEF PositionsIndexed
  <2>1. CASE v # u \/ r.status = "Open"
    <3>1. UNCHANGED <<openIds[v], closedIds[v], hasOpen[v], hasClosed[v]>>
      BY <1>0, <2>1, Store DEF Changes, mark_position_closed
    <3>2. \A j \in list[v] : positions'[j].status = positions[j].status
      BY <1>0, <1>1, <2>0, <2>1 DEF PositionsIndexed
    <3> QED BY <1>0, <2>0, <3>1, <3>2 DEF OpenOf, ClosedOf
  <2>2. CASE v = u /\ r.status = "Closed"
    <3>1. /\ openIds'[u] = openIds[u] \ {i} /\ closedIds'[u] = closedIds[u] \cup {i}
          /\ hasOpen'[u] /\ hasClosed'[u]
      BY <2>2, Store DEF Changes, mark_position_closed
    <3> QED BY <1>0, <1>1, <2>0, <2>2, <3>1 DEF OpenOf, ClosedOf
  <2> QED BY <1>0, <2>1, <2>2
<1> QED BY <1>2, <1>3, <1>4, <1>5 DEF PositionsIndexed

LEMMA ChangeKeeps ==
  ASSUME PortfolioInv, NEW u \in Users, NEW i, NEW r, Changes(u, i, r),
         tax' \in [Ids -> TaxEvents], partials' \in [Ids -> Int],
         streak' \in [Users -> Nat], best' \in [Users -> Nat], RealizedOnce'
  PROVE  PortfolioInv'
<1>0. PortfolioTypeOK /\ PositionsIndexed /\ CapsHold /\ TagsIndexed /\ Unused
  BY DEF PortfolioInv, PortfolioSound
<1>1. PortfolioTypeOK'
  BY <1>0, ChangeTypes
<1>2. PositionsIndexed'
  BY <1>0, ChangeIndexed
<1>3. TagsIndexed'
  BY <1>0, TagFrame DEF Changes
<1>4. \A j \in Ids : positions'[j] = IF j = i THEN r ELSE positions[j]
  BY <1>0, Store DEF Changes
<1>5. CapsHold'
  <2>1. UNCHANGED capVars /\ asset' = asset /\ list' = list
        /\ positions[i].status = "Open" /\ r.amount <= positions[i].amount /\ r \in Positions
    BY DEF Changes, require_open_position, capVars
  <2>2. ASSUME NEW v \in Users, NEW a \in Assets, NEW j \in Ids
        PROVE  OpenIn(v, a)'[j] <= OpenIn(v, a)[j]
    <3>1. positions[j].amount \in Nat /\ positions'[j].amount \in Nat
      BY <1>0, <1>1 DEF PortfolioTypeOK, Positions
    <3>2. /\ OpenIn(v, a)[j] = IF j \in list[v] /\ asset[j] = a /\ positions[j].status = "Open"
                               THEN positions[j].amount ELSE 0
          /\ OpenIn(v, a)'[j] = IF j \in list'[v] /\ asset'[j] = a /\ positions'[j].status = "Open"
                                THEN positions'[j].amount ELSE 0
      BY DEF OpenIn
    <3> QED BY <1>4, <2>1, <3>1, <3>2
  <2> QED BY <1>0, <1>1, <2>1, <2>2, CapFrame
<1>6. Unused'
  <2>1. i \in Ids /\ i < nextId /\ nextId' = nextId /\ asset' = asset /\ tag' = tag
    BY <1>0, Store DEF Changes, require_open_position, PositionsIndexed, capVars, tagVars
  <2>2. nextId \in Nat /\ Ids \subseteq Nat
    BY <1>0, Store
  <2>3. \A j \in Ids : j >= nextId => positions'[j] = positions[j]
    BY <1>4, <2>1, <2>2
  <2> QED BY <1>0, <2>1, <2>3 DEF Unused
<1> QED BY <1>1, <1>2, <1>3, <1>5, <1>6 DEF PortfolioInv, PortfolioSound

(* A position closed, with its result replaced. *)
LEMMA PositionClosed ==
  ASSUME NEW q \in Positions, NEW d \in Int
  PROVE  LET r == [q EXCEPT !.status = "Closed", !.realized = d] IN
         /\ r \in Positions /\ r.status = "Closed" /\ r.realized = d
         /\ r.price = q.price /\ r.amount = q.amount
<1> DEFINE r == [q EXCEPT !.status = "Closed", !.realized = d]
<1>1. r \in Positions
  BY DEF Positions
<1>2. r.status = "Closed" /\ r.realized = d
  BY DEF Positions
<1>3. r.price = q.price /\ r.amount = q.amount
  BY DEF Positions
<1> QED BY <1>1, <1>2, <1>3

(* Closing a position with a tax event for d: it had none before, so its   *)
(* result stays what partial closes and tax event say together.            *)
LEMMA TaxedClose ==
  ASSUME PortfolioInv, NEW u \in Users, NEW i, NEW r, NEW d \in Int, Changes(u, i, r),
         r.status = "Closed", r.amount = positions[i].amount,
         r.realized = positions[i].realized + d,
         tax' = [tax EXCEPT ![i] = Taxed(i, d)], partials' = partials,
         streak' \in [Users -> Nat], best' \in [Users -> Nat],
         \A v \in Users : streak'[v] <= best'[v]
  PROVE  PortfolioInv'
<1>0. /\ PortfolioTypeOK /\ RealizedOnce /\ i \in Ids /\ legacy' = legacy
      /\ positions[i] \in Positions /\ positions[i].status = "Open"
      /\ tax[i] \in TaxEvents
  BY Store DEF PortfolioInv, PortfolioSound, Changes, require_open_position
<1>5. tax[i].events = 0 /\ tax[i].pnl = 0
  BY <1>0 DEF RealizedOnce, TaxEvents
<1>6. /\ Taxed(i, d) \in TaxEvents /\ Taxed(i, d).events = 1 /\ Taxed(i, d).pnl = d
      /\ Taxed(i, d).amount = positions[i].amount
  BY <1>0, <1>5 DEF Taxed, TaxEvents, Positions
<1>7. \A j \in Ids : /\ tax'[j] = IF j = i THEN Taxed(i, d) ELSE tax[j]
                     /\ positions'[j] = IF j = i THEN r ELSE positions[j]
  BY <1>0, Store DEF Changes
<1>8. tax' \in [Ids -> TaxEvents] /\ partials' \in [Ids -> Int]
  BY <1>0, <1>6, Store
<1>10. RealizedOnce'
  <2> SUFFICES ASSUME NEW j \in Ids
               PROVE  /\ positions'[j].realized = partials'[j] + tax'[j].pnl
                      /\ tax'[j].events <= 1
                      /\ tax'[j].events = 1 => /\ positions'[j].status = "Closed"
                                               /\ tax'[j].amount = positions'[j].amount
                      /\ tax'[j].events = 0 => tax'[j].pnl = 0
                      /\ positions'[j].status = "Open" => positions'[j].amount > 0
                      /\ positions'[j].status = "Closed" /\ tax'[j].events = 0 =>
                           j <= legacy' \/ positions'[j].amount = 0
    BY DEF RealizedOnce
  <2>1. CASE j = i
    <3>1. positions[i].realized = partials[i] /\ partials[i] \in Int
      BY <1>0, <1>5, Store DEF RealizedOnce
    <3> QED BY <1>0, <1>6, <1>7, <2>1, <3>1
  <2>2. CASE j # i
    BY <1>0, <1>7, <2>2 DEF RealizedOnce
  <2> QED BY <2>1, <2>2
<1> QED BY <1>8, <1>10, ChangeKeeps

(* close_position *)
LEMMA CloseInv ==
  ASSUME PortfolioInv, NEW u \in Users, NEW i \in list[u], NEW d \in Deltas,
         close_position(u, i, d)
  PROVE  PortfolioInv' /\ \E r : Changes(u, i, r)
<1> DEFINE q == positions[i]
           r == [q EXCEPT !.status = "Closed", !.realized = q.realized + d]
<1>0. /\ PortfolioTypeOK /\ RealizedOnce /\ d \in Int /\ i \in Ids
      /\ q \in Positions /\ q.status = "Open" /\ q.amount \in Nat
      /\ streak \in [Users -> Nat] /\ best \in [Users -> Nat]
  BY Store, PortfolioAssumption
     DEF PortfolioInv, PortfolioSound, PortfolioTypeOK, close_position,
         require_open_position, Positions
<1>1. /\ r \in Positions /\ r.status = "Closed" /\ r.amount = q.amount
      /\ r.price = q.price /\ r.realized = q.realized + d
  <2>1. q \in Positions /\ q.realized + d \in Int
    BY <1>0 DEF Positions
  <2> HIDE DEF q
  <2> QED BY <2>1, PositionClosed
<1>2. positions' = [positions EXCEPT ![i] = r]
  BY <1>0, Store DEF close_position
<1> HIDE DEF r
<1>3. Changes(u, i, r)
  <2>1. r.amount <= q.amount
    BY <1>0, <1>1
  <2> QED BY <1>1, <1>2, <2>1 DEF Changes, close_position
<1>4. /\ streak' \in [Users -> Nat] /\ best' \in [Users -> Nat]
      /\ \A v \in Users : streak'[v] <= best'[v]
  <2>1. \A v \in Users : streak[v] <= best[v]
    BY <1>0 DEF RealizedOnce
  <2> QED BY <1>0, <2>1 DEF close_position
<1>5. tax' = [tax EXCEPT ![i] = Taxed(i, d)] /\ partials' = partials
  BY DEF close_position
<1> QED BY <1>0, <1>1, <1>3, <1>4, <1>5, TaxedClose

(* close_position_keeper *)
LEMMA KeeperInv ==
  ASSUME PortfolioInv, NEW u \in Users, NEW i \in list[u], close_position_keeper(u, i)
  PROVE  PortfolioInv' /\ \E r : Changes(u, i, r)
<1> DEFINE q == positions[i]
           r == [q EXCEPT !.status = "Closed"]
<1>0. /\ PortfolioTypeOK /\ RealizedOnce /\ i \in Ids
      /\ q \in Positions /\ q.status = "Open" /\ q.amount \in Nat /\ q.realized \in Int
      /\ streak \in [Users -> Nat] /\ best \in [Users -> Nat]
  BY Store DEF PortfolioInv, PortfolioSound, PortfolioTypeOK, close_position_keeper,
         require_open_position, Positions
<1>1. /\ r \in Positions /\ r.status = "Closed" /\ r.amount = q.amount
      /\ r.price = q.price /\ r.realized = q.realized
  <2>1. r \in Positions
    BY <1>0 DEF Positions
  <2>2. r.status = "Closed" /\ r.amount = q.amount
    BY <1>0 DEF Positions
  <2>3. r.price = q.price /\ r.realized = q.realized
    BY <1>0 DEF Positions
  <2> QED BY <2>1, <2>2, <2>3
<1>2. positions' = [positions EXCEPT ![i] = r]
  BY <1>0, Store DEF close_position_keeper
<1> HIDE DEF r
<1>3. Changes(u, i, r)
  <2>1. r.amount <= q.amount
    BY <1>0, <1>1
  <2> QED BY <1>1, <1>2, <2>1 DEF Changes, close_position_keeper
<1>4. /\ streak' \in [Users -> Nat] /\ best' \in [Users -> Nat]
      /\ \A v \in Users : streak'[v] <= best'[v]
  BY <1>0 DEF RealizedOnce, close_position_keeper
<1>5. tax' = [tax EXCEPT ![i] = Taxed(i, 0)] /\ partials' = partials
  BY DEF close_position_keeper
<1>6. r.realized = q.realized + 0 /\ 0 \in Int
  BY <1>0, <1>1
<1>7. PortfolioInv'
  BY <1>1, <1>3, <1>4, <1>5, <1>6, TaxedClose, Zenon
<1> QED BY <1>3, <1>7

(* close_position_partial *)
LEMMA PartialInv ==
  ASSUME PortfolioInv, NEW u \in Users, NEW i \in list[u], NEW x \in Sizes, NEW d \in Deltas,
         close_position_partial(u, i, x, d)
  PROVE  PortfolioInv' /\ \E r : Changes(u, i, r)
<1> DEFINE q == positions[i]
           s == IF x = q.amount THEN "Closed" ELSE "Open"
           n == q.amount - x
           e == q.realized + d
           r == [q EXCEPT !.amount = n, !.realized = e, !.status = s]
<1>0. /\ PortfolioTypeOK /\ RealizedOnce /\ d \in Int /\ i \in Ids /\ x \in Nat \ {0}
      /\ q \in Positions /\ q.status = "Open" /\ q.amount \in Nat /\ q.realized \in Int
      /\ x <= q.amount /\ streak \in [Users -> Nat] /\ best \in [Users -> Nat]
      /\ tax[i] \in TaxEvents
  BY Store, PortfolioAssumption
     DEF PortfolioInv, PortfolioSound, PortfolioTypeOK, close_position_partial,
         require_open_position, Positions
<1>1. /\ r \in Positions /\ r.status = s /\ r.amount = n
      /\ r.price = q.price /\ r.realized = e
  <2>1. q \in Positions /\ e \in Int /\ n \in Nat
        /\ s \in {"None", "Open", "Closed"}
    BY <1>0
  <2> HIDE DEF q, s, n, e
  <2>2. r \in Positions
    BY <2>1 DEF Positions
  <2>3. r.status = s /\ r.realized = e
    BY <2>1 DEF Positions
  <2>4. r.price = q.price /\ r.amount = n
    BY <2>1 DEF Positions
  <2> QED BY <2>2, <2>3, <2>4
<1>2. positions' = [positions EXCEPT ![i] = r]
  BY <1>0, Store DEF close_position_partial
<1> HIDE DEF r
<1>3. Changes(u, i, r)
  <2>1. r.amount <= q.amount
    BY <1>0, <1>1
  <2>2. \/ r.status = "Closed" /\ mark_position_closed(u, i)
        \/ r.status = "Open" /\ UNCHANGED <<openIds, closedIds, hasOpen, hasClosed>>
    BY <1>0, <1>1 DEF close_position_partial
  <2> QED BY <1>1, <1>2, <2>1, <2>2 DEF Changes, close_position_partial
<1>4. UNCHANGED <<tax, streak, best, legacy>>
      /\ partials' = [partials EXCEPT ![i] = partials[i] + d]
  BY DEF close_position_partial
<1>5. \A j \in Ids : /\ partials'[j] = IF j = i THEN partials[i] + d ELSE partials[j]
                     /\ positions'[j] = IF j = i THEN r ELSE positions[j]
  BY <1>0, <1>2, <1>4, Store
<1>6. tax' \in [Ids -> TaxEvents] /\ partials' \in [Ids -> Int] /\ partials[i] \in Int
  BY <1>0, <1>4, Store
<1>7. tax[i].events = 0 /\ tax[i].pnl = 0
  BY <1>0 DEF RealizedOnce, TaxEvents
<1>8. RealizedOnce'
  <2> SUFFICES ASSUME NEW j \in Ids
               PROVE  /\ positions'[j].realized = partials'[j] + tax'[j].pnl
                      /\ tax'[j].events <= 1
                      /\ tax'[j].events = 1 => /\ positions'[j].status = "Closed"
                                               /\ tax'[j].amount = positions'[j].amount
                      /\ tax'[j].events = 0 => tax'[j].pnl = 0
                      /\ positions'[j].status = "Open" => positions'[j].amount > 0
                      /\ positions'[j].status = "Closed" /\ tax'[j].events = 0 =>
                           j <= legacy' \/ positions'[j].amount = 0
    BY <1>0, <1>4 DEF RealizedOnce
  <2>1. CASE j = i
    <3>1. q.realized = partials[i]
      BY <1>0, <1>6, <1>7 DEF RealizedOnce
    <3>2. positions'[i].realized = partials'[i] + tax'[i].pnl
      BY <1>0, <1>1, <1>4, <1>5, <1>6, <1>7, <3>1
    <3>3. /\ positions'[i].status = "Open" => positions'[i].amount > 0
          /\ positions'[i].status = "Closed" => positions'[i].amount = 0
      BY <1>0, <1>1, <1>5
    <3> QED BY <1>4, <1>7, <2>1, <3>2, <3>3
  <2>2. CASE j # i
    BY <1>0, <1>4, <1>5, <2>2 DEF RealizedOnce
  <2> QED BY <2>1, <2>2
<1> QED BY <1>0, <1>3, <1>4, <1>6, <1>8, ChangeKeeps

-----------------------------------------------------------------------------
(* Opening a position takes the next number.                                *)
LEMMA EnterFacts ==
  ASSUME PortfolioInv, NEW u \in Users, NEW p \in EntryPrices, NEW x \in Sizes, Enter(u, p, x)
  PROVE  /\ nextId \in Ids /\ nextId' = nextId + 1 /\ x \in Nat \ {0}
         /\ \A v \in Users : nextId \notin list[v]
         /\ positions[nextId].status = "None" /\ positions[nextId].realized = 0
         /\ asset[nextId] = NoAsset /\ tag[nextId] = NoTag
         /\ positions' \in [Ids -> Positions]
         /\ positions'[nextId].amount = x /\ positions'[nextId].status = "Open"
         /\ positions'[nextId].realized = 0
         /\ \A j \in Ids : j # nextId => positions'[j] = positions[j]
         /\ \A v \in Users : list'[v] = IF v = u THEN list[u] \cup {nextId} ELSE list[v]
         /\ list' \in [Users -> SUBSET Ids]
<1> DEFINE r == [price |-> p, amount |-> x, status |-> "Open", realized |-> 0]
<1>0. PortfolioTypeOK /\ PositionsIndexed /\ Unused /\ p \in Nat /\ x \in Nat \ {0}
  BY PortfolioAssumption DEF PortfolioInv, PortfolioSound
<1>1. nextId \in Ids /\ nextId' = nextId + 1 /\ ~(nextId < nextId) /\ nextId >= nextId
  BY <1>0, Store DEF Enter
<1>2. \A v \in Users : nextId \notin list[v]
  BY <1>0, <1>1 DEF PositionsIndexed
<1>3. /\ positions[nextId].status = "None" /\ positions[nextId].realized = 0
      /\ asset[nextId] = NoAsset /\ tag[nextId] = NoTag
  BY <1>0, <1>1 DEF PositionsIndexed, Unused
<1>4. r \in Positions /\ r.amount = x /\ r.status = "Open" /\ r.realized = 0
  BY <1>0 DEF Positions
<1>5. positions' = [positions EXCEPT ![nextId] = r]
  BY DEF Enter
<1> HIDE DEF r
<1>6. /\ positions' \in [Ids -> Positions] /\ positions'[nextId] = r
      /\ \A j \in Ids : j # nextId => positions'[j] = positions[j]
  BY <1>0, <1>1, <1>4, <1>5, Store
<1>7. list' = [list EXCEPT ![u] = list[u] \cup {nextId}] /\ list \in [Users -> SUBSET Ids]
  BY <1>0, Store DEF Enter
<1>8. list' \in [Users -> SUBSET Ids]
  BY <1>1, <1>7
<1>9. \A v \in Users : list'[v] = IF v = u THEN list[u] \cup {nextId} ELSE list[v]
  BY <1>7
<1> QED BY <1>0, <1>1, <1>2, <1>3, <1>4, <1>6, <1>8, <1>9

LEMMA EnterIndexed ==
  ASSUME PortfolioInv, NEW u \in Users, NEW p \in EntryPrices, NEW x \in Sizes, Enter(u, p, x),
         UNCHANGED migrationVars
  PROVE  PositionsIndexed'
<1>0. PortfolioTypeOK /\ PositionsIndexed
  BY DEF PortfolioInv, PortfolioSound
<1>1. /\ nextId \in Ids /\ nextId' = nextId + 1
      /\ \A v \in Users : nextId \notin list[v]
      /\ positions'[nextId].status = "Open"
      /\ \A j \in Ids : j # nextId => positions'[j] = positions[j]
      /\ \A v \in Users : list'[v] = IF v = u THEN list[u] \cup {nextId} ELSE list[v]
  BY EnterFacts
<1>2. /\ nextId \in Nat /\ Ids \subseteq Nat /\ legacy' = legacy /\ migrated' = migrated
      /\ closedIds' = closedIds /\ hasClosed' = hasClosed
  BY <1>0, Store DEF Enter, migrationVars
<1>3. ASSUME NEW j \in Ids PROVE j < nextId' <=> \E v \in Users : j \in list'[v]
  <2>1. j < nextId' <=> j < nextId \/ j = nextId
    BY <1>1, <1>2
  <2>2. (\E v \in Users : j \in list'[v]) <=> (\E v \in Users : j \in list[v]) \/ j = nextId
    BY <1>1
  <2> QED BY <1>0, <2>1, <2>2 DEF PositionsIndexed
<1>4. \A v, w \in Users : v # w => list'[v] \cap list'[w] = {}
  BY <1>0, <1>1 DEF PositionsIndexed
<1>5. ASSUME NEW j \in Ids PROVE positions'[j].status = "None" <=> j >= nextId'
  <2>1. CASE j = nextId
    BY <1>1, <1>2, <2>1
  <2>2. CASE j # nextId
    <3>1. j >= nextId' <=> j >= nextId
      BY <1>1, <1>2, <2>2
    <3> QED BY <1>0, <1>1, <2>2, <3>1 DEF PositionsIndexed
  <2> QED BY <2>1, <2>2
<1>6. ASSUME NEW v \in Users
      PROVE  /\ openIds'[v] \subseteq OpenOf(v)' /\ closedIds'[v] \subseteq ClosedOf(v)'
             /\ \A j \in list'[v] : j > legacy' \/ migrated'[v] => j \in openIds'[v] \cup closedIds'[v]
             /\ (~hasOpen'[v] => openIds'[v] = {}) /\ (~hasClosed'[v] => closedIds'[v] = {})
  <2>0. /\ openIds[v] \subseteq OpenOf(v) /\ closedIds[v] \subseteq ClosedOf(v)
        /\ \A j \in list[v] : j > legacy \/ migrated[v] => j \in openIds[v] \cup closedIds[v]
        /\ (~hasOpen[v] => openIds[v] = {}) /\ (~hasClosed[v] => closedIds[v] = {})
    BY <1>0 DEF PositionsIndexed
  <2>1. \A j \in list[v] : positions'[j] = positions[j]
    BY <1>0, <1>1, Store
  <2>2. CASE v = u
    <3>1. openIds'[u] = openIds[u] \cup {nextId} /\ hasOpen'[u]
      BY <1>0, Store DEF Enter
    <3> QED BY <1>1, <1>2, <2>0, <2>1, <2>2, <3>1 DEF OpenOf, ClosedOf
  <2>3. CASE v # u
    <3>1. openIds'[v] = openIds[v] /\ hasOpen'[v] = hasOpen[v] /\ list'[v] = list[v]
      BY <1>0, <1>1, <2>3, Store DEF Enter
    <3> QED BY <1>2, <2>0, <2>1, <3>1 DEF OpenOf, ClosedOf
  <2> QED BY <2>2, <2>3
<1> QED BY <1>3, <1>4, <1>5, <1>6 DEF PositionsIndexed

LEMMA EnterRest ==
  ASSUME PortfolioInv, NEW u \in Users, NEW p \in EntryPrices, NEW x \in Sizes, Enter(u, p, x),
         UNCHANGED <<migrationVars, closeVars, tagVars>>
  PROVE  RealizedOnce' /\ TagsIndexed'
<1>0. PortfolioTypeOK /\ RealizedOnce /\ TagsIndexed /\ NoTag \notin Tags
  BY PortfolioAssumption DEF PortfolioInv, PortfolioSound
<1>1. /\ nextId \in Ids /\ x \in Nat \ {0}
      /\ positions[nextId].status = "None" /\ positions[nextId].realized = 0
      /\ tag[nextId] = NoTag
      /\ positions'[nextId].amount = x /\ positions'[nextId].status = "Open"
      /\ positions'[nextId].realized = 0
      /\ \A j \in Ids : j # nextId => positions'[j] = positions[j]
      /\ \A v \in Users : list'[v] = IF v = u THEN list[u] \cup {nextId} ELSE list[v]
  BY EnterFacts
<1>2. UNCHANGED <<tax, partials, streak, best, legacy, tag, byTag>>
  BY DEF closeVars, tagVars, Enter
<1>3. RealizedOnce'
  <2> SUFFICES ASSUME NEW j \in Ids
               PROVE  /\ positions'[j].realized = partials[j] + tax[j].pnl
                      /\ tax[j].events <= 1
                      /\ tax[j].events = 1 => /\ positions'[j].status = "Closed"
                                              /\ tax[j].amount = positions'[j].amount
                      /\ tax[j].events = 0 => tax[j].pnl = 0
                      /\ positions'[j].status = "Open" => positions'[j].amount > 0
                      /\ positions'[j].status = "Closed" /\ tax[j].events = 0 =>
                           j <= legacy \/ positions'[j].amount = 0
    BY <1>0, <1>2 DEF RealizedOnce
  <2>1. CASE j = nextId
    <3>1. tax[nextId].events \in Nat
      BY <1>0, <1>1, Store DEF TaxEvents
    <3>2. tax[nextId].events = 0 /\ tax[nextId].pnl = 0 /\ 0 = partials[nextId] + tax[nextId].pnl
      BY <1>0, <1>1, <3>1 DEF RealizedOnce
    <3> QED BY <1>1, <2>1, <3>2
  <2>2. CASE j # nextId
    BY <1>0, <1>1, <2>2 DEF RealizedOnce
  <2> QED BY <2>1, <2>2
<1>4. TagsIndexed'
  BY <1>0, <1>1, <1>2 DEF TagsIndexed
<1> QED BY <1>3, <1>4

LEMMA EnterTypes ==
  ASSUME PortfolioInv, NEW u \in Users, NEW p \in EntryPrices, NEW x \in Sizes, Enter(u, p, x),
         UNCHANGED <<migrationVars, closeVars, tagVars, cap, capSince>>,
         asset' \in [Ids -> Assets \cup {NoAsset}], exposure' \in [Users -> [Assets -> Nat]]
  PROVE  PortfolioTypeOK'
<1>0. PortfolioTypeOK
  BY DEF PortfolioInv
<1>1. /\ nextId \in Ids /\ nextId' = nextId + 1 /\ positions' \in [Ids -> Positions]
      /\ list' \in [Users -> SUBSET Ids]
  BY EnterFacts
<1>2. nextId' \in 1..(MaxPositions + 1) /\ legacy' = legacy /\ legacy' < nextId'
  BY <1>0, <1>1, Store DEF Enter
<1>3. openIds' \in [Users -> SUBSET Ids] /\ hasOpen' \in [Users -> BOOLEAN]
  <2>1. openIds \in [Users -> SUBSET Ids] /\ hasOpen \in [Users -> BOOLEAN]
    BY <1>0, Store
  <2>2. /\ openIds' = [openIds EXCEPT ![u] = openIds[u] \cup {nextId}]
        /\ hasOpen' = [hasOpen EXCEPT ![u] = TRUE]
    BY DEF Enter
  <2> QED BY <1>1, <2>1, <2>2
<1>4. UNCHANGED <<closedIds, hasClosed>>
  BY DEF Enter
<1> QED BY <1>0, <1>1, <1>2, <1>3, <1>4
        DEF PortfolioTypeOK, migrationVars, closeVars, tagVars

(* open_position: the position is under no asset. *)
LEMMA OpenInv ==
  ASSUME PortfolioInv, NEW u \in Users, NEW p \in EntryPrices, NEW x \in Sizes,
         open_position(u, p, x)
  PROVE  PortfolioInv'
<1>0. /\ PortfolioTypeOK /\ Enter(u, p, x) /\ CapsHold /\ Unused
      /\ UNCHANGED <<migrationVars, closeVars, tagVars, capVars>>
      /\ NoAsset \notin Assets
  BY PortfolioAssumption DEF PortfolioInv, PortfolioSound, open_position
<1>1. PortfolioTypeOK'
  <2>1. UNCHANGED <<asset, cap, exposure, capSince>>
    BY <1>0 DEF capVars
  <2>2. asset' \in [Ids -> Assets \cup {NoAsset}] /\ exposure' \in [Users -> [Assets -> Nat]]
    BY <1>0, <2>1 DEF PortfolioTypeOK
  <2> QED BY <1>0, <2>1, <2>2, EnterTypes
<1>2. PositionsIndexed' /\ RealizedOnce' /\ TagsIndexed'
  BY <1>0, EnterIndexed, EnterRest
<1>3. /\ nextId \in Ids /\ nextId' = nextId + 1
      /\ asset[nextId] = NoAsset
      /\ \A j \in Ids : j # nextId => positions'[j] = positions[j]
      /\ \A v \in Users : list'[v] = IF v = u THEN list[u] \cup {nextId} ELSE list[v]
  BY <1>0, EnterFacts
<1>4. CapsHold'
  <2>1. ASSUME NEW v \in Users, NEW a \in Assets, NEW j \in Ids
        PROVE  OpenIn(v, a)'[j] <= OpenIn(v, a)[j]
    <3>1. positions[j].amount \in Nat
      BY <1>0 DEF PortfolioTypeOK, Positions
    <3>2. /\ OpenIn(v, a)[j] = IF j \in list[v] /\ asset[j] = a /\ positions[j].status = "Open"
                               THEN positions[j].amount ELSE 0
          /\ OpenIn(v, a)'[j] = IF j \in list'[v] /\ asset'[j] = a /\ positions'[j].status = "Open"
                                THEN positions'[j].amount ELSE 0
      BY DEF OpenIn
    <3>3. asset' = asset
      BY <1>0 DEF capVars
    <3>4. CASE j = nextId
      BY <1>0, <1>3, <3>1, <3>2, <3>3, <3>4
    <3>5. CASE j # nextId
      <4>1. positions'[j] = positions[j] /\ (j \in list'[v] <=> j \in list[v])
        BY <1>3, <3>5
      <4> QED BY <3>1, <3>2, <3>3, <4>1
    <3> QED BY <3>4, <3>5
  <2> QED BY <1>0, <1>1, <2>1, CapFrame
<1>5. Unused'
  <2>1. nextId \in Nat /\ Ids \subseteq Nat /\ asset' = asset /\ tag' = tag
    BY <1>0, Store DEF capVars, tagVars
  <2>2. \A j \in Ids : j >= nextId' => j >= nextId /\ j # nextId
    BY <1>3, <2>1
  <2> QED BY <1>0, <1>3, <2>1, <2>2 DEF Unused
<1> QED BY <1>1, <1>2, <1>4, <1>5 DEF PortfolioInv, PortfolioSound

(* open_position_with_cap_check: what is opened under an asset is added to *)
(* its exposure, and the cap was consulted.                                *)
LEMMA OpenCappedInv ==
  ASSUME PortfolioInv, NEW u \in Users, NEW a \in Assets, NEW p \in EntryPrices,
         NEW x \in Sizes, open_position_with_cap_check(u, a, p, x)
  PROVE  PortfolioInv'
<1>0. /\ PortfolioTypeOK /\ Enter(u, p, x) /\ CapsHold /\ Unused
      /\ UNCHANGED <<migrationVars, closeVars, tagVars, cap, capSince>>
      /\ asset' = [asset EXCEPT ![nextId] = a]
      /\ exposure' = [exposure EXCEPT ![u][a] = exposure[u][a] + x]
      /\ check_cap(u, a, x)
  BY DEF PortfolioInv, PortfolioSound, open_position_with_cap_check
<1>1. /\ nextId \in Ids /\ nextId' = nextId + 1 /\ x \in Nat \ {0}
      /\ \A v \in Users : nextId \notin list[v]
      /\ positions[nextId].status = "None" /\ positions'[nextId].amount = x
      /\ positions'[nextId].status = "Open"
      /\ \A j \in Ids : j # nextId => positions'[j] = positions[j]
      /\ \A v \in Users : list'[v] = IF v = u THEN list[u] \cup {nextId} ELSE list[v]
  BY <1>0, EnterFacts
<1>2. /\ exposure \in [Users -> [Assets -> Nat]] /\ asset \in [Ids -> Assets \cup {NoAsset}]
      /\ cap \in [Users -> [Assets -> Nat]] /\ capSince \in [Users -> [Assets -> Nat]]
  BY <1>0 DEF PortfolioTypeOK
<1>3. /\ \A v \in Users, b \in Assets :
           exposure'[v][b] = IF v = u /\ b = a THEN exposure[u][a] + x ELSE exposure[v][b]
      /\ exposure' \in [Users -> [Assets -> Nat]]
  BY <1>0, <1>1, <1>2
<1>4. /\ \A j \in Ids : asset'[j] = IF j = nextId THEN a ELSE asset[j]
      /\ asset' \in [Ids -> Assets \cup {NoAsset}]
  BY <1>0, <1>1, <1>2
<1>5. PortfolioTypeOK'
  BY <1>0, <1>3, <1>4, EnterTypes
<1>6. PositionsIndexed' /\ RealizedOnce' /\ TagsIndexed'
  BY <1>0, EnterIndexed, EnterRest
<1>7. CapsHold'
  <2> SUFFICES ASSUME NEW v \in Users, NEW b \in Assets
               PROVE  /\ Total(OpenIn(v, b)', MaxPositions) <= exposure'[v][b]
                      /\ cap[v][b] # 0 => exposure'[v][b] <= cap[v][b]
                                          \/ exposure'[v][b] = capSince[v][b]
    BY <1>0 DEF CapsHold
  <2> DEFINE f == OpenIn(v, b)
             h == OpenIn(v, b)'
  <2>0. /\ Total(f, MaxPositions) <= exposure[v][b]
        /\ cap[v][b] # 0 => exposure[v][b] <= cap[v][b] \/ exposure[v][b] = capSince[v][b]
        /\ exposure[v][b] \in Nat /\ cap[v][b] \in Nat
    BY <1>0, <1>2 DEF CapsHold
  <2>1. /\ \A j \in Ids : f[j] = IF j \in list[v] /\ asset[j] = b /\ positions[j].status = "Open"
                                 THEN positions[j].amount ELSE 0
        /\ \A j \in Ids : h[j] = IF j \in list'[v] /\ asset'[j] = b /\ positions'[j].status = "Open"
                                 THEN positions'[j].amount ELSE 0
    BY DEF OpenIn
  <2>2. f \in [1..MaxPositions -> Int] /\ h \in [1..MaxPositions -> Int]
    <3>1. \A i \in Ids : positions'[i].amount \in Nat
      BY <1>5 DEF PortfolioTypeOK, Positions
    <3> QED BY <1>0, <3>1, OpenInTable, Store DEF OpenIn
  <2> HIDE DEF f, h
  <2>3. \A j \in Ids : j # nextId => h[j] = f[j]
    <3> SUFFICES ASSUME NEW j \in Ids, j # nextId PROVE h[j] = f[j]
      OBVIOUS
    <3>1. /\ positions'[j] = positions[j] /\ asset'[j] = asset[j]
          /\ (j \in list'[v] <=> j \in list[v])
      BY <1>1, <1>4
    <3> QED BY <2>1, <3>1
  <2>4. f[nextId] = 0 /\ h[nextId] = IF v = u /\ b = a THEN x ELSE 0
    BY <1>1, <1>4, <2>1
  <2>5. MaxPositions \in Nat /\ nextId \in 1..MaxPositions /\ Ids = 1..MaxPositions
    BY <1>0, <1>1, Store
  <2>6. Total(h, MaxPositions) = Total(f, MaxPositions) + h[nextId] - f[nextId]
    BY <2>2, <2>3, <2>5, TotalChange
  <2>7. Total(f, MaxPositions) \in Int
    BY <2>2, <2>5, TotalInt
  <2>8. CASE v = u /\ b = a
    <3>1. exposure'[v][b] = exposure[v][b] + x
      BY <1>3, <2>8
    <3>2. Total(h, MaxPositions) = Total(f, MaxPositions) + x
      BY <1>1, <2>4, <2>6, <2>7, <2>8
    <3>3. Total(h, MaxPositions) <= exposure'[v][b]
      BY <1>1, <2>0, <2>7, <3>1, <3>2
    <3>4. cap[v][b] # 0 => exposure'[v][b] <= cap[v][b]
      BY <1>0, <2>8, <3>1 DEF check_cap
    <3> QED BY <3>3, <3>4 DEF h
  <2>9. CASE ~(v = u /\ b = a)
    <3>1. exposure'[v][b] = exposure[v][b]
      BY <1>3, <2>9
    <3>2. Total(h, MaxPositions) = Total(f, MaxPositions)
      BY <2>4, <2>6, <2>7, <2>9
    <3> QED BY <2>0, <3>1, <3>2 DEF h
  <2> QED BY <2>8, <2>9
<1>8. Unused'
  <2>1. nextId \in Nat /\ Ids \subseteq Nat /\ tag' = tag /\ nextId' = nextId + 1
    BY <1>0, <1>1, Store DEF tagVars
  <2>2. \A j \in Ids : j >= nextId' => j >= nextId /\ j # nextId
    BY <2>1
  <2> QED BY <1>0, <1>1, <1>4, <2>1, <2>2 DEF Unused
<1> QED BY <1>5, <1>6, <1>7, <1>8 DEF PortfolioInv, PortfolioSound

-----------------------------------------------------------------------------
(* The other steps.                                                         *)

(* set_asset_exposure_cap and remove_asset_exposure_cap *)
LEMMA SetCapInv ==
  ASSUME PortfolioInv, NEW u \in Users, NEW a \in Assets, NEW c \in Nat, SetCap(u, a, c)
  PROVE  PortfolioInv'
<1>0. /\ PortfolioTypeOK /\ PositionsIndexed /\ RealizedOnce /\ CapsHold /\ TagsIndexed /\ Unused
      /\ UNCHANGED <<asset, exposure, positionVars, migrationVars, closeVars, tagVars>>
      /\ cap' = [cap EXCEPT ![u][a] = c]
      /\ capSince' = [capSince EXCEPT ![u][a] = exposure[u][a]]
  BY DEF PortfolioInv, PortfolioSound, SetCap
<1>1. /\ cap \in [Users -> [Assets -> Nat]] /\ capSince \in [Users -> [Assets -> Nat]]
      /\ exposure \in [Users -> [Assets -> Nat]]
  BY <1>0 DEF PortfolioTypeOK
<1>2. /\ cap' \in [Users -> [Assets -> Nat]] /\ capSince' \in [Users -> [Assets -> Nat]]
      /\ \A v \in Users, b \in Assets :
           IF v = u /\ b = a THEN capSince'[v][b] = exposure[v][b]
           ELSE cap'[v][b] = cap[v][b] /\ capSince'[v][b] = capSince[v][b]
  BY <1>0, <1>1
<1>3. PortfolioTypeOK'
  BY <1>0, <1>2 DEF PortfolioTypeOK, positionVars, migrationVars, closeVars, tagVars
<1>4. PositionsIndexed' /\ RealizedOnce' /\ TagsIndexed' /\ Unused'
  BY <1>0 DEF PositionsIndexed, OpenOf, ClosedOf, RealizedOnce, TagsIndexed, Unused,
              positionVars, migrationVars, closeVars, tagVars
<1>5. CapsHold'
  <2>1. ASSUME NEW v \in Users, NEW b \in Assets
        PROVE  OpenIn(v, b)' = OpenIn(v, b)
    BY <1>0 DEF OpenIn, positionVars
  <2> QED BY <1>0, <1>2, <2>1 DEF CapsHold
<1> QED BY <1>3, <1>4, <1>5 DEF PortfolioInv, PortfolioSound

(* tag_position and untag_position write one position's tag and the user's *)
(* index; only the type, TagsIndexed and Unused see it.                    *)
Retagged(u, i, s) ==
    /\ s \in Tags \cup {NoTag} /\ tag' = [tag EXCEPT ![i] = s]
    /\ byTag' \in [Users -> [Tags -> SUBSET Ids]]
    /\ \A v \in Users, t \in Tags :
          IF v = u THEN byTag'[v][t] = IF t = s THEN (byTag[u][t] \ {i}) \cup {i}
                                       ELSE byTag[u][t] \ {i}
          ELSE byTag'[v][t] = byTag[v][t]
    /\ s \in Tags => Cardinality(byTag[u][s] \ {i}) < MaxPerTag
    /\ UNCHANGED <<positionVars, migrationVars, closeVars, capVars>>
LEMMA TagStep ==
  ASSUME PortfolioInv, NEW u \in Users, NEW i \in list[u], NEW s, Retagged(u, i, s)
  PROVE  PortfolioInv'
<1> USE DEF Retagged
<1>0. /\ PortfolioTypeOK /\ PositionsIndexed /\ RealizedOnce /\ CapsHold /\ TagsIndexed /\ Unused
      /\ i \in Ids /\ MaxPositions \in Nat /\ MaxPerTag \in Nat
  BY Store, PortfolioAssumption DEF PortfolioInv, PortfolioSound
<1>1. /\ tag' \in [Ids -> Tags \cup {NoTag}]
      /\ \A j \in Ids : tag'[j] = IF j = i THEN s ELSE tag[j]
  BY <1>0 DEF PortfolioTypeOK
<1>2. PortfolioTypeOK'
  BY <1>0, <1>1 DEF PortfolioTypeOK, positionVars, migrationVars, closeVars, capVars
<1>3. PositionsIndexed' /\ RealizedOnce' /\ CapsHold'
  <2>1. PositionsIndexed'
    BY <1>0 DEF PositionsIndexed, OpenOf, ClosedOf, positionVars, migrationVars
  <2>2. RealizedOnce'
    BY <1>0 DEF RealizedOnce, positionVars, closeVars
  <2>3. CapsHold'
    <3>1. ASSUME NEW v \in Users, NEW b \in Assets
          PROVE  OpenIn(v, b)' = OpenIn(v, b)
      BY DEF OpenIn, positionVars, capVars
    <3> QED BY <1>0, <3>1 DEF CapsHold, capVars
  <2> QED BY <2>1, <2>2, <2>3
<1>4. Unused'
  <2>1. i < nextId /\ i \in Nat /\ nextId \in Nat
    BY <1>0, Store DEF PositionsIndexed
  <2> QED BY <1>0, <1>1, <2>1 DEF Unused, positionVars, capVars
<1>5. TagsIndexed'
  <2> SUFFICES ASSUME NEW v \in Users, NEW t \in Tags
               PROVE  /\ byTag'[v][t] = {j \in list[v] : tag'[j] = t}
                      /\ Cardinality(byTag'[v][t]) <= MaxPerTag
    BY DEF TagsIndexed, positionVars
  <2>0. /\ byTag[v][t] = {j \in list[v] : tag[j] = t} /\ list[v] \subseteq Ids
        /\ Cardinality(byTag[v][t]) <= MaxPerTag
    BY <1>0, Store DEF TagsIndexed
  <2>1. IsFiniteSet(byTag[v][t])
    <3>1. IsFiniteSet(1..MaxPositions) /\ byTag[v][t] \in SUBSET (1..MaxPositions)
      BY <1>0, <2>0, FS_Interval, Store
    <3> QED BY <3>1, FS_Subset
  <2>2. CASE v # u
    <3>1. \A j \in list[v] : tag'[j] = tag[j]
      BY <1>0, <1>1, <2>0, <2>2 DEF PositionsIndexed
    <3> QED BY <2>0, <2>2, <3>1
  <2>3. CASE v = u /\ t = s
    <3> DEFINE S == byTag[u][s] \ {i}
    <3>1. byTag'[v][t] = S \cup {i}
      BY <2>3
    <3>2. IsFiniteSet(S) /\ Cardinality(S) \in Nat
      BY <2>1, <2>3, FS_RemoveElement, FS_CardinalityType
    <3>3. Cardinality(S \cup {i}) = Cardinality(S) + 1
      <4>1. i \notin S
        OBVIOUS
      <4> HIDE DEF S
      <4> QED BY <3>2, <4>1, FS_AddElement
    <3>4. Cardinality(S) < MaxPerTag
      BY <2>3
    <3>5. Cardinality(byTag'[v][t]) <= MaxPerTag
      <4> HIDE DEF S
      <4> QED BY <1>0, <3>1, <3>2, <3>3, <3>4
    <3>6. byTag'[v][t] = {j \in list[v] : tag'[j] = t}
      BY <1>1, <2>0, <2>3, <3>1
    <3> QED BY <3>5, <3>6
  <2>4. CASE v = u /\ t # s
    <3>1. byTag'[v][t] = byTag[v][t] \ {i}
      BY <2>4
    <3>2. byTag'[v][t] = {j \in list[v] : tag'[j] = t}
      BY <1>1, <2>0, <2>4, <3>1
    <3>3. Cardinality(byTag[v][t] \ {i}) <= Cardinality(byTag[v][t])
          /\ Cardinality(byTag[v][t]) \in Nat /\ Cardinality(byTag[v][t] \ {i}) \in Nat
      BY <2>1, FS_Difference, FS_Subset, FS_CardinalityType
    <3> QED BY <1>0, <2>0, <3>1, <3>2, <3>3
  <2> QED BY <2>2, <2>3, <2>4
<1> QED BY <1>2, <1>3, <1>4, <1>5 DEF PortfolioInv, PortfolioSound

LEMMA TagInv ==
  ASSUME PortfolioInv, NEW u \in Users, NEW i \in list[u], NEW t \in Tags, tag_position(u, i, t)
  PROVE  PortfolioInv'
<1>0. /\ PortfolioTypeOK /\ byTag \in [Users -> [Tags -> SUBSET Ids]] /\ i \in Ids
      /\ tag' = [tag EXCEPT ![i] = t]
      /\ UNCHANGED <<positionVars, migrationVars, closeVars, capVars>>
  BY Store DEF PortfolioInv, PortfolioTypeOK, tag_position
<1>1. byTag' = [byTag EXCEPT ![u] = [Untagged(u, i) EXCEPT ![t] = Untagged(u, i)[t] \cup {i}]]
  BY DEF tag_position
<1>2. Cardinality(byTag[u][t] \ {i}) < MaxPerTag
  BY DEF tag_position, Untagged
<1>3. Untagged(u, i) \in [Tags -> SUBSET Ids]
      /\ \A k \in Tags : Untagged(u, i)[k] = byTag[u][k] \ {i}
  BY <1>0 DEF Untagged
<1>4. byTag' \in [Users -> [Tags -> SUBSET Ids]]
  <2> DEFINE row == [Untagged(u, i) EXCEPT ![t] = Untagged(u, i)[t] \cup {i}]
  <2>1. row \in [Tags -> SUBSET Ids]
    BY <1>0, <1>3
  <2> HIDE DEF row
  <2>2. byTag' = [byTag EXCEPT ![u] = row]
    BY <1>1 DEF row
  <2> QED BY <1>0, <2>1, <2>2
<1>5. \A v \in Users, k \in Tags :
        IF v = u THEN byTag'[v][k] = IF k = t THEN (byTag[u][k] \ {i}) \cup {i}
                                     ELSE byTag[u][k] \ {i}
        ELSE byTag'[v][k] = byTag[v][k]
  BY <1>0, <1>1, <1>3
<1>6. Retagged(u, i, t)
  BY <1>0, <1>2, <1>4, <1>5 DEF Retagged
<1> QED BY <1>6, TagStep

LEMMA UntagInv ==
  ASSUME PortfolioInv, NEW u \in Users, NEW i \in list[u], untag_position(u, i)
  PROVE  PortfolioInv'
<1>a. PICK s : s = NoTag
  OBVIOUS
<1>0. /\ PortfolioTypeOK /\ byTag \in [Users -> [Tags -> SUBSET Ids]]
      /\ tag' = [tag EXCEPT ![i] = s] /\ s \notin Tags /\ s \in Tags \cup {NoTag}
      /\ byTag' = [byTag EXCEPT ![u] = Untagged(u, i)]
      /\ UNCHANGED <<positionVars, migrationVars, closeVars, capVars>>
  BY <1>a, PortfolioAssumption DEF PortfolioInv, PortfolioTypeOK, untag_position
<1>1. Untagged(u, i) \in [Tags -> SUBSET Ids]
      /\ \A k \in Tags : Untagged(u, i)[k] = byTag[u][k] \ {i}
  BY <1>0 DEF Untagged
<1>2. byTag' \in [Users -> [Tags -> SUBSET Ids]]
  BY <1>0, <1>1
<1>3. \A v \in Users, k \in Tags :
        IF v = u THEN byTag'[v][k] = IF k = s THEN (byTag[u][k] \ {i}) \cup {i}
                                     ELSE byTag[u][k] \ {i}
        ELSE byTag'[v][k] = byTag[v][k]
  BY <1>0, <1>1
<1>4. s \in Tags => Cardinality(byTag[u][s] \ {i}) < MaxPerTag
  BY <1>0
<1>5. Retagged(u, i, s)
  BY <1>0, <1>2, <1>3, <1>4 DEF Retagged
<1> QED BY <1>5, TagStep

(* Writing both indexes anew of the users in S; they may be migrated by it. *)
LEMMA IndexedInv ==
  ASSUME PortfolioInv, NEW S \in SUBSET Users, Indexed(S),
         migrated' \in [Users -> BOOLEAN], migrationQueue' \in Seq(Users),
         \A u \in Users : migrated'[u] => migrated[u] \/ u \in S
  PROVE  PortfolioInv'
<1>0. /\ PortfolioTypeOK /\ PositionsIndexed /\ RealizedOnce /\ CapsHold /\ TagsIndexed /\ Unused
      /\ UNCHANGED <<nextId, positions, list, legacy, closeVars, capVars, tagVars>>
  BY DEF PortfolioInv, PortfolioSound, Indexed
<1>1. \A u \in Users : OpenOf(u) \subseteq Ids /\ ClosedOf(u) \subseteq Ids
  BY <1>0, Store DEF OpenOf, ClosedOf
<1>2. /\ \A u \in Users : /\ openIds'[u] = IF u \in S THEN OpenOf(u) ELSE openIds[u]
                          /\ closedIds'[u] = IF u \in S THEN ClosedOf(u) ELSE closedIds[u]
                          /\ hasOpen'[u] = (u \in S \/ hasOpen[u])
                          /\ hasClosed'[u] = (u \in S \/ hasClosed[u])
  BY DEF Indexed
<1>3. /\ openIds' \in [Users -> SUBSET Ids] /\ closedIds' \in [Users -> SUBSET Ids]
      /\ hasOpen' \in [Users -> BOOLEAN] /\ hasClosed' \in [Users -> BOOLEAN]
  BY <1>0, <1>1, Store DEF Indexed
<1>4. PortfolioTypeOK'
  BY <1>0, <1>3 DEF PortfolioTypeOK, closeVars, capVars, tagVars
<1>5. RealizedOnce' /\ CapsHold' /\ TagsIndexed' /\ Unused'
  BY <1>0 DEF RealizedOnce, CapsHold, OpenIn, TagsIndexed, Unused, closeVars, capVars, tagVars
<1>6. ASSUME NEW v \in Users
      PROVE  /\ openIds'[v] \subseteq OpenOf(v)' /\ closedIds'[v] \subseteq ClosedOf(v)'
             /\ \A j \in list'[v] : j > legacy' \/ migrated'[v] => j \in openIds'[v] \cup closedIds'[v]
             /\ (~hasOpen'[v] => openIds'[v] = {}) /\ (~hasClosed'[v] => closedIds'[v] = {})
  <2>0. /\ openIds[v] \subseteq OpenOf(v) /\ closedIds[v] \subseteq ClosedOf(v)
        /\ \A j \in list[v] : j > legacy \/ migrated[v] => j \in openIds[v] \cup closedIds[v]
        /\ (~hasOpen[v] => openIds[v] = {}) /\ (~hasClosed[v] => closedIds[v] = {})
    BY <1>0 DEF PositionsIndexed
  <2>1. OpenOf(v)' = OpenOf(v) /\ ClosedOf(v)' = ClosedOf(v) /\ list' = list /\ legacy' = legacy
    BY <1>0 DEF OpenOf, ClosedOf
  <2>2. list[v] \subseteq OpenOf(v) \cup ClosedOf(v)
    <3> SUFFICES ASSUME NEW j \in list[v] PROVE positions[j].status \in {"Open", "Closed"}
      BY DEF OpenOf, ClosedOf
    <3>1. j \in Ids /\ j < nextId /\ j \in Nat /\ nextId \in Nat
      BY <1>0, Store DEF PositionsIndexed
    <3>2. positions[j].status # "None"
      BY <1>0, <3>1 DEF PositionsIndexed
    <3> QED BY <1>0, <3>1, <3>2, Store DEF Positions
  <2> QED BY <1>2, <2>0, <2>1, <2>2
<1>7. PositionsIndexed'
  BY <1>0, <1>6 DEF PositionsIndexed
<1> QED BY <1>4, <1>5, <1>7 DEF PortfolioInv, PortfolioSound

LEMMA MigrateInv ==
  ASSUME PortfolioInv, NEW n \in Nat, migrate_portfolio_v1_to_v2(n)
  PROVE  PortfolioInv'
<1> DEFINE left == Len(migrationQueue) - n
           batch == {migrationQueue[k] : k \in (left + 1)..Len(migrationQueue)}
           S == {u \in batch : ~migrated[u]}
<1>0. /\ migrationQueue \in Seq(Users) /\ migrated \in [Users -> BOOLEAN]
      /\ n <= Len(migrationQueue) /\ Len(migrationQueue) \in Nat
  BY DEF PortfolioInv, PortfolioTypeOK, migrate_portfolio_v1_to_v2
<1>1. left \in Nat /\ left <= Len(migrationQueue)
  BY <1>0
<1>2. batch \subseteq Users
  BY <1>0, <1>1
<1>3. migrated' = [u \in Users |-> migrated[u] \/ u \in batch] /\ Indexed(S)
      /\ migrationQueue' = SubSeq(migrationQueue, 1, left)
  BY DEF migrate_portfolio_v1_to_v2
<1> HIDE DEF batch
<1>4. migrationQueue' \in Seq(Users)
  BY <1>0, <1>1, <1>3, SubSeqProperties
<1>5. /\ migrated' \in [Users -> BOOLEAN]
      /\ \A u \in Users : migrated'[u] => migrated[u] \/ u \in S
      /\ S \in SUBSET Users
  BY <1>0, <1>2, <1>3
<1> QED BY <1>3, <1>4, <1>5, IndexedInv

(* A step that leaves positions, results, caps and tags alone. *)
LEMMA PortfolioFrame ==
  ASSUME PortfolioInv, UNCHANGED <<positionVars, migrated, closeVars, capVars, tagVars>>,
         migrationQueue' \in Seq(Users)
  PROVE  PortfolioInv'
<1>1. PortfolioTypeOK'
  BY DEF PortfolioInv, PortfolioTypeOK, positionVars, closeVars, capVars, tagVars
<1>2. PositionsIndexed' /\ Unused'
  BY DEF PortfolioInv, PortfolioSound, PositionsIndexed, OpenOf, ClosedOf, Unused,
         positionVars, capVars, tagVars
<1>3. RealizedOnce' /\ TagsIndexed'
  BY DEF PortfolioInv, PortfolioSound, RealizedOnce, TagsIndexed, positionVars,
         closeVars, tagVars
<1>4. CapsHold'
  BY DEF PortfolioInv, PortfolioSound, CapsHold, OpenIn, positionVars, capVars
<1> QED BY <1>1, <1>2, <1>3, <1>4 DEF PortfolioInv, PortfolioSound

-----------------------------------------------------------------------------
(* Every step keeps the invariant.                                          *)
LEMMA PortfolioNextInv ==
  ASSUME PortfolioInv, [PortfolioNext]_portfolioVars
  PROVE  PortfolioInv'
<1>0. migrationQueue \in Seq(Users) /\ EntryPrices \subseteq Nat \ {0} /\ Sizes \subseteq Nat \ {0}
      /\ Deltas \subseteq Int /\ CapAmounts \subseteq Nat \ {0} /\ migrated \in [Users -> BOOLEAN]
  BY PortfolioAssumption DEF PortfolioInv, PortfolioTypeOK
<1>1. ASSUME NEW u \in Users, NEW p \in EntryPrices, NEW x \in Sizes, open_position(u, p, x)
      PROVE  PortfolioInv'
  BY <1>0, <1>1, OpenInv
<1>2. ASSUME NEW u \in Users, NEW i \in list[u], NEW d \in Deltas, close_position(u, i, d)
      PROVE  PortfolioInv'
  BY <1>0, <1>2, CloseInv
<1>3. ASSUME NEW u \in Users, NEW i \in list[u], NEW d \in Deltas, NEW x \in Sizes,
             close_position_partial(u, i, x, d)
      PROVE  PortfolioInv'
  BY <1>0, <1>3, PartialInv
<1>4. ASSUME NEW u \in Users, NEW i \in list[u], close_position_keeper(u, i)
      PROVE  PortfolioInv'
  BY <1>4, KeeperInv
<1>5. ASSUME NEW u \in Users, rebuild_position_indexes(u)
      PROVE  PortfolioInv'
  <2>1. Indexed({u}) /\ migrated' = migrated /\ migrationQueue' = migrationQueue
    BY <1>5 DEF rebuild_position_indexes, migrationVars
  <2>2. {u} \in SUBSET Users
    OBVIOUS
  <2> QED BY <1>0, <2>1, <2>2, IndexedInv
<1>6. ASSUME NEW u \in Users, register_migration_users(u)
      PROVE  PortfolioInv'
  <2>1. migrationQueue' \in Seq(Users)
    BY <1>0, <1>6 DEF register_migration_users
  <2>2. UNCHANGED <<positionVars, migrated, closeVars, capVars, tagVars>>
    BY <1>6 DEF register_migration_users
  <2> QED BY <2>1, <2>2, PortfolioFrame
<1>7. ASSUME NEW n \in 0..MaxQueued, migrate_portfolio_v1_to_v2(n)
      PROVE  PortfolioInv'
  BY <1>7, MigrateInv
<1>8. ASSUME UNCHANGED <<positionVars, migrationVars, closeVars, capVars, tagVars>>
      PROVE  PortfolioInv'
  <2>1. migrated' = migrated /\ migrationQueue' = migrationQueue
    BY <1>8 DEF migrationVars
  <2> QED BY <1>0, <1>8, <2>1, PortfolioFrame
<1>9. ASSUME NEW u \in Users, NEW a \in Assets, NEW p \in EntryPrices, NEW x \in Sizes,
             open_position_with_cap_check(u, a, p, x)
      PROVE  PortfolioInv'
  BY <1>0, <1>9, OpenCappedInv
<1>10. ASSUME NEW u \in Users, NEW a \in Assets,
              \/ \E c \in CapAmounts : set_asset_exposure_cap(u, a, c)
              \/ remove_asset_exposure_cap(u, a)
       PROVE  PortfolioInv'
  <2>1. \E c \in Nat : SetCap(u, a, c)
    BY <1>0, <1>10 DEF set_asset_exposure_cap, remove_asset_exposure_cap
  <2> QED BY <2>1, SetCapInv
<1>11. ASSUME SetRules \/ Others
       PROVE  PortfolioInv'
  BY <1>8, <1>11 DEF SetRules, Others
<1>12. CASE OpenNext \/ CloseNext
  BY <1>1, <1>2, <1>3, <1>12 DEF OpenNext, CloseNext
<1>13. CASE PositionNext
  BY <1>5, <1>6, <1>7, <1>12, <1>13 DEF PositionNext
<1>14. CASE RuleNext
  BY <1>4, <1>11, <1>12, <1>14 DEF RuleNext, set_trade_executor, set_kyc_required_mode,
     set_kyc_status, set_user_restriction
<1>15. CASE CapNext
  BY <1>9, <1>10, <1>12, <1>15 DEF CapNext
<1>16. CASE TagNext
  BY <1>12, <1>16, TagInv, UntagInv DEF TagNext
<1>17. CASE BookNext
  BY <1>2, <1>11, <1>17 DEF BookNext, add_cost_lot, close_fifo, take_snapshot, Tick
<1>18. CASE SubscribeNext
  BY <1>11, <1>18 DEF SubscribeNext, set_provider_subscription_terms, subscribe_to_provider, Tick
<1>19. CASE UNCHANGED portfolioVars
  BY <1>8, <1>19 DEF portfolioVars
<1> QED BY <1>13, <1>14, <1>15, <1>16, <1>17, <1>18, <1>19 DEF PortfolioNext

LEMMA PortfolioInvariant == PortfolioSpec => []PortfolioInv
<1>1. PortfolioInv /\ [PortfolioNext]_portfolioVars => PortfolioInv'
  BY PortfolioNextInv
<1> QED BY <1>1, PortfolioInitInv, PTL DEF PortfolioSpec

(* Every variable of the position store always has its type. *)
THEOREM PortfolioTypeCorrect == PortfolioSpec => []PortfolioTypeOK
<1>1. PortfolioInv => PortfolioTypeOK
  BY DEF PortfolioInv
<1> QED BY <1>1, PortfolioInvariant, PTL

(* Positions, results, caps and tags always agree with each other, however *)
(* many users, positions, assets and tags there are.                       *)
THEOREM PortfolioIsSound == PortfolioSpec => []PortfolioSound
<1>1. PortfolioInv => PortfolioSound
  BY DEF PortfolioInv
<1> QED BY <1>1, PortfolioInvariant, PTL

-----------------------------------------------------------------------------
(* What a step may do to the positions: change an open one, enter a new    *)
(* one for a user who may open, or leave them all alone.                   *)
LEMMA ChangeByRule ==
  ASSUME PortfolioInv, NEW u \in Users, NEW i, NEW r, Changes(u, i, r)
  PROVE  PositionsByRule
<1>0. /\ PortfolioTypeOK /\ positions \in [Ids -> Positions] /\ i \in Ids
      /\ positions[i].status = "Open" /\ positions' = [positions EXCEPT ![i] = r]
      /\ r.amount <= positions[i].amount /\ r.price = positions[i].price
      /\ list' = list /\ migrated' = migrated
  BY Store DEF PortfolioInv, Changes, require_open_position, migrationVars
<1>1. \A j \in Ids : positions'[j] = IF j = i THEN r ELSE positions[j]
  BY <1>0
<1>2. \A j \in Ids : positions[j].amount <= positions[j].amount
  BY <1>0 DEF Positions
<1>3. \A j \in Ids : positions[j].status = "Closed" => positions'[j] = positions[j]
  BY <1>0, <1>1
<1>4. \A j \in Ids : positions[j].status = "Open" =>
         positions'[j].price = positions[j].price /\ positions'[j].amount <= positions[j].amount
  BY <1>0, <1>1, <1>2
<1> QED BY <1>0, <1>3, <1>4 DEF PositionsByRule

LEMMA EnterByRule ==
  ASSUME PortfolioInv, NEW u \in Users, NEW p \in EntryPrices, NEW x \in Sizes,
         MayOpen(u), Enter(u, p, x), UNCHANGED migrationVars
  PROVE  PositionsByRule
<1>0. /\ nextId \in Ids /\ positions[nextId].status = "None" /\ positions \in [Ids -> Positions]
      /\ \A j \in Ids : j # nextId => positions'[j] = positions[j]
      /\ \A v \in Users : list'[v] = IF v = u THEN list[u] \cup {nextId} ELSE list[v]
  BY EnterFacts, Store DEF PortfolioInv
<1>1. \A j \in Ids : positions[j].amount <= positions[j].amount
  BY <1>0 DEF Positions
<1>2. \A j \in Ids : positions[j].status \in {"Open", "Closed"} => positions'[j] = positions[j]
  BY <1>0
<1>3. \A v \in Users : list[v] \subseteq list'[v]
         /\ (list'[v] # list[v] => ~restricted[v] /\ (kycRequired => kyc[v]))
  BY <1>0 DEF MayOpen
<1> QED BY <1>1, <1>2, <1>3 DEF PositionsByRule, migrationVars

LEMMA KeepByRule ==
  ASSUME PortfolioInv, positions' = positions, list' = list,
         \A u \in Users : migrated[u] => migrated'[u]
  PROVE  PositionsByRule
<1>1. \A j \in Ids : positions[j].amount <= positions[j].amount
  BY Store DEF PortfolioInv, Positions
<1> QED BY <1>1 DEF PositionsByRule

LEMMA PortfolioStepsByRule ==
  ASSUME PortfolioInv, [PortfolioNext]_portfolioVars
  PROVE  PositionsByRule
<1>1. CASE OpenNext
  BY <1>1, EnterByRule DEF OpenNext, open_position
<1>2. CASE CloseNext
  BY <1>2, CloseInv, PartialInv, ChangeByRule DEF CloseNext
<1>3. ASSUME UNCHANGED <<positionVars, migrated>>
      PROVE  PositionsByRule
  BY <1>3, KeepByRule DEF positionVars
<1>4. ASSUME SetRules \/ Others
      PROVE  PositionsByRule
  BY <1>3, <1>4 DEF SetRules, Others, migrationVars
<1>5. CASE PositionNext
  <2>1. ASSUME NEW u \in Users, rebuild_position_indexes(u)
        PROVE  PositionsByRule
    BY <2>1, KeepByRule DEF rebuild_position_indexes, Indexed, migrationVars
  <2>2. ASSUME NEW u \in Users, register_migration_users(u)
        PROVE  PositionsByRule
    BY <1>3, <2>2 DEF register_migration_users
  <2>3. ASSUME NEW n \in 0..MaxQueued, migrate_portfolio_v1_to_v2(n)
        PROVE  PositionsByRule
    <3>1. positions' = positions /\ list' = list /\ \A u \in Users : migrated[u] => migrated'[u]
      BY <2>3 DEF migrate_portfolio_v1_to_v2, Indexed
    <3> QED BY <3>1, KeepByRule
  <2> QED BY <1>1, <1>2, <1>5, <2>1, <2>2, <2>3 DEF PositionNext
<1>6. CASE RuleNext
  <2>1. ASSUME NEW u \in Users, NEW i \in list[u], close_position_keeper(u, i)
        PROVE  PositionsByRule
    BY <2>1, KeeperInv, ChangeByRule
  <2> QED BY <1>1, <1>4, <1>6, <2>1 DEF RuleNext, set_trade_executor, set_kyc_required_mode,
             set_kyc_status, set_user_restriction
<1>7. CASE CapNext
  <2>1. ASSUME NEW u \in Users, NEW a \in Assets, NEW p \in EntryPrices, NEW x \in Sizes,
               open_position_with_cap_check(u, a, p, x)
        PROVE  PositionsByRule
    BY <2>1, EnterByRule DEF open_position_with_cap_check
  <2>2. ASSUME NEW u \in Users, NEW a \in Assets, NEW c, SetCap(u, a, c)
        PROVE  PositionsByRule
    BY <1>3, <2>2 DEF SetCap, migrationVars
  <2> QED BY <1>2, <1>7, <2>1, <2>2 DEF CapNext, set_asset_exposure_cap, remove_asset_exposure_cap
<1>8. CASE TagNext
  <2>1. ASSUME NEW u \in Users, NEW i \in list[u],
               untag_position(u, i) \/ \E t \in Tags : tag_position(u, i, t)
        PROVE  PositionsByRule
    BY <1>3, <2>1 DEF tag_position, untag_position, migrationVars
  <2> QED BY <1>1, <1>8, <2>1 DEF TagNext
<1>9. CASE BookNext
  <2>1. ASSUME NEW u \in Users, NEW i \in list[u], NEW d \in Deltas, close_position(u, i, d)
        PROVE  PositionsByRule
    BY <2>1, CloseInv, ChangeByRule
  <2> QED BY <1>4, <1>9, <2>1 DEF BookNext, add_cost_lot, close_fifo, take_snapshot, Tick
<1>10. CASE SubscribeNext
  BY <1>4, <1>10 DEF SubscribeNext, set_provider_subscription_terms, subscribe_to_provider, Tick
<1>11. CASE UNCHANGED portfolioVars
  BY <1>3, <1>11 DEF portfolioVars, migrationVars
<1> QED BY <1>5, <1>6, <1>7, <1>8, <1>9, <1>10, <1>11 DEF PortfolioNext

(* A closed position never changes, an open one keeps its price and never  *)
(* grows, none changes hands, and only users who may open get new ones.    *)
THEOREM PositionsMoveByRule == PortfolioSpec => [][PositionsByRule]_portfolioVars
<1>1. PortfolioInv /\ [PortfolioNext]_portfolioVars => [PositionsByRule]_portfolioVars
  BY PortfolioStepsByRule
<1> QED BY <1>1, PortfolioInvariant, PTL DEF PortfolioSpec
=============================================================================
