-------------------------- MODULE GiftCatalogProofs --------------------------
(***************************************************************************)
(* Theorems about GiftCatalog, for any gifts, scans, inventories and number  *)
(* of overlapping ticks.                                                     *)
(***************************************************************************)
EXTENDS GiftCatalog, FiniteSetTheorems, SequenceTheorems, TLAPS

OwnedGifts == UNION {ToSet(gifts) : gifts \in Inventories}

(* What TypeOK leaves out: a worker that is up has started a tick, a tick has       *)
(* nothing to write before its list is there, a scan that looks up has a gift       *)
(* left.                                                                     *)
Underway ==
    /\ worker # "down" => started >= 1
    /\ written \in [Ticks -> Nat]
    /\ \A k \in Ticks : tick[k] \in {"none", "fetching"} => written[k] = 0
    /\ inventory \in [Scans -> Seq(OwnedGifts)]
    /\ flagged \in [Scans -> SUBSET Flags]
    /\ \A s \in Scans : scan[s] = "lookup" => inventory[s] # <<>>

(* The gifts always offered are in every list that is written, and so in any        *)
(* catalog that is not empty; a scan compares only with such a catalog.            *)
Covered ==
    /\ \A k \in Ticks : tick[k] = "writing" => Evergreen \subseteq ToSet(list[k])
    /\ (\E g \in Gifts : catalog[g] # NoRow) => \A g \in Evergreen : catalog[g] # NoRow
    /\ \A s \in Scans : scan[s] \in {"fetching", "lookup"} => \E g \in Gifts : catalog[g] # NoRow

(* A row is written by a tick that is done, and was in its list.                  *)
RowsAreCommitted ==
    \A g \in Gifts : catalog[g] # NoRow => tick[catalog[g].by] = "done"

(* A row has one writer at a time.                                             *)
RowLocks ==
    \A j, k \in Ticks, g \in Gifts : Holds(j, g) /\ Holds(k, g) => j = k

(* The pool closes only after the tick started last.                             *)
Awaited == worker = "closing" => tick[started] \notin Active

IInv == /\ TypeOK /\ Underway /\ Covered /\ NoFalseFlag
        /\ RowsAreCommitted /\ CatalogIsSerial /\ RowLocks /\ Awaited

-----------------------------------------------------------------------------
(* A row that is there was written by a tick.                                   *)
LEMMA RowsHaveWriters == ASSUME NEW row \in Rows
                         PROVE  /\ row # NoRow <=> row.by # 0
                                /\ row # NoRow => row \in [by : Ticks, firstSeenAt : Ticks,
                                                             lastRefreshedAt : Ticks]
<1>1. NoRow.by = 0
  BY DEF NoRow
<1>2. ASSUME row \in [by : Ticks, firstSeenAt : Ticks, lastRefreshedAt : Ticks]
      PROVE  row.by # 0
  BY <1>2, GiftCatalogAssumption DEF Ticks
<1> QED
  BY <1>1, <1>2 DEF Rows

(* The upsert of tick k: its fields, the first tick's firstSeenAt, and the greatest  *)
(* lastRefreshedAt.                                                          *)
LEMMA UpsertedRow ==
    ASSUME NEW row \in Rows, NEW k \in Ticks
    PROVE  /\ Upserted(row, k) \in Rows /\ Upserted(row, k) # NoRow
           /\ Upserted(row, k).by = k
           /\ row # NoRow => /\ Upserted(row, k).firstSeenAt = row.firstSeenAt
                             /\ Upserted(row, k).lastRefreshedAt >= row.lastRefreshedAt
<1>1. Ticks \subseteq Nat \ {0}
  BY GiftCatalogAssumption DEF Ticks
<1>2. CASE row = NoRow
  <2>1. Upserted(row, k) = [by |-> k, firstSeenAt |-> k, lastRefreshedAt |-> k]
    BY <1>2 DEF Upserted
  <2>2. Upserted(row, k) \in Rows /\ Upserted(row, k).by = k
    BY <2>1 DEF Rows
  <2> QED
    BY <1>1, <1>2, <2>2, RowsHaveWriters
<1>3. CASE row # NoRow
  <2>. DEFINE last == IF k > row.lastRefreshedAt THEN k ELSE row.lastRefreshedAt
  <2>1. row.firstSeenAt \in Ticks /\ row.lastRefreshedAt \in Ticks
    BY <1>3, RowsHaveWriters
  <2>2. last \in Ticks /\ last >= row.lastRefreshedAt
    <3>1. row.lastRefreshedAt \in Nat /\ k \in Nat
      BY <1>1, <2>1
    <3> QED
      BY <2>1, <3>1
  <2>3. Upserted(row, k) = [by |-> k, firstSeenAt |-> row.firstSeenAt, lastRefreshedAt |-> last]
    BY <1>3 DEF Upserted
  <2>. HIDE DEF last
  <2>4. Upserted(row, k) \in Rows /\ Upserted(row, k).by = k
    BY <2>1, <2>2, <2>3 DEF Rows
  <2> QED
    BY <1>1, <2>2, <2>3, <2>4, RowsHaveWriters
<1> QED
  BY <1>2, <1>3

(* A response lists every gift on offer once.                                   *)
LEMMA OrdersListGifts ==
    ASSUME NEW offered \in SUBSET Gifts, NEW order \in Orders(offered)
    PROVE  order \in Seq(Gifts) /\ ToSet(order) = offered
<1>. DEFINE n == Cardinality(offered)
<1>1. IsFiniteSet(offered) /\ n \in Nat
  BY GiftCatalogAssumption, FS_Subset, FS_CardinalityType
<1>2. order \in [1 .. n -> offered] /\ IsInjective(order)
  BY DEF Orders
<1>3. order \in Seq(Gifts) /\ DOMAIN order = 1 .. n
  BY <1>1, <1>2
<1>4. ToSet(order) \subseteq offered
  BY <1>2 DEF ToSet
<1>5. order \in Injection(1 .. n, offered)
  BY <1>2 DEF Injection
<1>6. Cardinality(1 .. n) = n
  <2>1. Cardinality(1 .. n) = IF 1 <= n THEN n - 1 + 1 ELSE 0
    BY <1>1, FS_Interval
  <2> QED
    BY <1>1, <2>1
<1>7. order \in Surjection(1 .. n, offered)
  BY <1>1, <1>5, <1>6, FS_Injection
<1>8. offered \subseteq ToSet(order)
  BY <1>3, <1>7 DEF Surjection, ToSet
<1> QED
  BY <1>3, <1>4, <1>8

(* A commit writes the rows of its list, and no others.                          *)
LEMMA CommitWritesItsList ==
    ASSUME TypeOK, NEW k \in Ticks, Commit(k)
    PROVE  \A g \in Gifts : catalog'[g] = IF g \in ToSet(list[k]) THEN Upserted(catalog[g], k)
                                          ELSE catalog[g]
<1>1. list[k] \in Seq(Gifts) /\ DOMAIN list[k] = 1 .. Len(list[k])
  BY DEF TypeOK
<1>2. \A g : Holds(k, g) <=> g \in ToSet(list[k])
  BY <1>1 DEF Commit, Holds, ToSet
<1> QED
  BY <1>2 DEF Commit

-----------------------------------------------------------------------------
LEMMA TypeInit == Init => TypeOK /\ Underway
<1> SUFFICES ASSUME Init PROVE TypeOK /\ Underway
  OBVIOUS
<1>1. 0 \in 0 .. MaxTicks /\ \A k \in Ticks : k > 0
  BY GiftCatalogAssumption DEF Ticks
<1>2. <<>> \in Seq(Gifts) /\ <<>> \in Seq(OwnedGifts) /\ Len(<<>>) = 0
  OBVIOUS
<1> QED
  BY <1>1, <1>2 DEF Init, TypeOK, Underway, Rows, Active

(* Steps of the worker: where the ticks are, their lists and what they wrote.       *)
LEMMA TicksStayTyped ==
    ASSUME TypeOK, Underway, NEW k \in Ticks,
           UNCHANGED <<started, scanVars>>,
           Fetched(k) \/ FetchFailed(k) \/ Upsert(k) \/ Commit(k)
              \/ (Rollback(k) /\ tick[k] = "writing")
    PROVE  TypeOK' /\ Underway'
<1>1. CASE Fetched(k)
  <2>0. PICK offered \in SUBSET Gifts : \E order \in Orders(offered) :
           /\ list' = [list EXCEPT ![k] = order]
           /\ tick' = [tick EXCEPT ![k] = IF order = <<>> THEN "done"
                                          ELSE IF worker = "closing" THEN "failed"
                                          ELSE "writing"]
    BY <1>1 DEF Fetched
  <2>1. PICK order \in Orders(offered) :
           /\ list' = [list EXCEPT ![k] = order]
           /\ tick' = [tick EXCEPT ![k] = IF order = <<>> THEN "done"
                                          ELSE IF worker = "closing" THEN "failed"
                                          ELSE "writing"]
    BY <2>0
  <2>2. order \in Seq(Gifts)
    BY <2>1, OrdersListGifts
  <2>3. PICK to \in {"done", "failed", "writing"} : tick' = [tick EXCEPT ![k] = to]
    BY <2>1
  <2>4. Len(order) \in Nat /\ written[k] = 0 /\ tick[k] = "fetching"
    BY <1>1, <2>2 DEF Fetched, Underway
  <2>5. list' \in [Ticks -> Seq(Gifts)] /\ tick' \in [Ticks -> {"none"} \cup Active \cup Ended]
    BY <2>1, <2>2, <2>3 DEF TypeOK, Active, Ended
  <2>6. \A j \in Ticks : written'[j] \in 0 .. Len(list'[j])
    BY <1>1, <2>1, <2>4 DEF Fetched, TypeOK
  <2>7. \A j \in Ticks : /\ tick'[j] = "none" <=> tick[j] = "none"
                         /\ tick'[j] \in {"none", "fetching"} => tick[j] \in {"none", "fetching"}
                         /\ worker # "down"
    BY <2>3, <2>4 DEF TypeOK, Active
  <2> QED
    BY <1>1, <2>5, <2>6, <2>7 DEF Fetched, TypeOK, Underway, scanVars
<1>2. CASE Upsert(k)
  <2>1. tick[k] = "writing" /\ Len(list[k]) \in Nat /\ written[k] + 1 \in 0 .. Len(list[k])
    BY <1>2 DEF Upsert, TypeOK, Underway
  <2>2. written' \in [Ticks -> Nat] /\ \A j \in Ticks : written'[j] \in 0 .. Len(list[j])
    BY <1>2, <2>1 DEF Upsert, TypeOK, Underway
  <2> QED
    BY <1>2, <2>1, <2>2 DEF Upsert, TypeOK, Underway, scanVars
<1>3. CASE FetchFailed(k) \/ (Rollback(k) /\ tick[k] = "writing")
  <2>1. UNCHANGED <<worker, list, written, catalog>> /\ tick[k] \in Active
        /\ tick' = [tick EXCEPT ![k] = "failed"]
    BY <1>3 DEF FetchFailed, Rollback, Active
  <2> QED
    BY <2>1 DEF TypeOK, Underway, scanVars, Active, Ended
<1>4. CASE Commit(k)
  <2>1. catalog' \in [Gifts -> Rows]
    <3>0. \A g \in Gifts : catalog[g] \in Rows
      BY DEF TypeOK
    <3>1. \A g \in Gifts : catalog'[g] \in Rows
      BY <1>4, <3>0, CommitWritesItsList, UpsertedRow
    <3> QED
      BY <1>4, <3>1 DEF Commit
  <2>2. UNCHANGED <<worker, list, written>> /\ tick[k] = "writing" /\ tick' = [tick EXCEPT ![k] = "done"]
    BY <1>4 DEF Commit
  <2> QED
    BY <2>1, <2>2 DEF TypeOK, Underway, scanVars, Active, Ended
<1> QED
  BY <1>1, <1>2, <1>3, <1>4

(* Steps that end the worker cut its ticks.                                      *)
LEMMA CutStaysTyped ==
    ASSUME TypeOK, Underway, Exit \/ Crash
    PROVE  TypeOK' /\ Underway'
<1>1. worker' = "down" /\ tick' = [k \in Ticks |-> Cut(k)]
      /\ UNCHANGED <<started, list, written, catalog, scanVars>>
  BY DEF Exit, Crash
<1>2. \A k \in Ticks : /\ Cut(k) \in {"none"} \cup Ended
                       /\ Cut(k) = "none" <=> tick[k] = "none"
                       /\ Cut(k) \in {"none", "fetching"} => tick[k] = "none"
  BY DEF Cut, TypeOK, Active, Ended
<1>3. \A k \in Ticks : tick'[k] \notin Active
  BY <1>1, <1>2 DEF Active, Ended
<1> QED
  BY <1>1, <1>2, <1>3 DEF TypeOK, Underway, scanVars

LEMMA TypeStep == TypeOK /\ Underway /\ [Next]_vars => TypeOK' /\ Underway'
<1> SUFFICES ASSUME TypeOK, Underway, [Next]_vars
             PROVE  TypeOK' /\ Underway'
  OBVIOUS
<1>1. CASE StartTick
  <2>1. started' \in Ticks /\ started' = started + 1 /\ worker' = "up" /\ started \in Nat
    BY <1>1, GiftCatalogAssumption DEF StartTick, TypeOK, Ticks
  <2>2. tick' = [tick EXCEPT ![started + 1] = "fetching"] /\ started + 1 \in Ticks
    BY <1>1, <2>1 DEF StartTick
  <2>3. \A k \in Ticks : k > started' <=> tick'[k] = "none"
    BY <2>1, <2>2 DEF TypeOK, Ticks
  <2>4. tick' \in [Ticks -> {"none"} \cup Active \cup Ended]
    BY <2>2 DEF TypeOK, Active
  <2>5. started' >= 1 /\ started' \in 0 .. MaxTicks
    BY <2>1, GiftCatalogAssumption DEF Ticks
  <2>6. written[started + 1] = 0
    BY <2>1, <2>2 DEF TypeOK, Underway, Ticks
  <2>7. \A k \in Ticks : tick'[k] \in {"none", "fetching"} => written[k] = 0
    BY <2>2, <2>6 DEF TypeOK, Underway
  <2> QED
    BY <1>1, <2>1, <2>3, <2>4, <2>5, <2>7 DEF StartTick, TypeOK, Underway, scanVars
<1>2. CASE Stop \/ Close
  BY <1>2 DEF Stop, Close, TypeOK, Underway, scanVars
<1>3. CASE Exit \/ Crash
  BY <1>3, CutStaysTyped
<1>4. ASSUME NEW k \in Ticks,
             Fetched(k) \/ FetchFailed(k) \/ Upsert(k) \/ Commit(k) \/ Abort(k) \/ DeadlockDetected(k)
      PROVE  TypeOK' /\ Underway'
  <2>1. UNCHANGED <<started, scanVars>>
    BY <1>4 DEF Fetched, FetchFailed, Upsert, Commit, Abort, DeadlockDetected, Rollback
  <2>2. DeadlockDetected(k) => tick[k] = "writing"
    BY DEF DeadlockDetected, Deadlocked, WaitsFor
  <2>3. Fetched(k) \/ FetchFailed(k) \/ Upsert(k) \/ Commit(k)
           \/ (Rollback(k) /\ tick[k] = "writing")
    BY <1>4, <2>2 DEF Abort, DeadlockDetected
  <2> QED
    BY <2>1, <2>3, TicksStayTyped
<1>5. ASSUME NEW s \in Scans, ReadBaseline(s)
      PROVE  TypeOK' /\ Underway'
  BY <1>5 DEF ReadBaseline, TypeOK, Underway, workerVars
<1>6. ASSUME NEW s \in Scans, FetchInventory(s)
      PROVE  TypeOK' /\ Underway'
  <2>1. \A gifts \in Inventories : gifts \in Seq(OwnedGifts) /\ gifts # <<>>
    <3> SUFFICES ASSUME NEW gifts \in Inventories PROVE gifts \in Seq(OwnedGifts) /\ gifts # <<>>
      OBVIOUS
    <3>1. gifts \in Seq(ToSet(gifts)) /\ gifts # <<>> /\ ToSet(gifts) \subseteq OwnedGifts
      BY GiftCatalogAssumption DEF OwnedGifts
    <3> QED
      BY <3>1
  <2> QED
    BY <1>6, <2>1 DEF FetchInventory, TypeOK, Underway, workerVars
<1>7. ASSUME NEW s \in Scans, LookupGift(s)
      PROVE  TypeOK' /\ Underway'
  <2>. DEFINE owned == Head(inventory[s])
              verdict == classifyOwnedGift(owned, catalog[owned.giftId])
  <2>1. inventory[s] \in Seq(OwnedGifts) /\ inventory[s] # <<>>
    BY <1>7 DEF LookupGift, Underway
  <2>2. /\ owned \in OwnedGifts /\ Tail(inventory[s]) \in Seq(OwnedGifts)
        /\ Len(inventory[s]) # 1 => Tail(inventory[s]) # <<>>
    <3>1. Len(Tail(inventory[s])) = Len(inventory[s]) - 1 /\ Len(inventory[s]) \in Nat
      BY <2>1, HeadTailProperties
    <3>2. owned \in OwnedGifts /\ Tail(inventory[s]) \in Seq(OwnedGifts)
      BY <2>1, HeadTailProperties
    <3>3. Len(<<>>) = 0
      OBVIOUS
    <3>4. ASSUME Tail(inventory[s]) = <<>> PROVE Len(inventory[s]) = 1
      <4>1. Len(Tail(inventory[s])) = 0
        BY <3>3, <3>4, Zenon
      <4> QED
        BY <3>1, <4>1
    <3> QED
      BY <3>2, <3>4
  <2>3. verdict \in {"catalog_miss", "publisher_mismatch", "pass"}
    BY DEF classifyOwnedGift
  <2>. HIDE DEF owned, verdict
  <2>4. verdict # "pass" => [owned |-> owned, reason |-> verdict] \in Flags
    BY <2>2, <2>3 DEF Flags, OwnedGifts
  <2>. USE DEF owned, verdict
  <2>5. flagged' \in [Scans -> SUBSET Flags]
    BY <1>7, <2>4 DEF LookupGift, Underway
  <2>6. inventory' = [inventory EXCEPT ![s] = Tail(inventory[s])]
        /\ scan' = [scan EXCEPT ![s] = IF Len(inventory[s]) = 1 THEN "done" ELSE "lookup"]
        /\ UNCHANGED <<workerVars, catalog>>
    BY <1>7 DEF LookupGift
  <2>. HIDE DEF owned, verdict
  <2>7. inventory' \in [Scans -> Seq(OwnedGifts)]
        /\ \A x \in Scans : scan'[x] = "lookup" => inventory'[x] # <<>>
    BY <2>2, <2>6 DEF Underway, TypeOK
  <2>8. scan' \in [Scans -> {"idle", "fetching", "lookup", "done"}]
    BY <2>6 DEF TypeOK
  <2>9. \A x \in Scans : flagged'[x] \subseteq Flags
    BY <2>5
  <2> QED
    BY <2>5, <2>6, <2>7, <2>8, <2>9 DEF TypeOK, Underway, workerVars
<1>8. CASE UNCHANGED vars
  BY <1>8 DEF vars, workerVars, scanVars, TypeOK, Underway
<1> QED
  BY <1>1, <1>2, <1>3, <1>4, <1>5, <1>6, <1>7, <1>8 DEF Next

-----------------------------------------------------------------------------
LEMMA CoveredStep == TypeOK /\ Underway /\ Covered /\ [Next]_vars => Covered'
<1> SUFFICES ASSUME TypeOK, Underway, Covered, [Next]_vars
             PROVE  Covered'
  OBVIOUS
<1>0. Evergreen \subseteq Gifts
  BY GiftCatalogAssumption
<1>1. ASSUME UNCHANGED <<list, catalog, scan>>,
             \A k \in Ticks : tick'[k] = "writing" => tick[k] = "writing"
      PROVE  Covered'
  BY <1>1 DEF Covered
<1>2. CASE StartTick
  BY <1>1, <1>2 DEF StartTick, scanVars, TypeOK
<1>3. CASE Stop \/ Close
  BY <1>1, <1>3 DEF Stop, Close, scanVars
<1>4. CASE Exit \/ Crash
  BY <1>1, <1>4 DEF Exit, Crash, Cut, Active, scanVars
<1>5. ASSUME NEW k \in Ticks, Fetched(k)
      PROVE  Covered'
  <2>0. PICK offered \in {gifts \in SUBSET Gifts : Evergreen \subseteq gifts} :
           \E order \in Orders(offered) : list' = [list EXCEPT ![k] = order]
    BY <1>5 DEF Fetched
  <2>1. PICK order \in Orders(offered) : list' = [list EXCEPT ![k] = order]
    BY <2>0
  <2>2. Evergreen \subseteq ToSet(list'[k])
    BY <2>0, <2>1, OrdersListGifts DEF TypeOK
  <2>3. \A j \in Ticks : j # k => list'[j] = list[j] /\ tick'[j] = tick[j]
    BY <1>5, <2>1 DEF Fetched, TypeOK
  <2>4. UNCHANGED <<catalog, scan>>
    BY <1>5 DEF Fetched, scanVars
  <2>5. \A j \in Ticks : tick'[j] = "writing" => Evergreen \subseteq ToSet(list'[j])
    BY <2>2, <2>3 DEF Covered
  <2> QED
    BY <2>4, <2>5 DEF Covered
<1>6. ASSUME NEW k \in Ticks, FetchFailed(k) \/ Abort(k) \/ DeadlockDetected(k)
      PROVE  Covered'
  <2>1. UNCHANGED <<list, catalog, scan>> /\ tick' = [tick EXCEPT ![k] = "failed"]
    BY <1>6 DEF FetchFailed, Abort, DeadlockDetected, Rollback, scanVars
  <2>2. \A j \in Ticks : tick'[j] = "writing" => tick[j] = "writing"
    BY <2>1 DEF TypeOK
  <2> QED
    BY <1>1, <2>1, <2>2
<1>7. ASSUME NEW k \in Ticks, Upsert(k)
      PROVE  Covered'
  BY <1>1, <1>7 DEF Upsert, scanVars
<1>8. ASSUME NEW k \in Ticks, Commit(k)
      PROVE  Covered'
  <2>1. Evergreen \subseteq ToSet(list[k])
    BY <1>8 DEF Commit, Covered
  <2>2. \A g \in Gifts : /\ catalog[g] # NoRow => catalog'[g] # NoRow
                         /\ g \in Evergreen => catalog'[g] # NoRow
    <3>1. \A g \in Gifts : catalog[g] \in Rows
      BY DEF TypeOK
    <3> QED
      BY <1>8, <2>1, <3>1, CommitWritesItsList, UpsertedRow
  <2>3. UNCHANGED <<list, scan>> /\ \A j \in Ticks : tick'[j] = "writing" => tick[j] = "writing"
    BY <1>8 DEF Commit, scanVars, TypeOK
  <2> QED
    BY <1>0, <2>2, <2>3 DEF Covered
<1>9. ASSUME NEW s \in Scans, ReadBaseline(s) \/ FetchInventory(s) \/ LookupGift(s)
      PROVE  Covered'
  <2>1. UNCHANGED <<tick, list, catalog>>
    BY <1>9 DEF ReadBaseline, FetchInventory, LookupGift, workerVars
  <2>2. \A x \in Scans : scan'[x] \in {"fetching", "lookup"} => \E g \in Gifts : catalog[g] # NoRow
    BY <1>9 DEF ReadBaseline, FetchInventory, LookupGift, TypeOK, Covered
  <2> QED
    BY <2>1, <2>2 DEF Covered
<1>10. CASE UNCHANGED vars
  BY <1>1, <1>10 DEF vars
<1> QED
  BY <1>2, <1>3, <1>4, <1>5, <1>6, <1>7, <1>8, <1>9, <1>10 DEF Next

LEMMA NoFalseFlagStep == TypeOK /\ Underway /\ Covered /\ NoFalseFlag /\ [Next]_vars => NoFalseFlag'
<1> SUFFICES ASSUME TypeOK, Underway, Covered, NoFalseFlag, [Next]_vars
             PROVE  NoFalseFlag'
  OBVIOUS
<1>1. CASE UNCHANGED flagged
  BY <1>1 DEF NoFalseFlag
<1>2. ASSUME NEW s \in Scans, LookupGift(s)
      PROVE  NoFalseFlag'
  <2>. DEFINE owned == Head(inventory[s])
              verdict == classifyOwnedGift(owned, catalog[owned.giftId])
  <2>1. ASSUME owned.giftId \in Evergreen, verdict # "pass"
        PROVE  owned.publisher \notin {NoPublisher, PublisherOf[owned.giftId]}
    <3>1. catalog[owned.giftId] # NoRow
      BY <1>2, <2>1 DEF LookupGift, Covered
    <3>2. owned.publisher # NoPublisher /\ owned.publisher # PublisherOf[owned.giftId]
      BY <2>1, <3>1 DEF classifyOwnedGift
    <3> QED
      BY <3>2
  <2>2. flagged' = IF verdict = "pass" THEN flagged
                   ELSE [flagged EXCEPT ![s] = @ \cup {[owned |-> owned, reason |-> verdict]}]
    BY <1>2 DEF LookupGift
  <2>. HIDE DEF owned, verdict
  <2> QED
    BY <2>1, <2>2 DEF NoFalseFlag, Underway
<1>3. UNCHANGED flagged \/ \E s \in Scans : LookupGift(s)
  BY DEF Next, StartTick, Stop, Close, Exit, Crash, Fetched, FetchFailed, Upsert, Commit, Abort,
         DeadlockDetected, Rollback, ReadBaseline, FetchInventory, scanVars, vars
<1> QED
  BY <1>1, <1>2, <1>3

(* All but a commit leave the catalog, and the ticks that wrote it, alone.          *)
LEMMA CatalogStays ==
    ASSUME TypeOK, Underway, [Next]_vars, \A k \in Ticks : ~Commit(k)
    PROVE  /\ UNCHANGED catalog
           /\ \A k \in Ticks : tick[k] = "done" => tick'[k] = "done" /\ list'[k] = list[k]
<1>1. UNCHANGED catalog
  BY DEF Next, StartTick, Stop, Close, Exit, Crash, Fetched, FetchFailed, Upsert, Abort,
         DeadlockDetected, Rollback, ReadBaseline, FetchInventory, LookupGift, scanVars, vars
<1>2. CASE StartTick
  <2>1. started + 1 \in Ticks /\ started + 1 > started
    BY <1>2, GiftCatalogAssumption DEF StartTick, TypeOK, Ticks
  <2>2. tick[started + 1] = "none"
    BY <2>1 DEF TypeOK
  <2> QED
    BY <1>1, <1>2, <2>1, <2>2 DEF StartTick, TypeOK
<1>3. CASE Exit \/ Crash
  BY <1>1, <1>3 DEF Exit, Crash, Cut, Active, TypeOK
<1>4. ASSUME NEW k \in Ticks, Fetched(k)
      PROVE  \A j \in Ticks : tick[j] = "done" => tick'[j] = "done" /\ list'[j] = list[j]
  BY <1>4 DEF Fetched, TypeOK
<1>5. ASSUME NEW k \in Ticks, FetchFailed(k) \/ Abort(k) \/ DeadlockDetected(k)
      PROVE  \A j \in Ticks : tick[j] = "done" => tick'[j] = "done" /\ list'[j] = list[j]
  <2>1. UNCHANGED list /\ tick' = [tick EXCEPT ![k] = "failed"] /\ tick[k] # "done"
    BY <1>5 DEF FetchFailed, Abort, DeadlockDetected, Deadlocked, WaitsFor, Rollback
  <2> QED
    BY <2>1 DEF TypeOK
<1>6. CASE UNCHANGED <<tick, list>>
  BY <1>1, <1>6
<1> QED
  BY <1>1, <1>2, <1>3, <1>4, <1>5, <1>6
     DEF Next, Stop, Close, Upsert, ReadBaseline, FetchInventory, LookupGift, workerVars, vars

LEMMA SerialStep == TypeOK /\ Underway /\ RowsAreCommitted /\ CatalogIsSerial /\ [Next]_vars
                       => RowsAreCommitted' /\ CatalogIsSerial'
<1> SUFFICES ASSUME TypeOK, Underway, RowsAreCommitted, CatalogIsSerial, [Next]_vars
             PROVE  RowsAreCommitted' /\ CatalogIsSerial'
  OBVIOUS
<1>1. \A g \in Gifts : /\ catalog[g] \in Rows
                       /\ catalog[g] # NoRow => catalog[g].by \in Ticks /\ tick[catalog[g].by] = "done"
                       /\ catalog[g] # NoRow <=> catalog[g].by # 0
  BY RowsHaveWriters DEF TypeOK, RowsAreCommitted
<1>2. CASE \A k \in Ticks : ~Commit(k)
  BY <1>1, <1>2, CatalogStays DEF RowsAreCommitted, CatalogIsSerial
<1>3. ASSUME NEW k \in Ticks, Commit(k)
      PROVE  RowsAreCommitted' /\ CatalogIsSerial'
  <2>1. UNCHANGED list /\ tick[k] = "writing" /\ tick' = [tick EXCEPT ![k] = "done"]
    BY <1>3 DEF Commit
  <2>2. \A g \in Gifts : /\ g \in ToSet(list[k]) => catalog'[g].by = k
                         /\ g \notin ToSet(list[k]) => catalog'[g] = catalog[g]
    BY <1>1, <1>3, CommitWritesItsList, UpsertedRow
  <2>3. RowsAreCommitted'
    BY <1>1, <2>1, <2>2 DEF RowsAreCommitted, TypeOK
  <2>4. CatalogIsSerial'
    BY <2>1, <2>2 DEF CatalogIsSerial
  <2> QED
    BY <2>3, <2>4
<1> QED
  BY <1>2, <1>3

(* A statement runs only when nobody else holds its row, so that no row is held by  *)
(* two transactions.                                                         *)
LEMMA LocksStep == TypeOK /\ Underway /\ RowLocks /\ [Next]_vars => RowLocks'
<1> SUFFICES ASSUME TypeOK, Underway, RowLocks, [Next]_vars
             PROVE  RowLocks'
  OBVIOUS
<1>1. ASSUME \A k \in Ticks, g \in Gifts : Holds(k, g)' => Holds(k, g)
      PROVE  RowLocks'
  BY <1>1 DEF RowLocks
<1>2. ASSUME \A k \in Ticks : /\ tick'[k] = "writing" => tick[k] = "writing"
                              /\ list'[k] = list[k] /\ written'[k] = written[k]
      PROVE  RowLocks'
  <2>1. \A k \in Ticks, g \in Gifts : Holds(k, g)' => Holds(k, g)
    BY <1>2 DEF Holds
  <2> QED
    BY <1>1, <2>1
<1>3. CASE StartTick
  BY <1>2, <1>3 DEF StartTick, TypeOK
<1>4. CASE Stop \/ Close
  BY <1>2, <1>4 DEF Stop, Close
<1>5. CASE Exit \/ Crash
  BY <1>2, <1>5 DEF Exit, Crash, Cut, Active
<1>6. ASSUME NEW k \in Ticks, Fetched(k)
      PROVE  RowLocks'
  <2>1. written'[k] = 0
    BY <1>6 DEF Fetched, Underway
  <2>2. \A g \in Gifts : ~Holds(k, g)'
    BY <2>1 DEF Holds
  <2>3. \A j \in Ticks : j # k => tick'[j] = tick[j] /\ list'[j] = list[j] /\ written'[j] = written[j]
    BY <1>6 DEF Fetched, TypeOK
  <2>4. \A j \in Ticks, g \in Gifts : j # k => (Holds(j, g)' <=> Holds(j, g))
    BY <2>3 DEF Holds
  <2> QED
    BY <1>1, <2>2, <2>4
<1>7. ASSUME NEW k \in Ticks, FetchFailed(k) \/ Abort(k) \/ DeadlockDetected(k)
      PROVE  RowLocks'
  <2>1. UNCHANGED <<list, written>> /\ tick' = [tick EXCEPT ![k] = "failed"]
    BY <1>7 DEF FetchFailed, Abort, DeadlockDetected, Rollback
  <2> QED
    BY <1>2, <2>1 DEF TypeOK
<1>8. ASSUME NEW k \in Ticks, Commit(k)
      PROVE  RowLocks'
  BY <1>2, <1>8 DEF Commit, TypeOK
<1>9. ASSUME NEW k \in Ticks, Upsert(k)
      PROVE  RowLocks'
  <2>. DEFINE next == list[k][written[k] + 1]
  <2>1. tick[k] = "writing" /\ written[k] \in Nat /\ UNCHANGED <<tick, list>>
        /\ written' = [written EXCEPT ![k] = written[k] + 1]
    BY <1>9 DEF Upsert, Underway
  <2>2. \A j \in Ticks : j # k => ~Holds(j, next)
    BY <1>9 DEF Upsert, WaitsFor
  <2>3. \A g \in Gifts : Holds(k, g)' => Holds(k, g) \/ g = next
    BY <2>1 DEF Holds, Underway
  <2>4. \A j \in Ticks, g \in Gifts : j # k => (Holds(j, g)' <=> Holds(j, g))
    BY <2>1 DEF Holds, Underway
  <2> QED
    BY <2>2, <2>3, <2>4 DEF RowLocks
<1>10. ASSUME NEW s \in Scans, ReadBaseline(s) \/ FetchInventory(s) \/ LookupGift(s)
      PROVE  RowLocks'
  BY <1>2, <1>10 DEF ReadBaseline, FetchInventory, LookupGift, workerVars
<1>11. CASE UNCHANGED vars
  BY <1>2, <1>11 DEF vars
<1> QED
  BY <1>3, <1>4, <1>5, <1>6, <1>7, <1>8, <1>9, <1>10, <1>11 DEF Next

(* Once the pool closes no tick starts, and the last has no fetch that could be cut. *)
LEMMA AwaitedStep == TypeOK /\ Underway /\ Awaited /\ [Next]_vars => Awaited'
<1> SUFFICES ASSUME TypeOK, Underway, Awaited, [Next]_vars, worker' = "closing"
             PROVE  tick'[started'] \notin Active
  BY DEF Awaited
<1>1. CASE Close
  BY <1>1 DEF Close
<1>2. CASE worker = "closing"
  <2>1. tick[started] \notin Active /\ started \in Ticks /\ UNCHANGED started
    BY <1>2, GiftCatalogAssumption
       DEF Awaited, Underway, TypeOK, Ticks, Next, StartTick, Stop, Close, Exit, Crash, Fetched,
           FetchFailed, Upsert, Commit, Abort, DeadlockDetected, Rollback, ReadBaseline,
           FetchInventory, LookupGift, workerVars, vars
  <2>2. ASSUME NEW k \in Ticks
        PROVE  tick'[k] = tick[k] \/ tick[k] \in Active
    BY <1>2 DEF TypeOK, Active, Next, StartTick, Stop, Close, Exit, Crash, Cut, Fetched,
           FetchFailed, Upsert, Commit, Abort, DeadlockDetected, Deadlocked, WaitsFor, Rollback,
           ReadBaseline, FetchInventory, LookupGift, workerVars, vars
  <2> QED
    BY <2>1, <2>2
<1>3. Close \/ worker = "closing"
  BY DEF Next, StartTick, Stop, Exit, Crash, Fetched, FetchFailed, Upsert, Commit, Abort,
         DeadlockDetected, Rollback, ReadBaseline, FetchInventory, LookupGift, workerVars, vars
<1> QED
  BY <1>1, <1>2, <1>3

-----------------------------------------------------------------------------
(* The catalog's inductive invariant, in every reachable state.                   *)
THEOREM Invariance == Spec => []IInv
<1>1. Init => IInv
  <2> SUFFICES ASSUME Init PROVE IInv
    OBVIOUS
  <2>1. Covered /\ NoFalseFlag
    BY DEF Init, Covered, NoFalseFlag
  <2>2. RowsAreCommitted /\ CatalogIsSerial
    BY DEF Init, RowsAreCommitted, CatalogIsSerial, NoRow
  <2>3. RowLocks /\ Awaited
    BY DEF Init, RowLocks, Holds, Awaited
  <2> QED
    BY <2>1, <2>2, <2>3, TypeInit DEF IInv
<1>2. IInv /\ [Next]_vars => IInv'
  BY TypeStep, CoveredStep, NoFalseFlagStep, SerialStep, LocksStep, AwaitedStep DEF IInv
<1> QED
  BY <1>1, <1>2, PTL DEF Spec

(* Every variable of the catalog, the loop and the scans keeps its type, and a      *)
(* worker that is down runs no tick.                                            *)
THEOREM TypeCorrect == Spec => []TypeOK
<1>1. IInv => TypeOK
  BY DEF IInv
<1> QED
  BY <1>1, Invariance, PTL

(* gift-publisher-scanner: no gift that is always offered is ever flagged, however  *)
(* a scan's baseline and its lookups fall between the commits of refreshes.        *)
THEOREM NoGenuineGiftIsFlagged == Spec => []NoFalseFlag
<1>1. IInv => NoFalseFlag
  BY DEF IInv
<1> QED
  BY <1>1, Invariance, PTL

(* upsertMany in one transaction: any number of overlapping refreshes leave the      *)
(* catalog some order of them would have left.                                  *)
THEOREM RefreshesAreSerial == Spec => []CatalogIsSerial
<1>1. IInv => CatalogIsSerial
  BY DEF IInv
<1> QED
  BY <1>1, Invariance, PTL

(* Row locks: a row has one writer at a time.                                     *)
THEOREM OneWriter == Spec => []RowLocks
<1>1. IInv => RowLocks
  BY DEF IInv
<1> QED
  BY <1>1, Invariance, PTL

(* What an upsert statement found in a row it locked is still there when its         *)
(* transaction commits: the model may apply all of them at the commit.           *)
LockedRowsStay ==
    [][\A k \in Ticks, g \in Gifts : Holds(k, g) /\ Holds(k, g)' => catalog'[g] = catalog[g]]_vars

(* Nobody else's commit changes a row between its upsert and the upsert's commit.   *)
THEOREM StatementsSeeTheCommit == Spec => LockedRowsStay
<1>. DEFINE Stay == \A k \in Ticks, g \in Gifts : Holds(k, g) /\ Holds(k, g)' => catalog'[g] = catalog[g]
<1>1. IInv /\ [Next]_vars => Stay
  <2> SUFFICES ASSUME IInv, [Next]_vars, NEW k \in Ticks, NEW g \in Gifts, Holds(k, g), Holds(k, g)'
               PROVE  catalog'[g] = catalog[g]
    OBVIOUS
  <2>1. CASE \A j \in Ticks : ~Commit(j)
    BY <2>1, CatalogStays DEF IInv
  <2>2. ASSUME NEW j \in Ticks, Commit(j)
        PROVE  catalog'[g] = catalog[g]
    <3>1. j # k
      BY <2>2 DEF Commit, Holds, IInv, TypeOK
    <3>2. ~Holds(j, g)
      BY <3>1 DEF IInv, RowLocks
    <3> QED
      BY <2>2, <3>2 DEF Commit
  <2> QED
    BY <2>1, <2>2
<1> QED
  BY <1>1, Invariance, PTL DEF Spec, LockedRowsStay

(* The upsert's SET list: a row of the catalog is never lost, never loses its        *)
(* first sighting and is never dated back.                                      *)
THEOREM CatalogGrows == Spec => CatalogOnlyGains
<1>. DEFINE Gains == \A g \in Gifts : catalog[g] # NoRow =>
                        /\ catalog'[g] # NoRow
                        /\ catalog'[g].firstSeenAt = catalog[g].firstSeenAt
                        /\ catalog'[g].lastRefreshedAt >= catalog[g].lastRefreshedAt
<1>1. IInv /\ [Next]_vars => Gains
  <2> SUFFICES ASSUME IInv, [Next]_vars, NEW g \in Gifts, catalog[g] # NoRow
               PROVE  /\ catalog'[g] # NoRow
                      /\ catalog'[g].firstSeenAt = catalog[g].firstSeenAt
                      /\ catalog'[g].lastRefreshedAt >= catalog[g].lastRefreshedAt
    OBVIOUS
  <2>1. catalog[g] \in Rows
    BY DEF IInv, TypeOK
  <2>2. catalog[g].lastRefreshedAt \in Nat
    BY <2>1, RowsHaveWriters, GiftCatalogAssumption DEF Ticks
  <2>3. CASE \A k \in Ticks : ~Commit(k)
    BY <2>2, <2>3, CatalogStays DEF IInv
  <2>4. ASSUME NEW k \in Ticks, Commit(k)
        PROVE  /\ catalog'[g] # NoRow
               /\ catalog'[g].firstSeenAt = catalog[g].firstSeenAt
               /\ catalog'[g].lastRefreshedAt >= catalog[g].lastRefreshedAt
    <3>1. catalog'[g] \in {catalog[g], Upserted(catalog[g], k)}
      BY <2>4, CommitWritesItsList DEF IInv
    <3> QED
      BY <2>1, <2>2, <3>1, UpsertedRow
  <2> QED
    BY <2>3, <2>4
<1> QED
  BY <1>1, Invariance, PTL DEF Spec, CatalogOnlyGains

(* currentTick() at shutdown: an orderly exit does not cut the tick started last.    *)
THEOREM ShutdownAwaitsTheTick == Spec => LatestTickCompletes
<1>. DEFINE Completes == worker = "closing" /\ worker' = "down" /\ (\A k \in Ticks : tick[k] # "writing")
                            => UNCHANGED tick[started]
<1>1. IInv /\ [Next]_vars => Completes
  <2> SUFFICES ASSUME IInv, [Next]_vars, worker = "closing", worker' = "down"
               PROVE  UNCHANGED tick[started]
    OBVIOUS
  <2>1. Exit \/ Crash
    BY DEF Next, StartTick, Stop, Close, Fetched, FetchFailed, Upsert, Commit, Abort,
           DeadlockDetected, Rollback, ReadBaseline, FetchInventory, LookupGift, workerVars, vars
  <2>2. tick[started] \notin Active /\ started \in Ticks
    BY GiftCatalogAssumption DEF IInv, Awaited, Underway, TypeOK, Ticks
  <2> QED
    BY <2>1, <2>2 DEF Exit, Crash, Cut
<1> QED
  BY <1>1, Invariance, PTL DEF Spec, LatestTickCompletes
=============================================================================
