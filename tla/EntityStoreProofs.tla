-------------------------- MODULE EntityStoreProofs --------------------------
(***************************************************************************)
(* Theorems about EntityStore, for any observers, entities, cooldowns,       *)
(* retention and bounds.                                                     *)
(***************************************************************************)
EXTENDS EntityStore, FiniteSetTheorems, TLAPS

InTransaction(o) == pc[o] \in {"locked", "decide"}

(* Who records something knows what; the table is finite.                       *)
Recording ==
    /\ \A o \in Observers : pc[o] # "idle" => asked[o] \in Observations
    /\ IsFiniteSet(snapshots)

(* The advisory lock of an entity has one holder.                              *)
OneHolder ==
    \A o, p \in Observers :
        InTransaction(o) /\ InTransaction(p) /\ asked[o].entityId = asked[p].entityId => o = p

(* What a transaction has read holds until it decides: none of the entity's rows  *)
(* is newer, and only pruning may have taken the row that was read.             *)
ReadHolds ==
    \A o \in Observers : pc[o] = "decide" =>
        LET previous == read[o][1]
            rows == Rows(asked[o].entityId)
        IN  IF previous = NoRow THEN rows = {}
            ELSE /\ previous \in SnapshotRows
                 /\ previous \in rows \/ previous.observedAt + Retention < now
                 /\ \A row \in rows : row.observedAt <= previous.observedAt

IInv == TypeOK /\ Recording /\ OneHolder /\ ReadHolds /\ LastSeenCovers

-----------------------------------------------------------------------------
(* A row of the table is no NoRow.                                             *)
LEMMA RowsHaveIds == ASSUME NEW row \in SnapshotRows PROVE row # NoRow
<1>1. row.id \in 1 .. MaxId
  BY DEF SnapshotRows
<1>2. NoRow.id = 0
  BY DEF NoRow
<1> QED
  BY <1>1, <1>2, EntityStoreAssumption

(* The upsert of an observation: it leaves every entity a row that is no older,   *)
(* covers the observation, and doubles no id.                                 *)
LEMMA UpsertKeepsRows ==
    ASSUME entities \subseteq EntityRows, NEW in \in Observations
    PROVE  /\ UpsertEntity(in) \subseteq EntityRows
           /\ \A entity \in entities : \E after \in UpsertEntity(in) :
                 /\ after.id = entity.id
                 /\ after.firstSeenAt = entity.firstSeenAt
                 /\ after.lastSeenAt >= entity.lastSeenAt
                 /\ entity.kind # "unknown" => after.kind # "unknown"
           /\ \E after \in UpsertEntity(in) :
                 after.id = in.entityId /\ in.observedAt <= after.lastSeenAt
           /\ (\A a, b \in entities : a.id = b.id => a = b)
                 => \A a, b \in UpsertEntity(in) : a.id = b.id => a = b
<1>. DEFINE existing == {row \in entities : row.id = in.entityId}
            inserted == [id |-> in.entityId, kind |-> in.kind,
                         firstSeenAt |-> in.observedAt, lastSeenAt |-> in.observedAt]
            updated(row) == [row EXCEPT !.kind = IF in.kind = "unknown" THEN @ ELSE in.kind,
                                        !.lastSeenAt = IF in.observedAt > @ THEN in.observedAt ELSE @]
<1>1. /\ in.entityId \in Entities /\ in.kind \in EntityKinds
      /\ in.observedAt \in Times /\ in.observedAt \in Int /\ Times \subseteq Int
  BY EntityStoreAssumption DEF Observations, Times
<1>2. inserted \in EntityRows
  BY <1>1 DEF EntityRows
<1>3. ASSUME NEW row \in entities
      PROVE  /\ updated(row) \in EntityRows
             /\ updated(row).id = row.id
             /\ updated(row).firstSeenAt = row.firstSeenAt
             /\ updated(row).lastSeenAt >= row.lastSeenAt
             /\ updated(row).lastSeenAt >= in.observedAt
             /\ row.kind # "unknown" => updated(row).kind # "unknown"
  <2>. DEFINE kind == IF in.kind = "unknown" THEN row.kind ELSE in.kind
              last == IF in.observedAt > row.lastSeenAt THEN in.observedAt ELSE row.lastSeenAt
  <2>1. row \in EntityRows /\ row.lastSeenAt \in Times /\ row.kind \in EntityKinds
    BY DEF EntityRows
  <2>2. updated(row) = [row EXCEPT !.kind = kind, !.lastSeenAt = last]
    BY <2>1, Zenon DEF EntityRows
  <2>3. kind \in EntityKinds /\ (row.kind # "unknown" => kind # "unknown")
    BY <1>1, <2>1
  <2>4. last \in Times /\ last >= row.lastSeenAt /\ last >= in.observedAt
    <3>1. row.lastSeenAt \in Int
      BY <1>1, <2>1
    <3> QED
      BY <1>1, <2>1, <3>1
  <2>. HIDE DEF kind, last, updated
  <2> QED
    BY <2>1, <2>2, <2>3, <2>4 DEF EntityRows
<1>4. UpsertEntity(in) = IF existing = {} THEN entities \cup {inserted}
                         ELSE (entities \ existing) \cup {updated(row) : row \in existing}
  BY DEF UpsertEntity
<1>5. \A entity \in entities : entity.lastSeenAt \in Int
  BY <1>1 DEF EntityRows
<1>. HIDE DEF inserted, updated
<1>6. CASE existing = {}
  <2>1. UpsertEntity(in) = entities \cup {inserted}
    BY <1>4, <1>6
  <2>2. \A row \in entities : row.id # inserted.id
    BY <1>6 DEF inserted
  <2>3. inserted.id = in.entityId /\ inserted.lastSeenAt = in.observedAt
    BY DEF inserted
  <2>4. \A entity \in entities : entity.lastSeenAt >= entity.lastSeenAt
    BY <1>5
  <2>5. in.observedAt <= inserted.lastSeenAt
    BY <1>1, <2>3
  <2> QED
    BY <1>2, <2>1, <2>2, <2>3, <2>4, <2>5
<1>7. CASE existing # {}
  <2>1. UpsertEntity(in) = (entities \ existing) \cup {updated(row) : row \in existing}
    BY <1>4, <1>7
  <2>2. PICK row \in entities : row.id = in.entityId
    BY <1>7
  <2>3. updated(row) \in UpsertEntity(in) /\ updated(row).id = in.entityId
        /\ in.observedAt <= updated(row).lastSeenAt
    <3>1. updated(row) \in EntityRows /\ updated(row).lastSeenAt \in Times
      BY <1>3 DEF EntityRows
    <3> QED
      BY <1>1, <1>3, <2>1, <2>2, <3>1
  <2>4. UpsertEntity(in) \subseteq EntityRows
    BY <1>3, <2>1
  <2>5. ASSUME NEW entity \in entities
        PROVE  \E after \in UpsertEntity(in) :
                 /\ after.id = entity.id
                 /\ after.firstSeenAt = entity.firstSeenAt
                 /\ after.lastSeenAt >= entity.lastSeenAt
                 /\ entity.kind # "unknown" => after.kind # "unknown"
    <3>1. CASE entity \in existing
      BY <1>3, <2>1, <3>1
    <3>2. CASE entity \notin existing
      BY <1>5, <2>1, <3>2
    <3> QED
      BY <3>1, <3>2
  <2>6. ASSUME \A a, b \in entities : a.id = b.id => a = b
        PROVE  \A a, b \in UpsertEntity(in) : a.id = b.id => a = b
    BY <1>3, <2>1, <2>6
  <2> QED
    BY <2>3, <2>4, <2>5, <2>6
<1> QED
  BY <1>6, <1>7

-----------------------------------------------------------------------------
LEMMA TypeInit == Init => TypeOK /\ Recording
<1>1. 0 \in Times /\ 1 \in 1 .. MaxId + 1
  BY EntityStoreAssumption DEF Times
<1> QED
  BY <1>1, FS_EmptySet DEF Init, TypeOK, Recording, Results

LEMMA TypeStep == TypeOK /\ Recording /\ [Next]_vars => TypeOK' /\ Recording'
<1> SUFFICES ASSUME TypeOK, Recording, [Next]_vars
             PROVE  TypeOK' /\ Recording'
  OBVIOUS
<1> USE EntityStoreAssumption
<1>1. CASE Tick
  BY <1>1 DEF Tick, TypeOK, Recording, Times
<1>2. CASE PruneSnapshots
  <2>1. snapshots' \subseteq snapshots
    BY <1>2 DEF PruneSnapshots
  <2> QED
    BY <1>2, <2>1, FS_Subset DEF PruneSnapshots, TypeOK, Recording
<1>3. ASSUME NEW o \in Observers, Observe(o)
      PROVE  TypeOK' /\ Recording'
  BY <1>3 DEF Observe, TypeOK, Recording, Results
<1>4. ASSUME NEW o \in Observers, AcquireLock(o)
      PROVE  TypeOK' /\ Recording'
  BY <1>4 DEF AcquireLock, TypeOK, Recording
<1>5. ASSUME NEW o \in Observers, ReadPrevious(o)
      PROVE  TypeOK' /\ Recording'
  <2>1. PICK first, second \in SnapshotRows \cup {NoRow} : read' = [read EXCEPT ![o] = <<first, second>>]
    BY <1>5 DEF ReadPrevious, Newest, Rows, TypeOK
  <2>2. read' \in [Observers -> (SnapshotRows \cup {NoRow}) \X (SnapshotRows \cup {NoRow})]
    BY <2>1 DEF TypeOK
  <2> QED
    BY <1>5, <2>2 DEF ReadPrevious, TypeOK, Recording
<1>6. ASSUME NEW o \in Observers, Suppress(o)
      PROVE  TypeOK' /\ Recording'
  <2>1. read[o][1] \in SnapshotRows /\ read[o][2] \in SnapshotRows \cup {NoRow}
    BY <1>6 DEF Suppress, Suppressed, TypeOK
  <2>2. [snapshot |-> read[o][1], previous |-> read[o][2], inserted |-> FALSE] \in Results
    BY <2>1 DEF Results
  <2> QED
    BY <1>6, <2>2 DEF Suppress, Return, TypeOK, Recording
<1>7. ASSUME NEW o \in Observers, Insert(o)
      PROVE  TypeOK' /\ Recording'
  <2>. DEFINE in == asked[o]
              row == [id |-> nextId, entityId |-> in.entityId, kind |-> in.kind,
                      content |-> in.content, observedAt |-> in.observedAt]
  <2>1. in \in Observations /\ nextId \in 1 .. MaxId
    BY <1>7 DEF Insert, TypeOK, Recording
  <2>2. row \in SnapshotRows
    BY <2>1 DEF Observations, SnapshotRows
  <2>3. [snapshot |-> row, previous |-> read[o][1], inserted |-> TRUE] \in Results
    BY <2>2 DEF Results, TypeOK
  <2>4. entities' \subseteq EntityRows
    BY <1>7, <2>1, UpsertKeepsRows DEF Insert, TypeOK
  <2>5. snapshots' \subseteq SnapshotRows /\ IsFiniteSet(snapshots')
    BY <1>7, <2>2, FS_AddElement DEF Insert, TypeOK, Recording
  <2>6. nextId' \in 1 .. MaxId + 1
    BY <1>7, <2>1 DEF Insert
  <2>7. result' \in [Observers -> Results]
    BY <1>7, <2>3 DEF Insert, TypeOK
  <2> QED
    BY <1>7, <2>4, <2>5, <2>6, <2>7 DEF Insert, Return, TypeOK, Recording
<1>8. ASSUME NEW o \in Observers, Abort(o)
      PROVE  TypeOK' /\ Recording'
  BY <1>8 DEF Abort, Return, TypeOK, Recording
<1>9. CASE UNCHANGED vars
  BY <1>9 DEF vars, TypeOK, Recording
<1> QED
  BY <1>1, <1>2, <1>3, <1>4, <1>5, <1>6, <1>7, <1>8, <1>9 DEF Next, Record

LEMMA LockStep == TypeOK /\ Recording /\ OneHolder /\ [Next]_vars => OneHolder'
<1> SUFFICES ASSUME TypeOK, Recording, OneHolder, [Next]_vars
             PROVE  OneHolder'
  OBVIOUS
<1>1. CASE Tick \/ PruneSnapshots
  BY <1>1 DEF Tick, PruneSnapshots, OneHolder, InTransaction
<1>2. ASSUME NEW o \in Observers, Observe(o)
      PROVE  OneHolder'
  BY <1>2 DEF Observe, OneHolder, InTransaction, TypeOK
<1>3. ASSUME NEW o \in Observers, AcquireLock(o)
      PROVE  OneHolder'
  BY <1>3 DEF AcquireLock, Holds, OneHolder, InTransaction, TypeOK
<1>4. ASSUME NEW o \in Observers, ReadPrevious(o)
      PROVE  OneHolder'
  BY <1>4 DEF ReadPrevious, OneHolder, InTransaction, TypeOK
<1>5. ASSUME NEW o \in Observers, Suppress(o) \/ Insert(o) \/ Abort(o)
      PROVE  OneHolder'
  BY <1>5 DEF Suppress, Insert, Abort, Return, OneHolder, InTransaction, TypeOK
<1>6. CASE UNCHANGED vars
  BY <1>6 DEF vars, OneHolder, InTransaction
<1> QED
  BY <1>1, <1>2, <1>3, <1>4, <1>5, <1>6 DEF Next, Record

(* What pruning deletes was beyond its retention.                               *)
LEMMA PrunedRowsAreOld ==
    ASSUME TypeOK, PruneSnapshots
    PROVE  /\ snapshots' \subseteq snapshots
           /\ \A row \in snapshots \ snapshots' : row.observedAt + Retention < now
<1>1. PICK doomed \in SUBSET Eligible(now - Retention) : snapshots' = snapshots \ doomed
  BY DEF PruneSnapshots
<1>2. \A row \in doomed : row.observedAt < now - Retention /\ row.observedAt \in Int
  BY EntityStoreAssumption DEF Eligible, TypeOK, SnapshotRows, Times
<1>3. now \in Int /\ Retention \in Int
  BY EntityStoreAssumption DEF TypeOK, Times
<1> QED
  BY <1>1, <1>2, <1>3

(* A step that adds no row, and takes only old ones, leaves a reader's row as good  *)
(* as it was.                                                                *)
LEMMA ReadStays ==
    ASSUME TypeOK, ReadHolds, NEW o \in Observers, pc[o] = "decide", pc'[o] = "decide",
           read'[o] = read[o], asked'[o] = asked[o],
           now' \in Int, now <= now',
           Rows(asked[o].entityId)' \subseteq Rows(asked[o].entityId),
           \A row \in snapshots \ snapshots' : row.observedAt + Retention < now
    PROVE  LET previous == read[o][1]
               rows == Rows(asked[o].entityId)
           IN  (IF previous = NoRow THEN rows = {}
                ELSE /\ previous \in SnapshotRows
                     /\ previous \in rows \/ previous.observedAt + Retention < now
                     /\ \A row \in rows : row.observedAt <= previous.observedAt)'
<1>. DEFINE previous == read[o][1]
<1>1. CASE previous = NoRow
  BY <1>1 DEF ReadHolds
<1>2. CASE previous # NoRow
  <2>1. /\ previous \in SnapshotRows
        /\ previous \in Rows(asked[o].entityId) \/ previous.observedAt + Retention < now
        /\ \A row \in Rows(asked[o].entityId) : row.observedAt <= previous.observedAt
    BY <1>2 DEF ReadHolds
  <2>2. previous.observedAt + Retention \in Int /\ now \in Int
    BY <2>1, EntityStoreAssumption DEF SnapshotRows, Times, TypeOK
  <2>3. previous \in Rows(asked[o].entityId)' \/ previous.observedAt + Retention < now
    BY <2>1 DEF Rows
  <2>4. previous \in Rows(asked[o].entityId)' \/ previous.observedAt + Retention < now'
    BY <2>2, <2>3
  <2> QED
    BY <1>2, <2>1, <2>4
<1> QED
  BY <1>1, <1>2

LEMMA ReadStep == TypeOK /\ Recording /\ OneHolder /\ ReadHolds /\ [Next]_vars => ReadHolds'
<1> SUFFICES ASSUME TypeOK, Recording, OneHolder, ReadHolds, [Next]_vars,
                    NEW p \in Observers, pc'[p] = "decide"
             PROVE  LET previous == read[p][1]
                        rows == Rows(asked[p].entityId)
                    IN  (IF previous = NoRow THEN rows = {}
                         ELSE /\ previous \in SnapshotRows
                              /\ previous \in rows \/ previous.observedAt + Retention < now
                              /\ \A row \in rows : row.observedAt <= previous.observedAt)'
  BY DEF ReadHolds
<1> DEFINE Goal == LET previous == read[p][1]
                       rows == Rows(asked[p].entityId)
                   IN  (IF previous = NoRow THEN rows = {}
                        ELSE /\ previous \in SnapshotRows
                             /\ previous \in rows \/ previous.observedAt + Retention < now
                             /\ \A row \in rows : row.observedAt <= previous.observedAt)'
<1>0. now \in Int /\ now + 1 \in Int /\ now <= now /\ now <= now + 1
  BY EntityStoreAssumption DEF TypeOK, Times
<1>a. ASSUME UNCHANGED snapshots
      PROVE  /\ Rows(asked[p].entityId)' = {row \in snapshots : row.entityId = asked'[p].entityId}
             /\ \A row \in snapshots \ snapshots' : row.observedAt + Retention < now
  BY <1>a DEF Rows
<1>b. ASSUME UNCHANGED <<now, snapshots>>, pc[p] = "decide", read'[p] = read[p], asked'[p] = asked[p]
      PROVE  Goal
  <2>1. Rows(asked[p].entityId)' = Rows(asked[p].entityId)
    BY <1>b DEF Rows
  <2> QED
    BY <1>0, <1>a, <1>b, <2>1, ReadStays
<1>1. CASE Tick
  <2>1. Rows(asked[p].entityId)' = Rows(asked[p].entityId)
    BY <1>1 DEF Rows, Tick
  <2> QED
    BY <1>0, <1>1, <1>a, <2>1, ReadStays DEF Tick
<1>2. CASE PruneSnapshots
  <2>1. Rows(asked[p].entityId)' \subseteq Rows(asked[p].entityId)
    BY <1>2, PrunedRowsAreOld DEF Rows, PruneSnapshots
  <2> QED
    BY <1>0, <1>2, <2>1, PrunedRowsAreOld, ReadStays DEF PruneSnapshots
<1>3. ASSUME NEW o \in Observers, Observe(o) \/ AcquireLock(o)
      PROVE  Goal
  <2>1. p # o /\ pc[p] = "decide" /\ asked'[p] = asked[p] /\ read'[p] = read[p]
    BY <1>3 DEF Observe, AcquireLock, TypeOK
  <2> QED
    BY <1>3, <1>b, <2>1 DEF Observe, AcquireLock
<1>4. ASSUME NEW o \in Observers, ReadPrevious(o)
      PROVE  Goal
  <2>1. CASE p = o
    <3>. DEFINE rows == Rows(asked[o].entityId)
    <3>1. rows' = rows /\ rows \subseteq SnapshotRows
      BY <1>4 DEF ReadPrevious, Rows, TypeOK
    <3>2. \/ rows = {} /\ read'[o] = <<NoRow, NoRow>>
          \/ \E row \in Newest(rows) : read'[o][1] = row
      <4>1. o \in DOMAIN read
        BY DEF TypeOK
      <4>2. CASE read' = [read EXCEPT ![o] = <<NoRow, NoRow>>] /\ rows = {}
        BY <4>1, <4>2
      <4>3. ASSUME NEW row \in Newest(rows), NEW before,
                   read' = [read EXCEPT ![o] = <<row, before>>]
            PROVE  read'[o][1] = row
        BY <4>1, <4>3
      <4> QED
        BY <1>4, <4>2, <4>3, Zenon DEF ReadPrevious
    <3>3. CASE rows = {} /\ read'[o] = <<NoRow, NoRow>>
      BY <2>1, <3>1, <3>3
    <3>4. ASSUME NEW row \in Newest(rows), read'[o][1] = row
          PROVE  Goal
      <4>1. row \in SnapshotRows /\ row \in rows /\ \A other \in rows : other.observedAt <= row.observedAt
        BY <3>1 DEF Newest
      <4> QED
        BY <2>1, <3>1, <3>4, <4>1, RowsHaveIds
    <3> QED
      BY <3>2, <3>3, <3>4
  <2>2. CASE p # o
    BY <1>4, <1>b, <2>2 DEF ReadPrevious, TypeOK
  <2> QED
    BY <2>1, <2>2
<1>5. ASSUME NEW o \in Observers, Suppress(o) \/ Abort(o)
      PROVE  Goal
  <2>1. p # o /\ pc[p] = "decide" /\ asked'[p] = asked[p] /\ read'[p] = read[p]
    BY <1>5 DEF Suppress, Abort, Return, TypeOK
  <2> QED
    BY <1>5, <1>b, <2>1 DEF Suppress, Abort
<1>6. ASSUME NEW o \in Observers, Insert(o)
      PROVE  Goal
  <2>1. p # o /\ pc[p] = "decide" /\ asked'[p] = asked[p] /\ read'[p] = read[p]
    BY <1>6 DEF Insert, Return, TypeOK
  <2>2. asked[p].entityId # asked[o].entityId
    BY <1>6, <2>1 DEF Insert, OneHolder, InTransaction
  <2>3. Rows(asked[p].entityId)' = Rows(asked[p].entityId)
    BY <1>6, <2>1, <2>2 DEF Insert, Rows
  <2>4. snapshots \ snapshots' = {}
    BY <1>6 DEF Insert
  <2> QED
    BY <1>0, <1>6, <2>1, <2>3, <2>4, ReadStays DEF Insert
<1>7. CASE UNCHANGED vars
  BY <1>7, <1>b DEF vars
<1> QED
  BY <1>1, <1>2, <1>3, <1>4, <1>5, <1>6, <1>7 DEF Next, Record

LEMMA LastSeenStep == TypeOK /\ Recording /\ LastSeenCovers /\ [Next]_vars => LastSeenCovers'
<1> SUFFICES ASSUME TypeOK, Recording, LastSeenCovers, [Next]_vars
             PROVE  LastSeenCovers'
  OBVIOUS
<1>1. CASE UNCHANGED entities /\ snapshots' \subseteq snapshots
  BY <1>1 DEF LastSeenCovers
<1>2. ASSUME NEW o \in Observers, Insert(o)
      PROVE  LastSeenCovers'
  <2>. DEFINE in == asked[o]
  <2>1. in \in Observations /\ entities' = UpsertEntity(in)
    BY <1>2 DEF Insert, Recording
  <2>2. \A a, b \in entities' : a.id = b.id => a = b
    BY <2>1, UpsertKeepsRows DEF TypeOK, LastSeenCovers
  <2>3. entities' \subseteq EntityRows
    BY <2>1, UpsertKeepsRows DEF TypeOK
  <2>4. ASSUME NEW row \in snapshots
        PROVE  \E entity \in entities' : entity.id = row.entityId /\ row.observedAt <= entity.lastSeenAt
    <3>1. PICK entity \in entities : entity.id = row.entityId /\ row.observedAt <= entity.lastSeenAt
      BY DEF LastSeenCovers
    <3>2. PICK after \in entities' : after.id = entity.id /\ after.lastSeenAt >= entity.lastSeenAt
      BY <2>1, UpsertKeepsRows DEF TypeOK
    <3>3. row.observedAt \in Int /\ entity.lastSeenAt \in Int /\ after.lastSeenAt \in Int
      BY <2>3, EntityStoreAssumption DEF TypeOK, SnapshotRows, EntityRows, Times
    <3> QED
      BY <3>1, <3>2, <3>3
  <2>5. ASSUME NEW row \in snapshots', row \notin snapshots
        PROVE  \E entity \in entities' : entity.id = row.entityId /\ row.observedAt <= entity.lastSeenAt
    <3>1. row.entityId = in.entityId /\ row.observedAt = in.observedAt
      BY <1>2, <2>5 DEF Insert
    <3> QED
      BY <2>1, <3>1, UpsertKeepsRows DEF TypeOK
  <2> QED
    BY <2>2, <2>4, <2>5 DEF LastSeenCovers
<1>3. (\E o \in Observers : Insert(o)) \/ (UNCHANGED entities /\ snapshots' \subseteq snapshots)
  BY PrunedRowsAreOld DEF Next, Tick, PruneSnapshots, Observe, Record, AcquireLock, ReadPrevious,
                          Suppress, Abort, vars
<1> QED
  BY <1>1, <1>2, <1>3

-----------------------------------------------------------------------------
(* The store's inductive invariant, in every reachable state.                     *)
THEOREM Invariance == Spec => []IInv
<1>1. Init => IInv
  <2>1. Init => OneHolder /\ ReadHolds /\ LastSeenCovers
    BY DEF Init, OneHolder, InTransaction, ReadHolds, LastSeenCovers
  <2> QED
    BY <2>1, TypeInit DEF IInv
<1>2. IInv /\ [Next]_vars => IInv'
  BY TypeStep, LockStep, ReadStep, LastSeenStep DEF IInv
<1> QED
  BY <1>1, <1>2, PTL DEF Spec

(* Every variable of the store and of its writers keeps its type.                  *)
THEOREM TypeCorrect == Spec => []TypeOK
<1>1. IInv => TypeOK
  BY DEF IInv
<1> QED
  BY <1>1, Invariance, PTL

(* telegram_entities: one row for an entity, with a last sighting no earlier than *)
(* any of its snapshots, whatever the order in which observations commit; of the  *)
(* first sighting nothing is said.                                            *)
THEOREM LastSightingsCover == Spec => []LastSeenCovers
<1>1. IInv => LastSeenCovers
  BY DEF IInv
<1> QED
  BY <1>1, Invariance, PTL

(* The upsert: no row of telegram_entities is lost, moved back or degraded.        *)
THEOREM RowsSurvive == Spec => EntityRowsSurvive
<1>. DEFINE Survive == \A entity \in entities : \E after \in entities' :
                          /\ after.id = entity.id
                          /\ after.firstSeenAt = entity.firstSeenAt
                          /\ after.lastSeenAt >= entity.lastSeenAt
                          /\ entity.kind # "unknown" => after.kind # "unknown"
<1>1. IInv /\ [Next]_vars => Survive
  <2> SUFFICES ASSUME IInv, [Next]_vars PROVE Survive
    OBVIOUS
  <2>1. \A entity \in entities : entity.lastSeenAt >= entity.lastSeenAt
    BY EntityStoreAssumption DEF IInv, TypeOK, EntityRows, Times
  <2>2. CASE UNCHANGED entities
    BY <2>1, <2>2
  <2>3. ASSUME NEW o \in Observers, Insert(o)
        PROVE  Survive
    BY <2>3, UpsertKeepsRows DEF Insert, IInv, TypeOK, Recording
  <2> QED
    BY <2>2, <2>3 DEF Next, Tick, PruneSnapshots, Observe, Record, AcquireLock, ReadPrevious,
                      Suppress, Abort, vars
<1> QED
  BY <1>1, Invariance, PTL DEF Spec, EntityRowsSurvive

(* recordSnapshot: a row is inserted only when the entity's latest committed row,  *)
(* unless its retention has passed, is old enough or says something else.         *)
THEOREM CooldownHolds == Spec => NoDoubleInsert
<1>. DEFINE NoDouble ==
        \A o \in Observers :
          LET latest == {row \in Newest(Rows(asked[o].entityId)) : row.observedAt + Retention >= now}
          IN  pc[o] = "decide" /\ result'[o] # result[o] /\ result'[o].inserted /\ latest # {}
                 => \E row \in latest : ~Suppressed(row, asked[o])
<1>1. IInv /\ [Next]_vars => NoDouble
  <2> SUFFICES ASSUME IInv, [Next]_vars, NEW o \in Observers,
                      pc[o] = "decide", result'[o] # result[o], result'[o].inserted,
                      NEW young \in Newest(Rows(asked[o].entityId)),
                      young.observedAt + Retention >= now
               PROVE  \E row \in Newest(Rows(asked[o].entityId)) :
                          row.observedAt + Retention >= now /\ ~Suppressed(row, asked[o])
    OBVIOUS
  <2>. DEFINE rows == Rows(asked[o].entityId)
              previous == read[o][1]
  <2>1. ~Suppressed(previous, asked[o])
    <3>1. Suppress(o) \/ Insert(o)
      BY DEF Next, Tick, PruneSnapshots, Observe, Record, AcquireLock, ReadPrevious, Suppress,
             Insert, Abort, vars, IInv, TypeOK
    <3>2. Suppress(o) => result'[o].inserted = FALSE
      BY DEF Suppress, IInv, TypeOK
    <3> QED
      BY <3>1, <3>2 DEF Insert
  <2>2. /\ young \in rows /\ young \in SnapshotRows
        /\ \A row \in rows : row.observedAt <= young.observedAt
    BY DEF Newest, Rows, IInv, TypeOK
  <2>3. /\ previous \in SnapshotRows
        /\ previous \in rows \/ previous.observedAt + Retention < now
        /\ \A row \in rows : row.observedAt <= previous.observedAt
    BY <2>2 DEF IInv, ReadHolds
  <2>4. young.observedAt \in Int /\ previous.observedAt \in Int /\ now \in Int /\ Retention \in Int
    BY <2>2, <2>3, EntityStoreAssumption DEF SnapshotRows, Times, IInv, TypeOK
  <2>5. previous.observedAt + Retention >= now
    <3>1. young.observedAt <= previous.observedAt
      BY <2>2, <2>3
    <3> QED
      BY <2>4, <3>1
  <2>6. previous \in rows
    BY <2>3, <2>4, <2>5
  <2>7. previous \in Newest(rows)
    BY <2>3, <2>6 DEF Newest
  <2> QED
    BY <2>1, <2>5, <2>7
<1> QED
  BY <1>1, Invariance, PTL DEF Spec, NoDoubleInsert

(* pruneSnapshots: of each entity what is left is its most recent history.         *)
THEOREM PruningKeepsTheNewest == Spec => PruneIsOldestFirst
<1>. DEFINE OldestFirst ==
        LET gone == snapshots \ snapshots'
        IN  /\ Cardinality(gone) <= MaxRows
            /\ \A row \in gone :
                  /\ row.observedAt + Retention < now
                  /\ \A kept \in snapshots' : row.observedAt <= kept.observedAt
<1>1. IInv /\ [Next]_vars => OldestFirst
  <2> SUFFICES ASSUME IInv, [Next]_vars PROVE OldestFirst
    OBVIOUS
  <2>1. CASE snapshots \subseteq snapshots'
    <3>1. snapshots \ snapshots' = {}
      BY <2>1
    <3>2. 0 <= MaxRows
      BY EntityStoreAssumption
    <3> QED
      BY <3>1, <3>2, FS_EmptySet
  <2>2. CASE PruneSnapshots
    <3>. DEFINE eligible == Eligible(now - Retention)
    <3>1. PICK doomed \in SUBSET eligible :
             /\ Cardinality(doomed) = IF Cardinality(eligible) < MaxRows
                                      THEN Cardinality(eligible) ELSE MaxRows
             /\ \A row \in doomed, other \in eligible \ doomed : row.observedAt <= other.observedAt
             /\ snapshots' = snapshots \ doomed
      BY <2>2 DEF PruneSnapshots
    <3>2. snapshots \ snapshots' = doomed
      BY <3>1 DEF Eligible
    <3>3. IsFiniteSet(eligible) /\ Cardinality(eligible) \in Nat
      BY FS_Subset, FS_CardinalityType DEF Eligible, IInv, Recording
    <3>4. Cardinality(doomed) <= MaxRows
      BY <3>1, <3>3, EntityStoreAssumption
    <3>5. ASSUME NEW row \in doomed, NEW kept \in snapshots'
          PROVE  row.observedAt <= kept.observedAt
      <4>1. CASE kept \in eligible
        BY <3>1, <4>1
      <4>2. CASE kept \notin eligible
        <5>1. row.observedAt < now - Retention /\ ~(kept.observedAt < now - Retention)
          BY <3>1, <4>2 DEF Eligible
        <5>2. row.observedAt \in Int /\ kept.observedAt \in Int /\ now - Retention \in Int
          BY <3>1, EntityStoreAssumption DEF Eligible, IInv, TypeOK, SnapshotRows, Times
        <5> QED
          BY <5>1, <5>2
      <4> QED
        BY <4>1, <4>2
    <3>6. \A row \in doomed : row.observedAt + Retention < now
      BY <2>2, <3>2, PrunedRowsAreOld DEF IInv
    <3> QED
      BY <3>2, <3>4, <3>5, <3>6
  <2>3. PruneSnapshots \/ snapshots \subseteq snapshots'
    BY DEF Next, Tick, Observe, Record, AcquireLock, ReadPrevious, Suppress, Insert, Abort, vars
  <2> QED
    BY <2>1, <2>2, <2>3
<1> QED
  BY <1>1, Invariance, PTL DEF Spec, PruneIsOldestFirst
=============================================================================
