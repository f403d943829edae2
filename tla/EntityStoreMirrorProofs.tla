----------------------- MODULE EntityStoreMirrorProofs -----------------------
(***************************************************************************)
(* Proofs that the in-memory and the Postgres entity store answer alike, for *)
(* any entities, names, cooldown and number of calls.                       *)
(*                                                                         *)
(* The two keep different data, so the invariant says how they correspond:  *)
(* the rows of an entity are the entries of its array, the array is in the   *)
(* order of time, and no two rows share a time.  A row's rank by time is then *)
(* its position in the array, which is what both ORDER BY and the cap of a   *)
(* retention run depend on.                                                *)
(***************************************************************************)
EXTENDS EntityStoreMirror, FiniteSetTheorems, SequenceTheorems, TLAPS

Ascending(rows) == \A i, j \in DOMAIN rows : i < j => rows[i].observedAt < rows[j].observedAt

(* A row in the table is an entry of its entity's array, and the other way.    *)
Corresponding == \A e \in Entities : RowsOf(e) = ToSet(history[e])

InOrder == \A e \in Entities : Ascending(history[e])

(* One caller's clock: rows have times of their own, and none is from the       *)
(* future.                                                                   *)
Timed ==
    /\ IsFiniteSet(table)
    /\ \A r, s \in table : r.observedAt = s.observedAt => r = s
    /\ last \in Nat
    /\ \A r \in table : r.observedAt <= last

Keyed == keys \in Seq(Entities)

IInv ==
    /\ TypeOK
    /\ Keyed
    /\ Timed
    /\ Corresponding
    /\ InOrder
    /\ entities = entitiesById

-----------------------------------------------------------------------------
(* Positions and ranks                                                      *)

(* A position's rank among others is between 1 and their number, and grows with  *)
(* the position.                                                             *)
LEMMA Ranks ==
    ASSUME NEW n \in Nat, NEW P \in SUBSET (1 .. n)
    PROVE  /\ IsFiniteSet(P)
           /\ Cardinality(P) \in Nat
           /\ \A k \in P : Cardinality({j \in P : j <= k}) \in 1 .. Cardinality(P)
           /\ \A k, l \in P : k < l =>
                 Cardinality({j \in P : j <= k}) < Cardinality({j \in P : j <= l})
<1> DEFINE N == Cardinality(P)
           Below(k) == {j \in P : j <= k}
<1>1. IsFiniteSet(P) /\ N \in Nat
  <2>1. IsFiniteSet(1 .. n)
    BY FS_Interval
  <2> QED
    BY <2>1, FS_Subset, FS_CardinalityType
<1>2. \A k \in P : IsFiniteSet(Below(k)) /\ Cardinality(Below(k)) \in 1 .. N
  <2> TAKE k \in P
  <2>1. IsFiniteSet(Below(k)) /\ Cardinality(Below(k)) <= N /\ Cardinality(Below(k)) \in Nat
    BY <1>1, FS_Subset, FS_CardinalityType
  <2>2. k \in Below(k)
    OBVIOUS
  <2>3. Cardinality(Below(k)) # 0
    BY <2>1, <2>2, FS_EmptySet
  <2> QED
    BY <1>1, <2>1, <2>3
<1>3. ASSUME NEW k \in P, NEW l \in P, k < l
      PROVE  Cardinality(Below(k)) < Cardinality(Below(l))
  <2>0. \A j \in P : j \in Int
    OBVIOUS
  <2>1. \A j \in P : j <= k => j <= l
    BY <1>3, <2>0
  <2>2. l <= l /\ ~(l <= k)
    BY <1>3, <2>0
  <2>3. Below(k) \in SUBSET Below(l) /\ l \in Below(l) /\ l \notin Below(k)
    BY <2>1, <2>2
  <2> HIDE DEF Below
  <2>4. Cardinality(Below(k)) <= Cardinality(Below(l)) /\ Cardinality(Below(k)) # Cardinality(Below(l))
    BY <1>2, <2>3, FS_Subset
  <2>5. Cardinality(Below(k)) \in Int /\ Cardinality(Below(l)) \in Int
    BY <1>2, <1>1
  <2> QED
    BY <2>4, <2>5
<1> QED
  BY <1>1, <1>2, <1>3

(* Nth runs through positions in order, without leaving one out.               *)
LEMMA NthPosition ==
    ASSUME NEW n \in Nat, NEW P \in SUBSET (1 .. n)
    PROVE  /\ IsFiniteSet(P)
           /\ Cardinality(P) \in Nat
           /\ \A i \in 1 .. Cardinality(P) : Nth(P, i) \in P
           /\ \A i, j \in 1 .. Cardinality(P) : i < j => Nth(P, i) < Nth(P, j)
           /\ \A k \in P : \E i \in 1 .. Cardinality(P) : Nth(P, i) = k
           /\ \A i \in 1 .. Cardinality(P) : Cardinality({j \in P : j <= Nth(P, i)}) = i
<1> DEFINE N == Cardinality(P)
           Rank(k) == Cardinality({j \in P : j <= k})
           rank == [k \in P |-> Rank(k)]
<1>1. /\ IsFiniteSet(P) /\ N \in Nat
      /\ \A k \in P : Rank(k) \in 1 .. N
      /\ \A k, l \in P : k < l => Rank(k) < Rank(l)
  BY Ranks
<1> HIDE DEF Rank, N
<1>2. \A k, l \in P : Rank(k) = Rank(l) => k = l
  <2> SUFFICES ASSUME NEW k \in P, NEW l \in P, Rank(k) = Rank(l), k # l
               PROVE  FALSE
    OBVIOUS
  <2>1. k < l \/ l < k
    OBVIOUS
  <2>2. Rank(k) \in Int /\ Rank(l) \in Int
    BY <1>1
  <2> QED
    BY <1>1, <2>1, <2>2
<1>3. rank \in Injection(P, 1 .. N)
  BY <1>1, <1>2 DEF Injection, IsInjective
<1>4. IsFiniteSet(1 .. N) /\ Cardinality(1 .. N) = N
  BY <1>1, FS_Interval
<1>5. rank \in Surjection(P, 1 .. N)
  <2> HIDE DEF rank
  <2> QED
    BY <1>3, <1>4, FS_Injection DEF N
<1>6. \A i \in 1 .. N : \E k \in P : Rank(k) = i
  BY <1>5 DEF Surjection
<1>7. \A i \in 1 .. N : Nth(P, i) \in P /\ Rank(Nth(P, i)) = i
  BY <1>6 DEF Nth, Rank
<1>8. ASSUME NEW i \in 1 .. N, NEW j \in 1 .. N, i < j
      PROVE  Nth(P, i) < Nth(P, j)
  <2>1. PICK a \in P, b \in P : a = Nth(P, i) /\ b = Nth(P, j) /\ Rank(a) = i /\ Rank(b) = j
    BY <1>7
  <2>2. a < b \/ a = b \/ b < a
    OBVIOUS
  <2>3. ~(b < a) /\ a # b
    BY <1>1, <1>8, <2>1
  <2> QED
    BY <2>1, <2>2, <2>3
<1>9. \A k \in P : \E i \in 1 .. N : Nth(P, i) = k
  BY <1>1, <1>2, <1>7
<1>10. \A i \in 1 .. N : Cardinality({j \in P : j <= Nth(P, i)}) = i
  BY <1>7 DEF Rank
<1> QED
  BY <1>1, <1>7, <1>8, <1>9, <1>10 DEF N

(* Some positions have a first.                                              *)
LEMMA FirstPosition ==
    ASSUME NEW n \in Nat, NEW P \in SUBSET (1 .. n), P # {}
    PROVE  Min(P) \in P /\ \A k \in P : Min(P) <= k
<1> DEFINE N == Cardinality(P)
<1>1. /\ N \in Nat /\ IsFiniteSet(P)
      /\ \A i \in 1 .. N : Nth(P, i) \in P
      /\ \A i, j \in 1 .. N : i < j => Nth(P, i) < Nth(P, j)
      /\ \A k \in P : \E i \in 1 .. N : Nth(P, i) = k
  BY NthPosition
<1>2. N # 0
  BY <1>1, FS_EmptySet
<1> HIDE DEF N
<1>3. 1 \in 1 .. N
  BY <1>1, <1>2
<1>4. \A k \in P : Nth(P, 1) <= k
  <2> TAKE k \in P
  <2>1. PICK i \in 1 .. N : Nth(P, i) = k
    BY <1>1
  <2>2. PICK first \in P : first = Nth(P, 1)
    BY <1>1, <1>3
  <2>3. first = k \/ first < k
    BY <1>1, <1>3, <2>1, <2>2
  <2> QED
    BY <2>2, <2>3
<1>5. \E x \in P : \A y \in P : x <= y
  BY <1>1, <1>3, <1>4
<1> QED
  BY <1>5 DEF Min

(* Dropping entries of a sequence keeps the others, in their order.             *)
LEMMA KeptEntries ==
    ASSUME NEW E, NEW s \in Seq(E), NEW P \in SUBSET DOMAIN s
    PROVE  /\ Kept(s, P) \in Seq(E)
           /\ Len(Kept(s, P)) = Cardinality(P)
           /\ ToSet(Kept(s, P)) = {s[i] : i \in P}
           /\ \E at \in [1 .. Cardinality(P) -> P] :
                 /\ \A k \in 1 .. Cardinality(P) : Kept(s, P)[k] = s[at[k]]
                 /\ \A k, l \in 1 .. Cardinality(P) : k < l => at[k] < at[l]
<1> DEFINE N == Cardinality(P)
           at == [k \in 1 .. N |-> Nth(P, k)]
<1>0. DOMAIN s = 1 .. Len(s) /\ Len(s) \in Nat
  OBVIOUS
<1>1. /\ N \in Nat
      /\ \A i \in 1 .. N : Nth(P, i) \in P
      /\ \A i, j \in 1 .. N : i < j => Nth(P, i) < Nth(P, j)
      /\ \A k \in P : \E i \in 1 .. N : Nth(P, i) = k
  BY <1>0, NthPosition
<1>2. Kept(s, P) = [k \in 1 .. N |-> s[Nth(P, k)]]
  BY DEF Kept
<1> HIDE DEF N
<1>3. \A k \in 1 .. N : s[Nth(P, k)] \in E
  BY <1>1
<1>4. Kept(s, P) \in Seq(E) /\ Len(Kept(s, P)) = N
  BY <1>1, <1>2, <1>3
<1>5. ToSet(Kept(s, P)) = {s[i] : i \in P}
  BY <1>1, <1>2 DEF ToSet
<1>6. at \in [1 .. N -> P]
  BY <1>1
<1>7. /\ \A k \in 1 .. N : Kept(s, P)[k] = s[at[k]]
      /\ \A k, l \in 1 .. N : k < l => at[k] < at[l]
  BY <1>1, <1>2
<1> HIDE DEF at
<1> QED
  BY <1>4, <1>5, <1>6, <1>7 DEF N

-----------------------------------------------------------------------------
(* Rows by time                                                             *)

LEMMA TimesAreNumbers == \A row \in Snapshots : row.observedAt \in Nat \ {0}
<1>1. \A row \in Snapshots : row.observedAt \in Times
  BY DEF Snapshots
<1> QED
  BY <1>1, MirrorAssumption DEF Times

(* An array in the order of time is its rows ordered by time.                  *)
LEMMA InTimeOrder ==
    ASSUME NEW h \in Seq(Snapshots), Ascending(h)
    PROVE  /\ \A i, j \in DOMAIN h : h[i].observedAt <= h[j].observedAt <=> i <= j
           /\ \A i, j \in DOMAIN h : h[i] = h[j] => i = j
           /\ ByTime(ToSet(h)) = h
<1> DEFINE Upto(j) == {r \in ToSet(h) : r.observedAt <= h[j].observedAt}
<1>0. DOMAIN h = 1 .. Len(h) /\ Len(h) \in Nat
  OBVIOUS
<1>1. \A i \in DOMAIN h : h[i].observedAt \in Int
  <2>1. \A i \in DOMAIN h : h[i] \in Snapshots
    OBVIOUS
  <2> QED
    BY <2>1, TimesAreNumbers
<1>2. \A i, j \in DOMAIN h : i < j => h[i].observedAt < h[j].observedAt
  BY DEF Ascending
<1>3. \A i, j \in DOMAIN h : h[i].observedAt <= h[j].observedAt <=> i <= j
  <2> SUFFICES ASSUME NEW i \in DOMAIN h, NEW j \in DOMAIN h
               PROVE  h[i].observedAt <= h[j].observedAt <=> i <= j
    OBVIOUS
  <2>1. i < j \/ i = j \/ j < i
    BY <1>0
  <2>2. h[i].observedAt \in Int /\ h[j].observedAt \in Int
    BY <1>1
  <2> QED
    BY <1>0, <1>2, <2>1, <2>2
<1>4. \A i, j \in DOMAIN h : h[i] = h[j] => i = j
  <2> SUFFICES ASSUME NEW i \in DOMAIN h, NEW j \in DOMAIN h, h[i] = h[j]
               PROVE  i = j
    OBVIOUS
  <2>1. h[i].observedAt <= h[j].observedAt /\ h[j].observedAt <= h[i].observedAt
    BY <1>1
  <2>2. i <= j /\ j <= i
    BY <1>3, <2>1
  <2> QED
    BY <1>0, <2>2
<1>5. \A j \in DOMAIN h : Upto(j) = {h[i] : i \in 1 .. j}
  <2> SUFFICES ASSUME NEW j \in DOMAIN h
               PROVE  Upto(j) = {h[i] : i \in 1 .. j}
    OBVIOUS
  <2>1. \A i \in DOMAIN h : i <= j <=> i \in 1 .. j
    BY <1>0
  <2>2. 1 .. j \subseteq DOMAIN h
    BY <1>0
  <2> QED
    BY <1>3, <2>1, <2>2 DEF ToSet
<1>6. ASSUME NEW j \in Nat, 1 .. j \subseteq DOMAIN h
      PROVE  /\ IsFiniteSet({h[i] : i \in 1 .. j})
             /\ Cardinality({h[i] : i \in 1 .. j}) = j
  <2> DEFINE f == [i \in 1 .. j |-> h[i]]
             T == {h[i] : i \in 1 .. j}
  <2>1. f \in Surjection(1 .. j, T)
    BY DEF Surjection
  <2>2. f \in Injection(1 .. j, T)
    BY <1>4, <1>6 DEF Injection, IsInjective
  <2>3. IsFiniteSet(1 .. j) /\ Cardinality(1 .. j) = j
    BY FS_Interval
  <2> HIDE DEF f, T
  <2>4. IsFiniteSet(T) /\ Cardinality(T) = j
    BY <2>1, <2>2, <2>3, FS_Surjection
  <2> QED
    BY <2>4 DEF T
<1>7. \A j \in DOMAIN h : Cardinality(Upto(j)) = j
  <2> TAKE j \in DOMAIN h
  <2>1. j \in Nat /\ 1 .. j \subseteq DOMAIN h
    BY <1>0
  <2> HIDE DEF Upto
  <2> QED
    BY <1>5, <1>6, <2>1
<1>8. Cardinality(ToSet(h)) = Len(h)
  <2>1. ToSet(h) = {h[i] : i \in 1 .. Len(h)}
    BY <1>0 DEF ToSet
  <2> QED
    BY <1>0, <1>6, <2>1
<1>9. ASSUME NEW k \in DOMAIN h
      PROVE  (CHOOSE row \in ToSet(h) :
                 Cardinality({r \in ToSet(h) : r.observedAt <= row.observedAt}) = k) = h[k]
  <2>1. h[k] \in ToSet(h) /\ Cardinality({r \in ToSet(h) : r.observedAt <= h[k].observedAt}) = k
    BY <1>7 DEF ToSet
  <2>2. ASSUME NEW row \in ToSet(h),
               Cardinality({r \in ToSet(h) : r.observedAt <= row.observedAt}) = k
        PROVE  row = h[k]
    <3>1. PICK i \in DOMAIN h : row = h[i]
      BY DEF ToSet
    <3>2. Cardinality(Upto(i)) = k
      BY <2>2, <3>1
    <3> HIDE DEF Upto
    <3> QED
      BY <1>7, <3>1, <3>2
  <2> QED
    BY <2>1, <2>2
<1>10. ByTime(ToSet(h)) = [k \in 1 .. Len(h) |-> h[k]]
  BY <1>0, <1>8, <1>9 DEF ByTime
<1>11. h = [k \in 1 .. Len(h) |-> h[k]]
  BY <1>0
<1> QED
  BY <1>3, <1>4, <1>10, <1>11

(* Appending a later snapshot, or dropping entries, keeps the order.            *)
LEMMA AppendInOrder ==
    ASSUME NEW h \in Seq(Snapshots), Ascending(h), NEW row \in Snapshots,
           \A i \in DOMAIN h : h[i].observedAt < row.observedAt
    PROVE  /\ Ascending(Append(h, row))
           /\ ToSet(Append(h, row)) = ToSet(h) \cup {row}
<1> DEFINE a == Append(h, row)
<1>1. /\ DOMAIN h = 1 .. Len(h) /\ Len(h) \in Nat
      /\ DOMAIN a = 1 .. Len(h) + 1
      /\ \A i \in 1 .. Len(h) : a[i] = h[i]
      /\ a[Len(h) + 1] = row
  OBVIOUS
<1> HIDE DEF a
<1>2. Ascending(a)
  <2> SUFFICES ASSUME NEW i \in DOMAIN a, NEW j \in DOMAIN a, i < j
               PROVE  a[i].observedAt < a[j].observedAt
    BY DEF Ascending
  <2>1. i \in 1 .. Len(h)
    BY <1>1
  <2>2. CASE j = Len(h) + 1
    BY <1>1, <2>1, <2>2
  <2>3. CASE j # Len(h) + 1
    <3>1. j \in 1 .. Len(h)
      BY <1>1, <2>3
    <3> QED
      BY <1>1, <2>1, <3>1 DEF Ascending
  <2> QED
    BY <2>2, <2>3
<1>3. ToSet(a) = ToSet(h) \cup {row}
  <2>1. DOMAIN a = DOMAIN h \cup {Len(h) + 1}
    BY <1>1
  <2> QED
    BY <1>1, <2>1 DEF ToSet
<1> QED
  BY <1>2, <1>3 DEF a

LEMMA KeptInOrder ==
    ASSUME NEW h \in Seq(Snapshots), Ascending(h), NEW P \in SUBSET DOMAIN h
    PROVE  Ascending(Kept(h, P))
<1> DEFINE N == Cardinality(P)
<1>1. PICK at \in [1 .. N -> P] :
         /\ \A k \in 1 .. N : Kept(h, P)[k] = h[at[k]]
         /\ \A k, l \in 1 .. N : k < l => at[k] < at[l]
  BY KeptEntries
<1>2. DOMAIN Kept(h, P) = 1 .. N
  BY DEF Kept
<1> HIDE DEF N
<1> SUFFICES ASSUME NEW k \in 1 .. N, NEW l \in 1 .. N, k < l
             PROVE  Kept(h, P)[k].observedAt < Kept(h, P)[l].observedAt
  BY <1>2 DEF Ascending
<1>3. at[k] \in DOMAIN h /\ at[l] \in DOMAIN h /\ at[k] < at[l]
  BY <1>1
<1> QED
  BY <1>1, <1>3 DEF Ascending

-----------------------------------------------------------------------------
(* Both stores                                                              *)

(* Postgres' ordered rows are the in-memory array.                             *)
LEMMA SameHistory ==
    ASSUME IInv
    PROVE  \A e \in Entities :
              /\ history[e] \in Seq(Snapshots)
              /\ Ascending(history[e])
              /\ pgHistory(e) = history[e]
              /\ latestSnapshot(e) = memLatestSnapshot(e)
<1> TAKE e \in Entities
<1>1. history[e] \in Seq(Snapshots) /\ Ascending(history[e]) /\ RowsOf(e) = ToSet(history[e])
  BY DEF IInv, TypeOK, InOrder, Corresponding
<1>2. pgHistory(e) = history[e]
  BY <1>1, InTimeOrder DEF pgHistory
<1> QED
  BY <1>1, <1>2 DEF latestSnapshot, memLatestSnapshot

(* The latest snapshot of an entity with a history is its last entry, which the   *)
(* table holds and which no other row of the entity is later than.              *)
LEMMA Latest ==
    ASSUME IInv, NEW e \in Entities, history[e] # <<>>
    PROVE  /\ memLatestSnapshot(e) \in RowsOf(e)
           /\ \A row \in RowsOf(e) : row.observedAt <= memLatestSnapshot(e).observedAt
<1> DEFINE h == history[e]
<1>1. h \in Seq(Snapshots) /\ Ascending(h) /\ RowsOf(e) = ToSet(h)
  BY DEF IInv, TypeOK, InOrder, Corresponding
<1>2. memLatestSnapshot(e) = h[Len(h)]
  BY DEF memLatestSnapshot, LastOrNull
<1> HIDE DEF h
<1>3. Len(h) \in DOMAIN h /\ \A i \in DOMAIN h : i <= Len(h)
  <2>1. h # <<>>
    BY DEF h
  <2> QED
    BY <1>1, <2>1
<1>4. \A i \in DOMAIN h : h[i].observedAt <= h[Len(h)].observedAt
  BY <1>1, <1>3, InTimeOrder
<1> QED
  BY <1>1, <1>2, <1>3, <1>4 DEF ToSet

(* The oldest eligible rows and the oldest candidates are the same snapshots: a   *)
(* candidate has as many candidates before it as its row has eligible rows.       *)
LEMMA SameDeletions ==
    ASSUME IInv, NEW cutoff \in Times, NEW maxRows \in Nat,
           NEW e \in Entities, NEW i \in DOMAIN history[e]
    PROVE  <<e, i>> \in ToDelete(cutoff, maxRows) <=> history[e][i] \in Doomed(cutoff, maxRows)
<1> DEFINE PC == PruneCandidates(cutoff)
           El == Eligible(cutoff)
           Row(c) == history[c[1]][c[2]]
<1>1. \A d \in Entities :
         /\ history[d] \in Seq(Snapshots) /\ Ascending(history[d])
         /\ \A j \in DOMAIN history[d] : history[d][j] \in table /\ history[d][j].entityId = d
         /\ \A row \in table : row.entityId = d => \E j \in DOMAIN history[d] : row = history[d][j]
  BY DEF IInv, TypeOK, InOrder, Corresponding, RowsOf, ToSet
<1>2. \A c : c \in PC <=>
         \E d \in Entities : \E j \in DOMAIN history[d] :
            c = <<d, j>> /\ history[d][j].observedAt < cutoff
  BY DEF PruneCandidates
<1> HIDE DEF PC
<1>3. \A c \in PC : Row(c) \in El /\ ObservedAt(c) = Row(c).observedAt
  BY <1>1, <1>2 DEF Eligible, ObservedAt
<1>4. ASSUME NEW c \in PC, NEW d \in PC, Row(c) = Row(d)
      PROVE  c = d
  <2>1. PICK a \in Entities : \E j \in DOMAIN history[a] : c = <<a, j>>
    BY <1>2
  <2>2. PICK b \in Entities : \E k \in DOMAIN history[b] : d = <<b, k>>
    BY <1>2
  <2>. PICK j \in DOMAIN history[a] : c = <<a, j>>
    BY <2>1
  <2>. PICK k \in DOMAIN history[b] : d = <<b, k>>
    BY <2>2
  <2>3. history[a][j] = history[b][k]
    BY <1>4
  <2>4. a = b
    <3>1. history[a][j].entityId = a
      BY <1>1, Zenon
    <3>2. history[b][k].entityId = b
      BY <1>1, Zenon
    <3> QED
      BY <2>3, <3>1, <3>2, Zenon
  <2>5. j = k
    BY <1>1, <2>3, <2>4, InTimeOrder
  <2> QED
    BY <2>4, <2>5
<1>5. ASSUME NEW row \in El
      PROVE  \E c \in PC : Row(c) = row
  <2>1. row \in table /\ row.observedAt < cutoff /\ row.entityId \in Entities
    BY DEF Eligible, IInv, TypeOK, Snapshots
  <2>2. PICK j \in DOMAIN history[row.entityId] : row = history[row.entityId][j]
    BY <1>1, <2>1
  <2>3. <<row.entityId, j>> \in PC
    BY <1>2, <2>1, <2>2
  <2> QED
    BY <2>2, <2>3
<1>6. IsFiniteSet(El)
  BY FS_Subset DEF IInv, Timed, Eligible
<1> DEFINE Before(c) == {d \in PC : ObservedAt(d) < ObservedAt(c)}
           RowsBefore(row) == {r \in El : r.observedAt < row.observedAt}
<1> HIDE DEF Row, El
<1>7. ASSUME NEW c \in PC
      PROVE  Cardinality(Before(c)) = Cardinality(RowsBefore(Row(c)))
  <2> DEFINE S == Before(c)
             T == RowsBefore(Row(c))
             f == [d \in S |-> Row(d)]
  <2>1. S \subseteq PC /\ \A d \in S : Row(d) \in T
    BY <1>3
  <2>2. \A row \in T : \E d \in S : Row(d) = row
    BY <1>3, <1>5
  <2>3. IsFiniteSet(T)
    BY <1>6, FS_Subset
  <2> HIDE DEF S, T
  <2>4. f \in Injection(S, T)
    BY <1>4, <2>1 DEF Injection, IsInjective
  <2>5. f \in Surjection(S, T)
    BY <2>1, <2>2 DEF Surjection
  <2> HIDE DEF f
  <2>6. Cardinality(S) = Cardinality(T)
    BY <2>3, <2>4, <2>5, FS_Injection
  <2> QED
    BY <2>6 DEF S, T
<1>8. <<e, i>> \in PC <=> history[e][i] \in El
  BY <1>1, <1>2 DEF El, Eligible
<1>9. Row(<<e, i>>) = history[e][i]
  BY DEF Row
<1>10. <<e, i>> \in ToDelete(cutoff, maxRows)
          <=> <<e, i>> \in PC /\ Cardinality(Before(<<e, i>>)) < maxRows
  BY DEF ToDelete, PC
<1>11. history[e][i] \in Doomed(cutoff, maxRows)
          <=> history[e][i] \in El /\ Cardinality(RowsBefore(history[e][i])) < maxRows
  BY DEF Doomed, El
<1> HIDE DEF Before, RowsBefore
<1> QED
  BY <1>7, <1>8, <1>9, <1>10, <1>11

-----------------------------------------------------------------------------
(* The invariant                                                            *)

LEMMA InitIInv == Init => IInv
<1> SUFFICES ASSUME Init
             PROVE  IInv
  OBVIOUS
<1>1. TypeOK
  BY MirrorAssumption DEF Init, TypeOK, ToSet, IsInjective
<1>2. Keyed /\ Timed
  BY FS_EmptySet DEF Init, Keyed, Timed
<1>3. Corresponding /\ InOrder
  BY DEF Init, Corresponding, InOrder, Ascending, RowsOf, ToSet
<1> QED
  BY <1>1, <1>2, <1>3 DEF IInv, Init

(* Both stores suppress the same observations, so a snapshot is written to both  *)
(* or to neither.                                                            *)
LEMMA RecordStep ==
    ASSUME IInv, NEW input \in Snapshots, input.observedAt > last, recordSnapshot(input)
    PROVE  IInv'
<1> DEFINE e == input.entityId
<1>0. e \in Entities
  BY DEF Snapshots
<1>1. /\ latestSnapshot(e) = memLatestSnapshot(e)
      /\ history[e] \in Seq(Snapshots) /\ Ascending(history[e])
  BY <1>0, SameHistory
<1>2. last' = input.observedAt /\ last' \in Nat /\ last < last' /\ last \in Nat
  BY TimesAreNumbers DEF recordSnapshot, IInv, Timed
<1>3. calls' \in 0 .. MaxCalls
  BY MirrorAssumption DEF recordSnapshot, Call, IInv, TypeOK
<1>4. \A r \in table : r.observedAt \in Int /\ r.observedAt < input.observedAt
  BY <1>2, TimesAreNumbers DEF IInv, TypeOK, Timed
<1>5. CASE Suppressed(memLatestSnapshot(e), input)
  <2>1. UNCHANGED <<table, entities, history, keys, entitiesById>>
    BY <1>1, <1>5 DEF recordSnapshot, pgRecordSnapshot, memRecordSnapshot
  <2>2. TypeOK' /\ Keyed'
    BY <1>3, <2>1 DEF IInv, TypeOK, Keyed
  <2>3. \A r \in table : r.observedAt <= last'
    BY <1>2, <1>4
  <2>4. Timed'
    BY <1>2, <2>1, <2>3 DEF IInv, Timed
  <2>5. (\A d \in Entities : RowsOf(d)' = RowsOf(d)) /\ InOrder'
    BY <2>1 DEF RowsOf, IInv, InOrder, Ascending
  <2>6. Corresponding'
    BY <2>1, <2>5 DEF IInv, Corresponding
  <2> QED
    BY <2>1, <2>2, <2>4, <2>5, <2>6 DEF IInv
<1>6. CASE ~Suppressed(memLatestSnapshot(e), input)
  <2>1. /\ table' = table \cup {input}
        /\ entities' = [entities EXCEPT ![e] = Refreshed(@, input)]
        /\ history' = [history EXCEPT ![e] = Append(@, input)]
        /\ keys' = IF history[e] = <<>> THEN Append(keys, e) ELSE keys
        /\ entitiesById' = [entitiesById EXCEPT ![e] = Refreshed(@, input)]
    BY <1>1, <1>6 DEF recordSnapshot, pgRecordSnapshot, memRecordSnapshot
  <2>2. entities' = entitiesById'
    BY <2>1 DEF IInv
  <2>3. /\ history' \in [Entities -> Seq(Snapshots)]
        /\ history'[e] = Append(history[e], input)
        /\ \A d \in Entities : d # e => history'[d] = history[d]
    BY <1>0, <2>1 DEF IInv, TypeOK
  <2>4. ToSet(history[e]) = RowsOf(e)
    BY <1>0 DEF IInv, Corresponding
  <2>5. \A i \in DOMAIN history[e] : history[e][i].observedAt < input.observedAt
    BY <1>4, <2>4 DEF ToSet, RowsOf
  <2>6. /\ Ascending(history'[e])
        /\ ToSet(history'[e]) = ToSet(history[e]) \cup {input}
    BY <1>1, <2>3, <2>5, AppendInOrder
  <2>7. InOrder'
    <3> SUFFICES ASSUME NEW d \in Entities
                 PROVE  Ascending(history'[d])
      BY DEF InOrder, Ascending
    <3> QED
      BY <2>3, <2>6 DEF IInv, InOrder
  <2>8. Corresponding'
    <3> SUFFICES ASSUME NEW d \in Entities
                 PROVE  RowsOf(d)' = ToSet(history'[d])
      BY DEF Corresponding
    <3>1. RowsOf(d)' = IF d = e THEN RowsOf(d) \cup {input} ELSE RowsOf(d)
      BY <2>1 DEF RowsOf
    <3> QED
      BY <2>3, <2>4, <2>6, <3>1 DEF IInv, Corresponding
  <2>9. Timed'
    <3>1. IsFiniteSet(table')
      BY <2>1, FS_AddElement DEF IInv, Timed
    <3>2. \A r \in table' : r.observedAt <= last'
      BY <1>2, <1>4, <2>1
    <3>3. \A r, s \in table' : r.observedAt = s.observedAt => r = s
      BY <1>2, <1>4, <2>1 DEF IInv, Timed
    <3> QED
      BY <1>2, <3>1, <3>2, <3>3 DEF Timed
  <2>10. Keyed' /\ ToSet(keys)' = {d \in Entities : history'[d] # <<>>} /\ IsInjective(keys)'
    <3>1. keys \in Seq(Entities) /\ ToSet(keys) = {d \in Entities : history[d] # <<>>} /\ IsInjective(keys)
      BY DEF IInv, Keyed, TypeOK
    <3>2. history'[e] # <<>>
      BY <1>1, <2>3
    <3>3. CASE history[e] # <<>>
      BY <1>0, <2>1, <2>3, <3>1, <3>2, <3>3 DEF Keyed
    <3>4. CASE history[e] = <<>>
      <4>1. keys' = Append(keys, e)
        BY <2>1, <3>4
      <4>2. /\ DOMAIN keys = 1 .. Len(keys) /\ Len(keys) \in Nat
            /\ DOMAIN keys' = DOMAIN keys \cup {Len(keys) + 1}
            /\ Len(keys) + 1 \notin DOMAIN keys
            /\ \A i \in DOMAIN keys : keys'[i] = keys[i]
            /\ keys'[Len(keys) + 1] = e
            /\ keys' \in Seq(Entities)
        BY <1>0, <3>1, <4>1
      <4>3. ToSet(keys') = ToSet(keys) \cup {e}
        BY <4>2 DEF ToSet
      <4>4. e \notin ToSet(keys)
        BY <3>1, <3>4
      <4>5. IsInjective(keys')
        BY <3>1, <4>2, <4>4 DEF IsInjective, ToSet
      <4>6. {d \in Entities : history'[d] # <<>>} = {d \in Entities : history[d] # <<>>} \cup {e}
        BY <1>0, <2>3, <3>2
      <4> QED
        BY <3>1, <4>2, <4>3, <4>5, <4>6 DEF Keyed
    <3> QED
      BY <3>3, <3>4
  <2>11. TypeOK'
    <3>1. table' \subseteq Snapshots
      BY <2>1 DEF IInv, TypeOK
    <3> QED
      BY <1>3, <2>3, <2>10, <3>1 DEF TypeOK
  <2> QED
    BY <2>2, <2>7, <2>8, <2>9, <2>10, <2>11 DEF IInv
<1> QED
  BY <1>5, <1>6

(* A retention run deletes the same snapshots from both.                       *)
LEMMA PruneStep ==
    ASSUME IInv, NEW cutoff \in Times, NEW maxRows \in Nat, pruneSnapshots(cutoff, maxRows)
    PROVE  IInv'
<1> DEFINE left(e) == {i \in DOMAIN history[e] : <<e, i>> \notin ToDelete(cutoff, maxRows)}
           gone == Doomed(cutoff, maxRows)
<1>1. /\ table' = table \ gone
      /\ history' = [e \in Entities |-> Kept(history[e], left(e))]
      /\ keys' = Kept(keys, {i \in DOMAIN keys : left(keys[i]) # {}})
      /\ UNCHANGED <<entities, entitiesById, last>>
  BY DEF pruneSnapshots, pgPruneSnapshots, memPruneSnapshots
<1>2. \A e \in Entities : left(e) = {i \in DOMAIN history[e] : history[e][i] \notin gone}
  BY SameDeletions
<1>3. \A e \in Entities : history[e] \in Seq(Snapshots) /\ Ascending(history[e])
                         /\ RowsOf(e) = ToSet(history[e])
  BY DEF IInv, TypeOK, InOrder, Corresponding
<1>4. \A e \in Entities : left(e) \in SUBSET DOMAIN history[e]
  OBVIOUS
<1> HIDE DEF left, gone
<1>5. \A e \in Entities :
         /\ history'[e] \in Seq(Snapshots)
         /\ Ascending(history'[e])
         /\ ToSet(history'[e]) = {history[e][i] : i \in left(e)}
         /\ Len(history'[e]) = Cardinality(left(e))
  <2> TAKE e \in Entities
  <2>1. history'[e] = Kept(history[e], left(e))
    BY <1>1
  <2> QED
    BY <1>3, <1>4, <2>1, KeptEntries, KeptInOrder
<1>6. InOrder'
  BY <1>5 DEF InOrder, Ascending
<1>7. Corresponding'
  <2> SUFFICES ASSUME NEW e \in Entities
               PROVE  RowsOf(e)' = ToSet(history'[e])
    BY DEF Corresponding
  <2>1. RowsOf(e)' = RowsOf(e) \ gone
    BY <1>1 DEF RowsOf
  <2>2. ToSet(history[e]) \ gone = {history[e][i] : i \in left(e)}
    BY <1>2 DEF ToSet
  <2> QED
    BY <1>3, <1>5, <2>1, <2>2
<1>8. Timed'
  <2>1. table' \subseteq table
    BY <1>1
  <2>2. IsFiniteSet(table')
    BY <2>1, FS_Subset DEF IInv, Timed
  <2> QED
    BY <1>1, <2>1, <2>2 DEF IInv, Timed
<1>9. \A e \in Entities : history'[e] = <<>> <=> left(e) = {}
  <2> TAKE e \in Entities
  <2>1. IsFiniteSet(left(e))
    <3>1. DOMAIN history[e] = 1 .. Len(history[e]) /\ Len(history[e]) \in Nat
      BY <1>3
    <3> QED
      BY <1>4, <3>1, NthPosition
  <2>2. Cardinality(left(e)) = 0 <=> left(e) = {}
    BY <2>1, FS_EmptySet
  <2>3. Len(history'[e]) = 0 <=> history'[e] = <<>>
    BY <1>5
  <2> QED
    BY <1>5, <2>2, <2>3
<1>10. /\ keys' \in Seq(Entities)
       /\ ToSet(keys') = {e \in Entities : history'[e] # <<>>}
       /\ IsInjective(keys')
  <2> DEFINE P == {i \in DOMAIN keys : left(keys[i]) # {}}
             N == Cardinality(P)
  <2>1. keys \in Seq(Entities) /\ IsInjective(keys)
        /\ ToSet(keys) = {e \in Entities : history[e] # <<>>}
    BY DEF IInv, Keyed, TypeOK
  <2>2. P \in SUBSET DOMAIN keys /\ keys' = Kept(keys, P)
    BY <1>1
  <2>3. \A e \in Entities : left(e) # {} => e \in ToSet(keys)
    <3> SUFFICES ASSUME NEW e \in Entities, left(e) # {}
                 PROVE  history[e] # <<>>
      BY <2>1
    <3>1. DOMAIN history[e] # {}
      BY <1>4
    <3> QED
      BY <3>1
  <2>4. {keys[i] : i \in P} = {e \in Entities : left(e) # {}}
    <3>1. \A i \in DOMAIN keys : keys[i] \in Entities
      BY <2>1
    <3>2. \A e \in ToSet(keys) : \E i \in DOMAIN keys : keys[i] = e
      BY DEF ToSet
    <3>3. ASSUME NEW e \in Entities, left(e) # {}
          PROVE  \E i \in P : keys[i] = e
      BY <2>3, <3>2, <3>3
    <3> QED
      BY <3>1, <3>3
  <2> HIDE DEF P
  <2>5. keys' \in Seq(Entities) /\ ToSet(keys') = {keys[i] : i \in P} /\ Len(keys') = N
    BY <2>1, <2>2, KeptEntries
  <2>6. PICK at \in [1 .. N -> P] :
           /\ \A k \in 1 .. N : keys'[k] = keys[at[k]]
           /\ \A k, l \in 1 .. N : k < l => at[k] < at[l]
    BY <2>1, <2>2, KeptEntries
  <2>7. DOMAIN keys' = 1 .. N
    BY <2>5
  <2> HIDE DEF N
  <2>8. ASSUME NEW k \in 1 .. N, NEW l \in 1 .. N, keys'[k] = keys'[l]
        PROVE  k = l
    <3>1. at[k] = at[l]
      BY <2>1, <2>2, <2>6, <2>8 DEF IsInjective
    <3>2. at[k] \in Int /\ at[l] \in Int
      BY <2>1, <2>2, <2>6
    <3>3. k < l \/ k = l \/ l < k
      OBVIOUS
    <3> QED
      BY <2>6, <3>1, <3>2, <3>3
  <2>9. IsInjective(keys')
    BY <2>7, <2>8 DEF IsInjective
  <2> QED
    BY <1>9, <2>4, <2>5, <2>9
<1>11. TypeOK' /\ Keyed'
  <2>1. table' \subseteq Snapshots /\ calls' \in 0 .. MaxCalls
    BY <1>1, MirrorAssumption DEF IInv, TypeOK, pruneSnapshots, Call
  <2>2. history' \in [Entities -> Seq(Snapshots)]
    <3>1. history' = [e \in Entities |-> history'[e]]
      BY <1>1
    <3> QED
      BY <1>5, <3>1
  <2> QED
    BY <1>10, <2>1, <2>2 DEF TypeOK, Keyed
<1> QED
  BY <1>1, <1>6, <1>7, <1>8, <1>11 DEF IInv

LEMMA Invariance == Spec => []IInv
<1>1. IInv /\ [Next]_vars => IInv'
  <2> SUFFICES ASSUME IInv, [Next]_vars
               PROVE  IInv'
    OBVIOUS
  <2>1. CASE \E input \in Snapshots : input.observedAt > last /\ recordSnapshot(input)
    BY <2>1, RecordStep
  <2>2. CASE Prune
    <3>1. PICK cutoff \in Times, maxRows \in 1 .. 2 : pruneSnapshots(cutoff, maxRows)
      BY <2>2 DEF Prune
    <3> QED
      BY <3>1, PruneStep
  <2>3. CASE UNCHANGED vars
    BY <2>3 DEF vars, IInv, TypeOK, Keyed, Timed, Corresponding, RowsOf, InOrder
  <2> QED
    BY <2>1, <2>2, <2>3 DEF Next
<1> QED
  BY InitIInv, <1>1, PTL DEF Spec

-----------------------------------------------------------------------------
(* Usernames                                                                *)

(* While no more rows have a name than Postgres looks at, it looks at them all.   *)
LEMMA AllAreCandidates ==
    ASSUME IInv, NEW name, Cardinality(Showing(name)) <= MaxCandidates
    PROVE  CandidateRows(name) = Showing(name)
<1> DEFINE S == Showing(name)
           Later(row) == {r \in S : r.observedAt > row.observedAt}
<1>1. IsFiniteSet(S) /\ Cardinality(S) \in Nat
  BY FS_Subset, FS_CardinalityType DEF IInv, Timed, Showing
<1>2. \A row \in S : row.observedAt \in Int
  BY TimesAreNumbers DEF IInv, TypeOK, Showing
<1>3. ASSUME NEW row \in S
      PROVE  Cardinality(Later(row)) < Cardinality(S)
  <2>1. row \notin Later(row) /\ Later(row) \in SUBSET S
    BY <1>2
  <2> HIDE DEF S, Later
  <2>2. /\ Cardinality(Later(row)) \in Nat
        /\ Cardinality(Later(row)) <= Cardinality(S)
        /\ Cardinality(Later(row)) # Cardinality(S)
    BY <1>1, <1>3, <2>1, FS_Subset, FS_CardinalityType
  <2> QED
    BY <1>1, <2>2
<1>4. \A row \in S : Cardinality(Later(row)) < MaxCandidates
  <2> TAKE row \in S
  <2>1. IsFiniteSet(Later(row))
    BY <1>1, FS_Subset
  <2>2. Cardinality(Later(row)) \in Nat
    BY <2>1, FS_CardinalityType
  <2> HIDE DEF S, Later
  <2> QED
    BY <1>1, <1>3, <2>2, MirrorAssumption DEF S
<1> QED
  BY <1>4 DEF CandidateRows

(* A name that at most one entity shows, on no more rows than Postgres looks at,   *)
(* leads both stores to that entity's row.                                    *)
LEMMA SameHolder ==
    ASSUME IInv, NEW name,
           Cardinality(Showing(name)) <= MaxCandidates,
           \A d, e \in ToSet(keys) :
              memLatestSnapshot(d).username = name /\ memLatestSnapshot(e).username = name => d = e
    PROVE  findEntityByUsername(name) = memFindEntityByUsername(name)
<1> DEFINE rows == {row \in CandidateRows(name) : latestSnapshot(row.entityId).username = name}
           positions == {i \in DOMAIN keys : memLatestSnapshot(keys[i]).username = name}
<1>1. CandidateRows(name) = Showing(name)
  BY AllAreCandidates
<1>2. ToSet(keys) = {e \in Entities : history[e] # <<>>} /\ IsInjective(keys)
  BY DEF IInv, TypeOK
<1>3. \A e \in Entities : RowsOf(e) = ToSet(history[e]) /\ latestSnapshot(e) = memLatestSnapshot(e)
  BY SameHistory DEF IInv, Corresponding
<1>4. ASSUME NEW row \in rows
      PROVE  row.entityId \in ToSet(keys) /\ memLatestSnapshot(row.entityId).username = name
             /\ row \in RowsOf(row.entityId)
  <2>1. row \in table /\ row.entityId \in Entities
    BY <1>1 DEF Showing, IInv, TypeOK, Snapshots
  <2>2. row \in ToSet(history[row.entityId])
    BY <1>3, <2>1 DEF RowsOf
  <2>3. history[row.entityId] # <<>>
    BY <2>2 DEF ToSet
  <2> QED
    BY <1>2, <1>3, <2>1, <2>3 DEF RowsOf
<1>5. ASSUME NEW e \in ToSet(keys), memLatestSnapshot(e).username = name
      PROVE  /\ memLatestSnapshot(e) \in rows
             /\ memLatestSnapshot(e).entityId = e
             /\ \A row \in rows : row.entityId = e
                                 /\ row.observedAt <= memLatestSnapshot(e).observedAt
  <2>1. e \in Entities /\ history[e] # <<>>
    BY <1>2
  <2>2. /\ memLatestSnapshot(e) \in RowsOf(e)
        /\ \A row \in RowsOf(e) : row.observedAt <= memLatestSnapshot(e).observedAt
    BY <2>1, Latest
  <2>3. memLatestSnapshot(e).entityId = e /\ memLatestSnapshot(e) \in table
    BY <2>2 DEF RowsOf
  <2>4. memLatestSnapshot(e) \in rows
    BY <1>1, <1>3, <1>5, <2>1, <2>3 DEF Showing
  <2> HIDE DEF rows
  <2>5. \A row \in rows : row.entityId = e
    BY <1>4, <1>5
  <2> QED
    BY <1>4, <2>2, <2>3, <2>4, <2>5
<1>6. \A e \in ToSet(keys) : \E i \in DOMAIN keys : keys[i] = e
  BY DEF ToSet
<1>7. \A i \in DOMAIN keys : keys[i] \in ToSet(keys)
  BY DEF ToSet
<1>8. CASE positions = {}
  <2>1. rows = {}
    <3> SUFFICES ASSUME NEW row \in rows
                 PROVE  FALSE
      OBVIOUS
    <3>1. row.entityId \in ToSet(keys) /\ memLatestSnapshot(row.entityId).username = name
      BY <1>4
    <3> HIDE DEF rows
    <3> QED
      BY <1>6, <1>8, <3>1
  <2> QED
    BY <1>8, <2>1 DEF findEntityByUsername, memFindEntityByUsername
<1>9. CASE positions # {}
  <2>1. PICK i \in DOMAIN keys : memLatestSnapshot(keys[i]).username = name
    BY <1>9
  <2>2. PICK e \in ToSet(keys) : e = keys[i]
    BY <1>7
  <2>3. positions = {i}
    BY <1>2, <1>7, <2>1 DEF IsInjective
  <2>4. Min(positions) = i
    <3>1. i \in Int
      BY DEF IInv, Keyed
    <3> HIDE DEF positions
    <3> QED
      BY <2>3, <3>1 DEF Min
  <2>5. memLatestSnapshot(e).username = name
    BY <2>1, <2>2
  <2>6. /\ rows # {}
        /\ \E row \in rows : \A r \in rows : r.observedAt <= row.observedAt
        /\ \A row \in rows : row.entityId = e
    <3> HIDE DEF rows
    <3> QED
      BY <1>5, <2>5
  <2>7. findEntityByUsername(name) = entities[e]
    <3> DEFINE newest == CHOOSE row \in rows : \A r \in rows : r.observedAt <= row.observedAt
    <3>1. findEntityByUsername(name) = IF rows = {} THEN Null ELSE entities[newest.entityId]
      BY DEF findEntityByUsername
    <3> HIDE DEF rows
    <3>2. newest \in rows
      BY <2>6
    <3> HIDE DEF newest
    <3> QED
      BY <2>6, <3>1, <3>2
  <2>8. memFindEntityByUsername(name) = entitiesById[e]
    <3>1. memFindEntityByUsername(name) =
             IF positions = {} THEN Null ELSE entitiesById[keys[Min(positions)]]
      BY DEF memFindEntityByUsername
    <3> HIDE DEF positions
    <3> QED
      BY <1>9, <2>2, <2>4, <3>1
  <2> QED
    BY <2>7, <2>8 DEF IInv
<1> QED
  BY <1>8, <1>9

(* Whatever is recorded and pruned, the in-memory store gives the answers Postgres *)
(* gives: the latest snapshot, the recent ones, the entity row, the username       *)
(* history, and the holder of a name that no two entities show at once.           *)
THEOREM StoresAgree == Spec => []SameAnswers
<1>1. IInv => SameAnswers
  <2> SUFFICES ASSUME IInv
               PROVE  SameAnswers
    OBVIOUS
  <2>1. \A e \in Entities : pgHistory(e) = history[e]
    BY SameHistory
  <2>2. entities = entitiesById
    BY DEF IInv
  <2> QED
    BY <2>1, <2>2, SameHolder DEF SameAnswers
<1> QED
  BY Invariance, <1>1, PTL

(* The username history an entity's snapshots yield reads newest first, without   *)
(* overlaps, and only its newest binding may still be open.                      *)
LEMMA BindingsAreATimeline ==
    ASSUME NEW h \in Seq(Snapshots), Ascending(h),
           NEW i \in DOMAIN usernameHistory(h)
    PROVE  LET bindings == usernameHistory(h)
           IN  /\ bindings[i].boundTo = 0 => i = 1
               /\ bindings[i].boundTo # 0 => bindings[i].boundFrom < bindings[i].boundTo
               /\ i > 1 => bindings[i].boundTo <= bindings[i - 1].boundFrom
<1> DEFINE n == Cardinality(Starts(h))
           at(k) == Nth(Starts(h), n + 1 - k)
           later(p) == {j \in Changes(h) : j > p}
<1>0. DOMAIN h = 1 .. Len(h) /\ Len(h) \in Nat
  OBVIOUS
<1>1. Starts(h) \in SUBSET (1 .. Len(h)) /\ Changes(h) \in SUBSET (1 .. Len(h))
      /\ Starts(h) \subseteq Changes(h)
  BY <1>0 DEF Starts, Changes
<1>2. /\ n \in Nat
      /\ \A k \in 1 .. n : Nth(Starts(h), k) \in Starts(h)
      /\ \A k, l \in 1 .. n : k < l => Nth(Starts(h), k) < Nth(Starts(h), l)
  BY <1>0, <1>1, NthPosition
<1>3. usernameHistory(h) = [k \in 1 .. n |-> Binding(h, at(k))]
  BY DEF usernameHistory
<1> HIDE DEF n
<1>4. i \in 1 .. n /\ n + 1 - i \in 1 .. n
  BY <1>2, <1>3
<1>5. PICK p \in Starts(h) : p = at(i)
  BY <1>2, <1>4
<1>6. usernameHistory(h)[i] = Binding(h, p)
  BY <1>3, <1>4, <1>5
<1>7. /\ Binding(h, p).boundFrom = h[p].observedAt
      /\ Binding(h, p).boundTo = IF later(p) = {} THEN 0 ELSE h[Min(later(p))].observedAt
  BY DEF Binding
<1>8. \A j \in DOMAIN h : h[j].observedAt \in Nat \ {0}
  <2>1. \A j \in DOMAIN h : h[j] \in Snapshots
    OBVIOUS
  <2> QED
    BY <2>1, TimesAreNumbers
<1>9. ASSUME later(p) # {}
      PROVE  /\ Min(later(p)) \in DOMAIN h
             /\ p < Min(later(p))
             /\ \A j \in later(p) : Min(later(p)) <= j
  <2>1. later(p) \in SUBSET (1 .. Len(h))
    BY <1>1
  <2>2. Min(later(p)) \in later(p) /\ \A j \in later(p) : Min(later(p)) <= j
    <3> HIDE DEF later
    <3> QED
      BY <1>0, <1>9, <2>1, FirstPosition
  <2> QED
    BY <1>0, <2>1, <2>2
<1>10. p \in DOMAIN h
  BY <1>0, <1>1
<1>11. ASSUME i > 1
       PROVE  \E q \in Starts(h) :
                 /\ usernameHistory(h)[i - 1].boundFrom = h[q].observedAt
                 /\ q \in later(p) /\ q \in DOMAIN h
  <2>1. i - 1 \in 1 .. n /\ n + 1 - (i - 1) \in 1 .. n /\ n + 1 - i < n + 1 - (i - 1)
    BY <1>2, <1>4, <1>11
  <2>2. PICK q \in Starts(h) : q = at(i - 1)
    BY <1>2, <2>1
  <2>3. p < q
    BY <1>2, <1>4, <1>5, <2>1, <2>2
  <2>4. usernameHistory(h)[i - 1].boundFrom = h[q].observedAt
    BY <1>3, <2>1, <2>2 DEF Binding
  <2>5. q \in later(p) /\ q \in DOMAIN h
    BY <1>0, <1>1, <2>3
  <2> QED
    BY <2>4, <2>5
<1> HIDE DEF later, at
<1>12. later(p) # {} => h[p].observedAt < h[Min(later(p))].observedAt
                       /\ h[Min(later(p))].observedAt # 0
  BY <1>8, <1>9, <1>10 DEF Ascending
<1>13. ASSUME i > 1
       PROVE  /\ later(p) # {}
              /\ h[Min(later(p))].observedAt <= usernameHistory(h)[i - 1].boundFrom
  <2>1. PICK q \in Starts(h) : /\ usernameHistory(h)[i - 1].boundFrom = h[q].observedAt
                               /\ q \in later(p) /\ q \in DOMAIN h
    BY <1>11, <1>13
  <2>2. later(p) # {} /\ Min(later(p)) \in DOMAIN h /\ Min(later(p)) <= q
    BY <1>9, <2>1
  <2>3. h[Min(later(p))].observedAt <= h[q].observedAt
    BY <2>1, <2>2, InTimeOrder
  <2> QED
    BY <2>1, <2>2, <2>3
<1>14. i = 1 \/ i > 1
  BY <1>2, <1>4
<1> QED
  BY <1>6, <1>7, <1>12, <1>13, <1>14

THEOREM HistoriesAreTimelines == Spec => []HistoryIsATimeline
<1>1. IInv => HistoryIsATimeline
  <2> SUFFICES ASSUME IInv, NEW e \in Entities
               PROVE  LET bindings == usernameHistory(history[e])
                      IN  \A i \in DOMAIN bindings :
                             /\ bindings[i].boundTo = 0 => i = 1
                             /\ bindings[i].boundTo # 0 => bindings[i].boundFrom < bindings[i].boundTo
                             /\ i > 1 => bindings[i].boundTo <= bindings[i - 1].boundFrom
    BY DEF HistoryIsATimeline
  <2>1. history[e] \in Seq(Snapshots) /\ Ascending(history[e])
    BY SameHistory
  <2> QED
    BY <2>1, BindingsAreATimeline
<1> QED
  BY Invariance, <1>1, PTL
=============================================================================
