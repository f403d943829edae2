-------------------------- MODULE EntityStoreMirror --------------------------
(***************************************************************************)
(* The in-memory and the Postgres entity store side by side, given the same *)
(* calls one after another.  The in-memory store "mirrors the Postgres      *)
(* impl's semantics": the tests of everything above the store, and local    *)
(* runs, see the first, production the second.                             *)
(*                                                                         *)
(* Postgres keeps rows and orders them by observed_at when it is asked; the *)
(* in-memory store keeps an array per entity in the order of the calls, in  *)
(* a Map that iterates in the order its keys were first set.               *)
(***************************************************************************)
EXTENDS Positions, SequencesExt, FiniteSetsExt

CONSTANTS Entities,       \* numeric Telegram ids
          Usernames,      \* the usernames entities may show
          NoName,         \* username null
          EntityKinds,
          Cooldown,       \* cooldownMs of every call
          MaxCandidates,  \* rows findEntityByUsername looks at: 50
          MaxTime,        \* bound: latest observedAt
          MaxCalls        \* bound: calls made

ASSUME MirrorAssumption ==
    /\ Cooldown \in Nat
    /\ MaxCandidates \in Nat \ {0}
    /\ MaxTime \in Nat
    /\ MaxCalls \in Nat
    /\ NoName \notin Usernames

VARIABLES table,        \* Postgres: telegram_entity_snapshots
          entities,     \* Postgres: telegram_entities, by id
          history,      \* memory: snapshotsByEntity
          keys,         \* memory: its keys, in iteration order
          entitiesById, \* memory
          calls,        \* calls made so far
          last          \* the observedAt of the last recordSnapshot

vars == <<table, entities, history, keys, entitiesById, calls, last>>

Times == 1 .. MaxTime

Null == [id |-> 0]

Snapshots == [entityId : Entities, username : Usernames \cup {NoName}, kind : EntityKinds,
              observedAt : Times]

(* ORDER BY observed_at *)
ByTime(rows) ==
    [k \in 1 .. Cardinality(rows) |->
        CHOOSE row \in rows : Cardinality({r \in rows : r.observedAt <= row.observedAt}) = k]

-----------------------------------------------------------------------------
(* Queries. *)
RowsOf(e) == {row \in table : row.entityId = e}

pgHistory(e) == ByTime(RowsOf(e))

LastOrNull(rows) == IF rows = <<>> THEN Null ELSE rows[Len(rows)]

latestSnapshot(e) == LastOrNull(pgHistory(e))
memLatestSnapshot(e) == LastOrNull(history[e])

(* Postgres: some rows with the name, newest first; the first whose entity still *)
(* shows it.                                                                 *)
Showing(name) == {row \in table : row.username = name}

CandidateRows(name) ==
    {row \in Showing(name) :
        Cardinality({r \in Showing(name) : r.observedAt > row.observedAt}) < MaxCandidates}

findEntityByUsername(name) ==
    LET current == {row \in CandidateRows(name) : latestSnapshot(row.entityId).username = name}
        newest == CHOOSE row \in current : \A r \in current : r.observedAt <= row.observedAt
    IN  IF current = {} THEN Null ELSE entities[newest.entityId]

(* Memory: the first entity, in the Map's order, whose latest snapshot shows it. *)
memFindEntityByUsername(name) ==
    LET current == {i \in DOMAIN keys : memLatestSnapshot(keys[i]).username = name}
    IN  IF current = {} THEN Null ELSE entitiesById[keys[Min(current)]]

(* Where the username changes, from none before the first row, and where a binding  *)
(* begins: a change to none ends a binding and is not reported itself.          *)
NameAt(rows, i) == IF i = 0 THEN NoName ELSE rows[i].username

Changes(rows) == {i \in DOMAIN rows : NameAt(rows, i) # NameAt(rows, i - 1)}

Starts(rows) == {i \in Changes(rows) : NameAt(rows, i) # NoName}

Binding(rows, i) ==
    LET later == {j \in Changes(rows) : j > i}
    IN  [username |-> rows[i].username, boundFrom |-> rows[i].observedAt,
         boundTo |-> IF later = {} THEN 0 ELSE rows[Min(later)].observedAt]

(* Mutant: the bindings in the order they were found. *)
usernameHistoryOldestFirst(rows) ==
    [k \in 1 .. Cardinality(Starts(rows)) |-> Binding(rows, Nth(Starts(rows), k))]

(* The bindings, newest first.                                                *)
usernameHistory(rows) ==
    LET n == Cardinality(Starts(rows))
    IN  [k \in 1 .. n |-> Binding(rows, Nth(Starts(rows), n + 1 - k))]

-----------------------------------------------------------------------------
Init ==
    /\ table = {}
    /\ entities = [e \in Entities |-> Null]
    /\ history = [e \in Entities |-> <<>>]
    /\ keys = <<>>
    /\ entitiesById = [e \in Entities |-> Null]
    /\ calls = 0
    /\ last = 0

observableAttributesEqual(a, b) == a.username = b.username /\ a.kind = b.kind

Suppressed(previous, input) ==
    /\ previous # Null
    /\ Cooldown > 0
    /\ input.observedAt - previous.observedAt < Cooldown
    /\ observableAttributesEqual(previous, input)

Refreshed(row, input) ==
    IF row = Null
    THEN [id |-> input.entityId, kind |-> input.kind, firstSeenAt |-> input.observedAt,
          lastSeenAt |-> input.observedAt]
    ELSE [row EXCEPT !.kind = IF input.kind = "unknown" THEN @ ELSE input.kind,
                     !.lastSeenAt = IF input.observedAt > @ THEN input.observedAt ELSE @]

pgRecordSnapshot(input) ==
    IF Suppressed(latestSnapshot(input.entityId), input)
    THEN UNCHANGED <<table, entities>>
    ELSE /\ table' = table \cup {input}
         /\ entities' = [entities EXCEPT ![input.entityId] = Refreshed(@, input)]

(* Mutant: the entity is set anew with every snapshot. *)
memRecordAndReset(input) ==
    IF Suppressed(memLatestSnapshot(input.entityId), input)
    THEN UNCHANGED <<history, keys, entitiesById>>
    ELSE /\ history' = [history EXCEPT ![input.entityId] = Append(@, input)]
         /\ keys' = IF history[input.entityId] = <<>> THEN Append(keys, input.entityId) ELSE keys
         /\ entitiesById' = [entitiesById EXCEPT ![input.entityId] = Refreshed(Null, input)]

memRecordSnapshot(input) ==
    IF Suppressed(memLatestSnapshot(input.entityId), input)
    THEN UNCHANGED <<history, keys, entitiesById>>
    ELSE /\ history' = [history EXCEPT ![input.entityId] = Append(@, input)]
         /\ keys' = IF history[input.entityId] = <<>> THEN Append(keys, input.entityId) ELSE keys
         /\ entitiesById' = [entitiesById EXCEPT ![input.entityId] = Refreshed(@, input)]

Call == calls < MaxCalls /\ calls' = calls + 1

recordSnapshot(input) ==
    /\ Call
    /\ pgRecordSnapshot(input)
    /\ memRecordSnapshot(input)
    /\ last' = input.observedAt

(* Postgres: the oldest maxRows eligible rows.                                 *)
Eligible(cutoff) == {row \in table : row.observedAt < cutoff}

Doomed(cutoff, maxRows) ==
    {row \in Eligible(cutoff) :
        Cardinality({r \in Eligible(cutoff) : r.observedAt < row.observedAt}) < maxRows}

pgPruneSnapshots(cutoff, maxRows) == table' = table \ Doomed(cutoff, maxRows)

(* Memory: candidates of every entity by time; an entity whose history empties     *)
(* leaves the Map.                                                           *)
ObservedAt(c) == history[c[1]][c[2]].observedAt

PruneCandidates(cutoff) ==
    UNION {{<<e, i>> : i \in {j \in DOMAIN history[e] : history[e][j].observedAt < cutoff}} :
              e \in Entities}

ToDelete(cutoff, maxRows) ==
    {c \in PruneCandidates(cutoff) :
        Cardinality({d \in PruneCandidates(cutoff) : ObservedAt(d) < ObservedAt(c)}) < maxRows}

memPruneSnapshots(cutoff, maxRows) ==
    LET left(e) == {i \in DOMAIN history[e] : <<e, i>> \notin ToDelete(cutoff, maxRows)}
    IN  /\ history' = [e \in Entities |-> Kept(history[e], left(e))]
        /\ keys' = Kept(keys, {i \in DOMAIN keys : left(keys[i]) # {}})

pruneSnapshots(cutoff, maxRows) ==
    /\ Call
    /\ pgPruneSnapshots(cutoff, maxRows)
    /\ memPruneSnapshots(cutoff, maxRows)
    /\ UNCHANGED <<entities, entitiesById, last>>

Prune == \E cutoff \in Times, maxRows \in 1 .. 2 : pruneSnapshots(cutoff, maxRows)

(* One caller, whose clock moves on between calls.                              *)
Next ==
    \/ \E input \in Snapshots : input.observedAt > last /\ recordSnapshot(input)
    \/ Prune

Spec == Init /\ [][Next]_vars

-----------------------------------------------------------------------------
(* Every variable keeps its type.                                             *)
TypeOK ==
    /\ table \subseteq Snapshots
    /\ history \in [Entities -> Seq(Snapshots)]
    /\ ToSet(keys) = {e \in Entities : history[e] # <<>>} /\ IsInjective(keys)
    /\ calls \in 0 .. MaxCalls

(* Both stores answer alike about every entity: its latest snapshot, its recent  *)
(* snapshots, its row and its username history ("Mirrors the Postgres impl's    *)
(* semantics"), and about every username that no two entities show at once and    *)
(* that no more rows have than Postgres looks at.                             *)
SameAnswers ==
    /\ \A e \in Entities :
          /\ pgHistory(e) = history[e]
          /\ entities[e] = entitiesById[e]
          /\ usernameHistory(pgHistory(e)) = usernameHistory(history[e])
    /\ \A name \in Usernames :
          /\ Cardinality(Showing(name)) <= MaxCandidates
          /\ \A d, e \in ToSet(keys) :
                memLatestSnapshot(d).username = name /\ memLatestSnapshot(e).username = name => d = e
          => findEntityByUsername(name) = memFindEntityByUsername(name)

(* A username history reads newest first, without overlaps: each binding starts  *)
(* no earlier than the one before it ended, and only the newest is still open.   *)
HistoryIsATimeline ==
    \A e \in Entities :
        LET bindings == usernameHistory(history[e])
        IN  \A i \in DOMAIN bindings :
               /\ bindings[i].boundTo = 0 => i = 1
               /\ bindings[i].boundTo # 0 => bindings[i].boundFrom < bindings[i].boundTo
               /\ i > 1 => bindings[i].boundTo <= bindings[i - 1].boundFrom
=============================================================================
