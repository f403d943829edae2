----------------------------- MODULE EntityStore -----------------------------
(***************************************************************************)
(* The Postgres store of Telegram entity snapshots, as its writers use it:  *)
(* scans (API and bot) and the bot's sender observation call recordSnapshot *)
(* concurrently, and the worker's retention loop calls pruneSnapshots.      *)
(*                                                                         *)
(* An observer stamps observedAt, then waits: the scan for Telegram to      *)
(* answer, both for a connection and for the entity's advisory lock.  Its   *)
(* transaction reads the two latest rows and either returns (cooldown) or   *)
(* upserts the entity and inserts a row; what it wrote is visible to others *)
(* when it commits.  The lock is released at commit or abort.               *)
(***************************************************************************)
EXTENDS Integers, FiniteSets, FiniteSetsExt

CONSTANTS Entities,    \* numeric Telegram ids
          Observers,   \* concurrent callers of recordSnapshot
          Contents,    \* observable attributes, entityKind apart
          EntityKinds, \* "unknown" and the kinds it may be refined to
          Cooldowns,   \* cooldownMs of the callers
          Retention,   \* retentionMs
          MaxRows,     \* maxRowsPerRun
          MaxTime,     \* bound: the clock stops here
          MaxId        \* bound: rows ever inserted

ASSUME EntityStoreAssumption ==
    /\ Cooldowns \subseteq Nat
    /\ Retention \in Nat
    /\ MaxRows \in Nat \ {0}
    /\ MaxTime \in Nat
    /\ MaxId \in Nat

VARIABLES now,        \* the processes' clocks, which agree
          entities,   \* telegram_entities: a set of rows, id is the key
          snapshots,  \* telegram_entity_snapshots
          nextId,     \* the bigserial
          pc,         \* where each observer is
          asked,      \* the observation it is recording
          read,       \* the latest rows its transaction read, newest first
          result      \* what recordSnapshot last returned to it

vars == <<now, entities, snapshots, nextId, pc, asked, read, result>>

Times == 0 .. MaxTime

Observations == [entityId : Entities, content : Contents, kind : EntityKinds,
                 observedAt : Times, cooldown : Cooldowns]

NoRow == [id |-> 0]

-----------------------------------------------------------------------------
(* The rows of an entity, and those ORDER BY observed_at DESC may put first.   *)
Rows(e) == {row \in snapshots : row.entityId = e}

Newest(rows) == {row \in rows : \A other \in rows : other.observedAt <= row.observedAt}

observableAttributesEqual(row, in) == row.content = in.content /\ row.kind = in.kind

(* previous is recent and says the same: nothing is to be recorded.           *)
Suppressed(previous, in) ==
    /\ previous # NoRow
    /\ in.cooldown > 0
    /\ in.observedAt - previous.observedAt < in.cooldown
    /\ observableAttributesEqual(previous, in)

-----------------------------------------------------------------------------
Init ==
    /\ now = 0
    /\ entities = {}
    /\ snapshots = {}
    /\ nextId = 1
    /\ pc = [o \in Observers |-> "idle"]
    /\ asked = [o \in Observers |-> NoRow]
    /\ read = [o \in Observers |-> <<NoRow, NoRow>>]
    /\ result = [o \in Observers |-> NoRow]

Tick ==
    /\ now < MaxTime
    /\ now' = now + 1
    /\ UNCHANGED <<entities, snapshots, nextId, pc, asked, read, result>>

(* observeMessageSender, or scanTelegramEntity: observedAt is the clock at     *)
(* entry; the content arrives later, from Telegram.                          *)
Observe(o) ==
    /\ pc[o] = "idle"
    /\ \E in \in Observations :
          /\ in.observedAt = now
          /\ asked' = [asked EXCEPT ![o] = in]
    /\ pc' = [pc EXCEPT ![o] = "begin"]
    /\ result' = [result EXCEPT ![o] = NoRow]
    /\ UNCHANGED <<now, entities, snapshots, nextId, read>>

(* The call returns: its variables are gone.                                  *)
Return(o) ==
    /\ pc' = [pc EXCEPT ![o] = "idle"]
    /\ asked' = [asked EXCEPT ![o] = NoRow]
    /\ read' = [read EXCEPT ![o] = <<NoRow, NoRow>>]

Holds(o, e) == pc[o] \in {"locked", "decide"} /\ asked[o].entityId = e

(* Mutant: the transaction takes no lock. *)
BeginWithoutLock(o) ==
    /\ pc[o] = "begin"
    /\ pc' = [pc EXCEPT ![o] = "locked"]
    /\ UNCHANGED <<now, entities, snapshots, nextId, asked, read, result>>

(* select pg_advisory_xact_lock(entityId) *)
AcquireLock(o) ==
    /\ pc[o] = "begin"
    /\ \A other \in Observers : ~Holds(other, asked[o].entityId)
    /\ pc' = [pc EXCEPT ![o] = "locked"]
    /\ UNCHANGED <<now, entities, snapshots, nextId, asked, read, result>>

(* select ... order by observed_at desc limit 2 *)
ReadPrevious(o) ==
    /\ pc[o] = "locked"
    /\ LET rows == Rows(asked[o].entityId)
       IN  \/ /\ rows = {}
              /\ read' = [read EXCEPT ![o] = <<NoRow, NoRow>>]
           \/ \E row \in Newest(rows) :
                 \/ /\ rows = {row}
                    /\ read' = [read EXCEPT ![o] = <<row, NoRow>>]
                 \/ \E before \in Newest(rows \ {row}) :
                       read' = [read EXCEPT ![o] = <<row, before>>]
    /\ pc' = [pc EXCEPT ![o] = "decide"]
    /\ UNCHANGED <<now, entities, snapshots, nextId, asked, result>>

(* Cooldown: the transaction returns the existing row and writes nothing.      *)
Suppress(o) ==
    /\ pc[o] = "decide"
    /\ Suppressed(read[o][1], asked[o])
    /\ result' = [result EXCEPT ![o] =
                    [snapshot |-> read[o][1], previous |-> read[o][2], inserted |-> FALSE]]
    /\ Return(o)
    /\ UNCHANGED <<now, entities, snapshots, nextId>>

(* Mutant: last_seen_at without greatest(). *)
UpsertLastWriter(in) ==
    LET existing == {row \in entities : row.id = in.entityId}
    IN  IF existing = {}
        THEN entities \cup {[id |-> in.entityId, kind |-> in.kind,
                             firstSeenAt |-> in.observedAt, lastSeenAt |-> in.observedAt]}
        ELSE (entities \ existing) \cup
                {[row EXCEPT !.kind = IF in.kind = "unknown" THEN @ ELSE in.kind,
                             !.lastSeenAt = in.observedAt] : row \in existing}

(* insert into telegram_entities ... on conflict (id) do update *)
UpsertEntity(in) ==
    LET existing == {row \in entities : row.id = in.entityId}
    IN  IF existing = {}
        THEN entities \cup {[id |-> in.entityId, kind |-> in.kind,
                             firstSeenAt |-> in.observedAt, lastSeenAt |-> in.observedAt]}
        ELSE (entities \ existing) \cup
                {[row EXCEPT !.kind = IF in.kind = "unknown" THEN @ ELSE in.kind,
                             !.lastSeenAt = IF in.observedAt > @ THEN in.observedAt ELSE @]
                    : row \in existing}

(* insert into telegram_entity_snapshots, and commit *)
Insert(o) ==
    /\ pc[o] = "decide"
    /\ ~Suppressed(read[o][1], asked[o])
    /\ nextId <= MaxId
    /\ LET in == asked[o]
           row == [id |-> nextId, entityId |-> in.entityId, kind |-> in.kind,
                   content |-> in.content, observedAt |-> in.observedAt]
       IN  /\ entities' = UpsertEntity(in)
           /\ snapshots' = snapshots \cup {row}
           /\ result' = [result EXCEPT ![o] =
                           [snapshot |-> row, previous |-> read[o][1], inserted |-> TRUE]]
    /\ nextId' = nextId + 1
    /\ Return(o)
    /\ UNCHANGED now

(* A statement fails, the connection drops or the process dies: the            *)
(* transaction rolls back.                                                    *)
Abort(o) ==
    /\ pc[o] # "idle"
    /\ Return(o)
    /\ UNCHANGED <<now, entities, snapshots, nextId, result>>

(* Mutants of the pruning: a cutoff off by one, and a limit without order. *)
EligibleOffByOne(cutoff) == {row \in snapshots : row.observedAt < cutoff - 1}

PruneUnordered ==
    /\ \E doomed \in SUBSET {row \in snapshots : row.observedAt < now - Retention} :
          /\ Cardinality(doomed) = 1
          /\ snapshots' = snapshots \ doomed
    /\ UNCHANGED <<now, entities, nextId, pc, asked, read, result>>

(* One tick of the retention loop: the oldest MaxRows rows behind the cutoff   *)
(* go, whoever holds which lock.                                             *)
Eligible(cutoff) == {row \in snapshots : row.observedAt < cutoff}

PruneSnapshots ==
    /\ \E doomed \in SUBSET Eligible(now - Retention) :
          /\ Cardinality(doomed) = IF Cardinality(Eligible(now - Retention)) < MaxRows
                                   THEN Cardinality(Eligible(now - Retention)) ELSE MaxRows
          /\ \A row \in doomed, other \in Eligible(now - Retention) \ doomed :
                row.observedAt <= other.observedAt
          /\ snapshots' = snapshots \ doomed
    /\ UNCHANGED <<now, entities, nextId, pc, asked, read, result>>

Record(o) == AcquireLock(o) \/ ReadPrevious(o) \/ Suppress(o) \/ Insert(o)

Next ==
    \/ Tick
    \/ PruneSnapshots
    \/ \E o \in Observers : Observe(o) \/ Record(o) \/ Abort(o)

(* Time passes and setInterval fires; nothing forces anyone to observe.        *)
Fairness == WF_vars(Tick) /\ WF_vars(PruneSnapshots)

Spec == Init /\ [][Next]_vars /\ Fairness

-----------------------------------------------------------------------------
SnapshotRows == [id : 1 .. MaxId, entityId : Entities, kind : EntityKinds, content : Contents,
                 observedAt : Times]

EntityRows == [id : Entities, kind : EntityKinds, firstSeenAt : Times, lastSeenAt : Times]

Results == {NoRow} \cup [snapshot : SnapshotRows, previous : SnapshotRows \cup {NoRow},
                         inserted : BOOLEAN]

(* Every variable keeps its type.                                             *)
TypeOK ==
    /\ now \in Times
    /\ entities \subseteq EntityRows
    /\ snapshots \subseteq SnapshotRows
    /\ nextId \in 1 .. MaxId + 1
    /\ pc \in [Observers -> {"idle", "begin", "locked", "decide"}]
    /\ asked \in [Observers -> Observations \cup {NoRow}]
    /\ read \in [Observers -> (SnapshotRows \cup {NoRow}) \X (SnapshotRows \cup {NoRow})]
    /\ result \in [Observers -> Results]

(* Each entity has one row, whose lastSeenAt never falls behind a snapshot that *)
(* is kept of it, even when an older observation commits later.  (Its           *)
(* firstSeenAt such an observation does precede, and nothing mends it.)         *)
LastSeenCovers ==
    /\ \A a, b \in entities : a.id = b.id => a = b
    /\ \A row \in snapshots : \E entity \in entities :
          entity.id = row.entityId /\ row.observedAt <= entity.lastSeenAt

(* An entity's row is never lost, not to pruning either; its firstSeenAt never  *)
(* moves, its lastSeenAt never goes back, and a kind once known is not         *)
(* degraded to "unknown", in whatever order the observations commit.          *)
EntityRowsSurvive ==
    [][\A entity \in entities : \E after \in entities' :
          /\ after.id = entity.id
          /\ after.firstSeenAt = entity.firstSeenAt
          /\ after.lastSeenAt >= entity.lastSeenAt
          /\ entity.kind # "unknown" => after.kind # "unknown"]_vars

(* The cooldown holds across concurrent callers: no row is inserted while the   *)
(* entity's latest committed row is younger than the inserter's cooldown and   *)
(* says the same, although that row was read a statement earlier.  A row whose *)
(* retention has passed is as good as gone.                                   *)
NoDoubleInsert ==
    [][\A o \in Observers :
          LET latest == {row \in Newest(Rows(asked[o].entityId)) : row.observedAt + Retention >= now}
          IN  pc[o] = "decide" /\ result'[o] # result[o] /\ result'[o].inserted /\ latest # {}
                 => \E row \in latest : ~Suppressed(row, asked[o])]_vars

(* A retention run deletes at most MaxRows rows, only rows whose retention has  *)
(* passed, and never a younger row before an older one: of each entity what is *)
(* kept is its most recent history, without holes.                           *)
PruneIsOldestFirst ==
    [][LET gone == snapshots \ snapshots'
       IN  /\ Cardinality(gone) <= MaxRows
           /\ \A row \in gone :
                 /\ row.observedAt + Retention < now
                 /\ \A kept \in snapshots' : row.observedAt <= kept.observedAt]_vars

(* The retention policy is kept in the end: however small the cap, every row    *)
(* whose retention passes is deleted by some later run.                       *)
OldRowsGo ==
    \A id \in 1 .. MaxId :
        (\E row \in snapshots : row.id = id /\ row.observedAt + Retention < now)
            ~> (\A row \in snapshots : row.id # id)
=============================================================================
