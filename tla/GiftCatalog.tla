----------------------------- MODULE GiftCatalog -----------------------------
(***************************************************************************)
(* The gift catalog: the worker's refresh loop, which writes it, and the    *)
(* scans of the API and the bot, which look owned gifts up in it.           *)
(*                                                                         *)
(* The loop starts a tick at each interval whether or not the one before    *)
(* has ended; a tick's number is its observedAt.  It fetches the list of    *)
(* gifts, then upserts them one statement at a time in one transaction,     *)
(* which holds the lock of every row it wrote until it ends.  The fields of *)
(* a row are told by the tick whose list they were in.                      *)
(***************************************************************************)
EXTENDS Naturals, Sequences, SequencesExt

CONSTANTS Gifts,       \* the gift ids of Telegram's catalog
          Evergreen,   \* those that are always offered
          PublisherOf, \* publisher_chat of each gift, or NoPublisher
          NoPublisher,
          Scans,       \* scans of a chat's owned gifts
          Inventories, \* what getChatGifts may return: unique gifts in order
          MaxTicks     \* bound: ticks ever started

ASSUME GiftCatalogAssumption ==
    /\ IsFiniteSet(Gifts)
    /\ Evergreen \subseteq Gifts
    /\ MaxTicks \in Nat \ {0}
    /\ NoPublisher # 0
    /\ \A gifts \in Inventories : /\ gifts \in Seq(ToSet(gifts)) \ {<<>>}
                                  /\ \A owned \in ToSet(gifts) : owned.giftId \in Gifts

VARIABLES worker,    \* the worker process
          started,   \* ticks started so far: inFlight is the last one
          tick,      \* where each tick is
          list,      \* the gifts it fetched, in the order of the response
          written,   \* upserts its transaction has executed
          catalog,   \* telegram_gift_catalog, as committed
          scan,      \* where each scan is
          inventory, \* the owned gifts it has not looked up yet
          flagged    \* the owned gifts it found fault with

vars == <<worker, started, tick, list, written, catalog, scan, inventory, flagged>>

workerVars == <<worker, started, tick, list, written>>
scanVars == <<scan, inventory, flagged>>

Ticks == 1 .. MaxTicks

NoRow == [by |-> 0]

Active == {"fetching", "writing"}

Ended == {"done", "failed", "cut"}

Orders(gifts) == {s \in [1 .. Cardinality(gifts) -> gifts] : IsInjective(s)}

-----------------------------------------------------------------------------
Init ==
    /\ worker = "down"
    /\ started = 0
    /\ tick = [k \in Ticks |-> "none"]
    /\ list = [k \in Ticks |-> <<>>]
    /\ written = [k \in Ticks |-> 0]
    /\ catalog = [g \in Gifts |-> NoRow]
    /\ scan = [s \in Scans |-> "idle"]
    /\ inventory = [s \in Scans |-> <<>>]
    /\ flagged = [s \in Scans |-> {}]

(* schedule(): at the start of the loop, and whenever the interval fires.     *)
StartTick ==
    /\ started < MaxTicks
    /\ worker \in {"down", "up"}
    /\ worker' = "up"
    /\ started' = started + 1
    /\ tick' = [tick EXCEPT ![started'] = "fetching"]
    /\ UNCHANGED <<list, written, catalog, scanVars>>

(* getAvailableGifts answers; upsertMany of an empty list does nothing, and a  *)
(* pool that is closing gives out no connection.                             *)
Fetched(k) ==
    /\ tick[k] = "fetching"
    /\ \E offered \in {gifts \in SUBSET Gifts : Evergreen \subseteq gifts} :
          \E order \in Orders(offered) :
             /\ list' = [list EXCEPT ![k] = order]
             /\ tick' = [tick EXCEPT ![k] = IF order = <<>> THEN "done"
                                            ELSE IF worker = "closing" THEN "failed"
                                            ELSE "writing"]
    /\ UNCHANGED <<worker, started, written, catalog, scanVars>>

(* The Bot API is disabled, fails or times out: logged, the loop goes on.      *)
FetchFailed(k) ==
    /\ tick[k] = "fetching"
    /\ tick' = [tick EXCEPT ![k] = "failed"]
    /\ UNCHANGED <<worker, started, list, written, catalog, scanVars>>

Holds(k, g) == tick[k] = "writing" /\ g \in {list[k][i] : i \in 1 .. written[k]}

(* k's next statement waits for a row that j has written.                      *)
WaitsFor(k, j) ==
    /\ tick[k] = "writing"
    /\ written[k] < Len(list[k])
    /\ j # k
    /\ Holds(j, list[k][written[k] + 1])

(* Mutant: each statement commits by itself, as without the transaction. *)
UpsertByItself(k) ==
    /\ tick[k] = "writing"
    /\ written[k] < Len(list[k])
    /\ LET g == list[k][written[k] + 1]
       IN  catalog' = [catalog EXCEPT
               ![g] = [by |-> k, firstSeenAt |-> IF @ = NoRow THEN k ELSE @.firstSeenAt,
                       lastRefreshedAt |-> k]]
    /\ written' = [written EXCEPT ![k] = @ + 1]
    /\ UNCHANGED <<worker, started, tick, list, scanVars>>

Upsert(k) ==
    /\ tick[k] = "writing"
    /\ written[k] < Len(list[k])
    /\ ~\E j \in Ticks : WaitsFor(k, j)
    /\ written' = [written EXCEPT ![k] = @ + 1]
    /\ UNCHANGED <<worker, started, tick, list, catalog, scanVars>>

(* Mutant: last_refreshed_at is the input's. *)
UpsertedByLast(row, k) ==
    [by |-> k, firstSeenAt |-> IF row = NoRow THEN k ELSE row.firstSeenAt, lastRefreshedAt |-> k]

(* insertValues, or the SET list of the conflict: first_seen_at is left alone,  *)
(* last_refreshed_at is the greatest, everything else is the input's.         *)
Upserted(row, k) ==
    IF row = NoRow THEN [by |-> k, firstSeenAt |-> k, lastRefreshedAt |-> k]
    ELSE [by |-> k, firstSeenAt |-> row.firstSeenAt,
          lastRefreshedAt |-> IF k > row.lastRefreshedAt THEN k ELSE row.lastRefreshedAt]

Commit(k) ==
    /\ tick[k] = "writing"
    /\ written[k] = Len(list[k])
    /\ catalog' = [g \in Gifts |-> IF Holds(k, g) THEN Upserted(catalog[g], k) ELSE catalog[g]]
    /\ tick' = [tick EXCEPT ![k] = "done"]
    /\ UNCHANGED <<worker, started, list, written, scanVars>>

(* Mutant: a tick whose transaction failed starts over. *)
RollbackAndRetry(k) ==
    /\ tick' = [tick EXCEPT ![k] = "fetching"]
    /\ list' = [list EXCEPT ![k] = <<>>]
    /\ written' = [written EXCEPT ![k] = 0]
    /\ UNCHANGED <<worker, started, catalog, scanVars>>

Rollback(k) ==
    /\ tick' = [tick EXCEPT ![k] = "failed"]
    /\ UNCHANGED <<worker, started, list, written, catalog, scanVars>>

(* A statement fails: upsertMany throws, the tick logs it.                     *)
Abort(k) == tick[k] = "writing" /\ Rollback(k)

(* Transactions that wait for each other in a circle: Postgres ends one.       *)
Deadlocked(k) ==
    \E circle \in SUBSET Ticks :
        /\ k \in circle
        /\ \A a \in circle : \E b \in circle : WaitsFor(a, b)
        /\ \A b \in circle : \E a \in circle : WaitsFor(a, b)

DeadlockDetected(k) == Deadlocked(k) /\ Rollback(k)

(* SIGTERM: stop() clears the interval.                                       *)
Stop ==
    /\ worker = "up"
    /\ worker' = "stopping"
    /\ UNCHANGED <<started, tick, list, written, catalog, scanVars>>

(* Mutant: shutdown does not await the tick. *)
CloseAtOnce ==
    /\ worker = "stopping"
    /\ worker' = "closing"
    /\ UNCHANGED <<started, tick, list, written, catalog, scanVars>>

(* currentTick() has resolved; storage.close() ends the pool.                  *)
Close ==
    /\ worker = "stopping"
    /\ tick[started] \notin Active
    /\ worker' = "closing"
    /\ UNCHANGED <<started, tick, list, written, catalog, scanVars>>

Cut(k) == IF tick[k] \in Active THEN "cut" ELSE tick[k]

(* The pool has drained: process.exit(0).                                     *)
Exit ==
    /\ worker = "closing"
    /\ \A k \in Ticks : tick[k] # "writing"
    /\ worker' = "down"
    /\ tick' = [k \in Ticks |-> Cut(k)]
    /\ UNCHANGED <<started, list, written, catalog, scanVars>>

Crash ==
    /\ worker # "down"
    /\ worker' = "down"
    /\ tick' = [k \in Ticks |-> Cut(k)]
    /\ UNCHANGED <<started, list, written, catalog, scanVars>>

-----------------------------------------------------------------------------
(* Mutant: no look at whether there is a catalog. *)
ReadNoBaseline(s) ==
    /\ scan[s] = "idle"
    /\ scan' = [scan EXCEPT ![s] = "fetching"]
    /\ UNCHANGED <<workerVars, catalog, inventory, flagged>>

(* scanChatGiftsForUnknownPublisher: no catalog yet, nothing to compare with.   *)
ReadBaseline(s) ==
    /\ scan[s] = "idle"
    /\ scan' = [scan EXCEPT ![s] = IF \A g \in Gifts : catalog[g] = NoRow THEN "done" ELSE "fetching"]
    /\ UNCHANGED <<workerVars, catalog, inventory, flagged>>

(* getChatGifts, all its pages, or as many as it got.  A chat that cannot be    *)
(* read, and one without unique gifts, ends the scan.                         *)
FetchInventory(s) ==
    /\ scan[s] = "fetching"
    /\ \/ /\ \E gifts \in Inventories : inventory' = [inventory EXCEPT ![s] = gifts]
          /\ scan' = [scan EXCEPT ![s] = "lookup"]
       \/ /\ scan' = [scan EXCEPT ![s] = "done"]
          /\ UNCHANGED inventory
    /\ UNCHANGED <<workerVars, catalog, flagged>>

(* classifyOwnedGift; "pass" is its null.                                     *)
classifyOwnedGift(owned, row) ==
    CASE row = NoRow /\ ~owned.isFromBlockchain -> "catalog_miss"
      [] row # NoRow /\ owned.publisher # NoPublisher /\ PublisherOf[owned.giftId] # NoPublisher
             /\ owned.publisher # PublisherOf[owned.giftId] -> "publisher_mismatch"
      [] OTHER -> "pass"

(* findByGiftId of the next owned gift.                                       *)
LookupGift(s) ==
    /\ scan[s] = "lookup"
    /\ LET owned == Head(inventory[s])
           verdict == classifyOwnedGift(owned, catalog[owned.giftId])
       IN  flagged' = IF verdict = "pass" THEN flagged
                      ELSE [flagged EXCEPT ![s] = @ \cup {[owned |-> owned, reason |-> verdict]}]
    /\ inventory' = [inventory EXCEPT ![s] = Tail(@)]
    /\ scan' = [scan EXCEPT ![s] = IF Len(inventory[s]) = 1 THEN "done" ELSE "lookup"]
    /\ UNCHANGED <<workerVars, catalog>>

Next ==
    \/ StartTick \/ Stop \/ Close \/ Exit \/ Crash
    \/ \E k \in Ticks : Fetched(k) \/ FetchFailed(k) \/ Upsert(k) \/ Commit(k) \/ Abort(k)
                           \/ DeadlockDetected(k)
    \/ \E s \in Scans : ReadBaseline(s) \/ FetchInventory(s) \/ LookupGift(s)

(* The Bot API call settles, statements whose locks are free run, Postgres     *)
(* looks for deadlocks, and the shutdown goes on when what it awaits is there. *)
Fairness ==
    /\ \A k \in Ticks : /\ WF_vars(Fetched(k) \/ FetchFailed(k))
                        /\ WF_vars(Upsert(k) \/ Commit(k))
                        /\ WF_vars(DeadlockDetected(k))
    /\ WF_vars(Close)
    /\ WF_vars(Exit)

Spec == Init /\ [][Next]_vars /\ Fairness

-----------------------------------------------------------------------------
Rows == {NoRow} \cup [by : Ticks, firstSeenAt : Ticks, lastRefreshedAt : Ticks]

Flags == [owned : UNION {ToSet(gifts) : gifts \in Inventories},
          reason : {"catalog_miss", "publisher_mismatch"}]

(* Every variable keeps its type; a worker that is down runs no tick.          *)
TypeOK ==
    /\ worker \in {"down", "up", "stopping", "closing"}
    /\ started \in 0 .. MaxTicks
    /\ tick \in [Ticks -> {"none"} \cup Active \cup Ended]
    /\ \A k \in Ticks : k > started <=> tick[k] = "none"
    /\ worker = "down" => \A k \in Ticks : tick[k] \notin Active
    /\ list \in [Ticks -> Seq(Gifts)]
    /\ \A k \in Ticks : written[k] \in 0 .. Len(list[k])
    /\ catalog \in [Gifts -> Rows]
    /\ scan \in [Scans -> {"idle", "fetching", "lookup", "done"}]
    /\ \A s \in Scans : flagged[s] \subseteq Flags

(* A gift Telegram has offered all along, with its own publisher, is never      *)
(* flagged: not by a scan that runs while the first refresh commits, nor by    *)
(* one that read its baseline before and looks up after another refresh.       *)
NoFalseFlag ==
    \A s \in Scans : \A flag \in flagged[s] :
        flag.owned.giftId \in Evergreen =>
            flag.owned.publisher \notin {NoPublisher, PublisherOf[flag.owned.giftId]}

(* Overlapping refreshes take effect one after the other: of two rows that two   *)
(* refreshes both wrote, the fields are those of one of them, the later to      *)
(* commit.                                                                    *)
CatalogIsSerial ==
    \A g, h \in Gifts :
        LET j == catalog[g].by
            k == catalog[h].by
        IN  j # 0 /\ k # 0 /\ j # k => ~(h \in ToSet(list[j]) /\ g \in ToSet(list[k]))

(* A row is never lost, its firstSeenAt is never updated, and its                *)
(* lastRefreshedAt never goes back, in whatever order refreshes commit.         *)
CatalogOnlyGains ==
    [][\A g \in Gifts : catalog[g] # NoRow =>
          /\ catalog'[g] # NoRow
          /\ catalog'[g].firstSeenAt = catalog[g].firstSeenAt
          /\ catalog'[g].lastRefreshedAt >= catalog[g].lastRefreshedAt]_vars

(* An orderly shutdown lets the tick started last come to its own end.           *)
LatestTickCompletes ==
    [][worker = "closing" /\ worker' = "down" /\ (\A k \in Ticks : tick[k] # "writing")
          => UNCHANGED tick[started]]_vars

(* Every tick ends, though ticks may overlap and lock each other's rows, and     *)
(* every shutdown, which awaits one, ends with the process.                    *)
EveryTickEnds ==
    /\ \A k \in Ticks : tick[k] = "fetching" ~> tick[k] \in Ended
    /\ worker = "stopping" ~> worker = "down"
=============================================================================
