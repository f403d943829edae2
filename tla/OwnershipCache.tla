---------------------------- MODULE OwnershipCache ----------------------------
(***************************************************************************)
(* The cache of Fragment ownership lookups a process shares: a JavaScript   *)
(* Map, here the sequence of its entries in iteration order.  get moves a   *)
(* hit to the end; set first drops what expired, then the first entry when  *)
(* the cache is full, even if the key it sets is already there; setting a   *)
(* present key keeps its place.  Operators only: they are synchronous.      *)
(***************************************************************************)
EXTENDS Integers, Sequences, FiniteSets

CONSTANTS Ttl,        \* ttlMs
          MaxEntries  \* maxEntries

ASSUME OwnershipCacheAssumption ==
    /\ Ttl \in Nat \ {0}
    /\ MaxEntries \in Nat \ {0}

shouldCache(result) == result.status \in {"ok", "not_found"}

Live(entry, now) == entry.expiresAt > now

(* The entries at some positions, in their order: what deleting the others leaves. *)
Kept(cache, positions) ==
    [i \in 1 .. Cardinality(positions) |->
        cache[CHOOSE k \in positions : Cardinality({j \in positions : j <= k}) = i]]

Without(cache, name) == Kept(cache, {i \in DOMAIN cache : cache[i].name # name})

evictExpired(cache, now) == Kept(cache, {i \in DOMAIN cache : Live(cache[i], now)})

(* Mutant: an expired entry is still answered. *)
HitsOfAnyAge(cache, name, now) ==
    {cache[i] : i \in {j \in DOMAIN cache : cache[j].name = name}}

(* The entry get would answer with, as a set of at most one.                  *)
Hits(cache, name, now) ==
    {cache[i] : i \in {j \in DOMAIN cache : cache[j].name = name /\ Live(cache[j], now)}}

(* The cache after get: a hit becomes the youngest, an expired entry goes.     *)
AfterGet(cache, name, now) ==
    Without(cache, name)
        \o Kept(cache, {i \in DOMAIN cache : cache[i].name = name /\ Live(cache[i], now)})

(* Mutant: room is made only once there is one entry too many. *)
MakeRoomLate(cache) == IF Len(cache) > MaxEntries THEN Tail(cache) ELSE cache

MakeRoom(cache) == IF Len(cache) >= MaxEntries THEN Tail(cache) ELSE cache

(* The cache after set.                                                       *)
AfterSet(cache, name, result, now) ==
    LET room == MakeRoom(evictExpired(cache, now))
        entry == [name |-> name, result |-> result, expiresAt |-> now + Ttl]
    IN  IF ~shouldCache(result) THEN cache
        ELSE IF \A i \in DOMAIN room : room[i].name # name THEN Append(room, entry)
        ELSE [i \in DOMAIN room |-> IF room[i].name = name THEN entry ELSE room[i]]
=============================================================================
