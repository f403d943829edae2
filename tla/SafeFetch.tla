------------------------------ MODULE SafeFetch ------------------------------
(***************************************************************************)
(* safeFetch: what every scanner of pages and manifests fetches with.  The  *)
(* calls of one process share the fetch that is under way for their URL     *)
(* (inFlight) and a cache of the successful ones.  One timer covers a fetch *)
(* with all its redirects and bodies.                                      *)
(*                                                                         *)
(* A fetch is named after the caller that started it.  Addresses, bodies    *)
(* and byte counts are abstracted to how a request can end.                *)
(***************************************************************************)
EXTENDS Integers, FiniteSets, SequencesExt

CONSTANTS Callers,      \* concurrent calls in one process
          Urls,         \* what they ask for, and where redirects lead
          Insecure,     \* those of them that are not https
          Null,
          TimeoutMs, MaxRedirects,
          TtlMs, MaxSize, \* of the cache
          MaxTime       \* bound: no call is made that could last longer

ASSUME SafeFetchAssumption ==
    /\ TimeoutMs \in Nat \ {0}
    /\ {MaxRedirects, TtlMs, MaxTime} \subseteq Nat
    /\ MaxSize \in Nat \ {0}
    /\ Insecure \subseteq Urls
    /\ Null \notin Callers

VARIABLES now,
          cache,    \* TtlFetchCache.store: entries in the order of their insertion
          inFlight, \* by URL: the fetch that calls for it wait for
          fetch,    \* the fetches, by the caller that started each
          waits,    \* the fetch each caller awaits
          answer    \* what each caller was answered in this millisecond

vars == <<now, cache, inFlight, fetch, waits, answer>>

Times == 0 .. MaxTime

Failures == {"https_required", "ssrf_blocked", "fetch_timeout", "fetch_failed",
             "too_many_redirects", "response_too_large"}

(* What a body may turn out to be when it has been read: a redirect without a      *)
(* usable location and a failed status end alike.                            *)
Endings == {"ok", "fetch_failed", "response_too_large"}

NoFetch == [stage |-> "none"]

Live(f) == fetch[f].stage # "none"

-----------------------------------------------------------------------------
(* Mutant: an entry is used for as long as it is there. *)
FreshWhileThere(entry) == TRUE

Fresh(entry) == now - entry.cachedAt <= TtlMs

Hits(u) == {entry \in ToSet(cache) : entry.url = u /\ Fresh(entry)}

Expired(u) == {i \in DOMAIN cache : cache[i].url = u /\ ~Fresh(cache[i])}

(* TtlFetchCache.get deletes the entry it finds too old. *)
WithoutExpired(u) ==
    IF Expired(u) = {} THEN cache ELSE RemoveAt(cache, CHOOSE i \in Expired(u) : TRUE)

Evicted == IF Len(cache) >= MaxSize THEN Tail(cache) ELSE cache

(* Mutant: only a request that has no response yet is shared. *)
ExistingRequest(u) ==
    IF inFlight[u] # Null /\ fetch[inFlight[u]].stage = "request" THEN inFlight[u] ELSE Null

Existing(u) == inFlight[u]

(* doFetch for one hop. *)
Hop(asked, u, hop, startedAt) ==
    LET end(result) == [stage |-> "done", asked |-> asked, startedAt |-> startedAt,
                        result |-> result, readAt |-> startedAt]
    IN  IF u \in Insecure THEN end("https_required")
        ELSE IF hop > MaxRedirects THEN end("too_many_redirects")
        ELSE [stage |-> "request", asked |-> asked, startedAt |-> startedAt, hop |-> hop]

End(f, result, readAt) ==
    fetch' = [fetch EXCEPT ![f] = [stage |-> "done", asked |-> @.asked, startedAt |-> @.startedAt,
                                   result |-> result, readAt |-> readAt]]

(* An exception while a body is read: the hop that led here catches it, and no     *)
(* one does on the first hop.                                                *)
Thrown(f) == IF fetch[f].hop = 0 THEN "rejected" ELSE "fetch_failed"

Reply(result, readAt) == [result |-> result, readAt |-> readAt]

-----------------------------------------------------------------------------
Init ==
    /\ now = 0
    /\ cache = <<>>
    /\ inFlight = [u \in Urls |-> Null]
    /\ fetch = [c \in Callers |-> NoFetch]
    /\ waits = [c \in Callers |-> Null]
    /\ answer = [c \in Callers |-> Null]

Due(f) == fetch[f].stage \in {"request", "body"} /\ now >= fetch[f].startedAt + TimeoutMs

(* Time passes, but not before what is due has been done. *)
Tick ==
    /\ now < MaxTime
    /\ \A f \in Callers : fetch[f].stage # "done" /\ ~Due(f)
    /\ now' = now + 1
    /\ answer' = [c \in Callers |-> Null]
    /\ UNCHANGED <<cache, inFlight, fetch, waits>>

(* safeFetch, up to its first await.  Calls take time: a caller makes one in a      *)
(* millisecond.                                                              *)
Call(c, u) ==
    /\ waits[c] = Null
    /\ answer[c] = Null
    /\ now + TimeoutMs <= MaxTime
    /\ \/ \E entry \in Hits(u) :
             /\ answer' = [answer EXCEPT ![c] = Reply("ok", entry.readAt)]
             /\ UNCHANGED <<cache, inFlight, fetch, waits>>
       \/ /\ Hits(u) = {}
          /\ cache' = WithoutExpired(u)
          /\ IF Existing(u) # Null
             THEN /\ waits' = [waits EXCEPT ![c] = Existing(u)]
                  /\ UNCHANGED <<inFlight, fetch>>
             ELSE /\ fetch' = [fetch EXCEPT ![c] = Hop(u, u, 0, now)]
                  /\ inFlight' = [inFlight EXCEPT ![u] = c]
                  /\ waits' = [waits EXCEPT ![c] = c]
          /\ UNCHANGED answer
    /\ UNCHANGED now

(* undiciRequest resolves: a body is to be read, of a redirect or of the page. *)
Respond(f) ==
    /\ fetch[f].stage = "request"
    /\ \E body \in Urls \cup Endings :
          fetch' = [fetch EXCEPT ![f] = [stage |-> "body", asked |-> @.asked,
                       startedAt |-> @.startedAt, hop |-> @.hop, body |-> body, readAt |-> now]]
    /\ UNCHANGED <<now, cache, inFlight, waits, answer>>

(* undiciRequest rejects: mapFetchError. *)
RequestFails(f) ==
    /\ fetch[f].stage = "request"
    /\ \E result \in {"ssrf_blocked", "fetch_failed"} : End(f, result, now)
    /\ UNCHANGED <<now, cache, inFlight, waits, answer>>

EndBody(f) ==
    /\ fetch[f].stage = "body"
    /\ IF fetch[f].body \in Urls
       THEN fetch' = [fetch EXCEPT ![f] = Hop(@.asked, @.body, @.hop + 1, @.startedAt)]
       ELSE End(f, fetch[f].body, fetch[f].readAt)
    /\ UNCHANGED <<now, cache, inFlight, waits, answer>>

(* The connection breaks. *)
BreakBody(f) ==
    /\ fetch[f].stage = "body"
    /\ End(f, Thrown(f), now)
    /\ UNCHANGED <<now, cache, inFlight, waits, answer>>

(* Mutant: the timer is cleared when the response arrives. *)
TimeoutOfRequest(f) ==
    /\ Due(f)
    /\ fetch[f].stage = "request"
    /\ End(f, "fetch_timeout", now)
    /\ UNCHANGED <<now, cache, inFlight, waits, answer>>

(* controller.abort. *)
Timeout(f) ==
    /\ Due(f)
    /\ End(f, IF fetch[f].stage = "request" THEN "fetch_timeout" ELSE Thrown(f), now)
    /\ UNCHANGED <<now, cache, inFlight, waits, answer>>

(* Mutant: an entry is stamped with the start of its fetch. *)
CachedAtStart(f) == fetch[f].startedAt

CachedAt(f) == now

(* What follows doFetch's result, the finally block included, and the callers' awaits. *)
Settle(f) ==
    /\ fetch[f].stage = "done"
    /\ LET outcome == fetch[f]
       IN  /\ cache' = IF outcome.result = "ok"
                       THEN Append(Evicted, [url |-> outcome.asked, cachedAt |-> CachedAt(f),
                                             readAt |-> outcome.readAt])
                       ELSE cache
           /\ inFlight' = [inFlight EXCEPT ![outcome.asked] = Null]
           /\ answer' = [c \in Callers |-> IF waits[c] = f
                                           THEN Reply(outcome.result, outcome.readAt)
                                           ELSE answer[c]]
    /\ waits' = [c \in Callers |-> IF waits[c] = f THEN Null ELSE waits[c]]
    /\ fetch' = [fetch EXCEPT ![f] = NoFetch]
    /\ UNCHANGED now

Next ==
    \/ Tick
    \/ \E c \in Callers :
          \/ \E u \in Urls : Call(c, u)
          \/ Respond(c) \/ RequestFails(c) \/ EndBody(c) \/ BreakBody(c)
          \/ Timeout(c) \/ Settle(c)

(* The clock and the event loop go on; nothing is asked of servers. *)
Fairness ==
    /\ WF_vars(Tick)
    /\ \A f \in Callers : WF_vars(Timeout(f)) /\ WF_vars(Settle(f))

Spec == Init /\ [][Next]_vars /\ Fairness

-----------------------------------------------------------------------------
Entries == [url : Urls, cachedAt : Times, readAt : Times]

Fetches ==
    {NoFetch}
      \cup [stage : {"request"}, asked : Urls, startedAt : Times, hop : 0 .. MaxRedirects]
      \cup [stage : {"body"}, asked : Urls, startedAt : Times, hop : 0 .. MaxRedirects,
            body : Urls \cup Endings, readAt : Times]
      \cup [stage : {"done"}, asked : Urls, startedAt : Times,
            result : Failures \cup {"ok", "rejected"}, readAt : Times]

Answers == [result : Failures \cup {"ok", "rejected"}, readAt : Times]

(* Every variable keeps its type, and the cache its size. *)
TypeOK ==
    /\ now \in Times
    /\ cache \in Seq(Entries) /\ Len(cache) <= MaxSize
    /\ inFlight \in [Urls -> Callers \cup {Null}]
    /\ fetch \in [Callers -> Fetches]
    /\ waits \in [Callers -> Callers \cup {Null}]
    /\ answer \in [Callers -> Answers \cup {Null}]

(* safeFetch asks no URL twice for what it has or is about to have: at any moment  *)
(* there is at most one of a fetch and a fresh cache entry for it.            *)
OneSource ==
    \A u \in Urls :
        Cardinality({f \in Callers : Live(f) /\ fetch[f].asked = u}) + Cardinality(Hits(u)) <= 1

(* A page that is answered was sent no longer ago than the time to live and the    *)
(* timeout together, however many redirects led there and whoever asked first.    *)
FreshAnswers ==
    \A c \in Callers : answer[c] # Null /\ answer[c].result = "ok" =>
        now - answer[c].readAt <= TtlMs + TimeoutMs

(* TtlFetchCache evicts the oldest entry: an entry that leaves the cache while it  *)
(* is fresh was cached no later than those that stay.                         *)
EvictsOldest ==
    [][\A gone \in ToSet(cache) \ ToSet(cache'), kept \in ToSet(cache) \cap ToSet(cache') :
          Fresh(gone) => gone.cachedAt <= kept.cachedAt]_vars

(* Every call ends, whatever the servers do and whichever fetch it joined.        *)
EveryCallEnds == \A c \in Callers : waits[c] # Null ~> waits[c] = Null

(* A claim that the code does not keep.  miniapp-scanner.ts: "On fetch failure     *)
(* the scanner degrades silently": safeFetch answers every failure with a result  *)
(* the scanner can look at, and never throws.                                *)
FailuresAreResults == \A c \in Callers : answer[c] # Null => answer[c].result # "rejected"
=============================================================================
