--------------------------- MODULE SafeFetchProofs ---------------------------
(***************************************************************************)
(* Theorems about SafeFetch, for any callers, URLs, limits and bounds.      *)
(***************************************************************************)
EXTENDS SafeFetch, FiniteSetTheorems, SequenceTheorems, TLAPS

(* A fetch under way is the one its caller awaits, and is registered under the URL   *)
(* it was asked for.                                                         *)
Registered ==
    \A f \in Callers : Live(f) => waits[f] = f /\ inFlight[fetch[f].asked] = f

(* No URL is cached while it is being fetched.                                  *)
NotBoth == \A f \in Callers, entry \in ToSet(cache) : Live(f) => entry.url # fetch[f].asked

(* The cache: no URL twice, in the order of the stamps.                          *)
Sorted(s) ==
    /\ s \in Seq(Entries)
    /\ \A i, j \in 1 .. Len(s) : s[i].url = s[j].url => i = j
    /\ \A i, j \in 1 .. Len(s) : i <= j => s[i].cachedAt <= s[j].cachedAt

(* The timer bounds every fetch, and with it the age of what was read.           *)
InTime ==
    /\ \A f \in Callers : Live(f) =>
          /\ fetch[f].startedAt <= now /\ now <= fetch[f].startedAt + TimeoutMs
          /\ fetch[f].stage # "request" => fetch[f].startedAt <= fetch[f].readAt
    /\ \A entry \in ToSet(cache) :
          entry.cachedAt <= now /\ entry.cachedAt <= entry.readAt + TimeoutMs

IInv == TypeOK /\ Registered /\ NotBoth /\ Sorted(cache) /\ InTime /\ FreshAnswers

-----------------------------------------------------------------------------
(* Sorted sequences: what taking an entry out of one, and adding a later one, give.  *)
LEMMA RemoveAtSorted ==
    ASSUME NEW s, Sorted(s), NEW x \in 1 .. Len(s)
    PROVE  /\ Sorted(RemoveAt(s, x)) /\ Len(RemoveAt(s, x)) = Len(s) - 1
           /\ ToSet(RemoveAt(s, x)) = ToSet(s) \ {s[x]}
<1>. DEFINE r == RemoveAt(s, x)
            front == SubSeq(s, 1, x - 1)
            back == SubSeq(s, x + 1, Len(s))
<1>0. s \in Seq(Entries) /\ Len(s) \in Nat /\ DOMAIN s = 1 .. Len(s)
    BY DEF Sorted
<1>1. front \in Seq(Entries) /\ Len(front) = x - 1
         /\ \A j \in 1 .. x - 1 : front[j] = s[j]
    BY <1>0
<1>2. back \in Seq(Entries) /\ Len(back) = Len(s) - x
         /\ \A j \in 1 .. Len(s) - x : back[j] = s[x + j]
  <2>1. \A i \in x + 1 .. Len(s) : s[i] \in Entries
      BY <1>0
  <2>2. /\ back \in Seq(Entries)
        /\ Len(back) = IF x + 1 <= Len(s) THEN Len(s) - (x + 1) + 1 ELSE 0
        /\ \A j \in 1 .. Len(s) - (x + 1) + 1 : back[j] = s[(x + 1) + j - 1]
    <3>1. x + 1 \in Int /\ Len(s) \in Int
        BY <1>0
    <3>. QED  BY <2>1, <3>1, SubSeqProperties
  <2>. HIDE DEF front, back
  <2>3. /\ (IF x + 1 <= Len(s) THEN Len(s) - (x + 1) + 1 ELSE 0) = Len(s) - x
        /\ Len(s) - (x + 1) + 1 = Len(s) - x
        /\ \A j \in 1 .. Len(s) - x : (x + 1) + j - 1 = x + j
    <3>1. x \in Int /\ Len(s) \in Int /\ x <= Len(s)
        BY <1>0
    <3>2. \A m, n \in Int : m <= n =>
             /\ (IF m + 1 <= n THEN n - (m + 1) + 1 ELSE 0) = n - m
             /\ n - (m + 1) + 1 = n - m
             /\ \A j \in 1 .. n - m : (m + 1) + j - 1 = m + j
        OBVIOUS
    <3>. QED  BY <3>1, <3>2
  <2>4. Len(back) = Len(s) - x
      BY <2>2, <2>3
  <2>5. ASSUME NEW j \in 1 .. Len(s) - x
        PROVE  back[j] = s[x + j]
    <3>1. back[j] = s[(x + 1) + j - 1]
        BY <2>2, <2>3
    <3>. QED  BY <2>3, <3>1
  <2>. QED  BY <2>2, <2>4, <2>5
<1>3. r = front \o back
    BY DEF RemoveAt
<1>. HIDE DEF front, back, r
<1>4. r \in Seq(Entries) /\ Len(r) = Len(s) - 1
  <2>1. front \o back \in Seq(Entries) /\ Len(front \o back) = Len(front) + Len(back)
      BY <1>1, <1>2, ConcatProperties
  <2>2. Len(front) + Len(back) = Len(s) - 1
      BY <1>0, <1>1, <1>2
  <2>. QED  BY <1>3, <2>1, <2>2
<1>5. \A j \in 1 .. Len(s) - 1 : r[j] = IF j < x THEN s[j] ELSE s[j + 1]
  <2>. SUFFICES ASSUME NEW j \in 1 .. Len(s) - 1
                PROVE  r[j] = IF j < x THEN s[j] ELSE s[j + 1]
      OBVIOUS
  <2>1. CASE j < x
      BY <1>0, <1>1, <1>2, <1>3, <2>1
  <2>2. CASE ~(j < x)
    <3>1. j - (x - 1) \in 1 .. Len(s) - x /\ x + (j - (x - 1)) = j + 1
        BY <1>0, <2>2
    <3>2. r[j] = back[j - Len(front)]
        BY <1>0, <1>1, <1>2, <1>3, <2>2
    <3>. QED  BY <1>1, <1>2, <2>2, <3>1, <3>2
  <2>. QED  BY <2>1, <2>2
<1>6. \A i, j \in 1 .. Len(s) - 1 : r[i].url = r[j].url => i = j
    BY <1>0, <1>5 DEF Sorted
<1>7. \A i, j \in 1 .. Len(s) - 1 : i <= j => r[i].cachedAt <= r[j].cachedAt
    BY <1>0, <1>5 DEF Sorted
<1>8. ASSUME NEW e \in ToSet(r)
      PROVE  e \in ToSet(s) \ {s[x]}
  <2>1. PICK j \in 1 .. Len(s) - 1 : e = r[j]
      BY <1>4 DEF ToSet
  <2>2. PICK i \in 1 .. Len(s) : i # x /\ e = s[i]
      BY <1>0, <1>5, <2>1
  <2>3. s[i] # s[x]
      BY <2>2 DEF Sorted
  <2>. QED  BY <1>0, <2>2, <2>3 DEF ToSet
<1>9. ASSUME NEW e \in ToSet(s) \ {s[x]}
      PROVE  e \in ToSet(r)
  <2>1. PICK i \in 1 .. Len(s) : e = s[i] /\ i # x
      BY <1>0 DEF ToSet
  <2>2. PICK j \in 1 .. Len(s) - 1 : r[j] = e
    <3>1. CASE i < x
        BY <1>0, <1>5, <2>1, <3>1
    <3>2. CASE i > x
      <4>1. i - 1 \in 1 .. Len(s) - 1 /\ ~(i - 1 < x) /\ (i - 1) + 1 = i
          BY <1>0, <3>2
      <4>. QED  BY <1>5, <2>1, <4>1
    <3>. QED  BY <1>0, <2>1, <3>1, <3>2
  <2>. QED  BY <1>4, <2>2 DEF ToSet
<1>. QED  BY <1>4, <1>6, <1>7, <1>8, <1>9 DEF Sorted, r

LEMMA TailSorted ==
    ASSUME NEW s, Sorted(s), Len(s) > 0
    PROVE  Sorted(Tail(s)) /\ Len(Tail(s)) = Len(s) - 1 /\ ToSet(Tail(s)) = ToSet(s) \ {s[1]}
<1>1. s \in Seq(Entries) /\ 1 \in 1 .. Len(s) /\ s # <<>>
    BY DEF Sorted
<1>2. Tail(s) \in Seq(Entries) /\ Len(Tail(s)) = Len(s) - 1
         /\ \A j \in 1 .. Len(s) - 1 : Tail(s)[j] = s[j + 1]
    BY <1>1, HeadTailProperties
<1>3. Sorted(Tail(s))
    BY <1>1, <1>2 DEF Sorted
<1>4. \A e : e \in ToSet(Tail(s)) <=> e \in ToSet(s) \ {s[1]}
  <2>1. ASSUME NEW j \in 1 .. Len(s) - 1
        PROVE  Tail(s)[j] \in ToSet(s) \ {s[1]}
    <3>1. j + 1 \in 1 .. Len(s) /\ j + 1 # 1
        BY <1>1
    <3>2. s[j + 1] # s[1]
        BY <1>1, <3>1 DEF Sorted
    <3>. QED  BY <1>1, <1>2, <3>1, <3>2 DEF ToSet
  <2>2. ASSUME NEW i \in 1 .. Len(s), s[i] # s[1]
        PROVE  s[i] \in ToSet(Tail(s))
    <3>1. i - 1 \in 1 .. Len(s) - 1 /\ (i - 1) + 1 = i
        BY <1>1, <2>2
    <3>2. Tail(s)[i - 1] = s[i]
        BY <1>2, <3>1
    <3>. QED  BY <1>2, <3>1, <3>2 DEF ToSet
  <2>. QED  BY <1>1, <1>2, <2>1, <2>2 DEF ToSet
<1>. QED  BY <1>2, <1>3, <1>4

LEMMA AppendSorted ==
    ASSUME NEW s, Sorted(s), NEW e \in Entries,
           \A entry \in ToSet(s) : entry.url # e.url /\ entry.cachedAt <= e.cachedAt
    PROVE  Sorted(Append(s, e)) /\ Len(Append(s, e)) = Len(s) + 1
           /\ ToSet(Append(s, e)) = ToSet(s) \cup {e}
<1>. DEFINE r == Append(s, e)
<1>1. s \in Seq(Entries) /\ Len(s) \in Nat /\ \A i \in 1 .. Len(s) : s[i] \in ToSet(s)
    BY DEF Sorted, ToSet
<1>2. r \in Seq(Entries) /\ Len(r) = Len(s) + 1 /\ r[Len(s) + 1] = e
         /\ \A j \in 1 .. Len(s) : r[j] = s[j]
    BY <1>1, AppendProperties
<1>. HIDE DEF r
<1>3. \A i, j \in 1 .. Len(s) + 1 : r[i].url = r[j].url => i = j
    BY <1>1, <1>2 DEF Sorted
<1>4. \A i, j \in 1 .. Len(s) + 1 : i <= j => r[i].cachedAt <= r[j].cachedAt
  <2>1. e.cachedAt \in Int
      BY DEF Entries, Times
  <2>. QED  BY <1>1, <1>2, <2>1 DEF Sorted
<1>5. ToSet(r) = ToSet(s) \cup {e}
  <2>1. \A other \in ToSet(r) : other \in ToSet(s) \cup {e}
    <3>1. \A i \in 1 .. Len(s) + 1 : r[i] \in ToSet(s) \cup {e}
        BY <1>1, <1>2
    <3>. QED  BY <1>1, <1>2, <3>1 DEF ToSet
  <2>2. \A other \in ToSet(s) : other \in ToSet(r)
    <3>1. \A i \in 1 .. Len(s) : s[i] \in ToSet(r)
        BY <1>1, <1>2 DEF ToSet
    <3>. QED  BY <1>1, <3>1 DEF ToSet
  <2>3. e \in ToSet(r)
      BY <1>1, <1>2 DEF ToSet
  <2>. QED  BY <2>1, <2>2, <2>3
<1>. QED  BY <1>2, <1>3, <1>4, <1>5 DEF Sorted, r

(* TtlFetchCache.get on a miss takes out the entries of the URL, all of them expired. *)
LEMMA WithoutExpiredSorted ==
    ASSUME Sorted(cache), NEW u, Hits(u) = {}
    PROVE  /\ Sorted(WithoutExpired(u))
           /\ Len(WithoutExpired(u)) <= Len(cache)
           /\ ToSet(WithoutExpired(u)) = {entry \in ToSet(cache) : entry.url # u}
           /\ \A gone \in ToSet(cache) \ ToSet(WithoutExpired(u)) : ~Fresh(gone)
<1>0. cache \in Seq(Entries) /\ DOMAIN cache = 1 .. Len(cache) /\ Len(cache) \in Nat
    BY DEF Sorted
<1>1. \A entry \in ToSet(cache) : entry.url = u => ~Fresh(entry)
    BY DEF Hits
<1>2. CASE Expired(u) = {}
  <2>1. WithoutExpired(u) = cache
      BY <1>2 DEF WithoutExpired
  <2>2. \A entry \in ToSet(cache) : entry.url # u
      BY <1>1, <1>2 DEF Expired, ToSet
  <2>. QED  BY <1>0, <2>1, <2>2
<1>3. CASE Expired(u) # {}
  <2>. DEFINE x == CHOOSE i \in Expired(u) : TRUE
  <2>1. x \in 1 .. Len(cache) /\ cache[x].url = u
      BY <1>0, <1>3 DEF Expired
  <2>2. WithoutExpired(u) = RemoveAt(cache, x)
      BY <1>3 DEF WithoutExpired
  <2>. HIDE DEF x
  <2>3. Sorted(WithoutExpired(u)) /\ Len(WithoutExpired(u)) <= Len(cache)
           /\ ToSet(WithoutExpired(u)) = ToSet(cache) \ {cache[x]}
      BY <1>0, <2>1, <2>2, RemoveAtSorted
  <2>4. \A entry \in ToSet(cache) : entry.url = u <=> entry = cache[x]
      BY <1>0, <2>1 DEF Sorted, ToSet
  <2>. QED  BY <1>1, <2>3, <2>4
<1>. QED  BY <1>2, <1>3

-----------------------------------------------------------------------------
(* A redirect keeps the URL asked for and the start, so the same timer bounds it. *)
LEMMA HopIsFetch ==
    ASSUME NEW asked \in Urls, NEW u \in Urls, NEW hop \in 0 .. MaxRedirects + 1,
           NEW startedAt \in Times
    PROVE  LET next == Hop(asked, u, hop, startedAt)
           IN  /\ next \in Fetches /\ next.stage # "none"
               /\ next.asked = asked /\ next.startedAt = startedAt
               /\ next.stage # "request" => next.readAt = startedAt
<1>. USE SafeFetchAssumption
<1>1. CASE u \in Insecure
    BY <1>1 DEF Hop, Fetches, Failures
<1>2. CASE u \notin Insecure /\ hop > MaxRedirects
    BY <1>2 DEF Hop, Fetches, Failures
<1>3. CASE u \notin Insecure /\ ~(hop > MaxRedirects)
  <2>1. hop \in 0 .. MaxRedirects
      BY <1>3
  <2>. QED  BY <1>3, <2>1 DEF Hop, Fetches
<1>. QED  BY <1>1, <1>2, <1>3

(* A step of one fetch, until it is done, disturbs nothing.                      *)
LEMMA Progress ==
    ASSUME IInv, NEW f \in Callers, Live(f),
           NEW next \in Fetches, next.stage # "none",
           next.asked = fetch[f].asked, next.startedAt = fetch[f].startedAt,
           next.stage # "request" => next.startedAt <= next.readAt,
           fetch' = [fetch EXCEPT ![f] = next],
           UNCHANGED <<now, cache, inFlight, waits, answer>>
    PROVE  IInv'
<1>1. fetch \in [Callers -> Fetches]
    BY DEF IInv, TypeOK
<1>2. fetch' \in [Callers -> Fetches]
         /\ \A g \in Callers : fetch'[g] = IF g = f THEN next ELSE fetch[g]
    BY <1>1
<1>3. TypeOK'
    BY <1>2 DEF IInv, TypeOK
<1>4. \A g \in Callers : /\ Live(g)' <=> Live(g)
                         /\ fetch'[g].asked = fetch[g].asked
                         /\ fetch'[g].startedAt = fetch[g].startedAt
    BY <1>2 DEF Live
<1>5. Registered' /\ NotBoth'
    BY <1>4 DEF IInv, Registered, NotBoth
<1>6. InTime'
    BY <1>2, <1>4 DEF IInv, InTime
<1>7. Sorted(cache)' /\ FreshAnswers'
    BY DEF IInv, Sorted, FreshAnswers
<1>. QED  BY <1>3, <1>5, <1>6, <1>7 DEF IInv

(* Headers arrive: the fetch goes on to the body, stamped with the time. *)
LEMMA RespondKeeps ==
    ASSUME IInv, NEW f \in Callers, Respond(f)
    PROVE  IInv'
<1>1. fetch[f] \in Fetches /\ fetch[f].stage = "request" /\ now \in Times
    BY DEF IInv, TypeOK, Respond
<1>2. PICK body \in Urls \cup Endings :
         fetch' = [fetch EXCEPT ![f] = [stage |-> "body", asked |-> fetch[f].asked,
                      startedAt |-> fetch[f].startedAt, hop |-> fetch[f].hop, body |-> body,
                      readAt |-> now]]
    BY DEF Respond
<1>. DEFINE next == [stage |-> "body", asked |-> fetch[f].asked,
                     startedAt |-> fetch[f].startedAt, hop |-> fetch[f].hop, body |-> body,
                     readAt |-> now]
<1>3. next \in Fetches
    BY <1>1 DEF Fetches, NoFetch
<1>4. Live(f) /\ fetch[f].startedAt <= now
    BY <1>1 DEF Live, IInv, InTime
<1>. QED  BY <1>2, <1>3, <1>4, Progress DEF Respond

(* The ways a fetch is done but for Hop's. *)
LEMMA EndKeeps ==
    ASSUME IInv, NEW f \in Callers, fetch[f].stage \in {"request", "body"},
           NEW result \in Failures \cup {"ok", "rejected"},
           NEW readAt \in Times, fetch[f].startedAt <= readAt,
           End(f, result, readAt),
           UNCHANGED <<now, cache, inFlight, waits, answer>>
    PROVE  IInv'
<1>. DEFINE next == [stage |-> "done", asked |-> fetch[f].asked,
                     startedAt |-> fetch[f].startedAt, result |-> result, readAt |-> readAt]
<1>1. fetch[f] \in Fetches
    BY DEF IInv, TypeOK
<1>2. next \in Fetches
    BY <1>1 DEF Fetches, NoFetch
<1>3. Live(f)
    BY DEF Live
<1>4. fetch' = [fetch EXCEPT ![f] = next]
    BY DEF End
<1>. QED  BY <1>2, <1>3, <1>4, Progress

(* Requests that fail, bodies that break and the timer all end a fetch. *)
LEMMA FailureKeeps ==
    ASSUME IInv, NEW f \in Callers, RequestFails(f) \/ BreakBody(f) \/ Timeout(f)
    PROVE  IInv'
<1>1. fetch[f].stage \in {"request", "body"}
    BY DEF RequestFails, BreakBody, Timeout, Due
<1>2. now \in Times /\ fetch[f].startedAt <= now
    BY <1>1 DEF IInv, TypeOK, InTime, Live
<1>3. PICK result \in Failures \cup {"rejected"} : End(f, result, now)
    BY DEF RequestFails, BreakBody, Timeout, Thrown, Failures
<1>4. UNCHANGED <<now, cache, inFlight, waits, answer>>
    BY DEF RequestFails, BreakBody, Timeout
<1>. QED  BY <1>1, <1>2, <1>3, <1>4, EndKeeps

(* The end of a body is a redirect to follow or an outcome with that stamp. *)
LEMMA EndBodyKeeps ==
    ASSUME IInv, NEW f \in Callers, EndBody(f)
    PROVE  IInv'
<1>1. fetch[f] \in Fetches /\ fetch[f].stage = "body"
    BY DEF IInv, TypeOK, EndBody
<1>2. /\ fetch[f].asked \in Urls /\ fetch[f].body \in Urls \cup Endings
      /\ fetch[f].hop \in 0 .. MaxRedirects /\ fetch[f].startedAt \in Times
      /\ fetch[f].readAt \in Times /\ fetch[f].startedAt <= fetch[f].readAt /\ Live(f)
    BY <1>1 DEF Fetches, NoFetch, IInv, InTime, Live
<1>3. UNCHANGED <<now, cache, inFlight, waits, answer>>
    BY DEF EndBody
<1>4. CASE fetch[f].body \in Urls
  <2>. DEFINE next == Hop(fetch[f].asked, fetch[f].body, fetch[f].hop + 1, fetch[f].startedAt)
  <2>1. fetch' = [fetch EXCEPT ![f] = next]
      BY <1>4 DEF EndBody
  <2>2. fetch[f].hop + 1 \in 0 .. MaxRedirects + 1
      BY <1>2, SafeFetchAssumption
  <2>3. /\ next \in Fetches /\ next.stage # "none"
        /\ next.asked = fetch[f].asked /\ next.startedAt = fetch[f].startedAt
        /\ next.stage # "request" => next.readAt = fetch[f].startedAt
      BY <1>2, <1>4, <2>2, HopIsFetch
  <2>. HIDE DEF next
  <2>4. next.stage # "request" => next.startedAt <= next.readAt
      BY <1>2, <2>3 DEF Times
  <2>. QED  BY <1>2, <1>3, <2>1, <2>3, <2>4, Progress
<1>5. CASE fetch[f].body \notin Urls
  <2>1. End(f, fetch[f].body, fetch[f].readAt) /\ fetch[f].body \in Failures \cup {"ok", "rejected"}
      BY <1>2, <1>5 DEF EndBody, Endings, Failures
  <2>. QED  BY <1>1, <1>2, <1>3, <2>1, EndKeeps
<1>. QED  BY <1>4, <1>5

(* Time passes only while no timer is due, so ages stay bounded. *)
LEMMA TickKeeps ==
    ASSUME IInv, Tick
    PROVE  IInv'
<1>. USE SafeFetchAssumption
<1>1. now \in Times /\ now' = now + 1 /\ now' \in Times
    BY DEF IInv, TypeOK, Tick, Times
<1>2. UNCHANGED <<cache, inFlight, fetch, waits>> /\ answer' = [c \in Callers |-> Null]
    BY DEF Tick
<1>3. TypeOK' /\ FreshAnswers'
    BY <1>1, <1>2 DEF IInv, TypeOK, FreshAnswers
<1>4. Registered' /\ NotBoth' /\ Sorted(cache)'
    BY <1>2 DEF IInv, Registered, NotBoth, Sorted, Live
<1>5. ASSUME NEW f \in Callers, Live(f)
      PROVE  fetch[f].startedAt <= now' /\ now' <= fetch[f].startedAt + TimeoutMs
  <2>1. fetch[f] \in Fetches /\ fetch[f].stage \in {"request", "body"} /\ fetch[f].startedAt \in Times
      BY <1>5 DEF IInv, TypeOK, Tick, Live, Fetches, NoFetch
  <2>2. ~(now >= fetch[f].startedAt + TimeoutMs)
      BY <2>1 DEF Tick, Due
  <2>3. fetch[f].startedAt <= now
      BY <1>5 DEF IInv, InTime
  <2>. QED  BY <1>1, <2>1, <2>2, <2>3 DEF Times
<1>6. \A entry \in ToSet(cache) : entry.cachedAt <= now => entry.cachedAt <= now'
  <2>1. \A entry \in ToSet(cache) : entry \in Entries
      BY DEF IInv, TypeOK, ToSet
  <2>. QED  BY <1>1, <2>1 DEF Entries, Times
<1>7. InTime'
    BY <1>2, <1>5, <1>6 DEF IInv, InTime, Live
<1>. QED  BY <1>3, <1>4, <1>7 DEF IInv

(* A call answers from the cache, joins the fetch of its URL, or registers one. *)
LEMMA CallKeeps ==
    ASSUME IInv, NEW c \in Callers, NEW u \in Urls, Call(c, u)
    PROVE  IInv'
<1>. USE SafeFetchAssumption
<1>0. /\ now \in Times /\ now' = now /\ waits[c] = Null
      /\ fetch \in [Callers -> Fetches] /\ waits \in [Callers -> Callers \cup {Null}]
      /\ inFlight \in [Urls -> Callers \cup {Null}]
      /\ answer \in [Callers -> Answers \cup {Null}]
      /\ \A entry \in ToSet(cache) : entry \in Entries
    BY DEF IInv, TypeOK, Call, ToSet
<1>1. ASSUME NEW entry \in Hits(u), answer' = [answer EXCEPT ![c] = Reply("ok", entry.readAt)],
             UNCHANGED <<cache, inFlight, fetch, waits>>
      PROVE  IInv'
  <2>1. entry \in ToSet(cache) /\ Fresh(entry)
      BY DEF Hits
  <2>2. entry.readAt \in Times /\ entry.cachedAt \in Times
      BY <1>0, <2>1 DEF Entries
  <2>3. TypeOK'
      BY <1>0, <1>1, <2>2 DEF IInv, TypeOK, Answers, Reply
  <2>4. Registered' /\ NotBoth' /\ Sorted(cache)' /\ InTime'
      BY <1>0, <1>1 DEF IInv, Registered, NotBoth, Sorted, InTime, Live
  <2>5. now - entry.readAt <= TtlMs + TimeoutMs
    <3>1. now - entry.cachedAt <= TtlMs /\ entry.cachedAt <= entry.readAt + TimeoutMs
        BY <2>1 DEF Fresh, IInv, InTime
    <3>. QED  BY <1>0, <2>2, <3>1 DEF Times
  <2>6. \A g \in Callers : answer'[g] = IF g = c THEN Reply("ok", entry.readAt) ELSE answer[g]
      BY <1>0, <1>1
  <2>7. FreshAnswers'
      BY <1>0, <2>5, <2>6 DEF IInv, FreshAnswers, Reply
  <2>. QED  BY <2>3, <2>4, <2>7 DEF IInv
<1>2. ASSUME Hits(u) = {}, cache' = WithoutExpired(u), UNCHANGED answer
      PROVE  /\ cache' \in Seq(Entries) /\ Len(cache') <= MaxSize /\ Sorted(cache)'
             /\ ToSet(cache') \subseteq ToSet(cache)
             /\ \A entry \in ToSet(cache') : entry.url # u
             /\ FreshAnswers'
  <2>1. /\ Sorted(WithoutExpired(u)) /\ Len(WithoutExpired(u)) <= Len(cache)
        /\ ToSet(WithoutExpired(u)) = {entry \in ToSet(cache) : entry.url # u}
      BY <1>2, WithoutExpiredSorted DEF IInv
  <2>2. Len(WithoutExpired(u)) <= MaxSize
    <3>1. Len(cache) \in Nat /\ Len(cache) <= MaxSize /\ Len(WithoutExpired(u)) \in Nat
        BY <2>1 DEF IInv, TypeOK, Sorted
    <3>. QED  BY <2>1, <3>1
  <2>3. FreshAnswers'
      BY <1>0, <1>2 DEF IInv, FreshAnswers
  <2>. QED  BY <1>2, <2>1, <2>2, <2>3 DEF Sorted
<1>3. ASSUME Hits(u) = {}, cache' = WithoutExpired(u), UNCHANGED answer, Existing(u) # Null,
             waits' = [waits EXCEPT ![c] = Existing(u)], UNCHANGED <<inFlight, fetch>>
      PROVE  IInv'
  <2>1. Existing(u) \in Callers
      BY <1>0, <1>3 DEF Existing
  <2>2. TypeOK'
      BY <1>0, <1>2, <1>3, <2>1 DEF IInv, TypeOK
  <2>3. ~Live(c)
      BY <1>0 DEF IInv, Registered
  <2>4. Registered'
      BY <1>0, <1>3, <2>3 DEF IInv, Registered, Live
  <2>5. NotBoth' /\ InTime'
      BY <1>0, <1>2, <1>3 DEF IInv, NotBoth, InTime, Live
  <2>. QED  BY <1>2, <1>3, <2>2, <2>4, <2>5 DEF IInv
<1>4. ASSUME Hits(u) = {}, cache' = WithoutExpired(u), UNCHANGED answer, Existing(u) = Null,
             fetch' = [fetch EXCEPT ![c] = Hop(u, u, 0, now)],
             inFlight' = [inFlight EXCEPT ![u] = c], waits' = [waits EXCEPT ![c] = c]
      PROVE  IInv'
  <2>. DEFINE next == Hop(u, u, 0, now)
  <2>1. /\ next \in Fetches /\ next.stage # "none" /\ next.asked = u /\ next.startedAt = now
        /\ next.stage # "request" => next.readAt = now
      BY <1>0, HopIsFetch
  <2>2. \A g \in Callers : fetch'[g] = IF g = c THEN next ELSE fetch[g]
      BY <1>0, <1>4
  <2>. HIDE DEF next
  <2>3. TypeOK'
      BY <1>0, <1>2, <1>4, <2>1, <2>2 DEF IInv, TypeOK
  <2>4. \A g \in Callers : Live(g) => fetch[g].asked # u
      BY <1>4 DEF IInv, Registered, Existing
  <2>5. Registered'
      BY <1>0, <1>4, <2>1, <2>2, <2>4 DEF IInv, Registered, Live
  <2>6. NotBoth'
      BY <1>2, <1>4, <2>1, <2>2 DEF IInv, NotBoth, Live
  <2>7. InTime'
    <3>1. now <= now + TimeoutMs /\ now <= now
        BY <1>0 DEF Times
    <3>. QED  BY <1>0, <1>2, <1>4, <2>1, <2>2, <3>1 DEF IInv, InTime, Live
  <2>. QED  BY <1>2, <1>4, <2>3, <2>5, <2>6, <2>7 DEF IInv
<1>. QED  BY <1>1, <1>3, <1>4 DEF Call

(* TtlFetchCache.set drops the head of a sorted cache, which stays sorted. *)
LEMMA EvictedSorted ==
    ASSUME TypeOK, Sorted(cache)
    PROVE  /\ Sorted(Evicted) /\ Len(Evicted) < MaxSize
           /\ ToSet(Evicted) \subseteq ToSet(cache)
           /\ \A gone \in ToSet(cache) \ ToSet(Evicted) : Len(cache) > 0 /\ gone = cache[1]
<1>1. MaxSize \in Nat \ {0} /\ Len(cache) \in Nat /\ Len(cache) <= MaxSize
    BY SafeFetchAssumption DEF TypeOK, Sorted
<1>2. CASE Len(cache) >= MaxSize
  <2>1. Evicted = Tail(cache) /\ Len(cache) > 0
      BY <1>1, <1>2 DEF Evicted
  <2>2. /\ Sorted(Tail(cache)) /\ Len(Tail(cache)) = Len(cache) - 1
        /\ ToSet(Tail(cache)) = ToSet(cache) \ {cache[1]}
      BY <2>1, TailSorted
  <2>3. Len(cache) - 1 < MaxSize
      BY <1>1
  <2>. QED  BY <2>1, <2>2, <2>3
<1>3. CASE ~(Len(cache) >= MaxSize)
  <2>1. Evicted = cache
      BY <1>3 DEF Evicted
  <2>. QED  BY <1>1, <1>3, <2>1
<1>. QED  BY <1>2, <1>3

(* Settling answers all who joined, caches a page and unregisters the fetch. *)
LEMMA SettleKeeps ==
    ASSUME IInv, NEW f \in Callers, Settle(f)
    PROVE  IInv'
<1>. USE SafeFetchAssumption
<1>0. /\ now \in Times /\ now' = now
      /\ fetch \in [Callers -> Fetches] /\ waits \in [Callers -> Callers \cup {Null}]
      /\ inFlight \in [Urls -> Callers \cup {Null}]
      /\ answer \in [Callers -> Answers \cup {Null}]
    BY DEF IInv, TypeOK, Settle
<1>1. /\ fetch[f].stage = "done" /\ fetch[f].asked \in Urls
      /\ fetch[f].startedAt \in Times /\ fetch[f].readAt \in Times
      /\ fetch[f].result \in Failures \cup {"ok", "rejected"}
      /\ fetch[f].startedAt <= fetch[f].readAt /\ now <= fetch[f].startedAt + TimeoutMs
      /\ Live(f)
  <2>1. fetch[f] \in Fetches /\ fetch[f].stage = "done"
      BY <1>0 DEF Settle
  <2>. QED  BY <2>1 DEF Fetches, NoFetch, Live, IInv, InTime
<1>2. now <= fetch[f].readAt + TimeoutMs
    BY <1>0, <1>1 DEF Times
<1>. DEFINE u == fetch[f].asked
            fresh == [url |-> u, cachedAt |-> now, readAt |-> fetch[f].readAt]
            reply == Reply(fetch[f].result, fetch[f].readAt)
<1>3. /\ cache' = IF fetch[f].result = "ok" THEN Append(Evicted, fresh) ELSE cache
      /\ inFlight' = [inFlight EXCEPT ![u] = Null]
      /\ answer' = [c \in Callers |-> IF waits[c] = f THEN reply ELSE answer[c]]
      /\ waits' = [c \in Callers |-> IF waits[c] = f THEN Null ELSE waits[c]]
      /\ fetch' = [fetch EXCEPT ![f] = NoFetch]
    BY DEF Settle, CachedAt
<1>4. fresh \in Entries /\ reply \in Answers
    BY <1>0, <1>1 DEF Entries, Answers, Reply
<1>5. \A g \in Callers : Live(g)' => g # f /\ Live(g) /\ fetch'[g] = fetch[g]
    BY <1>0, <1>3 DEF Live, NoFetch
<1>6. \A g \in Callers : Live(g) /\ g # f => fetch[g].asked # u
    BY <1>1 DEF IInv, Registered
<1>7. /\ Sorted(cache)' /\ Len(cache') <= MaxSize
      /\ ToSet(cache') \subseteq ToSet(cache) \cup {fresh}
  <2>. HIDE DEF u, fresh
  <2>1. CASE fetch[f].result = "ok"
    <3>1. /\ Sorted(Evicted) /\ Len(Evicted) < MaxSize /\ ToSet(Evicted) \subseteq ToSet(cache)
        BY EvictedSorted DEF IInv
    <3>2. \A entry \in ToSet(Evicted) : entry.url # fresh.url /\ entry.cachedAt <= fresh.cachedAt
        BY <1>1, <3>1 DEF IInv, NotBoth, InTime, fresh, u
    <3>3. /\ Sorted(Append(Evicted, fresh)) /\ Len(Append(Evicted, fresh)) = Len(Evicted) + 1
          /\ ToSet(Append(Evicted, fresh)) = ToSet(Evicted) \cup {fresh}
        BY <1>4, <3>1, <3>2, AppendSorted
    <3>4. Len(Evicted) + 1 <= MaxSize
        BY <3>1 DEF Sorted
    <3>. QED  BY <1>3, <2>1, <3>1, <3>3, <3>4 DEF Sorted
  <2>2. CASE fetch[f].result # "ok"
      BY <1>3, <2>2 DEF IInv, TypeOK, Sorted
  <2>. QED  BY <2>1, <2>2
<1>. HIDE DEF reply
<1>8. TypeOK'
  <2>1. cache' \in Seq(Entries)
      BY <1>7 DEF Sorted
  <2>2. NoFetch \in Fetches
      BY DEF Fetches
  <2>. QED  BY <1>0, <1>3, <1>4, <1>7, <2>1, <2>2 DEF IInv, TypeOK
<1>9. Registered'
  <2>. SUFFICES ASSUME NEW g \in Callers, Live(g)'
                PROVE  waits'[g] = g /\ inFlight'[fetch'[g].asked] = g
      BY DEF Registered
  <2>1. g # f /\ Live(g) /\ fetch'[g] = fetch[g] /\ fetch[g].asked # u
      BY <1>5, <1>6
  <2>2. waits[g] = g /\ inFlight[fetch[g].asked] = g
      BY <2>1 DEF IInv, Registered
  <2>3. fetch[g].asked \in Urls
      BY <1>0, <2>1 DEF Fetches, NoFetch, Live
  <2>. QED  BY <1>0, <1>3, <2>1, <2>2, <2>3
<1>10. NotBoth'
    BY <1>5, <1>6, <1>7 DEF IInv, NotBoth
<1>11. InTime'
  <2>1. fresh.cachedAt <= now /\ fresh.cachedAt <= fresh.readAt + TimeoutMs
      BY <1>0, <1>2 DEF Times
  <2>. QED  BY <1>0, <1>5, <1>7, <2>1 DEF IInv, InTime
<1>12. FreshAnswers'
  <2>1. now - fetch[f].readAt <= TtlMs + TimeoutMs
      BY <1>0, <1>1, <1>2 DEF Times
  <2>. QED  BY <1>0, <1>3, <2>1 DEF IInv, FreshAnswers, Reply, reply
<1>. QED  BY <1>7, <1>8, <1>9, <1>10, <1>11, <1>12 DEF IInv

-----------------------------------------------------------------------------
(* Nothing is cached and nothing is under way at first. *)
LEMMA InitHolds == Init => IInv
<1>. SUFFICES ASSUME Init PROVE IInv
    OBVIOUS
<1>. USE SafeFetchAssumption DEF Init
<1>1. cache = <<>> /\ ToSet(cache) = {} /\ <<>> \in Seq(Entries) /\ Len(<<>>) = 0
    BY DEF ToSet
<1>2. TypeOK
    BY <1>1 DEF TypeOK, Times, Fetches
<1>3. Sorted(cache)
    BY <1>1 DEF Sorted
<1>4. Registered /\ NotBoth /\ InTime /\ FreshAnswers
    BY <1>1 DEF Registered, NotBoth, InTime, FreshAnswers, Live, NoFetch
<1>. QED  BY <1>2, <1>3, <1>4 DEF IInv

(* Every action keeps the invariant. *)
LEMMA NextKeeps == IInv /\ [Next]_vars => IInv'
<1>. SUFFICES ASSUME IInv, [Next]_vars PROVE IInv'
    OBVIOUS
<1>1. CASE UNCHANGED vars
    BY <1>1 DEF vars, IInv, TypeOK, Registered, NotBoth, Sorted, InTime, FreshAnswers, Live
<1>2. CASE Tick
    BY <1>2, TickKeeps
<1>3. ASSUME NEW c \in Callers, NEW u \in Urls, Call(c, u)
      PROVE  IInv'
    BY <1>3, CallKeeps
<1>4. ASSUME NEW c \in Callers, Respond(c)
      PROVE  IInv'
    BY <1>4, RespondKeeps
<1>5. ASSUME NEW c \in Callers, RequestFails(c) \/ BreakBody(c) \/ Timeout(c)
      PROVE  IInv'
    BY <1>5, FailureKeeps
<1>6. ASSUME NEW c \in Callers, EndBody(c)
      PROVE  IInv'
    BY <1>6, EndBodyKeeps
<1>7. ASSUME NEW c \in Callers, Settle(c)
      PROVE  IInv'
    BY <1>7, SettleKeeps
<1>. QED  BY <1>1, <1>2, <1>3, <1>4, <1>5, <1>6, <1>7 DEF Next

(* The invariant the theorems below rest on: one registered fetch per URL, its timer *)
(* bounding what it serves, and a cache sorted by the age of its entries.         *)
THEOREM Invariance == Spec => []IInv
BY InitHolds, NextKeeps, PTL DEF Spec

(* Every variable keeps its type, and the cache its size, for any number of callers. *)
THEOREM TypeCorrect == Spec => []TypeOK
<1>1. IInv => TypeOK
    BY DEF IInv
<1>. QED  BY <1>1, Invariance, PTL

(* A page is never older than its time to live and the timeout.                   *)
THEOREM AnswersAreFresh == Spec => []FreshAnswers
<1>1. IInv => FreshAnswers
    BY DEF IInv
<1>. QED  BY <1>1, Invariance, PTL

(* No URL has two fetches, two entries, or one of each.                           *)
THEOREM SingleSource == Spec => []OneSource
<1>1. IInv => OneSource
  <2>. SUFFICES ASSUME IInv, NEW u \in Urls
                PROVE  Cardinality({f \in Callers : Live(f) /\ fetch[f].asked = u})
                          + Cardinality(Hits(u)) <= 1
      BY DEF OneSource
  <2>. DEFINE fetches == {f \in Callers : Live(f) /\ fetch[f].asked = u}
  <2>1. \A f, g \in fetches : f = g
      BY DEF IInv, Registered
  <2>2. \A a, b \in Hits(u) : a = b
      BY DEF Hits, ToSet, IInv, Sorted
  <2>3. fetches = {} \/ Hits(u) = {}
      BY DEF Hits, IInv, NotBoth
  <2>. HIDE DEF fetches
  <2>4. ASSUME NEW S, \A a, b \in S : a = b
        PROVE  Cardinality(S) \in {0, 1}
    <3>1. S = {} \/ \E a : S = {a}
        BY <2>4
    <3>. QED  BY <3>1, FS_EmptySet, FS_Singleton
  <2>5. Cardinality(fetches) \in {0, 1} /\ Cardinality(Hits(u)) \in {0, 1}
      BY <2>1, <2>2, <2>4
  <2>6. Cardinality(fetches) = 0 \/ Cardinality(Hits(u)) = 0
      BY <2>3, FS_EmptySet
  <2>. QED  BY <2>5, <2>6 DEF fetches
<1>. QED  BY <1>1, Invariance, PTL

(* What leaves the cache while it is fresh was there first.                       *)
THEOREM OldestIsEvicted == Spec => EvictsOldest
<1>. DEFINE Kept == \A gone \in ToSet(cache) \ ToSet(cache'),
                       kept \in ToSet(cache) \cap ToSet(cache') :
                          Fresh(gone) => gone.cachedAt <= kept.cachedAt
<1>1. IInv /\ [Next]_vars => Kept
  <2>. SUFFICES ASSUME IInv, [Next]_vars,
                       NEW gone \in ToSet(cache) \ ToSet(cache'),
                       NEW kept \in ToSet(cache) \cap ToSet(cache'), Fresh(gone)
                PROVE  gone.cachedAt <= kept.cachedAt
      OBVIOUS
  <2>1. cache' # cache
      OBVIOUS
  <2>2. CASE \E c \in Callers, u \in Urls : Call(c, u)
    <3>1. PICK u \in Urls : Hits(u) = {} /\ cache' = WithoutExpired(u)
        BY <2>1, <2>2 DEF Call
    <3>. QED  BY <3>1, WithoutExpiredSorted DEF IInv
  <2>3. CASE \E f \in Callers : Settle(f)
    <3>1. PICK entry : cache' = Append(Evicted, entry)
        BY <2>1, <2>3 DEF Settle
    <3>2. Evicted \in Seq(Entries) /\ ToSet(Evicted) \subseteq ToSet(Append(Evicted, entry))
      <4>1. Evicted \in Seq(Entries)
          BY EvictedSorted DEF IInv, Sorted
      <4>2. \A i \in 1 .. Len(Evicted) :
               i \in DOMAIN Append(Evicted, entry) /\ Append(Evicted, entry)[i] = Evicted[i]
          BY <4>1
      <4>. QED  BY <4>1, <4>2 DEF ToSet
    <3>3. Len(cache) > 0 /\ gone = cache[1]
        BY <3>1, <3>2, EvictedSorted DEF IInv
    <3>. QED  BY <3>3 DEF IInv, Sorted, ToSet
  <2>4. CASE UNCHANGED cache
      BY <2>1, <2>4
  <2>. QED  BY <2>2, <2>3, <2>4 DEF Next, vars, Tick, Respond, RequestFails, EndBody, BreakBody,
                                Timeout
<1>2. IInv /\ [Next]_vars => [Kept]_vars
    BY <1>1
<1>. QED  BY <1>2, Invariance, PTL DEF Spec, EvictsOldest
=============================================================================
