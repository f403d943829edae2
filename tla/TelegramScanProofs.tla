-------------------------- MODULE TelegramScanProofs --------------------------
(***************************************************************************)
(* The Telegram scanner, for any number of scans, names, transfers, shutdown *)
(* signals and any cache size: the hand-offs it reports happened, the ones    *)
(* it could see are reported, every scan that ends says why it ended as it    *)
(* did, the ownership cache keeps its bound, and the MTProto client is        *)
(* connected once and once more for every close.                            *)
(*                                                                         *)
(* The invariant has four parts beside the types: the MTProto client, the cache,  *)
(* what the chain vouches for, and where each scan stands.  A scan's stages   *)
(* are its program points; each has what it must have established to be      *)
(* there, and the functions a scan is made of are shown one by one to lead    *)
(* from one such record to another.                                         *)
(***************************************************************************)
EXTENDS TelegramScan, FiniteSetTheorems, SequenceTheorems, TLAPS

-----------------------------------------------------------------------------
(* The types                                                                *)

Confidences == {"low", "medium", "high"}

Handoff == "TELEGRAM_USERNAME_FRAGMENT_HANDOFF"
FragmentDown == "TELEGRAM_FRAGMENT_API_UNAVAILABLE"
FragmentOff == "TELEGRAM_FRAGMENT_API_NOT_CONFIGURED"
BotOff == "TELEGRAM_BOT_API_NOT_CONFIGURED"
MtprotoDown == "TELEGRAM_MTPROTO_LOOKUP_UNAVAILABLE"

(* The rules about what an input or an entity shows. *)
Suspicions ==
    {"TELEGRAM_HANDLE_IMPERSONATES_PROJECT", "TELEGRAM_DISPLAY_NAME_HOMOGLYPH",
     "TELEGRAM_FAKE_WALLET_BOT", "TELEGRAM_FAKE_VALIDATOR_BOT", "TELEGRAM_KNOWN_RISK_PROJECT",
     "TELEGRAM_USERNAME_RECENTLY_CHANGED", "TELEGRAM_ENTITY_VERY_NEW",
     "TELEGRAM_GIFT_FROM_UNKNOWN_PUBLISHER"}

AllRules == Suspicions \cup Reasons \cup {Handoff, FragmentDown, FragmentOff, MtprotoDown}

AllFindings == [rule : AllRules, confidence : Confidences]

Suspected == [rule : Suspicions, confidence : Confidences]

Answers == [status : {"ok", "not_found", "failed"}, owner : Nat, transfer : Nat, at : Nat,
            truncated : BOOLEAN]

Verdicts == [name : Names, answer : Answers, at : Nat]

Entries == [name : Names, result : Answers, expiresAt : Nat]

Snapshots == [username : Names \cup {Null}, at : Nat]

Resolving == {"getChat", "observed", "getObserved", "getById", "mtproto", "lookup"}

InFragment == {"fragment", "dns", "history"}

Stages == {"idle", "record", "gifts", "done", "rejected"} \cup Resolving \cup InFragment

ScanRecord ==
    [pc : Stages, input : Inputs \cup {Null}, started : Nat, entity : Entities \cup {Null},
     source : {"none", "getChat", "mtproto", "forward"}, id : Ids \cup {0},
     findings : SUBSET AllFindings, todo : Seq(Names), owner : Nat, judged : SUBSET Verdicts]

TypeOK ==
    /\ now \in Nat
    /\ chain \in [Names -> Seq(Nat)]
    /\ config \in Configs
    /\ cache \in Seq(Entries)
    /\ rows \in [Ids -> Seq(Snapshots)]
    /\ scan \in [Scans -> ScanRecord]

-----------------------------------------------------------------------------
(* The MTProto client: every attempt but the one a lookup may wait for was     *)
(* ended by a close of its own.                                              *)
Connections ==
    /\ attempts \in Seq({"connecting", "up", "rejected", "down"})
    /\ clientPromise \in 0 .. Len(attempts)
    /\ resolvedClient \in 0 .. Len(attempts)
    /\ DOMAIN closing = Signals
    /\ \A k \in Signals : \/ closing[k] = NotClosing
                         \/ (closing[k].at = "closing" /\ closing[k].client \in 1 .. Len(attempts))
                         \/ closing[k].at = "closed"
    /\ Len(attempts) <= Cardinality(Closed) + IF clientPromise = 0 THEN 0 ELSE 1

-----------------------------------------------------------------------------
(* What the chain vouches for                                               *)

(* Transfers are recorded in the order of their times.                        *)
Timeline ==
    \A n \in Names :
        /\ \A i \in DOMAIN chain[n] : chain[n][i] <= now
        /\ \A i, j \in DOMAIN chain[n] : i <= j => chain[n][i] <= chain[n][j]
        /\ n \notin Minted => chain[n] = <<>>

(* The transfer an answer tells of happened then, and made its owner the owner *)
(* or came later.                                                            *)
Happened(name, answer) ==
    answer.transfer # 0 =>
        /\ answer.status = "ok"
        /\ answer.transfer \in DOMAIN chain[name]
        /\ chain[name][answer.transfer] = answer.at
        /\ answer.owner <= answer.transfer

(* A transfer the answer does not know of is less than a TTL older than t.      *)
Current(name, answer, t) ==
    ~answer.truncated /\ answer.status # "failed" =>
        \A i \in DOMAIN chain[name] : i > answer.transfer => chain[name][i] + Ttl >= t

Vouched(name, answer, t) == Happened(name, answer) /\ Current(name, answer, t)

CacheIsVouched ==
    \A i \in DOMAIN cache : /\ cache[i].expiresAt <= now + Ttl
                            /\ Vouched(cache[i].name, cache[i].result, cache[i].expiresAt)

(* A reported hand-off is a transfer of a candidate in the window.             *)
Justified(r) ==
    Handoff \in Rules(r.findings) =>
        \E n \in Candidates(r) : \E i \in DOMAIN chain[n] : chain[n][i] + Window >= r.started

(* All that Fragment and the cache told a scan is vouched for.                 *)
Truthful(r) ==
    /\ \A j \in r.judged : j.at <= now /\ Vouched(j.name, j.answer, j.at + 1)
    /\ Justified(r)

CacheIsBounded ==
    /\ Len(cache) <= MaxEntries
    /\ \A i, j \in DOMAIN cache : cache[i].name = cache[j].name => i = j
    /\ \A i \in DOMAIN cache : cache[i].result.status # "failed"

-----------------------------------------------------------------------------
(* Where a scan stands                                                      *)

BlamesBot(r) == BotOff \in Rules(r.findings) => "bot" \notin config

(* Begun and not judged by Fragment yet.                                      *)
Fresh(r) ==
    /\ r \in ScanRecord
    /\ r.input \in Inputs
    /\ r.started <= now
    /\ ReportsPastedHandle(r)
    /\ BlamesBot(r)
    /\ FragmentOff \notin Rules(r.findings)
    /\ r.judged = {}

(* ... and without an entity so far, or a reason for that.                     *)
Asking(r) ==
    /\ Fresh(r)
    /\ r.entity = Null
    /\ r.source = "none"
    /\ Rules(r.findings) \cap Reasons = {}

Explained(r) ==
    IF r.entity = Null THEN Rules(r.findings) \cap Reasons # {}
    ELSE Rules(r.findings) \cap Reasons = {}

Stored(r) == r.entity # Null => rows[r.entity.id] # <<>>

(* A verdict of a failed lookup or of a recent hand-off is reported.           *)
Reported(r) ==
    \A j \in r.judged :
        /\ j.answer.status = "failed" => FragmentDown \in Rules(r.findings)
        /\ j.answer.transfer # 0 /\ j.at - j.answer.at <= Window => Handoff \in Rules(r.findings)

Known(r) ==
    /\ r \in ScanRecord
    /\ r.input \in Inputs
    /\ r.started <= now
    /\ ReportsPastedHandle(r)
    /\ BlamesBot(r)
    /\ Explained(r)
    /\ Reported(r)
    /\ r.source = "forward" => Stored(r)

JudgedNames(r) == {j.name : j \in r.judged}

Pending(r) == {r.todo[i] : i \in DOMAIN r.todo}

(* Looking its candidates up: what is not judged is still to do.               *)
Looking(r) ==
    /\ Known(r)
    /\ FragmentOff \notin Rules(r.findings)
    /\ Pending(r) \subseteq Candidates(r)
    /\ \A n \in Candidates(r) :
          n \in Pending(r) \/ (n \in JudgedNames(r) /\ "fragment" \in config)

(* Fragment has told of every candidate, or is not configured.                 *)
Looked(r) ==
    /\ Known(r)
    /\ "fragment" \in config => Candidates(r) \subseteq JudgedNames(r)
    /\ FragmentOff \in Rules(r.findings) <=> "fragment" \notin config /\ Candidates(r) # {}

(* A channel's handle, which the Bot API is asked for.                         *)
AsksBot(r) == r.input.kind = "channelOrSupergroup" /\ "bot" \in config

Stands(r) ==
    /\ r \in ScanRecord
    /\ r.pc = "idle" => r = Idle
    /\ r.pc \in {"getChat", "observed"} => AsksBot(r)
    /\ r.pc = "rejected" => r.input \in Inputs /\ (r.entity # Null \/ AsksBot(r))
    /\ r.pc \in Resolving => Asking(r)
    /\ r.pc \in InFragment => Looking(r)
    /\ r.pc \in {"dns", "history"} => r.todo # <<>> /\ "fragment" \in config
    /\ r.pc = "history" => r.owner <= Len(chain[Head(r.todo)])
    /\ r.pc = "record" =>
          /\ r.entity # Null
          /\ IF r.source = "forward" THEN Fresh(r) /\ Rules(r.findings) \cap Reasons = {}
             ELSE Looked(r)
    /\ r.pc \in {"gifts", "done"} => Looked(r) /\ Stored(r)
    /\ r.pc = "gifts" => r.entity # Null
    /\ r.pc = "done" => \A f, g \in r.findings : f.rule = g.rule => f = g

ScansStand == \A s \in Scans : Stands(scan[s]) /\ Truthful(scan[s])

IInv ==
    /\ TypeOK
    /\ Connections
    /\ Timeline
    /\ CacheIsBounded
    /\ CacheIsVouched
    /\ ScansStand

-----------------------------------------------------------------------------
(* The ownership cache                                                      *)

(* Kept takes each of its positions once: the rank of a position among them    *)
(* is a bijection.                                                           *)
LEMMA Ranks ==
    ASSUME NEW n \in Nat, NEW P \in SUBSET (1 .. n)
    PROVE  /\ IsFiniteSet(P)
           /\ Cardinality(P) \in Nat
           /\ Cardinality(P) <= n
           /\ \A i \in 1 .. Cardinality(P) :
                 \E k \in P : Cardinality({j \in P : j <= k}) = i
<1> DEFINE N == Cardinality(P)
           Below(k) == {j \in P : j <= k}
           rank == [k \in P |-> Cardinality(Below(k))]
<1>1. IsFiniteSet(P) /\ N \in Nat /\ N <= n
  <2>1. IsFiniteSet(1 .. n) /\ Cardinality(1 .. n) = n
    BY FS_Interval
  <2> QED
    BY <2>1, FS_Subset, FS_CardinalityType
<1>2. \A k \in P : IsFiniteSet(Below(k)) /\ Cardinality(Below(k)) \in 1 .. N
  <2> TAKE k \in P
  <2>1. IsFiniteSet(Below(k)) /\ Cardinality(Below(k)) <= N /\ Cardinality(Below(k)) \in Nat
    BY <1>1, FS_Subset, FS_CardinalityType
  <2>2. k \in Below(k)
    OBVIOUS
  <2>3. Cardinality(Below(k)) # 0
    BY <2>1, <2>2, FS_EmptySet
  <2> QED
    BY <1>1, <2>1, <2>3
<1>3. \A k, l \in P : k < l => rank[k] # rank[l]
  <2> SUFFICES ASSUME NEW k \in P, NEW l \in P, k < l
               PROVE  Cardinality(Below(k)) # Cardinality(Below(l))
    OBVIOUS
  <2>0. \A j \in P : j \in Int
    OBVIOUS
  <2>1. \A j \in P : j <= k => j <= l
    BY <2>0
  <2>2. l <= l /\ ~(l <= k)
    BY <2>0
  <2>3. Below(k) \in SUBSET Below(l) /\ l \in Below(l) /\ l \notin Below(k)
    BY <2>1, <2>2
  <2> HIDE DEF Below
  <2> QED
    BY <1>2, <2>3, FS_Subset
<1>4. rank \in Injection(P, 1 .. N)
  <2>1. rank \in [P -> 1 .. N]
    BY <1>2
  <2>2. \A k, l \in P : rank[k] = rank[l] => k = l
    <3> SUFFICES ASSUME NEW k \in P, NEW l \in P, rank[k] = rank[l], k # l
                 PROVE  FALSE
      OBVIOUS
    <3>1. k < l \/ l < k
      OBVIOUS
    <3> HIDE DEF rank
    <3> QED
      BY <1>3, <3>1
  <2> HIDE DEF rank
  <2> QED
    BY <2>1, <2>2 DEF Injection, IsInjective
<1>5. rank \in Surjection(P, 1 .. N)
  <2>1. IsFiniteSet(1 .. N) /\ Cardinality(1 .. N) = N
    BY <1>1, FS_Interval
  <2> HIDE DEF rank, N
  <2> QED
    BY <1>4, <2>1, FS_Injection DEF N
<1> QED
  BY <1>1, <1>5 DEF Surjection

LEMMA KeptEntries ==
    ASSUME NEW E, NEW c \in Seq(E), NEW P \in SUBSET DOMAIN c
    PROVE  /\ Kept(c, P) \in Seq(E)
           /\ Len(Kept(c, P)) = Cardinality(P)
           /\ Cardinality(P) \in Nat /\ Cardinality(P) <= Len(c) /\ IsFiniteSet(P)
           /\ \E at \in [1 .. Cardinality(P) -> P] :
                 /\ \A i \in 1 .. Cardinality(P) : Kept(c, P)[i] = c[at[i]]
                 /\ \A i, j \in 1 .. Cardinality(P) : at[i] = at[j] => i = j
<1> DEFINE N == Cardinality(P)
           Rank(k) == Cardinality({j \in P : j <= k})
           at == [i \in 1 .. N |-> CHOOSE k \in P : Rank(k) = i]
<1>1. /\ IsFiniteSet(P) /\ N \in Nat /\ N <= Len(c)
      /\ \A i \in 1 .. N : \E k \in P : Rank(k) = i
  <2>1. DOMAIN c = 1 .. Len(c) /\ Len(c) \in Nat
    OBVIOUS
  <2> QED
    BY <2>1, Ranks
<1>2. \A i \in 1 .. N : at[i] \in P /\ Rank(at[i]) = i
  <2> HIDE DEF Rank
  <2> QED
    BY <1>1
<1>3. Kept(c, P) = [i \in 1 .. N |-> c[at[i]]]
  BY DEF Kept
<1>4. \A i \in 1 .. N : c[at[i]] \in E
  <2> HIDE DEF at, N, Rank
  <2> QED
    BY <1>2
<1>5. Kept(c, P) \in Seq(E) /\ Len(Kept(c, P)) = N
  <2> HIDE DEF at, N, Rank
  <2> QED
    BY <1>1, <1>3, <1>4
<1>6. at \in [1 .. N -> P] /\ \A i, j \in 1 .. N : at[i] = at[j] => i = j
  <2>1. at \in [1 .. N -> P]
    BY <1>2
  <2> HIDE DEF at, N, Rank
  <2> QED
    BY <1>2, <2>1
<1> HIDE DEF at, N, Rank
<1>7. \A i \in 1 .. N : Kept(c, P)[i] = c[at[i]]
  BY <1>3
<1> QED
  BY <1>1, <1>5, <1>6, <1>7 DEF N

OncePerName(c) == \A i, j \in DOMAIN c : c[i].name = c[j].name => i = j

(* Deleting entries keeps the others, each once.                              *)
LEMMA KeptFrom ==
    ASSUME NEW c \in Seq(Entries), NEW P \in SUBSET DOMAIN c
    PROVE  /\ Kept(c, P) \in Seq(Entries)
           /\ Len(Kept(c, P)) = Cardinality(P)
           /\ Cardinality(P) \in Nat /\ Cardinality(P) <= Len(c) /\ IsFiniteSet(P)
           /\ \A i \in DOMAIN Kept(c, P) : \E k \in P : Kept(c, P)[i] = c[k]
           /\ OncePerName(c) => OncePerName(Kept(c, P))
<1>1. /\ Kept(c, P) \in Seq(Entries)
      /\ Len(Kept(c, P)) = Cardinality(P)
      /\ Cardinality(P) \in Nat /\ Cardinality(P) <= Len(c) /\ IsFiniteSet(P)
  BY KeptEntries
<1>2. DOMAIN Kept(c, P) = 1 .. Cardinality(P)
  BY <1>1
<1>3. PICK at \in [1 .. Cardinality(P) -> P] :
         /\ \A i \in 1 .. Cardinality(P) : Kept(c, P)[i] = c[at[i]]
         /\ \A i, j \in 1 .. Cardinality(P) : at[i] = at[j] => i = j
  BY KeptEntries
<1>4. \A i \in DOMAIN Kept(c, P) : at[i] \in P /\ Kept(c, P)[i] = c[at[i]]
  BY <1>2, <1>3
<1>5. OncePerName(c) => OncePerName(Kept(c, P))
  BY <1>2, <1>3, <1>4 DEF OncePerName
<1> QED
  BY <1>1, <1>4, <1>5

(* get reorders entries and drops some.                                       *)
LEMMA AfterGetKeeps ==
    ASSUME NEW c \in Seq(Entries), NEW name, NEW t, OncePerName(c)
    PROVE  LET d == AfterGet(c, name, t)
           IN  /\ d \in Seq(Entries)
               /\ Len(d) <= Len(c)
               /\ OncePerName(d)
               /\ \A i \in DOMAIN d : \E k \in DOMAIN c : d[i] = c[k]
<1> DEFINE A == {i \in DOMAIN c : c[i].name # name}
           B == {i \in DOMAIN c : c[i].name = name /\ Live(c[i], t)}
           a == Kept(c, A)
           b == Kept(c, B)
           d == AfterGet(c, name, t)
<1>1. d = a \o b
  BY DEF AfterGet, Without
<1>2. /\ a \in Seq(Entries) /\ Len(a) = Cardinality(A) /\ Cardinality(A) \in Nat /\ IsFiniteSet(A)
      /\ \A i \in DOMAIN a : \E k \in A : a[i] = c[k]
      /\ OncePerName(a)
  <2>1. A \in SUBSET DOMAIN c
    OBVIOUS
  <2> HIDE DEF A
  <2> QED
    BY <2>1, KeptFrom
<1>3. /\ b \in Seq(Entries) /\ Len(b) = Cardinality(B) /\ Cardinality(B) \in Nat /\ IsFiniteSet(B)
      /\ \A i \in DOMAIN b : \E k \in B : b[i] = c[k]
      /\ OncePerName(b)
  <2>1. B \in SUBSET DOMAIN c
    OBVIOUS
  <2> HIDE DEF B
  <2> QED
    BY <2>1, KeptFrom
<1>4. Cardinality(A) + Cardinality(B) <= Len(c)
  <2>1. A \cap B = {} /\ A \cup B \in SUBSET DOMAIN c
    OBVIOUS
  <2>2. Cardinality(A \cup B) = Cardinality(A) + Cardinality(B)
    <3> HIDE DEF A, B, a, b
    <3>1. Cardinality(A \cup B) = Cardinality(A) + Cardinality(B) - Cardinality(A \cap B)
      BY <1>2, <1>3, FS_Union
    <3>2. Cardinality(A \cap B) = 0
      BY <2>1, FS_EmptySet
    <3> QED
      BY <1>2, <1>3, <3>1, <3>2
  <2>3. Cardinality(A \cup B) <= Len(c)
    <3> HIDE DEF A, B
    <3> QED
      BY <2>1, KeptFrom
  <2> QED
    BY <2>2, <2>3
<1>5. \A i \in DOMAIN a : a[i].name # name /\ \E k \in DOMAIN c : a[i] = c[k]
  BY <1>2
<1>6. \A i \in DOMAIN b : b[i].name = name /\ \E k \in DOMAIN c : b[i] = c[k]
  BY <1>3
<1> HIDE DEF A, B, a, b, d
<1>7. /\ d \in Seq(Entries) /\ Len(d) = Len(a) + Len(b)
      /\ \A i \in DOMAIN d : \/ (i \in DOMAIN a /\ d[i] = a[i])
                             \/ (i - Len(a) \in DOMAIN b /\ d[i] = b[i - Len(a)])
  <2>1. a \in Seq(Entries) /\ b \in Seq(Entries) /\ Len(a) \in Nat /\ Len(b) \in Nat
    BY <1>2, <1>3
  <2>2. d \in Seq(Entries) /\ Len(d) = Len(a) + Len(b)
    BY <1>1, <2>1
  <2>3. \A i \in 1 .. Len(a) + Len(b) : d[i] = IF i <= Len(a) THEN a[i] ELSE b[i - Len(a)]
    BY <1>1, <2>1
  <2>4. DOMAIN d = 1 .. Len(a) + Len(b) /\ DOMAIN a = 1 .. Len(a) /\ DOMAIN b = 1 .. Len(b)
    BY <2>1, <2>2
  <2> QED
    BY <2>1, <2>2, <2>3, <2>4
<1>8. OncePerName(d)
  <2> SUFFICES ASSUME NEW i \in DOMAIN d, NEW j \in DOMAIN d, d[i].name = d[j].name
               PROVE  i = j
    BY DEF OncePerName
  <2>1. i \in Int /\ j \in Int /\ Len(a) \in Int
    BY <1>2, <1>7
  <2>2. CASE i \in DOMAIN a /\ d[i] = a[i] /\ j \in DOMAIN a /\ d[j] = a[j]
    BY <1>2, <2>2 DEF OncePerName
  <2>3. CASE i - Len(a) \in DOMAIN b /\ d[i] = b[i - Len(a)] /\ j - Len(a) \in DOMAIN b /\ d[j] = b[j - Len(a)]
    <3>1. i - Len(a) = j - Len(a)
      BY <1>3, <2>3 DEF OncePerName
    <3> QED
      BY <2>1, <3>1
  <2> QED
    BY <1>5, <1>6, <1>7, <2>2, <2>3
<1>9. \A i \in DOMAIN d : \E k \in DOMAIN c : d[i] = c[k]
  BY <1>5, <1>6, <1>7
<1>10. Len(d) <= Len(c)
  BY <1>2, <1>3, <1>4, <1>7
<1> QED
  BY <1>7, <1>8, <1>9, <1>10 DEF d

(* set keeps the bound: room is made before an entry is added, and a present   *)
(* name keeps its place.                                                     *)
LEMMA AfterSetKeeps ==
    ASSUME NEW c \in Seq(Entries), NEW name \in Names, NEW answer \in Answers, NEW t \in Nat,
           OncePerName(c), Len(c) <= MaxEntries
    PROVE  LET d == AfterSet(c, name, answer, t)
               entry == [name |-> name, result |-> answer, expiresAt |-> t + Ttl]
           IN  /\ d \in Seq(Entries)
               /\ Len(d) <= MaxEntries
               /\ OncePerName(d)
               /\ \A i \in DOMAIN d : \/ \E k \in DOMAIN c : d[i] = c[k]
                                      \/ (d[i] = entry /\ shouldCache(answer))
<1> DEFINE d == AfterSet(c, name, answer, t)
           entry == [name |-> name, result |-> answer, expiresAt |-> t + Ttl]
           live == evictExpired(c, t)
           room == MakeRoom(live)
           absent == \A i \in DOMAIN room : room[i].name # name
<1>1. CASE ~shouldCache(answer)
  BY <1>1 DEF AfterSet
<1>2. CASE shouldCache(answer)
  <2>1. MaxEntries \in Nat \ {0} /\ Ttl \in Nat
    BY OwnershipCacheAssumption
  <2>2. entry \in Entries /\ entry.name = name
    BY <2>1 DEF Entries
  <2>3. /\ live \in Seq(Entries) /\ Len(live) <= MaxEntries /\ OncePerName(live)
        /\ \A i \in DOMAIN live : \E k \in DOMAIN c : live[i] = c[k]
    <3> DEFINE P == {i \in DOMAIN c : Live(c[i], t)}
    <3>1. live = Kept(c, P) /\ P \in SUBSET DOMAIN c
      BY DEF evictExpired
    <3>2. Len(live) \in Nat
      BY <3>1, KeptFrom
    <3> HIDE DEF P, live
    <3> QED
      BY <2>1, <3>1, KeptFrom, Len(c) \in Nat
  <2> HIDE DEF entry, live
  <2>4. /\ room \in Seq(Entries) /\ Len(room) < MaxEntries /\ OncePerName(room)
        /\ \A i \in DOMAIN room : \E k \in DOMAIN live : room[i] = live[k]
    <3>1. CASE Len(live) >= MaxEntries
      <4>1. room = Tail(live) /\ live # <<>>
        BY <2>1, <2>3, <3>1 DEF MakeRoom
      <4> HIDE DEF room
      <4>2. room \in Seq(Entries) /\ Len(room) = Len(live) - 1
        BY <2>3, <4>1
      <4>3. \A i \in DOMAIN room : i + 1 \in DOMAIN live /\ room[i] = live[i + 1] /\ i \in Int
        BY <2>3, <4>1
      <4>4. OncePerName(room)
        <5> SUFFICES ASSUME NEW i \in DOMAIN room, NEW j \in DOMAIN room,
                            room[i].name = room[j].name
                     PROVE  i = j
          BY DEF OncePerName
        <5>1. i + 1 = j + 1
          BY <2>3, <4>3 DEF OncePerName
        <5> QED
          BY <4>3, <5>1
      <4>5. Len(room) < MaxEntries
        BY <2>1, <2>3, <4>2
      <4> QED
        BY <4>2, <4>3, <4>4, <4>5
    <3>2. CASE Len(live) < MaxEntries
      <4>1. room = live
        BY <2>1, <2>3, <3>2, Len(live) \in Nat DEF MakeRoom
      <4> QED
        BY <2>3, <3>2, <4>1
    <3> QED
      BY <2>1, <2>3, <3>1, <3>2
  <2>5. d = IF absent THEN Append(room, entry)
            ELSE [i \in DOMAIN room |-> IF room[i].name = name THEN entry ELSE room[i]]
    BY <1>2 DEF AfterSet, live, entry
  <2> HIDE DEF room, d
  <2>6. CASE absent
    <3>1. /\ d \in Seq(Entries) /\ Len(d) = Len(room) + 1
          /\ \A i \in DOMAIN d : (i \in DOMAIN room /\ d[i] = room[i]) \/ (i = Len(room) + 1 /\ d[i] = entry)
      <4>1. d = Append(room, entry) /\ room \in Seq(Entries) /\ entry \in Entries
        BY <2>2, <2>4, <2>5, <2>6
      <4> HIDE DEF absent
      <4> QED
        BY <4>1
    <3>2. OncePerName(d)
      BY <2>2, <2>4, <2>6, <3>1 DEF OncePerName
    <3>3. Len(d) <= MaxEntries
      BY <2>1, <2>4, <3>1
    <3> QED
      BY <1>2, <2>3, <2>4, <3>1, <3>2, <3>3 DEF d, entry
  <2>7. CASE ~absent
    <3>1. d = [i \in DOMAIN room |-> IF room[i].name = name THEN entry ELSE room[i]]
      BY <2>5, <2>7
    <3>2. DOMAIN room = 1 .. Len(room) /\ Len(room) \in Nat
      BY <2>4
    <3>3. \A i \in DOMAIN room : d[i] \in Entries
      BY <2>2, <2>4, <3>1
    <3>4. d \in Seq(Entries) /\ Len(d) = Len(room) /\ DOMAIN d = DOMAIN room
      BY <3>1, <3>2, <3>3
    <3>5. \A i \in DOMAIN room : d[i].name = room[i].name
      BY <2>2, <3>1
    <3>6. OncePerName(d)
      BY <2>4, <3>4, <3>5 DEF OncePerName
    <3>7. \A i \in DOMAIN d : \/ \E k \in DOMAIN c : d[i] = c[k]
                              \/ (d[i] = entry /\ shouldCache(answer))
      BY <1>2, <2>3, <2>4, <3>1, <3>4
    <3>8. Len(d) <= MaxEntries
      BY <2>1, <2>4, <3>2, <3>4
    <3> QED
      BY <3>4, <3>6, <3>7, <3>8 DEF d, entry
  <2> QED
    BY <2>6, <2>7
<1> QED
  BY <1>1, <1>2

-----------------------------------------------------------------------------
(* The MTProto client                                                       *)

LEMMA ClosedIsFinite == IsFiniteSet(Closed) /\ Cardinality(Closed) \in Nat
  BY MtprotoAssumption, FS_Subset, FS_CardinalityType DEF Closed

(* A close that is over counts one more, and gives up the promise.             *)
LEMMA ForgetCounts ==
    ASSUME NEW k \in Signals, Connections, closing[k].at # "closed", Forget(k)
    PROVE  /\ Cardinality(Closed') = Cardinality(Closed) + 1
           /\ Len(attempts) <= Cardinality(Closed')
           /\ DOMAIN closing' = Signals
           /\ \A j \in Signals : j # k => closing'[j] = closing[j]
           /\ closing'[k].at = "closed"
           /\ clientPromise' = 0 /\ resolvedClient' = 0
<1>1. /\ DOMAIN closing' = Signals /\ closing'[k].at = "closed"
      /\ \A j \in Signals : j # k => closing'[j] = closing[j]
      /\ clientPromise' = 0 /\ resolvedClient' = 0
  BY DEF Forget, Connections
<1>2. Closed' = Closed \cup {k} /\ k \notin Closed
  BY <1>1 DEF Closed
<1>3. Cardinality(Closed') = Cardinality(Closed) + 1
  BY <1>2, ClosedIsFinite, FS_AddElement
<1>4. Len(attempts) <= Cardinality(Closed) + 1
  <2>1. Len(attempts) \in Nat /\ Len(attempts) <= Cardinality(Closed) + (IF clientPromise = 0 THEN 0 ELSE 1)
    BY DEF Connections
  <2> QED
    BY <2>1, ClosedIsFinite
<1> QED
  BY <1>1, <1>3, <1>4, ClosedIsFinite

LEMMA ConnectionsStay ==
    ASSUME Connections, UNCHANGED <<attempts, clientPromise, resolvedClient, closing>>
    PROVE  Connections'
  BY DEF Connections, Closed

LEMMA GetClientConnects ==
    ASSUME NEW s \in Scans, Connections, GetClient(s)
    PROVE  Connections'
<1> DEFINE A == {"connecting", "up", "rejected", "down"}
<1>1. /\ attempts \in Seq(A) /\ Len(attempts) \in Nat
      /\ clientPromise \in 0 .. Len(attempts) /\ resolvedClient \in 0 .. Len(attempts)
      /\ Len(attempts) <= Cardinality(Closed) + (IF clientPromise = 0 THEN 0 ELSE 1)
      /\ UNCHANGED <<resolvedClient, closing>>
  BY DEF Connections, GetClient
<1>2. Closed' = Closed
  BY <1>1 DEF Closed
<1>3. CASE clientPromise # 0
  BY <1>1, <1>3, ConnectionsStay DEF GetClient
<1>4. CASE clientPromise = 0
  <2>1. attempts' = Append(attempts, "connecting") /\ clientPromise' = Len(attempts) + 1
    BY <1>4 DEF GetClient
  <2>2. attempts' \in Seq(A) /\ Len(attempts') = Len(attempts) + 1
    BY <1>1, <2>1
  <2>3. Len(attempts') <= Cardinality(Closed') + IF clientPromise' = 0 THEN 0 ELSE 1
    BY <1>1, <1>2, <1>4, <2>1, <2>2, ClosedIsFinite
  <2>4. clientPromise' \in 0 .. Len(attempts') /\ resolvedClient' \in 0 .. Len(attempts')
    BY <1>1, <2>1, <2>2
  <2>5. \A k \in Signals : \/ closing'[k] = NotClosing
                           \/ (closing'[k].at = "closing" /\ closing'[k].client \in 1 .. Len(attempts'))
                           \/ closing'[k].at = "closed"
    BY <1>1, <2>2 DEF Connections
  <2> QED
    BY <1>1, <2>2, <2>3, <2>4, <2>5 DEF Connections
<1> QED
  BY <1>3, <1>4

(* An attempt that changes its state is still the same attempt.                *)
LEMMA ConnectionSettles ==
    ASSUME Connections, Connection
    PROVE  Connections'
<1> DEFINE A == {"connecting", "up", "rejected", "down"}
<1>1. PICK g \in DOMAIN attempts : Connected(g) \/ Rejected(g)
  BY DEF Connection
<1>2. attempts \in Seq(A) /\ g \in 1 .. Len(attempts)
  BY DEF Connections
<1>3. /\ attempts' = [attempts EXCEPT ![g] = "up"] \/ attempts' = [attempts EXCEPT ![g] = "rejected"]
      /\ resolvedClient' = g \/ resolvedClient' = resolvedClient
      /\ UNCHANGED <<clientPromise, closing>>
  BY <1>1 DEF Connected, Rejected
<1>4. attempts' \in Seq(A) /\ Len(attempts') = Len(attempts)
  BY <1>2, <1>3
<1>5. Closed' = Closed
  BY <1>3 DEF Closed
<1>6. resolvedClient' \in 0 .. Len(attempts)
  BY <1>2, <1>3 DEF Connections
<1> QED
  BY <1>3, <1>4, <1>5, <1>6 DEF Connections

LEMMA ShutdownCloses ==
    ASSUME NEW k \in Signals, Connections, Shutdown(k)
    PROVE  Connections'
<1> DEFINE A == {"connecting", "up", "rejected", "down"}
<1>0. /\ attempts \in Seq(A) /\ Len(attempts) \in Nat
      /\ DOMAIN closing = Signals
      /\ clientPromise \in 0 .. Len(attempts) /\ resolvedClient \in 0 .. Len(attempts)
      /\ \A j \in Signals : \/ closing[j] = NotClosing
                            \/ (closing[j].at = "closing" /\ closing[j].client \in 1 .. Len(attempts))
                            \/ closing[j].at = "closed"
  BY DEF Connections
<1>1. ASSUME Forget(k), closing[k].at # "closed", attempts' \in Seq(A), Len(attempts') = Len(attempts)
      PROVE  Connections'
  <2>1. /\ Len(attempts) <= Cardinality(Closed')
        /\ DOMAIN closing' = Signals
        /\ \A j \in Signals : j # k => closing'[j] = closing[j]
        /\ closing'[k].at = "closed"
        /\ clientPromise' = 0 /\ resolvedClient' = 0
    BY <1>1, ForgetCounts
  <2>2. \A j \in Signals : \/ closing'[j] = NotClosing
                           \/ (closing'[j].at = "closing" /\ closing'[j].client \in 1 .. Len(attempts'))
                           \/ closing'[j].at = "closed"
    BY <1>0, <1>1, <2>1
  <2>3. Len(attempts') <= Cardinality(Closed') + IF clientPromise' = 0 THEN 0 ELSE 1
    <3>1. Cardinality(Closed') = Cardinality(Closed) + 1
      BY <1>1, ForgetCounts
    <3> QED
      BY <1>1, <2>1, <3>1, ClosedIsFinite
  <2> QED
    BY <1>0, <1>1, <2>1, <2>2, <2>3 DEF Connections
<1>2. CASE /\ closing[k] = NotClosing /\ resolvedClient = 0
           /\ Forget(k) /\ UNCHANGED attempts
  BY <1>0, <1>1, <1>2 DEF NotClosing
<1>3. CASE /\ closing[k] = NotClosing /\ resolvedClient # 0
           /\ closing' = [closing EXCEPT ![k] = [at |-> "closing", client |-> resolvedClient]]
           /\ UNCHANGED <<attempts, clientPromise, resolvedClient, call>>
  <2>1. /\ DOMAIN closing' = Signals
        /\ \A j \in Signals : j # k => closing'[j] = closing[j]
        /\ closing'[k].at = "closing" /\ closing'[k].client = resolvedClient
    BY <1>0, <1>3
  <2>2. Closed' = Closed
    BY <1>3, <2>1 DEF Closed, NotClosing
  <2>3. \A j \in Signals : \/ closing'[j] = NotClosing
                           \/ (closing'[j].at = "closing" /\ closing'[j].client \in 1 .. Len(attempts'))
                           \/ closing'[j].at = "closed"
    BY <1>0, <1>3, <2>1
  <2> QED
    BY <1>0, <1>3, <2>1, <2>2, <2>3 DEF Connections
<1>4. CASE Disconnected(k)
  <2>1. closing[k].at = "closing" /\ closing[k].client \in 1 .. Len(attempts)
    BY <1>0, <1>4 DEF Disconnected, NotClosing
  <2>2. attempts' = [attempts EXCEPT ![closing[k].client] = "down"] /\ Forget(k)
    BY <1>4 DEF Disconnected
  <2>3. attempts' \in Seq(A) /\ Len(attempts') = Len(attempts)
    BY <1>0, <2>1, <2>2
  <2> QED
    BY <1>1, <2>1, <2>2, <2>3
<1> QED
  BY <1>2, <1>3, <1>4 DEF Shutdown, Close

LEMMA ConnectionsInvariant ==
    ASSUME Connections, [Next]_vars
    PROVE  Connections'
<1> USE DEF mtprotoVars
<1>1. CASE UNCHANGED mtprotoVars
  BY <1>1, ConnectionsStay
<1>2. ASSUME NEW s \in Scans, Lookup(s) PROVE Connections'
  BY <1>2, GetClientConnects DEF Lookup
<1>3. ASSUME NEW s \in Scans, SendLookup(s) PROVE Connections'
  BY <1>3, ConnectionsStay DEF SendLookup, Invoke
<1>4. ASSUME NEW s \in Scans, LookedUp(s) PROVE Connections'
  <2>1. UNCHANGED <<attempts, clientPromise, resolvedClient, closing>>
    BY <1>4 DEF LookedUp, resolveUsername
  <2> QED
    BY <2>1, ConnectionsStay
<1>5. CASE Connection
  BY <1>5, ConnectionSettles
<1>6. ASSUME NEW k \in Signals, Shutdown(k) PROVE Connections'
  BY <1>6, ShutdownCloses
<1>7. ASSUME NEW s \in Scans, Start(s) PROVE UNCHANGED mtprotoVars
  BY <1>7 DEF Start, Continue
<1>8. ASSUME NEW s \in Scans, GetChat(s) \/ FindObserved(s) \/ GetObserved(s) \/ GetById(s)
      PROVE  UNCHANGED mtprotoVars
  BY <1>8 DEF GetChat, FindObserved, GetObserved, GetById, Continue
<1>9. ASSUME NEW s \in Scans, Fragment(s) PROVE UNCHANGED mtprotoVars
  BY <1>9 DEF Fragment, FragmentDisabled, GetCached, GetDnsInfo, GetHistory, Answered, Continue
<1>10. ASSUME NEW s \in Scans, RecordSnapshot(s) \/ GiftsOfChat(s) PROVE UNCHANGED mtprotoVars
  BY <1>10 DEF RecordSnapshot, GiftsOfChat, Continue
<1>11. CASE UNCHANGED vars
  BY <1>1, <1>11 DEF vars
<1>12. CASE Tick \/ \E n \in Names : Transfer(n)
  BY <1>1, <1>12 DEF Tick, Transfer
<1> QED
  BY <1>1, <1>2, <1>3, <1>4, <1>5, <1>6, <1>7, <1>8, <1>9, <1>10, <1>11, <1>12
     DEF Next, Proceed, Resolve

-----------------------------------------------------------------------------
(* Findings                                                                 *)

LEMMA RulesOfUnion == \A F, G : Rules(F \cup G) = Rules(F) \cup Rules(G)
  BY DEF Rules

LEMMA RuleOfHealth ==
    \A rule : Rules(Health(rule)) = {rule} /\ (rule \in AllRules => Health(rule) \subseteq AllFindings)
  BY DEF Rules, Health, Finding, AllFindings, Confidences

LEMMA RulesOfSuspected ==
    \A G \in SUBSET Suspected : Rules(G) \subseteq Suspicions /\ G \subseteq AllFindings
<1> SUFFICES ASSUME NEW G \in SUBSET Suspected
             PROVE  Rules(G) \subseteq Suspicions /\ G \subseteq AllFindings
  OBVIOUS
<1>1. \A f \in G : f.rule \in Suspicions /\ f \in [rule : Suspicions, confidence : Confidences]
  BY DEF Suspected
<1>2. Suspicions \subseteq AllRules
  BY DEF AllRules
<1>3. \A f \in G : f \in [rule : AllRules, confidence : Confidences]
  <2> HIDE DEF Suspicions, AllRules, Confidences
  <2> QED
    BY <1>1, <1>2
<1> QED
  BY <1>1, <1>3 DEF Rules, AllFindings

(* What no input, entity, age, change or gift is about.                        *)
LEMMA OtherRules ==
    /\ Suspicions \cap Reasons = {}
    /\ {Handoff, FragmentDown, FragmentOff, MtprotoDown} \cap (Suspicions \cup Reasons) = {}
    /\ Handoff # FragmentDown /\ Handoff # FragmentOff /\ Handoff # MtprotoDown
    /\ FragmentDown # FragmentOff /\ FragmentDown # MtprotoDown /\ FragmentOff # MtprotoDown
    /\ BotOff \in Reasons
  BY DEF Suspicions, Reasons, providerFailure, Handoff, FragmentDown, FragmentOff, BotOff, MtprotoDown

LEMMA FindingIsSuspected ==
    \A rule \in Suspicions, c \in Confidences : Finding(rule, c) \in Suspected
  BY DEF Finding, Suspected

LEMMA HandleFindings == \A name : checkCandidateHandle(name) \subseteq Suspected
<1> TAKE name
<1>1. "TELEGRAM_HANDLE_IMPERSONATES_PROJECT" \in Suspicions
  BY DEF Suspicions
<1>2. \A n : matchConfidence(Profiles[n].strength) \in Confidences
  BY DEF matchConfidence, Confidences
<1> QED
  BY <1>1, <1>2, FindingIsSuspected DEF checkCandidateHandle

LEMMA BotFindings == \A names, isBot : checkSensitiveBotCategory(names, isBot) \subseteq Suspected
<1> TAKE names, isBot
<1>1. \A i : (IF Profiles[names[i]].category = "wallet" THEN "TELEGRAM_FAKE_WALLET_BOT"
              ELSE "TELEGRAM_FAKE_VALIDATOR_BOT") \in Suspicions
  BY DEF Suspicions
<1>2. \A n : matchConfidence(Profiles[n].strength) \in Confidences
  BY DEF matchConfidence, Confidences
<1> QED
  BY <1>1, <1>2, FindingIsSuspected DEF checkSensitiveBotCategory

LEMMA RiskFindings == \A name \in Names \cup {Null} : checkKnownRiskProject(name) \subseteq Suspected
<1> TAKE name \in Names \cup {Null}
<1>1. "TELEGRAM_KNOWN_RISK_PROJECT" \in Suspicions
  BY DEF Suspicions
<1>2. \A n \in Names : Profiles[n].riskProject # "none" => Profiles[n].riskProject \in Confidences
  BY TelegramScanAssumption DEF Confidences
<1> QED
  BY <1>1, <1>2, FindingIsSuspected DEF checkKnownRiskProject, Named

LEMMA InputFindingsAreSuspected == \A x \in Inputs : InputFindings(x) \subseteq Suspected
<1> TAKE x \in Inputs
<1>1. x.handle \in Names \cup {Null}
  BY TelegramScanAssumption
<1> QED
  BY <1>1, HandleFindings, BotFindings, RiskFindings DEF InputFindings

LEMMA ResolvedFindingsAreSuspected ==
    \A x, e : e \in Entities => ResolvedFindings(x, e) \subseteq Suspected
<1> SUFFICES ASSUME NEW x, NEW e \in Entities
             PROVE  ResolvedFindings(x, e) \subseteq Suspected
  OBVIOUS
<1>1. e.username \in Names \cup {Null}
  BY TelegramScanAssumption
<1>2. checkDisplay(e) \subseteq Suspected
  <2>1. "TELEGRAM_DISPLAY_NAME_HOMOGLYPH" \in Suspicions
    BY DEF Suspicions
  <2>2. matchConfidence(e.display) \in Confidences
    BY DEF matchConfidence, Confidences
  <2> QED
    BY <2>1, <2>2, FindingIsSuspected DEF checkDisplay
<1> QED
  BY <1>1, <1>2, HandleFindings, BotFindings, RiskFindings DEF ResolvedFindings, checkResolvedEntity

LEMMA AgeFindings == \A e \in Entities : \A F : checkEntityAge(e, F) \subseteq Suspected
<1> TAKE e \in Entities
<1> TAKE F
<1>1. "TELEGRAM_ENTITY_VERY_NEW" \in Suspicions
  BY DEF Suspicions
<1>2. e.veryNew # "none" => ageConfidence(e.veryNew) \in Confidences
  BY TelegramScanAssumption DEF ageConfidence, Confidences
<1> QED
  BY <1>1, <1>2, FindingIsSuspected DEF checkEntityAge

LEMMA SnapshotFindings == \A a, b : ChangeFindings(a, b) \subseteq Suspected
<1> TAKE a, b
<1>1. "TELEGRAM_USERNAME_RECENTLY_CHANGED" \in Suspicions /\ "high" \in Confidences
  BY DEF Suspicions, Confidences
<1> QED
  BY <1>1, FindingIsSuspected DEF ChangeFindings

LEMMA GiftFindings ==
    \A c \in {"medium", "high"} : {Finding("TELEGRAM_GIFT_FROM_UNKNOWN_PUBLISHER", c)} \subseteq Suspected
<1>1. "TELEGRAM_GIFT_FROM_UNKNOWN_PUBLISHER" \in Suspicions /\ {"medium", "high"} \subseteq Confidences
  BY DEF Suspicions, Confidences
<1> QED
  BY <1>1, FindingIsSuspected

LEMMA Ranked ==
    /\ \A c \in Confidences : confidenceRank(c) \in Nat
    /\ \A c, d \in Confidences : confidenceRank(c) = confidenceRank(d) => c = d
    /\ \A c \in Confidences : confidenceRank(c) <= confidenceRank("high")
    /\ \A c \in Confidences : confidenceRank("low") <= confidenceRank(c)
    /\ \A c \in Confidences : c # "high" => confidenceRank(c) <= confidenceRank("medium")
<1>1. confidenceRank("low") = 0 /\ confidenceRank("medium") = 1 /\ confidenceRank("high") = 2
  BY DEF confidenceRank
<1> QED
  BY <1>1 DEF Confidences

(* mergeResults drops no rule, no confidence, and keeps each rule once.         *)
LEMMA Merged ==
    ASSUME NEW F \in SUBSET AllFindings
    PROVE  /\ mergeResults(F) \subseteq F
           /\ \A f \in F : \E g \in mergeResults(F) :
                 g.rule = f.rule /\ confidenceRank(f.confidence) <= confidenceRank(g.confidence)
           /\ \A f, g \in mergeResults(F) : f.rule = g.rule => f = g
           /\ Rules(mergeResults(F)) = Rules(F)
<1>1. \A f \in F : f.confidence \in Confidences /\ f = [rule |-> f.rule, confidence |-> f.confidence]
  BY DEF AllFindings
<1>2. mergeResults(F) \subseteq F
  BY DEF mergeResults
<1>3. ASSUME NEW f \in F
      PROVE  \E g \in mergeResults(F) :
                g.rule = f.rule /\ confidenceRank(f.confidence) <= confidenceRank(g.confidence)
  <2> DEFINE At(c) == \E h \in F : h.rule = f.rule /\ h.confidence = c
  <2>1. CASE At("high")
    <3>1. PICK h \in F : h.rule = f.rule /\ h.confidence = "high"
      BY <2>1
    <3> QED
      BY <1>1, <3>1, Ranked DEF mergeResults
  <2>2. CASE ~At("high") /\ At("medium")
    <3>1. PICK h \in F : h.rule = f.rule /\ h.confidence = "medium"
      BY <2>2
    <3>2. \A g \in F : g.rule = f.rule => g.confidence # "high"
      BY <2>2
    <3> QED
      BY <1>1, <3>1, <3>2, Ranked DEF mergeResults
  <2>3. CASE ~At("high") /\ ~At("medium")
    <3>1. \A g \in F : g.rule = f.rule => g.confidence = "low"
      BY <1>1, <2>3 DEF Confidences
    <3> QED
      BY <1>1, <3>1, Ranked DEF mergeResults
  <2> QED
    BY <2>1, <2>2, <2>3
<1>4. ASSUME NEW f \in mergeResults(F), NEW g \in mergeResults(F), f.rule = g.rule
      PROVE  f = g
  <2>1. /\ confidenceRank(f.confidence) <= confidenceRank(g.confidence)
        /\ confidenceRank(g.confidence) <= confidenceRank(f.confidence)
    BY <1>4 DEF mergeResults
  <2>2. f.confidence = g.confidence
    <3>1. f.confidence \in Confidences /\ g.confidence \in Confidences
      BY <1>1, <1>2
    <3>2. confidenceRank(f.confidence) \in Nat /\ confidenceRank(g.confidence) \in Nat
      BY <3>1, Ranked
    <3>3. confidenceRank(f.confidence) = confidenceRank(g.confidence)
      BY <2>1, <3>2
    <3> QED
      BY <3>1, <3>3, Ranked
  <2> QED
    BY <1>1, <1>2, <1>4, <2>2
<1>5. Rules(mergeResults(F)) = Rules(F)
  BY <1>2, <1>3 DEF Rules
<1> QED
  BY <1>2, <1>3, <1>4, <1>5

-----------------------------------------------------------------------------
(* The steps of a scan, as functions of its record                           *)

(* q is r at another point, with suspicions added.                            *)
Alike(q, r) ==
    /\ q \in ScanRecord
    /\ q.input = r.input /\ q.started = r.started /\ q.entity = r.entity /\ q.source = r.source
    /\ q.judged = r.judged
    /\ \A rule \in AllRules \ Suspicions : rule \in Rules(q.findings) <=> rule \in Rules(r.findings)
    /\ \A f \in r.findings : \E g \in q.findings :
          g.rule = f.rule /\ confidenceRank(f.confidence) <= confidenceRank(g.confidence)

(* q says no more of hand-offs than r.                                        *)
Quiet(q, r) ==
    /\ q.started = r.started
    /\ Candidates(r) \subseteq Candidates(q)
    /\ Handoff \in Rules(q.findings) => Handoff \in Rules(r.findings)
    /\ q.judged \subseteq r.judged

LEMMA RecordFields ==
    ASSUME NEW r \in ScanRecord
    PROVE  /\ r.pc \in Stages /\ r.input \in Inputs \cup {Null} /\ r.started \in Nat
           /\ r.entity \in Entities \cup {Null} /\ r.id \in Ids \cup {0}
           /\ r.source \in {"none", "getChat", "mtproto", "forward"}
           /\ r.findings \in SUBSET AllFindings /\ r.todo \in Seq(Names) /\ r.owner \in Nat
           /\ r.judged \in SUBSET Verdicts
<1> HIDE DEF Stages, AllFindings, Verdicts, Ids
<1> QED
  BY DEF ScanRecord

LEMMA GotoRecord ==
    ASSUME NEW r \in ScanRecord, NEW pc \in Stages
    PROVE  /\ Goto(r, pc) \in ScanRecord
           /\ Goto(r, pc).pc = pc
           /\ Goto(r, pc).input = r.input /\ Goto(r, pc).started = r.started
           /\ Goto(r, pc).entity = r.entity /\ Goto(r, pc).source = r.source
           /\ Goto(r, pc).findings = r.findings /\ Goto(r, pc).todo = r.todo
           /\ Goto(r, pc).judged = r.judged /\ Goto(r, pc).id = r.id /\ Goto(r, pc).owner = r.owner
  BY DEF Goto, ScanRecord

LEMMA AddRecord ==
    ASSUME NEW r \in ScanRecord, NEW F \in SUBSET AllFindings
    PROVE  /\ Add(r, F) \in ScanRecord
           /\ Add(r, F).pc = r.pc /\ Add(r, F).findings = r.findings \cup F
           /\ Add(r, F).input = r.input /\ Add(r, F).started = r.started
           /\ Add(r, F).entity = r.entity /\ Add(r, F).source = r.source
           /\ Add(r, F).todo = r.todo /\ Add(r, F).judged = r.judged
  BY DEF Add, ScanRecord

LEMMA ReturnRecord ==
    ASSUME NEW r \in ScanRecord
    PROVE  /\ Return(r) \in ScanRecord
           /\ Return(r).pc = "done" /\ Return(r).findings = mergeResults(r.findings)
           /\ Return(r).input = r.input /\ Return(r).started = r.started
           /\ Return(r).entity = r.entity /\ Return(r).source = r.source
           /\ Return(r).judged = r.judged
<1>1. mergeResults(r.findings) \in SUBSET AllFindings
  BY RecordFields, Merged
<1>2. "done" \in Stages
  BY DEF Stages
<1> HIDE DEF mergeResults
<1> QED
  BY <1>1, <1>2 DEF Return, ScanRecord

LEMMA ResolvedRecord ==
    ASSUME NEW r \in ScanRecord, NEW e \in Entities, NEW source \in {"getChat", "mtproto", "forward"}
    PROVE  LET q == Resolved(r, e, source)
           IN  /\ q \in ScanRecord
               /\ q.entity = e /\ q.source = source /\ q.findings = r.findings
               /\ q.input = r.input /\ q.started = r.started /\ q.judged = r.judged
               /\ q.pc = r.pc /\ q.todo = r.todo
  BY DEF Resolved, ScanRecord

(* What a scan waits for after its input.                                     *)
LEMMA BegunRecord ==
    ASSUME NEW x \in Inputs, NEW t \in Nat
    PROVE  LET q == [Idle EXCEPT !.input = x, !.started = t, !.findings = InputFindings(x)]
           IN  /\ q \in ScanRecord
               /\ q.input = x /\ q.started = t /\ q.findings = InputFindings(x)
               /\ q.entity = Null /\ q.source = "none" /\ q.judged = {} /\ q.todo = <<>>
<1>1. InputFindings(x) \in SUBSET AllFindings
  BY InputFindingsAreSuspected, RulesOfSuspected
<1>2. "idle" \in Stages /\ <<>> \in Seq(Names)
  BY DEF Stages
<1> HIDE DEF InputFindings, Stages, AllFindings, Ids
<1> QED
  BY <1>1, <1>2 DEF Idle, ScanRecord

(* Fragment is to be asked of each candidate.                                  *)
LEMMA RunFragmentRecord ==
    ASSUME NEW r \in ScanRecord, r.input \in Inputs
    PROVE  LET q == RunFragment(r)
           IN  /\ q \in ScanRecord
               /\ q.pc = "fragment" /\ Pending(q) = Candidates(r) /\ Candidates(q) = Candidates(r)
               /\ q.input = r.input /\ q.started = r.started /\ q.findings = r.findings
               /\ q.entity = r.entity /\ q.source = r.source /\ q.judged = r.judged
<1> DEFINE pasted == IF r.input.handle = Null THEN <<>> ELSE <<r.input.handle>>
           resolved == IF r.entity = Null \/ r.entity.username \in {Null, r.input.handle} THEN <<>>
                       ELSE <<r.entity.username>>
           todo == pasted \o resolved
           q == RunFragment(r)
<1>1. /\ r.input.handle \in Names \cup {Null}
      /\ r.entity # Null => r.entity \in Entities /\ r.entity.username \in Names \cup {Null}
  BY RecordFields, TelegramScanAssumption
<1>2. pasted \in Seq(Names) /\ resolved \in Seq(Names)
  BY <1>1
<1>3. todo \in Seq(Names) /\ {todo[i] : i \in DOMAIN todo} = Candidates(r)
  <2>1. CASE r.input.handle = Null
    <3>1. todo = resolved
      BY <1>2, <2>1
    <3> QED
      BY <1>1, <2>1, <3>1 DEF Candidates, Named
  <2>2. CASE r.input.handle # Null /\ resolved = <<>>
    <3>1. todo = <<r.input.handle>>
      <4>1. pasted = <<r.input.handle>> /\ r.input.handle \in Names
        BY <1>1, <2>2
      <4> HIDE DEF pasted, resolved
      <4> QED
        BY <2>2, <4>1
    <3>2. r.entity = Null \/ r.entity.username \in {Null, r.input.handle}
      BY <2>2
    <3> HIDE DEF todo
    <3> QED
      BY <1>1, <2>2, <3>1, <3>2 DEF Candidates, Named
  <2>3. CASE r.input.handle # Null /\ resolved # <<>>
    <3>1. r.entity # Null /\ r.entity.username \notin {Null, r.input.handle}
      BY <2>3
    <3>2. pasted = <<r.input.handle>> /\ resolved = <<r.entity.username>>
      BY <2>3, <3>1
    <3> HIDE DEF pasted, resolved
    <3>3. Len(pasted) = 1 /\ Len(resolved) = 1
      BY <3>2
    <3>4. Len(todo) = 2 /\ todo[1] = pasted[1] /\ todo[2] = resolved[1] /\ todo \in Seq(Names)
      <4>1. \A i \in 1 .. Len(pasted) + Len(resolved) :
               todo[i] = IF i <= Len(pasted) THEN pasted[i] ELSE resolved[i - Len(pasted)]
        BY <1>2
      <4>2. todo \in Seq(Names) /\ Len(todo) = Len(pasted) + Len(resolved)
        BY <1>2
      <4> HIDE DEF todo
      <4> QED
        BY <3>3, <4>1, <4>2
    <3> HIDE DEF todo
    <3>5. DOMAIN todo = {1, 2} /\ todo[1] = r.input.handle /\ todo[2] = r.entity.username
      BY <3>2, <3>4
    <3> QED
      BY <1>1, <2>3, <3>1, <3>4, <3>5 DEF Candidates, Named
  <2> QED
    BY <2>1, <2>2, <2>3
<1>4. q = [r EXCEPT !.pc = "fragment", !.todo = todo] /\ "fragment" \in Stages
  BY DEF RunFragment, Stages, InFragment
<1> HIDE DEF todo, q
<1>5. /\ q \in ScanRecord
      /\ q.pc = "fragment" /\ q.todo = todo
      /\ q.input = r.input /\ q.started = r.started /\ q.findings = r.findings
      /\ q.entity = r.entity /\ q.source = r.source /\ q.judged = r.judged
  BY <1>3, <1>4 DEF ScanRecord
<1> QED
  BY <1>3, <1>5 DEF Pending, Candidates, q

(* One candidate less to ask for.                                             *)
LEMMA JudgedRecord ==
    ASSUME NEW r \in ScanRecord, NEW answer \in Answers, now \in Nat, r.todo # <<>>,
           HandoffFindings(answer) \in SUBSET AllFindings
    PROVE  LET q == Judged(r, answer)
           IN  /\ q \in ScanRecord
               /\ q.pc = r.pc
               /\ q.input = r.input /\ q.started = r.started
               /\ q.entity = r.entity /\ q.source = r.source
               /\ q.findings = r.findings \cup HandoffFindings(answer)
               /\ q.judged = r.judged \cup {[name |-> Head(r.todo), answer |-> answer, at |-> now]}
               /\ Pending(r) = Pending(q) \cup {Head(r.todo)}
               /\ q.todo = Tail(r.todo)
<1> DEFINE q == Judged(r, answer)
           j == [name |-> Head(r.todo), answer |-> answer, at |-> now]
<1>1. r.todo \in Seq(Names) /\ Tail(r.todo) \in Seq(Names) /\ Head(r.todo) \in Names
  <2>1. r.todo \in Seq(Names)
    BY RecordFields
  <2> QED
    BY <2>1
<1>2. j \in Verdicts
  BY <1>1 DEF Verdicts
<1>3. q = [r EXCEPT !.findings = r.findings \cup HandoffFindings(answer), !.judged = r.judged \cup {j},
                    !.todo = Tail(r.todo), !.owner = 0]
  BY DEF Judged
<1> HIDE DEF j, q
<1>4. /\ q \in ScanRecord
      /\ q.pc = r.pc
      /\ q.input = r.input /\ q.started = r.started
      /\ q.entity = r.entity /\ q.source = r.source
      /\ q.findings = r.findings \cup HandoffFindings(answer)
      /\ q.judged = r.judged \cup {j}
      /\ q.todo = Tail(r.todo)
  <2> HIDE DEF HandoffFindings, AllFindings, Verdicts, Stages, Ids
  <2> QED
    BY <1>1, <1>2, <1>3 DEF ScanRecord
<1>5. Pending(r) = Pending(q) \cup {Head(r.todo)}
  <2> DEFINE t == r.todo
             u == Tail(t)
  <2>1. t \in Seq(Names) /\ t # <<>> /\ q.todo = u
    BY <1>1, <1>4
  <2> HIDE DEF t
  <2>2. /\ DOMAIN t = 1 .. Len(t) /\ Len(t) \in Nat \ {0} /\ Head(t) = t[1]
        /\ DOMAIN u = 1 .. Len(t) - 1 /\ \A i \in DOMAIN u : u[i] = t[i + 1]
    BY <2>1
  <2>3. {t[i] : i \in DOMAIN t} = {u[i] : i \in DOMAIN u} \cup {t[1]}
    <3> HIDE DEF u
    <3>1. \A i \in DOMAIN u : i + 1 \in DOMAIN t
      BY <2>2
    <3>2. \A i \in DOMAIN t : i = 1 \/ (i - 1 \in DOMAIN u /\ u[i - 1] = t[i])
      BY <2>2
    <3>3. 1 \in DOMAIN t
      BY <2>2
    <3> QED
      BY <2>2, <3>1, <3>2, <3>3
  <2> QED
    BY <2>1, <2>2, <2>3 DEF Pending, t
<1> QED
  BY <1>4, <1>5 DEF q, j

LEMMA ConfidenceOf == \A F \in SUBSET AllFindings : \A f \in F : confidenceRank(f.confidence) \in Nat
<1>1. \A f \in AllFindings : f.confidence \in Confidences
  BY DEF AllFindings
<1> QED
  BY <1>1, Ranked

LEMMA RulesAreRules == \A F \in SUBSET AllFindings : Rules(F) \subseteq AllRules
<1>1. \A f \in AllFindings : f.rule \in AllRules
  <2> HIDE DEF AllRules, Confidences
  <2> QED
    BY DEF AllFindings
<1> QED
  BY <1>1 DEF Rules

(* What a scan has established survives suspicions and a merge.                *)
LEMMA AlikeFacts ==
    ASSUME NEW r \in ScanRecord, NEW q, Alike(q, r)
    PROVE  /\ Rules(r.findings) \cap Reasons = {} => Rules(q.findings) \cap Reasons = {}
           /\ Fresh(r) => Fresh(q)
           /\ Explained(r) => Explained(q)
           /\ Stored(r) => Stored(q)
           /\ Known(r) => Known(q)
           /\ Looked(r) => Looked(q)
           /\ Quiet(q, r)
<1>1. /\ q \in ScanRecord
      /\ q.input = r.input /\ q.started = r.started /\ q.entity = r.entity /\ q.source = r.source
      /\ q.judged = r.judged
  BY DEF Alike
<1>2. \A rule \in Reasons \cup {Handoff, FragmentDown, FragmentOff, BotOff} :
         rule \in Rules(q.findings) <=> rule \in Rules(r.findings)
  <2>1. Reasons \cup {Handoff, FragmentDown, FragmentOff, BotOff} \subseteq AllRules \ Suspicions
    BY OtherRules DEF AllRules
  <2> QED
    BY <2>1 DEF Alike
<1>3. ASSUME ReportsPastedHandle(r), r.input \in Inputs PROVE ReportsPastedHandle(q)
  <2> SUFFICES ASSUME NEW f \in InputFindings(r.input)
               PROVE  \E g \in q.findings :
                         g.rule = f.rule /\ confidenceRank(f.confidence) <= confidenceRank(g.confidence)
    BY <1>1 DEF ReportsPastedHandle
  <2>1. PICK h \in r.findings :
           h.rule = f.rule /\ confidenceRank(f.confidence) <= confidenceRank(h.confidence)
    BY <1>3 DEF ReportsPastedHandle
  <2>2. PICK g \in q.findings :
           g.rule = h.rule /\ confidenceRank(h.confidence) <= confidenceRank(g.confidence)
    BY DEF Alike
  <2>3. /\ confidenceRank(f.confidence) \in Nat /\ confidenceRank(g.confidence) \in Nat
        /\ confidenceRank(h.confidence) \in Nat
    <3>1. InputFindings(r.input) \in SUBSET AllFindings
      BY <1>3, InputFindingsAreSuspected, RulesOfSuspected
    <3>2. r.findings \in SUBSET AllFindings /\ q.findings \in SUBSET AllFindings
      BY <1>1, RecordFields
    <3> QED
      BY <3>1, <3>2, ConfidenceOf
  <2> QED
    BY <2>1, <2>2, <2>3
<1>4. Explained(r) => Explained(q)
  BY <1>1, <1>2 DEF Explained
<1>5. Stored(r) => Stored(q)
  BY <1>1 DEF Stored
<1>6. Candidates(q) = Candidates(r)
  BY <1>1 DEF Candidates
<1>7. Reported(r) => Reported(q)
  BY <1>1, <1>2 DEF Reported
<1>8. BlamesBot(r) => BlamesBot(q)
  BY <1>2 DEF BlamesBot
<1>9. Fresh(r) => Fresh(q)
  BY <1>1, <1>2, <1>3, <1>8 DEF Fresh
<1>10. Known(r) => Known(q)
  BY <1>1, <1>3, <1>4, <1>5, <1>7, <1>8 DEF Known
<1>11. Looked(r) => Looked(q)
  <2>1. JudgedNames(q) = JudgedNames(r)
    BY <1>1 DEF JudgedNames
  <2> QED
    BY <1>2, <1>6, <1>10, <2>1 DEF Looked
<1>12. Quiet(q, r)
  BY <1>1, <1>2, <1>6 DEF Quiet
<1> QED
  BY <1>2, <1>4, <1>5, <1>9, <1>10, <1>11, <1>12

LEMMA AlikeIsTransitive ==
    ASSUME NEW r \in ScanRecord, NEW q, NEW p, Alike(q, r), Alike(p, q)
    PROVE  Alike(p, r)
<1>1. q \in ScanRecord /\ p \in ScanRecord
  BY DEF Alike
<1>2. \A f \in r.findings : \E g \in p.findings :
         g.rule = f.rule /\ confidenceRank(f.confidence) <= confidenceRank(g.confidence)
  <2> TAKE f \in r.findings
  <2>1. PICK h \in q.findings :
           h.rule = f.rule /\ confidenceRank(f.confidence) <= confidenceRank(h.confidence)
    BY DEF Alike
  <2>2. PICK g \in p.findings :
           g.rule = h.rule /\ confidenceRank(h.confidence) <= confidenceRank(g.confidence)
    BY DEF Alike
  <2>3. /\ confidenceRank(f.confidence) \in Nat /\ confidenceRank(g.confidence) \in Nat
        /\ confidenceRank(h.confidence) \in Nat
    BY <1>1, RecordFields, ConfidenceOf
  <2> QED
    BY <2>1, <2>2, <2>3
<1> QED
  BY <1>2 DEF Alike

LEMMA GotoAlike ==
    ASSUME NEW r \in ScanRecord, NEW pc \in Stages
    PROVE  Alike(Goto(r, pc), r)
<1>1. \A f \in r.findings : confidenceRank(f.confidence) <= confidenceRank(f.confidence)
  BY RecordFields, ConfidenceOf
<1> QED
  BY <1>1, GotoRecord DEF Alike

LEMMA AddAlike ==
    ASSUME NEW r \in ScanRecord, NEW G \in SUBSET Suspected
    PROVE  Alike(Add(r, G), r)
<1>1. \A f \in r.findings : confidenceRank(f.confidence) <= confidenceRank(f.confidence)
  BY RecordFields, ConfidenceOf
<1>2. G \in SUBSET AllFindings /\ Rules(G) \subseteq Suspicions
  BY RulesOfSuspected
<1>3. Rules(Add(r, G).findings) = Rules(r.findings) \cup Rules(G)
  BY <1>2, AddRecord, RulesOfUnion
<1> QED
  BY <1>1, <1>2, <1>3, AddRecord DEF Alike

LEMMA ReturnAlike ==
    ASSUME NEW r \in ScanRecord
    PROVE  /\ Alike(Return(r), r)
           /\ \A f, g \in Return(r).findings : f.rule = g.rule => f = g
<1>1. r.findings \in SUBSET AllFindings
  BY RecordFields
<1> QED
  BY <1>1, ReturnRecord, Merged DEF Alike

-----------------------------------------------------------------------------
(* From stage to stage                                                      *)

(* Ready for Fragment: an entity, or a reason why there is none.               *)
Ready(r) ==
    /\ Fresh(r)
    /\ Explained(r)
    /\ r.source = "forward" => Stored(r)

LEMMA RunFragmentStands ==
    ASSUME NEW r, Ready(r)
    PROVE  Stands(RunFragment(r)) /\ Quiet(RunFragment(r), r)
<1> DEFINE q == RunFragment(r)
<1>1. r \in ScanRecord /\ r.input \in Inputs
  BY DEF Ready, Fresh
<1>2. /\ q \in ScanRecord
      /\ q.pc = "fragment" /\ Pending(q) = Candidates(r) /\ Candidates(q) = Candidates(r)
      /\ q.input = r.input /\ q.started = r.started /\ q.findings = r.findings
      /\ q.entity = r.entity /\ q.source = r.source /\ q.judged = r.judged
  BY <1>1, RunFragmentRecord
<1> HIDE DEF q
<1>3. Known(q)
  BY <1>1, <1>2 DEF Ready, Fresh, Known, ReportsPastedHandle, BlamesBot, Explained, Stored, Reported
<1>4. Looking(q)
  BY <1>2, <1>3 DEF Looking, Ready, Fresh
<1>5. Stands(q)
  BY <1>2, <1>4 DEF Stands, Resolving, InFragment
<1>6. Quiet(q, r)
  BY <1>2 DEF Quiet
<1> QED
  BY <1>5, <1>6 DEF q

(* A reason for the want of an entity, which blames the Bot API only if it is   *)
(* not configured.                                                          *)
Reason(F) ==
    /\ F \in SUBSET AllFindings
    /\ Rules(F) \cap Reasons # {}
    /\ Rules(F) \subseteq Reasons \cup {MtprotoDown}
    /\ BotOff \in Rules(F) => "bot" \notin config

LEMMA GiveUpStands ==
    ASSUME NEW r, Asking(r), NEW F, Reason(F)
    PROVE  Stands(GiveUp(r, F)) /\ Quiet(GiveUp(r, F), r)
<1> DEFINE q == Add(r, F)
<1>1. r \in ScanRecord /\ F \in SUBSET AllFindings
  BY DEF Asking, Fresh, Reason
<1>2. /\ q \in ScanRecord
      /\ q.findings = r.findings \cup F
      /\ q.input = r.input /\ q.started = r.started
      /\ q.entity = r.entity /\ q.source = r.source /\ q.judged = r.judged
  BY <1>1, AddRecord
<1> HIDE DEF q
<1>3. Rules(q.findings) = Rules(r.findings) \cup Rules(F)
  BY <1>2, RulesOfUnion
<1>4. ReportsPastedHandle(q)
  BY <1>2 DEF Asking, Fresh, ReportsPastedHandle
<1>5. Fresh(q)
  BY <1>2, <1>3, <1>4, OtherRules DEF Asking, Fresh, BlamesBot, Reason
<1>6. Ready(q)
  BY <1>2, <1>3, <1>5 DEF Ready, Asking, Explained, Reason
<1>7. Quiet(q, r)
  BY <1>2, <1>3, OtherRules DEF Quiet, Reason, Candidates
<1>8. Stands(RunFragment(q)) /\ Quiet(RunFragment(q), q)
  BY <1>6, RunFragmentStands
<1>9. GiveUp(r, F) = RunFragment(q)
  BY DEF GiveUp, q
<1> QED
  BY <1>7, <1>8, <1>9 DEF Quiet

LEMMA HealthIsReason ==
    ASSUME NEW rule \in Reasons, rule = BotOff => "bot" \notin config
    PROVE  /\ Reason(Health(rule))
           /\ Reason(Health(rule) \cup Health("TELEGRAM_MTPROTO_LOOKUP_UNAVAILABLE"))
<1>1. rule \in AllRules /\ MtprotoDown \in AllRules /\ BotOff # MtprotoDown
  BY OtherRules DEF AllRules
<1>2. /\ Health(rule) \subseteq AllFindings /\ Rules(Health(rule)) = {rule}
      /\ Health(MtprotoDown) \subseteq AllFindings /\ Rules(Health(MtprotoDown)) = {MtprotoDown}
  BY <1>1, RuleOfHealth
<1>3. Rules(Health(rule) \cup Health(MtprotoDown)) = {rule, MtprotoDown}
  BY <1>2, RulesOfUnion
<1>4. Reason(Health(rule))
  BY <1>2 DEF Reason
<1>5. Reason(Health(rule) \cup Health(MtprotoDown))
  BY <1>1, <1>2, <1>3 DEF Reason
<1> QED
  BY <1>4, <1>5 DEF MtprotoDown

LEMMA NotConfiguredIsReason == "bot" \notin config => Reason(NotConfigured)
<1>1. BotOff \in Reasons
  BY DEF BotOff, Reasons
<1> QED
  BY <1>1, HealthIsReason DEF NotConfigured, BotOff

LEMMA NotResolvableIsReason ==
    /\ Reason(NotResolvable)
    /\ Reason(NotResolvable \cup Health("TELEGRAM_MTPROTO_LOOKUP_UNAVAILABLE"))
<1>1. "TELEGRAM_ENTITY_NOT_RESOLVABLE" \in Reasons /\ "TELEGRAM_ENTITY_NOT_RESOLVABLE" # BotOff
  BY DEF BotOff, Reasons
<1> QED
  BY <1>1, HealthIsReason DEF NotResolvable

LEMMA ProviderFailureIsReason == \A rule \in providerFailure : Reason(Health(rule))
<1>1. \A rule \in providerFailure : rule \in Reasons /\ rule # BotOff
  BY DEF BotOff, Reasons, providerFailure
<1> QED
  BY <1>1, HealthIsReason

LEMMA UnresolvedIsReason ==
    \A r : /\ Reason(Unresolved(r))
           /\ Reason(Unresolved(r) \cup Health("TELEGRAM_MTPROTO_LOOKUP_UNAVAILABLE"))
<1>1. BotOff \in Reasons
  BY DEF BotOff, Reasons
<1>2. "bot" \notin config =>
         /\ Reason(NotConfigured)
         /\ Reason(NotConfigured \cup Health("TELEGRAM_MTPROTO_LOOKUP_UNAVAILABLE"))
  BY <1>1, HealthIsReason DEF NotConfigured, BotOff
<1> QED
  BY <1>2, NotResolvableIsReason DEF Unresolved

LEMMA GotoResolver ==
    ASSUME NEW r, Asking(r), NEW pc \in Resolving, pc \in {"getChat", "observed"} => AsksBot(r)
    PROVE  Stands(Goto(r, pc)) /\ Quiet(Goto(r, pc), r)
<1> DEFINE q == Goto(r, pc)
<1>1. r \in ScanRecord /\ pc \in Stages
  BY DEF Asking, Fresh, Stages
<1>2. Alike(q, r) /\ q.entity = r.entity /\ q.source = r.source /\ q.pc = pc /\ q \in ScanRecord
  BY <1>1, GotoAlike, GotoRecord
<1> HIDE DEF q
<1>3. Asking(q) /\ Quiet(q, r)
  BY <1>1, <1>2, AlikeFacts DEF Asking
<1>4. pc \in {"getChat", "observed"} => AsksBot(q)
  BY <1>2 DEF Alike, AsksBot
<1>5. Stands(q)
  BY <1>2, <1>3, <1>4 DEF Stands, Resolving, InFragment
<1> QED
  BY <1>3, <1>5 DEF q

LEMMA AskMtprotoStands ==
    ASSUME NEW r, Asking(r)
    PROVE  Stands(AskMtproto(r)) /\ Quiet(AskMtproto(r), r)
<1>1. "mtproto" \in Resolving
  BY DEF Resolving
<1>2. Stands(Goto(r, "mtproto")) /\ Quiet(Goto(r, "mtproto"), r)
  BY <1>1, GotoResolver
<1>3. Stands(GiveUp(r, Unresolved(r))) /\ Quiet(GiveUp(r, Unresolved(r)), r)
  BY GiveUpStands, UnresolvedIsReason
<1> QED
  BY <1>2, <1>3 DEF AskMtproto

(* A resolver gave an entity.                                                 *)
LEMMA ResolvedStands ==
    ASSUME NEW r, Asking(r), NEW e \in Entities, NEW source \in {"getChat", "mtproto"}
    PROVE  LET q == RunFragment(Resolved(r, e, source))
           IN  Stands(q) /\ Quiet(q, r)
<1> DEFINE p == Resolved(r, e, source)
<1>1. r \in ScanRecord
  BY DEF Asking, Fresh
<1>2. /\ p \in ScanRecord
      /\ p.entity = e /\ p.source = source /\ p.findings = r.findings
      /\ p.input = r.input /\ p.started = r.started /\ p.judged = r.judged
  BY <1>1, ResolvedRecord
<1>3. e # Null
  BY TelegramScanAssumption
<1> HIDE DEF p
<1>4. Fresh(p)
  BY <1>2 DEF Asking, Fresh, ReportsPastedHandle, BlamesBot
<1>5. Ready(p)
  BY <1>2, <1>3, <1>4 DEF Ready, Asking, Explained
<1>6. Quiet(p, r)
  BY <1>2 DEF Quiet, Asking, Candidates, Named
<1>7. Stands(RunFragment(p)) /\ Quiet(RunFragment(p), p)
  BY <1>5, RunFragmentStands
<1> QED
  BY <1>6, <1>7 DEF Quiet, p

(* The first step of a scan.                                                  *)
LEMMA RouteStands ==
    ASSUME NEW r, Asking(r)
    PROVE  Stands(Route(r)) /\ Quiet(Route(r), r)
<1>1. r \in ScanRecord /\ r.input \in Inputs
  BY DEF Asking, Fresh
<1>2. {"getById", "getChat"} \subseteq Resolving
  BY DEF Resolving
<1>3. CASE r.input.kind = "forward"
  <2> DEFINE p == Resolved(r, r.input.entity, "forward")
             q == Goto(p, "record")
  <2>1. r.input.entity \in Entities /\ r.input.entity # Null
    BY <1>1, <1>3, TelegramScanAssumption
  <2>2. /\ p \in ScanRecord
        /\ p.entity = r.input.entity /\ p.source = "forward" /\ p.findings = r.findings
        /\ p.input = r.input /\ p.started = r.started /\ p.judged = r.judged
    BY <1>1, <2>1, ResolvedRecord
  <2> HIDE DEF p
  <2>3. "record" \in Stages
    BY DEF Stages
  <2>4. /\ q \in ScanRecord /\ q.pc = "record"
        /\ q.entity = r.input.entity /\ q.source = "forward" /\ q.findings = r.findings
        /\ q.input = r.input /\ q.started = r.started /\ q.judged = r.judged
    BY <2>2, <2>3, GotoRecord
  <2> HIDE DEF q
  <2>5. Fresh(q) /\ Rules(q.findings) \cap Reasons = {}
    BY <2>4 DEF Asking, Fresh, ReportsPastedHandle, BlamesBot
  <2>6. Stands(q)
    BY <2>1, <2>4, <2>5 DEF Stands, Resolving, InFragment
  <2>7. Quiet(q, r)
    BY <2>4 DEF Quiet, Asking, Candidates, Named
  <2>8. Route(r) = q
    BY <1>3 DEF Route, p, q
  <2> QED
    BY <2>6, <2>7, <2>8
<1>4. CASE r.input.kind # "forward" /\ config \cap {"bot", "mtproto"} = {}
  <2>1. Route(r) = GiveUp(r, NotConfigured)
    BY <1>4 DEF Route
  <2> QED
    BY <1>4, <2>1, NotConfiguredIsReason, GiveUpStands
<1>5. CASE r.input.kind # "forward" /\ config \cap {"bot", "mtproto"} # {}
  <2>1. CASE r.input.kind = "userOrBot"
    BY <1>5, <2>1, AskMtprotoStands DEF Route
  <2>2. CASE r.input.kind = "numericId"
    <3>1. Route(r) = IF "bot" \in config THEN Goto(r, "getById") ELSE GiveUp(r, NotConfigured)
      BY <1>5, <2>2 DEF Route
    <3> QED
      BY <1>2, <3>1, GotoResolver, NotConfiguredIsReason, GiveUpStands
  <2>3. CASE r.input.kind = "channelOrSupergroup"
    <3>1. Route(r) = IF "bot" \in config THEN Goto(r, "getChat") ELSE AskMtproto(r)
      BY <1>5, <2>3 DEF Route
    <3> QED
      BY <1>2, <2>3, <3>1, GotoResolver, AskMtprotoStands DEF AsksBot
  <2>4. CASE r.input.kind \notin {"userOrBot", "numericId", "channelOrSupergroup"}
    <3>1. Route(r) = GiveUp(r, NotResolvable)
      BY <1>5, <2>4 DEF Route
    <3> QED
      BY <3>1, NotResolvableIsReason, GiveUpStands
  <2> QED
    BY <2>1, <2>2, <2>3, <2>4
<1> QED
  BY <1>3, <1>4, <1>5

LEMMA ReturnStands ==
    ASSUME NEW r, Looked(r), Stored(r)
    PROVE  Stands(Return(r)) /\ Quiet(Return(r), r)
<1> DEFINE q == Return(r)
<1>1. r \in ScanRecord
  BY DEF Looked, Known
<1>2. q \in ScanRecord /\ q.pc = "done" /\ Alike(q, r) /\ \A f, g \in q.findings : f.rule = g.rule => f = g
  BY <1>1, ReturnRecord, ReturnAlike
<1> HIDE DEF q
<1>3. Looked(q) /\ Stored(q) /\ Quiet(q, r)
  BY <1>1, <1>2, AlikeFacts
<1>4. Stands(q)
  BY <1>2, <1>3 DEF Stands, Resolving, InFragment
<1> QED
  BY <1>3, <1>4 DEF q

(* The store may reject once there is an entity, or while one is looked for.    *)
LEMMA StoreRejectsStands ==
    ASSUME NEW r \in ScanRecord, r.input \in Inputs, r.entity # Null \/ AsksBot(r)
    PROVE  Stands(StoreRejects(r)) /\ Quiet(StoreRejects(r), r)
<1> DEFINE q == StoreRejects(r)
<1>1. "rejected" \in Stages /\ {} \in SUBSET AllFindings
  BY DEF Stages
<1>2. /\ q \in ScanRecord /\ q.pc = "rejected" /\ q.findings = {}
      /\ q.input = r.input /\ q.started = r.started /\ q.entity = r.entity /\ q.judged = r.judged
  <2> HIDE DEF Stages, AllFindings, Verdicts, Ids
  <2> QED
    BY <1>1 DEF StoreRejects, ScanRecord
<1> HIDE DEF q
<1>3. Stands(q)
  BY <1>2 DEF Stands, AsksBot, Resolving, InFragment
<1>4. Quiet(q, r)
  BY <1>2 DEF Quiet, Candidates, Rules
<1> QED
  BY <1>3, <1>4 DEF q

LEMMA QuietIsTransitive ==
    ASSUME NEW p, NEW q, NEW r, Quiet(p, q), Quiet(q, r)
    PROVE  Quiet(p, r)
  BY DEF Quiet

LEMMA FinishAlike ==
    ASSUME NEW r \in ScanRecord, r.entity # Null
    PROVE  /\ Alike(Finish(r), r)
           /\ \/ Finish(r).pc = "gifts"
              \/ /\ Finish(r).pc = "done"
                 /\ \A f, g \in Finish(r).findings : f.rule = g.rule => f = g
<1> DEFINE shown == ResolvedFindings(r.input, r.entity)
           age == checkEntityAge(r.entity, r.findings \cup shown)
           aged == Add(r, shown \cup age)
<1>1. r.entity \in Entities
  BY RecordFields
<1>2. shown \cup age \in SUBSET Suspected
  BY <1>1, ResolvedFindingsAreSuspected, AgeFindings
<1>3. Finish(r) = IF r.source = "getChat" /\ r.entity.kind \in {"channel", "supergroup"}
                  THEN Goto(aged, "gifts") ELSE Return(aged)
  <2>1. (r.findings \cup shown) \cup age = r.findings \cup (shown \cup age)
    OBVIOUS
  <2> HIDE DEF shown, age
  <2>2. aged = [r EXCEPT !.findings = (r.findings \cup shown) \cup age]
    BY <2>1 DEF Add
  <2> HIDE DEF aged
  <2> QED
    BY <2>2 DEF Finish, shown, age
<1> HIDE DEF shown, age
<1>4. Alike(aged, r) /\ aged \in ScanRecord
  <2>1. shown \cup age \in SUBSET AllFindings
    BY <1>2, RulesOfSuspected
  <2> QED
    BY <1>2, <2>1, AddAlike, AddRecord
<1> HIDE DEF aged
<1>5. /\ Alike(Return(aged), r) /\ Return(aged).pc = "done"
      /\ \A f, g \in Return(aged).findings : f.rule = g.rule => f = g
  BY <1>4, ReturnAlike, ReturnRecord, AlikeIsTransitive
<1>6. "gifts" \in Stages
  BY DEF Stages
<1>7. Alike(Goto(aged, "gifts"), r) /\ Goto(aged, "gifts").pc = "gifts"
  BY <1>4, <1>6, GotoAlike, GotoRecord, AlikeIsTransitive
<1> QED
  BY <1>3, <1>5, <1>7

LEMMA FinishStands ==
    ASSUME NEW r, Looked(r), Stored(r), r.entity # Null
    PROVE  Stands(Finish(r)) /\ Quiet(Finish(r), r)
<1> DEFINE q == Finish(r)
<1>1. r \in ScanRecord
  BY DEF Looked, Known
<1>2. /\ Alike(q, r)
      /\ q.pc = "gifts" \/ (q.pc = "done" /\ \A f, g \in q.findings : f.rule = g.rule => f = g)
  BY <1>1, FinishAlike
<1> HIDE DEF q
<1>3. Looked(q) /\ Stored(q) /\ Quiet(q, r)
  BY <1>1, <1>2, AlikeFacts
<1>4. q \in ScanRecord /\ q.entity # Null
  BY <1>2 DEF Alike
<1>5. Stands(q)
  BY <1>2, <1>3, <1>4 DEF Stands, Resolving, InFragment
<1> QED
  BY <1>3, <1>5 DEF q

(* A candidate was judged, or Fragment is not configured.                      *)
LEMMA AfterFragmentStands ==
    ASSUME NEW r, Known(r), r.todo # <<>> => Looking(r), r.todo = <<>> => Looked(r)
    PROVE  Stands(AfterFragment(r)) /\ Quiet(AfterFragment(r), r)
<1>1. r \in ScanRecord
  BY DEF Known
<1>2. CASE r.todo # <<>>
  <2> DEFINE q == Goto(r, "fragment")
  <2>1. "fragment" \in Stages
    BY DEF Stages, InFragment
  <2>2. /\ q \in ScanRecord /\ q.pc = "fragment" /\ Alike(q, r) /\ q.todo = r.todo
        /\ q.entity = r.entity /\ q.input = r.input /\ q.judged = r.judged /\ q.findings = r.findings
    BY <1>1, <2>1, GotoRecord, GotoAlike
  <2> HIDE DEF q
  <2>3. Known(q) /\ Quiet(q, r)
    BY <1>1, <2>2, AlikeFacts
  <2>4. Pending(q) = Pending(r) /\ Candidates(q) = Candidates(r) /\ JudgedNames(q) = JudgedNames(r)
    BY <2>2 DEF Pending, Candidates, JudgedNames
  <2>5. Looking(q)
    BY <1>2, <2>2, <2>3, <2>4 DEF Looking
  <2>6. Stands(q)
    BY <2>2, <2>5 DEF Stands, Resolving, InFragment
  <2> QED
    BY <1>2, <2>3, <2>6 DEF AfterFragment, q
<1>3. CASE r.todo = <<>> /\ r.entity = Null
  <2>1. Looked(r) /\ Stored(r) /\ AfterFragment(r) = Return(r)
    BY <1>3 DEF AfterFragment, Stored
  <2> QED
    BY <2>1, ReturnStands
<1>4. CASE r.todo = <<>> /\ r.entity # Null /\ r.source = "forward"
  <2>1. Looked(r) /\ Stored(r) /\ AfterFragment(r) = Finish(r)
    BY <1>4 DEF AfterFragment, Known
  <2> QED
    BY <1>4, <2>1, FinishStands
<1>5. CASE r.todo = <<>> /\ r.entity # Null /\ r.source # "forward"
  <2> DEFINE q == Goto(r, "record")
  <2>1. "record" \in Stages
    BY DEF Stages
  <2>2. q \in ScanRecord /\ q.pc = "record" /\ Alike(q, r) /\ q.entity = r.entity /\ q.source = r.source
    BY <1>1, <2>1, GotoRecord, GotoAlike
  <2> HIDE DEF q
  <2>3. Looked(q) /\ Quiet(q, r)
    BY <1>1, <1>5, <2>2, AlikeFacts
  <2>4. Stands(q)
    BY <1>5, <2>2, <2>3 DEF Stands, Resolving, InFragment
  <2> QED
    BY <1>5, <2>3, <2>4 DEF AfterFragment, q
<1> QED
  BY <1>2, <1>3, <1>4, <1>5

-----------------------------------------------------------------------------
(* Judging a candidate                                                      *)

LEMMA RulesOfAnswer ==
    ASSUME NEW answer \in Answers, now \in Nat
    PROVE  /\ HandoffFindings(answer) \in SUBSET AllFindings
           /\ Rules(HandoffFindings(answer)) \subseteq {Handoff, FragmentDown}
           /\ answer.status = "failed" => FragmentDown \in Rules(HandoffFindings(answer))
           /\ answer.status = "ok" /\ answer.transfer # 0 /\ now - answer.at <= Window =>
                 Handoff \in Rules(HandoffFindings(answer))
           /\ Handoff \in Rules(HandoffFindings(answer)) =>
                 answer.transfer # 0 /\ ~(now - answer.at > Window)
<1>1. answer.status \in {"ok", "not_found", "failed"} /\ answer.at \in Nat
  BY DEF Answers
<1>2. CASE answer.status = "not_found"
  BY <1>2 DEF HandoffFindings, Rules
<1>3. CASE answer.status = "failed"
  <2>1. HandoffFindings(answer) = Health(FragmentDown)
    BY <1>3 DEF HandoffFindings, FragmentDown
  <2>2. FragmentDown \in AllRules
    BY DEF AllRules
  <2> QED
    BY <1>3, <2>1, <2>2, RuleOfHealth, OtherRules
<1>4. CASE answer.status = "ok"
  <2>1. HandoffFindings(answer) = IF answer.transfer = 0 \/ now - answer.at > Window THEN {}
                                  ELSE {Finding(Handoff, IF now - answer.at <= FirmAge THEN "high" ELSE "medium")}
    BY <1>4 DEF HandoffFindings, Handoff
  <2>2. CASE answer.transfer = 0 \/ now - answer.at > Window
    <3>1. HandoffFindings(answer) = {} /\ Rules({}) = {}
      BY <2>1, <2>2 DEF Rules
    <3>2. ~(answer.transfer # 0 /\ now - answer.at <= Window)
      BY <1>1, <2>2, TelegramScanAssumption
    <3> QED
      BY <1>4, <3>1, <3>2
  <2>3. CASE ~(answer.transfer = 0 \/ now - answer.at > Window)
    <3>1. PICK c \in {"high", "medium"} : HandoffFindings(answer) = {Finding(Handoff, c)}
      BY <2>1, <2>3
    <3>2. Handoff \in AllRules
      BY DEF AllRules
    <3>3. Rules({Finding(Handoff, c)}) = {Handoff} /\ {Finding(Handoff, c)} \in SUBSET AllFindings
      BY <3>2 DEF Rules, Finding, AllFindings, Confidences
    <3> QED
      BY <1>4, <2>3, <3>1, <3>3
  <2> QED
    BY <2>2, <2>3
<1> QED
  BY <1>1, <1>2, <1>3, <1>4

LEMMA QuietIsTruthful ==
    ASSUME NEW q, NEW r, Truthful(r), Quiet(q, r)
    PROVE  Truthful(q)
<1>1. Justified(q)
  BY DEF Truthful, Quiet, Justified
<1> QED
  BY <1>1 DEF Truthful, Quiet

LEMMA JudgedStands ==
    ASSUME NEW r, Looking(r), r.todo # <<>>, "fragment" \in config, now \in Nat,
           NEW answer \in Answers, answer.transfer # 0 => answer.status = "ok"
    PROVE  LET q == Judged(r, answer) IN Stands(AfterFragment(q)) /\ Quiet(AfterFragment(q), q)
<1> DEFINE q == Judged(r, answer)
           j == [name |-> Head(r.todo), answer |-> answer, at |-> now]
<1>1. r \in ScanRecord
  BY DEF Looking, Known
<1>2. /\ HandoffFindings(answer) \in SUBSET AllFindings
      /\ Rules(HandoffFindings(answer)) \subseteq {Handoff, FragmentDown}
      /\ answer.status = "failed" => FragmentDown \in Rules(HandoffFindings(answer))
      /\ answer.status = "ok" /\ answer.transfer # 0 /\ now - answer.at <= Window =>
            Handoff \in Rules(HandoffFindings(answer))
  BY RulesOfAnswer
<1>3. /\ q \in ScanRecord
      /\ q.input = r.input /\ q.started = r.started
      /\ q.entity = r.entity /\ q.source = r.source
      /\ q.findings = r.findings \cup HandoffFindings(answer)
      /\ q.judged = r.judged \cup {j}
      /\ Pending(r) = Pending(q) \cup {j.name}
  BY <1>1, <1>2, JudgedRecord
<1> HIDE DEF q
<1>4. Rules(q.findings) = Rules(r.findings) \cup Rules(HandoffFindings(answer))
  BY <1>3, RulesOfUnion
<1>5. \A rule \in Reasons \cup {FragmentOff} : rule \in Rules(q.findings) <=> rule \in Rules(r.findings)
  BY <1>2, <1>4, OtherRules
<1>6. Reported(q)
  <2> SUFFICES ASSUME NEW k \in q.judged
               PROVE  /\ k.answer.status = "failed" => FragmentDown \in Rules(q.findings)
                      /\ k.answer.transfer # 0 /\ k.at - k.answer.at <= Window =>
                            Handoff \in Rules(q.findings)
    BY DEF Reported
  <2>1. CASE k \in r.judged
    BY <1>4, <2>1 DEF Looking, Known, Reported
  <2>2. CASE k = j
    BY <1>2, <1>4, <2>2
  <2> QED
    BY <1>3, <2>1, <2>2
<1>7. Known(q)
  <2>1. BotOff \in Reasons
    BY OtherRules
  <2>2. BlamesBot(q)
    BY <1>5, <2>1 DEF Looking, Known, BlamesBot
  <2>3. Explained(q) /\ (q.source = "forward" => Stored(q))
    BY <1>3, <1>5 DEF Looking, Known, Explained, Stored
  <2>4. ReportsPastedHandle(q)
    BY <1>3 DEF Looking, Known, ReportsPastedHandle
  <2> QED
    BY <1>3, <1>6, <2>2, <2>3, <2>4 DEF Known, Looking
<1>8. Candidates(q) = Candidates(r) /\ JudgedNames(q) = JudgedNames(r) \cup {j.name}
  BY <1>3 DEF Candidates, JudgedNames
<1>9. Looking(q)
  BY <1>3, <1>5, <1>7, <1>8 DEF Looking
<1>10. q.todo = <<>> => Looked(q)
  <2>1. q.todo = <<>> => Pending(q) = {}
    BY DEF Pending
  <2> QED
    BY <1>9, <2>1 DEF Looking, Looked
<1>11. Stands(AfterFragment(q)) /\ Quiet(AfterFragment(q), q)
  BY <1>7, <1>9, <1>10, AfterFragmentStands
<1> QED
  BY <1>11 DEF q

LEMMA JudgedIsTruthful ==
    ASSUME NEW r, Looking(r), Truthful(r), r.todo # <<>>, now \in Nat, NEW answer \in Answers,
           Vouched(Head(r.todo), answer, now + 1)
    PROVE  Truthful(Judged(r, answer))
<1> DEFINE q == Judged(r, answer)
           name == Head(r.todo)
           j == [name |-> name, answer |-> answer, at |-> now]
<1>1. r \in ScanRecord /\ r.started \in Nat /\ r.started <= now /\ r.todo \in Seq(Names)
  BY RecordFields DEF Looking, Known
<1>2. /\ HandoffFindings(answer) \in SUBSET AllFindings
      /\ Handoff \in Rules(HandoffFindings(answer)) =>
            answer.transfer # 0 /\ ~(now - answer.at > Window)
  BY RulesOfAnswer
<1>3. /\ q.input = r.input /\ q.started = r.started /\ q.entity = r.entity
      /\ q.findings = r.findings \cup HandoffFindings(answer)
      /\ q.judged = r.judged \cup {j}
  BY <1>1, <1>2, JudgedRecord
<1> HIDE DEF q
<1>4. Rules(q.findings) = Rules(r.findings) \cup Rules(HandoffFindings(answer))
  BY <1>3, RulesOfUnion
<1>5. Candidates(q) = Candidates(r) /\ name \in Candidates(r)
  <2>1. name \in Pending(r)
    <3>1. 1 \in DOMAIN r.todo /\ name = r.todo[1]
      BY <1>1
    <3> QED
      BY <3>1 DEF Pending
  <2> QED
    BY <1>3, <2>1 DEF Candidates, Looking
<1>6. Justified(q)
  <2> SUFFICES ASSUME Handoff \in Rules(q.findings)
               PROVE  \E n \in Candidates(q) : \E i \in DOMAIN chain[n] :
                         chain[n][i] + Window >= q.started
    BY DEF Justified
  <2>1. CASE Handoff \in Rules(r.findings)
    BY <1>3, <1>5, <2>1 DEF Truthful, Justified
  <2>2. CASE Handoff \in Rules(HandoffFindings(answer))
    <3>1. answer.transfer # 0 /\ answer.at \in Nat /\ Window \in Nat /\ ~(now - answer.at > Window)
      BY <1>2, <2>2, TelegramScanAssumption DEF Answers
    <3>2. answer.transfer \in DOMAIN chain[name] /\ chain[name][answer.transfer] = answer.at
      BY <3>1 DEF Vouched, Happened
    <3>3. answer.at + Window >= r.started
      BY <1>1, <3>1
    <3> HIDE DEF name
    <3> QED
      BY <1>3, <1>5, <3>2, <3>3
  <2> QED
    BY <1>4, <2>1, <2>2
<1>7. now <= now
  OBVIOUS
<1>8. \A k \in q.judged : k.at <= now /\ Vouched(k.name, k.answer, k.at + 1)
  <2> TAKE k \in q.judged
  <2>1. CASE k \in r.judged
    BY <2>1 DEF Truthful
  <2>2. CASE k = j
    BY <1>7, <2>2
  <2> QED
    BY <1>3, <2>1, <2>2
<1> QED
  BY <1>6, <1>8 DEF Truthful, q

-----------------------------------------------------------------------------
(* What the rest of the world does to a scan                                 *)

(* Time passes, the chain grows, rows are added.                              *)
Grows ==
    /\ now \in Nat /\ now' \in Nat /\ now <= now'
    /\ config' = config
    /\ \A id \in Ids : rows[id] # <<>> => rows'[id] # <<>>
    /\ chain \in [Names -> Seq(Nat)]
    /\ chain' \in [Names -> Seq(Nat)]
    /\ \A n \in Names :
          /\ \A i \in DOMAIN chain[n] : i \in DOMAIN chain'[n] /\ chain'[n][i] = chain[n][i]
          /\ \A i \in DOMAIN chain'[n] : i \notin DOMAIN chain[n] => chain'[n][i] = now

LEMMA StoredStays ==
    ASSUME NEW r \in ScanRecord, Stored(r), Grows
    PROVE  Stored(r)'
<1>1. r.entity # Null => r.entity.id \in Ids
  BY RecordFields DEF Ids
<1> QED
  BY <1>1 DEF Stored, Grows

LEMMA StartedStays ==
    ASSUME NEW r \in ScanRecord, r.started <= now, Grows
    PROVE  r.started <= now'
<1>1. r.started \in Nat
  BY RecordFields
<1> QED
  BY <1>1 DEF Grows

LEMMA FreshStays ==
    ASSUME NEW r, Fresh(r), Grows
    PROVE  Fresh(r)'
<1>1. r.started <= now'
  BY StartedStays DEF Fresh
<1> QED
  BY <1>1 DEF Fresh, ReportsPastedHandle, BlamesBot, Grows

LEMMA KnownStays ==
    ASSUME NEW r, Known(r), Grows
    PROVE  Known(r)'
<1>1. r.started <= now'
  BY StartedStays DEF Known
<1>2. (r.source = "forward" => Stored(r))'
  BY StoredStays DEF Known
<1>3. BlamesBot(r)'
  BY DEF Known, BlamesBot, Grows
<1> QED
  BY <1>1, <1>2, <1>3 DEF Known, ReportsPastedHandle, Explained, Reported

LEMMA LookedStays ==
    ASSUME NEW r, Looked(r), Grows
    PROVE  Looked(r)'
<1>1. Known(r)' /\ config' = config
  BY KnownStays DEF Looked, Grows
<1> QED
  BY <1>1 DEF Looked, Candidates, JudgedNames

LEMMA LookingStays ==
    ASSUME NEW r, Looking(r), Grows
    PROVE  Looking(r)'
<1>1. Known(r)' /\ config' = config
  BY KnownStays DEF Looking, Grows
<1> QED
  BY <1>1 DEF Looking, Candidates, JudgedNames, Pending

LEMMA StandsStays ==
    ASSUME NEW r, Stands(r), Grows
    PROVE  Stands(r)'
<1>1. r \in ScanRecord /\ config' = config
  BY DEF Stands, Grows
<1>2. r.pc \in Resolving => Asking(r)'
  BY FreshStays DEF Stands, Asking
<1>3. r.pc \in InFragment => Looking(r)'
  BY LookingStays DEF Stands
<1>4. r.pc = "record" => IF r.source = "forward" THEN Fresh(r)' ELSE Looked(r)'
  BY FreshStays, LookedStays DEF Stands
<1>5. r.pc \in {"gifts", "done"} => Looked(r)' /\ Stored(r)'
  BY <1>1, LookedStays, StoredStays DEF Stands
<1>6. ASSUME r.pc = "history" PROVE r.owner <= Len(chain'[Head(r.todo)])
  <2> DEFINE name == Head(r.todo)
  <2>1. r.todo # <<>> /\ r.todo \in Seq(Names) /\ r.owner \in Nat
    BY <1>1, <1>6, RecordFields DEF Stands
  <2>2. name \in Names
    BY <2>1
  <2> HIDE DEF name
  <2>3. chain[name] \in Seq(Nat) /\ chain'[name] \in Seq(Nat)
    BY <2>2 DEF Grows
  <2>4. Len(chain[name]) # 0 => Len(chain[name]) \in DOMAIN chain'[name]
    BY <2>2, <2>3 DEF Grows
  <2>5. Len(chain[name]) <= Len(chain'[name])
    BY <2>3, <2>4
  <2>6. r.owner <= Len(chain[name])
    BY <1>6 DEF Stands, name
  <2>7. Len(chain[name]) \in Nat /\ Len(chain'[name]) \in Nat
    BY <2>3
  <2>8. r.owner <= Len(chain'[name])
    BY <2>1, <2>5, <2>6, <2>7
  <2> QED
    BY <2>8 DEF name
<1>7. AsksBot(r)' <=> AsksBot(r)
  BY <1>1 DEF AsksBot
<1> QED
  BY <1>1, <1>2, <1>3, <1>4, <1>5, <1>6, <1>7 DEF Stands

(* A transfer that is yet to come is younger than what was looked up before.    *)
LEMMA VouchedStays ==
    ASSUME NEW name \in Names, NEW answer \in Answers, NEW t \in Nat, t <= now + Ttl,
           Vouched(name, answer, t), Grows
    PROVE  Vouched(name, answer, t)'
<1>1. Ttl \in Nat /\ now \in Nat
  BY OwnershipCacheAssumption DEF Grows
<1>2. Happened(name, answer)'
  BY DEF Vouched, Happened, Grows
<1>3. ASSUME ~answer.truncated, answer.status # "failed", NEW i \in DOMAIN chain'[name],
             i > answer.transfer
      PROVE  chain'[name][i] + Ttl >= t
  <2>1. CASE i \in DOMAIN chain[name]
    BY <1>3, <2>1 DEF Vouched, Current, Grows
  <2>2. CASE i \notin DOMAIN chain[name]
    <3>1. chain'[name][i] = now
      BY <2>2 DEF Grows
    <3> QED
      BY <1>1, <3>1
  <2> QED
    BY <2>1, <2>2
<1>4. Current(name, answer, t)'
  BY <1>3 DEF Current
<1> QED
  BY <1>2, <1>4 DEF Vouched

LEMMA CandidatesAreNames ==
    ASSUME NEW r \in ScanRecord, r.input \in Inputs
    PROVE  Candidates(r) \subseteq Names
<1>1. r.input.handle \in Names \cup {Null}
  BY TelegramScanAssumption
<1>2. r.entity # Null => r.entity.username \in Names \cup {Null}
  BY RecordFields, TelegramScanAssumption
<1> QED
  BY <1>1, <1>2 DEF Candidates, Named

LEMMA TruthfulStays ==
    ASSUME NEW r \in ScanRecord, r.pc # "idle" => r.input \in Inputs, r.pc = "idle" => r = Idle,
           Truthful(r), Grows
    PROVE  Truthful(r)'
<1>1. Ttl \in Nat \ {0} /\ now \in Nat /\ now' \in Nat /\ now <= now'
  BY OwnershipCacheAssumption DEF Grows
<1>2. \A j \in r.judged : j.at <= now' /\ Vouched(j.name, j.answer, j.at + 1)'
  <2> TAKE j \in r.judged
  <2>1. j.name \in Names /\ j.answer \in Answers /\ j.at \in Nat
    <3>1. j \in Verdicts
      BY RecordFields
    <3> QED
      BY <3>1 DEF Verdicts
  <2>2. j.at <= now /\ Vouched(j.name, j.answer, j.at + 1)
    BY DEF Truthful
  <2>3. j.at <= now' /\ j.at + 1 <= now + Ttl /\ j.at + 1 \in Nat
    BY <1>1, <2>1, <2>2
  <2> QED
    BY <2>1, <2>2, <2>3, VouchedStays
<1>3. Justified(r)'
  <2>1. CASE r.pc = "idle"
    BY <2>1 DEF Justified, Idle, Rules
  <2>2. CASE r.pc # "idle"
    <3>1. Candidates(r) \subseteq Names
      BY <2>2, CandidatesAreNames
    <3> QED
      BY <3>1 DEF Truthful, Justified, Grows, Candidates
  <2> QED
    BY <2>1, <2>2
<1> QED
  BY <1>2, <1>3 DEF Truthful

-----------------------------------------------------------------------------
(* The steps of a scan                                                      *)

(* s moves to a record that stands and is truthful.                           *)
Moves(s) == \E r : scan' = [scan EXCEPT ![s] = r] /\ Stands(r) /\ Truthful(r)

LEMMA Asks ==
    ASSUME NEW s \in Scans, ScansStand, scan[s].pc \in Resolving
    PROVE  Asking(scan[s]) /\ Truthful(scan[s]) /\ scan[s] \in ScanRecord
  BY DEF ScansStand, Stands

(* A quiet successor that stands is where the scan may move.                   *)
LEMMA QuietMove ==
    ASSUME NEW s \in Scans, NEW r, Become(s, r), Stands(r), NEW p, Truthful(p), Quiet(r, p)
    PROVE  Moves(s)
  BY QuietIsTruthful DEF Become, Moves

LEMMA StartMoves ==
    ASSUME NEW s \in Scans, TypeOK, Start(s)
    PROVE  Moves(s)
<1>1. PICK x \in Inputs :
         Become(s, Route([Idle EXCEPT !.input = x, !.started = now, !.findings = InputFindings(x)]))
  BY DEF Start, Continue
<1> DEFINE r == [Idle EXCEPT !.input = x, !.started = now, !.findings = InputFindings(x)]
<1>2. now \in Nat
  BY DEF TypeOK
<1>3. /\ r \in ScanRecord
      /\ r.input = x /\ r.started = now /\ r.findings = InputFindings(x)
      /\ r.entity = Null /\ r.source = "none" /\ r.judged = {} /\ r.todo = <<>>
  BY <1>2, BegunRecord
<1> HIDE DEF r
<1>4. InputFindings(x) \in SUBSET AllFindings /\ Rules(InputFindings(x)) \subseteq Suspicions
  BY InputFindingsAreSuspected, RulesOfSuspected
<1>5. ReportsPastedHandle(r)
  <2>1. \A f \in InputFindings(x) : confidenceRank(f.confidence) <= confidenceRank(f.confidence)
    BY <1>4, ConfidenceOf
  <2> QED
    BY <1>3, <2>1 DEF ReportsPastedHandle
<1>6. Asking(r)
  BY <1>2, <1>3, <1>4, <1>5, OtherRules DEF Asking, Fresh, BlamesBot
<1>7. Truthful(r)
  BY <1>3, <1>4, OtherRules DEF Truthful, Justified
<1>8. Stands(Route(r)) /\ Quiet(Route(r), r)
  BY <1>6, RouteStands
<1>9. Become(s, Route(r))
  BY <1>1 DEF r
<1> QED
  BY <1>7, <1>8, <1>9, QuietMove

LEMMA GetChatMoves ==
    ASSUME NEW s \in Scans, ScansStand, GetChat(s)
    PROVE  Moves(s)
<1>1. Asking(scan[s]) /\ Truthful(scan[s])
  BY Asks DEF GetChat, Resolving
<1>2. CASE \E e \in {x \in Entities : x.kind # "group"} :
              Become(s, RunFragment(Resolved(scan[s], e, "getChat")))
  BY <1>1, <1>2, ResolvedStands, QuietMove
<1>3. CASE Become(s, Goto(scan[s], "observed"))
  <2>1. "observed" \in Resolving /\ AsksBot(scan[s])
    BY DEF Resolving, GetChat, ScansStand, Stands
  <2> QED
    BY <1>1, <1>3, <2>1, GotoResolver, QuietMove
<1>4. CASE \E rule \in providerFailure : Become(s, GiveUp(scan[s], Health(rule)))
  BY <1>1, <1>4, ProviderFailureIsReason, GiveUpStands, QuietMove
<1> QED
  BY <1>2, <1>3, <1>4 DEF GetChat, Continue

LEMMA FindObservedMoves ==
    ASSUME NEW s \in Scans, ScansStand, FindObserved(s)
    PROVE  Moves(s)
<1>1. Asking(scan[s]) /\ Truthful(scan[s]) /\ scan[s] \in ScanRecord
  BY Asks DEF FindObserved, Resolving
<1>2. CASE Become(s, AskMtproto(scan[s]))
  BY <1>1, <1>2, AskMtprotoStands, QuietMove
<1>3. ASSUME NEW id \in Ids, Become(s, [scan[s] EXCEPT !.pc = "getObserved", !.id = id])
      PROVE  Moves(s)
  <2> DEFINE r == scan[s]
             q == [r EXCEPT !.pc = "getObserved", !.id = id]
  <2>1. "getObserved" \in Resolving /\ "getObserved" \in Stages
    BY DEF Resolving, Stages
  <2>2. /\ q \in ScanRecord /\ q.pc = "getObserved" /\ q.source = r.source
        /\ q.input = r.input /\ q.started = r.started /\ q.entity = r.entity
        /\ q.judged = r.judged /\ q.findings = r.findings
    BY <1>1, <2>1 DEF ScanRecord
  <2>3. Become(s, q)
    BY <1>3
  <2> HIDE DEF q
  <2>4. Asking(q)
    BY <1>1, <2>2 DEF Asking, Fresh, ReportsPastedHandle, BlamesBot
  <2>5. Stands(q)
    BY <2>2, <2>4 DEF Stands, Resolving, InFragment
  <2>6. Quiet(q, r)
    BY <2>2 DEF Quiet, Candidates
  <2> QED
    BY <1>1, <2>3, <2>5, <2>6, QuietMove
<1>4. CASE Become(s, StoreRejects(scan[s]))
  <2>1. AsksBot(scan[s]) /\ scan[s].input \in Inputs
    BY <1>1 DEF FindObserved, ScansStand, Stands, Asking, Fresh
  <2> QED
    BY <1>1, <1>4, <2>1, StoreRejectsStands, QuietMove
<1> QED
  BY <1>2, <1>3, <1>4 DEF FindObserved, Continue

LEMMA GetObservedMoves ==
    ASSUME NEW s \in Scans, ScansStand, GetObserved(s)
    PROVE  Moves(s)
<1>1. Asking(scan[s]) /\ Truthful(scan[s])
  BY Asks DEF GetObserved, Resolving
<1>2. CASE \E e \in Entities : Become(s, RunFragment(Resolved(scan[s], e, "getChat")))
  BY <1>1, <1>2, ResolvedStands, QuietMove
<1>3. CASE Become(s, AskMtproto(scan[s]))
  BY <1>1, <1>3, AskMtprotoStands, QuietMove
<1> QED
  BY <1>2, <1>3 DEF GetObserved, Continue, Identified

LEMMA GetByIdMoves ==
    ASSUME NEW s \in Scans, ScansStand, GetById(s)
    PROVE  Moves(s)
<1>1. Asking(scan[s]) /\ Truthful(scan[s])
  BY Asks DEF GetById, Resolving
<1>2. CASE \E e \in Entities : Become(s, RunFragment(Resolved(scan[s], e, "getChat")))
  BY <1>1, <1>2, ResolvedStands, QuietMove
<1>3. CASE Become(s, GiveUp(scan[s], NotResolvable))
  BY <1>1, <1>3, NotResolvableIsReason, GiveUpStands, QuietMove
<1>4. CASE \E rule \in providerFailure : Become(s, GiveUp(scan[s], Health(rule)))
  BY <1>1, <1>4, ProviderFailureIsReason, GiveUpStands, QuietMove
<1> QED
  BY <1>2, <1>3, <1>4 DEF GetById, Continue, Identified

LEMMA LookupMoves ==
    ASSUME NEW s \in Scans, ScansStand, Lookup(s)
    PROVE  Moves(s)
<1>1. Asking(scan[s]) /\ Truthful(scan[s]) /\ "lookup" \in Resolving
  BY Asks DEF Lookup, Resolving
<1>2. Become(s, Goto(scan[s], "lookup"))
  BY DEF Lookup
<1> QED
  BY <1>1, <1>2, GotoResolver, QuietMove

LEMMA LookedUpMoves ==
    ASSUME NEW s \in Scans, ScansStand, LookedUp(s)
    PROVE  Moves(s)
<1>1. Asking(scan[s]) /\ Truthful(scan[s])
  BY Asks DEF LookedUp, Resolving
<1>2. CASE \E e \in Entities : Become(s, RunFragment(Resolved(scan[s], e, "mtproto")))
  BY <1>1, <1>2, ResolvedStands, QuietMove
<1>3. CASE Become(s, GiveUp(scan[s], Unresolved(scan[s])))
  BY <1>1, <1>3, UnresolvedIsReason, GiveUpStands, QuietMove
<1>4. CASE Become(s, GiveUp(scan[s], Unresolved(scan[s])
                                \cup Health("TELEGRAM_MTPROTO_LOOKUP_UNAVAILABLE")))
  BY <1>1, <1>4, UnresolvedIsReason, GiveUpStands, QuietMove
<1> QED
  BY <1>2, <1>3, <1>4 DEF LookedUp

LEMMA FragmentDisabledMoves ==
    ASSUME NEW s \in Scans, ScansStand, FragmentDisabled(s)
    PROVE  Moves(s)
<1> DEFINE r == scan[s]
           F == IF r.todo = <<>> THEN {} ELSE Health(FragmentOff)
           q == [Add(r, F) EXCEPT !.todo = <<>>]
<1>1. /\ r.pc = "fragment" /\ (r.todo = <<>> \/ "fragment" \notin config)
      /\ Become(s, AfterFragment(q))
  BY DEF FragmentDisabled, Continue, FragmentOff
<1>2. Looking(r) /\ Truthful(r) /\ r \in ScanRecord
  BY <1>1 DEF ScansStand, Stands, InFragment
<1>3. F \in SUBSET AllFindings /\ Rules(F) = IF r.todo = <<>> THEN {} ELSE {FragmentOff}
  <2>1. FragmentOff \in AllRules /\ Rules({}) = {}
    BY DEF AllRules, Rules
  <2> QED
    BY <2>1, RuleOfHealth
<1> HIDE DEF F, r
<1>4. /\ q \in ScanRecord /\ q.todo = <<>> /\ q.findings = r.findings \cup F
      /\ q.input = r.input /\ q.started = r.started
      /\ q.entity = r.entity /\ q.source = r.source /\ q.judged = r.judged
  <2> DEFINE p == Add(r, F)
  <2>1. /\ p \in ScanRecord /\ p.findings = r.findings \cup F
        /\ p.input = r.input /\ p.started = r.started
        /\ p.entity = r.entity /\ p.source = r.source /\ p.judged = r.judged
    BY <1>2, <1>3, AddRecord
  <2> HIDE DEF p
  <2>2. q = [p EXCEPT !.todo = <<>>] /\ <<>> \in Seq(Names)
    BY DEF p
  <2> QED
    BY <2>1, <2>2 DEF ScanRecord
<1> HIDE DEF q
<1>5. Rules(q.findings) = Rules(r.findings) \cup Rules(F)
  BY <1>4, RulesOfUnion
<1>6. Known(q)
  <2>1. FragmentOff \notin Reasons /\ BotOff \in Reasons
    BY OtherRules
  <2>2. Explained(q) /\ BlamesBot(q) /\ Reported(q)
    BY <1>2, <1>3, <1>4, <1>5, <2>1 DEF Looking, Known, Explained, BlamesBot, Reported
  <2>3. ReportsPastedHandle(q) /\ (q.source = "forward" => Stored(q))
    BY <1>2, <1>4 DEF Looking, Known, ReportsPastedHandle, Stored
  <2> QED
    BY <1>2, <1>4, <2>2, <2>3 DEF Known, Looking
<1>7. Looked(q)
  <2>1. Candidates(q) = Candidates(r) /\ JudgedNames(q) = JudgedNames(r)
    BY <1>4 DEF Candidates, JudgedNames
  <2>2. CASE r.todo = <<>>
    <3>1. Pending(r) = {}
      BY <2>2 DEF Pending
    <3>2. FragmentOff \notin Rules(q.findings)
      BY <1>2, <1>3, <1>5, <2>2 DEF Looking
    <3>3. \A n \in Candidates(q) : n \in JudgedNames(q) /\ "fragment" \in config
      BY <1>2, <2>1, <3>1 DEF Looking
    <3> QED
      BY <1>6, <3>2, <3>3 DEF Looked
  <2>3. CASE r.todo # <<>>
    <3>1. FragmentOff \in Rules(q.findings) /\ "fragment" \notin config
      BY <1>1, <1>3, <1>5, <2>3
    <3>2. Candidates(q) # {}
      <4>1. 1 \in DOMAIN r.todo
        BY <1>2, <2>3, RecordFields
      <4> QED
        BY <1>2, <2>1, <4>1 DEF Looking, Pending
    <3> QED
      BY <1>6, <3>1, <3>2 DEF Looked
  <2> QED
    BY <2>2, <2>3
<1>8. Stands(AfterFragment(q)) /\ Quiet(AfterFragment(q), q)
  BY <1>4, <1>6, <1>7, AfterFragmentStands
<1>9. Quiet(q, r)
  BY <1>3, <1>4, <1>5, OtherRules DEF Quiet, Candidates
<1> QED
  BY <1>1, <1>2, <1>8, <1>9, QuietIsTransitive, QuietMove

(* The cache after a step that only reorders, drops or adds a vouched entry.    *)
LEMMA CacheSteps ==
    ASSUME CacheIsBounded, CacheIsVouched, UNCHANGED <<now, chain>>,
           Len(cache') <= MaxEntries, OncePerName(cache'),
           \A i \in DOMAIN cache' :
              \/ \E k \in DOMAIN cache : cache'[i] = cache[k]
              \/ /\ cache'[i].result.status # "failed" /\ cache'[i].expiresAt <= now + Ttl
                 /\ Vouched(cache'[i].name, cache'[i].result, cache'[i].expiresAt)
    PROVE  CacheIsBounded' /\ CacheIsVouched'
<1>1. \A i \in DOMAIN cache' :
         /\ cache'[i].result.status # "failed" /\ cache'[i].expiresAt <= now + Ttl
         /\ Vouched(cache'[i].name, cache'[i].result, cache'[i].expiresAt)
  BY DEF CacheIsBounded, CacheIsVouched
<1>2. \A name, answer, t : Vouched(name, answer, t) => Vouched(name, answer, t)'
  BY DEF Vouched, Happened, Current
<1>3. CacheIsVouched'
  BY <1>1, <1>2 DEF CacheIsVouched
<1>4. CacheIsBounded'
  BY <1>1 DEF CacheIsBounded, OncePerName
<1> QED
  BY <1>3, <1>4

LEMMA LooksFor ==
    ASSUME NEW s \in Scans, ScansStand, scan[s].pc \in InFragment,
           scan[s].pc = "fragment" => scan[s].todo # <<>> /\ "fragment" \in config
    PROVE  /\ Looking(scan[s]) /\ Truthful(scan[s]) /\ scan[s] \in ScanRecord
           /\ scan[s].todo # <<>> /\ "fragment" \in config
           /\ Head(scan[s].todo) \in Names
<1>1. /\ Looking(scan[s]) /\ Truthful(scan[s]) /\ scan[s] \in ScanRecord
      /\ scan[s].todo # <<>> /\ "fragment" \in config
  BY DEF ScansStand, Stands, InFragment
<1> QED
  BY <1>1, RecordFields

(* An answer that is vouched for is judged.                                   *)
LEMMA JudgeMoves ==
    ASSUME NEW s \in Scans, Looking(scan[s]), Truthful(scan[s]), scan[s].todo # <<>>,
           "fragment" \in config, now \in Nat,
           NEW answer \in Answers, Vouched(Head(scan[s].todo), answer, now + 1), Judge(s, answer)
    PROVE  Moves(s)
<1> DEFINE q == Judged(scan[s], answer)
<1>1. Become(s, AfterFragment(q))
  BY DEF Judge
<1>2. answer.transfer # 0 => answer.status = "ok"
  BY DEF Vouched, Happened
<1>3. Stands(AfterFragment(q)) /\ Quiet(AfterFragment(q), q)
  BY <1>2, JudgedStands
<1>4. Truthful(q)
  BY JudgedIsTruthful
<1> HIDE DEF q
<1> QED
  BY <1>1, <1>3, <1>4, QuietMove

LEMMA GetCachedMoves ==
    ASSUME NEW s \in Scans, TypeOK, CacheIsBounded, CacheIsVouched, ScansStand, GetCached(s)
    PROVE  Moves(s) /\ cache' \in Seq(Entries) /\ CacheIsBounded' /\ CacheIsVouched'
<1> DEFINE r == scan[s]
           name == Head(r.todo)
<1>1. /\ Looking(r) /\ Truthful(r) /\ r \in ScanRecord
      /\ r.todo # <<>> /\ "fragment" \in config /\ name \in Names
  BY LooksFor DEF GetCached, InFragment
<1>2. /\ cache' = AfterGet(cache, name, now)
      /\ \/ Become(s, Goto(r, "dns"))
         \/ \E entry \in Hits(cache, name, now) : Judge(s, entry.result)
      /\ UNCHANGED <<now, chain>>
  BY DEF GetCached, Judge, Become
<1>3. cache \in Seq(Entries) /\ now \in Nat /\ OncePerName(cache) /\ Len(cache) <= MaxEntries
  BY DEF TypeOK, CacheIsBounded, OncePerName
<1>4. /\ cache' \in Seq(Entries) /\ Len(cache') <= Len(cache) /\ OncePerName(cache')
      /\ \A i \in DOMAIN cache' : \E k \in DOMAIN cache : cache'[i] = cache[k]
  BY <1>2, <1>3, AfterGetKeeps
<1>5. CacheIsBounded' /\ CacheIsVouched'
  <2>1. Len(cache') <= MaxEntries
    <3>1. Len(cache) \in Nat /\ Len(cache') \in Nat /\ MaxEntries \in Nat
      BY <1>3, <1>4, OwnershipCacheAssumption
    <3> QED
      BY <1>3, <1>4, <3>1
  <2> QED
    BY <1>2, <1>4, <2>1, CacheSteps
<1>6. CASE Become(s, Goto(r, "dns"))
  <2> DEFINE q == Goto(r, "dns")
  <2>1. "dns" \in Stages
    BY DEF Stages, InFragment
  <2>2. /\ q \in ScanRecord /\ q.pc = "dns" /\ Alike(q, r) /\ q.todo = r.todo /\ q.entity = r.entity
        /\ q.input = r.input /\ q.judged = r.judged /\ q.findings = r.findings
    BY <1>1, <2>1, GotoRecord, GotoAlike
  <2>3. Become(s, q)
    BY <1>6
  <2> HIDE DEF q
  <2>4. Known(q) /\ Quiet(q, r)
    BY <1>1, <2>2, AlikeFacts DEF Looking
  <2>5. Looking(q)
    BY <1>1, <2>2, <2>4 DEF Looking, Candidates, Pending, JudgedNames
  <2>6. Stands(q)
    BY <1>1, <2>2, <2>5 DEF Stands, Resolving, InFragment
  <2> QED
    BY <1>1, <1>4, <1>5, <2>3, <2>4, <2>6, QuietMove
<1>7. ASSUME NEW entry \in Hits(cache, name, now), Judge(s, entry.result)
      PROVE  Moves(s)
  <2>1. PICK i \in DOMAIN cache : entry = cache[i] /\ cache[i].name = name /\ cache[i].expiresAt > now
    BY DEF Hits, Live
  <2>2. entry \in Entries
    BY <1>3, <2>1
  <2>3. entry.result \in Answers /\ entry.expiresAt \in Nat
    BY <2>2 DEF Entries
  <2>4. Vouched(name, entry.result, entry.expiresAt)
    BY <2>1 DEF CacheIsVouched
  <2>5. Vouched(name, entry.result, now + 1)
    <3>1. entry.expiresAt >= now + 1 /\ Ttl \in Nat
      BY <1>3, <2>1, <2>3, OwnershipCacheAssumption
    <3>2. \A j \in DOMAIN chain[name] : chain[name][j] \in Nat
      BY <1>1 DEF TypeOK
    <3>3. Current(name, entry.result, now + 1)
      <4> HIDE DEF name
      <4>1. \A n \in Nat : n + Ttl >= entry.expiresAt => n + Ttl >= now + 1
        BY <1>3, <2>3, <3>1
      <4> QED
        BY <2>4, <3>2, <4>1 DEF Vouched, Current
    <3> QED
      BY <2>4, <3>3 DEF Vouched
  <2> QED
    BY <1>1, <1>3, <1>7, <2>3, <2>5, JudgeMoves
<1> QED
  BY <1>2, <1>4, <1>5, <1>6, <1>7

(* The answer of a lookup that is over is vouched for a TTL.                   *)
LEMMA AnsweredMoves ==
    ASSUME NEW s \in Scans, TypeOK, CacheIsBounded, CacheIsVouched,
           Looking(scan[s]), Truthful(scan[s]), scan[s].todo # <<>>,
           Head(scan[s].todo) \in Names, "fragment" \in config,
           NEW answer \in Answers, Vouched(Head(scan[s].todo), answer, now + Ttl),
           Answered(s, answer)
    PROVE  Moves(s) /\ cache' \in Seq(Entries) /\ CacheIsBounded' /\ CacheIsVouched'
<1> DEFINE name == Head(scan[s].todo)
           entry == [name |-> name, result |-> answer, expiresAt |-> now + Ttl]
<1>1. cache' = AfterSet(cache, name, answer, now) /\ Judge(s, answer) /\ UNCHANGED <<now, chain>>
  BY DEF Answered, Judge, Become
<1>2. /\ cache \in Seq(Entries) /\ now \in Nat /\ OncePerName(cache) /\ Len(cache) <= MaxEntries
      /\ Ttl \in Nat \ {0}
  BY OwnershipCacheAssumption DEF TypeOK, CacheIsBounded, OncePerName
<1>3. /\ cache' \in Seq(Entries) /\ Len(cache') <= MaxEntries /\ OncePerName(cache')
      /\ \A i \in DOMAIN cache' : \/ \E k \in DOMAIN cache : cache'[i] = cache[k]
                                  \/ (cache'[i] = entry /\ shouldCache(answer))
  BY <1>1, <1>2, AfterSetKeeps
<1>4. now + Ttl <= now + Ttl
  BY <1>2
<1>5. CacheIsBounded' /\ CacheIsVouched'
  <2>1. \A i \in DOMAIN cache' :
           \/ \E k \in DOMAIN cache : cache'[i] = cache[k]
           \/ /\ cache'[i].result.status # "failed" /\ cache'[i].expiresAt <= now + Ttl
              /\ Vouched(cache'[i].name, cache'[i].result, cache'[i].expiresAt)
    <3> SUFFICES ASSUME cache' # cache, shouldCache(answer)
                 PROVE  /\ entry.result.status # "failed" /\ entry.expiresAt <= now + Ttl
                        /\ Vouched(entry.name, entry.result, entry.expiresAt)
      BY <1>3
    <3> QED
      BY <1>4 DEF shouldCache
  <2> QED
    BY <1>1, <1>3, <2>1, CacheSteps
<1>6. Vouched(name, answer, now + 1)
  <2>1. \A i \in DOMAIN chain[name] : chain[name][i] \in Nat
    BY DEF TypeOK
  <2> HIDE DEF name
  <2>2. \A n \in Nat : n + Ttl >= now + Ttl => n + Ttl >= now + 1
    BY <1>2
  <2>3. Current(name, answer, now + 1)
    BY <2>1, <2>2 DEF Vouched, Current, name
  <2> QED
    BY <2>3 DEF Vouched, name
<1>7. Moves(s)
  BY <1>1, <1>2, <1>6, JudgeMoves
<1> QED
  BY <1>3, <1>5, <1>7

LEMMA PlainAnswers ==
    \A status \in {"ok", "not_found", "failed"} :
        /\ Answer(status) \in Answers
        /\ Answer(status).status = status /\ Answer(status).transfer = 0
        /\ ~Answer(status).truncated
  BY DEF Answer, Answers

LEMMA GetDnsInfoMoves ==
    ASSUME NEW s \in Scans, TypeOK, Timeline, CacheIsBounded, CacheIsVouched, ScansStand, GetDnsInfo(s)
    PROVE  Moves(s) /\ cache' \in Seq(Entries) /\ CacheIsBounded' /\ CacheIsVouched'
<1> DEFINE r == scan[s]
           name == Head(r.todo)
<1>1. /\ Looking(r) /\ Truthful(r) /\ r \in ScanRecord
      /\ r.todo # <<>> /\ "fragment" \in config /\ name \in Names
  BY LooksFor DEF GetDnsInfo, InFragment
<1>2. CASE name \notin Minted /\ Answered(s, Answer("not_found"))
  <2>1. chain[name] = <<>>
    BY <1>1, <1>2 DEF Timeline
  <2>2. Vouched(name, Answer("not_found"), now + Ttl)
    <3> HIDE DEF name
    <3> QED
      BY <2>1, PlainAnswers DEF Vouched, Happened, Current
  <2> QED
    BY <1>1, <1>2, <2>2, PlainAnswers, AnsweredMoves
<1>3. CASE Answered(s, Outage)
  <2>1. Outage = Answer("failed")
    BY DEF Outage
  <2>2. Vouched(name, Outage, now + Ttl)
    BY <2>1, PlainAnswers DEF Vouched, Happened, Current
  <2> QED
    BY <1>1, <1>3, <2>1, <2>2, PlainAnswers, AnsweredMoves
<1>4. CASE Continue(s, [r EXCEPT !.pc = "history", !.owner = Len(chain[name])])
  <2> DEFINE q == [r EXCEPT !.pc = "history", !.owner = Len(chain[name])]
  <2>1. Len(chain[name]) \in Nat /\ "history" \in Stages
    BY <1>1 DEF TypeOK, Stages, InFragment
  <2> HIDE DEF name
  <2>2. /\ q \in ScanRecord /\ q.pc = "history" /\ q.todo = r.todo /\ q.owner = Len(chain[name])
        /\ q.input = r.input /\ q.started = r.started /\ q.entity = r.entity /\ q.source = r.source
        /\ q.judged = r.judged /\ q.findings = r.findings
    BY <1>1, <2>1 DEF ScanRecord
  <2>3. Become(s, q)
    BY <1>4 DEF Continue
  <2> HIDE DEF q, r
  <2>4. Alike(q, r)
    <3>1. \A f \in r.findings : confidenceRank(f.confidence) <= confidenceRank(f.confidence)
      BY <1>1, RecordFields, ConfidenceOf
    <3> QED
      BY <2>2, <3>1 DEF Alike
  <2>5. Known(q) /\ Quiet(q, r)
    BY <1>1, <2>4, AlikeFacts DEF Looking
  <2>6. Looking(q)
    BY <1>1, <2>2, <2>5 DEF Looking, Candidates, Pending, JudgedNames
  <2>7. q.owner <= Len(chain[Head(q.todo)])
    BY <2>1, <2>2 DEF name
  <2>8. Stands(q)
    BY <1>1, <2>2, <2>6, <2>7 DEF Stands, Resolving, InFragment
  <2>9. Moves(s)
    BY <1>1, <2>3, <2>5, <2>8, QuietMove DEF r
  <2>10. UNCHANGED <<cache, now, chain>>
    BY <1>4 DEF Continue, Become
  <2>11. CacheIsBounded' /\ CacheIsVouched'
    BY <2>10 DEF CacheIsBounded, CacheIsVouched, Vouched, Happened, Current
  <2> QED
    BY <2>9, <2>10, <2>11 DEF TypeOK
<1> QED
  BY <1>2, <1>3, <1>4 DEF GetDnsInfo

LEMMA GetHistoryMoves ==
    ASSUME NEW s \in Scans, TypeOK, Timeline, CacheIsBounded, CacheIsVouched, ScansStand, GetHistory(s)
    PROVE  Moves(s) /\ cache' \in Seq(Entries) /\ CacheIsBounded' /\ CacheIsVouched'
<1> DEFINE r == scan[s]
           name == Head(r.todo)
           transfers == chain[name]
<1>1. /\ Looking(r) /\ Truthful(r) /\ r \in ScanRecord
      /\ r.todo # <<>> /\ "fragment" \in config /\ name \in Names
  BY LooksFor DEF GetHistory, InFragment
<1>2. /\ transfers \in Seq(Nat) /\ Len(transfers) \in Nat /\ DOMAIN transfers = 1 .. Len(transfers)
      /\ r.owner \in Nat /\ r.owner <= Len(transfers)
  <2>1. transfers \in Seq(Nat)
    BY <1>1 DEF TypeOK
  <2>2. r.owner \in Nat /\ r.owner <= Len(transfers)
    BY <1>1, RecordFields DEF ScansStand, Stands, GetHistory
  <2> HIDE DEF transfers
  <2> QED
    BY <2>1, <2>2
<1>3. CASE Answered(s, Outage)
  <2>1. Outage = Answer("failed")
    BY DEF Outage
  <2>2. Vouched(name, Outage, now + Ttl)
    BY <2>1, PlainAnswers DEF Vouched, Happened, Current
  <2> QED
    BY <1>1, <1>3, <2>1, <2>2, PlainAnswers, AnsweredMoves
<1>4. ASSUME Answered(s, [Answer("ok") EXCEPT !.owner = r.owner, !.truncated = transfers # <<>>])
      PROVE  Moves(s) /\ cache' \in Seq(Entries) /\ CacheIsBounded' /\ CacheIsVouched'
  <2> DEFINE unseen == transfers # <<>>
             a == [Answer("ok") EXCEPT !.owner = r.owner, !.truncated = unseen]
  <2>1. unseen \in BOOLEAN
    OBVIOUS
  <2>2. Answered(s, a)
    BY <1>4
  <2> HIDE DEF unseen
  <2>3. a \in Answers /\ a.transfer = 0 /\ a.truncated = unseen
    BY <1>2, <2>1 DEF Answer, Answers
  <2> HIDE DEF a
  <2>4. Vouched(name, a, now + Ttl)
    <3>1. ~unseen => chain[name] = <<>>
      BY DEF unseen
    <3> HIDE DEF name, transfers
    <3> QED
      BY <2>3, <3>1 DEF Vouched, Happened, Current
  <2> QED
    BY <1>1, <2>2, <2>3, <2>4, AnsweredMoves
<1>5. ASSUME transfers # <<>>, Answered(s, findLatestNftTransfer(r.owner, transfers))
      PROVE  Moves(s) /\ cache' \in Seq(Entries) /\ CacheIsBounded' /\ CacheIsVouched'
  <2> DEFINE a == findLatestNftTransfer(r.owner, transfers)
             n == Len(transfers)
  <2>1. n \in DOMAIN transfers /\ n \in Nat /\ transfers[n] \in Nat
    BY <1>2, <1>5
  <2> HIDE DEF transfers
  <2>2. /\ a \in Answers /\ a.transfer = n /\ a.at = transfers[n] /\ a.owner = r.owner
        /\ a.status = "ok"
    BY <1>2, <2>1 DEF findLatestNftTransfer, Answer, Answers
  <2>3. Answered(s, a)
    BY <1>5
  <2> HIDE DEF a, n
  <2>4. \A i \in DOMAIN transfers : ~(i > n)
    BY <1>2 DEF n
  <2>5. Vouched(name, a, now + Ttl)
    <3>1. a.owner <= n
      BY <1>2, <2>2 DEF n
    <3> HIDE DEF name
    <3> QED
      BY <2>1, <2>2, <2>4, <3>1 DEF Vouched, Happened, Current, transfers
  <2> QED
    BY <1>1, <2>2, <2>3, <2>5, AnsweredMoves
<1> QED
  BY <1>3, <1>4, <1>5 DEF GetHistory

LEMMA GiftsOfChatMoves ==
    ASSUME NEW s \in Scans, ScansStand, GiftsOfChat(s)
    PROVE  Moves(s)
<1> DEFINE r == scan[s]
<1>1. /\ Looked(r) /\ Stored(r) /\ Truthful(r) /\ r \in ScanRecord
      /\ r.input \in Inputs /\ r.entity # Null
  BY DEF GiftsOfChat, ScansStand, Stands, Looked, Known
<1>2. ASSUME NEW c \in {"medium", "high"},
             NEW G \in {{}, {Finding("TELEGRAM_GIFT_FROM_UNKNOWN_PUBLISHER", c)}},
             Become(s, Return(Add(r, G)))
      PROVE  Moves(s)
  <2> DEFINE p == Add(r, G)
  <2>1. G \in SUBSET Suspected /\ G \in SUBSET AllFindings
    BY <1>2, GiftFindings, RulesOfSuspected
  <2>2. Alike(p, r)
    BY <1>1, <2>1, AddAlike
  <2> HIDE DEF p
  <2>3. Looked(p) /\ Stored(p) /\ Quiet(p, r)
    BY <1>1, <2>2, AlikeFacts
  <2>4. Stands(Return(p)) /\ Quiet(Return(p), p)
    BY <2>3, ReturnStands
  <2>5. Become(s, Return(p))
    BY <1>2 DEF p
  <2> QED
    BY <1>1, <2>3, <2>4, <2>5, QuietIsTransitive, QuietMove
<1>3. CASE Become(s, StoreRejects(r))
  BY <1>1, <1>3, StoreRejectsStands, QuietMove
<1> QED
  BY <1>2, <1>3 DEF GiftsOfChat, Continue

(* recordSnapshot leaves the entity with a row unless it rejects, and takes none. *)
LEMMA RowsGrow ==
    ASSUME NEW s \in Scans, TypeOK, RecordSnapshot(s), scan[s].entity \in Entities
    PROVE  /\ rows' \in [Ids -> Seq(Snapshots)]
           /\ \/ rows'[scan[s].entity.id] # <<>>
              \/ Become(s, StoreRejects(scan[s]))
           /\ \A id \in Ids : rows[id] # <<>> => rows'[id] # <<>>
<1> DEFINE r == scan[s]
           id == r.entity.id
           known == rows[id]
           kept == known \o <<NoRow, NoRow>>
           row == [username |-> r.entity.username, at |-> r.started]
           newer == known = <<>> \/ row.at >= kept[1].at
           repeated == /\ known # <<>>
                       /\ row.username = kept[1].username
                       /\ row.at - kept[1].at < Cooldown
           second == Len(known) = 1 \/ row.at >= kept[2].at
           after == IF newer THEN SubSeq(<<row>> \o known, 1, IF known = <<>> THEN 1 ELSE 2)
                    ELSE IF second THEN <<kept[1], row>> ELSE known
<1>1. id \in Ids /\ known \in Seq(Snapshots) /\ rows \in [Ids -> Seq(Snapshots)]
  BY DEF TypeOK, Ids
<1>2. row \in Snapshots
  <2>1. r.started \in Nat /\ r.entity.username \in Names \cup {Null}
    BY RecordFields, TelegramScanAssumption DEF TypeOK
  <2> QED
    BY <2>1 DEF Snapshots
<1>3. kept[1] \in Snapshots
  <2>1. NoRow \in Snapshots
    BY DEF NoRow, Snapshots
  <2>2. <<NoRow, NoRow>> \in Seq(Snapshots)
    BY <2>1
  <2>3. kept \in Seq(Snapshots) /\ Len(kept) >= 1
    <3> DEFINE none == <<NoRow, NoRow>>
    <3>1. none \in Seq(Snapshots) /\ Len(none) = 2
      BY <2>1
    <3> HIDE DEF none, known
    <3>2. known \o none \in Seq(Snapshots) /\ Len(known \o none) = Len(known) + Len(none)
      BY <1>1, <3>1, ConcatProperties
    <3> QED
      BY <1>1, <3>1, <3>2 DEF none
  <2> HIDE DEF kept
  <2> QED
    BY <2>3
<1>4. /\ UNCHANGED rows \/ rows' = [rows EXCEPT ![id] = after]
      /\ \/ repeated /\ UNCHANGED rows
         \/ ~repeated /\ rows' = [rows EXCEPT ![id] = after]
         \/ Become(s, StoreRejects(r))
  BY DEF RecordSnapshot
<1>5. repeated => known # <<>>
  OBVIOUS
<1> HIDE DEF repeated
<1>6. after \in Seq(Snapshots) /\ after # <<>>
  <2>1. CASE newer
    <3> DEFINE longer == <<row>> \o known
               k == IF known = <<>> THEN 1 ELSE 2
    <3>1. longer \in Seq(Snapshots) /\ Len(longer) = 1 + Len(known)
      <4> DEFINE one == <<row>>
      <4>1. one \in Seq(Snapshots) /\ Len(one) = 1
        BY <1>2
      <4> HIDE DEF one, known, row
      <4>2. one \o known \in Seq(Snapshots) /\ Len(one \o known) = Len(one) + Len(known)
        BY <1>1, <4>1, ConcatProperties
      <4> QED
        BY <4>1, <4>2 DEF one
    <3>2. k \in 1 .. Len(longer)
      <4> HIDE DEF longer, known
      <4> QED
        BY <1>1, <3>1
    <3>3. after = SubSeq(longer, 1, k)
      BY <2>1
    <3> HIDE DEF longer, k, after
    <3>4. after \in Seq(Snapshots) /\ Len(after) = k
      BY <3>1, <3>2, <3>3
    <3> QED
      BY <3>2, <3>4
  <2>2. CASE ~newer /\ second
    <3>1. after = <<kept[1], row>>
      BY <2>2
    <3> HIDE DEF after, kept, row
    <3> QED
      BY <1>2, <1>3, <3>1
  <2>3. CASE ~newer /\ ~second
    <3>1. after = known /\ known # <<>>
      BY <2>3
    <3> QED
      BY <1>1, <3>1
  <2> QED
    BY <2>1, <2>2, <2>3
<1> HIDE DEF after, known, id
<1> QED
  BY <1>1, <1>4, <1>5, <1>6 DEF known, id

(* The lemmas of the stages, for the state after a step.                       *)
LEMMA RunFragmentStandsNext == (\A r : Ready(r) => Stands(RunFragment(r)))'
<1>1. \A r : Ready(r) => Stands(RunFragment(r))
  BY RunFragmentStands
<1> QED
  BY <1>1, PTL

LEMMA FinishStandsNext ==
    (\A r : Looked(r) /\ Stored(r) /\ r.entity # Null => Stands(Finish(r)))'
<1>1. \A r : Looked(r) /\ Stored(r) /\ r.entity # Null => Stands(Finish(r))
  BY FinishStands
<1> QED
  BY <1>1, PTL

LEMMA FinishIsQuiet ==
    ASSUME NEW r \in ScanRecord, r.entity # Null
    PROVE  Quiet(Finish(r), r)
  BY FinishAlike, AlikeFacts

LEMMA RecordSnapshotMoves ==
    ASSUME NEW s \in Scans, TypeOK, ScansStand, RecordSnapshot(s)
    PROVE  /\ Grows
           /\ rows' \in [Ids -> Seq(Snapshots)]
           /\ \E q : scan' = [scan EXCEPT ![s] = q] /\ Stands(q)' /\ Truthful(q)
<1> DEFINE r == scan[s]
<1>1. /\ r.pc = "record" /\ r.entity # Null /\ r \in ScanRecord /\ Truthful(r)
      /\ IF r.source = "forward" THEN Fresh(r) /\ Rules(r.findings) \cap Reasons = {} ELSE Looked(r)
  BY DEF RecordSnapshot, ScansStand, Stands
<1>2. r.entity \in Entities /\ r.entity.id \in Ids
  BY <1>1, RecordFields DEF Ids
<1>3. /\ rows' \in [Ids -> Seq(Snapshots)]
      /\ rows'[r.entity.id] # <<>> \/ Become(s, StoreRejects(r))
      /\ \A id \in Ids : rows[id] # <<>> => rows'[id] # <<>>
  BY <1>2, RowsGrow
<1>4. Grows
  <2>1. UNCHANGED <<now, chain, config>>
    BY DEF RecordSnapshot, Recorded, Become
  <2>2. now \in Nat /\ now <= now /\ chain \in [Names -> Seq(Nat)]
    BY DEF TypeOK
  <2> QED
    BY <1>3, <2>1, <2>2 DEF Grows
<1>5. CASE Become(s, StoreRejects(r))
  <2>0. PICK q : q = StoreRejects(r)
    OBVIOUS
  <2>1. r.input \in Inputs
    BY <1>1 DEF Fresh, Looked, Known
  <2>2. Stands(q) /\ Quiet(q, r)
    BY <1>1, <2>0, <2>1, StoreRejectsStands
  <2>3. scan' = [scan EXCEPT ![s] = q]
    BY <1>5, <2>0 DEF Become
  <2>4. Stands(q)' /\ Truthful(q)
    BY <1>1, <1>4, <2>2, StandsStays, QuietIsTruthful
  <2> QED
    BY <1>3, <1>4, <2>3, <2>4
<1>6. ASSUME ~Become(s, StoreRejects(r))
       PROVE  /\ Grows
              /\ rows' \in [Ids -> Seq(Snapshots)]
              /\ \E q : scan' = [scan EXCEPT ![s] = q] /\ Stands(q)' /\ Truthful(q)
  <2>1. PICK a, b : Recorded(s, a, b)
    BY <1>6 DEF RecordSnapshot
  <2>2. PICK p : p = Add(r, ChangeFindings(a, b))
    OBVIOUS
  <2> DEFINE q == IF p.source = "forward" THEN RunFragment(p) ELSE Finish(p)
  <2>3. scan' = [scan EXCEPT ![s] = q]
    BY <2>2, <2>1 DEF Recorded, Become
  <2>4. Alike(p, r) /\ p.entity = r.entity /\ p.source = r.source /\ p \in ScanRecord
    <3>1. ChangeFindings(a, b) \in SUBSET Suspected /\ ChangeFindings(a, b) \in SUBSET AllFindings
      BY SnapshotFindings, RulesOfSuspected
    <3> QED
      BY <2>2, <1>1, <3>1, AddAlike, AddRecord
  <2>5. Quiet(p, r)
    BY <1>1, <2>4, AlikeFacts
  <2>6. Stored(p)'
    BY <1>3, <1>6, <2>4 DEF Stored
  <2>7. CASE r.source = "forward"
    <3>1. Fresh(p) /\ Rules(p.findings) \cap Reasons = {}
      BY <1>1, <2>4, <2>7, AlikeFacts
    <3>2. Fresh(p)'
      BY <1>4, <3>1, FreshStays
    <3>3. Ready(p)'
      BY <1>1, <2>4, <2>6, <3>1, <3>2 DEF Ready, Explained
    <3>4. q = RunFragment(p)
      BY <2>4, <2>7
    <3>5. Stands(RunFragment(p))'
      BY <3>3, RunFragmentStandsNext
    <3>6. Quiet(RunFragment(p), p)
      <4>1. p.input \in Inputs
        BY <3>1 DEF Fresh
      <4> QED
        BY <2>4, <4>1, RunFragmentRecord DEF Quiet
    <3>7. Truthful(q)
      BY <1>1, <2>5, <3>4, <3>6, QuietIsTransitive, QuietIsTruthful
    <3> QED
      BY <1>3, <2>3, <1>4, <3>4, <3>5, <3>7
  <2>8. CASE r.source # "forward"
    <3>1. Looked(p)
      BY <1>1, <2>4, <2>8, AlikeFacts
    <3>2. Looked(p)'
      BY <1>4, <3>1, LookedStays
    <3>3. q = Finish(p) /\ p.entity # Null
      BY <1>1, <2>4, <2>8
    <3>4. Stands(Finish(p))'
      BY <2>6, <3>2, <3>3, FinishStandsNext
    <3>5. Quiet(Finish(p), p)
      BY <2>4, <3>1, <3>3, FinishIsQuiet
    <3>6. Truthful(q)
      BY <1>1, <2>5, <3>3, <3>5, QuietIsTransitive, QuietIsTruthful
    <3> QED
      BY <1>3, <2>3, <1>4, <3>3, <3>4, <3>6
  <2> QED
    BY <2>7, <2>8
<1> QED
  BY <1>5, <1>6

-----------------------------------------------------------------------------
(* The invariant                                                            *)

LEMMA StandsInput ==
    ASSUME NEW r, Stands(r)
    PROVE  /\ r \in ScanRecord
           /\ r.pc # "idle" => r.input \in Inputs
           /\ r.pc = "idle" => r = Idle
<1>1. r \in ScanRecord /\ r.pc \in Stages
  BY RecordFields DEF Stands
<1> QED
  BY <1>1 DEF Stands, Stages, Asking, Fresh, Looking, Looked, Known

LEMMA StandsInputNext ==
    (\A r : Stands(r) => /\ r \in ScanRecord
                         /\ r.pc # "idle" => r.input \in Inputs
                         /\ r.pc = "idle" => r = Idle)'
<1>1. \A r : Stands(r) => /\ r \in ScanRecord
                          /\ r.pc # "idle" => r.input \in Inputs
                          /\ r.pc = "idle" => r = Idle
  BY StandsInput
<1> QED
  BY <1>1, PTL

(* The scans that do not move stay as they are, in a world that grows.          *)
LEMMA MoveStands ==
    ASSUME NEW s \in Scans, TypeOK, ScansStand, Grows,
           NEW q, scan' = [scan EXCEPT ![s] = q], Stands(q)', Truthful(q)
    PROVE  ScansStand' /\ scan' \in [Scans -> ScanRecord]
<1>1. /\ q \in ScanRecord
      /\ q.pc # "idle" => q.input \in Inputs
      /\ q.pc = "idle" => q = Idle
  BY StandsInputNext
<1>2. Truthful(q)'
  BY <1>1, TruthfulStays
<1>3. scan' \in [Scans -> ScanRecord] /\ scan'[s] = q /\ \A t \in Scans : t # s => scan'[t] = scan[t]
  BY <1>1 DEF TypeOK
<1>4. ASSUME NEW t \in Scans PROVE (Stands(scan[t]) /\ Truthful(scan[t]))'
  <2>1. CASE t = s
    BY <1>2, <1>3, <2>1
  <2>2. CASE t # s
    <3>1. Stands(scan[t]) /\ Truthful(scan[t])
      BY DEF ScansStand
    <3>2. PICK r : r = scan[t]
      OBVIOUS
    <3>3. Stands(r) /\ Truthful(r) /\ scan'[t] = r
      BY <1>3, <2>2, <3>1, <3>2
    <3>4. Stands(r)' /\ Truthful(r)'
      BY <3>3, StandsStays, StandsInput, TruthfulStays
    <3> QED
      BY <3>3, <3>4
  <2> QED
    BY <2>1, <2>2
<1>5. ScansStand'
  BY <1>4 DEF ScansStand
<1> QED
  BY <1>3, <1>5

LEMMA StillStands ==
    ASSUME TypeOK, ScansStand, Grows, UNCHANGED scan
    PROVE  ScansStand'
<1>1. ASSUME NEW t \in Scans PROVE (Stands(scan[t]) /\ Truthful(scan[t]))'
  <2>1. PICK r : r = scan[t]
    OBVIOUS
  <2>2. Stands(r) /\ Truthful(r) /\ scan'[t] = r
    BY <2>1 DEF ScansStand
  <2>3. Stands(r)' /\ Truthful(r)'
    BY <2>2, StandsStays, StandsInput, TruthfulStays
  <2> QED
    BY <2>2, <2>3
<1> QED
  BY <1>1 DEF ScansStand

LEMMA CacheStays ==
    ASSUME TypeOK, CacheIsBounded, CacheIsVouched, Grows, UNCHANGED cache
    PROVE  CacheIsBounded' /\ CacheIsVouched'
<1>1. CacheIsBounded'
  BY DEF CacheIsBounded
<1>2. ASSUME NEW i \in DOMAIN cache
      PROVE  /\ cache[i].expiresAt <= now' + Ttl
             /\ Vouched(cache[i].name, cache[i].result, cache[i].expiresAt)'
  <2>1. PICK e : e = cache[i]
    OBVIOUS
  <2>2. e \in Entries
    BY <2>1 DEF TypeOK
  <2>3. e.name \in Names /\ e.result \in Answers /\ e.expiresAt \in Nat
    BY <2>2 DEF Entries
  <2>4. e.expiresAt <= now + Ttl /\ Vouched(e.name, e.result, e.expiresAt)
    BY <2>1 DEF CacheIsVouched
  <2>5. Vouched(e.name, e.result, e.expiresAt)'
    BY <2>3, <2>4, VouchedStays
  <2>6. e.expiresAt <= now' + Ttl
    BY <2>3, <2>4, OwnershipCacheAssumption DEF Grows
  <2>7. e = cache'[i]
    BY <2>1
  <2> QED
    BY <2>5, <2>6, <2>7
<1>3. CacheIsVouched'
  BY <1>2 DEF CacheIsVouched
<1> QED
  BY <1>1, <1>3

LEMMA UnchangedGrows ==
    ASSUME TypeOK, UNCHANGED <<now, chain, config, rows>>
    PROVE  Grows
<1>1. now \in Nat /\ now <= now
  BY DEF TypeOK
<1> QED
  BY <1>1 DEF Grows, TypeOK

LEMMA TickGrows ==
    ASSUME TypeOK, Timeline, Tick
    PROVE  Grows /\ Timeline'
<1>1. now \in Nat /\ now' = now + 1 /\ UNCHANGED <<chain, config, rows>>
  BY DEF TypeOK, Tick
<1>2. Grows
  BY <1>1 DEF Grows, TypeOK
<1>3. \A n \in Names : \A i \in DOMAIN chain[n] : chain[n][i] <= now'
  <2>1. \A n \in Names : \A i \in DOMAIN chain[n] : chain[n][i] \in Nat
    BY DEF TypeOK
  <2>2. \A t \in Nat : t <= now => t <= now'
    BY <1>1
  <2> QED
    BY <2>1, <2>2 DEF Timeline
<1> QED
  BY <1>1, <1>2, <1>3 DEF Timeline

LEMMA TransferGrows ==
    ASSUME NEW n \in Names, TypeOK, Timeline, Transfer(n)
    PROVE  Grows /\ Timeline'
<1> DEFINE c == chain[n]
           d == chain'[n]
<1>1. /\ n \in Minted /\ chain' = [chain EXCEPT ![n] = Append(c, now)]
      /\ UNCHANGED <<now, config, rows>>
  BY DEF Transfer
<1>2. now \in Nat /\ chain \in [Names -> Seq(Nat)] /\ c \in Seq(Nat)
  BY DEF TypeOK
<1>3. /\ d = Append(c, now)
      /\ \A m \in Names : m # n => chain'[m] = chain[m]
  BY <1>1, <1>2
<1> HIDE DEF c, d
<1>4. /\ d \in Seq(Nat) /\ DOMAIN d = DOMAIN c \cup {Len(c) + 1}
      /\ \A i \in DOMAIN c : d[i] = c[i] /\ i <= Len(c) /\ i \in Nat
      /\ d[Len(c) + 1] = now /\ Len(c) \in Nat
  BY <1>2, <1>3
<1>5. chain' \in [Names -> Seq(Nat)]
  BY <1>1, <1>2, <1>3, <1>4 DEF d
<1>6. Grows
  <2>1. now <= now
    BY <1>2
  <2>2. \A m \in Names :
           /\ \A i \in DOMAIN chain[m] : i \in DOMAIN chain'[m] /\ chain'[m][i] = chain[m][i]
           /\ \A i \in DOMAIN chain'[m] : i \notin DOMAIN chain[m] => chain'[m][i] = now
    BY <1>3, <1>4 DEF c, d
  <2> QED
    BY <1>1, <1>2, <1>5, <2>1, <2>2 DEF Grows
<1>7. Timeline'
  <2>1. /\ \A i \in DOMAIN c : c[i] <= now
        /\ \A i, j \in DOMAIN c : i <= j => c[i] <= c[j]
    BY DEF Timeline, c
  <2>2. \A i \in DOMAIN d : d[i] <= now
    BY <1>2, <1>4, <2>1
  <2>3. ASSUME NEW i \in DOMAIN d, NEW j \in DOMAIN d, i <= j
        PROVE  d[i] <= d[j]
    <3>1. CASE j \in DOMAIN c
      <4>1. i \in DOMAIN c
        BY <1>4, <2>3, <3>1
      <4> QED
        BY <1>4, <2>1, <2>3, <3>1, <4>1
    <3>2. CASE j = Len(c) + 1
      BY <1>4, <2>2, <3>2
    <3> QED
      BY <1>4, <3>1, <3>2
  <2>4. ASSUME NEW m \in Names
        PROVE  /\ \A i \in DOMAIN chain'[m] : chain'[m][i] <= now
               /\ \A i, j \in DOMAIN chain'[m] : i <= j => chain'[m][i] <= chain'[m][j]
               /\ m \notin Minted => chain'[m] = <<>>
    <3>1. CASE m = n
      BY <1>1, <2>2, <2>3, <3>1 DEF d
    <3>2. CASE m # n
      BY <1>3, <3>2 DEF Timeline
    <3> QED
      BY <3>1, <3>2
  <2> QED
    BY <1>1, <2>4 DEF Timeline
<1> QED
  BY <1>6, <1>7

LEMMA IdleStands == Idle \in ScanRecord /\ Stands(Idle) /\ Truthful(Idle)
<1>1. "idle" \in Stages /\ <<>> \in Seq(Names)
  BY DEF Stages
<1>2. Idle \in ScanRecord
  <2> HIDE DEF Stages, Ids, AllFindings, Verdicts
  <2> QED
    BY <1>1 DEF Idle, ScanRecord
<1>3. Stands(Idle)
  BY <1>2 DEF Stands, Idle, Resolving, InFragment
<1>4. Truthful(Idle)
  BY DEF Truthful, Idle, Justified, Rules
<1> QED
  BY <1>2, <1>3, <1>4

LEMMA Initially == Init => IInv
<1> SUFFICES ASSUME Init PROVE IInv
  OBVIOUS
<1>1. Connections
  <2>1. Closed = {}
    BY DEF Init, MtprotoInit, Closed, NotClosing
  <2>2. Cardinality(Closed) = 0
    BY <2>1, FS_EmptySet
  <2> QED
    BY <2>2 DEF Init, MtprotoInit, Connections
<1>2. TypeOK
  BY IdleStands DEF Init, TypeOK
<1>3. Timeline
  BY DEF Init, Timeline
<1>4. CacheIsBounded /\ CacheIsVouched
  BY OwnershipCacheAssumption DEF Init, CacheIsBounded, CacheIsVouched
<1>5. ScansStand
  BY IdleStands DEF Init, ScansStand
<1> QED
  BY <1>1, <1>2, <1>3, <1>4, <1>5 DEF IInv

(* A step that moves one scan and leaves the cache and the store alone.        *)
LEMMA PlainMove ==
    ASSUME NEW s \in Scans, IInv, Moves(s), UNCHANGED <<now, chain, config, cache, rows>>
    PROVE  /\ TypeOK' /\ Timeline' /\ CacheIsBounded' /\ CacheIsVouched' /\ ScansStand'
<1> USE DEF IInv
<1>1. Grows
  BY UnchangedGrows
<1>2. PICK q : scan' = [scan EXCEPT ![s] = q] /\ Stands(q) /\ Truthful(q)
  BY DEF Moves
<1>3. Stands(q)'
  BY <1>1, <1>2, StandsStays
<1>4. ScansStand' /\ scan' \in [Scans -> ScanRecord]
  BY <1>1, <1>2, <1>3, MoveStands
<1>5. CacheIsBounded' /\ CacheIsVouched'
  BY <1>1, CacheStays
<1>6. TypeOK'
  BY <1>4 DEF TypeOK
<1>7. Timeline'
  BY DEF Timeline
<1> QED
  BY <1>4, <1>5, <1>6, <1>7

(* A step that moves one scan and the cache.                                  *)
LEMMA CacheMove ==
    ASSUME NEW s \in Scans, IInv, Moves(s), UNCHANGED <<now, chain, config, rows>>,
           cache' \in Seq(Entries), CacheIsBounded', CacheIsVouched'
    PROVE  /\ TypeOK' /\ Timeline' /\ CacheIsBounded' /\ CacheIsVouched' /\ ScansStand'
<1> USE DEF IInv
<1>1. Grows
  BY UnchangedGrows
<1>2. PICK q : scan' = [scan EXCEPT ![s] = q] /\ Stands(q) /\ Truthful(q)
  BY DEF Moves
<1>3. Stands(q)'
  BY <1>1, <1>2, StandsStays
<1>4. ScansStand' /\ scan' \in [Scans -> ScanRecord]
  BY <1>1, <1>2, <1>3, MoveStands
<1>5. TypeOK'
  BY <1>4 DEF TypeOK
<1>6. Timeline'
  BY DEF Timeline
<1> QED
  BY <1>4, <1>5, <1>6

(* A step of the world alone.                                                 *)
LEMMA WorldMove ==
    ASSUME IInv, Grows, Timeline', UNCHANGED <<config, cache, rows, scan>>
    PROVE  /\ TypeOK' /\ Timeline' /\ CacheIsBounded' /\ CacheIsVouched' /\ ScansStand'
<1> USE DEF IInv
<1>1. ScansStand'
  BY StillStands
<1>2. CacheIsBounded' /\ CacheIsVouched'
  BY CacheStays
<1>3. TypeOK'
  BY DEF TypeOK, Grows
<1> QED
  BY <1>1, <1>2, <1>3

LEMMA Step == IInv /\ [Next]_vars => IInv'
<1> SUFFICES ASSUME IInv, [Next]_vars PROVE IInv'
  OBVIOUS
<1> DEFINE Rest == TypeOK' /\ Timeline' /\ CacheIsBounded' /\ CacheIsVouched' /\ ScansStand'
<1>1. Connections'
  BY ConnectionsInvariant DEF IInv
<1>2. ASSUME UNCHANGED scanVars PROVE Rest
  <2>1. Grows /\ Timeline'
    BY <1>2, UnchangedGrows DEF IInv, Timeline, scanVars
  <2> QED
    BY <1>2, <2>1, WorldMove DEF scanVars
<1>3. ASSUME Tick PROVE Rest
  <2>1. Grows /\ Timeline'
    BY <1>3, TickGrows DEF IInv
  <2> QED
    BY <1>3, <2>1, WorldMove DEF Tick
<1>4. ASSUME NEW n \in Names, Transfer(n) PROVE Rest
  <2>1. Grows /\ Timeline'
    BY <1>4, TransferGrows DEF IInv
  <2> QED
    BY <1>4, <2>1, WorldMove DEF Transfer
<1>5. ASSUME NEW s \in Scans, Start(s) PROVE Rest
  BY <1>5, StartMoves, PlainMove DEF IInv, Start, Continue, Become
<1>6. ASSUME NEW s \in Scans, GetChat(s) PROVE Rest
  <2>1. UNCHANGED <<now, chain, config, cache, rows>>
    BY <1>6 DEF GetChat, Continue, Become
  <2> QED
    BY <1>6, <2>1, GetChatMoves, PlainMove DEF IInv
<1>7. ASSUME NEW s \in Scans, FindObserved(s) PROVE Rest
  <2>1. UNCHANGED <<now, chain, config, cache, rows>>
    BY <1>7 DEF FindObserved, Continue, Become
  <2> QED
    BY <1>7, <2>1, FindObservedMoves, PlainMove DEF IInv
<1>8. ASSUME NEW s \in Scans, GetObserved(s) PROVE Rest
  <2>1. UNCHANGED <<now, chain, config, cache, rows>>
    BY <1>8 DEF GetObserved, Continue, Become
  <2> QED
    BY <1>8, <2>1, GetObservedMoves, PlainMove DEF IInv
<1>9. ASSUME NEW s \in Scans, GetById(s) PROVE Rest
  <2>1. UNCHANGED <<now, chain, config, cache, rows>>
    BY <1>9 DEF GetById, Continue, Become
  <2> QED
    BY <1>9, <2>1, GetByIdMoves, PlainMove DEF IInv
<1>10. ASSUME NEW s \in Scans, Lookup(s) PROVE Rest
  BY <1>10, LookupMoves, PlainMove DEF IInv, Lookup, Become
<1>11. ASSUME NEW s \in Scans, SendLookup(s) PROVE Rest
  BY <1>2, <1>11 DEF SendLookup
<1>12. ASSUME NEW s \in Scans, LookedUp(s) PROVE Rest
  <2>1. UNCHANGED <<now, chain, config, cache, rows>>
    BY <1>12 DEF LookedUp, Become
  <2> QED
    BY <1>12, <2>1, LookedUpMoves, PlainMove DEF IInv
<1>13. ASSUME NEW s \in Scans, FragmentDisabled(s) PROVE Rest
  <2>1. UNCHANGED <<now, chain, config, cache, rows>>
    BY <1>13 DEF FragmentDisabled, Continue, Become
  <2> QED
    BY <1>13, <2>1, FragmentDisabledMoves, PlainMove DEF IInv
<1>14. ASSUME NEW s \in Scans, GetCached(s) PROVE Rest
  <2>1. UNCHANGED <<now, chain, config, rows>>
    BY <1>14 DEF GetCached, Judge, Become
  <2> QED
    BY <1>14, <2>1, GetCachedMoves, CacheMove DEF IInv
<1>15. ASSUME NEW s \in Scans, GetDnsInfo(s) PROVE Rest
  <2>1. UNCHANGED <<now, chain, config, rows>>
    BY <1>15 DEF GetDnsInfo, Answered, Continue, Judge, Become
  <2> QED
    BY <1>15, <2>1, GetDnsInfoMoves, CacheMove DEF IInv
<1>16. ASSUME NEW s \in Scans, GetHistory(s) PROVE Rest
  <2>1. UNCHANGED <<now, chain, config, rows>>
    BY <1>16 DEF GetHistory, Answered, Continue, Judge, Become
  <2> QED
    BY <1>16, <2>1, GetHistoryMoves, CacheMove DEF IInv
<1>17. ASSUME NEW s \in Scans, RecordSnapshot(s) PROVE Rest
  <2>1. UNCHANGED <<now, chain, config, cache>>
    BY <1>17 DEF RecordSnapshot, Recorded, Become
  <2>2. PICK q : scan' = [scan EXCEPT ![s] = q] /\ Stands(q)' /\ Truthful(q)
    BY <1>17, RecordSnapshotMoves DEF IInv
  <2>3. Grows /\ rows' \in [Ids -> Seq(Snapshots)]
    BY <1>17, RecordSnapshotMoves DEF IInv
  <2>4. ScansStand' /\ scan' \in [Scans -> ScanRecord]
    BY <2>2, <2>3, MoveStands DEF IInv
  <2>5. CacheIsBounded' /\ CacheIsVouched'
    BY <2>1, <2>3, CacheStays DEF IInv
  <2>6. TypeOK' /\ Timeline'
    BY <2>1, <2>3, <2>4 DEF IInv, TypeOK, Timeline
  <2> QED
    BY <2>4, <2>5, <2>6
<1>18. ASSUME NEW s \in Scans, GiftsOfChat(s) PROVE Rest
  <2>1. UNCHANGED <<now, chain, config, cache, rows>>
    BY <1>18 DEF GiftsOfChat, Continue, Become
  <2> QED
    BY <1>18, <2>1, GiftsOfChatMoves, PlainMove DEF IInv
<1>19. Rest
  <2>1. ASSUME NEW s \in Scans, Proceed(s) PROVE Rest
    BY <2>1, <1>6, <1>7, <1>8, <1>9, <1>10, <1>11, <1>12, <1>13, <1>14, <1>15, <1>16, <1>17, <1>18
       DEF Proceed, Resolve, Fragment
  <2>2. CASE UNCHANGED vars
    BY <1>2, <2>2 DEF vars, scanVars
  <2> HIDE DEF Rest
  <2> QED
    BY <1>2, <1>3, <1>4, <1>5, <2>1, <2>2 DEF Next
<1> QED
  BY <1>1, <1>19 DEF IInv

(* The four parts hold together in every state, for every value of the          *)
(* constants: the invariant is inductive.                                     *)
THEOREM Invariance == Spec => []IInv
BY Initially, Step, PTL DEF Spec

(* A process begins one connection, and at most one more for every close, of   *)
(* however many signals and scans.                                           *)
THEOREM ConnectionsAreBounded == Spec => []AttemptsAreBounded
<1>1. IInv => AttemptsAreBounded
  <2> SUFFICES ASSUME IInv PROVE AttemptsAreBounded
    OBVIOUS
  <2>1. Len(attempts) \in Nat /\ Len(attempts) <= Cardinality(Closed) + (IF clientPromise = 0 THEN 0 ELSE 1)
    BY DEF IInv, Connections
  <2> QED
    BY <2>1, ClosedIsFinite DEF AttemptsAreBounded
<1> QED
  BY <1>1, Invariance, PTL

(* The ownership cache never holds more than MaxEntries names, a name twice,   *)
(* a failure, or an answer beyond its TTL.                                   *)
THEOREM CacheKeepsItsBound == Spec => []CacheIsSound
<1>1. IInv => CacheIsSound
  BY DEF IInv, CacheIsBounded, CacheIsVouched, CacheIsSound
<1> QED
  BY <1>1, Invariance, PTL

LEMMA EndedStands ==
    ASSUME IInv, NEW s \in Ended
    PROVE  /\ s \in Scans
           /\ Looked(scan[s]) /\ Known(scan[s]) /\ Stored(scan[s]) /\ Truthful(scan[s])
           /\ scan[s] \in ScanRecord
           /\ \A f, g \in scan[s].findings : f.rule = g.rule => f = g
  BY DEF IInv, ScansStand, Stands, Ended, Looked

(* A hand-off that a scan was told of happened when it was told, and one that   *)
(* a scan reports is a transfer of one of its names in the window.            *)
THEOREM HandoffsAreReal == Spec => []HandoffHappened
<1>1. IInv => HandoffHappened
  <2> SUFFICES ASSUME IInv, NEW s \in Scans
               PROVE  /\ \A j \in scan[s].judged :
                            j.answer.transfer # 0 =>
                                /\ j.answer.transfer \in DOMAIN chain[j.name]
                                /\ chain[j.name][j.answer.transfer] = j.answer.at
                                /\ j.answer.owner <= j.answer.transfer
                      /\ s \in Ended /\ Handoff \in Rules(scan[s].findings) =>
                            \E n \in Candidates(scan[s]) : \E i \in DOMAIN chain[n] :
                                chain[n][i] + Window >= scan[s].started
    BY DEF HandoffHappened, Handoff
  <2>1. Truthful(scan[s])
    BY DEF IInv, ScansStand
  <2> QED
    BY <2>1 DEF Truthful, Vouched, Happened, Justified
<1> QED
  BY <1>1, Invariance, PTL

(* A transfer at least a cache TTL and at most the window old is reported,      *)
(* unless that lookup failed or younger events hid the transfer: an answer a   *)
(* cache may still give ignores transfers of its last TTL only.               *)
THEOREM HandoffsAreSeen == Spec => []HandoffIsNotMissed
<1>1. IInv => HandoffIsNotMissed
  <2> SUFFICES ASSUME IInv, NEW s \in Ended, "fragment" \in config, NEW n \in Candidates(scan[s])
               PROVE  \E j \in scan[s].judged :
                         /\ j.name = n
                         /\ (\E i \in DOMAIN chain[n] : chain[n][i] + Ttl <= j.at /\ j.at - chain[n][i] <= Window)
                               => \/ Handoff \in Rules(scan[s].findings)
                                  \/ FragmentDown \in Rules(scan[s].findings)
                                  \/ j.answer.truncated
    BY DEF HandoffIsNotMissed, Handoff, FragmentDown
  <2> DEFINE r == scan[s]
  <2>1. Looked(r) /\ Known(r) /\ Truthful(r) /\ r \in ScanRecord
    BY EndedStands
  <2>2. PICK j \in r.judged : j.name = n
    BY <2>1 DEF Looked, JudgedNames
  <2>3. j.name \in Names /\ j.answer \in Answers /\ j.at \in Nat
    <3>1. j \in Verdicts
      BY <2>1, RecordFields
    <3> QED
      BY <3>1 DEF Verdicts
  <2>4. j.answer.transfer \in Nat /\ j.answer.at \in Nat
    BY <2>3 DEF Answers
  <2>5. Vouched(n, j.answer, j.at + 1)
    BY <2>1, <2>2 DEF Truthful
  <2>6. ASSUME NEW i \in DOMAIN chain[n], chain[n][i] + Ttl <= j.at, j.at - chain[n][i] <= Window,
               FragmentDown \notin Rules(r.findings), ~j.answer.truncated
        PROVE  Handoff \in Rules(r.findings)
    <3>1. j.answer.status # "failed"
      BY <2>1, <2>6 DEF Known, Reported
    <3>2. chain[n] \in Seq(Nat) /\ i \in Nat \ {0} /\ chain[n][i] \in Nat /\ Ttl \in Nat /\ Window \in Nat
      BY <2>2, <2>3, OwnershipCacheAssumption, TelegramScanAssumption DEF IInv, TypeOK
    <3>3. ~(i > j.answer.transfer)
      <4>1. ~(chain[n][i] + Ttl >= j.at + 1)
        BY <2>3, <2>6, <3>2
      <4> QED
        BY <2>5, <2>6, <3>1, <4>1 DEF Vouched, Current
    <3>4. j.answer.transfer # 0 /\ i <= j.answer.transfer
      BY <2>4, <3>2, <3>3
    <3>5. j.answer.transfer \in DOMAIN chain[n] /\ chain[n][j.answer.transfer] = j.answer.at
      BY <2>5, <3>4 DEF Vouched, Happened
    <3>6. chain[n][i] <= j.answer.at
      BY <2>2, <2>3, <3>4, <3>5 DEF IInv, Timeline
    <3>7. j.at - j.answer.at <= Window
      BY <2>3, <2>4, <2>6, <3>2, <3>6
    <3> QED
      BY <2>1, <3>4, <3>7 DEF Known, Reported
  <2> QED
    BY <2>2, <2>6
<1> QED
  BY <1>1, Invariance, PTL

(* No scan ends in silence: on any path it has stored the entity it judged or  *)
(* says why there is none, and it blames a missing configuration only for     *)
(* what is missing.                                                          *)
THEOREM EveryEndIsExplained == Spec => []EndIsExplained
<1>1. IInv => EndIsExplained
  <2> SUFFICES ASSUME IInv, NEW s \in Ended
               PROVE  /\ IF scan[s].entity = Null THEN Rules(scan[s].findings) \cap Reasons # {}
                         ELSE /\ Rules(scan[s].findings) \cap Reasons = {}
                              /\ rows[scan[s].entity.id] # <<>>
                      /\ BotOff \in Rules(scan[s].findings) => "bot" \notin config
                      /\ FragmentOff \in Rules(scan[s].findings) <=>
                            "fragment" \notin config /\ Candidates(scan[s]) # {}
    BY DEF EndIsExplained, BotOff, FragmentOff
  <2>1. Looked(scan[s]) /\ Known(scan[s]) /\ Stored(scan[s])
    BY EndedStands
  <2> QED
    BY <2>1 DEF Looked, Known, Explained, Stored, BlamesBot
<1> QED
  BY <1>1, Invariance, PTL

(* What a pasted handle shows is in every report, whatever the Bot API, MTProto and *)
(* Fragment answer, with at least the confidence it had, and no rule is reported    *)
(* twice.  Only the store's rejection takes a report away: once an entity is known, *)
(* or while the store is asked for the entity of a channel's handle.               *)
THEOREM PastedHandlesAreJudged == Spec => []PastedHandleIsJudged
<1>1. IInv => PastedHandleIsJudged
  <2> SUFFICES ASSUME IInv PROVE PastedHandleIsJudged
    OBVIOUS
  <2>1. ASSUME NEW s \in Ended
        PROVE  /\ ReportsPastedHandle(scan[s])
               /\ \A f, g \in scan[s].findings : f.rule = g.rule => f = g
    BY EndedStands DEF Known
  <2>2. ASSUME NEW s \in Scans, scan[s].pc = "rejected"
        PROVE  \/ scan[s].entity # Null
               \/ scan[s].input.kind = "channelOrSupergroup" /\ "bot" \in config
    BY <2>2 DEF IInv, ScansStand, Stands, AsksBot
  <2> QED
    BY <2>1, <2>2 DEF PastedHandleIsJudged
<1> QED
  BY <1>1, Invariance, PTL
=============================================================================
