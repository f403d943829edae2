--------------------------- MODULE ApiAccessProofs ---------------------------
(***************************************************************************)
(* Theorems about TokenBucket, for any clients, tiers, costs and clocks, and  *)
(* about ApiAccess: which keys reach the bucket, and that what the bucket     *)
(* promises it promises to the requests that do.                           *)
(***************************************************************************)
EXTENDS ApiAccess, TLAPS

-----------------------------------------------------------------------------
(* The bucket                                                               *)

(* The parts of bucket b at time t.                                            *)
Level(b, t, limit) ==
    IF b = NoBucket THEN limit.bucketSize * Second
    ELSE LET elapsed == IF t > b.lastRefillAt THEN t - b.lastRefillAt ELSE 0
             parts == b.tokens + elapsed * limit.refillPerSecond
         IN  IF parts < limit.bucketSize * Second THEN parts ELSE limit.bucketSize * Second

(* What the clocks allow: a check is sent before it is evaluated, and in memory at   *)
(* once; a key outlives its last use by Ttl.                                     *)
Timely ==
    /\ limits # {}
    /\ \A t \in Times : t > now => spent[t] = 0
    /\ \A c \in Clients : sent[c] # NoCheck => sent[c] \in Checks /\ sent[c].at <= now
                                                /\ sent[c].limit \in limits
    /\ \A c \in Clients : decision[c] # NoCheck => decision[c] \in Decisions
                                                    /\ decision[c].limit \in limits
    /\ bucket # NoBucket => bucket \in Buckets
    /\ limiter = "memory" => /\ \A c \in Clients : sent[c] = NoCheck
                             /\ bucket # NoBucket => bucket.lastRefillAt <= now
    /\ limiter = "redis" /\ bucket # NoBucket => bucket.lastRefillAt + Ttl <= expireAt

(* An answer's numbers follow from the parts it left.                             *)
Computed(d) ==
    /\ d.tokens <= d.limit.bucketSize * Second
    /\ ~d.allowed => /\ d.tokens < d.cost * Second
                     /\ d.retryAfterMs = CeilDiv(d.cost * Second - d.tokens, d.limit.refillPerSecond)
    /\ d.fullRefillAt = d.at + CeilDiv(d.limit.bucketSize * Second - d.tokens, d.limit.refillPerSecond)

(* At the times the answer names there is what it promises, whatever denials came    *)
(* since.                                                                    *)
Kept(d, b) ==
    /\ ~d.allowed /\ d.cost <= d.limit.bucketSize
          => d.cost * Second <= Level(b, d.at + d.retryAfterMs, d.limit)
    /\ Level(b, d.fullRefillAt, d.limit) = d.limit.bucketSize * Second

Promised == OneTier =>
    \A c \in Clients : decision[c] # NoCheck => Computed(decision[c]) /\ Kept(decision[c], bucket)

(* In memory the bucket is, from now on, just as full as the last answers left it.   *)
Followed(d, b, from) ==
    \A t \in Nat : t >= from => d.at <= t /\ Level(b, t, d.limit) = Level(Stored(d), t, d.limit)

Exact == limiter = "memory" /\ OneTier =>
    \A c \in Clients : decision[c] # NoCheck => Followed(decision[c], bucket, now)

(* In memory no level exceeds any window of the largest tier, and each is reached by    *)
(* one of the smallest.                                                      *)
AtMost(level, t) ==
    \A tier \in limits : Largest(tier) => \A parts \in Windows(t, tier) : level <= parts

AtLeast(level, t) ==
    \A tier \in limits : Smallest(tier) => \E parts \in Windows(t, tier) : parts <= level

Windowed == limiter = "memory" =>
    \A t \in Nat, limit \in limits : t >= now =>
       AtMost(Level(bucket, t, limit), t) /\ AtLeast(Level(bucket, t, limit), t)

IInv == TypeOK /\ Timely /\ Promised /\ Exact /\ Windowed

-----------------------------------------------------------------------------
(* Arithmetic.                                                               *)

LEMMA TimesGrows == \A a, b, c \in Nat : a <= b => a * c <= b * c
  OBVIOUS

LEMMA TimesDistributes == \A a, b, c \in Int : (a + b) * c = a * c + b * c
  OBVIOUS

(* A division rounded up is the least number that suffices.                      *)
LEMMA CeilDivIsLeast ==
    ASSUME NEW a \in Nat, NEW b \in Nat \ {0}
    PROVE  /\ CeilDiv(a, b) \in Nat
           /\ a <= CeilDiv(a, b) * b
           /\ \A n \in Nat : n < CeilDiv(a, b) => n * b < a
<1>. DEFINE q == (a + b - 1) \div b
<1>1. q \in Int /\ q * b <= a + b - 1 /\ a + b - 1 < (q + 1) * b
  OBVIOUS
<1>2. (q + 1) * b = q * b + b
  BY <1>1
<1>3. a <= q * b
  BY <1>1, <1>2
<1>4. q \in Nat
  OBVIOUS
<1>5. ASSUME NEW n \in Nat, n < q PROVE n * b < a
  <2>1. n + 1 <= q
    BY <1>4, <1>5
  <2>2. (n + 1) * b <= q * b
    BY <2>1, <1>4, TimesGrows
  <2>3. (n + 1) * b = n * b + b
    BY TimesDistributes
  <2> QED
    BY <1>1, <2>2, <2>3
<1> QED
  BY <1>3, <1>4, <1>5 DEF CeilDiv

-----------------------------------------------------------------------------
(* The level of a bucket.                                                       *)

LEMMA LimitsArePositive ==
    ASSUME NEW limit \in Limits
    PROVE  /\ limit.refillPerSecond \in Nat \ {0} /\ limit.bucketSize \in Nat \ {0}
           /\ limit.bucketSize * Second \in Nat
           /\ limit.bucketSize * Second <= Ttl * limit.refillPerSecond
  BY TokenBucketAssumption, TtlAssumption

LEMMA PricesAreNats == \A cost \in Costs : cost \in Nat /\ cost * Second \in Nat
<1>1. Second \in Nat /\ Costs \subseteq Nat
  BY TokenBucketAssumption
<1> QED
  BY <1>1, TimesGrows

LEMMA BucketsAreThere ==
    ASSUME NEW tokens \in Nat, NEW at
    PROVE  [tokens |-> tokens, lastRefillAt |-> at] # NoBucket
<1>1. NoBucket.tokens = -1
  BY DEF NoBucket
<1> QED
  BY <1>1

(* How long a bucket that is there has been refilled at time t.                    *)
Elapsed(b, t) == IF t > b.lastRefillAt THEN t - b.lastRefillAt ELSE 0

LEMMA LevelOfBucket ==
    ASSUME NEW b \in [tokens : Nat, lastRefillAt : Nat], NEW t \in Int, NEW limit \in Limits
    PROVE  LET parts == b.tokens + Elapsed(b, t) * limit.refillPerSecond
           IN  /\ Elapsed(b, t) \in Nat /\ Elapsed(b, t) * limit.refillPerSecond \in Nat
               /\ Level(b, t, limit) = IF parts < limit.bucketSize * Second THEN parts
                                      ELSE limit.bucketSize * Second
<1>1. b # NoBucket
  <2>1. b = [tokens |-> b.tokens, lastRefillAt |-> b.lastRefillAt] /\ b.tokens \in Nat
    OBVIOUS
  <2> QED
    BY <2>1, BucketsAreThere
<1>2. Elapsed(b, t) \in Nat
  BY DEF Elapsed
<1>3. Elapsed(b, t) * limit.refillPerSecond \in Nat
  BY <1>2, LimitsArePositive
<1>4. Level(b, t, limit) =
         LET parts == b.tokens + Elapsed(b, t) * limit.refillPerSecond
         IN  IF parts < limit.bucketSize * Second THEN parts ELSE limit.bucketSize * Second
  BY <1>1 DEF Level, Elapsed
<1> QED
  BY <1>2, <1>3, <1>4

LEMMA LevelIsCapped ==
    ASSUME NEW b \in [tokens : Nat, lastRefillAt : Nat] \cup {NoBucket}, NEW t \in Int,
           NEW limit \in Limits
    PROVE  Level(b, t, limit) \in Nat /\ Level(b, t, limit) <= limit.bucketSize * Second
<1>0. limit.bucketSize * Second \in Nat
  BY LimitsArePositive
<1>1. CASE b = NoBucket
  BY <1>0, <1>1 DEF Level
<1>2. CASE b \in [tokens : Nat, lastRefillAt : Nat]
  <2>1. b.tokens \in Nat
    BY <1>2
  <2> QED
    BY <1>0, <1>2, <2>1, LevelOfBucket
<1> QED
  BY <1>1, <1>2

(* A bucket left alone only fills.                                              *)
LEMMA LevelGrows ==
    ASSUME NEW b \in [tokens : Nat, lastRefillAt : Nat] \cup {NoBucket}, NEW limit \in Limits,
           NEW t \in Int, NEW u \in Int, t <= u
    PROVE  Level(b, t, limit) <= Level(b, u, limit)
<1>0. limit.bucketSize * Second \in Nat /\ limit.refillPerSecond \in Nat
  BY LimitsArePositive
<1>1. CASE b = NoBucket
  BY <1>0, <1>1 DEF Level
<1>2. CASE b \in [tokens : Nat, lastRefillAt : Nat]
  <2>1. b.tokens \in Nat /\ b.lastRefillAt \in Nat
    BY <1>2
  <2>2. Elapsed(b, t) <= Elapsed(b, u)
    BY <2>1 DEF Elapsed
  <2>3. Elapsed(b, t) * limit.refillPerSecond <= Elapsed(b, u) * limit.refillPerSecond
    <3>1. Elapsed(b, t) \in Nat /\ Elapsed(b, u) \in Nat
      BY <1>2, LevelOfBucket
    <3> QED
      BY <1>0, <2>2, <3>1, TimesGrows
  <2>. DEFINE x == Elapsed(b, t) * limit.refillPerSecond
              y == Elapsed(b, u) * limit.refillPerSecond
              cap == limit.bucketSize * Second
  <2>4. /\ x \in Nat /\ y \in Nat /\ x <= y
        /\ Level(b, t, limit) = IF b.tokens + x < cap THEN b.tokens + x ELSE cap
        /\ Level(b, u, limit) = IF b.tokens + y < cap THEN b.tokens + y ELSE cap
    <3>1. x \in Nat /\ Level(b, t, limit) = IF b.tokens + x < cap THEN b.tokens + x ELSE cap
      BY <1>2, LevelOfBucket
    <3>2. y \in Nat /\ Level(b, u, limit) = IF b.tokens + y < cap THEN b.tokens + y ELSE cap
      BY <1>2, LevelOfBucket
    <3> QED
      BY <2>3, <3>1, <3>2
  <2>5. cap \in Nat
    BY <1>0
  <2>. HIDE DEF x, y, cap
  <2> QED
    BY <2>1, <2>4, <2>5
<1> QED
  BY <1>1, <1>2

(* Writing the bucket back as it is at time at, which is what a denial does, takes    *)
(* nothing at any time; from at on it changes nothing, if the clock did not go back.  *)
LEMMA DenialKeepsLevel ==
    ASSUME NEW b \in [tokens : Nat, lastRefillAt : Nat] \cup {NoBucket}, NEW limit \in Limits,
           NEW at \in Nat, NEW t \in Int
    PROVE  LET new == [tokens |-> Level(b, at, limit), lastRefillAt |-> at]
           IN  /\ Level(b, t, limit) <= Level(new, t, limit)
               /\ t >= at /\ (b = NoBucket \/ b.lastRefillAt <= at)
                     => Level(new, t, limit) = Level(b, t, limit)
<1>. DEFINE new == [tokens |-> Level(b, at, limit), lastRefillAt |-> at]
            cap == limit.bucketSize * Second
            rate == limit.refillPerSecond
            left == Level(b, at, limit)
            gain == Elapsed(new, t) * rate
<1>0. cap \in Nat /\ rate \in Nat
  BY LimitsArePositive
<1>1. left \in Nat /\ left <= cap
  BY LevelIsCapped
<1>2. new \in [tokens : Nat, lastRefillAt : Nat] /\ new.tokens = left /\ new.lastRefillAt = at
  BY <1>1
<1>3. gain \in Nat /\ Elapsed(new, t) \in Nat
      /\ Level(new, t, limit) = IF left + gain < cap THEN left + gain ELSE cap
  BY <1>2, LevelOfBucket
<1>4. Elapsed(new, t) = IF t > at THEN t - at ELSE 0
  BY <1>2 DEF Elapsed
<1>5. CASE b = NoBucket
  <2>1. left = cap /\ Level(b, t, limit) = cap
    BY <1>5 DEF Level
  <2>. HIDE DEF cap, rate, left, gain, new
  <2>2. Level(new, t, limit) = cap
    BY <1>0, <1>3, <2>1
  <2> QED
    BY <1>0, <2>1, <2>2 DEF new, left
<1>6. CASE b \in [tokens : Nat, lastRefillAt : Nat]
  <2>. DEFINE old == Elapsed(b, at) * rate
              then == Elapsed(b, t) * rate
  <2>1. b.tokens \in Nat /\ b.lastRefillAt \in Nat /\ b # NoBucket
    <3>1. b = [tokens |-> b.tokens, lastRefillAt |-> b.lastRefillAt] /\ b.tokens \in Nat
      BY <1>6
    <3> QED
      BY <1>6, <3>1, BucketsAreThere
  <2>2. old \in Nat /\ Elapsed(b, at) \in Nat
        /\ left = IF b.tokens + old < cap THEN b.tokens + old ELSE cap
    BY <1>6, LevelOfBucket
  <2>3. then \in Nat /\ Elapsed(b, t) \in Nat
        /\ Level(b, t, limit) = IF b.tokens + then < cap THEN b.tokens + then ELSE cap
    BY <1>6, LevelOfBucket
  <2>4. Elapsed(b, t) <= Elapsed(b, at) + Elapsed(new, t)
        /\ (t >= at /\ b.lastRefillAt <= at => Elapsed(b, t) = Elapsed(b, at) + Elapsed(new, t))
    BY <1>4, <2>1 DEF Elapsed
  <2>5. (Elapsed(b, at) + Elapsed(new, t)) * rate = old + gain
    BY <1>0, <1>3, <2>2, TimesDistributes
  <2>6. then <= old + gain
    <3>1. Elapsed(b, at) + Elapsed(new, t) \in Nat
      BY <1>3, <2>2
    <3> QED
      BY <1>0, <2>3, <2>4, <2>5, <3>1, TimesGrows
  <2>7. t >= at /\ b.lastRefillAt <= at => then = old + gain
    BY <2>4, <2>5
  <2>. HIDE DEF cap, rate, left, gain, new, old, then
  <2>8. Level(b, t, limit) <= Level(new, t, limit)
    BY <1>0, <1>1, <1>3, <2>1, <2>2, <2>3, <2>6
  <2>9. then = old + gain => Level(new, t, limit) = Level(b, t, limit)
    BY <1>0, <1>1, <1>3, <2>1, <2>2, <2>3
  <2> QED
    BY <2>1, <2>7, <2>8, <2>9 DEF new, left
<1> QED
  BY <1>5, <1>6

-----------------------------------------------------------------------------
(* Decisions.                                                                *)

LEMMA TimesAreNats == Times \subseteq Nat /\ 0 \in Times
  BY TokenBucketAssumption DEF Times

LEMMA RefilledIsLevel == \A t, limit : Refilled(t, limit) = Level(bucket, t, limit)
  BY DEF Refilled, Level

(* n milliseconds after it was left, a bucket holds what it was left with and what    *)
(* was refilled.                                                             *)
LEMMA LevelAfter ==
    ASSUME NEW d \in Decisions, NEW n \in Nat
    PROVE  LET parts == d.tokens + n * d.limit.refillPerSecond
               cap == d.limit.bucketSize * Second
           IN  /\ n * d.limit.refillPerSecond \in Nat
               /\ Level(Stored(d), d.at + n, d.limit) = IF parts < cap THEN parts ELSE cap
<1>1. d.tokens \in Nat /\ d.limit \in Limits /\ d.at \in Nat
  BY TimesAreNats DEF Decisions, Times
<1>2. Stored(d) \in [tokens : Nat, lastRefillAt : Nat]
      /\ Stored(d).tokens = d.tokens /\ Stored(d).lastRefillAt = d.at
  BY <1>1 DEF Stored
<1>3. Elapsed(Stored(d), d.at + n) = n
  BY <1>1, <1>2 DEF Elapsed
<1>4. n * d.limit.refillPerSecond \in Nat
  BY <1>1, LimitsArePositive
<1> QED
  BY <1>1, <1>2, <1>3, <1>4, LevelOfBucket

(* What a script, or the in-memory check, answers.                               *)
LEMMA DecideIsComputed ==
    ASSUME bucket \in Buckets \cup {NoBucket}, NEW check \in Checks
    PROVE  LET d == Decide(check)
           IN  /\ d \in Decisions
               /\ d.at = check.at /\ d.limit = check.limit /\ d.cost = check.cost
               /\ Computed(d)
               /\ ~d.allowed => Stored(d) = [tokens |-> Level(bucket, d.at, d.limit), lastRefillAt |-> d.at]
<1>. DEFINE d == Decide(check)
            refilled == Refilled(check.at, check.limit)
            price == check.cost * Second
            rate == check.limit.refillPerSecond
            cap == check.limit.bucketSize * Second
<1>1. /\ check.at \in Times /\ check.at \in Nat /\ check.limit \in Limits /\ check.cost \in Costs
      /\ price \in Nat /\ cap \in Nat /\ rate \in Nat \ {0}
  <2>1. check.at \in Times /\ check.limit \in Limits /\ check.cost \in Costs
    BY DEF Checks
  <2>2. check.at \in Nat
    BY <2>1, TimesAreNats
  <2>3. price \in Nat
    BY <2>1, PricesAreNats
  <2>4. cap \in Nat /\ rate \in Nat \ {0}
    BY <2>1, LimitsArePositive
  <2> QED
    BY <2>1, <2>2, <2>3, <2>4
<1>2. refilled \in Nat /\ refilled <= cap /\ refilled = Level(bucket, check.at, check.limit)
  <2>1. bucket \in [tokens : Nat, lastRefillAt : Nat] \cup {NoBucket}
    BY TokenBucketAssumption DEF Buckets, Times
  <2> QED
    BY <1>1, <2>1, LevelIsCapped, RefilledIsLevel
<1>. DEFINE allowed == refilled >= price
            tokens == IF allowed THEN refilled - price ELSE refilled
            retry == IF allowed THEN 0 ELSE CeilDiv(price - refilled, rate)
            full == check.at + CeilDiv(cap - tokens, rate)
<1>3. d = [at |-> check.at, limit |-> check.limit, cost |-> check.cost, allowed |-> allowed,
           tokens |-> tokens, retryAfterMs |-> retry, fullRefillAt |-> full]
  BY DEF Decide
<1>. HIDE DEF d, refilled, price, rate, cap
<1>4. tokens \in Nat /\ tokens <= cap /\ allowed \in BOOLEAN
  BY <1>1, <1>2
<1>5. retry \in Nat
  <2>1. ~allowed => price - refilled \in Nat
    BY <1>1, <1>2
  <2> QED
    BY <1>1, <2>1, CeilDivIsLeast
<1>6. full \in Nat
  <2>1. cap - tokens \in Nat
    BY <1>1, <1>4
  <2> QED
    BY <1>1, <2>1, CeilDivIsLeast
<1>7. ~allowed => refilled < price
  BY <1>1, <1>2
<1>8. d \in Decisions
  <2>. HIDE DEF allowed, tokens, retry, full
  <2> QED
    BY <1>1, <1>3, <1>4, <1>5, <1>6 DEF Decisions
<1>9. Computed(d)
  <2>1. d.limit.bucketSize * Second = cap /\ d.cost * Second = price /\ d.limit.refillPerSecond = rate
    BY <1>3 DEF cap, price, rate
  <2>2. /\ d.tokens = tokens /\ d.allowed = allowed /\ d.retryAfterMs = retry
        /\ d.fullRefillAt = full /\ d.at = check.at
    BY <1>3
  <2>3. ~allowed => tokens = refilled /\ retry = CeilDiv(price - refilled, rate)
    OBVIOUS
  <2>4. full = d.at + CeilDiv(cap - d.tokens, rate)
    BY <2>2
  <2>. HIDE DEF allowed, tokens, retry, full
  <2> QED
    BY <1>4, <1>7, <2>1, <2>2, <2>3, <2>4 DEF Computed
<1>10. ~d.allowed => Stored(d) = [tokens |-> Level(bucket, d.at, d.limit), lastRefillAt |-> d.at]
  BY <1>2, <1>3 DEF Stored
<1> QED
  BY <1>3, <1>8, <1>9, <1>10 DEF d

(* At the times it names, the bucket an answer left will keep its promise.          *)
LEMMA FreshAnswersKeep ==
    ASSUME NEW d \in Decisions, Computed(d)
    PROVE  Kept(d, Stored(d))
<1>. DEFINE rate == d.limit.refillPerSecond
            cap == d.limit.bucketSize * Second
            price == d.cost * Second
            wait == CeilDiv(cap - d.tokens, rate)
<1>1. /\ d.limit \in Limits /\ d.tokens \in Nat /\ d.at \in Nat /\ d.cost \in Nat
      /\ d.retryAfterMs \in Nat
  <2>1. d.limit \in Limits /\ d.tokens \in Nat /\ d.at \in Times /\ d.cost \in Costs
        /\ d.retryAfterMs \in Nat
    BY DEF Decisions
  <2> QED
    BY <2>1, TimesAreNats, PricesAreNats
<1>2. rate \in Nat \ {0} /\ cap \in Nat /\ price \in Nat /\ d.tokens <= cap
  BY <1>1, LimitsArePositive, TokenBucketAssumption DEF Computed
<1>3. Level(Stored(d), d.fullRefillAt, d.limit) = cap
  <2>1. cap - d.tokens \in Nat
    BY <1>1, <1>2
  <2>2. wait \in Nat /\ cap - d.tokens <= wait * rate
    BY <1>2, <2>1, CeilDivIsLeast
  <2>3. /\ wait * rate \in Nat
        /\ Level(Stored(d), d.at + wait, d.limit) =
              IF d.tokens + wait * rate < cap THEN d.tokens + wait * rate ELSE cap
    BY <2>2, LevelAfter
  <2>4. d.fullRefillAt = d.at + wait
    BY DEF Computed
  <2>. HIDE DEF wait, rate, cap
  <2> QED
    BY <1>1, <1>2, <2>2, <2>3, <2>4
<1>4. ASSUME ~d.allowed, d.cost <= d.limit.bucketSize
      PROVE  price <= Level(Stored(d), d.at + d.retryAfterMs, d.limit)
  <2>1. price <= cap
    BY <1>1, <1>4, LimitsArePositive, TokenBucketAssumption, TimesGrows
  <2>2. price - d.tokens \in Nat /\ d.retryAfterMs = CeilDiv(price - d.tokens, rate)
    BY <1>1, <1>2, <1>4 DEF Computed
  <2>3. price - d.tokens <= d.retryAfterMs * rate
    BY <1>2, <2>2, CeilDivIsLeast
  <2>4. /\ d.retryAfterMs * rate \in Nat
        /\ Level(Stored(d), d.at + d.retryAfterMs, d.limit) =
              IF d.tokens + d.retryAfterMs * rate < cap THEN d.tokens + d.retryAfterMs * rate ELSE cap
    BY <1>1, LevelAfter
  <2>. HIDE DEF rate, cap, price
  <2> QED
    BY <1>1, <1>2, <2>1, <2>3, <2>4
<1> QED
  BY <1>3, <1>4 DEF Kept

-----------------------------------------------------------------------------
(* The steps.                                                                *)

LEMMA ChecksAreThere == \A check \in Checks : check # NoCheck
<1>1. \A check \in Checks : check.at \in Nat
  BY TimesAreNats DEF Checks
<1>2. NoCheck.at = -1
  BY DEF NoCheck
<1> QED
  BY <1>1, <1>2

(* Writing the bucket keeps everyone's types.                                    *)
LEMMA TakeIsTyped ==
    ASSUME TypeOK, Timely, NEW check \in Checks, NEW listeners, check.limit \in limits,
           check.at <= now, Take(check, listeners)
    PROVE  /\ bucket' \in Buckets
           /\ \E limit \in Limits : bucket'.tokens <= limit.bucketSize * Second
           /\ bucket'.lastRefillAt = check.at
           /\ decision' \in [Clients -> Decisions \cup {NoCheck}]
           /\ \A c \in Clients : decision'[c] # NoCheck => decision'[c] \in Decisions
                                                           /\ decision'[c].limit \in limits
           /\ spent' \in [Times -> Nat] /\ \A t \in Times : t > now => spent'[t] = 0
<1>. DEFINE d == Decide(check)
<1>1. /\ d \in Decisions /\ d.at = check.at /\ d.limit = check.limit /\ Computed(d)
      /\ bucket' = Stored(d)
      /\ spent' = [s \in Times |-> IF d.allowed /\ s <= now THEN spent[s] + check.cost ELSE spent[s]]
      /\ decision' = [x \in Clients |-> IF x \in listeners THEN d
                                        ELSE IF d.allowed THEN NoCheck ELSE decision[x]]
  <2>1. bucket \in Buckets \cup {NoBucket}
    BY DEF TypeOK
  <2> QED
    BY <2>1, DecideIsComputed DEF Take
<1>. HIDE DEF d
<1>2. bucket' \in Buckets /\ bucket'.lastRefillAt = check.at /\ bucket'.tokens = d.tokens
  BY <1>1 DEF Stored, Buckets, Decisions
<1>3. d.tokens <= d.limit.bucketSize * Second /\ d.limit \in Limits
  BY <1>1 DEF Computed, Decisions
<1>4. /\ decision' \in [Clients -> Decisions \cup {NoCheck}]
      /\ \A c \in Clients : decision'[c] # NoCheck => decision'[c] \in Decisions
                                                      /\ decision'[c].limit \in limits
  BY <1>1 DEF Timely, TypeOK
<1>5. spent' \in [Times -> Nat] /\ \A t \in Times : t > now => spent'[t] = 0
  <2>0. now \in Nat /\ Times \subseteq Nat
    BY TimesAreNats DEF TypeOK
  <2>1. check.cost \in Nat
    BY PricesAreNats DEF Checks
  <2>2. \A t \in Times : spent[t] \in Nat
    BY DEF TypeOK
  <2>3. \A t \in Times : spent[t] + check.cost \in Nat
    BY <2>1, <2>2
  <2>4. ASSUME NEW t \in Times, t > now PROVE spent[t] = 0 /\ ~(t <= now)
    <3>1. t \in Nat
      BY <2>0
    <3> QED
      BY <2>0, <2>4, <3>1 DEF Timely
  <2> QED
    BY <1>1, <2>2, <2>3, <2>4
<1> QED
  BY <1>2, <1>3, <1>4, <1>5

LEMMA TypeStep == TypeOK /\ Timely /\ [Next]_bucketVars => TypeOK' /\ Timely'
<1> SUFFICES ASSUME TypeOK, Timely, [Next]_bucketVars
             PROVE  TypeOK' /\ Timely'
  OBVIOUS
<1>0. now \in Nat /\ MaxTime \in Nat /\ Ttl \in Nat \ {0}
  BY TokenBucketAssumption DEF TypeOK, Times
<1>1. CASE Tick
  <2>1. now' \in Times /\ now' = now + 1
    BY <1>0, <1>1 DEF Tick, Times
  <2>2. ASSUME NEW c \in Clients, sent[c] # NoCheck PROVE sent[c].at <= now'
    <3>1. sent[c].at \in Nat /\ sent[c].at <= now
      BY <2>2, TimesAreNats DEF Timely, Checks
    <3> QED
      BY <1>0, <2>1, <3>1
  <2>3. ASSUME limiter = "memory", bucket # NoBucket PROVE bucket.lastRefillAt <= now'
    <3>1. bucket.lastRefillAt \in Nat /\ bucket.lastRefillAt <= now
      BY <2>3, TimesAreNats DEF Timely, Buckets
    <3> QED
      BY <1>0, <2>1, <3>1
  <2> QED
    BY <1>1, <2>1, <2>2, <2>3 DEF Tick, TypeOK, Timely
<1>2. CASE Expire
  <2>1. \E limit \in Limits : NoBucket.tokens <= limit.bucketSize * Second
    <3>1. PICK limit \in Limits : TRUE
      BY DEF Timely, TypeOK
    <3> QED
      BY <3>1, LimitsArePositive DEF NoBucket
  <2> QED
    BY <1>2, <2>1 DEF Expire, TypeOK, Timely
<1>3. ASSUME NEW c \in Clients, NEW limit \in limits, NEW cost \in Costs, CheckInMemory(c, limit, cost)
      PROVE  TypeOK' /\ Timely'
  <2>1. Check(limit, cost) \in Checks /\ Check(limit, cost).limit = limit /\ Check(limit, cost).at = now
    BY DEF Check, Checks, TypeOK
  <2>2. now <= now
    BY <1>0
  <2>3. /\ bucket' \in Buckets
        /\ \E l \in Limits : bucket'.tokens <= l.bucketSize * Second
        /\ bucket'.lastRefillAt = now
        /\ decision' \in [Clients -> Decisions \cup {NoCheck}]
        /\ \A x \in Clients : decision'[x] # NoCheck => decision'[x] \in Decisions
                                                        /\ decision'[x].limit \in limits
        /\ spent' \in [Times -> Nat] /\ \A t \in Times : t > now => spent'[t] = 0
    BY <1>3, <2>1, <2>2, TakeIsTyped DEF CheckInMemory
  <2> QED
    BY <1>3, <2>2, <2>3 DEF CheckInMemory, TypeOK, Timely
<1>4. ASSUME NEW c \in Clients, NEW limit \in limits, NEW cost \in Costs, Send(c, limit, cost)
      PROVE  TypeOK' /\ Timely'
  <2>1. Check(limit, cost) \in Checks /\ Check(limit, cost).limit = limit /\ Check(limit, cost).at = now
    BY DEF Check, Checks, TypeOK
  <2>2. sent' \in [Clients -> Checks \cup {NoCheck}] /\ tries' \in [Clients -> 0 .. MaxTries]
    BY <1>4, <2>1, TokenBucketAssumption DEF Send, TypeOK
  <2>3. now <= now
    BY <1>0
  <2>4. \A x \in Clients : sent'[x] # NoCheck => sent'[x] \in Checks /\ sent'[x].at <= now
                                                /\ sent'[x].limit \in limits
    BY <1>4, <2>1, <2>3 DEF Send, TypeOK, Timely
  <2> QED
    BY <1>4, <2>2, <2>4 DEF Send, TypeOK, Timely
<1>5. ASSUME NEW c \in Clients, Evaluate(c)
      PROVE  TypeOK' /\ Timely'
  <2>1. sent[c] \in Checks /\ sent[c].at <= now /\ sent[c].limit \in limits /\ limiter = "redis"
        /\ sent[c].at \in Nat
    BY <1>5, TimesAreNats DEF Evaluate, Timely, TypeOK, Checks
  <2>2. PICK listeners : Take(sent[c], listeners)
    BY <1>5 DEF Evaluate
  <2>3. /\ bucket' \in Buckets
        /\ \E l \in Limits : bucket'.tokens <= l.bucketSize * Second
        /\ bucket'.lastRefillAt = sent[c].at
        /\ decision' \in [Clients -> Decisions \cup {NoCheck}]
        /\ \A x \in Clients : decision'[x] # NoCheck => decision'[x] \in Decisions
                                                        /\ decision'[x].limit \in limits
        /\ spent' \in [Times -> Nat] /\ \A t \in Times : t > now => spent'[t] = 0
    BY <2>1, <2>2, TakeIsTyped
  <2>4. expireAt' = now + Ttl /\ expireAt' \in 0 .. MaxTime + Ttl
        /\ bucket'.lastRefillAt + Ttl <= expireAt'
    BY <1>0, <1>5, <2>1, <2>3 DEF Evaluate, Expiry, TypeOK, Times
  <2>5. /\ sent' \in [Clients -> Checks \cup {NoCheck}]
        /\ \A x \in Clients : sent'[x] \in {sent[x], NoCheck}
        /\ tries' \in [Clients -> 0 .. MaxTries]
    <3>1. CASE sent' = [sent EXCEPT ![c] = NoCheck] /\ tries' = [tries EXCEPT ![c] = 0]
      BY <3>1, TokenBucketAssumption DEF TypeOK
    <3>2. CASE tries[c] < MaxTries /\ tries' = [tries EXCEPT ![c] = @ + 1] /\ UNCHANGED sent
      BY <3>2, TokenBucketAssumption DEF TypeOK
    <3> QED
      BY <1>5, <3>1, <3>2 DEF Evaluate
  <2>6. UNCHANGED <<limiter, limits, now>>
    BY <1>5 DEF Evaluate
  <2>7. TypeOK'
    BY <2>3, <2>4, <2>5, <2>6 DEF TypeOK
  <2>8. Timely'
    BY <2>1, <2>3, <2>4, <2>5, <2>6 DEF Timely
  <2> QED
    BY <2>7, <2>8
<1>6. ASSUME NEW c \in Clients, Lose(c)
      PROVE  TypeOK' /\ Timely'
  BY <1>6, TokenBucketAssumption DEF Lose, TypeOK, Timely
<1>7. CASE UNCHANGED bucketVars
  BY <1>7 DEF bucketVars, TypeOK, Timely
<1> QED
  BY <1>1, <1>2, <1>3, <1>4, <1>5, <1>6, <1>7 DEF Next

LEMMA Start == Init => IInv
<1> SUFFICES ASSUME Init PROVE IInv
  OBVIOUS
<1>1. limits \in SUBSET Limits /\ limits # {}
  <2>1. limits \in (SUBSET Limits) \ {{}}
    BY DEF Init
  <2> QED
    BY <2>1
<1>2. \E limit \in Limits : NoBucket.tokens <= limit.bucketSize * Second
  <2>1. PICK limit \in Limits : TRUE
    BY <1>1
  <2> QED
    BY <2>1, LimitsArePositive DEF NoBucket
<1>3. 0 \in 0 .. MaxTime + Ttl /\ 0 \in 0 .. MaxTries
  <2>1. MaxTime + Ttl \in Nat /\ MaxTries \in Nat
    BY TokenBucketAssumption
  <2> QED
    BY <2>1
<1>4. TypeOK
  <2>1. /\ sent \in [Clients -> Checks \cup {NoCheck}]
        /\ decision \in [Clients -> Decisions \cup {NoCheck}]
    BY DEF Init
  <2>2. spent \in [Times -> Nat] /\ tries \in [Clients -> 0 .. MaxTries]
    BY <1>3 DEF Init
  <2> QED
    BY <1>1, <1>2, <1>3, <2>1, <2>2, TimesAreNats, Zenon DEF Init, TypeOK
<1>5. \A c \in Clients : sent[c] = NoCheck /\ decision[c] = NoCheck
  BY DEF Init
<1>6. Timely
  BY <1>1, <1>5 DEF Init, Timely
<1>7. Windowed
  <2> SUFFICES ASSUME NEW t \in Nat, NEW limit \in limits
               PROVE  AtMost(Level(bucket, t, limit), t) /\ AtLeast(Level(bucket, t, limit), t)
    BY DEF Windowed
  <2>1. Level(bucket, t, limit) = limit.bucketSize * Second
    BY DEF Init, Level
  <2>2. now = 0 /\ spent[0] = 0
    BY TimesAreNats DEF Init
  <2>3. ASSUME NEW tier \in limits, Largest(tier), NEW parts \in Windows(t, tier)
        PROVE  limit.bucketSize * Second <= parts
    <3>. DEFINE cap == tier.bucketSize * Second
                gain == (t - 0) * tier.refillPerSecond
    <3>1. cap \in Nat /\ gain \in Nat
      BY <1>1, LimitsArePositive
    <3>2. limit.bucketSize * Second <= cap /\ limit.bucketSize * Second \in Nat
      BY <1>1, <2>3, LimitsArePositive, TimesGrows, TokenBucketAssumption DEF Largest, Within
    <3>3. parts = cap \/ \E n \in 0 .. 0 : parts = cap + (t - n) * tier.refillPerSecond - spent[n] * Second
      BY <2>2, <2>3 DEF Windows
    <3>4. parts = cap \/ parts = cap + gain - 0 * Second
      BY <2>2, <3>3
    <3>5. 0 * Second = 0
      BY TokenBucketAssumption
    <3>. HIDE DEF cap, gain
    <3> QED
      BY <3>1, <3>2, <3>4, <3>5
  <2>4. ASSUME NEW tier \in limits, Smallest(tier)
        PROVE  \E parts \in Windows(t, tier) : parts <= limit.bucketSize * Second
    <3>1. tier.bucketSize * Second <= limit.bucketSize * Second
      BY <1>1, <2>4, LimitsArePositive, TimesGrows, TokenBucketAssumption DEF Smallest, Within
    <3> QED
      BY <3>1 DEF Windows
  <2> QED
    BY <2>1, <2>3, <2>4 DEF AtMost, AtLeast
<1> QED
  BY <1>4, <1>5, <1>6, <1>7 DEF IInv, Promised, Exact

(* A denial takes nothing from what earlier answers promised.                        *)
LEMMA DenialKeepsPromises ==
    ASSUME NEW b \in [tokens : Nat, lastRefillAt : Nat] \cup {NoBucket},
           NEW d \in Decisions, Kept(d, b), NEW at \in Nat
    PROVE  Kept(d, [tokens |-> Level(b, at, d.limit), lastRefillAt |-> at])
<1>. DEFINE new == [tokens |-> Level(b, at, d.limit), lastRefillAt |-> at]
            again == d.at + d.retryAfterMs
            cap == d.limit.bucketSize * Second
            price == d.cost * Second
<1>1. /\ d.limit \in Limits /\ again \in Nat /\ d.fullRefillAt \in Nat
      /\ d.cost \in Costs
  <2>1. /\ d.limit \in Limits /\ d.at \in Times /\ d.retryAfterMs \in Nat
        /\ d.fullRefillAt \in Nat /\ d.cost \in Costs
    BY DEF Decisions
  <2>2. d.at \in Nat
    BY <2>1, TimesAreNats
  <2>3. d.at + d.retryAfterMs \in Nat
    BY <2>1, <2>2
  <2> QED
    BY <2>1, <2>3
<1>2. new \in [tokens : Nat, lastRefillAt : Nat]
  BY <1>1, LevelIsCapped
<1>3. /\ Level(b, again, d.limit) <= Level(new, again, d.limit)
      /\ Level(b, d.fullRefillAt, d.limit) <= Level(new, d.fullRefillAt, d.limit)
  BY <1>1, DenialKeepsLevel
<1>4. /\ Level(b, again, d.limit) \in Nat /\ Level(new, again, d.limit) \in Nat
      /\ Level(b, d.fullRefillAt, d.limit) \in Nat
      /\ Level(new, d.fullRefillAt, d.limit) \in Nat
      /\ Level(new, d.fullRefillAt, d.limit) <= cap
  BY <1>1, <1>2, LevelIsCapped
<1>5. price \in Nat /\ cap \in Nat
  BY <1>1, PricesAreNats, LimitsArePositive
<1>6. ~d.allowed /\ d.cost <= d.limit.bucketSize => price <= Level(b, again, d.limit)
  BY DEF Kept
<1>7. Level(b, d.fullRefillAt, d.limit) = cap
  BY DEF Kept
<1>. HIDE DEF new, again, cap, price
<1>8. ~d.allowed /\ d.cost <= d.limit.bucketSize => price <= Level(new, again, d.limit)
  BY <1>3, <1>4, <1>5, <1>6
<1>9. Level(new, d.fullRefillAt, d.limit) = cap
  BY <1>3, <1>4, <1>5, <1>7
<1> QED
  BY <1>8, <1>9 DEF Kept, new, again, cap, price

(* Nor does forgetting the bucket.                                               *)
LEMMA AbsenceKeepsPromises ==
    ASSUME NEW d \in Decisions
    PROVE  Kept(d, NoBucket)
<1>1. d.limit \in Limits /\ d.cost \in Nat
  BY PricesAreNats DEF Decisions
<1>2. d.cost <= d.limit.bucketSize => d.cost * Second <= d.limit.bucketSize * Second
  BY <1>1, LimitsArePositive, TokenBucketAssumption, TimesGrows
<1> QED
  BY <1>2 DEF Kept, Level

LEMMA TakeKeepsPromises ==
    ASSUME TypeOK, Timely, Promised, NEW check \in Checks, NEW listeners,
           check.limit \in limits, Take(check, listeners), UNCHANGED limits
    PROVE  Promised'
<1> SUFFICES ASSUME OneTier, NEW c \in Clients, decision'[c] # NoCheck
             PROVE  Computed(decision'[c]) /\ Kept(decision'[c], bucket')
  BY DEF Promised, OneTier
<1>. DEFINE d == Decide(check)
<1>0. bucket \in Buckets \cup {NoBucket}
  BY DEF TypeOK
<1>1. bucket \in [tokens : Nat, lastRefillAt : Nat] \cup {NoBucket}
  BY <1>0, TimesAreNats DEF Buckets
<1>2. /\ d \in Decisions /\ d.at = check.at /\ d.limit = check.limit /\ Computed(d)
      /\ ~d.allowed => Stored(d) = [tokens |-> Level(bucket, d.at, d.limit), lastRefillAt |-> d.at]
      /\ bucket' = Stored(d)
      /\ decision' = [x \in Clients |-> IF x \in listeners THEN d
                                        ELSE IF d.allowed THEN NoCheck ELSE decision[x]]
  BY <1>0, DecideIsComputed DEF Take
<1>3. d.at \in Nat
  BY <1>2, TimesAreNats DEF Checks
<1>. HIDE DEF d
<1>4. CASE decision'[c] = d
  BY <1>2, <1>4, FreshAnswersKeep
<1>5. CASE ~d.allowed /\ decision'[c] = decision[c]
  <2>1. /\ decision[c] \in Decisions /\ decision[c].limit = d.limit
        /\ Computed(decision[c]) /\ Kept(decision[c], bucket)
    BY <1>2, <1>5 DEF Timely, Promised, OneTier
  <2>2. Kept(decision[c], Stored(d))
    BY <1>1, <1>2, <1>3, <1>5, <2>1, DenialKeepsPromises
  <2> QED
    BY <1>2, <1>5, <2>1, <2>2
<1> QED
  BY <1>2, <1>4, <1>5

LEMMA PromisedStep == TypeOK /\ Timely /\ Promised /\ [Next]_bucketVars => Promised'
<1> SUFFICES ASSUME TypeOK, Timely, Promised, [Next]_bucketVars
             PROVE  Promised'
  OBVIOUS
<1>1. CASE UNCHANGED <<limits, bucket, decision>>
  BY <1>1 DEF Promised, OneTier
<1>2. CASE Expire
  <2>1. UNCHANGED <<limits, decision>> /\ bucket' = NoBucket
    BY <1>2 DEF Expire
  <2>2. \A c \in Clients : decision[c] # NoCheck => Kept(decision[c], NoBucket)
    BY AbsenceKeepsPromises DEF Timely
  <2> QED
    BY <2>1, <2>2 DEF Promised, OneTier
<1>3. ASSUME NEW c \in Clients, NEW limit \in limits, NEW cost \in Costs, CheckInMemory(c, limit, cost)
      PROVE  Promised'
  <2>1. Check(limit, cost) \in Checks /\ Check(limit, cost).limit = limit
    BY DEF Check, Checks, TypeOK
  <2> QED
    BY <1>3, <2>1, TakeKeepsPromises DEF CheckInMemory
<1>4. ASSUME NEW c \in Clients, Evaluate(c)
      PROVE  Promised'
  <2>1. sent[c] \in Checks /\ sent[c].limit \in limits /\ UNCHANGED limits
    BY <1>4 DEF Evaluate, Timely
  <2>2. PICK listeners : Take(sent[c], listeners)
    BY <1>4 DEF Evaluate
  <2> QED
    BY <2>1, <2>2, TakeKeepsPromises
<1> QED
  BY <1>1, <1>2, <1>3, <1>4 DEF Next, Tick, Send, Lose, bucketVars

(* In memory a check is evaluated at the time it is stamped with.                     *)
LEMMA ExactStep == TypeOK /\ Timely /\ Exact /\ [Next]_bucketVars => Exact'
<1> SUFFICES ASSUME TypeOK, Timely, Exact, [Next]_bucketVars, limiter' = "memory", OneTier',
                    NEW c \in Clients, decision'[c] # NoCheck
             PROVE  Followed(decision'[c], bucket', now')
  BY DEF Exact
<1>0. now \in Nat /\ limiter = "memory" /\ OneTier
  BY TimesAreNats DEF TypeOK, OneTier, Next, Tick, Expire, CheckInMemory, Send, Evaluate, Lose, bucketVars
<1>1. CASE Tick
  <2>1. now' = now + 1 /\ UNCHANGED <<bucket, decision>>
    BY <1>1 DEF Tick
  <2>2. Followed(decision[c], bucket, now)
    BY <1>0, <2>1 DEF Exact
  <2>3. \A t \in Nat : t >= now + 1 => t >= now
    BY <1>0
  <2> QED
    BY <2>1, <2>2, <2>3 DEF Followed
<1>2. ASSUME NEW x \in Clients, NEW limit \in limits, NEW cost \in Costs, CheckInMemory(x, limit, cost)
      PROVE  Followed(decision'[c], bucket', now')
  <2>. DEFINE check == Check(limit, cost)
              d == Decide(check)
  <2>0. bucket \in Buckets \cup {NoBucket}
    BY DEF TypeOK
  <2>1. check \in Checks /\ check.limit = limit /\ check.at = now
    BY DEF Check, Checks, TypeOK
  <2>2. /\ d \in Decisions /\ d.at = now /\ d.limit = limit
        /\ ~d.allowed => Stored(d) = [tokens |-> Level(bucket, now, limit), lastRefillAt |-> now]
        /\ bucket' = Stored(d) /\ now' = now
        /\ decision' = [y \in Clients |-> IF y \in {x} THEN d
                                          ELSE IF d.allowed THEN NoCheck ELSE decision[y]]
    <3>1. /\ d \in Decisions /\ d.at = now /\ d.limit = limit
          /\ ~d.allowed => Stored(d) = [tokens |-> Level(bucket, d.at, d.limit), lastRefillAt |-> d.at]
      BY <2>0, <2>1, DecideIsComputed
    <3> QED
      BY <1>2, <3>1 DEF CheckInMemory, Take
  <2>. HIDE DEF d, check
  <2>3. CASE decision'[c] = d
    BY <1>0, <2>2, <2>3 DEF Followed
  <2>4. CASE ~d.allowed /\ decision'[c] = decision[c]
    <3>1. decision[c].limit = limit /\ Followed(decision[c], bucket, now) /\ limit \in Limits
      BY <1>0, <2>4 DEF Timely, Exact, OneTier, TypeOK
    <3>2. bucket \in [tokens : Nat, lastRefillAt : Nat] \cup {NoBucket}
      BY <2>0, TimesAreNats DEF Buckets
    <3>3. bucket = NoBucket \/ bucket.lastRefillAt <= now
      BY <1>0 DEF Timely
    <3>4. \A t \in Nat : t >= now => Level(Stored(d), t, limit) = Level(bucket, t, limit)
      BY <1>0, <2>2, <2>4, <3>1, <3>2, <3>3, DenialKeepsLevel
    <3> QED
      BY <2>2, <2>4, <3>1, <3>4 DEF Followed
  <2> QED
    BY <2>2, <2>3, <2>4
<1>3. CASE UNCHANGED <<bucket, decision, now>>
  BY <1>0, <1>3 DEF Exact
<1>4. ~Expire /\ \A x \in Clients : ~Evaluate(x)
  BY <1>0 DEF Expire, Evaluate, Timely
<1> QED
  BY <1>1, <1>2, <1>3, <1>4 DEF Next, Send, Lose, bucketVars

(* Windows.                                                                   *)

(* What a decision takes.                                                        *)
Paid(d) == IF d.allowed THEN d.cost * Second ELSE 0

LEMMA DecisionsPay ==
    ASSUME bucket \in Buckets \cup {NoBucket}, NEW check \in Checks
    PROVE  LET d == Decide(check)
           IN  /\ d.tokens \in Nat /\ Paid(d) \in Nat
               /\ Level(bucket, check.at, check.limit) = d.tokens + Paid(d)
<1>. DEFINE d == Decide(check)
            level == Level(bucket, check.at, check.limit)
            price == check.cost * Second
<1>1. d \in Decisions
  BY DecideIsComputed
<1>2. d.tokens \in Nat /\ price \in Nat
  BY <1>1, PricesAreNats DEF Decisions, Checks
<1>3. level \in Nat
  <2>1. bucket \in [tokens : Nat, lastRefillAt : Nat] \cup {NoBucket}
    BY TimesAreNats DEF Buckets
  <2>2. check.at \in Nat /\ check.limit \in Limits
    BY TimesAreNats DEF Checks
  <2> QED
    BY <2>1, <2>2, LevelIsCapped
<1>4. d.tokens = IF d.allowed THEN level - price ELSE level
  BY RefilledIsLevel DEF Decide
<1>5. d.cost = check.cost
  BY DEF Decide
<1>. HIDE DEF d, level
<1>6. Paid(d) \in Nat /\ level = d.tokens + Paid(d)
  <2>1. Paid(d) = IF d.allowed THEN price ELSE 0
    BY <1>5 DEF Paid
  <2>. HIDE DEF price
  <2> QED
    BY <1>2, <1>3, <1>4, <2>1
<1> QED
  BY <1>2, <1>6 DEF d, level

(* A window that ended now goes on until t.                                        *)
LEMMA WindowsGoOn ==
    ASSUME NEW t \in Nat, now \in Nat, NEW s \in Nat, NEW rate \in Nat
    PROVE  (t - s) * rate = (now - s) * rate + (t - now) * rate
<1>1. t - s = (now - s) + (t - now)
  OBVIOUS
<1> QED
  BY <1>1, TimesDistributes

LEMMA TakeIsWindowed ==
    ASSUME TypeOK, Timely, Windowed, limiter = "memory", NEW check \in Checks, NEW listeners,
           check.limit \in limits, check.at = now, Take(check, listeners),
           UNCHANGED <<limiter, limits, now>>
    PROVE  Windowed'
<1>. DEFINE d == Decide(check)
            then == Level(bucket, now, check.limit)
<1>0. now \in Nat /\ now \in Times /\ bucket \in Buckets \cup {NoBucket}
  BY TimesAreNats DEF TypeOK
<1>1. /\ d.tokens \in Nat /\ Paid(d) \in Nat /\ then = d.tokens + Paid(d)
      /\ d.at = now /\ d.cost = check.cost /\ bucket' = Stored(d)
      /\ spent' = [s \in Times |-> IF d.allowed /\ s <= now THEN spent[s] + check.cost ELSE spent[s]]
  BY <1>0, DecisionsPay, DecideIsComputed DEF Take
<1>2. AtMost(then, now) /\ AtLeast(then, now)
  BY <1>0 DEF Windowed
<1>. HIDE DEF d, then
<1>3. ASSUME NEW s \in 0 .. now
      PROVE  /\ s \in Nat /\ spent[s] * Second \in Nat
             /\ spent'[s] * Second = spent[s] * Second + Paid(d)
  <2>1. s \in Times /\ s \in Nat /\ s <= now
    BY <1>0, TokenBucketAssumption DEF Times
  <2>2. spent[s] \in Nat /\ check.cost \in Nat /\ Second \in Nat
    BY <2>1, PricesAreNats, TokenBucketAssumption DEF TypeOK, Checks
  <2>3. spent[s] * Second \in Nat
    BY <2>2
  <2>4. spent'[s] = IF d.allowed THEN spent[s] + check.cost ELSE spent[s]
    BY <1>1, <2>1
  <2>5. (spent[s] + check.cost) * Second = spent[s] * Second + check.cost * Second
    BY <2>2, TimesDistributes
  <2> QED
    BY <1>1, <2>1, <2>3, <2>4, <2>5 DEF Paid
<1> SUFFICES ASSUME NEW t \in Nat, NEW limit \in limits, t >= now
             PROVE  AtMost(Level(bucket, t, limit), t)' /\ AtLeast(Level(bucket, t, limit), t)'
  BY DEF Windowed
<1>. DEFINE level == Level(bucket', t, limit)
            gain == (t - now) * limit.refillPerSecond
            cap == limit.bucketSize * Second
<1>4. gain \in Nat /\ cap \in Nat /\ level = IF d.tokens + gain < cap THEN d.tokens + gain ELSE cap
  <2>1. bucket' \in [tokens : Nat, lastRefillAt : Nat] /\ bucket'.tokens = d.tokens
        /\ bucket'.lastRefillAt = now
    BY <1>0, <1>1 DEF Stored
  <2>2. Elapsed(bucket', t) = t - now
    BY <1>0, <2>1 DEF Elapsed
  <2>3. limit \in Limits
    BY DEF TypeOK
  <2> QED
    BY <2>1, <2>2, <2>3, LevelOfBucket, LimitsArePositive
<1>5. level \in Nat
  BY <1>1, <1>4
<1>6. ASSUME NEW tier \in limits, Largest(tier), NEW parts \in Windows(t, tier)'
      PROVE  level <= parts
  <2>. DEFINE most == tier.bucketSize * Second
              rate == tier.refillPerSecond
  <2>1. most \in Nat /\ rate \in Nat /\ cap <= most /\ gain <= (t - now) * rate /\ (t - now) * rate \in Nat
    <3>1. tier \in Limits /\ limit \in Limits /\ Within(limit, tier) /\ t - now \in Nat
      BY <1>0, <1>6 DEF TypeOK, Largest
    <3>2. /\ most \in Nat /\ rate \in Nat /\ tier.bucketSize \in Nat
          /\ limit.bucketSize \in Nat /\ limit.refillPerSecond \in Nat /\ Second \in Nat
      BY <3>1, LimitsArePositive, TokenBucketAssumption
    <3>3. cap <= most
      BY <3>1, <3>2, TimesGrows DEF Within
    <3>4. limit.refillPerSecond * (t - now) <= rate * (t - now)
      BY <3>1, <3>2, TimesGrows DEF Within
    <3>5. limit.refillPerSecond * (t - now) = gain /\ rate * (t - now) = (t - now) * rate
      BY <3>1, <3>2
    <3>6. (t - now) * rate \in Nat
      BY <3>1, <3>2
    <3> QED
      BY <3>2, <3>3, <3>4, <3>5, <3>6
  <2>2. CASE parts = most
    <3>. HIDE DEF most, gain, cap, level
    <3> QED
      BY <1>1, <1>4, <2>1, <2>2
  <2>3. ASSUME NEW s \in 0 .. now, parts = most + (t - s) * rate - spent'[s] * Second
        PROVE  level <= parts
    <3>. DEFINE left == (now - s) * rate
                more == (t - now) * rate
                taken == spent[s] * Second
    <3>1. then <= most + left - taken
      BY <1>2, <1>6, <2>3 DEF AtMost, Windows
    <3>2. (t - s) * rate = left + more /\ left \in Nat
      <4>1. s \in Nat /\ now - s \in Nat
        BY <1>0
      <4>2. rate \in Nat
        BY <2>1
      <4>. HIDE DEF rate
      <4>3. (t - s) * rate = (now - s) * rate + (t - now) * rate
        BY <1>0, <4>1, <4>2, WindowsGoOn
      <4>4. (now - s) * rate \in Nat
        BY <4>1, <4>2
      <4> QED
        BY <4>3, <4>4
    <3>3. parts = most + (left + more) - (taken + Paid(d)) /\ taken \in Nat
      BY <1>3, <2>3, <3>2
    <3>4. more \in Nat /\ gain <= more /\ most \in Nat
      BY <2>1
    <3>. HIDE DEF left, more, taken, gain, cap, level, most
    <3> QED
      BY <1>1, <1>4, <3>1, <3>2, <3>3, <3>4
  <2>4. parts = most \/ \E s \in 0 .. now : parts = most + (t - s) * rate - spent'[s] * Second
    BY <1>6 DEF Windows
  <2> QED
    BY <2>2, <2>3, <2>4
<1>7. ASSUME NEW tier \in limits, Smallest(tier)
      PROVE  \E parts \in Windows(t, tier)' : parts <= level
  <2>. DEFINE least == tier.bucketSize * Second
              rate == tier.refillPerSecond
              more == (t - now) * rate
  <2>1. least \in Nat /\ rate \in Nat /\ least <= cap /\ more <= gain /\ more \in Nat
    <3>1. tier \in Limits /\ limit \in Limits /\ Within(tier, limit) /\ t - now \in Nat
      BY <1>0, <1>7 DEF TypeOK, Smallest
    <3>2. /\ least \in Nat /\ rate \in Nat /\ tier.bucketSize \in Nat
          /\ limit.bucketSize \in Nat /\ limit.refillPerSecond \in Nat /\ Second \in Nat
      BY <3>1, LimitsArePositive, TokenBucketAssumption
    <3>3. least <= cap
      BY <3>1, <3>2, TimesGrows DEF Within
    <3>4. rate * (t - now) <= limit.refillPerSecond * (t - now)
      BY <3>1, <3>2, TimesGrows DEF Within
    <3>5. limit.refillPerSecond * (t - now) = gain /\ rate * (t - now) = more
      BY <3>1, <3>2
    <3>6. more \in Nat
      BY <3>1, <3>2
    <3> QED
      BY <3>2, <3>3, <3>4, <3>5, <3>6
  <2>2. /\ least \in Windows(t, tier)'
        /\ \A s \in 0 .. now : least + (t - s) * rate - spent'[s] * Second \in Windows(t, tier)'
    BY DEF Windows
  <2>3. CASE cap <= level
    <3>1. least <= level
      <4>. HIDE DEF least, cap, level
      <4> QED
        BY <1>4, <1>5, <2>1, <2>3
    <3> QED
      BY <2>2, <3>1
  <2>4. CASE level = d.tokens + gain /\ least <= then
    <3>1. now \in 0 .. now /\ (t - now) * rate = more
      BY <1>0
    <3>2. spent[now] * Second \in Nat /\ spent'[now] * Second = spent[now] * Second + Paid(d)
      BY <1>3, <3>1
    <3>. DEFINE parts == least + (t - now) * rate - spent'[now] * Second
                taken == spent[now] * Second
                total == spent'[now] * Second
    <3>3. parts = least + more - total /\ total = taken + Paid(d) /\ taken \in Nat
      BY <3>2
    <3>4. parts \in Windows(t, tier)'
      BY <2>2, <3>1
    <3>. HIDE DEF parts, taken, total, least, more, gain, level
    <3>5. parts <= level
      BY <1>1, <1>4, <2>1, <2>4, <3>3
    <3> QED
      BY <3>4, <3>5
  <2>5. ASSUME level = d.tokens + gain,
               NEW s \in 0 .. now, least + (now - s) * rate - spent[s] * Second <= then
        PROVE  \E parts \in Windows(t, tier)' : parts <= level
    <3>. DEFINE left == (now - s) * rate
                taken == spent[s] * Second
                total == spent'[s] * Second
                parts == least + (t - s) * rate - spent'[s] * Second
    <3>1. (t - s) * rate = left + more /\ left \in Nat
      <4>1. s \in Nat /\ now - s \in Nat
        BY <1>0
      <4>2. rate \in Nat
        BY <2>1
      <4>. HIDE DEF rate
      <4>3. (t - s) * rate = (now - s) * rate + (t - now) * rate
        BY <1>0, <4>1, <4>2, WindowsGoOn
      <4>4. (now - s) * rate \in Nat
        BY <4>1, <4>2
      <4> QED
        BY <4>3, <4>4
    <3>2. parts = least + (left + more) - total /\ total = taken + Paid(d) /\ taken \in Nat
      BY <1>3, <3>1
    <3>3. parts \in Windows(t, tier)'
      BY <2>2
    <3>4. least + left - taken <= then
      BY <2>5
    <3>. HIDE DEF left, taken, total, parts, least, more, gain, level
    <3>5. parts <= level
      BY <1>1, <1>4, <2>1, <2>5, <3>1, <3>2, <3>4
    <3> QED
      BY <3>3, <3>5
  <2>6. least <= then \/ \E s \in 0 .. now : least + (now - s) * rate - spent[s] * Second <= then
    <3>1. PICK parts \in Windows(now, tier) : parts <= then
      BY <1>2, <1>7 DEF AtLeast
    <3> QED
      BY <3>1 DEF Windows
  <2>7. cap <= level \/ level = d.tokens + gain
    BY <1>4
  <2>. HIDE DEF least, more, level, gain, cap
  <2> QED
    BY <2>3, <2>4, <2>5, <2>6, <2>7
<1>8. \A tier : (Largest(tier)' <=> Largest(tier)) /\ (Smallest(tier)' <=> Smallest(tier))
  BY DEF Largest, Smallest
<1>. HIDE DEF level
<1>9. (\A tier \in limits : Largest(tier) => \A parts \in Windows(t, tier)' : level <= parts)
      /\ \A tier \in limits : Smallest(tier) => \E parts \in Windows(t, tier)' : parts <= level
  BY <1>6, <1>7
<1> QED
  BY <1>8, <1>9 DEF AtMost, AtLeast, level

LEMMA WindowedStep == TypeOK /\ Timely /\ Windowed /\ [Next]_bucketVars => Windowed'
<1> SUFFICES ASSUME TypeOK, Timely, Windowed, [Next]_bucketVars, limiter' = "memory"
             PROVE  Windowed'
  BY DEF Windowed
<1>0. now \in Nat /\ limiter = "memory"
  <2>1. now \in Nat
    BY TimesAreNats DEF TypeOK
  <2>2. limiter = "memory"
    BY DEF Next, Tick, Expire, CheckInMemory, Send, Evaluate, Lose, bucketVars
  <2> QED
    BY <2>1, <2>2
<1>1. CASE UNCHANGED <<limiter, limits, now, bucket, spent>>
  <2> SUFFICES ASSUME NEW t \in Nat, NEW limit \in limits, t >= now
               PROVE  AtMost(Level(bucket, t, limit), t)' /\ AtLeast(Level(bucket, t, limit), t)'
    BY <1>1 DEF Windowed
  <2>. DEFINE level == Level(bucket, t, limit)
  <2>1. \A tier : (Largest(tier)' <=> Largest(tier)) /\ (Smallest(tier)' <=> Smallest(tier))
    BY <1>1 DEF Largest, Smallest
  <2>2. \A tier : Windows(t, tier)' = Windows(t, tier)
    BY <1>1 DEF Windows
  <2>3. AtMost(level, t) /\ AtLeast(level, t) /\ level' = level /\ limits' = limits
    BY <1>0, <1>1 DEF Windowed
  <2>. HIDE DEF level
  <2>4. (\A tier \in limits : Largest(tier) => \A parts \in Windows(t, tier)' : level <= parts)
        /\ \A tier \in limits : Smallest(tier) => \E parts \in Windows(t, tier)' : parts <= level
    BY <2>2, <2>3 DEF AtMost, AtLeast
  <2> QED
    BY <2>1, <2>3, <2>4 DEF AtMost, AtLeast, level
<1>2. ASSUME NEW x \in Clients, NEW limit \in limits, NEW cost \in Costs, CheckInMemory(x, limit, cost)
      PROVE  Windowed'
  <2>1. /\ Check(limit, cost) \in Checks /\ Check(limit, cost).limit = limit
        /\ Check(limit, cost).at = now
    BY DEF Check, Checks, TypeOK
  <2> QED
    BY <1>0, <1>2, <2>1, TakeIsWindowed DEF CheckInMemory
<1>3. CASE Tick
  <2>1. now' = now + 1 /\ now' \in Times /\ UNCHANGED <<limits, bucket, spent>>
    BY <1>0, <1>3, TokenBucketAssumption DEF Tick, Times
  <2> SUFFICES ASSUME NEW t \in Nat, NEW limit \in limits, t >= now + 1
               PROVE  AtMost(Level(bucket, t, limit), t)' /\ AtLeast(Level(bucket, t, limit), t)'
    BY <2>1 DEF Windowed
  <2>. DEFINE level == Level(bucket, t, limit)
  <2>2. AtMost(level, t) /\ AtLeast(level, t)
    BY <1>0 DEF Windowed
  <2>3. \A tier : (Largest(tier)' <=> Largest(tier)) /\ (Smallest(tier)' <=> Smallest(tier))
    BY <2>1 DEF Largest, Smallest
  <2>4. \A tier : Windows(t, tier) \subseteq Windows(t, tier)'
    <3>1. \A s \in 0 .. now : s \in 0 .. now + 1
      BY <1>0
    <3> QED
      BY <2>1, <3>1 DEF Windows
  <2>5. ASSUME NEW tier \in limits, Largest(tier), NEW parts \in Windows(t, tier)'
        PROVE  level <= parts
    <3>. DEFINE most == tier.bucketSize * Second
                more == (t - (now + 1)) * tier.refillPerSecond
    <3>1. parts \in Windows(t, tier) \/ parts = most + more - spent[now + 1] * Second
      <4>1. parts = most \/ \E s \in 0 .. now + 1 :
               parts = most + (t - s) * tier.refillPerSecond - spent[s] * Second
        BY <2>1, <2>5 DEF Windows
      <4>2. \A s \in 0 .. now + 1 : s \in 0 .. now \/ s = now + 1
        BY <1>0
      <4> QED
        BY <4>1, <4>2 DEF Windows
    <3>2. level <= most
      BY <2>2, <2>5 DEF AtMost, Windows
    <3>3. most \in Nat /\ more \in Nat /\ level \in Nat
      <4>1. tier \in Limits /\ limit \in Limits /\ t - (now + 1) \in Nat
        BY <1>0 DEF TypeOK
      <4>2. bucket \in [tokens : Nat, lastRefillAt : Nat] \cup {NoBucket}
        BY TimesAreNats DEF TypeOK, Buckets
      <4> QED
        BY <4>1, <4>2, LimitsArePositive, LevelIsCapped
    <3>4. spent[now + 1] * Second = 0
      BY <1>0, <2>1, TokenBucketAssumption DEF Timely
    <3>. HIDE DEF most, more, level
    <3>5. CASE parts = most + more - spent[now + 1] * Second
      BY <3>2, <3>3, <3>4, <3>5
    <3>6. CASE parts \in Windows(t, tier)
      BY <2>2, <2>5, <3>6 DEF AtMost
    <3> QED
      BY <3>1, <3>5, <3>6
  <2>6. ASSUME NEW tier \in limits, Smallest(tier)
        PROVE  \E parts \in Windows(t, tier)' : parts <= level
    BY <2>2, <2>4, <2>6 DEF AtLeast
  <2>7. level' = level
    BY <2>1
  <2>. HIDE DEF level
  <2>8. (\A tier \in limits : Largest(tier) => \A parts \in Windows(t, tier)' : level <= parts)
        /\ \A tier \in limits : Smallest(tier) => \E parts \in Windows(t, tier)' : parts <= level
    BY <2>5, <2>6
  <2> QED
    BY <2>1, <2>3, <2>7, <2>8 DEF AtMost, AtLeast, level
<1>4. ~Expire /\ \A x \in Clients : ~Evaluate(x)
  BY <1>0 DEF Expire, Evaluate, Timely
<1> QED
  BY <1>1, <1>2, <1>3, <1>4 DEF Next, Send, Lose, bucketVars

(* The invariant is inductive.                                                  *)
THEOREM Invariance == Spec => []IInv
<1>1. IInv /\ [Next]_bucketVars => IInv'
  BY TypeStep, PromisedStep, ExactStep, WindowedStep DEF IInv
<1> QED
  BY Start, <1>1, PTL DEF Spec

(* No bucket is ever overdrawn, nor fuller than the largest tier's.                  *)
THEOREM TypeCorrect == Spec => []TypeOK
<1>1. IInv => TypeOK
  BY DEF IInv
<1> QED
  BY Invariance, <1>1, PTL

-----------------------------------------------------------------------------
(* What the answers tell a client.                                               *)

LEMMA BucketsAreTyped == IInv => bucket \in [tokens : Nat, lastRefillAt : Nat] \cup {NoBucket}
  BY TimesAreNats DEF IInv, TypeOK, Buckets

(* The whole seconds of Retry-After are enough.                                    *)
THEOREM RetryAfterSuffices == Spec => []RetryIsHonest
<1>1. IInv => RetryIsHonest
  <2> SUFFICES ASSUME IInv, OneTier, NEW c \in Denied,
                      decision[c].cost <= decision[c].limit.bucketSize
               PROVE  Refilled(decision[c].at + RetryAfter(decision[c]) * Second, decision[c].limit)
                         >= decision[c].cost * Second
    BY DEF RetryIsHonest
  <2>. DEFINE d == decision[c]
              asked == d.at + d.retryAfterMs
              waited == d.at + RetryAfter(d) * Second
  <2>1. /\ d \in Decisions /\ ~d.allowed /\ Kept(d, bucket)
        /\ d.limit \in Limits /\ d.at \in Nat /\ d.retryAfterMs \in Nat
        /\ d.cost * Second \in Nat
    <3>1. d \in Decisions /\ ~d.allowed /\ Kept(d, bucket)
      BY DEF Denied, IInv, Timely, Promised
    <3>2. d.limit \in Limits /\ d.at \in Times /\ d.retryAfterMs \in Nat /\ d.cost \in Costs
      BY <3>1 DEF Decisions
    <3> QED
      BY <3>1, <3>2, TimesAreNats, PricesAreNats
  <2>2. RetryAfter(d) \in Nat /\ d.retryAfterMs <= RetryAfter(d) * Second
    BY <2>1, CeilDivIsLeast, TokenBucketAssumption DEF RetryAfter
  <2>3. asked \in Int /\ waited \in Int /\ asked <= waited
    <3>1. RetryAfter(d) * Second \in Nat
      BY <2>2, TokenBucketAssumption
    <3> QED
      BY <2>1, <2>2, <3>1
  <2>4. Level(bucket, asked, d.limit) <= Level(bucket, waited, d.limit)
    BY <2>1, <2>3, BucketsAreTyped, LevelGrows
  <2>5. Level(bucket, asked, d.limit) \in Nat /\ Level(bucket, waited, d.limit) \in Nat
    BY <2>1, <2>3, BucketsAreTyped, LevelIsCapped
  <2>6. d.cost * Second <= Level(bucket, asked, d.limit)
    BY <2>1 DEF Kept
  <2>7. Refilled(waited, d.limit) = Level(bucket, waited, d.limit)
    BY RefilledIsLevel
  <2>. HIDE DEF d, asked, waited
  <2>8. Refilled(waited, d.limit) >= d.cost * Second
    BY <2>1, <2>4, <2>5, <2>6, <2>7
  <2> QED
    BY <2>8 DEF d, waited
<1> QED
  BY Invariance, <1>1, PTL

(* In memory the bucket holds, now and later, what the history of grants leaves.      *)
THEOREM MemoryIsExact == Spec => []BucketIsExact
<1>1. IInv => BucketIsExact
  <2> SUFFICES ASSUME IInv, limiter = "memory", NEW t \in now .. MaxTime, NEW limit \in limits,
                      NEW tier \in limits
               PROVE  /\ Largest(tier) => \A parts \in Windows(t, tier) : Refilled(t, limit) <= parts
                      /\ Smallest(tier) => \E parts \in Windows(t, tier) : parts <= Refilled(t, limit)
    BY DEF BucketIsExact
  <2>1. t \in Nat /\ t >= now
    <3>1. now \in Nat /\ MaxTime \in Nat
      BY TimesAreNats, TokenBucketAssumption DEF IInv, TypeOK
    <3> QED
      BY <3>1
  <2>2. AtMost(Level(bucket, t, limit), t) /\ AtLeast(Level(bucket, t, limit), t)
    BY <2>1 DEF IInv, Windowed
  <2> QED
    BY <2>2, RefilledIsLevel DEF AtMost, AtLeast
<1> QED
  BY Invariance, <1>1, PTL

(* A millisecond before the times an answer names, there is not yet what it names     *)
(* them for.                                                                *)
LEMMA NotBefore ==
    ASSUME NEW d \in Decisions, Computed(d), NEW from \in Nat, Followed(d, bucket, from)
    PROVE  /\ ~d.allowed /\ d.at + d.retryAfterMs - 1 >= from
                 => ~(Refilled(d.at + d.retryAfterMs - 1, d.limit) >= d.cost * Second)
           /\ d.fullRefillAt > from
                 => Refilled(d.fullRefillAt - 1, d.limit) # d.limit.bucketSize * Second
<1>. DEFINE rate == d.limit.refillPerSecond
            cap == d.limit.bucketSize * Second
            price == d.cost * Second
            wait == CeilDiv(cap - d.tokens, rate)
<1>1. /\ d.limit \in Limits /\ d.tokens \in Nat /\ d.at \in Nat /\ d.retryAfterMs \in Nat
      /\ d.fullRefillAt \in Nat /\ price \in Nat
  <2>1. d.limit \in Limits /\ d.tokens \in Nat /\ d.at \in Times /\ d.cost \in Costs
        /\ d.retryAfterMs \in Nat /\ d.fullRefillAt \in Nat
    BY DEF Decisions
  <2> QED
    BY <2>1, TimesAreNats, PricesAreNats
<1>2. rate \in Nat \ {0} /\ cap \in Nat /\ d.tokens <= cap
  BY <1>1, LimitsArePositive DEF Computed
<1>3. ASSUME NEW t \in Nat, t >= from
      PROVE  LET n == t - d.at
                 parts == d.tokens + n * rate
             IN  /\ n \in Nat /\ n * rate \in Nat
                 /\ Refilled(t, d.limit) = IF parts < cap THEN parts ELSE cap
  <2>1. d.at <= t /\ Level(bucket, t, d.limit) = Level(Stored(d), t, d.limit)
    BY <1>3 DEF Followed
  <2>2. t - d.at \in Nat /\ d.at + (t - d.at) = t
    BY <1>1, <2>1
  <2>3. /\ (t - d.at) * rate \in Nat
        /\ Level(Stored(d), d.at + (t - d.at), d.limit) =
              IF d.tokens + (t - d.at) * rate < cap THEN d.tokens + (t - d.at) * rate ELSE cap
    BY <2>2, LevelAfter
  <2> QED
    BY <2>1, <2>2, <2>3, RefilledIsLevel
<1>4. ASSUME ~d.allowed, d.at + d.retryAfterMs - 1 >= from
      PROVE  ~(Refilled(d.at + d.retryAfterMs - 1, d.limit) >= price)
  <2>. DEFINE t == d.at + d.retryAfterMs - 1
              n == t - d.at
              parts == d.tokens + n * rate
  <2>1. t \in Nat
    BY <1>1, <1>4
  <2>2. n \in Nat /\ n * rate \in Nat /\ Refilled(t, d.limit) = IF parts < cap THEN parts ELSE cap
    BY <1>3, <1>4, <2>1
  <2>3. price - d.tokens \in Nat /\ d.retryAfterMs = CeilDiv(price - d.tokens, rate)
    BY <1>1, <1>4 DEF Computed
  <2>4. n < d.retryAfterMs
    BY <1>1
  <2>5. n * rate < price - d.tokens
    BY <1>2, <2>2, <2>3, <2>4, CeilDivIsLeast
  <2>6. parts < price
    BY <1>1, <2>2, <2>5
  <2>7. parts \in Nat
    BY <1>1, <2>2
  <2>. HIDE DEF parts, n, price, cap, t
  <2>8. ~(Refilled(t, d.limit) >= price)
    BY <1>1, <1>2, <2>2, <2>6, <2>7
  <2> QED
    BY <2>8 DEF t
<1>5. ASSUME d.fullRefillAt > from
      PROVE  Refilled(d.fullRefillAt - 1, d.limit) # cap
  <2>. DEFINE t == d.fullRefillAt - 1
              n == t - d.at
              parts == d.tokens + n * rate
  <2>1. t \in Nat /\ t >= from
    BY <1>1, <1>5
  <2>2. n \in Nat /\ n * rate \in Nat /\ Refilled(t, d.limit) = IF parts < cap THEN parts ELSE cap
    BY <1>3, <2>1
  <2>3. cap - d.tokens \in Nat /\ d.fullRefillAt = d.at + wait
    BY <1>1, <1>2 DEF Computed
  <2>4. wait \in Nat
    BY <1>2, <2>3, CeilDivIsLeast
  <2>5. n < wait
    <3>. HIDE DEF wait
    <3> QED
      BY <1>1, <2>3, <2>4
  <2>6. n * rate < cap - d.tokens
    BY <1>2, <2>2, <2>3, <2>5, CeilDivIsLeast
  <2>7. parts < cap
    BY <1>1, <1>2, <2>2, <2>6
  <2>8. parts \in Nat
    BY <1>1, <2>2
  <2>. HIDE DEF parts, n, cap, t
  <2>9. Refilled(t, d.limit) # cap
    BY <1>2, <2>2, <2>7, <2>8
  <2> QED
    BY <2>9 DEF t
<1> QED
  BY <1>4, <1>5

(* In memory retryAfterMs and fullRefillAt are right to the millisecond.             *)
THEOREM RetryTimesAreExact == Spec => []RetryIsExact
<1>1. IInv => RetryIsExact
  <2> SUFFICES ASSUME IInv, limiter = "memory", OneTier, NEW c \in Clients,
                      decision[c] # NoCheck
               PROVE  LET d == decision[c]
                          again(t) == Refilled(t, d.limit) >= d.cost * Second
                          full(t) == Refilled(t, d.limit) = d.limit.bucketSize * Second
                      IN  /\ ~d.allowed =>
                                /\ d.cost <= d.limit.bucketSize => again(d.at + d.retryAfterMs)
                                /\ d.at + d.retryAfterMs - 1 >= now => ~again(d.at + d.retryAfterMs - 1)
                          /\ full(d.fullRefillAt)
                          /\ d.fullRefillAt > now => ~full(d.fullRefillAt - 1)
    BY DEF RetryIsExact, Denied
  <2>. DEFINE d == decision[c]
  <2>1. d \in Decisions /\ Computed(d) /\ Kept(d, bucket) /\ Followed(d, bucket, now) /\ now \in Nat
    BY TimesAreNats DEF IInv, TypeOK, Timely, Promised, Exact
  <2>2. d.limit \in Limits /\ d.cost * Second \in Nat /\ d.at + d.retryAfterMs \in Int
    <3>1. d.limit \in Limits /\ d.cost \in Costs /\ d.at \in Times /\ d.retryAfterMs \in Nat
      BY <2>1 DEF Decisions
    <3> QED
      BY <3>1, PricesAreNats, TimesAreNats
  <2>3. Level(bucket, d.at + d.retryAfterMs, d.limit) \in Nat
    BY <2>2, BucketsAreTyped, LevelIsCapped
  <2>4. ~d.allowed /\ d.cost <= d.limit.bucketSize
           => Refilled(d.at + d.retryAfterMs, d.limit) >= d.cost * Second
    <3>1. ~d.allowed /\ d.cost <= d.limit.bucketSize
             => d.cost * Second <= Level(bucket, d.at + d.retryAfterMs, d.limit)
      BY <2>1 DEF Kept
    <3>. DEFINE price == d.cost * Second
                level == Level(bucket, d.at + d.retryAfterMs, d.limit)
    <3>2. price \in Nat /\ level \in Nat /\ Refilled(d.at + d.retryAfterMs, d.limit) = level
      BY <2>2, <2>3, RefilledIsLevel
    <3>3. ~d.allowed /\ d.cost <= d.limit.bucketSize => price <= level
      BY <3>1
    <3>. HIDE DEF price, level
    <3>4. ~d.allowed /\ d.cost <= d.limit.bucketSize => Refilled(d.at + d.retryAfterMs, d.limit) >= price
      BY <3>2, <3>3
    <3> QED
      BY <3>4 DEF price
  <2>5. Refilled(d.fullRefillAt, d.limit) = d.limit.bucketSize * Second
    BY <2>1, RefilledIsLevel DEF Kept
  <2>6. /\ ~d.allowed /\ d.at + d.retryAfterMs - 1 >= now
               => ~(Refilled(d.at + d.retryAfterMs - 1, d.limit) >= d.cost * Second)
        /\ d.fullRefillAt > now
               => Refilled(d.fullRefillAt - 1, d.limit) # d.limit.bucketSize * Second
    BY <2>1, NotBefore
  <2> QED
    BY <2>4, <2>5, <2>6
<1> QED
  BY Invariance, <1>1, PTL

(* Only full buckets are forgotten.                                              *)
THEOREM ForgottenBucketsWereFull == Spec => ExpiryIsInvisible
<1>. DEFINE Seen == bucket # NoBucket /\ bucket' = NoBucket =>
                       \A limit \in limits : Refilled(now, limit) = limit.bucketSize * Second
<1>1. IInv /\ [Next]_bucketVars => [Seen]_bucketVars
  <2> SUFFICES ASSUME IInv, Next, bucket # NoBucket, bucket' = NoBucket, NEW limit \in limits
               PROVE  Refilled(now, limit) = limit.bucketSize * Second
    OBVIOUS
  <2>1. Expire
    <3>1. \A check \in Checks : \A listeners : Take(check, listeners) => bucket' # NoBucket
      <4> SUFFICES ASSUME NEW check \in Checks, NEW listeners, Take(check, listeners)
                   PROVE  bucket' # NoBucket
        OBVIOUS
      <4>1. Decide(check) \in Decisions
        BY DecideIsComputed DEF IInv, TypeOK
      <4>2. Decide(check).tokens \in Nat
        BY <4>1 DEF Decisions
      <4> QED
        BY <4>2, BucketsAreThere DEF Take, Stored
    <3>2. \A l \in limits, cost \in Costs : Check(l, cost) \in Checks
      BY DEF IInv, TypeOK, Check, Checks
    <3>3. \A c \in Clients : Evaluate(c) => bucket' # NoBucket
      BY <3>1 DEF IInv, Timely, Evaluate
    <3> QED
      BY <3>1, <3>2, <3>3 DEF Next, Tick, CheckInMemory, Send, Lose
  <2>. DEFINE rate == limit.refillPerSecond
              cap == limit.bucketSize * Second
              age == Elapsed(bucket, now)
  <2>2. bucket \in [tokens : Nat, lastRefillAt : Nat] /\ bucket.tokens \in Nat
        /\ bucket.lastRefillAt \in Nat /\ now \in Nat /\ limit \in Limits
    BY BucketsAreTyped, TimesAreNats DEF IInv, TypeOK
  <2>3. bucket.lastRefillAt + Ttl <= now
    <3>1. bucket.lastRefillAt + Ttl <= expireAt /\ expireAt <= now /\ expireAt \in 0 .. MaxTime + Ttl
      BY <2>1 DEF Expire, IInv, TypeOK, Timely
    <3>2. expireAt \in Int /\ Ttl \in Nat
      BY <3>1, TokenBucketAssumption
    <3> QED
      BY <2>2, <3>1, <3>2
  <2>4. age \in Nat /\ Ttl \in Nat /\ Ttl <= age
    BY <2>2, <2>3, TokenBucketAssumption DEF Elapsed
  <2>5. rate \in Nat /\ cap \in Nat /\ cap <= Ttl * rate
    BY <2>2, LimitsArePositive
  <2>6. Ttl * rate <= age * rate /\ Ttl * rate \in Nat
    BY <2>4, <2>5, TimesGrows
  <2>7. age * rate \in Nat
        /\ Level(bucket, now, limit) = IF bucket.tokens + age * rate < cap
                                       THEN bucket.tokens + age * rate ELSE cap
    BY <2>2, LevelOfBucket
  <2>8. Level(bucket, now, limit) = cap
    <3>. DEFINE gain == age * rate
                need == Ttl * rate
    <3>1. cap <= need /\ need <= gain /\ need \in Nat /\ gain \in Nat /\ cap \in Nat
      BY <2>5, <2>6, <2>7
    <3>2. Level(bucket, now, limit) = IF bucket.tokens + gain < cap THEN bucket.tokens + gain ELSE cap
      BY <2>7
    <3>. HIDE DEF gain, need, cap
    <3> QED
      BY <2>2, <3>1, <3>2
  <2> QED
    BY <2>8, RefilledIsLevel
<1> QED
  BY Invariance, <1>1, PTL DEF Spec, ExpiryIsInvisible

-----------------------------------------------------------------------------
(* The gate before it                                                       *)

Rows == [state : {"none", "active", "revoked", "deleted"}, used : BOOLEAN]

Requests == [at : {"verify", "check"}, key : Keys, late : BOOLEAN]

(* Every variable of the gate keeps its type.                                    *)
AccessTypeOK ==
    /\ rows \in [Keys -> Rows]
    /\ tierOf \in [Keys -> Limits]
    /\ request \in [Clients -> Requests \cup {Idle}]
    /\ touches \subseteq Keys

(* The bucket knows the tiers of the keys.                                       *)
TiersAreKnown == limits = {tierOf[k] : k \in Keys}

(* A request that came with a key already gone is still to be verified, and the     *)
(* key is still gone.                                                         *)
LateIsRefused ==
    \A c \in Clients : request[c] # Idle /\ request[c].late
        => request[c].at = "verify" /\ IsGone(request[c].key)

AccessInv == AccessTypeOK /\ TiersAreKnown /\ LateIsRefused

(* No key comes back.                                                          *)
GoneForGood ==
    \A k \in Keys : IsGone(k) => IsGone(k)'

-----------------------------------------------------------------------------

LEMMA AccessStart == AccessInit => AccessInv
<1> SUFFICES ASSUME AccessInit PROVE AccessInv
  OBVIOUS
<1>1. NoRow \in Rows /\ [NoRow EXCEPT !.state = "active"] \in Rows
  BY DEF NoRow, Rows
<1> QED
  BY <1>1 DEF AccessInit, AccessInv, AccessTypeOK, TiersAreKnown, LateIsRefused

LEMMA RequestsAreThere ==
    /\ Idle.at = "idle"
    /\ \A r \in Requests : r # Idle /\ r.at # "idle" /\ r.key \in Keys
<1>1. Idle.at = "idle"
  BY DEF Idle
<1>2. \A r \in Requests : r.at # "idle" /\ r.key \in Keys
  BY DEF Requests
<1> QED
  BY <1>1, <1>2

(* The steps of the bucket leave the tiers alone.                                 *)
LEMMA LimitsStay ==
    /\ Tick \/ Expire => UNCHANGED limits
    /\ \A c \in Clients : Evaluate(c) \/ Lose(c) => UNCHANGED limits
    /\ \A c, limit, cost : CheckInMemory(c, limit, cost) \/ Send(c, limit, cost) => UNCHANGED limits
  BY DEF Tick, Expire, Evaluate, Lose, CheckInMemory, Send

LEMMA AccessStep == AccessInv /\ [AccessNext]_allVars => AccessInv' /\ GoneForGood
<1> SUFFICES ASSUME AccessInv, [AccessNext]_allVars
             PROVE  AccessInv' /\ GoneForGood
  OBVIOUS
<1>. USE DEF AccessInv
<1>0. \A k \in Keys : rows[k] \in Rows
  BY DEF AccessTypeOK
<1>1. ASSUME NEW k \in Keys, create(k)
      PROVE  AccessInv' /\ GoneForGood
  <2>1. [NoRow EXCEPT !.state = "active"] \in Rows
    BY DEF NoRow, Rows
  <2>2. rows' \in [Keys -> Rows] /\ UNCHANGED <<limits, tierOf, request, touches>>
    BY <1>1, <2>1 DEF create, AccessTypeOK, bucketVars
  <2>3. \A j \in Keys : j # k => rows'[j] = rows[j]
    BY <1>1 DEF create, AccessTypeOK
  <2>4. ~IsGone(k)
    BY <1>1 DEF create, IsGone
  <2>5. GoneForGood
    BY <2>3, <2>4 DEF GoneForGood, IsGone
  <2> QED
    BY <2>2, <2>5, RequestsAreThere DEF AccessTypeOK, TiersAreKnown, LateIsRefused, GoneForGood, IsGone
<1>2. ASSUME NEW k \in Keys, revoke(k)
      PROVE  AccessInv' /\ GoneForGood
  <2>1. /\ UNCHANGED <<limits, tierOf, request, touches>>
        /\ rows' = [rows EXCEPT ![k] = [rows[k] EXCEPT !.state = "revoked"]]
    BY <1>2 DEF revoke, bucketVars
  <2>2. [rows[k] EXCEPT !.state = "revoked"] \in Rows
    BY <1>0 DEF Rows
  <2>3. rows' \in [Keys -> Rows]
    BY <2>1, <2>2 DEF AccessTypeOK
  <2>4. \A j \in Keys : rows'[j].state = IF j = k THEN "revoked" ELSE rows[j].state
    BY <1>0, <2>1 DEF AccessTypeOK, Rows
  <2>5. GoneForGood
    BY <2>4 DEF GoneForGood, IsGone
  <2> QED
    BY <2>1, <2>3, <2>5, RequestsAreThere DEF AccessTypeOK, TiersAreKnown, LateIsRefused, GoneForGood, IsGone
<1>3. ASSUME NEW k \in Keys, touchLastUsed(k)
      PROVE  AccessInv' /\ GoneForGood
  <2>1. /\ UNCHANGED <<limits, tierOf, request>> /\ touches' \subseteq Keys
        /\ rows' \in {rows, [rows EXCEPT ![k] = Touched(rows[k])]}
    BY <1>3 DEF touchLastUsed, bucketVars, AccessTypeOK
  <2>2. Touched(rows[k]) \in Rows /\ Touched(rows[k]).state = rows[k].state
    BY <1>0 DEF Touched, Rows
  <2>3. rows' \in [Keys -> Rows] /\ \A j \in Keys : rows'[j].state = rows[j].state
    BY <2>1, <2>2 DEF AccessTypeOK
  <2> QED
    BY <2>1, <2>3, RequestsAreThere DEF AccessTypeOK, TiersAreKnown, LateIsRefused, GoneForGood, IsGone
<1>4. CASE DeleteTenant
  <2>1. [NoRow EXCEPT !.state = "deleted"] \in Rows /\ [NoRow EXCEPT !.state = "deleted"].state = "deleted"
    BY DEF NoRow, Rows
  <2>2. /\ rows' \in [Keys -> Rows] /\ \A k \in Keys : IsGone(k)'
        /\ UNCHANGED <<limits, tierOf, request, touches>>
    BY <1>4, <2>1 DEF DeleteTenant, bucketVars, IsGone
  <2> QED
    BY <2>2, RequestsAreThere DEF AccessTypeOK, TiersAreKnown, LateIsRefused, GoneForGood, IsGone
<1>5. ASSUME NEW c \in Clients, Present(c)
      PROVE  AccessInv' /\ GoneForGood
  <2>1. PICK rawKey \in Keys :
           request' = [request EXCEPT ![c] = [at |-> "verify", key |-> rawKey, late |-> IsGone(rawKey)]]
    <3>1. PICK headers \in Headers, apiKey \in Keys \cup {NoKey} :
             LET rawKey == extractApiKey(headers, apiKey)
             IN  /\ rawKey # NoKey
                 /\ request' = [request EXCEPT ![c] =
                       [at |-> "verify", key |-> rawKey, late |-> IsGone(rawKey)]]
      BY <1>5 DEF Present
    <3>2. extractApiKey(headers, apiKey) \in Keys
      BY <3>1 DEF extractApiKey, Headers
    <3> QED
      BY <3>1, <3>2
  <2>. DEFINE r == [at |-> "verify", key |-> rawKey, late |-> IsGone(rawKey)]
  <2>3. r \in Requests /\ r.at = "verify" /\ r.key = rawKey /\ r.late = IsGone(rawKey)
    <3>1. IsGone(rawKey) \in BOOLEAN
      BY DEF IsGone
    <3> QED
      BY <3>1 DEF Requests
  <2>4. UNCHANGED <<limits, rows, tierOf, touches>> /\ request' = [request EXCEPT ![c] = r]
    <3>1. UNCHANGED <<bucketVars, rows, tierOf, touches>>
      BY <1>5 DEF Present
    <3>2. UNCHANGED <<limits, rows, tierOf, touches>>
      BY <3>1 DEF bucketVars
    <3> QED
      BY <2>1, <3>2
  <2>. HIDE DEF r
  <2>5. LateIsRefused'
    <3>1. \A x \in Clients : request'[x] = IF x = c THEN r ELSE request[x]
      BY <2>4 DEF AccessTypeOK
    <3>2. \A k : IsGone(k)' <=> IsGone(k)
      BY <2>4 DEF IsGone
    <3> QED
      BY <2>3, <3>1, <3>2 DEF LateIsRefused
  <2> QED
    BY <2>3, <2>4, <2>5 DEF AccessTypeOK, TiersAreKnown, GoneForGood, IsGone
<1>6. ASSUME NEW c \in Clients, request' = [request EXCEPT ![c] = Idle],
             UNCHANGED <<limits, rows, tierOf, touches>>
      PROVE  AccessInv' /\ GoneForGood
  BY <1>6 DEF AccessTypeOK, TiersAreKnown, LateIsRefused, GoneForGood, IsGone
<1>7. ASSUME NEW c \in Clients, Verify(c)
      PROVE  AccessInv' /\ GoneForGood
  <2>1. CASE ~IsActive(request[c].key)
    BY <1>6, <1>7, <2>1 DEF Verify, bucketVars
  <2>2. CASE IsActive(request[c].key)
    <3>1. /\ request[c] \in Requests /\ request[c].at = "verify"
          /\ request' = [request EXCEPT ![c] = [request[c] EXCEPT !.at = "check"]]
          /\ touches' = touches \cup {request[c].key}
          /\ UNCHANGED <<limits, rows, tierOf>>
      BY <1>7, <2>2, RequestsAreThere DEF Verify, bucketVars, AccessTypeOK
    <3>2. request[c].key \in Keys /\ rows[request[c].key].state = "active" /\ request[c] # Idle
      BY <2>2, <3>1, RequestsAreThere DEF IsActive
    <3>3. ~request[c].late
      BY <3>2 DEF LateIsRefused, IsGone
    <3>. DEFINE r == [request[c] EXCEPT !.at = "check"]
    <3>4. r \in Requests /\ ~r.late
      BY <3>1, <3>3 DEF Requests
    <3>5. LateIsRefused'
      <4>1. \A x \in Clients : request'[x] = IF x = c THEN r ELSE request[x]
        BY <3>1 DEF AccessTypeOK
      <4>2. \A k : IsGone(k)' <=> IsGone(k)
        BY <3>1 DEF IsGone
      <4>. HIDE DEF r
      <4> QED
        BY <3>4, <4>1, <4>2 DEF LateIsRefused
    <3>. HIDE DEF r
    <3> QED
      BY <3>1, <3>2, <3>4, <3>5 DEF AccessTypeOK, TiersAreKnown, GoneForGood, IsGone, r
  <2> QED
    BY <2>1, <2>2
<1>8. ASSUME NEW c \in Clients, VerifyRejects(c) \/ RateLimitInMemory(c) \/ RateLimitSend(c)
      PROVE  AccessInv' /\ GoneForGood
  BY <1>6, <1>8, LimitsStay DEF VerifyRejects, RateLimitInMemory, RateLimitSend, bucketVars
<1>9. CASE BucketStep \/ UNCHANGED allVars
  <2>1. UNCHANGED <<limits, rows, tierOf, request, touches>>
    BY <1>9, LimitsStay DEF BucketStep, accessVars, allVars, bucketVars
  <2> QED
    BY <2>1 DEF AccessTypeOK, TiersAreKnown, LateIsRefused, GoneForGood, IsGone
<1> QED
  BY <1>1, <1>2, <1>3, <1>4, <1>5, <1>7, <1>8, <1>9 DEF AccessNext

(* The invariant of the gate is inductive.                                        *)
THEOREM AccessInvariance == AccessSpec => []AccessInv
<1>1. AccessInv /\ [AccessNext]_allVars => AccessInv'
  BY AccessStep
<1> QED
  BY AccessStart, <1>1, PTL DEF AccessSpec

(* A revoked key gets no request past verification and never works again, however    *)
(* many touchLastUsed calls of earlier requests are still to come.                 *)
THEOREM RevocationIsFinal == AccessSpec => RevokedKeyStaysOut
<1>. DEFINE Out == /\ \A c \in Clients : request'[c].at = "check" => ~request'[c].late
                   /\ \A k \in Keys : IsGone(k) => rows'[k].state # "active"
<1>1. AccessInv /\ [AccessNext]_allVars => [Out]_allVars
  <2> SUFFICES ASSUME AccessInv, [AccessNext]_allVars PROVE Out
    OBVIOUS
  <2>1. AccessInv' /\ GoneForGood
    BY AccessStep
  <2>2. \A c \in Clients : request'[c].at = "check" => ~request'[c].late
    BY <2>1, RequestsAreThere DEF AccessInv, LateIsRefused, Idle
  <2>3. \A k \in Keys : IsGone(k) => rows'[k].state # "active"
    BY <2>1 DEF GoneForGood, IsGone
  <2> QED
    BY <2>2, <2>3
<1> QED
  BY AccessInvariance, <1>1, PTL DEF AccessSpec, RevokedKeyStaysOut

(* Requests with keys use the bucket as TokenBucket's do: whatever is proved of it    *)
(* holds behind the gate.                                                      *)
THEOREM GateUsesTheBucket == AccessSpec => Spec
<1>1. AccessInit => Init
  BY DEF AccessInit
<1>2. AccessInv /\ [AccessNext]_allVars => [Next]_bucketVars
  <2> SUFFICES ASSUME AccessInv, [AccessNext]_allVars
               PROVE  [Next]_bucketVars
    OBVIOUS
  <2>1. ASSUME NEW c \in Clients, RateLimitInMemory(c) \/ RateLimitSend(c)
        PROVE  Next
    <3>1. request[c].at = "check"
      BY <2>1 DEF RateLimitInMemory, RateLimitSend
    <3>2. request[c].key \in Keys
      BY <3>1, RequestsAreThere DEF AccessInv, AccessTypeOK
    <3>3. tierOf[request[c].key] \in limits /\ 1 \in Costs
      BY <3>2, CostAssumption DEF AccessInv, TiersAreKnown
    <3> QED
      BY <2>1, <3>3 DEF RateLimitInMemory, RateLimitSend, Next
  <2>2. BucketStep => Next
    BY DEF BucketStep, Next
  <2>3. CASE UNCHANGED bucketVars
    BY <2>3
  <2> QED
    BY <2>1, <2>2, <2>3 DEF AccessNext, create, revoke, touchLastUsed, DeleteTenant, Present,
         Verify, VerifyRejects, allVars
<1> QED
  BY <1>1, <1>2, AccessInvariance, PTL DEF AccessSpec, Spec

(* What a client behind the gate may rely on.                                     *)
COROLLARY AnswersBehindTheGate ==
    AccessSpec => [](TypeOK /\ BucketIsExact /\ RetryIsHonest /\ RetryIsExact) /\ ExpiryIsInvisible
  BY GateUsesTheBucket, TypeCorrect, MemoryIsExact, RetryAfterSuffices, RetryTimesAreExact,
     ForgottenBucketsWereFull, PTL
=============================================================================
