----------------------------- MODULE TokenBucket -----------------------------
(***************************************************************************)
(* One bucket of the rate limiter: the in-memory one, which a process       *)
(* checks and updates in one go, and the Redis one, which several processes *)
(* share.  There a check is stamped with the clock of the process that      *)
(* handles the request and evaluated, atomically, when the script reaches   *)
(* Redis, which may be twice: a command that is not answered before its     *)
(* connection drops is sent again.  An idle bucket expires.                *)
(*                                                                         *)
(* Time is counted in milliseconds, Second of them to a second, and tokens  *)
(* in parts, Second of them to a token, so that a bucket gains exactly      *)
(* refillPerSecond parts per millisecond.                                  *)
(***************************************************************************)
EXTENDS Integers

CONSTANTS Clients,  \* concurrent requests under one key (a tenant, a Telegram user)
          Limits,   \* the limits of the tiers the key's requests may have
          Costs,    \* tokens a request may cost
          Second,   \* milliseconds to a second
          Ttl,      \* idleTtlMs
          MaxTries, \* times a command is sent at most
          MaxTime   \* bound: the clock stops here

ASSUME TokenBucketAssumption ==
    /\ Second \in Nat \ {0}
    /\ Ttl \in Nat \ {0}
    /\ MaxTries \in Nat \ {0}
    /\ MaxTime \in Nat
    /\ Costs \subseteq Nat \ {0}
    /\ Limits \subseteq [bucketSize : Nat \ {0}, refillPerSecond : Nat \ {0}]
    /\ \A a, b \in Limits : a.bucketSize < b.bucketSize => a.refillPerSecond <= b.refillPerSecond

(* An idle bucket is kept until it is full: idleTtlMs is an hour in both          *)
(* deployments, and the slowest tier's bucket fills in 30 seconds.                *)
ASSUME TtlAssumption ==
    \A limit \in Limits : limit.bucketSize * Second <= Ttl * limit.refillPerSecond

VARIABLES limiter,  \* "memory" or "redis": whether REDIS_URL is set
          limits,   \* the limits under which this key is checked
          now,      \* the processes' clocks, which agree with Redis's
          bucket,   \* tokens and lastRefillAt under the key
          expireAt, \* Redis: when the key expires
          sent,     \* Redis: the check each client has on its way
          tries,    \* Redis: times it was sent
          decision, \* the last answer to each client, until tokens are spent again
          spent     \* the tokens taken since each millisecond

bucketVars == <<limiter, limits, now, bucket, expireAt, sent, tries, decision, spent>>

Times == 0 .. MaxTime

NoBucket == [tokens |-> -1, lastRefillAt |-> 0]

NoCheck == [at |-> -1]

Checks == [at : Times, limit : Limits, cost : Costs]

Check(limit, cost) == [at |-> now, limit |-> limit, cost |-> cost]

(* Mutant: rounded down. *)
FloorDiv(a, b) == a \div b

CeilDiv(a, b) == (a + b - 1) \div b

-----------------------------------------------------------------------------
(* The bucket's parts at time t. *)
Refilled(t, limit) ==
    IF bucket = NoBucket THEN limit.bucketSize * Second
    ELSE LET elapsed == IF t > bucket.lastRefillAt THEN t - bucket.lastRefillAt ELSE 0
             parts == bucket.tokens + elapsed * limit.refillPerSecond
         IN  IF parts < limit.bucketSize * Second THEN parts ELSE limit.bucketSize * Second

Decide(check) ==
    LET refilled == Refilled(check.at, check.limit)
        price == check.cost * Second
        allowed == refilled >= price
        tokens == IF allowed THEN refilled - price ELSE refilled
        rate == check.limit.refillPerSecond
    IN  [at |-> check.at, limit |-> check.limit, cost |-> check.cost, allowed |-> allowed,
         tokens |-> tokens,
         retryAfterMs |-> IF allowed THEN 0 ELSE CeilDiv(price - refilled, rate),
         fullRefillAt |-> check.at + CeilDiv(check.limit.bucketSize * Second - tokens, rate)]

(* Mutant: the header's seconds are rounded down. *)
RetryAfterFloored(d) == d.retryAfterMs \div Second

(* The Retry-After header: whole seconds. *)
RetryAfter(d) == CeilDiv(d.retryAfterMs, Second)

(* Mutant: a denial moves the timestamp on and drops what was refilled. *)
StoredDroppingRefill(d) ==
    [tokens |-> IF d.allowed \/ bucket = NoBucket THEN d.tokens ELSE bucket.tokens,
     lastRefillAt |-> d.at]

Stored(d) == [tokens |-> d.tokens, lastRefillAt |-> d.at]

(* The bucket is written, whatever the decision; those who hear of it.        *)
Take(check, listeners) ==
    LET d == Decide(check)
    IN  /\ bucket' = Stored(d)
        /\ spent' = [s \in Times |-> IF d.allowed /\ s <= now THEN spent[s] + check.cost ELSE spent[s]]
        /\ decision' = [x \in Clients |-> IF x \in listeners THEN d
                                          ELSE IF d.allowed THEN NoCheck ELSE decision[x]]

-----------------------------------------------------------------------------
Init ==
    /\ limiter \in {"memory", "redis"}
    /\ limits \in (SUBSET Limits) \ {{}}
    /\ now = 0
    /\ bucket = NoBucket
    /\ expireAt = 0
    /\ sent = [c \in Clients |-> NoCheck]
    /\ tries = [c \in Clients |-> 0]
    /\ decision = [c \in Clients |-> NoCheck]
    /\ spent = [t \in Times |-> 0]

Tick ==
    /\ now < MaxTime
    /\ now' = now + 1
    /\ UNCHANGED <<limiter, limits, bucket, expireAt, sent, tries, decision, spent>>

(* createInMemoryRateLimiter: no await between reading the clock and the map. *)
CheckInMemory(c, limit, cost) ==
    /\ limiter = "memory"
    /\ Take(Check(limit, cost), {c})
    /\ UNCHANGED <<limiter, limits, now, expireAt, sent, tries>>

(* createRedisRateLimiter: the clock is read, and redis.eval sent. *)
Send(c, limit, cost) ==
    /\ limiter = "redis"
    /\ sent[c] = NoCheck
    /\ sent' = [sent EXCEPT ![c] = Check(limit, cost)]
    /\ tries' = [tries EXCEPT ![c] = 1]
    /\ UNCHANGED <<limiter, limits, now, bucket, expireAt, decision, spent>>

(* Mutant: the key expires Ttl after it was created, whatever its use. *)
ExpiryOfCreation == IF bucket = NoBucket THEN now + Ttl ELSE expireAt

Expiry == now + Ttl

(* TOKEN_BUCKET_LUA, PEXPIRE included.  Its answer arrives, or the connection   *)
(* drops before it does and ioredis sends the command again.                  *)
Evaluate(c) ==
    /\ sent[c] # NoCheck
    /\ expireAt' = Expiry
    /\ \/ /\ Take(sent[c], {c})
          /\ sent' = [sent EXCEPT ![c] = NoCheck]
          /\ tries' = [tries EXCEPT ![c] = 0]
       \/ /\ tries[c] < MaxTries
          /\ Take(sent[c], {})
          /\ tries' = [tries EXCEPT ![c] = @ + 1]
          /\ UNCHANGED sent
    /\ UNCHANGED <<limiter, limits, now>>

(* The connection is not restored in time: the check rejects. *)
Lose(c) ==
    /\ sent[c] # NoCheck
    /\ sent' = [sent EXCEPT ![c] = NoCheck]
    /\ tries' = [tries EXCEPT ![c] = 0]
    /\ UNCHANGED <<limiter, limits, now, bucket, expireAt, decision, spent>>

Expire ==
    /\ limiter = "redis"
    /\ bucket # NoBucket
    /\ now >= expireAt
    /\ bucket' = NoBucket
    /\ UNCHANGED <<limiter, limits, now, expireAt, sent, tries, decision, spent>>

Next ==
    \/ Tick
    \/ Expire
    \/ \E c \in Clients, limit \in limits, cost \in Costs :
          CheckInMemory(c, limit, cost) \/ Send(c, limit, cost)
    \/ \E c \in Clients : Evaluate(c) \/ Lose(c)

Spec == Init /\ [][Next]_bucketVars

-----------------------------------------------------------------------------
Buckets == [tokens : Nat, lastRefillAt : Times]

Decisions == [at : Times, limit : Limits, cost : Costs, allowed : BOOLEAN, tokens : Nat,
              retryAfterMs : Nat, fullRefillAt : Nat]

(* Every variable keeps its type: no bucket is ever overdrawn, nor fuller than   *)
(* the largest tier's.                                                       *)
TypeOK ==
    /\ limiter \in {"memory", "redis"}
    /\ limits \in SUBSET Limits
    /\ now \in Times
    /\ bucket \in Buckets \cup {NoBucket}
    /\ \E limit \in Limits : bucket.tokens <= limit.bucketSize * Second
    /\ expireAt \in 0 .. MaxTime + Ttl
    /\ sent \in [Clients -> Checks \cup {NoCheck}]
    /\ tries \in [Clients -> 0 .. MaxTries]
    /\ decision \in [Clients -> Decisions \cup {NoCheck}]
    /\ spent \in [Times -> Nat]

(* What a token bucket is, by what was taken alone: at time t no more parts are to  *)
(* be had than each window that ends then leaves of a full bucket and of what    *)
(* was refilled during it, and just as many as the tightest does.              *)
Windows(t, limit) ==
    {limit.bucketSize * Second}
        \cup {limit.bucketSize * Second + (t - s) * limit.refillPerSecond - spent[s] * Second :
                s \in 0 .. now}

Within(a, b) == a.bucketSize <= b.bucketSize /\ a.refillPerSecond <= b.refillPerSecond

Smallest(a) == \A b \in limits : Within(a, b)
Largest(a) == \A b \in limits : Within(b, a)

(* The in-memory bucket, which keeps one number and one timestamp, is exact: at   *)
(* every later time it would hold what the history of grants leaves, so that a   *)
(* request is granted just when every window allows it, and denials cost          *)
(* nothing.  A tenant whose keys have several tiers never gets more than its       *)
(* largest would grant, nor less than its smallest, in whatever order they come.  *)
BucketIsExact ==
    limiter = "memory" =>
       \A t \in now .. MaxTime, limit, tier \in limits :
          /\ Largest(tier) => \A parts \in Windows(t, tier) : Refilled(t, limit) <= parts
          /\ Smallest(tier) => \E parts \in Windows(t, tier) : parts <= Refilled(t, limit)

OneTier == \A a, b \in limits : a = b

Denied == {c \in Clients : decision[c] # NoCheck /\ ~decision[c].allowed}

(* retryAfterMs is right: as long as nobody is granted tokens, a retry after it   *)
(* is granted and one a millisecond earlier is not; fullRefillAt is the first     *)
(* moment the bucket is full again.  For the keys of one tier: a check of a       *)
(* smaller one cuts the bucket down to its size.                              *)
RetryIsExact == limiter = "memory" /\ OneTier =>
    /\ \A c \in Denied :
          LET d == decision[c]
              again(t) == Refilled(t, d.limit) >= d.cost * Second
          IN  /\ d.cost <= d.limit.bucketSize => again(d.at + d.retryAfterMs)
              /\ d.at + d.retryAfterMs - 1 >= now => ~again(d.at + d.retryAfterMs - 1)
    /\ \A c \in Clients : decision[c] # NoCheck =>
          LET d == decision[c]
              full(t) == Refilled(t, d.limit) = d.limit.bucketSize * Second
          IN  full(d.fullRefillAt) /\ (d.fullRefillAt > now => ~full(d.fullRefillAt - 1))

(* A client that waits for the whole seconds of its Retry-After header is          *)
(* granted its tokens, unless others were granted some meanwhile, even though     *)
(* later checks were denied, were evaluated before earlier ones, or the bucket     *)
(* expired.                                                                  *)
RetryIsHonest == OneTier =>
    \A c \in Denied :
        LET d == decision[c]
        IN  d.cost <= d.limit.bucketSize =>
               Refilled(d.at + RetryAfter(d) * Second, d.limit) >= d.cost * Second

(* An expired bucket is one that had filled up: forgetting it gives nobody a       *)
(* token.                                                                    *)
ExpiryIsInvisible ==
    [][bucket # NoBucket /\ bucket' = NoBucket =>
          \A limit \in limits : Refilled(now, limit) = limit.bucketSize * Second]_bucketVars

(* A claim that the code does not keep (tiers.ts): refillPerSecond "is the        *)
(* steady-state rate", so that since the first request no more tokens were        *)
(* granted than a full bucket and what was refilled.                          *)
RateIsBounded ==
    \A limit \in limits :
        spent[0] * Second <= limit.bucketSize * Second + now * limit.refillPerSecond
=============================================================================
