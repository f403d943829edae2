----------------------------- MODULE MCApiAccess -----------------------------
(* Instances of ApiAccess for TLC. *)
EXTENDS ApiAccess, TLC

CONSTANTS c1, c2,  \* clients
          k1, k2   \* keys

Free == [bucketSize |-> 1, refillPerSecond |-> 2]
Partner == [bucketSize |-> 2, refillPerSecond |-> 3]

Tiers == {Free, Partner}

(* Keys come and go while the bucket is in memory and before the clock moves, so   *)
(* that the two sources of states do not multiply.  While none does, a request     *)
(* reaches the bucket in one go, since until then it reads nothing that changes,   *)
(* and nothing fails on its way but touchLastUsed.  With Redis one key is used.    *)
Calm == limiter = "redis" \/ now > 0

MCInit ==
    /\ AccessInit
    /\ tierOf[k1] = Free
    /\ limiter = "redis" => tierOf[k2] = Free
    /\ Calm => \A k \in Keys : rows[k].state = "active"

GoesOn(c) ==
    /\ request[c].at # "check" => request'[c] # Idle
    /\ limiter = "redis" /\ request[c] = Idle => request'[c].key = k1

MCNext ==
    /\ AccessNext
    /\ Calm => /\ rows' = rows
               /\ touches # {} => touches' # touches
               /\ touches = {} /\ (\E c \in Clients : request[c] # Idle) => request' # request
               /\ \A c \in Clients : request'[c] # request[c] => GoesOn(c)

MCSpec == MCInit /\ [][MCNext]_allVars

Symmetry == Permutations(Clients)
=============================================================================
