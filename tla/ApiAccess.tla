------------------------------ MODULE ApiAccess ------------------------------
(***************************************************************************)
(* What stands before a scan over HTTP: the API key is verified against the  *)
(* store, its use recorded without waiting, and the bucket of its tenant     *)
(* checked with the limits of the key's tier.  Meanwhile keys are issued and  *)
(* revoked, and the tenant may be deleted with all its keys.                *)
(*                                                                         *)
(* One tenant; the buckets of different tenants do not meet.  A request with  *)
(* no key, or with two headers that disagree, presents NoKey or the key that  *)
(* extractApiKey chooses.  The scope check after the bucket changes nothing:  *)
(* a request without the scope has paid its token.                          *)
(***************************************************************************)
EXTENDS TokenBucket

CONSTANTS Keys,  \* the raw keys that are issued sooner or later
          NoKey  \* what a request without credentials presents

ASSUME NoKeyAssumption == NoKey \notin Keys

(* A scan costs one token.                                                    *)
ASSUME CostAssumption == 1 \in Costs

VARIABLES rows,    \* table api_keys: the state of each key
          tierOf,  \* the limits of the tier each key is issued with
          request, \* each client's request under way
          touches  \* the calls of touchLastUsed under way

accessVars == <<rows, tierOf, request, touches>>

allVars == <<bucketVars, accessVars>>

NoRow == [state |-> "none", used |-> FALSE]

Idle == [at |-> "idle"]

(* "Authorization" as Bearer is preferred, and refused otherwise; X-API-Key counts  *)
(* only without it.                                                          *)
extractApiKey(authorization, apiKey) ==
    CASE authorization.scheme = "bearer" -> authorization.key
      [] authorization.scheme = "other" -> NoKey
      [] authorization.scheme = "absent" -> apiKey

Headers == [scheme : {"bearer", "other", "absent"}, key : Keys \cup {NoKey}]

AccessInit ==
    /\ Init
    /\ rows \in [Keys -> {NoRow, [NoRow EXCEPT !.state = "active"]}]
    /\ tierOf \in [Keys -> Limits]
    /\ limits = {tierOf[k] : k \in Keys}
    /\ request = [c \in Clients |-> Idle]
    /\ touches = {}

-----------------------------------------------------------------------------
(* The key store.                                                            *)

create(k) ==
    /\ rows[k].state = "none"
    /\ rows' = [rows EXCEPT ![k] = [NoRow EXCEPT !.state = "active"]]
    /\ UNCHANGED <<bucketVars, tierOf, request, touches>>

(* The UPDATE; when it meets no row the second statement only tells a key that     *)
(* was never issued, an error, from one already revoked.                       *)
revoke(k) ==
    /\ rows[k].state = "active"
    /\ rows' = [rows EXCEPT ![k].state = "revoked"]
    /\ UNCHANGED <<bucketVars, tierOf, request, touches>>

(* The keys' tenant_id cascades.                                             *)
DeleteTenant ==
    /\ \E k \in Keys : rows[k].state \in {"active", "revoked"}
    /\ rows' = [k \in Keys |-> [NoRow EXCEPT !.state = "deleted"]]
    /\ UNCHANGED <<bucketVars, tierOf, request, touches>>

IsActive(k) == k # NoKey /\ rows[k].state = "active"

IsGone(k) == rows[k].state \in {"revoked", "deleted"}

(* Mutant: the row that was verified is written back.                          *)
WrittenBack(row) ==
    IF row.state \in {"none", "deleted"} THEN row ELSE [state |-> "active", used |-> TRUE]

(* Only last_used_at is set, and only in a row that is there.                  *)
Touched(row) == IF row.state \in {"none", "deleted"} THEN row ELSE [row EXCEPT !.used = TRUE]

(* It was not awaited: it may run after the answer, after a revocation, or fail.   *)
touchLastUsed(k) ==
    /\ k \in touches
    /\ touches' = touches \ {k}
    /\ rows' \in {rows, [rows EXCEPT ![k] = Touched(@)]}
    /\ UNCHANGED <<bucketVars, tierOf, request>>

-----------------------------------------------------------------------------
(* The request.                                                              *)

(* "late" remembers that the key was already gone.                             *)
Present(c) ==
    /\ request[c] = Idle
    /\ \E headers \in Headers, apiKey \in Keys \cup {NoKey} :
          LET rawKey == extractApiKey(headers, apiKey)
          IN  /\ rawKey # NoKey
              /\ request' = [request EXCEPT ![c] =
                    [at |-> "verify", key |-> rawKey, late |-> IsGone(rawKey)]]
    /\ UNCHANGED <<bucketVars, rows, tierOf, touches>>

(* verify, and the start of touchLastUsed.                                    *)
Verify(c) ==
    /\ request[c].at = "verify"
    /\ LET k == request[c].key
       IN  IF IsActive(k)
           THEN /\ request' = [request EXCEPT ![c].at = "check"]
                /\ touches' = touches \cup {k}
           ELSE request' = [request EXCEPT ![c] = Idle] /\ UNCHANGED touches
    /\ UNCHANGED <<bucketVars, rows, tierOf>>

(* The bucket's answer ends the request here, with the scan, a 403 or a 429.      *)
RateLimitInMemory(c) ==
    /\ request[c].at = "check"
    /\ CheckInMemory(c, tierOf[request[c].key], 1)
    /\ request' = [request EXCEPT ![c] = Idle]
    /\ UNCHANGED <<rows, tierOf, touches>>

RateLimitSend(c) ==
    /\ request[c].at = "check"
    /\ Send(c, tierOf[request[c].key], 1)
    /\ request' = [request EXCEPT ![c] = Idle]
    /\ UNCHANGED <<rows, tierOf, touches>>

(* The store does not answer: a 500.                                          *)
VerifyRejects(c) ==
    /\ request[c].at = "verify"
    /\ request' = [request EXCEPT ![c] = Idle]
    /\ UNCHANGED <<bucketVars, rows, tierOf, touches>>

BucketStep ==
    /\ Tick \/ Expire \/ \E c \in Clients : Evaluate(c) \/ Lose(c)
    /\ UNCHANGED accessVars

AccessNext ==
    \/ \E k \in Keys : create(k) \/ revoke(k) \/ touchLastUsed(k)
    \/ DeleteTenant
    \/ \E c \in Clients : \/ Present(c) \/ Verify(c) \/ VerifyRejects(c)
                          \/ RateLimitInMemory(c) \/ RateLimitSend(c)
    \/ BucketStep

AccessSpec == AccessInit /\ [][AccessNext]_allVars

-----------------------------------------------------------------------------
(* A request that presents a revoked key, or one whose tenant was deleted, gets    *)
(* no further than verification, and no later step brings such a key back: not    *)
(* even touchLastUsed, which runs unawaited with what an earlier request saw.      *)
RevokedKeyStaysOut ==
    [][/\ \A c \in Clients : request'[c].at = "check" => ~request'[c].late
       /\ \A k \in Keys : IsGone(k) => rows'[k].state # "active"]_allVars
=============================================================================
