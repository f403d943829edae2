---------------------------- MODULE MtprotoClient ----------------------------
(***************************************************************************)
(* The MTProto client that all scans of a process share.  The connection is *)
(* made by the first lookup and kept as a promise: later lookups wait for   *)
(* it, and one that was rejected stays.  close, which each of the two       *)
(* termination signals calls, disconnects the client that finished           *)
(* connecting last and forgets the promise, so that a lookup still running  *)
(* may connect again.                                                      *)
(*                                                                         *)
(* A module that owns the lookups (TelegramScan) composes these actions.    *)
(***************************************************************************)
EXTENDS Integers, Sequences, FiniteSets

CONSTANTS Scans,   \* the scans that may look a handle up
          Signals  \* SIGTERM and SIGINT, each handled by a shutdown of its own

ASSUME MtprotoAssumption == IsFiniteSet(Signals)

VARIABLES attempts,       \* the connections ever begun, by their state
          clientPromise,  \* the attempt a lookup waits for, 0 for none
          resolvedClient, \* the client close would disconnect, 0 for none
          call,           \* of each scan: the lookup it is in
          closing         \* of each signal: its close

mtprotoVars == <<attempts, clientPromise, resolvedClient, call, closing>>

NoCall == [at |-> "none", client |-> 0]

NotClosing == [at |-> "open", client |-> 0]

Closed == {k \in Signals : closing[k].at = "closed"}

MtprotoInit ==
    /\ attempts = <<>>
    /\ clientPromise = 0
    /\ resolvedClient = 0
    /\ call = [s \in Scans |-> NoCall]
    /\ closing = [k \in Signals |-> NotClosing]

-----------------------------------------------------------------------------
(* Mutant: only a client that is connected is shared. *)
GetClientUnshared(s) ==
    /\ call[s] = NoCall
    /\ LET client == IF resolvedClient # 0 THEN resolvedClient ELSE Len(attempts) + 1
       IN  /\ attempts' = IF resolvedClient # 0 THEN attempts ELSE Append(attempts, "connecting")
           /\ clientPromise' = client
           /\ call' = [call EXCEPT ![s] = [at |-> "waiting", client |-> client]]
    /\ UNCHANGED <<resolvedClient, closing>>

(* resolveUsername up to the await of getClient: the first lookup connects.    *)
GetClient(s) ==
    /\ call[s] = NoCall
    /\ LET client == IF clientPromise # 0 THEN clientPromise ELSE Len(attempts) + 1
       IN  /\ attempts' = IF clientPromise # 0 THEN attempts ELSE Append(attempts, "connecting")
           /\ clientPromise' = client
           /\ call' = [call EXCEPT ![s] = [at |-> "waiting", client |-> client]]
    /\ UNCHANGED <<resolvedClient, closing>>

(* connect, or start with a bot token, succeeds.                              *)
Connected(g) ==
    /\ attempts[g] = "connecting"
    /\ attempts' = [attempts EXCEPT ![g] = "up"]
    /\ resolvedClient' = g
    /\ UNCHANGED <<clientPromise, call, closing>>

(* ... or fails, its retries exhausted.                                       *)
Rejected(g) ==
    /\ attempts[g] = "connecting"
    /\ attempts' = [attempts EXCEPT ![g] = "rejected"]
    /\ UNCHANGED <<clientPromise, resolvedClient, call, closing>>

(* The promise settles and the lookup is sent.                                *)
Invoke(s) ==
    /\ call[s].at = "waiting"
    /\ attempts[call[s].client] \in {"up", "down"}
    /\ call' = [call EXCEPT ![s].at = "invoking"]
    /\ UNCHANGED <<attempts, clientPromise, resolvedClient, closing>>

(* Mutant: a rejected connection is not passed on to who waits for it. *)
StatusesOnceConnected(s) ==
    IF call[s].at = "invoking" THEN {"ok", "not_resolvable", "rate_limited", "failed"} ELSE {}

(* The statuses resolveUsername may return.  An error before or during the     *)
(* call is classified by its text: a connection that failed may have met a    *)
(* flood limit too, but never says that nobody has the name.                  *)
Statuses(s) ==
    CASE call[s].at = "waiting" /\ attempts[call[s].client] = "rejected" ->
           {"failed", "rate_limited"}
      [] call[s].at = "invoking" /\ attempts[call[s].client] = "up" ->
           {"ok", "not_resolvable", "rate_limited", "failed"}
      [] call[s].at = "invoking" /\ attempts[call[s].client] = "down" -> {"ok", "failed"}
      [] OTHER -> {}

resolveUsername(s, status) ==
    /\ status \in Statuses(s)
    /\ call' = [call EXCEPT ![s] = NoCall]
    /\ UNCHANGED <<attempts, clientPromise, resolvedClient, closing>>

-----------------------------------------------------------------------------
Forget(k) ==
    /\ closing' = [closing EXCEPT ![k] = [at |-> "closed", client |-> 0]]
    /\ resolvedClient' = 0
    /\ clientPromise' = 0
    /\ UNCHANGED call

(* close: without a resolved client there is nothing to await.                *)
Close(k) ==
    /\ closing[k] = NotClosing
    /\ \/ /\ resolvedClient = 0
          /\ Forget(k)
          /\ UNCHANGED attempts
       \/ /\ resolvedClient # 0
          /\ closing' = [closing EXCEPT ![k] = [at |-> "closing", client |-> resolvedClient]]
          /\ UNCHANGED <<attempts, clientPromise, resolvedClient, call>>

(* The disconnect it awaited is done.                                         *)
Disconnected(k) ==
    /\ closing[k].at = "closing"
    /\ attempts' = [attempts EXCEPT ![closing[k].client] = "down"]
    /\ Forget(k)

Connection == \E g \in DOMAIN attempts : Connected(g) \/ Rejected(g)

Shutdown(k) == Close(k) \/ Disconnected(k)

-----------------------------------------------------------------------------
(* Concurrent cold lookups share one connection, and one that failed is not    *)
(* tried again: a process begins one connection, and at most one more for     *)
(* every close.  (So a failed connection fails all later lookups.)            *)
AttemptsAreBounded == Len(attempts) <= 1 + Cardinality(Closed)
=============================================================================
