--------------------------- MODULE ReportRegistry ---------------------------
(***************************************************************************)
(* What a ReportStore promises its callers, in the terms of the in-memory   *)
(* store: save is one atomic get-or-insert, a record once written is never  *)
(* replaced or removed, and a request that asks for a hash is only ever     *)
(* answered with the record filed under that hash.  A record is anything    *)
(* with a field hash.                                                       *)
(***************************************************************************)
CONSTANTS Requests,    \* the scan requests
          Unanswered   \* the answer of a request that has none

VARIABLES registry,    \* the records written so far
          wanted,      \* the hash each request asks for
          answer       \* what each request was given

vars == <<registry, wanted, answer>>

Filed(hash) == \E record \in registry : record.hash = hash

Init ==
    /\ registry = {}
    /\ wanted \in [Requests -> {Unanswered}]
    /\ answer = [r \in Requests |-> Unanswered]

(* A request's hash is fixed when it arrives. *)
Ask(r) ==
    /\ wanted[r] = Unanswered
    /\ wanted' = [wanted EXCEPT ![r] = wanted'[r]]
    /\ UNCHANGED <<registry, answer>>

(* findByInputHash hit, or save of an input that is already filed. *)
Serve(r) ==
    /\ answer[r] = Unanswered
    /\ \E record \in registry :
          /\ record.hash = wanted[r]
          /\ answer' = [answer EXCEPT ![r] = record]
    /\ UNCHANGED <<registry, wanted>>

(* The atomic write of a record whose hash is not filed yet. *)
File(record) ==
    /\ ~Filed(record.hash)
    /\ registry' = registry \cup {record}

(* save of an input that is not filed: the new record is the answer. *)
Save(r) ==
    /\ answer[r] = Unanswered
    /\ \E record \in registry' :
          /\ record.hash = wanted[r]
          /\ File(record)
          /\ answer' = [answer EXCEPT ![r] = record]
    /\ UNCHANGED wanted

(* The write took effect, and the caller never learns of it. *)
SaveUnacknowledged ==
    /\ \E record \in registry' : File(record)
    /\ UNCHANGED <<wanted, answer>>

Next ==
    \/ \E r \in Requests : Ask(r) \/ Serve(r) \/ Save(r)
    \/ SaveUnacknowledged

Spec == Init /\ [][Next]_vars
=============================================================================
