-------------------------- MODULE ScanServiceProofs --------------------------
(***************************************************************************)
(* Proofs about ScanService, for every set of processes, requests, inputs   *)
(* and deployable configurations.                                          *)
(***************************************************************************)
EXTENDS ScanService, WellFoundedInduction, TLAPS

(* A report is what createBasicScan makes of its input and configuration. *)
WellFormed(report) ==
    /\ report.hash = canonicalInputHash(report.input)
    /\ \E seen \in Observations(report.input, report.enabled) :
          report.findings = GatherFindings(report.input, report.enabled, seen)

(* A request that has been received captured a deployable configuration. *)
DepsCaptured == \A r \in Requests : pc[r] # "idle" => deps[r] \in Configs

(* Only cacheable requests reach the store. *)
StoreRoute == \A r \in Requests : pc[r] \in {"lookup", "insert", "reselect"} => Cacheable(r)

(* What is about to be written is the request's own scan. *)
OwnScan(r, report) ==
    /\ report \in Reports
    /\ WellFormed(report)
    /\ report.id = r
    /\ report.input = input[r]
    /\ report.enabled = deps[r]

FreshIsOwn == \A r \in Requests : pc[r] = "insert" => OwnScan(r, fresh[r])

RowsAreCacheable ==
    \A row \in reports : WellFormed(row) /\ isScanResultCacheable(row.input, row.enabled)

OneRowPerHash == \A a, b \in reports : a.hash = b.hash => a = b

ReselectFinds == \A r \in Requests : pc[r] = "reselect" => Stored(r) # {}

AnsweredFromStore == \A r \in Answered : Cacheable(r) => reply[r] \in Stored(r)

AnsweredFresh == \A r \in Answered : ~Cacheable(r) => OwnScan(r, reply[r])

IInv ==
    /\ TypeOK
    /\ DepsCaptured
    /\ StoreRoute
    /\ FreshIsOwn
    /\ RowsAreCacheable
    /\ OneRowPerHash
    /\ ReselectFinds
    /\ AnsweredFromStore
    /\ AnsweredFresh
    /\ NeverVanishes

-----------------------------------------------------------------------------
(* Every scan yields named rules only. *)
LEMMA FindingsAreRules ==
    ASSUME NEW in, NEW enabled, NEW seen
    PROVE  GatherFindings(in, enabled, seen) \in SUBSET Rules
<1>1. PageFindings(in.kind, seen.page) \in SUBSET Rules
  BY DEF PageFindings, Rules
<1>2. EmulationFindings(enabled, seen.emulator) \in SUBSET Rules
  BY DEF EmulationFindings, Rules
<1>3. FragmentFindings(enabled, seen.fragment) \in SUBSET Rules
  BY DEF FragmentFindings, Rules
<1>4. BusinessFindings(in) \in SUBSET Rules
  BY DEF BusinessFindings, Rules
<1>5. \A s : EntityFindings(s) \in SUBSET Rules
  BY DEF EntityFindings, Rules
<1>6. \A s : \A u \in Rules : MtprotoFindings(enabled, s, u) \in SUBSET Rules
  BY <1>5 DEF MtprotoFindings, Rules
<1>7. TelegramFindings(in, enabled, seen) \in SUBSET Rules
  BY <1>5, <1>6 DEF TelegramFindings, Rules
<1>8. {"INPUT_UNKNOWN"} \in SUBSET Rules /\ {"TRANSACTION_MALFORMED_MESSAGE"} \in SUBSET Rules
      /\ {"TELEGRAM_INPUT_RECOGNISED_NOT_SCANNED"} \in SUBSET Rules
  BY DEF Rules
<1> QED
  BY <1>1, <1>2, <1>3, <1>4, <1>7, <1>8 DEF GatherFindings

(* createBasicScan returns a complete report of the request's own input. *)
LEMMA ScanIsOwn ==
    ASSUME TypeOK, NEW r \in Requests, deps[r] \in Configs,
           NEW seen \in Observations(input[r], deps[r])
    PROVE  OwnScan(r, Report(r, seen))
<1>1. GatherFindings(input[r], deps[r], seen) \in SUBSET Rules
  BY FindingsAreRules
<1>2. \A used : Asked(used) \subseteq AllStatuses
  BY ScanServiceAssumption DEF Asked, AllStatuses
<1>3. seen \in [page : AllStatuses, emulator : AllStatuses, telegram : AllStatuses,
                mtproto : AllStatuses, fragment : AllStatuses]
  BY <1>2 DEF Observations
<1>4. input[r] \in Inputs
  BY DEF TypeOK
<1> QED
  BY <1>1, <1>3, <1>4 DEF OwnScan, WellFormed, Report, Reports
-----------------------------------------------------------------------------
(* The inductive invariant holds at the start and is kept by every action.    *)
LEMMA InitIInv == Init => IInv
  BY DEF Init, IInv, TypeOK, DepsCaptured, StoreRoute, FreshIsOwn, RowsAreCacheable,
         OneRowPerHash, ReselectFinds, AnsweredFromStore, AnsweredFresh, NeverVanishes,
         Answered, Running, Ended

LEMMA ReceiveIInv ==
    ASSUME IInv, NEW r \in Requests, Receive(r)
    PROVE  IInv'
<1> USE DEF IInv, Goto
<1>1. config[at[r]] \in Configs
  BY DEF TypeOK
<1>2. TypeOK'
  BY <1>1 DEF Receive, TypeOK, Running, Ended
<1>3. DepsCaptured'
  BY <1>1 DEF Receive, DepsCaptured, TypeOK
<1>4. StoreRoute'
  BY DEF Receive, StoreRoute, Cacheable, TypeOK
<1>5. FreshIsOwn' /\ RowsAreCacheable' /\ OneRowPerHash' /\ ReselectFinds' /\ NeverVanishes'
  BY DEF Receive, FreshIsOwn, OwnScan, RowsAreCacheable, OneRowPerHash, ReselectFinds,
         NeverVanishes, Stored, TypeOK
<1>6. AnsweredFromStore' /\ AnsweredFresh'
  BY DEF Receive, AnsweredFromStore, AnsweredFresh, OwnScan, Answered, Cacheable, Stored, TypeOK
<1> QED
  BY <1>2, <1>3, <1>4, <1>5, <1>6

LEMMA FindIInv ==
    ASSUME IInv, NEW r \in Requests, findByInputHash(r)
    PROVE  IInv'
<1> USE DEF IInv, Goto, Answer
<1>1. TypeOK'
  BY DEF findByInputHash, TypeOK, Running, Ended, Stored
<1>2. DepsCaptured' /\ StoreRoute' /\ FreshIsOwn' /\ RowsAreCacheable' /\ OneRowPerHash'
      /\ ReselectFinds' /\ NeverVanishes'
  BY DEF findByInputHash, DepsCaptured, StoreRoute, FreshIsOwn, OwnScan, RowsAreCacheable,
         OneRowPerHash, ReselectFinds, NeverVanishes, Cacheable, Stored, TypeOK
<1>3. Cacheable(r)
  BY DEF findByInputHash, StoreRoute
<1>4. AnsweredFromStore' /\ AnsweredFresh'
  BY <1>3 DEF findByInputHash, AnsweredFromStore, AnsweredFresh, OwnScan, Answered, Cacheable,
              Stored, TypeOK
<1> QED
  BY <1>1, <1>2, <1>4

LEMMA ScanIInv ==
    ASSUME IInv, NEW r \in Requests, createBasicScan(r)
    PROVE  IInv'
<1> USE DEF IInv, Goto, Answer
<1>1. PICK seen \in Observations(input[r], deps[r]) : fresh' = [fresh EXCEPT ![r] = Report(r, seen)]
  BY DEF createBasicScan
<1>2. deps[r] \in Configs
  BY DEF createBasicScan, DepsCaptured
<1>3. OwnScan(r, Report(r, seen))
  BY <1>1, <1>2, ScanIsOwn
<1>4. fresh'[r] = Report(r, seen) /\ OwnScan(r, fresh'[r])
  BY <1>1, <1>3 DEF TypeOK
<1>5. TypeOK'
  BY <1>1, <1>4 DEF createBasicScan, TypeOK, OwnScan, Running, Ended
<1>6. DepsCaptured' /\ StoreRoute' /\ RowsAreCacheable' /\ OneRowPerHash' /\ ReselectFinds'
      /\ NeverVanishes'
  BY DEF createBasicScan, DepsCaptured, StoreRoute, RowsAreCacheable, OneRowPerHash,
         ReselectFinds, NeverVanishes, Cacheable, Stored, TypeOK
<1>7. FreshIsOwn'
  BY <1>1, <1>4 DEF createBasicScan, FreshIsOwn, OwnScan, TypeOK
<1>8. AnsweredFromStore' /\ AnsweredFresh'
  BY <1>4 DEF createBasicScan, AnsweredFromStore, AnsweredFresh, OwnScan, Answered, Cacheable,
              Stored, TypeOK
<1> QED
  BY <1>5, <1>6, <1>7, <1>8

(* Writing the request's own scan when its hash is free keeps the table's      *)
(* invariants; it is the heart of both outcomes of the insert.               *)
LEMMA InsertKeepsRows ==
    ASSUME IInv, NEW r \in Requests, pc[r] = "insert", Stored(r) = {},
           reports' = reports \cup {fresh[r]}
    PROVE  /\ RowsAreCacheable' /\ OneRowPerHash'
           /\ reports' \subseteq Reports
           /\ fresh[r].hash = canonicalInputHash(input[r])
<1>1. OwnScan(r, fresh[r]) /\ Cacheable(r)
  BY DEF IInv, FreshIsOwn, StoreRoute
<1>2. fresh[r].hash = canonicalInputHash(input[r])
  BY <1>1 DEF OwnScan, WellFormed
<1>3. RowsAreCacheable'
  BY <1>1 DEF IInv, RowsAreCacheable, OwnScan, Cacheable
<1>4. OneRowPerHash'
  BY <1>2 DEF IInv, OneRowPerHash, Stored
<1>5. reports' \subseteq Reports
  BY <1>1 DEF IInv, TypeOK, OwnScan
<1> QED
  BY <1>2, <1>3, <1>4, <1>5

LEMMA InsertIInv ==
    ASSUME IInv, NEW r \in Requests, InsertReport(r)
    PROVE  IInv'
<1> USE DEF IInv, Goto, Answer
<1>1. CASE Stored(r) = {}
  <2>1. reports' = reports \cup {fresh[r]} /\ Answer(r, fresh[r])
    BY <1>1 DEF InsertReport
  <2>2. /\ RowsAreCacheable' /\ OneRowPerHash' /\ reports' \subseteq Reports
        /\ fresh[r].hash = canonicalInputHash(input[r])
    BY <1>1, <2>1, InsertKeepsRows DEF InsertReport
  <2>3. Cacheable(r) /\ OwnScan(r, fresh[r])
    BY DEF InsertReport, StoreRoute, FreshIsOwn
  <2>4. TypeOK'
    BY <2>1, <2>2, <2>3 DEF InsertReport, TypeOK, Running, Ended, OwnScan
  <2>5. DepsCaptured' /\ StoreRoute' /\ FreshIsOwn' /\ NeverVanishes'
    BY <2>1 DEF InsertReport, DepsCaptured, StoreRoute, FreshIsOwn, OwnScan, NeverVanishes,
                Cacheable, TypeOK
  <2>6. ReselectFinds'
    BY <2>1 DEF InsertReport, ReselectFinds, Stored, TypeOK
  <2>7. AnsweredFromStore' /\ AnsweredFresh'
    BY <2>1, <2>2, <2>3 DEF InsertReport, AnsweredFromStore, AnsweredFresh, OwnScan, Answered,
                            Cacheable, Stored, TypeOK
  <2> QED
    BY <2>2, <2>4, <2>5, <2>6, <2>7
<1>2. CASE Stored(r) # {}
  <2>1. pc' = [pc EXCEPT ![r] = "reselect"] /\ UNCHANGED <<reports, reply>>
    BY <1>2 DEF InsertReport
  <2>2. TypeOK'
    BY <2>1 DEF InsertReport, TypeOK, Running, Ended
  <2>3. DepsCaptured' /\ StoreRoute' /\ FreshIsOwn' /\ RowsAreCacheable' /\ OneRowPerHash'
        /\ NeverVanishes'
    BY <2>1 DEF InsertReport, DepsCaptured, StoreRoute, FreshIsOwn, OwnScan, RowsAreCacheable,
                OneRowPerHash, NeverVanishes, Cacheable, TypeOK
  <2>4. ReselectFinds'
    BY <1>2, <2>1 DEF InsertReport, ReselectFinds, Stored, TypeOK
  <2>5. AnsweredFromStore' /\ AnsweredFresh'
    BY <2>1 DEF InsertReport, AnsweredFromStore, AnsweredFresh, OwnScan, Answered, Cacheable,
                Stored, TypeOK
  <2> QED
    BY <2>2, <2>3, <2>4, <2>5
<1> QED
  BY <1>1, <1>2
LEMMA SelectIInv ==
    ASSUME IInv, NEW r \in Requests, SelectExisting(r)
    PROVE  IInv'
<1> USE DEF IInv, Goto, Answer
<1>1. PICK row \in Stored(r) : Answer(r, row)
  BY DEF SelectExisting, ReselectFinds
<1>2. TypeOK'
  BY <1>1 DEF SelectExisting, TypeOK, Running, Ended, Stored
<1>3. DepsCaptured' /\ StoreRoute' /\ FreshIsOwn' /\ RowsAreCacheable' /\ OneRowPerHash'
      /\ ReselectFinds' /\ NeverVanishes'
  BY <1>1 DEF SelectExisting, DepsCaptured, StoreRoute, FreshIsOwn, OwnScan, RowsAreCacheable,
              OneRowPerHash, ReselectFinds, NeverVanishes, Cacheable, Stored, TypeOK
<1>4. Cacheable(r)
  BY DEF SelectExisting, StoreRoute
<1>5. AnsweredFromStore' /\ AnsweredFresh'
  BY <1>1, <1>4 DEF SelectExisting, AnsweredFromStore, AnsweredFresh, OwnScan, Answered,
                    Cacheable, Stored, TypeOK
<1> QED
  BY <1>2, <1>3, <1>5

LEMMA RejectedIInv ==
    ASSUME IInv, NEW r \in Requests, AwaitRejected(r)
    PROVE  IInv'
<1> USE DEF IInv, Goto
<1>1. TypeOK' /\ DepsCaptured' /\ StoreRoute' /\ NeverVanishes'
  BY DEF AwaitRejected, TypeOK, DepsCaptured, StoreRoute, NeverVanishes, Cacheable, Running, Ended
<1>2. FreshIsOwn' /\ RowsAreCacheable' /\ OneRowPerHash' /\ ReselectFinds'
  BY DEF AwaitRejected, FreshIsOwn, OwnScan, RowsAreCacheable, OneRowPerHash, ReselectFinds,
         Stored, TypeOK
<1>3. AnsweredFromStore' /\ AnsweredFresh'
  BY DEF AwaitRejected, AnsweredFromStore, AnsweredFresh, OwnScan, Answered, Cacheable, Stored,
         Running, TypeOK
<1> QED
  BY <1>1, <1>2, <1>3

LEMMA UnacknowledgedIInv ==
    ASSUME IInv, NEW r \in Requests, InsertUnacknowledged(r)
    PROVE  IInv'
<1> USE DEF IInv, Goto
<1>1. RowsAreCacheable' /\ OneRowPerHash' /\ reports' \subseteq Reports
  BY InsertKeepsRows DEF InsertUnacknowledged
<1>2. TypeOK' /\ DepsCaptured' /\ StoreRoute' /\ FreshIsOwn' /\ NeverVanishes'
  BY <1>1 DEF InsertUnacknowledged, TypeOK, DepsCaptured, StoreRoute, FreshIsOwn, OwnScan,
              NeverVanishes, Cacheable, Running, Ended
<1>3. ReselectFinds' /\ AnsweredFromStore' /\ AnsweredFresh'
  BY DEF InsertUnacknowledged, ReselectFinds, AnsweredFromStore, AnsweredFresh, OwnScan, Answered,
         Cacheable, Stored, TypeOK
<1> QED
  BY <1>1, <1>2, <1>3

LEMMA RestartIInv ==
    ASSUME IInv, NEW p \in Processes, Restart(p)
    PROVE  IInv'
<1> USE DEF IInv
<1>1. \A r \in Requests : pc'[r] = pc[r] \/ (pc[r] \in Running /\ pc'[r] = "lost")
  BY DEF Restart
<1>2. TypeOK'
  BY DEF Restart, TypeOK, Running, Ended
<1>3. DepsCaptured' /\ StoreRoute' /\ FreshIsOwn' /\ NeverVanishes'
  BY <1>1 DEF Restart, DepsCaptured, StoreRoute, FreshIsOwn, OwnScan, NeverVanishes, Cacheable,
              Running
<1>4. RowsAreCacheable' /\ OneRowPerHash' /\ ReselectFinds' /\ AnsweredFromStore' /\ AnsweredFresh'
  BY <1>1 DEF Restart, RowsAreCacheable, OneRowPerHash, ReselectFinds, AnsweredFromStore,
              AnsweredFresh, OwnScan, Answered, Cacheable, Stored
<1> QED
  BY <1>2, <1>3, <1>4

LEMMA StutterIInv == IInv /\ UNCHANGED vars => IInv'
  BY DEF vars, IInv, TypeOK, DepsCaptured, StoreRoute, FreshIsOwn, OwnScan, RowsAreCacheable,
         OneRowPerHash, ReselectFinds, AnsweredFromStore, AnsweredFresh, NeverVanishes, Answered,
         Cacheable, Stored

LEMMA NextIInv == IInv /\ [Next]_vars => IInv'
<1> SUFFICES ASSUME IInv, [Next]_vars PROVE IInv'
  OBVIOUS
<1>1. CASE UNCHANGED vars
  BY <1>1, StutterIInv
<1>2. ASSUME NEW r \in Requests, Receive(r) PROVE IInv'
  BY <1>2, ReceiveIInv
<1>3. ASSUME NEW r \in Requests, Step(r) PROVE IInv'
  BY <1>3, FindIInv, ScanIInv, InsertIInv, SelectIInv DEF Step
<1>4. ASSUME NEW r \in Requests, AwaitRejected(r) PROVE IInv'
  BY <1>4, RejectedIInv
<1>5. ASSUME NEW r \in Requests, InsertUnacknowledged(r) PROVE IInv'
  BY <1>5, UnacknowledgedIInv
<1>6. ASSUME NEW p \in Processes, Restart(p) PROVE IInv'
  BY <1>6, RestartIInv
<1> QED
  BY <1>1, <1>2, <1>3, <1>4, <1>5, <1>6 DEF Next

THEOREM Invariance == Spec => []IInv
  BY InitIInv, NextIInv, PTL DEF Spec

-----------------------------------------------------------------------------
(* Type correctness: every row and every answer is a complete report for an    *)
(* input and a configuration that exist.                                     *)
THEOREM TypeCorrect == Spec => []TypeOK
<1>1. IInv => TypeOK
  BY DEF IInv
<1> QED
  BY <1>1, Invariance, PTL

(* However requests, failures and redeployments interleave, the answers that   *)
(* go through the store and share a hash are one report (report-store.ts).    *)
THEOREM Convergence == Spec => []AnswersConverge
<1>1. IInv => AnswersConverge
  <2> SUFFICES ASSUME IInv, NEW r \in Answered, NEW s \in Answered, Cacheable(r), Cacheable(s),
                      canonicalInputHash(input[r]) = canonicalInputHash(input[s])
               PROVE  reply[r] = reply[s]
    BY DEF AnswersConverge
  <2>1. reply[r] \in Stored(r) /\ reply[s] \in Stored(s)
    BY DEF IInv, AnsweredFromStore
  <2>2. reply[r] \in reports /\ reply[s] \in reports /\ reply[r].hash = reply[s].hash
    BY <2>1 DEF Stored
  <2> QED
    BY <2>2 DEF IInv, OneRowPerHash
<1> QED
  BY <1>1, Invariance, PTL

(* The exception after a conflicting insert is never thrown.                  *)
THEOREM ConflictImpliesRow == Spec => []NeverVanishes
<1>1. IInv => NeverVanishes
  BY DEF IInv
<1> QED
  BY <1>1, Invariance, PTL

(* Live scans are never written, and never replaced by a stored report.       *)
THEOREM LiveStayOut == Spec => []LiveScansStayOutOfTheCache
<1>1. IInv => LiveScansStayOutOfTheCache
  <2> SUFFICES ASSUME IInv PROVE LiveScansStayOutOfTheCache
    OBVIOUS
  <2>1. \A row \in reports : isScanResultCacheable(row.input, row.enabled)
    BY DEF IInv, RowsAreCacheable
  <2>2. ASSUME NEW r \in Answered, ~Cacheable(r)
        PROVE  reply[r].id = r /\ reply[r] \notin reports
    <3>1. OwnScan(r, reply[r])
      BY <2>2 DEF IInv, AnsweredFresh
    <3>2. ~isScanResultCacheable(reply[r].input, reply[r].enabled)
      BY <2>2, <3>1 DEF OwnScan, Cacheable
    <3> QED
      BY <2>1, <3>1, <3>2 DEF OwnScan
  <2> QED
    BY <2>1, <2>2 DEF LiveScansStayOutOfTheCache
<1> QED
  BY <1>1, Invariance, PTL

(* Written reports stay, and an ended request stays as it ended.              *)
THEOREM WrittenOnce == Spec => StoredForever
<1>1. IInv /\ [Next]_vars =>
        [/\ reports \subseteq reports'
         /\ \A r \in Requests : pc[r] \in Ended => UNCHANGED <<pc[r], reply[r]>>]_vars
  <2> SUFFICES ASSUME IInv, Next
               PROVE  /\ reports \subseteq reports'
                      /\ \A r \in Requests : pc[r] \in Ended => UNCHANGED <<pc[r], reply[r]>>
    OBVIOUS
  <2> USE DEF IInv, TypeOK, Ended, Running, Goto, Answer
  <2>1. ASSUME NEW r \in Requests, Receive(r) \/ AwaitRejected(r) \/ InsertUnacknowledged(r)
        PROVE  /\ reports \subseteq reports'
               /\ \A s \in Requests : pc[s] \in Ended => UNCHANGED <<pc[s], reply[s]>>
    BY <2>1 DEF Receive, AwaitRejected, InsertUnacknowledged
  <2>2. ASSUME NEW r \in Requests, Step(r)
        PROVE  /\ reports \subseteq reports'
               /\ \A s \in Requests : pc[s] \in Ended => UNCHANGED <<pc[s], reply[s]>>
    BY <2>2 DEF Step, findByInputHash, createBasicScan, InsertReport, SelectExisting
  <2>3. ASSUME NEW p \in Processes, Restart(p)
        PROVE  /\ reports \subseteq reports'
               /\ \A s \in Requests : pc[s] \in Ended => UNCHANGED <<pc[s], reply[s]>>
    BY <2>3 DEF Restart
  <2> QED
    BY <2>1, <2>2, <2>3 DEF Next
<1> QED
  BY <1>1, Invariance, PTL DEF Spec, StoredForever
-----------------------------------------------------------------------------
(* A "not configured" finding comes from a scan without that provider, of a    *)
(* kind whose reports are kept out of the store once the provider is there.   *)
LEMMA NotConfiguredOrigin ==
    ASSUME NEW in, NEW enabled, NEW seen, NEW rule \in DOMAIN NotConfiguredRules,
           rule \in GatherFindings(in, enabled, seen)
    PROVE  /\ NotConfiguredRules[rule] \notin enabled
           /\ \A others : isScanResultCacheable(in, others) => NotConfiguredRules[rule] \notin others
<1> DEFINE names == {"EMULATION_NOT_CONFIGURED", "TELEGRAM_BOT_API_NOT_CONFIGURED",
                     "TELEGRAM_FRAGMENT_API_NOT_CONFIGURED"}
<1>1. rule \in names
  BY DEF NotConfiguredRules
<1>2. \A kind, page : PageFindings(kind, page) \cap names = {}
  BY DEF PageFindings
<1>3. BusinessFindings(in) \cap names = {}
  BY DEF BusinessFindings
<1>4. \A status : /\ EmulationFindings(enabled, status) \cap names # {}
                     => /\ "emulator" \notin enabled
                        /\ EmulationFindings(enabled, status) \cap names = {"EMULATION_NOT_CONFIGURED"}
                  /\ FragmentFindings(enabled, status) \cap names # {}
                     => /\ "fragment" \notin enabled
                        /\ FragmentFindings(enabled, status) \cap names
                              = {"TELEGRAM_FRAGMENT_API_NOT_CONFIGURED"}
  BY DEF EmulationFindings, FragmentFindings
<1>5. TelegramFindings(in, enabled, seen) \cap names # {}
        => /\ "telegram" \notin enabled
           /\ TelegramFindings(in, enabled, seen) \cap names = {"TELEGRAM_BOT_API_NOT_CONFIGURED"}
  <2>1. \A status : \A rest \in names \cup {"TELEGRAM_ENTITY_NOT_RESOLVABLE"} :
           MtprotoFindings(enabled, status, rest) \cap names \subseteq {rest}
    BY DEF MtprotoFindings, EntityFindings
  <2>2. \A status : EntityFindings(status) \cap names = {}
    BY DEF EntityFindings
  <2> QED
    BY <2>1, <2>2 DEF TelegramFindings
<1>6. CASE in.kind \in EmulatedKinds
  <2>1. rule = "EMULATION_NOT_CONFIGURED" /\ "emulator" \notin enabled
    BY <1>1, <1>4, <1>6 DEF GatherFindings, EmulatedKinds, PageKinds, TelegramEntityKinds
  <2> QED
    BY <1>6, <2>1 DEF NotConfiguredRules, isScanResultCacheable
<1>7. CASE in.kind \in TelegramEntityKinds
  <2>1. \/ rule = "TELEGRAM_BOT_API_NOT_CONFIGURED" /\ "telegram" \notin enabled
        \/ rule = "TELEGRAM_FRAGMENT_API_NOT_CONFIGURED" /\ "fragment" \notin enabled
    BY <1>1, <1>3, <1>4, <1>5, <1>7 DEF GatherFindings, PageKinds, TelegramEntityKinds
  <2> QED
    BY <1>7, <2>1 DEF NotConfiguredRules, isScanResultCacheable, TelegramShaped
<1>8. CASE in.kind \notin EmulatedKinds \cup TelegramEntityKinds
  BY <1>1, <1>2, <1>8 DEF GatherFindings, EmulatedKinds, TelegramEntityKinds, PageKinds
<1> QED
  BY <1>6, <1>7, <1>8

(* The hash keeps the kind, and caching depends on nothing else of an input.   *)
LEMMA HashKeepsCacheability ==
    ASSUME NEW a, NEW b, NEW enabled, canonicalInputHash(a) = canonicalInputHash(b)
    PROVE  isScanResultCacheable(a, enabled) = isScanResultCacheable(b, enabled)
<1>1. a.kind = b.kind
  BY DEF canonicalInputHash
<1> QED
  BY <1>1 DEF isScanResultCacheable

(* No user is told that a provider is missing by a process that has it,        *)
(* whichever process or deployment the stored report came from               *)
(* (cacheability.ts, the "stuck-finding" bug).                               *)
THEOREM NoStuckFindings == Spec => []NoStuckNotConfigured
<1>1. IInv => NoStuckNotConfigured
  <2> SUFFICES ASSUME IInv, NEW r \in Answered,
                      NEW rule \in reply[r].findings \cap DOMAIN NotConfiguredRules
               PROVE  NotConfiguredRules[rule] \notin deps[r]
    BY DEF NoStuckNotConfigured
  <2>1. CASE Cacheable(r)
    <3>1. reply[r] \in reports /\ reply[r].hash = canonicalInputHash(input[r])
      BY <2>1 DEF IInv, AnsweredFromStore, Stored
    <3>2. WellFormed(reply[r])
      BY <3>1 DEF IInv, RowsAreCacheable
    <3>3. isScanResultCacheable(reply[r].input, deps[r])
      BY <2>1, <3>1, <3>2, HashKeepsCacheability DEF WellFormed, Cacheable
    <3> QED
      BY <3>2, <3>3, NotConfiguredOrigin DEF WellFormed
  <2>2. CASE ~Cacheable(r)
    <3>1. WellFormed(reply[r]) /\ reply[r].enabled = deps[r]
      BY <2>2 DEF IInv, AnsweredFresh, OwnScan
    <3> QED
      BY <3>1, NotConfiguredOrigin DEF WellFormed
  <2> QED
    BY <2>1, <2>2
<1> QED
  BY <1>1, Invariance, PTL
-----------------------------------------------------------------------------
(* Which account a plain link names is told by what its key keeps, the lowered    *)
(* words of its path and parameters, if "domain" is written in lower case.        *)
SameWords(query, other) ==
    /\ query \in Seq(Texts \X Texts) /\ other \in Seq(Texts \X Texts)
    /\ DOMAIN other = DOMAIN query
    /\ \A i \in DOMAIN query : /\ ToLowerCase(other[i][1]) = ToLowerCase(query[i][1])
                               /\ ToLowerCase(other[i][2]) = ToLowerCase(query[i][2])

LEMMA FirstAt ==
    ASSUME NEW query \in Seq(Texts \X Texts), NEW key, Has(query, key)
    PROVE  Min(At(query, key)) \in DOMAIN query
<1>1. At(query, key) \subseteq Nat /\ At(query, key) # {} /\ At(query, key) \subseteq DOMAIN query
  BY DEF At, Has
<1>2. PICK n \in At(query, key) : \A m \in At(query, key) : ~ <<m, n>> \in OpToRel(<, Nat)
  BY <1>1, WFMin, NatLessThanWellFounded, Zenon
<1>3. \A m \in At(query, key) : ~ (m < n)
  BY <1>1, <1>2, Zenon DEF OpToRel
<1>4. \A m \in At(query, key) : n <= m
  BY <1>1, <1>3
<1> QED
  BY <1>1, <1>4 DEF Min

LEMMA LoweredText ==
    ASSUME NEW text \in Texts \cup {NullText}
    PROVE  /\ text = [word |-> text.word, upper |-> text.upper]
           /\ ToLowerCase(text).word = text.word
<1>1. text = [word |-> text.word, upper |-> text.upper]
  BY DEF Texts, NullText
<1>2. ToLowerCase(text).word = text.word
  <2>1. CASE text \in Texts
    BY <2>1 DEF ToLowerCase, Texts
  <2>2. CASE text = NullText
    BY <2>2 DEF ToLowerCase, NullText
  <2> QED
    BY <2>1, <2>2
<1> QED
  BY <1>1, <1>2

LEMMA SameName ==
    ASSUME NEW query, NEW other, SameWords(query, other), NEW name,
           \A i \in DOMAIN query : query[i][1] # [word |-> name, upper |-> TRUE],
           \A i \in DOMAIN query : other[i][1] # [word |-> name, upper |-> TRUE]
    PROVE  ToLowerCase(get(other, name)) = ToLowerCase(get(query, name))
<1>1. \A i \in DOMAIN query : /\ query[i] \in Texts \X Texts /\ other[i] \in Texts \X Texts
                              /\ query[i][1] \in Texts /\ other[i][1] \in Texts
  BY DEF SameWords
<1>2. ASSUME NEW text \in Texts, text # [word |-> name, upper |-> TRUE]
      PROVE  text = Named(name) <=> ToLowerCase(text).word = name
  <2>1. /\ text = [word |-> text.word, upper |-> text.upper] /\ text.upper \in BOOLEAN
        /\ ToLowerCase(text).word = text.word
    BY LoweredText DEF Texts
  <2>2. text.word = name => ~text.upper
    BY <1>2, <2>1
  <2>3. text.word = name => text = Named(name)
    BY <2>1, <2>2 DEF Named
  <2>4. text = Named(name) => text.word = name
    BY DEF Named
  <2> QED
    BY <2>1, <2>3, <2>4
<1>3. \A i \in DOMAIN query : other[i][1] = Named(name) <=> query[i][1] = Named(name)
  BY <1>1, <1>2 DEF SameWords
<1>4. At(other, name) = At(query, name)
  BY <1>3 DEF At, SameWords
<1>5. CASE Has(query, name)
  <2>1. PICK i \in DOMAIN query : get(query, name) = query[i][2] /\ get(other, name) = other[i][2]
    BY <1>4, <1>5, FirstAt DEF get, Has, SameWords
  <2> QED
    BY <2>1 DEF SameWords
<1>6. CASE ~Has(query, name)
  BY <1>4, <1>6 DEF get, Has
<1> QED
  BY <1>5, <1>6

(* Two plain links with one key name one account.                              *)
LEMMA SameAccount ==
    ASSUME NEW a \in Urls, NEW b \in Urls, LowerCaseUrl(a) = LowerCaseUrl(b),
           \A url \in {a, b} : url.host = "resolve" =>
              \A i \in DOMAIN url.query : url.query[i][1] # [word |-> "domain", upper |-> TRUE]
    PROVE  plainHandle(a) = plainHandle(b)
<1> DEFINE Params(url) == [i \in DOMAIN url.query |->
                             <<ToLowerCase(url.query[i][1]), ToLowerCase(url.query[i][2])>>]
           nameOf(url) == IF url.host = "resolve" THEN get(url.query, "domain") ELSE url.path
<1>1. \A url \in Urls : /\ LowerCaseUrl(url).host = url.host
                         /\ LowerCaseUrl(url).path = ToLowerCase(url.path)
                         /\ LowerCaseUrl(url).query = Params(url)
  <2> TAKE url \in Urls
  <2> DEFINE lowered == Params(url)
  <2>1. LowerCaseUrl(url) = [url EXCEPT !.path = ToLowerCase(url.path), !.query = lowered]
    BY DEF LowerCaseUrl
  <2> HIDE DEF lowered
  <2>2. /\ "host" \in DOMAIN url /\ "path" \in DOMAIN url /\ "query" \in DOMAIN url
    BY DEF Urls
  <2> QED
    BY <2>1, <2>2 DEF lowered
<1>2. a.host = b.host /\ ToLowerCase(a.path) = ToLowerCase(b.path) /\ Params(a) = Params(b)
  <2> HIDE DEF Params
  <2> QED
    BY <1>1
<1>3. SameWords(a.query, b.query)
  <2>1. a.query \in Seq(Texts \X Texts) /\ b.query \in Seq(Texts \X Texts)
    BY DEF Urls
  <2>2. DOMAIN b.query = DOMAIN a.query
    BY <1>2
  <2>3. ASSUME NEW i \in DOMAIN a.query
        PROVE  /\ ToLowerCase(b.query[i][1]) = ToLowerCase(a.query[i][1])
               /\ ToLowerCase(b.query[i][2]) = ToLowerCase(a.query[i][2])
    <3>1. /\ Params(a)[i] = <<ToLowerCase(a.query[i][1]), ToLowerCase(a.query[i][2])>>
          /\ Params(b)[i] = <<ToLowerCase(b.query[i][1]), ToLowerCase(b.query[i][2])>>
      BY <2>2
    <3> HIDE DEF Params
    <3> QED
      BY <1>2, <3>1
  <2> QED
    BY <2>1, <2>2, <2>3 DEF SameWords
<1>4. ToLowerCase(nameOf(b)) = ToLowerCase(nameOf(a))
  <2>1. CASE a.host = "resolve"
    <3>1. PICK name : name = "domain"
      OBVIOUS
    <3>2. /\ \A i \in DOMAIN a.query : a.query[i][1] # [word |-> name, upper |-> TRUE]
          /\ \A i \in DOMAIN a.query : b.query[i][1] # [word |-> name, upper |-> TRUE]
      BY <1>2, <1>3, <2>1, <3>1 DEF SameWords
    <3>3. ToLowerCase(get(b.query, name)) = ToLowerCase(get(a.query, name))
      BY <1>3, <3>2, SameName
    <3> QED
      BY <1>2, <2>1, <3>1, <3>3
  <2>2. CASE a.host # "resolve"
    BY <1>2, <2>2
  <2> QED
    BY <2>1, <2>2
<1>5. \A url \in Urls : nameOf(url) \in Texts \cup {NullText}
  <2> TAKE url \in Urls
  <2>1. url.path \in Texts /\ url.query \in Seq(Texts \X Texts)
    BY DEF Urls
  <2>2. get(url.query, "domain") \in Texts \cup {NullText}
    BY <2>1, FirstAt DEF get
  <2> QED
    BY <2>1, <2>2
<1>6. \A text \in Texts \cup {NullText} : ToLowerCase(text).word = text.word
  BY LoweredText
<1>7. nameOf(b).word = nameOf(a).word
  <2> HIDE DEF nameOf
  <2> QED
    BY <1>4, <1>5, <1>6
<1> QED
  BY <1>4, <1>7 DEF plainHandle

(* One key, one scan: inputs whose hashes agree fetch or resolve the same.      *)
LEMMA KeyKeepsTarget ==
    ASSUME NEW a \in Inputs, NEW b \in Inputs, ~SharesKey(a), ~SharesKey(b),
           canonicalInputHash(a) = canonicalInputHash(b)
    PROVE  SameScan(a, b)
<1>1. a.kind = b.kind /\ canonicalKey(a) = canonicalKey(b)
  BY DEF canonicalInputHash
<1>2. CASE a.kind = "telegram_url"
  <2>1. a.url \in Urls /\ b.url \in Urls /\ a.handle = plainHandle(a.url) /\ b.handle = plainHandle(b.url)
    BY <1>1, <1>2, ScanServiceAssumption
  <2>2. LowerCaseUrl(a.url) = LowerCaseUrl(b.url)
    BY <1>1, <1>2 DEF canonicalKey
  <2>3. plainHandle(a.url) = plainHandle(b.url)
    BY <1>1, <1>2, <2>1, <2>2, SameAccount DEF SharesKey, CapitalDomain
  <2> QED
    BY <1>1, <1>2, <2>1, <2>3 DEF SameScan, ScanTarget
<1>3. CASE a.kind = "telegram_deeplink"
  <2>1. /\ a.target = b.target /\ a.action = b.action /\ a.payload = b.payload
        /\ ToSet(a.extras) = ToSet(b.extras)
    BY <1>1, <1>3 DEF canonicalKey, canonicalizeUnknown
  <2>2. RightsPayload(a) = RightsPayload(b)
    BY <2>1 DEF RightsPayload
  <2>3. a.hasTarget = b.hasTarget
    <3>1. /\ a.hasTarget \in BOOLEAN /\ (~a.hasTarget => a.target = NullText)
          /\ b.hasTarget \in BOOLEAN /\ (~b.hasTarget => b.target = NullText)
      BY <1>1, <1>3, ScanServiceAssumption
    <3>2. ~(a.hasTarget /\ a.target = NullText) /\ ~(b.hasTarget /\ b.target = NullText)
      BY <1>1, <1>3 DEF SharesKey, EmptyBot
    <3> QED
      BY <2>1, <3>1, <3>2
  <2> QED
    BY <1>1, <1>3, <2>1, <2>2, <2>3 DEF SameScan, ScanTarget
<1>4. CASE a.kind = "telegram_handle"
  BY <1>1, <1>4, ScanServiceAssumption DEF canonicalKey, SameScan, ScanTarget
<1>5. CASE a.kind = "telegram_nft_link"
  BY <1>1, <1>5 DEF canonicalKey, SameScan, ScanTarget
<1>6. CASE a.kind \in {"tonconnect_link", "manifest_url", "generic_url"}
  BY <1>1, <1>6 DEF canonicalKey, SameScan, ScanTarget
<1>7. CASE a.kind \in EmulatedKinds
  BY <1>1, <1>7 DEF canonicalKey, canonicalizeUnknown, SameScan, ScanTarget, EmulatedKinds
<1>8. CASE a.kind \in {"ton_address", "unknown"}
  BY <1>1, <1>8 DEF SameScan, ScanTarget
<1>9. a.kind \in Kinds /\ a.kind # "telegram_miniapp_url"
  BY ScanServiceAssumption
<1> QED
  BY <1>1, <1>2, <1>3, <1>4, <1>5, <1>6, <1>7, <1>8, <1>9
     DEF Kinds, TelegramShaped, TelegramEntityKinds, PageKinds

(* No user is answered with a report about something else: whatever a request   *)
(* is served from the store is a scan of the page, handle, message list or slug *)
(* of its own input (canonical-hash.ts, "expected to produce the same scan      *)
(* report") - unless one of the two is a tg://resolve link that writes the name  *)
(* of its parameter in capitals, or a tg://addBusinessBot with an empty bot.   *)
THEOREM RepliesFit == Spec => []ReplyFitsInput
<1>1. IInv => ReplyFitsInput
  <2> SUFFICES ASSUME IInv, NEW r \in Answered, ~SharesKey(reply[r].input), ~SharesKey(input[r])
               PROVE  SameScan(reply[r].input, input[r])
    BY DEF ReplyFitsInput
  <2>1. CASE Cacheable(r)
    <3>1. /\ reply[r] \in reports /\ WellFormed(reply[r])
          /\ reply[r].hash = canonicalInputHash(input[r])
      BY <2>1 DEF IInv, AnsweredFromStore, Stored, RowsAreCacheable
    <3>2. reply[r].input \in Inputs /\ input[r] \in Inputs
      BY <3>1 DEF IInv, TypeOK, Reports, Answered
    <3> QED
      BY <3>1, <3>2, KeyKeepsTarget DEF WellFormed
  <2>2. CASE ~Cacheable(r)
    BY <2>2 DEF IInv, AnsweredFresh, OwnScan, SameScan
  <2> QED
    BY <2>1, <2>2
<1> QED
  BY <1>1, Invariance, PTL
-----------------------------------------------------------------------------
(* The two-statement save implements the atomic one.                          *)
wantedBar == [r \in Requests |-> IF pc[r] = "idle" THEN Null ELSE canonicalInputHash(input[r])]
answerBar == [r \in Requests |-> IF pc[r] = "done" /\ Cacheable(r) THEN reply[r] ELSE Null]

(* What every step but Receive leaves alone, in the abstract state.           *)
Untouched == UNCHANGED wantedBar

LEMMA AnswerIsServed ==
    ASSUME IInv, NEW r \in Requests, pc[r] \in Running, Cacheable(r), NEW row, Answer(r, row),
           UNCHANGED <<input, deps>>
    PROVE  /\ Untouched
           /\ answerBar[r] = Null
           /\ answerBar' = [answerBar EXCEPT ![r] = row]
           /\ wantedBar[r] = canonicalInputHash(input[r])
  BY DEF IInv, TypeOK, Answer, Goto, Untouched, wantedBar, answerBar, Cacheable, Running

LEMMA QuietStep ==
    ASSUME IInv, UNCHANGED <<input, deps>>,
           \A r \in Requests :
              \/ pc'[r] = pc[r] /\ reply'[r] = reply[r]
              \/ pc[r] \in Running /\ pc'[r] # "idle" /\ (pc'[r] = "done" => ~Cacheable(r))
    PROVE  UNCHANGED <<wantedBar, answerBar>>
  BY DEF wantedBar, answerBar, Cacheable, Running

LEMMA StepSimulation == IInv /\ [Next]_vars => [Registry!Next]_(Registry!vars)
<1> SUFFICES ASSUME IInv, [Next]_vars PROVE [Registry!Next]_(Registry!vars)
  OBVIOUS
<1> DEFINE Done == Registry!Next \/ UNCHANGED <<reports, wantedBar, answerBar>>
<1>0. Done => [Registry!Next]_(Registry!vars)
  BY DEF Registry!vars, wantedBar, answerBar, Cacheable
<1>1. CASE UNCHANGED vars
  BY <1>0, <1>1 DEF vars, wantedBar, answerBar, Cacheable
<1>2. ASSUME NEW r \in Requests, Receive(r) PROVE Done
  <2>1. wantedBar[r] = Null /\ wantedBar' = [wantedBar EXCEPT ![r] = wantedBar'[r]]
    BY <1>2 DEF Receive, Goto, wantedBar, IInv, TypeOK
  <2>2. UNCHANGED answerBar
    BY <1>2 DEF Receive, Goto, answerBar, Cacheable, IInv, TypeOK
  <2>3. Registry!Ask(r)
    BY <1>2, <2>1, <2>2 DEF Receive, Registry!Ask, wantedBar, answerBar, Cacheable
  <2> QED
    BY <2>3 DEF Registry!Next
<1>3. ASSUME NEW r \in Requests, findByInputHash(r) PROVE Done
  <2>1. CASE Goto(r, "scan") /\ Stored(r) = {}
    <3>1. \A q \in Requests : pc'[q] = pc[q] \/ (pc[q] \in Running /\ pc'[q] = "scan")
      BY <1>3, <2>1 DEF findByInputHash, Goto, Running, IInv, TypeOK
    <3>2. UNCHANGED <<input, deps, reports, reply>>
      BY <1>3, <2>1 DEF findByInputHash
    <3> QED
      BY <3>1, <3>2, QuietStep
  <2>2. CASE \E row \in Stored(r) : Answer(r, row)
    <3>1. PICK row \in Stored(r) : Answer(r, row)
      BY <2>2
    <3>2. Cacheable(r) /\ pc[r] \in Running /\ UNCHANGED <<input, deps, reports>>
      BY <1>3 DEF findByInputHash, IInv, StoreRoute, Running
    <3>3. Registry!Serve(r)
      BY <3>1, <3>2, AnswerIsServed DEF Registry!Serve, Stored, Untouched, wantedBar, answerBar,
                                        Cacheable
    <3> QED
      BY <3>3 DEF Registry!Next
  <2> QED
    BY <1>3, <2>1, <2>2 DEF findByInputHash
<1>4. ASSUME NEW r \in Requests, createBasicScan(r) PROVE Done
  <2>1. \A q \in Requests : \/ pc'[q] = pc[q] /\ reply'[q] = reply[q]
                            \/ pc[q] \in Running /\ pc'[q] # "idle" /\ (pc'[q] = "done" => ~Cacheable(q))
    BY <1>4 DEF createBasicScan, Goto, Answer, Running, IInv, TypeOK
  <2> QED
    BY <1>4, <2>1, QuietStep DEF createBasicScan
<1>5. ASSUME NEW r \in Requests, InsertReport(r) PROVE Done
  <2>1. CASE Stored(r) = {}
    <3>1. /\ Cacheable(r) /\ pc[r] \in Running /\ UNCHANGED <<input, deps>>
          /\ reports' = reports \cup {fresh[r]} /\ Answer(r, fresh[r])
      BY <1>5, <2>1 DEF InsertReport, IInv, StoreRoute, Running
    <3>2. fresh[r].hash = canonicalInputHash(input[r])
      BY <1>5, <2>1, <3>1, InsertKeepsRows DEF InsertReport
    <3>3. Registry!File(fresh[r])
      BY <2>1, <3>1, <3>2 DEF Registry!File, Registry!Filed, Stored
    <3>4. Registry!Save(r)
      BY <3>1, <3>2, <3>3, AnswerIsServed
         DEF Registry!Save, Untouched, wantedBar, answerBar, Cacheable
    <3> QED
      BY <3>4 DEF Registry!Next
  <2>2. CASE Stored(r) # {}
    <3>1. \A q \in Requests : \/ pc'[q] = pc[q] /\ reply'[q] = reply[q]
                              \/ pc[q] \in Running /\ pc'[q] = "reselect"
      BY <1>5, <2>2 DEF InsertReport, Goto, Running, IInv, TypeOK
    <3> QED
      BY <1>5, <2>2, <3>1, QuietStep DEF InsertReport
  <2> QED
    BY <2>1, <2>2
<1>6. ASSUME NEW r \in Requests, SelectExisting(r) PROVE Done
  <2>1. PICK row \in Stored(r) : Answer(r, row)
    BY <1>6 DEF SelectExisting, IInv, ReselectFinds
  <2>2. Cacheable(r) /\ pc[r] \in Running /\ UNCHANGED <<input, deps, reports>>
    BY <1>6 DEF SelectExisting, IInv, StoreRoute, Running
  <2>3. Registry!Serve(r)
    BY <2>1, <2>2, AnswerIsServed DEF Registry!Serve, Stored, Untouched, wantedBar, answerBar,
                                      Cacheable
  <2> QED
    BY <2>3 DEF Registry!Next
<1>7. ASSUME NEW r \in Requests, AwaitRejected(r) PROVE Done
  <2>1. \A q \in Requests : \/ pc'[q] = pc[q] /\ reply'[q] = reply[q]
                            \/ pc[q] \in Running /\ pc'[q] = "error"
    BY <1>7 DEF AwaitRejected, Goto, Running, IInv, TypeOK
  <2> QED
    BY <1>7, <2>1, QuietStep DEF AwaitRejected
<1>8. ASSUME NEW r \in Requests, InsertUnacknowledged(r) PROVE Done
  <2>1. \A q \in Requests : \/ pc'[q] = pc[q] /\ reply'[q] = reply[q]
                            \/ pc[q] \in Running /\ pc'[q] = "error"
    BY <1>8 DEF InsertUnacknowledged, Goto, Running, IInv, TypeOK
  <2>2. UNCHANGED <<wantedBar, answerBar>>
    BY <1>8, <2>1, QuietStep DEF InsertUnacknowledged
  <2>3. Registry!File(fresh[r]) /\ fresh[r] \in reports'
    BY <1>8, InsertKeepsRows DEF InsertUnacknowledged, Registry!File, Registry!Filed, Stored
  <2>4. Registry!SaveUnacknowledged
    BY <2>2, <2>3 DEF Registry!SaveUnacknowledged, wantedBar, answerBar, Cacheable
  <2> QED
    BY <2>4 DEF Registry!Next
<1>9. ASSUME NEW p \in Processes, Restart(p) PROVE Done
  <2>1. \A q \in Requests : \/ pc'[q] = pc[q] /\ reply'[q] = reply[q]
                            \/ pc[q] \in Running /\ pc'[q] = "lost"
    BY <1>9 DEF Restart
  <2> QED
    BY <1>9, <2>1, QuietStep DEF Restart
<1> QED
  BY <1>0, <1>1, <1>2, <1>3, <1>4, <1>5, <1>6, <1>7, <1>8, <1>9 DEF Next, Step

(* report-store.ts: insert-or-noop followed by a select promises its callers   *)
(* what the in-memory store's single get-or-insert promises.                 *)
THEOREM SaveIsAtomic == Spec => StoreIsAtomic
<1>1. Init => Registry!Init
  BY DEF Init, Registry!Init
<1> QED
  BY <1>1, StepSimulation, Invariance, PTL DEF Spec, StoreIsAtomic, Registry!Spec
=============================================================================
