----------------------------- MODULE ScanService -----------------------------
(***************************************************************************)
(* The scan request as the API route and the bot's message handler run it:  *)
(* classify, look the report up by input hash, scan, save, answer.  Several *)
(* processes share one reports table and are redeployed independently, each *)
(* with its own set of configured intelligence providers.                  *)
(*                                                                         *)
(* Every await of the handler is a step of its own; between two of them any *)
(* other request, at any process, may take its steps.  A report's id is the *)
(* request that produced it (createBasicScan draws a random UUID).  What a  *)
(* provider or a web page answers is chosen anew at every scan: the world   *)
(* changes, and each process has a fetch cache of its own.                 *)
(***************************************************************************)
EXTENDS CanonicalHash

CONSTANTS Processes,   \* the API and bot processes
          Bots,        \* those that are bots: they take one update at a time
          Requests,    \* HTTP requests and Telegram messages
          Inputs,      \* the classified inputs a user may send
          NoHandles,   \* the paths that name nobody: reserved prefixes and no usernames
          Configs,     \* the sets of providers a deployment may configure
          Statuses,    \* what a provider or a page may answer
          Null         \* no report

Providers == {"emulator", "telegram", "mtproto", "fragment"}

AllStatuses == {"clean", "risky", "missing", "down"}

Urls == [host : STRING, path : Texts, query : Seq(Texts \X Texts)]

(* The account a link without an action names (parseTelegramUrl), in the path   *)
(* or, of tg://resolve, in the parameter "domain"; null when there is none.     *)
plainHandle(url) ==
    LET name == IF url.host = "resolve" THEN get(url.query, "domain") ELSE url.path
    IN  IF name.word \in NoHandles THEN NullText ELSE ToLowerCase(name)

(* The inputs are what classifyInput makes: no Mini App URL, handles in lower   *)
(* case, and the handle of a link the one it names.  A deep link says whether it *)
(* has a target, for a null one and an empty one have the same text.         *)
ASSUME ScanServiceAssumption ==
    /\ Bots \subseteq Processes
    /\ Configs \subseteq SUBSET Providers
    /\ Statuses \subseteq AllStatuses
    /\ "" \in NoHandles
    /\ \A in \in Inputs :
          /\ in.kind \in Kinds \ {"telegram_miniapp_url"}
          /\ in.kind = "telegram_handle" => in.handle = ToLowerCase(in.handle)
          /\ in.kind = "telegram_url" => in.url \in Urls /\ in.handle = plainHandle(in.url)
          /\ in.kind = "telegram_deeplink" =>
                in.hasTarget \in BOOLEAN /\ (~in.hasTarget => in.target = NullText)

VARIABLES config,   \* providers configured in each running process
          reports,  \* the reports table
          pc,       \* where each request is
          at,       \* the process it was sent to
          input,    \* its classified input
          deps,     \* the providers of the process when it was received
          fresh,    \* the report createBasicScan returned
          reply     \* the report the user was answered with

vars == <<config, reports, pc, at, input, deps, fresh, reply>>

Running == {"lookup", "scan", "insert", "reselect"}

Ended == {"done", "error", "lost", "vanished"}

-----------------------------------------------------------------------------
(* Mutant: Fragment is forgotten, as it was before it had a client. *)
CacheableDespiteFragment(in, enabled) ==
    /\ in.kind \in EmulatedKinds => "emulator" \notin enabled
    /\ in.kind \in TelegramShaped => enabled \cap {"telegram", "mtproto"} = {}

(* The read and write sides' shared decision. *)
isScanResultCacheable(in, enabled) ==
    /\ in.kind \in EmulatedKinds => "emulator" \notin enabled
    /\ in.kind \in TelegramShaped => enabled \cap {"telegram", "mtproto", "fragment"} = {}

(* Does the input name a handle that can be resolved (telegramScanInputFor)? *)
HasTarget(in) ==
    CASE in.kind = "telegram_handle" -> TRUE
      [] in.kind = "telegram_url" -> in.handle # NullText
      [] in.kind = "telegram_deeplink" -> in.hasTarget
      [] OTHER -> FALSE

(* The rights a business-bot link asks for (extractRightsPayload). *)
RightsPayload(in) ==
    IF in.action = "addBusinessBot" THEN {in.payload}
    ELSE {extra[2] : extra \in {e \in ToSet(in.extras) : in.action = "startbusiness" /\ e[1] = "rights"}}

(* What is fetched or resolved; inputs with the same target get the same scan. *)
ScanTarget(in) ==
    CASE in.kind = "telegram_handle" -> in.handle
      [] in.kind = "telegram_url" -> ToLowerCase(in.handle)
      [] in.kind = "telegram_deeplink" -> <<in.hasTarget, ToLowerCase(in.target), RightsPayload(in)>>
      [] in.kind = "telegram_nft_link" -> ToLowerCase(in.slug)
      [] in.kind = "tonconnect_link" -> in.manifestUrl
      [] in.kind \in {"manifest_url", "generic_url", "telegram_miniapp_url"} -> in.url
      [] in.kind = "boc" -> in.boc
      [] in.kind = "transaction_json" -> ToSet(in.transaction)
      [] OTHER -> NullText

(* scanBusinessDeeplink: pure, it needs no provider. *)
BusinessFindings(in) ==
    CASE in.kind = "telegram_deeplink" /\ "dangerous" \in RightsPayload(in) ->
           {"TELEGRAM_BUSINESS_DEEPLINK_DANGEROUS_RIGHTS"}
      [] in.kind = "telegram_deeplink" /\ "broad" \in RightsPayload(in) ->
           {"TELEGRAM_BUSINESS_DEEPLINK_BROAD_RIGHTS"}
      [] OTHER -> {}

(* The answers one scan collects from outside the process: from each source  *)
(* it may turn to, any; from the others none ("clean" stands for that).      *)
Asked(used) == IF used THEN Statuses ELSE {"clean"}

Observations(in, enabled) ==
    LET resolves == in.kind \in TelegramEntityKinds /\ HasTarget(in)
    IN  [page : Asked(in.kind \in PageKinds),
         emulator : Asked(in.kind \in EmulatedKinds /\ "emulator" \in enabled),
         telegram : Asked(resolves /\ "telegram" \in enabled),
         mtproto : Asked(resolves /\ "mtproto" \in enabled),
         fragment : Asked(resolves /\ "fragment" \in enabled)]

PageFindings(kind, page) ==
    CASE kind \in {"tonconnect_link", "manifest_url"} /\ page = "down" ->
           {"TONCONNECT_MANIFEST_FETCH_FAILED"}
      [] kind \in {"tonconnect_link", "manifest_url"} /\ page # "clean" ->
           {"TONCONNECT_MANIFEST_INVALID"}
      [] kind = "telegram_nft_link" /\ page # "clean" -> {"TELEGRAM_GIFT_LINK_NOT_VERIFIED"}
      [] kind \in {"generic_url", "telegram_miniapp_url"} /\ page = "risky" ->
           {"TELEGRAM_MINIAPP_CREDENTIAL_PHISHING"}
      [] OTHER -> {}

EmulationFindings(enabled, emulator) ==
    CASE "emulator" \notin enabled -> {"EMULATION_NOT_CONFIGURED"}
      [] "emulator" \in enabled /\ emulator = "down" -> {"EMULATION_PROVIDER_DOWN"}
      [] "emulator" \in enabled /\ emulator = "risky" -> {"EMULATION_SCAM_PATTERN_DETECTED"}
      [] OTHER -> {}

FragmentFindings(enabled, fragment) ==
    CASE "fragment" \notin enabled -> {"TELEGRAM_FRAGMENT_API_NOT_CONFIGURED"}
      [] "fragment" \in enabled /\ fragment = "down" -> {"TELEGRAM_FRAGMENT_API_UNAVAILABLE"}
      [] "fragment" \in enabled /\ fragment = "risky" -> {"TELEGRAM_USERNAME_FRAGMENT_HANDOFF"}
      [] OTHER -> {}

(* Findings about a resolved entity: a changed username among them. *)
EntityFindings(status) == IF status = "risky" THEN {"TELEGRAM_USERNAME_RECENTLY_CHANGED"} ELSE {}

(* The MTProto fallback, and what is reported when it does not resolve: an    *)
(* unavailable MTProto adds a health finding to the primary resolver's.       *)
MtprotoFindings(enabled, mtproto, unresolved) ==
    CASE "mtproto" \in enabled /\ mtproto \in {"clean", "risky"} -> EntityFindings(mtproto)
      [] "mtproto" \in enabled /\ mtproto = "down" ->
           {"TELEGRAM_MTPROTO_LOOKUP_UNAVAILABLE", unresolved}
      [] OTHER -> {unresolved}

(* scanTelegramEntity. *)
TelegramFindings(in, enabled, seen) ==
    CASE enabled \cap {"telegram", "mtproto"} = {} -> {"TELEGRAM_BOT_API_NOT_CONFIGURED"}
      [] enabled \cap {"telegram", "mtproto"} # {} /\ in.kind = "telegram_deeplink" ->
           MtprotoFindings(enabled, seen.mtproto, "TELEGRAM_ENTITY_NOT_RESOLVABLE")
      [] "telegram" \in enabled /\ in.kind # "telegram_deeplink" ->
           CASE seen.telegram = "down" -> {"TELEGRAM_BOT_API_PROVIDER_DOWN"}
             [] seen.telegram = "missing" ->
                  MtprotoFindings(enabled, seen.mtproto, "TELEGRAM_ENTITY_NOT_RESOLVABLE")
             [] OTHER -> EntityFindings(seen.telegram)
      [] OTHER -> MtprotoFindings(enabled, seen.mtproto, "TELEGRAM_BOT_API_NOT_CONFIGURED")

(* gatherScanResult. *)
GatherFindings(in, enabled, seen) ==
    CASE in.kind = "unknown" -> {"INPUT_UNKNOWN"}
      [] in.kind \in PageKinds -> PageFindings(in.kind, seen.page)
      [] in.kind = "transaction_json" /\ in.malformed -> {"TRANSACTION_MALFORMED_MESSAGE"}
      [] in.kind = "transaction_json" /\ ~in.malformed -> EmulationFindings(enabled, seen.emulator)
      [] in.kind = "boc" -> EmulationFindings(enabled, seen.emulator)
      [] in.kind \in TelegramEntityKinds /\ ~HasTarget(in) ->
           IF BusinessFindings(in) # {} THEN BusinessFindings(in)
           ELSE {"TELEGRAM_INPUT_RECOGNISED_NOT_SCANNED"}
      [] in.kind \in TelegramEntityKinds /\ HasTarget(in) ->
           BusinessFindings(in) \cup TelegramFindings(in, enabled, seen)
              \cup FragmentFindings(enabled, seen.fragment)
      [] OTHER -> {}

(* createBasicScan, and the row it makes; hash is the table's unique column.  *)
(* seen is kept beside the findings so that properties can refer to it.      *)
Report(r, seen) ==
    [id |-> r, hash |-> canonicalInputHash(input[r]), input |-> input[r], enabled |-> deps[r],
     seen |-> seen, findings |-> GatherFindings(input[r], deps[r], seen)]

-----------------------------------------------------------------------------
Init ==
    /\ config \in [Processes -> Configs]
    /\ reports = {}
    /\ pc = [r \in Requests |-> "idle"]
    /\ at \in [Requests -> Processes]
    /\ input \in [Requests -> Inputs]
    /\ deps = [r \in Requests |-> {}]
    /\ fresh = [r \in Requests |-> Null]
    /\ reply = [r \in Requests |-> Null]

Cacheable(r) == isScanResultCacheable(input[r], deps[r])

Goto(r, label) == pc' = [pc EXCEPT ![r] = label]

Answer(r, report) == Goto(r, "done") /\ reply' = [reply EXCEPT ![r] = report]

Stored(r) == {row \in reports : row.hash = canonicalInputHash(input[r])}

(* The handler starts: classify, hash, decide whether the report cache takes  *)
(* part.  A bot awaits the handler of one update before it takes the next.    *)
Receive(r) ==
    /\ pc[r] = "idle"
    /\ at[r] \in Bots => \A other \in Requests : at[other] = at[r] => pc[other] \notin Running
    /\ deps' = [deps EXCEPT ![r] = config[at[r]]]
    /\ Goto(r, IF isScanResultCacheable(input[r], config[at[r]]) THEN "lookup" ELSE "scan")
    /\ UNCHANGED <<config, reports, at, input, fresh, reply>>

(* Mutant: a miss saves before it has scanned. *)
SaveOnMiss(r) ==
    /\ pc[r] = "lookup"
    /\ \/ /\ Stored(r) = {}
          /\ Goto(r, "insert")
          /\ UNCHANGED reply
       \/ \E row \in Stored(r) : Answer(r, row)
    /\ UNCHANGED <<config, reports, at, input, deps, fresh>>

findByInputHash(r) ==
    /\ pc[r] = "lookup"
    /\ \/ /\ Stored(r) = {}
          /\ Goto(r, "scan")
          /\ UNCHANGED reply
       \/ \E row \in Stored(r) : Answer(r, row)
    /\ UNCHANGED <<config, reports, at, input, deps, fresh>>

(* Mutant: save is called whether or not the result is cacheable. *)
ScanAndAlwaysSave(r) ==
    /\ pc[r] = "scan"
    /\ \E seen \in Observations(input[r], deps[r]) : fresh' = [fresh EXCEPT ![r] = Report(r, seen)]
    /\ Goto(r, "insert")
    /\ UNCHANGED <<config, reports, at, input, deps, reply>>

createBasicScan(r) ==
    /\ pc[r] = "scan"
    /\ \E seen \in Observations(input[r], deps[r]) :
          /\ fresh' = [fresh EXCEPT ![r] = Report(r, seen)]
          /\ \/ /\ Cacheable(r)
                /\ Goto(r, "insert")
                /\ UNCHANGED reply
             \/ /\ ~Cacheable(r)
                /\ Answer(r, fresh'[r])
    /\ UNCHANGED <<config, reports, at, input, deps>>

(* Mutants of save.  The unique constraint is missing: every insert succeeds. *)
InsertWithoutConflict(r) ==
    /\ pc[r] = "insert"
    /\ reports' = reports \cup {fresh[r]}
    /\ Answer(r, fresh[r])
    /\ UNCHANGED <<config, at, input, deps, fresh>>

(* On conflict the caller gets its own report back. *)
AnswerFreshOnConflict(r) ==
    /\ pc[r] = "reselect"
    /\ Answer(r, fresh[r])
    /\ UNCHANGED <<config, reports, at, input, deps, fresh>>

(* A conflict is retried instead of read. *)
RetryInsert(r) ==
    /\ pc[r] = "reselect"
    /\ Goto(r, "insert")
    /\ UNCHANGED <<config, reports, at, input, deps, fresh, reply>>

(* save, first statement: INSERT ... ON CONFLICT (input_hash) DO NOTHING      *)
(* RETURNING.                                                                *)
InsertReport(r) ==
    /\ pc[r] = "insert"
    /\ \/ /\ Stored(r) = {}
          /\ reports' = reports \cup {fresh[r]}
          /\ Answer(r, fresh[r])
       \/ /\ Stored(r) # {}
          /\ Goto(r, "reselect")
          /\ UNCHANGED <<reports, reply>>
    /\ UNCHANGED <<config, at, input, deps, fresh>>

(* save, second statement: SELECT the row the insert conflicted with; save    *)
(* throws when there is none.                                                *)
SelectExisting(r) ==
    /\ pc[r] = "reselect"
    /\ IF Stored(r) = {}
       THEN Goto(r, "vanished") /\ UNCHANGED reply
       ELSE \E row \in Stored(r) : Answer(r, row)
    /\ UNCHANGED <<config, reports, at, input, deps, fresh>>

(* Any await of the handler may reject; nothing has been written then, and    *)
(* the error goes to Hono's or grammY's error handler.                       *)
AwaitRejected(r) ==
    /\ pc[r] \in Running
    /\ Goto(r, "error")
    /\ UNCHANGED <<config, reports, at, input, deps, fresh, reply>>

(* The insert commits and the connection fails before the process learns it.  *)
InsertUnacknowledged(r) ==
    /\ pc[r] = "insert"
    /\ Stored(r) = {}
    /\ reports' = reports \cup {fresh[r]}
    /\ Goto(r, "error")
    /\ UNCHANGED <<config, at, input, deps, fresh, reply>>

(* A process is redeployed, or crashes and is restarted, with whatever        *)
(* configuration its environment then has.  Neither shutdown waits for the    *)
(* handlers that are running.                                                *)
Restart(p) ==
    /\ \E enabled \in Configs : config' = [config EXCEPT ![p] = enabled]
    /\ pc' = [r \in Requests |-> IF at[r] = p /\ pc[r] \in Running THEN "lost" ELSE pc[r]]
    /\ UNCHANGED <<reports, at, input, deps, fresh, reply>>

Step(r) ==
    \/ findByInputHash(r)
    \/ createBasicScan(r)
    \/ InsertReport(r)
    \/ SelectExisting(r)

Next ==
    \/ \E r \in Requests : Receive(r) \/ Step(r) \/ AwaitRejected(r) \/ InsertUnacknowledged(r)
    \/ \E p \in Processes : Restart(p)

(* The event loop runs every handler on, and each await settles: the HTTP and  *)
(* RPC clients have timeouts.  Nothing makes a request fail or a process       *)
(* restart.                                                                  *)
Fairness == \A r \in Requests : WF_vars(Receive(r)) /\ WF_vars(Step(r))

Spec == Init /\ [][Next]_vars /\ Fairness

-----------------------------------------------------------------------------
Rules ==
    {"INPUT_UNKNOWN", "TONCONNECT_MANIFEST_FETCH_FAILED", "TONCONNECT_MANIFEST_INVALID",
     "TRANSACTION_MALFORMED_MESSAGE", "EMULATION_NOT_CONFIGURED", "EMULATION_PROVIDER_DOWN",
     "EMULATION_SCAM_PATTERN_DETECTED", "TELEGRAM_GIFT_LINK_NOT_VERIFIED",
     "TELEGRAM_MINIAPP_CREDENTIAL_PHISHING", "TELEGRAM_INPUT_RECOGNISED_NOT_SCANNED",
     "TELEGRAM_BUSINESS_DEEPLINK_DANGEROUS_RIGHTS", "TELEGRAM_BUSINESS_DEEPLINK_BROAD_RIGHTS",
     "TELEGRAM_BOT_API_NOT_CONFIGURED", "TELEGRAM_BOT_API_PROVIDER_DOWN",
     "TELEGRAM_ENTITY_NOT_RESOLVABLE", "TELEGRAM_MTPROTO_LOOKUP_UNAVAILABLE",
     "TELEGRAM_USERNAME_RECENTLY_CHANGED", "TELEGRAM_FRAGMENT_API_NOT_CONFIGURED",
     "TELEGRAM_FRAGMENT_API_UNAVAILABLE", "TELEGRAM_USERNAME_FRAGMENT_HANDOFF"}

Reports == [id : Requests, hash : {canonicalInputHash(in) : in \in Inputs}, input : Inputs,
            enabled : Configs,
            seen : [page : AllStatuses, emulator : AllStatuses, telegram : AllStatuses,
                    mtproto : AllStatuses, fragment : AllStatuses],
            findings : SUBSET Rules]

(* Every variable keeps its type; in particular only complete reports, each    *)
(* for an input some user sent, are ever written or answered.                *)
TypeOK ==
    /\ config \in [Processes -> Configs]
    /\ reports \subseteq Reports
    /\ pc \in [Requests -> {"idle"} \cup Running \cup Ended]
    /\ at \in [Requests -> Processes]
    /\ input \in [Requests -> Inputs]
    /\ deps \in [Requests -> Configs \cup {{}}]
    /\ fresh \in [Requests -> Reports \cup {Null}]
    /\ reply \in [Requests -> Reports \cup {Null}]

Answered == {r \in Requests : pc[r] = "done"}

(* Two requests with the same input hash whose answers go through the report   *)
(* store are answered with one and the same report, whichever process they     *)
(* were sent to and however their lookups, scans and saves interleave: the     *)
(* interface's "a concurrent double-write of the same scan converges on a      *)
(* single record".                                                           *)
AnswersConverge ==
    \A r, s \in Answered :
        /\ Cacheable(r) /\ Cacheable(s)
        /\ canonicalInputHash(input[r]) = canonicalInputHash(input[s])
        => reply[r] = reply[s]

(* No answer says a provider is not configured when it is configured in the    *)
(* process that answered: the "stuck finding" cacheability.ts describes, which *)
(* would need another process, or an earlier deployment, to have stored it.   *)
NotConfiguredRules ==
    [EMULATION_NOT_CONFIGURED |-> "emulator",
     TELEGRAM_BOT_API_NOT_CONFIGURED |-> "telegram",
     TELEGRAM_FRAGMENT_API_NOT_CONFIGURED |-> "fragment"]

NoStuckNotConfigured ==
    \A r \in Answered : \A rule \in reply[r].findings \cap DOMAIN NotConfiguredRules :
        NotConfiguredRules[rule] \notin deps[r]

(* The name of a parameter is lowered by the key but not by the parser:         *)
(* tg://resolve?Domain=durov names nobody and has the key of ?domain=durov.     *)
CapitalDomain(in) ==
    /\ in.kind = "telegram_url"
    /\ in.url.host = "resolve"
    /\ \E i \in DOMAIN in.url.query : in.url.query[i][1] = [word |-> "domain", upper |-> TRUE]

(* tg://addBusinessBot?bot= has an empty target, which is looked up, and the key *)
(* of tg://addBusinessBot, which has none.                                   *)
EmptyBot(in) == in.kind = "telegram_deeplink" /\ in.hasTarget /\ in.target = NullText

SharesKey(in) == CapitalDomain(in) \/ EmptyBot(in)

SameScan(a, b) == a.kind = b.kind /\ ScanTarget(a) = ScanTarget(b)

(* A report is about what the user sent: its input names the same page, handle, *)
(* message list or slug as the request's own, so that the dedup key never      *)
(* merges two inputs the scanners tell apart - but for two shapes of link.      *)
ReplyFitsInput ==
    \A r \in Answered :
        SharesKey(reply[r].input) \/ SharesKey(input[r]) \/ SameScan(reply[r].input, input[r])

(* The select after a conflicting insert always finds the row.  (The code      *)
(* throws "vanished after conflict" and calls that unreachable.)             *)
NeverVanishes == \A r \in Requests : pc[r] # "vanished"

(* A scan that read live state is never replaced by a stored report: an input  *)
(* scanned with its providers enabled is answered by the request's own scan,   *)
(* and that scan is not written.                                             *)
LiveScansStayOutOfTheCache ==
    /\ \A row \in reports : isScanResultCacheable(row.input, row.enabled)
    /\ \A r \in Answered : ~Cacheable(r) => reply[r].id = r /\ reply[r] \notin reports

(* A report once stored is never rewritten or removed, and an answer once      *)
(* given is final.                                                           *)
StoredForever ==
    [][/\ reports \subseteq reports'
       /\ \A r \in Requests : pc[r] \in Ended => UNCHANGED <<pc[r], reply[r]>>]_vars

(* Every request that is sent ends: answered, failed, or lost with its process. *)
EveryRequestEnds == \A r \in Requests : pc[r] = "idle" ~> pc[r] \in Ended

(* A claim that the code does not keep.  telegram/miniapp-scanner.ts: an         *)
(* unreachable page leaves the report clean "and lets the user retry": no       *)
(* request is answered, without a scan of its own, by a report of a scan that   *)
(* could not reach the page.                                                 *)
RetryScansAgain ==
    [][\A r \in Requests :
          pc[r] = "lookup" /\ pc'[r] = "done" => reply'[r].seen.page # "down"]_vars

(* What the report store promises, as its in-memory implementation keeps it.   *)
Registry ==
    INSTANCE ReportRegistry WITH
        Unanswered <- Null,
        registry <- reports,
        wanted <- [r \in Requests |-> IF pc[r] = "idle" THEN Null ELSE canonicalInputHash(input[r])],
        answer <- [r \in Requests |-> IF pc[r] = "done" /\ Cacheable(r) THEN reply[r] ELSE Null]

StoreIsAtomic == Registry!Spec
=============================================================================
