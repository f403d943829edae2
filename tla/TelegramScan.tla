----------------------------- MODULE TelegramScan -----------------------------
(***************************************************************************)
(* scanTelegramEntity, for several scans of one process that share its       *)
(* MTProto client, its Fragment ownership cache and the entity store.  Every *)
(* await is a step: the Bot API, the store, MTProto, Fragment's two lookups. *)
(*                                                                         *)
(* A handle is a name; how much it and an entity's display fields resemble a *)
(* watched brand is given by constants (HandleSimilarity computes it), and  *)
(* so is the age an entity's id tells (IdAge).  The Bot API and MTProto      *)
(* answer any entity; Fragment answers what the chain says when it is asked. *)
(* Findings are kept as a set of rules with their confidence: mergeResults   *)
(* keeps the most confident of a rule.                                      *)
(***************************************************************************)
EXTENDS MtprotoClient, OwnershipCache

CONSTANTS Names,      \* usernames, canonical
          Profiles,   \* of each name: strength, category, botSuffix, riskProject
          Entities,   \* what Telegram may answer
          Inputs,     \* what is scanned: kind, handle, entity
          Configs,    \* sets of clients a deployment enables
          Minted,     \* the usernames that are Fragment NFTs
          Window,     \* recentWindowMs
          FirmAge,    \* the age up to which a hand-off has high confidence
          Cooldown,   \* snapshotCooldownMs
          Null,       \* no handle, no entity
          MaxTime,    \* bound: the clock
          MaxTransfers \* bound: transfers of each username

ASSUME TelegramScanAssumption ==
    /\ Null \notin Names \cup Entities
    /\ Minted \subseteq Names
    /\ {Window, FirmAge, Cooldown, MaxTime, MaxTransfers} \subseteq Nat
    /\ \A c \in Configs : c \subseteq {"bot", "mtproto", "fragment"}
    /\ \A n \in Names : Profiles[n].riskProject \in {"none", "low", "medium", "high"}
    /\ \A e \in Entities : /\ e.username \in Names \cup {Null}
                          /\ e.veryNew \in {"none", "tight", "moderate", "wide"}
    /\ \A input \in Inputs : /\ input.handle \in Names \cup {Null}
                             /\ input.entity \in Entities \cup {Null}
                             /\ input.kind \in {"forward", "numericId"} => input.entity \in Entities

VARIABLES now,     \* the process's clock
          chain,   \* of each username: transfers so far and the time of the last
          config,  \* the clients enabled
          cache,   \* the ownership cache
          rows,    \* of each entity id: its two newest snapshots, newest first
          scan     \* of each scan: its local variables

scanVars == <<now, chain, config, cache, rows, scan>>

vars == <<mtprotoVars, scanVars>>

Ids == {e.id : e \in Entities}

Identified(id) == {e \in Entities : e.id = id}

Idle == [pc |-> "idle", input |-> Null, started |-> 0, entity |-> Null, source |-> "none", id |-> 0,
         findings |-> {}, todo |-> <<>>, owner |-> 0, judged |-> {}]

-----------------------------------------------------------------------------
(* Findings                                                                 *)

Finding(rule, confidence) == [rule |-> rule, confidence |-> confidence]

Health(rule) == {Finding(rule, "low")}

confidenceRank(c) == CASE c = "low" -> 0 [] c = "medium" -> 1 [] c = "high" -> 2

(* Of the findings of one rule the most confident stays.                      *)
mergeResults(findings) ==
    {f \in findings : \A g \in findings :
        g.rule = f.rule => confidenceRank(g.confidence) <= confidenceRank(f.confidence)}

isFiringStrength(strength) == strength \in {"exact", "near", "similar"}

matchConfidence(strength) == IF strength = "similar" THEN "medium" ELSE "high"

Rules(findings) == {f.rule : f \in findings}

Named(names) == names \ {Null}

(* HANDLE_IMPERSONATES_PROJECT, for a handle pasted or resolved.              *)
checkCandidateHandle(name) ==
    {Finding("TELEGRAM_HANDLE_IMPERSONATES_PROJECT", matchConfidence(Profiles[n].strength)) :
        n \in {m \in Named({name}) : isFiringStrength(Profiles[m].strength)}}

(* The display name or the bio, whichever resembles a brand most.             *)
checkDisplay(e) ==
    IF isFiringStrength(e.display)
    THEN {Finding("TELEGRAM_DISPLAY_NAME_HOMOGLYPH", matchConfidence(e.display))} ELSE {}

checkResolvedEntity(e) == checkCandidateHandle(e.username) \cup checkDisplay(e)

(* A wallet's or validator's name on a bot; the pasted handle goes first.      *)
checkSensitiveBotCategory(names, isBot) ==
    LET suspect(i) ==
            /\ names[i] # Null
            /\ isFiringStrength(Profiles[names[i]].strength)
            /\ Profiles[names[i]].category \in {"wallet", "validator"}
            /\ Profiles[names[i]].botSuffix \/ isBot
        suspects == {i \in DOMAIN names : suspect(i)}
    IN  {Finding(IF Profiles[names[i]].category = "wallet" THEN "TELEGRAM_FAKE_WALLET_BOT"
                 ELSE "TELEGRAM_FAKE_VALIDATOR_BOT", matchConfidence(Profiles[names[i]].strength)) :
           i \in {j \in suspects : \A k \in suspects : j <= k}}

checkKnownRiskProject(name) ==
    {Finding("TELEGRAM_KNOWN_RISK_PROJECT", Profiles[n].riskProject) :
        n \in {m \in Named({name}) : Profiles[m].riskProject # "none"}}

(* What the pasted handle shows before anything is asked.                     *)
InputFindings(input) ==
    checkCandidateHandle(input.handle)
        \cup checkSensitiveBotCategory(<<input.handle>>, FALSE)
        \cup checkKnownRiskProject(input.handle)

(* What an entity shows beside it.                                            *)
ResolvedFindings(input, e) ==
    checkResolvedEntity(e)
        \cup checkSensitiveBotCategory(<<input.handle, e.username>>, e.kind = "bot")
        \cup checkKnownRiskProject(e.username)

TIER_1_PAIR_RULES == {"TELEGRAM_HANDLE_IMPERSONATES_PROJECT", "TELEGRAM_DISPLAY_NAME_HOMOGLYPH",
                      "TELEGRAM_USERNAME_RECENTLY_CHANGED"}

ageConfidence(band) == CASE band = "tight" -> "high" [] band = "moderate" -> "medium"
                         [] band = "wide" -> "low"

(* e.veryNew is the band of an estimate of at most 30 days, or "none".         *)
checkEntityAge(e, findings) ==
    IF /\ e.kind \in {"user", "bot"}
       /\ Rules(findings) \cap TIER_1_PAIR_RULES # {}
       /\ e.veryNew # "none"
    THEN {Finding("TELEGRAM_ENTITY_VERY_NEW", ageConfidence(e.veryNew))} ELSE {}

(* The previous snapshot had another username.                                *)
ChangeFindings(snapshot, previous) ==
    IF previous.username \notin {Null, snapshot.username} /\ snapshot.username # Null
    THEN {Finding("TELEGRAM_USERNAME_RECENTLY_CHANGED", "high")} ELSE {}

NoRow == [username |-> Null, at |-> 0]

-----------------------------------------------------------------------------
(* Steps of one scan, as functions of its record                             *)

Goto(r, pc) == [r EXCEPT !.pc = pc]

Add(r, findings) == [r EXCEPT !.findings = @ \cup findings]

(* The scan returns; that it merges once, and the code in between too, is one.  *)
Return(r) == [r EXCEPT !.pc = "done", !.findings = mergeResults(@)]

(* The scan rejects with the store's error, which nothing catches: no report, and    *)
(* what was found so far is lost.                                             *)
StoreRejects(r) == [r EXCEPT !.pc = "rejected", !.findings = {}]

(* runFragment of the pasted handle and of the entity's username: once each.   *)
RunFragment(r) ==
    LET pasted == IF r.input.handle = Null THEN <<>> ELSE <<r.input.handle>>
        resolved == IF r.entity = Null \/ r.entity.username \in {Null, r.input.handle} THEN <<>>
                    ELSE <<r.entity.username>>
    IN  [r EXCEPT !.pc = "fragment", !.todo = pasted \o resolved]

(* Mutant: the findings of the pasted handle are left out. *)
GiveUpSilently(r, findings) ==
    RunFragment([r EXCEPT !.findings = findings])

(* The scan ends without an entity: say why, and look at the pasted handle.    *)
GiveUp(r, findings) == RunFragment(Add(r, findings))

(* Bot API, MTProto or a forward gave an entity.                              *)
Resolved(r, e, source) == [r EXCEPT !.entity = e, !.source = source]

providerFailure ==
    {"TELEGRAM_BOT_API_RATE_LIMITED", "TELEGRAM_BOT_API_PROVIDER_DOWN", "TELEGRAM_BOT_API_FAILED"}

NotResolvable == Health("TELEGRAM_ENTITY_NOT_RESOLVABLE")

NotConfigured == Health("TELEGRAM_BOT_API_NOT_CONFIGURED")

(* Mutant: without asking which resolver it was. *)
UnresolvedByBotApi(r) ==
    IF r.input.kind = "channelOrSupergroup" /\ "bot" \in config THEN NotResolvable ELSE NotConfigured

(* mapNonOkResolverResult of a handle neither the Bot API nor MTProto knows.   *)
Unresolved(r) ==
    IF r.input.kind = "userOrBot" \/ "bot" \in config THEN NotResolvable ELSE NotConfigured

(* resolveWithMtproto, or its answer when it is disabled.                     *)
AskMtproto(r) == IF "mtproto" \in config THEN Goto(r, "mtproto") ELSE GiveUp(r, Unresolved(r))

(* The branch the input takes, up to the first await.                         *)
Route(r) ==
    CASE r.input.kind = "forward" -> Goto(Resolved(r, r.input.entity, "forward"), "record")
      [] r.input.kind # "forward" /\ config \cap {"bot", "mtproto"} = {} ->
           GiveUp(r, NotConfigured)
      [] r.input.kind = "userOrBot" /\ config \cap {"bot", "mtproto"} # {} -> AskMtproto(r)
      [] r.input.kind = "numericId" /\ config \cap {"bot", "mtproto"} # {} ->
           IF "bot" \in config THEN Goto(r, "getById") ELSE GiveUp(r, NotConfigured)
      [] r.input.kind = "channelOrSupergroup" /\ config \cap {"bot", "mtproto"} # {} ->
           IF "bot" \in config THEN Goto(r, "getChat") ELSE AskMtproto(r)
      [] OTHER -> GiveUp(r, NotResolvable)

(* scanResolvedEntity and the forward path once everything is known; the gifts *)
(* of a channel are looked at only when getChat gave it.                      *)
Finish(r) ==
    LET merged == r.findings \cup ResolvedFindings(r.input, r.entity)
        aged == [r EXCEPT !.findings = merged \cup checkEntityAge(r.entity, merged)]
    IN  IF r.source = "getChat" /\ r.entity.kind \in {"channel", "supergroup"}
        THEN Goto(aged, "gifts") ELSE Return(aged)

(* After Fragment: an entity that was resolved is recorded now, one that was   *)
(* forwarded was recorded before.                                            *)
AfterFragment(r) ==
    IF r.todo # <<>> THEN Goto(r, "fragment")
    ELSE IF r.entity = Null THEN Return(r)
    ELSE IF r.source = "forward" THEN Finish(r)
    ELSE Goto(r, "record")

(* The finding for one candidate, from the answer about its ownership.         *)
HandoffFindings(answer) ==
    CASE answer.status = "not_found" -> {}
      [] answer.status = "failed" -> Health("TELEGRAM_FRAGMENT_API_UNAVAILABLE")
      [] answer.status = "ok" ->
           IF answer.transfer = 0 \/ now - answer.at > Window THEN {}
           ELSE {Finding("TELEGRAM_USERNAME_FRAGMENT_HANDOFF",
                         IF now - answer.at <= FirmAge THEN "high" ELSE "medium")}

(* checkFragmentHandoff with its answer, cached or not.                       *)
Judged(r, answer) ==
    [r EXCEPT !.findings = @ \cup HandoffFindings(answer),
              !.judged = @ \cup {[name |-> Head(r.todo), answer |-> answer, at |-> now]},
              !.todo = Tail(@), !.owner = 0]

Answer(status) == [status |-> status, owner |-> 0, transfer |-> 0, at |-> 0, truncated |-> FALSE]

(* What Fragment's client throws, apart from a 404, is an outage.              *)
Outage == Answer("failed")

(* The youngest transfer of a history that has one.                           *)
findLatestNftTransfer(owner, transfers) ==
    [Answer("ok") EXCEPT !.owner = owner, !.transfer = Len(transfers), !.at = transfers[Len(transfers)]]

-----------------------------------------------------------------------------
Init ==
    /\ MtprotoInit
    /\ now = 0
    /\ chain = [n \in Names |-> <<>>]
    /\ config \in Configs
    /\ cache = <<>>
    /\ rows = [id \in Ids |-> <<>>]
    /\ scan = [s \in Scans |-> Idle]

Tick ==
    /\ now < MaxTime
    /\ now' = now + 1
    /\ UNCHANGED <<mtprotoVars, chain, config, cache, rows, scan>>

(* A username NFT changes hands.                                              *)
Transfer(n) ==
    /\ n \in Minted
    /\ Len(chain[n]) < MaxTransfers
    /\ chain' = [chain EXCEPT ![n] = Append(@, now)]
    /\ UNCHANGED <<mtprotoVars, now, config, cache, rows, scan>>

Become(s, r) ==
    /\ scan' = [scan EXCEPT ![s] = r]
    /\ UNCHANGED <<now, chain, config>>

(* A step of s that waits for pc and leaves client, cache and store alone.     *)
Continue(s, r) == Become(s, r) /\ UNCHANGED <<mtprotoVars, cache, rows>>

Judge(s, answer) == \E r \in {Judged(scan[s], answer)} : Become(s, AfterFragment(r))

Start(s) ==
    /\ scan[s] = Idle
    /\ \E input \in Inputs :
          Continue(s, Route([Idle EXCEPT !.input = input, !.started = now,
                                         !.findings = InputFindings(input)]))

(* resolveChannelOrSupergroup: a group is no answer, "chat not found" neither.  *)
GetChat(s) ==
    /\ scan[s].pc = "getChat"
    /\ \/ \E e \in {x \in Entities : x.kind # "group"} :
             Continue(s, RunFragment(Resolved(scan[s], e, "getChat")))
       \/ Continue(s, Goto(scan[s], "observed"))
       \/ \E rule \in providerFailure : Continue(s, GiveUp(scan[s], Health(rule)))

(* The store may know an entity that last showed the handle, or fail.            *)
FindObserved(s) ==
    /\ scan[s].pc = "observed"
    /\ LET known == {id \in Ids : rows[id] # <<>> /\ rows[id][1].username = scan[s].input.handle}
       IN  \/ (known = {} /\ Continue(s, AskMtproto(scan[s])))
          \/ \E id \in known : Continue(s, [scan[s] EXCEPT !.pc = "getObserved", !.id = id])
          \/ Continue(s, StoreRejects(scan[s]))

(* resolveById of that entity; whatever fails leaves the handle unresolved.    *)
GetObserved(s) ==
    /\ scan[s].pc = "getObserved"
    /\ \/ \E e \in Identified(scan[s].id) :
             Continue(s, RunFragment(Resolved(scan[s], e, "getChat")))
       \/ Continue(s, AskMtproto(scan[s]))

(* resolveById of an id that was given.                                       *)
GetById(s) ==
    /\ scan[s].pc = "getById"
    /\ \/ \E e \in Identified(scan[s].input.entity.id) :
             Continue(s, RunFragment(Resolved(scan[s], e, "getChat")))
       \/ Continue(s, GiveUp(scan[s], NotResolvable))
       \/ \E rule \in providerFailure : Continue(s, GiveUp(scan[s], Health(rule)))

(* resolveUsername, its steps in MtprotoClient.                               *)
Lookup(s) ==
    /\ scan[s].pc = "mtproto"
    /\ GetClient(s)
    /\ Become(s, Goto(scan[s], "lookup"))
    /\ UNCHANGED <<cache, rows>>

SendLookup(s) == Invoke(s) /\ UNCHANGED scanVars

LookedUp(s) ==
    /\ scan[s].pc = "lookup"
    /\ \E status \in Statuses(s) :
          /\ resolveUsername(s, status)
          /\ \/ /\ status = "ok"
                /\ \E e \in Entities : Become(s, RunFragment(Resolved(scan[s], e, "mtproto")))
             \/ /\ status = "not_resolvable"
                /\ Become(s, GiveUp(scan[s], Unresolved(scan[s])))
             \/ /\ status \in {"rate_limited", "failed"}
                /\ Become(s, GiveUp(scan[s], Unresolved(scan[s])
                                \cup Health("TELEGRAM_MTPROTO_LOOKUP_UNAVAILABLE")))
    /\ UNCHANGED <<cache, rows>>

(* No Fragment client: one health finding, if there is a handle to look up.    *)
FragmentDisabled(s) ==
    /\ scan[s].pc = "fragment"
    /\ scan[s].todo = <<>> \/ "fragment" \notin config
    /\ \E r \in {[Add(scan[s], IF scan[s].todo = <<>> THEN {}
                              ELSE Health("TELEGRAM_FRAGMENT_API_NOT_CONFIGURED")) EXCEPT !.todo = <<>>]} :
          Continue(s, AfterFragment(r))

(* The next candidate is looked for in the cache.                             *)
GetCached(s) ==
    /\ scan[s].pc = "fragment" /\ scan[s].todo # <<>> /\ "fragment" \in config
    /\ LET name == Head(scan[s].todo)
       IN  /\ cache' = AfterGet(cache, name, now)
           /\ \/ /\ Hits(cache, name, now) = {}
                 /\ Become(s, Goto(scan[s], "dns"))
              \/ \E entry \in Hits(cache, name, now) : Judge(s, entry.result)
    /\ UNCHANGED <<mtprotoVars, rows>>

(* The lookup is over: keep its answer and judge it.                          *)
Answered(s, answer) ==
    /\ cache' = AfterSet(cache, Head(scan[s].todo), answer, now)
    /\ Judge(s, answer)
    /\ UNCHANGED <<mtprotoVars, rows>>

(* getDnsInfo: no record, or no item, or an item and its owner, or an error.   *)
GetDnsInfo(s) ==
    /\ scan[s].pc = "dns"
    /\ LET name == Head(scan[s].todo)
       IN  \/ (name \notin Minted /\ Answered(s, Answer("not_found")))
          \/ Answered(s, Outage)
          \/ /\ name \in Minted
             /\ Continue(s, [scan[s] EXCEPT !.pc = "history", !.owner = Len(chain[name])])

(* Mutant: the history is read first and the owner after it. *)
GetOwnerLast(s) ==
    /\ scan[s].pc = "history"
    /\ LET transfers == chain[Head(scan[s].todo)]
       IN  \/ Answered(s, Answer("failed"))
          \/ (scan[s].owner = 0 /\ Answered(s, [Answer("ok") EXCEPT !.owner = Len(transfers)]))
          \/ (scan[s].owner # 0 /\ Answered(s, [Answer("ok") EXCEPT !.truncated = TRUE]))
          \/ /\ scan[s].owner # 0
             /\ Answered(s, [Answer("ok") EXCEPT !.owner = Len(transfers), !.transfer = scan[s].owner,
                                                 !.at = transfers[scan[s].owner]])

(* getNftHistoryById: the last transfer, unless 25 younger events hide it.     *)
GetHistory(s) ==
    /\ scan[s].pc = "history"
    /\ LET transfers == chain[Head(scan[s].todo)]
           owner == scan[s].owner
       IN  \/ Answered(s, Outage)
          \/ Answered(s, [Answer("ok") EXCEPT !.owner = owner, !.truncated = transfers # <<>>])
          \/ /\ transfers # <<>>
             /\ Answered(s, findLatestNftTransfer(owner, transfers))

(* recordSnapshot: EntityStore shows that it is one step to its callers.  A    *)
(* recent snapshot that says the same is returned with the one before it.  If the  *)
(* store fails the row may have been written or not.                           *)
Recorded(s, snapshot, previous) ==
    \E r \in {Add(scan[s], ChangeFindings(snapshot, previous))} :
        Become(s, IF r.source = "forward" THEN RunFragment(r) ELSE Finish(r))

RecordSnapshot(s) ==
    /\ scan[s].pc = "record"
    /\ LET r == scan[s]
           kept == rows[r.entity.id] \o <<NoRow, NoRow>>
           row == [username |-> r.entity.username, at |-> r.started]
           repeated == /\ rows[r.entity.id] # <<>>
                       /\ row.username = kept[1].username
                       /\ row.at - kept[1].at < Cooldown
           newer == rows[r.entity.id] = <<>> \/ row.at >= kept[1].at
           written == [rows EXCEPT ![r.entity.id] =
                         IF newer THEN SubSeq(<<row>> \o @, 1, IF @ = <<>> THEN 1 ELSE 2)
                         ELSE IF Len(@) = 1 \/ row.at >= kept[2].at THEN <<kept[1], row>> ELSE @]
       IN  \/ /\ repeated
             /\ Recorded(s, kept[1], kept[2])
             /\ UNCHANGED rows
          \/ /\ ~repeated
             /\ Recorded(s, row, kept[1])
             /\ rows' = written
          \/ /\ Become(s, StoreRejects(r))
             /\ rows' \in {rows, IF repeated THEN rows ELSE written}
    /\ UNCHANGED <<mtprotoVars, cache>>

(* scanChatGiftsForUnknownPublisher, which GiftCatalog models; the catalog may fail. *)
GiftsOfChat(s) ==
    /\ scan[s].pc = "gifts"
    /\ \/ \E confidence \in {"medium", "high"} :
             \E flagged \in {{}, {Finding("TELEGRAM_GIFT_FROM_UNKNOWN_PUBLISHER", confidence)}} :
                Continue(s, Return(Add(scan[s], flagged)))
       \/ Continue(s, StoreRejects(scan[s]))

Resolve(s) ==
    GetChat(s) \/ FindObserved(s) \/ GetObserved(s) \/ GetById(s) \/ Lookup(s) \/ SendLookup(s)
        \/ LookedUp(s)

Fragment(s) == FragmentDisabled(s) \/ GetCached(s) \/ GetDnsInfo(s) \/ GetHistory(s)

Proceed(s) == Resolve(s) \/ Fragment(s) \/ RecordSnapshot(s) \/ GiftsOfChat(s)

Next ==
    \/ Tick
    \/ \E n \in Names : Transfer(n)
    \/ \E s \in Scans : Start(s) \/ Proceed(s)
    \/ (Connection /\ UNCHANGED scanVars)
    \/ \E k \in Signals : (Shutdown(k) /\ UNCHANGED scanVars)

(* What was asked is answered, with an error if not otherwise: the HTTP clients *)
(* have timeouts, the connection a number of retries, the store's a lost          *)
(* connection.  Nobody must scan.                                              *)
Fairness ==
    /\ \A s \in Scans : WF_vars(Proceed(s))
    /\ WF_vars(Connection /\ UNCHANGED scanVars)

Spec == Init /\ [][Next]_vars /\ Fairness

-----------------------------------------------------------------------------
(* The scans that report.                                                     *)
Ended == {s \in Scans : scan[s].pc = "done"}

Candidates(r) ==
    Named({r.input.handle} \cup (IF r.entity = Null THEN {} ELSE {r.entity.username}))

(* A hand-off is never invented: each one a scan was told of by Fragment or by  *)
(* the cache happened, at the time it was told, and is the one that made the    *)
(* reported owner the owner, or a later one, though owner and history are      *)
(* asked for one after the other; and a scan reports a hand-off only if one of *)
(* its names changed hands in the window before it started, or since.         *)
HandoffHappened ==
    \A s \in Scans :
        /\ \A j \in scan[s].judged :
              j.answer.transfer # 0 =>
                  /\ j.answer.transfer \in DOMAIN chain[j.name]
                  /\ chain[j.name][j.answer.transfer] = j.answer.at
                  /\ j.answer.owner <= j.answer.transfer
        /\ s \in Ended /\ "TELEGRAM_USERNAME_FRAGMENT_HANDOFF" \in Rules(scan[s].findings) =>
              \E n \in Candidates(scan[s]) : \E i \in DOMAIN chain[n] :
                  chain[n][i] + Window >= scan[s].started

(* A hand-off is missed only for one lookup's sake: if Fragment is configured,  *)
(* every name the scan has is looked at, and a transfer at least a cache TTL   *)
(* and at most the window old is reported, unless that lookup failed or younger *)
(* events hid the transfer.                                                  *)
HandoffIsNotMissed ==
    \A s \in Ended : "fragment" \in config =>
        \A n \in Candidates(scan[s]) : \E j \in scan[s].judged :
            /\ j.name = n
            /\ (\E i \in DOMAIN chain[n] : chain[n][i] + Ttl <= j.at /\ j.at - chain[n][i] <= Window)
                  => \/ "TELEGRAM_USERNAME_FRAGMENT_HANDOFF" \in Rules(scan[s].findings)
                     \/ "TELEGRAM_FRAGMENT_API_UNAVAILABLE" \in Rules(scan[s].findings)
                     \/ j.answer.truncated

(* The cache holds at most MaxEntries names, each once, and no failure: a scan  *)
(* never reports an outage another scan saw.                                 *)
CacheIsSound ==
    /\ Len(cache) <= MaxEntries
    /\ \A i, j \in DOMAIN cache : cache[i].name = cache[j].name => i = j
    /\ \A i \in DOMAIN cache : cache[i].result.status # "failed" /\ cache[i].expiresAt <= now + Ttl

Reasons ==
    providerFailure \cup {"TELEGRAM_ENTITY_NOT_RESOLVABLE", "TELEGRAM_BOT_API_NOT_CONFIGURED"}

(* No report is silent about its entity, on any path through the resolvers: the    *)
(* scan has recorded the one it judged, or says why there is none; and it blames   *)
(* the Bot API or Fragment for not being configured only when they are not.  (A     *)
(* scan that the store rejects has no report.)                                  *)
EndIsExplained ==
    \A s \in Ended :
        LET rules == Rules(scan[s].findings)
        IN  /\ IF scan[s].entity = Null THEN rules \cap Reasons # {}
               ELSE rules \cap Reasons = {} /\ rows[scan[s].entity.id] # <<>>
            /\ "TELEGRAM_BOT_API_NOT_CONFIGURED" \in rules => "bot" \notin config
            /\ "TELEGRAM_FRAGMENT_API_NOT_CONFIGURED" \in rules <=>
                  "fragment" \notin config /\ Candidates(scan[s]) # {}

(* What a pasted handle shows, with at least the confidence it had.               *)
ReportsPastedHandle(r) ==
    \A f \in InputFindings(r.input) : \E g \in r.findings :
        g.rule = f.rule /\ confidenceRank(f.confidence) <= confidenceRank(g.confidence)

(* What a pasted handle shows is in every report, whatever the Bot API, MTProto and *)
(* Fragment answer or fail with, and no rule is reported twice; a scan is left      *)
(* without a report only by the store, which is asked once there is an entity, or  *)
(* for a channel's handle that the Bot API did not find.                          *)
PastedHandleIsJudged ==
    /\ \A s \in Ended :
          /\ ReportsPastedHandle(scan[s])
          /\ \A f, g \in scan[s].findings : f.rule = g.rule => f = g
    /\ \A s \in Scans :
          scan[s].pc = "rejected" =>
              \/ scan[s].entity # Null
              \/ scan[s].input.kind = "channelOrSupergroup" /\ "bot" \in config

(* Every scan ends, with a report or with the store's error, also one that waits    *)
(* for a connection that fails or that close forgot.                             *)
EveryScanEnds == \A s \in Scans : scan[s].pc # "idle" ~> scan[s].pc \in {"done", "rejected"}
=============================================================================
