--------------------------- MODULE TransactionScan ---------------------------
(***************************************************************************)
(* The scan of a transaction or of a BoC: the static decode of what a dApp   *)
(* declares, TONAPI's emulation of what would happen, and the comparison of  *)
(* the two.  Two decoders read the same object, each with its own idea of    *)
(* which fields count, and either may refuse it.                            *)
(*                                                                         *)
(* A message says under which key each field stands and what is in it; an    *)
(* address is an account in one of its written forms, a payload the opcode   *)
(* it begins with.  The sender's account, TONAPI and its answers are the     *)
(* second argument of every scan; nothing is kept between scans.             *)
(***************************************************************************)
EXTENDS RiskScore, Positions, FiniteSetsExt

CONSTANT Accounts

-----------------------------------------------------------------------------
(* What may be scanned, and how TONAPI may stand.                             *)

(* Where the messages stand: a list under "messages" or "msgs", no list at all,  *)
(* or under "messages" something else than a list of objects.  Without a list    *)
(* the object is itself the one message.                                     *)
Lists == {"messages", "msgs", "absent", "notArray"}

Messages ==
    [to : Accounts, toKey : {"address", "to", "none"}, form : {"friendly", "raw", "broken"},
     value : Nat, amount : {"string", "valueKey", "number", "text", "none"},
     payload : {"absent", "emptyText", "emptyCell", "comment", "jetton", "nft", "notBoc", "other"},
     payloadKey : {"payload", "body"}, init : {"absent", "emptyText", "notBoc", "given"},
     initKey : {"stateInit", "state_init", "init"}, extra : {"absent", "good", "badType", "badAmount"}]

Transactions == [from : {"given", "missing", "broken"}, list : Lists, messages : Seq(Messages)]

Entries(tx) == tx.messages

(* An HTTP status, 200 if the call was answered and NoStatus if nothing came.      *)
NoStatus == 0

HttpStatuses == {NoStatus} \cup 100 .. 599

(* Where TONAPI's client puts the status on the error it throws: on the error, or   *)
(* on its cause, the response, as @ton-api/client@0.4 does (failure.ts:76-84).   *)
ErrorShapes == {"status", "cause"}

Actions == [kind : STRING, to : Accounts, value : Nat, details : BOOLEAN]

Worlds ==
    [enabled : BOOLEAN, getAccount : HttpStatuses, account : {"active", "uninit", "nonexist", "frozen"},
     wallet : {"known", "unknown"}, getSeqno : HttpStatuses, emulate : HttpStatuses,
     thrown : ErrorShapes, actions : Seq(Actions), nearFull : BOOLEAN, aborted : BOOLEAN,
     scam : BOOLEAN]

-----------------------------------------------------------------------------
(* The static decode.                                                        *)

decodePayload(payload) ==
    CASE payload \in {"absent", "emptyText", "emptyCell"} -> "none"
      [] payload = "comment" -> "ton_comment"
      [] payload = "jetton" -> "jetton_transfer"
      [] payload = "nft" -> "nft_transfer"
      [] OTHER -> "opaque"

(* Wherever the address stands, a written form @ton/core can parse.            *)
parseAddress(m) == m.toKey # "none" /\ m.form # "broken"

resolveAmount(m) == m.amount \in {"string", "valueKey", "number"}

IsWellFormed(m) == parseAddress(m) /\ resolveAmount(m)

parseMessage(m) ==
    [to |-> m.to, value |-> m.value, payload |-> decodePayload(m.payload),
     hasStateInit |-> m.initKey # "state_init" /\ m.init \in {"given", "notBoc"}]

parseMessages(tx) ==
    LET wellFormed == Kept(Entries(tx), {i \in DOMAIN Entries(tx) : IsWellFormed(Entries(tx)[i])})
    IN  [parsed |-> [i \in DOMAIN wellFormed |-> parseMessage(wellFormed[i])],
         malformedCount |-> IF Entries(tx) = <<>> THEN 1 ELSE Len(Entries(tx)) - Len(wellFormed)]

classifyPayload(payload) ==
    CASE payload \in {"none", "ton_comment"} -> "send_ton"
      [] payload = "jetton_transfer" -> "send_jetton"
      [] payload = "nft_transfer" -> "send_nft"
      [] OTHER -> "unknown"

classifyMessage(m) == IF m.hasStateInit THEN "deploy_contract" ELSE classifyPayload(m.payload)

When(condition, rule, confidence) ==
    IF condition THEN <<Finding(rule, confidence)>> ELSE <<>>

Copies(n, rule, confidence) == [k \in 1 .. n |-> Finding(rule, confidence)]

scanTransactionJson(tx) ==
    LET read == parseMessages(tx)
        opaque == {i \in DOMAIN read.parsed : read.parsed[i].payload = "opaque"}
    IN  [findings |-> When(read.malformedCount > 0, "TRANSACTION_MALFORMED_MESSAGE", "medium")
                         \o Copies(Cardinality(opaque), "TRANSACTION_OPAQUE_PAYLOAD", "medium"),
         actions |-> [i \in DOMAIN read.parsed |-> classifyMessage(read.parsed[i])],
         parsedMessages |-> read.parsed]

(* Whether the dApp declared a deployment, for the emulation's sake.           *)
hasStateInit(tx) ==
    /\ tx.list = "messages"
    /\ \E i \in DOMAIN Entries(tx) : /\ Entries(tx)[i].initKey # "init"
                                     /\ Entries(tx)[i].init \in {"given", "notBoc"}

-----------------------------------------------------------------------------
(* The request to TONAPI: all of the messages or none.                        *)

(* Each entry has the strings a TON Connect message must have.                *)
parseTonConnectMessages(tx) ==
    CASE tx.list \in {"absent", "msgs"} -> "no_messages_field"
      [] tx.list = "messages" /\ Entries(tx) # <<>>
            /\ \A i \in DOMAIN Entries(tx) :
                  LET m == Entries(tx)[i]
                  IN  /\ m.toKey = "address"
                      /\ m.amount \in {"string", "text"}
                      /\ m.extra # "badType" -> "ok"
      [] OTHER -> "malformed"

parseStateInit(m) == m.initKey \in {"stateInit", "state_init"} => m.init \in {"absent", "given"}

parseBody(m) == m.payloadKey = "payload" => m.payload \notin {"emptyText", "notBoc"}

parseDestination(m) == m.form = "friendly"

parseAmountString(m) == m.amount = "string"

parseExtraCurrency(m) == m.extra # "badAmount"

(* Mutant: the payload is not passed on.                                      *)
toBareMessage(m) ==
    [to |-> m.to, value |-> m.value, init |-> m.initKey # "init" /\ m.init = "given", body |-> "none"]

toInternalMessage(m) ==
    [to |-> m.to, value |-> m.value,
     init |-> m.initKey # "init" /\ m.init = "given",
     body |-> IF m.payloadKey = "payload" THEN decodePayload(m.payload) ELSE "none"]

(* One field that cannot be built fails the whole request.                    *)
CanBuild(tx) ==
    \A i \in DOMAIN Entries(tx) :
        LET m == Entries(tx)[i]
        IN  parseStateInit(m) /\ parseBody(m) /\ parseDestination(m) /\ parseAmountString(m)
               /\ parseExtraCurrency(m)

buildExternalMessageBoc(tx) == [i \in DOMAIN Entries(tx) |-> toInternalMessage(Entries(tx)[i])]

-----------------------------------------------------------------------------
(* TONAPI: why a call failed, and the actions it saw.                           *)

(* Only the error itself is looked at: a status on its cause is lost.           *)
extractHttpStatus(w, status) == IF w.thrown = "status" THEN status ELSE NoStatus

classifyFailure(status) ==
    CASE status = 429 -> "rate_limited"
      [] status = NoStatus \/ status >= 500 -> "provider_down"
      [] status \in 400 .. 499 /\ status # 429 -> "bad_request"
      [] OTHER -> "unknown"

(* Mutant: an exact 500 does not count as the provider's failure.               *)
classifyFailureAbove500(status, reason) ==
    CASE reason = "rate_limited" -> "EMULATION_RATE_LIMITED"
      [] reason = "provider_down" -> "EMULATION_PROVIDER_DOWN"
      [] reason = "bad_request" -> "EMULATION_FAILED"
      [] reason \in {"none", "unknown"} ->
            CASE status = 429 -> "EMULATION_RATE_LIMITED"
              [] status = NoStatus \/ status > 500 -> "EMULATION_PROVIDER_DOWN"
              [] OTHER -> "EMULATION_FAILED"

(* What to call a failure by its reason, if one is known, else by its status.  *)
classifyProviderFailure(status, reason) ==
    CASE reason = "rate_limited" -> "EMULATION_RATE_LIMITED"
      [] reason = "provider_down" -> "EMULATION_PROVIDER_DOWN"
      [] reason = "bad_request" -> "EMULATION_FAILED"
      [] OTHER ->
            CASE status = 429 -> "EMULATION_RATE_LIMITED"
              [] status = NoStatus \/ status >= 500 -> "EMULATION_PROVIDER_DOWN"
              [] OTHER -> "EMULATION_FAILED"

JettonKinds == {"jetton_transfer", "flawed_jetton_transfer", "jetton_burn", "jetton_mint",
                "jetton_swap"}

AuthChangeKinds == {"add_extension", "remove_extension", "set_signature_allowed"}

StakeKinds == {"deposit_stake", "withdraw_stake", "withdraw_stake_request", "elections_deposit_stake",
               "elections_recover_stake", "deposit_token_stake", "withdraw_token_stake_request"}

OtherKinds == StakeKinds \cup {"smart_contract_exec", "subscribe", "unsubscribe", "liquidity_deposit",
                               "domain_renew", "purchase", "gas_relay", "unknown"}

EmulatedActionKinds ==
    {"ton_transfer", "extra_currency_transfer", "nft_transfer", "nft_purchase", "auction_bid",
     "contract_deploy"} \cup JettonKinds \cup AuthChangeKinds \cup OtherKinds

(* A type this version does not know is "unknown"; only a TonTransfer with its  *)
(* own object keeps a recipient and an amount.                               *)
toEmulatedAction(a) ==
    [a EXCEPT !.kind = IF @ \in EmulatedActionKinds THEN @ ELSE "unknown",
              !.details = @ /\ a.kind = "ton_transfer"]

mapEmulatedKindToActionKind(kind) ==
    CASE kind \in {"ton_transfer", "extra_currency_transfer"} -> "send_ton"
      [] kind \in JettonKinds -> "send_jetton"
      [] kind \in {"nft_transfer", "nft_purchase", "auction_bid"} -> "send_nft"
      [] kind = "contract_deploy" -> "deploy_contract"
      [] kind \in AuthChangeKinds -> "change_wallet_permission"
      [] kind \in OtherKinds -> "unknown"

Emulated(w) == [i \in DOMAIN w.actions |-> toEmulatedAction(w.actions[i])]

OfKinds(actions, kinds) == {i \in DOMAIN actions : actions[i].kind \in kinds}

Previews(actions) == [i \in DOMAIN actions |-> mapEmulatedKindToActionKind(actions[i].kind)]

-----------------------------------------------------------------------------
(* diffStaticVsEmulated: the n-th plain send declared against the n-th transfer *)
(* emulated.                                                                *)

isComparableTonSend(m) == ~m.hasStateInit /\ m.payload \in {"none", "ton_comment"}

Sends(messages) == Kept(messages, {i \in DOMAIN messages : isComparableTonSend(messages[i])})

Transfers(actions) ==
    Kept(actions, {i \in DOMAIN actions : actions[i].kind = "ton_transfer" /\ actions[i].details})

(* Mutant: only the recipients are compared.                                  *)
DiffersInRecipient(send, transfer) == send.to # transfer.to

Differs(send, transfer) == send.to # transfer.to \/ send.value # transfer.value

mismatches(messages, actions) ==
    {i \in DOMAIN Sends(messages) \cap DOMAIN Transfers(actions) :
        Differs(Sends(messages)[i], Transfers(actions)[i])}

hiddenActions(messages, actions) == DOMAIN Transfers(actions) \ DOMAIN Sends(messages)

-----------------------------------------------------------------------------
(* What an emulation that succeeded says.                                     *)
mapOkResult(w, messages, staticHasStateInit) ==
    LET actions == Emulated(w)
    IN  [actions |-> Previews(actions),
         findings |->
            When(w.nearFull, "EMULATION_SENDS_NEAR_FULL_BALANCE", "high")
            \o Copies(Cardinality(OfKinds(actions, AuthChangeKinds)),
                     "EMULATION_WALLET_V5_AUTH_CHANGE", "high")
            \o When(w.aborted, "EMULATION_ABORTED", "high")
            \o When(w.scam, "EMULATION_SCAM_PATTERN_DETECTED", "medium")
            \o Copies(Cardinality(mismatches(messages, actions)), "EMULATION_MISMATCH", "high")
            \o Copies(Cardinality(hiddenActions(messages, actions)),
                     "EMULATION_REVEALED_HIDDEN_ACTION", "medium")
            \o When(~staticHasStateInit /\ OfKinds(actions, {"contract_deploy"}) # {},
                    "EMULATION_DEPLOYS_UNKNOWN_CONTRACT", "high")]

single(rule, confidence) == [findings |-> <<Finding(rule, confidence)>>, actions |-> <<>>]

Nothing == [findings |-> <<>>, actions |-> <<>>]

Obstacle(met, result) == [met |-> met, result |-> result]

(* A failed call: the metadata's status is classified by the scanner, the        *)
(* emulation's by the emulator first.                                          *)
metadataFailure(w, status) ==
    single(classifyProviderFailure(extractHttpStatus(w, status), "none"), "low")

emulateFailure(w) ==
    LET status == extractHttpStatus(w, w.emulate)
    IN  single(classifyProviderFailure(status, classifyFailure(status)), "low")

(* fetchSenderMetadata: two calls to TONAPI, the second for a wallet's seqno.    *)
SenderObstacles(w) ==
    <<Obstacle(w.getAccount # 200, metadataFailure(w, w.getAccount)),
      Obstacle(w.account # "active", single("EMULATION_SENDER_UNINITIALISED", "low")),
      Obstacle(w.wallet = "unknown", Nothing),
      Obstacle(w.getSeqno # 200, metadataFailure(w, w.getSeqno))>>

(* What may keep a transaction from being emulated, in the order it is met:     *)
(* the deployment, the sender, its account, the messages, TONAPI.             *)
Obstacles(tx, w) ==
    <<Obstacle(~w.enabled, single("EMULATION_NOT_CONFIGURED", "low")),
      Obstacle(tx.from # "given", single("EMULATION_SKIPPED_NO_SENDER", "low"))>>
    \o SenderObstacles(w) \o
    <<Obstacle(parseTonConnectMessages(tx) = "no_messages_field",
               single("EMULATION_SKIPPED_NO_MESSAGES", "low")),
      Obstacle(parseTonConnectMessages(tx) = "malformed",
               single("TRANSACTION_MALFORMED_MESSAGE", "high")),
      Obstacle(~CanBuild(tx), single("TRANSACTION_MALFORMED_MESSAGE", "high")),
      Obstacle(w.emulate # 200, emulateFailure(w))>>

Met(obstacles) == {i \in DOMAIN obstacles : obstacles[i].met}

IsEmulated(tx, w) == Met(Obstacles(tx, w)) = {}

scanTransactionWithEmulation(tx, w, static) ==
    IF IsEmulated(tx, w)
    THEN mapOkResult(w, static.parsedMessages, hasStateInit(tx))
    ELSE Obstacles(tx, w)[Min(Met(Obstacles(tx, w)))].result

Malformed(findings) == Of(findings, "TRANSACTION_MALFORMED_MESSAGE")

(* Mutant: emulation runs whatever the static decode found.                     *)
scanMalformedToo(tx, w) ==
    LET static == scanTransactionJson(tx)
        emulation == scanTransactionWithEmulation(tx, w, static)
    IN  [findings |-> static.findings \o emulation.findings,
         actions |-> static.actions \o emulation.actions]

(* gatherScanResult: a transaction the static decode found malformed is not      *)
(* emulated.                                                                *)
scanTransaction(tx, w) ==
    LET static == scanTransactionJson(tx)
        emulation == scanTransactionWithEmulation(tx, w, static)
    IN  IF Malformed(static.findings) # {}
        THEN [findings |-> static.findings, actions |-> static.actions]
        ELSE [findings |-> static.findings \o emulation.findings,
              actions |-> static.actions \o emulation.actions]

-----------------------------------------------------------------------------
(* A BoC has no static decode: what its emulation shows is all there is.        *)
BocObstacles(boc, w) ==
    <<Obstacle(~w.enabled, single("EMULATION_NOT_CONFIGURED", "low")),
      Obstacle(boc = "notBoc", single("TRANSACTION_MALFORMED_MESSAGE", "high")),
      Obstacle(w.emulate # 200, emulateFailure(w))>>

scanBocWithEmulation(boc, w) ==
    LET actions == Emulated(w)
    IN  IF Met(BocObstacles(boc, w)) # {}
        THEN BocObstacles(boc, w)[Min(Met(BocObstacles(boc, w)))].result
        ELSE [actions |-> Previews(actions),
              findings |->
                 When(w.scam, "EMULATION_SCAM_PATTERN_DETECTED", "medium")
                 \o Copies(Cardinality(OfKinds(actions, AuthChangeKinds)),
                          "EMULATION_WALLET_V5_AUTH_CHANGE", "high")]

-----------------------------------------------------------------------------
(* Properties, of one transaction or BoC and one state of the world.            *)

Flags(findings) ==
    Cardinality(Of(findings, "EMULATION_MISMATCH"))
        + Cardinality(Of(findings, "EMULATION_REVEALED_HIDDEN_ACTION"))

Failing(w, field, status) == [w EXCEPT ![field] = status]

Shown(seq) == [i \in DOMAIN seq |-> <<seq[i].to, seq[i].value>>]

CountOf(seq, x) == Cardinality({i \in DOMAIN seq : seq[i] = x})

(* The transfers emulated more often than they were declared: the n-th of several  *)
(* equal ones, if fewer than n like it are declared.                           *)
Excess(declared, emulated) ==
    {i \in DOMAIN emulated :
        Cardinality({j \in DOMAIN emulated : emulated[j] = emulated[i] /\ j <= i})
            > CountOf(declared, emulated[i])}

(* Every transfer that emulation shows and the dApp did not declare, to that     *)
(* account and of that amount, has a finding of its own, however the list is     *)
(* ordered or padded; an emulation that shows the declared sends has none.      *)
UndeclaredIsFlagged(tx, w) ==
    LET static == scanTransactionJson(tx)
        declared == Shown(Sends(static.parsedMessages))
        emulated == Shown(Transfers(Emulated(w)))
        flags == Flags(scanTransaction(tx, w).findings)
    IN  Malformed(static.findings) = {} /\ IsEmulated(tx, w) =>
            /\ flags >= Cardinality(Excess(declared, emulated))
            /\ emulated = declared => flags = 0

(* Payload and deployment under TON Connect's own keys, which both decoders read.  *)
InOwnKeys(m) ==
    /\ m.payloadKey = "payload" \/ m.payload = "absent"
    /\ m.initKey = "stateInit" \/ m.init = "absent"

(* What is emulated is the list the static decode showed: one message for one and  *)
(* in order, since the comparison pairs them by position, each to the same account *)
(* with the same amount, and in TON Connect's own keys with the same payload and    *)
(* deployment; of deployments the rule for undeclared ones is told of each that is  *)
(* emulated, whatever its key.  A message that either decoder refuses is reported   *)
(* once, and then nothing is emulated: neither a part of the list nor the double    *)
(* score of one defect.                                                       *)
DecodersAgree(tx, w) ==
    LET static == scanTransactionJson(tx)
        result == scanTransaction(tx, w)
        shown == static.parsedMessages
        built == buildExternalMessageBoc(tx)
    IN  /\ Malformed(result.findings) = {} /\ IsEmulated(tx, w) =>
              /\ Shown(shown) = Shown(built)
              /\ \A i \in DOMAIN built :
                    InOwnKeys(Entries(tx)[i]) =>
                        /\ shown[i].payload = built[i].body
                        /\ shown[i].hasStateInit = built[i].init
              /\ hasStateInit(tx) <=> \E i \in DOMAIN built : built[i].init
        /\ Cardinality(Malformed(result.findings)) <= 1
        /\ Malformed(result.findings) # {} => result.actions = static.actions

(* TONAPI shows each message that is emulated as what it is: a plain send as a        *)
(* transfer, anything else as something else.                                  *)
ShowsWhatIsBuilt(tx, w) ==
    LET built == buildExternalMessageBoc(tx)
    IN  /\ Len(w.actions) = Len(built)
        /\ \A i \in DOMAIN built :
              IF ~built[i].init /\ built[i].body \in {"none", "ton_comment"}
              THEN w.actions[i] = [kind |-> "ton_transfer", to |-> built[i].to,
                                   value |-> built[i].value, details |-> TRUE]
              ELSE w.actions[i].kind # "ton_transfer"

(* A hidden action is one that "the dApp's signed messages[] did not declare": an    *)
(* emulation that shows the messages it was sent, and nothing else, flags nothing -   *)
(* unless a payload or a deployment stands in a key that one of the decoders does     *)
(* not read.  (A call in "body" is emulated as a plain send, and flagged.)        *)
DeclaredIsNotHidden(tx, w) ==
    /\ IsEmulated(tx, w) /\ ShowsWhatIsBuilt(tx, w)
    /\ \A i \in DOMAIN Entries(tx) : InOwnKeys(Entries(tx)[i])
    => Flags(scanTransaction(tx, w).findings) = 0

(* An outage is not a scam ("users don't see scary risk scores just because      *)
(* TONAPI hiccupped"): a transaction that is clean by its own messages stays     *)
(* safe, no finding of the static decode is lost, and one failure is reported    *)
(* alike whichever call it hits, of a transaction or of a BoC.  That holds of a     *)
(* status that is lost on its way (extractHttpStatus) as of one that arrives.    *)
OutageIsQuiet(tx, w, status) ==
    LET static == scanTransactionJson(tx).findings
        failed == scanTransaction(tx, Failing(w, "emulate", status)).findings
    IN  /\ Malformed(failed) = {} =>
              /\ SubSeq(failed, 1, Len(static)) = static
              /\ static = <<>> => Report(failed).verdict = "safe"
              /\ Reached(scoreFindings(failed)) <= Reached(scoreFindings(static)) + 1
        /\ IsEmulated(tx, w) =>
              /\ \A field \in {"getAccount", "getSeqno"} :
                    scanTransaction(tx, Failing(w, field, status)).findings = failed
              /\ failed = static \o scanBocWithEmulation("boc", Failing(w, "emulate", status)).findings

(* A send that TONAPI shows as something else is not a mismatch ("a labelling     *)
(* difference, not a contradiction"): an emulation of the declared sends in       *)
(* which some are relabelled flags nothing.                                    *)
RelabelledIsNotFlagged(tx, w) ==
    LET static == scanTransactionJson(tx)
        actions == Emulated(w)
        relabelled == /\ Shown(static.parsedMessages) = Shown(actions)
                      /\ Len(Sends(static.parsedMessages)) = Len(static.parsedMessages)
                      /\ \A i \in DOMAIN actions : actions[i].kind \in {"ton_transfer", "smart_contract_exec"}
    IN  relabelled => Flags(scanTransaction(tx, w).findings) = 0
=============================================================================
