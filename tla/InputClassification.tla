------------------------- MODULE InputClassification -------------------------
(***************************************************************************)
(* From what a user pastes to the input that is scanned: classifyInput, the  *)
(* grammar of Telegram links, and the name the Telegram scanner is given.    *)
(*                                                                         *)
(* What is pasted has a shape, which the regular expressions tell apart, and  *)
(* a link its parts as URL has parsed them: scheme, host, path segments and   *)
(* query parameters in order, all texts (CanonicalHash).  No parameter has     *)
(* the empty text, so that null and "" need not be told apart.               *)
(***************************************************************************)
EXTENDS CanonicalHash, Positions, FiniteSetsExt

CONSTANT NoUsernames  \* the words that are no username: too short, or other letters

ASSUME NoUsernamesAssumption == {"", "nft"} \subseteq NoUsernames

Links == [scheme : {"https", "http", "tg"}, host : Texts, segments : Seq(Texts), query : Seq(Texts \X Texts)]

(* The parameters but those consumed, as an object: of one key the last value.    *)
Rest(query, consumed) ==
    Kept(query, {i \in DOMAIN query : /\ \A key \in consumed : query[i][1] # Named(key)
                                     /\ \A j \in DOMAIN query : j > i => query[j][1] # query[i][1]})

-----------------------------------------------------------------------------
(* The grammar of Telegram links (deeplink-parser.ts).                         *)

TELEGRAM_HOSTS == {"t.me", "telegram.me", "telegram.dog"}

DEEPLINK_QUERY_PARAMS ==
    <<"start", "startapp", "startattach", "startgroup", "startchannel", "startbusiness">>

RESERVED_HANDLE_PREFIXES ==
    {"joinchat", "share", "iv", "proxy", "addstickers", "addemoji", "addtheme", "setlanguage",
     "login", "c", "bg", "msg", "confirmphone", "contact"}

Deeplink(action, target, appShortName, payload, extras) ==
    [kind |-> "telegram_deeplink", action |-> action, target |-> target,
     appShortName |-> appShortName, payload |-> payload, extras |-> extras]

NotDeeplink == [kind |-> "telegram_url", handle |-> NullText]

buildDeeplink(query, param, target, appShortName) ==
    Deeplink(param, target, appShortName, get(query, param), Rest(query, {param}))

(* The trigger parameters that are there.                                      *)
Triggers(query) == {n \in DOMAIN DEEPLINK_QUERY_PARAMS : Has(query, DEEPLINK_QUERY_PARAMS[n])}

(* Mutant: a name keeps the case it was typed in.                              *)
TargetAsTyped(segment) == segment

Target(segment) == ToLowerCase(segment)

parsePath(segments, query) ==
    LET first == IF segments = <<>> THEN NullText ELSE segments[1]
        app == IF Len(segments) > 1 THEN segments[2] ELSE NullText
    IN  IF first.word = "nft" /\ app # NullText
        THEN [kind |-> "telegram_nft_link", slug |-> app]
        ELSE IF first.word \in RESERVED_HANDLE_PREFIXES \cup NoUsernames THEN NotDeeplink
        ELSE IF Triggers(query) # {}
        THEN buildDeeplink(query, DEEPLINK_QUERY_PARAMS[Min(Triggers(query))], Target(first), app)
        ELSE IF Has(query, "attach") THEN buildDeeplink(query, "startattach", Target(first), app)
        ELSE IF app = NullText THEN [kind |-> "telegram_url", handle |-> Target(first)]
        ELSE Deeplink("startapp", Target(first), app, NullText, <<>>)

(* "resolve" is rewritten as a t.me link, the other parameters set in their order.  *)
parseTgScheme(link) ==
    CASE link.host.word = "addbusinessbot" ->
           Deeplink("addBusinessBot", ToLowerCase(get(link.query, "bot")), NullText,
                    get(link.query, "rights"), Rest(link.query, {"bot", "rights"}))
      [] link.host.word = "resolve" ->
           parsePath(<<get(link.query, "domain")>>, Rest(link.query, {"domain"}))
      [] OTHER -> NotDeeplink

NotTelegram == [kind |-> "not_telegram"]

parseTelegramUrl(link) ==
    CASE link.scheme = "tg" -> parseTgScheme(link)
      [] link.scheme # "tg" /\ link.host.word \in TELEGRAM_HOSTS -> parsePath(link.segments, link.query)
      [] OTHER -> NotTelegram

-----------------------------------------------------------------------------
(* classify-input.ts                                                         *)

(* The link as it is written, for the key to lower: its words and their case.    *)
Written(link) ==
    [host |-> link.scheme,
     path |-> [word |-> <<link.host.word, [i \in DOMAIN link.segments |-> link.segments[i].word]>>,
               upper |-> <<link.host.upper, [i \in DOMAIN link.segments |-> link.segments[i].upper]>>],
     query |-> link.query]

OfUrl(parsed, link) ==
    CASE parsed.kind \in {"telegram_deeplink", "telegram_nft_link"} -> parsed
      [] parsed.kind = "telegram_url" ->
           [kind |-> "telegram_url", handle |-> parsed.handle, url |-> Written(link)]
      [] parsed = NotTelegram /\ link.segments # <<>>
            /\ Last(link.segments) = Named("tonconnect-manifest.json") ->
           [kind |-> "manifest_url", url |-> Written(link)]
      [] OTHER -> [kind |-> "generic_url", url |-> Written(link)]

classifyUrl(link) == OfUrl(parseTelegramUrl(link), link)

(* A tc: link whose request cannot be read is a URL like another.               *)
parseTonConnectLink(link) == link.scheme = "tc" /\ link.request = "readable"

classifyInput(paste) ==
    CASE paste.shape = "json" /\ paste.hasMessages ->
           [kind |-> "transaction_json", transaction |-> paste.object]
      [] paste.shape = "url" /\ parseTonConnectLink(paste.link) ->
           [kind |-> "tonconnect_link", manifestUrl |-> paste.link.manifestUrl]
      [] paste.shape = "handle" /\ paste.handle.word \notin NoUsernames ->
           [kind |-> "telegram_handle", handle |-> ToLowerCase(paste.handle)]
      [] paste.shape = "url" /\ ~parseTonConnectLink(paste.link) -> classifyUrl(paste.link)
      [] paste.shape = "address" -> [kind |-> "ton_address", address |-> paste.address]
      [] paste.shape = "boc" -> [kind |-> "boc", boc |-> paste.boc]
      [] OTHER -> [kind |-> "unknown", normalized |-> paste]

-----------------------------------------------------------------------------
(* What the scan of a Telegram link begins with (basic-scan.ts).               *)

NoTarget == [field |-> "none", name |-> NullText]

telegramScanInputFor(in) ==
    CASE in.kind = "telegram_handle" -> [field |-> "channelOrSupergroupHandle", name |-> in.handle]
      [] in.kind = "telegram_url" /\ in.handle # NullText ->
           [field |-> "channelOrSupergroupHandle", name |-> in.handle]
      [] in.kind = "telegram_deeplink" /\ in.target # NullText ->
           [field |-> "userOrBotHandle", name |-> in.target]
      [] OTHER -> NoTarget

extractRightsPayload(in) ==
    CASE in.kind = "telegram_deeplink" /\ in.action = "addBusinessBot" -> in.payload
      [] in.kind = "telegram_deeplink" /\ in.action = "startbusiness" -> get(in.extras, "rights")
      [] OTHER -> NullText

-----------------------------------------------------------------------------
(* Properties, of one link.                                                  *)

Reading(in) ==
    [kind |-> in.kind, target |-> telegramScanInputFor(in), rights |-> extractRightsPayload(in),
     key |-> canonicalInputHash(in)]

Read(paste) == Reading(classifyInput(paste))

Pasted(link) == [shape |-> "url", link |-> link]

Alike(a, b) == a.target = b.target /\ a.rights = b.rights

Flip(text) == [text EXCEPT !.upper = ~@]

NoneTwice(query) == \A i, j \in DOMAIN query : query[i][1] = query[j][1] => i = j

NameParameter(host) == Named(IF host = "resolve" THEN "domain" ELSE "bot")

AsResolve(link) ==
    [link EXCEPT !.scheme = "tg", !.host = Named("resolve"), !.segments = <<>>,
                 !.query = <<<<Named("domain"), link.segments[1]>>>> \o @]

(* The same link in other writings: another host of Telegram's, another case of   *)
(* the name, as tg://resolve.  Of a parameter given twice t.me takes the first     *)
(* value and tg://resolve the last, so none is in such a link.                  *)
Spellings(link) ==
    IF link.scheme = "tg"
    THEN {[link EXCEPT !.host = Flip(@)]}
         \cup {[link EXCEPT !.query[i][2] = Flip(@)] :
                 i \in {j \in DOMAIN link.query : link.query[j][1] = NameParameter(link.host.word)}}
    ELSE {[link EXCEPT !.host = Named(host)] : host \in TELEGRAM_HOSTS}
         \cup {[link EXCEPT !.segments[1] = Flip(@)] : i \in DOMAIN link.segments}
         \cup {AsResolve(link) : i \in {j \in DOMAIN link.segments :
                                         Len(link.segments) = 1 /\ NoneTwice(AsResolve(link).query)}}

(* The key of a plain link lowers the names of parameters, which the parser does   *)
(* not: tg://resolve?Domain=shop has the key of tg://resolve?domain=shop, but no    *)
(* name; hence this condition.                                                *)
DomainIsLower(link) ==
    link.host.word = "resolve" =>
        \A i \in DOMAIN link.query : link.query[i][1].word = "domain" => ~link.query[i][1].upper

(* Links that differ from it in one text, parameter or the order of them.         *)
Neighbours(link) ==
    {[link EXCEPT !.segments[i] = Flip(@)] : i \in DOMAIN link.segments}
    \cup {[link EXCEPT !.query[i][1] = Flip(@)] : i \in DOMAIN link.query}
    \cup UNION {{[link EXCEPT !.query[i][2] = Flip(@)],
                 [link EXCEPT !.query = RemoveAt(@, i)], [link EXCEPT !.query = Append(@, @[i])],
                 [link EXCEPT !.query = Reverse(@)]} : i \in DOMAIN link.query}

ReadAlike(link, own) ==
    /\ own.kind \in TelegramEntityKinds =>
          \A other \in {Read(Pasted(l)) : l \in Spellings(link)} :
             Alike(own, other) /\ (own.kind = "telegram_deeplink" => other.key = own.key)
    /\ own.kind = "telegram_url" /\ own.target # NoTarget /\ link.scheme = "https" =>
          Alike(own, Read([shape |-> "handle", handle |-> link.segments[1]]))
    /\ \A other \in {Read(Pasted(l)) : l \in {n \in Neighbours(link) : DomainIsLower(n)}} :
          DomainIsLower(link) /\ other.key = own.key => Alike(own, other)

(* A Telegram link starts the same scan, and a link with an action is one report,  *)
(* however it is written: a bare @name, a link on any host, tg://resolve, in any   *)
(* case.  And two links with one key start the same scan: the report of one may    *)
(* answer the other.                                                         *)
LinkIsReadAlike(link) == ReadAlike(link, Read(Pasted(link)))
==============================================================================
