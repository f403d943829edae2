---------------------------- MODULE CanonicalHash ----------------------------
(***************************************************************************)
(* The report-level dedup key: canonicalInputHash of packages/storage.     *)
(* SHA-256 over stable JSON is taken to be injective, so the key IS the     *)
(* canonical value that is hashed.                                         *)
(*                                                                         *)
(* A text is [word, upper]: a word of the user's and whether it was typed   *)
(* with capitals; letter case is the only thing about a text that any       *)
(* definition here tells apart.  classifyInput trims every text before the  *)
(* hash sees it, so whitespace never reaches this module.  A URL is a host, *)
(* whose case nothing tells apart, a path, and the parameters of its query   *)
(* as <<name, value>> in their order; their case the URL parser keeps.       *)
(* A JSON object is the sequence of its <<key, value>> properties in source *)
(* order, keys distinct.                                                    *)
(***************************************************************************)
EXTENDS Naturals, Sequences, SequencesExt

TelegramEntityKinds == {"telegram_handle", "telegram_url", "telegram_deeplink"}

TelegramShaped == TelegramEntityKinds \cup {"telegram_miniapp_url", "telegram_nft_link"}

EmulatedKinds == {"transaction_json", "boc"}

(* The kinds whose scan is one safe-fetch of a page. *)
PageKinds == {"tonconnect_link", "manifest_url", "telegram_miniapp_url",
              "telegram_nft_link", "generic_url"}

Kinds == TelegramShaped \cup EmulatedKinds \cup PageKinds \cup {"ton_address", "unknown"}

Named(word) == [word |-> word, upper |-> FALSE]

Texts == [word : STRING, upper : BOOLEAN]

(* searchParams: where a parameter stands, which may be more than once.           *)
At(query, key) == {i \in DOMAIN query : query[i][1] = Named(key)}

Has(query, key) == At(query, key) # {}

(* telegram_url.handle and telegram_deeplink.target are nullable. *)
NullText == [word |-> "", upper |-> FALSE]

get(query, key) == IF Has(query, key) THEN query[Min(At(query, key))][2] ELSE NullText

ToLowerCase(text) == [text EXCEPT !.upper = FALSE]

(* url.toString().toLowerCase(): the names of parameters are lowered as well.  *)
LowerCaseUrl(url) ==
    [url EXCEPT !.path = ToLowerCase(@),
                !.query = [i \in DOMAIN @ |-> <<ToLowerCase(@[i][1]), ToLowerCase(@[i][2])>>]]

(* An object's properties sorted by key: their order no longer matters. *)
canonicalizeUnknown(object) == ToSet(object)

canonicalKey(in) ==
    CASE in.kind = "telegram_handle" -> ToLowerCase(in.handle)
      [] in.kind = "telegram_url" -> LowerCaseUrl(in.url)
      [] in.kind = "telegram_miniapp_url" -> LowerCaseUrl(in.url)
      [] in.kind = "telegram_deeplink" ->
           [target |-> in.target, action |-> in.action, appShortName |-> in.appShortName,
            payload |-> in.payload, extras |-> canonicalizeUnknown(in.extras)]
      [] in.kind = "telegram_nft_link" -> ToLowerCase(in.slug)
      [] in.kind = "tonconnect_link" -> in.manifestUrl
      [] in.kind = "manifest_url" -> in.url
      [] in.kind = "generic_url" -> in.url
      [] in.kind = "ton_address" -> ToLowerCase(in.address)
      [] in.kind = "boc" -> in.boc
      [] in.kind = "transaction_json" -> canonicalizeUnknown(in.transaction)
      [] OTHER -> in.normalized

(* Mutant: web pages are keyed like Telegram URLs. *)
LoweredPageHash(in) ==
    [kind |-> in.kind, key |-> IF in.kind = "generic_url" THEN LowerCaseUrl(in.url) ELSE canonicalKey(in)]

canonicalInputHash(in) == [kind |-> in.kind, key |-> canonicalKey(in)]
=============================================================================
