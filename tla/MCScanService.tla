---------------------------- MODULE MCScanService ----------------------------
(***************************************************************************)
(* Instances of ScanService for TLC.  The inputs come in pairs that the     *)
(* dedup key is meant to merge or to keep apart.                            *)
(***************************************************************************)
EXTENDS ScanService, TLC

CONSTANTS api, bot,            \* processes
          r1, r2, r3           \* requests

Text(word) == [word |-> word, upper |-> FALSE]
Capitals(word) == [word |-> word, upper |-> TRUE]
Url(host, path) == [host |-> host, path |-> path, query |-> <<>>]

Handle == [kind |-> "telegram_handle", handle |-> Text("durov")]

(* t.me/durov and t.me/Durov. *)
HandleUrl(path) ==
    [kind |-> "telegram_url", url |-> Url("t.me", path), handle |-> plainHandle(Url("t.me", path))]

(* tg://resolve, which names the account in a parameter. *)
Resolve(domain, name) ==
    LET url == [host |-> "resolve", path |-> NullText, query |-> <<<<domain, name>>>>]
    IN  [kind |-> "telegram_url", url |-> url, handle |-> plainHandle(url)]

(* tg://addBusinessBot and t.me/bot?startbusiness with its extras. *)
AddBusinessBot(rights) ==
    [kind |-> "telegram_deeplink", target |-> Text("helper"), hasTarget |-> TRUE, action |-> "addBusinessBot",
     appShortName |-> NullText, payload |-> rights, extras |-> <<>>]
StartBusiness(extras) ==
    [kind |-> "telegram_deeplink", target |-> Text("helper"), hasTarget |-> TRUE, action |-> "startbusiness",
     appShortName |-> NullText, payload |-> "state", extras |-> extras]
(* tg://addBusinessBot without a bot, and with an empty one. *)
BotLink(empty) ==
    [kind |-> "telegram_deeplink", target |-> NullText, hasTarget |-> empty, action |-> "addBusinessBot",
     appShortName |-> NullText, payload |-> "few", extras |-> <<>>]

Gift(slug) == [kind |-> "telegram_nft_link", url |-> Url("t.me", slug), slug |-> slug]

Connect(requestId) ==
    [kind |-> "tonconnect_link", manifestUrl |-> Url("dapp", Text("manifest")),
     requestId |-> requestId]
Manifest == [kind |-> "manifest_url", url |-> Url("dapp", Text("manifest"))]
Page(path) == [kind |-> "generic_url", url |-> Url("site", path)]

Address == [kind |-> "ton_address", address |-> Capitals("eqaddress")]
Boc == [kind |-> "boc", boc |-> Text("te6cell")]
Transaction(properties, malformed) ==
    [kind |-> "transaction_json", transaction |-> properties, malformed |-> malformed]
Unknown(reason) == [kind |-> "unknown", normalized |-> "garbage", reason |-> reason]

Transfer == Transaction(<<<<"from", "wallet">>, <<"messages", "pay">>>>, FALSE)
TransferReordered == Transaction(<<<<"messages", "pay">>, <<"from", "wallet">>>>, FALSE)

(* Two links with one manifest: one key, answers that differ between scans.  *)
ConnectInputs == {Connect("one"), Connect("two")}

SomePages == {Page(Text("claim"))}

(* For every kind, inputs the dedup key must merge or keep apart. *)
AllInputs ==
    {Handle, HandleUrl(Text("durov")), HandleUrl(Capitals("durov")), HandleUrl(Text("joinchat")),
     Resolve(Text("domain"), Text("durov")), Resolve(Text("domain"), Capitals("durov")),
     Resolve(Text("domain"), Text("joinchat")), Resolve(Capitals("domain"), Text("durov")),
     AddBusinessBot("dangerous"), AddBusinessBot("broad"), BotLink(FALSE), BotLink(TRUE),
     StartBusiness(<<<<"rights", "broad">>, <<"mode", "x">>>>),
     StartBusiness(<<<<"mode", "x">>, <<"rights", "broad">>>>),
     Gift(Text("pepe-1")), Gift(Capitals("pepe-1")), Gift(Text("pepe-2")),
     Connect("one"), Connect("two"), Manifest, Page(Text("claim")), Page(Capitals("claim")),
     Address, Boc, Transfer, TransferReordered, Transaction(<<<<"messages", "bad">>>>, TRUE),
     Unknown("empty_input"), Unknown("unsupported_input_shape")}

(* Inputs of two kinds have two keys: requests for one kind at a time. *)
OneKind == \A r, s \in Requests : input[r].kind = input[s].kind

NoProviders == {{}}
SomeProviders == {{}, {"telegram"}, {"fragment"}, {"emulator", "mtproto"}}

(* The processes are alike when none is a bot. *)
Symmetry == Permutations(Requests) \cup Permutations(Processes)
=============================================================================
