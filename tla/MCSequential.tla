---------------------------- MODULE MCSequential ----------------------------
(***************************************************************************)
(* Inputs of Sequential for TLC.                                             *)
(***************************************************************************)
EXTENDS Sequential

CONSTANTS e1, e2,   \* entities
          n1, n2,   \* usernames
          A, B      \* accounts

-----------------------------------------------------------------------------
(* Transactions: plain sends, and messages that depart from one in one field.   *)

PlainMessage(to, value) ==
    [to |-> to, toKey |-> "address", form |-> "friendly", value |-> value, amount |-> "string",
     payload |-> "absent", payloadKey |-> "payload", init |-> "absent", initKey |-> "stateInit",
     extra |-> "absent"]

Plain == {PlainMessage(to, value) : to \in {A, B}, value \in {1, 2}}

Odd ==
    LET m == PlainMessage(A, 1)
    IN  {[m EXCEPT !.toKey = k] : k \in {"to", "none"}}
        \cup {[m EXCEPT !.form = f] : f \in {"raw", "broken"}}
        \cup {[m EXCEPT !.amount = x] : x \in {"valueKey", "number", "text", "none"}}
        \cup {[m EXCEPT !.payload = p, !.payloadKey = k] :
                p \in {"emptyText", "notBoc", "emptyCell", "comment", "jetton", "nft", "other"},
                k \in {"payload", "body"}}
        \cup {[m EXCEPT !.init = i, !.initKey = k] :
                i \in {"emptyText", "notBoc", "given"}, k \in {"stateInit", "state_init", "init"}}
        \cup {[m EXCEPT !.extra = x] : x \in {"good", "badType", "badAmount"}}

Tx(from, list, messages) == [from |-> from, list |-> list, messages |-> messages]

UpTo(n, S) == UNION {[1 .. k -> S] : k \in 1 .. n}

PlainTxs == {Tx("given", "messages", ms) : ms \in UpTo(3, Plain)}

OddTxs ==
    {Tx("given", "messages", ms) : ms \in UpTo(2, Plain \cup Odd) \cup {<<>>}}
    \cup {Tx(from, list, <<m>>) : from \in {"given", "missing", "broken"},
                                  list \in {"messages", "msgs", "absent", "notArray"},
                                  m \in Plain \cup Odd}

(* Worlds: TONAPI answers, with some actions, or something fails.              *)
Action(kind, to, value, details) == [kind |-> kind, to |-> to, value |-> value, details |-> details]

SomeTransfers == {Action("ton_transfer", to, value, TRUE) : to \in {A, B}, value \in {1, 2}}

Relabelled == {Action("smart_contract_exec", A, 1, FALSE)}

OtherActions ==
    {Action(kind, A, 1, FALSE) : kind \in {"contract_deploy", "add_extension", "ton_transfer",
                                          "jetton_transfer", "nft_purchase", "unheard_of"}}

World(actions) ==
    [enabled |-> TRUE, getAccount |-> 200, account |-> "active", wallet |-> "known",
     getSeqno |-> 200, emulate |-> 200, thrown |-> "cause", actions |-> actions, nearFull |-> FALSE,
     aborted |-> FALSE, scam |-> FALSE]

AnsweringWorlds ==
    {World(as) : as \in UpTo(2, SomeTransfers \cup Relabelled \cup OtherActions)
                           \cup [1 .. 3 -> SomeTransfers \cup Relabelled]}

SomeFailures == {NoStatus, 302, 404, 429, 500, 503}

(* The client's errors show their status in the worlds where a call fails.          *)
OtherWorlds ==
    LET base == World(<<Action("ton_transfer", A, 1, TRUE)>>)
        w == [base EXCEPT !.thrown = "status"]
    IN  {base, w, World(<<>>), [w EXCEPT !.nearFull = TRUE, !.aborted = TRUE, !.scam = TRUE],
         [w EXCEPT !.enabled = FALSE], [w EXCEPT !.account = "uninit"],
         [w EXCEPT !.wallet = "unknown"], [w EXCEPT !.getAccount = 404],
         [w EXCEPT !.getSeqno = 429], [w EXCEPT !.emulate = 503]}

-----------------------------------------------------------------------------
(* Words, and long words two edits from a key, which short ones cannot resemble. *)

Words(n, alphabet) == UpTo(n, alphabet)

LongKey == [i \in 1 .. 12 |-> i]

Once == {[LongKey EXCEPT ![6] = 13], SubSeq(LongKey, 1, 11), <<13>> \o LongKey,
         [LongKey EXCEPT ![3] = 4, ![4] = 3]}

LongWords == UNION {Edits(word, {13}) : word \in Once}

Brand(name, keys_, handles) == [brand |-> name, matchKeys |-> keys_, legitimateHandles |-> handles]

ShortKeys == {<<1, 2, 3>>, <<1, 3, 2>>, <<1, 2>>, <<1, 2, 3, 1>>}

ShortLists ==
    {<<Brand("b1", ks, {"h1"}), Brand("b2", <<k>>, {"h2"})>> :
        ks \in ShortKeys \X ShortKeys, k \in ShortKeys}

LongLists ==
    {<<Brand("b1", <<Once1, LongKey>>, {"h1"}), Brand("b2", <<LongKey>>, {"h2"})>> : Once1 \in Once}

Tokens == {<<1>>, <<2>>, <<1, 2>>}

-----------------------------------------------------------------------------
(* Links: names that are entities, reserved, too short, or "nft"; parameters.    *)

Names == {Named("shop"), [word |-> "shop", upper |-> TRUE], Named("joinchat"), Named("ab"), Named("nft")}

Param(key, word) == <<Named(key), Named(word)>>

Params ==
    {Param("start", "few"), Param("start", "all"), Param("startbusiness", "state"),
     Param("attach", "shop"), Param("rights", "few"), Param("rights", "all"), Param("mode", "x"),
     <<[word |-> "start", upper |-> TRUE], Named("few")>>}

Bots == {Param("bot", "shop"), Param("domain", "shop"), Param("domain", "joinchat"), Param("domain", "ab")}

Link(scheme, host, segments, query) ==
    [scheme |-> scheme, host |-> Named(host), segments |-> segments, query |-> query]

Queries(params) == {<<>>} \cup UpTo(3, params)

WebLinks(segments) ==
    {Link("https", host, segments, query) :
        host \in {"t.me", "telegram.dog", "site"}, query \in {<<>>} \cup UpTo(2, Params)}

TgLinks ==
    {Link("tg", host, <<>>, query) :
        host \in {"resolve", "addbusinessbot", "settings"}, query \in Queries(Params \cup Bots)}

-----------------------------------------------------------------------------
(* The batches: a part of the input, and the inputs that have it.                *)

Scans(w) ==
    {[kind |-> "transaction", world |-> w, tx |-> tx] :
        tx \in (IF w \in AnsweringWorlds THEN PlainTxs ELSE {}) \cup (IF w \in OtherWorlds THEN OddTxs ELSE {})}

Pairs(a) == {[kind |-> "pair", word |-> a, other |-> b, alphabet |-> 1 .. 3] : b \in Words(3, 1 .. 3)}

Candidates(list, words) ==
    {[kind |-> "candidate", watchlist |-> list, word |-> a, handle |-> h] :
        a \in words, h \in {"h1", "h2", "h3"}}

TextSamples(parts) ==
    {[kind |-> "text", before |-> before, parts |-> parts, after |-> after] :
        before, after \in {<<>>} \cup {<<t>> : t \in Tokens}}

LinkSamples(links) == {[kind |-> "link", link |-> link] : link \in links}

SomeIds == 1 .. 13

Anchors(dates) ==
    {[kind |-> "anchors",
      rows |-> [i \in 1 .. 5 |-> [id |-> ids[i], date |-> (dates \o rest)[i]]]] :
        rest \in [1 .. 3 -> 1 .. 4], ids \in {<<9, 3, 5, 6, 8>>, <<3, 4, 6, 9, 10>>}}

MCBatches ==
    {Scans(w) : w \in AnsweringWorlds \cup OtherWorlds}
    \cup {Pairs(a) : a \in Words(3, 1 .. 3)}
    \cup {Candidates(l, Words(4, 1 .. 2) \cup ShortKeys) : l \in ShortLists}
    \cup {Candidates(l, LongWords) : l \in LongLists}
    \cup {TextSamples(parts) : parts \in {ps \in UpTo(4, Tokens) : Len(ps) > 1}}
    \cup {LinkSamples(links) : links \in {TgLinks} \cup {WebLinks(s) : s \in {<<>>} \cup UpTo(2, Names)}}
    \cup {Anchors(dates) : dates \in [1 .. 2 -> 1 .. 4]}
=============================================================================
