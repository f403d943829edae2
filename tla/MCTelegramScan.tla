---------------------------- MODULE MCTelegramScan ----------------------------
(***************************************************************************)
(* Two scans over two names: one that resembles a wallet and one that does   *)
(* not, of which the first is a Fragment NFT.                               *)
(***************************************************************************)
EXTENDS TelegramScan, TLC

CONSTANTS fake, plain,  \* usernames
          s1, s2        \* scans

TheProfiles ==
    fake :> [strength |-> "near", category |-> "wallet", botSuffix |-> TRUE, riskProject |-> "none"]
        @@ plain :> [strength |-> "loose", category |-> "other", botSuffix |-> FALSE,
                     riskProject |-> "medium"]

(* A new bot that may have had another name, and a channel. *)
Bot(name) == [id |-> 1, kind |-> "bot", username |-> name, display |-> "similar", veryNew |-> "tight"]
Channel == [id |-> 2, kind |-> "channel", username |-> plain, display |-> "loose", veryNew |-> "none"]

TheEntities == {Bot(fake), Bot(plain), Channel}

Input(kind, handle, entity) == [kind |-> kind, handle |-> handle, entity |-> entity]

TheInputs ==
    {Input("channelOrSupergroup", fake, Null), Input("userOrBot", fake, Null),
     Input("numericId", Null, Channel), Input("forward", Null, Bot(plain)), Input("none", Null, Null)}

TheConfigs == {{"bot", "mtproto", "fragment"}, {"mtproto"}, {"fragment"}, {}}

(* To stay small, the world moves in some behaviours only: the clock and the    *)
(* chain where the scans use nothing but Fragment, shutdown where they do not.   *)
(* With nothing to resolve them the two kinds of handles are one.              *)
Calm ==
    /\ "fragment" \in config => \A k \in Signals : closing[k] = NotClosing
    /\ config # {"fragment"} => now = 0 /\ \A n \in Names : chain[n] = <<>>
    /\ config = {"fragment"} =>
          \A s \in Scans : scan[s] # Idle => scan[s].input.kind # "userOrBot"

CalmSpec == Init /\ [][Next /\ Calm']_vars /\ Fairness
=============================================================================
