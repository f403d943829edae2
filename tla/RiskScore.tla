------------------------------ MODULE RiskScore ------------------------------
(***************************************************************************)
(* The risk engine: every finding is an occurrence of a rule, which has a    *)
(* severity and a score; a report's score is the clamped sum of its          *)
(* findings', and its verdict the level that score has reached.              *)
(*                                                                         *)
(* No scanner passes createFinding a score of its own, so a finding is its   *)
(* rule and its confidence.  Categories and texts are left out.             *)
(***************************************************************************)
EXTENDS Integers, Sequences, FiniteSets

Rule(severity, scoreDelta) == [severity |-> severity, scoreDelta |-> scoreDelta]

-----------------------------------------------------------------------------
(* The catalog of rules.                                                     *)

GeneralRules ==
    [INPUT_UNKNOWN |-> Rule("info", 10),
     TONCONNECT_MANIFEST_ORIGIN_MISMATCH |-> Rule("high", 45),
     TONCONNECT_MANIFEST_EXTERNAL_HOST |-> Rule("low", 10),
     TONCONNECT_MANIFEST_URL_INVALID |-> Rule("medium", 30),
     TRANSACTION_OPAQUE_PAYLOAD |-> Rule("medium", 25),
     JETTON_UNKNOWN_ASSET |-> Rule("medium", 25),
     TONCONNECT_MANIFEST_SSRF_BLOCKED |-> Rule("high", 45),
     TONCONNECT_MANIFEST_FETCH_FAILED |-> Rule("medium", 20),
     TONCONNECT_MANIFEST_INVALID |-> Rule("medium", 20),
     TONCONNECT_MANIFEST_CONTENT_SUSPICIOUS |-> Rule("low", 10),
     TRANSACTION_MALFORMED_MESSAGE |-> Rule("medium", 25),
     TONCONNECT_PROJECT_IMPERSONATION |-> Rule("critical", 80)]

EmulationRules ==
    [EMULATION_SENDS_NEAR_FULL_BALANCE |-> Rule("critical", 80),
     EMULATION_WALLET_V5_AUTH_CHANGE |-> Rule("critical", 80),
     EMULATION_DEPLOYS_UNKNOWN_CONTRACT |-> Rule("high", 45),
     EMULATION_SCAM_PATTERN_DETECTED |-> Rule("high", 45),
     EMULATION_ABORTED |-> Rule("medium", 25),
     EMULATION_REVEALED_HIDDEN_ACTION |-> Rule("medium", 25),
     EMULATION_MISMATCH |-> Rule("high", 45),
     EMULATION_FAILED |-> Rule("low", 10),
     EMULATION_RATE_LIMITED |-> Rule("info", 5),
     EMULATION_PROVIDER_DOWN |-> Rule("low", 10),
     EMULATION_SKIPPED_NO_SENDER |-> Rule("info", 5),
     EMULATION_SKIPPED_NO_MESSAGES |-> Rule("info", 5),
     EMULATION_NOT_CONFIGURED |-> Rule("info", 5),
     EMULATION_SENDER_UNINITIALISED |-> Rule("info", 5)]

TelegramRules ==
    [TELEGRAM_BOT_API_NOT_CONFIGURED |-> Rule("info", 5),
     TELEGRAM_BOT_API_RATE_LIMITED |-> Rule("info", 5),
     TELEGRAM_BOT_API_PROVIDER_DOWN |-> Rule("low", 10),
     TELEGRAM_BOT_API_FAILED |-> Rule("low", 10),
     TELEGRAM_ENTITY_NOT_RESOLVABLE |-> Rule("info", 5),
     TELEGRAM_USERNAME_RECENTLY_CHANGED |-> Rule("medium", 25),
     TELEGRAM_INPUT_RECOGNISED_NOT_SCANNED |-> Rule("info", 5),
     TELEGRAM_HANDLE_IMPERSONATES_PROJECT |-> Rule("high", 45),
     TELEGRAM_DISPLAY_NAME_HOMOGLYPH |-> Rule("high", 45),
     TELEGRAM_ENTITY_VERY_NEW |-> Rule("low", 10),
     TELEGRAM_MINIAPP_CREDENTIAL_PHISHING |-> Rule("critical", 80),
     TELEGRAM_MINIAPP_APK_DOWNLOAD |-> Rule("critical", 80),
     TELEGRAM_MINIAPP_LURE_LANGUAGE |-> Rule("medium", 25)]

AbuseRules ==
    [TELEGRAM_GIFT_TON_ADDRESS_FOR_UPGRADE |-> Rule("high", 45),
     TELEGRAM_GIFT_LINK_NOT_VERIFIED |-> Rule("low", 10),
     TELEGRAM_BUSINESS_DEEPLINK_DANGEROUS_RIGHTS |-> Rule("critical", 80),
     TELEGRAM_BUSINESS_DEEPLINK_BROAD_RIGHTS |-> Rule("high", 45),
     TELEGRAM_GIFT_FROM_UNKNOWN_PUBLISHER |-> Rule("medium", 25),
     TELEGRAM_STARS_OFF_PROTOCOL_TON_DEMAND |-> Rule("high", 45),
     TELEGRAM_STARS_DISCOUNT_LURE |-> Rule("medium", 25),
     TELEGRAM_FAKE_WALLET_BOT |-> Rule("critical", 80),
     TELEGRAM_FAKE_VALIDATOR_BOT |-> Rule("high", 45),
     TELEGRAM_KNOWN_RISK_PROJECT |-> Rule("high", 45),
     TELEGRAM_USERNAME_FRAGMENT_HANDOFF |-> Rule("high", 45),
     TELEGRAM_FRAGMENT_API_NOT_CONFIGURED |-> Rule("info", 5),
     TELEGRAM_FRAGMENT_API_UNAVAILABLE |-> Rule("low", 10),
     TELEGRAM_MTPROTO_LOOKUP_UNAVAILABLE |-> Rule("low", 10)]

getCoreRule(rule) ==
    CASE rule \in DOMAIN GeneralRules -> GeneralRules[rule]
      [] rule \in DOMAIN EmulationRules -> EmulationRules[rule]
      [] rule \in DOMAIN TelegramRules -> TelegramRules[rule]
      [] OTHER -> AbuseRules[rule]

-----------------------------------------------------------------------------
(* Findings and what they add up to.                                         *)

Finding(rule, confidence) == [rule |-> rule, confidence |-> confidence]

(* Where a rule's findings stand.                                            *)
Of(findings, rule) == {i \in DOMAIN findings : findings[i].rule = rule}

clampRiskScore(score) == IF score < 0 THEN 0 ELSE IF score > 100 THEN 100 ELSE score

scoreFindings(findings) ==
    LET total[n \in 0 .. Len(findings)] ==
            IF n = 0 THEN 0 ELSE total[n - 1] + getCoreRule(findings[n].rule).scoreDelta
    IN  clampRiskScore(total[Len(findings)])

(* The levels above "safe" and the score each begins at.                      *)
Levels == <<<<"info", 20>>, <<"caution", 40>>, <<"high", 60>>, <<"critical", 80>>>>

(* How many levels a score has reached.                                       *)
Reached(score) == Cardinality({i \in DOMAIN Levels : score >= Levels[i][2]})

verdictFromScore(score) == IF Reached(score) = 0 THEN "safe" ELSE Levels[Reached(score)][1]

confidenceFromFindings(findings) ==
    LET seen == {findings[i].confidence : i \in DOMAIN findings}
    IN  IF "high" \in seen THEN "high" ELSE IF "medium" \in seen THEN "medium" ELSE "low"

(* The part of a report that its findings determine.                          *)
Report(findings) ==
    [verdict |-> verdictFromScore(scoreFindings(findings)),
     riskScore |-> scoreFindings(findings),
     confidence |-> confidenceFromFindings(findings),
     findings |-> findings]
=============================================================================
