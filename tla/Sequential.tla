----------------------------- MODULE Sequential -----------------------------
(***************************************************************************)
(* The code that runs without interleaving: the two entity stores under one  *)
(* caller's calls, or one input to the scanners' algorithms, which is picked  *)
(* once and judged.                                                         *)
(***************************************************************************)
EXTENDS EntityStoreMirror, TransactionScan, HandleSimilarity, IdAge,
        InputClassification

CONSTANTS Batches,   \* the inputs that may be picked, in batches
          Failures,  \* the HTTP statuses of a failed call
          Ids, Now   \* the ids whose age is asked for, and the day

(* What is picked is an input its code may be given.                           *)
ASSUME SamplesAssumption ==
    /\ \A batch \in Batches : \A s \in batch :
          /\ s.kind \in {"transaction", "pair", "candidate", "text", "anchors", "link"}
          /\ s.kind = "transaction" => s.tx \in Transactions /\ s.world \in Worlds
          /\ s.kind = "anchors" => s.rows \in Tables
          /\ s.kind = "link" => s.link \in Links
    /\ Failures \subseteq HttpStatuses \ {200}
    /\ Ids \subseteq Nat /\ Now \in Nat

VARIABLE sample

allVars == <<vars, sample>>

NoSample == [kind |-> "none"]

(* A batch, then one input of it.                                             *)
PickBatch ==
    /\ sample = NoSample /\ calls = 0
    /\ \E batch \in Batches : sample' = [kind |-> "batch", batch |-> batch]
    /\ UNCHANGED vars

PickInput ==
    /\ sample.kind = "batch"
    /\ sample' \in sample.batch
    /\ UNCHANGED vars

SequentialInit == Init /\ sample = NoSample

SequentialNext ==
    \/ sample = NoSample /\ Next /\ UNCHANGED sample
    \/ PickBatch
    \/ PickInput

SequentialSpec == SequentialInit /\ [][SequentialNext]_allVars

-----------------------------------------------------------------------------
(* For the transaction picked: every transfer that the emulation shows and the   *)
(* dApp did not declare is flagged (diff.ts).                                *)
UndeclaredTransfersAreFlagged ==
    sample.kind = "transaction" => UndeclaredIsFlagged(sample.tx, sample.world)

(* The static decoder and the request builder read the same list of messages, and  *)
(* in TON Connect's own keys the same payloads and deployments, so that an emulation *)
(* that shows what was sent flags none of the declared sends; one defect is         *)
(* reported once (basic-scan.ts, message-parser.ts, request-builder.ts, diff.ts). *)
MessagesAreReadAlike ==
    sample.kind = "transaction" =>
        /\ DecodersAgree(sample.tx, sample.world)
        /\ DeclaredIsNotHidden(sample.tx, sample.world)

(* A failing TONAPI makes no transaction look risky, whatever status its client's   *)
(* errors show or hide (emulation-scanner.ts, emulate.ts).                     *)
OutagesStayQuiet ==
    sample.kind = "transaction" =>
        \A status \in Failures : OutageIsQuiet(sample.tx, sample.world, status)

(* Edit distances, the best match and spread-out names are found                *)
(* (handle-similarity.ts).                                                   *)
HandlesAreJudged ==
    CASE sample.kind = "pair" -> DistanceIsHonest(sample.word, sample.other, sample.alphabet)
      [] sample.kind = "candidate" -> BestMatchIsFound(sample.word, sample.watchlist, sample.handle)
      [] sample.kind = "text" ->
            SpreadKeyIsFound(sample.before, sample.parts, sample.after,
                             [brand |-> "brand", matchKeys |-> <<Joined(sample.parts, <<>>)>>,
                              legitimateHandles |-> {}])
      [] OTHER -> TRUE

(* For the anchors picked: estimated ages follow the ids (id-age-estimator.ts).   *)
AgesFollowIds == sample.kind = "anchors" => AgeFollowsIds(sample.rows, Ids, Now)

(* For the link picked: it is read alike however it is written, and its dedup key   *)
(* stands for one scan (deeplink-parser.ts, classify-input.ts, canonical-hash.ts).  *)
LinksAreReadAlike == sample.kind = "link" => LinkIsReadAlike(sample.link)

(* A claim that the code does not keep (diff.ts): a send that TONAPI shows as      *)
(* something else is a labelling difference and not a mismatch.                *)
RelabelledSendsAreNotFlagged ==
    sample.kind = "transaction" => RelabelledIsNotFlagged(sample.tx, sample.world)

=============================================================================
