-------------------------------- MODULE IdAge --------------------------------
(***************************************************************************)
(* The age of a Telegram user or bot, told from its numeric id: the id is     *)
(* placed between ids whose dates are known.  Dates and ages are in days, as  *)
(* the anchors are; the code keeps fractions of a day between two anchors,    *)
(* here the day an id falls in, and ages count in those days.  The loader's    *)
(* demand for ten anchors is one for two.                                    *)
(***************************************************************************)
EXTENDS Positions

CONSTANTS HandAllocated,  \* HAND_ALLOCATED_CEILING
          PostMigration   \* POST_MIGRATION_FLOOR, a day

ASSUME IdAgeAssumption == HandAllocated \in Nat /\ PostMigration \in Int

(* Rows of the file, ids once each as the file has them.                        *)
Tables ==
    {rows \in Seq([id : Nat, date : Int]) : \A i, j \in DOMAIN rows : rows[i].id = rows[j].id => i = j}

NoEstimate == [band |-> "none"]

-----------------------------------------------------------------------------
(* The table: sorted by id, it keeps what is later than all it has kept.         *)

RankOf(rows, i) == Cardinality({j \in DOMAIN rows : rows[j].id <= rows[i].id})

SortedById(rows) == [k \in DOMAIN rows |-> rows[CHOOSE i \in DOMAIN rows : RankOf(rows, i) = k]]

(* Mutant: an anchor is kept if it is later than the one before it.              *)
SmoothedByNeighbour(sorted) ==
    Kept(sorted, {n \in DOMAIN sorted : n = 1 \/ sorted[n].date > sorted[n - 1].date})

(* maxDate: the date of the anchor kept last.                                  *)
Smoothed(sorted) ==
    LET maxDate[n \in DOMAIN sorted] ==
            IF n = 1 \/ sorted[n].date > maxDate[n - 1] THEN sorted[n].date ELSE maxDate[n - 1]
    IN  Kept(sorted, {n \in DOMAIN sorted : n = 1 \/ sorted[n].date > maxDate[n - 1]})

loadAnchors(rows) == Smoothed(SortedById(rows))

-----------------------------------------------------------------------------
(* The binary search for the first anchor above an id, or the last one.         *)
Upper(anchors, id) ==
    LET n == Len(anchors)
        search[r \in (1 .. n) \X (1 .. n)] ==
            LET lo == r[1]
                hi == r[2]
                mid == (lo + hi) \div 2
            IN  IF lo >= hi THEN lo
                ELSE IF anchors[mid].id <= id THEN search[<<mid + 1, hi>>]
                ELSE search[<<lo, mid>>]
    IN  search[<<1, n>>]

findFlankingAnchors(anchors, id) ==
    LET k == Upper(anchors, id)
    IN  [lower |-> anchors[IF k = 1 THEN 1 ELSE k - 1], upper |-> anchors[k]]

(* On the line through two anchors; an extrapolation starts from the second.     *)
OnLine(from, to, start, id) ==
    start.date + ((to.date - from.date) * (id - start.id)) \div (to.id - from.id)

interpolate(lower, upper, id) ==
    IF upper.id = lower.id THEN lower.date ELSE OnLine(lower, upper, lower, id)

extrapolate(prev, last, id) ==
    IF last.id = prev.id THEN last.date ELSE OnLine(prev, last, last, id)

classifyBand(lower, upper) ==
    LET gap == upper.date - lower.date
    IN  CASE upper.date >= PostMigration -> IF gap <= 60 THEN "moderate" ELSE "wide"
          [] upper.date < PostMigration /\ gap <= 35 -> "tight"
          [] upper.date < PostMigration /\ gap \in 36 .. 90 -> "moderate"
          [] OTHER -> "wide"

buildEstimate(date, band, lower, upper, extrapolated, now) ==
    [estimatedCreatedAt |-> date, band |-> band, lowerAnchor |-> lower, upperAnchor |-> upper,
     extrapolated |-> extrapolated, ageDays |-> IF now > date THEN now - date ELSE 0]

estimateUserOrBotIdAge(anchors, id, now) ==
    LET first == anchors[1]
        last == anchors[Len(anchors)]
        prev == anchors[Len(anchors) - 1]
        flanking == findFlankingAnchors(anchors, id)
    IN  CASE id < HandAllocated -> NoEstimate
          [] id >= HandAllocated /\ id < first.id ->
                buildEstimate(first.date, "wide", first, first, FALSE, now)
          [] id >= HandAllocated /\ id > last.id ->
                buildEstimate(extrapolate(prev, last, id), "wide", prev, last, TRUE, now)
          [] OTHER ->
                buildEstimate(interpolate(flanking.lower, flanking.upper, id),
                              classifyBand(flanking.lower, flanking.upper),
                              flanking.lower, flanking.upper, FALSE, now)

isLikelyVeryNew(estimate, threshold) == estimate.ageDays <= threshold

-----------------------------------------------------------------------------
(* Ages follow ids, though a third of the public anchors stand in the wrong       *)
(* order: no id is told older than a smaller id, or than an anchor at or below    *)
(* it, so what is very new stays so for every later id; and the anchors an        *)
(* estimate names as evidence have nothing between them but the id.             *)
AgeFollowsIds(rows, ids, now) ==
    LET anchors == loadAnchors(rows)
        estimate == [id \in ids |-> estimateUserOrBotIdAge(anchors, id, now)]
        dated == {id \in ids : estimate[id] # NoEstimate}
    IN  Len(anchors) > 1 => \A id \in dated :
            LET e == estimate[id]
            IN  /\ \A later \in dated : later > id =>
                      /\ e.estimatedCreatedAt <= estimate[later].estimatedCreatedAt
                      /\ isLikelyVeryNew(e, 1) => isLikelyVeryNew(estimate[later], 1)
                /\ \A i \in DOMAIN rows : rows[i].id <= id => rows[i].date <= e.estimatedCreatedAt
                /\ id \in anchors[1].id .. anchors[Len(anchors)].id =>
                      /\ id \in e.lowerAnchor.id .. e.upperAnchor.id
                      /\ \A k \in DOMAIN anchors :
                            anchors[k].id \notin e.lowerAnchor.id + 1 .. e.upperAnchor.id - 1
=============================================================================
