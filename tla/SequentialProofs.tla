-------------------------- MODULE SequentialProofs --------------------------
(***************************************************************************)
(* Proofs about the code that runs without interleaving, for every            *)
(* transaction, state of TONAPI, table of anchors and link.                  *)
(***************************************************************************)
EXTENDS Sequential, EntityStoreMirrorProofs

-----------------------------------------------------------------------------
(* Sequences and counts                                                     *)

(* Array.filter drops nothing if the condition holds everywhere.                *)
LEMMA KeptAll ==
    ASSUME NEW E, NEW s \in Seq(E), NEW P, P = DOMAIN s
    PROVE  Kept(s, P) = s
<1> DEFINE n == Len(s)
<1>1. n \in Nat /\ P = 1 .. n /\ P \in SUBSET (1 .. n) /\ s = [k \in 1 .. n |-> s[k]]
  OBVIOUS
<1> HIDE DEF n
<1>2. IsFiniteSet(P) /\ Cardinality(P) = n
  BY <1>1, FS_Interval
<1>3. \A k \in 1 .. n : Cardinality({j \in P : j <= k}) = k
  <2> TAKE k \in 1 .. n
  <2>1. {j \in P : j <= k} = 1 .. k /\ k \in Nat
    BY <1>1
  <2>2. Cardinality(1 .. k) = k
    BY <2>1, FS_Interval
  <2> QED
    BY <2>1, <2>2
<1>4. /\ \A k \in P : \E i \in 1 .. n : Nth(P, i) = k
      /\ \A i \in 1 .. n : Nth(P, i) \in P /\ Cardinality({j \in P : j <= Nth(P, i)}) = i
  BY <1>1, <1>2, NthPosition
<1>5. \A i \in 1 .. n : Nth(P, i) = i
  BY <1>1, <1>3, <1>4
<1>6. Kept(s, P) = [k \in 1 .. n |-> s[Nth(P, k)]]
  BY <1>2 DEF Kept
<1> QED
  BY <1>1, <1>5, <1>6

(* What filter leaves.                                                       *)
LEMMA KeptIsSeq ==
    ASSUME NEW E, NEW s \in Seq(E), NEW P \in SUBSET DOMAIN s
    PROVE  /\ Kept(s, P) \in Seq(E)
           /\ Len(Kept(s, P)) = Cardinality(P)
           /\ IsFiniteSet(P) /\ Cardinality(P) \in Nat
<1>1. DOMAIN s = 1 .. Len(s) /\ Len(s) \in Nat
  OBVIOUS
<1>2. Kept(s, P) \in Seq(E) /\ Len(Kept(s, P)) = Cardinality(P)
  BY KeptEntries
<1>3. IsFiniteSet(P) /\ Cardinality(P) \in Nat
  BY <1>1, NthPosition
<1> QED
  BY <1>2, <1>3

LEMMA Subpositions ==
    ASSUME NEW E, NEW s \in Seq(E), NEW P \in SUBSET DOMAIN s
    PROVE  IsFiniteSet(P) /\ Cardinality(P) \in Nat
BY KeptIsSeq

(* A rule's findings in two lists, one after the other.                        *)
LEMMA CountOfConcat ==
    ASSUME NEW E, NEW s \in Seq(E), NEW t \in Seq(E), NEW rule
    PROVE  /\ s \o t \in Seq(E)
           /\ Cardinality(Of(s \o t, rule)) = Cardinality(Of(s, rule)) + Cardinality(Of(t, rule))
           /\ Cardinality(Of(s, rule)) \in Nat /\ Cardinality(Of(t, rule)) \in Nat
<1> DEFINE n == Len(s)
           m == Len(t)
           u == s \o t
           S == Of(s, rule)
           T == Of(t, rule)
           shift == [i \in T |-> i + n]
           Q == {i \in Of(u, rule) : i > n}
<1>1. /\ n \in Nat /\ m \in Nat /\ DOMAIN s = 1 .. n /\ DOMAIN t = 1 .. m /\ DOMAIN u = 1 .. n + m
      /\ \A i \in 1 .. n : u[i] = s[i]
      /\ \A i \in 1 .. m : u[i + n] = t[i]
      /\ u \in Seq(E)
  OBVIOUS
<1>2. S \in SUBSET DOMAIN s /\ T \in SUBSET DOMAIN t /\ Of(u, rule) \in SUBSET DOMAIN u
  BY DEF Of
<1>3. /\ IsFiniteSet(S) /\ Cardinality(S) \in Nat
      /\ IsFiniteSet(T) /\ Cardinality(T) \in Nat
  BY <1>2, Subpositions
<1> HIDE DEF n, m, u
<1>4. Of(u, rule) = S \cup Q /\ S \cap Q = {}
  <2>1. \A i \in DOMAIN u : i \in 1 .. n \/ i > n
    BY <1>1
  <2>2. \A i \in 1 .. n : i \in DOMAIN u /\ ~(i > n)
    BY <1>1
  <2> QED
    BY <1>1, <2>1, <2>2 DEF Of
<1>5. shift \in Surjection(T, Q)
  <2>1. \A i \in T : i + n \in Q
    <3> TAKE i \in T
    <3>1. i \in 1 .. m /\ t[i].rule = rule
      BY <1>1 DEF Of
    <3>2. i + n \in 1 .. n + m /\ i + n > n
      BY <1>1, <3>1
    <3>3. u[i + n].rule = rule
      BY <1>1, <3>1
    <3> QED
      BY <1>1, <3>2, <3>3 DEF Of
  <2>2. \A k \in Q : \E i \in T : i + n = k
    <3> TAKE k \in Q
    <3>1. k \in 1 .. n + m /\ k > n /\ u[k].rule = rule
      BY <1>1 DEF Of
    <3>2. k - n \in 1 .. m /\ (k - n) + n = k
      BY <1>1, <3>1
    <3>3. k - n \in T
      BY <1>1, <3>1, <3>2 DEF Of
    <3> QED
      BY <3>2, <3>3
  <2> HIDE DEF Q, T
  <2> QED
    BY <2>1, <2>2 DEF Surjection
<1>6. shift \in Injection(T, Q)
  <2>1. T \subseteq Int
    BY <1>1, <1>2
  <2>2. \A i \in T, j \in T : i + n = j + n => i = j
    BY <1>1, <2>1
  <2> HIDE DEF Q, T
  <2> QED
    BY <1>5, <2>2 DEF Surjection, Injection, IsInjective
<1> HIDE DEF S, T, Q, shift
<1>7. IsFiniteSet(Q) /\ Cardinality(Q) = Cardinality(T)
  BY <1>3, <1>5, <1>6, FS_Surjection
<1>8. Cardinality(S \cup Q) = Cardinality(S) + Cardinality(Q)
  <2>1. Cardinality(S \cap Q) = 0
    BY <1>4, FS_EmptySet
  <2>2. Cardinality(S \cup Q) = Cardinality(S) + Cardinality(Q) - Cardinality(S \cap Q)
    BY <1>3, <1>7, FS_Union
  <2> QED
    BY <1>3, <1>7, <2>1, <2>2
<1>9. Cardinality(Of(u, rule)) = Cardinality(S) + Cardinality(T)
  BY <1>4, <1>7, <1>8
<1> QED
  BY <1>1, <1>3, <1>9 DEF u, S, T

(* What the two scans can report.                                            *)
Confidences == {"low", "medium", "high"}
ScanRules == {"TRANSACTION_MALFORMED_MESSAGE", "TRANSACTION_OPAQUE_PAYLOAD",
     "EMULATION_SENDS_NEAR_FULL_BALANCE", "EMULATION_WALLET_V5_AUTH_CHANGE", "EMULATION_DEPLOYS_UNKNOWN_CONTRACT",
     "EMULATION_SCAM_PATTERN_DETECTED", "EMULATION_ABORTED", "EMULATION_REVEALED_HIDDEN_ACTION",
     "EMULATION_MISMATCH", "EMULATION_FAILED", "EMULATION_RATE_LIMITED", "EMULATION_PROVIDER_DOWN",
     "EMULATION_SKIPPED_NO_SENDER", "EMULATION_SKIPPED_NO_MESSAGES", "EMULATION_NOT_CONFIGURED",
     "EMULATION_SENDER_UNINITIALISED"}
Findings == [rule : ScanRules, confidence : Confidences]

(* A rule's findings among none, in one finding and in copies of one.            *)
LEMMA CountOfOne ==
    ASSUME NEW rule \in ScanRules, NEW confidence \in Confidences, NEW other
    PROVE  /\ <<Finding(rule, confidence)>> \in Seq(Findings)
           /\ Cardinality(Of(<<Finding(rule, confidence)>>, other)) = (IF rule = other THEN 1 ELSE 0)
           /\ <<>> \in Seq(Findings)
           /\ Cardinality(Of(<<>>, other)) = 0
<1>1. Cardinality({}) = 0 /\ Cardinality({1}) = 1
  BY FS_EmptySet, FS_Singleton
<1>2. Of(<<>>, other) = {}
  BY DEF Of
<1>3. Of(<<Finding(rule, confidence)>>, other) = IF rule = other THEN {1} ELSE {}
  BY DEF Of, Finding
<1>4. Finding(rule, confidence) \in Findings
  BY DEF Finding, Findings
<1>5. <<Finding(rule, confidence)>> \in Seq(Findings) /\ <<>> \in Seq(Findings)
  BY <1>4
<1>6. Cardinality(Of(<<Finding(rule, confidence)>>, other)) = IF rule = other THEN 1 ELSE 0
  BY <1>1, <1>3
<1> QED
  BY <1>1, <1>2, <1>5, <1>6

(* A finding reported on a condition.                                         *)
LEMMA CountOfAtMostOne ==
    ASSUME NEW rule \in ScanRules, NEW confidence \in Confidences, NEW other \in ScanRules,
           NEW t \in {<<>>, <<Finding(rule, confidence)>>}
    PROVE  /\ t \in Seq(Findings)
           /\ \A i \in DOMAIN t : t[i].rule = rule
           /\ Cardinality(Of(t, other)) = IF t # <<>> /\ rule = other THEN 1 ELSE 0
<1>1. CASE t = <<>>
  <2>1. \A i \in DOMAIN t : t[i].rule = rule
    BY <1>1
  <2>2. t \in Seq(Findings) /\ Cardinality(Of(t, other)) = 0
    BY <1>1, CountOfOne
  <2> QED
    BY <1>1, <2>1, <2>2
<1>2. CASE t = <<Finding(rule, confidence)>>
  <2>1. \A i \in DOMAIN t : t[i].rule = rule
    BY <1>2 DEF Finding
  <2>2. t \in Seq(Findings) /\ Cardinality(Of(t, other)) = IF rule = other THEN 1 ELSE 0
    BY <1>2, CountOfOne
  <2>3. t # <<>>
    BY <1>2
  <2> QED
    BY <2>1, <2>2, <2>3
<1> QED
  BY <1>1, <1>2

LEMMA OtherRule ==
    ASSUME NEW rule \in ScanRules, NEW confidence \in Confidences, NEW other \in ScanRules, rule # other,
           NEW t \in {<<>>, <<Finding(rule, confidence)>>}
    PROVE  Cardinality(Of(t, other)) = 0
<1>1. CASE t = <<>>
  BY <1>1, CountOfOne
<1>2. CASE t = <<Finding(rule, confidence)>>
  BY <1>2, CountOfOne
<1> QED
  BY <1>1, <1>2

LEMMA CountOfCopies ==
    ASSUME NEW n \in Nat, NEW rule \in ScanRules, NEW confidence \in Confidences, NEW other
    PROVE  /\ Copies(n, rule, confidence) \in Seq(Findings)
           /\ Cardinality(Of(Copies(n, rule, confidence), other)) = (IF rule = other THEN n ELSE 0)
<1>1. Copies(n, rule, confidence) \in Seq(Findings)
  BY DEF Copies, Finding, Findings
<1>2. CASE rule = other
  <2>1. Of(Copies(n, rule, confidence), other) = 1 .. n
    BY <1>2 DEF Of, Copies, Finding
  <2>2. Cardinality(1 .. n) = n
    BY FS_Interval
  <2> QED
    BY <1>1, <1>2, <2>1, <2>2
<1>3. CASE rule # other
  <2>1. Of(Copies(n, rule, confidence), other) = {}
    BY <1>3 DEF Of, Copies, Finding
  <2> QED
    BY <1>1, <1>3, <2>1, FS_EmptySet
<1> QED
  BY <1>2, <1>3

-----------------------------------------------------------------------------
(* Scores                                                                   *)

(* A cumulative total over positions exists and is unique.                      *)
LEMMA CumulativeTotal ==
    ASSUME NEW n \in Nat, NEW d \in [1 .. n -> Int]
    PROVE  \E t \in [0 .. n -> Int] : t[0] = 0 /\ \A k \in 1 .. n : t[k] = t[k - 1] + d[k]
<1> DEFINE Adds(t, m) == t[0] = 0 /\ \A k \in 1 .. m : t[k] = t[k - 1] + d[k]
           Without == {m \in 1 .. n : ~\E t \in [0 .. m -> Int] : Adds(t, m)}
<1>1. \E t \in [0 .. 0 -> Int] : Adds(t, 0)
  <2> DEFINE t == [k \in 0 .. 0 |-> 0]
  <2>1. t \in [0 .. 0 -> Int] /\ Adds(t, 0)
    OBVIOUS
  <2> HIDE DEF Adds, t
  <2> QED
    BY <2>1
<1>2. ASSUME NEW m \in 1 .. n, NEW t \in [0 .. m - 1 -> Int], Adds(t, m - 1)
      PROVE  \E u \in [0 .. m -> Int] : Adds(u, m)
  <2> DEFINE u == [k \in 0 .. m |-> IF k = m THEN t[m - 1] + d[m] ELSE t[k]]
  <2>1. u \in [0 .. m -> Int]
    <3>1. t[m - 1] \in Int /\ d[m] \in Int
      OBVIOUS
    <3>2. \A k \in 0 .. m : k # m => k \in 0 .. m - 1
      OBVIOUS
    <3> QED
      BY <3>1, <3>2
  <2>2. Adds(u, m)
    <3>1. u[0] = 0
      BY <1>2
    <3>2. ASSUME NEW k \in 1 .. m
          PROVE  u[k] = u[k - 1] + d[k]
      <4>1. k \in 0 .. m /\ k - 1 \in 0 .. m /\ k - 1 # m
        OBVIOUS
      <4>2. u[k - 1] = t[k - 1]
        BY <4>1
      <4>3. CASE k = m
        BY <4>1, <4>2, <4>3
      <4>4. CASE k # m
        <5>1. k \in 1 .. m - 1 /\ u[k] = t[k]
          BY <4>1, <4>4
        <5> QED
          BY <1>2, <4>2, <5>1
      <4> QED
        BY <4>3, <4>4
    <3> HIDE DEF u
    <3> QED
      BY <3>1, <3>2
  <2> HIDE DEF Adds, u
  <2> QED
    BY <2>1, <2>2
<1> HIDE DEF Adds
<1>3. Without = {}
  <2> SUFFICES ASSUME Without # {}
               PROVE  FALSE
    OBVIOUS
  <2>1. PICK m \in 1 .. n : m \in Without /\ \A k \in Without : m <= k
    <3>1. Without \in SUBSET (1 .. n)
      OBVIOUS
    <3> HIDE DEF Without
    <3> QED
      BY <3>1, FirstPosition
  <2>2. \E t \in [0 .. m - 1 -> Int] : Adds(t, m - 1)
    <3>1. CASE m = 1
      <4>1. m - 1 = 0
        BY <3>1
      <4> QED
        BY <1>1, <4>1
    <3>2. CASE m # 1
      <4>1. m - 1 \in 1 .. n /\ ~(m <= m - 1)
        BY <3>2
      <4>2. m - 1 \notin Without
        BY <2>1, <4>1
      <4> QED
        BY <4>1, <4>2
    <3> QED
      BY <3>1, <3>2
  <2>3. \E t \in [0 .. m -> Int] : Adds(t, m)
    BY <1>2, <2>2
  <2> QED
    BY <2>1, <2>3
<1>4. \E t \in [0 .. n -> Int] : Adds(t, n)
  <2>1. CASE n = 0
    BY <1>1, <2>1
  <2>2. CASE n # 0
    <3>1. n \in 1 .. n
      BY <2>2
    <3> QED
      BY <1>3, <3>1
  <2> QED
    BY <2>1, <2>2
<1> QED
  BY <1>4 DEF Adds

LEMMA SameTotals ==
    ASSUME NEW n \in Nat, NEW t, NEW u, t[0] = u[0],
           \A k \in 1 .. n : t[k - 1] = u[k - 1] => t[k] = u[k]
    PROVE  t[n] = u[n]
<1> DEFINE Apart == {k \in 1 .. n : t[k] # u[k]}
<1>1. Apart = {}
  <2> SUFFICES ASSUME Apart # {}
               PROVE  FALSE
    OBVIOUS
  <2>1. PICK k \in 1 .. n : k \in Apart /\ \A l \in Apart : k <= l
    <3>1. Apart \in SUBSET (1 .. n)
      OBVIOUS
    <3> HIDE DEF Apart
    <3> QED
      BY <3>1, FirstPosition
  <2>2. CASE k = 1
    <3>1. t[k - 1] = u[k - 1]
      BY <2>2
    <3> QED
      BY <2>1, <3>1
  <2>3. CASE k # 1
    <3>1. k - 1 \in 1 .. n /\ ~(k <= k - 1)
      BY <2>3
    <3>2. t[k - 1] = u[k - 1]
      BY <2>1, <3>1
    <3> QED
      BY <2>1, <3>2
  <2> QED
    BY <2>2, <2>3
<1>2. CASE n = 0
  BY <1>2
<1>3. CASE n # 0
  <2>1. n \in 1 .. n
    BY <1>3
  <2> QED
    BY <1>1, <2>1
<1> QED
  BY <1>2, <1>3

(* A score is the clamped total of what its findings add.                        *)
LEMMA ScoreIsTotal ==
    ASSUME NEW E, NEW s \in Seq(E), \A i \in DOMAIN s : getCoreRule(s[i].rule).scoreDelta \in Int
    PROVE  \E t \in [0 .. Len(s) -> Int] :
              /\ t[0] = 0
              /\ \A k \in 1 .. Len(s) : t[k] = t[k - 1] + getCoreRule(s[k].rule).scoreDelta
              /\ scoreFindings(s) = clampRiskScore(t[Len(s)])
<1> DEFINE n == Len(s)
           d == [k \in 1 .. n |-> getCoreRule(s[k].rule).scoreDelta]
           Step(f) == [k \in 0 .. n |-> IF k = 0 THEN 0 ELSE f[k - 1] + getCoreRule(s[k].rule).scoreDelta]
           t == CHOOSE f : f = Step(f)
<1>1. n \in Nat /\ d \in [1 .. n -> Int]
  OBVIOUS
<1>2. PICK u \in [0 .. n -> Int] : u[0] = 0 /\ \A k \in 1 .. n : u[k] = u[k - 1] + d[k]
  <2> HIDE DEF n, d
  <2> QED
    BY <1>1, CumulativeTotal
<1>3. u = Step(u)
  <2>1. \A k \in 0 .. n : u[k] = IF k = 0 THEN 0 ELSE u[k - 1] + getCoreRule(s[k].rule).scoreDelta
    <3> TAKE k \in 0 .. n
    <3>1. k # 0 => k \in 1 .. n
      BY <1>1
    <3> QED
      BY <1>2, <3>1
  <2>2. u = [k \in 0 .. n |-> u[k]]
    OBVIOUS
  <2> QED
    BY <2>1, <2>2
<1>4. t = Step(t)
  <2> HIDE DEF Step
  <2> QED
    BY <1>3
<1>5. scoreFindings(s) = clampRiskScore(t[n])
  BY DEF scoreFindings
<1> HIDE DEF t
<1>6. t[0] = 0 /\ \A k \in 1 .. n : t[k] = t[k - 1] + d[k]
  <2>1. 0 \in 0 .. n /\ \A k \in 1 .. n : k \in 0 .. n /\ k # 0
    BY <1>1
  <2> QED
    BY <1>4, <2>1
<1>7. \A k \in 0 .. n : t[k] = u[k]
  <2> TAKE m \in 0 .. n
  <2>1. m \in Nat /\ \A k \in 1 .. m : k \in 1 .. n
    BY <1>1
  <2>2. \A k \in 1 .. m : t[k - 1] = u[k - 1] => t[k] = u[k]
    BY <1>2, <1>6, <2>1
  <2>3. t[0] = u[0]
    BY <1>2, <1>6
  <2> HIDE DEF d, n
  <2> QED
    BY <2>1, <2>2, <2>3, SameTotals
<1>8. t[n] = u[n]
  BY <1>1, <1>7
<1> QED
  BY <1>2, <1>5, <1>8

(* How many levels a score has reached.                                       *)
LEMMA ReachedLevels ==
    ASSUME NEW score \in Int
    PROVE  Reached(score) = IF score < 20 THEN 0 ELSE IF score < 40 THEN 1 ELSE IF score < 60 THEN 2
                            ELSE IF score < 80 THEN 3 ELSE 4
<1> DEFINE n == IF score < 20 THEN 0 ELSE IF score < 40 THEN 1 ELSE IF score < 60 THEN 2
                ELSE IF score < 80 THEN 3 ELSE 4
<1>1. \A i \in 1 .. 4 : score >= Levels[i][2] <=> i <= n
  <2>1. Levels[1][2] = 20 /\ Levels[2][2] = 40 /\ Levels[3][2] = 60 /\ Levels[4][2] = 80
    BY DEF Levels
  <2>2. \A i \in 1 .. 4 : i = 1 \/ i = 2 \/ i = 3 \/ i = 4
    OBVIOUS
  <2> QED
    BY <2>1, <2>2
<1>2. DOMAIN Levels = 1 .. 4
  BY DEF Levels
<1>3. n \in 0 .. 4
  OBVIOUS
<1> HIDE DEF n
<1>4. {i \in DOMAIN Levels : score >= Levels[i][2]} = 1 .. n
  <2>1. \A i \in 1 .. n : i \in 1 .. 4 /\ i <= n
    BY <1>3
  <2>2. \A i \in 1 .. 4 : i <= n => i \in 1 .. n
    BY <1>3
  <2> QED
    BY <1>1, <1>2, <2>1, <2>2
<1>5. Cardinality(1 .. n) = n
  <2>1. n \in Nat /\ n \in Int
    BY <1>3
  <2>2. CASE n = 0
    <3>1. 1 .. n = {}
      BY <2>2
    <3> QED
      BY <2>2, <3>1, FS_EmptySet
  <2>3. CASE n # 0
    <3>1. 1 <= n
      BY <2>1, <2>3
    <3> QED
      BY <2>1, <3>1, FS_Interval
  <2> QED
    BY <2>2, <2>3
<1>6. Reached(score) = n
  BY <1>4, <1>5 DEF Reached
<1> QED
  BY <1>6 DEF n

(* Another finding of at most ten points reaches at most one level more.          *)
LEMMA OneMoreFinding ==
    ASSUME NEW E, NEW s \in Seq(E), NEW f \in E,
           \A i \in DOMAIN s : getCoreRule(s[i].rule).scoreDelta \in Nat,
           getCoreRule(f.rule).scoreDelta \in 0 .. 10
    PROVE  /\ Reached(scoreFindings(s \o <<f>>)) <= Reached(scoreFindings(s)) + 1
           /\ s = <<>> => Reached(scoreFindings(s \o <<f>>)) = 0
<1> DEFINE n == Len(s)
           v == s \o <<f>>
<1>1. /\ n \in Nat /\ Len(v) = n + 1 /\ DOMAIN v = 1 .. n + 1 /\ DOMAIN s = 1 .. n
      /\ v \in Seq(E)
      /\ \A i \in 1 .. n : v[i] = s[i]
      /\ v[n + 1] = f
  OBVIOUS
<1>2. PICK t \in [0 .. n -> Int] :
         /\ t[0] = 0
         /\ \A k \in 1 .. n : t[k] = t[k - 1] + getCoreRule(s[k].rule).scoreDelta
         /\ scoreFindings(s) = clampRiskScore(t[n])
  BY ScoreIsTotal
<1> HIDE DEF v
<1>3. \A i \in DOMAIN v : getCoreRule(v[i].rule).scoreDelta \in Int
  <2> TAKE i \in DOMAIN v
  <2>1. i \in 1 .. n \/ i = n + 1
    BY <1>1
  <2> QED
    BY <1>1, <2>1
<1>4. PICK u \in [0 .. n + 1 -> Int] :
         /\ u[0] = 0
         /\ \A k \in 1 .. n + 1 : u[k] = u[k - 1] + getCoreRule(v[k].rule).scoreDelta
         /\ scoreFindings(v) = clampRiskScore(u[n + 1])
  BY <1>1, <1>3, ScoreIsTotal
<1> HIDE DEF n
<1>5. t[n] = u[n]
  <2>1. \A k \in 1 .. n : k \in 1 .. n + 1
    BY <1>1
  <2>2. \A k \in 1 .. n : t[k - 1] = u[k - 1] => t[k] = u[k]
    BY <1>1, <1>2, <1>4, <2>1
  <2>3. t[0] = u[0] /\ n \in Nat
    BY <1>1, <1>2, <1>4
  <2> QED
    BY <2>2, <2>3, SameTotals
<1>6. PICK delta \in 0 .. 10 : u[n + 1] = u[n] + delta
  <2>1. n + 1 \in 1 .. n + 1 /\ (n + 1) - 1 = n
    BY <1>1
  <2> QED
    BY <1>1, <1>4, <2>1
<1>7. PICK x \in Int : x = t[n]
  BY <1>1
<1>8. scoreFindings(s) = clampRiskScore(x) /\ scoreFindings(v) = clampRiskScore(x + delta)
  BY <1>2, <1>4, <1>5, <1>6, <1>7
<1>9. clampRiskScore(x) \in Int /\ clampRiskScore(x + delta) \in Int
  BY DEF clampRiskScore
<1>10. Reached(clampRiskScore(x + delta)) <= Reached(clampRiskScore(x)) + 1
  <2>1. PICK a \in Int, b \in Int :
           /\ a = clampRiskScore(x) /\ b = clampRiskScore(x + delta)
           /\ b <= a + 10
    BY <1>9 DEF clampRiskScore
  <2> QED
    BY <2>1, ReachedLevels
<1>11. ASSUME s = <<>>
       PROVE  Reached(clampRiskScore(x + delta)) = 0
  <2>1. n = 0
    BY <1>11 DEF n
  <2>2. x = 0
    BY <1>2, <1>7, <2>1
  <2>3. clampRiskScore(x + delta) < 20
    BY <2>2 DEF clampRiskScore
  <2> QED
    BY <1>9, <2>3, ReachedLevels
<1> QED
  BY <1>8, <1>10, <1>11 DEF v

-----------------------------------------------------------------------------
(* The two decoders                                                         *)

Payloads == {"none", "ton_comment", "jetton_transfer", "nft_transfer", "opaque"}

ParsedMessages == [to : Accounts, value : Nat, payload : Payloads, hasStateInit : BOOLEAN]

WellFormed(tx) == {i \in DOMAIN Entries(tx) : IsWellFormed(Entries(tx)[i])}

(* What the static decode says: one finding if any entry is malformed, one for     *)
(* every opaque payload, and the entries that are not malformed, in order.       *)
LEMMA StaticDecode ==
    ASSUME NEW tx \in Transactions
    PROVE  LET static == scanTransactionJson(tx)
           IN  /\ WellFormed(tx) \in SUBSET DOMAIN Entries(tx)
               /\ Entries(tx) \in Seq(Messages)
               /\ Kept(Entries(tx), WellFormed(tx)) \in Seq(Messages)
               /\ static.parsedMessages =
                     [i \in DOMAIN Kept(Entries(tx), WellFormed(tx)) |->
                         parseMessage(Kept(Entries(tx), WellFormed(tx))[i])]
               /\ static.parsedMessages \in Seq(ParsedMessages)
               /\ static.findings \in Seq(Findings)
               /\ \A i \in DOMAIN static.findings :
                     static.findings[i].rule \in {"TRANSACTION_MALFORMED_MESSAGE", "TRANSACTION_OPAQUE_PAYLOAD"}
               /\ Cardinality(Malformed(static.findings)) =
                     IF Entries(tx) # <<>> /\ WellFormed(tx) = DOMAIN Entries(tx) THEN 0 ELSE 1
<1> DEFINE E == Entries(tx)
           W == WellFormed(tx)
           kept == Kept(E, W)
           parsed == [i \in DOMAIN kept |-> parseMessage(kept[i])]
           bad == IF E = <<>> THEN 1 ELSE Len(E) - Len(kept)
           opaque == {i \in DOMAIN parsed : parsed[i].payload = "opaque"}
           a == When(bad > 0, "TRANSACTION_MALFORMED_MESSAGE", "medium")
           b == Copies(Cardinality(opaque), "TRANSACTION_OPAQUE_PAYLOAD", "medium")
           static == scanTransactionJson(tx)
<1>1. E \in Seq(Messages) /\ W \in SUBSET DOMAIN E
  BY DEF Transactions, Entries, WellFormed
<1>2. /\ kept \in Seq(Messages) /\ Len(kept) = Cardinality(W)
      /\ IsFiniteSet(W) /\ Cardinality(W) \in Nat
  <2> HIDE DEF E, W
  <2> QED
    BY <1>1, KeptIsSeq
<1>3. parseMessages(tx) = [parsed |-> parsed, malformedCount |-> bad]
  BY DEF parseMessages, WellFormed
<1>4. /\ static.findings = a \o b
      /\ static.parsedMessages = parsed
  BY <1>3 DEF scanTransactionJson
<1> HIDE DEF E, W, kept
<1>5. parsed \in Seq(ParsedMessages)
  <2>1. ASSUME NEW m \in Messages
        PROVE  parseMessage(m) \in ParsedMessages
    <3>1. m.to \in Accounts /\ m.value \in Nat
      BY DEF Messages
    <3>2. decodePayload(m.payload) \in Payloads
      BY DEF decodePayload, Payloads
    <3> QED
      BY <3>1, <3>2 DEF parseMessage, ParsedMessages
  <2>2. \A i \in DOMAIN kept : kept[i] \in Messages
    BY <1>2
  <2>3. DOMAIN kept = 1 .. Len(kept) /\ Len(kept) \in Nat
    BY <1>2
  <2>4. \A i \in 1 .. Len(kept) : parsed[i] \in ParsedMessages
    BY <2>1, <2>2, <2>3
  <2> QED
    BY <2>3, <2>4
<1> HIDE DEF parsed
<1>6. opaque \in SUBSET DOMAIN parsed /\ Cardinality(opaque) \in Nat
  <2>1. opaque \in SUBSET DOMAIN parsed
    OBVIOUS
  <2> HIDE DEF opaque
  <2> QED
    BY <1>5, <2>1, Subpositions
<1>7. bad > 0 <=> ~(E # <<>> /\ W = DOMAIN E)
  <2>1. CASE E = <<>>
    BY <2>1
  <2>2. CASE E # <<>>
    <3>1. IsFiniteSet(DOMAIN E) /\ Cardinality(DOMAIN E) = Len(E) /\ Len(E) \in Nat
      <4>1. DOMAIN E = 1 .. Len(E) /\ Len(E) \in Nat /\ 1 <= Len(E)
        BY <1>1, <2>2
      <4> QED
        BY <4>1, FS_Interval
    <3>2. Cardinality(W) <= Len(E) /\ (Cardinality(W) = Len(E) => W = DOMAIN E)
      BY <1>1, <3>1, FS_Subset
    <3>3. bad = Len(E) - Cardinality(W)
      BY <1>2, <2>2
    <3> HIDE DEF bad
    <3>4. W = DOMAIN E => Cardinality(W) = Len(E)
      BY <3>1
    <3>5. bad > 0 <=> Cardinality(W) # Len(E)
      BY <1>2, <3>1, <3>2, <3>3
    <3> QED
      BY <2>2, <3>2, <3>4, <3>5
  <2> QED
    BY <2>1, <2>2
<1> HIDE DEF opaque, bad
<1>9. /\ a \in Seq(Findings)
      /\ Cardinality(Malformed(a)) = IF bad > 0 THEN 1 ELSE 0
      /\ \A i \in DOMAIN a : a[i].rule = "TRANSACTION_MALFORMED_MESSAGE"
  <2>1. a \in {<<>>, <<Finding("TRANSACTION_MALFORMED_MESSAGE", "medium")>>} /\ (a # <<>> <=> bad > 0)
    BY DEF When
  <2>2. "TRANSACTION_MALFORMED_MESSAGE" \in ScanRules /\ "medium" \in Confidences
    BY DEF ScanRules, Confidences
  <2> HIDE DEF a
  <2>3. /\ a \in Seq(Findings)
        /\ Cardinality(Of(a, "TRANSACTION_MALFORMED_MESSAGE")) = IF a # <<>> THEN 1 ELSE 0
        /\ \A i \in DOMAIN a : a[i].rule = "TRANSACTION_MALFORMED_MESSAGE"
    BY <2>1, <2>2, CountOfAtMostOne
  <2> QED
    BY <2>1, <2>3 DEF Malformed
<1>10. /\ b \in Seq(Findings)
       /\ Cardinality(Malformed(b)) = 0
       /\ \A i \in DOMAIN b : b[i].rule = "TRANSACTION_OPAQUE_PAYLOAD"
  <2>1. \A i \in DOMAIN b : b[i].rule = "TRANSACTION_OPAQUE_PAYLOAD"
    BY DEF Copies, Finding
  <2>2. "TRANSACTION_OPAQUE_PAYLOAD" \in ScanRules /\ "medium" \in Confidences
    BY DEF ScanRules, Confidences
  <2>3. /\ b \in Seq(Findings)
        /\ Cardinality(Of(b, "TRANSACTION_MALFORMED_MESSAGE")) = 0
    <3> DEFINE n == Cardinality(opaque)
    <3>1. n \in Nat /\ "TRANSACTION_OPAQUE_PAYLOAD" # "TRANSACTION_MALFORMED_MESSAGE"
      BY <1>6
    <3> HIDE DEF n
    <3>2. /\ Copies(n, "TRANSACTION_OPAQUE_PAYLOAD", "medium") \in Seq(Findings)
          /\ Cardinality(Of(Copies(n, "TRANSACTION_OPAQUE_PAYLOAD", "medium"), "TRANSACTION_MALFORMED_MESSAGE")) = 0
      BY <2>2, <3>1, CountOfCopies
    <3> QED
      BY <3>2 DEF n
  <2> HIDE DEF b
  <2> QED
    BY <2>1, <2>2, <2>3 DEF Malformed
<1> HIDE DEF a, b
<1>12. /\ a \o b \in Seq(Findings)
       /\ \A i \in DOMAIN (a \o b) :
             (a \o b)[i].rule \in {"TRANSACTION_MALFORMED_MESSAGE", "TRANSACTION_OPAQUE_PAYLOAD"}
  <2>1. \A i \in DOMAIN (a \o b) : (\E j \in DOMAIN a : (a \o b)[i] = a[j]) \/ (\E j \in DOMAIN b : (a \o b)[i] = b[j])
    BY <1>9, <1>10
  <2> QED
    BY <1>9, <1>10, <2>1
<1>13. Cardinality(Malformed(a \o b)) = Cardinality(Malformed(a)) + Cardinality(Malformed(b))
  BY <1>9, <1>10, CountOfConcat DEF Malformed
<1>14. Cardinality(Malformed(a \o b)) = IF E # <<>> /\ W = DOMAIN E THEN 0 ELSE 1
  BY <1>7, <1>9, <1>10, <1>13
<1>15. static.parsedMessages = [i \in DOMAIN kept |-> parseMessage(kept[i])]
  BY <1>4 DEF parsed
<1> HIDE DEF static
<1> QED
  BY <1>1, <1>2, <1>4, <1>5, <1>6, <1>12, <1>14, <1>15 DEF E, W, kept, static

LEMMA NoneFound ==
    ASSUME NEW E, NEW s \in Seq(E), NEW rule
    PROVE  Of(s, rule) = {} <=> Cardinality(Of(s, rule)) = 0
<1>1. IsFiniteSet(Of(s, rule))
  <2>1. Of(s, rule) \in SUBSET DOMAIN s
    BY DEF Of
  <2> QED
    BY <2>1, Subpositions
<1> QED
  BY <1>1, FS_EmptySet

-----------------------------------------------------------------------------
(* What an emulation says                                                   *)

EmulatedActions == {toEmulatedAction(a) : a \in Actions}

LEMMA EmulatedIsSeq ==
    ASSUME NEW w \in Worlds
    PROVE  Emulated(w) \in Seq(EmulatedActions) /\ Transfers(Emulated(w)) \in Seq(EmulatedActions)
<1>1. w.actions \in Seq(Actions)
  BY DEF Worlds
<1>2. Emulated(w) \in Seq(EmulatedActions)
  BY <1>1 DEF Emulated, EmulatedActions
<1> DEFINE s == Emulated(w)
           P == {i \in DOMAIN s : s[i].kind = "ton_transfer" /\ s[i].details}
<1> HIDE DEF s
<1>3. P \in SUBSET DOMAIN s /\ s \in Seq(EmulatedActions)
  BY <1>2 DEF s
<1> HIDE DEF P
<1>4. Kept(s, P) \in Seq(EmulatedActions)
  BY <1>3, KeptIsSeq
<1> QED
  BY <1>2, <1>4 DEF s, P, Transfers

LEMMA SendsIsSeq ==
    ASSUME NEW messages \in Seq(ParsedMessages)
    PROVE  Sends(messages) \in Seq(ParsedMessages)
<1> DEFINE P == {i \in DOMAIN messages : isComparableTonSend(messages[i])}
<1>1. P \in SUBSET DOMAIN messages
  OBVIOUS
<1> HIDE DEF P
<1>2. Kept(messages, P) \in Seq(ParsedMessages)
  BY <1>1, KeptIsSeq
<1> QED
  BY <1>2 DEF P, Sends

(* Of the findings compared by the properties: no malformed message, one for each   *)
(* mismatch, one for each hidden action.                                      *)
LEMMA OkFindings ==
    ASSUME NEW w \in Worlds, NEW messages \in Seq(ParsedMessages), NEW deploys
    PROVE  LET findings == mapOkResult(w, messages, deploys).findings
           IN  /\ findings \in Seq(Findings)
               /\ Cardinality(Of(findings, "TRANSACTION_MALFORMED_MESSAGE")) = 0
               /\ Cardinality(Of(findings, "EMULATION_MISMATCH")) = Cardinality(mismatches(messages, Emulated(w)))
               /\ Cardinality(Of(findings, "EMULATION_REVEALED_HIDDEN_ACTION")) =
                     Cardinality(hiddenActions(messages, Emulated(w)))
               /\ IsFiniteSet(mismatches(messages, Emulated(w)))
               /\ IsFiniteSet(hiddenActions(messages, Emulated(w)))
<1> DEFINE actions == Emulated(w)
           nAuth == Cardinality(OfKinds(actions, AuthChangeKinds))
           nMis == Cardinality(mismatches(messages, actions))
           nHid == Cardinality(hiddenActions(messages, actions))
           a == When(w.nearFull, "EMULATION_SENDS_NEAR_FULL_BALANCE", "high")
           b == Copies(nAuth, "EMULATION_WALLET_V5_AUTH_CHANGE", "high")
           c == When(w.aborted, "EMULATION_ABORTED", "high")
           d == When(w.scam, "EMULATION_SCAM_PATTERN_DETECTED", "medium")
           e == Copies(nMis, "EMULATION_MISMATCH", "high")
           f == Copies(nHid, "EMULATION_REVEALED_HIDDEN_ACTION", "medium")
           g == When(~deploys /\ OfKinds(actions, {"contract_deploy"}) # {},
                     "EMULATION_DEPLOYS_UNKNOWN_CONTRACT", "high")
           Compared == {"TRANSACTION_MALFORMED_MESSAGE", "EMULATION_MISMATCH", "EMULATION_REVEALED_HIDDEN_ACTION"}
<1>1. mapOkResult(w, messages, deploys).findings = a \o b \o c \o d \o e \o f \o g
  BY DEF mapOkResult
<1>2. /\ nAuth \in Nat /\ nMis \in Nat /\ nHid \in Nat
      /\ IsFiniteSet(mismatches(messages, actions)) /\ IsFiniteSet(hiddenActions(messages, actions))
  <2>1. /\ actions \in Seq(EmulatedActions) /\ Transfers(actions) \in Seq(EmulatedActions)
    BY EmulatedIsSeq
  <2> HIDE DEF actions
  <2>2. /\ OfKinds(actions, AuthChangeKinds) \in SUBSET DOMAIN actions
        /\ mismatches(messages, actions) \in SUBSET DOMAIN Transfers(actions)
        /\ hiddenActions(messages, actions) \in SUBSET DOMAIN Transfers(actions)
    BY DEF OfKinds, mismatches, hiddenActions
  <2>3. nAuth \in Nat
    BY <2>1, <2>2, Subpositions
  <2>4. nMis \in Nat /\ IsFiniteSet(mismatches(messages, actions))
    BY <2>1, <2>2, Subpositions
  <2>5. nHid \in Nat /\ IsFiniteSet(hiddenActions(messages, actions))
    BY <2>1, <2>2, Subpositions
  <2> QED
    BY <2>3, <2>4, <2>5
<1> HIDE DEF nAuth, nMis, nHid
<1>3. /\ "low" \in Confidences /\ "medium" \in Confidences /\ "high" \in Confidences
      /\ \A r \in {"EMULATION_SENDS_NEAR_FULL_BALANCE", "EMULATION_WALLET_V5_AUTH_CHANGE", "EMULATION_ABORTED",
                   "EMULATION_SCAM_PATTERN_DETECTED", "EMULATION_DEPLOYS_UNKNOWN_CONTRACT"} :
            r \in ScanRules /\ \A rule \in Compared : r # rule
      /\ Compared \subseteq ScanRules
  BY DEF Confidences, ScanRules
<1>4. /\ a \in {<<>>, <<Finding("EMULATION_SENDS_NEAR_FULL_BALANCE", "high")>>}
      /\ c \in {<<>>, <<Finding("EMULATION_ABORTED", "high")>>}
      /\ d \in {<<>>, <<Finding("EMULATION_SCAM_PATTERN_DETECTED", "medium")>>}
      /\ g \in {<<>>, <<Finding("EMULATION_DEPLOYS_UNKNOWN_CONTRACT", "high")>>}
  BY DEF When
<1> HIDE DEF a, c, d, g, Compared
<1>5. a \in Seq(Findings) /\ \A rule \in Compared : Cardinality(Of(a, rule)) = 0
  <2>1. /\ "EMULATION_SENDS_NEAR_FULL_BALANCE" \in ScanRules /\ "high" \in Confidences
        /\ \A rule \in Compared : rule \in ScanRules /\ "EMULATION_SENDS_NEAR_FULL_BALANCE" # rule
    BY <1>3
  <2>2. a \in {<<>>, <<Finding("EMULATION_SENDS_NEAR_FULL_BALANCE", "high")>>}
    BY <1>4
  <2>3. a \in Seq(Findings)
    BY <2>1, <2>2, CountOfAtMostOne
  <2>4. ASSUME NEW rule \in Compared
        PROVE  Cardinality(Of(a, rule)) = 0
    BY <2>1, <2>2, OtherRule
  <2> QED
    BY <2>3, <2>4
<1>6. c \in Seq(Findings) /\ \A rule \in Compared : Cardinality(Of(c, rule)) = 0
  <2>1. /\ "EMULATION_ABORTED" \in ScanRules /\ "high" \in Confidences
        /\ \A rule \in Compared : rule \in ScanRules /\ "EMULATION_ABORTED" # rule
    BY <1>3
  <2>2. c \in {<<>>, <<Finding("EMULATION_ABORTED", "high")>>}
    BY <1>4
  <2>3. c \in Seq(Findings)
    BY <2>1, <2>2, CountOfAtMostOne
  <2>4. ASSUME NEW rule \in Compared
        PROVE  Cardinality(Of(c, rule)) = 0
    BY <2>1, <2>2, OtherRule
  <2> QED
    BY <2>3, <2>4
<1>7. d \in Seq(Findings) /\ \A rule \in Compared : Cardinality(Of(d, rule)) = 0
  <2>1. /\ "EMULATION_SCAM_PATTERN_DETECTED" \in ScanRules /\ "medium" \in Confidences
        /\ \A rule \in Compared : rule \in ScanRules /\ "EMULATION_SCAM_PATTERN_DETECTED" # rule
    BY <1>3
  <2>2. d \in {<<>>, <<Finding("EMULATION_SCAM_PATTERN_DETECTED", "medium")>>}
    BY <1>4
  <2>3. d \in Seq(Findings)
    BY <2>1, <2>2, CountOfAtMostOne
  <2>4. ASSUME NEW rule \in Compared
        PROVE  Cardinality(Of(d, rule)) = 0
    BY <2>1, <2>2, OtherRule
  <2> QED
    BY <2>3, <2>4
<1>8. g \in Seq(Findings) /\ \A rule \in Compared : Cardinality(Of(g, rule)) = 0
  <2>1. /\ "EMULATION_DEPLOYS_UNKNOWN_CONTRACT" \in ScanRules /\ "high" \in Confidences
        /\ \A rule \in Compared : rule \in ScanRules /\ "EMULATION_DEPLOYS_UNKNOWN_CONTRACT" # rule
    BY <1>3
  <2>2. g \in {<<>>, <<Finding("EMULATION_DEPLOYS_UNKNOWN_CONTRACT", "high")>>}
    BY <1>4
  <2>3. g \in Seq(Findings)
    BY <2>1, <2>2, CountOfAtMostOne
  <2>4. ASSUME NEW rule \in Compared
        PROVE  Cardinality(Of(g, rule)) = 0
    BY <2>1, <2>2, OtherRule
  <2> QED
    BY <2>3, <2>4
<1>9. b \in Seq(Findings) /\ \A rule \in Compared : Cardinality(Of(b, rule)) = 0
  <2>1. /\ "EMULATION_WALLET_V5_AUTH_CHANGE" \in ScanRules /\ "high" \in Confidences
        /\ \A rule \in Compared : "EMULATION_WALLET_V5_AUTH_CHANGE" # rule
    BY <1>3
  <2>2. b \in Seq(Findings)
    BY <1>2, <2>1, CountOfCopies
  <2>3. ASSUME NEW rule \in Compared
        PROVE  Cardinality(Of(b, rule)) = 0
    BY <1>2, <2>1, CountOfCopies
  <2> QED
    BY <2>2, <2>3
<1>10. e \in Seq(Findings) /\ \A rule \in Compared :
          Cardinality(Of(e, rule)) = IF rule = "EMULATION_MISMATCH" THEN nMis ELSE 0
  <2>1. "EMULATION_MISMATCH" \in ScanRules /\ "high" \in Confidences
    BY <1>3 DEF ScanRules
  <2>2. e \in Seq(Findings)
    BY <1>2, <2>1, CountOfCopies
  <2>3. ASSUME NEW rule \in Compared
        PROVE  Cardinality(Of(e, rule)) = IF "EMULATION_MISMATCH" = rule THEN nMis ELSE 0
    BY <1>2, <2>1, CountOfCopies
  <2> HIDE DEF e
  <2> QED
    BY <2>2, <2>3
<1>11. f \in Seq(Findings) /\ \A rule \in Compared :
          Cardinality(Of(f, rule)) = IF rule = "EMULATION_REVEALED_HIDDEN_ACTION" THEN nHid ELSE 0
  <2>1. "EMULATION_REVEALED_HIDDEN_ACTION" \in ScanRules /\ "medium" \in Confidences
    BY <1>3 DEF ScanRules
  <2>2. f \in Seq(Findings)
    BY <1>2, <2>1, CountOfCopies
  <2>3. ASSUME NEW rule \in Compared
        PROVE  Cardinality(Of(f, rule)) = IF "EMULATION_REVEALED_HIDDEN_ACTION" = rule THEN nHid ELSE 0
    BY <1>2, <2>1, CountOfCopies
  <2> HIDE DEF f
  <2> QED
    BY <2>2, <2>3
<1> HIDE DEF b, e, f
<1>12. /\ a \o b \o c \o d \o e \o f \o g \in Seq(Findings)
       /\ \A rule \in Compared :
             Cardinality(Of(a \o b \o c \o d \o e \o f \o g, rule)) =
                (IF rule = "EMULATION_MISMATCH" THEN nMis ELSE 0)
                + (IF rule = "EMULATION_REVEALED_HIDDEN_ACTION" THEN nHid ELSE 0)
  <2> a \in Seq(Findings) /\ b \in Seq(Findings) /\ c \in Seq(Findings) /\ d \in Seq(Findings)
         /\ e \in Seq(Findings) /\ f \in Seq(Findings) /\ g \in Seq(Findings)
    BY <1>5, <1>6, <1>7, <1>8, <1>9, <1>10, <1>11
  <2>1. a \o b \o c \o d \o e \o f \o g \in Seq(Findings)
    OBVIOUS
  <2>2. ASSUME NEW rule \in Compared
        PROVE  Cardinality(Of(a \o b \o c \o d \o e \o f \o g, rule)) =
                  (IF rule = "EMULATION_MISMATCH" THEN nMis ELSE 0)
                  + (IF rule = "EMULATION_REVEALED_HIDDEN_ACTION" THEN nHid ELSE 0)
    <3>1. /\ Cardinality(Of(a, rule)) = 0 /\ Cardinality(Of(b, rule)) = 0 /\ Cardinality(Of(c, rule)) = 0
          /\ Cardinality(Of(d, rule)) = 0 /\ Cardinality(Of(g, rule)) = 0
      BY <1>5, <1>6, <1>7, <1>8, <1>9
    <3>2. /\ Cardinality(Of(e, rule)) = (IF rule = "EMULATION_MISMATCH" THEN nMis ELSE 0)
          /\ Cardinality(Of(f, rule)) = (IF rule = "EMULATION_REVEALED_HIDDEN_ACTION" THEN nHid ELSE 0)
      BY <1>10, <1>11
    <3> DEFINE ab == a \o b
               ac == ab \o c
               ad == ac \o d
               ae == ad \o e
               af == ae \o f
               ag == af \o g
    <3>3. ab \in Seq(Findings) /\ Cardinality(Of(ab, rule)) = Cardinality(Of(a, rule)) + Cardinality(Of(b, rule))
      BY CountOfConcat
    <3> HIDE DEF ab
    <3>4. ac \in Seq(Findings) /\ Cardinality(Of(ac, rule)) = Cardinality(Of(ab, rule)) + Cardinality(Of(c, rule))
      BY <3>3, CountOfConcat
    <3> HIDE DEF ac
    <3>5. ad \in Seq(Findings) /\ Cardinality(Of(ad, rule)) = Cardinality(Of(ac, rule)) + Cardinality(Of(d, rule))
      BY <3>4, CountOfConcat
    <3> HIDE DEF ad
    <3>6. ae \in Seq(Findings) /\ Cardinality(Of(ae, rule)) = Cardinality(Of(ad, rule)) + Cardinality(Of(e, rule))
      BY <3>5, CountOfConcat
    <3> HIDE DEF ae
    <3>7. af \in Seq(Findings) /\ Cardinality(Of(af, rule)) = Cardinality(Of(ae, rule)) + Cardinality(Of(f, rule))
      BY <3>6, CountOfConcat
    <3> HIDE DEF af
    <3>8. ag \in Seq(Findings) /\ Cardinality(Of(ag, rule)) = Cardinality(Of(af, rule)) + Cardinality(Of(g, rule))
      BY <3>7, CountOfConcat
    <3> HIDE DEF ag
    <3>9. Cardinality(Of(e, rule)) \in Nat /\ Cardinality(Of(f, rule)) \in Nat
      BY CountOfConcat
    <3>10. Cardinality(Of(ag, rule)) = Cardinality(Of(e, rule)) + Cardinality(Of(f, rule))
      BY <3>1, <3>3, <3>4, <3>5, <3>6, <3>7, <3>8, <3>9
    <3> QED
      BY <3>2, <3>10 DEF ab, ac, ad, ae, af, ag
  <2> QED
    BY <2>1, <2>2
<1>13. "EMULATION_MISMATCH" # "EMULATION_REVEALED_HIDDEN_ACTION"
  OBVIOUS
<1> QED
  BY <1>1, <1>2, <1>12, <1>13 DEF Compared, nMis, nHid

-----------------------------------------------------------------------------
(* What keeps a transaction from being emulated                              *)

LEMMA ObstacleList ==
    ASSUME NEW tx, NEW w
    PROVE  LET o == Obstacles(tx, w)
           IN  /\ DOMAIN o = 1 .. 10
               /\ o[1] = Obstacle(~w.enabled, single("EMULATION_NOT_CONFIGURED", "low"))
               /\ o[2] = Obstacle(tx.from # "given", single("EMULATION_SKIPPED_NO_SENDER", "low"))
               /\ o[3] = Obstacle(w.getAccount # 200, metadataFailure(w, w.getAccount))
               /\ o[4] = Obstacle(w.account # "active", single("EMULATION_SENDER_UNINITIALISED", "low"))
               /\ o[5] = Obstacle(w.wallet = "unknown", Nothing)
               /\ o[6] = Obstacle(w.getSeqno # 200, metadataFailure(w, w.getSeqno))
               /\ o[7] = Obstacle(parseTonConnectMessages(tx) = "no_messages_field", single("EMULATION_SKIPPED_NO_MESSAGES", "low"))
               /\ o[8] = Obstacle(parseTonConnectMessages(tx) = "malformed", single("TRANSACTION_MALFORMED_MESSAGE", "high"))
               /\ o[9] = Obstacle(~CanBuild(tx), single("TRANSACTION_MALFORMED_MESSAGE", "high"))
               /\ o[10] = Obstacle(w.emulate # 200, emulateFailure(w))
BY DEF Obstacles, SenderObstacles

(* The condition of each.                                                    *)
LEMMA ObstacleMet ==
    ASSUME NEW tx, NEW w, w.enabled \in BOOLEAN
    PROVE  LET o == Obstacles(tx, w)
           IN  /\ o[1].met <=> ~w.enabled
               /\ o[2].met <=> tx.from # "given"
               /\ o[3].met <=> w.getAccount # 200
               /\ o[4].met <=> w.account # "active"
               /\ o[5].met <=> w.wallet = "unknown"
               /\ o[6].met <=> w.getSeqno # 200
               /\ o[7].met <=> parseTonConnectMessages(tx) = "no_messages_field"
               /\ o[8].met <=> parseTonConnectMessages(tx) = "malformed"
               /\ o[9].met <=> ~CanBuild(tx)
               /\ o[10].met <=> w.emulate # 200
<1> DEFINE o == Obstacles(tx, w)
<1>1. o[1].met <=> ~w.enabled
  <2>1. o[1] = Obstacle(~w.enabled, single("EMULATION_NOT_CONFIGURED", "low"))
    BY ObstacleList
  <2> HIDE DEF o
  <2>2. o[1].met = (~w.enabled)
    BY <2>1 DEF Obstacle
  <2> QED
    BY <2>2
<1>2. o[2].met <=> tx.from # "given"
  <2>1. o[2] = Obstacle(tx.from # "given", single("EMULATION_SKIPPED_NO_SENDER", "low"))
    BY ObstacleList
  <2> HIDE DEF o
  <2>2. o[2].met = (tx.from # "given")
    BY <2>1 DEF Obstacle
  <2> QED
    BY <2>2
<1>3. o[3].met <=> w.getAccount # 200
  <2>1. o[3] = Obstacle(w.getAccount # 200, metadataFailure(w, w.getAccount))
    BY ObstacleList
  <2> HIDE DEF o
  <2>2. o[3].met = (w.getAccount # 200)
    BY <2>1 DEF Obstacle
  <2> QED
    BY <2>2
<1>4. o[4].met <=> w.account # "active"
  <2>1. o[4] = Obstacle(w.account # "active", single("EMULATION_SENDER_UNINITIALISED", "low"))
    BY ObstacleList
  <2> HIDE DEF o
  <2>2. o[4].met = (w.account # "active")
    BY <2>1 DEF Obstacle
  <2> QED
    BY <2>2
<1>5. o[5].met <=> w.wallet = "unknown"
  <2>1. o[5] = Obstacle(w.wallet = "unknown", Nothing)
    BY ObstacleList
  <2> HIDE DEF o
  <2>2. o[5].met = (w.wallet = "unknown")
    BY <2>1 DEF Obstacle
  <2> QED
    BY <2>2
<1>6. o[6].met <=> w.getSeqno # 200
  <2>1. o[6] = Obstacle(w.getSeqno # 200, metadataFailure(w, w.getSeqno))
    BY ObstacleList
  <2> HIDE DEF o
  <2>2. o[6].met = (w.getSeqno # 200)
    BY <2>1 DEF Obstacle
  <2> QED
    BY <2>2
<1>7. o[7].met <=> parseTonConnectMessages(tx) = "no_messages_field"
  <2>1. o[7] = Obstacle(parseTonConnectMessages(tx) = "no_messages_field", single("EMULATION_SKIPPED_NO_MESSAGES", "low"))
    BY ObstacleList
  <2> HIDE DEF o
  <2>2. o[7].met = (parseTonConnectMessages(tx) = "no_messages_field")
    BY <2>1 DEF Obstacle
  <2> QED
    BY <2>2
<1>8. o[8].met <=> parseTonConnectMessages(tx) = "malformed"
  <2>1. o[8] = Obstacle(parseTonConnectMessages(tx) = "malformed", single("TRANSACTION_MALFORMED_MESSAGE", "high"))
    BY ObstacleList
  <2> HIDE DEF o
  <2>2. o[8].met = (parseTonConnectMessages(tx) = "malformed")
    BY <2>1 DEF Obstacle
  <2> QED
    BY <2>2
<1>9. o[9].met <=> ~CanBuild(tx)
  <2>1. o[9] = Obstacle(~CanBuild(tx), single("TRANSACTION_MALFORMED_MESSAGE", "high"))
    BY ObstacleList
  <2> HIDE DEF o
  <2>2. o[9].met = (~CanBuild(tx))
    BY <2>1 DEF Obstacle
  <2> QED
    BY <2>2
<1>10. o[10].met <=> w.emulate # 200
  <2>1. o[10] = Obstacle(w.emulate # 200, emulateFailure(w))
    BY ObstacleList
  <2> HIDE DEF o
  <2>2. o[10].met = (w.emulate # 200)
    BY <2>1 DEF Obstacle
  <2> QED
    BY <2>2
<1> QED
  BY <1>1, <1>2, <1>3, <1>4, <1>5, <1>6, <1>7, <1>8, <1>9, <1>10

(* A failed call has a name of its own, whichever the call.                      *)
LEMMA StatusNames ==
    \A status \in HttpStatuses \ {200} :
        /\ classifyProviderFailure(status, "none") = classifyProviderFailure(status, classifyFailure(status))
        /\ classifyProviderFailure(status, "none") \in {"EMULATION_RATE_LIMITED", "EMULATION_PROVIDER_DOWN", "EMULATION_FAILED"}
BY DEF HttpStatuses, NoStatus, classifyProviderFailure, classifyFailure

QuietRules ==
    {"EMULATION_NOT_CONFIGURED", "EMULATION_SKIPPED_NO_SENDER", "EMULATION_SENDER_UNINITIALISED",
     "EMULATION_SKIPPED_NO_MESSAGES", "EMULATION_RATE_LIMITED", "EMULATION_PROVIDER_DOWN",
     "EMULATION_FAILED"}

Refusals == {Nothing} \cup {single(rule, confidence) :
                               rule \in QuietRules \cup {"TRANSACTION_MALFORMED_MESSAGE"},
                               confidence \in Confidences}

(* So has one whose status is lost, and the same whichever the call.              *)
LEMMA FailureNames ==
    ASSUME NEW w \in Worlds, NEW status \in HttpStatuses \ {200}
    PROVE  /\ \E rule \in QuietRules : metadataFailure(w, status) = single(rule, "low")
           /\ \A x : x.thrown = w.thrown =>
                 /\ metadataFailure(x, status) = metadataFailure(w, status)
                 /\ x.emulate = status => emulateFailure(x) = metadataFailure(w, status)
<1> DEFINE read == extractHttpStatus(w, status)
<1>1. read \in HttpStatuses \ {200}
  BY DEF extractHttpStatus, HttpStatuses, NoStatus
<1>2. \A x : x.thrown = w.thrown => extractHttpStatus(x, status) = read
  BY DEF extractHttpStatus
<1> HIDE DEF read
<1>3. /\ classifyProviderFailure(read, "none") \in QuietRules
      /\ classifyProviderFailure(read, classifyFailure(read)) = classifyProviderFailure(read, "none")
  BY <1>1, StatusNames DEF QuietRules
<1>4. metadataFailure(w, status) = single(classifyProviderFailure(read, "none"), "low")
  BY <1>2 DEF metadataFailure
<1>5. ASSUME NEW x, x.thrown = w.thrown
      PROVE  /\ metadataFailure(x, status) = metadataFailure(w, status)
             /\ x.emulate = status => emulateFailure(x) = metadataFailure(w, status)
  BY <1>2, <1>3, <1>4, <1>5 DEF metadataFailure, emulateFailure
<1> QED
  BY <1>3, <1>4, <1>5

LEMMA ObstacleResults ==
    ASSUME NEW tx \in Transactions, NEW w \in Worlds
    PROVE  \A i \in 1 .. 10 : Obstacles(tx, w)[i].met => Obstacles(tx, w)[i].result \in Refusals
<1> DEFINE o == Obstacles(tx, w)
<1>1. \A met, result : Obstacle(met, result).result = result /\ (Obstacle(met, result).met <=> met)
  BY DEF Obstacle
<1>2. "low" \in Confidences /\ "high" \in Confidences
  BY DEF Confidences
<1>3. \A rule \in QuietRules \cup {"TRANSACTION_MALFORMED_MESSAGE"}, confidence \in Confidences :
         single(rule, confidence) \in Refusals
  BY DEF Refusals
<1>4. /\ w.getAccount \in HttpStatuses /\ w.getSeqno \in HttpStatuses /\ w.emulate \in HttpStatuses
  BY DEF Worlds
<1>5. \A status \in HttpStatuses \ {200} :
         /\ metadataFailure(w, status) \in Refusals
         /\ w.emulate = status => emulateFailure(w) \in Refusals
  BY <1>2, <1>3, FailureNames
<1>6. /\ "EMULATION_NOT_CONFIGURED" \in QuietRules /\ "EMULATION_SKIPPED_NO_SENDER" \in QuietRules
      /\ "EMULATION_SENDER_UNINITIALISED" \in QuietRules /\ "EMULATION_SKIPPED_NO_MESSAGES" \in QuietRules
  BY DEF QuietRules
<1>7. o[1].result \in Refusals /\ o[2].result \in Refusals /\ o[4].result \in Refusals /\ o[7].result \in Refusals
  BY <1>1, <1>2, <1>3, <1>6, ObstacleList
<1>8. o[8].result \in Refusals /\ o[9].result \in Refusals
  BY <1>1, <1>2, <1>3, ObstacleList
<1>9. o[5].result \in Refusals
  BY <1>1, ObstacleList DEF Refusals
<1>10. o[3].met => o[3].result \in Refusals
  <2>1. o[3] = Obstacle(w.getAccount # 200, metadataFailure(w, w.getAccount))
    BY ObstacleList
  <2>2. o[3].met = (w.getAccount # 200)
    BY <2>1 DEF Obstacle
  <2>3. o[3].result = metadataFailure(w, w.getAccount)
    BY <1>1, <2>1
  <2>4. w.getAccount # 200 => metadataFailure(w, w.getAccount) \in Refusals
    BY <1>4, <1>5
  <2> QED
    BY <2>2, <2>3, <2>4
<1>11. o[6].met => o[6].result \in Refusals
  <2>1. o[6] = Obstacle(w.getSeqno # 200, metadataFailure(w, w.getSeqno))
    BY ObstacleList
  <2>2. o[6].met = (w.getSeqno # 200)
    BY <2>1 DEF Obstacle
  <2>3. o[6].result = metadataFailure(w, w.getSeqno)
    BY <1>1, <2>1
  <2>4. w.getSeqno # 200 => metadataFailure(w, w.getSeqno) \in Refusals
    BY <1>4, <1>5
  <2> QED
    BY <2>2, <2>3, <2>4
<1>12. o[10].met => o[10].result \in Refusals
  <2>1. o[10] = Obstacle(w.emulate # 200, emulateFailure(w))
    BY ObstacleList
  <2>2. o[10].met = (w.emulate # 200)
    BY <2>1 DEF Obstacle
  <2>3. o[10].result = emulateFailure(w)
    BY <1>1, <2>1
  <2>4. w.emulate # 200 => emulateFailure(w) \in Refusals
    BY <1>4, <1>5
  <2> QED
    BY <2>2, <2>3, <2>4
<1>13. \A i \in 1 .. 10 : \/ i = 1 \/ i = 2 \/ i = 3 \/ i = 4 \/ i = 5 \/ i = 6 \/ i = 7
                         \/ i = 8 \/ i = 9 \/ i = 10
  OBVIOUS
<1> HIDE DEF o
<1> QED
  BY <1>7, <1>8, <1>9, <1>10, <1>11, <1>12, <1>13 DEF o

(* The obstacle met first.                                                    *)
LEMMA FirstMet ==
    ASSUME NEW n \in Nat, NEW o, DOMAIN o = 1 .. n, Met(o) # {}
    PROVE  /\ Min(Met(o)) \in 1 .. n /\ o[Min(Met(o))].met
           /\ \A k \in 1 .. n : o[k].met => Min(Met(o)) <= k
<1>1. Met(o) \in SUBSET (1 .. n)
  BY DEF Met
<1>2. \E k \in 1 .. n : k \in Met(o) /\ \A l \in Met(o) : k <= l
  BY <1>1, FirstPosition
<1>3. Min(Met(o)) \in Met(o) /\ \A l \in Met(o) : Min(Met(o)) <= l
  BY <1>2 DEF Min
<1> QED
  BY <1>1, <1>3 DEF Met

LEMMA NotEmulated ==
    ASSUME NEW tx \in Transactions, NEW w \in Worlds, NEW static, ~IsEmulated(tx, w)
    PROVE  scanTransactionWithEmulation(tx, w, static) \in Refusals
<1>1. DOMAIN Obstacles(tx, w) = 1 .. 10 /\ 10 \in Nat
  BY ObstacleList
<1>2. Met(Obstacles(tx, w)) # {}
  BY DEF IsEmulated
<1>3. Min(Met(Obstacles(tx, w))) \in 1 .. 10 /\ Obstacles(tx, w)[Min(Met(Obstacles(tx, w)))].met
  BY <1>1, <1>2, FirstMet
<1> QED
  BY <1>3, ObstacleResults DEF scanTransactionWithEmulation

(* A refusal adds one finding or none, and no action.                            *)
LEMMA RefusalFindings ==
    ASSUME NEW refusal \in Refusals
    PROVE  /\ refusal.actions = <<>>
           /\ refusal.findings \in Seq(Findings)
           /\ \/ refusal.findings = <<>> /\ Malformed(refusal.findings) = {}
              \/ \E rule \in QuietRules, confidence \in Confidences :
                    /\ refusal.findings = <<Finding(rule, confidence)>>
                    /\ Cardinality(Malformed(refusal.findings)) = 0
              \/ Cardinality(Malformed(refusal.findings)) = 1
           /\ Cardinality(Malformed(refusal.findings)) \in 0 .. 1
<1>1. "TRANSACTION_MALFORMED_MESSAGE" \in ScanRules
  BY DEF ScanRules
<1>2. QuietRules \subseteq ScanRules /\ \A rule \in QuietRules : rule # "TRANSACTION_MALFORMED_MESSAGE"
  BY DEF QuietRules, ScanRules
<1>3. CASE refusal = Nothing
  <2>1. refusal.findings = <<>> /\ refusal.actions = <<>>
    BY <1>3 DEF Nothing
  <2>2. Malformed(<<>>) = {} /\ <<>> \in Seq(Findings)
    BY DEF Malformed, Of
  <2>3. Cardinality({}) = 0
    BY FS_EmptySet
  <2> QED
    BY <2>1, <2>2, <2>3
<1>4. ASSUME NEW rule \in QuietRules \cup {"TRANSACTION_MALFORMED_MESSAGE"}, NEW confidence \in Confidences,
             refusal = single(rule, confidence)
      PROVE  /\ refusal.findings = <<Finding(rule, confidence)>> /\ refusal.actions = <<>>
             /\ refusal.findings \in Seq(Findings)
             /\ Cardinality(Malformed(refusal.findings)) = IF rule = "TRANSACTION_MALFORMED_MESSAGE" THEN 1 ELSE 0
  <2>1. refusal.findings = <<Finding(rule, confidence)>> /\ refusal.actions = <<>>
    BY <1>4 DEF single
  <2>2. rule \in ScanRules
    BY <1>1, <1>2
  <2>3. /\ <<Finding(rule, confidence)>> \in Seq(Findings)
        /\ Cardinality(Of(<<Finding(rule, confidence)>>, "TRANSACTION_MALFORMED_MESSAGE")) =
              IF rule = "TRANSACTION_MALFORMED_MESSAGE" THEN 1 ELSE 0
    BY <1>1, <2>2, CountOfOne
  <2> QED
    BY <2>1, <2>3 DEF Malformed
<1>5. refusal = Nothing \/ \E rule \in QuietRules \cup {"TRANSACTION_MALFORMED_MESSAGE"}, confidence \in Confidences :
                              refusal = single(rule, confidence)
  BY DEF Refusals
<1>6. 0 \in 0 .. 1 /\ 1 \in 0 .. 1
  OBVIOUS
<1>7. ASSUME refusal # Nothing
      PROVE  /\ refusal.actions = <<>>
             /\ refusal.findings \in Seq(Findings)
             /\ \/ \E rule \in QuietRules, confidence \in Confidences :
                      /\ refusal.findings = <<Finding(rule, confidence)>>
                      /\ Cardinality(Malformed(refusal.findings)) = 0
                \/ Cardinality(Malformed(refusal.findings)) = 1
             /\ Cardinality(Malformed(refusal.findings)) \in 0 .. 1
  <2>1. PICK rule \in QuietRules \cup {"TRANSACTION_MALFORMED_MESSAGE"}, confidence \in Confidences :
           refusal = single(rule, confidence)
    BY <1>5, <1>7
  <2>2. /\ refusal.findings = <<Finding(rule, confidence)>> /\ refusal.actions = <<>>
        /\ refusal.findings \in Seq(Findings)
        /\ Cardinality(Malformed(refusal.findings)) = IF rule = "TRANSACTION_MALFORMED_MESSAGE" THEN 1 ELSE 0
    BY <1>4, <2>1
  <2>3. CASE rule \in QuietRules
    BY <1>2, <1>6, <2>2, <2>3
  <2>4. CASE rule = "TRANSACTION_MALFORMED_MESSAGE"
    BY <1>6, <2>2, <2>4
  <2> QED
    BY <2>3, <2>4
<1>8. CASE refusal # Nothing
  BY <1>7, <1>8
<1> QED
  BY <1>3, <1>6, <1>8, FS_EmptySet


(* A transaction that is emulated is one the request builder accepted whole.     *)
LEMMA AcceptedWhole ==
    ASSUME NEW tx \in Transactions, NEW w, IsEmulated(tx, w)
    PROVE  /\ parseTonConnectMessages(tx) = "ok" /\ CanBuild(tx)
           /\ w.emulate = 200
           /\ Entries(tx) # <<>>
           /\ \A i \in DOMAIN Entries(tx) : IsWellFormed(Entries(tx)[i])
<1>1. \A i \in 1 .. 10 : ~Obstacles(tx, w)[i].met
  BY ObstacleList DEF IsEmulated, Met
<1>2. /\ parseTonConnectMessages(tx) # "no_messages_field" /\ parseTonConnectMessages(tx) # "malformed"
      /\ CanBuild(tx) /\ w.emulate = 200
  <2>1. ~Obstacles(tx, w)[7].met /\ ~Obstacles(tx, w)[8].met /\ ~Obstacles(tx, w)[9].met /\ ~Obstacles(tx, w)[10].met
    BY <1>1
  <2>2. parseTonConnectMessages(tx) # "no_messages_field"
    <3>1. Obstacles(tx, w)[7] = Obstacle(parseTonConnectMessages(tx) = "no_messages_field", single("EMULATION_SKIPPED_NO_MESSAGES", "low"))
      BY ObstacleList
    <3>2. Obstacles(tx, w)[7].met = (parseTonConnectMessages(tx) = "no_messages_field")
      BY <3>1 DEF Obstacle
    <3> QED
      BY <2>1, <3>2
  <2>3. parseTonConnectMessages(tx) # "malformed"
    <3>1. Obstacles(tx, w)[8] = Obstacle(parseTonConnectMessages(tx) = "malformed", single("TRANSACTION_MALFORMED_MESSAGE", "high"))
      BY ObstacleList
    <3>2. Obstacles(tx, w)[8].met = (parseTonConnectMessages(tx) = "malformed")
      BY <3>1 DEF Obstacle
    <3> QED
      BY <2>1, <3>2
  <2>4. CanBuild(tx)
    <3>1. Obstacles(tx, w)[9] = Obstacle(~CanBuild(tx), single("TRANSACTION_MALFORMED_MESSAGE", "high"))
      BY ObstacleList
    <3>2. Obstacles(tx, w)[9].met = (~CanBuild(tx))
      BY <3>1 DEF Obstacle
    <3> QED
      BY <2>1, <3>2
  <2>5. w.emulate = 200
    <3>1. Obstacles(tx, w)[10] = Obstacle(w.emulate # 200, emulateFailure(w))
      BY ObstacleList
    <3>2. Obstacles(tx, w)[10].met = (w.emulate # 200)
      BY <3>1 DEF Obstacle
    <3> QED
      BY <2>1, <3>2
  <2> QED
    BY <2>2, <2>3, <2>4, <2>5
<1>3. /\ parseTonConnectMessages(tx) = "ok" /\ Entries(tx) # <<>>
      /\ \A i \in DOMAIN Entries(tx) : Entries(tx)[i].toKey = "address"
  BY <1>2 DEF parseTonConnectMessages
<1>4. \A i \in DOMAIN Entries(tx) : parseDestination(Entries(tx)[i]) /\ parseAmountString(Entries(tx)[i])
  BY <1>2 DEF CanBuild
<1>5. \A i \in DOMAIN Entries(tx) : IsWellFormed(Entries(tx)[i])
  BY <1>3, <1>4 DEF IsWellFormed, parseAddress, resolveAmount, parseDestination, parseAmountString
<1> QED
  BY <1>2, <1>3, <1>5

(* The list the static decoder shows is the one the request builder sends, whole in   *)
(* the keys that both read.                                                    *)
LEMMA ShownAsBuilt ==
    ASSUME NEW tx \in Transactions, NEW w, IsEmulated(tx, w)
    PROVE  LET shown == scanTransactionJson(tx).parsedMessages
               built == buildExternalMessageBoc(tx)
           IN  /\ Shown(shown) = Shown(built)
               /\ \A i \in DOMAIN built :
                     InOwnKeys(Entries(tx)[i]) =>
                         /\ shown[i].payload = built[i].body
                         /\ shown[i].hasStateInit = built[i].init
               /\ hasStateInit(tx) <=> \E i \in DOMAIN built : built[i].init
               /\ Malformed(scanTransactionJson(tx).findings) = {}
<1> DEFINE E == Entries(tx)
           kept == Kept(E, WellFormed(tx))
           shown == scanTransactionJson(tx).parsedMessages
           built == buildExternalMessageBoc(tx)
<1>1. E \in Seq(Messages) /\ E # <<>> /\ \A i \in DOMAIN E : IsWellFormed(E[i])
  BY AcceptedWhole DEF Entries, Transactions
<1>2. WellFormed(tx) = DOMAIN E
  BY <1>1 DEF WellFormed
<1>9. built = [i \in DOMAIN E |-> toInternalMessage(E[i])]
  BY DEF buildExternalMessageBoc
<1>10. \A i \in DOMAIN E : parseStateInit(E[i])
  BY AcceptedWhole DEF CanBuild
<1>11. tx.list = "messages"
  BY AcceptedWhole DEF parseTonConnectMessages
<1> HIDE DEF E, built
<1>3. kept = E
  BY <1>1, <1>2, KeptAll
<1>4. shown = [i \in DOMAIN kept |-> parseMessage(kept[i])]
  BY StaticDecode DEF E
<1> HIDE DEF shown
<1>5. Shown(shown) = [i \in DOMAIN E |-> <<E[i].to, E[i].value>>]
  BY <1>3, <1>4 DEF Shown, parseMessage
<1>6. Shown(built) = [i \in DOMAIN E |-> <<E[i].to, E[i].value>>]
  BY <1>9 DEF Shown, toInternalMessage
<1>7. Cardinality(Malformed(scanTransactionJson(tx).findings)) = 0
  BY <1>1, <1>2, StaticDecode DEF E
<1>8. Malformed(scanTransactionJson(tx).findings) = {}
  BY <1>7, NoneFound, StaticDecode DEF Malformed
<1>12. \A i \in DOMAIN E :
          /\ E[i].initKey \in {"stateInit", "state_init", "init"}
          /\ E[i].initKey \in {"stateInit", "state_init"} => E[i].init \in {"absent", "given"}
  <2>1. \A i \in DOMAIN E : E[i] \in Messages
    BY <1>1
  <2>2. \A m \in Messages : m.initKey \in {"stateInit", "state_init", "init"}
    BY DEF Messages
  <2>3. \A i \in DOMAIN E :
           E[i].initKey \in {"stateInit", "state_init"} => E[i].init \in {"absent", "given"}
    BY <1>10 DEF parseStateInit
  <2> QED
    BY <2>1, <2>2, <2>3
<1>13. ASSUME NEW i \in DOMAIN E, InOwnKeys(E[i])
       PROVE  /\ shown[i].payload = built[i].body
              /\ shown[i].hasStateInit = built[i].init
  <2>1. /\ shown[i].payload = decodePayload(E[i].payload)
        /\ shown[i].hasStateInit = (E[i].initKey # "state_init" /\ E[i].init \in {"given", "notBoc"})
    BY <1>3, <1>4 DEF parseMessage
  <2>2. /\ built[i].body = IF E[i].payloadKey = "payload" THEN decodePayload(E[i].payload) ELSE "none"
        /\ built[i].init = (E[i].initKey # "init" /\ E[i].init = "given")
    BY <1>9 DEF toInternalMessage
  <2>3. shown[i].payload = built[i].body
    BY <1>13, <2>1, <2>2 DEF InOwnKeys, decodePayload
  <2>4. (E[i].initKey # "state_init" /\ E[i].init \in {"given", "notBoc"})
           = (E[i].initKey # "init" /\ E[i].init = "given")
    BY <1>12, <1>13 DEF InOwnKeys
  <2> QED
    BY <2>1, <2>2, <2>3, <2>4
<1>14. hasStateInit(tx) <=> \E i \in DOMAIN E : built[i].init
  <2>1. \A i \in DOMAIN E : built[i].init = (E[i].initKey # "init" /\ E[i].init = "given")
    BY <1>9 DEF toInternalMessage
  <2> QED
    BY <1>11, <1>12, <2>1 DEF hasStateInit, E
<1> QED
  BY <1>5, <1>6, <1>8, <1>9, <1>13, <1>14 DEF E, shown, built

(* What the emulation adds: at most one malformed message, and then no action.     *)
LEMMA EmulationAdds ==
    ASSUME NEW tx \in Transactions, NEW w \in Worlds
    PROVE  LET emulation == scanTransactionWithEmulation(tx, w, scanTransactionJson(tx))
           IN  /\ emulation.findings \in Seq(Findings)
               /\ Cardinality(Malformed(emulation.findings)) \in 0 .. 1
               /\ IsEmulated(tx, w) => Cardinality(Malformed(emulation.findings)) = 0
               /\ ~IsEmulated(tx, w) => emulation.actions = <<>>
<1> DEFINE static == scanTransactionJson(tx)
           emulation == scanTransactionWithEmulation(tx, w, static)
<1>1. CASE IsEmulated(tx, w)
  <2> DEFINE ok == mapOkResult(w, static.parsedMessages, hasStateInit(tx))
  <2>1. emulation = ok
    BY <1>1 DEF scanTransactionWithEmulation
  <2>2. static.parsedMessages \in Seq(ParsedMessages)
    BY StaticDecode
  <2> HIDE DEF static
  <2>3. ok.findings \in Seq(Findings) /\ Cardinality(Of(ok.findings, "TRANSACTION_MALFORMED_MESSAGE")) = 0
    BY <2>2, OkFindings
  <2>4. 0 \in 0 .. 1
    OBVIOUS
  <2> QED
    BY <1>1, <2>1, <2>3, <2>4 DEF Malformed, static
<1>2. CASE ~IsEmulated(tx, w)
  <2>1. emulation \in Refusals
    BY <1>2, NotEmulated
  <2> QED
    BY <1>2, <2>1, RefusalFindings
<1> QED
  BY <1>1, <1>2

(* For every transaction and every state of TONAPI: what is emulated is the list the *)
(* static decoder showed, with the payloads and deployments that stand in TON Connect's *)
(* own keys; every deployment that is emulated is known as declared; and one defect is *)
(* reported once.  Of a payload or a deployment in another key nothing is said: there  *)
(* the decoders differ (DeclaredIsNotHidden).                                   *)
THEOREM DecodersAlwaysAgree ==
    ASSUME NEW tx \in Transactions, NEW w \in Worlds
    PROVE  DecodersAgree(tx, w)
<1> DEFINE static == scanTransactionJson(tx)
           emulation == scanTransactionWithEmulation(tx, w, static)
           result == scanTransaction(tx, w)
<1>1. static.findings \in Seq(Findings) /\ Cardinality(Malformed(static.findings)) \in 0 .. 1
  <2>1. static.findings \in Seq(Findings)
    BY StaticDecode
  <2>2. Cardinality(Malformed(static.findings)) = 0 \/ Cardinality(Malformed(static.findings)) = 1
    BY StaticDecode
  <2> QED
    BY <2>1, <2>2
<1>2. /\ emulation.findings \in Seq(Findings)
      /\ Cardinality(Malformed(emulation.findings)) \in 0 .. 1
      /\ IsEmulated(tx, w) => Cardinality(Malformed(emulation.findings)) = 0
      /\ ~IsEmulated(tx, w) => emulation.actions = <<>>
  BY EmulationAdds
<1>3. static.actions = [i \in DOMAIN static.parsedMessages |-> classifyMessage(static.parsedMessages[i])]
  BY DEF scanTransactionJson
<1>4. static.actions \o <<>> = static.actions
  <2>1. static.parsedMessages \in Seq(ParsedMessages)
    BY StaticDecode
  <2> HIDE DEF static
  <2>2. static.actions \in Seq({classifyMessage(m) : m \in ParsedMessages})
    BY <1>3, <2>1
  <2> QED
    BY <2>2
<1>5. Malformed(static.findings) # {} => result = [findings |-> static.findings, actions |-> static.actions]
  BY DEF scanTransaction
<1>6. Malformed(static.findings) = {} => /\ result.findings = static.findings \o emulation.findings
                                         /\ result.actions = static.actions \o emulation.actions
  BY DEF scanTransaction
<1>7. Malformed(static.findings) = {} => Cardinality(Malformed(static.findings)) = 0
  BY <1>1, FS_EmptySet
<1> HIDE DEF static, emulation, result
<1>8. Cardinality(Malformed(static.findings \o emulation.findings)) =
         Cardinality(Malformed(static.findings)) + Cardinality(Malformed(emulation.findings))
  <2> DEFINE s == static.findings
             t == emulation.findings
  <2>1. s \in Seq(Findings) /\ t \in Seq(Findings)
    BY <1>1, <1>2
  <2> HIDE DEF s, t
  <2>2. Cardinality(Of(s \o t, "TRANSACTION_MALFORMED_MESSAGE")) =
           Cardinality(Of(s, "TRANSACTION_MALFORMED_MESSAGE")) + Cardinality(Of(t, "TRANSACTION_MALFORMED_MESSAGE"))
    BY <2>1, CountOfConcat
  <2> QED
    BY <2>2 DEF Malformed, s, t
<1>9. static.findings \o emulation.findings \in Seq(Findings)
  BY <1>1, <1>2
<1>10. CASE Malformed(static.findings) # {}
  <2>1. result.findings = static.findings /\ result.actions = static.actions
    BY <1>5, <1>10
  <2>2. Cardinality(Malformed(result.findings)) <= 1
    BY <1>1, <2>1
  <2> QED
    BY <1>10, <2>1, <2>2 DEF DecodersAgree, static, result
<1>11. CASE Malformed(static.findings) = {}
  <2>1. result.findings = static.findings \o emulation.findings /\ result.actions = static.actions \o emulation.actions
    BY <1>6, <1>11
  <2>2. Cardinality(Malformed(result.findings)) = Cardinality(Malformed(emulation.findings))
    BY <1>2, <1>7, <1>8, <1>11, <2>1
  <2>3. Cardinality(Malformed(result.findings)) <= 1
    BY <1>2, <2>2
  <2>4. CASE IsEmulated(tx, w)
    <3>1. LET built == buildExternalMessageBoc(tx)
          IN  /\ Shown(static.parsedMessages) = Shown(built)
              /\ \A i \in DOMAIN built :
                    InOwnKeys(Entries(tx)[i]) =>
                        /\ static.parsedMessages[i].payload = built[i].body
                        /\ static.parsedMessages[i].hasStateInit = built[i].init
              /\ hasStateInit(tx) <=> \E i \in DOMAIN built : built[i].init
      BY <2>4, ShownAsBuilt DEF static
    <3>2. Malformed(result.findings) = {}
      <4>1. Cardinality(Malformed(result.findings)) = 0 /\ result.findings \in Seq(Findings)
        BY <1>2, <1>9, <2>1, <2>2, <2>4
      <4> QED
        BY <4>1, NoneFound DEF Malformed
    <3> QED
      BY <2>3, <3>1, <3>2 DEF DecodersAgree, static, result
  <2>5. CASE ~IsEmulated(tx, w)
    <3>1. result.actions = static.actions
      BY <1>2, <1>4, <2>1, <2>5
    <3> QED
      BY <2>3, <2>5, <3>1 DEF DecodersAgree, static, result
  <2> QED
    BY <2>4, <2>5
<1> QED
  BY <1>10, <1>11

-----------------------------------------------------------------------------
(* An outage                                                                *)

(* What a rule adds.                                                         *)
LEMMA QuietScores ==
    /\ \A rule \in QuietRules : getCoreRule(rule).scoreDelta \in 0 .. 10
    /\ getCoreRule("TRANSACTION_MALFORMED_MESSAGE").scoreDelta \in Nat
    /\ getCoreRule("TRANSACTION_OPAQUE_PAYLOAD").scoreDelta \in Nat
<1>1. ASSUME NEW rule \in {"TRANSACTION_MALFORMED_MESSAGE", "TRANSACTION_OPAQUE_PAYLOAD"}
      PROVE  getCoreRule(rule) = GeneralRules[rule]
  <2>1. /\ rule \in DOMAIN GeneralRules /\ rule \notin DOMAIN EmulationRules
        /\ rule \notin DOMAIN TelegramRules
    BY DEF GeneralRules, EmulationRules, TelegramRules
  <2> QED
    BY <2>1, Zenon DEF getCoreRule
<1>2. /\ GeneralRules["TRANSACTION_MALFORMED_MESSAGE"].scoreDelta = 25
      /\ GeneralRules["TRANSACTION_OPAQUE_PAYLOAD"].scoreDelta = 25
  BY DEF GeneralRules, Rule
<1>3. ASSUME NEW rule \in QuietRules
      PROVE  getCoreRule(rule) = EmulationRules[rule]
  <2>1. /\ rule \in DOMAIN EmulationRules /\ rule \notin DOMAIN GeneralRules
        /\ rule \notin DOMAIN TelegramRules
    BY DEF QuietRules, GeneralRules, EmulationRules, TelegramRules
  <2> QED
    BY <2>1, Zenon DEF getCoreRule
<1>4. /\ EmulationRules["EMULATION_NOT_CONFIGURED"].scoreDelta = 5
      /\ EmulationRules["EMULATION_SKIPPED_NO_SENDER"].scoreDelta = 5
      /\ EmulationRules["EMULATION_SENDER_UNINITIALISED"].scoreDelta = 5
      /\ EmulationRules["EMULATION_SKIPPED_NO_MESSAGES"].scoreDelta = 5
      /\ EmulationRules["EMULATION_RATE_LIMITED"].scoreDelta = 5
      /\ EmulationRules["EMULATION_PROVIDER_DOWN"].scoreDelta = 10
      /\ EmulationRules["EMULATION_FAILED"].scoreDelta = 10
  BY DEF EmulationRules, Rule
<1>5. \A rule \in QuietRules : EmulationRules[rule].scoreDelta \in 0 .. 10
  BY <1>4 DEF QuietRules
<1> QED
  BY <1>1, <1>2, <1>3, <1>5

LEMMA FailingFields ==
    ASSUME NEW w \in Worlds, NEW status \in HttpStatuses
    PROVE  /\ LET x == Failing(w, "emulate", status)
              IN  /\ x \in Worlds
                  /\ x.enabled = w.enabled /\ x.getAccount = w.getAccount /\ x.account = w.account
                  /\ x.wallet = w.wallet /\ x.getSeqno = w.getSeqno /\ x.emulate = status
                  /\ x.thrown = w.thrown
           /\ LET x == Failing(w, "getAccount", status)
              IN  /\ x \in Worlds
                  /\ x.enabled = w.enabled /\ x.getAccount = status /\ x.account = w.account
                  /\ x.wallet = w.wallet /\ x.getSeqno = w.getSeqno /\ x.emulate = w.emulate
                  /\ x.thrown = w.thrown
           /\ LET x == Failing(w, "getSeqno", status)
              IN  /\ x \in Worlds
                  /\ x.enabled = w.enabled /\ x.getAccount = w.getAccount /\ x.account = w.account
                  /\ x.wallet = w.wallet /\ x.getSeqno = status /\ x.emulate = w.emulate
                  /\ x.thrown = w.thrown
BY DEF Failing, Worlds

LEMMA OnlyObstacle ==
    ASSUME NEW tx, NEW w, NEW static, NEW i \in 1 .. 10, Obstacles(tx, w)[i].met,
           \A j \in 1 .. 10 : j # i => ~Obstacles(tx, w)[j].met
    PROVE  scanTransactionWithEmulation(tx, w, static) = Obstacles(tx, w)[i].result
<1> DEFINE o == Obstacles(tx, w)
<1>1. DOMAIN o = 1 .. 10 /\ 10 \in Nat
  BY ObstacleList
<1>2. Met(o) # {} /\ ~IsEmulated(tx, w)
  BY <1>1 DEF Met, IsEmulated
<1>3. Min(Met(o)) \in 1 .. 10 /\ o[Min(Met(o))].met
  BY <1>1, <1>2, FirstMet
<1>4. Min(Met(o)) = i
  BY <1>3
<1> QED
  BY <1>2, <1>4 DEF scanTransactionWithEmulation

(* Each call's failure alone, in a world in which the transaction is emulated.    *)
LEMMA OneFailure ==
    ASSUME NEW tx \in Transactions, NEW w \in Worlds, NEW static, NEW status \in HttpStatuses \ {200},
           IsEmulated(tx, w)
    PROVE  LET result == metadataFailure(w, status)
           IN  /\ \A field \in {"emulate", "getAccount", "getSeqno"} :
                     scanTransactionWithEmulation(tx, Failing(w, field, status), static) = result
               /\ scanBocWithEmulation("boc", Failing(w, "emulate", status)) = result
<1> DEFINE result == metadataFailure(w, status)
<1>0. w.enabled \in BOOLEAN
  BY DEF Worlds
<1>1. \A x : x.thrown = w.thrown => /\ metadataFailure(x, status) = result
                                    /\ x.emulate = status => emulateFailure(x) = result
  BY FailureNames
<1>2. \A i \in 1 .. 10 : ~Obstacles(tx, w)[i].met
  BY ObstacleList DEF IsEmulated, Met
<1>3. /\ w.enabled /\ tx.from = "given" /\ w.getAccount = 200 /\ w.account = "active" /\ w.wallet # "unknown"
      /\ w.getSeqno = 200 /\ parseTonConnectMessages(tx) # "no_messages_field"
      /\ parseTonConnectMessages(tx) # "malformed" /\ CanBuild(tx) /\ w.emulate = 200
  BY <1>0, <1>2, ObstacleMet
<1>4. \A i \in 1 .. 10 : \/ i = 1 \/ i = 2 \/ i = 3 \/ i = 4 \/ i = 5 \/ i = 6 \/ i = 7
                         \/ i = 8 \/ i = 9 \/ i = 10
  OBVIOUS
<1>5. scanTransactionWithEmulation(tx, Failing(w, "emulate", status), static) = result
  <2> DEFINE x == Failing(w, "emulate", status)
  <2>1. /\ x.enabled = w.enabled /\ x.getAccount = w.getAccount /\ x.account = w.account
        /\ x.wallet = w.wallet /\ x.getSeqno = w.getSeqno /\ x.emulate = status /\ x.thrown = w.thrown
    BY FailingFields
  <2>0. x.enabled \in BOOLEAN
    BY <1>0, <2>1
  <2> HIDE DEF x, result
  <2>2. Obstacles(tx, x)[10].met /\ \A i \in 1 .. 10 : i # 10 => ~Obstacles(tx, x)[i].met
    <3> DEFINE o == Obstacles(tx, x)
    <3>1. /\ o[1].met <=> ~x.enabled
          /\ o[2].met <=> tx.from # "given"
          /\ o[3].met <=> x.getAccount # 200
          /\ o[4].met <=> x.account # "active"
          /\ o[5].met <=> x.wallet = "unknown"
          /\ o[6].met <=> x.getSeqno # 200
          /\ o[7].met <=> parseTonConnectMessages(tx) = "no_messages_field"
          /\ o[8].met <=> parseTonConnectMessages(tx) = "malformed"
          /\ o[9].met <=> ~CanBuild(tx)
          /\ o[10].met <=> x.emulate # 200
      BY <2>0, ObstacleMet
    <3> HIDE DEF o
    <3>2. status # 200
      OBVIOUS
    <3> QED
      BY <1>3, <1>4, <2>1, <3>1, <3>2 DEF o
  <2>3. Obstacles(tx, x)[10].result = result
    <3>1. Obstacles(tx, x)[10] = Obstacle(x.emulate # 200, emulateFailure(x))
      BY ObstacleList
    <3>2. Obstacles(tx, x)[10].result = emulateFailure(x)
      BY <3>1 DEF Obstacle
    <3> QED
      BY <1>1, <2>1, <3>2
  <2>4. 10 \in 1 .. 10
    OBVIOUS
  <2>5. scanTransactionWithEmulation(tx, x, static) = Obstacles(tx, x)[10].result
    BY <2>2, <2>4, OnlyObstacle
  <2> QED
    BY <2>3, <2>5 DEF x
<1>6. scanTransactionWithEmulation(tx, Failing(w, "getAccount", status), static) = result
  <2> DEFINE x == Failing(w, "getAccount", status)
  <2>1. /\ x.enabled = w.enabled /\ x.getAccount = status /\ x.account = w.account
        /\ x.wallet = w.wallet /\ x.getSeqno = w.getSeqno /\ x.emulate = w.emulate /\ x.thrown = w.thrown
    BY FailingFields
  <2>0. x.enabled \in BOOLEAN
    BY <1>0, <2>1
  <2> HIDE DEF x
  <2>2. Obstacles(tx, x)[3].met /\ \A i \in 1 .. 10 : i # 3 => ~Obstacles(tx, x)[i].met
    <3> DEFINE o == Obstacles(tx, x)
    <3>1. /\ o[1].met <=> ~x.enabled
          /\ o[2].met <=> tx.from # "given"
          /\ o[3].met <=> x.getAccount # 200
          /\ o[4].met <=> x.account # "active"
          /\ o[5].met <=> x.wallet = "unknown"
          /\ o[6].met <=> x.getSeqno # 200
          /\ o[7].met <=> parseTonConnectMessages(tx) = "no_messages_field"
          /\ o[8].met <=> parseTonConnectMessages(tx) = "malformed"
          /\ o[9].met <=> ~CanBuild(tx)
          /\ o[10].met <=> x.emulate # 200
      BY <2>0, ObstacleMet
    <3> HIDE DEF o
    <3>2. status # 200
      OBVIOUS
    <3> QED
      BY <1>3, <1>4, <2>1, <3>1, <3>2 DEF o
  <2>3. Obstacles(tx, x)[3].result = result
    <3>1. Obstacles(tx, x)[3] = Obstacle(x.getAccount # 200, metadataFailure(x, x.getAccount))
      BY ObstacleList
    <3>2. Obstacles(tx, x)[3].result = metadataFailure(x, x.getAccount)
      BY <3>1 DEF Obstacle
    <3> QED
      BY <1>1, <2>1, <3>2
  <2> HIDE DEF result
  <2>4. 3 \in 1 .. 10
    OBVIOUS
  <2>5. scanTransactionWithEmulation(tx, x, static) = Obstacles(tx, x)[3].result
    BY <2>2, <2>4, OnlyObstacle
  <2> QED
    BY <2>3, <2>5 DEF x
<1>7. scanTransactionWithEmulation(tx, Failing(w, "getSeqno", status), static) = result
  <2> DEFINE x == Failing(w, "getSeqno", status)
  <2>1. /\ x.enabled = w.enabled /\ x.getAccount = w.getAccount /\ x.account = w.account
        /\ x.wallet = w.wallet /\ x.getSeqno = status /\ x.emulate = w.emulate /\ x.thrown = w.thrown
    BY FailingFields
  <2>0. x.enabled \in BOOLEAN
    BY <1>0, <2>1
  <2> HIDE DEF x
  <2>2. Obstacles(tx, x)[6].met /\ \A i \in 1 .. 10 : i # 6 => ~Obstacles(tx, x)[i].met
    <3> DEFINE o == Obstacles(tx, x)
    <3>1. /\ o[1].met <=> ~x.enabled
          /\ o[2].met <=> tx.from # "given"
          /\ o[3].met <=> x.getAccount # 200
          /\ o[4].met <=> x.account # "active"
          /\ o[5].met <=> x.wallet = "unknown"
          /\ o[6].met <=> x.getSeqno # 200
          /\ o[7].met <=> parseTonConnectMessages(tx) = "no_messages_field"
          /\ o[8].met <=> parseTonConnectMessages(tx) = "malformed"
          /\ o[9].met <=> ~CanBuild(tx)
          /\ o[10].met <=> x.emulate # 200
      BY <2>0, ObstacleMet
    <3> HIDE DEF o
    <3>2. status # 200
      OBVIOUS
    <3> QED
      BY <1>3, <1>4, <2>1, <3>1, <3>2 DEF o
  <2>3. Obstacles(tx, x)[6].result = result
    <3>1. Obstacles(tx, x)[6] = Obstacle(x.getSeqno # 200, metadataFailure(x, x.getSeqno))
      BY ObstacleList
    <3>2. Obstacles(tx, x)[6].result = metadataFailure(x, x.getSeqno)
      BY <3>1 DEF Obstacle
    <3> QED
      BY <1>1, <2>1, <3>2
  <2> HIDE DEF result
  <2>4. 6 \in 1 .. 10
    OBVIOUS
  <2>5. scanTransactionWithEmulation(tx, x, static) = Obstacles(tx, x)[6].result
    BY <2>2, <2>4, OnlyObstacle
  <2> QED
    BY <2>3, <2>5 DEF x
<1>8. scanBocWithEmulation("boc", Failing(w, "emulate", status)) = result
  <2> DEFINE x == Failing(w, "emulate", status)
             o == BocObstacles("boc", x)
  <2>1. x.enabled = w.enabled /\ x.emulate = status /\ x.thrown = w.thrown
    BY FailingFields
  <2>0. x.enabled \in BOOLEAN
    BY <1>0, <2>1
  <2> HIDE DEF x
  <2>2. /\ DOMAIN o = 1 .. 3 /\ o[1] = Obstacle(~x.enabled, single("EMULATION_NOT_CONFIGURED", "low"))
        /\ o[2] = Obstacle("boc" = "notBoc", single("TRANSACTION_MALFORMED_MESSAGE", "high"))
        /\ o[3] = Obstacle(x.emulate # 200, emulateFailure(x))
    BY DEF BocObstacles
  <2>3. o[1].met = (~x.enabled) /\ o[2].met = ("boc" = "notBoc") /\ o[3].met = (x.emulate # 200)
    BY <2>2 DEF Obstacle
  <2>4. o[3].result = result
    BY <1>1, <2>1, <2>2 DEF Obstacle
  <2> HIDE DEF o, result
  <2>5. ~o[1].met /\ ~o[2].met /\ o[3].met
    BY <1>3, <2>1, <2>3
  <2>6. Met(o) # {}
    BY <2>2, <2>5 DEF Met
  <2>7. Min(Met(o)) \in 1 .. 3 /\ o[Min(Met(o))].met
    BY <2>2, <2>6, FirstMet
  <2>8. Min(Met(o)) = 3
    BY <2>5, <2>7
  <2> QED
    BY <2>4, <2>6, <2>8 DEF scanBocWithEmulation, x, o
<1> QED
  BY <1>5, <1>6, <1>7, <1>8

LEMMA NoScore == Reached(scoreFindings(<<>>)) = 0
<1>1. <<>> \in Seq(Findings) /\ Len(<<>>) = 0 /\ DOMAIN <<>> = {}
  OBVIOUS
<1>2. PICK t \in [0 .. 0 -> Int] : t[0] = 0 /\ scoreFindings(<<>>) = clampRiskScore(t[0])
  <2>1. \A i \in DOMAIN <<>> : getCoreRule(<<>>[i].rule).scoreDelta \in Int
    BY <1>1
  <2>2. \E t \in [0 .. Len(<<>>) -> Int] : t[0] = 0 /\ scoreFindings(<<>>) = clampRiskScore(t[Len(<<>>)])
    BY <1>1, <2>1, ScoreIsTotal
  <2> QED
    BY <1>1, <2>2
<1>3. scoreFindings(<<>>) = 0
  BY <1>2 DEF clampRiskScore
<1> QED
  BY <1>3, ReachedLevels

(* What a quiet finding, or none, does to a list and its score.                  *)
LEMMA QuietFinding ==
    ASSUME NEW s \in Seq(Findings), NEW x \in Seq(Findings),
           \A i \in DOMAIN s : s[i].rule \in {"TRANSACTION_MALFORMED_MESSAGE", "TRANSACTION_OPAQUE_PAYLOAD"},
           \/ x = <<>>
           \/ \E rule \in QuietRules, confidence \in Confidences : x = <<Finding(rule, confidence)>>
    PROVE  /\ SubSeq(s \o x, 1, Len(s)) = s
           /\ s = <<>> => Report(s \o x).verdict = "safe"
           /\ Reached(scoreFindings(s \o x)) <= Reached(scoreFindings(s)) + 1
<1>1. SubSeq(s \o x, 1, Len(s)) = s
  OBVIOUS
<1>2. \A i \in DOMAIN s : getCoreRule(s[i].rule).scoreDelta \in Nat
  BY QuietScores
<1>3. PICK n \in 0 .. 4 : n = Reached(scoreFindings(s))
  <2>1. \A i \in DOMAIN s : getCoreRule(s[i].rule).scoreDelta \in Int
    BY <1>2
  <2>2. PICK t \in [0 .. Len(s) -> Int] : scoreFindings(s) = clampRiskScore(t[Len(s)])
    BY <2>1, ScoreIsTotal
  <2>3. scoreFindings(s) \in Int
    <3>1. t[Len(s)] \in Int
      OBVIOUS
    <3> QED
      BY <2>2, <3>1 DEF clampRiskScore
  <2> QED
    BY <2>3, ReachedLevels
<1>4. ASSUME Reached(scoreFindings(s \o x)) = 0
      PROVE  Report(s \o x).verdict = "safe"
  BY <1>4 DEF Report, verdictFromScore
<1>5. CASE x = <<>>
  <2>1. s \o x = s
    BY <1>5
  <2>2. s = <<>> => Reached(scoreFindings(s \o x)) = 0
    BY <2>1, NoScore
  <2> QED
    BY <1>1, <1>3, <1>4, <2>1, <2>2
<1>6. ASSUME NEW rule \in QuietRules, NEW confidence \in Confidences, x = <<Finding(rule, confidence)>>
      PROVE  /\ s = <<>> => Reached(scoreFindings(s \o x)) = 0
             /\ Reached(scoreFindings(s \o x)) <= Reached(scoreFindings(s)) + 1
  <2> DEFINE f == Finding(rule, confidence)
  <2>1. rule \in ScanRules
    BY DEF QuietRules, ScanRules
  <2>2. f \in Findings /\ f.rule = rule
    BY <2>1 DEF Finding, Findings
  <2>3. getCoreRule(f.rule).scoreDelta \in 0 .. 10
    BY <2>2, QuietScores
  <2> HIDE DEF f
  <2> QED
    BY <1>2, <1>6, <2>2, <2>3, OneMoreFinding DEF f
<1> QED
  BY <1>1, <1>4, <1>5, <1>6

(* For every transaction, every state of TONAPI, every status of a failed call and   *)
(* wherever its error carries the status, read or lost: the failure makes the        *)
(* transaction look no riskier, and is reported alike whichever call it hits.       *)
THEOREM OutagesAreAlwaysQuiet ==
    ASSUME NEW tx \in Transactions, NEW w \in Worlds, NEW status \in HttpStatuses \ {200}
    PROVE  OutageIsQuiet(tx, w, status)
<1> DEFINE x == Failing(w, "emulate", status)
           static == scanTransactionJson(tx)
           emulation == scanTransactionWithEmulation(tx, x, static)
           failed == scanTransaction(tx, x).findings
<1>1. x \in Worlds /\ x.emulate = status /\ x.enabled \in BOOLEAN
  <2>1. x \in Worlds /\ x.emulate = status
    BY FailingFields
  <2> HIDE DEF x
  <2> QED
    BY <2>1 DEF Worlds
<1>2. /\ static.findings \in Seq(Findings)
      /\ \A i \in DOMAIN static.findings :
            static.findings[i].rule \in {"TRANSACTION_MALFORMED_MESSAGE", "TRANSACTION_OPAQUE_PAYLOAD"}
  BY StaticDecode
<1>3. ~IsEmulated(tx, x)
  <2>1. Obstacles(tx, x)[10].met
    <3>1. x.emulate # 200
      BY <1>1
    <3> HIDE DEF x
    <3> QED
      BY <1>1, <3>1, ObstacleMet
  <2>2. 10 \in DOMAIN Obstacles(tx, x)
    BY ObstacleList
  <2> QED
    BY <2>1, <2>2 DEF IsEmulated, Met
<1>4. emulation \in Refusals
  BY <1>1, <1>3, NotEmulated
<1>5. /\ emulation.findings \in Seq(Findings)
      /\ \/ emulation.findings = <<>>
         \/ \E rule \in QuietRules, confidence \in Confidences :
               emulation.findings = <<Finding(rule, confidence)>>
         \/ Cardinality(Malformed(emulation.findings)) = 1
  <2> HIDE DEF emulation
  <2> QED
    BY <1>4, RefusalFindings
<1>6. Malformed(static.findings) # {} => failed = static.findings
  BY DEF scanTransaction
<1>7. Malformed(static.findings) = {} => failed = static.findings \o emulation.findings
  BY DEF scanTransaction
<1>8. IsEmulated(tx, w) =>
         /\ Malformed(static.findings) = {}
         /\ \A field \in {"getAccount", "getSeqno"} :
               scanTransaction(tx, Failing(w, field, status)).findings = failed
         /\ failed = static.findings \o scanBocWithEmulation("boc", x).findings
  <2> SUFFICES ASSUME IsEmulated(tx, w)
               PROVE  /\ Malformed(static.findings) = {}
                      /\ \A field \in {"getAccount", "getSeqno"} :
                            scanTransaction(tx, Failing(w, field, status)).findings = failed
                      /\ failed = static.findings \o scanBocWithEmulation("boc", x).findings
    OBVIOUS
  <2> DEFINE result == metadataFailure(w, status)
  <2>1. Malformed(static.findings) = {}
    BY ShownAsBuilt
  <2> HIDE DEF static
  <2>2. /\ \A field \in {"emulate", "getAccount", "getSeqno"} :
              scanTransactionWithEmulation(tx, Failing(w, field, status), static) = result
        /\ scanBocWithEmulation("boc", x) = result
    BY OneFailure
  <2> HIDE DEF result
  <2>3. \A field \in {"emulate", "getAccount", "getSeqno"} :
           scanTransaction(tx, Failing(w, field, status)).findings = static.findings \o result.findings
    BY <2>1, <2>2 DEF scanTransaction, static
  <2> QED
    BY <2>1, <2>2, <2>3
<1> HIDE DEF x, static, emulation, failed
<1>9. ASSUME Malformed(failed) = {}
      PROVE  /\ SubSeq(failed, 1, Len(static.findings)) = static.findings
             /\ static.findings = <<>> => Report(failed).verdict = "safe"
             /\ Reached(scoreFindings(failed)) <= Reached(scoreFindings(static.findings)) + 1
  <2> DEFINE s == static.findings
             e == emulation.findings
  <2>1. Malformed(s) = {} /\ failed = s \o e
    BY <1>6, <1>7, <1>9
  <2>2. s \in Seq(Findings) /\ e \in Seq(Findings)
    BY <1>2, <1>5
  <2> HIDE DEF s, e
  <2>3. Cardinality(Malformed(e)) = 0
    <3>1. Cardinality(Of(s \o e, "TRANSACTION_MALFORMED_MESSAGE")) =
             Cardinality(Of(s, "TRANSACTION_MALFORMED_MESSAGE")) + Cardinality(Of(e, "TRANSACTION_MALFORMED_MESSAGE"))
      BY <2>2, CountOfConcat
    <3>2. /\ Cardinality(Of(s, "TRANSACTION_MALFORMED_MESSAGE")) = 0
          /\ Cardinality(Of(s \o e, "TRANSACTION_MALFORMED_MESSAGE")) = 0
      BY <1>9, <2>1, FS_EmptySet DEF Malformed
    <3>3. Cardinality(Of(e, "TRANSACTION_MALFORMED_MESSAGE")) \in Nat
      BY <2>2, CountOfConcat
    <3> QED
      BY <3>1, <3>2, <3>3 DEF Malformed
  <2>4. \/ e = <<>>
        \/ \E rule \in QuietRules, confidence \in Confidences : e = <<Finding(rule, confidence)>>
    BY <1>5, <2>3 DEF e
  <2>5. \A i \in DOMAIN s : s[i].rule \in {"TRANSACTION_MALFORMED_MESSAGE", "TRANSACTION_OPAQUE_PAYLOAD"}
    BY <1>2 DEF s
  <2>6. /\ SubSeq(s \o e, 1, Len(s)) = s
        /\ s = <<>> => Report(s \o e).verdict = "safe"
        /\ Reached(scoreFindings(s \o e)) <= Reached(scoreFindings(s)) + 1
    BY <2>2, <2>4, <2>5, QuietFinding
  <2> QED
    BY <2>1, <2>6 DEF s
<1> QED
  BY <1>8, <1>9 DEF OutageIsQuiet, x, static, failed

-----------------------------------------------------------------------------
(* Undeclared transfers                                                     *)

(* A position is told by its rank.                                            *)
LEMMA RankTells ==
    ASSUME NEW n \in Nat, NEW P \in SUBSET (1 .. n)
    PROVE  /\ \A i \in P : Cardinality({j \in P : j <= i}) \in 1 .. Cardinality(P)
           /\ \A i, k \in P : Cardinality({j \in P : j <= i}) = Cardinality({j \in P : j <= k}) => i = k
<1> DEFINE N == Cardinality(P)
           Place(m) == Cardinality({j \in P : j <= m})
<1>1. /\ \A m \in P : \E a \in 1 .. N : Nth(P, a) = m
      /\ \A a \in 1 .. N : Place(Nth(P, a)) = a
  BY NthPosition
<1> HIDE DEF N, Place
<1>2. ASSUME NEW i \in P, NEW k \in P
      PROVE  Place(i) \in 1 .. N /\ (Place(i) = Place(k) => i = k)
  <2>1. PICK a \in 1 .. N : Nth(P, a) = i
    BY <1>1
  <2>2. PICK b \in 1 .. N : Nth(P, b) = k
    BY <1>1
  <2>3. Place(i) = a /\ Place(k) = b
    BY <1>1, <2>1, <2>2
  <2> QED
    BY <2>1, <2>2, <2>3
<1> QED
  BY <1>2 DEF N, Place

(* Pairing two lists by position leaves apart at least as many entries of the       *)
(* second as it has in excess of the first.                                    *)
LEMMA ApartAtLeastExcess ==
    ASSUME NEW X, NEW D \in Seq(X), NEW E \in Seq(X)
    PROVE  LET Apart == {i \in DOMAIN E : i \in DOMAIN D => D[i] # E[i]}
           IN  IsFiniteSet(Apart) /\ Cardinality(Excess(D, E)) <= Cardinality(Apart)
<1> DEFINE n == Len(E)
           m == Len(D)
           Apart == {i \in DOMAIN E : i \in DOMAIN D => D[i] # E[i]}
           Paired == DOMAIN E \ Apart
           Meant == DOMAIN E \ Excess(D, E)
           Like(x) == {j \in DOMAIN E : E[j] = x}
           PairedLike(x) == {j \in Paired : E[j] = x}
           Place(i) == Cardinality({j \in PairedLike(E[i]) : j <= i})
           f == [i \in Paired |-> Nth(Like(E[i]), Place(i))]
<1>1. n \in Nat /\ m \in Nat /\ DOMAIN E = 1 .. n /\ DOMAIN D = 1 .. m
  OBVIOUS
<1> HIDE DEF n, m
<1>2. /\ Apart \in SUBSET (1 .. n) /\ Paired \in SUBSET (1 .. n) /\ Meant \in SUBSET (1 .. n)
      /\ Excess(D, E) \in SUBSET (1 .. n)
      /\ \A x : Like(x) \in SUBSET (1 .. n) /\ PairedLike(x) \in SUBSET (1 .. n)
  BY <1>1 DEF Excess
<1>3. \A S \in SUBSET (1 .. n) : IsFiniteSet(S) /\ Cardinality(S) \in Nat
  BY <1>1, NthPosition
<1>4. ASSUME NEW x
      PROVE  /\ Cardinality(PairedLike(x)) <= Cardinality(Like(x))
             /\ Cardinality(PairedLike(x)) <= CountOf(D, x)
             /\ Cardinality(PairedLike(x)) \in Nat /\ CountOf(D, x) \in Nat
             /\ Cardinality(Like(x)) \in Nat
  <2> DEFINE Declared == {i \in DOMAIN D : D[i] = x}
  <2>1. PairedLike(x) \subseteq Like(x) /\ PairedLike(x) \subseteq Declared
    OBVIOUS
  <2>2. Declared \in SUBSET (1 .. m)
    BY <1>1
  <2>3. IsFiniteSet(Declared) /\ Cardinality(Declared) \in Nat
    BY <1>1, <2>2, NthPosition
  <2>4. IsFiniteSet(Like(x)) /\ Cardinality(Like(x)) \in Nat /\ Cardinality(PairedLike(x)) \in Nat
    BY <1>2, <1>3
  <2>5. CountOf(D, x) = Cardinality(Declared)
    BY DEF CountOf
  <2> HIDE DEF Like, PairedLike, Declared
  <2>6. Cardinality(PairedLike(x)) <= Cardinality(Like(x))
    BY <2>1, <2>4, FS_Subset
  <2>7. Cardinality(PairedLike(x)) <= Cardinality(Declared)
    BY <2>1, <2>3, FS_Subset
  <2> QED
    BY <2>3, <2>4, <2>5, <2>6, <2>7
<1>5. ASSUME NEW i \in Paired
      PROVE  /\ Place(i) \in 1 .. Cardinality(PairedLike(E[i]))
             /\ \A k \in Paired : E[k] = E[i] /\ Place(k) = Place(i) => k = i
             /\ f[i] \in Like(E[i])
             /\ Cardinality({j \in Like(E[i]) : j <= f[i]}) = Place(i)
  <2> DEFINE P == PairedLike(E[i])
             L == Like(E[i])
  <2>1. i \in P /\ P \in SUBSET (1 .. n) /\ L \in SUBSET (1 .. n)
    BY <1>2
  <2>2. \A k \in Paired : E[k] = E[i] => k \in P /\ Place(k) = Cardinality({j \in P : j <= k})
    OBVIOUS
  <2>3. Cardinality(P) \in Nat /\ Cardinality(L) \in Nat /\ Cardinality(P) <= Cardinality(L)
    BY <1>4
  <2>4. Place(i) = Cardinality({j \in P : j <= i}) /\ f[i] = Nth(L, Place(i))
    OBVIOUS
  <2> HIDE DEF P, L, f, Place, Paired
  <2>5. Place(i) \in 1 .. Cardinality(P)
    <3>1. \A k \in P : Cardinality({j \in P : j <= k}) \in 1 .. Cardinality(P)
      BY <1>1, <2>1, RankTells
    <3> QED
      BY <2>1, <2>4, <3>1
  <2>6. ASSUME NEW k \in Paired, E[k] = E[i], Place(k) = Place(i)
        PROVE  k = i
    <3>1. k \in P /\ Cardinality({j \in P : j <= k}) = Cardinality({j \in P : j <= i})
      BY <2>2, <2>4, <2>6
    <3>2. \A a, b \in P : Cardinality({j \in P : j <= a}) = Cardinality({j \in P : j <= b}) => a = b
      BY <1>1, <2>1, RankTells
    <3> QED
      BY <2>1, <3>1, <3>2
  <2>7. Place(i) \in 1 .. Cardinality(L)
    BY <2>3, <2>5
  <2>8. Nth(L, Place(i)) \in L /\ Cardinality({j \in L : j <= Nth(L, Place(i))}) = Place(i)
    BY <1>1, <2>1, <2>7, NthPosition
  <2> QED
    BY <2>4, <2>5, <2>6, <2>8 DEF P, L
<1>6. ASSUME NEW i \in Paired
      PROVE  f[i] \in Meant /\ E[f[i]] = E[i]
  <2>1. f[i] \in DOMAIN E /\ E[f[i]] = E[i]
    BY <1>5
  <2> DEFINE S == {j \in DOMAIN E : E[j] = E[f[i]] /\ j <= f[i]}
  <2>2. S = {j \in Like(E[i]) : j <= f[i]}
    BY <2>1
  <2>3. Cardinality(S) = Place(i)
    BY <1>5, <2>2
  <2>4. Place(i) \in 1 .. Cardinality(PairedLike(E[i]))
    BY <1>5
  <2>5. Cardinality(PairedLike(E[i])) <= CountOf(D, E[i]) /\ CountOf(D, E[i]) \in Nat
        /\ Cardinality(PairedLike(E[i])) \in Nat
    BY <1>4
  <2> HIDE DEF f, Place, PairedLike
  <2>6. ~(Cardinality(S) > CountOf(D, E[f[i]]))
    BY <2>1, <2>3, <2>4, <2>5
  <2> QED
    BY <2>1, <2>6 DEF Excess
<1>7. f \in Injection(Paired, Meant)
  <2>1. \A i \in Paired : f[i] \in Meant
    BY <1>6
  <2>2. ASSUME NEW i \in Paired, NEW k \in Paired, f[i] = f[k]
        PROVE  i = k
    <3>1. E[i] = E[k]
      BY <1>6, <2>2
    <3>2. Place(i) = Place(k)
      <4>1. Like(E[i]) = Like(E[k])
        BY <3>1
      <4>2. Cardinality({j \in Like(E[i]) : j <= f[i]}) = Place(i)
        BY <1>5
      <4>3. Cardinality({j \in Like(E[k]) : j <= f[k]}) = Place(k)
        BY <1>5
      <4> HIDE DEF Like, Place, f
      <4> QED
        BY <2>2, <4>1, <4>2, <4>3
    <3> HIDE DEF Place
    <3> QED
      BY <1>5, <3>1, <3>2
  <2>3. f = [i \in Paired |-> f[i]]
    OBVIOUS
  <2> HIDE DEF f, Meant, Paired
  <2> QED
    BY <2>1, <2>2, <2>3 DEF Injection, IsInjective
<1>8. Cardinality(Paired) <= Cardinality(Meant)
  <2>1. IsFiniteSet(Meant)
    BY <1>2, <1>3
  <2> HIDE DEF f, Meant, Paired
  <2> QED
    BY <1>7, <2>1, FS_Injection
<1>9. IsFiniteSet(DOMAIN E) /\ IsFiniteSet(Apart) /\ IsFiniteSet(Excess(D, E)) /\ IsFiniteSet(Paired) /\ IsFiniteSet(Meant)
  BY <1>1, <1>2, <1>3
<1>10. /\ Cardinality(DOMAIN E) \in Nat /\ Cardinality(Apart) \in Nat /\ Cardinality(Excess(D, E)) \in Nat
       /\ Cardinality(Paired) \in Nat /\ Cardinality(Meant) \in Nat
  BY <1>9, FS_CardinalityType
<1>11. Cardinality(Paired) = Cardinality(DOMAIN E) - Cardinality(Apart)
  <2>1. Apart \cap DOMAIN E = Apart /\ DOMAIN E \cap Apart = Apart
    BY <1>1, <1>2
  <2> HIDE DEF Apart
  <2>2. Cardinality(DOMAIN E \ Apart) = Cardinality(DOMAIN E) - Cardinality(DOMAIN E \cap Apart)
    BY <1>9, FS_Difference
  <2> QED
    BY <2>1, <2>2
<1>12. Cardinality(Meant) = Cardinality(DOMAIN E) - Cardinality(Excess(D, E))
  <2>1. DOMAIN E \cap Excess(D, E) = Excess(D, E)
    BY <1>1, <1>2
  <2>2. Cardinality(DOMAIN E \ Excess(D, E)) = Cardinality(DOMAIN E) - Cardinality(DOMAIN E \cap Excess(D, E))
    BY <1>9, FS_Difference
  <2> QED
    BY <2>1, <2>2
<1> HIDE DEF Apart, Paired, Meant
<1>13. Cardinality(Excess(D, E)) <= Cardinality(Apart)
  BY <1>8, <1>10, <1>11, <1>12
<1> QED
  BY <1>9, <1>13 DEF Apart

(* For every transaction and every emulation of it: a transfer that the dApp did not *)
(* declare has a finding of its own, and the declared sends have none.            *)
THEOREM UndeclaredAlwaysFlagged ==
    ASSUME NEW tx \in Transactions, NEW w \in Worlds
    PROVE  UndeclaredIsFlagged(tx, w)
<1> DEFINE static == scanTransactionJson(tx)
           messages == static.parsedMessages
           actions == Emulated(w)
           S == Sends(messages)
           T == Transfers(actions)
           D == Shown(S)
           E == Shown(T)
           ok == mapOkResult(w, messages, hasStateInit(tx)).findings
           findings == scanTransaction(tx, w).findings
           Apart == {i \in DOMAIN E : i \in DOMAIN D => D[i] # E[i]}
<1> SUFFICES ASSUME Malformed(static.findings) = {}, IsEmulated(tx, w)
             PROVE  /\ Flags(findings) >= Cardinality(Excess(D, E))
                    /\ E = D => Flags(findings) = 0
  BY DEF UndeclaredIsFlagged
<1>1. /\ static.findings \in Seq(Findings) /\ messages \in Seq(ParsedMessages)
      /\ \A i \in DOMAIN static.findings :
            static.findings[i].rule \in {"TRANSACTION_MALFORMED_MESSAGE", "TRANSACTION_OPAQUE_PAYLOAD"}
  BY StaticDecode
<1>2. findings = static.findings \o ok
  <2>1. scanTransactionWithEmulation(tx, w, static) = mapOkResult(w, messages, hasStateInit(tx))
    BY DEF scanTransactionWithEmulation
  <2> QED
    BY <2>1 DEF scanTransaction
<1> HIDE DEF static, messages, findings
<1>3. /\ ok \in Seq(Findings)
      /\ Cardinality(Of(ok, "EMULATION_MISMATCH")) = Cardinality(mismatches(messages, actions))
      /\ Cardinality(Of(ok, "EMULATION_REVEALED_HIDDEN_ACTION")) = Cardinality(hiddenActions(messages, actions))
      /\ IsFiniteSet(mismatches(messages, actions)) /\ IsFiniteSet(hiddenActions(messages, actions))
  BY <1>1, OkFindings
<1> HIDE DEF ok
<1>4. S \in Seq(ParsedMessages) /\ T \in Seq(EmulatedActions)
  BY <1>1, SendsIsSeq, EmulatedIsSeq
<1>5. Flags(findings) = Cardinality(mismatches(messages, actions)) + Cardinality(hiddenActions(messages, actions))
  <2> DEFINE s == static.findings
  <2>1. s \in Seq(Findings) /\ Of(s, "EMULATION_MISMATCH") = {} /\ Of(s, "EMULATION_REVEALED_HIDDEN_ACTION") = {}
    BY <1>1 DEF Of
  <2> HIDE DEF s
  <2>2. Cardinality(Of(s \o ok, "EMULATION_MISMATCH")) =
           Cardinality(Of(s, "EMULATION_MISMATCH")) + Cardinality(Of(ok, "EMULATION_MISMATCH"))
    BY <1>3, <2>1, CountOfConcat
  <2>3. Cardinality(Of(s \o ok, "EMULATION_REVEALED_HIDDEN_ACTION")) =
           Cardinality(Of(s, "EMULATION_REVEALED_HIDDEN_ACTION"))
           + Cardinality(Of(ok, "EMULATION_REVEALED_HIDDEN_ACTION"))
    BY <1>3, <2>1, CountOfConcat
  <2>4. findings = s \o ok
    BY <1>2 DEF s
  <2>5. Cardinality({}) = 0
    BY FS_EmptySet
  <2>6. Cardinality(mismatches(messages, actions)) \in Nat /\ Cardinality(hiddenActions(messages, actions)) \in Nat
    BY <1>3, FS_CardinalityType
  <2> HIDE DEF actions
  <2>7. Cardinality(Of(findings, "EMULATION_MISMATCH")) = Cardinality(mismatches(messages, actions))
    <3>1. Cardinality(Of(s, "EMULATION_MISMATCH")) = 0
      BY <2>1, <2>5
    <3>2. PICK x \in Nat : x = Cardinality(mismatches(messages, actions))
      BY <2>6
    <3>3. Cardinality(Of(ok, "EMULATION_MISMATCH")) = x
      BY <1>3, <3>2
    <3>4. Cardinality(Of(s \o ok, "EMULATION_MISMATCH")) = 0 + x
      BY <2>2, <3>1, <3>3
    <3> QED
      BY <2>4, <3>2, <3>4
  <2>8. Cardinality(Of(findings, "EMULATION_REVEALED_HIDDEN_ACTION")) = Cardinality(hiddenActions(messages, actions))
    <3>1. Cardinality(Of(s, "EMULATION_REVEALED_HIDDEN_ACTION")) = 0
      BY <2>1, <2>5
    <3>2. PICK x \in Nat : x = Cardinality(hiddenActions(messages, actions))
      BY <2>6
    <3>3. Cardinality(Of(ok, "EMULATION_REVEALED_HIDDEN_ACTION")) = x
      BY <1>3, <3>2
    <3>4. Cardinality(Of(s \o ok, "EMULATION_REVEALED_HIDDEN_ACTION")) = 0 + x
      BY <2>3, <3>1, <3>3
    <3> QED
      BY <2>4, <3>2, <3>4
  <2> QED
    BY <2>7, <2>8 DEF Flags
<1>6. /\ mismatches(messages, actions) \cup hiddenActions(messages, actions) = Apart
      /\ mismatches(messages, actions) \cap hiddenActions(messages, actions) = {}
  <2>1. mismatches(messages, actions) = {i \in DOMAIN S \cap DOMAIN T : S[i].to # T[i].to \/ S[i].value # T[i].value}
    BY DEF mismatches, Differs
  <2>2. hiddenActions(messages, actions) = DOMAIN T \ DOMAIN S
    BY DEF hiddenActions
  <2> HIDE DEF S, T, actions
  <2>3. /\ DOMAIN D = DOMAIN S /\ DOMAIN E = DOMAIN T
        /\ \A i \in DOMAIN S : D[i] = <<S[i].to, S[i].value>>
        /\ \A i \in DOMAIN T : E[i] = <<T[i].to, T[i].value>>
    BY DEF Shown
  <2> HIDE DEF D, E
  <2>4. \A i \in DOMAIN S \cap DOMAIN T : D[i] # E[i] <=> S[i].to # T[i].to \/ S[i].value # T[i].value
    BY <2>3
  <2> QED
    BY <2>1, <2>2, <2>3, <2>4
<1>7. D \in Seq(Accounts \X Nat) /\ E \in Seq(Accounts \X Nat)
  <2>1. \A m \in ParsedMessages : m.to \in Accounts /\ m.value \in Nat
    BY DEF ParsedMessages
  <2>2. \A a \in EmulatedActions : a.to \in Accounts /\ a.value \in Nat
    BY DEF EmulatedActions, toEmulatedAction, Actions
  <2> HIDE DEF S, T
  <2>3. D \in Seq(Accounts \X Nat)
    BY <1>4, <2>1 DEF Shown
  <2>4. E \in Seq(Accounts \X Nat)
    BY <1>4, <2>2 DEF Shown
  <2> QED
    BY <2>3, <2>4
<1> HIDE DEF D, E, S, T, actions
<1>8. IsFiniteSet(Apart) /\ Cardinality(Excess(D, E)) <= Cardinality(Apart)
  BY <1>7, ApartAtLeastExcess
<1> HIDE DEF Apart
<1>9. Flags(findings) = Cardinality(Apart)
  <2>1. Cardinality(mismatches(messages, actions) \cap hiddenActions(messages, actions)) = 0
    BY <1>6, FS_EmptySet
  <2>2. Cardinality(mismatches(messages, actions) \cup hiddenActions(messages, actions)) =
           Cardinality(mismatches(messages, actions)) + Cardinality(hiddenActions(messages, actions))
           - Cardinality(mismatches(messages, actions) \cap hiddenActions(messages, actions))
    BY <1>3, FS_Union
  <2>3. Cardinality(mismatches(messages, actions)) \in Nat /\ Cardinality(hiddenActions(messages, actions)) \in Nat
    BY <1>3, FS_CardinalityType
  <2>4. Cardinality(Apart) = Cardinality(mismatches(messages, actions) \cup hiddenActions(messages, actions))
    BY <1>6
  <2> QED
    BY <1>5, <2>1, <2>2, <2>3, <2>4
<1>10. E = D => Apart = {}
  BY DEF Apart
<1>11. E = D => Flags(findings) = 0
  BY <1>9, <1>10, FS_EmptySet
<1>12. Flags(findings) >= Cardinality(Excess(D, E))
  <2>1. Excess(D, E) \in SUBSET DOMAIN E
    BY DEF Excess
  <2>2. Cardinality(Excess(D, E)) \in Nat /\ Cardinality(Apart) \in Nat
    BY <1>7, <1>8, <2>1, Subpositions, FS_CardinalityType
  <2> QED
    BY <1>8, <1>9, <2>2
<1> QED
  BY <1>11, <1>12

(* An emulation that shows what was built shows the declared sends, and no other    *)
(* transfer.                                                                  *)
LEMMA SendsAreTransfers ==
    ASSUME NEW tx \in Transactions, NEW w \in Worlds, IsEmulated(tx, w), ShowsWhatIsBuilt(tx, w),
           \A i \in DOMAIN Entries(tx) : InOwnKeys(Entries(tx)[i])
    PROVE  /\ Malformed(scanTransactionJson(tx).findings) = {}
           /\ Shown(Transfers(Emulated(w))) = Shown(Sends(scanTransactionJson(tx).parsedMessages))
<1> DEFINE messages == scanTransactionJson(tx).parsedMessages
           built == buildExternalMessageBoc(tx)
           actions == Emulated(w)
           P == {i \in DOMAIN messages : isComparableTonSend(messages[i])}
           Q == {i \in DOMAIN actions : actions[i].kind = "ton_transfer" /\ actions[i].details}
<1>1. /\ Malformed(scanTransactionJson(tx).findings) = {}
      /\ messages \in Seq(ParsedMessages) /\ Shown(messages) = Shown(built)
  BY ShownAsBuilt, StaticDecode
<1>2. Len(w.actions) = Len(built) /\ w.actions \in Seq(Actions) /\ actions \in Seq(EmulatedActions)
  BY EmulatedIsSeq DEF ShowsWhatIsBuilt, Worlds
<1>3. built = [i \in DOMAIN Entries(tx) |-> toInternalMessage(Entries(tx)[i])] /\ Entries(tx) \in Seq(Messages)
  BY StaticDecode DEF buildExternalMessageBoc
<1>4. PICK n \in Nat : n = Len(built) /\ DOMAIN built = 1 .. n /\ DOMAIN Entries(tx) = 1 .. n
  BY <1>3
<1>5. DOMAIN messages = 1 .. n /\ \A i \in 1 .. n : messages[i].to = built[i].to /\ messages[i].value = built[i].value
  <2> DEFINE s == Shown(messages)
             t == Shown(built)
  <2>1. DOMAIN s = DOMAIN messages /\ \A i \in DOMAIN messages : s[i] = <<messages[i].to, messages[i].value>>
    BY DEF Shown
  <2>2. DOMAIN t = 1 .. n /\ \A i \in 1 .. n : t[i] = <<built[i].to, built[i].value>>
    BY <1>4 DEF Shown
  <2>3. s = t
    BY <1>1
  <2> HIDE DEF s, t, messages, built
  <2> QED
    BY <2>1, <2>2, <2>3
<1>6. \A i \in 1 .. n : messages[i].payload = built[i].body /\ messages[i].hasStateInit = built[i].init
  BY <1>4, ShownAsBuilt
<1>7. \A i \in 1 .. n :
         IF ~built[i].init /\ built[i].body \in {"none", "ton_comment"}
         THEN w.actions[i] = [kind |-> "ton_transfer", to |-> built[i].to, value |-> built[i].value,
                              details |-> TRUE]
         ELSE w.actions[i].kind # "ton_transfer"
  BY <1>4 DEF ShowsWhatIsBuilt
<1>8. DOMAIN w.actions = 1 .. n /\ \A i \in 1 .. n : w.actions[i] \in Actions
  BY <1>2, <1>4
<1>9. DOMAIN actions = 1 .. n /\ \A i \in 1 .. n : actions[i] = toEmulatedAction(w.actions[i])
  BY <1>8 DEF Emulated
<1> HIDE DEF messages, built, actions
<1>10. \A i \in 1 .. n : isComparableTonSend(messages[i]) <=> ~built[i].init /\ built[i].body \in {"none", "ton_comment"}
  BY <1>6 DEF isComparableTonSend
<1>11. ASSUME NEW i \in 1 .. n
       PROVE  /\ isComparableTonSend(messages[i]) <=> actions[i].kind = "ton_transfer" /\ actions[i].details
              /\ isComparableTonSend(messages[i]) =>
                    <<actions[i].to, actions[i].value>> = <<messages[i].to, messages[i].value>>
  <2> DEFINE a == w.actions[i]
  <2>1. a \in Actions /\ actions[i] = toEmulatedAction(a)
    BY <1>8, <1>9
  <2> HIDE DEF a
  <2>2. /\ actions[i].kind = (IF a.kind \in EmulatedActionKinds THEN a.kind ELSE "unknown")
        /\ actions[i].details = (a.details /\ a.kind = "ton_transfer")
        /\ actions[i].to = a.to /\ actions[i].value = a.value
    BY <2>1 DEF toEmulatedAction, Actions
  <2>3. CASE isComparableTonSend(messages[i])
    <3>1. a = [kind |-> "ton_transfer", to |-> built[i].to, value |-> built[i].value, details |-> TRUE]
      BY <1>7, <1>10, <2>3 DEF a
    <3>2. a.kind = "ton_transfer" /\ a.details = TRUE /\ a.to = messages[i].to /\ a.value = messages[i].value
      BY <1>5, <3>1
    <3>3. "ton_transfer" \in EmulatedActionKinds
      BY DEF EmulatedActionKinds
    <3> QED
      BY <2>2, <2>3, <3>2, <3>3
  <2>4. CASE ~isComparableTonSend(messages[i])
    <3>1. a.kind # "ton_transfer"
      BY <1>7, <1>10, <2>4 DEF a
    <3> QED
      BY <2>2, <2>4, <3>1
  <2> QED
    BY <2>3, <2>4
<1>12. P = Q /\ P \in SUBSET (1 .. n)
  BY <1>5, <1>9, <1>11
<1>13. /\ Cardinality(P) \in Nat
       /\ \A k \in 1 .. Cardinality(P) : Nth(P, k) \in P
  BY <1>12, NthPosition
<1>14. Sends(messages) = [k \in 1 .. Cardinality(P) |-> messages[Nth(P, k)]]
  BY DEF Sends, Kept
<1>15. Transfers(actions) = [k \in 1 .. Cardinality(Q) |-> actions[Nth(Q, k)]]
  BY DEF Transfers, Kept
<1>16. \A i \in P : <<actions[i].to, actions[i].value>> = <<messages[i].to, messages[i].value>>
  BY <1>5, <1>11
<1> HIDE DEF P, Q
<1>17. Shown(Transfers(actions)) = Shown(Sends(messages))
  <2> DEFINE N == Cardinality(P)
             u == Sends(messages)
             v == Transfers(actions)
  <2>1. P = Q /\ u = [k \in 1 .. N |-> messages[Nth(P, k)]] /\ v = [k \in 1 .. N |-> actions[Nth(P, k)]]
    BY <1>12, <1>14, <1>15
  <2> HIDE DEF N, u, v
  <2>2. /\ DOMAIN u = 1 .. N /\ DOMAIN v = 1 .. N
        /\ \A k \in 1 .. N : u[k] = messages[Nth(P, k)] /\ v[k] = actions[Nth(P, k)]
    BY <2>1
  <2>3. \A k \in 1 .. N : <<v[k].to, v[k].value>> = <<u[k].to, u[k].value>>
    BY <1>13, <1>16, <2>2 DEF N
  <2>4. /\ Shown(v) = [k \in 1 .. N |-> <<v[k].to, v[k].value>>]
        /\ Shown(u) = [k \in 1 .. N |-> <<u[k].to, u[k].value>>]
    BY <2>2 DEF Shown
  <2>5. Shown(v) = Shown(u)
    BY <2>3, <2>4
  <2> QED
    BY <2>5 DEF u, v
<1> QED
  BY <1>1, <1>17 DEF messages, actions

(* For every transaction in TON Connect's own keys: an emulation that shows what was  *)
(* sent, and nothing else, flags nothing as hidden or changed.                    *)
THEOREM DeclaredIsNeverHidden ==
    ASSUME NEW tx \in Transactions, NEW w \in Worlds
    PROVE  DeclaredIsNotHidden(tx, w)
<1> SUFFICES ASSUME IsEmulated(tx, w), ShowsWhatIsBuilt(tx, w),
                    \A i \in DOMAIN Entries(tx) : InOwnKeys(Entries(tx)[i])
             PROVE  Flags(scanTransaction(tx, w).findings) = 0
  BY DEF DeclaredIsNotHidden
<1>1. /\ Malformed(scanTransactionJson(tx).findings) = {}
      /\ Shown(Transfers(Emulated(w))) = Shown(Sends(scanTransactionJson(tx).parsedMessages))
  BY SendsAreTransfers
<1> QED
  BY <1>1, UndeclaredAlwaysFlagged DEF UndeclaredIsFlagged

-----------------------------------------------------------------------------
(* The table of anchors                                                     *)

Rows == [id : Nat, date : Int]

(* Sorted, the rows are all there and their ids ascend.                         *)
LEMMA SortedAscends ==
    ASSUME NEW rows \in Tables
    PROVE  LET s == SortedById(rows)
           IN  /\ s \in Seq(Rows) /\ Len(s) = Len(rows)
               /\ \A k, l \in DOMAIN s : k < l => s[k].id < s[l].id
               /\ \A i \in DOMAIN rows : \E k \in DOMAIN s : s[k] = rows[i]
<1> DEFINE n == Len(rows)
           UpTo(i) == {j \in 1 .. n : rows[j].id <= rows[i].id}
           rank == [i \in 1 .. n |-> RankOf(rows, i)]
           s == SortedById(rows)
<1>1. /\ rows \in Seq(Rows) /\ n \in Nat /\ DOMAIN rows = 1 .. n
      /\ \A i, j \in 1 .. n : rows[i].id = rows[j].id => i = j
      /\ \A i \in 1 .. n : rows[i] \in Rows /\ rows[i].id \in Nat
  <2>1. rows \in Seq(Rows) /\ \A i, j \in DOMAIN rows : rows[i].id = rows[j].id => i = j
    BY DEF Tables, Rows
  <2>2. \A r \in Rows : r.id \in Nat
    BY DEF Rows
  <2> QED
    BY <2>1, <2>2
<1> HIDE DEF n
<1>2. \A i \in 1 .. n : RankOf(rows, i) = Cardinality(UpTo(i))
  BY <1>1 DEF RankOf
<1>3. \A i \in 1 .. n : IsFiniteSet(UpTo(i)) /\ Cardinality(UpTo(i)) \in 1 .. n
  <2> TAKE i \in 1 .. n
  <2>1. UpTo(i) \in SUBSET (1 .. n) /\ i \in UpTo(i)
    BY <1>1
  <2>2. IsFiniteSet(1 .. n) /\ Cardinality(1 .. n) = n
    <3>1. 1 <= n /\ n \in Int /\ n \in Nat
      BY <1>1
    <3>2. IsFiniteSet(1 .. n)
      BY <3>1, FS_Interval
    <3>3. Cardinality(1 .. n) = n
      BY <3>1, FS_Interval
    <3> QED
      BY <3>2, <3>3
  <2> HIDE DEF UpTo
  <2>3. IsFiniteSet(UpTo(i)) /\ Cardinality(UpTo(i)) <= n
    BY <2>1, <2>2, FS_Subset
  <2>4. Cardinality(UpTo(i)) \in Nat /\ Cardinality(UpTo(i)) # 0
    BY <2>1, <2>3, FS_CardinalityType, FS_EmptySet
  <2> QED
    BY <1>1, <2>3, <2>4
<1>4. ASSUME NEW i \in 1 .. n, NEW j \in 1 .. n, rows[i].id < rows[j].id
      PROVE  Cardinality(UpTo(i)) < Cardinality(UpTo(j))
  <2>1. UpTo(i) \in SUBSET UpTo(j) /\ j \in UpTo(j) /\ j \notin UpTo(i)
    BY <1>1, <1>4
  <2>2. IsFiniteSet(UpTo(j)) /\ Cardinality(UpTo(j)) \in 1 .. n /\ Cardinality(UpTo(i)) \in 1 .. n
    BY <1>3
  <2> HIDE DEF UpTo
  <2>3. Cardinality(UpTo(i)) <= Cardinality(UpTo(j)) /\ (Cardinality(UpTo(j)) = Cardinality(UpTo(i)) => UpTo(j) = UpTo(i))
    BY <2>1, <2>2, FS_Subset
  <2> QED
    BY <2>1, <2>2, <2>3
<1> HIDE DEF UpTo
<1>5. rank \in Injection(1 .. n, 1 .. n)
  <2>1. \A i \in 1 .. n : rank[i] \in 1 .. n
    BY <1>2, <1>3
  <2>2. ASSUME NEW i \in 1 .. n, NEW j \in 1 .. n, rank[i] = rank[j]
        PROVE  i = j
    <3>1. Cardinality(UpTo(i)) = Cardinality(UpTo(j)) /\ Cardinality(UpTo(i)) \in 1 .. n
      BY <1>2, <1>3, <2>2
    <3>2. ~(rows[i].id < rows[j].id) /\ ~(rows[j].id < rows[i].id)
      BY <1>1, <1>4, <3>1
    <3> QED
      BY <1>1, <3>2
  <2> QED
    BY <2>1, <2>2 DEF Injection, IsInjective
<1>6. rank \in Surjection(1 .. n, 1 .. n)
  <2>1. IsFiniteSet(1 .. n)
    <3>1. CASE n = 0
      BY <3>1, FS_EmptySet
    <3>2. CASE n # 0
      <4>1. 1 <= n
        BY <1>1, <3>2
      <4> QED
        BY <1>1, <4>1, FS_Interval
    <3> QED
      BY <3>1, <3>2
  <2> HIDE DEF rank
  <2> QED
    BY <1>5, <2>1, FS_Injection
<1>7. \A k \in 1 .. n : \E i \in 1 .. n : RankOf(rows, i) = k
  BY <1>6 DEF Surjection
<1> DEFINE at == [k \in 1 .. n |-> CHOOSE i \in DOMAIN rows : RankOf(rows, i) = k]
<1>8. \A k \in 1 .. n : at[k] \in 1 .. n /\ RankOf(rows, at[k]) = k
  BY <1>1, <1>7
<1>9. s = [k \in 1 .. n |-> rows[at[k]]]
  BY <1>1 DEF SortedById
<1> HIDE DEF at, s
<1>10. s \in Seq(Rows) /\ Len(s) = n /\ DOMAIN s = 1 .. n
  BY <1>1, <1>8, <1>9
<1>11. ASSUME NEW k \in 1 .. n, NEW l \in 1 .. n, k < l
       PROVE  s[k].id < s[l].id
  <2>1. Cardinality(UpTo(at[k])) = k /\ Cardinality(UpTo(at[l])) = l
    BY <1>2, <1>8
  <2>2. ~(rows[at[l]].id < rows[at[k]].id)
    BY <1>4, <1>8, <1>11, <2>1
  <2>3. at[k] # at[l]
    BY <1>11, <2>1
  <2>4. rows[at[k]].id < rows[at[l]].id
    BY <1>1, <1>8, <2>2, <2>3
  <2> QED
    BY <1>9, <2>4
<1>12. ASSUME NEW i \in 1 .. n
       PROVE  \E k \in 1 .. n : s[k] = rows[i]
  <2>1. RankOf(rows, i) \in 1 .. n
    BY <1>2, <1>3
  <2>2. PICK k \in 1 .. n : k = RankOf(rows, i)
    BY <2>1
  <2>3. rank[at[k]] = rank[i]
    BY <1>8, <2>2
  <2>4. at[k] = i
    BY <1>5, <1>8, <2>3 DEF Injection, IsInjective
  <2> QED
    BY <1>9, <2>4
<1> QED
  BY <1>1, <1>10, <1>11, <1>12 DEF n, s

(* The date the loop has kept last is the latest so far.                         *)
LatestDate(s, k, date) == (\E j \in 1 .. k : s[j].date = date) /\ \A j \in 1 .. k : s[j].date <= date

LEMMA LatestDateExists ==
    ASSUME NEW s \in Seq(Rows)
    PROVE  \A k \in 1 .. Len(s) : \E date \in Int : LatestDate(s, k, date)
<1> DEFINE n == Len(s)
           Without == {k \in 1 .. n : ~\E date \in Int : LatestDate(s, k, date)}
<1>1. n \in Nat /\ \A k \in 1 .. n : s[k].date \in Int
  <2>1. \A r \in Rows : r.date \in Int
    BY DEF Rows
  <2> QED
    BY <2>1
<1> HIDE DEF n
<1>2. Without = {}
  <2> SUFFICES ASSUME Without # {}
               PROVE  FALSE
    OBVIOUS
  <2>1. PICK k \in 1 .. n : k \in Without /\ \A l \in Without : k <= l
    <3>1. Without \in SUBSET (1 .. n)
      OBVIOUS
    <3> HIDE DEF Without
    <3> QED
      BY <1>1, <3>1, FirstPosition
  <2>2. CASE k = 1
    <3>1. LatestDate(s, 1, s[1].date) /\ s[1].date \in Int
      <4>1. 1 \in 1 .. 1 /\ \A j \in 1 .. 1 : j = 1
        OBVIOUS
      <4>2. s[1].date \in Int
        BY <1>1, <2>2
      <4> QED
        BY <4>1, <4>2 DEF LatestDate
    <3> QED
      BY <2>1, <2>2, <3>1
  <2>3. CASE k # 1
    <3>1. k - 1 \in 1 .. n /\ ~(k <= k - 1)
      BY <1>1, <2>3
    <3>2. PICK date \in Int : LatestDate(s, k - 1, date)
      BY <2>1, <3>1
    <3>3. \A j \in 1 .. k : j \in 1 .. k - 1 \/ j = k
      BY <1>1
    <3>4. s[k].date \in Int /\ \A j \in 1 .. k : s[j].date \in Int
      BY <1>1
    <3>5. CASE s[k].date > date
      <4>1. LatestDate(s, k, s[k].date)
        <5>1. k \in 1 .. k
          OBVIOUS
        <5>2. \A j \in 1 .. k : s[j].date <= s[k].date
          BY <3>2, <3>3, <3>4, <3>5 DEF LatestDate
        <5> QED
          BY <5>1, <5>2 DEF LatestDate
      <4> QED
        BY <2>1, <3>4, <4>1
    <3>6. CASE ~(s[k].date > date)
      <4>1. LatestDate(s, k, date)
        <5>1. PICK j \in 1 .. k - 1 : s[j].date = date
          BY <3>2 DEF LatestDate
        <5>2. j \in 1 .. k
          OBVIOUS
        <5>3. \A i \in 1 .. k : s[i].date <= date
          BY <3>2, <3>3, <3>4, <3>6 DEF LatestDate
        <5> QED
          BY <5>1, <5>2, <5>3 DEF LatestDate
      <4> QED
        BY <2>1, <4>1
    <3> QED
      BY <3>5, <3>6
  <2> QED
    BY <2>2, <2>3
<1> QED
  BY <1>2 DEF n

(* The recursive definition of maxDate has a solution, and it is that date.       *)
LEMMA MaxDateIsPrefixMaximum ==
    ASSUME NEW s \in Seq(Rows)
    PROVE  LET maxDate[n \in DOMAIN s] ==
                   IF n = 1 \/ s[n].date > maxDate[n - 1] THEN s[n].date ELSE maxDate[n - 1]
           IN  \A k \in 1 .. Len(s) : LatestDate(s, k, maxDate[k])
<1> DEFINE n == Len(s)
           Step(f) == [k \in DOMAIN s |-> IF k = 1 \/ s[k].date > f[k - 1] THEN s[k].date ELSE f[k - 1]]
           f == [k \in 1 .. n |-> CHOOSE date \in Int : LatestDate(s, k, date)]
           maxDate == CHOOSE m : m = Step(m)
<1>1. n \in Nat /\ DOMAIN s = 1 .. n /\ \A k \in 1 .. n : s[k].date \in Int
  <2>1. \A r \in Rows : r.date \in Int
    BY DEF Rows
  <2> QED
    BY <2>1
<1>2. \A k \in 1 .. n : f[k] \in Int /\ LatestDate(s, k, f[k])
  BY LatestDateExists
<1> HIDE DEF n
<1>3. f = Step(f)
  <2>1. f = [k \in 1 .. n |-> f[k]]
    OBVIOUS
  <2> HIDE DEF f
  <2>2. ASSUME NEW k \in 1 .. n
        PROVE  f[k] = IF k = 1 \/ s[k].date > f[k - 1] THEN s[k].date ELSE f[k - 1]
    <3>1. PICK j \in 1 .. k : s[j].date = f[k]
      BY <1>2 DEF LatestDate
    <3>2. \A i \in 1 .. k : s[i].date <= f[k] /\ s[i].date \in Int
      BY <1>1, <1>2 DEF LatestDate
    <3>3. CASE k = 1
      <4>1. j = 1
        BY <3>3
      <4> QED
        BY <3>1, <3>3, <4>1
    <3>4. CASE k # 1
      <4>1. k - 1 \in 1 .. n
        BY <1>1, <3>4
      <4>2. PICK i \in 1 .. k - 1 : s[i].date = f[k - 1]
        BY <1>2, <4>1 DEF LatestDate
      <4>3. \A l \in 1 .. k - 1 : s[l].date <= f[k - 1]
        BY <1>2, <4>1 DEF LatestDate
      <4>4. i \in 1 .. k /\ (j \in 1 .. k - 1 \/ j = k) /\ k \in 1 .. k
        BY <1>1
      <4>5. f[k] \in Int /\ f[k - 1] \in Int /\ s[k].date \in Int
        BY <1>1, <1>2, <4>1
      <4>6. f[k - 1] <= f[k] /\ s[k].date <= f[k]
        BY <3>2, <4>2, <4>4
      <4>7. f[k] <= f[k - 1] \/ f[k] = s[k].date
        BY <3>1, <4>3, <4>4
      <4> QED
        BY <3>4, <4>5, <4>6, <4>7
    <3> QED
      BY <3>3, <3>4
  <2> QED
    BY <1>1, <2>1, <2>2
<1>4. maxDate = Step(maxDate)
  <2> HIDE DEF Step, f
  <2> QED
    BY <1>3
<1> HIDE DEF maxDate, f
<1>5. \A k \in 1 .. n : maxDate[k] = IF k = 1 \/ s[k].date > maxDate[k - 1] THEN s[k].date ELSE maxDate[k - 1]
  BY <1>1, <1>4
<1> HIDE DEF Step
<1> DEFINE Wrong == {k \in 1 .. n : ~LatestDate(s, k, maxDate[k])}
<1>6. Wrong = {}
  <2> SUFFICES ASSUME Wrong # {}
               PROVE  FALSE
    OBVIOUS
  <2>1. PICK k \in 1 .. n : k \in Wrong /\ \A l \in Wrong : k <= l
    <3>1. Wrong \in SUBSET (1 .. n)
      OBVIOUS
    <3> HIDE DEF Wrong
    <3> QED
      BY <1>1, <3>1, FirstPosition
  <2>2. CASE k = 1
    <3>1. maxDate[k] = s[1].date /\ s[1].date \in Int
      BY <1>1, <1>5, <2>2
    <3>2. 1 \in 1 .. 1 /\ \A j \in 1 .. 1 : j = 1
      OBVIOUS
    <3>3. LatestDate(s, k, maxDate[k])
      BY <2>2, <3>1, <3>2 DEF LatestDate
    <3> QED
      BY <2>1, <3>3
  <2>3. CASE k # 1
    <3>1. k - 1 \in 1 .. n /\ ~(k <= k - 1)
      BY <1>1, <2>3
    <3>2. LatestDate(s, k - 1, maxDate[k - 1])
      BY <2>1, <3>1
    <3>3. PICK i \in 1 .. k - 1 : s[i].date = maxDate[k - 1]
      BY <3>2 DEF LatestDate
    <3>4. \A l \in 1 .. k - 1 : s[l].date <= maxDate[k - 1]
      BY <3>2 DEF LatestDate
    <3>5. i \in 1 .. k /\ i \in 1 .. n /\ k \in 1 .. k /\ \A l \in 1 .. k : l \in 1 .. k - 1 \/ l = k
      BY <1>1
    <3>6. maxDate[k - 1] \in Int /\ \A l \in 1 .. k : s[l].date \in Int
      BY <1>1, <3>3, <3>5
    <3>7. CASE s[k].date > maxDate[k - 1]
      <4>1. maxDate[k] = s[k].date
        BY <1>5, <3>7
      <4>2. \A l \in 1 .. k : s[l].date <= s[k].date
        BY <3>4, <3>5, <3>6, <3>7
      <4>3. LatestDate(s, k, maxDate[k])
        BY <3>5, <4>1, <4>2 DEF LatestDate
      <4> QED
        BY <2>1, <4>3
    <3>8. CASE ~(s[k].date > maxDate[k - 1])
      <4>1. maxDate[k] = maxDate[k - 1]
        BY <1>5, <2>3, <3>8
      <4>2. \A l \in 1 .. k : s[l].date <= maxDate[k - 1]
        BY <3>4, <3>5, <3>6, <3>8
      <4>3. LatestDate(s, k, maxDate[k])
        BY <3>3, <3>5, <4>1, <4>2 DEF LatestDate
      <4> QED
        BY <2>1, <4>3
    <3> QED
      BY <3>7, <3>8
  <2> QED
    BY <2>2, <2>3
<1> QED
  BY <1>6 DEF maxDate, n, Step

(* What the loop keeps ascends in id and in date, and for every row something is     *)
(* kept at or below its id that is no earlier.                                  *)
LEMMA SmoothedAscends ==
    ASSUME NEW s \in Seq(Rows), \A k, l \in DOMAIN s : k < l => s[k].id < s[l].id
    PROVE  LET a == Smoothed(s)
           IN  /\ a \in Seq(Rows)
               /\ \A i, j \in DOMAIN a : i < j => a[i].id < a[j].id /\ a[i].date < a[j].date
               /\ \A k \in DOMAIN s : \E j \in DOMAIN a : a[j].id <= s[k].id /\ s[k].date <= a[j].date
<1> DEFINE n == Len(s)
           Step(f) == [k \in DOMAIN s |-> IF k = 1 \/ s[k].date > f[k - 1] THEN s[k].date ELSE f[k - 1]]
           maxDate == CHOOSE m : m = Step(m)
           K == {k \in DOMAIN s : k = 1 \/ s[k].date > maxDate[k - 1]}
           a == Kept(s, K)
           N == Cardinality(K)
<1>1. /\ n \in Nat /\ DOMAIN s = 1 .. n
      /\ \A k \in 1 .. n : s[k] \in Rows /\ s[k].date \in Int /\ s[k].id \in Nat
  <2>1. \A r \in Rows : r.date \in Int /\ r.id \in Nat
    BY DEF Rows
  <2> QED
    BY <2>1
<1>2. \A k \in 1 .. n : LatestDate(s, k, maxDate[k])
  BY MaxDateIsPrefixMaximum
<1>3. Smoothed(s) = a
  BY DEF Smoothed
<1> HIDE DEF n, maxDate
<1>4. K \in SUBSET (1 .. n)
  BY <1>1
<1>5. /\ N \in Nat
      /\ \A i \in 1 .. N : Nth(K, i) \in K
      /\ \A i, j \in 1 .. N : i < j => Nth(K, i) < Nth(K, j)
      /\ \A k \in K : \E i \in 1 .. N : Nth(K, i) = k
  <2> HIDE DEF K
  <2> QED
    BY <1>1, <1>4, NthPosition
<1>6. a = [i \in 1 .. N |-> s[Nth(K, i)]]
  BY DEF Kept
<1> HIDE DEF a, N
<1>7. a \in Seq(Rows) /\ DOMAIN a = 1 .. N
  BY <1>1, <1>4, <1>5, <1>6
<1>8. ASSUME NEW k \in K, k # 1
      PROVE  \A l \in 1 .. k - 1 : s[l].date < s[k].date
  <2>1. k \in 1 .. n /\ k - 1 \in 1 .. n /\ s[k].date > maxDate[k - 1]
    BY <1>1, <1>8
  <2>2. LatestDate(s, k - 1, maxDate[k - 1])
    BY <1>2, <2>1
  <2>3. PICK j \in 1 .. k - 1 : s[j].date = maxDate[k - 1]
    BY <2>2 DEF LatestDate
  <2>4. \A l \in 1 .. k - 1 : s[l].date <= maxDate[k - 1] /\ l \in 1 .. n
    BY <1>1, <2>1, <2>2 DEF LatestDate
  <2>5. maxDate[k - 1] \in Int /\ s[k].date \in Int /\ \A l \in 1 .. k - 1 : s[l].date \in Int
    BY <1>1, <2>1, <2>3, <2>4
  <2> QED
    BY <2>1, <2>4, <2>5
<1>9. ASSUME NEW i \in 1 .. N, NEW j \in 1 .. N, i < j
      PROVE  a[i].id < a[j].id /\ a[i].date < a[j].date
  <2> DEFINE p == Nth(K, i)
             q == Nth(K, j)
  <2>1. p \in K /\ q \in K /\ p < q /\ a[i] = s[p] /\ a[j] = s[q]
    BY <1>5, <1>6, <1>9
  <2> HIDE DEF p, q
  <2>2. p \in 1 .. n /\ q \in 1 .. n
    BY <1>4, <2>1
  <2>3. s[p].id < s[q].id
    BY <1>1, <2>1, <2>2
  <2>4. q # 1 /\ p \in 1 .. q - 1
    BY <1>1, <2>1, <2>2
  <2>5. s[p].date < s[q].date
    BY <1>8, <2>1, <2>4
  <2> QED
    BY <2>1, <2>3, <2>5
<1>10. ASSUME NEW k \in 1 .. n
       PROVE  \E j \in 1 .. N : a[j].id <= s[k].id /\ s[k].date <= a[j].date
  <2> DEFINE P == {j \in 1 .. n : j <= k /\ s[j].date = maxDate[k]}
  <2>1. PICK i \in 1 .. k : s[i].date = maxDate[k]
    BY <1>2 DEF LatestDate
  <2>2. \A j \in 1 .. k : s[j].date <= maxDate[k]
    BY <1>2 DEF LatestDate
  <2>3. i \in 1 .. n /\ i <= k
    BY <1>1
  <2>4. P # {} /\ P \in SUBSET (1 .. n)
    BY <2>1, <2>3
  <2> HIDE DEF P
  <2>5. PICK f \in 1 .. n : f \in P /\ \A j \in P : f <= j
    BY <1>1, <2>4, FirstPosition
  <2>6. f <= k /\ s[f].date = maxDate[k]
    BY <2>5 DEF P
  <2>7. f \in K
    <3>1. CASE f = 1
      BY <1>1, <3>1
    <3>2. CASE f # 1
      <4>1. f - 1 \in 1 .. n /\ f - 1 <= k /\ ~(f <= f - 1)
        BY <1>1, <2>6, <3>2
      <4>2. PICK l \in 1 .. f - 1 : s[l].date = maxDate[f - 1]
        BY <1>2, <4>1 DEF LatestDate
      <4>3. l \in 1 .. n /\ l \in 1 .. k /\ l <= k /\ ~(f <= l)
        BY <1>1, <2>6, <4>1
      <4>4. s[l].date # maxDate[k]
        BY <2>5, <4>3 DEF P
      <4>5. s[l].date <= maxDate[k] /\ s[l].date \in Int /\ s[f].date \in Int
        BY <1>1, <2>2, <4>3
      <4>6. s[f].date > maxDate[f - 1]
        BY <2>6, <4>2, <4>4, <4>5
      <4> QED
        BY <1>1, <4>6
    <3> QED
      BY <3>1, <3>2
  <2>8. PICK j \in 1 .. N : Nth(K, j) = f
    BY <1>5, <2>7
  <2>9. a[j] = s[f]
    BY <1>6, <2>8
  <2>10. s[f].id <= s[k].id
    <3>1. s[f].id \in Nat /\ s[k].id \in Nat
      BY <1>1
    <3>2. CASE f = k
      BY <3>1, <3>2
    <3>3. CASE f < k
      <4>1. s[f].id < s[k].id
        BY <1>1, <3>3
      <4> QED
        BY <3>1, <4>1
    <3> QED
      BY <2>6, <3>2, <3>3
  <2>11. s[k].date <= s[f].date
    <3>1. k \in 1 .. k
      BY <1>1
    <3> QED
      BY <2>2, <2>6, <3>1
  <2> QED
    BY <2>9, <2>10, <2>11
<1> QED
  BY <1>1, <1>3, <1>7, <1>9, <1>10

LEMMA AnchorsAscend ==
    ASSUME NEW rows \in Tables
    PROVE  LET a == loadAnchors(rows)
           IN  /\ a \in Seq(Rows)
               /\ \A i, j \in DOMAIN a : i < j => a[i].id < a[j].id /\ a[i].date < a[j].date
               /\ \A i \in DOMAIN rows : \E j \in DOMAIN a : a[j].id <= rows[i].id /\ rows[i].date <= a[j].date
<1> DEFINE s == SortedById(rows)
           a == Smoothed(s)
<1>1. /\ s \in Seq(Rows) /\ \A k, l \in DOMAIN s : k < l => s[k].id < s[l].id
      /\ \A i \in DOMAIN rows : \E k \in DOMAIN s : s[k] = rows[i]
  BY SortedAscends
<1> HIDE DEF s
<1>2. /\ a \in Seq(Rows)
      /\ \A i, j \in DOMAIN a : i < j => a[i].id < a[j].id /\ a[i].date < a[j].date
      /\ \A k \in DOMAIN s : \E j \in DOMAIN a : a[j].id <= s[k].id /\ s[k].date <= a[j].date
  BY <1>1, SmoothedAscends
<1> HIDE DEF a
<1>3. loadAnchors(rows) = a
  BY DEF loadAnchors, a, s
<1> QED
  BY <1>1, <1>2, <1>3

-----------------------------------------------------------------------------
(* The binary search                                                        *)

(* Where an id parts the anchors from one position to another.                   *)
Parts(a, id, lo, hi, k) ==
    /\ k \in lo .. hi
    /\ \A j \in lo .. k - 1 : a[j].id <= id
    /\ k < hi => a[k].id > id

(* Halving a range parts it where the right half is parted.                      *)
LEMMA HalvesPart ==
    ASSUME NEW n \in Nat, NEW a \in [1 .. n -> Rows],
           \A i, j \in 1 .. n : i < j => a[i].id < a[j].id,
           NEW id \in Nat, NEW lo \in 1 .. n, NEW hi \in 1 .. n, lo < hi
    PROVE  LET mid == (lo + hi) \div 2
           IN  /\ mid \in lo .. hi - 1
               /\ a[mid].id <= id => \A k : Parts(a, id, mid + 1, hi, k) => Parts(a, id, lo, hi, k)
               /\ ~(a[mid].id <= id) => \A k : Parts(a, id, lo, mid, k) => Parts(a, id, lo, hi, k)
<1> DEFINE mid == (lo + hi) \div 2
<1>1. mid \in lo .. hi - 1
  OBVIOUS
<1> HIDE DEF mid
<1>2. \A j \in 1 .. n : a[j].id \in Nat
  <2>1. \A r \in Rows : r.id \in Nat
    BY DEF Rows
  <2> QED
    BY <2>1
<1>3. ASSUME NEW k, a[mid].id <= id, Parts(a, id, mid + 1, hi, k)
      PROVE  Parts(a, id, lo, hi, k)
  <2>1. k \in lo .. hi /\ k \in mid + 1 .. hi
    BY <1>1, <1>3 DEF Parts
  <2>2. ASSUME NEW j \in lo .. k - 1
        PROVE  a[j].id <= id
    <3>1. j \in 1 .. n /\ mid \in 1 .. n
      BY <1>1, <2>1
    <3>2. CASE j <= mid
      <4>1. a[j].id <= a[mid].id
        BY <1>2, <3>1, <3>2
      <4> QED
        BY <1>2, <1>3, <3>1, <4>1
    <3>3. CASE ~(j <= mid)
      <4>1. j \in mid + 1 .. k - 1
        BY <1>1, <2>1, <3>3
      <4> QED
        BY <1>3, <4>1 DEF Parts
    <3> QED
      BY <3>2, <3>3
  <2>3. k < hi => a[k].id > id
    BY <1>3 DEF Parts
  <2> QED
    BY <2>1, <2>2, <2>3 DEF Parts
<1>4. ASSUME NEW k, ~(a[mid].id <= id), Parts(a, id, lo, mid, k)
      PROVE  Parts(a, id, lo, hi, k)
  <2>1. k \in lo .. mid /\ k \in lo .. hi
    BY <1>1, <1>4 DEF Parts
  <2>2. \A j \in lo .. k - 1 : a[j].id <= id
    BY <1>4 DEF Parts
  <2>3. a[k].id > id
    <3>1. CASE k < mid
      BY <1>4, <3>1 DEF Parts
    <3>2. CASE ~(k < mid)
      <4>1. k = mid /\ mid \in 1 .. n
        BY <1>1, <2>1, <3>2
      <4> QED
        BY <1>2, <1>4, <4>1
    <3> QED
      BY <3>1, <3>2
  <2> QED
    BY <2>1, <2>2, <2>3 DEF Parts
<1> QED
  BY <1>1, <1>3, <1>4 DEF mid

LEMMA PartsOnce ==
    ASSUME NEW n \in Nat, NEW a \in [1 .. n -> Rows], NEW id \in Nat,
           NEW lo \in 1 .. n, NEW hi \in 1 .. n, lo <= hi
    PROVE  /\ \E k \in 1 .. n : Parts(a, id, lo, hi, k)
           /\ \A k, l : Parts(a, id, lo, hi, k) /\ Parts(a, id, lo, hi, l) => k = l
<1>1. \A j \in 1 .. n : a[j].id \in Nat
  <2>1. \A r \in Rows : r.id \in Nat
    BY DEF Rows
  <2> QED
    BY <2>1
<1>2. ASSUME NEW k, NEW l, Parts(a, id, lo, hi, k), Parts(a, id, lo, hi, l), k < l
      PROVE  FALSE
  <2>1. k \in lo .. hi /\ l \in lo .. hi
    BY <1>2 DEF Parts
  <2>2. k \in lo .. l - 1 /\ k < hi /\ k \in 1 .. n
    BY <1>2, <2>1
  <2>3. a[k].id <= id /\ a[k].id > id
    BY <1>2, <2>2 DEF Parts
  <2> QED
    BY <1>1, <2>2, <2>3
<1>3. ASSUME NEW k, NEW l, Parts(a, id, lo, hi, k), Parts(a, id, lo, hi, l)
      PROVE  k = l
  <2>1. k \in lo .. hi /\ l \in lo .. hi
    BY <1>3 DEF Parts
  <2>2. ~(k < l) /\ ~(l < k)
    BY <1>2, <1>3
  <2> QED
    BY <2>1, <2>2
<1>4. \E k \in 1 .. n : Parts(a, id, lo, hi, k)
  <2> DEFINE P == {j \in 1 .. n : j \in lo .. hi /\ (j = hi \/ a[j].id > id)}
  <2>1. hi \in P /\ P \in SUBSET (1 .. n)
    OBVIOUS
  <2> HIDE DEF P
  <2>2. PICK k \in 1 .. n : k \in P /\ \A j \in P : k <= j
    BY <2>1, FirstPosition
  <2>3. k \in lo .. hi /\ (k < hi => a[k].id > id)
    BY <2>2 DEF P
  <2>4. ASSUME NEW j \in lo .. k - 1
        PROVE  a[j].id <= id
    <3>1. j \in 1 .. n /\ j \in lo .. hi /\ ~(k <= j) /\ j # hi
      BY <2>3
    <3>2. j \notin P
      BY <2>2, <3>1
    <3> QED
      BY <1>1, <3>1, <3>2 DEF P
  <2> QED
    BY <2>3, <2>4 DEF Parts
<1> QED
  BY <1>3, <1>4

(* The search ends where the id parts the anchors.                             *)
LEMMA SearchParts ==
    ASSUME NEW a \in Seq(Rows), \A i, j \in DOMAIN a : i < j => a[i].id < a[j].id,
           a # <<>>, NEW id \in Nat
    PROVE  Parts(a, id, 1, Len(a), Upper(a, id))
<1> DEFINE n == Len(a)
           Sq == (1 .. n) \X (1 .. n)
           Half(r) == (r[1] + r[2]) \div 2
           Step(f) == [r \in Sq |-> IF r[1] >= r[2] THEN r[1]
                                    ELSE IF a[Half(r)].id <= id THEN f[<<Half(r) + 1, r[2]>>]
                                    ELSE f[<<r[1], Half(r)>>]]
           Parted(lo, hi) == CHOOSE k : Parts(a, id, lo, hi, k)
           g == [r \in Sq |-> IF r[1] >= r[2] THEN r[1] ELSE Parted(r[1], r[2])]
           search == CHOOSE f : f = Step(f)
<1>1. n \in Nat /\ 1 \in 1 .. n /\ n \in 1 .. n /\ a \in [1 .. n -> Rows] /\ DOMAIN a = 1 .. n
  OBVIOUS
<1>2. Upper(a, id) = search[<<1, n>>]
  BY DEF Upper
<1> HIDE DEF n
<1>3. ASSUME NEW lo \in 1 .. n, NEW hi \in 1 .. n, lo < hi
      PROVE  LET mid == (lo + hi) \div 2
             IN  /\ mid \in lo .. hi - 1
                 /\ a[mid].id <= id => \A k : Parts(a, id, mid + 1, hi, k) => Parts(a, id, lo, hi, k)
                 /\ ~(a[mid].id <= id) => \A k : Parts(a, id, lo, mid, k) => Parts(a, id, lo, hi, k)
  BY <1>1, <1>3, HalvesPart
<1>4. ASSUME NEW lo \in 1 .. n, NEW hi \in 1 .. n, lo <= hi
      PROVE  /\ Parts(a, id, lo, hi, g[<<lo, hi>>])
             /\ \A k : Parts(a, id, lo, hi, k) => k = g[<<lo, hi>>]
  <2>1. /\ \E k \in 1 .. n : Parts(a, id, lo, hi, k)
        /\ \A k, l : Parts(a, id, lo, hi, k) /\ Parts(a, id, lo, hi, l) => k = l
    BY <1>1, <1>4, PartsOnce
  <2>2. <<lo, hi>> \in Sq
    OBVIOUS
  <2>6. <<lo, hi>>[1] = lo /\ <<lo, hi>>[2] = hi
    OBVIOUS
  <2> HIDE DEF Sq, Parted
  <2>7. \A r \in Sq : g[r] = IF r[1] >= r[2] THEN r[1] ELSE Parted(r[1], r[2])
    OBVIOUS
  <2> HIDE DEF g
  <2>3. g[<<lo, hi>>] = IF lo >= hi THEN lo ELSE Parted(lo, hi)
    BY <2>2, <2>6, <2>7
  <2>4. CASE lo < hi
    <3>1. g[<<lo, hi>>] = Parted(lo, hi)
      BY <2>3, <2>4
    <3>2. Parts(a, id, lo, hi, Parted(lo, hi))
      BY <2>1 DEF Parted
    <3> QED
      BY <2>1, <3>1, <3>2
  <2>5. CASE ~(lo < hi)
    <3>1. g[<<lo, hi>>] = lo /\ lo = hi
      BY <1>4, <2>3, <2>5
    <3>2. Parts(a, id, lo, hi, lo)
      BY <3>1 DEF Parts
    <3> QED
      BY <2>1, <3>1, <3>2
  <2> QED
    BY <2>4, <2>5
<1>5. g = Step(g)
  <2>1. ASSUME NEW lo \in 1 .. n, NEW hi \in 1 .. n
        PROVE  LET mid == (lo + hi) \div 2
               IN  g[<<lo, hi>>] = IF lo >= hi THEN lo
                                   ELSE IF a[mid].id <= id THEN g[<<mid + 1, hi>>]
                                   ELSE g[<<lo, mid>>]
    <3> DEFINE mid == (lo + hi) \div 2
    <3>1. CASE lo >= hi
      BY <3>1
    <3>2. CASE ~(lo >= hi)
      <4>1. lo < hi /\ lo <= hi
        BY <3>2
      <4>2. /\ mid \in lo .. hi - 1
            /\ a[mid].id <= id => \A k : Parts(a, id, mid + 1, hi, k) => Parts(a, id, lo, hi, k)
            /\ ~(a[mid].id <= id) => \A k : Parts(a, id, lo, mid, k) => Parts(a, id, lo, hi, k)
        BY <1>3, <4>1
      <4> HIDE DEF mid, g
      <4>6. mid \in lo .. hi - 1
        BY <4>2
      <4>3. mid \in 1 .. n /\ mid + 1 \in 1 .. n /\ mid + 1 <= hi /\ lo <= mid
        BY <1>1, <4>6
      <4>4. CASE a[mid].id <= id
        <5>1. Parts(a, id, mid + 1, hi, g[<<mid + 1, hi>>])
          BY <1>4, <4>3
        <5>2. Parts(a, id, lo, hi, g[<<mid + 1, hi>>])
          BY <4>2, <4>4, <5>1
        <5>3. g[<<lo, hi>>] = g[<<mid + 1, hi>>]
          BY <1>4, <4>1, <5>2
        <5> QED
          BY <3>2, <4>4, <5>3 DEF mid
      <4>5. CASE ~(a[mid].id <= id)
        <5>1. Parts(a, id, lo, mid, g[<<lo, mid>>])
          BY <1>4, <4>3
        <5>2. Parts(a, id, lo, hi, g[<<lo, mid>>])
          BY <4>2, <4>5, <5>1
        <5>3. g[<<lo, hi>>] = g[<<lo, mid>>]
          BY <1>4, <4>1, <5>2
        <5> QED
          BY <3>2, <4>5, <5>3 DEF mid
      <4> QED
        BY <4>4, <4>5
    <3> QED
      BY <3>1, <3>2
  <2>2. g = [r \in Sq |-> g[r]]
    OBVIOUS
  <2> HIDE DEF g
  <2>3. ASSUME NEW r \in Sq
        PROVE  g[r] = IF r[1] >= r[2] THEN r[1]
                      ELSE IF a[Half(r)].id <= id THEN g[<<Half(r) + 1, r[2]>>]
                      ELSE g[<<r[1], Half(r)>>]
    <3>1. PICK lo \in 1 .. n : lo = r[1]
      OBVIOUS
    <3>2. PICK hi \in 1 .. n : hi = r[2]
      OBVIOUS
    <3>3. r = <<lo, hi>>
      BY <3>1, <3>2
    <3> QED
      BY <2>1, <3>1, <3>2, <3>3
  <2> QED
    BY <2>2, <2>3
<1>6. search = Step(search)
  <2> HIDE DEF Step, g
  <2> QED
    BY <1>5
<1> HIDE DEF search, g
<1>7. ASSUME NEW lo \in 1 .. n, NEW hi \in 1 .. n
      PROVE  LET mid == (lo + hi) \div 2
             IN  search[<<lo, hi>>] = IF lo >= hi THEN lo
                                      ELSE IF a[mid].id <= id THEN search[<<mid + 1, hi>>]
                                      ELSE search[<<lo, mid>>]
  <2>1. <<lo, hi>> \in Sq /\ <<lo, hi>>[1] = lo /\ <<lo, hi>>[2] = hi
    OBVIOUS
  <2> QED
    BY <1>6, <2>1
<1> HIDE DEF Step
<1> DEFINE Wrong == {d \in 1 .. n : \E lo, hi \in 1 .. n : /\ hi - lo = d - 1
                                                          /\ ~Parts(a, id, lo, hi, search[<<lo, hi>>])}
<1>8. Wrong = {}
  <2> SUFFICES ASSUME Wrong # {}
               PROVE  FALSE
    OBVIOUS
  <2>1. PICK d \in 1 .. n : d \in Wrong /\ \A e \in Wrong : d <= e
    <3>1. Wrong \in SUBSET (1 .. n)
      OBVIOUS
    <3> HIDE DEF Wrong
    <3> QED
      BY <1>1, <3>1, FirstPosition
  <2>2. PICK lo \in 1 .. n, hi \in 1 .. n : hi - lo = d - 1 /\ ~Parts(a, id, lo, hi, search[<<lo, hi>>])
    BY <2>1
  <2>3. ASSUME NEW l \in 1 .. n, NEW h \in 1 .. n, l <= h, h - l < hi - lo
        PROVE  Parts(a, id, l, h, search[<<l, h>>])
    <3>1. (h - l) + 1 \in 1 .. n /\ ~(d <= (h - l) + 1)
      BY <1>1, <2>2, <2>3
    <3>2. (h - l) + 1 \notin Wrong
      BY <2>1, <3>1
    <3>3. h - l = ((h - l) + 1) - 1
      OBVIOUS
    <3> QED
      BY <3>1, <3>2, <3>3
  <2> HIDE DEF Wrong
  <2> DEFINE mid == (lo + hi) \div 2
  <2>4. lo <= hi
    BY <2>2
  <2>5. search[<<lo, hi>>] = IF lo >= hi THEN lo
                             ELSE IF a[mid].id <= id THEN search[<<mid + 1, hi>>]
                             ELSE search[<<lo, mid>>]
    BY <1>7
  <2>6. CASE lo >= hi
    <3>1. search[<<lo, hi>>] = lo /\ lo = hi
      BY <2>4, <2>5, <2>6
    <3>2. Parts(a, id, lo, hi, lo)
      BY <3>1 DEF Parts
    <3> QED
      BY <2>2, <3>1, <3>2
  <2>7. CASE ~(lo >= hi)
    <3>1. lo < hi
      BY <2>7
    <3>2. /\ mid \in lo .. hi - 1
          /\ a[mid].id <= id => \A k : Parts(a, id, mid + 1, hi, k) => Parts(a, id, lo, hi, k)
          /\ ~(a[mid].id <= id) => \A k : Parts(a, id, lo, mid, k) => Parts(a, id, lo, hi, k)
      BY <1>3, <3>1
    <3> HIDE DEF mid
    <3>6. mid \in lo .. hi - 1
      BY <3>2
    <3>3. mid \in 1 .. n /\ mid + 1 \in 1 .. n /\ mid + 1 <= hi /\ lo <= mid
          /\ hi - (mid + 1) < hi - lo /\ mid - lo < hi - lo
      BY <1>1, <3>6
    <3>4. CASE a[mid].id <= id
      <4>1. Parts(a, id, mid + 1, hi, search[<<mid + 1, hi>>])
        BY <2>3, <3>3
      <4> QED
        BY <2>2, <2>5, <2>7, <3>2, <3>4, <4>1
    <3>5. CASE ~(a[mid].id <= id)
      <4>1. Parts(a, id, lo, mid, search[<<lo, mid>>])
        BY <2>3, <3>3
      <4> QED
        BY <2>2, <2>5, <2>7, <3>2, <3>5, <4>1
    <3> QED
      BY <3>4, <3>5
  <2> QED
    BY <2>6, <2>7
<1>9. Parts(a, id, 1, n, search[<<1, n>>])
  <2>1. n \in 1 .. n /\ n - 1 = n - 1
    BY <1>1
  <2> QED
    BY <1>1, <1>8, <2>1
<1> QED
  BY <1>2, <1>9 DEF n

-----------------------------------------------------------------------------
(* The dates on a line through two anchors                                   *)

LEMMA TimesAscends ==
    ASSUME NEW a \in Int, NEW b \in Int, NEW d \in Int, a >= 0, b <= d
    PROVE  a * b \in Int /\ a * d \in Int /\ a * b <= a * d
OBVIOUS

LEMMA QuotientAscends ==
    ASSUME NEW x \in Int, NEW y \in Int, NEW c \in Int, c > 0, x <= y
    PROVE  x \div c \in Int /\ y \div c \in Int /\ x \div c <= y \div c
OBVIOUS

LEMMA QuotientExact ==
    ASSUME NEW x \in Int, NEW c \in Int, c > 0
    PROVE  (x * c) \div c = x
OBVIOUS

(* A line ascends, from the date it starts at to the other anchor's.              *)
LEMMA LineAscends ==
    ASSUME NEW from \in Rows, NEW to \in Rows, NEW start \in Rows,
           from.id < to.id, from.date < to.date, NEW id \in Nat, NEW later \in Nat, id <= later
    PROVE  /\ OnLine(from, to, start, id) \in Int /\ OnLine(from, to, start, later) \in Int
           /\ OnLine(from, to, start, id) <= OnLine(from, to, start, later)
           /\ OnLine(from, to, start, start.id) = start.date
           /\ OnLine(from, to, from, to.id) = to.date
<1>1. /\ from.id \in Nat /\ to.id \in Nat /\ start.id \in Nat
      /\ from.date \in Int /\ to.date \in Int /\ start.date \in Int
  BY DEF Rows
<1> DEFINE a == to.date - from.date
           c == to.id - from.id
           b == id - start.id
           d == later - start.id
<1>2. a \in Int /\ a >= 0 /\ c \in Int /\ c > 0 /\ b \in Int /\ d \in Int /\ b <= d
  BY <1>1
<1>3. start.id - start.id = 0 /\ from.date + a = to.date
  BY <1>1
<1> HIDE DEF a, b, c, d
<1>4. a * b \in Int /\ a * d \in Int /\ a * b <= a * d
  BY <1>2, TimesAscends
<1>5. (a * b) \div c \in Int /\ (a * d) \div c \in Int /\ (a * b) \div c <= (a * d) \div c
  BY <1>2, <1>4, QuotientAscends
<1>6. (a * c) \div c = a
  BY <1>2, QuotientExact
<1>7. (a * 0) \div c = 0
  <2>1. a * 0 = 0 * c /\ 0 \in Int
    BY <1>2
  <2>2. (0 * c) \div c = 0
    BY <1>2, <2>1, QuotientExact
  <2> QED
    BY <2>1, <2>2
<1>8. /\ OnLine(from, to, start, id) = start.date + (a * b) \div c
      /\ OnLine(from, to, start, later) = start.date + (a * d) \div c
      /\ OnLine(from, to, start, start.id) = start.date + (a * (start.id - start.id)) \div c
      /\ OnLine(from, to, from, to.id) = from.date + (a * c) \div c
  BY DEF OnLine, a, b, c, d
<1>9. start.date + (a * (start.id - start.id)) \div c = start.date
  BY <1>1, <1>3, <1>7
<1> QED
  BY <1>1, <1>3, <1>5, <1>6, <1>8, <1>9

-----------------------------------------------------------------------------
(* The estimate                                                             *)

AnchorsInOrder(a) == \A i, j \in DOMAIN a : i < j => a[i].id < a[j].id /\ a[i].date < a[j].date

(* An id stands before all anchors, after all of them or between two neighbours,  *)
(* and is dated so.                                                          *)
LEMMA EstimateForms ==
    ASSUME NEW a \in Seq(Rows), AnchorsInOrder(a), Len(a) > 1,
           NEW id \in Nat, NEW now \in Nat, id >= HandAllocated
    PROVE  LET n == Len(a)
               e == estimateUserOrBotIdAge(a, id, now)
           IN  \/ id < a[1].id /\ e = buildEstimate(a[1].date, "wide", a[1], a[1], FALSE, now)
               \/ /\ id > a[n].id
                  /\ e = buildEstimate(OnLine(a[n - 1], a[n], a[n], id), "wide", a[n - 1], a[n], TRUE, now)
               \/ \E k \in 2 .. n :
                     /\ a[k - 1].id <= id /\ id <= a[k].id
                     /\ e = buildEstimate(OnLine(a[k - 1], a[k], a[k - 1], id),
                                          classifyBand(a[k - 1], a[k]), a[k - 1], a[k], FALSE, now)
<1> DEFINE n == Len(a)
           e == estimateUserOrBotIdAge(a, id, now)
           k == Upper(a, id)
           flanking == findFlankingAnchors(a, id)
           before == buildEstimate(a[1].date, "wide", a[1], a[1], FALSE, now)
           after == buildEstimate(extrapolate(a[n - 1], a[n], id), "wide", a[n - 1], a[n], TRUE, now)
           other == buildEstimate(interpolate(flanking.lower, flanking.upper, id),
                                  classifyBand(flanking.lower, flanking.upper),
                                  flanking.lower, flanking.upper, FALSE, now)
<1>1. /\ n \in Nat /\ n > 1 /\ 1 \in 1 .. n /\ n \in 1 .. n /\ n - 1 \in 1 .. n
      /\ DOMAIN a = 1 .. n /\ \A i \in 1 .. n : a[i].id \in Nat
  <2>1. \A r \in Rows : r.id \in Nat
    BY DEF Rows
  <2> QED
    BY <2>1
<1>2. Parts(a, id, 1, n, k)
  <2>1. a # <<>> /\ \A i, j \in DOMAIN a : i < j => a[i].id < a[j].id
    BY DEF AnchorsInOrder
  <2> QED
    BY <2>1, SearchParts
<1>3. e = CASE id < HandAllocated -> NoEstimate
            [] id >= HandAllocated /\ id < a[1].id -> before
            [] id >= HandAllocated /\ id > a[n].id -> after
            [] OTHER -> other
  BY DEF estimateUserOrBotIdAge
<1> HIDE DEF n
<1>4. \A i, j \in 1 .. n : i < j => a[i].id < a[j].id
  BY <1>1 DEF AnchorsInOrder
<1>5. ~(id < HandAllocated) /\ HandAllocated \in Nat
  BY IdAgeAssumption
<1>6. CASE id < a[1].id
  <2>1. ~(id > a[n].id)
    BY <1>1, <1>4, <1>6
  <2> HIDE DEF e, before, after, other
  <2>2. e = before
    BY <1>3, <1>5, <1>6, <2>1
  <2> QED
    BY <1>6, <2>2 DEF before, e
<1>7. CASE id > a[n].id
  <2>1. ~(id < a[1].id)
    BY <1>1, <1>4, <1>7
  <2> HIDE DEF e, before, after, other
  <2>2. e = after
    BY <1>3, <1>5, <1>7, <2>1
  <2>3. a[n].id # a[n - 1].id
    BY <1>1, <1>4
  <2>4. extrapolate(a[n - 1], a[n], id) = OnLine(a[n - 1], a[n], a[n], id)
    BY <2>3 DEF extrapolate
  <2> QED
    BY <1>7, <2>2, <2>4 DEF after, e, n
<1>8. CASE ~(id < a[1].id) /\ ~(id > a[n].id)
  <2> HIDE DEF before, after, e, other
  <2>1. e = other
    BY <1>3, <1>5, <1>8
  <2> HIDE DEF k
  <2>2. k \in 1 .. n /\ (k < n => a[k].id > id) /\ \A j \in 1 .. k - 1 : a[j].id <= id
    BY <1>2 DEF Parts
  <2>3. k # 1
    BY <1>1, <1>8, <2>2
  <2>4. k \in 2 .. n /\ k - 1 \in 1 .. k - 1 /\ k - 1 \in 1 .. n
    BY <1>1, <2>2, <2>3
  <2>5. a[k - 1].id <= id
    BY <2>2, <2>4
  <2>6. id <= a[k].id
    BY <1>1, <1>8, <2>2
  <2>7. a[k].id # a[k - 1].id
    BY <1>1, <1>4, <2>2, <2>4
  <2>8. flanking.lower = a[k - 1] /\ flanking.upper = a[k]
    BY <2>3 DEF findFlankingAnchors, k
  <2>9. interpolate(a[k - 1], a[k], id) = OnLine(a[k - 1], a[k], a[k - 1], id)
    BY <2>7 DEF interpolate
  <2> HIDE DEF flanking
  <2>10. e = buildEstimate(OnLine(a[k - 1], a[k], a[k - 1], id),
                           classifyBand(a[k - 1], a[k]), a[k - 1], a[k], FALSE, now)
    BY <2>1, <2>8, <2>9 DEF other
  <2> QED
    BY <2>4, <2>5, <2>6, <2>10 DEF n, e
<1> QED
  BY <1>6, <1>7, <1>8

(* No date is earlier than an anchor's at or below the id, nor later than an      *)
(* anchor's at or above it.                                                  *)
LEMMA EstimateStaysBetween ==
    ASSUME NEW a \in Seq(Rows), AnchorsInOrder(a), Len(a) > 1,
           NEW id \in Nat, NEW now \in Nat, id >= HandAllocated
    PROVE  LET date == estimateUserOrBotIdAge(a, id, now).estimatedCreatedAt
           IN  /\ date \in Int
               /\ \A j \in DOMAIN a : /\ a[j].id <= id => a[j].date <= date
                                      /\ id <= a[j].id => date <= a[j].date
<1> DEFINE n == Len(a)
           e == estimateUserOrBotIdAge(a, id, now)
           date == e.estimatedCreatedAt
<1>1. /\ n \in Nat /\ n > 1 /\ 1 \in 1 .. n /\ n \in 1 .. n /\ n - 1 \in 1 .. n
      /\ DOMAIN a = 1 .. n
      /\ \A i \in 1 .. n : a[i] \in Rows /\ a[i].id \in Nat /\ a[i].date \in Int
  <2>1. \A r \in Rows : r.id \in Nat /\ r.date \in Int
    BY DEF Rows
  <2> QED
    BY <2>1
<1>2. \/ id < a[1].id /\ date = a[1].date
      \/ id > a[n].id /\ date = OnLine(a[n - 1], a[n], a[n], id)
      \/ \E k \in 2 .. n : /\ a[k - 1].id <= id /\ id <= a[k].id
                           /\ date = OnLine(a[k - 1], a[k], a[k - 1], id)
  BY EstimateForms DEF buildEstimate
<1> HIDE DEF n, date
<1>3. \A i, j \in 1 .. n : i < j => a[i].id < a[j].id /\ a[i].date < a[j].date
  BY <1>1 DEF AnchorsInOrder
<1>4. \A i, j \in 1 .. n : i <= j => a[i].id <= a[j].id /\ a[i].date <= a[j].date
  <2> SUFFICES ASSUME NEW i \in 1 .. n, NEW j \in 1 .. n, i <= j
               PROVE  a[i].id <= a[j].id /\ a[i].date <= a[j].date
    OBVIOUS
  <2>1. CASE i = j
    BY <1>1, <2>1
  <2>2. CASE i < j
    BY <1>1, <1>3, <2>2
  <2> QED
    BY <2>1, <2>2
<1>5. CASE id < a[1].id /\ date = a[1].date
  <2> SUFFICES ASSUME NEW j \in 1 .. n
               PROVE  date \in Int /\ (a[j].id <= id => a[j].date <= date) /\ (id <= a[j].id => date <= a[j].date)
    BY <1>1 DEF date
  <2>1. a[1].id <= a[j].id /\ a[1].date <= a[j].date
    BY <1>1, <1>4
  <2>2. ~(a[j].id <= id)
    BY <1>1, <1>5, <2>1
  <2> QED
    BY <1>1, <1>5, <2>1, <2>2
<1>6. CASE id > a[n].id /\ date = OnLine(a[n - 1], a[n], a[n], id)
  <2>1. a[n - 1].id < a[n].id /\ a[n - 1].date < a[n].date
    BY <1>1, <1>3
  <2>2. a[n].id <= id
    BY <1>1, <1>6
  <2>3. /\ date \in Int /\ OnLine(a[n - 1], a[n], a[n], a[n].id) <= date
        /\ OnLine(a[n - 1], a[n], a[n], a[n].id) = a[n].date
    BY <1>1, <1>6, <2>1, <2>2, LineAscends
  <2> SUFFICES ASSUME NEW j \in 1 .. n
               PROVE  date \in Int /\ (a[j].id <= id => a[j].date <= date) /\ (id <= a[j].id => date <= a[j].date)
    BY <1>1, <2>3 DEF date
  <2>4. a[j].id <= a[n].id /\ a[j].date <= a[n].date
    BY <1>1, <1>4
  <2>5. ~(id <= a[j].id)
    BY <1>1, <1>6, <2>4
  <2> QED
    BY <1>1, <2>3, <2>4, <2>5
<1>7. ASSUME NEW k \in 2 .. n, a[k - 1].id <= id, id <= a[k].id,
             date = OnLine(a[k - 1], a[k], a[k - 1], id)
      PROVE  /\ date \in Int
             /\ \A j \in DOMAIN a : /\ a[j].id <= id => a[j].date <= date
                                    /\ id <= a[j].id => date <= a[j].date
  <2>1. k \in 1 .. n /\ k - 1 \in 1 .. n /\ k - 1 < k
    BY <1>1
  <2>2. a[k - 1].id < a[k].id /\ a[k - 1].date < a[k].date
    BY <1>3, <2>1
  <2>8. a[k - 1] \in Rows /\ a[k] \in Rows /\ a[k - 1].id \in Nat /\ a[k].id \in Nat
    BY <1>1, <2>1
  <2>3. /\ date \in Int /\ OnLine(a[k - 1], a[k], a[k - 1], a[k - 1].id) <= date
        /\ OnLine(a[k - 1], a[k], a[k - 1], a[k - 1].id) = a[k - 1].date
    <3>1. PICK from \in Rows : from = a[k - 1]
      BY <2>8
    <3>2. PICK to \in Rows : to = a[k]
      BY <2>8
    <3>3. from.id <= id /\ from.id \in Nat /\ from.id < to.id /\ from.date < to.date
      BY <1>7, <2>2, <2>8, <3>1, <3>2
    <3>4. /\ OnLine(from, to, from, id) \in Int
          /\ OnLine(from, to, from, from.id) <= OnLine(from, to, from, id)
          /\ OnLine(from, to, from, from.id) = from.date
      BY <3>3, LineAscends
    <3> QED
      BY <1>7, <3>1, <3>2, <3>4
  <2>4. /\ date <= OnLine(a[k - 1], a[k], a[k - 1], a[k].id)
        /\ OnLine(a[k - 1], a[k], a[k - 1], a[k].id) = a[k].date
    BY <1>1, <1>7, <2>1, <2>2, LineAscends
  <2>5. a[k - 1].date <= date /\ date <= a[k].date /\ date \in Int
    BY <2>3, <2>4
  <2> SUFFICES ASSUME NEW j \in 1 .. n
               PROVE  (a[j].id <= id => a[j].date <= date) /\ (id <= a[j].id => date <= a[j].date)
    BY <1>1, <2>5
  <2>6. CASE j <= k - 1
    <3>1. a[j].id <= a[k - 1].id /\ a[j].date <= a[k - 1].date
      BY <1>4, <2>1, <2>6
    <3>2. a[j].date <= date
      BY <1>1, <2>1, <2>5, <3>1
    <3>3. ASSUME id <= a[j].id
          PROVE  date <= a[j].date
      <4>1. a[j].id = a[k - 1].id /\ id = a[k - 1].id
        BY <1>1, <1>7, <2>1, <3>1, <3>3
      <4>2. j = k - 1
        BY <1>1, <1>3, <2>1, <2>6, <4>1
      <4> QED
        BY <1>7, <2>3, <4>1, <4>2
    <3> QED
      BY <3>2, <3>3
  <2>7. CASE k <= j
    <3>1. a[k].id <= a[j].id /\ a[k].date <= a[j].date
      BY <1>4, <2>1, <2>7
    <3>2. date <= a[j].date
      BY <1>1, <2>1, <2>5, <3>1
    <3>3. ASSUME a[j].id <= id
          PROVE  a[j].date <= date
      <4>1. a[j].id = a[k].id /\ id = a[k].id
        BY <1>1, <1>7, <2>1, <3>1, <3>3
      <4>2. j = k
        BY <1>1, <1>3, <2>1, <2>7, <4>1
      <4> QED
        BY <1>1, <1>7, <2>1, <2>4, <2>5, <4>1, <4>2
    <3> QED
      BY <3>2, <3>3
  <2> QED
    BY <2>1, <2>6, <2>7
<1> QED
  BY <1>2, <1>5, <1>6, <1>7 DEF date

(* Of two ids the later is told no older.                                       *)
LEMMA EstimatesAscend ==
    ASSUME NEW a \in Seq(Rows), AnchorsInOrder(a), Len(a) > 1, NEW now \in Nat,
           NEW id \in Nat, id >= HandAllocated, NEW later \in Nat, later > id
    PROVE  estimateUserOrBotIdAge(a, id, now).estimatedCreatedAt
              <= estimateUserOrBotIdAge(a, later, now).estimatedCreatedAt
<1> DEFINE n == Len(a)
           date == estimateUserOrBotIdAge(a, id, now).estimatedCreatedAt
           laterDate == estimateUserOrBotIdAge(a, later, now).estimatedCreatedAt
<1>1. /\ n \in Nat /\ n > 1 /\ 1 \in 1 .. n /\ n \in 1 .. n /\ n - 1 \in 1 .. n
      /\ DOMAIN a = 1 .. n
      /\ \A i \in 1 .. n : a[i] \in Rows /\ a[i].id \in Nat /\ a[i].date \in Int
  <2>1. \A r \in Rows : r.id \in Nat /\ r.date \in Int
    BY DEF Rows
  <2> QED
    BY <2>1
<1>2. HandAllocated \in Nat /\ later >= HandAllocated
  BY IdAgeAssumption
<1>3. \/ id < a[1].id /\ date = a[1].date
      \/ id > a[n].id /\ date = OnLine(a[n - 1], a[n], a[n], id)
      \/ \E k \in 2 .. n : /\ a[k - 1].id <= id /\ id <= a[k].id
                           /\ date = OnLine(a[k - 1], a[k], a[k - 1], id)
  BY EstimateForms DEF buildEstimate
<1>4. \/ later < a[1].id /\ laterDate = a[1].date
      \/ later > a[n].id /\ laterDate = OnLine(a[n - 1], a[n], a[n], later)
      \/ \E k \in 2 .. n : /\ a[k - 1].id <= later /\ later <= a[k].id
                           /\ laterDate = OnLine(a[k - 1], a[k], a[k - 1], later)
  BY <1>2, EstimateForms DEF buildEstimate
<1>5. date \in Int /\ \A j \in DOMAIN a : id <= a[j].id => date <= a[j].date
  BY EstimateStaysBetween
<1>6. laterDate \in Int /\ \A j \in DOMAIN a : a[j].id <= later => a[j].date <= laterDate
  BY <1>2, EstimateStaysBetween
<1> HIDE DEF n, date, laterDate
<1>7. \A i, j \in 1 .. n : i < j => a[i].id < a[j].id /\ a[i].date < a[j].date
  BY <1>1 DEF AnchorsInOrder
<1>8. ASSUME NEW j \in 1 .. n, id <= a[j].id, a[j].id <= later
      PROVE  date <= laterDate
  <2>1. date <= a[j].date /\ a[j].date <= laterDate
    BY <1>1, <1>5, <1>6, <1>8
  <2>2. date \in Int /\ laterDate \in Int /\ a[j].date \in Int
    BY <1>1, <1>5, <1>6
  <2> QED
    BY <2>1, <2>2
<1>9. ASSUME \A j \in 1 .. n : ~(id <= a[j].id /\ a[j].id <= later)
      PROVE  date <= laterDate
  <2>1. a[1].id < a[n].id
    BY <1>1, <1>7
  <2>2. CASE id < a[1].id /\ date = a[1].date
    <3>1. later < a[1].id
      BY <1>1, <1>9, <2>2
    <3>2. ~(later > a[n].id)
      BY <1>1, <2>1, <3>1
    <3>3. ASSUME NEW k \in 2 .. n, a[k - 1].id <= later
          PROVE  FALSE
      <4>1. k - 1 \in 1 .. n /\ (k - 1 = 1 \/ 1 < k - 1)
        BY <1>1
      <4>2. a[1].id <= a[k - 1].id
        BY <1>1, <1>7, <4>1
      <4> QED
        BY <1>1, <3>1, <3>3, <4>1, <4>2
    <3>4. laterDate = a[1].date
      BY <1>4, <3>2, <3>3
    <3> QED
      BY <1>5, <2>2, <3>4
  <2>3. CASE id > a[n].id /\ date = OnLine(a[n - 1], a[n], a[n], id)
    <3>1. later > a[n].id
      BY <1>1, <2>3
    <3>2. ~(later < a[1].id)
      BY <1>1, <2>1, <3>1
    <3>3. ASSUME NEW k \in 2 .. n, later <= a[k].id
          PROVE  FALSE
      <4>1. k \in 1 .. n /\ (k = n \/ k < n)
        BY <1>1
      <4>2. a[k].id <= a[n].id
        BY <1>1, <1>7, <4>1
      <4> QED
        BY <1>1, <3>1, <3>3, <4>1, <4>2
    <3>4. laterDate = OnLine(a[n - 1], a[n], a[n], later)
      BY <1>4, <3>2, <3>3
    <3>5. a[n - 1].id < a[n].id /\ a[n - 1].date < a[n].date /\ id <= later
      BY <1>1, <1>7
    <3> QED
      BY <1>1, <2>3, <3>4, <3>5, LineAscends
  <2>4. ASSUME NEW k \in 2 .. n, a[k - 1].id <= id, id <= a[k].id,
               date = OnLine(a[k - 1], a[k], a[k - 1], id)
        PROVE  date <= laterDate
    <3>1. k \in 1 .. n /\ k - 1 \in 1 .. n
      BY <1>1
    <3>2. later < a[k].id /\ a[k - 1].id < id /\ a[k - 1].id < later
      BY <1>1, <1>9, <2>4, <3>1
    <3>3. ~(later < a[1].id)
      <4>1. k - 1 = 1 \/ 1 < k - 1
        BY <3>1
      <4>2. a[1].id <= a[k - 1].id
        BY <1>1, <1>7, <3>1, <4>1
      <4> QED
        BY <1>1, <3>1, <3>2, <4>2
    <3>4. ~(later > a[n].id)
      <4>1. k = n \/ k < n
        BY <1>1
      <4>2. a[k].id <= a[n].id
        BY <1>1, <1>7, <3>1, <4>1
      <4> QED
        BY <1>1, <3>1, <3>2, <4>2
    <3>5. PICK l \in 2 .. n : /\ a[l - 1].id <= later /\ later <= a[l].id
                              /\ laterDate = OnLine(a[l - 1], a[l], a[l - 1], later)
      BY <1>4, <3>3, <3>4
    <3>6. l \in 1 .. n /\ l - 1 \in 1 .. n
      BY <1>1
    <3>7. ~(k <= l - 1)
      <4> SUFFICES ASSUME k <= l - 1
                   PROVE  FALSE
        OBVIOUS
      <4>1. k = l - 1 \/ k < l - 1
        BY <1>1
      <4>3. a[k].id \in Nat /\ a[l - 1].id \in Nat
        BY <1>1, <3>1, <3>6
      <4>2. a[k].id <= a[l - 1].id
        <5>1. CASE k = l - 1
          <6>1. a[k].id = a[l - 1].id
            BY <5>1
          <6> QED
            BY <4>3, <6>1
        <5>2. CASE k < l - 1
          <6>1. a[k].id < a[l - 1].id
            BY <1>7, <3>1, <3>6, <5>2
          <6> QED
            BY <4>3, <6>1
        <5> QED
          BY <4>1, <5>1, <5>2
      <4>4. later < a[k].id /\ a[l - 1].id <= later
        BY <3>2, <3>5
      <4> QED
        BY <4>2, <4>3, <4>4
    <3>8. ~(l <= k - 1)
      <4> SUFFICES ASSUME l <= k - 1
                   PROVE  FALSE
        OBVIOUS
      <4>1. l = k - 1 \/ l < k - 1
        BY <1>1
      <4>3. a[l].id \in Nat /\ a[k - 1].id \in Nat
        BY <1>1, <3>1, <3>6
      <4>2. a[l].id <= a[k - 1].id
        <5>1. CASE l = k - 1
          <6>1. a[l].id = a[k - 1].id
            BY <5>1
          <6> QED
            BY <4>3, <6>1
        <5>2. CASE l < k - 1
          <6>1. a[l].id < a[k - 1].id
            BY <1>7, <3>1, <3>6, <5>2
          <6> QED
            BY <4>3, <6>1
        <5> QED
          BY <4>1, <5>1, <5>2
      <4>4. a[k - 1].id < later /\ later <= a[l].id
        BY <3>2, <3>5
      <4> QED
        BY <4>2, <4>3, <4>4
    <3>9. k = l
      BY <1>1, <3>7, <3>8
    <3>10. PICK from \in Rows : from = a[k - 1]
      BY <1>1, <3>1
    <3>11. PICK to \in Rows : to = a[k]
      BY <1>1, <3>1
    <3>12. from.id < to.id /\ from.date < to.date /\ id <= later
      BY <1>1, <1>7, <3>1, <3>10, <3>11
    <3>13. OnLine(from, to, from, id) <= OnLine(from, to, from, later)
      BY <3>12, LineAscends
    <3> QED
      BY <2>4, <3>5, <3>9, <3>10, <3>11, <3>13
  <2> QED
    BY <1>3, <2>2, <2>3, <2>4
<1> QED
  BY <1>8, <1>9 DEF date, laterDate

(* Ages follow ids, whatever the anchors are and however their dates stand        *)
(* (id-age-estimator.ts): the loop keeps an ascending table, the search finds     *)
(* the id's place in it, and lines between its anchors ascend.                  *)
THEOREM AgesAlwaysFollowIds ==
    ASSUME NEW rows \in Tables, NEW ids \in SUBSET Nat, NEW now \in Nat
    PROVE  AgeFollowsIds(rows, ids, now)
<1> DEFINE a == loadAnchors(rows)
           estimate == [id \in ids |-> estimateUserOrBotIdAge(a, id, now)]
           dated == {id \in ids : estimate[id] # NoEstimate}
<1>1. /\ a \in Seq(Rows) /\ AnchorsInOrder(a)
      /\ \A i \in DOMAIN rows : \E j \in DOMAIN a : a[j].id <= rows[i].id /\ rows[i].date <= a[j].date
  BY AnchorsAscend DEF AnchorsInOrder
<1> HIDE DEF a
<1> SUFFICES ASSUME Len(a) > 1, NEW id \in dated
             PROVE  LET e == estimate[id]
                    IN  /\ \A later \in dated : later > id =>
                              /\ e.estimatedCreatedAt <= estimate[later].estimatedCreatedAt
                              /\ isLikelyVeryNew(e, 1) => isLikelyVeryNew(estimate[later], 1)
                        /\ \A i \in DOMAIN rows : rows[i].id <= id => rows[i].date <= e.estimatedCreatedAt
                        /\ id \in a[1].id .. a[Len(a)].id =>
                              /\ id \in e.lowerAnchor.id .. e.upperAnchor.id
                              /\ \A k \in DOMAIN a :
                                    a[k].id \notin e.lowerAnchor.id + 1 .. e.upperAnchor.id - 1
  BY DEF AgeFollowsIds, a
<1> DEFINE Dates(i) == estimateUserOrBotIdAge(a, i, now)
           n == Len(a)
<1>2. /\ n \in Nat /\ n > 1 /\ 1 \in 1 .. n /\ n \in 1 .. n /\ DOMAIN a = 1 .. n
      /\ \A i \in 1 .. n : a[i] \in Rows /\ a[i].id \in Nat /\ a[i].date \in Int
  <2>1. \A r \in Rows : r.id \in Nat /\ r.date \in Int
    BY DEF Rows
  <2> QED
    BY <1>1, <2>1
<1>3. \A i \in dated : i \in Nat /\ estimate[i] = Dates(i) /\ i >= HandAllocated
  <2> TAKE i \in dated
  <2>1. i \in Nat /\ estimate[i] = Dates(i) /\ Dates(i) # NoEstimate
    OBVIOUS
  <2>2. ASSUME i < HandAllocated
        PROVE  Dates(i) = NoEstimate
    <3>1. ~(i >= HandAllocated)
      BY <2>1, <2>2, IdAgeAssumption
    <3> QED
      BY <2>2, <3>1, Zenon DEF estimateUserOrBotIdAge
  <2> QED
    BY <2>1, <2>2, IdAgeAssumption
<1> HIDE DEF dated, estimate, n
<1>4. ASSUME NEW i \in dated
      PROVE  /\ Dates(i).estimatedCreatedAt \in Int
             /\ \A j \in DOMAIN a : a[j].id <= i => a[j].date <= Dates(i).estimatedCreatedAt
             /\ Dates(i).ageDays = IF now > Dates(i).estimatedCreatedAt
                                   THEN now - Dates(i).estimatedCreatedAt ELSE 0
  <2>1. i \in Nat /\ i >= HandAllocated
    BY <1>3
  <2>2. /\ Dates(i).estimatedCreatedAt \in Int
        /\ \A j \in DOMAIN a : a[j].id <= i => a[j].date <= Dates(i).estimatedCreatedAt
    BY <1>1, <2>1, EstimateStaysBetween
  <2>3. \/ Dates(i) = buildEstimate(a[1].date, "wide", a[1], a[1], FALSE, now)
        \/ Dates(i) = buildEstimate(OnLine(a[n - 1], a[n], a[n], i), "wide", a[n - 1], a[n], TRUE, now)
        \/ \E k \in 2 .. n :
              Dates(i) = buildEstimate(OnLine(a[k - 1], a[k], a[k - 1], i),
                                       classifyBand(a[k - 1], a[k]), a[k - 1], a[k], FALSE, now)
    BY <1>1, <2>1, EstimateForms DEF n
  <2> HIDE DEF Dates
  <2> QED
    BY <2>2, <2>3 DEF buildEstimate
<1>5. ASSUME NEW later \in dated, later > id
      PROVE  /\ Dates(id).estimatedCreatedAt <= Dates(later).estimatedCreatedAt
             /\ isLikelyVeryNew(Dates(id), 1) => isLikelyVeryNew(Dates(later), 1)
  <2>1. Dates(id).estimatedCreatedAt <= Dates(later).estimatedCreatedAt
    BY <1>1, <1>3, <1>5, EstimatesAscend
  <2> HIDE DEF Dates
  <2>2. /\ Dates(id).ageDays = IF now > Dates(id).estimatedCreatedAt
                               THEN now - Dates(id).estimatedCreatedAt ELSE 0
        /\ Dates(later).ageDays = IF now > Dates(later).estimatedCreatedAt
                                  THEN now - Dates(later).estimatedCreatedAt ELSE 0
        /\ Dates(id).estimatedCreatedAt \in Int /\ Dates(later).estimatedCreatedAt \in Int
    BY <1>4
  <2> QED
    BY <2>1, <2>2 DEF isLikelyVeryNew
<1>6. ASSUME NEW i \in DOMAIN rows, rows[i].id <= id
      PROVE  rows[i].date <= Dates(id).estimatedCreatedAt
  <2>1. PICK j \in DOMAIN a : a[j].id <= rows[i].id /\ rows[i].date <= a[j].date
    BY <1>1
  <2>2. rows[i].id \in Nat /\ rows[i].date \in Int
    <3>1. rows \in Seq(Rows)
      BY DEF Tables, Rows
    <3>2. rows[i] \in Rows
      BY <3>1
    <3> QED
      BY <3>2 DEF Rows
  <2>3. a[j].id <= id
    BY <1>2, <1>3, <1>6, <2>1, <2>2
  <2>4. a[j].date <= Dates(id).estimatedCreatedAt /\ Dates(id).estimatedCreatedAt \in Int
    BY <1>4, <2>3
  <2> HIDE DEF Dates
  <2> QED
    BY <1>2, <2>1, <2>2, <2>4
<1>7. ASSUME id \in a[1].id .. a[n].id
      PROVE  /\ id \in Dates(id).lowerAnchor.id .. Dates(id).upperAnchor.id
             /\ \A k \in 1 .. n :
                   a[k].id \notin Dates(id).lowerAnchor.id + 1 .. Dates(id).upperAnchor.id - 1
  <2>1. id \in Nat /\ id >= HandAllocated /\ ~(id < a[1].id) /\ ~(id > a[n].id)
    BY <1>2, <1>3, <1>7
  <2>2. \E k \in 2 .. n :
           /\ a[k - 1].id <= id /\ id <= a[k].id
           /\ Dates(id) = buildEstimate(OnLine(a[k - 1], a[k], a[k - 1], id),
                                        classifyBand(a[k - 1], a[k]), a[k - 1], a[k], FALSE, now)
    BY <1>1, <2>1, EstimateForms DEF n
  <2> HIDE DEF Dates
  <2>3. PICK k \in 2 .. n : /\ a[k - 1].id <= id /\ id <= a[k].id
                            /\ Dates(id).lowerAnchor = a[k - 1] /\ Dates(id).upperAnchor = a[k]
    BY <2>2 DEF buildEstimate
  <2>4. k \in 1 .. n /\ k - 1 \in 1 .. n
    BY <1>2
  <2>5. ASSUME NEW j \in 1 .. n
        PROVE  a[j].id <= a[k - 1].id \/ a[k].id <= a[j].id
    <3>1. \A i, l \in 1 .. n : i < l => a[i].id < a[l].id
      BY <1>1, <1>2 DEF AnchorsInOrder
    <3>2. j < k - 1 \/ j = k - 1 \/ j = k \/ k < j
      BY <2>4
    <3>3. a[j].id \in Nat /\ a[k - 1].id \in Nat /\ a[k].id \in Nat
      BY <1>2, <2>4
    <3>4. j < k - 1 => a[j].id < a[k - 1].id
      BY <2>4, <3>1
    <3>5. k < j => a[k].id < a[j].id
      BY <2>4, <3>1
    <3> QED
      BY <3>2, <3>3, <3>4, <3>5
  <2>6. ASSUME NEW j \in 1 .. n
        PROVE  a[j].id \notin a[k - 1].id + 1 .. a[k].id - 1
    <3>1. a[j].id \in Nat /\ a[k - 1].id \in Nat /\ a[k].id \in Nat
      BY <1>2, <2>4
    <3>2. a[j].id <= a[k - 1].id \/ a[k].id <= a[j].id
      BY <2>5
    <3> QED
      BY <3>1, <3>2
  <2>7. id \in a[k - 1].id .. a[k].id
    BY <1>2, <2>1, <2>3, <2>4
  <2> QED
    BY <2>3, <2>6, <2>7
<1> HIDE DEF Dates
<1> QED
  BY <1>2, <1>3, <1>5, <1>6, <1>7 DEF n

-----------------------------------------------------------------------------
(* Links                                                                     *)

(* The value that is got stands at the parameter's first position.                 *)
LEMMA GotValue ==
    ASSUME NEW query, Len(query) \in Nat, DOMAIN query = 1 .. Len(query), NEW key, Has(query, key)
    PROVE  Min(At(query, key)) \in At(query, key) /\ get(query, key) = query[Min(At(query, key))][2]
<1>1. At(query, key) \in SUBSET (1 .. Len(query))
  BY DEF At
<1>2. Min(At(query, key)) \in At(query, key)
  BY <1>1, FirstPosition DEF Has
<1> QED
  BY <1>2 DEF get

(* What the parser leaves of a query names nothing twice.                        *)
LEMMA RestNames ==
    ASSUME NEW E, NEW query \in Seq(E), NEW consumed
    PROVE  Rest(query, consumed) \in Seq(E) /\ NoneTwice(Rest(query, consumed))
<1> DEFINE P == {i \in DOMAIN query : /\ \A key \in consumed : query[i][1] # Named(key)
                                     /\ \A j \in DOMAIN query : j > i => query[j][1] # query[i][1]}
           rest == Kept(query, P)
<1>1. P \in SUBSET DOMAIN query /\ DOMAIN query \subseteq Nat
  OBVIOUS
<1>2. \A i \in P : \A j \in P : i < j => query[j][1] # query[i][1]
  BY <1>1
<1>3. Rest(query, consumed) = rest
  BY DEF Rest
<1> HIDE DEF P
<1>4. rest \in Seq(E) /\ Len(rest) = Cardinality(P) /\ Cardinality(P) \in Nat
  BY <1>1, KeptIsSeq
<1>5. PICK at \in [1 .. Cardinality(P) -> P] :
          /\ \A k \in 1 .. Cardinality(P) : rest[k] = query[at[k]]
          /\ \A k, l \in 1 .. Cardinality(P) : k < l => at[k] < at[l]
  <2>1. query \in Seq(E) /\ P \in SUBSET DOMAIN query
    BY <1>1
  <2>2. \E at \in [1 .. Cardinality(P) -> P] :
           /\ \A k \in 1 .. Cardinality(P) : Kept(query, P)[k] = query[at[k]]
           /\ \A k, l \in 1 .. Cardinality(P) : k < l => at[k] < at[l]
    BY <2>1, KeptEntries, SMTT(20)
  <2> QED
    BY <2>2
<1> HIDE DEF rest
<1>6. ASSUME NEW k \in DOMAIN rest, NEW l \in DOMAIN rest, k < l
      PROVE  rest[k][1] # rest[l][1]
  <2>1. k \in 1 .. Cardinality(P) /\ l \in 1 .. Cardinality(P)
    BY <1>4
  <2>2. at[k] \in P /\ at[l] \in P /\ at[k] < at[l] /\ rest[k] = query[at[k]] /\ rest[l] = query[at[l]]
    BY <1>5, <1>6, <2>1
  <2> QED
    BY <1>2, <2>2
<1>7. \A k, l \in DOMAIN rest : k < l \/ l < k \/ k = l
  BY <1>4
<1>8. NoneTwice(rest)
  BY <1>6, <1>7 DEF NoneTwice
<1> QED
  BY <1>3, <1>4, <1>8

(* An object's properties can be read from the set of them.                      *)
LEMMA SameProperties ==
    ASSUME NEW some \in Seq(Texts \X Texts), NEW other \in Seq(Texts \X Texts), NEW key,
           NoneTwice(some), NoneTwice(other), ToSet(some) = ToSet(other)
    PROVE  get(some, key) = get(other, key)
<1>1. ASSUME NEW a \in Seq(Texts \X Texts), NEW b \in Seq(Texts \X Texts), ToSet(a) = ToSet(b), NEW i \in At(a, key)
      PROVE  \E j \in At(b, key) : b[j] = a[i]
  <2>1. i \in DOMAIN a /\ a[i][1] = Named(key)
    BY <1>1 DEF At
  <2>2. a[i] \in ToSet(b)
    BY <1>1, <2>1 DEF ToSet
  <2>3. PICK j \in DOMAIN b : b[j] = a[i]
    BY <2>2 DEF ToSet
  <2> QED
    BY <2>1, <2>3 DEF At
<1>2. CASE Has(some, key)
  <2>1. PICK i \in At(some, key) : get(some, key) = some[i][2]
    <3>1. Len(some) \in Nat /\ DOMAIN some = 1 .. Len(some)
      OBVIOUS
    <3> QED
      BY <1>2, <3>1, GotValue
  <2>2. PICK j \in At(other, key) : other[j] = some[i]
    BY <1>1
  <2>3. Has(other, key)
    BY <2>2 DEF Has
  <2>4. PICK l \in At(other, key) : get(other, key) = other[l][2]
    <3>1. Len(other) \in Nat /\ DOMAIN other = 1 .. Len(other)
      OBVIOUS
    <3> QED
      BY <2>3, <3>1, GotValue
  <2>5. j = l
    BY DEF At, NoneTwice
  <2> QED
    BY <2>1, <2>2, <2>4, <2>5
<1>3. CASE ~Has(some, key)
  <2>1. ~Has(other, key)
    BY <1>1, <1>3 DEF Has
  <2> QED
    BY <1>3, <2>1 DEF get
<1> QED
  BY <1>2, <1>3

(* A value typed in another case: what is got differs in case at most, and only       *)
(* under its name.                                                           *)
FlippedIn(query, i, other) ==
    /\ query \in Seq(Texts \X Texts) /\ i \in DOMAIN query
    /\ other \in Seq(Texts \X Texts) /\ Len(other) = Len(query)
    /\ other[i] = <<query[i][1], Flip(query[i][2])>>
    /\ \A j \in DOMAIN query : j # i => other[j] = query[j]

LEMMA FlippedValue ==
    ASSUME NEW query, NEW i, NEW other, FlippedIn(query, i, other), NEW name, query[i][1] = Named(name)
    PROVE  /\ \A key : Named(key) # Named(name) => get(other, key) = get(query, key)
           /\ ToLowerCase(get(other, name)) = ToLowerCase(get(query, name))
           /\ get(other, name).word = get(query, name).word
           /\ \A consumed : name \in consumed => Rest(other, consumed) = Rest(query, consumed)
<1>0. /\ query \in Seq(Texts \X Texts) /\ i \in DOMAIN query
      /\ other \in Seq(Texts \X Texts) /\ Len(other) = Len(query)
      /\ other[i] = <<query[i][1], Flip(query[i][2])>>
      /\ \A j \in DOMAIN query : j # i => other[j] = query[j]
  BY DEF FlippedIn
<1>1. query[i] \in Texts \X Texts /\ query[i][2] \in Texts
  BY <1>0
<1>2. Flip(query[i][2]) \in Texts /\ Flip(query[i][2]).word = query[i][2].word
      /\ ToLowerCase(Flip(query[i][2])) = ToLowerCase(query[i][2])
  BY <1>1 DEF Flip, Texts, ToLowerCase
<1>3. /\ DOMAIN other = DOMAIN query
      /\ other[i][1] = query[i][1] /\ other[i][2] = Flip(query[i][2])
      /\ \A j \in DOMAIN query : j # i => other[j] = query[j]
  BY <1>0, <1>1
<1>4. \A j \in DOMAIN query : other[j][1] = query[j][1]
  BY <1>3
<1>5. \A key : At(other, key) = At(query, key)
  BY <1>3, <1>4 DEF At
<1>6. \A key : Has(other, key) = Has(query, key)
  BY <1>5 DEF Has
<1>7. ASSUME NEW key, Has(query, key)
      PROVE  \E j \in At(query, key) : get(query, key) = query[j][2] /\ get(other, key) = other[j][2]
  <2>1. PICK j \in At(query, key) : Min(At(query, key)) = j /\ get(query, key) = query[j][2]
    <3>1. Len(query) \in Nat /\ DOMAIN query = 1 .. Len(query)
      BY <1>0
    <3> QED
      BY <1>7, <3>1, GotValue
  <2>2. get(other, key) = other[j][2]
    BY <1>5, <1>6, <1>7, <2>1 DEF get
  <2> QED
    BY <2>1, <2>2
<1>8. ASSUME NEW key, ~Has(query, key)
      PROVE  get(query, key) = NullText /\ get(other, key) = NullText
  BY <1>6, <1>8 DEF get
<1>9. ASSUME NEW key, Named(key) # Named(name)
      PROVE  get(other, key) = get(query, key)
  <2>1. CASE Has(query, key)
    <3>1. PICK j \in At(query, key) : get(query, key) = query[j][2] /\ get(other, key) = other[j][2]
      BY <1>7, <2>1
    <3>2. j \in DOMAIN query /\ j # i
      BY <1>9 DEF At
    <3> QED
      BY <1>3, <3>1, <3>2
  <2> QED
    BY <1>8, <2>1
<1>10. /\ ToLowerCase(get(other, name)) = ToLowerCase(get(query, name))
       /\ get(other, name).word = get(query, name).word
  <2>1. CASE Has(query, name)
    <3>1. PICK j \in At(query, name) : get(query, name) = query[j][2] /\ get(other, name) = other[j][2]
      BY <1>7, <2>1
    <3>2. j \in DOMAIN query
      BY DEF At
    <3> QED
      BY <1>2, <1>3, <3>1, <3>2
  <2> QED
    BY <1>8, <2>1
<1>11. ASSUME NEW consumed, name \in consumed
       PROVE  Rest(other, consumed) = Rest(query, consumed)
  <2> DEFINE P == {k \in DOMAIN query : /\ \A key \in consumed : query[k][1] # Named(key)
                                       /\ \A j \in DOMAIN query : j > k => query[j][1] # query[k][1]}
             Q == {k \in DOMAIN other : /\ \A key \in consumed : other[k][1] # Named(key)
                                       /\ \A j \in DOMAIN other : j > k => other[j][1] # other[k][1]}
  <2>1. P = Q
    BY <1>3, <1>4
  <2>2. \A k \in P : other[k] = query[k]
    BY <1>3, <1>11
  <2>3. P \in SUBSET (1 .. Len(query)) /\ Len(query) \in Nat
    BY <1>0
  <2>4. Rest(other, consumed) = Kept(other, Q) /\ Rest(query, consumed) = Kept(query, P)
    BY DEF Rest
  <2> HIDE DEF P, Q
  <2>5. \A k \in 1 .. Cardinality(P) : other[Nth(P, k)] = query[Nth(P, k)]
    BY <2>2, <2>3, NthPosition
  <2>6. Kept(other, P) = Kept(query, P)
    BY <2>5 DEF Kept
  <2> QED
    BY <2>1, <2>4, <2>6
<1> QED
  BY <1>9, <1>10, <1>11

(* What tg://resolve is given as its name and its other parameters.                *)
LEMMA ResolvedQuery ==
    ASSUME NEW T, NEW query \in Seq(T \X T), NEW name, NEW text,
           NEW whole \in Seq(T \X T), whole = <<<<Named(name), text>>>> \o query, NoneTwice(whole)
    PROVE  /\ get(whole, name) = text
           /\ Rest(whole, {name}) = query
<1> DEFINE n == Len(query)
           P == {i \in DOMAIN whole : /\ \A key \in {name} : whole[i][1] # Named(key)
                                     /\ \A j \in DOMAIN whole : j > i => whole[j][1] # whole[i][1]}
<1>1. /\ n \in Nat /\ DOMAIN whole = 1 .. n + 1 /\ whole \in Seq(T \X T)
      /\ whole[1] = <<Named(name), text>>
      /\ \A i \in 1 .. n : whole[i + 1] = query[i]
      /\ query = [i \in 1 .. n |-> query[i]]
  OBVIOUS
<1>2. Rest(whole, {name}) = Kept(whole, P)
  BY DEF Rest
<1>3. \A i, j \in DOMAIN whole : whole[i][1] = whole[j][1] => i = j
  BY DEF NoneTwice
<1> HIDE DEF n
<1>4. whole[1][1] = Named(name) /\ whole[1][2] = text
  BY <1>1
<1>5. At(whole, name) = {1}
  <2>1. 1 \in DOMAIN whole
    BY <1>1
  <2>2. 1 \in At(whole, name)
    BY <1>4, <2>1 DEF At
  <2>3. \A i \in At(whole, name) : i = 1
    BY <1>3, <1>4, <2>1 DEF At
  <2> QED
    BY <2>2, <2>3
<1>6. get(whole, name) = text
  <2>1. Has(whole, name)
    BY <1>5 DEF Has
  <2>2. Len(whole) \in Nat /\ DOMAIN whole = 1 .. Len(whole)
    BY <1>1
  <2>3. Min(At(whole, name)) = 1 /\ get(whole, name) = whole[Min(At(whole, name))][2]
    BY <1>5, <2>1, <2>2, GotValue
  <2> QED
    BY <1>4, <2>3
<1>7. P = 2 .. n + 1
  <2>1. ASSUME NEW i \in P
        PROVE  i \in 2 .. n + 1
    BY <1>1, <1>4
  <2>2. ASSUME NEW i \in 2 .. n + 1
        PROVE  i \in P
    <3>1. i \in DOMAIN whole /\ 1 \in DOMAIN whole /\ i # 1
      BY <1>1
    <3>2. whole[i][1] # Named(name)
      BY <1>3, <1>4, <3>1
    <3>3. \A j \in DOMAIN whole : j > i => j # i
      BY <1>1
    <3>4. \A j \in DOMAIN whole : j > i => whole[j][1] # whole[i][1]
      BY <1>3, <3>1, <3>3
    <3> QED
      BY <3>1, <3>2, <3>4
  <2> QED
    BY <2>1, <2>2
<1> HIDE DEF P
<1>8. P \in SUBSET (1 .. n + 1) /\ n + 1 \in Nat
  BY <1>1, <1>7
<1>9. Cardinality(P) = n
  <2>1. 2 \in Int /\ n + 1 \in Int
    BY <1>1
  <2>2. Cardinality(2 .. n + 1) = IF 2 > n + 1 THEN 0 ELSE ((n + 1) - 2) + 1
    BY <2>1, FS_Interval
  <2> QED
    BY <1>1, <1>7, <2>2
<1>10. \A k \in 2 .. n + 1 : Cardinality({j \in P : j <= k}) = k - 1
  <2> TAKE k \in 2 .. n + 1
  <2>1. {j \in P : j <= k} = 2 .. k /\ k \in Int
    BY <1>1, <1>7
  <2>2. Cardinality(2 .. k) = IF 2 > k THEN 0 ELSE (k - 2) + 1
    BY <2>1, FS_Interval
  <2>3. (IF 2 > k THEN 0 ELSE (k - 2) + 1) = k - 1
    BY <1>1
  <2>4. Cardinality(2 .. k) = k - 1
    BY <2>2, <2>3
  <2> QED
    BY <2>1, <2>4
<1>11. \A i \in 1 .. n : Nth(P, i) = i + 1
  <2> TAKE i \in 1 .. n
  <2>1. Nth(P, i) \in P /\ Cardinality({j \in P : j <= Nth(P, i)}) = i
    BY <1>8, <1>9, NthPosition
  <2>2. Nth(P, i) \in 2 .. n + 1 /\ Nth(P, i) - 1 = i
    BY <1>7, <1>10, <2>1
  <2> QED
    BY <1>1, <2>2
<1>12. Kept(whole, P) = query
  <2>1. Kept(whole, P) = [i \in 1 .. n |-> whole[Nth(P, i)]]
    BY <1>9 DEF Kept
  <2>2. \A i \in 1 .. n : whole[Nth(P, i)] = query[i]
    BY <1>1, <1>11
  <2> QED
    BY <1>1, <2>1, <2>2
<1> QED
  BY <1>2, <1>6, <1>12

(* What a path is parsed as depends on its name, its lowered name and what follows.  *)
Lead(segments) == IF segments = <<>> THEN NullText ELSE segments[1]

AppOf(segments) == IF Len(segments) > 1 THEN segments[2] ELSE NullText

PathOf(word, target, app, query) ==
    IF word = "nft" /\ app # NullText
    THEN [kind |-> "telegram_nft_link", slug |-> app]
    ELSE IF word \in RESERVED_HANDLE_PREFIXES \cup NoUsernames THEN NotDeeplink
    ELSE IF Triggers(query) # {}
    THEN buildDeeplink(query, DEEPLINK_QUERY_PARAMS[Min(Triggers(query))], target, app)
    ELSE IF Has(query, "attach") THEN buildDeeplink(query, "startattach", target, app)
    ELSE IF app = NullText THEN [kind |-> "telegram_url", handle |-> target]
    ELSE Deeplink("startapp", target, app, NullText, <<>>)

LEMMA ParsedPath ==
    ASSUME NEW segments, NEW query
    PROVE  parsePath(segments, query) = PathOf(Lead(segments).word, Target(Lead(segments)), AppOf(segments), query)
BY DEF parsePath, PathOf, Lead, AppOf

(* The results there are, and their fields.                                    *)
LEMMA PathForms ==
    ASSUME NEW word, NEW target, NEW app, NEW query \in Seq(Texts \X Texts),
           NEW parsed, parsed = PathOf(word, target, app, query)
    PROVE  /\ parsed.kind \in {"telegram_nft_link", "telegram_url", "telegram_deeplink"}
           /\ parsed.kind = "telegram_url" =>
                 parsed.handle = IF word \in RESERVED_HANDLE_PREFIXES \cup NoUsernames THEN NullText ELSE target
           /\ parsed.kind = "telegram_deeplink" =>
                 parsed.extras \in Seq(Texts \X Texts) /\ NoneTwice(parsed.extras)
<1>1. \A param : /\ buildDeeplink(query, param, target, app).kind = "telegram_deeplink"
                 /\ buildDeeplink(query, param, target, app).extras \in Seq(Texts \X Texts)
                 /\ NoneTwice(buildDeeplink(query, param, target, app).extras)
  BY RestNames DEF buildDeeplink, Deeplink
<1>2. /\ Deeplink("startapp", target, app, NullText, <<>>).kind = "telegram_deeplink"
      /\ Deeplink("startapp", target, app, NullText, <<>>).extras \in Seq(Texts \X Texts)
      /\ NoneTwice(Deeplink("startapp", target, app, NullText, <<>>).extras)
  BY DEF Deeplink, NoneTwice
<1>3. "nft" \in NoUsernames
  BY NoUsernamesAssumption
<1>4. CASE word = "nft" /\ app # NullText
  BY <1>4 DEF PathOf
<1>5. CASE ~(word = "nft" /\ app # NullText) /\ word \in RESERVED_HANDLE_PREFIXES \cup NoUsernames
  BY <1>5 DEF PathOf, NotDeeplink
<1> DEFINE Free == word \notin RESERVED_HANDLE_PREFIXES \cup NoUsernames
<1>6. Free => word # "nft"
  BY <1>3
<1>7. CASE Free /\ Triggers(query) # {}
  BY <1>1, <1>6, <1>7 DEF PathOf
<1>8. CASE Free /\ Triggers(query) = {} /\ Has(query, "attach")
  BY <1>1, <1>6, <1>8 DEF PathOf
<1>9. CASE Free /\ Triggers(query) = {} /\ ~Has(query, "attach") /\ app = NullText
  BY <1>6, <1>9 DEF PathOf
<1>10. CASE Free /\ Triggers(query) = {} /\ ~Has(query, "attach") /\ app # NullText
  BY <1>2, <1>6, <1>10 DEF PathOf
<1> QED
  BY <1>4, <1>5, <1>7, <1>8, <1>9, <1>10

(* What each link is parsed as.                                              *)
LEMMA ParsedLink ==
    ASSUME NEW link, NEW parsed, parsed = parseTelegramUrl(link)
    PROVE  /\ link.scheme = "tg" /\ link.host.word = "addbusinessbot" =>
                 parsed = Deeplink("addBusinessBot", ToLowerCase(get(link.query, "bot")), NullText,
                                   get(link.query, "rights"), Rest(link.query, {"bot", "rights"}))
           /\ link.scheme = "tg" /\ link.host.word = "resolve" =>
                 parsed = PathOf(get(link.query, "domain").word, Target(get(link.query, "domain")), NullText,
                                 Rest(link.query, {"domain"}))
           /\ link.scheme = "tg" /\ link.host.word \notin {"addbusinessbot", "resolve"} => parsed = NotDeeplink
           /\ link.scheme # "tg" /\ link.host.word \in TELEGRAM_HOSTS =>
                 parsed = PathOf(Lead(link.segments).word, Target(Lead(link.segments)), AppOf(link.segments),
                                 link.query)
           /\ link.scheme # "tg" /\ link.host.word \notin TELEGRAM_HOSTS => parsed = NotTelegram
<1>1. "addbusinessbot" # "resolve"
  OBVIOUS
<1>2. link.scheme = "tg" => parsed = parseTgScheme(link)
  BY Zenon DEF parseTelegramUrl
<1>3. link.scheme # "tg" /\ link.host.word \in TELEGRAM_HOSTS => parsed = parsePath(link.segments, link.query)
  BY Zenon DEF parseTelegramUrl
<1>4. link.scheme # "tg" /\ link.host.word \notin TELEGRAM_HOSTS => parsed = NotTelegram
  BY Zenon DEF parseTelegramUrl
<1>5. link.host.word = "addbusinessbot" =>
          parseTgScheme(link) = Deeplink("addBusinessBot", ToLowerCase(get(link.query, "bot")), NullText,
                                         get(link.query, "rights"), Rest(link.query, {"bot", "rights"}))
  BY <1>1, Zenon DEF parseTgScheme
<1>6. link.host.word = "resolve" =>
          parseTgScheme(link) = parsePath(<<get(link.query, "domain")>>, Rest(link.query, {"domain"}))
  BY <1>1, Zenon DEF parseTgScheme
<1>7. link.host.word \notin {"addbusinessbot", "resolve"} => parseTgScheme(link) = NotDeeplink
  BY Zenon DEF parseTgScheme
<1>8. \A text : Lead(<<text>>) = text /\ AppOf(<<text>>) = NullText
  BY DEF Lead, AppOf
<1>9. \A text, query : parsePath(<<text>>, query) = PathOf(text.word, Target(text), NullText, query)
  BY <1>8, ParsedPath
<1> QED
  BY <1>2, <1>3, <1>4, <1>5, <1>6, <1>7, <1>9, ParsedPath

(* The kinds of result, and the fields of them.                                 *)
LEMMA ParsedForms ==
    ASSUME NEW link \in Links, NEW parsed, parsed = parseTelegramUrl(link)
    PROVE  /\ \/ parsed = NotTelegram
              \/ parsed.kind \in {"telegram_nft_link", "telegram_url", "telegram_deeplink"}
           /\ parsed = NotTelegram => link.scheme # "tg" /\ link.host.word \notin TELEGRAM_HOSTS
           /\ parsed.kind = "telegram_deeplink" =>
                 parsed.extras \in Seq(Texts \X Texts) /\ NoneTwice(parsed.extras)
<1>1. link.query \in Seq(Texts \X Texts)
  BY DEF Links
<1>2. NotTelegram.kind = "not_telegram"
  BY DEF NotTelegram
<1>3. CASE link.scheme = "tg" /\ link.host.word = "addbusinessbot"
  <2>1. /\ parsed.kind = "telegram_deeplink"
        /\ parsed.extras = Rest(link.query, {"bot", "rights"})
    BY <1>3, ParsedLink DEF Deeplink
  <2> QED
    BY <1>1, <1>2, <2>1, RestNames
<1>4. CASE link.scheme = "tg" /\ link.host.word = "resolve"
  <2>1. Rest(link.query, {"domain"}) \in Seq(Texts \X Texts)
    BY <1>1, RestNames
  <2>2. parsed = PathOf(get(link.query, "domain").word, Target(get(link.query, "domain")), NullText,
                        Rest(link.query, {"domain"}))
    BY <1>4, ParsedLink
  <2>3. /\ parsed.kind \in {"telegram_nft_link", "telegram_url", "telegram_deeplink"}
        /\ parsed.kind = "telegram_deeplink" =>
              parsed.extras \in Seq(Texts \X Texts) /\ NoneTwice(parsed.extras)
    BY <2>1, <2>2, PathForms
  <2> QED
    BY <1>2, <2>3
<1>5. CASE link.scheme = "tg" /\ link.host.word \notin {"addbusinessbot", "resolve"}
  <2>1. parsed.kind = "telegram_url"
    BY <1>5, ParsedLink DEF NotDeeplink
  <2> QED
    BY <1>2, <2>1
<1>6. CASE link.scheme # "tg" /\ link.host.word \in TELEGRAM_HOSTS
  <2>1. parsed = PathOf(Lead(link.segments).word, Target(Lead(link.segments)), AppOf(link.segments), link.query)
    BY <1>6, ParsedLink
  <2>2. /\ parsed.kind \in {"telegram_nft_link", "telegram_url", "telegram_deeplink"}
        /\ parsed.kind = "telegram_deeplink" =>
              parsed.extras \in Seq(Texts \X Texts) /\ NoneTwice(parsed.extras)
    BY <1>1, <2>1, PathForms
  <2> QED
    BY <1>2, <2>2
<1>7. CASE link.scheme # "tg" /\ link.host.word \notin TELEGRAM_HOSTS
  BY <1>2, <1>7, ParsedLink
<1> QED
  BY <1>3, <1>4, <1>5, <1>6, <1>7

(* What a link is classified as.                                              *)
LEMMA ClassifiedLink ==
    ASSUME NEW link, link.scheme # "tc", NEW parsed, parsed = parseTelegramUrl(link),
           parsed = NotTelegram \/ parsed.kind \in {"telegram_nft_link", "telegram_url", "telegram_deeplink"},
           NEW in, in = classifyInput(Pasted(link))
    PROVE  /\ parsed.kind \in {"telegram_nft_link", "telegram_deeplink"} => in = parsed
           /\ parsed.kind = "telegram_url" =>
                 in = [kind |-> "telegram_url", handle |-> parsed.handle, url |-> Written(link)]
           /\ parsed = NotTelegram => in.kind \in {"manifest_url", "generic_url"}
           /\ in.kind \in {"telegram_nft_link", "telegram_deeplink", "telegram_url"} => in.kind = parsed.kind
           /\ in.kind \in {"telegram_nft_link", "telegram_deeplink", "telegram_url", "manifest_url", "generic_url"}
<1>1. Pasted(link).shape = "url" /\ Pasted(link).link = link
  BY DEF Pasted
<1>3. ~parseTonConnectLink(link)
  BY DEF parseTonConnectLink
<1>4. in = classifyUrl(link)
  <2>1. "url" # "json" /\ "url" # "handle" /\ "url" # "address" /\ "url" # "boc"
    OBVIOUS
  <2> QED
    BY <1>1, <1>3, <2>1, Zenon DEF classifyInput
<1>5. in = OfUrl(parsed, link)
  BY <1>4 DEF classifyUrl
<1>6. NotTelegram.kind = "not_telegram"
  BY DEF NotTelegram
<1>7. CASE parsed.kind \in {"telegram_nft_link", "telegram_deeplink"}
  <2>1. parsed # NotTelegram /\ parsed.kind # "telegram_url"
    BY <1>6, <1>7
  <2>2. in = parsed
    BY <1>5, <1>7, <2>1, Zenon DEF OfUrl
  <2> QED
    BY <1>7, <2>1, <2>2
<1>8. CASE parsed.kind = "telegram_url"
  <2>1. parsed # NotTelegram /\ parsed.kind \notin {"telegram_nft_link", "telegram_deeplink"}
    BY <1>6, <1>8
  <2>2. in = [kind |-> "telegram_url", handle |-> parsed.handle, url |-> Written(link)]
    BY <1>5, <1>8, <2>1, Zenon DEF OfUrl
  <2> QED
    BY <1>8, <2>1, <2>2
<1>9. CASE parsed = NotTelegram
  <2>1. parsed.kind \notin {"telegram_nft_link", "telegram_deeplink", "telegram_url"}
    BY <1>6, <1>9
  <2> DEFINE Page == link.segments # <<>> /\ Last(link.segments) = Named("tonconnect-manifest.json")
  <2>2. Page => in = [kind |-> "manifest_url", url |-> Written(link)]
    BY <1>5, <1>9, <2>1, Zenon DEF OfUrl
  <2>3. ~Page => in = [kind |-> "generic_url", url |-> Written(link)]
    BY <1>5, <1>9, <2>1, Zenon DEF OfUrl
  <2>4. in.kind \in {"manifest_url", "generic_url"}
    BY <2>2, <2>3
  <2> QED
    BY <1>9, <2>1, <2>4
<1> QED
  BY <1>7, <1>8, <1>9

(* What a reading shows of each kind.                                           *)
LEMMA ReadingForms ==
    ASSUME NEW in
    PROVE  /\ Reading(in).kind = in.kind
           /\ Reading(in).key = [kind |-> in.kind, key |-> canonicalKey(in)]
           /\ in.kind = "telegram_url" =>
                 /\ Reading(in).target = IF in.handle = NullText THEN NoTarget
                                         ELSE [field |-> "channelOrSupergroupHandle", name |-> in.handle]
                 /\ Reading(in).rights = NullText
                 /\ canonicalKey(in) = LowerCaseUrl(in.url)
           /\ in.kind = "telegram_deeplink" =>
                 /\ Reading(in).target = IF in.target = NullText THEN NoTarget
                                         ELSE [field |-> "userOrBotHandle", name |-> in.target]
                 /\ Reading(in).rights = IF in.action = "addBusinessBot" THEN in.payload
                                         ELSE IF in.action = "startbusiness" THEN get(in.extras, "rights")
                                         ELSE NullText
                 /\ canonicalKey(in) = [target |-> in.target, action |-> in.action,
                                        appShortName |-> in.appShortName, payload |-> in.payload,
                                        extras |-> canonicalizeUnknown(in.extras)]
           /\ in.kind \in {"telegram_nft_link", "manifest_url", "generic_url"} =>
                 Reading(in).target = NoTarget /\ Reading(in).rights = NullText
<1>1. /\ Reading(in).kind = in.kind
      /\ Reading(in).key = [kind |-> in.kind, key |-> canonicalKey(in)]
      /\ Reading(in).target = telegramScanInputFor(in)
      /\ Reading(in).rights = extractRightsPayload(in)
  BY DEF Reading, canonicalInputHash
<1>2. CASE in.kind = "telegram_url"
  <2>1. in.kind # "telegram_handle" /\ in.kind # "telegram_deeplink"
    BY <1>2
  <2>2. in.handle # NullText =>
            telegramScanInputFor(in) = [field |-> "channelOrSupergroupHandle", name |-> in.handle]
    BY <1>2, <2>1, Zenon DEF telegramScanInputFor
  <2>3. in.handle = NullText => telegramScanInputFor(in) = NoTarget
    BY <1>2, <2>1, Zenon DEF telegramScanInputFor
  <2>4. extractRightsPayload(in) = NullText
    BY <2>1, Zenon DEF extractRightsPayload
  <2>5. canonicalKey(in) = LowerCaseUrl(in.url)
    BY <1>2 DEF canonicalKey
  <2> QED
    BY <1>1, <1>2, <2>2, <2>3, <2>4, <2>5
<1>3. CASE in.kind = "telegram_deeplink"
  <2>1. in.kind # "telegram_handle" /\ in.kind # "telegram_url" /\ "addBusinessBot" # "startbusiness"
    BY <1>3
  <2>2. in.target # NullText =>
            telegramScanInputFor(in) = [field |-> "userOrBotHandle", name |-> in.target]
    BY <1>3, <2>1, Zenon DEF telegramScanInputFor
  <2>3. in.target = NullText => telegramScanInputFor(in) = NoTarget
    BY <1>3, <2>1, Zenon DEF telegramScanInputFor
  <2>4. /\ in.action = "addBusinessBot" => extractRightsPayload(in) = in.payload
        /\ in.action = "startbusiness" => extractRightsPayload(in) = get(in.extras, "rights")
        /\ in.action \notin {"addBusinessBot", "startbusiness"} => extractRightsPayload(in) = NullText
    BY <1>3, <2>1, Zenon DEF extractRightsPayload
  <2>5. canonicalKey(in) = [target |-> in.target, action |-> in.action, appShortName |-> in.appShortName,
                            payload |-> in.payload, extras |-> canonicalizeUnknown(in.extras)]
    BY <1>3 DEF canonicalKey
  <2> QED
    BY <1>1, <1>3, <2>2, <2>3, <2>4, <2>5
<1>4. CASE in.kind \in {"telegram_nft_link", "manifest_url", "generic_url"}
  <2>1. in.kind \notin {"telegram_handle", "telegram_url", "telegram_deeplink"}
    BY <1>4
  <2>2. telegramScanInputFor(in) = NoTarget
    BY <2>1, Zenon DEF telegramScanInputFor
  <2>3. extractRightsPayload(in) = NullText
    BY <2>1, Zenon DEF extractRightsPayload
  <2> QED
    BY <1>1, <1>4, <2>2, <2>3
<1>5. CASE in.kind \notin {"telegram_url", "telegram_deeplink", "telegram_nft_link", "manifest_url", "generic_url"}
  BY <1>1, <1>5
<1> QED
  BY <1>2, <1>3, <1>4, <1>5

LEMMA SameHandleSameScan ==
    ASSUME NEW in, in.kind = "telegram_url", NEW out, out.kind = "telegram_url", in.handle = out.handle
    PROVE  Alike(Reading(in), Reading(out))
<1>1. /\ Reading(in).target = IF in.handle = NullText THEN NoTarget
                               ELSE [field |-> "channelOrSupergroupHandle", name |-> in.handle]
      /\ Reading(in).rights = NullText
  BY ReadingForms
<1>2. /\ Reading(out).target = IF out.handle = NullText THEN NoTarget
                                ELSE [field |-> "channelOrSupergroupHandle", name |-> out.handle]
      /\ Reading(out).rights = NullText
  BY ReadingForms
<1> QED
  BY <1>1, <1>2 DEF Alike

(* Links that are parsed alike are read alike.                                   *)
LEMMA SameParse ==
    ASSUME NEW link, link.scheme # "tc", NEW other, other.scheme # "tc",
           parseTelegramUrl(other) = parseTelegramUrl(link),
           parseTelegramUrl(link).kind \in {"telegram_nft_link", "telegram_url", "telegram_deeplink"}
    PROVE  /\ Alike(Read(Pasted(link)), Read(Pasted(other)))
           /\ Read(Pasted(link)).kind = "telegram_deeplink" => Read(Pasted(other)).key = Read(Pasted(link)).key
<1> DEFINE parsed == parseTelegramUrl(link)
           in == classifyInput(Pasted(link))
           out == classifyInput(Pasted(other))
<1>1. Read(Pasted(link)) = Reading(in) /\ Read(Pasted(other)) = Reading(out)
  BY DEF Read
<1>2. parsed.kind \in {"telegram_nft_link", "telegram_url", "telegram_deeplink"}
  OBVIOUS
<1>3. /\ parsed.kind \in {"telegram_nft_link", "telegram_deeplink"} => in = parsed
      /\ parsed.kind = "telegram_url" =>
            in = [kind |-> "telegram_url", handle |-> parsed.handle, url |-> Written(link)]
  BY <1>2, ClassifiedLink
<1>4. /\ parsed.kind \in {"telegram_nft_link", "telegram_deeplink"} => out = parsed
      /\ parsed.kind = "telegram_url" =>
            out = [kind |-> "telegram_url", handle |-> parsed.handle, url |-> Written(other)]
  BY <1>2, ClassifiedLink
<1> HIDE DEF parsed, in, out
<1>5. CASE parsed.kind \in {"telegram_nft_link", "telegram_deeplink"}
  BY <1>1, <1>3, <1>4, <1>5 DEF Alike
<1>6. CASE parsed.kind = "telegram_url"
  <2>1. in.kind = "telegram_url" /\ out.kind = "telegram_url" /\ in.handle = out.handle
    BY <1>3, <1>4, <1>6
  <2>2. Alike(Reading(in), Reading(out))
    BY <2>1, SameHandleSameScan
  <2>3. Reading(in).kind = "telegram_url"
    BY <2>1, ReadingForms
  <2> QED
    BY <1>1, <2>2, <2>3
<1> QED
  BY <1>2, <1>5, <1>6

(* Every writing of a link is parsed like it.                                    *)
LEMMA SpellingIsParsedAlike ==
    ASSUME NEW link \in Links, NEW other \in Spellings(link), parseTelegramUrl(link) # NotTelegram
    PROVE  other.scheme # "tc" /\ parseTelegramUrl(other) = parseTelegramUrl(link)
<1>1. /\ link.query \in Seq(Texts \X Texts) /\ link.segments \in Seq(Texts) /\ link.host \in Texts
      /\ link.scheme \in {"https", "http", "tg"}
      /\ link = [scheme |-> link.scheme, host |-> link.host, segments |-> link.segments, query |-> link.query]
  BY DEF Links
<1>2. \A text \in Texts : Flip(text).word = text.word /\ ToLowerCase(Flip(text)) = ToLowerCase(text)
  BY DEF Flip, Texts, ToLowerCase
<1>3. CASE link.scheme = "tg"
  <2>1. CASE other = [link EXCEPT !.host = Flip(@)]
    <3>1. other.scheme = "tg" /\ other.host.word = link.host.word /\ other.query = link.query
      BY <1>1, <1>2, <1>3, <2>1
    <3> QED
      BY <1>3, <3>1, ParsedLink
  <2>2. ASSUME NEW i \in DOMAIN link.query, link.query[i][1] = NameParameter(link.host.word),
               other = [link EXCEPT !.query[i][2] = Flip(@)]
        PROVE  other.scheme = "tg" /\ parseTelegramUrl(other) = parseTelegramUrl(link)
    <3>1. /\ other.scheme = "tg" /\ other.host = link.host
          /\ other.query = [link.query EXCEPT ![i][2] = Flip(@)]
      BY <1>1, <1>3, <2>2
    <3> DEFINE query == link.query
               changed == other.query
    <3>5. FlippedIn(query, i, changed)
      <4>1. changed = [query EXCEPT ![i][2] = Flip(@)] /\ query \in Seq(Texts \X Texts) /\ i \in DOMAIN query
        BY <1>1, <2>2, <3>1
      <4> HIDE DEF query, changed
      <4>5. query[i] \in Texts \X Texts /\ query[i][2] \in Texts
        BY <4>1
      <4>2. Flip(query[i][2]) \in Texts
        BY <4>5 DEF Flip, Texts
      <4>3. [query[i] EXCEPT ![2] = Flip(@)] = <<query[i][1], Flip(query[i][2])>>
        BY <4>5
      <4>4. changed = [query EXCEPT ![i] = <<query[i][1], Flip(query[i][2])>>]
        BY <4>1, <4>3
      <4> QED
        BY <4>1, <4>2, <4>4, <4>5 DEF FlippedIn
    <3>6. query[i][1] = NameParameter(link.host.word)
      BY <2>2
    <3> HIDE DEF query, changed
    <3>2. CASE link.host.word = "resolve"
      <4>1. PICK name : name = "domain"
        OBVIOUS
      <4>2. query[i][1] = Named(name)
        BY <3>2, <3>6, <4>1 DEF NameParameter
      <4>3. PICK consumed : consumed = {name}
        OBVIOUS
      <4>5. name \in consumed
        BY <4>3
      <4>6. Rest(changed, consumed) = Rest(query, consumed)
        BY <3>5, <4>2, <4>5, FlippedValue
      <4>7. get(changed, name).word = get(query, name).word
        BY <3>5, <4>2, FlippedValue
      <4>8. ToLowerCase(get(changed, name)) = ToLowerCase(get(query, name))
        BY <3>5, <4>2, FlippedValue
      <4>4. /\ ToLowerCase(get(changed, name)) = ToLowerCase(get(query, name))
            /\ get(changed, name).word = get(query, name).word
            /\ Rest(changed, {name}) = Rest(query, {name})
        BY <4>3, <4>6, <4>7, <4>8
      <4> QED
        BY <1>3, <3>1, <3>2, <4>1, <4>4, ParsedLink DEF Target, query, changed
    <3>3. CASE link.host.word = "addbusinessbot"
      <4>1. PICK name, key : name = "bot" /\ key = "rights"
        OBVIOUS
      <4>2. query[i][1] = Named(name) /\ Named(key) # Named(name)
        BY <3>3, <3>6, <4>1 DEF NameParameter, Named
      <4>3. name \in {name, key}
        OBVIOUS
      <4>4. /\ ToLowerCase(get(changed, name)) = ToLowerCase(get(query, name))
            /\ get(changed, key) = get(query, key)
            /\ Rest(changed, {name, key}) = Rest(query, {name, key})
        BY <3>5, <4>2, <4>3, FlippedValue
      <4> QED
        BY <1>3, <3>1, <3>3, <4>1, <4>4, ParsedLink DEF query, changed
    <3>4. CASE link.host.word \notin {"addbusinessbot", "resolve"}
      BY <1>3, <3>1, <3>4, ParsedLink
    <3> QED
      BY <3>1, <3>2, <3>3, <3>4
  <2> QED
    BY <1>1, <1>3, <2>1, <2>2 DEF Spellings
<1>4. CASE link.scheme # "tg"
  <2>1. /\ link.host.word \in TELEGRAM_HOSTS
        /\ parseTelegramUrl(link) = PathOf(Lead(link.segments).word, Target(Lead(link.segments)),
                                           AppOf(link.segments), link.query)
    BY <1>4, ParsedLink
  <2>2. ASSUME NEW host \in TELEGRAM_HOSTS, other = [link EXCEPT !.host = Named(host)]
        PROVE  other.scheme # "tc" /\ parseTelegramUrl(other) = parseTelegramUrl(link)
    <3>1. /\ other.scheme = link.scheme /\ other.host.word = host
          /\ other.segments = link.segments /\ other.query = link.query
      BY <1>1, <2>2 DEF Named
    <3> QED
      BY <1>1, <1>4, <2>1, <3>1, ParsedLink
  <2>3. ASSUME NEW i \in DOMAIN link.segments, other = [link EXCEPT !.segments[1] = Flip(@)]
        PROVE  other.scheme # "tc" /\ parseTelegramUrl(other) = parseTelegramUrl(link)
    <3>1. /\ other.scheme = link.scheme /\ other.host = link.host /\ other.query = link.query
          /\ other.segments = [link.segments EXCEPT ![1] = Flip(@)]
      BY <1>1, <2>3
    <3>2. 1 \in DOMAIN link.segments /\ link.segments # <<>> /\ link.segments[1] \in Texts
      BY <1>1
    <3>3. /\ other.segments[1] = Flip(link.segments[1])
          /\ Len(other.segments) = Len(link.segments) /\ other.segments # <<>>
          /\ Len(link.segments) > 1 => other.segments[2] = link.segments[2]
      BY <1>1, <3>1, <3>2
    <3>4. /\ Lead(other.segments).word = Lead(link.segments).word
          /\ Target(Lead(other.segments)) = Target(Lead(link.segments))
          /\ AppOf(other.segments) = AppOf(link.segments)
      BY <1>2, <3>2, <3>3 DEF Lead, AppOf, Target
    <3> QED
      BY <1>1, <1>4, <2>1, <3>1, <3>4, ParsedLink
  <2>4. ASSUME Len(link.segments) = 1, NoneTwice(AsResolve(link).query), other = AsResolve(link)
        PROVE  other.scheme # "tc" /\ parseTelegramUrl(other) = parseTelegramUrl(link)
    <3>8. PICK name : name = "domain"
      OBVIOUS
    <3> DEFINE T == Texts \cup {Named(name)}
               query == link.query
               text == link.segments[1]
    <3>1. link.segments # <<>> /\ link.segments[1] \in Texts
      BY <1>1, <2>4
    <3>2. Lead(link.segments) = link.segments[1] /\ AppOf(link.segments) = NullText
      BY <2>4, <3>1 DEF Lead, AppOf
    <3>3. /\ other.scheme = "tg" /\ other.host = Named("resolve")
          /\ other.query = <<<<Named("domain"), link.segments[1]>>>> \o link.query
      BY <1>1, <2>4 DEF AsResolve
    <3>4. query \in Seq(T \X T) /\ <<<<Named(name), text>>>> \o query \in Seq(T \X T)
      <4>1. query \in Seq(T \X T) /\ <<Named(name), text>> \in T \X T
        BY <1>1, <3>1
      <4> HIDE DEF T, query, text
      <4> QED
        BY <4>1
    <3>5. other.host.word = "resolve"
      BY <3>3 DEF Named
    <3>6. other.query = <<<<Named(name), text>>>> \o query /\ NoneTwice(other.query)
      BY <2>4, <3>3, <3>8
    <3> HIDE DEF T, query, text
    <3>7. /\ get(other.query, name) = text
          /\ Rest(other.query, {name}) = query
      BY <3>4, <3>6, ResolvedQuery
    <3> QED
      BY <2>1, <3>2, <3>3, <3>5, <3>7, <3>8, ParsedLink DEF query, text
  <2> QED
    BY <1>4, <2>2, <2>3, <2>4 DEF Spellings
<1> QED
  BY <1>3, <1>4

(* The key of a plain link tells its words.                                       *)
LEMMA KeyTellsWords ==
    ASSUME NEW link \in Links, NEW other \in Links,
           LowerCaseUrl(Written(other)) = LowerCaseUrl(Written(link))
    PROVE  /\ other.scheme = link.scheme /\ other.host.word = link.host.word
           /\ Len(other.segments) = Len(link.segments)
           /\ \A i \in DOMAIN link.segments : other.segments[i].word = link.segments[i].word
           /\ Len(other.query) = Len(link.query)
           /\ \A i \in DOMAIN link.query : /\ other.query[i][1].word = link.query[i][1].word
                                           /\ other.query[i][2].word = link.query[i][2].word
<1> DEFINE Segments(l) == [i \in DOMAIN l.segments |-> l.segments[i].word]
           Params(l) == [i \in DOMAIN l.query |-> <<ToLowerCase(l.query[i][1]), ToLowerCase(l.query[i][2])>>]
<1>1. \A l : /\ LowerCaseUrl(Written(l)).host = l.scheme
             /\ LowerCaseUrl(Written(l)).path.word = <<l.host.word, Segments(l)>>
             /\ LowerCaseUrl(Written(l)).query = Params(l)
  <2> TAKE l
  <2> DEFINE words == <<l.host.word, Segments(l)>>
             uppers == <<l.host.upper, [i \in DOMAIN l.segments |-> l.segments[i].upper]>>
  <2>1. Written(l) = [host |-> l.scheme, path |-> [word |-> words, upper |-> uppers], query |-> l.query]
    BY Zenon DEF Written
  <2> HIDE DEF words, uppers
  <2>2. /\ LowerCaseUrl(Written(l)).host = l.scheme
        /\ LowerCaseUrl(Written(l)).path = ToLowerCase([word |-> words, upper |-> uppers])
        /\ LowerCaseUrl(Written(l)).query = Params(l)
    BY <2>1 DEF LowerCaseUrl
  <2>3. ToLowerCase([word |-> words, upper |-> uppers]).word = words
    BY DEF ToLowerCase
  <2> HIDE DEF Params
  <2> QED
    BY <2>2, <2>3 DEF words
<1>2. /\ other.scheme = link.scheme
      /\ <<other.host.word, Segments(other)>> = <<link.host.word, Segments(link)>>
      /\ Params(other) = Params(link)
  <2> HIDE DEF Segments, Params
  <2> QED
    BY <1>1
<1>3. other.host.word = link.host.word /\ Segments(other) = Segments(link) /\ Params(other) = Params(link)
  <2> HIDE DEF Segments, Params
  <2> QED
    BY <1>2
<1>4. /\ link.segments \in Seq(Texts) /\ other.segments \in Seq(Texts)
      /\ link.query \in Seq(Texts \X Texts) /\ other.query \in Seq(Texts \X Texts)
  BY DEF Links
<1>5. DOMAIN other.segments = DOMAIN link.segments /\ DOMAIN other.query = DOMAIN link.query
  BY <1>3
<1>6. \A i \in DOMAIN link.segments : other.segments[i].word = link.segments[i].word
  <2> TAKE i \in DOMAIN link.segments
  <2>1. Segments(link)[i] = link.segments[i].word /\ Segments(other)[i] = other.segments[i].word
    BY <1>5
  <2> HIDE DEF Segments
  <2> QED
    BY <1>3, <2>1
<1>7. \A i \in DOMAIN link.query : /\ other.query[i][1].word = link.query[i][1].word
                                   /\ other.query[i][2].word = link.query[i][2].word
  <2> TAKE i \in DOMAIN link.query
  <2>1. /\ Params(link)[i] = <<ToLowerCase(link.query[i][1]), ToLowerCase(link.query[i][2])>>
        /\ Params(other)[i] = <<ToLowerCase(other.query[i][1]), ToLowerCase(other.query[i][2])>>
    BY <1>5
  <2> HIDE DEF Params
  <2>2. /\ ToLowerCase(other.query[i][1]) = ToLowerCase(link.query[i][1])
        /\ ToLowerCase(other.query[i][2]) = ToLowerCase(link.query[i][2])
    BY <1>3, <2>1
  <2>3. /\ link.query[i] \in Texts \X Texts /\ other.query[i] \in Texts \X Texts
    BY <1>4, <1>5
  <2>4. \A text \in Texts : ToLowerCase(text).word = text.word
    BY DEF ToLowerCase, Texts
  <2> QED
    BY <2>2, <2>3, <2>4
<1>8. Len(other.segments) = Len(link.segments) /\ Len(other.query) = Len(link.query)
  BY <1>4, <1>5
<1> QED
  BY <1>2, <1>3, <1>6, <1>7, <1>8

(* The lowered form of a text is told by its word.                                 *)
LEMMA LoweredByWord ==
    ASSUME NEW text \in Texts \cup {NullText}, NEW other \in Texts \cup {NullText}, other.word = text.word
    PROVE  Target(other) = Target(text)
<1>1. /\ text = [word |-> text.word, upper |-> text.upper]
      /\ other = [word |-> other.word, upper |-> other.upper]
  BY DEF Texts, NullText
<1> QED
  BY <1>1 DEF Target, ToLowerCase

(* So does it tell the name, where "domain" is written in lower case.                *)
SameWords(query, other) ==
    /\ query \in Seq(Texts \X Texts) /\ other \in Seq(Texts \X Texts)
    /\ Len(other) = Len(query)
    /\ \A i \in DOMAIN query : /\ other[i][1].word = query[i][1].word
                               /\ other[i][2].word = query[i][2].word

LowerOnly(query, name) == \A i \in DOMAIN query : query[i][1].word = name => ~query[i][1].upper

LEMMA KeyTellsDomain ==
    ASSUME NEW query, NEW other, SameWords(query, other),
           NEW name, LowerOnly(query, name), LowerOnly(other, name)
    PROVE  get(other, name).word = get(query, name).word /\ Target(get(other, name)) = Target(get(query, name))
<1>1. \A i \in DOMAIN query : /\ query[i][1] \in Texts /\ query[i][2] \in Texts
                              /\ other[i][1] \in Texts /\ other[i][2] \in Texts
  <2> TAKE i \in DOMAIN query
  <2>1. query[i] \in Texts \X Texts /\ other[i] \in Texts \X Texts
    BY DEF SameWords
  <2> QED
    BY <2>1
<1>2. ASSUME NEW text \in Texts
      PROVE  text = Named(name) <=> text.word = name /\ ~text.upper
  <2>1. text = [word |-> text.word, upper |-> text.upper] /\ text.upper \in BOOLEAN
    BY DEF Texts
  <2> QED
    BY <2>1 DEF Named
<1>3. DOMAIN other = DOMAIN query
  BY DEF SameWords
<1>4. \A i \in DOMAIN query : other[i][1] = Named(name) <=> query[i][1] = Named(name)
  BY <1>1, <1>2, <1>3 DEF SameWords, LowerOnly
<1>5. At(other, name) = At(query, name)
  BY <1>3, <1>4 DEF At
<1>6. /\ get(query, name) \in Texts \cup {NullText} /\ get(other, name) \in Texts \cup {NullText}
      /\ get(other, name).word = get(query, name).word
  <2>1. CASE Has(query, name)
    <3>1. PICK i \in At(query, name) : Min(At(query, name)) = i /\ get(query, name) = query[i][2]
      <4>1. Len(query) \in Nat /\ DOMAIN query = 1 .. Len(query)
        BY DEF SameWords
      <4> QED
        BY <2>1, <4>1, GotValue
    <3>2. get(other, name) = other[i][2]
      BY <1>5, <2>1, <3>1 DEF get, Has
    <3>3. i \in DOMAIN query
      BY DEF At
    <3> QED
      BY <1>1, <3>1, <3>2, <3>3 DEF SameWords
  <2>2. CASE ~Has(query, name)
    BY <1>5, <2>2 DEF get, Has
  <2> QED
    BY <2>1, <2>2
<1> QED
  BY <1>6, LoweredByWord

(* Plain Telegram links with one key name one account, or none.                    *)
LEMMA SameHandle ==
    ASSUME NEW link \in Links, NEW other \in Links, DomainIsLower(link), DomainIsLower(other),
           LowerCaseUrl(Written(other)) = LowerCaseUrl(Written(link)),
           NEW parsed, parsed = parseTelegramUrl(link), parsed.kind = "telegram_url",
           NEW result, result = parseTelegramUrl(other), result.kind = "telegram_url"
    PROVE  result.handle = parsed.handle
<1> DEFINE HandleOf(word, target) ==
               IF word \in RESERVED_HANDLE_PREFIXES \cup NoUsernames THEN NullText ELSE target
<1>1. /\ link.query \in Seq(Texts \X Texts) /\ other.query \in Seq(Texts \X Texts)
      /\ link.segments \in Seq(Texts) /\ other.segments \in Seq(Texts)
  BY DEF Links
<1>2. /\ other.scheme = link.scheme /\ other.host.word = link.host.word
      /\ Len(other.segments) = Len(link.segments)
      /\ \A i \in DOMAIN link.segments : other.segments[i].word = link.segments[i].word
      /\ Len(other.query) = Len(link.query)
      /\ \A i \in DOMAIN link.query : /\ other.query[i][1].word = link.query[i][1].word
                                      /\ other.query[i][2].word = link.query[i][2].word
  BY KeyTellsWords
<1>3. CASE link.scheme = "tg" /\ link.host.word = "addbusinessbot"
  <2>1. parsed.kind = "telegram_deeplink"
    BY <1>3, ParsedLink DEF Deeplink
  <2> QED
    BY <2>1
<1>4. CASE link.scheme = "tg" /\ link.host.word = "resolve"
  <2>1. PICK name : name = "domain"
    OBVIOUS
  <2>2. LowerOnly(link.query, name) /\ LowerOnly(other.query, name) /\ SameWords(link.query, other.query)
    BY <1>1, <1>2, <1>4, <2>1 DEF DomainIsLower, LowerOnly, SameWords
  <2>3. /\ get(other.query, name).word = get(link.query, name).word
        /\ Target(get(other.query, name)) = Target(get(link.query, name))
    BY <2>2, KeyTellsDomain
  <2>4. parsed.handle = HandleOf(get(link.query, name).word, Target(get(link.query, name)))
    <3>1. parsed = PathOf(get(link.query, name).word, Target(get(link.query, name)), NullText,
                          Rest(link.query, {"domain"}))
      BY <1>4, <2>1, ParsedLink
    <3>2. Rest(link.query, {"domain"}) \in Seq(Texts \X Texts)
      BY <1>1, RestNames
    <3> QED
      BY <3>1, <3>2, PathForms
  <2>5. result.handle = HandleOf(get(other.query, name).word, Target(get(other.query, name)))
    <3>1. result = PathOf(get(other.query, name).word, Target(get(other.query, name)), NullText,
                          Rest(other.query, {"domain"}))
      BY <1>2, <1>4, <2>1, ParsedLink
    <3>2. Rest(other.query, {"domain"}) \in Seq(Texts \X Texts)
      BY <1>1, RestNames
    <3> QED
      BY <3>1, <3>2, PathForms
  <2> QED
    BY <2>3, <2>4, <2>5
<1>5. CASE link.scheme = "tg" /\ link.host.word \notin {"addbusinessbot", "resolve"}
  <2>1. parsed = NotDeeplink /\ result = NotDeeplink
    BY <1>2, <1>5, ParsedLink
  <2> QED
    BY <2>1
<1>6. CASE link.scheme # "tg" /\ link.host.word \in TELEGRAM_HOSTS
  <2>1. Lead(other.segments).word = Lead(link.segments).word
        /\ Target(Lead(other.segments)) = Target(Lead(link.segments))
    <3>1. CASE link.segments = <<>>
      <4>1. other.segments = <<>>
        BY <1>1, <1>2, <3>1
      <4> QED
        BY <3>1, <4>1 DEF Lead
    <3>2. CASE link.segments # <<>>
      <4>1. 1 \in DOMAIN link.segments /\ 1 \in DOMAIN other.segments /\ other.segments # <<>>
        BY <1>1, <1>2, <3>2
      <4>2. /\ Lead(link.segments) = link.segments[1] /\ Lead(other.segments) = other.segments[1]
            /\ link.segments[1] \in Texts /\ other.segments[1] \in Texts
            /\ other.segments[1].word = link.segments[1].word
        BY <1>1, <1>2, <3>2, <4>1 DEF Lead
      <4> QED
        BY <4>2, LoweredByWord
    <3> QED
      BY <3>1, <3>2
  <2>2. parsed.handle = HandleOf(Lead(link.segments).word, Target(Lead(link.segments)))
    <3>1. parsed = PathOf(Lead(link.segments).word, Target(Lead(link.segments)), AppOf(link.segments), link.query)
      BY <1>6, ParsedLink
    <3> QED
      BY <1>1, <3>1, PathForms
  <2>3. result.handle = HandleOf(Lead(other.segments).word, Target(Lead(other.segments)))
    <3>1. result = PathOf(Lead(other.segments).word, Target(Lead(other.segments)), AppOf(other.segments), other.query)
      BY <1>2, <1>6, ParsedLink
    <3> QED
      BY <1>1, <3>1, PathForms
  <2> QED
    BY <2>1, <2>2, <2>3
<1>7. CASE link.scheme # "tg" /\ link.host.word \notin TELEGRAM_HOSTS
  <2>1. parsed.kind = "not_telegram"
    BY <1>7, ParsedLink DEF NotTelegram
  <2> QED
    BY <2>1
<1> QED
  BY <1>3, <1>4, <1>5, <1>6, <1>7

(* Links with one key start one scan.                                            *)
LEMMA SameKeySameScan ==
    ASSUME NEW link \in Links, NEW other \in Links, DomainIsLower(link), DomainIsLower(other),
           Read(Pasted(other)).key = Read(Pasted(link)).key
    PROVE  Alike(Read(Pasted(link)), Read(Pasted(other)))
<1> DEFINE parsed == parseTelegramUrl(link)
           result == parseTelegramUrl(other)
           in == classifyInput(Pasted(link))
           out == classifyInput(Pasted(other))
<1>1. Read(Pasted(link)) = Reading(in) /\ Read(Pasted(other)) = Reading(out)
  BY DEF Read
<1>2. link.scheme # "tc" /\ other.scheme # "tc"
  BY DEF Links
<1>3. /\ parsed = NotTelegram \/ parsed.kind \in {"telegram_nft_link", "telegram_url", "telegram_deeplink"}
      /\ result = NotTelegram \/ result.kind \in {"telegram_nft_link", "telegram_url", "telegram_deeplink"}
      /\ parsed.kind = "telegram_deeplink" => parsed.extras \in Seq(Texts \X Texts) /\ NoneTwice(parsed.extras)
      /\ result.kind = "telegram_deeplink" => result.extras \in Seq(Texts \X Texts) /\ NoneTwice(result.extras)
  BY ParsedForms
<1>4. /\ parsed.kind \in {"telegram_nft_link", "telegram_deeplink"} => in = parsed
      /\ parsed.kind = "telegram_url" =>
            in = [kind |-> "telegram_url", handle |-> parsed.handle, url |-> Written(link)]
      /\ in.kind \in {"telegram_nft_link", "telegram_deeplink", "telegram_url"} => in.kind = parsed.kind
      /\ in.kind \in {"telegram_nft_link", "telegram_deeplink", "telegram_url", "manifest_url", "generic_url"}
  BY <1>2, <1>3, ClassifiedLink
<1>5. /\ result.kind \in {"telegram_nft_link", "telegram_deeplink"} => out = result
      /\ result.kind = "telegram_url" =>
            out = [kind |-> "telegram_url", handle |-> result.handle, url |-> Written(other)]
      /\ out.kind \in {"telegram_nft_link", "telegram_deeplink", "telegram_url"} => out.kind = result.kind
  BY <1>2, <1>3, ClassifiedLink
<1>6. Reading(in).key = [kind |-> in.kind, key |-> canonicalKey(in)]
      /\ Reading(out).key = [kind |-> out.kind, key |-> canonicalKey(out)]
  BY ReadingForms
<1> HIDE DEF parsed, result, in, out
<1>11. parsed = parseTelegramUrl(link) /\ result = parseTelegramUrl(other)
  BY DEF parsed, result
<1>7. in.kind = out.kind /\ canonicalKey(in) = canonicalKey(out)
  BY <1>1, <1>6
<1>8. CASE in.kind \in {"telegram_nft_link", "manifest_url", "generic_url"}
  <2>1. Reading(in).target = NoTarget /\ Reading(in).rights = NullText
    BY <1>8, ReadingForms
  <2>2. Reading(out).target = NoTarget /\ Reading(out).rights = NullText
    BY <1>7, <1>8, ReadingForms
  <2> QED
    BY <1>1, <2>1, <2>2 DEF Alike
<1>9. CASE in.kind = "telegram_deeplink"
  <2>1. in = parsed /\ out = result /\ parsed.kind = "telegram_deeplink" /\ result.kind = "telegram_deeplink"
    BY <1>4, <1>5, <1>7, <1>9
  <2>2. /\ canonicalKey(in) = [target |-> in.target, action |-> in.action, appShortName |-> in.appShortName,
                               payload |-> in.payload, extras |-> canonicalizeUnknown(in.extras)]
        /\ canonicalKey(out) = [target |-> out.target, action |-> out.action, appShortName |-> out.appShortName,
                                payload |-> out.payload, extras |-> canonicalizeUnknown(out.extras)]
    BY <1>7, <1>9, ReadingForms
  <2>3. /\ in.target = out.target /\ in.action = out.action /\ in.payload = out.payload
        /\ canonicalizeUnknown(in.extras) = canonicalizeUnknown(out.extras)
    <3>1. /\ canonicalKey(in).target = in.target /\ canonicalKey(in).action = in.action
          /\ canonicalKey(in).payload = in.payload
          /\ canonicalKey(in).extras = canonicalizeUnknown(in.extras)
      BY <2>2
    <3>2. /\ canonicalKey(out).target = out.target /\ canonicalKey(out).action = out.action
          /\ canonicalKey(out).payload = out.payload
          /\ canonicalKey(out).extras = canonicalizeUnknown(out.extras)
      BY <2>2
    <3> QED
      BY <1>7, <3>1, <3>2
  <2>4. /\ in.extras \in Seq(Texts \X Texts) /\ NoneTwice(in.extras)
        /\ out.extras \in Seq(Texts \X Texts) /\ NoneTwice(out.extras)
        /\ ToSet(in.extras) = ToSet(out.extras)
    BY <1>3, <2>1, <2>3 DEF canonicalizeUnknown
  <2>5. \A name : get(in.extras, name) = get(out.extras, name)
    BY <2>4, SameProperties
  <2>6. /\ Reading(in).target = IF in.target = NullText THEN NoTarget
                                 ELSE [field |-> "userOrBotHandle", name |-> in.target]
        /\ Reading(in).rights = IF in.action = "addBusinessBot" THEN in.payload
                                ELSE IF in.action = "startbusiness" THEN get(in.extras, "rights")
                                ELSE NullText
    BY <1>9, ReadingForms
  <2>7. /\ Reading(out).target = IF out.target = NullText THEN NoTarget
                                  ELSE [field |-> "userOrBotHandle", name |-> out.target]
        /\ Reading(out).rights = IF out.action = "addBusinessBot" THEN out.payload
                                 ELSE IF out.action = "startbusiness" THEN get(out.extras, "rights")
                                 ELSE NullText
    BY <1>7, <1>9, ReadingForms
  <2>8. Reading(in).target = Reading(out).target /\ Reading(in).rights = Reading(out).rights
    BY <2>3, <2>5, <2>6, <2>7
  <2> QED
    BY <1>1, <2>8 DEF Alike
<1>10. CASE in.kind = "telegram_url"
  <2>1. parsed.kind = "telegram_url" /\ result.kind = "telegram_url"
    BY <1>4, <1>5, <1>7, <1>10
  <2>2. /\ in = [kind |-> "telegram_url", handle |-> parsed.handle, url |-> Written(link)]
        /\ out = [kind |-> "telegram_url", handle |-> result.handle, url |-> Written(other)]
    BY <1>4, <1>5, <2>1
  <2>3. canonicalKey(in) = LowerCaseUrl(in.url) /\ canonicalKey(out) = LowerCaseUrl(out.url)
    BY <1>7, <1>10, ReadingForms
  <2>4. LowerCaseUrl(Written(other)) = LowerCaseUrl(Written(link))
    BY <1>7, <2>2, <2>3
  <2>5. result.handle = parsed.handle
    BY <1>11, <2>1, <2>4, SameHandle
  <2>6. in.handle = out.handle
    BY <2>2, <2>5
  <2>7. Alike(Reading(in), Reading(out))
    BY <1>7, <1>10, <2>6, SameHandleSameScan
  <2> QED
    BY <1>1, <2>7
<1> QED
  BY <1>4, <1>8, <1>9, <1>10

(* A link with one text or parameter changed is a link.                             *)
LEMMA NeighboursAreLinks == ASSUME NEW link \in Links PROVE Neighbours(link) \subseteq Links
<1>1. /\ link.segments \in Seq(Texts) /\ link.query \in Seq(Texts \X Texts)
      /\ link.scheme \in {"https", "http", "tg"} /\ link.host \in Texts
      /\ link = [scheme |-> link.scheme, host |-> link.host, segments |-> link.segments, query |-> link.query]
  BY DEF Links
<1>2. \A text \in Texts : Flip(text) \in Texts
  BY DEF Flip, Texts
<1>3. ASSUME NEW segments \in Seq(Texts)
      PROVE  [link EXCEPT !.segments = segments] \in Links
  BY <1>1, <1>3 DEF Links
<1>4. ASSUME NEW query \in Seq(Texts \X Texts)
      PROVE  [link EXCEPT !.query = query] \in Links
  BY <1>1, <1>4 DEF Links
<1>5. ASSUME NEW i \in DOMAIN link.segments
      PROVE  [link EXCEPT !.segments[i] = Flip(@)] \in Links
  <2>1. link.segments[i] \in Texts /\ Flip(link.segments[i]) \in Texts
    BY <1>1, <1>2
  <2>2. [link.segments EXCEPT ![i] = Flip(@)] \in Seq(Texts)
    BY <1>1, <2>1
  <2>3. [link EXCEPT !.segments[i] = Flip(@)] = [link EXCEPT !.segments = [link.segments EXCEPT ![i] = Flip(@)]]
    BY <1>1
  <2> QED
    BY <1>3, <2>2, <2>3
<1>6. ASSUME NEW i \in DOMAIN link.query
      PROVE  /\ [link EXCEPT !.query[i][1] = Flip(@)] \in Links
             /\ [link EXCEPT !.query[i][2] = Flip(@)] \in Links
             /\ [link EXCEPT !.query = RemoveAt(@, i)] \in Links
             /\ [link EXCEPT !.query = Append(@, @[i])] \in Links
             /\ [link EXCEPT !.query = Reverse(@)] \in Links
  <2> DEFINE query == link.query
  <2>1. query \in Seq(Texts \X Texts) /\ i \in DOMAIN query
    BY <1>1, <1>6
  <2> HIDE DEF query
  <2>2. query[i] \in Texts \X Texts /\ query[i][1] \in Texts /\ query[i][2] \in Texts
    BY <2>1
  <2>3. Flip(query[i][1]) \in Texts /\ Flip(query[i][2]) \in Texts
    BY <1>2, <2>2
  <2>4. /\ [query[i] EXCEPT ![1] = Flip(@)] = <<Flip(query[i][1]), query[i][2]>>
        /\ [query[i] EXCEPT ![2] = Flip(@)] = <<query[i][1], Flip(query[i][2])>>
    BY <2>2
  <2>5. /\ [query EXCEPT ![i] = <<Flip(query[i][1]), query[i][2]>>] \in Seq(Texts \X Texts)
        /\ [query EXCEPT ![i] = <<query[i][1], Flip(query[i][2])>>] \in Seq(Texts \X Texts)
    BY <2>1, <2>2, <2>3
  <2>6. /\ [query EXCEPT ![i][1] = Flip(@)] \in Seq(Texts \X Texts)
        /\ [query EXCEPT ![i][2] = Flip(@)] \in Seq(Texts \X Texts)
    BY <2>4, <2>5
  <2>7. RemoveAt(query, i) \in Seq(Texts \X Texts)
    <3>1. /\ SubSeq(query, 1, i - 1) \in Seq(Texts \X Texts)
          /\ SubSeq(query, i + 1, Len(query)) \in Seq(Texts \X Texts)
      BY <2>1
    <3> QED
      BY <3>1 DEF RemoveAt
  <2>8. Append(query, query[i]) \in Seq(Texts \X Texts)
    BY <2>1, <2>2
  <2>9. Reverse(query) \in Seq(Texts \X Texts)
    <3>1. \A k \in 1 .. Len(query) : (Len(query) - k) + 1 \in DOMAIN query
      BY <2>1
    <3>2. \A k \in 1 .. Len(query) : query[(Len(query) - k) + 1] \in Texts \X Texts
      BY <2>1, <3>1
    <3>3. Len(query) \in Nat
      BY <2>1
    <3> QED
      BY <3>2, <3>3 DEF Reverse
  <2> QED
    BY <1>1, <1>4, <2>6, <2>7, <2>8, <2>9 DEF query
<1> QED
  BY <1>5, <1>6 DEF Neighbours

(* A plain link and the bare name of its account are read alike.                    *)
LEMMA NameIsReadAlike ==
    ASSUME NEW link \in Links, link.scheme = "https", Read(Pasted(link)).kind = "telegram_url",
           Read(Pasted(link)).target # NoTarget
    PROVE  Alike(Read(Pasted(link)), Read([shape |-> "handle", handle |-> link.segments[1]]))
<1> DEFINE parsed == parseTelegramUrl(link)
           in == classifyInput(Pasted(link))
           first == Lead(link.segments)
           paste == [shape |-> "handle", handle |-> link.segments[1]]
           named == classifyInput(paste)
<1>1. Read(Pasted(link)) = Reading(in) /\ Read(paste) = Reading(named)
  BY DEF Read
<1>2. /\ parsed = NotTelegram \/ parsed.kind \in {"telegram_nft_link", "telegram_url", "telegram_deeplink"}
      /\ link.scheme # "tc"
  BY ParsedForms DEF Links
<1>3. in.kind = "telegram_url"
  BY <1>1, ReadingForms
<1>4. /\ in.kind = "telegram_url" => parsed.kind = "telegram_url"
      /\ parsed.kind = "telegram_url" =>
            in = [kind |-> "telegram_url", handle |-> parsed.handle, url |-> Written(link)]
  BY <1>2, ClassifiedLink
<1>5. in.handle = parsed.handle /\ parsed.kind = "telegram_url"
  BY <1>3, <1>4
<1>6. link.host.word \in TELEGRAM_HOSTS
  BY <1>5, ParsedLink DEF NotTelegram
<1>7. parsed = PathOf(first.word, Target(first), AppOf(link.segments), link.query)
  BY <1>6, ParsedLink
<1>8. link.query \in Seq(Texts \X Texts) /\ link.segments \in Seq(Texts)
  BY DEF Links
<1>9. parsed.handle = IF first.word \in RESERVED_HANDLE_PREFIXES \cup NoUsernames THEN NullText ELSE Target(first)
  BY <1>5, <1>7, <1>8, PathForms
<1>10. parsed.handle # NullText
  BY <1>1, <1>3, <1>5, ReadingForms
<1>11. first.word \notin NoUsernames /\ parsed.handle = Target(first)
  BY <1>9, <1>10
<1>12. first = link.segments[1]
  <2>1. NullText.word \in NoUsernames
    BY NoUsernamesAssumption DEF NullText
  <2> QED
    BY <1>11, <2>1 DEF Lead
<1>13. named = [kind |-> "telegram_handle", handle |-> Target(first)]
  <2>1. paste.shape = "handle" /\ paste.handle = first
    BY <1>12
  <2>2. "handle" # "json" /\ "handle" # "url" /\ "handle" # "address" /\ "handle" # "boc"
    OBVIOUS
  <2> HIDE DEF paste, first
  <2>3. named = [kind |-> "telegram_handle", handle |-> ToLowerCase(first)]
    BY <1>11, <2>1, <2>2, Zenon DEF classifyInput
  <2> QED
    BY <2>3 DEF Target
<1>14. Reading(named).target = [field |-> "channelOrSupergroupHandle", name |-> Target(first)]
       /\ Reading(named).rights = NullText
  <2>1. named.kind = "telegram_handle" /\ named.handle = Target(first)
    BY <1>13
  <2>2. Reading(named).target = telegramScanInputFor(named) /\ Reading(named).rights = extractRightsPayload(named)
    BY DEF Reading
  <2> HIDE DEF named
  <2>3. telegramScanInputFor(named) = [field |-> "channelOrSupergroupHandle", name |-> named.handle]
    BY <2>1 DEF telegramScanInputFor
  <2>4. named.kind # "telegram_deeplink"
    BY <2>1
  <2>5. extractRightsPayload(named) = NullText
    BY <2>4, Zenon DEF extractRightsPayload
  <2> QED
    BY <2>1, <2>2, <2>3, <2>5
<1>15. Reading(in).target = [field |-> "channelOrSupergroupHandle", name |-> Target(first)]
       /\ Reading(in).rights = NullText
  <2>1. in.handle # NullText /\ in.handle = Target(first)
    BY <1>5, <1>10, <1>11
  <2> HIDE DEF in, first
  <2> QED
    BY <1>3, <2>1, ReadingForms
<1> QED
  BY <1>1, <1>14, <1>15 DEF Alike

(* A Telegram link starts the same scan however it is written, and two links with      *)
(* one key start the same scan, whatever the link (deeplink-parser.ts,              *)
(* classify-input.ts, canonical-hash.ts).                                        *)
THEOREM LinksAreAlwaysReadAlike == \A link \in Links : LinkIsReadAlike(link)
<1> SUFFICES ASSUME NEW link \in Links
             PROVE  LinkIsReadAlike(link)
  OBVIOUS
<1> DEFINE own == Read(Pasted(link))
           parsed == parseTelegramUrl(link)
<1>1. own.kind \in TelegramEntityKinds => parsed.kind \in {"telegram_url", "telegram_deeplink"}
  <2> DEFINE in == classifyInput(Pasted(link))
  <2>1. own.kind = in.kind
    BY ReadingForms DEF Read
  <2>2. /\ parsed = NotTelegram \/ parsed.kind \in {"telegram_nft_link", "telegram_url", "telegram_deeplink"}
        /\ link.scheme # "tc"
    BY ParsedForms DEF Links
  <2>3. /\ in.kind \in {"telegram_nft_link", "telegram_deeplink", "telegram_url"} => in.kind = parsed.kind
        /\ in.kind \in {"telegram_nft_link", "telegram_deeplink", "telegram_url", "manifest_url", "generic_url"}
    BY <2>2, ClassifiedLink
  <2> HIDE DEF in, own, parsed
  <2> QED
    BY <2>1, <2>3 DEF TelegramEntityKinds
<1>2. ASSUME own.kind \in TelegramEntityKinds, NEW l \in Spellings(link)
      PROVE  /\ Alike(own, Read(Pasted(l)))
             /\ own.kind = "telegram_deeplink" => Read(Pasted(l)).key = own.key
  <2>1. parsed.kind \in {"telegram_url", "telegram_deeplink"} /\ parsed # NotTelegram
    BY <1>1, <1>2 DEF NotTelegram
  <2>2. l.scheme # "tc" /\ parseTelegramUrl(l) = parseTelegramUrl(link)
    BY <2>1, SpellingIsParsedAlike
  <2>3. link.scheme # "tc"
    BY DEF Links
  <2> QED
    BY <2>1, <2>2, <2>3, SameParse
<1>3. ASSUME own.kind = "telegram_url", own.target # NoTarget, link.scheme = "https"
      PROVE  Alike(own, Read([shape |-> "handle", handle |-> link.segments[1]]))
  BY <1>3, NameIsReadAlike
<1>4. ASSUME NEW l \in Neighbours(link), DomainIsLower(l), DomainIsLower(link), Read(Pasted(l)).key = own.key
      PROVE  Alike(own, Read(Pasted(l)))
  <2>1. l \in Links
    BY NeighboursAreLinks
  <2> QED
    BY <1>4, <2>1, SameKeySameScan
<1> HIDE DEF own
<1>5. ReadAlike(link, own)
  BY <1>2, <1>3, <1>4 DEF ReadAlike
<1> QED
  BY <1>5 DEF LinkIsReadAlike, own

-----------------------------------------------------------------------------
(* Whatever is picked                                                       *)

(* What is picked is one of the inputs that may be, or a batch of them.           *)
SampleIsInput ==
    \/ sample = NoSample
    \/ \E batch \in Batches : sample = [kind |-> "batch", batch |-> batch]
    \/ \E batch \in Batches : sample \in batch

THEOREM SampleStaysInput == SequentialSpec => []SampleIsInput
<1>1. SequentialInit => SampleIsInput
  BY DEF SequentialInit, SampleIsInput
<1>2. SampleIsInput /\ [SequentialNext]_allVars => SampleIsInput'
  <2> SUFFICES ASSUME SampleIsInput, [SequentialNext]_allVars
               PROVE  SampleIsInput'
    OBVIOUS
  <2>1. CASE UNCHANGED sample
    BY <2>1 DEF SampleIsInput
  <2>2. CASE PickBatch
    BY <2>2 DEF PickBatch, SampleIsInput
  <2>3. CASE PickInput
    <3>1. sample.kind = "batch" /\ sample' \in sample.batch
      BY <2>3 DEF PickInput
    <3>2. PICK batch \in Batches : sample = [kind |-> "batch", batch |-> batch]
      <4>1. sample # NoSample
        BY <3>1 DEF NoSample
      <4>2. ASSUME NEW batch \in Batches, sample \in batch
            PROVE  FALSE
        BY <3>1, <4>2, SamplesAssumption
      <4> QED
        BY <4>1, <4>2 DEF SampleIsInput
    <3> QED
      BY <3>1, <3>2 DEF SampleIsInput
  <2>4. UNCHANGED sample \/ PickBatch \/ PickInput
    BY DEF SequentialNext, allVars
  <2> QED
    BY <2>1, <2>2, <2>3, <2>4
<1> QED
  BY <1>1, <1>2, PTL DEF SequentialSpec

(* So what is judged as a transaction, as anchors or as a link is one.             *)
LEMMA SampleIsJudgeable ==
    ASSUME SampleIsInput
    PROVE  /\ sample.kind = "transaction" => sample.tx \in Transactions /\ sample.world \in Worlds
           /\ sample.kind = "anchors" => sample.rows \in Tables
           /\ sample.kind = "link" => sample.link \in Links
<1>1. CASE sample = NoSample
  BY <1>1 DEF NoSample
<1>2. CASE \E batch \in Batches : sample = [kind |-> "batch", batch |-> batch]
  BY <1>2
<1>3. CASE \E batch \in Batches : sample \in batch
  BY <1>3, SamplesAssumption
<1> QED
  BY <1>1, <1>2, <1>3 DEF SampleIsInput

(* The static decoder and the request builder read the same messages, as far as     *)
(* DecodersAgree says, and no declared send is flagged as hidden, whatever transaction *)
(* is picked (basic-scan.ts, request-builder.ts, diff.ts).                      *)
THEOREM MessagesAreAlwaysReadAlike == SequentialSpec => []MessagesAreReadAlike
<1>1. SampleIsInput => MessagesAreReadAlike
  BY SampleIsJudgeable, DecodersAlwaysAgree, DeclaredIsNeverHidden DEF MessagesAreReadAlike
<1> QED
  BY <1>1, SampleStaysInput, PTL

(* A failing TONAPI never makes a transaction look risky (emulation-scanner.ts).     *)
THEOREM OutagesAlwaysStayQuiet == SequentialSpec => []OutagesStayQuiet
<1>1. SampleIsInput => OutagesStayQuiet
  <2> SUFFICES ASSUME SampleIsInput, sample.kind = "transaction", NEW status \in Failures
               PROVE  OutageIsQuiet(sample.tx, sample.world, status)
    BY DEF OutagesStayQuiet
  <2>1. sample.tx \in Transactions /\ sample.world \in Worlds
    BY SampleIsJudgeable
  <2>2. status \in HttpStatuses \ {200}
    BY SamplesAssumption
  <2> QED
    BY <2>1, <2>2, OutagesAreAlwaysQuiet
<1> QED
  BY <1>1, SampleStaysInput, PTL

(* A transfer that the emulation shows and the dApp did not declare is always         *)
(* flagged (diff.ts).                                                        *)
THEOREM UndeclaredTransfersAreAlwaysFlagged == SequentialSpec => []UndeclaredTransfersAreFlagged
<1>1. SampleIsInput => UndeclaredTransfersAreFlagged
  BY SampleIsJudgeable, UndeclaredAlwaysFlagged DEF UndeclaredTransfersAreFlagged
<1> QED
  BY <1>1, SampleStaysInput, PTL

(* No anchors make a later id look older (id-age-estimator.ts).                     *)
THEOREM AgesFollowIdsAlways == SequentialSpec => []AgesFollowIds
<1>1. SampleIsInput => AgesFollowIds
  <2>1. Ids \in SUBSET Nat /\ Now \in Nat
    BY SamplesAssumption
  <2> QED
    BY <2>1, SampleIsJudgeable, AgesAlwaysFollowIds DEF AgesFollowIds
<1> QED
  BY <1>1, SampleStaysInput, PTL

(* No way of writing a Telegram link starts another scan, and no two scans share a key  *)
(* (deeplink-parser.ts, classify-input.ts, canonical-hash.ts).                   *)
THEOREM LinksStayReadAlike == SequentialSpec => []LinksAreReadAlike
<1>1. SampleIsInput => LinksAreReadAlike
  BY SampleIsJudgeable, LinksAreAlwaysReadAlike DEF LinksAreReadAlike
<1> QED
  BY <1>1, SampleStaysInput, PTL

(* Under the calls of one caller the stores behave as ever, and so they agree and      *)
(* keep a timeline (entity-snapshot-store.ts).                                  *)
THEOREM StoresBehaveAlike == SequentialSpec => []SameAnswers /\ []HistoryIsATimeline
<1>1. SequentialInit => Init
  BY DEF SequentialInit
<1>2. [SequentialNext]_allVars => [Next]_vars
  BY DEF SequentialNext, PickBatch, PickInput, allVars
<1>3. SequentialSpec => Spec
  BY <1>1, <1>2, PTL DEF SequentialSpec, Spec
<1> QED
  BY <1>3, StoresAgree, HistoriesAreTimelines, PTL
=============================================================================
