-------------------------- MODULE HandleSimilarity --------------------------
(***************************************************************************)
(* How much a handle or a display text resembles a watched brand.            *)
(*                                                                         *)
(* A word is the sequence of the characters of its skeleton: normalize maps  *)
(* look-alikes, invisible characters and case away, so that a character      *)
(* here is a class of characters that read the same.  Similarities are       *)
(* fractions in the code's order of operations, compared in millionths;      *)
(* floating-point rounding is left out.                                     *)
(***************************************************************************)
EXTENDS Integers, Sequences, SequencesExt, FiniteSets, FiniteSetsExt

CONSTANTS Space,      \* a character between tokens
          Underscore  \* the other one

Least(S) == Min(S)

Indices(n) == [i \in 1 .. n |-> i]

-----------------------------------------------------------------------------
(* Edit distance, row by row as the code keeps it: each row from the two         *)
(* before it.                                                               *)

Swapped(a, b, i, j) == i > 1 /\ j > 1 /\ a[i] = b[j - 1] /\ a[i - 1] = b[j]

(* Mutant: without the transposition of neighbours.                            *)
CellOfLevenshtein(a, b, i, j, prev2, prev1, curr) ==
    Least({curr[j] + 1, prev1[j + 1] + 1, prev1[j] + (IF a[i] = b[j] THEN 0 ELSE 1)})

(* Column j stands at index j + 1 of a row.                                    *)
Cell(a, b, i, j, prev2, prev1, curr) ==
    Least({curr[j] + 1, prev1[j + 1] + 1, prev1[j] + (IF a[i] = b[j] THEN 0 ELSE 1)}
             \cup (IF Swapped(a, b, i, j) THEN {prev2[j - 1] + 1} ELSE {}))

Row(a, b, i, prev2, prev1) ==
    FoldLeft(LAMBDA curr, j : Append(curr, Cell(a, b, i, j, prev2, prev1, curr)),
             <<i>>, Indices(Len(b)))

damerauLevenshtein(a, b) ==
    LET first == [j \in 1 .. Len(b) + 1 |-> j - 1]
        rows == FoldLeft(LAMBDA r, i : <<r[2], Row(a, b, i, r[1], r[2])>>, <<first, first>>,
                         Indices(Len(a)))
    IN  rows[2][Len(b) + 1]

-----------------------------------------------------------------------------
(* Jaro and Jaro-Winkler.                                                    *)

Larger(x, y) == IF x > y THEN x ELSE y

(* The characters of a that find an equal one in b within the window, greedily    *)
(* from the left: each takes the first that is free.                          *)
Matched(a, b) ==
    LET window == Larger(0, Larger(Len(a), Len(b)) \div 2 - 1)
        free(i, taken) == {j \in DOMAIN b \ taken : a[i] = b[j] /\ j \in i - window .. i + window}
        take(m, i) == IF free(i, m.b) = {} THEN m
                      ELSE [a |-> Append(m.a, i), b |-> m.b \cup {Least(free(i, m.b))}]
    IN  FoldLeft(take, [a |-> <<>>, b |-> {}], Indices(Len(a)))

Fraction(n, d) == [n |-> n, d |-> d]

JaroFraction(a, b, m, transpositions) ==
    IF m = 0 THEN Fraction(0, 1)
    ELSE Fraction(2 * m * m * (Len(a) + Len(b)) + (2 * m - transpositions) * Len(a) * Len(b),
                  6 * m * Len(a) * Len(b))

(* How many of the characters matched stand in another order in b.              *)
Transpositions(a, b, found) ==
    LET inB == SelectSeq(Indices(Len(b)), LAMBDA j : j \in found.b)
    IN  Cardinality({k \in DOMAIN inB : a[found.a[k]] # b[inB[k]]})

OfMatched(a, b, found) == JaroFraction(a, b, Len(found.a), Transpositions(a, b, found))

jaro(a, b) == IF a = b THEN Fraction(1, 1) ELSE OfMatched(a, b, Matched(a, b))

CommonPrefix(a, b) ==
    Cardinality({l \in 1 .. Least({Len(a), Len(b), 4}) : \A k \in 1 .. l : a[k] = b[k]})

(* The prefix weight is a tenth, and boosts what is at least 0.7 alike.         *)
Boosted(j, prefix) ==
    IF 10 * j.n < 7 * j.d THEN j ELSE Fraction(10 * j.n + prefix * (j.d - j.n), 10 * j.d)

jaroWinkler(a, b) == Boosted(jaro(a, b), CommonPrefix(a, b))

(* In two divisions by a thousand, for the sake of 32-bit integers.             *)
Millionths(f) == 1000 * ((1000 * f.n) \div f.d) + (1000 * ((1000 * f.n) % f.d)) \div f.d

-----------------------------------------------------------------------------
(* Matching one candidate against the watchlist.                              *)

STRENGTH_ORDER == <<"loose", "similar", "near", "exact">>

Rank(strength) == CHOOSE r \in 1 .. 4 : STRENGTH_ORDER[r] = strength

gradeMatch(distance, similarity, isExact) ==
    CASE isExact -> "exact"
      [] ~isExact /\ distance <= 1 -> "near"
      [] ~isExact /\ distance = 2 /\ similarity >= 920000 -> "similar"
      [] ~isExact /\ distance > 1 /\ (distance # 2 \/ similarity < 920000)
            /\ similarity >= 950000 -> "loose"
      [] OTHER -> "none"

NoMatch == [strength |-> "none"]

(* The handle of an account without one.                                       *)
NoHandle == ""

(* Words of which one is more than twice as long are not compared.             *)
Comparable(a, b) ==
    a # <<>> /\ b # <<>> /\ Larger(Len(a), Len(b)) <= 2 * Least({Len(a), Len(b)})

Graded(candidate, brand, key, distance, similarity) ==
    [brand |-> brand, matchedKey |-> key, distance |-> distance, similarity |-> similarity,
     strength |-> gradeMatch(distance, similarity, candidate = key)]

Match(candidate, brand, key) ==
    Graded(candidate, brand, key, damerauLevenshtein(candidate, key),
           Millionths(jaroWinkler(candidate, key)))

isStronger(x, y) ==
    \/ Rank(x.strength) > Rank(y.strength)
    \/ /\ x.strength = y.strength
       /\ \/ x.distance < y.distance
          \/ x.distance = y.distance /\ x.similarity > y.similarity
          \/ /\ x.distance = y.distance /\ x.similarity = y.similarity
             /\ Len(x.matchedKey) > Len(y.matchedKey)

Better(best, match) ==
    IF match.strength # "none" /\ (best = NoMatch \/ isStronger(match, best)) THEN match ELSE best

(* The brand's own handle is not its impersonator.                             *)
Keys(candidate, brand, handle) ==
    IF handle \in brand.legitimateHandles THEN <<>>
    ELSE SelectSeq(brand.matchKeys, LAMBDA key : Comparable(candidate, key))

matchAgainstWatchlist(candidate, watchlist, handle) ==
    FoldLeft(LAMBDA best, brand :
                FoldLeft(LAMBDA b, key : Better(b, Match(candidate, brand.brand, key)), best,
                         Keys(candidate, brand, handle)),
             NoMatch, watchlist)

-----------------------------------------------------------------------------
(* Display texts: the whole text, its long words, and two to four words in a row  *)
(* written as one or with underscores.  What stands between two tokens is taken  *)
(* to be one Space.                                                         *)

Joined(tokens, separator) ==
    FoldLeft(LAMBDA text, token : IF text = <<>> THEN token ELSE text \o separator \o token,
             <<>>, tokens)

Windows(tokens) ==
    {SubSeq(tokens, w[1], w[2]) : w \in {v \in (1 .. Len(tokens)) \X (1 .. Len(tokens)) :
                                            v[2] - v[1] \in 1 .. 3}}

textFragments(tokens) ==
    IF Len(tokens) < 2 THEN ToSet(tokens)
    ELSE {Joined(tokens, <<Space>>)}
            \cup {t \in ToSet(tokens) : Len(t) >= 7}
            \cup UNION {{Joined(w, <<>>), Joined(w, <<Underscore>>)} : w \in Windows(tokens)}

matchTextAgainstWatchlist(tokens, watchlist, handle) ==
    FoldSet(LAMBDA fragment, best : Better(best, matchAgainstWatchlist(fragment, watchlist, handle)),
            NoMatch, textFragments(tokens))

isFiringStrength(match) == match.strength \in {"exact", "near", "similar"}

-----------------------------------------------------------------------------
(* Properties.                                                              *)

Edits(w, alphabet) ==
    LET n == Len(w)
        cut(i) == SubSeq(w, 1, i - 1) \o SubSeq(w, i + 1, n)
        put(i, c) == SubSeq(w, 1, i) \o <<c>> \o SubSeq(w, i + 1, n)
    IN  {cut(i) : i \in 1 .. n}
           \cup {put(i, c) : i \in 0 .. n, c \in alphabet}
           \cup {[w EXCEPT ![i] = c] : i \in 1 .. n, c \in alphabet}
           \cup {[w EXCEPT ![i] = w[i + 1], ![i + 1] = w[i]] : i \in 1 .. n - 1}

(* Two words have distance one exactly if one edit makes one the other, distance   *)
(* two only if two edits do, and two edits never look further apart than three    *)
(* (the distance does not edit a place twice); it is symmetric.                 *)
DistanceIsHonest(a, b, alphabet) ==
    LET d == damerauLevenshtein(a, b)
        one == Edits(a, alphabet)
        two == UNION {Edits(w, alphabet) : w \in one}
    IN  /\ d = damerauLevenshtein(b, a)
        /\ d = 0 <=> a = b
        /\ d = 1 <=> b \in one \ {a}
        /\ d = 2 => b \in two
        /\ b \in two => d <= 3

Matches(candidate, watchlist, handle) ==
    {m \in UNION {{Match(candidate, brand.brand, key) : key \in ToSet(Keys(candidate, brand, handle))} :
                     brand \in ToSet(watchlist)} : m.strength # "none"}

IsBest(found, matches) ==
    IF matches = {} THEN found = NoMatch
    ELSE found \in matches /\ \A m \in matches : ~isStronger(m, found)

(* The match returned is one of the candidate's matches and none is stronger, in   *)
(* whatever order the watchlist stands; there is none only if no key resembles   *)
(* the candidate; and no account is an impersonator of its own brand.           *)
BestMatchIsFound(candidate, watchlist, handle) ==
    \A found \in {matchAgainstWatchlist(candidate, list, handle) : list \in {watchlist, Reverse(watchlist)}} :
        /\ IsBest(found, Matches(candidate, watchlist, handle))
        /\ \A brand \in ToSet(watchlist) :
              found # NoMatch /\ found.brand = brand.brand => handle \notin brand.legitimateHandles

(* A key that is spread over two to four words of a text is found exactly.        *)
SpreadKeyIsFound(before, parts, after, brand) ==
    Joined(parts, <<>>) \in ToSet(brand.matchKeys) =>
        matchTextAgainstWatchlist(before \o parts \o after, <<brand>>, NoHandle).strength = "exact"
=============================================================================
