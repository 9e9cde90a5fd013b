-------------------------- MODULE ScoringRulesProofs --------------------------
(***************************************************************************)
(* Theorems about the rules: what a score, a confidence and a match are    *)
(* for every list of results and every field, whatever its length.         *)
(*                                                                         *)
(* A Weight is a sum along a sequence.  What it is for every length rests  *)
(* on LeastNumber: were a claim about the first n results false for some   *)
(* n, it would be false for a least one, and it follows there from n - 1.  *)
(***************************************************************************)
EXTENDS ScoringRules, FiniteSetTheorems, WellFoundedInduction, TLAPS

-----------------------------------------------------------------------------
(* Numbers and counting. *)

(* Every non-empty set of numbers has a least one: the subsets of Nat that  *)
(* are finite are well-founded, and 1 .. m is smaller the smaller m is.     *)
LEMMA LeastNumber ==
    ASSUME NEW T \in SUBSET Nat, T # {}
    PROVE  \E m \in T : \A n \in T : m <= n
<1> DEFINE Below == {1 .. k : k \in T}
<1>1. IsWellFoundedOn(StrictSubsetOrdering(Nat), FiniteSubsetsOf(Nat))
  BY FS_StrictSubsetOrderingWellFounded
<1>2. Below \subseteq FiniteSubsetsOf(Nat)
  <2>1. ASSUME NEW k \in T PROVE 1 .. k \in FiniteSubsetsOf(Nat)
    <3>1. IsFiniteSet(1 .. k)
      BY FS_Interval
    <3>2. QED
      BY <3>1 DEF FiniteSubsetsOf
  <2>2. QED
    BY <2>1
<1>3. Below # {}
  OBVIOUS
<1> HIDE DEF Below
<1>4. PICK x \in Below :
        \A y \in Below : <<y, x>> \notin StrictSubsetOrdering(Nat)
  BY <1>1, <1>2, <1>3, WFMin
<1>5. PICK m \in T : x = 1 .. m
  BY DEF Below
<1>6. ASSUME NEW n \in T PROVE m <= n
  <2> SUFFICES ASSUME n < m PROVE FALSE
    OBVIOUS
  <2>1. 1 .. n \in Below
    BY DEF Below
  <2>2. 1 .. n \subseteq 1 .. m /\ m \in 1 .. m /\ m \notin 1 .. n
    OBVIOUS
  <2>3. <<1 .. n, 1 .. m>> \in StrictSubsetOrdering(Nat)
    BY <2>2, 1 .. n \in SUBSET Nat, 1 .. m \in SUBSET Nat
       DEF StrictSubsetOrdering
  <2>4. QED
    BY <1>4, <1>5, <2>1, <2>3
<1>7. QED
  BY <1>6

(* As many values as arguments.                                             *)
LEMMA OneToOneKeepsCount ==
    ASSUME NEW S, NEW T, NEW f \in [S -> T], IsFiniteSet(S),
           \A x, y \in S : f[x] = f[y] => x = y,
           \A t \in T : \E x \in S : f[x] = t
    PROVE  Cardinality(T) = Cardinality(S)
<1>1. f \in Bijection(S, T)
  BY DEF Bijection, Injection, Surjection, IsInjective
<1>2. ExistsBijection(S, T)
  BY <1>1 DEF ExistsBijection
<1>3. QED
  BY <1>2, FS_Bijection

-----------------------------------------------------------------------------
(* Weights and the score. *)

(* What result n adds to a Weight.                                          *)
Share(results, outcomes, n) ==
    IF results[n].outcome \in outcomes THEN results[n].weight ELSE 0

(* f is the sum of the shares of the first n results, for each n up to k.   *)
Sums(f, results, outcomes, k) ==
    f = [n \in 0 .. k |-> IF n = 0 THEN 0
                          ELSE f[n - 1] + Share(results, outcomes, n)]

(* The recursive definition in Weight has a solution for every length, so   *)
(* that the function it names is one.                                       *)
LEMMA SumsExist ==
    ASSUME NEW results, NEW outcomes, NEW k \in Nat
    PROVE  \E f : Sums(f, results, outcomes, k)
<1> DEFINE Bad == {n \in Nat : ~\E f : Sums(f, results, outcomes, n)}
<1> SUFFICES ASSUME Bad # {} PROVE FALSE
  OBVIOUS
<1>1. PICK m \in Bad : \A n \in Bad : m <= n
  BY LeastNumber
<1>2. m # 0
  <2>1. Sums([n \in 0 .. 0 |-> 0], results, outcomes, 0)
    BY DEF Sums
  <2>2. QED
    BY <2>1
<1>3. PICK f : Sums(f, results, outcomes, m - 1)
  BY <1>1, <1>2
<1> DEFINE g == [n \in 0 .. m |->
                    IF n = m THEN f[m - 1] + Share(results, outcomes, m)
                             ELSE f[n]]
<1>4. Sums(g, results, outcomes, m)
  <2> DEFINE h == [n \in 0 .. m |-> IF n = 0 THEN 0
                       ELSE g[n - 1] + Share(results, outcomes, n)]
  <2>1. ASSUME NEW n \in 0 .. m PROVE g[n] = h[n]
    <3>1. CASE n = m
      <4>1. g[m - 1] = f[m - 1]
        BY <1>2
      <4>2. QED
        BY <3>1, <1>2, <4>1
    <3>2. CASE n # m /\ n # 0
      <4>1. /\ n \in 0 .. m - 1
            /\ n - 1 \in 0 .. m
            /\ n - 1 # m
        BY <3>2
      <4>2. f[n] = f[n - 1] + Share(results, outcomes, n)
        BY <1>3, <3>2, <4>1 DEF Sums
      <4>3. QED
        BY <3>2, <4>1, <4>2
    <3>3. CASE n = 0
      <4>1. 0 \in 0 .. m - 1
        BY <1>2
      <4>2. f[0] = 0
        BY <1>3, <4>1 DEF Sums
      <4>3. QED
        BY <1>2, <3>3, <4>2
    <3>4. QED
      BY <3>1, <3>2, <3>3
  <2>2. g = h
    BY <2>1
  <2>3. QED
    BY <2>2 DEF Sums
<1>5. QED
  BY <1>4

(* Weight is the last of these sums.                                        *)
LEMMA WeightIsASum ==
    ASSUME NEW results, Len(results) \in Nat, NEW outcomes
    PROVE  \E f : /\ Sums(f, results, outcomes, Len(results))
                  /\ Weight(results, outcomes) = f[Len(results)]
<1> DEFINE sum == CHOOSE f : Sums(f, results, outcomes, Len(results))
<1>1. Sums(sum, results, outcomes, Len(results))
  BY SumsExist
<1>2. Weight(results, outcomes) = sum[Len(results)]
  BY DEF Weight, Sums, Share
<1>3. QED
  BY <1>1, <1>2

(* More outcomes, no less weight: what was met is part of what was          *)
(* evaluated (_compute_score adds to matched_weight only what it has added  *)
(* to total_weight).                                                        *)
LEMMA WeightGrows ==
    ASSUME NEW results \in Seq(Result), NEW A, NEW B, A \subseteq B
    PROVE  /\ Weight(results, A) \in Nat
           /\ Weight(results, B) \in Nat
           /\ Weight(results, A) <= Weight(results, B)
<1> DEFINE N == Len(results)
<1>1. N \in Nat /\ DOMAIN results = 1 .. N
  OBVIOUS
<1>2. PICK f : Sums(f, results, A, N) /\ Weight(results, A) = f[N]
  BY <1>1, WeightIsASum
<1>3. PICK g : Sums(g, results, B, N) /\ Weight(results, B) = g[N]
  BY <1>1, WeightIsASum
<1> HIDE DEF N
<1> DEFINE Good(k) == /\ f[k] \in Nat
                      /\ g[k] \in Nat
                      /\ f[k] <= g[k]
           Bad == {k \in 0 .. N : ~Good(k)}
<1>4. SUFFICES ASSUME Bad # {} PROVE FALSE
  <2>1. N \in 0 .. N
    BY <1>1
  <2>2. QED
    BY <2>1, <1>2, <1>3
<1>5. PICK m \in Bad : \A k \in Bad : m <= k
  <2>1. Bad \in SUBSET Nat
    BY <1>1
  <2> HIDE DEF Bad
  <2>2. QED
    BY <1>4, <2>1, LeastNumber
<1>6. m \in 0 .. N /\ ~Good(m)
  OBVIOUS
<1>7. CASE m = 0
  <2>1. f[0] = 0 /\ g[0] = 0
    BY <1>1, <1>2, <1>3 DEF Sums
  <2>2. QED
    BY <2>1, <1>6, <1>7
<1>8. CASE m # 0
  <2>1. m - 1 \in 0 .. N /\ m - 1 < m /\ m \in 1 .. N
    BY <1>6, <1>8, <1>1
  <2>2. m - 1 \notin Bad
    BY <1>5, <2>1, <1>6
  <2>3. Good(m - 1)
    BY <2>1, <2>2
  <2>4. results[m] \in Result
    BY <1>1, <2>1
  <2>5. /\ Share(results, A, m) \in Nat
        /\ Share(results, B, m) \in Nat
        /\ Share(results, A, m) <= Share(results, B, m)
    BY <2>4 DEF Share, Result
  <2>6. /\ f[m] = f[m - 1] + Share(results, A, m)
        /\ g[m] = g[m - 1] + Share(results, B, m)
    BY <1>2, <1>3, <1>6, <1>8 DEF Sums
  <2>7. Good(m)
    BY <2>3, <2>5, <2>6
  <2>8. QED
    BY <2>7, <1>6
<1>9. QED
  BY <1>7, <1>8

(* round() is off by half a unit at most, ties included.                    *)
LEMMA RoundIsNearest ==
    ASSUME NEW n \in Nat, NEW d \in Nat, d > 0
    PROVE  /\ Round(n, d) \in Nat
           /\ 2 * (Round(n, d) * d - n) <= d
           /\ 2 * (Round(n, d) * d - n) >= -d
<1> DEFINE q == n \div d
           r == n % d
<1>1. /\ q \in Nat
      /\ r \in 0 .. d - 1
      /\ n = d * q + r
  OBVIOUS
<1> HIDE DEF q, r
<1>2. Round(n, d) = IF 2 * r < d \/ (2 * r = d /\ q % 2 = 0)
                    THEN q ELSE q + 1
  BY DEF Round, q, r
<1>3. CASE Round(n, d) = q /\ 2 * r <= d
  <2>1. q * d - n = -r
    BY <1>1
  <2>2. QED
    BY <1>1, <1>3, <2>1
<1>4. CASE Round(n, d) = q + 1 /\ 2 * r >= d
  <2>1. (q + 1) * d - n = d - r
    BY <1>1
  <2>2. QED
    BY <1>1, <1>4, <2>1
<1>5. \/ Round(n, d) = q /\ 2 * r <= d
      \/ Round(n, d) = q + 1 /\ 2 * r >= d
  BY <1>1, <1>2
<1>6. QED
  BY <1>3, <1>4, <1>5

(* A part of a whole rounds to 0 .. 100.                                    *)
LEMMA RoundIsPercentage ==
    ASSUME NEW n \in Nat, NEW d \in Nat, d > 0, n <= d
    PROVE  Round(100 * n, d) \in 0 .. 100
<1>1. 100 * n \in Nat /\ 100 * n <= 100 * d
  OBVIOUS
<1>2. /\ Round(100 * n, d) \in Nat
      /\ 2 * (Round(100 * n, d) * d - 100 * n) <= d
  BY <1>1, RoundIsNearest
<1> SUFFICES ASSUME Round(100 * n, d) > 100 PROVE FALSE
  BY <1>2
<1>3. Round(100 * n, d) * d >= 101 * d
  BY <1>2
<1>4. QED
  BY <1>1, <1>2, <1>3

(* What ScoreIsNearest says of a verdict, of any results and score.         *)
ScoreFits(results, score) ==
    LET met == Weight(results, {"matched"})
        total == Weight(results, {"matched", "unmatched"})
        error == score * total - 100 * met
    IN  IF Dealbroken(results) # {} \/ total = 0
        THEN score = 0
        ELSE 2 * error <= total /\ 2 * error >= -total

(* _compute_score(): for every list of results the score is a percentage,   *)
(* the nearest one of the weight that was met, and 0 for a dealbreaker that *)
(* was evaluated and not met or when nothing that weighs was evaluated: no  *)
(* weights divide by zero.                                                  *)
THEOREM ScoreIsRight ==
    ASSUME NEW results \in Seq(Result)
    PROVE  /\ Score(results) \in 0 .. 100
           /\ ScoreFits(results, Score(results))
<1> DEFINE met == Weight(results, {"matched"})
           total == Weight(results, {"matched", "unmatched"})
<1>1. /\ met \in Nat
      /\ total \in Nat
      /\ met <= total
  BY WeightGrows
<1> HIDE DEF met, total
<1>2. CASE Dealbroken(results) # {}
  BY <1>2 DEF Score, ScoreFits
<1>3. CASE Dealbroken(results) = {} /\ total = 0
  <2>1. Score(results) = 0
    BY <1>3 DEF Score, total
  <2>2. QED
    BY <1>3, <2>1 DEF ScoreFits, total
<1>4. CASE Dealbroken(results) = {} /\ total # 0
  <2>1. Score(results) = Round(100 * met, total)
    BY <1>4 DEF Score, met, total
  <2>2. total > 0 /\ 100 * met \in Nat
    BY <1>1, <1>4
  <2>3. /\ 2 * (Score(results) * total - 100 * met) <= total
        /\ 2 * (Score(results) * total - 100 * met) >= -total
    BY <1>1, <2>1, <2>2, RoundIsNearest
  <2>4. Score(results) \in 0 .. 100
    BY <1>1, <2>1, <2>2, RoundIsPercentage
  <2>5. QED
    BY <1>4, <2>3, <2>4 DEF ScoreFits, met, total
<1>5. QED
  BY <1>2, <1>3, <1>4

-----------------------------------------------------------------------------
(* Confidence. *)

(* At most as many criteria have an outcome as there are, all of them only  *)
(* if each one has.                                                         *)
LEMMA EvaluatedCounts ==
    ASSUME NEW results \in Seq(Result), NEW outcomes
    PROVE  /\ IsFiniteSet(With(results, outcomes))
           /\ Cardinality(With(results, outcomes)) \in 0 .. Len(results)
           /\ Cardinality(With(results, outcomes)) = Len(results)
                => With(results, outcomes) = DOMAIN results
<1>1. DOMAIN results = 1 .. Len(results) /\ Len(results) \in Nat
  OBVIOUS
<1>2. /\ IsFiniteSet(DOMAIN results)
      /\ Cardinality(DOMAIN results) = Len(results)
  BY <1>1, FS_Interval
<1>3. With(results, outcomes) \in SUBSET DOMAIN results
  BY DEF With
<1>4. /\ IsFiniteSet(With(results, outcomes))
      /\ Cardinality(With(results, outcomes)) <= Len(results)
      /\ Cardinality(With(results, outcomes)) = Len(results)
            => With(results, outcomes) = DOMAIN results
  BY <1>2, <1>3, FS_Subset
<1>5. QED
  BY <1>1, <1>4, FS_CardinalityType

(* The results had criterion i been skipped.                                *)
Skip(results, i) == [results EXCEPT ![i].outcome = "skipped"]

(* _compute_scoring_confidence(): HIGH means that nothing was skipped, and  *)
(* for every list of results, with the fields held fixed, one more skipped  *)
(* criterion never raises the level.                                        *)
THEOREM ConfidenceFallsWithGaps ==
    ASSUME NEW results \in Seq(Result), NEW fields
    PROVE  /\ Confidence(results, fields) \in Levels
           /\ Confidence(results, fields) = "HIGH"
                => With(results, {"skipped"}) = {}
           /\ \A i \in DOMAIN results :
                Rank[Confidence(Skip(results, i), fields)]
                    <= Rank[Confidence(results, fields)]
<1> DEFINE seen == With(results, {"matched", "unmatched"})
           N == Cardinality(seen)
<1>1. /\ N \in 0 .. Len(results)
      /\ N = Len(results) => seen = DOMAIN results
      /\ IsFiniteSet(seen)
      /\ Len(results) \in Nat
  BY EvaluatedCounts
<1>2. Confidence(results, fields) \in Levels
  BY DEF Confidence, Levels
<1>3. ASSUME Confidence(results, fields) = "HIGH"
      PROVE  With(results, {"skipped"}) = {}
  <2>1. N = Len(results)
    BY <1>1, <1>3 DEF Confidence
  <2>2. QED
    BY <1>1, <2>1 DEF With
<1>4. ASSUME NEW i \in DOMAIN results
      PROVE  Rank[Confidence(Skip(results, i), fields)]
                <= Rank[Confidence(results, fields)]
  <2> DEFINE seen1 == With(Skip(results, i), {"matched", "unmatched"})
             N1 == Cardinality(seen1)
  <2>1. /\ Len(Skip(results, i)) = Len(results)
        /\ DOMAIN Skip(results, i) = DOMAIN results
        /\ \A j \in DOMAIN results :
             Skip(results, i)[j].outcome =
                IF j = i THEN "skipped" ELSE results[j].outcome
    BY DEF Skip, Result
  <2>2. seen1 \in SUBSET seen
    BY <2>1 DEF With
  <2>3. N1 \in Nat /\ N1 <= N
    BY <1>1, <2>2, FS_Subset, FS_CardinalityType
  <2> HIDE DEF N, N1, seen, seen1
  <2>4. Rank[Confidence(Skip(results, i), fields)] =
          IF N1 = 0 THEN 0
          ELSE IF N1 = Len(results)
               THEN IF \A name \in DOMAIN fields :
                        fields[name].status # "MISSING"
                            => fields[name].confidence = "HIGH"
                    THEN 3 ELSE 2
               ELSE IF 4 * N1 >= 3 * Len(results) THEN 2
               ELSE IF 2 * N1 >= Len(results) THEN 1 ELSE 0
    BY <1>1, <2>1, <2>3 DEF Confidence, Rank, N1, seen1
  <2>5. Rank[Confidence(results, fields)] =
          IF N = 0 THEN 0
          ELSE IF N = Len(results)
               THEN IF \A name \in DOMAIN fields :
                        fields[name].status # "MISSING"
                            => fields[name].confidence = "HIGH"
                    THEN 3 ELSE 2
               ELSE IF 4 * N >= 3 * Len(results) THEN 2
               ELSE IF 2 * N >= Len(results) THEN 1 ELSE 0
    BY <1>1 DEF Confidence, Rank, N, seen
  <2>6. QED
    BY <1>1, <2>3, <2>4, <2>5
<1>5. QED
  BY <1>2, <1>3, <1>4

(* A count of fields is a number no larger than the answer is long.         *)
LEMMA FoundIsCounted ==
    ASSUME NEW fields \in Seq(Entry), NEW levels
    PROVE  Count(fields, levels) \in 0 .. Len(fields)
<1> DEFINE S == {i \in DOMAIN fields : /\ fields[i].status # "MISSING"
                                       /\ fields[i].confidence \in levels}
<1>1. DOMAIN fields = 1 .. Len(fields) /\ Len(fields) \in Nat
  OBVIOUS
<1>2. /\ IsFiniteSet(DOMAIN fields)
      /\ Cardinality(DOMAIN fields) = Len(fields)
  BY <1>1, FS_Interval
<1>3. S \in SUBSET DOMAIN fields
  OBVIOUS
<1> HIDE DEF S
<1>4. IsFiniteSet(S) /\ Cardinality(S) <= Len(fields)
  BY <1>2, <1>3, FS_Subset
<1>5. Cardinality(S) \in Nat
  BY <1>4, FS_CardinalityType
<1>6. QED
  BY <1>1, <1>4, <1>5 DEF Count, S

(* _compute_overall_confidence(): NONE is said exactly of an answer below   *)
(* MIN_FIELDS_FOR_EXTRACTION; the two thresholds of the code agree.         *)
LEMMA NoneIsNotEnough ==
    ASSUME NEW fields \in Seq(Entry)
    PROVE  /\ FoundCount(fields) \in Nat
           /\ OverallConfidence(fields) \in Levels
           /\ OverallConfidence(fields) = "NONE"
                <=> ~(FoundCount(fields) >= MinFound)
<1>1. FoundCount(fields) \in Nat /\ MinFound \in Nat
  BY FoundIsCounted, ScoringRulesAssumption DEF FoundCount
<1> DEFINE found == FoundCount(fields)
           high == Count(fields, {"HIGH"}) = Cardinality(FieldNames)
           medium == Count(fields, {"HIGH", "MEDIUM"}) >= 4
<1> HIDE DEF found, high, medium
<1>2. OverallConfidence(fields) =
        CASE found < MinFound -> "NONE"
          [] found >= MinFound /\ high -> "HIGH"
          [] found >= MinFound /\ ~high /\ medium -> "MEDIUM"
          [] OTHER -> "LOW"
  BY DEF OverallConfidence, found, high, medium
<1>3. OverallConfidence(fields) =
        IF found < MinFound THEN "NONE"
        ELSE IF high THEN "HIGH" ELSE IF medium THEN "MEDIUM" ELSE "LOW"
  BY <1>1, <1>2 DEF found
<1>4. QED
  BY <1>1, <1>3 DEF found, Levels

-----------------------------------------------------------------------------
(* Matches. *)

(* _numeric_compare(): two readable numbers, and never both a comparison    *)
(* and its contrary.                                                        *)
LEMMA NumbersDecide ==
    ASSUME NEW x, NEW y, NEW operator,
           x \in Int \cup {NotANumber}, y \in Int \cup {NotANumber}
    PROVE  /\ NumericMatch(x, operator, y) =>
                /\ x # NotANumber
                /\ operator \in {"gt", "lt", "gte", "lte"}
           /\ ~(NumericMatch(x, "gt", y) /\ NumericMatch(x, "lte", y))
           /\ ~(NumericMatch(x, "gte", y) /\ NumericMatch(x, "lt", y))
  BY DEF NumericMatch

(* _apply_operator(): a match on a number or a list needs one, and no value *)
(* matches an operator and its contrary: not an unreadable number, for      *)
(* which both are false.                                                    *)
THEOREM MatchesNeedEvidence ==
    ASSUME NEW value \in Texts, NEW operator \in Operators,
           NEW target \in Target,
           Matches(value, operator, target)
    PROVE  /\ operator \in {"gt", "lt", "gte", "lte"}
                => NumberOf[value] # NotANumber
           /\ operator \in {"in", "not_in"} => target.list
           /\ operator \in DOMAIN Opposite
                => ~Matches(value, Opposite[operator], target)
<1>1. /\ NumberOf[value] \in Int \cup {NotANumber}
      /\ target.number \in Int \cup {NotANumber}
  BY ScoringRulesAssumption DEF Target
<1> DEFINE x == NumberOf[value]
           y == target.number
<1> HIDE DEF x, y
<1>2. \A o : NumericMatch(x, o, y) =>
                /\ x # NotANumber
                /\ o \in {"gt", "lt", "gte", "lte"}
  BY <1>1, NumbersDecide DEF x, y
<1>3. /\ ~(NumericMatch(x, "gt", y) /\ NumericMatch(x, "lte", y))
      /\ ~(NumericMatch(x, "gte", y) /\ NumericMatch(x, "lt", y))
  BY <1>1, NumbersDecide DEF x, y
<1>4. CASE operator \in {"gt", "lt", "gte", "lte"}
  <2>1. NumericMatch(x, operator, y)
    BY <1>4 DEF Matches, x, y
  <2>2. /\ x # NotANumber
        /\ ~NumericMatch(x, Opposite[operator], y)
        /\ Opposite[operator] \in {"gt", "lt", "gte", "lte"}
    BY <1>2, <1>3, <1>4, <2>1 DEF Opposite
  <2>3. ~Matches(value, Opposite[operator], target)
    BY <2>2 DEF Matches, x, y
  <2>4. QED
    BY <1>4, <2>2, <2>3 DEF x
<1>5. CASE operator \in {"eq", "ne", "in", "not_in", "contains"}
  <2>1. /\ ~NumericMatch(x, operator, y)
        /\ operator \in DOMAIN Opposite
            => ~NumericMatch(x, Opposite[operator], y)
    BY <1>2, <1>5 DEF Opposite
  <2>2. QED
    BY <1>5, <2>1 DEF Matches, Opposite, x, y
<1>6. QED
  BY <1>4, <1>5 DEF Operators
=============================================================================
