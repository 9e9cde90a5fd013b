--------------------------- MODULE ScreeningProofs ---------------------------
(***************************************************************************)
(* Theorems about Screening.  The heart of the invariant is that the       *)
(* number a run will get is free (NumbersAreFresh) and that a deal that is *)
(* EXTRACTED or SCORED has that number taken, by its answer                *)
(* (LatestIsAnswer); the rest carries to the verdict what the criteria say *)
(* of that run.                                                            *)
(***************************************************************************)
EXTENDS Screening, ScoringRulesProofs, SequenceTheorems

(* A deal whose extraction found enough. *)
Extracted == status \in {"EXTRACTED", "SCORED"}

(* A run that found too little, and says so. *)
Insufficient(n) ==
    /\ ~(Found(n) >= MinFound)
    /\ "NONE" \in {row.overall : row \in RowsOfRun(n)}

(* No run has a number above NextRun, and that one is taken exactly when   *)
(* the deal was extracted: a redelivery that writes always finds it free.  *)
NumbersAreFresh ==
    /\ \A n \in Runs : n <= NextRun
    /\ NextRun \in Runs <=> Extracted

(* Every run before it found too little; it is the answer, whole.          *)
OldRunsFailed == \A n \in Runs \ {NextRun} : Insufficient(n)

LatestIsAnswer ==
    Extracted =>
        /\ Valid(answer)
        /\ Storable(answer)
        /\ Enough(answer)
        /\ RowsOfRun(NextRun) = RowsOf(answer)

(* Results that are what the criteria say of the latest run.               *)
Evaluated(rs) ==
    /\ Len(rs) <= Len(criteria)
    /\ \A i \in DOMAIN rs :
         rs[i].outcome = Outcome(criteria[i], LatestFields)

(* What the handler has found out, and the locals it has not used yet.     *)
Handling ==
    /\ stage = "calling" => ~Extracted
    /\ stage \in {"extracted", "scoring"} => status = "EXTRACTED"
    /\ job \in {"queued", "taken"} => failures < Budget
    /\ stage # "scoring" => results = <<>>

(* The criteria judged so far, and the verdict once it is stored.          *)
Judging == stage = "scoring" => Evaluated(results)

Judged ==
    status = "SCORED" =>
        /\ Evaluated(verdict.results)
        /\ Len(verdict.results) = Len(criteria)
        /\ verdict.score = Score(verdict.results)
        /\ verdict.confidence = Confidence(verdict.results, LatestFields)

(* The runs in the table.                                                  *)
RunsInv ==
    /\ NumbersAreFresh
    /\ RunsAreWhole
    /\ OldRunsFailed
    /\ LatestIsAnswer

(* The inductive invariant.                                                *)
ScreeningInv ==
    /\ TypeOK
    /\ Handling
    /\ RunsInv
    /\ Judging
    /\ Judged

-----------------------------------------------------------------------------
(* The rows of an answer that was accepted and flushed: typed, one for each *)
(* field, marked NONE by the first row when too little was found.           *)
LEMMA StoredRun ==
    ASSUME NEW fields, Valid(fields), Storable(fields), retry_count \in Nat
    PROVE  /\ RowsOf(fields) \subseteq Row
           /\ \A row \in RowsOf(fields) : row.run = NextRun
           /\ {row.name : row \in RowsOf(fields)} = FieldNames
           /\ Cardinality(RowsOf(fields)) = Cardinality(FieldNames)
           /\ Cardinality({row \in RowsOf(fields) : row.status # "MISSING"})
                = FoundCount(fields)
           /\ fields # <<>> =>
                ("NONE" \in {row.overall : row \in RowsOf(fields)}
                    <=> ~Enough(fields))
<1> DEFINE D == DOMAIN fields
           R == RowsOf(fields)
           r(i) == [run |-> NextRun,
                    name |-> fields[i].name,
                    status |-> fields[i].status,
                    confidence |-> fields[i].confidence,
                    value |-> fields[i].value,
                    overall |-> IF i = 1 THEN OverallConfidence(fields)
                                         ELSE NoValue]
<1>1. /\ fields \in Seq(Entry)
      /\ \A i, j \in D : fields[i].name = fields[j].name => i = j
      /\ {fields[i].name : i \in D} = FieldNames
  BY DEF Valid, NamesOf
<1>2. /\ D = 1 .. Len(fields)
      /\ Len(fields) \in Nat
      /\ \A i \in D : fields[i] \in Entry
  BY <1>1
<1>3. IsFiniteSet(D)
  BY <1>2, FS_Interval
<1>4. R = {r(i) : i \in D}
  BY DEF RowsOf
<1>5. R \subseteq Row
  <2>1. OverallConfidence(fields) \in Levels
    BY <1>1, NoneIsNotEnough
  <2>2. ASSUME NEW i \in D PROVE r(i) \in Row
    <3>1. fields[i] \in Entry /\ fields[i].value # NotText
      BY <1>2 DEF Storable
    <3>2. NextRun \in Nat
      BY DEF NextRun
    <3>3. QED
      BY <2>1, <3>1, <3>2 DEF Row, Entry
  <2>3. QED
    BY <1>4, <2>2
<1>6. /\ \A row \in R : row.run = NextRun
      /\ {row.name : row \in R} = FieldNames
  <2>1. \A i \in D : r(i).run = NextRun /\ r(i).name = fields[i].name
    OBVIOUS
  <2>2. {row.name : row \in R} = {r(i).name : i \in D}
    BY <1>4
  <2>3. {r(i).name : i \in D} = {fields[i].name : i \in D}
    BY <2>1
  <2>4. \A row \in R : row.run = NextRun
    BY <1>4, <2>1
  <2>5. QED
    BY <1>1, <2>2, <2>3, <2>4
<1>7. \A i, j \in D : r(i) = r(j) => i = j
  <2>1. \A i, j \in D : r(i) = r(j) => fields[i].name = fields[j].name
    OBVIOUS
  <2>2. QED
    BY <1>1, <2>1
<1>8. /\ \A i \in D : /\ r(i).status = fields[i].status
                     /\ fields[i].confidence \in {"HIGH", "MEDIUM", "LOW"}
      /\ \A i \in D : r(i).overall = "NONE"
            <=> i = 1 /\ OverallConfidence(fields) = "NONE"
  <2>1. NoValue # "NONE"
    BY ScoringRulesAssumption DEF Levels
  <2>2. QED
    BY <1>2, <2>1 DEF Entry
<1> HIDE DEF r
<1>9. Cardinality(R) = Cardinality(D)
  <2> DEFINE f == [i \in D |-> r(i)]
  <2>1. f \in [D -> R] /\ \A i \in D : f[i] = r(i)
    BY <1>4
  <2>2. \A row \in R : \E i \in D : f[i] = row
    BY <1>4, <2>1
  <2>3. \A i, j \in D : f[i] = f[j] => i = j
    BY <1>7, <2>1
  <2> HIDE DEF f, D, R
  <2>4. QED
    BY <1>3, <2>1, <2>2, <2>3, OneToOneKeepsCount
<1>10. Cardinality(FieldNames) = Cardinality(D)
  <2> DEFINE f == [i \in D |-> fields[i].name]
  <2>1. f \in [D -> FieldNames] /\ \A i \in D : f[i] = fields[i].name
    BY <1>1
  <2>2. \A name \in FieldNames : \E i \in D : f[i] = name
    BY <1>1, <2>1
  <2>3. \A i, j \in D : f[i] = f[j] => i = j
    BY <1>1, <2>1
  <2> HIDE DEF f, D
  <2>4. QED
    BY <1>3, <2>1, <2>2, <2>3, OneToOneKeepsCount
<1>11. Cardinality({row \in R : row.status # "MISSING"})
        = FoundCount(fields)
  <2> DEFINE F == {i \in D : /\ fields[i].status # "MISSING"
                             /\ fields[i].confidence
                                   \in {"HIGH", "MEDIUM", "LOW"}}
             RF == {row \in R : row.status # "MISSING"}
             f == [i \in F |-> r(i)]
  <2>1. FoundCount(fields) = Cardinality(F)
    BY DEF FoundCount, Count
  <2>2. F \in SUBSET D /\ IsFiniteSet(F)
    BY <1>3, FS_Subset
  <2>3. RF = {r(i) : i \in F}
    BY <1>4, <1>8
  <2> HIDE DEF F, RF
  <2>4. f \in [F -> RF] /\ \A i \in F : f[i] = r(i)
    BY <2>3
  <2>5. \A row \in RF : \E i \in F : f[i] = row
    BY <2>3, <2>4
  <2>6. \A i, j \in F : f[i] = f[j] => i = j
    BY <1>7, <2>2, <2>4
  <2> HIDE DEF f
  <2>7. Cardinality(RF) = Cardinality(F)
    BY <2>2, <2>4, <2>5, <2>6, OneToOneKeepsCount
  <2>8. QED
    BY <2>1, <2>7 DEF RF
<1>12. ASSUME fields # <<>>
       PROVE  "NONE" \in {row.overall : row \in R} <=> ~Enough(fields)
  <2>1. 1 \in D
    BY <1>1, <1>2, <1>12
  <2>2. OverallConfidence(fields) = "NONE" <=> ~Enough(fields)
    BY <1>1, NoneIsNotEnough DEF Enough
  <2>3. "NONE" \in {row.overall : row \in R}
          <=> \E i \in D : r(i).overall = "NONE"
    BY <1>4
  <2>4. QED
    BY <1>8, <2>1, <2>2, <2>3
<1>13. QED
  BY <1>5, <1>6, <1>9, <1>10, <1>11, <1>12

(* What scoring and the deal card read of an extracted deal is its answer.  *)
LEMMA LatestFieldsAreTheAnswer ==
    ASSUME TypeOK, RunsInv, Extracted
    PROVE  /\ LatestRun = NextRun
           /\ DOMAIN LatestFields = FieldNames
           /\ \A i \in DOMAIN answer :
                LET field == LatestFields[answer[i].name]
                IN  /\ field.status = answer[i].status
                    /\ field.value = answer[i].value
           /\ \A name \in FieldNames :
                LatestFields[name].value \in Texts \cup {NoValue}
<1>1. /\ Valid(answer)
      /\ Storable(answer)
      /\ RowsOfRun(NextRun) = RowsOf(answer)
      /\ NextRun \in Runs
      /\ \A n \in Runs : n <= NextRun
      /\ Runs \subseteq Nat
  BY DEF RunsInv, LatestIsAnswer, NumbersAreFresh, TypeOK, Runs, Row
<1>2. LatestRun = NextRun
  <2>1. \A n \in Runs : (\A m \in Runs : m <= n) => n = NextRun
    BY <1>1
  <2>2. QED
    BY <1>1, <2>1 DEF LatestRun
<1>3. /\ \A row \in RowsOf(answer) : row \in Row
      /\ {row.name : row \in RowsOf(answer)} = FieldNames
  BY <1>1, StoredRun DEF TypeOK
<1>4. LatestFields = [name \in FieldNames |->
                        CHOOSE row \in RowsOf(answer) : row.name = name]
  BY <1>1, <1>2, <1>3 DEF LatestFields, RowsOfRun
<1>5. \A name \in FieldNames : /\ LatestFields[name] \in RowsOf(answer)
                               /\ LatestFields[name].name = name
  <2> TAKE name \in FieldNames
  <2>1. \E row \in RowsOf(answer) : row.name = name
    BY <1>3
  <2>2. QED
    BY <1>4, <2>1
<1>6. ASSUME NEW i \in DOMAIN answer
      PROVE  /\ LatestFields[answer[i].name].status = answer[i].status
             /\ LatestFields[answer[i].name].value = answer[i].value
  <2>1. answer[i].name \in FieldNames
    BY <1>1 DEF Valid, NamesOf
  <2>2. PICK j \in DOMAIN answer :
          /\ LatestFields[answer[i].name].name = answer[j].name
          /\ LatestFields[answer[i].name].status = answer[j].status
          /\ LatestFields[answer[i].name].value = answer[j].value
    BY <1>5, <2>1 DEF RowsOf
  <2>3. j = i
    BY <1>1, <1>5, <2>1, <2>2 DEF Valid
  <2>4. QED
    BY <2>2, <2>3
<1>7. \A name \in FieldNames :
        LatestFields[name].value \in Texts \cup {NoValue}
  BY <1>3, <1>5 DEF Row
<1>8. QED
  BY <1>2, <1>4, <1>6, <1>7

(* The latest run of an extracted deal is its answer, which found enough;   *)
(* every other run is insufficient.                                         *)
LEMMA RunsInvImpliesThreshold ==
    ASSUME TypeOK, RunsInv
    PROVE  ThresholdDecides
<1> DEFINE good == {n \in Runs : Found(n) >= MinFound}
           saysNone(n) == "NONE" \in {row.overall : row \in RowsOfRun(n)}
<1>1. ASSUME NEW n \in Runs, n # NextRun
      PROVE  n \notin good /\ saysNone(n)
  BY <1>1 DEF RunsInv, OldRunsFailed, Insufficient
<1>2. CASE Extracted
  <2>1. LatestRun = NextRun /\ NextRun \in Runs
    BY <1>2, LatestFieldsAreTheAnswer DEF RunsInv, NumbersAreFresh
  <2>2. /\ Valid(answer)
        /\ Storable(answer)
        /\ Enough(answer)
        /\ RowsOfRun(NextRun) = RowsOf(answer)
    BY <1>2 DEF RunsInv, LatestIsAnswer
  <2>3. answer # <<>>
    <3>1. \E row \in RowsOf(answer) : TRUE
      BY <2>1, <2>2 DEF Runs, RowsOfRun
    <3>2. QED
      BY <3>1 DEF RowsOf
  <2>4. NextRun \in good /\ ~saysNone(NextRun)
    BY <2>1, <2>2, <2>3, StoredRun DEF Found, Enough, TypeOK
  <2>5. good = {NextRun} /\ \A n \in Runs : n \notin good <=> saysNone(n)
    BY <1>1, <2>1, <2>4
  <2>6. QED
    BY <1>2, <2>1, <2>5 DEF ThresholdDecides, Extracted
<1>3. CASE ~Extracted
  <2>1. NextRun \notin Runs
    BY <1>3 DEF RunsInv, NumbersAreFresh
  <2>2. good = {} /\ \A n \in Runs : n \notin good <=> saysNone(n)
    BY <1>1, <2>1
  <2>3. QED
    BY <1>3, <2>2 DEF ThresholdDecides, Extracted
<1>4. QED
  BY <1>2, <1>3

(* evaluate_criterion() skips what was not found, and needs a value to say  *)
(* that it matches.                                                         *)
LEMMA OutcomeIsTyped ==
    ASSUME NEW criterion \in Criterion, NEW fields
    PROVE  /\ Outcome(criterion, fields)
                \in {"skipped", "error", "matched", "unmatched"}
           /\ Outcome(criterion, fields) = "skipped"
                <=> \/ criterion.field \notin DOMAIN fields
                    \/ fields[criterion.field].status = "MISSING"
                    \/ fields[criterion.field].value = NoValue
           /\ Outcome(criterion, fields) = "matched" =>
                /\ fields[criterion.field].value # NoValue
                /\ Matches(fields[criterion.field].value,
                           criterion.operator, criterion.target)
  BY DEF Outcome

(* The fields read are the answer's, so what was skipped is what it lacks.  *)
LEMMA InvImpliesScoredFromAnswer ==
    ASSUME TypeOK, RunsInv, Judged
    PROVE  ScoredWhatWasExtracted
<1> SUFFICES ASSUME status = "SCORED"
             PROVE  /\ NamesOf(answer) = DOMAIN LatestFields
                    /\ \A i \in DOMAIN answer :
                         /\ LatestFields[answer[i].name].value
                                = answer[i].value
                         /\ LatestFields[answer[i].name].status
                                = answer[i].status
                    /\ \A i \in DOMAIN criteria :
                         LET read == {k \in DOMAIN answer :
                                        /\ answer[k].name = criteria[i].field
                                        /\ answer[k].status # "MISSING"}
                         IN  verdict.results[i].outcome = "skipped"
                                <=> read = {}
  BY DEF ScoredWhatWasExtracted
<1>1. Extracted /\ Valid(answer)
  BY DEF Extracted, RunsInv, LatestIsAnswer
<1>2. /\ DOMAIN LatestFields = FieldNames
      /\ \A i \in DOMAIN answer :
           /\ LatestFields[answer[i].name].status = answer[i].status
           /\ LatestFields[answer[i].name].value = answer[i].value
  BY <1>1, LatestFieldsAreTheAnswer
<1>3. NamesOf(answer) = FieldNames
  BY <1>1 DEF Valid
<1>4. ASSUME NEW i \in DOMAIN criteria
      PROVE  LET read == {k \in DOMAIN answer :
                            /\ answer[k].name = criteria[i].field
                            /\ answer[k].status # "MISSING"}
             IN  verdict.results[i].outcome = "skipped" <=> read = {}
  <2>1. criteria \in Seq(Criterion) /\ verdict.results \in Seq(Result)
    BY ScreeningAssumption DEF TypeOK
  <2>2. criteria[i] \in Criterion /\ i \in DOMAIN verdict.results
    BY <2>1 DEF Judged
  <2>3. verdict.results[i].outcome = Outcome(criteria[i], LatestFields)
    BY <2>2 DEF Judged, Evaluated
  <2>4. criteria[i].field \in FieldNames
    BY <2>2 DEF Criterion
  <2>5. PICK k \in DOMAIN answer : answer[k].name = criteria[i].field
    BY <1>3, <2>4 DEF NamesOf
  <2>6. \A j \in DOMAIN answer : answer[j].name = criteria[i].field => j = k
    BY <1>1, <2>5 DEF Valid
  <2>7. verdict.results[i].outcome = "skipped"
          <=> answer[k].status = "MISSING" \/ answer[k].value = NoValue
    BY <1>2, <2>2, <2>3, <2>4, <2>5, OutcomeIsTyped
  <2>8. answer[k].status = "MISSING" <=> answer[k].value = NoValue
    BY <1>1 DEF Valid
  <2>9. QED
    BY <2>5, <2>6, <2>7, <2>8
<1>5. QED
  BY <1>2, <1>3, <1>4

(* A criterion that matched had a text to match.                            *)
LEMMA InvImpliesEvidence ==
    ASSUME TypeOK, RunsInv, Judged
    PROVE  MetOnEvidence
<1> SUFFICES ASSUME status = "SCORED",
                    NEW i \in With(verdict.results, {"matched"})
             PROVE  LET operator == criteria[i].operator
                        target == criteria[i].target
                        value == LatestFields[criteria[i].field].value
                    IN  /\ value \in Texts
                        /\ operator \in {"gt", "lt", "gte", "lte"} =>
                                NumberOf[value] # NotANumber
                        /\ operator \in {"in", "not_in"} => target.list
                        /\ operator \in DOMAIN Opposite =>
                                ~Matches(value, Opposite[operator], target)
  BY DEF MetOnEvidence, Rationale
<1> DEFINE value == LatestFields[criteria[i].field].value
<1>1. criteria \in Seq(Criterion) /\ verdict.results \in Seq(Result)
  BY ScreeningAssumption DEF TypeOK
<1>2. /\ criteria[i] \in Criterion
      /\ i \in DOMAIN verdict.results
      /\ verdict.results[i].outcome = "matched"
  BY <1>1 DEF Judged, With
<1>3. Outcome(criteria[i], LatestFields) = "matched"
  BY <1>2 DEF Judged, Evaluated
<1>4. /\ value # NoValue
      /\ Matches(value, criteria[i].operator, criteria[i].target)
  BY <1>2, <1>3, OutcomeIsTyped
<1>5. /\ criteria[i].field \in FieldNames
      /\ criteria[i].operator \in Operators
      /\ criteria[i].target \in Target
  BY <1>2 DEF Criterion
<1>6. value \in Texts
  BY <1>4, <1>5, LatestFieldsAreTheAnswer DEF Extracted
<1> HIDE DEF value
<1>7. QED
  BY <1>4, <1>5, <1>6, MatchesNeedEvidence DEF value

(* The verdict stores what _compute_score() returned.                       *)
LEMMA InvImpliesNearest ==
    ASSUME TypeOK, Judged
    PROVE  ScoreIsNearest
  BY ScoreIsRight DEF ScoreIsNearest, ScoreFits, TypeOK, Judged

(* The verdict stores what _compute_scoring_confidence() returned.          *)
LEMMA InvImpliesGaps ==
    ASSUME TypeOK, Judged
    PROVE  GapsLowerConfidence
  BY ConfidenceFallsWithGaps
     DEF GapsLowerConfidence, Skip, TypeOK, Judged

-----------------------------------------------------------------------------
(* What the steps do to the runs and to the verdict. *)

(* A step that writes nothing of the extraction.                            *)
LEMMA RunsStand ==
    ASSUME RunsInv, UNCHANGED <<retry_count, rows, answer>>,
           Extracted' <=> Extracted
    PROVE  RunsInv'
<1> USE DEF RunsInv
<1>1. NextRun' = NextRun /\ Runs' = Runs
  BY DEF NextRun, Runs
<1>2. \A n : RowsOfRun(n)' = RowsOfRun(n)
  BY DEF RowsOfRun
<1>3. RowsOf(answer)' = RowsOf(answer)
  BY DEF RowsOf, NextRun
<1>4. NumbersAreFresh'
  BY <1>1 DEF NumbersAreFresh
<1>5. RunsAreWhole'
  BY <1>1, <1>2 DEF RunsAreWhole
<1>6. OldRunsFailed'
  BY <1>1, <1>2 DEF OldRunsFailed, Insufficient, Found
<1>7. LatestIsAnswer'
  BY <1>1, <1>2, <1>3 DEF LatestIsAnswer, Enough, Storable, Valid
<1>8. QED
  BY <1>4, <1>5, <1>6, <1>7

(* _mark_deal_failed(): the next number is free because retry_count grows.  *)
LEMMA FailureKeepsRuns ==
    ASSUME TypeOK, RunsInv, ~Extracted, MarkFailed, rows' = rows
    PROVE  RunsInv'
<1>1. /\ retry_count \in Nat
      /\ NextRun' = NextRun + 1
      /\ Runs' = Runs
      /\ Runs \subseteq Nat
  BY DEF TypeOK, MarkFailed, NextRun, Runs, Row
<1>2. ~Extracted'
  BY DEF Extracted, MarkFailed
<1>3. \A n : RowsOfRun(n)' = RowsOfRun(n)
  BY DEF RowsOfRun
<1>4. NextRun \notin Runs /\ \A n \in Runs : n <= NextRun
  BY DEF RunsInv, NumbersAreFresh
<1>5. NumbersAreFresh'
  <2>1. \A n \in Runs : n <= NextRun + 1 /\ n # NextRun + 1
    BY <1>1, <1>4 DEF NextRun
  <2>2. QED
    BY <1>1, <1>2, <2>1 DEF NumbersAreFresh
<1>6. RunsAreWhole'
  BY <1>1, <1>3 DEF RunsInv, RunsAreWhole
<1>7. OldRunsFailed'
  BY <1>1, <1>3, <1>4 DEF RunsInv, OldRunsFailed, Insufficient, Found
<1>8. LatestIsAnswer'
  BY <1>2 DEF LatestIsAnswer
<1>9. QED
  BY <1>5, <1>6, <1>7, <1>8 DEF RunsInv

(* _process_extraction_result(): the rows go under a free number; below the *)
(* threshold the number is left behind with the failure.                    *)
LEMMA StoringAddsARun ==
    ASSUME TypeOK, RunsInv, ~Extracted,
           NEW response, AnswerStored(response)
    PROVE  RunsInv' /\ rows' \subseteq Row
<1>1. /\ retry_count \in Nat
      /\ Runs \subseteq Nat
      /\ NextRun \notin Runs
      /\ \A n \in Runs : n <= NextRun
  BY DEF TypeOK, RunsInv, NumbersAreFresh, Runs, Row
<1> PICK m \in Nat : m = NextRun
  BY <1>1 DEF NextRun
<1> DEFINE new == RowsOf(response)
<1>2. /\ new \subseteq Row
      /\ \A row \in new : row.run = m
      /\ {row.name : row \in new} = FieldNames
      /\ Cardinality(new) = Cardinality(FieldNames)
      /\ Cardinality({row \in new : row.status # "MISSING"})
           = FoundCount(response)
      /\ response # <<>> =>
           ("NONE" \in {row.overall : row \in new} <=> ~Enough(response))
  BY <1>1, StoredRun DEF AnswerStored
<1>3. response = <<>> <=> new = {}
  <2>1. response \in Seq(Entry)
    BY DEF AnswerStored, Valid
  <2>2. new = {} <=> DOMAIN response = {}
    <3> DEFINE r(i) == [run |-> NextRun,
                        name |-> response[i].name,
                        status |-> response[i].status,
                        confidence |-> response[i].confidence,
                        value |-> response[i].value,
                        overall |-> IF i = 1 THEN OverallConfidence(response)
                                             ELSE NoValue]
    <3>1. new = {r(i) : i \in DOMAIN response}
      BY DEF RowsOf
    <3> HIDE DEF new, r
    <3>2. QED
      BY <3>1
  <2>3. response = <<>> <=> DOMAIN response = {}
    BY <2>1
  <2>4. QED
    BY <2>2, <2>3
<1>4. rows' = rows \cup new
  BY DEF AnswerStored
<1> HIDE DEF new
<1>5. /\ \A n \in Runs : n # m /\ RowsOfRun(n)' = RowsOfRun(n)
      /\ RowsOfRun(m)' = new
      /\ Runs' = Runs \cup IF response = <<>> THEN {} ELSE {m}
  <2>1. \A n \in Runs : n # m
    BY <1>1
  <2>2. \A row \in rows : row.run # m
    BY <1>1 DEF Runs
  <2>3. RowsOfRun(m)' = new
    BY <1>2, <1>4, <2>2 DEF RowsOfRun
  <2>4. \A n \in Runs : RowsOfRun(n)' = RowsOfRun(n)
    BY <1>2, <1>4, <2>1 DEF RowsOfRun
  <2>5. Runs' = Runs \cup {row.run : row \in new}
    BY <1>4 DEF Runs
  <2>6. {row.run : row \in new} = IF response = <<>> THEN {} ELSE {m}
    BY <1>2, <1>3
  <2>7. QED
    BY <2>1, <2>3, <2>4, <2>5, <2>6
<1>6. RunsAreWhole'
  <2> SUFFICES ASSUME NEW n \in Runs'
               PROVE  /\ {row.name : row \in RowsOfRun(n)'} = FieldNames
                      /\ Cardinality(RowsOfRun(n)') = Cardinality(FieldNames)
    BY DEF RunsAreWhole
  <2>1. CASE n \in Runs
    BY <1>5, <2>1 DEF RunsInv, RunsAreWhole
  <2>2. CASE n = m
    BY <1>2, <1>5, <2>2
  <2>3. QED
    BY <1>5, <2>1, <2>2
<1>7. \A n \in Runs : Insufficient(n)'
  BY <1>1, <1>5 DEF RunsInv, OldRunsFailed, Insufficient, Found
<1>8. CASE Enough(response)
  <2>1. /\ status' = "EXTRACTED"
        /\ answer' = response
        /\ retry_count' = retry_count
    BY <1>8 DEF AnswerStored
  <2>2. NextRun' = m /\ Extracted'
    BY <2>1 DEF NextRun, Extracted
  <2>3. response # <<>>
    <3> SUFFICES ASSUME response = <<>> PROVE FALSE
      OBVIOUS
    <3>1. {row \in new : row.status # "MISSING"} = {}
      BY <1>3
    <3>2. FoundCount(response) = 0
      BY <1>2, <3>1, FS_EmptySet
    <3>3. QED
      BY <1>8, <3>2, ScoringRulesAssumption DEF Enough
  <2>4. NumbersAreFresh'
    BY <1>1, <1>5, <2>2, <2>3 DEF NumbersAreFresh
  <2>5. OldRunsFailed'
    BY <1>5, <1>7, <2>2 DEF OldRunsFailed
  <2>6. LatestIsAnswer'
    <3>1. Valid(answer)' /\ Storable(answer)' /\ Enough(answer)'
      BY <1>8, <2>1 DEF AnswerStored, Valid, Storable, Enough
    <3>2. RowsOf(answer)' = new
      BY <2>1, <2>2 DEF RowsOf, new
    <3>3. RowsOfRun(NextRun)' = new
      BY <1>5, <2>2 DEF RowsOfRun
    <3>4. QED
      BY <3>1, <3>2, <3>3 DEF LatestIsAnswer
  <2>7. QED
    BY <1>2, <1>4, <1>6, <2>4, <2>5, <2>6 DEF RunsInv, TypeOK
<1>9. CASE ~Enough(response)
  <2>1. status' = "FAILED" /\ retry_count' = retry_count + 1
    BY <1>9 DEF AnswerStored, MarkFailed
  <2>2. NextRun' = m + 1 /\ m \in Nat /\ ~Extracted'
    BY <1>1, <2>1 DEF NextRun, Extracted
  <2>3. NumbersAreFresh'
    <3>1. \A n \in Runs' : n <= m + 1 /\ n # m + 1
      BY <1>1, <1>5, <2>2
    <3>2. QED
      BY <2>2, <3>1 DEF NumbersAreFresh
  <2>4. OldRunsFailed'
    <3>1. m \in Runs' => Insufficient(m)'
      BY <1>2, <1>3, <1>5, <1>9, <1>1 DEF Insufficient, Found, Enough
    <3>2. \A n \in Runs' : Insufficient(n)'
      BY <1>5, <1>7, <3>1
    <3>3. QED
      BY <3>2 DEF OldRunsFailed
  <2>5. LatestIsAnswer'
    BY <2>2 DEF LatestIsAnswer
  <2>6. QED
    BY <1>2, <1>4, <1>6, <2>3, <2>4, <2>5 DEF RunsInv, TypeOK
<1>10. QED
  BY <1>8, <1>9

(* A verdict stays true while neither it nor the rows are written.          *)
LEMMA VerdictStands ==
    ASSUME Judged, UNCHANGED <<rows, verdict, criteria>>,
           status' = "SCORED" => status = "SCORED"
    PROVE  Judged'
<1>1. LatestFields' = LatestFields
  BY DEF LatestFields, LatestRun, Runs
<1>2. QED
  BY <1>1 DEF Judged, Evaluated

-----------------------------------------------------------------------------
(* The invariant holds initially and every step keeps it. *)

(* A deal just uploaded, its job queued.                                    *)
LEMMA InitScreening ==
    ASSUME Init
    PROVE  ScreeningInv
<1> USE ScreeningAssumption DEF Init
<1>1. TypeOK
  BY DEF TypeOK, NoVerdict, Levels, Stages
<1>2. Handling /\ Judging /\ Judged
  BY DEF Handling, Judging, Judged, Extracted
<1>3. Runs = {} /\ ~Extracted
  BY DEF Runs, Extracted
<1>4. RunsInv
  BY <1>3 DEF RunsInv, NumbersAreFresh, RunsAreWhole, OldRunsFailed,
              LatestIsAnswer
<1>5. QED
  BY <1>1, <1>2, <1>4 DEF ScreeningInv

(* One step per action of Next.                                             *)
LEMMA NextKeepsScreening ==
    ASSUME ScreeningInv, [Next]_vars
    PROVE  ScreeningInv'
<1> USE DEF ScreeningInv
<1>1. ASSUME UNCHANGED <<deal, criteria, answer>> PROVE RunsInv' /\ Judged'
  <2>1. UNCHANGED <<status, retry_count, rows, verdict, criteria, answer>>
    BY <1>1 DEF deal
  <2>2. RunsInv'
    BY <2>1, RunsStand DEF Extracted
  <2>3. Judged'
    BY <2>1, VerdictStands
  <2>4. QED
    BY <2>2, <2>3
<1>2. ASSUME MarkFailed, ~Extracted, UNCHANGED <<rows, verdict, criteria>>
      PROVE  RunsInv' /\ Judged'
  <2>1. status' # "SCORED"
    BY <1>2 DEF MarkFailed
  <2>2. RunsInv'
    BY <1>2, FailureKeepsRuns
  <2>3. QED
    BY <2>1, <2>2 DEF Judged
<1>3. ASSUME UNCHANGED <<rows, criteria, results>>, stage' = stage
      PROVE  Judging'
  <2>1. LatestFields' = LatestFields
    BY <1>3 DEF LatestFields, LatestRun, Runs
  <2>2. QED
    BY <1>3, <2>1 DEF Judging, Evaluated
<1>4. ASSUME Take PROVE ScreeningInv'
  <2>1. RunsInv' /\ Judged'
    BY <1>1, <1>4 DEF Take
  <2>2. TypeOK' /\ Handling' /\ Judging'
    BY <1>4, ScreeningAssumption
       DEF Take, TypeOK, Handling, Judging, Extracted, deal, queue, bounds,
           GoTo, Leave, Stages
  <2>3. QED
    BY <2>1, <2>2 DEF ScreeningInv
<1>5. ASSUME Refuse PROVE ScreeningInv'
  <2>1. RunsInv' /\ Judged'
    BY <1>1, <1>5 DEF Refuse
  <2>2. TypeOK' /\ Handling' /\ Judging'
    BY <1>5, ScreeningAssumption
       DEF Refuse, TypeOK, Handling, Judging, Extracted, deal, queue, bounds,
           GoTo, Leave, Stages
  <2>3. QED
    BY <2>1, <2>2 DEF ScreeningInv
<1>6. ASSUME ReadDocument PROVE ScreeningInv'
  <2>1. RunsInv' /\ Judged'
    BY <1>1, <1>6 DEF ReadDocument
  <2>2. TypeOK' /\ Handling' /\ Judging'
    BY <1>6, ScreeningAssumption
       DEF ReadDocument, TypeOK, Handling, Judging, Extracted, deal, queue,
           bounds, GoTo, Leave, Stages
  <2>3. QED
    BY <2>1, <2>2 DEF ScreeningInv
<1>7. ASSUME UnreadableDocument PROVE ScreeningInv'
  <2>1. ~Extracted /\ MarkFailed /\ UNCHANGED <<rows, verdict, criteria>>
    BY <1>7 DEF UnreadableDocument, Extracted
  <2>2. RunsInv' /\ Judged'
    BY <1>2, <2>1
  <2>3. TypeOK' /\ Handling' /\ Judging'
    BY <1>7, ScreeningAssumption
       DEF UnreadableDocument, MarkFailed, TypeOK, Handling, Judging,
           Extracted, queue, Leave, Stages
  <2>4. QED
    BY <2>2, <2>3
<1>8. ASSUME CallFails PROVE ScreeningInv'
  <2>1. CASE attempt < MAX_RETRIES
    <3>1. /\ UNCHANGED <<deal, criteria, answer, job, failures, bounds>>
          /\ UNCHANGED <<stage, results>>
          /\ attempt' = attempt + 1
      BY <1>8, <2>1, ScreeningAssumption
         DEF CallFails, deal, queue, TypeOK
    <3>2. RunsInv' /\ Judged'
      BY <1>1, <3>1
    <3>3. TypeOK' /\ Handling' /\ Judging'
      BY <1>3, <2>1, <3>1, ScreeningAssumption
         DEF TypeOK, Handling, Extracted, deal, bounds
    <3>4. QED
      BY <3>2, <3>3
  <2>2. CASE attempt = MAX_RETRIES
    <3>1. /\ ~Extracted
          /\ MarkFailed
          /\ stage = "calling"
          /\ UNCHANGED <<rows, verdict, criteria, job, failures, bounds>>
      BY <1>8, <2>2, ScreeningAssumption DEF CallFails, Handling, queue
    <3>2. RunsInv' /\ Judged'
      BY <1>2, <3>1
    <3>3. TypeOK' /\ Handling' /\ Judging'
      BY <3>1, ScreeningAssumption
         DEF MarkFailed, TypeOK, Handling, Judging, Extracted, Leave, Stages,
             bounds
    <3>4. QED
      BY <3>2, <3>3
  <2>3. QED
    BY <1>8, <2>1, <2>2 DEF CallFails
<1>9. ASSUME NEW response \in Responses, AnswerInvalid(response)
      PROVE  ScreeningInv'
  <2>1. /\ ~Extracted
        /\ MarkFailed
        /\ stage = "calling"
        /\ UNCHANGED <<rows, verdict, criteria, job, failures, bounds>>
    BY <1>9 DEF AnswerInvalid, Handling, queue
  <2>2. RunsInv' /\ Judged'
    BY <1>2, <2>1
  <2>3. TypeOK' /\ Handling' /\ Judging'
    BY <2>1, ScreeningAssumption
       DEF MarkFailed, TypeOK, Handling, Judging, Extracted, Leave, Stages,
           bounds
  <2>4. QED
    BY <2>2, <2>3
<1>10. ASSUME NEW response \in Responses, AnswerUnstorable(response)
      PROVE  ScreeningInv'
  <2>1. RunsInv' /\ Judged'
    BY <1>1, <1>10 DEF AnswerUnstorable
  <2>2. TypeOK' /\ Handling' /\ Judging'
    BY <1>10, ScreeningAssumption
       DEF AnswerUnstorable, TypeOK, Handling, Judging, Extracted, deal,
           queue, bounds, Leave, Stages
  <2>3. QED
    BY <2>1, <2>2
<1>11. ASSUME NEW response \in Responses, AnswerStored(response)
      PROVE  ScreeningInv'
  <2>1. ~Extracted /\ stage = "calling"
    BY <1>11 DEF AnswerStored, Handling
  <2>2. RunsInv' /\ rows' \subseteq Row
    BY <1>11, <2>1, StoringAddsARun
  <2>3. UNCHANGED <<verdict, criteria, job, failures, bounds>>
    BY <1>11 DEF AnswerStored, queue
  <2>4. CASE Enough(response)
    <3>1. /\ status' = "EXTRACTED"
          /\ stage' = "extracted" /\ attempt' = 0 /\ results' = <<>>
          /\ retry_count' = retry_count
      BY <1>11, <2>4 DEF AnswerStored, Leave
    <3>2. TypeOK'
      BY <2>1, <2>2, <2>3, <3>1, ScreeningAssumption
         DEF TypeOK, Stages, bounds
    <3>3. Handling' /\ Judging' /\ Judged'
      BY <2>1, <2>3, <3>1 DEF Handling, Judging, Judged
    <3>4. QED
      BY <2>2, <3>2, <3>3
  <2>5. CASE ~Enough(response)
    <3>1. MarkFailed
      BY <1>11, <2>5 DEF AnswerStored
    <3>2. TypeOK'
      BY <2>1, <2>2, <2>3, <3>1, ScreeningAssumption
         DEF MarkFailed, TypeOK, Leave, Stages, bounds
    <3>3. Handling' /\ Judging' /\ Judged'
      BY <2>1, <2>3, <3>1
         DEF MarkFailed, Leave, Handling, Judging, Judged, Extracted, TypeOK
    <3>4. QED
      BY <2>2, <3>2, <3>3
  <2>6. QED
    BY <2>4, <2>5
<1>12. ASSUME StartScoring PROVE ScreeningInv'
  <2>1. RunsInv' /\ Judged'
    BY <1>1, <1>12 DEF StartScoring
  <2>2. TypeOK' /\ Handling'
    BY <1>12, ScreeningAssumption
       DEF StartScoring, TypeOK, Handling, Extracted, deal, queue, bounds,
           GoTo, Stages
  <2>3. Judging'
    <3>1. results' = <<>> /\ Len(results') = 0 /\ DOMAIN results' = {}
      BY <1>12 DEF StartScoring, GoTo, Handling
    <3>2. Len(criteria') \in Nat
      BY <2>2, ScreeningAssumption DEF TypeOK
    <3>3. QED
      BY <3>1, <3>2 DEF Judging, Evaluated
  <2>4. QED
    BY <2>1, <2>2, <2>3
<1>13. ASSUME EvaluateNext PROVE ScreeningInv'
  <2> DEFINE criterion == criteria[Len(results) + 1]
             outcome == Outcome(criterion, LatestFields)
             result == [type |-> criterion.type,
                        weight |-> criterion.weight,
                        outcome |-> outcome]
  <2>1. RunsInv' /\ Judged'
    BY <1>1, <1>13 DEF EvaluateNext
  <2>2. /\ stage = "scoring"
        /\ results \in Seq(Result)
        /\ criteria \in Seq(Criterion)
        /\ Len(results) < Len(criteria)
        /\ UNCHANGED <<deal, criteria, queue, answer, bounds>>
    BY <1>13, ScreeningAssumption DEF EvaluateNext, TypeOK
  <2>3. CASE outcome = "error"
    <3>1. Leave("raised")
      BY <1>13, <2>3 DEF EvaluateNext
    <3>2. TypeOK' /\ Handling' /\ Judging'
      BY <2>2, <3>1, ScreeningAssumption
         DEF TypeOK, Handling, Judging, Extracted, deal, queue, bounds,
             Leave, Stages
    <3>3. QED
      BY <2>1, <3>2
  <2>4. CASE outcome # "error"
    <3>1. results' = Append(results, result) /\ UNCHANGED <<stage, attempt>>
      BY <1>13, <2>4 DEF EvaluateNext
    <3>2. criterion \in Criterion
      BY <2>2
    <3>3. outcome \in {"skipped", "matched", "unmatched"}
      BY <2>4, <3>2, OutcomeIsTyped
    <3>4. result \in Result
      <4> HIDE DEF criterion, outcome
      <4>1. QED
        BY <3>2, <3>3 DEF Criterion, Result
    <3> HIDE DEF result
    <3>5. /\ results' \in Seq(Result)
          /\ Len(results') = Len(results) + 1
          /\ \A i \in 1 .. Len(results) : results'[i] = results[i]
          /\ results'[Len(results) + 1] = result
      BY <2>2, <3>1, <3>4, AppendProperties
    <3>6. TypeOK' /\ Handling'
      BY <2>2, <3>1, <3>5, ScreeningAssumption
         DEF TypeOK, Handling, Extracted, deal, queue, bounds
    <3>7. Judging'
      <4>1. LatestFields' = LatestFields /\ criteria' = criteria
        BY <2>2 DEF LatestFields, LatestRun, Runs, deal
      <4>2. ASSUME NEW i \in DOMAIN results'
            PROVE  results'[i].outcome = Outcome(criteria[i], LatestFields)
        <5>1. CASE i \in 1 .. Len(results)
          BY <2>2, <3>5, <5>1 DEF Judging, Evaluated
        <5>2. CASE i = Len(results) + 1
          BY <3>5, <5>2 DEF result
        <5>3. QED
          BY <2>2, <3>5, <5>1, <5>2
      <4>3. Len(results') <= Len(criteria)
        BY <2>2, <3>5
      <4>4. QED
        BY <4>1, <4>2, <4>3 DEF Judging, Evaluated
    <3>8. QED
      BY <2>1, <3>6, <3>7
  <2>5. QED
    BY <2>3, <2>4
<1>14. ASSUME FinishScoring PROVE ScreeningInv'
  <2>1. /\ stage = "scoring"
        /\ status = "EXTRACTED"
        /\ results \in Seq(Result)
        /\ Len(results) = Len(criteria)
        /\ Evaluated(results)
        /\ verdict' = [score |-> Score(results),
                       confidence |-> Confidence(results, LatestFields),
                       results |-> results]
        /\ status' = "SCORED"
        /\ stage' = "returned" /\ attempt' = 0 /\ results' = <<>>
        /\ UNCHANGED <<retry_count, rows, criteria, queue, answer, bounds>>
    BY <1>14 DEF FinishScoring, Leave, TypeOK, Handling, Judging
  <2>2. Extracted /\ Extracted'
    BY <2>1 DEF Extracted
  <2>3. RunsInv'
    BY <2>1, <2>2, RunsStand
  <2>4. LatestFields' = LatestFields
    BY <2>1 DEF LatestFields, LatestRun, Runs
  <2>5. Judged'
    BY <2>1, <2>4 DEF Judged, Evaluated
  <2>6. /\ Score(results) \in 0 .. 100
        /\ Confidence(results, LatestFields) \in Levels
    BY <2>1, ScoreIsRight, ConfidenceFallsWithGaps
  <2>7. TypeOK' /\ Handling' /\ Judging'
    BY <2>1, <2>6, ScreeningAssumption
       DEF TypeOK, Handling, Judging, Extracted, queue, bounds, Stages
  <2>8. QED
    BY <2>3, <2>5, <2>7
<1>15. ASSUME DatabaseError PROVE ScreeningInv'
  <2>1. RunsInv' /\ Judged'
    BY <1>1, <1>15 DEF DatabaseError
  <2>2. TypeOK' /\ Handling' /\ Judging'
    BY <1>15, ScreeningAssumption
       DEF DatabaseError, TypeOK, Handling, Judging, Extracted, deal, queue,
           bounds, GoTo, Leave, Stages
  <2>3. QED
    BY <2>1, <2>2 DEF ScreeningInv
<1>16. ASSUME Succeed PROVE ScreeningInv'
  <2>1. RunsInv' /\ Judged'
    BY <1>1, <1>16 DEF Succeed
  <2>2. TypeOK' /\ Handling' /\ Judging'
    BY <1>16, ScreeningAssumption
       DEF Succeed, TypeOK, Handling, Judging, Extracted, deal, queue, bounds,
           GoTo, Leave, Stages
  <2>3. QED
    BY <2>1, <2>2 DEF ScreeningInv
<1>17. ASSUME Fail PROVE ScreeningInv'
  <2>1. RunsInv' /\ Judged'
    BY <1>1, <1>17 DEF Fail
  <2>2. TypeOK' /\ Handling' /\ Judging'
    BY <1>17, ScreeningAssumption
       DEF Fail, TypeOK, Handling, Judging, Extracted, deal, queue, bounds,
           GoTo, Leave, Stages
  <2>3. QED
    BY <2>1, <2>2 DEF ScreeningInv
<1>18. ASSUME Crash PROVE ScreeningInv'
  <2>1. RunsInv' /\ Judged'
    BY <1>1, <1>18 DEF Crash
  <2>2. TypeOK' /\ Handling' /\ Judging'
    BY <1>18, ScreeningAssumption
       DEF Crash, TypeOK, Handling, Judging, Extracted, deal, queue, bounds,
           GoTo, Leave, Stages
  <2>3. QED
    BY <2>1, <2>2 DEF ScreeningInv
<1>19. ASSUME UNCHANGED vars PROVE ScreeningInv'
  <2>1. UNCHANGED <<deal, criteria, queue, handler, answer, bounds>>
    BY <1>19 DEF vars
  <2>2. RunsInv' /\ Judged'
    BY <1>1, <2>1
  <2>3. TypeOK' /\ Handling' /\ Judging'
    BY <1>3, <2>1
       DEF TypeOK, Handling, Extracted, deal, queue, handler, bounds
  <2>4. QED
    BY <2>2, <2>3
<1>20. QED
  BY <1>4, <1>5, <1>6, <1>7, <1>8, <1>9, <1>10, <1>11, <1>12, <1>13,
     <1>14, <1>15, <1>16, <1>17, <1>18, <1>19
     DEF Next, HandlerStep

(* At every moment the runs are as RunsInv says, the handler has checked    *)
(* what its stage relies on, the budget of the job is not overdrawn, and    *)
(* results and verdict are what the criteria say of the latest run.         *)
THEOREM ScreeningInvariant == Spec => []ScreeningInv
<1>1. Init => ScreeningInv
  BY InitScreening
<1>2. ScreeningInv /\ [Next]_vars => ScreeningInv'
  BY NextKeepsScreening
<1>3. QED
  BY <1>1, <1>2, PTL DEF Spec

-----------------------------------------------------------------------------
(* The properties of the runs, for every instance. *)

(* Types and bounds: a score is a percentage, the calls and the failed      *)
(* attempts stay within MAX_RETRIES and the budget of the job.              *)
THEOREM ScreeningTypeCorrect == Spec => []TypeOK
<1>1. ScreeningInv => TypeOK
  BY DEF ScreeningInv
<1>2. QED
  BY <1>1, ScreeningInvariant, PTL

(* A run is stored whole or not at all, whatever runs came before it        *)
(* (_process_extraction_result, numbered by retry_count + 1).               *)
THEOREM RunsAlwaysWhole == Spec => []RunsAreWhole
<1>1. ScreeningInv => RunsAreWhole
  BY DEF ScreeningInv, RunsInv
<1>2. QED
  BY <1>1, ScreeningInvariant, PTL

(* MIN_FIELDS_FOR_EXTRACTION decides: exactly the latest run of an          *)
(* extracted deal found enough, and exactly the others are marked NONE.     *)
THEOREM ThresholdAlwaysDecides == Spec => []ThresholdDecides
<1>1. ScreeningInv => ThresholdDecides
  BY RunsInvImpliesThreshold DEF ScreeningInv
<1>2. QED
  BY <1>1, ScreeningInvariant, PTL

(* A scored deal was scored from the answer that made it EXTRACTED          *)
(* (_load_extracted_fields reads that run and no other).                    *)
THEOREM ScoresComeFromTheAnswer == Spec => []ScoredWhatWasExtracted
<1>1. ScreeningInv => ScoredWhatWasExtracted
  BY InvImpliesScoredFromAnswer DEF ScreeningInv
<1>2. QED
  BY <1>1, ScreeningInvariant, PTL

(* A criterion counts as met only on a value that its operator can read and *)
(* whose opposite does not hold of it too (criteria_evaluator.py).          *)
THEOREM MetCriteriaHaveEvidence == Spec => []MetOnEvidence
<1>1. ScreeningInv => MetOnEvidence
  BY InvImpliesEvidence DEF ScreeningInv
<1>2. QED
  BY <1>1, ScreeningInvariant, PTL

(* A score is the nearest percentage of the weight met, or 0 for a broken   *)
(* dealbreaker (_compute_score).                                            *)
THEOREM ScoresAreNearest == Spec => []ScoreIsNearest
<1>1. ScreeningInv => ScoreIsNearest
  BY InvImpliesNearest DEF ScreeningInv
<1>2. QED
  BY <1>1, ScreeningInvariant, PTL

(* One more criterion skipped never raises the confidence of a verdict      *)
(* (_compute_scoring_confidence).                                           *)
THEOREM GapsNeverHelp == Spec => []GapsLowerConfidence
<1>1. ScreeningInv => GapsLowerConfidence
  BY InvImpliesGaps DEF ScreeningInv
<1>2. QED
  BY <1>1, ScreeningInvariant, PTL

-----------------------------------------------------------------------------
(* What no redelivery does. *)

(* A step adds rows under a number of their own; what a run holds stays.    *)
RunsStay ==
    [][/\ rows \subseteq rows'
       /\ \A n \in Runs : RowsOfRun(n)' = RowsOfRun(n)]_vars

(* A stored verdict, its status and the run it was made from are final.     *)
VerdictIsFinal ==
    [][status = "SCORED" =>
         UNCHANGED <<status, rows, verdict, answer, retry_count>>]_vars

(* No redelivery of the job writes into a run that is in the table: the     *)
(* number it takes, retry_count + 1, is free whenever it stores.            *)
THEOREM RedeliveriesKeepRuns == Spec => RunsStay
<1>1. ASSUME ScreeningInv, [Next]_vars
      PROVE  /\ rows \subseteq rows'
             /\ \A n \in Runs : RowsOfRun(n)' = RowsOfRun(n)
  <2>1. CASE rows' = rows
    BY <2>1 DEF RowsOfRun
  <2>2. ASSUME NEW response, AnswerStored(response)
        PROVE  /\ rows \subseteq rows'
               /\ \A n \in Runs : RowsOfRun(n)' = RowsOfRun(n)
    <3>1. NextRun \notin Runs
      BY <1>1, <2>2
         DEF ScreeningInv, RunsInv, NumbersAreFresh, Handling, AnswerStored
    <3>2. rows' = rows \cup RowsOf(response)
      BY <2>2 DEF AnswerStored
    <3>3. \A row \in RowsOf(response) : row.run = NextRun
      BY <1>1, <2>2, StoredRun DEF ScreeningInv, TypeOK, AnswerStored
    <3>4. ASSUME NEW n \in Runs PROVE RowsOfRun(n)' = RowsOfRun(n)
      BY <3>1, <3>2, <3>3 DEF RowsOfRun
    <3>5. QED
      BY <3>2, <3>4
  <2>3. rows' = rows \/ \E response \in Responses : AnswerStored(response)
    BY <1>1
       DEF Next, HandlerStep, vars, deal, Take, Refuse, ReadDocument,
           UnreadableDocument, CallFails, AnswerInvalid, AnswerUnstorable,
           StartScoring, EvaluateNext, FinishScoring, DatabaseError,
           Succeed, Fail, Crash
  <2>4. QED
    BY <2>1, <2>2, <2>3
<1>2. QED
  BY <1>1, ScreeningInvariant, PTL DEF Spec, RunsStay

(* A job that is delivered again after its score was committed changes      *)
(* nothing of the deal: extract_deal() refuses the status and score_deal()  *)
(* is not reached.                                                          *)
THEOREM ScoredDealsStand == Spec => VerdictIsFinal
<1>1. ASSUME ScreeningInv, [Next]_vars, status = "SCORED"
      PROVE  UNCHANGED <<status, rows, verdict, answer, retry_count>>
  <2>1. stage \notin {"calling", "extracted", "scoring"}
    BY <1>1 DEF ScreeningInv, Handling, Extracted
  <2>2. QED
    BY <1>1, <2>1
       DEF Next, HandlerStep, vars, deal, Take, Refuse, ReadDocument,
           UnreadableDocument, CallFails, AnswerInvalid, AnswerUnstorable,
           AnswerStored, StartScoring, EvaluateNext, FinishScoring,
           DatabaseError, Succeed, Fail, Crash
<1>2. QED
  BY <1>1, ScreeningInvariant, PTL DEF Spec, VerdictIsFinal
=============================================================================
