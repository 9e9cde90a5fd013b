----------------------------- MODULE ScoringRules -----------------------------
(***************************************************************************)
(* The pure part of the screening pipeline: what the LLM client accepts as *)
(* an answer, how sure an extraction is, and how extracted fields and a    *)
(* criteria config become a score, a confidence and a rationale            *)
(* (src/app/services: llm_client.py, extraction_service.py,                *)
(* criteria_evaluator.py, scoring_service.py).                             *)
(*                                                                         *)
(* A text is a value of Texts; what Python's float(), strip(), lower() and *)
(* "in" make of it is given by NumberOf, Normal and Within.  Weights are   *)
(* natural numbers of some unit, so that a score is an exact fraction;     *)
(* floating point error is not modelled.                                   *)
(***************************************************************************)
EXTENDS Integers, Sequences, FiniteSets

CONSTANTS
    FieldNames,     \* the core extraction fields
    MinFound,       \* MIN_FIELDS_FOR_EXTRACTION
    Texts,          \* texts a field or a target can hold
    NumberOf,       \* float() of a text without "$" and ",", or NotANumber
    Normal,         \* the text in lower case, without outer blanks
    Within,         \* pairs <<s, t>>: s occurs in t
    NoValue,        \* null
    NotText,        \* any other JSON value: a number, a list, an object
    NotANumber

Levels == {"HIGH", "MEDIUM", "LOW", "NONE"}

ASSUME ScoringRulesAssumption ==
    /\ IsFiniteSet(FieldNames)
    /\ MinFound \in Nat \ {0}
    /\ NumberOf \in [Texts -> Int \cup {NotANumber}]
    /\ Normal \in [Texts -> Texts]
    /\ Within \subseteq Texts \X Texts
    /\ {NoValue, NotText} \cap Texts = {}
    /\ NoValue # NotText
    /\ NoValue \notin Levels

(* From the least sure to the surest.                                      *)
Rank == [NONE |-> 0, LOW |-> 1, MEDIUM |-> 2, HIGH |-> 3]

-----------------------------------------------------------------------------
(* An extraction: a sequence of entries, one JSON object per field. *)

Entry == [name : FieldNames,
          status : {"FOUND", "INFERRED", "MISSING"},
          confidence : {"HIGH", "MEDIUM", "LOW"},
          value : Texts \cup {NoValue, NotText}]

NamesOf(fields) == {fields[i].name : i \in DOMAIN fields}

(* _validate_extraction_response(): a list, known names, statuses and      *)
(* confidences, each field once and none left out, a value exactly where   *)
(* one was found.  Nothing asks that the value be a text.                  *)
Valid(fields) ==
    /\ fields \in Seq(Entry)
    /\ \A i \in DOMAIN fields :
         fields[i].status = "MISSING" <=> fields[i].value = NoValue
    /\ \A i, j \in DOMAIN fields :
         fields[i].name = fields[j].name => i = j
    /\ NamesOf(fields) = FieldNames

(* The column is TEXT: the driver refuses any other value at the flush.    *)
Storable(fields) == \A i \in DOMAIN fields : fields[i].value # NotText

Count(fields, levels) ==
    Cardinality({i \in DOMAIN fields :
                    /\ fields[i].status # "MISSING"
                    /\ fields[i].confidence \in levels})

FoundCount(fields) == Count(fields, {"HIGH", "MEDIUM", "LOW"})

(* _compute_overall_confidence() *)
OverallConfidence(fields) ==
    CASE FoundCount(fields) < MinFound -> "NONE"
      [] /\ FoundCount(fields) >= MinFound
         /\ Count(fields, {"HIGH"}) = Cardinality(FieldNames) -> "HIGH"
      [] /\ FoundCount(fields) >= MinFound
         /\ Count(fields, {"HIGH"}) # Cardinality(FieldNames)
         /\ Count(fields, {"HIGH", "MEDIUM"}) >= 4 -> "MEDIUM"
      [] OTHER -> "LOW"

-----------------------------------------------------------------------------
(* One criterion against one field (criteria_evaluator.py). *)

Operators == {"eq", "ne", "gt", "lt", "gte", "lte", "in", "not_in", "contains"}

(* The operators that say the contrary of each other.                      *)
Opposite ==
    [eq |-> "ne", ne |-> "eq", gt |-> "lte", lte |-> "gt", gte |-> "lt",
     lt |-> "gte", in |-> "not_in", not_in |-> "in"]

(* A target as json.loads() returns it: str(target), float(target) and,    *)
(* for a list, its items; json is FALSE when it does not parse, which the  *)
(* API never checks.                                                       *)
Target == [json : BOOLEAN, text : Texts, number : Int \cup {NotANumber},
           list : BOOLEAN, items : SUBSET Texts]

Criterion == [field : FieldNames, type : {"MUST_HAVE", "DEALBREAKER",
                                          "NICE_TO_HAVE"},
              operator : Operators, target : Target, weight : Nat]

(* A mistaken variant: an operator as the negation of its opposite.        *)
NumericMatchByNegation(x, operator, y) ==
    LET readable == x # NotANumber /\ y # NotANumber
    IN  \/ operator = "gt" /\ readable /\ x > y
        \/ operator = "lt" /\ readable /\ x < y
        \/ operator = "gte" /\ ~(readable /\ x < y)
        \/ operator = "lte" /\ ~(readable /\ x > y)

(* _numeric_compare(): false, whatever the operator, when a side is not a  *)
(* number.                                                                 *)
NumericMatch(x, operator, y) ==
    /\ x # NotANumber
    /\ y # NotANumber
    /\ \/ operator = "gt" /\ x > y
       \/ operator = "lt" /\ x < y
       \/ operator = "gte" /\ x >= y
       \/ operator = "lte" /\ x <= y

(* _apply_operator() *)
Matches(value, operator, target) ==
    LET text == Normal[value]
        among == text \in {Normal[t] : t \in target.items}
    IN  \/ NumericMatch(NumberOf[value], operator, target.number)
        \/ operator = "eq" /\ text = Normal[target.text]
        \/ operator = "ne" /\ text # Normal[target.text]
        \/ operator = "in" /\ target.list /\ among
        \/ operator = "not_in" /\ target.list /\ ~among
        \/ operator = "contains" /\ <<Normal[target.text], text>> \in Within

(* What scoring reads of one extraction run: a function of the names.      *)
(* evaluate_criterion(): a field that is absent, MISSING or without a      *)
(* value is skipped; a target that is not JSON raises.                     *)
Outcome(criterion, fields) ==
    LET field == fields[criterion.field]
    IN  IF \/ criterion.field \notin DOMAIN fields
           \/ field.status = "MISSING"
           \/ field.value = NoValue
        THEN "skipped"
        ELSE IF ~criterion.target.json
             THEN "error"
             ELSE IF Matches(field.value, criterion.operator, criterion.target)
                  THEN "matched" ELSE "unmatched"

-----------------------------------------------------------------------------
(* A sequence of results to a score, a confidence and a rationale           *)
(* (scoring_service.py).                                                   *)

Result == [type : {"MUST_HAVE", "DEALBREAKER", "NICE_TO_HAVE"}, weight : Nat,
           outcome : {"matched", "unmatched", "skipped"}]

With(results, outcomes) ==
    {i \in DOMAIN results : results[i].outcome \in outcomes}

(* The weights of the results with these outcomes, added one by one.       *)
Weight(results, outcomes) ==
    LET sum[n \in 0 .. Len(results)] ==
            IF n = 0 THEN 0
            ELSE sum[n - 1] + (IF results[n].outcome \in outcomes
                               THEN results[n].weight ELSE 0)
    IN  sum[Len(results)]

Dealbroken(results) ==
    {i \in With(results, {"unmatched"}) : results[i].type = "DEALBREAKER"}

(* Mistaken variants: int() instead of round(), and skipped criteria left  *)
(* out of the confidence as they are left out of the score.                *)
RoundDown(n, d) == n \div d

ConfidenceOfEvaluated(results, fields) ==
    IF With(results, {"matched", "unmatched"}) = {} THEN "NONE" ELSE
    IF \A name \in DOMAIN fields :
            fields[name].status # "MISSING" => fields[name].confidence = "HIGH"
    THEN "HIGH" ELSE "MEDIUM"

(* Python's round(): to the nearest, a tie to the even neighbour.          *)
Round(n, d) ==
    LET q == n \div d
        r == 2 * (n % d)
    IN  IF r < d \/ (r = d /\ q % 2 = 0) THEN q ELSE q + 1

(* _compute_score() *)
Score(results) ==
    LET total == Weight(results, {"matched", "unmatched"})
    IN  IF Dealbroken(results) # {} \/ total = 0
        THEN 0
        ELSE Round(100 * Weight(results, {"matched"}), total)

(* _compute_scoring_confidence(); fields is what was read of the run.      *)
Confidence(results, fields) ==
    LET total == Len(results)
        evaluated == Cardinality(With(results, {"matched", "unmatched"}))
        all_high == \A name \in DOMAIN fields :
                        fields[name].status # "MISSING"
                            => fields[name].confidence = "HIGH"
    IN  CASE evaluated = 0 -> "NONE"
          [] evaluated > 0 /\ evaluated = total ->
                IF all_high THEN "HIGH" ELSE "MEDIUM"
          [] /\ evaluated > 0
             /\ evaluated < total
             /\ 4 * evaluated >= 3 * total -> "MEDIUM"
          [] /\ evaluated > 0
             /\ 4 * evaluated < 3 * total
             /\ 2 * evaluated >= total -> "LOW"
          [] OTHER -> "NONE"

(* _generate_rationale(): the criteria each section cites.                 *)
Rationale(results) ==
    [triggered |-> Dealbroken(results),
     met |-> With(results, {"matched"}),
     not_met |-> With(results, {"unmatched"}) \ Dealbroken(results),
     not_evaluated |-> With(results, {"skipped"})]
=============================================================================
