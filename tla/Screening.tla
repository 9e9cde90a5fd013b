------------------------------ MODULE Screening ------------------------------
(***************************************************************************)
(* The extraction job of one deal, from the document to the score          *)
(* (src/app/background_jobs/handlers.py, services/extraction_service.py,   *)
(* llm_client.py, scoring_service.py).  DealPipeline says how several such *)
(* jobs meet in the database; here one job runs alone, but with what it    *)
(* computes: answers of the LLM that are garbled, incomplete or late,      *)
(* extraction runs that pile up over redeliveries, and the rules that turn *)
(* the fields of a run into a score.                                       *)
(***************************************************************************)
EXTENDS ScoringRules

CONSTANTS
    Responses,      \* what the LLM can answer, valid or not
    Configs,        \* criteria configs that can be active
    MAX_RETRIES,    \* further calls after a failed one
    Budget,         \* max_attempts of the job
    MaxCrashes,     \* bound: process deaths
    MaxErrors       \* bound: failed reads, writes and commits

ASSUME ScreeningAssumption ==
    /\ Configs \subseteq Seq(Criterion)
    /\ MAX_RETRIES \in Nat
    /\ Budget \in Nat \ {0}
    /\ MaxCrashes \in Nat
    /\ MaxErrors \in Nat

VARIABLES
    status,         \* deals.status
    retry_count,    \* deals.retry_count
    rows,           \* extracted_fields, of all runs
    verdict,        \* the deal_scores row, or NoVerdict
    criteria,       \* the criteria of the active config
    job,            \* "queued", "taken", "succeeded", "dead"
    failures,       \* failed attempts of the job
    stage,          \* where the handler is
    attempt,        \* calls of the LLM made in this extraction
    results,        \* of the criteria evaluated so far
    answer,         \* the answer that made the deal EXTRACTED
    crashes, errors

deal == <<status, retry_count, rows, verdict>>
queue == <<job, failures>>
handler == <<stage, attempt, results>>
bounds == <<crashes, errors>>
vars == <<deal, criteria, queue, handler, answer, bounds>>

-----------------------------------------------------------------------------

NoVerdict == [score |-> 0, confidence |-> "NONE", results |-> <<>>]

Row == [run : Nat, name : FieldNames, status : {"FOUND", "INFERRED", "MISSING"},
        confidence : {"HIGH", "MEDIUM", "LOW"}, value : Texts \cup {NoValue},
        overall : Levels \cup {NoValue}]

Stages == {"idle", "loaded", "calling", "extracted", "scoring", "returned",
           "raised"}

TypeOK ==
    /\ status \in {"UPLOADED", "EXTRACTED", "SCORED", "FAILED"}
    /\ retry_count \in Nat
    /\ rows \subseteq Row
    /\ verdict.score \in 0 .. 100
    /\ verdict.confidence \in Levels
    /\ verdict.results \in Seq(Result)
    /\ criteria \in Configs
    /\ job \in {"queued", "taken", "succeeded", "dead"}
    /\ failures \in 0 .. Budget
    /\ stage \in Stages
    /\ stage = "idle" <=> job # "taken"
    /\ attempt \in 0 .. MAX_RETRIES
    /\ results \in Seq(Result)
    /\ crashes \in 0 .. MaxCrashes
    /\ errors \in 0 .. MaxErrors

Init ==
    /\ status = "UPLOADED"
    /\ retry_count = 0
    /\ rows = {}
    /\ verdict = NoVerdict
    /\ criteria \in Configs
    /\ job = "queued"
    /\ failures = 0
    /\ stage = "idle"
    /\ attempt = 0
    /\ results = <<>>
    /\ answer = <<>>
    /\ crashes = 0
    /\ errors = 0

-----------------------------------------------------------------------------
(* The runs in the table. *)

Runs == {row.run : row \in rows}
LatestRun == CHOOSE n \in Runs : \A m \in Runs : m <= n

(* A mistaken variant: the first run instead of the last one.              *)
LatestFieldsOfFirst ==
    LET first == CHOOSE n \in Runs : \A m \in Runs : n <= m
        latest == {row \in rows : row.run = first}
    IN  [name \in {row.name : row \in latest} |->
            CHOOSE row \in latest : row.name = name]

(* _load_extracted_fields(), _get_latest_extracted_fields(): the rows of   *)
(* the latest run by name, nothing when there is no row.                   *)
LatestFields ==
    LET latest == {row \in rows : row.run = LatestRun}
    IN  [name \in {row.name : row \in latest} |->
            CHOOSE row \in latest : row.name = name]

(* A mistaken variant of the threshold.                                    *)
EnoughIsMore(fields) == FoundCount(fields) > MinFound

NextRun == retry_count + 1
Enough(fields) == FoundCount(fields) >= MinFound

(* One row per field; the first one carries the confidence of the run.     *)
RowsOf(fields) ==
    {[run |-> NextRun,
      name |-> fields[i].name,
      status |-> fields[i].status,
      confidence |-> fields[i].confidence,
      value |-> fields[i].value,
      overall |-> IF i = 1 THEN OverallConfidence(fields) ELSE NoValue] :
         i \in DOMAIN fields}

-----------------------------------------------------------------------------
(* handle_extraction; each of its two transactions commits as it ends.     *)

GoTo(s) == stage' = s /\ UNCHANGED <<attempt, results>>

(* The handler's work ends or is lost, and its locals with it.             *)
Leave(s) == stage' = s /\ attempt' = 0 /\ results' = <<>>

Take ==
    /\ job = "queued"
    /\ job' = "taken"
    /\ GoTo("loaded")
    /\ UNCHANGED <<deal, criteria, failures, answer, bounds>>

(* extract_deal() from a status it does not accept: a ValueError. *)
Refuse ==
    /\ stage = "loaded"
    /\ status \notin {"UPLOADED", "FAILED"}
    /\ Leave("raised")
    /\ UNCHANGED <<deal, criteria, queue, answer, bounds>>

ReadDocument ==
    /\ stage = "loaded"
    /\ status \in {"UPLOADED", "FAILED"}
    /\ GoTo("calling")
    /\ UNCHANGED <<deal, criteria, queue, answer, bounds>>

(* A mistaken variant: retry_count is not written. *)
MarkFailedUncounted ==
    /\ status' = "FAILED"
    /\ Leave("returned")
    /\ UNCHANGED retry_count

(* _mark_deal_failed() *)
MarkFailed ==
    /\ status' = "FAILED"
    /\ retry_count' = retry_count + 1
    /\ Leave("returned")

(* The file is gone, not a PDF, or holds next to no text. *)
UnreadableDocument ==
    /\ stage = "loaded"
    /\ status \in {"UPLOADED", "FAILED"}
    /\ errors < MaxErrors
    /\ errors' = errors + 1
    /\ MarkFailed
    /\ UNCHANGED <<rows, verdict, criteria, queue, answer, crashes>>

(* A mistaken variant: one call too many. *)
CallFailsOnceMore ==
    /\ stage = "calling"
    /\ \/ /\ attempt <= MAX_RETRIES
          /\ attempt' = attempt + 1
          /\ UNCHANGED <<status, retry_count, stage, results>>
       \/ /\ attempt > MAX_RETRIES
          /\ MarkFailed
    /\ UNCHANGED <<rows, verdict, criteria, queue, answer, bounds>>

(* A timeout, a rate limit or an API error: the call is made again after a *)
(* pause, up to MAX_RETRIES times.                                         *)
CallFails ==
    /\ stage = "calling"
    /\ \/ /\ attempt < MAX_RETRIES
          /\ attempt' = attempt + 1
          /\ UNCHANGED <<status, retry_count, stage, results>>
       \/ /\ attempt = MAX_RETRIES
          /\ MarkFailed
    /\ UNCHANGED <<rows, verdict, criteria, queue, answer, bounds>>

(* An answer that is empty, not JSON or not Valid() is not asked for again. *)
AnswerInvalid(response) ==
    /\ stage = "calling"
    /\ ~Valid(response)
    /\ MarkFailed
    /\ UNCHANGED <<rows, verdict, criteria, queue, answer, bounds>>

(* The flush fails on a value that is not a text; the session it leaves    *)
(* behind is unusable, so marking the deal failed raises too.              *)
AnswerUnstorable(response) ==
    /\ stage = "calling"
    /\ Valid(response)
    /\ ~Storable(response)
    /\ Leave("raised")
    /\ UNCHANGED <<deal, criteria, queue, answer, bounds>>

(* _process_extraction_result(): the rows are kept even of a run that      *)
(* found too little.                                                       *)
AnswerStored(response) ==
    /\ stage = "calling"
    /\ Valid(response)
    /\ Storable(response)
    /\ rows' = rows \cup RowsOf(response)
    /\ IF Enough(response)
       THEN /\ status' = "EXTRACTED"
            /\ Leave("extracted")
            /\ answer' = response
            /\ UNCHANGED retry_count
       ELSE MarkFailed /\ UNCHANGED answer
    /\ UNCHANGED <<verdict, criteria, queue, bounds>>

(* score_deal(): the deal is EXTRACTED, the config and the latest run are  *)
(* read ...                                                                *)
StartScoring ==
    /\ stage = "extracted"
    /\ status = "EXTRACTED"
    /\ GoTo("scoring")
    /\ UNCHANGED <<deal, criteria, queue, answer, bounds>>

(* ... every criterion is evaluated, the first target that is not JSON     *)
(* ends it ...                                                             *)
EvaluateNext ==
    /\ stage = "scoring"
    /\ Len(results) < Len(criteria)
    /\ LET criterion == criteria[Len(results) + 1]
           outcome == Outcome(criterion, LatestFields)
       IN  IF outcome = "error"
           THEN Leave("raised")
           ELSE /\ results' = Append(results, [type |-> criterion.type,
                                               weight |-> criterion.weight,
                                               outcome |-> outcome])
                /\ UNCHANGED <<stage, attempt>>
    /\ UNCHANGED <<deal, criteria, queue, answer, bounds>>

(* ... and the score is stored with the new status.                        *)
FinishScoring ==
    /\ stage = "scoring"
    /\ Len(results) = Len(criteria)
    /\ verdict' = [score |-> Score(results),
                   confidence |-> Confidence(results, LatestFields),
                   results |-> results]
    /\ status' = "SCORED"
    /\ Leave("returned")
    /\ UNCHANGED <<retry_count, rows, criteria, queue, answer, bounds>>

(* A statement or a commit fails: the transaction is rolled back. *)
DatabaseError ==
    /\ stage \notin {"idle", "returned", "raised"}
    /\ errors < MaxErrors
    /\ errors' = errors + 1
    /\ Leave("raised")
    /\ UNCHANGED <<deal, criteria, queue, answer, crashes>>

-----------------------------------------------------------------------------
(* What the queue makes of it. *)

Succeed ==
    /\ stage = "returned"
    /\ job' = "succeeded"
    /\ Leave("idle")
    /\ UNCHANGED <<deal, criteria, failures, answer, bounds>>

(* A mistaken variant: the attempt is not counted. *)
FailUncounted ==
    /\ stage = "raised"
    /\ job' = "queued"
    /\ Leave("idle")
    /\ UNCHANGED <<deal, criteria, failures, answer, bounds>>

Fail ==
    /\ stage = "raised"
    /\ failures' = failures + 1
    /\ job' = IF failures + 1 < Budget THEN "queued" ELSE "dead"
    /\ Leave("idle")
    /\ UNCHANGED <<deal, criteria, answer, bounds>>

(* The process dies and the reaper makes its job available again. *)
Crash ==
    /\ stage # "idle"
    /\ crashes < MaxCrashes
    /\ crashes' = crashes + 1
    /\ job' = "queued"
    /\ Leave("idle")
    /\ UNCHANGED <<deal, criteria, failures, answer, errors>>

HandlerStep ==
    \/ Take \/ Refuse \/ ReadDocument \/ UnreadableDocument
    \/ CallFails
    \/ \E response \in Responses :
         \/ AnswerInvalid(response)
         \/ AnswerUnstorable(response)
         \/ AnswerStored(response)
    \/ StartScoring \/ EvaluateNext \/ FinishScoring
    \/ DatabaseError
    \/ Succeed \/ Fail

Next == HandlerStep \/ Crash

Spec == Init /\ [][Next]_vars

(* A worker polls and runs what it takes; the LLM call has a timeout.      *)
FairSpec == Spec /\ WF_vars(HandlerStep)

-----------------------------------------------------------------------------
(* Properties *)

RowsOfRun(n) == {row \in rows : row.run = n}
Found(n) == Cardinality({row \in RowsOfRun(n) : row.status # "MISSING"})

(* A run is stored whole or not at all, one row per field, whatever runs   *)
(* came before it: no redelivery writes into an earlier run                *)
(* (models/deal.py, ExtractedField).                                       *)
RunsAreWhole ==
    \A n \in Runs :
        /\ {row.name : row \in RowsOfRun(n)} = FieldNames
        /\ Cardinality(RowsOfRun(n)) = Cardinality(FieldNames)

(* The threshold decides: the deal has left FAILED and UPLOADED exactly    *)
(* when its latest run, and no other, found MinFound fields or more, and   *)
(* the confidence the deal card shows for a run is NONE for the others.    *)
ThresholdDecides ==
    LET good == {n \in Runs : Found(n) >= MinFound}
    IN  /\ good = IF status \in {"EXTRACTED", "SCORED"} THEN {LatestRun}
                                                       ELSE {}
        /\ \A n \in Runs :
             n \notin good <=>
                 "NONE" \in {row.overall : row \in RowsOfRun(n)}

(* A deal that shows a score was scored from the answer that made it       *)
(* EXTRACTED, criterion by criterion, and its card shows that answer.      *)
ScoredWhatWasExtracted ==
    status = "SCORED" =>
        /\ NamesOf(answer) = DOMAIN LatestFields
        /\ \A i \in DOMAIN answer :
             /\ LatestFields[answer[i].name].value = answer[i].value
             /\ LatestFields[answer[i].name].status = answer[i].status
        /\ \A i \in DOMAIN criteria :
             LET read == {k \in DOMAIN answer :
                            /\ answer[k].name = criteria[i].field
                            /\ answer[k].status # "MISSING"}
             IN  verdict.results[i].outcome = "skipped" <=> read = {}

(* A criterion counts as met only on evidence: a field that was found,     *)
(* readable for that operator, whose opposite is not met by it as well.    *)
MetOnEvidence ==
    status = "SCORED" =>
        \A i \in Rationale(verdict.results).met :
            LET operator == criteria[i].operator
                target == criteria[i].target
                value == LatestFields[criteria[i].field].value
            IN  /\ value \in Texts
                /\ operator \in {"gt", "lt", "gte", "lte"} =>
                        NumberOf[value] # NotANumber
                /\ operator \in {"in", "not_in"} => target.list
                /\ operator \in DOMAIN Opposite =>
                        ~Matches(value, Opposite[operator], target)

(* The score is the nearest percentage of the weight that was met among    *)
(* what could be evaluated; it is 0 for a dealbreaker that was evaluated   *)
(* and not met, and when nothing that weighs could be evaluated.           *)
ScoreIsNearest ==
    status = "SCORED" =>
        LET met == Weight(verdict.results, {"matched"})
            total == Weight(verdict.results, {"matched", "unmatched"})
            error == verdict.score * total - 100 * met
        IN  IF Dealbroken(verdict.results) # {} \/ total = 0
            THEN verdict.score = 0
            ELSE 2 * error <= total /\ 2 * error >= -total

(* A skipped criterion never makes the scoring surer: with the fields as   *)
(* they were read, were one more of the criteria skipped, the confidence   *)
(* would not rise, and HIGH means that nothing was skipped.                *)
GapsLowerConfidence ==
    status = "SCORED" =>
        /\ verdict.confidence = "HIGH" => With(verdict.results, {"skipped"}) = {}
        /\ \A i \in DOMAIN verdict.results :
             Rank[Confidence([verdict.results EXCEPT ![i].outcome = "skipped"],
                             LatestFields)] <= Rank[verdict.confidence]

(* The job ends, however often the LLM fails.                              *)
JobSettles ==
    <>(job \in {"succeeded", "dead"})
=============================================================================
