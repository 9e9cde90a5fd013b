---------------------------- MODULE DealPipeline ----------------------------
(***************************************************************************)
(* The life of a deal of one tenant: uploads, the extraction job, scoring, *)
(* the creation of criteria configs and the analysts' decisions            *)
(* (src/app/services, src/app/api, background_jobs/handlers.py).           *)
(*                                                                         *)
(* Every operation is a database transaction that reads rows without       *)
(* locks, works, and then writes blindly by primary key; under READ        *)
(* COMMITTED its reads and its commit are separate steps, and the writes   *)
(* take effect together at the commit.  The job queue is used as what      *)
(* JobLifecycle promises: a runner is a claim slot, Take and the settling  *)
(* actions are JobLifecycle's.                                             *)
(***************************************************************************)
EXTENDS Naturals, FiniteSets

CONSTANTS
    Deals, Jobs, Runners, Analysts,
    UuidAnalysts,   \* those whose user_id is a value of a UUID column
    NoDeal, NoJob,
    Budget,         \* max_attempts of the extraction job
    InitialConfig,  \* 1: the tenant starts with a criteria config; 0: without
    MaxConfigs,     \* bound: configs created later
    MaxRetries,     \* bound: dead-lettered jobs the operator retries
    MaxCrashes,     \* bound: process deaths
    MaxErrors       \* bound: exceptions in a handler or a failed commit

ASSUME DealPipelineAssumption ==
    /\ NoDeal \notin Deals
    /\ NoJob \notin Jobs
    /\ UuidAnalysts \subseteq Analysts
    /\ Budget \in Nat \ {0}
    /\ InitialConfig \in {0, 1}
    /\ MaxConfigs \in Nat
    /\ MaxRetries \in Nat
    /\ MaxCrashes \in Nat
    /\ MaxErrors \in Nat

VARIABLES
    status,         \* deals.status
    retry_count,    \* deals.retry_count
    scores,         \* number of deal_scores rows of a deal
    decisions,      \* number of deal_decisions rows of a deal
    last_audit,     \* the newest deal_audit_log row: <<before, after>>
    active_config,  \* version of the active config, 0 if there is none
    phase, failures, working,  \* the queue, as JobLifecycle
    deal_of,        \* the payload of a job: its deal
    stage,          \* per runner: where its handler is
    loaded,         \* per runner: <<status, retry_count>> its session read
    config_tx,      \* the open request that creates a config
    desk,           \* per analyst: the SCORED deal a decide request has read
    retried, crashes, errors

deal == <<status, retry_count, scores, decisions, last_audit>>
queue == <<phase, failures, working>>
handler == <<stage, loaded>>
bounds == <<retried, crashes, errors>>
vars == <<deal, active_config, queue, deal_of, handler, config_tx, desk, bounds>>

Queue == INSTANCE JobLifecycle WITH Idle <- NoJob

-----------------------------------------------------------------------------

NoRow == "NONE"
DealStatus == {"UPLOADED", "EXTRACTED", "SCORED", "DECIDED", "FAILED"}
Stages == {"idle", "start", "extracting", "extracted", "scoring",
           "configured", "returned", "raised"}
Versions == 0 .. InitialConfig + MaxConfigs

(* config_tx: waiting holds the deals still to be re-scored, reading the   *)
(* one that is being scored, scored those the open transaction has written. *)
NoTx == [open |-> FALSE, waiting |-> {}, reading |-> NoDeal, scored |-> {}]

TypeOK ==
    /\ status \in [Deals -> DealStatus \cup {NoRow}]
    /\ retry_count \in [Deals -> Nat]
    /\ scores \in [Deals -> Nat]
    /\ decisions \in [Deals -> Nat]
    /\ last_audit \in [Deals -> (DealStatus \cup {NoRow}) \X
                                (DealStatus \cup {NoRow})]
    /\ active_config \in Versions
    /\ phase \in [Jobs -> {"new", "queued", "taken", "succeeded", "dead",
                          "removed"}]
    /\ failures \in [Jobs -> 0 .. Budget]
    /\ working \in [Runners -> Jobs \cup {NoJob}]
    /\ deal_of \in [Jobs -> Deals \cup {NoDeal}]
    /\ stage \in [Runners -> Stages]
    /\ loaded \in [Runners -> (DealStatus \cup {NoRow}) \X Nat]
    /\ config_tx \in [open : BOOLEAN, waiting : SUBSET Deals,
                      reading : Deals \cup {NoDeal}, scored : SUBSET Deals]
    /\ desk \in [Analysts -> Deals \cup {NoDeal}]
    /\ retried \in 0 .. MaxRetries
    /\ crashes \in 0 .. MaxCrashes
    /\ errors \in 0 .. MaxErrors

Init ==
    /\ status = [d \in Deals |-> NoRow]
    /\ retry_count = [d \in Deals |-> 0]
    /\ scores = [d \in Deals |-> 0]
    /\ decisions = [d \in Deals |-> 0]
    /\ last_audit = [d \in Deals |-> <<NoRow, NoRow>>]
    /\ active_config = InitialConfig
    /\ Queue!Init
    /\ deal_of = [j \in Jobs |-> NoDeal]
    /\ stage = [r \in Runners |-> "idle"]
    /\ loaded = [r \in Runners |-> <<NoRow, 0>>]
    /\ config_tx = NoTx
    /\ desk = [a \in Analysts |-> NoDeal]
    /\ retried = 0
    /\ crashes = 0
    /\ errors = 0

-----------------------------------------------------------------------------
(* Uploads and the operator put jobs in the queue and take them out. *)

(* ingest_deal() of a new document: the deal, its audit row and its job    *)
(* commit together.                                                        *)
Ingest(d, j) ==
    /\ status[d] = NoRow
    /\ status' = [status EXCEPT ![d] = "UPLOADED"]
    /\ last_audit' = [last_audit EXCEPT ![d] = <<NoRow, "UPLOADED">>]
    /\ Queue!Submit(j)
    /\ deal_of' = [deal_of EXCEPT ![j] = d]
    /\ UNCHANGED <<retry_count, scores, decisions, active_config, handler,
                   config_tx, desk, bounds>>

(* retry_job(): a new job with the payload of a dead-lettered one. *)
AdminRetry(old, new) ==
    /\ phase[old] = "dead"
    /\ retried < MaxRetries
    /\ retried' = retried + 1
    /\ Queue!Submit(new)
    /\ deal_of' = [deal_of EXCEPT ![new] = deal_of[old]]
    /\ UNCHANGED <<deal, active_config, handler, config_tx, desk, crashes,
                   errors>>

(* drop_job(): a dead letter is thrown away; its deal stays as it is. *)
AdminDrop(j) ==
    /\ Queue!Discard(j)
    /\ UNCHANGED <<deal, active_config, deal_of, handler, config_tx, desk,
                   bounds>>

-----------------------------------------------------------------------------
(* The writes of a transaction. *)

(* Only a config request keeps a transaction open after it has written to  *)
(* a deal: until it ends, others wait for the lock on that row.            *)
RowLocked(d) == d \in config_tx.scored

(* Mistaken variants, each a slip in one condition or write; the           *)
(* specification does not use them.                                        *)
SetStatusSwapsAudit(d, before, after) ==
    /\ ~RowLocked(d)
    /\ status' = IF before = after THEN status
                                   ELSE [status EXCEPT ![d] = after]
    /\ last_audit' = [last_audit EXCEPT ![d] = <<after, before>>]
ExtractableAgain(st) == st # NoRow
ScorableWrongStatus(st) == st = "UPLOADED"
DecidableEarly(st) == st \in {"EXTRACTED", "SCORED"}

(* The ORM emits UPDATE deals SET status only when the value differs from  *)
(* the one its session loaded; the audit row always names both.            *)
SetStatus(d, before, after) ==
    /\ ~RowLocked(d)
    /\ status' = IF before = after THEN status
                                   ELSE [status EXCEPT ![d] = after]
    /\ last_audit' = [last_audit EXCEPT ![d] = <<before, after>>]

Extractable(st) == st \in {"UPLOADED", "FAILED"}
Scorable(st) == st = "EXTRACTED"
Decidable(st) == st = "SCORED"

-----------------------------------------------------------------------------
(* handle_extraction, run by a claim slot. *)

DealOf(r) == deal_of[working[r]]

GoTo(r, s) == stage' = [stage EXCEPT ![r] = s]

Take(r, j) ==
    /\ stage[r] = "idle"
    /\ Queue!Take(r, j)
    /\ GoTo(r, "start")
    /\ UNCHANGED <<deal, active_config, deal_of, loaded, config_tx, desk,
                   bounds>>

(* First transaction, extract_deal(): load the deal; any other status is a *)
(* ValueError that leaves the handler.  PDF parsing and the LLM call follow *)
(* while the transaction stays open.  The row EXTRACTION_STARTED that the  *)
(* transaction will add to the audit log names no change of status and is  *)
(* left out.                                                               *)
ExtractLoad(r) ==
    /\ stage[r] = "start"
    /\ loaded' = [loaded EXCEPT ![r] = <<status[DealOf(r)],
                                         retry_count[DealOf(r)]>>]
    /\ GoTo(r, IF Extractable(status[DealOf(r)]) THEN "extracting"
                                                 ELSE "raised")
    /\ UNCHANGED <<deal, active_config, queue, deal_of, config_tx, desk, bounds>>

(* At least 3 of the 6 core fields were found. *)
ExtractSucceed(r) ==
    /\ stage[r] = "extracting"
    /\ SetStatus(DealOf(r), loaded[r][1], "EXTRACTED")
    /\ GoTo(r, "extracted")
    /\ UNCHANGED <<retry_count, scores, decisions, active_config, queue,
                   deal_of, loaded, config_tx, desk, bounds>>

(* Too few fields, or any error of the parser or the LLM client:           *)
(* _mark_deal_failed() commits and the handler returns normally.           *)
ExtractFail(r) ==
    /\ stage[r] = "extracting"
    /\ SetStatus(DealOf(r), loaded[r][1], "FAILED")
    /\ retry_count' = [retry_count EXCEPT ![DealOf(r)] = loaded[r][2] + 1]
    /\ GoTo(r, "returned")
    /\ UNCHANGED <<scores, decisions, active_config, queue, deal_of, loaded,
                   config_tx, desk, bounds>>

(* Second transaction, score_deal(): load the deal again, then the active  *)
(* config; with none, nothing is written and the handler returns.  The     *)
(* session is the same, but its identity map refers to objects weakly and  *)
(* extract_deal() keeps none: the deal is built anew from its row.         *)
ScoreLoadDeal(r) ==
    /\ stage[r] = "extracted"
    /\ loaded' = [loaded EXCEPT ![r] = <<status[DealOf(r)],
                                         retry_count[DealOf(r)]>>]
    /\ GoTo(r, IF Scorable(status[DealOf(r)]) THEN "scoring" ELSE "raised")
    /\ UNCHANGED <<deal, active_config, queue, deal_of, config_tx, desk, bounds>>

(* A mistaken variant: without a config scoring raises.                    *)
ScoreLoadConfigRaises(r) ==
    /\ stage[r] = "scoring"
    /\ GoTo(r, IF active_config = 0 THEN "raised" ELSE "configured")
    /\ UNCHANGED <<deal, active_config, queue, deal_of, loaded, config_tx, desk,
                   bounds>>

ScoreLoadConfig(r) ==
    /\ stage[r] = "scoring"
    /\ GoTo(r, IF active_config = 0 THEN "returned" ELSE "configured")
    /\ UNCHANGED <<deal, active_config, queue, deal_of, loaded, config_tx, desk,
                   bounds>>

ScoreCommit(r) ==
    /\ stage[r] = "configured"
    /\ scores' = [scores EXCEPT ![DealOf(r)] = @ + 1]
    /\ SetStatus(DealOf(r), loaded[r][1], "SCORED")
    /\ GoTo(r, "returned")
    /\ UNCHANGED <<retry_count, decisions, active_config, queue, deal_of,
                   loaded, config_tx, desk, bounds>>

(* A mistaken variant: the handler swallows what goes wrong.               *)
HandlerErrorSwallowed(r) ==
    /\ stage[r] \notin {"idle", "raised"}
    /\ errors < MaxErrors
    /\ errors' = errors + 1
    /\ GoTo(r, "returned")
    /\ UNCHANGED <<deal, active_config, queue, deal_of, loaded, config_tx, desk,
                   retried, crashes>>

(* A database error, a malformed target_value while scoring, or a commit   *)
(* whose acknowledgement is lost: what has not committed is rolled back and *)
(* the exception leaves the handler.                                       *)
HandlerError(r) ==
    /\ stage[r] \notin {"idle", "raised"}
    /\ errors < MaxErrors
    /\ errors' = errors + 1
    /\ GoTo(r, "raised")
    /\ UNCHANGED <<deal, active_config, queue, deal_of, loaded, config_tx, desk,
                   retried, crashes>>

Succeed(r) ==
    /\ stage[r] = "returned"
    /\ Queue!Succeed(r)
    /\ GoTo(r, "idle")
    /\ UNCHANGED <<deal, active_config, deal_of, loaded, config_tx, desk, bounds>>

(* A mistaken variant: a failure too many before the dead letter. *)
FailLate(r) ==
    /\ stage[r] = "raised"
    /\ failures' = [failures EXCEPT ![working[r]] = @ + 1]
    /\ phase' = [phase EXCEPT ![working[r]] = IF failures[working[r]] < Budget
                                              THEN "queued" ELSE "dead"]
    /\ working' = [working EXCEPT ![r] = NoJob]
    /\ GoTo(r, "idle")
    /\ UNCHANGED <<deal, active_config, deal_of, loaded, config_tx, desk, bounds>>

(* mark_failed(): no exception of this handler is NON_RETRYABLE. *)
Fail(r) ==
    /\ stage[r] = "raised"
    /\ IF failures[working[r]] + 1 < Budget THEN Queue!Retry(r)
                                            ELSE Queue!DeadLetter(r)
    /\ GoTo(r, "idle")
    /\ UNCHANGED <<deal, active_config, deal_of, loaded, config_tx, desk, bounds>>

(* A process dies with the runners R: open transactions are rolled back.   *)
Crash(R) ==
    /\ \E r \in R : stage[r] # "idle"
    /\ crashes < MaxCrashes
    /\ crashes' = crashes + 1
    /\ Queue!Vanish(R)
    /\ stage' = [r \in Runners |-> IF r \in R THEN "idle" ELSE stage[r]]
    /\ UNCHANGED <<deal, active_config, deal_of, loaded, config_tx, desk,
                   retried, errors>>

(* The claims of jobs without a runner expire and are reaped. *)
Recover(j) ==
    /\ Queue!Recover({j})
    /\ UNCHANGED <<deal, active_config, deal_of, handler, config_tx, desk,
                   bounds>>

-----------------------------------------------------------------------------
(* create_criteria_config(): one transaction that replaces the active      *)
(* config and re-scores what is EXTRACTED.  The row locks of its first     *)
(* UPDATE and the unique version let one such request of a tenant get this *)
(* far at a time; a loser is rolled back and leaves nothing.               *)

NewVersion == active_config + 1

(* _rescore_extracted_deals() lists the EXTRACTED deals ... *)
ConfigOpen ==
    /\ ~config_tx.open
    /\ active_config < InitialConfig + MaxConfigs
    /\ config_tx' = [NoTx EXCEPT
                       !.open = TRUE,
                       !.waiting = {d \in Deals : Scorable(status[d])}]
    /\ UNCHANGED <<deal, active_config, queue, deal_of, handler, desk, bounds>>

(* ... and loads them one by one; a deal that is not EXTRACTED any more    *)
(* raises an error that is swallowed, ...                                  *)
ConfigLoad(d) ==
    /\ config_tx.reading = NoDeal
    /\ d \in config_tx.waiting
    /\ config_tx' = [config_tx EXCEPT
                       !.waiting = @ \ {d},
                       !.reading = IF Scorable(status[d]) THEN d ELSE NoDeal]
    /\ UNCHANGED <<deal, active_config, queue, deal_of, handler, desk, bounds>>

(* ... and so is an error while scoring (a target_value that is not JSON): *)
ConfigSkip ==
    /\ config_tx.reading # NoDeal
    /\ errors < MaxErrors
    /\ errors' = errors + 1
    /\ config_tx' = [config_tx EXCEPT !.reading = NoDeal]
    /\ UNCHANGED <<deal, active_config, queue, deal_of, handler, desk, retried,
                   crashes>>

(* ... the writes of the others are flushed, and lock their rows.          *)
ConfigScore ==
    /\ config_tx.reading # NoDeal
    /\ config_tx' = [config_tx EXCEPT !.reading = NoDeal,
                                      !.scored = @ \cup {config_tx.reading}]
    /\ UNCHANGED <<deal, active_config, queue, deal_of, handler, desk, bounds>>

ConfigCommit ==
    /\ config_tx.open
    /\ config_tx.waiting = {}
    /\ config_tx.reading = NoDeal
    /\ active_config' = NewVersion
    /\ status' = [d \in Deals |-> IF d \in config_tx.scored THEN "SCORED"
                                                            ELSE status[d]]
    /\ scores' = [d \in Deals |-> IF d \in config_tx.scored THEN scores[d] + 1
                                                            ELSE scores[d]]
    /\ last_audit' = [d \in Deals |-> IF d \in config_tx.scored
                                         THEN <<"EXTRACTED", "SCORED">>
                                         ELSE last_audit[d]]
    /\ config_tx' = NoTx
    /\ UNCHANGED <<retry_count, decisions, queue, deal_of, handler, desk, bounds>>

(* The request fails: get_db() rolls everything back. *)
ConfigAbort ==
    /\ config_tx.open
    /\ errors < MaxErrors
    /\ errors' = errors + 1
    /\ config_tx' = NoTx
    /\ UNCHANGED <<deal, active_config, queue, deal_of, handler, desk, retried,
                   crashes>>

-----------------------------------------------------------------------------
(* decide_deal(): the deal must be SCORED when it is read.  The decision   *)
(* can only be written for a user whose id fits the UUID column            *)
(* deal_decisions.user_id.  The auth service names its users "usr_..." and *)
(* makes none such: with UuidAnalysts = {} every decision fails.           *)

DecideLoad(a, d) ==
    /\ desk[a] = NoDeal
    /\ Decidable(status[d])
    /\ desk' = [desk EXCEPT ![a] = d]
    /\ UNCHANGED <<deal, active_config, queue, deal_of, handler, config_tx,
                   bounds>>

DecideCommit(a) ==
    /\ desk[a] # NoDeal
    /\ a \in UuidAnalysts
    /\ decisions' = [decisions EXCEPT ![desk[a]] = @ + 1]
    /\ SetStatus(desk[a], "SCORED", "DECIDED")
    /\ desk' = [desk EXCEPT ![a] = NoDeal]
    /\ UNCHANGED <<retry_count, scores, active_config, queue, deal_of, handler,
                   config_tx, bounds>>

(* The flush fails and get_db() rolls back.                                *)
DecideAbort(a) ==
    /\ desk[a] # NoDeal
    /\ desk' = [desk EXCEPT ![a] = NoDeal]
    /\ UNCHANGED <<deal, active_config, queue, deal_of, handler, config_tx,
                   bounds>>

-----------------------------------------------------------------------------

HandlerStep(r) ==
    \/ ExtractLoad(r)
    \/ ExtractSucceed(r)
    \/ ExtractFail(r)
    \/ ScoreLoadDeal(r)
    \/ ScoreLoadConfig(r)
    \/ ScoreCommit(r)
    \/ Succeed(r)
    \/ Fail(r)

RunnerStep(r) == (\E j \in Jobs : Take(r, j)) \/ HandlerStep(r)

ConfigStep == (\E d \in Deals : ConfigLoad(d)) \/ ConfigScore \/ ConfigCommit

Next ==
    \/ \E d \in Deals, j \in Jobs : Ingest(d, j)
    \/ \E i, j \in Jobs : AdminRetry(i, j)
    \/ \E j \in Jobs : AdminDrop(j)
    \/ \E r \in Runners : RunnerStep(r) \/ HandlerError(r)
    \/ \E R \in SUBSET Runners : Crash(R)
    \/ \E j \in Jobs : Recover(j)
    \/ ConfigOpen \/ ConfigStep \/ ConfigSkip \/ ConfigAbort
    \/ \E a \in Analysts :
         \/ \E d \in Deals : DecideLoad(a, d)
         \/ DecideCommit(a)
         \/ DecideAbort(a)

Spec == Init /\ [][Next]_vars

(* The claim loops, the reaper and an open request keep running; uploads,  *)
(* analysts, operators and failures owe nothing.                           *)
Fairness ==
    /\ \A r \in Runners : WF_vars(RunnerStep(r))
    /\ \A j \in Jobs : WF_vars(Recover(j))
    /\ WF_vars(ConfigStep)

FairSpec == Spec /\ Fairness

-----------------------------------------------------------------------------
(* Properties that hold with configs created at any time. *)

(* The audit row written last names the status the deal is in (spec: no    *)
(* state transition without an audit row), through stale and skipped       *)
(* writes.  It needs a deal to have one unsettled job, so MaxRetries <= 1: *)
(* of two extractions that both loaded FAILED, the one that fails last     *)
(* audits FAILED to FAILED, skips the write and leaves the other's result. *)
AuditNamesStatus ==
    \A d \in Deals : last_audit[d][2] = status[d]

(* A deal shown as scored has a score, one shown as decided has a decision *)
(* and the score it was made against.                                      *)
EvidenceExists ==
    \A d \in Deals :
        /\ status[d] \in {"SCORED", "DECIDED"} => scores[d] > 0
        /\ status[d] = "DECIDED" => decisions[d] > 0
        /\ decisions[d] > 0 => scores[d] > 0

(* No upload is forgotten: as long as a deal is UPLOADED, a job of it is    *)
(* queued or taken, or a dead letter the operator sees or has thrown away. *)
(* Deal and job commit in one transaction, the later writes in several.    *)
Unsucceeded == {"queued", "taken", "dead", "removed"}

UploadsHaveJobs ==
    \A d \in Deals :
        status[d] = "UPLOADED" =>
            \E j \in Jobs : deal_of[j] = d /\ phase[j] \in Unsucceeded

(* Why: a job in the queue names a deal and has budget left, a handler     *)
(* that runs has such a job, an open config request still has a version to *)
(* take, and an analyst who read a deal as SCORED read one with a score,   *)
(* which no later write takes away (the inductive invariant behind TypeOK  *)
(* and EvidenceExists).                                                    *)
PipelineInv ==
    /\ \A j \in Jobs :
         /\ phase[j] # "new" => deal_of[j] \in Deals
         /\ phase[j] \in {"queued", "taken"} => failures[j] < Budget
    /\ \A r \in Runners :
         stage[r] # "idle" =>
             /\ working[r] \in Jobs
             /\ phase[working[r]] # "new"
    /\ config_tx.open => active_config < InitialConfig + MaxConfigs
    /\ \A a \in Analysts : desk[a] # NoDeal => scores[desk[a]] > 0

(* Properties that need the config not to change under a running job.      *)

(* The declared state machine (models/enums.py).  No service consults it.  *)
ValidStateTransitions ==
    {<<"UPLOADED", "EXTRACTED">>, <<"UPLOADED", "FAILED">>,
     <<"EXTRACTED", "SCORED">>, <<"FAILED", "UPLOADED">>,
     <<"SCORED", "DECIDED">>, <<"DECIDED", "ARCHIVED">>}

Created == <<NoRow, "UPLOADED">>
Reextracted == <<"FAILED", "EXTRACTED">>

(* Every change of status is a declared one, and its audit row names the   *)
(* status that was really there before.  One change is made that is not    *)
(* declared: extract_deal() accepts a FAILED deal, so that a job which is  *)
(* delivered again may extract it after all.  That takes a death or an     *)
(* exception: without one a FAILED deal stays as it is.                    *)
Forward(d) ==
    LET step == <<status[d], status'[d]>>
    IN  status'[d] # status[d] =>
            /\ last_audit'[d] = step
            /\ \/ step \in ValidStateTransitions \cup {Created}
               \/ step = Reextracted /\ crashes + errors > 0

StatusMovesForward == [][\A d \in Deals : Forward(d)]_vars

(* The pipeline scores a deal once. *)
ScoredOnce == \A d \in Deals : scores[d] <= 1

(* Without crashes and errors every uploaded deal leaves UPLOADED and      *)
(* EXTRACTED: the analyst sees a score or a failure.                       *)
EveryDealGetsVerdict ==
    \A d \in Deals :
        status[d] = "UPLOADED" ~>
            \/ status[d] \in {"FAILED", "SCORED", "DECIDED"}
            \/ crashes + errors > 0

(* Properties the documents state and this code does not keep.             *)

(* A decision is final: DECIDED -> SCORED never happens (models/deal.py).  *)
(* A decision that is written while a job scores the deal with an older    *)
(* read is overwritten: it takes a new config that scored the deal before. *)
Decided(d) == status[d] = "DECIDED" => status'[d] = "DECIDED"

DecisionsAreFinal == [][\A d \in Deals : Decided(d)]_vars

(* Running the handler again is harmless (background_jobs.md, invariant 4): *)
(* redelivery never turns an extracted deal's job into a dead letter that  *)
(* leaves the deal EXTRACTED.                                              *)
RedeliveryIsHarmless ==
    \A j \in Jobs :
        phase[j] = "dead" /\ deal_of[j] # NoDeal
            => status[deal_of[j]] # "EXTRACTED"

(* What is left of it: only a death or an exception between the handler's  *)
(* two transactions strands a deal; redeliveries, operator's retries and   *)
(* configs created meanwhile alone do not.                                 *)
StrandingNeedsAFault ==
    crashes = 0 /\ errors = 0 => RedeliveryIsHarmless
=============================================================================
