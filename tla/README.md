# Verification of the deal screening agent

TLA+ specifications of the deal screening agent: analysts upload deal PDFs, a
background job extracts the deal's fields with an LLM and scores the deal
against the tenant's criteria, and an analyst decides to pass or pursue.
Paths below are those of the repository (`src/app/...` is the Python package,
`frontend/` the web client, `.spec/` the design documents).

The project models the behaviour of the code, not of the documents. Section 4
lists where the two disagree, and runs show the disagreements that matter
most.

## 1. The system

| Component | State | Operations | What makes it hard | What makes it correct | Modelled in |
|---|---|---|---|---|---|
| Job queue (`background_jobs/queue.py`, `worker.py`) | table `background_jobs`, claim slots and the reap loop of each process | enqueue, claim, mark_running, mark_succeeded, mark_failed, reap_expired_claims | several processes, a 300 s claim nobody renews, blind UPDATEs from an object read at claim time, process deaths between any two statements | one executor per job, attempts within max_attempts, terminal states final, no job lost | `JobQueue` |
| Dead-letter CLI (`background_jobs/admin.py`) | the row it has selected | list, retry, drop | reads without a lock, acts later | only dead letters are retried or deleted | `JobQueue` |
| Extraction handler (`handlers.py`, `extraction_service.py`, `scoring_service.py`) | `deals.status`, `retry_count`, extracted fields, scores, audit rows | extract, then score, in two transactions | the LLM call keeps the gap between read and write open for minutes; a redelivered job starts from the beginning; runs pile up in one table | statuses move forward, each change audited, the run that was found good is the one that is scored, every deal ends where an analyst sees it | `DealPipeline`, `Screening` |
| LLM client (`llm_client.py`) | calls made | call with retries, validation of the answer | timeouts, garbled and incomplete answers | bounded number of calls; what is accepted can be stored | `Screening` |
| Criteria evaluation (`criteria_evaluator.py`, `scoring_service.py`) | none | outcome of a criterion, score, confidence | weights of zero, rounding, texts that are no numbers, deal breakers | 0..100, the nearest percentage, met only on evidence, gaps lower the confidence | `ScoringRules` |
| Criteria configs (`api/criteria.py`) | configs of a tenant, at most one active | create (deactivate, insert, re-score), read | races with running jobs and with other requests | one active config, the newest; versions without gaps; EXTRACTED deals re-scored | `Intake`, `DealPipeline` |
| Ingestion and input validation (`api/deals.py`, `ingestion_service.py`, `input_validation/*`) | deals, files, jobs | upload | duplicate uploads side by side; file and row written separately; the answer leaves before the commit | one deal per document; deal, job and file together; answers that are true | `Intake` |
| Deal API (`api/deals.py`) | decisions | list, card, decide | two analysts, stale reads | decided only when scored; a committed decision is final while the config does not change | `DealPipeline` |
| Auth (`auth/*`, `frontend/src/lib/auth.tsx`) | users, sessions, refresh tokens; the browser's token store | register, login, refresh, logout, change password | concurrent refreshes with one token, lost replies, reuse detection and the rollback of what it wrote | rotation keeps its lineage, the browser is left with a usable pair, revocations stand | `AuthSessions` |
| Rate limiter (`rate_limiter/*`) | token buckets in an LRU store | consume per scope, reset | rounding, a clock that is set back, eviction, several scopes per request | at most capacity + rate * t requests; Retry-After is enough | `RateLimiter` |
| Secrets and configuration (`secrets_config/*`, `config.py`) | cached secrets | load, get, refresh loop | a failing provider | | not modelled |
| Observability, PDF parser, PII scrubber, schemas, migrations, pages | none that others depend on | | | | by their outcome |

How they interact: the rate limiter's middleware comes first and lets a request
through or not; `require_auth` looks the session up. `api/deals.upload` calls
`ingest_deal`, which inserts the deal, its audit row and its job in one
transaction. A claim slot of a worker process (started with the API process by
`main.py`) claims the job, runs `handle_extraction` and marks the row. The
handler, `create_criteria_config` and `decide_deal` meet only in the database.

Each request or handler transaction is a `get_db` / session block: commit on
success, rollback on any exception (`database.py`), isolation READ COMMITTED,
no row locks except the claim's `FOR UPDATE SKIP LOCKED` and those every UPDATE
takes. With the FastAPI of the lock file (`uv.lock`: 0.135) what follows the
`yield` of a dependency runs after the response has been sent: **an answer
leaves before its transaction commits**. `Intake` and `AuthSessions` model
that as two steps; it is where several of their hazards come from.

## 2. Modules

| Module | What it is |
|---|---|
| `JobQueue` | the queue in detail: rows, slots, processes, time, reaper, admin CLI |
| `JobLifecycle` | what the queue promises: jobs are taken by one runner at a time, failures counted once, settled jobs stay settled |
| `JobQueueRefines` | the refinement mapping from `JobQueue` to `JobLifecycle` |
| `DealPipeline` | a tenant's deals: jobs, config creation and decisions as they interleave; composed with the queue through `JobLifecycle` |
| `ScoringRules` | pure operators: valid answers, confidence of an extraction, outcome of a criterion, score, confidence and rationale of a deal |
| `Screening` | one extraction job with its data, from the LLM's answers to the score; uses `ScoringRules` |
| `Intake` | uploads and config requests of one tenant against the unique constraints, the row locks and the disk |
| `AuthSessions` | sessions and refresh tokens of one user, with the browser's calls |
| `RateLimiter` | token buckets, LRU store and the middleware's verdict |
| `JobQueueProofs`, `DealPipelineProofs`, `ScoringRulesProofs`, `ScreeningProofs`, `IntakeProofs`, `RateLimiterProofs`, `AuthSessionsProofs` | theorems about the module of that name |
| `MC...` | the instances TLC checks |

In every module the section with *mistaken variants* holds the slips of the
code (a dropped guard, a missing reset) against which the properties were
tried; the specifications do not use them.

### JobQueue

One function of the job id per column of `background_jobs` the code reads or
writes. Time is kept as the two questions the SQL asks: `lease` says whether
`claim_expires_at` is NULL, in the future or in the past; `due` whether
`not_before` has passed. `Lapse` and `BecomeDue` are the clock.

A slot is a pair of a process and an index below `worker_concurrency`. `held`
is the job of the object it loaded in `claim()`, `seen` the `attempts` in that
object, `pc` the point it has reached in `_execute_job`. The marks are written
as the code writes them: by primary key, from the loaded object, with no check
of `state` or `claimed_by`. That the row is still the slot's is a property
(`SlotOwnsRow`), not a guard.

| Action | Code |
|---|---|
| `Enqueue` | `enqueue()`; rejected calls and the hit of an idempotency key write nothing and are stutters |
| `Claim` | `claim()`; takes any due pending row: rows locked by others are skipped and each process has its own clock, so the order of `not_before` is no guarantee |
| `RejectDispatch`, `MarkRunning`, `HandlerReturns` | `Worker._execute_job` |
| `MarkSucceeded`, `MarkFailed` | `mark_succeeded()`, `mark_failed()` with its back-off or dead letter |
| `Abandon` | an exception caught by `_claim_loop`: the mark failed, or its acknowledgement was lost |
| `MarkMissing` | the mark finds no row (deleted by the CLI) |
| `Crash`, `Restart` | death or `stop()` of a process; its supervisor starts it again |
| `Reap` | `reap_expired_claims()`, one UPDATE over all expired claims |
| `AdminSelect`, `AdminRetry`, `AdminDrop`, `AdminRefuse` | `retry_job()`, `drop_job()`: select, then act |

`OverrunAt` names the points at which a slot may be when its claim expires.
With `{}` a claim outlives the work done under it; with `{"running"}` handlers
may take longer than 300 s; with `{"claimed", "running"}` a slot may also be
delayed before the handler starts. The code enforces none of these, so `{}` is
an assumption about durations, and it is stated as one wherever it is used.

### DealPipeline

The queue is `INSTANCE JobLifecycle`: what `JobQueue` is shown to implement is
what the pipeline relies on. A runner is a claim slot, and `stage` the point
its handler has reached. Each transaction that reads, works and writes is split
into its reads and its commit, because other transactions commit in between;
`loaded` is the ORM copy the write is computed from. `SetStatus` is the write
the ORM really emits: `UPDATE deals SET status` only if the value differs from
the loaded one, while the audit row always names both.

| Action | Code |
|---|---|
| `Ingest` | `ingest_deal()` of a new document |
| `AdminRetry`, `AdminDrop` | `retry_job()` and `drop_job()` of the pipeline's dead letters |
| `ExtractLoad`, `ExtractSucceed`, `ExtractFail` | first transaction of `handle_extraction`: `extract_deal()`; every parser or LLM failure ends in `_mark_deal_failed()` |
| `ScoreLoadDeal`, `ScoreLoadConfig`, `ScoreCommit` | second transaction: `score_deal()` |
| `HandlerError`, `Crash` | exceptions and process deaths; open transactions are rolled back |
| `Succeed`, `Fail`, `Recover` | the worker's marks and the reaper, as `JobLifecycle` |
| `ConfigOpen`, `ConfigLoad`, `ConfigScore`, `ConfigSkip`, `ConfigCommit`, `ConfigAbort` | `create_criteria_config()` with `_rescore_extracted_deals()`: one transaction that lists the EXTRACTED deals, loads and scores them one by one, skips those whose scoring raises, and commits or is rolled back |
| `DecideLoad`, `DecideCommit`, `DecideAbort` | `decide_deal()`; its flush may fail, and only the analysts of `UuidAnalysts` have an id that `deal_decisions.user_id` can store (section 4) |

A config request keeps the rows it has re-scored locked until it commits, and
the blind writes of the others wait for it (`RowLocked`); every other
transaction commits directly after its first write to a deal. The second
transaction of the handler uses the session of the first. The session's
identity map is weak and `extract_deal()` keeps no reference to its deal, so
`score_deal()` reads the row again; the model relies on that.

The audit row EXTRACTION_STARTED names no change of status and is left out.
Scores and decisions are counted, not represented; the value of a score, field
rows, confidences and texts do not influence any of the state changes here.
Concurrent config requests of one tenant are represented by their outcome: the
UPDATE of the old config and the unique `(tenant_id, version)` let one of them
proceed, and the loser's transaction leaves nothing.

### ScoringRules and Screening

`ScoringRules` has one operator per function: `Valid`
(`_validate_extraction_response`), `Storable` (what the flush of a field row
accepts), `OverallConfidence`, `Outcome` (`evaluate_criterion`) with
`NumericMatch` and `Matches` for the operators, `Score` (`_compute_score`),
`Confidence` and `Rationale`. A text is a model value; what `float()`,
`strip().lower()` and `in` make of it are the constants `NumberOf`, `Normal`
and `Within`. Weights are natural numbers, so a score is an exact fraction and
`Round` is Python's rounding to the even neighbour; floating point error is not
modelled.

| Action of `Screening` | Code |
|---|---|
| `Take`, `Succeed`, `Fail` | the queue, as `JobLifecycle` |
| `Refuse`, `ReadDocument`, `UnreadableDocument` | `extract_deal()` up to the LLM call |
| `CallFails` | `extract_fields_via_llm()`: a timeout or API error, retried up to `MAX_RETRIES` times |
| `AnswerInvalid`, `AnswerUnstorable`, `AnswerStored` | the answer is refused, breaks the flush, or is stored by `_process_extraction_result()` |
| `StartScoring`, `EvaluateNext`, `FinishScoring` | `score_deal()` |
| `DatabaseError`, `Crash` | a statement or a commit that fails; a process death with its redelivery |

`DealPipeline` leaves the data out and interleaves jobs; `Screening` leaves the
other jobs out and keeps the data. Both read `handle_extraction` the same way.

### Intake

| Action | Code |
|---|---|
| `Refuse`, `FindDuplicate`, `StartUpload` | `upload_deal()` and `ingest_deal()` up to the file: `validate_file`, `validate_pdf`, the service's own checks, `_check_duplicate()` |
| `StoreFile`, `StoreFails` | `_store_file()` |
| `InsertDeal`, `InsertConflict` | the flush of deal, audit row and job: it waits while another open transaction has inserted the same key |
| `AcceptUpload`, `CommitUpload` | the 202, then the commit |
| `RefuseConfig`, `ReadVersion` | validation of the body, `_get_latest_version()` |
| `StartUpdate`, `FinishUpdate` | `UPDATE ... SET is_active = FALSE`: the rows it finds, and, once their locks are free, those it changes |
| `InsertConfig`, `VersionConflict`, `AnswerConfig`, `CommitConfig` | the insert of the new version, the 201, the commit |
| `DatabaseError`, `Crash` | a failing statement or commit; a process death |

A document is the traits its checks ask of it; ids are fresh uuids.

### AuthSessions

`Calls` are the calls one browser has open: tabs share a token store but no
lock. A request is served in three steps, read (`Serve`), reply, commit.

| Action | Code |
|---|---|
| `Register`, `Login`, `Refresh`, `Logout`, `ChangePassword` | the browser sends (`getAccessToken()`, `logout()`, the forms); `change_password()` has no route yet and is an operator's call |
| `ServeLogin`, `ServeRegister`, `ServeRefresh`, `ServeLogout`, `ServeChange` | `AuthService`'s methods up to the reply; `require_auth` for logout |
| `Commit`, `CommitRegister` | what `get_db` commits: `OpenSession`, `WriteRefresh`, `WriteRevocations` |
| `TakeReply` | `auth.tsx`: tokens saved, or cleared after a failed refresh and every logout |
| `AccessAges`, `Expire` | time |
| `LoseRequest`, `LoseReply`, `LoseCommit` | faults of the network, a process or the database |

The branch of `refresh()` that finds a consumed token replies `reused` and
leaves the tables alone: its revocation is written and rolled back in one
request, which no other transaction can see.

Nothing keeps a login and a password change apart: a login reads the hash
without a lock and writes nothing to the user's row. Two changes exclude each
other, because the query of `revoke_user_sessions()` flushes the UPDATE of the
user first, and that waits for the row lock of the other (`Open("change") = {}`
in `ServeChange`). The variable `late` is history, read by no guard: the ids of
the logins whose transaction was open together with that of a change.

### RateLimiter

Time is counted in ticks and a bucket's content in the ticks it takes to regain
it, so that a limit is a capacity (`full_refill_seconds`) and a price of one
request (`1 / refill_rate`) and refilling adds the elapsed time; no fraction is
lost. `born` and `granted` are history: when a bucket was created full, and
what it has granted since. A limit's price is at most its capacity, as in every
entry of `DEFAULT_LIMITS`. `RetryAfter` is `max(1, int(x + 0.999))` of
`check_and_consume()`, which can be up to a millisecond below `x`.

| Action | Code |
|---|---|
| `Arrive` | `dispatch()` up to the checks; `ClientIp` is `get_client_ip()` |
| `Check`, `Skip` | `_check_scope()` with `InMemoryStore.check()`: `Refill`, the decision, `Put` with eviction |
| `Verdict`, `FailOpen` | the answer; an exception lets the request through |
| `Reset` | `InMemoryStore.reset()` |
| `Tick`, `SetBack` | the system's clock, which the code reads with `time.time()` |

## 3. Runs

| Run | What it asks | Bounds |
|---|---|---|
| `queue` | With handlers inside their claims: one executor per job, marks hit the slot's own row, claims can be reaped, terminal states are final, the queue implements `JobLifecycle`, every queued job is settled | 2 jobs, 2 processes of 2 slots, 2 attempts, 2 crashes, 1 lost mark |
| `queue_overrun` | What survives overruns: type and budget | 2 jobs, 2 processes of 1 slot, 2 attempts, overruns before and in the handler, 1 crash, 1 lost mark |
| `pipeline_fixed` | With a config that does not change: one score per deal, only declared changes of status (and the re-extraction of a FAILED deal after a fault), a job for every deal that is UPLOADED; every uploaded deal reaches an analyst unless something crashed or failed | 2 deals, 2 jobs, 2 runners, 1 analyst whose decisions can be stored, budget 2, 1 retry, 1 crash, 1 error |
| `pipeline_configs` | With configs created at any time: true audit trail, evidence for what is shown, no deal left EXTRACTED by a dead letter without a fault | 2 deals, 2 jobs, 2 runners, 1 analyst whose decisions can be stored, budget 2, 2 configs, 1 crash, 1 error |
| `screening` | From the LLM's answers to the score: runs stored whole, the threshold, the scored run, evidence, rounding, confidence; the job comes to an end | 6 fields of which 3 must be found, 3 configs, 27 answers, 2 retries of a call, 2 attempts, 1 crash, 1 error |
| `intake` | Overlapping uploads and config requests: one deal per document, deal, job and file together, files left behind, true answers, one active config, no circle of waits | 2 clients, 5 documents, 2 deal ids, 2 config versions, 2 faults |
| `auth` | Concurrent calls of one browser: rotation, the stored pair, what a password change finds, revocations; every call ends | 3 ids, 2 calls, 2 password changes, also side by side, 1 fault |
| `limiter` | Three scopes, a full store, a clock that is set back: what buckets grant, what served requests have paid, Retry-After, kept debts | 2 addresses (one a trusted proxy), 1 user of 1 tenant, 2 groups, 2 keys, 2 ticks per second, clock to 3, 1 incident |
| `overrun_two_slots` | What overruns break (violation) | 1 job, 2 slots, `OverrunAt = {"running"}` |
| `redelivery_strands` | What redelivery after a death breaks (violation) | 1 deal, 1 job, 1 runner |
| `late_login` | What a login that overlaps a password change breaks (violation) | 3 ids, 2 calls, 1 password change, no faults |
| `reuse_rolled_back` | What the rollback of an answered 401 breaks (violation) | 3 ids, 2 calls, no faults |

**Bounds.** `MaxAttempts` / `Budget` of 2 gives both kinds of failure, one that
is retried and one that is the last; the extraction job has 5, and the proofs
hold for any number. Two processes with two slots each are the smallest
instance in which a job can move between slots of one process and of another.
Two crashes let a job be redelivered and interrupted again. Two concurrent
calls, clients or runners are what a read-then-write race takes; three ids give
a session, its rotated token and a third party. `MaxKeys = 2` is below the
number of keys of one request with a user, so the store evicts within a single
request. `MaxErrors`, `MaxFaults`, `MaxIncidents`, `MaxCrashes`, `MaxConfigs`,
`MaxVersions`, `MaxRetries` and `MaxChanges` bound what the environment does,
`MaxTime` the clock; no counter bounds what the program itself does. Each
violation has a short counterexample inside its bounds, and each property of a
passing run is broken by a named slip in the code of the model, which shows
that the bounds let the interesting case happen.

Two properties are stated but not listed in a passing run, because others there
imply them: `NoConcurrentExecution` follows from `SlotOwnsRow`, as a row names
one slot, and `DecisionsAreFinal` from `StatusMovesForward`, whose only step out
of DECIDED is the one to ARCHIVED, which nothing writes. They are the theorems
`MutualExclusion` and `DecisionsStand`.

`MaxRetries = 1` matters in `pipeline_fixed`: with at most one retry a deal has
at most one unsettled job (see `double_retry` below).

`RetryAfterSuffices` says of every bucket that has refused the request that
`refill()`, when the client comes back after Retry-After, finds the price in it,
short of it by less than a millisecond's worth. It is conditional on the clock
not being behind the bucket's `last_refill_at`; the run has states of both
kinds. At 2 ticks per second the millisecond is less than a tick, so the run
checks that the whole price is there; that the slack is enough in general is
the theorem's.

**Symmetry** is used in `queue_overrun`, `pipeline_configs`,
`reuse_rolled_back` and `late_login` only; the other runs either check liveness or choose among
their ids. (`reuse_rolled_back` and `late_login` choose as well, but only look
for a counterexample, and one that is found is a behaviour.)

**Deadlock** is checked in `intake`, whose clients can always send a request,
also one that is refused: a circle of waits among all of them would be a
deadlock, and one that leaves a client out is what `EveryRequestEnds` is for.
It is off in the others: when every job is settled and the bounds are used up,
a worker only polls an empty queue, ids or time run out, so those models really
stop.

**Fairness.** `JobQueue`: the steps of each slot (a claim loop that sleeps and
polls; a handler that returns, which the 30 s timeout of `llm_client.py` and
its bounded retries see to), the clock, the reap loop (it catches every
exception and sleeps 60 s), and the restart of a dead process by the platform.
A slot's steps are one weakly fair action: as long as a slot has a job, one of
them is enabled. `DealPipeline`: the runners, the reaper and an open config
request. `Screening`: the steps of the handler and its queue. `Intake`: the
steps of a request that was taken in; waiting for a lock disables them, so weak
fairness does not hide a circle. `AuthSessions`: the server serves and commits
what has arrived, the page handles replies. Uploads, users, operators, clocks,
crashes and faults owe nothing. `RateLimiter` states no liveness: `dispatch()`
never waits.

`EveryDealGetsVerdict` excuses deals after a crash or an error because it is
false with them, see `redelivery_strands`.

## 4. Where the code and its documents differ

Shown by runs that find the violation:

* **`overrun_two_slots`**: a handler that takes longer than 300 s is run a
  second time, by design of the constant claim in `queue.py:27`, while
  `.spec/modules/background_jobs.md:170` promises that a job is never executed
  concurrently. Three calls of the LLM, each retried by its library with a
  timeout of 30 s, and a large PDF can take that long.
* **`redelivery_strands`**: a process death between the two transactions of
  the handler leaves an EXTRACTED deal; every redelivery raises in
  `_load_and_verify_deal`, the job is dead-lettered, and the deal is only ever
  scored if somebody creates a new config. `background_jobs.md:173` calls a
  handler that is not idempotent a bug of the handler.
* **`late_login`**: a login that verified the old password commits its session
  after a password change has listed the sessions to revoke
  (`auth_service.md:234`: a password change invalidates the sessions before it
  returns). `change_password()` is exported and has no route yet, so the run is
  about what its first caller gets. `OnlyLateLoginsSurvive` of the run `auth`
  is what does hold: every other session is found.
* **`reuse_rolled_back`**: the 401 for a reused refresh token rolls back the
  revocation of its session and the audit row about it
  (`auth_service.md:229`: reuse revokes the entire session family).

Met while modelling; the first four are reachable in the models with the
constants named, the others are what the models state differently from the
documents:

* *decision overwritten*: a job that read the deal as EXTRACTED writes SCORED
  (`scoring_service.py:128`) after a config request has scored the deal, though
  `scoring_service.py:68` asks for an EXTRACTED deal; and if an analyst has
  decided meanwhile, over DECIDED (`models/deal.py:159`: that must never
  happen): `DealPipeline` with `MaxConfigs = 1`, `ScoredOnce` and
  `DecisionsAreFinal`. The second half needs a decision that commits, which no
  registered user's does (below), so no run rests on it.
* After an overrun a slot's mark still goes through and reopens a SUCCEEDED
  job (`background_jobs/types.py:16` calls it terminal), or leaves a RUNNING
  row with a NULL expiry, which the reaper never finds: `queue_overrun` with
  `TerminalIsFinal` or `ClaimsAreRecoverable`.
* A deal extracted after `create_criteria_config` listed the EXTRACTED deals,
  whose job looked for a config before the commit, is scored by neither side
  (`models/criteria.py:4`): `DealPipeline` with `InitialConfig = 0`,
  `MaxConfigs = 1`, `EveryDealGetsVerdict`.
* *double_retry*: two retries of one dead letter extract the deal side by side;
  the slower one moves a SCORED deal back to EXTRACTED
  (`extraction_service.py:60`): `DealPipeline` with `MaxRetries = 2`.
* FAILED to EXTRACTED: `extract_deal()` accepts a FAILED deal
  (`extraction_service.py:60`, `:107`), and a job that is delivered again after
  it marked its deal FAILED extracts it in one step. `enums.py:18`, its test
  `tests/test_enums.py:57`, `models/deal.py:3` and the table of
  `00_main_spec.md` know only FAILED to UPLOADED, which no code writes.
  `StatusMovesForward` checks every step against the declared table and names
  this one exception (`Reextracted`); it takes a crash or an error.
* Uploads have no limit per address (`rate_limiter/config.py:42`), though
  `rate_limiter/middleware.py:3` says per-IP always and `rate_limiter.md:148`
  that per-IP limits apply to all requests.
* With trusted proxies configured `X-Forwarded-For` is believed from any peer
  (`ip_parser.py:20`); `rate_limiter.md:161` believes it from a trusted proxy
  only. `ClientIp` follows the code.
* Retry-After is up to a millisecond too short (`bucket.py:88`), and too short
  by any amount after the clock was set back behind a bucket's
  `last_refill_at`: `refill()` adds nothing until the clock has caught up.
* A second decision on a deal whose first is being made is stored beside it;
  `dashboard_api.md:144` answers it with 409.
* An invalid answer of the LLM fails the extraction at once;
  `extraction_service.md:177` asks once more with a correction message.
* Two refreshes with one token both read `consumed_at` as empty and both issue
  a child (`auth_service.md:228`: single-use). `Lineage` allows it, and
  `StoredIsUsable` shows that the browser keeps one that works.
* The loser of two uploads of one document gets a 500;
  `ingestion_service.md:127` has the service return the existing deal.
* A failed upload leaves its file; `ingestion_service.py:72` and
  `ingestion_service.md:281` say it does not. `OrphansAreFailures` states what
  is left.
* `Application/PDF` passes `validate_file` and is refused by `ingest_deal`.
* A criterion whose `target_value` is not JSON fails the whole score;
  `scoring_engine.md:238` says a single bad criterion never does.
* The confidence of a score is computed from the fields; `scoring_engine.md:19`
  has it inherit the extraction's.
* `deal_decisions.user_id` is a UUID column (`models/deal.py:167`) and the
  users' ids are `usr_` and 32 hex digits (`models/user.py:40`), so the flush of
  a decision by any registered user fails (`DecideAbort`). Only the analysts of
  `UuidAnalysts` can commit one; with `UuidAnalysts = {}`, as the code stands,
  no deal is ever DECIDED. The runs keep one such analyst, to check what
  `decide_deal()` is meant to do; the client sends `PASS` and `PURSUE` where the schema
  expects `PASSED` and `PURSUING` (`frontend/src/lib/api.ts:115`).
* Limits by email are configured (`rate_limiter/config.py:40`) and never
  checked; no route belongs to the group `rescore`.
* A FAILED deal is only tried again if an operator retries a dead letter of it;
  the job of a failed extraction succeeds, so there is none.
* The card shows the score with the latest `created_at`, the start of the
  transaction that wrote it and not its commit: after two scorings side by side
  it need not be the score that was stored last.

## 5. Proofs

Nothing is assumed beyond the named assumptions on constants
(`JobQueueAssumption`, `DealPipelineAssumption`, `ScoringRulesAssumption`,
`ScreeningAssumption`, `IntakeAssumption`, `AuthSessionsAssumption`,
`RateLimiterAssumption`): bounds are numbers, budgets and prices positive, no
price is above its limit's capacity, NULL
is not an element (nor a text, nor a confidence), the fields an answer can name
and the keys of the limiter are finitely many, `float()` and `lower()` are
functions of a text.

`JobQueueProofs`, for any sets of jobs, processes and slots, any
`MaxAttempts > 0` and any bounds:

* Whatever overruns happen (any `OverrunAt`): `TypeCorrect` and
  `BudgetAlwaysRemains`. `TypeOK` alone is not inductive, because
  `attempts' = seen + 1` is written from a stale copy. `BudgetInv` adds that
  no pending or reapable row, and no slot's copy of a row, has spent its
  budget. Then every mark stays within `max_attempts`, and a row that becomes
  pending again has an attempt left. So the `attempts_bounded` CHECK of the
  table can never abort a mark.
* Under `NoOverrun == OverrunAt = {}`: `PromiseInvariant` (inductive:
  `PromiseInv`, the budget with `OwnershipInv`), and from it
  `MutualExclusion`, `MarksHitOwnRows`, `OwnershipKept`, `Recoverable`,
  `TerminalStatesFinal`, `FailuresNeverLost`. Ownership is the heart:
  while a slot has a job, the row names that slot, is unexpired, in CLAIMED or
  RUNNING and has the attempts the slot remembers. The reaper cannot take the
  row because it is live, claim cannot because it is not pending, the operator
  cannot because it is not dead; two slots cannot share it because `claimed_by`
  has one value.
* `QueueImplementsLifecycle`: the initial states map to initial states, and
  under `PromiseInv` each step maps to a step of `JobLifecycle` or to a
  stutter: `Claim` to `Take`, the marks to `Succeed`, `Retry` or `DeadLetter`,
  `Abandon` and `Crash` to `Vanish`, `Reap` to `Recover`, `AdminDrop` to
  `Discard`; `MarkRunning`, the clock and the rest stutter.

`DealPipelineProofs`, for any deals, jobs, runners, analysts, budget, crashes
and errors:

* For any number of configs and operator retries: `PipelineTypeCorrect`,
  `PipelineInvariant` and `EvidenceAlwaysExists`. The three properties are
  inductive only together (`Sound`): what an analyst reads as SCORED has a
  score because of `EvidenceExists`; the decision keeps `EvidenceExists`
  because of the analyst's part of `PipelineInv`; and both need the jobs a
  handler works on to name deals. `EvidenceExists` does not depend on one job
  per deal.
* Also for any number of configs and retries: `PipelineKeepsQueuePromise`
  (seen through its jobs the pipeline is a `JobLifecycle`: each action is one of
  the queue's or leaves it alone) and from its step lemma
  `HandlersNeverShareAJob`, an invariant of the queue whatever it is used for.
* `UploadsAreNotForgotten`, for any configs, retries and faults: an UPLOADED
  deal has a job that has not succeeded. Its invariant `Fed` follows each
  handler: once it has written, its deal is not UPLOADED, so only then does it
  return; the one UPDATE the ORM may skip is that of a FAILED deal marked FAILED
  again, and a deal that was FAILED once cannot be UPLOADED. Handlers that raise
  or die keep the job in the queue, with the reaper or with the operator.
* `OnlyFaultsStrandDeals`: the document's claim that redelivery is harmless is
  false (`redelivery_strands`), and this is what is left of it for any number of
  configs and retries. The invariant `Quiet` holds while nothing has crashed or
  raised: two jobs of one deal exist only once it is scored, a dead letter names
  a scored deal, an open config request and an analyst hold only deals that were
  EXTRACTED or scored. The step that matters is `QuietExtract`: the job that
  extracts is the only one of its deal, so its blind write takes nothing from
  anybody.
* Under `OneRetry == MaxRetries <= 1`, for any number of configs:
  `AuditIsTrue`. Its invariant `Apart` says that two unsettled jobs never
  share a deal (`JobsApart`; before the retry no two jobs do), that two runners
  never share a job (`RunnersApart`), and what the open transactions have read
  and still holds (`ReadsHold`): a deal being extracted is as it was loaded, so
  an UPDATE that the ORM skips is one that would have changed nothing; a deal
  being scored was EXTRACTED and a deal being decided SCORED, so what they
  write differs from what they read and the UPDATE is not skipped.
* Under `FixedConfig == OneRetry /\ MaxConfigs = 0`: `DealsScoredOnce`,
  `StatusesMoveForward` and `DecisionsStand`. `ScoresHold` adds that a deal
  being scored is still EXTRACTED, which no config request can change now.
  `StatusesMoveForward` is about the table of `enums.py` and needs more: its
  exception, FAILED to EXTRACTED, is possible only after a fault, and that is
  `Quiet` again. While nothing has crashed or raised, a handler that extracts
  has an UPLOADED deal, and `OnlyExtractionExtracts` says that no other step
  makes a deal EXTRACTED.

`ScoringRulesProofs`, for any fields, texts, answers, criteria and lengths:
`ScoreIsRight` (a score is a whole percentage, 0 when a dealbreaker is
unmatched or nothing that weighs was evaluated, else the nearest to the share of weight that was met),
`ConfidenceFallsWithGaps` (HIGH means that nothing was skipped, and, the fields
held fixed, skipping one more criterion never raises the level), `MatchesNeedEvidence` (an order operator
matches only numbers, a list operator only lists, and no value matches an
operator and its contrary). A `Weight` is a sum along a list of any
length. The library's induction theorems cannot be instantiated here, but
well-foundedness can: `LeastNumber` says that a non-empty set of numbers has a
least one, and a claim about the first n results that failed for some n would
fail for a least one. `SumsExist` and `WeightIsASum` define the sum that way,
`WeightGrows` bounds the matched weight by the evaluated one.

`ScreeningProofs`, for any configs, answers, retries, budget, crashes and
errors: the type invariant and the six properties of the run `screening`, as
`ScreeningTypeCorrect`, `RunsAlwaysWhole`, `ThresholdAlwaysDecides`,
`ScoresComeFromTheAnswer`, `MetCriteriaHaveEvidence`, `ScoresAreNearest`,
`GapsNeverHelp`. None is inductive: each is about rows of one run, and a run's
number is computed from `retry_count`, which only a failed extraction raises.
`ScreeningInv` says what makes the numbers safe. `NumbersAreFresh`: no row
carries a number above `retry_count + 1`, and that number is taken exactly when
the deal is EXTRACTED or SCORED; so an extraction that stores finds it free,
although jobs are redelivered after any commit. `OldRunsFailed`: each
earlier run found too few fields. `LatestIsAnswer`: the run of an extracted deal
is the accepted answer, row by row. `Judging` and `Judged` carry to the verdict
what the criteria say of those rows; `Handling` ties the status to the point
the handler has reached. From the invariant follow two action properties:
`RedeliveriesKeepRuns` (a step only adds rows, and only under a number no row
has) and `ScoredDealsStand` (a stored verdict, its run and its status are
final).

`IntakeProofs`, for any clients, documents, ids and bounds:
`IntakeTypeCorrect`, `DocumentsAreNotDoubled`, `DealsHaveFiles`,
`OrphansComeFromFailures`, `AnswersHold`, `NewestIsActive`.
The inductive invariant has three parts beside the types. `UploadInv`: an id
belongs to one request, its file stays as it was written, and of one content at
most one open request has inserted a deal, while no committed one exists.
`ReplyInv`: an answer that has left names what is being committed or has been,
or is known to be lost. `ConfigInv`: the versions are 1 to n and n is active; a
request that has taken n + 1 saw and locked the active row; one that took an
older number can neither insert nor lock the newest row for good. The read of
the version and the UPDATE are not atomic, and the proof shows that the unique
constraint together with the row lock makes up for it.
`OrphansComeFromFailures` adds that a request gives up its id only with its deal
committed or as lost.

`RateLimiterProofs`, for any limits, addresses, users, tenants and sizes of the
store: `LimiterTypeCorrect` and `GrantsAreCovered` from
`Rates == TypeOK /\ RateHolds /\ NoHistory` (a key outside the store has
granted nothing, so that a new bucket starts with no history); `DebtsAreKept`
from it, with the lemma that a store evicts only when it is full;
`ServedRequestsHavePaid` and `RetryAfterIsEnough` from
`Verdicts == Progress /\ RetryAfterSuffices`, where `Progress` says which
scopes are behind a request and that no two of them share a bucket. For
`RetryAfterIsEnough` the part of `Verdicts` that lasts is `Owed`: what a
refusing bucket holds and the ticks of the wait together reach the price, up to
the millisecond. It does not mention the clock, so ticks and set-backs keep it;
`WaitingRefills` turns it into what `refill()` gives at the end of the wait, for
which the clock must not be behind the bucket and the capacity not below the
price. The arithmetic is in the lemmas `RefillBounds`, `RoundingUpSuffices` and
`MoreSecondsAreMoreTicks`.

`AuthSessionsProofs`, for any calls, ids and faults: `AuthInvariant`, and from
it `LineageKept`, `RevocationsStand`, `PasswordChangesFind` and
`StoredPairIsUsable`. The invariant `Sound` carries what each call has found out from its read to its commit
(`CallsAreSound`): its id is its own and in no table, the token a refresh will
consume belongs to the session it will extend, the sessions it will revoke
exist. One lemma, `CallStepSound`, covers every step that leaves the tables
alone; `CommitKeepsCalls` shows that a commit does not take anything away that
another call relies on. `RevocationsStand` adds that only a handler that reads
an active session starts an exchange. `PasswordChangesFind` strengthens its
property by `OthersAreFound`: a login about to commit has verified the password
that holds or is late, a change about to commit has listed every active session
that is not, and a login and a change are never open together without the login
being marked late. Logins and changes are not kept apart by any guard. `StoredPairIsUsable` rests on `Usable`:
until the page has handled the reply, the token a call will bring is known to
nobody and spent by nobody; a reply announces what its commit will write; and
the stored token is spent only while the reply that replaces it is on the way.
So any number of tabs may refresh with one stored token: whichever reply the
page handles last leaves a pair whose refresh token is unspent or, after a
refusal, no pair. (Its session may have been revoked meanwhile.)

The theorems `PromiseInvariant`, `OwnershipKept`, `FailuresNeverLost`,
`PipelineInvariant`, `PipelineKeepsQueuePromise`, `HandlersNeverShareAJob`,
`ScreeningInvariant`, `RedeliveriesKeepRuns`,
`ScoredDealsStand`, `IntakeInvariant`, `AuthInvariant` and those of
`ScoringRulesProofs` state properties no run lists; they hold for every
instance. So do `MutualExclusion` and `DecisionsStand` under their conditions,
where the runs only show what happens outside them.

Only model-checked are the liveness properties `EveryJobSettles`,
`EveryDealGetsVerdict`, `JobSettles`, `EveryRequestEnds` and `EveryCallEnds`:
liveness under fairness is out of the prover's reach.

## 6. Not modelled, and what is left

* `secrets_config`, `config.py`: loading at start-up is I/O that either
  succeeds or ends the process; the refresh loop has no subscriber in this
  application.
* `observability`, the pages of the frontend, Pydantic field declarations, the
  migrations' table creation: no state other parts depend on. The constraints
  and indexes the code relies on are in the models of the tables' users.
* PDF parsing and PII scrubbing are text processing; their failure is an
  outcome in `Screening` and `DealPipeline`. The request-size middleware is
  left out.
* Password hashing and token signatures; audit rows of authentication, which
  commit or roll back with the writes next to them.
* Tenants: a transition never reads another tenant's rows, so one tenant is the
  whole of each model. In `RateLimiter` tenants share the store and are there.

Left for later: several jobs of one deal in `Screening`, for the run numbers
two concurrent extractions share.
