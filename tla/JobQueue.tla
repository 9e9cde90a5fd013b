------------------------------ MODULE JobQueue ------------------------------
(***************************************************************************)
(* The background job queue: the background_jobs table, the claim slots of *)
(* the worker processes, the reaper and the dead-letter admin CLI          *)
(* (src/app/background_jobs).                                              *)
(*                                                                         *)
(* A job row is five functions of the job id, one per column the code      *)
(* reads or writes.  claim_expires_at is kept as "none" (NULL), "live" (in *)
(* the future) or "lapsed" (in the past), not_before as due or not due:    *)
(* these are the only questions claim() and reap_expired_claims() ask of   *)
(* the clock, and Lapse and BecomeDue are the passing of time.             *)
(*                                                                         *)
(* A slot keeps the ORM object it loaded in claim() for the whole job and  *)
(* every later write is an UPDATE by primary key from that object, so a    *)
(* slot remembers (seen) the attempts it read and checks nothing again.    *)
(***************************************************************************)
EXTENDS Naturals

CONSTANTS
    Jobs,          \* job ids
    Workers,       \* worker processes
    Indices,       \* the slots of a process, 0 .. concurrency - 1
    NoJob, NoSlot, \* NULL, nobody
    MaxAttempts,   \* max_attempts of the registered handler
    OverrunAt,     \* where a slot may be when its 300 s claim expires
    MaxCrashes,    \* bound: process deaths in a behaviour
    MaxErrors      \* bound: exceptions that reach the claim loop

ASSUME JobQueueAssumption ==
    /\ NoJob \notin Jobs
    /\ NoSlot \notin Workers \X Indices
    /\ MaxAttempts \in Nat \ {0}
    /\ OverrunAt \subseteq {"claimed", "running", "succeeded", "failed", "fatal"}
    /\ MaxCrashes \in Nat
    /\ MaxErrors \in Nat

Slots == Workers \X Indices

VARIABLES
    state, attempts, claimed_by, lease, due, \* columns of background_jobs
    up,              \* the processes that are running
    pc, held, seen,  \* per slot: where it is, its job, the attempts it read
    loaded,          \* the dead-lettered row an admin command has selected
    crashes, errors  \* bounded counters

row == <<state, attempts, claimed_by, lease, due>>
slot == <<pc, held, seen>>
vars == <<row, up, slot, loaded, crashes, errors>>

-----------------------------------------------------------------------------

Absent == "ABSENT"    \* this id has not been inserted yet
Deleted == "DELETED"  \* the row was dropped by the admin CLI
TERMINAL_STATES == {"SUCCEEDED", "DEAD_LETTERED"}
JobStates == {"PENDING", "CLAIMED", "RUNNING"} \cup TERMINAL_STATES
Outcomes == {"succeeded", "failed", "fatal"}  \* what the slot has to record

TypeOK ==
    /\ state \in [Jobs -> JobStates \cup {Absent, Deleted}]
    /\ attempts \in [Jobs -> 0 .. MaxAttempts]
    /\ claimed_by \in [Jobs -> Slots \cup {NoSlot}]
    /\ lease \in [Jobs -> {"none", "live", "lapsed"}]
    /\ due \in [Jobs -> BOOLEAN]
    /\ up \in [Workers -> BOOLEAN]
    /\ pc \in [Slots -> {"free", "claimed", "running"} \cup Outcomes]
    /\ held \in [Slots -> Jobs \cup {NoJob}]
    /\ seen \in [Slots -> 0 .. MaxAttempts]
    /\ loaded \in Jobs \cup {NoJob}
    /\ crashes \in 0 .. MaxCrashes
    /\ errors \in 0 .. MaxErrors

Init ==
    /\ state = [j \in Jobs |-> Absent]
    /\ attempts = [j \in Jobs |-> 0]
    /\ claimed_by = [j \in Jobs |-> NoSlot]
    /\ lease = [j \in Jobs |-> "none"]
    /\ due = [j \in Jobs |-> FALSE]
    /\ up = [w \in Workers |-> TRUE]
    /\ pc = [s \in Slots |-> "free"]
    /\ held = [s \in Slots |-> NoJob]
    /\ seen = [s \in Slots |-> 0]
    /\ loaded = NoJob
    /\ crashes = 0
    /\ errors = 0

-----------------------------------------------------------------------------
(* Exists(j): row j is in the table. *)
Exists(j) == state[j] \in JobStates

(* Mistaken variants of the conditions below, each the slip of one clause; *)
(* the specification does not use them.                                    *)
ExpiredByState(j) == state[j] \in {"CLAIMED", "RUNNING"}
ExpiredClaimedOnly(j) == state[j] = "CLAIMED" /\ lease[j] = "lapsed"
ClaimableTwice(j) == state[j] \in {"PENDING", "CLAIMED"} /\ due[j]
SelectableAnyState(j) == Exists(j)
ExhaustedLate(n) == n > MaxAttempts

(* What the statements ask of a row. *)

Claimable(j) == state[j] = "PENDING" /\ due[j]

Expired(j) == state[j] \in {"CLAIMED", "RUNNING"} /\ lease[j] = "lapsed"

Selectable(j) == state[j] = "DEAD_LETTERED"

(* The decision of mark_failed for a job that has now failed n times. *)
Exhausted(n) == n >= MaxAttempts

(* The slots that work on job j, whatever its row says. *)
Holders(j) == {s \in Slots : held[s] = j}

-----------------------------------------------------------------------------
(* Producers. *)

(* enqueue() of a registered type with a valid payload; d says whether     *)
(* not_before is already past.  The rejected calls and the idempotent hit  *)
(* write nothing.                                                          *)
Insert(j, d) ==
    /\ state[j] = Absent
    /\ state' = [state EXCEPT ![j] = "PENDING"]
    /\ attempts' = [attempts EXCEPT ![j] = 0]
    /\ claimed_by' = [claimed_by EXCEPT ![j] = NoSlot]
    /\ lease' = [lease EXCEPT ![j] = "none"]
    /\ due' = [due EXCEPT ![j] = d]

Enqueue(j) ==
    /\ \E d \in BOOLEAN : Insert(j, d)
    /\ UNCHANGED <<up, slot, loaded, crashes, errors>>

-----------------------------------------------------------------------------
(* The claim loop of one slot. *)

(* claim(): any due row, since SKIP LOCKED passes over rows other slots    *)
(* have locked and each process orders not_before by its own clock.        *)
Claim(s, j) ==
    /\ up[s[1]]
    /\ pc[s] = "free"
    /\ Claimable(j)
    /\ state' = [state EXCEPT ![j] = "CLAIMED"]
    /\ claimed_by' = [claimed_by EXCEPT ![j] = s]
    /\ lease' = [lease EXCEPT ![j] = "live"]
    /\ pc' = [pc EXCEPT ![s] = "claimed"]
    /\ held' = [held EXCEPT ![s] = j]
    /\ seen' = [seen EXCEPT ![s] = attempts[j]]
    /\ UNCHANGED <<attempts, due, up, loaded, crashes, errors>>

(* The type is not registered in this process, or the payload no longer    *)
(* validates: dead-letter without running the handler.                     *)
RejectDispatch(s) ==
    /\ pc[s] = "claimed"
    /\ pc' = [pc EXCEPT ![s] = "fatal"]
    /\ UNCHANGED <<row, up, held, seen, loaded, crashes, errors>>

(* mark_running() writes state only; the handler starts. *)
MarkRunning(s) ==
    /\ pc[s] = "claimed"
    /\ Exists(held[s])
    /\ state' = [state EXCEPT ![held[s]] = "RUNNING"]
    /\ pc' = [pc EXCEPT ![s] = "running"]
    /\ UNCHANGED <<attempts, claimed_by, lease, due, up, held, seen, loaded,
                   crashes, errors>>

(* The handler returns, raises, or raises a NON_RETRYABLE_EXCEPTIONS. *)
HandlerReturns(s) ==
    /\ pc[s] = "running"
    /\ \E o \in Outcomes : pc' = [pc EXCEPT ![s] = o]
    /\ UNCHANGED <<row, up, held, seen, loaded, crashes, errors>>

(* The slot is done with its job and goes back to claiming. *)
Release(s) ==
    /\ pc' = [pc EXCEPT ![s] = "free"]
    /\ held' = [held EXCEPT ![s] = NoJob]
    /\ seen' = [seen EXCEPT ![s] = 0]

MarkSucceeded(s) ==
    /\ pc[s] = "succeeded"
    /\ Exists(held[s])
    /\ state' = [state EXCEPT ![held[s]] = "SUCCEEDED"]
    /\ claimed_by' = [claimed_by EXCEPT ![held[s]] = NoSlot]
    /\ lease' = [lease EXCEPT ![held[s]] = "none"]
    /\ Release(s)
    /\ UNCHANGED <<attempts, due, up, loaded, crashes, errors>>

(* mark_failed(): one more than the attempts the slot read when it claimed *)
(* the job; dead-lettered, or pending again after a back-off.              *)
MarkFailed(s) ==
    LET j == held[s]
        n == seen[s] + 1
        dead == pc[s] = "fatal" \/ Exhausted(n)
    IN  /\ pc[s] \in {"failed", "fatal"}
        /\ Exists(j)
        /\ attempts' = [attempts EXCEPT ![j] = n]
        /\ claimed_by' = [claimed_by EXCEPT ![j] = NoSlot]
        /\ lease' = [lease EXCEPT ![j] = "none"]
        /\ state' = [state EXCEPT ![j] = IF dead THEN "DEAD_LETTERED"
                                                 ELSE "PENDING"]
        /\ due' = [due EXCEPT ![j] = IF dead THEN @ ELSE FALSE]
        /\ Release(s)
        /\ UNCHANGED <<up, loaded, crashes, errors>>

(* An exception leaves _execute_job (a mark that could not commit, or whose *)
(* acknowledgement was lost): the loop logs it and the row stays as it is.  *)
Abandon(s) ==
    /\ pc[s] # "free"
    /\ errors < MaxErrors
    /\ errors' = errors + 1
    /\ Release(s)
    /\ UNCHANGED <<row, up, loaded, crashes>>

(* The mark matches no row, because the admin CLI deleted it: StaleDataError *)
(* to the loop.                                                              *)
MarkMissing(s) ==
    /\ pc[s] \in {"claimed"} \cup Outcomes
    /\ ~Exists(held[s])
    /\ Release(s)
    /\ UNCHANGED <<row, up, loaded, crashes, errors>>

-----------------------------------------------------------------------------
(* Processes, time and the reaper. *)

(* A process dies, or stop() cancels its tasks: CancelledError makes every *)
(* slot return at once, and no row is touched.                             *)
Crash(w) ==
    /\ up[w]
    /\ crashes < MaxCrashes
    /\ crashes' = crashes + 1
    /\ up' = [up EXCEPT ![w] = FALSE]
    /\ pc' = [s \in Slots |-> IF s[1] = w THEN "free" ELSE pc[s]]
    /\ held' = [s \in Slots |-> IF s[1] = w THEN NoJob ELSE held[s]]
    /\ seen' = [s \in Slots |-> IF s[1] = w THEN 0 ELSE seen[s]]
    /\ UNCHANGED <<row, loaded, errors>>

Restart(w) ==
    /\ ~up[w]
    /\ up' = [up EXCEPT ![w] = TRUE]
    /\ UNCHANGED <<row, slot, loaded, crashes, errors>>

(* The clock passes claim_expires_at while whoever works on the job is at a *)
(* point of OverrunAt.  No heartbeat extends a claim, so {"running"} is a   *)
(* handler that takes longer than 300 s; {} assumes that none does, and a   *)
(* claim then lapses only once no slot works on the job any more.           *)
Lapse(j) ==
    /\ lease[j] = "live"
    /\ \A s \in Holders(j) : pc[s] \in OverrunAt
    /\ lease' = [lease EXCEPT ![j] = "lapsed"]
    /\ UNCHANGED <<state, attempts, claimed_by, due, up, slot, loaded, crashes,
                   errors>>

(* The clock passes not_before. *)
BecomeDue(j) ==
    /\ state[j] = "PENDING"
    /\ ~due[j]
    /\ due' = [due EXCEPT ![j] = TRUE]
    /\ UNCHANGED <<state, attempts, claimed_by, lease, up, slot, loaded,
                   crashes, errors>>

(* reap_expired_claims(): one UPDATE over every expired claim, run by the  *)
(* reap loop of any live process.  attempts and not_before are kept.       *)
Reap ==
    /\ \E w \in Workers : up[w]
    /\ \E j \in Jobs : Expired(j)
    /\ state' = [j \in Jobs |-> IF Expired(j) THEN "PENDING" ELSE state[j]]
    /\ claimed_by' = [j \in Jobs |-> IF Expired(j) THEN NoSlot
                                                   ELSE claimed_by[j]]
    /\ lease' = [j \in Jobs |-> IF Expired(j) THEN "none" ELSE lease[j]]
    /\ UNCHANGED <<attempts, due, up, slot, loaded, crashes, errors>>

-----------------------------------------------------------------------------
(* The admin CLI: select a dead-lettered row, then act on what was read. *)

AdminSelect(j) ==
    /\ loaded = NoJob
    /\ Selectable(j)
    /\ loaded' = j
    /\ UNCHANGED <<row, up, slot, crashes, errors>>

(* retry_job(): a new row with the same payload; the old one stays. *)
AdminRetry(new) ==
    /\ loaded # NoJob
    /\ Insert(new, TRUE)
    /\ loaded' = NoJob
    /\ UNCHANGED <<up, slot, crashes, errors>>

(* drop_job(): DELETE by primary key. *)
AdminDrop ==
    /\ loaded # NoJob
    /\ state' = [state EXCEPT ![loaded] = Deleted]
    /\ attempts' = [attempts EXCEPT ![loaded] = 0]
    /\ claimed_by' = [claimed_by EXCEPT ![loaded] = NoSlot]
    /\ lease' = [lease EXCEPT ![loaded] = "none"]
    /\ due' = [due EXCEPT ![loaded] = FALSE]
    /\ loaded' = NoJob
    /\ UNCHANGED <<up, slot, crashes, errors>>

(* retry_job() of a type that is not registered: nothing is written. *)
AdminRefuse ==
    /\ loaded # NoJob
    /\ loaded' = NoJob
    /\ UNCHANGED <<row, up, slot, crashes, errors>>

-----------------------------------------------------------------------------

SlotStep(s) ==
    \/ \E j \in Jobs : Claim(s, j)
    \/ RejectDispatch(s)
    \/ MarkRunning(s)
    \/ HandlerReturns(s)
    \/ MarkSucceeded(s)
    \/ MarkFailed(s)
    \/ MarkMissing(s)

TimePasses(j) == Lapse(j) \/ BecomeDue(j)

Next ==
    \/ \E j \in Jobs : Enqueue(j) \/ TimePasses(j)
    \/ \E s \in Slots : SlotStep(s) \/ Abandon(s)
    \/ \E w \in Workers : Crash(w) \/ Restart(w)
    \/ Reap
    \/ \E j \in Jobs : AdminSelect(j) \/ AdminRetry(j)
    \/ AdminDrop
    \/ AdminRefuse

Spec == Init /\ [][Next]_vars

(* Slots keep running, handlers return, clocks advance, reapers keep their *)
(* 60 s period and a dead process is started again by its supervisor.      *)
(* Producers, crashes, errors and the operator owe nothing.                *)
Fairness ==
    /\ \A s \in Slots : WF_vars(SlotStep(s))
    /\ \A j \in Jobs : WF_vars(TimePasses(j))
    /\ \A w \in Workers : WF_vars(Restart(w))
    /\ WF_vars(Reap)

FairSpec == Spec /\ Fairness

-----------------------------------------------------------------------------
(* Properties that hold whether or not handlers overrun their claims. *)

(* A row that can still be handed out has attempts left: a pending row, a  *)
(* row the reaper could make pending, and what a slot remembers of the row *)
(* it works on.  So the blind "attempts = seen + 1" of mark_failed never   *)
(* breaks the attempts_bounded CHECK, however stale the slot is.           *)
BudgetRemains ==
    /\ \A j \in Jobs :
         state[j] = "PENDING" \/ lease[j] # "none" => attempts[j] < MaxAttempts
    /\ \A s \in Slots : held[s] # NoJob => seen[s] < MaxAttempts

(* A slot has a job exactly when it is not free. *)
FreeIffIdle == \A s \in Slots : held[s] = NoJob <=> pc[s] = "free"

(* Properties the code promises; they need handlers to stay within their   *)
(* claims.                                                                 *)

(* A job is never executed by two slots at once (background_jobs.md,       *)
(* invariant 1), across claims, crashes, reaping and re-claiming.          *)
NoConcurrentExecution ==
    \A s, t \in Slots : held[s] # NoJob /\ held[s] = held[t] => s = t

(* While a slot works on a job the row says so: it is claimed by that slot, *)
(* not yet expired, in CLAIMED or RUNNING as far as the slot got, and with   *)
(* the attempts the slot remembers, so its final blind UPDATE is no lost    *)
(* update.                                                                  *)
SlotOwnsRow ==
    \A s \in Slots :
        held[s] # NoJob =>
            /\ claimed_by[held[s]] = s
            /\ lease[held[s]] = "live"
            /\ attempts[held[s]] = seen[s]
            /\ state[held[s]] \in {"CLAIMED", "RUNNING"}
            /\ pc[s] \in {"running", "succeeded", "failed"}
                 => state[held[s]] = "RUNNING"

(* Every claimed or running row has an expiry, so that the reaper will find *)
(* it when its worker is gone (background_jobs.md, failure modes).          *)
ClaimsAreRecoverable ==
    \A j \in Jobs : state[j] \in {"CLAIMED", "RUNNING"} => lease[j] # "none"

(* The inductive invariant behind the promises: slots own the rows they    *)
(* work on, every claim can be reaped, and a row the operator has selected *)
(* is still dead-lettered.                                                 *)
OwnershipInv ==
    /\ FreeIffIdle
    /\ SlotOwnsRow
    /\ ClaimsAreRecoverable
    /\ loaded # NoJob => state[loaded] = "DEAD_LETTERED"

(* SUCCEEDED and DEAD_LETTERED are terminal (types.py, TERMINAL_STATES); a  *)
(* dead-lettered row may be deleted by the operator, and no other row may.  *)
SettledStays(j) ==
    /\ state[j] \in TERMINAL_STATES /\ state'[j] # state[j]
         => state'[j] = Deleted
    /\ state'[j] = Deleted => state[j] \in {"DEAD_LETTERED", Deleted}

TerminalIsFinal == [][\A j \in Jobs : SettledStays(j)]_vars

(* Recorded failures are never forgotten: no step lowers the attempts of a *)
(* row that stays in the table.                                            *)
FailuresKept(j) ==
    Exists(j) /\ state'[j] # Deleted => attempts'[j] >= attempts[j]

AttemptsNeverDecrease == [][\A j \in Jobs : FailuresKept(j)]_vars

(* Every job that enters the queue is settled: it succeeds or is           *)
(* dead-lettered, in spite of crashes, lost marks and retries.             *)
EveryJobSettles ==
    \A j \in Jobs :
        state[j] = "PENDING" ~> state[j] \in TERMINAL_STATES \cup {Deleted}
=============================================================================
