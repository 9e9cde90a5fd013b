---------------------------- MODULE JobLifecycle ----------------------------
(***************************************************************************)
(* What the background job queue promises, without leases, clocks, stale   *)
(* copies or a reaper's timing (.spec/modules/background_jobs.md, sections *)
(* 5 and 8): a queued job is taken by one worker at a time, every recorded *)
(* failure counts once against the budget, a job whose worker is gone goes *)
(* back to the queue uncounted, and a settled job stays settled.           *)
(* JobQueue implements this specification when handlers finish within      *)
(* their claims.                                                           *)
(***************************************************************************)
EXTENDS Naturals

CONSTANTS Jobs, Runners, Idle, Budget

VARIABLES
    phase,     \* phase[j]: where job j is in its life
    failures,  \* failures[j]: failures recorded for job j
    working    \* working[r]: the job runner r executes, or Idle

vars == <<phase, failures, working>>

Init ==
    /\ phase = [j \in Jobs |-> "new"]
    /\ failures = [j \in Jobs |-> 0]
    /\ working = [r \in Runners |-> Idle]

Executing(j) == \E r \in Runners : working[r] = j

Submit(j) ==
    /\ phase[j] = "new"
    /\ phase' = [phase EXCEPT ![j] = "queued"]
    /\ failures' = [failures EXCEPT ![j] = 0]
    /\ UNCHANGED working

Take(r, j) ==
    /\ working[r] = Idle
    /\ phase[j] = "queued"
    /\ ~Executing(j)
    /\ phase' = [phase EXCEPT ![j] = "taken"]
    /\ working' = [working EXCEPT ![r] = j]
    /\ UNCHANGED failures

(* The one who executes a job settles it, or hands it back with one more   *)
(* failure on its account; a permanent failure settles it at once.         *)
Settle(r, result) ==
    /\ working[r] # Idle
    /\ phase[working[r]] = "taken"
    /\ phase' = [phase EXCEPT ![working[r]] = result]
    /\ working' = [working EXCEPT ![r] = Idle]

Succeed(r) == Settle(r, "succeeded") /\ UNCHANGED failures

CountFailure(r) ==
    failures' = [failures EXCEPT ![working[r]] = @ + 1]

Retry(r) ==
    /\ Settle(r, "queued")
    /\ failures[working[r]] + 1 < Budget
    /\ CountFailure(r)

DeadLetter(r) == Settle(r, "dead") /\ CountFailure(r)

(* Runners stop executing without settling anything. *)
Vanish(R) ==
    /\ working' = [r \in Runners |-> IF r \in R THEN Idle ELSE working[r]]
    /\ UNCHANGED <<phase, failures>>

(* Jobs nobody executes any more return to the queue. *)
Recover(J) ==
    /\ \A j \in J : phase[j] = "taken" /\ ~Executing(j)
    /\ phase' = [j \in Jobs |-> IF j \in J THEN "queued" ELSE phase[j]]
    /\ UNCHANGED <<failures, working>>

(* Only a dead-lettered job can be thrown away. *)
Discard(j) ==
    /\ phase[j] = "dead"
    /\ phase' = [phase EXCEPT ![j] = "removed"]
    /\ failures' = [failures EXCEPT ![j] = 0]
    /\ UNCHANGED working

Next ==
    \/ \E j \in Jobs : Submit(j) \/ Discard(j)
    \/ \E r \in Runners : Succeed(r) \/ Retry(r) \/ DeadLetter(r)
    \/ \E r \in Runners, j \in Jobs : Take(r, j)
    \/ \E R \in SUBSET Runners : Vanish(R)
    \/ \E J \in SUBSET Jobs : Recover(J)

Spec == Init /\ [][Next]_vars
=============================================================================
