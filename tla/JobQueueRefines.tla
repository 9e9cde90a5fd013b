--------------------------- MODULE JobQueueRefines ---------------------------
(* JobQueue seen as JobLifecycle. *)
EXTENDS JobQueue

(* A row's phase: CLAIMED and RUNNING are one, "taken". *)
PhaseOf(st) ==
    CASE st = Absent -> "new"
      [] st = "PENDING" -> "queued"
      [] st \in {"CLAIMED", "RUNNING"} -> "taken"
      [] st = "SUCCEEDED" -> "succeeded"
      [] st = "DEAD_LETTERED" -> "dead"
      [] st = Deleted -> "removed"

Phase == [j \in Jobs |-> PhaseOf(state[j])]

Lifecycle == INSTANCE JobLifecycle WITH
    Runners <- Slots,
    Idle <- NoJob,
    Budget <- MaxAttempts,
    phase <- Phase,
    failures <- attempts,
    working <- held

(* The queue with its leases, stale slot copies, reaper and admin commands *)
(* implements the abstract life of a job: one executor at a time, failures *)
(* counted once, settled jobs stay settled.                                *)
ImplementsLifecycle == Lifecycle!Spec
=============================================================================
