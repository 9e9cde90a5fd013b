--------------------------- MODULE JobQueueProofs ---------------------------
(***************************************************************************)
(* Proofs about JobQueue for any jobs, processes, slots, max_attempts and  *)
(* bounds: what holds even when handlers outlive their claims, and what    *)
(* holds when they do not (OverrunAt = {}).                                *)
(***************************************************************************)
EXTENDS JobQueueRefines, TLAPS

USE JobQueueAssumption

-----------------------------------------------------------------------------
(* Whatever the handlers do: TypeOK is not inductive by itself, since the  *)
(* blind "attempts = seen + 1" of mark_failed stays within max_attempts    *)
(* only because a slot never remembers a spent budget.                     *)
BudgetInv == TypeOK /\ FreeIffIdle /\ BudgetRemains

LEMMA BudgetInit == Init => BudgetInv
  BY DEF Init, BudgetInv, TypeOK, FreeIffIdle, BudgetRemains, JobStates, TERMINAL_STATES,
         Absent, Outcomes

LEMMA BudgetStep == BudgetInv /\ [Next]_vars => BudgetInv'
<1> SUFFICES ASSUME BudgetInv, [Next]_vars PROVE BudgetInv'
  OBVIOUS
<1> USE DEF BudgetInv, TypeOK, FreeIffIdle, BudgetRemains, JobStates, TERMINAL_STATES,
            Absent, Deleted, Outcomes, row, slot
<1>1. ASSUME NEW j \in Jobs, Enqueue(j) PROVE BudgetInv'
  BY <1>1 DEF Enqueue, Insert
<1>2. ASSUME NEW s \in Slots, NEW j \in Jobs, Claim(s, j) PROVE BudgetInv'
  BY <1>2 DEF Claim, Claimable
<1>3. ASSUME NEW s \in Slots, RejectDispatch(s) PROVE BudgetInv'
  BY <1>3 DEF RejectDispatch
<1>4. ASSUME NEW s \in Slots, MarkRunning(s) PROVE BudgetInv'
  BY <1>4 DEF MarkRunning, Exists
<1>5. ASSUME NEW s \in Slots, HandlerReturns(s) PROVE BudgetInv'
  BY <1>5 DEF HandlerReturns
<1>6. ASSUME NEW s \in Slots, MarkSucceeded(s) PROVE BudgetInv'
  BY <1>6 DEF MarkSucceeded, Exists, Release
<1>7. ASSUME NEW s \in Slots, MarkFailed(s) PROVE BudgetInv'
  <2> DEFINE j == held[s]
             n == seen[s] + 1
             dead == pc[s] = "fatal" \/ Exhausted(n)
  <2>1. j \in Jobs /\ seen[s] < MaxAttempts
    BY <1>7 DEF MarkFailed
  <2>2. n \in 0 .. MaxAttempts /\ (~dead => n < MaxAttempts)
    BY <2>1 DEF Exhausted
  <2>3. /\ attempts' = [attempts EXCEPT ![j] = n]
        /\ claimed_by' = [claimed_by EXCEPT ![j] = NoSlot]
        /\ lease' = [lease EXCEPT ![j] = "none"]
        /\ state' = [state EXCEPT ![j] = IF dead THEN "DEAD_LETTERED"
                                                 ELSE "PENDING"]
        /\ due' = [due EXCEPT ![j] = IF dead THEN @ ELSE FALSE]
        /\ pc' = [pc EXCEPT ![s] = "free"]
        /\ held' = [held EXCEPT ![s] = NoJob]
        /\ seen' = [seen EXCEPT ![s] = 0]
        /\ UNCHANGED <<up, loaded, crashes, errors>>
    BY <1>7 DEF MarkFailed, Release
  <2> HIDE DEF j, n, dead
  <2>4. TypeOK'
    <3>1. state' \in [Jobs -> JobStates \cup {Absent, Deleted}]
      BY <2>1, <2>3
    <3>2. due' \in [Jobs -> BOOLEAN]
      BY <2>1, <2>3
    <3>3. attempts' \in [Jobs -> 0 .. MaxAttempts]
      BY <2>1, <2>2, <2>3
    <3>4. /\ claimed_by' \in [Jobs -> Slots \cup {NoSlot}]
          /\ lease' \in [Jobs -> {"none", "live", "lapsed"}]
      BY <2>1, <2>3
    <3>5. /\ pc' \in [Slots -> {"free", "claimed", "running"} \cup Outcomes]
          /\ held' \in [Slots -> Jobs \cup {NoJob}]
          /\ seen' \in [Slots -> 0 .. MaxAttempts]
      BY <2>3
    <3>6. /\ up' \in [Workers -> BOOLEAN]
          /\ loaded' \in Jobs \cup {NoJob}
          /\ crashes' \in 0 .. MaxCrashes
          /\ errors' \in 0 .. MaxErrors
      BY <2>3
    <3>7. QED
      BY <3>1, <3>2, <3>3, <3>4, <3>5, <3>6
  <2>5. FreeIffIdle'
    BY <2>3
  <2>6. BudgetRemains'
    BY <2>1, <2>2, <2>3
  <2>7. QED
    BY <2>4, <2>5, <2>6
<1>8. ASSUME NEW s \in Slots, MarkMissing(s) PROVE BudgetInv'
  BY <1>8 DEF MarkMissing, Release
<1>9. ASSUME NEW s \in Slots, Abandon(s) PROVE BudgetInv'
  BY <1>9 DEF Abandon, Release
<1>10. ASSUME NEW w \in Workers, Crash(w) PROVE BudgetInv'
  BY <1>10 DEF Crash
<1>11. ASSUME NEW w \in Workers, Restart(w) PROVE BudgetInv'
  BY <1>11 DEF Restart
<1>12. ASSUME NEW j \in Jobs, Lapse(j) PROVE BudgetInv'
  BY <1>12 DEF Lapse
<1>13. ASSUME NEW j \in Jobs, BecomeDue(j) PROVE BudgetInv'
  BY <1>13 DEF BecomeDue
<1>14. CASE Reap
  BY <1>14 DEF Reap, Expired
<1>15. ASSUME NEW j \in Jobs, AdminSelect(j) PROVE BudgetInv'
  BY <1>15 DEF AdminSelect
<1>16. ASSUME NEW j \in Jobs, AdminRetry(j) PROVE BudgetInv'
  BY <1>16 DEF AdminRetry, Insert
<1>17. CASE AdminDrop
  BY <1>17 DEF AdminDrop
<1>18. CASE AdminRefuse
  BY <1>18 DEF AdminRefuse
<1>19. CASE UNCHANGED vars
  BY <1>19 DEF vars
<1>20. QED
  BY <1>1, <1>2, <1>3, <1>4, <1>5, <1>6, <1>7, <1>8, <1>9, <1>10, <1>11,
     <1>12, <1>13, <1>14, <1>15, <1>16, <1>17, <1>18, <1>19
  DEF Next, SlotStep, TimePasses

(* Every reachable state is well typed. *)
THEOREM TypeCorrect == Spec => []TypeOK
<1>1. BudgetInv => TypeOK
  BY DEF BudgetInv
<1>2. QED
  BY BudgetInit, BudgetStep, <1>1, PTL DEF Spec

(* A row that can be handed out, and a slot that works, have attempts left, *)
(* so mark_failed never breaks the attempts_bounded CHECK; also when slots  *)
(* overrun their claims and write from stale copies.                        *)
THEOREM BudgetAlwaysRemains == Spec => []BudgetRemains
<1>1. BudgetInv => BudgetRemains
  BY DEF BudgetInv
<1>2. QED
  BY BudgetInit, BudgetStep, <1>1, PTL DEF Spec

-----------------------------------------------------------------------------
(* When no claim lapses while a slot works on the job: slots own the rows  *)
(* they work on.                                                           *)
NoOverrun == OverrunAt = {}

PromiseInv == BudgetInv /\ OwnershipInv

LEMMA OwnershipInit == Init => OwnershipInv
  BY DEF Init, OwnershipInv, FreeIffIdle, SlotOwnsRow, ClaimsAreRecoverable,
         Absent

(* Two slots never work on one job: its row can name only one of them. *)
LEMMA OwnersDiffer == OwnershipInv => NoConcurrentExecution
  BY DEF OwnershipInv, SlotOwnsRow, NoConcurrentExecution

LEMMA OwnershipStep ==
  ASSUME NoOverrun, PromiseInv, [Next]_vars
  PROVE  OwnershipInv'
<1> USE DEF PromiseInv, BudgetInv, TypeOK, OwnershipInv, FreeIffIdle,
            SlotOwnsRow, ClaimsAreRecoverable, JobStates, TERMINAL_STATES,
            Absent, Deleted, Outcomes, row, slot
<1>0. \A s, t \in Slots : held[s] # NoJob /\ held[s] = held[t] => s = t
  BY OwnersDiffer DEF NoConcurrentExecution
<1>1. ASSUME NEW j \in Jobs, Enqueue(j) PROVE OwnershipInv'
  BY <1>1 DEF Enqueue, Insert
<1>2. ASSUME NEW s \in Slots, NEW j \in Jobs, Claim(s, j)
      PROVE  OwnershipInv'
  BY <1>2 DEF Claim, Claimable
<1>3. ASSUME NEW s \in Slots, RejectDispatch(s) PROVE OwnershipInv'
  BY <1>3 DEF RejectDispatch
<1>4. ASSUME NEW s \in Slots, MarkRunning(s) PROVE OwnershipInv'
  BY <1>0, <1>4 DEF MarkRunning, Exists
<1>5. ASSUME NEW s \in Slots, HandlerReturns(s) PROVE OwnershipInv'
  BY <1>5 DEF HandlerReturns
<1>6. ASSUME NEW s \in Slots, MarkSucceeded(s) PROVE OwnershipInv'
  BY <1>0, <1>6 DEF MarkSucceeded, Exists, Release
<1>7. ASSUME NEW s \in Slots, MarkFailed(s) PROVE OwnershipInv'
  BY <1>0, <1>7 DEF MarkFailed, Exists, Release
<1>8. ASSUME NEW s \in Slots, MarkMissing(s) PROVE OwnershipInv'
  BY <1>8 DEF MarkMissing, Release
<1>9. ASSUME NEW s \in Slots, Abandon(s) PROVE OwnershipInv'
  BY <1>9 DEF Abandon, Release
<1>10. ASSUME NEW w \in Workers, Crash(w) PROVE OwnershipInv'
  BY <1>10 DEF Crash
<1>11. ASSUME NEW w \in Workers, Restart(w) PROVE OwnershipInv'
  BY <1>11 DEF Restart
<1>12. ASSUME NEW j \in Jobs, Lapse(j) PROVE OwnershipInv'
  BY <1>12 DEF Lapse, Holders, NoOverrun
<1>13. ASSUME NEW j \in Jobs, BecomeDue(j) PROVE OwnershipInv'
  BY <1>13 DEF BecomeDue
<1>14. CASE Reap
  BY <1>14 DEF Reap, Expired
<1>15. ASSUME NEW j \in Jobs, AdminSelect(j) PROVE OwnershipInv'
  BY <1>15 DEF AdminSelect, Selectable
<1>16. ASSUME NEW j \in Jobs, AdminRetry(j) PROVE OwnershipInv'
  BY <1>16 DEF AdminRetry, Insert
<1>17. CASE AdminDrop
  BY <1>17 DEF AdminDrop
<1>18. CASE AdminRefuse
  BY <1>18 DEF AdminRefuse
<1>19. CASE UNCHANGED vars
  BY <1>19 DEF vars
<1>20. QED
  BY <1>1, <1>2, <1>3, <1>4, <1>5, <1>6, <1>7, <1>8, <1>9, <1>10, <1>11,
     <1>12, <1>13, <1>14, <1>15, <1>16, <1>17, <1>18, <1>19
  DEF Next, SlotStep, TimePasses

THEOREM PromiseInvariant ==
  ASSUME NoOverrun
  PROVE  Spec => []PromiseInv
<1>1. Init => PromiseInv
  BY BudgetInit, OwnershipInit DEF PromiseInv
<1>2. PromiseInv /\ [Next]_vars => PromiseInv'
  BY BudgetStep, OwnershipStep DEF PromiseInv
<1>3. QED
  BY <1>1, <1>2, PTL DEF Spec

(* A job is never executed by two slots at once. *)
THEOREM MutualExclusion ==
  ASSUME NoOverrun
  PROVE  Spec => []NoConcurrentExecution
<1>1. PromiseInv => NoConcurrentExecution
  BY OwnersDiffer DEF PromiseInv
<1>2. QED
  BY PromiseInvariant, <1>1, PTL

(* The blind marks of a slot always hit a row that is still its own: the   *)
(* row names the slot, its claim has not lapsed, and its attempts are the  *)
(* ones the slot remembers.                                                *)
THEOREM MarksHitOwnRows ==
  ASSUME NoOverrun
  PROVE  Spec => []SlotOwnsRow
<1>1. PromiseInv => SlotOwnsRow
  BY DEF PromiseInv, OwnershipInv
<1>2. QED
  BY PromiseInvariant, <1>1, PTL

(* All that ties slots, processes and rows together: claims, owners and    *)
(* expiries agree through every crash, mark and operator command.          *)
THEOREM OwnershipKept ==
  ASSUME NoOverrun
  PROVE  Spec => []OwnershipInv
<1>1. PromiseInv => OwnershipInv
  BY DEF PromiseInv
<1>2. QED
  BY PromiseInvariant, <1>1, PTL

(* Every claimed or running row has an expiry the reaper will see. *)
THEOREM Recoverable ==
  ASSUME NoOverrun
  PROVE  Spec => []ClaimsAreRecoverable
<1>1. PromiseInv => ClaimsAreRecoverable
  BY DEF PromiseInv, OwnershipInv
<1>2. QED
  BY PromiseInvariant, <1>1, PTL

(* One step leaves settled rows settled and forgets no recorded failure. *)
LEMMA StepKeepsHistory ==
  ASSUME PromiseInv, [Next]_vars, NEW i \in Jobs
  PROVE  SettledStays(i) /\ FailuresKept(i)
<1> USE DEF PromiseInv, BudgetInv, TypeOK, OwnershipInv, FreeIffIdle,
            SlotOwnsRow, SettledStays, FailuresKept, Exists, JobStates,
            TERMINAL_STATES, Absent, Deleted, Outcomes, row, slot
<1> DEFINE Goal == SettledStays(i) /\ FailuresKept(i)
<1>1. ASSUME NEW j \in Jobs, Enqueue(j) PROVE Goal
  BY <1>1 DEF Enqueue, Insert
<1>2. ASSUME NEW s \in Slots, NEW j \in Jobs, Claim(s, j) PROVE Goal
  BY <1>2 DEF Claim, Claimable
<1>3. ASSUME NEW s \in Slots, RejectDispatch(s) PROVE Goal
  BY <1>3 DEF RejectDispatch
<1>4. ASSUME NEW s \in Slots, MarkRunning(s) PROVE Goal
  BY <1>4 DEF MarkRunning
<1>5. ASSUME NEW s \in Slots, HandlerReturns(s) PROVE Goal
  BY <1>5 DEF HandlerReturns
<1>6. ASSUME NEW s \in Slots, MarkSucceeded(s) PROVE Goal
  BY <1>6 DEF MarkSucceeded
<1>7. ASSUME NEW s \in Slots, MarkFailed(s) PROVE Goal
  BY <1>7 DEF MarkFailed
<1>8. ASSUME NEW s \in Slots, MarkMissing(s) PROVE Goal
  BY <1>8 DEF MarkMissing
<1>9. ASSUME NEW s \in Slots, Abandon(s) PROVE Goal
  BY <1>9 DEF Abandon
<1>10. ASSUME NEW w \in Workers, Crash(w) PROVE Goal
  BY <1>10 DEF Crash
<1>11. ASSUME NEW w \in Workers, Restart(w) PROVE Goal
  BY <1>11 DEF Restart
<1>12. ASSUME NEW j \in Jobs, Lapse(j) PROVE Goal
  BY <1>12 DEF Lapse
<1>13. ASSUME NEW j \in Jobs, BecomeDue(j) PROVE Goal
  BY <1>13 DEF BecomeDue
<1>14. CASE Reap
  BY <1>14 DEF Reap, Expired
<1>15. ASSUME NEW j \in Jobs, AdminSelect(j) PROVE Goal
  BY <1>15 DEF AdminSelect
<1>16. ASSUME NEW j \in Jobs, AdminRetry(j) PROVE Goal
  BY <1>16 DEF AdminRetry, Insert
<1>17. CASE AdminDrop
  BY <1>17 DEF AdminDrop
<1>18. CASE AdminRefuse
  BY <1>18 DEF AdminRefuse
<1>19. CASE UNCHANGED vars
  BY <1>19 DEF vars
<1>20. QED
  BY <1>1, <1>2, <1>3, <1>4, <1>5, <1>6, <1>7, <1>8, <1>9, <1>10, <1>11,
     <1>12, <1>13, <1>14, <1>15, <1>16, <1>17, <1>18, <1>19
  DEF Next, SlotStep, TimePasses

(* SUCCEEDED and DEAD_LETTERED are final, and the only rows that are ever  *)
(* deleted are dead-lettered ones.                                         *)
THEOREM TerminalStatesFinal ==
  ASSUME NoOverrun
  PROVE  Spec => TerminalIsFinal
<1>1. PromiseInv /\ [Next]_vars => [\A j \in Jobs : SettledStays(j)]_vars
  BY StepKeepsHistory
<1>2. QED
  BY PromiseInvariant, <1>1, PTL DEF Spec, TerminalIsFinal

(* The attempts of a row never go down: no failure is a lost update. *)
THEOREM FailuresNeverLost ==
  ASSUME NoOverrun
  PROVE  Spec => AttemptsNeverDecrease
<1>1. PromiseInv /\ [Next]_vars => [\A j \in Jobs : FailuresKept(j)]_vars
  BY StepKeepsHistory
<1>2. QED
  BY PromiseInvariant, <1>1, PTL DEF Spec, AttemptsNeverDecrease

-----------------------------------------------------------------------------
(* The queue implements JobLifecycle: each step is an abstract step or     *)
(* leaves the abstract state alone.                                        *)

LEMMA PhaseValues ==
  /\ PhaseOf(Absent) = "new"
  /\ PhaseOf("PENDING") = "queued"
  /\ PhaseOf("CLAIMED") = "taken"
  /\ PhaseOf("RUNNING") = "taken"
  /\ PhaseOf("SUCCEEDED") = "succeeded"
  /\ PhaseOf("DEAD_LETTERED") = "dead"
  /\ PhaseOf(Deleted) = "removed"
  BY DEF PhaseOf, Absent, Deleted

LEMMA PhaseOfRow == \A j \in Jobs : Phase[j] = PhaseOf(state[j])
  BY DEF Phase

LEMMA RefinesInit == Init => Lifecycle!Init
  BY PhaseValues DEF Init, Lifecycle!Init, Phase

LEMMA RefinesStep ==
  ASSUME NoOverrun, PromiseInv, [Next]_vars
  PROVE  [Lifecycle!Next]_Lifecycle!vars
<1> DEFINE Goal == [Lifecycle!Next]_Lifecycle!vars
<1> USE DEF PromiseInv, BudgetInv, TypeOK, OwnershipInv, FreeIffIdle,
            SlotOwnsRow, JobStates, TERMINAL_STATES, Absent, Deleted, Outcomes,
            row, slot, Lifecycle!vars
<1> USE PhaseValues, PhaseOfRow
<1>0. \A s, t \in Slots : held[s] # NoJob /\ held[s] = held[t] => s = t
  BY OwnersDiffer DEF NoConcurrentExecution
<1>1. ASSUME NEW j \in Jobs, Enqueue(j) PROVE Goal
  <2>1. Phase' = [Phase EXCEPT ![j] = "queued"]
    <3>1. state' = [state EXCEPT ![j] = "PENDING"]
      BY <1>1 DEF Enqueue, Insert
    <3>2. QED
      BY <3>1 DEF Phase
  <2>2. Lifecycle!Submit(j)
    BY <1>1, <2>1 DEF Enqueue, Insert, Lifecycle!Submit
  <2>3. QED
    BY <2>2 DEF Lifecycle!Next
<1>2. ASSUME NEW s \in Slots, NEW j \in Jobs, Claim(s, j) PROVE Goal
  <2>1. Lifecycle!Take(s, j)
    <3>1. Phase[j] = "queued" /\ held[s] = NoJob
      BY <1>2 DEF Claim, Claimable
    <3>2. ~Lifecycle!Executing(j)
      BY <1>2 DEF Claim, Claimable, Lifecycle!Executing
    <3>3. Phase' = [Phase EXCEPT ![j] = "taken"]
      BY <1>2 DEF Claim, Phase
    <3>4. QED
      BY <1>2, <3>1, <3>2, <3>3 DEF Claim, Lifecycle!Take
  <2>2. QED
    BY <2>1 DEF Lifecycle!Next
<1>3. ASSUME NEW s \in Slots, RejectDispatch(s) PROVE Goal
  BY <1>3 DEF RejectDispatch, Phase
<1>4. ASSUME NEW s \in Slots, MarkRunning(s) PROVE Goal
  <2>1. Phase' = Phase
    BY <1>4 DEF MarkRunning, Exists, Phase
  <2>2. QED
    BY <1>4, <2>1 DEF MarkRunning
<1>5. ASSUME NEW s \in Slots, HandlerReturns(s) PROVE Goal
  BY <1>5 DEF HandlerReturns, Phase
<1>6. ASSUME NEW s \in Slots, MarkSucceeded(s) PROVE Goal
  <2>1. Lifecycle!Succeed(s)
    <3>1. Phase' = [Phase EXCEPT ![held[s]] = "succeeded"]
      BY <1>6 DEF MarkSucceeded, Phase
    <3>2. QED
      BY <1>6, <3>1
      DEF MarkSucceeded, Release, Lifecycle!Succeed, Lifecycle!Settle
  <2>2. QED
    BY <2>1 DEF Lifecycle!Next
<1>7. ASSUME NEW s \in Slots, MarkFailed(s) PROVE Goal
  <2> DEFINE j == held[s]
             n == seen[s] + 1
             dead == pc[s] = "fatal" \/ Exhausted(n)
  <2>1. /\ j \in Jobs
        /\ Phase[j] = "taken"
        /\ n = attempts[j] + 1
        /\ ~dead => n < MaxAttempts
    BY <1>7 DEF MarkFailed, Exhausted
  <2>2. /\ attempts' = [attempts EXCEPT ![j] = n]
        /\ state' = [state EXCEPT ![j] = IF dead THEN "DEAD_LETTERED"
                                                 ELSE "PENDING"]
        /\ held' = [held EXCEPT ![s] = NoJob]
    BY <1>7 DEF MarkFailed, Release
  <2> HIDE DEF j, n, dead
  <2>3. attempts' = [attempts EXCEPT ![held[s]] = @ + 1]
    BY <2>1, <2>2 DEF j
  <2>4. CASE dead
    <3>0. Phase' = [Phase EXCEPT ![j] = "dead"]
      BY <2>1, <2>2, <2>4 DEF Phase
    <3>1. Lifecycle!DeadLetter(s)
      BY <2>1, <2>2, <2>3, <3>0
      DEF j, Lifecycle!DeadLetter, Lifecycle!Settle, Lifecycle!CountFailure
    <3>2. QED
      BY <3>1 DEF Lifecycle!Next
  <2>5. CASE ~dead
    <3>0. Phase' = [Phase EXCEPT ![j] = "queued"]
      BY <2>1, <2>2, <2>5 DEF Phase
    <3>1. Lifecycle!Retry(s)
      BY <2>1, <2>2, <2>3, <2>5, <3>0
      DEF j, Lifecycle!Retry, Lifecycle!Settle, Lifecycle!CountFailure
    <3>2. QED
      BY <3>1 DEF Lifecycle!Next
  <2>6. QED
    BY <2>4, <2>5
<1>8. ASSUME NEW s \in Slots, MarkMissing(s) PROVE Goal
  BY <1>8 DEF MarkMissing, Exists, Phase
<1>9. ASSUME NEW s \in Slots, Abandon(s) PROVE Goal
  <2>1. held' = [r \in Slots |-> IF r \in {s} THEN NoJob ELSE held[r]]
    BY <1>9 DEF Abandon, Release
  <2>2. Lifecycle!Vanish({s})
    BY <1>9, <2>1 DEF Abandon, Lifecycle!Vanish, Phase
  <2>3. QED
    BY <2>2 DEF Lifecycle!Next
<1>10. ASSUME NEW w \in Workers, Crash(w) PROVE Goal
  <2>1. Lifecycle!Vanish({s \in Slots : s[1] = w})
    BY <1>10 DEF Crash, Lifecycle!Vanish, Phase
  <2>2. QED
    BY <2>1 DEF Lifecycle!Next
<1>11. ASSUME NEW w \in Workers, Restart(w) PROVE Goal
  BY <1>11 DEF Restart, Phase
<1>12. ASSUME NEW j \in Jobs, Lapse(j) PROVE Goal
  BY <1>12 DEF Lapse, Phase
<1>13. ASSUME NEW j \in Jobs, BecomeDue(j) PROVE Goal
  BY <1>13 DEF BecomeDue, Phase
<1>14. CASE Reap
  <2> DEFINE J == {j \in Jobs : Expired(j)}
  <2>1. Lifecycle!Recover(J)
    BY <1>14 DEF Reap, Expired, Phase, Lifecycle!Recover, Lifecycle!Executing
  <2>2. J \in SUBSET Jobs
    OBVIOUS
  <2> HIDE DEF J
  <2>3. QED
    BY <2>1, <2>2 DEF Lifecycle!Next
<1>15. ASSUME NEW j \in Jobs, AdminSelect(j) PROVE Goal
  BY <1>15 DEF AdminSelect, Phase
<1>16. ASSUME NEW j \in Jobs, AdminRetry(j) PROVE Goal
  <2>1. Phase' = [Phase EXCEPT ![j] = "queued"]
    BY <1>16 DEF AdminRetry, Insert, Phase
  <2>2. Lifecycle!Submit(j)
    BY <1>16, <2>1 DEF AdminRetry, Insert, Lifecycle!Submit
  <2>3. QED
    BY <2>2 DEF Lifecycle!Next
<1>17. CASE AdminDrop
  <2>0. loaded \in Jobs
    BY <1>17 DEF AdminDrop
  <2>1. Lifecycle!Discard(loaded)
    <3>1. Phase' = [Phase EXCEPT ![loaded] = "removed"]
      BY <1>17, <2>0 DEF AdminDrop, Phase
    <3>2. QED
      BY <1>17, <2>0, <3>1 DEF AdminDrop, Lifecycle!Discard
  <2>2. QED
    BY <2>0, <2>1 DEF Lifecycle!Next
<1>18. CASE AdminRefuse
  BY <1>18 DEF AdminRefuse, Phase
<1>19. CASE UNCHANGED vars
  BY <1>19 DEF vars, Phase
<1>20. QED
  BY <1>1, <1>2, <1>3, <1>4, <1>5, <1>6, <1>7, <1>8, <1>9, <1>10, <1>11,
     <1>12, <1>13, <1>14, <1>15, <1>16, <1>17, <1>18, <1>19
  DEF Next, SlotStep, TimePasses

(* With handlers inside their claims, the queue is a correct implementation *)
(* of the abstract life of a job.                                           *)
THEOREM QueueImplementsLifecycle ==
  ASSUME NoOverrun
  PROVE  Spec => ImplementsLifecycle
<1>1. PromiseInv /\ [Next]_vars => [Lifecycle!Next]_Lifecycle!vars
  BY RefinesStep
<1>2. QED
  BY PromiseInvariant, RefinesInit, <1>1, PTL
  DEF Spec, ImplementsLifecycle, Lifecycle!Spec
=============================================================================
