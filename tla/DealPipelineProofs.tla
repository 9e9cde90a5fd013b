------------------------- MODULE DealPipelineProofs -------------------------
(***************************************************************************)
(* Proofs about DealPipeline for any deals, jobs, claim slots, analysts,   *)
(* retry budget and bounds.                                                *)
(*   - With configs created at any time and any number of operator         *)
(*     retries: the pipeline is well typed, and every shown score and      *)
(*     decision exists.                                                    *)
(*   - With at most one operator retry: the audit names the status.        *)
(*   - If, besides, no config is created: a deal is scored once, and its   *)
(*     status only moves forward.                                          *)
(***************************************************************************)
EXTENDS DealPipeline, TLAPS

USE DealPipelineAssumption

-----------------------------------------------------------------------------
(* TypeOK needs PipelineInv (what a handler works on exists), and that in   *)
(* turn needs EvidenceExists (an analyst reads a SCORED deal), which needs  *)
(* both: the three are inductive together.                                  *)
Sound == TypeOK /\ PipelineInv /\ EvidenceExists

LEMMA SoundInit == Init => Sound
  BY DEF Init, Sound, TypeOK, PipelineInv, EvidenceExists, Queue!Init, NoTx,
         DealStatus, NoRow, Stages, Versions

(* A handler that runs works on a job whose payload names a deal. *)
LEMMA HandlersHaveDeals ==
  ASSUME Sound, NEW r \in Runners, stage[r] # "idle"
  PROVE  working[r] \in Jobs /\ DealOf(r) \in Deals
  BY DEF Sound, PipelineInv, DealOf

LEMMA SoundStep == Sound /\ [Next]_vars => Sound'
<1> SUFFICES ASSUME Sound, [Next]_vars PROVE Sound'
  OBVIOUS
<1> USE DEF Sound, TypeOK, PipelineInv, EvidenceExists, DealStatus, NoRow,
            Stages, deal, queue, handler, bounds
<1>1. ASSUME NEW d \in Deals, NEW j \in Jobs, Ingest(d, j) PROVE Sound'
  BY <1>1 DEF Ingest, Queue!Submit
<1>2. ASSUME NEW i \in Jobs, NEW j \in Jobs, AdminRetry(i, j) PROVE Sound'
  BY <1>2 DEF AdminRetry, Queue!Submit
<1>25. ASSUME NEW j \in Jobs, AdminDrop(j) PROVE Sound'
  BY <1>25 DEF AdminDrop, Queue!Discard
<1>3. ASSUME NEW r \in Runners, NEW j \in Jobs, Take(r, j) PROVE Sound'
  BY <1>3 DEF Take, GoTo, Queue!Take, Queue!Executing
<1>4. ASSUME NEW r \in Runners, ExtractLoad(r) PROVE Sound'
  BY <1>4, HandlersHaveDeals DEF ExtractLoad, GoTo, Extractable
<1>5. ASSUME NEW r \in Runners, ExtractSucceed(r) PROVE Sound'
  BY <1>5, HandlersHaveDeals DEF ExtractSucceed, GoTo, SetStatus
<1>6. ASSUME NEW r \in Runners, ExtractFail(r) PROVE Sound'
  BY <1>6, HandlersHaveDeals DEF ExtractFail, GoTo, SetStatus
<1>7. ASSUME NEW r \in Runners, ScoreLoadDeal(r) PROVE Sound'
  BY <1>7, HandlersHaveDeals DEF ScoreLoadDeal, GoTo, Scorable
<1>8. ASSUME NEW r \in Runners, ScoreLoadConfig(r) PROVE Sound'
  BY <1>8 DEF ScoreLoadConfig, GoTo
<1>9. ASSUME NEW r \in Runners, ScoreCommit(r) PROVE Sound'
  BY <1>9, HandlersHaveDeals DEF ScoreCommit, GoTo, SetStatus
<1>10. ASSUME NEW r \in Runners, HandlerError(r) PROVE Sound'
  BY <1>10 DEF HandlerError, GoTo
<1>11. ASSUME NEW r \in Runners, Succeed(r) PROVE Sound'
  BY <1>11 DEF Succeed, GoTo, Queue!Succeed, Queue!Settle
<1>12. ASSUME NEW r \in Runners, Fail(r) PROVE Sound'
  <2> DEFINE j == working[r]
  <2>1. /\ j \in Jobs
        /\ phase[j] = "taken"
        /\ failures[j] < Budget
        /\ deal_of[j] \in Deals
    BY <1>12 DEF Fail, Queue!Retry, Queue!DeadLetter, Queue!Settle
  <2>2. PICK p \in {"queued", "dead"} :
          /\ phase' = [phase EXCEPT ![j] = p]
          /\ p = "queued" => failures[j] + 1 < Budget
    BY <1>12 DEF Fail, Queue!Retry, Queue!DeadLetter, Queue!Settle
  <2>3. /\ failures' = [failures EXCEPT ![j] = @ + 1]
        /\ working' = [working EXCEPT ![r] = NoJob]
        /\ stage' = [stage EXCEPT ![r] = "idle"]
        /\ UNCHANGED <<deal, active_config, deal_of, loaded, config_tx, desk,
                       bounds>>
    BY <1>12 DEF Fail, GoTo, Queue!Retry, Queue!DeadLetter, Queue!Settle,
                 Queue!CountFailure
  <2> HIDE DEF j
  <2>4. failures[j] + 1 \in 0 .. Budget
    BY <2>1
  <2>5. TypeOK'
    BY <2>1, <2>2, <2>3, <2>4
  <2>6. PipelineInv'
    BY <2>1, <2>2, <2>3, <2>4
  <2>7. EvidenceExists'
    BY <2>3
  <2>8. QED
    BY <2>5, <2>6, <2>7
<1>13. ASSUME NEW R \in SUBSET Runners, Crash(R) PROVE Sound'
  BY <1>13 DEF Crash, Queue!Vanish
<1>14. ASSUME NEW j \in Jobs, Recover(j) PROVE Sound'
  BY <1>14 DEF Recover, Queue!Recover, Queue!Executing
<1>15. CASE ConfigOpen
  BY <1>15 DEF ConfigOpen, NoTx, Scorable
<1>16. ASSUME NEW d \in Deals, ConfigLoad(d) PROVE Sound'
  BY <1>16 DEF ConfigLoad, Scorable
<1>17. CASE ConfigScore \/ ConfigSkip
  <2>1. CASE ConfigScore
    BY <2>1 DEF ConfigScore
  <2>2. CASE ConfigSkip
    BY <2>2, SMTT(20) DEF ConfigSkip
  <2>3. QED
    BY <1>17, <2>1, <2>2
<1>18. CASE ConfigCommit
  BY <1>18 DEF ConfigCommit, NewVersion, NoTx, Versions
<1>19. CASE ConfigAbort
  BY <1>19 DEF ConfigAbort, NoTx
<1>20. ASSUME NEW a \in Analysts, NEW d \in Deals, DecideLoad(a, d) PROVE Sound'
  BY <1>20 DEF DecideLoad, Decidable
<1>21. ASSUME NEW a \in Analysts, DecideCommit(a) PROVE Sound'
  BY <1>21 DEF DecideCommit, SetStatus
<1>22. ASSUME NEW a \in Analysts, DecideAbort(a) PROVE Sound'
  BY <1>22 DEF DecideAbort
<1>23. CASE UNCHANGED vars
  BY <1>23 DEF vars
<1>24. QED
  BY <1>1, <1>2, <1>3, <1>4, <1>5, <1>6, <1>7, <1>8, <1>9, <1>10, <1>11,
     <1>12, <1>13, <1>14, <1>15, <1>16, <1>17, <1>18, <1>19, <1>20, <1>21,
     <1>22, <1>23, <1>25
  DEF Next, RunnerStep, HandlerStep, ConfigStep

(* Every reachable state is well typed: statuses and audit rows are the    *)
(* documented ones, failures stay within the job's budget, and the config  *)
(* versions within what the requests create.                               *)
THEOREM PipelineTypeCorrect == Spec => []TypeOK
<1>1. Sound => TypeOK
  BY DEF Sound
<1>2. QED
  BY SoundInit, SoundStep, <1>1, PTL DEF Spec

(* A deal shown as SCORED has a score and one shown as DECIDED a decision  *)
(* made against a score, whatever jobs, configs, retries, crashes and      *)
(* stale blind writes of score_deal() and decide_deal() interleave.        *)
THEOREM EvidenceAlwaysExists == Spec => []EvidenceExists
<1>1. Sound => EvidenceExists
  BY DEF Sound
<1>2. QED
  BY SoundInit, SoundStep, <1>1, PTL DEF Spec

(* Every job in the queue names a deal and has budget left, and an analyst *)
(* who read a deal as SCORED decides about one that has a score.           *)
THEOREM PipelineInvariant == Spec => []PipelineInv
<1>1. Sound => PipelineInv
  BY DEF Sound
<1>2. QED
  BY SoundInit, SoundStep, <1>1, PTL DEF Spec

-----------------------------------------------------------------------------
(* One unsettled job per deal: what the rest of the properties need.  A    *)
(* document has one job, and an operator who retries at most one dead      *)
(* letter replaces it by one.                                              *)
OneRetry == MaxRetries <= 1

JobsApart ==
    /\ \A i, j \in Jobs :
          /\ phase[i] \in {"queued", "taken"}
          /\ phase[j] \in {"queued", "taken"}
          /\ deal_of[i] = deal_of[j]
          => i = j
    /\ retried = 0 =>
          \A i, j \in Jobs :
             /\ phase[i] # "new"
             /\ phase[j] # "new"
             /\ deal_of[i] = deal_of[j]
             => i = j
    /\ \A j \in Jobs : phase[j] # "new" => status[deal_of[j]] # NoRow

RunnersApart ==
    /\ \A r \in Runners : working[r] # NoJob => phase[working[r]] = "taken"
    /\ \A q, r \in Runners :
          working[q] = working[r] /\ working[q] # NoJob => q = r

(* What the open transactions have read is still true, as far as their     *)
(* writes depend on it.                                                    *)
Reached == {"EXTRACTED", "SCORED", "DECIDED"}

ReadsHold ==
    /\ \A r \in Runners :
          /\ stage[r] = "extracting" => /\ Extractable(loaded[r][1])
                                        /\ status[DealOf(r)] = loaded[r][1]
          /\ stage[r] \in {"scoring", "configured"} =>
                loaded[r][1] = "EXTRACTED"
    /\ \A d \in Deals :
          d = config_tx.reading \/ d \in config_tx.scored =>
             status[d] \in Reached
    /\ \A a \in Analysts :
          desk[a] # NoDeal => status[desk[a]] \in {"SCORED", "DECIDED"}

Apart == JobsApart /\ RunnersApart /\ ReadsHold /\ AuditNamesStatus

(* With a config that does not change, scoring too works on what is there. *)
FixedConfig == OneRetry /\ MaxConfigs = 0

ScoresHold ==
    /\ active_config = InitialConfig
    /\ config_tx = NoTx
    /\ \A r \in Runners :
          stage[r] \in {"scoring", "configured"} =>
             status[DealOf(r)] = "EXTRACTED"
    /\ \A d \in Deals : /\ scores[d] <= 1
                        /\ scores[d] > 0 => status[d] \in {"SCORED", "DECIDED"}

LEMMA ApartInit == Init => Apart
  BY DEF Init, Apart, JobsApart, RunnersApart, ReadsHold, AuditNamesStatus,
         Queue!Init, NoTx, NoRow, Reached

(* Two handlers that run work on different deals. *)
LEMMA HandlersApart ==
  ASSUME Sound, Apart, NEW q \in Runners, NEW r \in Runners,
         stage[q] # "idle", stage[r] # "idle", DealOf(q) = DealOf(r)
  PROVE  q = r
<1>1. /\ working[q] \in Jobs /\ working[r] \in Jobs
      /\ working[q] # NoJob /\ working[r] # NoJob
      /\ phase[working[q]] = "taken" /\ phase[working[r]] = "taken"
  BY HandlersHaveDeals DEF Apart, RunnersApart
<1>2. working[q] = working[r]
  BY <1>1 DEF Apart, JobsApart, DealOf
<1> QED
  BY <1>1, <1>2 DEF Apart, RunnersApart

(* A handler's step leaves the queue alone.                                *)
LEMMA QueueApart ==
  ASSUME Sound, Apart, UNCHANGED <<queue, deal_of, retried>>,
         \A d \in Deals : status[d] # NoRow => status'[d] # NoRow
  PROVE  JobsApart' /\ RunnersApart'
<1>1. \A j \in Jobs : phase[j] # "new" => deal_of[j] \in Deals
  BY DEF Sound, PipelineInv
<1> QED
  BY <1>1 DEF Apart, JobsApart, RunnersApart, queue

(* A transaction of runner r that read its deal as st writes what it is to *)
(* become.                                                                 *)
LEMMA WriteApart ==
  ASSUME Sound, Apart, NEW r \in Runners, NEW st \in DealStatus,
         stage[r] \in {"extracting", "configured"},
         stage[r] = "extracting" => st \in {"EXTRACTED", "FAILED"},
         stage[r] = "configured" => st = "SCORED",
         SetStatus(DealOf(r), loaded[r][1], st),
         NEW s \in {"extracted", "returned"}, GoTo(r, s),
         UNCHANGED <<queue, deal_of, retried, loaded, config_tx, desk>>
  PROVE  Apart'
<1> DEFINE d == DealOf(r)  b == loaded[r][1]
<1>1. /\ d \in Deals
      /\ \A q \in Runners \ {r} : stage[q] # "idle" => DealOf(q) # d
  BY HandlersHaveDeals, HandlersApart
<1>2. /\ b # st => status' = [status EXCEPT ![d] = st]
      /\ b = st => status' = status
      /\ last_audit' = [last_audit EXCEPT ![d] = <<b, st>>]
      /\ stage' = [stage EXCEPT ![r] = s]
      /\ d \notin config_tx.scored
  BY DEF SetStatus, RowLocked, GoTo
<1>3. status[d] = b \/ b # st
  BY DEF Apart, ReadsHold
<1>4. \A q \in Runners : DealOf(q)' = DealOf(q)
  BY DEF DealOf, queue
<1>5. stage[r] = "extracting" => status[d] \in {"UPLOADED", "FAILED"}
  BY DEF Apart, ReadsHold, Extractable
<1>6. st # NoRow
  BY DEF DealStatus, NoRow
<1> HIDE DEF d, b
<1>7. JobsApart' /\ RunnersApart'
  BY <1>1, <1>2, <1>6, QueueApart DEF Sound, TypeOK
<1>8. AuditNamesStatus'
  BY <1>1, <1>2, <1>3 DEF Sound, TypeOK, Apart, AuditNamesStatus
<1>9. \A e \in Deals \ {d} : status'[e] = status[e]
  BY <1>2 DEF Sound, TypeOK
<1>10. ASSUME NEW e \in Deals, status[e] \in Reached PROVE status'[e] \in Reached
  <2>1. CASE e = d
    <3>1. stage[r] = "configured"
      BY <1>5, <1>10, <2>1 DEF Reached
    <3> QED
      BY <1>1, <1>2, <1>10, <2>1, <3>1 DEF Reached, Sound, TypeOK
  <2> QED
    BY <1>9, <1>10, <2>1
<1>11. ASSUME NEW e \in Deals, status[e] \in {"SCORED", "DECIDED"}
       PROVE  status'[e] \in {"SCORED", "DECIDED"}
  <2>1. CASE e = d
    <3>1. stage[r] = "configured"
      BY <1>5, <1>11, <2>1
    <3> QED
      BY <1>1, <1>2, <1>11, <2>1, <3>1 DEF Sound, TypeOK
  <2> QED
    BY <1>9, <1>11, <2>1
<1>12. ReadsHold'
  <2>1. ASSUME NEW q \in Runners
        PROVE  /\ stage'[q] = "extracting" =>
                     /\ Extractable(loaded'[q][1])
                     /\ status'[DealOf(q)] = loaded'[q][1]
               /\ stage'[q] \in {"scoring", "configured"} =>
                     loaded'[q][1] = "EXTRACTED"
    <3>1. CASE q = r
      BY <1>2, <3>1 DEF Sound, TypeOK
    <3>2. CASE q # r
      <4>1. stage'[q] = stage[q]
        BY <1>2, <3>2 DEF Sound, TypeOK
      <4>2. stage[q] # "idle" => DealOf(q) \in Deals \ {d}
        BY <1>1, <3>2, HandlersHaveDeals
      <4> QED
        BY <1>9, <4>1, <4>2 DEF Apart, ReadsHold
    <3> QED
      BY <3>1, <3>2
  <2>2. /\ \A e \in Deals :
              e = config_tx'.reading \/ e \in config_tx'.scored =>
                 status'[e] \in Reached
        /\ \A a \in Analysts :
              desk'[a] # NoDeal => status'[desk'[a]] \in {"SCORED", "DECIDED"}
    BY <1>10, <1>11 DEF Apart, ReadsHold, Sound, TypeOK
  <2> QED
    BY <1>4, <2>1, <2>2 DEF ReadsHold
<1> QED
  BY <1>7, <1>8, <1>12 DEF Apart

(* A step of one handler that writes nothing to the deals.                 *)
LEMMA ReadApart ==
  ASSUME Sound, Apart, NEW r \in Runners, NEW s \in Stages, GoTo(r, s),
         UNCHANGED <<deal, queue, deal_of, retried, config_tx, desk>>,
         \A q \in Runners \ {r} : loaded'[q] = loaded[q],
         s = "extracting" => /\ Extractable(loaded'[r][1])
                             /\ status[DealOf(r)] = loaded'[r][1],
         s \in {"scoring", "configured"} => loaded'[r][1] = "EXTRACTED"
  PROVE  Apart'
<1>1. JobsApart' /\ RunnersApart' /\ AuditNamesStatus'
  BY QueueApart DEF deal, Apart, AuditNamesStatus
<1>2. \A q \in Runners : DealOf(q)' = DealOf(q)
  BY DEF DealOf, queue
<1>3. \A q \in Runners : stage'[q] = IF q = r THEN s ELSE stage[q]
  BY DEF GoTo, Sound, TypeOK
<1>4. ReadsHold'
  BY <1>2, <1>3 DEF Apart, ReadsHold, deal
<1> QED
  BY <1>1, <1>4 DEF Apart

(* A step that runs at no handler and writes nothing to the deals.         *)
LEMMA DeskApart ==
  ASSUME Sound, Apart, UNCHANGED <<deal, queue, deal_of, handler, retried>>,
         \A d \in Deals :
            d = config_tx'.reading \/ d \in config_tx'.scored =>
               status[d] \in Reached,
         \A a \in Analysts :
            desk'[a] # NoDeal => status[desk'[a]] \in {"SCORED", "DECIDED"}
  PROVE  Apart'
<1>1. JobsApart' /\ RunnersApart' /\ AuditNamesStatus'
  BY QueueApart DEF deal, Apart, AuditNamesStatus
<1>2. \A q \in Runners : DealOf(q)' = DealOf(q)
  BY DEF DealOf, queue
<1>3. ReadsHold'
  BY <1>2 DEF Apart, ReadsHold, deal, handler
<1> QED
  BY <1>1, <1>3 DEF Apart

(* A runner that is done with its job takes its hands off it.              *)
LEMMA SettleApart ==
  ASSUME Sound, Apart, NEW r \in Runners,
         NEW p \in {"queued", "succeeded", "dead"},
         working[r] # NoJob, phase' = [phase EXCEPT ![working[r]] = p],
         working' = [working EXCEPT ![r] = NoJob], GoTo(r, "idle"),
         UNCHANGED <<deal, deal_of, loaded, config_tx, desk, retried>>
  PROVE  Apart'
<1>1. /\ working[r] \in Jobs
      /\ phase[working[r]] = "taken"
      /\ \A q \in Runners \ {r} : working[q] # working[r]
  BY DEF Sound, TypeOK, Apart, RunnersApart
<1>2. JobsApart'
  BY <1>1 DEF Sound, TypeOK, Apart, JobsApart, deal
<1>3. RunnersApart'
  BY <1>1 DEF Sound, TypeOK, Apart, RunnersApart
<1>4. AuditNamesStatus'
  BY DEF Apart, AuditNamesStatus, deal
<1>5. /\ stage'[r] = "idle"
      /\ \A q \in Runners \ {r} : /\ stage'[q] = stage[q]
                                  /\ DealOf(q)' = DealOf(q)
  BY DEF GoTo, DealOf, Sound, TypeOK
<1>6. ReadsHold'
  BY <1>5 DEF Apart, ReadsHold, deal
<1> QED
  BY <1>2, <1>3, <1>4, <1>6 DEF Apart

LEMMA ApartStep ==
  ASSUME OneRetry, Sound, Apart, [Next]_vars
  PROVE  Apart'
<1> USE DEF DealStatus, Stages
<1>1. ASSUME NEW d \in Deals, NEW j \in Jobs, Ingest(d, j) PROVE Apart'
  <2>1. /\ status[d] = NoRow /\ phase[j] = "new"
        /\ status' = [status EXCEPT ![d] = "UPLOADED"]
        /\ last_audit' = [last_audit EXCEPT ![d] = <<NoRow, "UPLOADED">>]
        /\ phase' = [phase EXCEPT ![j] = "queued"]
        /\ deal_of' = [deal_of EXCEPT ![j] = d]
        /\ UNCHANGED <<working, stage, loaded, config_tx, desk, retried>>
    BY <1>1 DEF Ingest, Queue!Submit, handler, bounds
  <2>2. \A i \in Jobs : phase[i] # "new" => deal_of[i] \in Deals \ {d}
    BY <2>1 DEF Sound, PipelineInv, Apart, JobsApart
  <2>3. JobsApart'
    BY <2>1, <2>2 DEF Sound, TypeOK, Apart, JobsApart, NoRow
  <2>4. RunnersApart'
    BY <2>1 DEF Sound, TypeOK, Apart, RunnersApart
  <2>5. AuditNamesStatus'
    BY <2>1 DEF Sound, TypeOK, Apart, AuditNamesStatus
  <2>6. \A e \in Deals : status[e] # NoRow => status'[e] = status[e]
    BY <2>1 DEF Sound, TypeOK
  <2>7. \A r \in Runners : stage[r] # "idle" =>
           DealOf(r)' = DealOf(r) /\ status'[DealOf(r)] = status[DealOf(r)]
    <3> SUFFICES ASSUME NEW r \in Runners, stage[r] # "idle"
                 PROVE  /\ DealOf(r)' = DealOf(r)
                        /\ status'[DealOf(r)] = status[DealOf(r)]
      OBVIOUS
    <3>1. working[r] \in Jobs /\ phase[working[r]] # "new"
      BY DEF Sound, PipelineInv
    <3>2. DealOf(r)' = DealOf(r) /\ DealOf(r) \in Deals \ {d}
      BY <2>1, <2>2, <3>1 DEF DealOf, Sound, TypeOK
    <3> QED
      BY <2>1, <3>2 DEF Sound, TypeOK
  <2>8. ReadsHold'
    <3>1. \A e \in Deals : status[e] \in Reached => status'[e] \in Reached
      BY <2>6 DEF Reached, NoRow
    <3>2. \A a \in Analysts : desk[a] # NoDeal =>
             status'[desk[a]] \in {"SCORED", "DECIDED"}
      BY <2>6 DEF Sound, TypeOK, Apart, ReadsHold, NoRow
    <3> QED
      BY <2>1, <2>7, <3>1, <3>2 DEF Apart, ReadsHold
  <2> QED
    BY <2>3, <2>4, <2>5, <2>8 DEF Apart
<1>2. ASSUME NEW i \in Jobs, NEW j \in Jobs, AdminRetry(i, j) PROVE Apart'
  <2>1. /\ phase[i] = "dead" /\ phase[j] = "new"
        /\ retried = 0 /\ retried' = 1
        /\ phase' = [phase EXCEPT ![j] = "queued"]
        /\ deal_of' = [deal_of EXCEPT ![j] = deal_of[i]]
        /\ UNCHANGED <<deal, working, stage, loaded, config_tx, desk>>
    BY <1>2 DEF AdminRetry, Queue!Submit, handler, OneRetry, Sound, TypeOK
  <2>2. \A k \in Jobs :
           phase[k] # "new" /\ deal_of[k] = deal_of[i] => k = i
    BY <2>1 DEF Apart, JobsApart
  <2>3. JobsApart'
    BY <2>1, <2>2 DEF Sound, TypeOK, Apart, JobsApart, deal
  <2>4. RunnersApart' /\ AuditNamesStatus'
    BY <2>1 DEF Sound, TypeOK, Apart, RunnersApart, AuditNamesStatus, deal
  <2>5. \A r \in Runners : stage[r] # "idle" => DealOf(r)' = DealOf(r)
    BY <2>1 DEF DealOf, Sound, TypeOK, PipelineInv
  <2>6. ReadsHold'
    BY <2>1, <2>5 DEF Apart, ReadsHold, deal
  <2> QED
    BY <2>3, <2>4, <2>6 DEF Apart
<1>26. ASSUME NEW i \in Jobs, AdminDrop(i) PROVE Apart'
  <2>1. /\ phase[i] = "dead"
        /\ phase' = [phase EXCEPT ![i] = "removed"]
        /\ UNCHANGED <<deal, working, deal_of, stage, loaded, config_tx, desk,
                       retried>>
    BY <1>26 DEF AdminDrop, Queue!Discard, handler, bounds
  <2>2. JobsApart'
    BY <2>1 DEF Sound, TypeOK, Apart, JobsApart, deal
  <2>3. RunnersApart' /\ AuditNamesStatus'
    BY <2>1 DEF Sound, TypeOK, Apart, RunnersApart, AuditNamesStatus, deal
  <2>4. \A q \in Runners : DealOf(q)' = DealOf(q)
    BY <2>1 DEF DealOf
  <2>5. ReadsHold'
    BY <2>1, <2>4 DEF Apart, ReadsHold, deal
  <2> QED
    BY <2>2, <2>3, <2>5 DEF Apart
<1>3. ASSUME NEW r \in Runners, NEW j \in Jobs, Take(r, j) PROVE Apart'
  <2>1. /\ phase[j] = "queued"
        /\ working[r] = NoJob
        /\ phase' = [phase EXCEPT ![j] = "taken"]
        /\ working' = [working EXCEPT ![r] = j]
        /\ stage' = [stage EXCEPT ![r] = "start"]
        /\ UNCHANGED <<deal, deal_of, loaded, config_tx, desk, retried>>
    BY <1>3 DEF Take, GoTo, Queue!Take, bounds
  <2>2. \A q \in Runners : working[q] # j
    BY <2>1 DEF Apart, RunnersApart, Sound, DealPipelineAssumption
  <2>3. JobsApart' /\ AuditNamesStatus'
    BY <2>1 DEF Sound, TypeOK, Apart, JobsApart, AuditNamesStatus, deal
  <2>4. RunnersApart'
    BY <2>1, <2>2 DEF Sound, TypeOK, Apart, RunnersApart
  <2>5. \A q \in Runners \ {r} :
           DealOf(q)' = DealOf(q) /\ stage'[q] = stage[q]
    BY <2>1 DEF DealOf, Sound, TypeOK
  <2>6. stage'[r] = "start"
    BY <2>1 DEF Sound, TypeOK
  <2>7. ReadsHold'
    BY <2>1, <2>5, <2>6 DEF Apart, ReadsHold, deal
  <2> QED
    BY <2>3, <2>4, <2>7 DEF Apart
<1>4. ASSUME NEW r \in Runners, ExtractLoad(r) PROVE Apart'
  <2> DEFINE s == IF Extractable(status[DealOf(r)]) THEN "extracting"
                                                    ELSE "raised"
  <2>1. /\ s \in Stages /\ GoTo(r, s)
        /\ loaded' = [loaded EXCEPT ![r] = <<status[DealOf(r)],
                                             retry_count[DealOf(r)]>>]
        /\ UNCHANGED <<deal, queue, deal_of, retried, config_tx, desk>>
    BY <1>4 DEF ExtractLoad, bounds
  <2>2. /\ \A q \in Runners \ {r} : loaded'[q] = loaded[q]
        /\ loaded'[r][1] = status[DealOf(r)]
    BY <2>1 DEF Sound, TypeOK
  <2>3. s \notin {"scoring", "configured"}
    OBVIOUS
  <2>4. s = "extracting" => Extractable(status[DealOf(r)])
    OBVIOUS
  <2> HIDE DEF s
  <2> QED
    BY <2>1, <2>2, <2>3, <2>4, ReadApart
<1>5. ASSUME NEW r \in Runners, ExtractSucceed(r) PROVE Apart'
  BY <1>5, WriteApart DEF ExtractSucceed, bounds
<1>6. ASSUME NEW r \in Runners, ExtractFail(r) PROVE Apart'
  BY <1>6, WriteApart DEF ExtractFail, bounds
<1>7. ASSUME NEW r \in Runners, ScoreLoadDeal(r) PROVE Apart'
  <2> DEFINE s == IF Scorable(status[DealOf(r)]) THEN "scoring" ELSE "raised"
  <2>1. /\ s \in Stages /\ GoTo(r, s)
        /\ loaded' = [loaded EXCEPT ![r] = <<status[DealOf(r)],
                                             retry_count[DealOf(r)]>>]
        /\ UNCHANGED <<deal, queue, deal_of, retried, config_tx, desk>>
    BY <1>7 DEF ScoreLoadDeal, bounds
  <2>2. /\ \A q \in Runners \ {r} : loaded'[q] = loaded[q]
        /\ loaded'[r][1] = status[DealOf(r)]
    BY <2>1 DEF Sound, TypeOK
  <2>3. s \notin {"extracting", "configured"}
    OBVIOUS
  <2>4. s = "scoring" => status[DealOf(r)] = "EXTRACTED"
    BY DEF Scorable
  <2> HIDE DEF s
  <2> QED
    BY <2>1, <2>2, <2>3, <2>4, ReadApart
<1>8. ASSUME NEW r \in Runners, ScoreLoadConfig(r) PROVE Apart'
  <2> DEFINE s == IF active_config = 0 THEN "returned" ELSE "configured"
  <2>1. /\ s \in Stages /\ GoTo(r, s)
        /\ stage[r] = "scoring"
        /\ UNCHANGED <<deal, queue, deal_of, retried, config_tx, desk, loaded>>
    BY <1>8 DEF ScoreLoadConfig, bounds
  <2>2. loaded[r][1] = "EXTRACTED"
    BY <2>1 DEF Apart, ReadsHold
  <2>3. s # "extracting"
    OBVIOUS
  <2> HIDE DEF s
  <2> QED
    BY <2>1, <2>2, <2>3, ReadApart
<1>9. ASSUME NEW r \in Runners, ScoreCommit(r) PROVE Apart'
  BY <1>9, WriteApart DEF ScoreCommit, bounds
<1>10. ASSUME NEW r \in Runners, HandlerError(r) PROVE Apart'
  BY <1>10, ReadApart DEF HandlerError
<1>11. ASSUME NEW r \in Runners, Succeed(r) PROVE Apart'
  BY <1>11, SettleApart DEF Succeed, Queue!Succeed, Queue!Settle, bounds
<1>12. ASSUME NEW r \in Runners, Fail(r) PROVE Apart'
  <2>1. CASE Queue!Retry(r)
    BY <1>12, <2>1, SettleApart DEF Fail, Queue!Retry, Queue!Settle, bounds
  <2>2. CASE Queue!DeadLetter(r)
    BY <1>12, <2>2, SettleApart
    DEF Fail, Queue!DeadLetter, Queue!Settle, bounds
  <2> QED
    BY <1>12, <2>1, <2>2 DEF Fail
<1>13. ASSUME NEW R \in SUBSET Runners, Crash(R) PROVE Apart'
  <2>1. /\ working' = [r \in Runners |-> IF r \in R THEN NoJob ELSE working[r]]
        /\ stage' = [r \in Runners |-> IF r \in R THEN "idle" ELSE stage[r]]
        /\ UNCHANGED <<deal, phase, deal_of, loaded, config_tx, desk, retried>>
    BY <1>13 DEF Crash, Queue!Vanish
  <2>2. JobsApart' /\ AuditNamesStatus'
    BY <2>1 DEF Apart, JobsApart, AuditNamesStatus, deal
  <2>3. RunnersApart'
    BY <2>1 DEF Apart, RunnersApart
  <2>4. \A q \in Runners \ R : DealOf(q)' = DealOf(q)
    BY <2>1 DEF DealOf
  <2>5. ReadsHold'
    BY <2>1, <2>4 DEF Apart, ReadsHold, deal
  <2> QED
    BY <2>2, <2>3, <2>5 DEF Apart
<1>14. ASSUME NEW j \in Jobs, Recover(j) PROVE Apart'
  <2>1. /\ phase[j] = "taken"
        /\ \A r \in Runners : working[r] # j
        /\ phase' = [i \in Jobs |-> IF i = j THEN "queued" ELSE phase[i]]
        /\ UNCHANGED <<deal, working, deal_of, stage, loaded, config_tx, desk,
                       retried>>
    BY <1>14 DEF Recover, Queue!Recover, Queue!Executing, handler, bounds
  <2>2. JobsApart' /\ AuditNamesStatus'
    BY <2>1 DEF Apart, JobsApart, AuditNamesStatus, deal
  <2>3. RunnersApart'
    BY <2>1 DEF Sound, TypeOK, Apart, RunnersApart
  <2>4. \A q \in Runners : DealOf(q)' = DealOf(q)
    BY <2>1 DEF DealOf
  <2>5. ReadsHold'
    BY <2>1, <2>4 DEF Apart, ReadsHold, deal
  <2> QED
    BY <2>2, <2>3, <2>5 DEF Apart
<1>15. CASE ConfigOpen
  BY <1>15, DeskApart, DealPipelineAssumption
  DEF ConfigOpen, NoTx, bounds, Apart, ReadsHold
<1>16. ASSUME NEW d \in Deals, ConfigLoad(d) PROVE Apart'
  BY <1>16, DeskApart, DealPipelineAssumption
  DEF ConfigLoad, bounds, Apart, ReadsHold, Sound, TypeOK, Scorable, Reached
<1>17. CASE ConfigSkip
  BY <1>17, DeskApart, DealPipelineAssumption
  DEF ConfigSkip, Apart, ReadsHold, Sound, TypeOK
<1>18. CASE ConfigScore
  BY <1>18, DeskApart, DealPipelineAssumption
  DEF ConfigScore, bounds, Apart, ReadsHold, Sound, TypeOK
<1>19. CASE ConfigAbort
  BY <1>19, DeskApart, DealPipelineAssumption
  DEF ConfigAbort, NoTx, Apart, ReadsHold
<1>20. CASE ConfigCommit
  <2>1. /\ status' = [d \in Deals |-> IF d \in config_tx.scored THEN "SCORED"
                                                               ELSE status[d]]
        /\ last_audit' = [d \in Deals |->
                             IF d \in config_tx.scored
                                THEN <<"EXTRACTED", "SCORED">>
                                ELSE last_audit[d]]
        /\ config_tx' = NoTx
        /\ UNCHANGED <<queue, deal_of, stage, loaded, desk, retried>>
    BY <1>20 DEF ConfigCommit, handler, bounds
  <2>2. \A d \in config_tx.scored : d \in Deals /\ status[d] \in Reached
    BY DEF Sound, TypeOK, Apart, ReadsHold
  <2>3. JobsApart' /\ RunnersApart'
    BY <2>1, QueueApart DEF NoRow
  <2>4. AuditNamesStatus'
    BY <2>1 DEF Apart, AuditNamesStatus
  <2>5. \A q \in Runners : DealOf(q)' = DealOf(q)
    BY <2>1 DEF DealOf, queue
  <2>6. ASSUME NEW r \in Runners, stage[r] = "extracting"
        PROVE  status'[DealOf(r)] = status[DealOf(r)]
    <3>1. DealOf(r) \in Deals
      BY <2>6, HandlersHaveDeals
    <3>2. status[DealOf(r)] \notin Reached
      BY <2>6 DEF Apart, ReadsHold, Extractable, Reached
    <3> QED
      BY <2>1, <2>2, <3>1, <3>2
  <2>7. \A a \in Analysts : desk'[a] # NoDeal =>
           status'[desk'[a]] \in {"SCORED", "DECIDED"}
    BY <2>1 DEF Sound, TypeOK, Apart, ReadsHold
  <2>8. \A d \in Deals :
           ~(d = config_tx'.reading \/ d \in config_tx'.scored)
    BY <2>1, DealPipelineAssumption DEF NoTx
  <2>9. ReadsHold'
    BY <2>1, <2>5, <2>6, <2>7, <2>8 DEF Apart, ReadsHold
  <2> QED
    BY <2>3, <2>4, <2>9 DEF Apart
<1>21. ASSUME NEW a \in Analysts, NEW d \in Deals, DecideLoad(a, d) PROVE Apart'
  BY <1>21, DeskApart
  DEF DecideLoad, Decidable, bounds, Apart, ReadsHold, Sound, TypeOK
<1>22. ASSUME NEW a \in Analysts, DecideAbort(a) PROVE Apart'
  BY <1>22, DeskApart
  DEF DecideAbort, bounds, Apart, ReadsHold, Sound, TypeOK
<1>23. ASSUME NEW a \in Analysts, DecideCommit(a) PROVE Apart'
  <2> DEFINE d == desk[a]
  <2>1. /\ d \in Deals
        /\ status[d] \in {"SCORED", "DECIDED"}
        /\ status' = [status EXCEPT ![d] = "DECIDED"]
        /\ last_audit' = [last_audit EXCEPT ![d] = <<"SCORED", "DECIDED">>]
        /\ desk' = [desk EXCEPT ![a] = NoDeal]
        /\ UNCHANGED <<queue, deal_of, stage, loaded, config_tx, retried>>
    BY <1>23
    DEF DecideCommit, SetStatus, handler, bounds, Sound, TypeOK, Apart,
        ReadsHold
  <2> HIDE DEF d
  <2>2. JobsApart' /\ RunnersApart'
    BY <2>1, QueueApart DEF NoRow, Sound, TypeOK
  <2>3. AuditNamesStatus'
    BY <2>1 DEF Apart, AuditNamesStatus, Sound, TypeOK
  <2>4. \A q \in Runners : DealOf(q)' = DealOf(q)
    BY <2>1 DEF DealOf, queue
  <2>5. ASSUME NEW r \in Runners, stage[r] = "extracting"
        PROVE  status'[DealOf(r)] = status[DealOf(r)]
    <3>1. DealOf(r) \in Deals
      BY <2>5, HandlersHaveDeals
    <3>2. status[DealOf(r)] \in {"UPLOADED", "FAILED"}
      BY <2>5 DEF Apart, ReadsHold, Extractable
    <3> QED
      BY <2>1, <3>1, <3>2 DEF Sound, TypeOK
  <2>6. /\ \A e \in Deals : status[e] \in Reached => status'[e] \in Reached
        /\ \A e \in Deals : status[e] \in {"SCORED", "DECIDED"} =>
              status'[e] \in {"SCORED", "DECIDED"}
    BY <2>1 DEF Sound, TypeOK, Reached
  <2>7. \A b \in Analysts : desk'[b] # NoDeal =>
           status'[desk'[b]] \in {"SCORED", "DECIDED"}
    BY <2>1, <2>6 DEF Sound, TypeOK, Apart, ReadsHold
  <2>8. ReadsHold'
    BY <2>1, <2>4, <2>5, <2>6, <2>7 DEF Apart, ReadsHold
  <2> QED
    BY <2>2, <2>3, <2>8 DEF Apart
<1>24. CASE UNCHANGED vars
  BY <1>24, DeskApart DEF vars, bounds, Apart, ReadsHold, Sound, TypeOK
<1>25. QED
  BY <1>1, <1>2, <1>3, <1>4, <1>5, <1>6, <1>7, <1>8, <1>9, <1>10, <1>11,
     <1>12, <1>13, <1>14, <1>15, <1>16, <1>17, <1>18, <1>19, <1>20, <1>21,
     <1>22, <1>23, <1>24, <1>26
  DEF Next, RunnerStep, HandlerStep, ConfigStep

(* The newest audit row names the status the deal is in, through stale     *)
(* reads, skipped UPDATEs, config requests that score in between, crashes  *)
(* and redeliveries, as long as the operator retries at most once: the     *)
(* row of the last _audit() call and deals.status never disagree.          *)
THEOREM AuditIsTrue ==
  ASSUME OneRetry
  PROVE  Spec => []AuditNamesStatus
<1>1. Init => Sound /\ Apart
  BY SoundInit, ApartInit
<1>2. Sound /\ Apart /\ [Next]_vars => Sound' /\ Apart'
  BY SoundStep, ApartStep
<1>3. Apart => AuditNamesStatus
  BY DEF Apart
<1> QED
  BY <1>1, <1>2, <1>3, PTL DEF Spec

-----------------------------------------------------------------------------
(* With a config that does not change.                                     *)

(* The changes of status that the services make, in any number of runs.    *)
Made == ValidStateTransitions \cup {Created, Reextracted}

Moves(d) ==
    status'[d] # status[d] =>
        /\ <<status[d], status'[d]>> \in Made
        /\ last_audit'[d] = <<status[d], status'[d]>>

LEMMA ScoresInit == FixedConfig /\ Init => ScoresHold
  BY DEF Init, ScoresHold, NoRow

(* A step that writes nothing to the deals, and brings a handler to scoring *)
(* only if its deal is EXTRACTED.                                          *)
LEMMA QuietScores ==
  ASSUME ScoresHold, UNCHANGED <<deal, active_config, config_tx>>,
         \A q \in Runners :
            stage'[q] \in {"scoring", "configured"} =>
               /\ DealOf(q)' = DealOf(q)
               /\ \/ stage[q] \in {"scoring", "configured"}
                  \/ status[DealOf(q)] = "EXTRACTED"
  PROVE  ScoresHold' /\ \A d \in Deals : Moves(d)
  BY DEF ScoresHold, Moves, deal

(* A step that writes to one deal, which no other handler is scoring.      *)
LEMMA WriteScores ==
  ASSUME Sound, ScoresHold, NEW e \in Deals, NEW st \in DealStatus,
         status' = [status EXCEPT ![e] = st],
         status[e] # st => /\ <<status[e], st>> \in Made
                           /\ last_audit'[e] = <<status[e], st>>,
         scores'[e] <= 1,
         scores'[e] > 0 => st \in {"SCORED", "DECIDED"},
         \A d \in Deals \ {e} : scores'[d] = scores[d],
         UNCHANGED <<active_config, config_tx>>,
         \A q \in Runners :
            stage'[q] \in {"scoring", "configured"} =>
               /\ stage[q] = stage'[q]
               /\ DealOf(q)' = DealOf(q)
               /\ DealOf(q) \in Deals \ {e}
  PROVE  ScoresHold' /\ \A d \in Deals : Moves(d)
<1>1. /\ status'[e] = st
      /\ \A d \in Deals \ {e} : status'[d] = status[d]
  BY DEF Sound, TypeOK
<1>2. \A d \in Deals : Moves(d)
  BY <1>1 DEF Moves
<1>3. \A d \in Deals : /\ scores'[d] <= 1
                       /\ scores'[d] > 0 => status'[d] \in {"SCORED", "DECIDED"}
  BY <1>1 DEF ScoresHold
<1>4. \A q \in Runners :
         stage'[q] \in {"scoring", "configured"} =>
            status'[DealOf(q)'] = "EXTRACTED"
  BY <1>1 DEF ScoresHold
<1> QED
  BY <1>2, <1>3, <1>4 DEF ScoresHold

LEMMA ScoresStep ==
  ASSUME FixedConfig, Sound, Apart, ScoresHold, [Next]_vars
  PROVE  ScoresHold' /\ \A d \in Deals : Moves(d)
<1> DEFINE Goal == ScoresHold' /\ \A d \in Deals : Moves(d)
<1>1. ASSUME NEW e \in Deals, NEW j \in Jobs, Ingest(e, j) PROVE Goal
  <2>1. /\ status[e] = NoRow /\ phase[j] = "new"
        /\ status' = [status EXCEPT ![e] = "UPLOADED"]
        /\ last_audit' = [last_audit EXCEPT ![e] = <<NoRow, "UPLOADED">>]
        /\ deal_of' = [deal_of EXCEPT ![j] = e]
        /\ UNCHANGED <<working, stage, scores, active_config, config_tx>>
    BY <1>1 DEF Ingest, Queue!Submit, handler
  <2>2. scores[e] = 0
    BY <2>1 DEF ScoresHold, Sound, TypeOK, NoRow
  <2>3. ASSUME NEW q \in Runners, stage'[q] \in {"scoring", "configured"}
        PROVE  /\ stage[q] = stage'[q]
               /\ DealOf(q)' = DealOf(q)
               /\ DealOf(q) \in Deals \ {e}
    <3>1. /\ working[q] \in Jobs
          /\ phase[working[q]] # "new"
          /\ deal_of[working[q]] \in Deals
      BY <2>1, <2>3 DEF Sound, PipelineInv
    <3>2. deal_of[working[q]] # e
      BY <2>1, <3>1 DEF Apart, JobsApart
    <3> QED
      BY <2>1, <3>1, <3>2 DEF DealOf, Sound, TypeOK
  <2>4. /\ <<status[e], "UPLOADED">> \in Made
        /\ last_audit'[e] = <<status[e], "UPLOADED">>
        /\ scores'[e] <= 1 /\ ~(scores'[e] > 0)
    BY <2>1, <2>2
    DEF Made, ValidStateTransitions, Created, Reextracted, Sound, TypeOK
  <2>5. "UPLOADED" \in DealStatus
    BY DEF DealStatus
  <2> QED
    BY <2>1, <2>3, <2>4, <2>5, WriteScores
<1>2. ASSUME NEW i \in Jobs, NEW j \in Jobs, AdminRetry(i, j) PROVE Goal
  <2>1. /\ phase[j] = "new"
        /\ deal_of' = [deal_of EXCEPT ![j] = deal_of[i]]
        /\ UNCHANGED <<deal, working, stage, active_config, config_tx>>
    BY <1>2 DEF AdminRetry, Queue!Submit, handler
  <2>2. \A q \in Runners : stage[q] # "idle" => DealOf(q)' = DealOf(q)
    BY <2>1 DEF DealOf, Sound, TypeOK, PipelineInv
  <2> QED
    BY <2>1, <2>2, QuietScores
<1>18. ASSUME NEW j \in Jobs, AdminDrop(j) PROVE Goal
  BY <1>18, QuietScores DEF AdminDrop, Queue!Discard, handler, DealOf
<1>3. ASSUME NEW r \in Runners, NEW j \in Jobs, Take(r, j) PROVE Goal
  <2>1. /\ \A q \in Runners \ {r} : /\ stage'[q] = stage[q]
                                    /\ DealOf(q)' = DealOf(q)
        /\ stage'[r] = "start"
        /\ UNCHANGED <<deal, active_config, config_tx>>
    BY <1>3 DEF Take, GoTo, Queue!Take, DealOf, Sound, TypeOK
  <2> QED
    BY <2>1, QuietScores
<1>4. ASSUME NEW r \in Runners, ExtractLoad(r) PROVE Goal
  <2>1. /\ \A q \in Runners \ {r} : stage'[q] = stage[q]
        /\ stage'[r] \notin {"scoring", "configured"}
        /\ \A q \in Runners : DealOf(q)' = DealOf(q)
        /\ UNCHANGED <<deal, active_config, config_tx>>
    BY <1>4 DEF ExtractLoad, GoTo, DealOf, queue, Sound, TypeOK
  <2> QED
    BY <2>1, QuietScores
<1>5. ASSUME NEW r \in Runners, ScoreLoadDeal(r) PROVE Goal
  <2>1. /\ \A q \in Runners \ {r} : stage'[q] = stage[q]
        /\ stage'[r] = "scoring" => status[DealOf(r)] = "EXTRACTED"
        /\ stage'[r] # "configured"
        /\ \A q \in Runners : DealOf(q)' = DealOf(q)
        /\ UNCHANGED <<deal, active_config, config_tx>>
    BY <1>5 DEF ScoreLoadDeal, GoTo, DealOf, queue, Scorable, Sound, TypeOK
  <2> QED
    BY <2>1, QuietScores
<1>6. ASSUME NEW r \in Runners, ScoreLoadConfig(r) PROVE Goal
  <2>1. /\ \A q \in Runners \ {r} : stage'[q] = stage[q]
        /\ stage[r] = "scoring"
        /\ \A q \in Runners : DealOf(q)' = DealOf(q)
        /\ UNCHANGED <<deal, active_config, config_tx>>
    BY <1>6 DEF ScoreLoadConfig, GoTo, DealOf, queue, Sound, TypeOK
  <2> QED
    BY <2>1, QuietScores
<1>7. ASSUME NEW r \in Runners, HandlerError(r) PROVE Goal
  <2>1. /\ \A q \in Runners \ {r} : stage'[q] = stage[q]
        /\ stage'[r] = "raised"
        /\ \A q \in Runners : DealOf(q)' = DealOf(q)
        /\ UNCHANGED <<deal, active_config, config_tx>>
    BY <1>7 DEF HandlerError, GoTo, DealOf, queue, Sound, TypeOK
  <2> QED
    BY <2>1, QuietScores
(* What the three writes of the handlers have in common: they touch their  *)
(* own deal, and leave the handler outside scoring.                        *)
<1>8. ASSUME NEW r \in Runners, stage[r] # "idle",
             NEW s \in {"extracted", "returned"}, GoTo(r, s),
             UNCHANGED <<queue, deal_of>>
      PROVE  /\ DealOf(r) \in Deals
             /\ \A q \in Runners :
                   stage'[q] \in {"scoring", "configured"} =>
                      /\ stage[q] = stage'[q]
                      /\ DealOf(q)' = DealOf(q)
                      /\ DealOf(q) \in Deals \ {DealOf(r)}
  <2>1. DealOf(r) \in Deals
    BY <1>8, HandlersHaveDeals
  <2>2. ASSUME NEW q \in Runners, stage'[q] \in {"scoring", "configured"}
        PROVE  /\ stage[q] = stage'[q]
               /\ DealOf(q)' = DealOf(q)
               /\ DealOf(q) \in Deals \ {DealOf(r)}
    <3>1. q # r /\ stage'[q] = stage[q]
      BY <1>8, <2>2 DEF GoTo, Sound, TypeOK
    <3>2. DealOf(q) \in Deals
      BY <2>2, <3>1, HandlersHaveDeals
    <3>3. DealOf(q) # DealOf(r)
      BY <1>8, <2>2, <3>1, HandlersApart
    <3> QED
      BY <1>8, <3>1, <3>2, <3>3 DEF DealOf, queue
  <2> QED
    BY <2>1, <2>2
<1>9. ASSUME NEW r \in Runners, ExtractSucceed(r) \/ ExtractFail(r)
      PROVE  Goal
  <2> DEFINE e == DealOf(r)
  <2>1. PICK st \in {"EXTRACTED", "FAILED"} :
           SetStatus(e, loaded[r][1], st)
    BY <1>9 DEF ExtractSucceed, ExtractFail
  <2>2. /\ stage[r] = "extracting"
        /\ UNCHANGED <<scores, active_config, config_tx, queue, deal_of>>
        /\ \E s \in {"extracted", "returned"} : GoTo(r, s)
    BY <1>9 DEF ExtractSucceed, ExtractFail
  <2>3. /\ e \in Deals
        /\ \A q \in Runners :
              stage'[q] \in {"scoring", "configured"} =>
                 /\ stage[q] = stage'[q]
                 /\ DealOf(q)' = DealOf(q)
                 /\ DealOf(q) \in Deals \ {e}
    BY <1>8, <2>2
  <2>4. /\ status[e] = loaded[r][1]
        /\ status[e] \in {"UPLOADED", "FAILED"}
    BY <2>2 DEF Apart, ReadsHold, Extractable
  <2> HIDE DEF e
  <2>5. /\ status' = [status EXCEPT ![e] = st]
        /\ last_audit'[e] = <<status[e], st>>
    BY <2>1, <2>3, <2>4 DEF SetStatus, Sound, TypeOK
  <2>6. status[e] # st => <<status[e], st>> \in Made
    BY <2>4 DEF Made, ValidStateTransitions, Created, Reextracted
  <2>7. scores'[e] <= 1 /\ ~(scores'[e] > 0)
    BY <2>2, <2>3, <2>4 DEF ScoresHold, Sound, TypeOK
  <2>8. st \in DealStatus
    BY DEF DealStatus
  <2> QED
    BY <2>2, <2>3, <2>5, <2>6, <2>7, <2>8, WriteScores
<1>10. ASSUME NEW r \in Runners, ScoreCommit(r) PROVE Goal
  <2> DEFINE e == DealOf(r)
  <2>1. /\ SetStatus(e, loaded[r][1], "SCORED")
        /\ stage[r] = "configured"
        /\ scores' = [scores EXCEPT ![e] = @ + 1]
        /\ UNCHANGED <<active_config, config_tx, queue, deal_of>>
        /\ GoTo(r, "returned")
    BY <1>10 DEF ScoreCommit
  <2>2. /\ e \in Deals
        /\ \A q \in Runners :
              stage'[q] \in {"scoring", "configured"} =>
                 /\ stage[q] = stage'[q]
                 /\ DealOf(q)' = DealOf(q)
                 /\ DealOf(q) \in Deals \ {e}
    BY <1>8, <2>1
  <2>3. status[e] = "EXTRACTED" /\ loaded[r][1] = "EXTRACTED"
    BY <2>1 DEF ScoresHold, Apart, ReadsHold
  <2> HIDE DEF e
  <2>4. /\ status' = [status EXCEPT ![e] = "SCORED"]
        /\ last_audit'[e] = <<status[e], "SCORED">>
        /\ <<status[e], "SCORED">> \in Made
    BY <2>1, <2>2, <2>3
    DEF SetStatus, Made, ValidStateTransitions, Created, Reextracted, Sound, TypeOK
  <2>5. scores[e] = 0
    BY <2>2, <2>3 DEF ScoresHold, Sound, TypeOK
  <2>6. /\ scores'[e] <= 1
        /\ \A d \in Deals \ {e} : scores'[d] = scores[d]
    BY <2>1, <2>2, <2>5 DEF Sound, TypeOK
  <2>7. "SCORED" \in DealStatus
    BY DEF DealStatus
  <2> QED
    BY <2>1, <2>2, <2>4, <2>6, <2>7, WriteScores
<1>11. ASSUME NEW r \in Runners, Succeed(r) \/ Fail(r) PROVE Goal
  <2>1. /\ working' = [working EXCEPT ![r] = NoJob]
        /\ stage' = [stage EXCEPT ![r] = "idle"]
        /\ UNCHANGED <<deal, active_config, config_tx, deal_of>>
    BY <1>11 DEF Succeed, Fail, GoTo, Queue!Succeed, Queue!Retry,
                 Queue!DeadLetter, Queue!Settle
  <2>2. /\ \A q \in Runners \ {r} : /\ stage'[q] = stage[q]
                                    /\ DealOf(q)' = DealOf(q)
        /\ stage'[r] = "idle"
    BY <2>1 DEF DealOf, Sound, TypeOK
  <2> QED
    BY <2>1, <2>2, QuietScores
<1>12. ASSUME NEW R \in SUBSET Runners, Crash(R) PROVE Goal
  <2>1. /\ \A q \in Runners \ R : /\ stage'[q] = stage[q]
                                  /\ DealOf(q)' = DealOf(q)
        /\ \A q \in R : stage'[q] = "idle"
        /\ UNCHANGED <<deal, active_config, config_tx>>
    BY <1>12 DEF Crash, Queue!Vanish, DealOf
  <2> QED
    BY <2>1, QuietScores
<1>13. ASSUME NEW j \in Jobs, Recover(j) PROVE Goal
  BY <1>13, QuietScores DEF Recover, Queue!Recover, handler, DealOf
<1>14. CASE \/ ConfigOpen \/ ConfigStep \/ ConfigSkip \/ ConfigAbort
  <2>1. /\ config_tx = NoTx
        /\ active_config = InitialConfig
        /\ MaxConfigs = 0
    BY DEF ScoresHold, FixedConfig
  <2> QED
    BY <1>14, <2>1, DealPipelineAssumption
    DEF ConfigOpen, ConfigStep, ConfigSkip, ConfigAbort, ConfigLoad,
        ConfigScore, ConfigCommit, NoTx
<1>15. ASSUME NEW a \in Analysts,
              \/ \E d \in Deals : DecideLoad(a, d)
              \/ DecideAbort(a)
       PROVE  Goal
  BY <1>15, QuietScores DEF DecideLoad, DecideAbort, handler, DealOf, queue
<1>16. ASSUME NEW a \in Analysts, DecideCommit(a) PROVE Goal
  <2> DEFINE e == desk[a]
  <2>1. /\ e \in Deals
        /\ status[e] \in {"SCORED", "DECIDED"}
        /\ status' = [status EXCEPT ![e] = "DECIDED"]
        /\ last_audit'[e] = <<"SCORED", "DECIDED">>
        /\ UNCHANGED <<scores, active_config, config_tx, queue, deal_of, stage>>
    BY <1>16
    DEF DecideCommit, SetStatus, handler, Sound, TypeOK, Apart, ReadsHold
  <2> HIDE DEF e
  <2>2. status[e] # "DECIDED" =>
           /\ <<status[e], "DECIDED">> \in Made
           /\ last_audit'[e] = <<status[e], "DECIDED">>
    BY <2>1 DEF Made, ValidStateTransitions, Created, Reextracted
  <2>3. ASSUME NEW q \in Runners, stage'[q] \in {"scoring", "configured"}
        PROVE  /\ stage[q] = stage'[q]
               /\ DealOf(q)' = DealOf(q)
               /\ DealOf(q) \in Deals \ {e}
    <3>1. stage[q] \in {"scoring", "configured"}
      BY <2>1, <2>3
    <3>2. status[DealOf(q)] = "EXTRACTED"
      BY <3>1 DEF ScoresHold
    <3>3. DealOf(q) \in Deals
      BY <3>1, HandlersHaveDeals
    <3> QED
      BY <2>1, <3>2, <3>3 DEF DealOf, queue
  <2>4. "DECIDED" \in DealStatus /\ scores'[e] <= 1
    BY <2>1 DEF DealStatus, ScoresHold
  <2> QED
    BY <2>1, <2>2, <2>3, <2>4, WriteScores
<1>17. CASE UNCHANGED vars
  BY <1>17, QuietScores DEF vars, handler, DealOf, queue
<1> QED
  BY <1>1, <1>2, <1>3, <1>4, <1>5, <1>6, <1>7, <1>9, <1>10, <1>11, <1>12,
     <1>13, <1>14, <1>15, <1>16, <1>17, <1>18
  DEF Next, RunnerStep, HandlerStep

(* All of it is inductive together. *)
LEMMA FixedInit == FixedConfig /\ Init => Sound /\ Apart /\ ScoresHold
  BY SoundInit, ApartInit, ScoresInit

LEMMA FixedStep ==
  ASSUME FixedConfig, Sound, Apart, ScoresHold, [Next]_vars
  PROVE  /\ Sound' /\ Apart' /\ ScoresHold'
         /\ \A d \in Deals : Moves(d) /\ Decided(d)
<1>1. OneRetry
  BY DEF FixedConfig
<1>2. Sound' /\ Apart' /\ ScoresHold' /\ \A d \in Deals : Moves(d)
  BY <1>1, SoundStep, ApartStep, ScoresStep
<1>3. \A d \in Deals : status'[d] \in DealStatus \cup {NoRow}
  BY <1>2 DEF Sound, TypeOK
<1>4. \A d \in Deals : Moves(d) => Decided(d)
  BY <1>3 DEF Moves, Decided, Made, ValidStateTransitions, Created, Reextracted,
              NoRow, DealStatus
<1> QED
  BY <1>2, <1>4

(* score_deal() scores a deal once: the job that a crash redelivers and    *)
(* the one an operator retries find it SCORED and raise, while the config  *)
(* does not change.                                                        *)
THEOREM DealsScoredOnce ==
  ASSUME FixedConfig
  PROVE  Spec => []ScoredOnce
<1>1. Init => Sound /\ Apart /\ ScoresHold
  BY FixedInit
<1>2. Sound /\ Apart /\ ScoresHold /\ [Next]_vars
      => Sound' /\ Apart' /\ ScoresHold'
  BY FixedStep
<1>3. ScoresHold => ScoredOnce
  BY DEF ScoresHold, ScoredOnce
<1> QED
  BY <1>1, <1>2, <1>3, PTL DEF Spec

(* A decision is final while the config does not change.  With a new one    *)
(* it is not: score_deal() does not look again at the status it overwrites. *)
THEOREM DecisionsStand ==
  ASSUME FixedConfig
  PROVE  Spec => DecisionsAreFinal
<1>1. Init => Sound /\ Apart /\ ScoresHold
  BY FixedInit
<1>2. Sound /\ Apart /\ ScoresHold /\ [Next]_vars
      => /\ Sound' /\ Apart' /\ ScoresHold'
         /\ [\A d \in Deals : Decided(d)]_vars
  BY FixedStep
<1> QED
  BY <1>1, <1>2, PTL DEF Spec, DecisionsAreFinal

-----------------------------------------------------------------------------
(* The queue inside the pipeline.                                          *)

(* What a step of the pipeline does to the queue is a step JobLifecycle    *)
(* allows: nobody touches a job but through the queue's own operations.    *)
LEMMA QueueStep == [Next]_vars => [Queue!Next]_(Queue!vars)
<1> SUFFICES ASSUME [Next]_vars
             PROVE  Queue!Next \/ UNCHANGED queue
  BY DEF queue, Queue!vars
<1>1. ASSUME NEW d \in Deals, NEW j \in Jobs, Ingest(d, j)
      PROVE  Queue!Next
  BY <1>1 DEF Ingest, Queue!Next
<1>2. ASSUME NEW i \in Jobs, NEW j \in Jobs, AdminRetry(i, j)
      PROVE  Queue!Next
  BY <1>2 DEF AdminRetry, Queue!Next
<1>11. ASSUME NEW j \in Jobs, AdminDrop(j)
       PROVE  Queue!Next
  BY <1>11 DEF AdminDrop, Queue!Next
<1>3. ASSUME NEW r \in Runners, NEW j \in Jobs, Take(r, j)
      PROVE  Queue!Next
  BY <1>3 DEF Take, Queue!Next
<1>4. ASSUME NEW r \in Runners, Succeed(r) \/ Fail(r)
      PROVE  Queue!Next
  BY <1>4 DEF Succeed, Fail, Queue!Next
<1>5. ASSUME NEW r \in Runners,
             \/ ExtractLoad(r) \/ ExtractSucceed(r) \/ ExtractFail(r)
             \/ ScoreLoadDeal(r) \/ ScoreLoadConfig(r) \/ ScoreCommit(r)
             \/ HandlerError(r)
      PROVE  UNCHANGED queue
  BY <1>5
  DEF ExtractLoad, ExtractSucceed, ExtractFail, ScoreLoadDeal,
      ScoreLoadConfig, ScoreCommit, HandlerError
<1>6. ASSUME NEW R \in SUBSET Runners, Crash(R)
      PROVE  Queue!Next
  BY <1>6 DEF Crash, Queue!Next
<1>7. ASSUME NEW j \in Jobs, Recover(j)
      PROVE  Queue!Next
  <2>1. {j} \in SUBSET Jobs /\ Queue!Recover({j})
    BY <1>7 DEF Recover
  <2> QED
    BY <2>1 DEF Queue!Next
<1>8. CASE ConfigOpen \/ ConfigStep \/ ConfigSkip \/ ConfigAbort
  BY <1>8
  DEF ConfigOpen, ConfigStep, ConfigSkip, ConfigAbort, ConfigLoad,
      ConfigScore, ConfigCommit
<1>9. ASSUME NEW a \in Analysts,
             \/ \E d \in Deals : DecideLoad(a, d)
             \/ DecideCommit(a) \/ DecideAbort(a)
      PROVE  UNCHANGED queue
  BY <1>9 DEF DecideLoad, DecideCommit, DecideAbort
<1>10. CASE UNCHANGED vars
  BY <1>10 DEF vars
<1> QED
  BY <1>1, <1>2, <1>3, <1>4, <1>5, <1>6, <1>7, <1>8, <1>9, <1>10,
     <1>11
  DEF Next, RunnerStep, HandlerStep

(* The pipeline, seen through its jobs alone, is a JobLifecycle: what the  *)
(* worker, the reaper and the operator are allowed to do to a job bounds   *)
(* all that uploads, handlers, configs and decisions do.                   *)
THEOREM PipelineKeepsQueuePromise == Spec => Queue!Spec
<1>1. Init => Queue!Init
  BY DEF Init
<1>2. QED
  BY <1>1, QueueStep, PTL DEF Spec, Queue!Spec

(* Two handlers never run one job, and what a handler works on is taken:   *)
(* for the queue alone, whatever its steps are used for.                   *)
LEMMA QueueKeepsRunnersApart ==
  ASSUME TypeOK, RunnersApart, [Queue!Next]_(Queue!vars)
  PROVE  RunnersApart'
<1> USE DEF TypeOK, RunnersApart
<1>1. ASSUME NEW j \in Jobs, Queue!Submit(j) \/ Queue!Discard(j)
      PROVE  RunnersApart'
  BY <1>1 DEF Queue!Submit, Queue!Discard
<1>2. ASSUME NEW r \in Runners,
             Queue!Succeed(r) \/ Queue!Retry(r) \/ Queue!DeadLetter(r)
      PROVE  RunnersApart'
  <2>1. PICK p \in {"succeeded", "queued", "dead"} : Queue!Settle(r, p)
    BY <1>2 DEF Queue!Succeed, Queue!Retry, Queue!DeadLetter
  <2> QED
    BY <2>1 DEF Queue!Settle
<1>3. ASSUME NEW r \in Runners, NEW j \in Jobs, Queue!Take(r, j)
      PROVE  RunnersApart'
  BY <1>3 DEF Queue!Take, Queue!Executing
<1>4. ASSUME NEW R \in SUBSET Runners, Queue!Vanish(R)
      PROVE  RunnersApart'
  BY <1>4 DEF Queue!Vanish
<1>5. ASSUME NEW J \in SUBSET Jobs, Queue!Recover(J)
      PROVE  RunnersApart'
  BY <1>5 DEF Queue!Recover, Queue!Executing
<1>6. CASE UNCHANGED Queue!vars
  BY <1>6 DEF Queue!vars
<1> QED
  BY <1>1, <1>2, <1>3, <1>4, <1>5, <1>6 DEF Queue!Next

(* A slot is idle exactly when it holds no job.                            *)
IdleIsFree == \A r \in Runners : stage[r] = "idle" <=> working[r] = NoJob

LEMMA IdleStep ==
  ASSUME Sound, IdleIsFree, [Next]_vars
  PROVE  IdleIsFree'
<1> USE DEF Sound, TypeOK, IdleIsFree
<1>1. ASSUME NEW r \in Runners, NEW j \in Jobs, Take(r, j)
      PROVE  IdleIsFree'
  BY <1>1 DEF Take, GoTo, Queue!Take
<1>2. ASSUME NEW r \in Runners, Succeed(r) \/ Fail(r)
      PROVE  IdleIsFree'
  <2>1. /\ working' = [working EXCEPT ![r] = NoJob]
        /\ stage' = [stage EXCEPT ![r] = "idle"]
    BY <1>2 DEF Succeed, Fail, GoTo, Queue!Succeed, Queue!Retry,
                Queue!DeadLetter, Queue!Settle
  <2> QED
    BY <2>1
<1>3. ASSUME NEW r \in Runners,
             \/ ExtractLoad(r) \/ ExtractSucceed(r) \/ ExtractFail(r)
             \/ ScoreLoadDeal(r) \/ ScoreLoadConfig(r) \/ ScoreCommit(r)
             \/ HandlerError(r)
      PROVE  IdleIsFree'
  <2>1. PICK s \in Stages \ {"idle"} : GoTo(r, s)
    BY <1>3
    DEF ExtractLoad, ExtractSucceed, ExtractFail, ScoreLoadDeal,
        ScoreLoadConfig, ScoreCommit, HandlerError, Stages
  <2>2. stage[r] # "idle" /\ UNCHANGED working
    BY <1>3
    DEF ExtractLoad, ExtractSucceed, ExtractFail, ScoreLoadDeal,
        ScoreLoadConfig, ScoreCommit, HandlerError, queue
  <2> QED
    BY <2>1, <2>2 DEF GoTo
<1>4. ASSUME NEW R \in SUBSET Runners, Crash(R)
      PROVE  IdleIsFree'
  BY <1>4 DEF Crash, Queue!Vanish
<1>5. ASSUME UNCHANGED <<stage, working>>
      PROVE  IdleIsFree'
  BY <1>5
<1>6. ASSUME \/ \E d \in Deals, j \in Jobs : Ingest(d, j)
             \/ \E i, j \in Jobs : AdminRetry(i, j)
             \/ \E j \in Jobs : AdminDrop(j) \/ Recover(j)
      PROVE  UNCHANGED <<stage, working>>
  BY <1>6
  DEF Ingest, AdminRetry, AdminDrop, Recover, Queue!Submit, Queue!Discard,
      Queue!Recover, handler
<1>7. ASSUME \/ ConfigOpen \/ ConfigStep \/ ConfigSkip \/ ConfigAbort
      PROVE  UNCHANGED <<stage, working>>
  BY <1>7
  DEF ConfigOpen, ConfigStep, ConfigSkip, ConfigAbort, ConfigLoad,
      ConfigScore, ConfigCommit, queue, handler
<1>8. ASSUME NEW a \in Analysts,
             \/ \E d \in Deals : DecideLoad(a, d)
             \/ DecideCommit(a) \/ DecideAbort(a)
      PROVE  UNCHANGED <<stage, working>>
  BY <1>8 DEF DecideLoad, DecideCommit, DecideAbort, queue, handler
<1>9. CASE UNCHANGED vars
  BY <1>9 DEF vars, queue, handler
<1> QED
  BY <1>1, <1>2, <1>3, <1>4, <1>5, <1>6, <1>7, <1>8, <1>9
  DEF Next, RunnerStep, HandlerStep

(* Slots and jobs, for any number of retries and faults.                   *)
Slots == Sound /\ RunnersApart /\ IdleIsFree

LEMMA SlotsInit == Init => Slots
  BY SoundInit DEF Init, Slots, RunnersApart, IdleIsFree, Queue!Init

LEMMA SlotsStep == Slots /\ [Next]_vars => Slots'
  BY SoundStep, QueueStep, QueueKeepsRunnersApart, IdleStep DEF Slots, Sound

(* A job is run by one handler at a time, and while it runs it is taken:   *)
(* neither the reaper nor an operator's retry has given it away.           *)
THEOREM HandlersNeverShareAJob == Spec => []RunnersApart
<1>1. Slots => RunnersApart
  BY DEF Slots
<1>2. QED
  BY SlotsInit, SlotsStep, <1>1, PTL DEF Spec

-----------------------------------------------------------------------------
(* No upload is forgotten, for any number of configs, retries and faults.  *)

(* What a handler knows of its deal.  Once it has written, the deal is not *)
(* UPLOADED any more, and never will be again; a FAILED deal it loaded has *)
(* been written by an earlier job, so that a skipped UPDATE leaves it      *)
(* nothing to write.                                                       *)
HandlerFeeds(r) ==
    /\ stage[r] = "extracting" =>
          /\ Extractable(loaded[r][1])
          /\ loaded[r][1] = "FAILED" => status[DealOf(r)] # "UPLOADED"
    /\ stage[r] \in {"extracted", "scoring", "configured", "returned"} =>
          status[DealOf(r)] # "UPLOADED"

Fed ==
    /\ UploadsHaveJobs
    /\ \A j \in Jobs : phase[j] # "new" => status[deal_of[j]] # NoRow
    /\ \A r \in Runners : HandlerFeeds(r)

LEMMA FedInit == Init => Fed
  BY DEF Init, Fed, UploadsHaveJobs, HandlerFeeds, NoRow, Queue!Init

(* Nothing becomes UPLOADED again and no row is taken away.                *)
StatusesStay ==
    \A d \in Deals : /\ status'[d] = "UPLOADED" => status[d] = "UPLOADED"
                     /\ status[d] # NoRow => status'[d] # NoRow

(* A job that could still feed its deal either still can, or need not.     *)
LEMMA FedKept ==
  ASSUME Sound, Fed, StatusesStay,
         \A j \in Jobs :
            phase[j] # "new" =>
               /\ deal_of'[j] = deal_of[j]
               /\ phase[j] \in Unsucceeded =>
                     \/ phase'[j] \in Unsucceeded
                     \/ status'[deal_of[j]] # "UPLOADED",
         \A j \in Jobs :
            phase[j] = "new" /\ phase'[j] # "new" =>
               deal_of'[j] \in Deals /\ status[deal_of'[j]] # NoRow,
         \A r \in Runners : HandlerFeeds(r)'
  PROVE  Fed'
<1>1. ASSUME NEW d \in Deals, status'[d] = "UPLOADED"
      PROVE  \E j \in Jobs : /\ deal_of'[j] = d
                             /\ phase'[j] \in Unsucceeded
  <2>1. PICK j \in Jobs : /\ deal_of[j] = d
                          /\ phase[j] \in Unsucceeded
    BY <1>1 DEF Fed, UploadsHaveJobs, StatusesStay
  <2> QED
    BY <1>1, <2>1 DEF Unsucceeded
<1>2. ASSUME NEW j \in Jobs, phase'[j] # "new"
      PROVE  status'[deal_of'[j]] # NoRow
  <2>1. deal_of'[j] \in Deals /\ status[deal_of'[j]] # NoRow
    BY <1>2 DEF Sound, PipelineInv, Fed
  <2> QED
    BY <2>1 DEF StatusesStay
<1> QED
  BY <1>1, <1>2 DEF Fed, UploadsHaveJobs

(* A handler whose stage and copy a step leaves alone knows as much after. *)
LEMMA HandlerStillFeeds ==
  ASSUME Sound, Fed, StatusesStay, NEW q \in Runners,
         stage[q] # "idle",
         UNCHANGED <<stage[q], loaded[q], DealOf(q)>>
  PROVE  HandlerFeeds(q)'
<1>1. DealOf(q) \in Deals /\ HandlerFeeds(q)
  BY HandlersHaveDeals DEF Fed
<1> QED
  BY <1>1 DEF HandlerFeeds, StatusesStay

(* An idle handler knows nothing. *)
LEMMA IdleHandlerFeeds ==
  ASSUME NEW q \in Runners, stage'[q] \in {"idle", "start", "raised"}
  PROVE  HandlerFeeds(q)'
  BY DEF HandlerFeeds

(* A step of handler r that leaves the queue alone.                        *)
LEMMA FedByHandler ==
  ASSUME Sound, Fed, StatusesStay, NEW r \in Runners, NEW s \in Stages,
         GoTo(r, s), UNCHANGED <<queue, deal_of>>,
         \A q \in Runners \ {r} : loaded'[q] = loaded[q],
         HandlerFeeds(r)'
  PROVE  Fed'
<1>1. ASSUME NEW q \in Runners PROVE HandlerFeeds(q)'
  <2>1. CASE q = r
    BY <2>1
  <2>2. CASE q # r /\ stage[q] = "idle"
    <3>1. stage'[q] = "idle"
      BY <2>2 DEF GoTo, Sound, TypeOK
    <3> QED
      BY <3>1, IdleHandlerFeeds
  <2>3. CASE q # r /\ stage[q] # "idle"
    <3>1. UNCHANGED <<stage[q], loaded[q], DealOf(q)>>
      BY <2>3 DEF GoTo, Sound, TypeOK, DealOf, queue
    <3> QED
      BY <2>3, <3>1, HandlerStillFeeds
  <2> QED
    BY <2>1, <2>2, <2>3
<1>2. \A j \in Jobs : phase'[j] = phase[j] /\ deal_of'[j] = deal_of[j]
  BY DEF queue
<1> QED
  BY <1>1, <1>2, FedKept

(* A step at no handler that leaves the queue alone.                       *)
LEMMA FedElsewhere ==
  ASSUME Sound, Fed, StatusesStay, UNCHANGED <<queue, deal_of, handler>>
  PROVE  Fed'
<1>1. ASSUME NEW q \in Runners PROVE HandlerFeeds(q)'
  <2>1. CASE stage[q] = "idle"
    BY <2>1, IdleHandlerFeeds DEF handler
  <2>2. CASE stage[q] # "idle"
    BY <2>2, HandlerStillFeeds DEF handler, queue, DealOf
  <2> QED
    BY <2>1, <2>2
<1>2. \A j \in Jobs : phase'[j] = phase[j] /\ deal_of'[j] = deal_of[j]
  BY DEF queue
<1> QED
  BY <1>1, <1>2, FedKept

(* What handler r's write leaves behind.                                   *)
LEMMA WriteFeeds ==
  ASSUME Slots, Fed, NEW r \in Runners, NEW st \in DealStatus,
         stage[r] \in {"extracting", "configured"}, st # "UPLOADED",
         stage[r] = "extracting" => st \in {"EXTRACTED", "FAILED"},
         SetStatus(DealOf(r), loaded[r][1], st)
  PROVE  StatusesStay /\ status'[DealOf(r)] # "UPLOADED"
<1> DEFINE d == DealOf(r)  b == loaded[r][1]
<1>1. d \in Deals
  BY HandlersHaveDeals DEF Slots
<1>2. /\ b # st => status' = [status EXCEPT ![d] = st]
      /\ b = st => status' = status
  BY DEF SetStatus
<1>3. b = st => status[d] # "UPLOADED"
  <2>1. CASE stage[r] = "extracting"
    BY <2>1 DEF Fed, HandlerFeeds, Extractable
  <2>2. CASE stage[r] = "configured"
    BY <2>2 DEF Fed, HandlerFeeds
  <2> QED
    BY <2>1, <2>2
<1>4. st # NoRow
  BY DEF DealStatus, NoRow
<1> HIDE DEF d, b
<1>5. status'[d] # "UPLOADED" /\ StatusesStay
  BY <1>1, <1>2, <1>3, <1>4 DEF StatusesStay, Slots, Sound, TypeOK
<1> QED
  BY <1>5 DEF d

LEMMA FedStep ==
  ASSUME Slots, Fed, [Next]_vars
  PROVE  Fed'
<1> USE DEF Slots
<1>1. ASSUME NEW d \in Deals, NEW j \in Jobs, Ingest(d, j) PROVE Fed'
  <2>1. /\ status[d] = NoRow /\ phase[j] = "new"
        /\ status' = [status EXCEPT ![d] = "UPLOADED"]
        /\ phase' = [phase EXCEPT ![j] = "queued"]
        /\ deal_of' = [deal_of EXCEPT ![j] = d]
        /\ UNCHANGED <<working, stage, loaded>>
    BY <1>1 DEF Ingest, Queue!Submit, handler
  <2>2. \A i \in Jobs : phase[i] # "new" =>
           /\ deal_of[i] \in Deals \ {d}
           /\ i # j
           /\ deal_of'[i] = deal_of[i]
           /\ phase'[i] = phase[i]
    BY <2>1 DEF Sound, TypeOK, PipelineInv, Fed
  <2>3. deal_of'[j] = d /\ phase'[j] = "queued" /\ phase'[j] \in Unsucceeded
    BY <2>1 DEF Sound, TypeOK, Unsucceeded
  <2>4. /\ status'[d] = "UPLOADED"
        /\ \A e \in Deals \ {d} : status'[e] = status[e]
    BY <2>1 DEF Sound, TypeOK
  <2>5. UploadsHaveJobs'
    <3>1. ASSUME NEW e \in Deals \ {d}, status'[e] = "UPLOADED"
          PROVE  \E i \in Jobs : /\ deal_of'[i] = e
                                 /\ phase'[i] \in Unsucceeded
      <4>1. PICK i \in Jobs : /\ deal_of[i] = e
                              /\ phase[i] \in Unsucceeded
        BY <2>4, <3>1 DEF Fed, UploadsHaveJobs
      <4> QED
        BY <2>2, <4>1 DEF Unsucceeded
    <3> QED
      BY <2>3, <3>1 DEF UploadsHaveJobs
  <2>6. \A i \in Jobs : phase'[i] # "new" => status'[deal_of'[i]] # NoRow
    <3>1. ASSUME NEW i \in Jobs \ {j}, phase'[i] # "new"
          PROVE  status'[deal_of'[i]] # NoRow
      <4>1. phase[i] # "new"
        BY <2>1, <3>1 DEF Sound, TypeOK
      <4>2. status[deal_of[i]] # NoRow
        BY <4>1 DEF Fed
      <4> QED
        BY <2>2, <2>4, <4>1, <4>2
    <3> QED
      BY <2>3, <2>4, <3>1 DEF NoRow
  <2>7. ASSUME NEW q \in Runners PROVE HandlerFeeds(q)'
    <3>1. CASE stage[q] = "idle"
      BY <2>1, <3>1, IdleHandlerFeeds
    <3>2. CASE stage[q] # "idle"
      <4>1. working[q] \in Jobs /\ phase[working[q]] # "new"
        BY <3>2 DEF Sound, PipelineInv
      <4>2. DealOf(q)' = DealOf(q) /\ status'[DealOf(q)] = status[DealOf(q)]
        BY <2>1, <2>2, <2>4, <4>1 DEF DealOf
      <4>3. HandlerFeeds(q)
        BY DEF Fed
      <4> QED
        BY <2>1, <4>2, <4>3 DEF HandlerFeeds
    <3> QED
      BY <3>1, <3>2
  <2> QED
    BY <2>5, <2>6, <2>7 DEF Fed
<1>2. ASSUME NEW i \in Jobs, NEW j \in Jobs, AdminRetry(i, j) PROVE Fed'
  <2>1. /\ phase[i] = "dead" /\ phase[j] = "new"
        /\ phase' = [phase EXCEPT ![j] = "queued"]
        /\ deal_of' = [deal_of EXCEPT ![j] = deal_of[i]]
        /\ UNCHANGED <<status, working, stage, loaded>>
    BY <1>2 DEF AdminRetry, Queue!Submit, deal, handler
  <2>2. StatusesStay
    BY <2>1 DEF StatusesStay
  <2>3. \A k \in Jobs : phase[k] # "new" =>
           deal_of'[k] = deal_of[k] /\ phase'[k] = phase[k]
    BY <2>1 DEF Sound, TypeOK
  <2>4. \A k \in Jobs :
           phase[k] = "new" /\ phase'[k] # "new" =>
              deal_of'[k] \in Deals /\ status[deal_of'[k]] # NoRow
    <3>1. deal_of[i] \in Deals /\ status[deal_of[i]] # NoRow
      BY <2>1 DEF Sound, PipelineInv, Fed
    <3> QED
      BY <2>1, <3>1 DEF Sound, TypeOK
  <2>5. ASSUME NEW q \in Runners PROVE HandlerFeeds(q)'
    <3>1. CASE stage[q] = "idle"
      BY <2>1, <3>1, IdleHandlerFeeds
    <3>2. CASE stage[q] # "idle"
      <4>1. working[q] \in Jobs /\ phase[working[q]] # "new"
        BY <3>2 DEF Sound, PipelineInv
      <4>2. DealOf(q)' = DealOf(q)
        BY <2>1, <2>3, <4>1 DEF DealOf
      <4> QED
        BY <2>1, <2>2, <3>2, <4>2, HandlerStillFeeds
    <3> QED
      BY <3>1, <3>2
  <2> QED
    BY <2>2, <2>3, <2>4, <2>5, FedKept
(* What the worker's marks, the reaper and a death have in common: only a  *)
(* handler that has returned settles a job for good.                       *)
<1>3. ASSUME UNCHANGED <<status, deal_of, loaded>>,
             \A j \in Jobs :
                /\ phase'[j] = "new" <=> phase[j] = "new"
                /\ phase[j] \in Unsucceeded =>
                      \/ phase'[j] \in Unsucceeded
                      \/ \E r \in Runners :
                            stage[r] = "returned" /\ working[r] = j,
             \A q \in Runners :
                \/ stage'[q] \in {"idle", "start"}
                \/ UNCHANGED <<stage[q], working[q]>>
      PROVE  Fed'
  <2>1. StatusesStay
    BY <1>3 DEF StatusesStay
  <2>2. \A j \in Jobs :
           phase[j] # "new" =>
              /\ deal_of'[j] = deal_of[j]
              /\ phase[j] \in Unsucceeded =>
                    \/ phase'[j] \in Unsucceeded
                    \/ status'[deal_of[j]] # "UPLOADED"
    BY <1>3 DEF Fed, HandlerFeeds, DealOf
  <2>3. ASSUME NEW q \in Runners PROVE HandlerFeeds(q)'
    <3>1. CASE stage'[q] \in {"idle", "start"}
      BY <3>1, IdleHandlerFeeds
    <3>2. CASE stage'[q] # "idle" /\ UNCHANGED <<stage[q], working[q]>>
      <4>1. UNCHANGED <<stage[q], loaded[q], DealOf(q)>>
        BY <1>3, <3>2 DEF DealOf
      <4> QED
        BY <2>1, <3>2, <4>1, HandlerStillFeeds
    <3> QED
      BY <1>3, <3>1, <3>2
  <2> QED
    BY <1>3, <2>1, <2>2, <2>3, FedKept
<1>4. ASSUME NEW r \in Runners, NEW j \in Jobs, Take(r, j) PROVE Fed'
  BY <1>3, <1>4
  DEF Take, GoTo, Queue!Take, deal, Sound, TypeOK, Unsucceeded
<1>5. ASSUME NEW r \in Runners, Succeed(r) PROVE Fed'
  BY <1>3, <1>5
  DEF Succeed, GoTo, Queue!Succeed, Queue!Settle, deal, Sound, TypeOK,
      Unsucceeded
<1>6. ASSUME NEW r \in Runners, Fail(r) PROVE Fed'
  <2>1. PICK p \in {"queued", "dead"} : Queue!Settle(r, p)
    BY <1>6 DEF Fail, Queue!Retry, Queue!DeadLetter
  <2>2. UNCHANGED <<status, deal_of, loaded>> /\ GoTo(r, "idle")
    BY <1>6 DEF Fail, deal
  <2> QED
    BY <1>3, <2>1, <2>2 DEF GoTo, Queue!Settle, Sound, TypeOK, Unsucceeded
<1>7. ASSUME NEW R \in SUBSET Runners, Crash(R) PROVE Fed'
  BY <1>3, <1>7 DEF Crash, Queue!Vanish, deal, Unsucceeded
<1>8. ASSUME NEW j \in Jobs, Recover(j) PROVE Fed'
  BY <1>3, <1>8 DEF Recover, Queue!Recover, deal, handler, Unsucceeded
<1>16. ASSUME NEW j \in Jobs, AdminDrop(j) PROVE Fed'
  BY <1>3, <1>16
  DEF AdminDrop, Queue!Discard, deal, handler, Unsucceeded, Sound, TypeOK
<1>9. ASSUME NEW r \in Runners, ExtractLoad(r) PROVE Fed'
  <2> DEFINE s == IF Extractable(status[DealOf(r)]) THEN "extracting"
                                                    ELSE "raised"
  <2>1. /\ GoTo(r, s)
        /\ loaded' = [loaded EXCEPT ![r] = <<status[DealOf(r)],
                                             retry_count[DealOf(r)]>>]
        /\ UNCHANGED <<status, queue, deal_of>>
    BY <1>9 DEF ExtractLoad, deal
  <2>2. s \in Stages
    BY DEF Stages
  <2>3. /\ \A q \in Runners \ {r} : loaded'[q] = loaded[q]
        /\ loaded'[r][1] = status[DealOf(r)]
        /\ stage'[r] = s
        /\ DealOf(r)' = DealOf(r)
    BY <2>1, <2>2 DEF Sound, TypeOK, GoTo, DealOf, queue
  <2>4. /\ s \in {"extracting", "raised"}
        /\ s = "extracting" => Extractable(status[DealOf(r)])
    OBVIOUS
  <2> HIDE DEF s
  <2>5. HandlerFeeds(r)'
    BY <2>1, <2>3, <2>4 DEF HandlerFeeds
  <2> QED
    BY <2>1, <2>2, <2>3, <2>5, FedByHandler DEF StatusesStay
<1>10. ASSUME NEW r \in Runners, ScoreLoadDeal(r) \/ ScoreLoadConfig(r)
       PROVE  Fed'
  <2>1. PICK s \in {"scoring", "raised", "configured", "returned"} :
           GoTo(r, s)
    BY <1>10 DEF ScoreLoadDeal, ScoreLoadConfig
  <2>2. /\ stage[r] \in {"extracted", "scoring"}
        /\ UNCHANGED <<status, queue, deal_of>>
        /\ \A q \in Runners \ {r} : loaded'[q] = loaded[q]
    BY <1>10 DEF ScoreLoadDeal, ScoreLoadConfig, deal, Sound, TypeOK
  <2>3. /\ stage'[r] = s
        /\ DealOf(r)' = DealOf(r)
    BY <2>1, <2>2 DEF Sound, TypeOK, GoTo, DealOf, queue
  <2>4. HandlerFeeds(r)'
    BY <2>2, <2>3 DEF HandlerFeeds, Fed
  <2>5. s \in Stages
    BY DEF Stages
  <2> QED
    BY <2>1, <2>2, <2>4, <2>5, FedByHandler DEF StatusesStay
<1>11. ASSUME NEW r \in Runners,
              ExtractSucceed(r) \/ ExtractFail(r) \/ ScoreCommit(r)
       PROVE  Fed'
  <2>1. PICK st \in {"EXTRACTED", "FAILED", "SCORED"},
             s \in {"extracted", "returned"} :
           /\ SetStatus(DealOf(r), loaded[r][1], st)
           /\ GoTo(r, s)
           /\ stage[r] = "extracting" => st # "SCORED"
    BY <1>11 DEF ExtractSucceed, ExtractFail, ScoreCommit
  <2>2. /\ stage[r] \in {"extracting", "configured"}
        /\ UNCHANGED <<loaded, queue, deal_of>>
    BY <1>11 DEF ExtractSucceed, ExtractFail, ScoreCommit
  <2>3. st \in DealStatus /\ s \in Stages
    BY DEF DealStatus, Stages
  <2>4. StatusesStay /\ status'[DealOf(r)] # "UPLOADED"
    BY <2>1, <2>2, <2>3, WriteFeeds
  <2>5. stage'[r] = s /\ DealOf(r)' = DealOf(r)
    BY <2>1, <2>2, <2>3 DEF Sound, TypeOK, GoTo, DealOf, queue
  <2>6. HandlerFeeds(r)'
    BY <2>4, <2>5 DEF HandlerFeeds
  <2> QED
    BY <2>1, <2>2, <2>3, <2>4, <2>6, FedByHandler
<1>12. ASSUME NEW r \in Runners, HandlerError(r) PROVE Fed'
  <2>1. GoTo(r, "raised") /\ UNCHANGED <<status, queue, deal_of, loaded>>
    BY <1>12 DEF HandlerError, deal
  <2>2. "raised" \in Stages /\ stage'[r] = "raised"
    BY <2>1 DEF Stages, GoTo, Sound, TypeOK
  <2> QED
    BY <2>1, <2>2, IdleHandlerFeeds, FedByHandler DEF StatusesStay
<1>13. CASE ConfigOpen \/ ConfigStep \/ ConfigSkip \/ ConfigAbort
  <2>1. UNCHANGED <<queue, deal_of, handler>>
    BY <1>13
    DEF ConfigOpen, ConfigStep, ConfigSkip, ConfigAbort, ConfigLoad,
        ConfigScore, ConfigCommit
  <2>2. \/ UNCHANGED status
        \/ status' = [d \in Deals |-> IF d \in config_tx.scored THEN "SCORED"
                                                                ELSE status[d]]
    BY <1>13
    DEF ConfigOpen, ConfigStep, ConfigSkip, ConfigAbort, ConfigLoad,
        ConfigScore, ConfigCommit, deal
  <2>3. StatusesStay
    BY <2>2 DEF StatusesStay, NoRow
  <2> QED
    BY <2>1, <2>3, FedElsewhere
<1>14. ASSUME NEW a \in Analysts,
              \/ \E d \in Deals : DecideLoad(a, d)
              \/ DecideCommit(a) \/ DecideAbort(a)
       PROVE  Fed'
  <2>1. UNCHANGED <<queue, deal_of, handler>>
    BY <1>14 DEF DecideLoad, DecideCommit, DecideAbort
  <2>2. \/ UNCHANGED status
        \/ status' = [status EXCEPT ![desk[a]] = "DECIDED"]
    BY <1>14 DEF DecideLoad, DecideCommit, DecideAbort, SetStatus, deal
  <2>3. StatusesStay
    BY <2>2 DEF StatusesStay, NoRow, Sound, TypeOK
  <2> QED
    BY <2>1, <2>3, FedElsewhere
<1>15. CASE UNCHANGED vars
  BY <1>15, FedElsewhere DEF vars, deal, StatusesStay
<1> QED
  BY <1>1, <1>2, <1>4, <1>5, <1>6, <1>7, <1>8, <1>9, <1>10, <1>11, <1>12,
     <1>13, <1>14, <1>15, <1>16
  DEF Next, RunnerStep, HandlerStep

(* Whatever crashes, raises, is redelivered, retried or configured, a deal *)
(* that is UPLOADED still has a job: ingest_deal() commits both, a handler *)
(* that returns has written a status, and one that raises or dies keeps    *)
(* its job for the queue or the operator.                                  *)
THEOREM UploadsAreNotForgotten == Spec => []UploadsHaveJobs
<1>1. Init => Slots /\ Fed
  BY SlotsInit, FedInit
<1>2. Slots /\ Fed /\ [Next]_vars => Slots' /\ Fed'
  BY SlotsStep, FedStep
<1>3. Fed => UploadsHaveJobs
  BY DEF Fed
<1> QED
  BY <1>1, <1>2, <1>3, PTL DEF Spec

-----------------------------------------------------------------------------
(* Without deaths and exceptions no deal is stranded, for any number of    *)
(* configs and operator's retries.                                         *)

Faultless == crashes = 0 /\ errors = 0

Scored == {"SCORED", "DECIDED"}

(* A second job of a deal comes from an operator's retry of a dead letter, *)
(* and a job only fails once its deal has been scored by a config request  *)
(* that overtook it.                                                       *)
JobQuiet(j) ==
    /\ phase[j] = "taken" => \E r \in Runners : working[r] = j
    /\ phase[j] = "dead" => status[deal_of[j]] \in Scored
    /\ phase[j] = "queued" =>
          status[deal_of[j]] \in {"UPLOADED"} \cup Scored
    /\ \A i \in Jobs :
          /\ i # j
          /\ phase[i] # "new" /\ phase[j] # "new"
          /\ deal_of[i] = deal_of[j]
          => status[deal_of[j]] \in Scored

HandlerQuiet(r) ==
    /\ stage[r] = "start" => status[DealOf(r)] \in {"UPLOADED"} \cup Scored
    /\ stage[r] = "extracting" => /\ status[DealOf(r)] = "UPLOADED"
                                  /\ loaded[r][1] = "UPLOADED"
    /\ stage[r] \in {"extracted", "scoring", "configured"} =>
          status[DealOf(r)] \in Reached
    /\ stage[r] = "raised" => status[DealOf(r)] \in Scored

RequestsQuiet ==
    /\ \A d \in Deals :
          d = config_tx.reading \/ d \in config_tx.scored =>
             status[d] \in Reached
    /\ \A a \in Analysts : desk[a] # NoDeal => status[desk[a]] \in Scored

Quiet ==
    /\ \A j \in Jobs : JobQuiet(j)
    /\ \A r \in Runners : HandlerQuiet(r)
    /\ RequestsQuiet

LEMMA QuietInit == Init => Quiet
  BY DEF Init, Quiet, JobQuiet, HandlerQuiet, RequestsQuiet, NoTx, Queue!Init

(* A deal keeps its status or, once EXTRACTED, is scored.                  *)
Advances(d) ==
    \/ status'[d] = status[d]
    \/ status[d] \in Reached /\ status'[d] \in Scored

LEMMA AdvancesKeeps ==
  ASSUME NEW d \in Deals, Advances(d)
  PROVE  /\ status[d] \in Scored => status'[d] \in Scored
         /\ status[d] \in Reached => status'[d] \in Reached
         /\ status[d] = "UPLOADED" => status'[d] = "UPLOADED"
         /\ status[d] \in {"UPLOADED"} \cup Scored =>
               status'[d] \in {"UPLOADED"} \cup Scored
  BY DEF Advances, Reached, Scored

(* What is known of a job and of a handler survives, while its deal only   *)
(* advances.                                                               *)
LEMMA JobStaysQuiet ==
  ASSUME Sound, NEW j \in Jobs, JobQuiet(j), phase[j] # "new",
         \A i \in Jobs : phase'[i] = phase[i] /\ deal_of'[i] = deal_of[i],
         Advances(deal_of[j]),
         UNCHANGED working
  PROVE  JobQuiet(j)'
<1>1. deal_of[j] \in Deals
  BY DEF Sound, PipelineInv
<1> QED
  BY <1>1, AdvancesKeeps DEF JobQuiet

LEMMA HandlerStaysQuiet ==
  ASSUME Sound, NEW q \in Runners, HandlerQuiet(q), stage[q] # "idle",
         UNCHANGED <<stage[q], loaded[q], DealOf(q)>>,
         Advances(DealOf(q))
  PROVE  HandlerQuiet(q)'
<1>1. DealOf(q) \in Deals
  BY HandlersHaveDeals
<1> QED
  BY <1>1, AdvancesKeeps DEF HandlerQuiet

LEMMA IdleHandlerQuiet ==
  ASSUME NEW q \in Runners, stage'[q] \in {"idle", "returned"}
  PROVE  HandlerQuiet(q)'
  BY DEF HandlerQuiet

LEMMA NewJobQuiet ==
  ASSUME NEW j \in Jobs, phase'[j] = "new"
  PROVE  JobQuiet(j)'
  BY DEF JobQuiet

(* A step that leaves the queue alone and lets deals only advance.         *)
LEMMA QuietKept ==
  ASSUME Sound, Quiet, UNCHANGED <<queue, deal_of>>,
         \A d \in Deals : Advances(d),
         \A q \in Runners : \/ UNCHANGED <<stage[q], loaded[q]>>
                            \/ HandlerQuiet(q)',
         \A d \in Deals :
            d = config_tx'.reading \/ d \in config_tx'.scored =>
               status[d] \in Reached,
         \A a \in Analysts :
            desk'[a] # NoDeal =>
               desk'[a] \in Deals /\ status[desk'[a]] \in Scored
  PROVE  Quiet'
<1>1. \A j \in Jobs : phase'[j] = phase[j] /\ deal_of'[j] = deal_of[j]
  BY DEF queue
<1>2. ASSUME NEW j \in Jobs PROVE JobQuiet(j)'
  <2>1. CASE phase[j] = "new"
    BY <1>1, <2>1, NewJobQuiet
  <2>2. CASE phase[j] # "new"
    <3>1. Advances(deal_of[j]) /\ JobQuiet(j) /\ UNCHANGED working
      BY <2>2 DEF Sound, PipelineInv, Quiet, queue
    <3> QED
      BY <1>1, <2>2, <3>1, JobStaysQuiet
  <2> QED
    BY <2>1, <2>2
<1>3. ASSUME NEW q \in Runners, UNCHANGED <<stage[q], loaded[q]>>
      PROVE  HandlerQuiet(q)'
  <2>1. CASE stage[q] = "idle"
    BY <1>3, <2>1, IdleHandlerQuiet
  <2>2. CASE stage[q] # "idle"
    <3>1. /\ DealOf(q) \in Deals
          /\ HandlerQuiet(q)
          /\ UNCHANGED DealOf(q)
      BY <2>2, HandlersHaveDeals DEF Quiet, DealOf, queue
    <3> QED
      BY <1>3, <2>2, <3>1, HandlerStaysQuiet
  <2> QED
    BY <2>1, <2>2
<1>4. RequestsQuiet'
  BY AdvancesKeeps DEF RequestsQuiet
<1> QED
  BY <1>2, <1>3, <1>4 DEF Quiet

(* A step of handler r that writes nothing to the deals.                   *)
LEMMA QuietRead ==
  ASSUME Sound, Quiet, NEW r \in Runners, NEW s \in Stages, GoTo(r, s),
         UNCHANGED <<status, queue, deal_of, config_tx, desk>>,
         \A q \in Runners \ {r} : loaded'[q] = loaded[q],
         s = "extracting" => /\ status[DealOf(r)] = "UPLOADED"
                             /\ loaded'[r][1] = "UPLOADED",
         s \in {"scoring", "configured"} => status[DealOf(r)] \in Reached,
         s = "raised" => status[DealOf(r)] \in Scored,
         s \notin {"start", "extracted"}
  PROVE  Quiet'
<1>1. /\ stage'[r] = s
      /\ \A q \in Runners \ {r} : UNCHANGED <<stage[q], loaded[q]>>
      /\ DealOf(r)' = DealOf(r)
  BY DEF GoTo, Sound, TypeOK, DealOf, queue
<1>2. HandlerQuiet(r)'
  BY <1>1 DEF HandlerQuiet
<1>3. \A d \in Deals : Advances(d)
  BY DEF Advances
<1>4. /\ \A d \in Deals :
            d = config_tx'.reading \/ d \in config_tx'.scored =>
               status[d] \in Reached
      /\ \A a \in Analysts :
            desk'[a] # NoDeal =>
               desk'[a] \in Deals /\ status[desk'[a]] \in Scored
  BY DEF Quiet, RequestsQuiet, Sound, TypeOK
<1> QED
  BY <1>1, <1>2, <1>3, <1>4, QuietKept

(* The write of extract_deal(): the job that runs is the only one of its   *)
(* deal, and nobody else has anything to do with an UPLOADED deal.         *)
LEMMA QuietExtract ==
  ASSUME Slots, Quiet, NEW r \in Runners, stage[r] = "extracting",
         NEW st \in {"EXTRACTED", "FAILED"},
         SetStatus(DealOf(r), loaded[r][1], st),
         GoTo(r, IF st = "EXTRACTED" THEN "extracted" ELSE "returned"),
         UNCHANGED <<loaded, queue, deal_of, config_tx, desk>>
  PROVE  Quiet'
<1> DEFINE d == DealOf(r)
           s == IF st = "EXTRACTED" THEN "extracted" ELSE "returned"
<1>1. /\ d \in Deals
      /\ working[r] \in Jobs
      /\ working[r] # NoJob
      /\ phase[working[r]] = "taken"
      /\ d = deal_of[working[r]]
  BY HandlersHaveDeals, DealPipelineAssumption
  DEF Slots, RunnersApart, DealOf, Sound
<1>2. /\ status[d] = "UPLOADED"
      /\ loaded[r][1] = "UPLOADED"
  BY DEF Quiet, HandlerQuiet
<1>3. status' = [status EXCEPT ![d] = st]
  BY <1>2 DEF SetStatus
<1>4. /\ stage'[r] = s
      /\ \A q \in Runners \ {r} : stage'[q] = stage[q]
      /\ \A q \in Runners : DealOf(q)' = DealOf(q)
  BY DEF GoTo, Slots, Sound, TypeOK, DealOf, queue
<1>5. \A j \in Jobs : phase'[j] = phase[j] /\ deal_of'[j] = deal_of[j]
  BY DEF queue
<1>6. \A j \in Jobs :
         phase[j] # "new" /\ j # working[r] => deal_of[j] \in Deals \ {d}
  <2> SUFFICES ASSUME NEW j \in Jobs, phase[j] # "new", j # working[r]
               PROVE  deal_of[j] \in Deals \ {d}
    OBVIOUS
  <2>1. deal_of[j] \in Deals
    BY DEF Slots, Sound, PipelineInv
  <2>2. deal_of[j] = deal_of[working[r]] =>
           status[deal_of[working[r]]] \in Scored
    BY <1>1 DEF Quiet, JobQuiet
  <2>3. "UPLOADED" \notin Scored
    BY DEF Scored
  <2> QED
    BY <1>1, <1>2, <2>1, <2>2, <2>3
<1> HIDE DEF d, s
<1>7. \A e \in Deals \ {d} : Advances(e)
  BY <1>3 DEF Advances, Slots, Sound, TypeOK
<1>8. ASSUME NEW j \in Jobs PROVE JobQuiet(j)'
  <2>1. CASE phase[j] = "new"
    BY <1>5, <2>1, NewJobQuiet
  <2>2. CASE phase[j] # "new" /\ j # working[r]
    <3>1. Advances(deal_of[j]) /\ JobQuiet(j) /\ UNCHANGED working
      BY <1>6, <1>7, <2>2 DEF Quiet, queue
    <3> QED
      BY <1>5, <2>2, <3>1, JobStaysQuiet DEF Slots
  <2>3. CASE j = working[r]
    <3>1. working'[r] = j
      BY <2>3 DEF queue
    <3>2. phase'[j] = "taken"
      BY <1>1, <1>5, <2>3
    <3>3. \A i \in Jobs :
             i # j /\ phase'[i] # "new" => deal_of'[i] # deal_of'[j]
      BY <1>1, <1>5, <1>6, <2>3
    <3> QED
      BY <3>1, <3>2, <3>3 DEF JobQuiet
  <2> QED
    BY <2>1, <2>2, <2>3
<1>9. ASSUME NEW q \in Runners PROVE HandlerQuiet(q)'
  <2>1. CASE q = r
    <3>1. s = "extracted" => status'[d] \in Reached
      BY <1>1, <1>3 DEF s, Reached, Slots, Sound, TypeOK
    <3>2. s \in {"extracted", "returned"} /\ DealOf(r)' = d
      BY <1>4 DEF s, d
    <3> QED
      BY <1>4, <2>1, <3>1, <3>2 DEF HandlerQuiet
  <2>2. CASE q # r /\ stage[q] = "idle"
    BY <1>4, <2>2, IdleHandlerQuiet
  <2>3. CASE q # r /\ stage[q] # "idle"
    <3>1. working[q] \in Jobs /\ phase[working[q]] # "new"
      BY <2>3 DEF Slots, Sound, PipelineInv
    <3>2. working[q] # working[r]
      BY <1>1, <2>3 DEF Slots, RunnersApart
    <3>3. Advances(DealOf(q))
      BY <1>6, <1>7, <3>1, <3>2 DEF DealOf
    <3>4. HandlerQuiet(q)
      BY DEF Quiet
    <3>5. UNCHANGED <<stage[q], loaded[q], DealOf(q)>>
      BY <1>4, <2>3
    <3> QED
      BY <2>3, <3>3, <3>4, <3>5, HandlerStaysQuiet DEF Slots
  <2> QED
    BY <2>1, <2>2, <2>3
<1>10. RequestsQuiet'
  <2>1. \A e \in Deals : status[e] \in Reached => status'[e] \in Reached
    BY <1>2, <1>7, AdvancesKeeps DEF Reached
  <2>2. \A e \in Deals : status[e] \in Scored => status'[e] \in Scored
    BY <1>2, <1>7, AdvancesKeeps DEF Scored
  <2> QED
    BY <2>1, <2>2 DEF Quiet, RequestsQuiet, Slots, Sound, TypeOK
<1> QED
  BY <1>8, <1>9, <1>10 DEF Quiet

(* Every step that is not a fault keeps the pipeline quiet.                *)
LEMMA QuietStep ==
  ASSUME Slots, Fed, Quiet, Faultless', [Next]_vars
  PROVE  Quiet'
<1> USE DEF Slots
<1>1. ASSUME NEW d \in Deals, NEW j \in Jobs, Ingest(d, j) PROVE Quiet'
  <2>1. /\ status[d] = NoRow /\ phase[j] = "new"
        /\ status' = [status EXCEPT ![d] = "UPLOADED"]
        /\ phase' = [phase EXCEPT ![j] = "queued"]
        /\ deal_of' = [deal_of EXCEPT ![j] = d]
        /\ UNCHANGED <<working, stage, loaded, config_tx, desk>>
    BY <1>1 DEF Ingest, Queue!Submit, handler
  <2>2. \A i \in Jobs : phase[i] # "new" =>
           /\ deal_of[i] \in Deals \ {d}
           /\ i # j
           /\ deal_of'[i] = deal_of[i]
           /\ phase'[i] = phase[i]
           /\ status'[deal_of[i]] = status[deal_of[i]]
    BY <2>1 DEF Sound, TypeOK, PipelineInv, Fed
  <2>3. deal_of'[j] = d /\ phase'[j] = "queued" /\ status'[d] = "UPLOADED"
    BY <2>1 DEF Sound, TypeOK
  <2>4. \A i \in Jobs \ {j} : phase'[i] # "new" => phase[i] # "new"
    BY <2>1 DEF Sound, TypeOK
  <2>5. ASSUME NEW i \in Jobs PROVE JobQuiet(i)'
    <3>1. CASE i = j
      <4>1. \A k \in Jobs :
               k # i /\ phase'[k] # "new" => deal_of'[k] # deal_of'[i]
        BY <2>2, <2>3, <2>4, <3>1
      <4> QED
        BY <2>3, <3>1, <4>1 DEF JobQuiet
    <3>2. CASE i # j /\ phase[i] = "new"
      BY <2>1, <3>2, NewJobQuiet DEF Sound, TypeOK
    <3>3. CASE i # j /\ phase[i] # "new"
      <4>1. \A k \in Jobs :
               k # i /\ phase'[k] # "new" /\ deal_of'[k] = deal_of'[i]
               => k # j /\ phase[k] # "new" /\ deal_of[k] = deal_of[i]
        BY <2>2, <2>3, <2>4, <3>3
      <4>2. JobQuiet(i)
        BY DEF Quiet
      <4> QED
        BY <2>1, <2>2, <3>3, <4>1, <4>2 DEF JobQuiet
    <3> QED
      BY <3>1, <3>2, <3>3
  <2>6. ASSUME NEW q \in Runners PROVE HandlerQuiet(q)'
    <3>1. CASE stage[q] = "idle"
      BY <2>1, <3>1, IdleHandlerQuiet
    <3>2. CASE stage[q] # "idle"
      <4>1. working[q] \in Jobs /\ phase[working[q]] # "new"
        BY <3>2 DEF Sound, PipelineInv
      <4>2. DealOf(q)' = DealOf(q) /\ status'[DealOf(q)] = status[DealOf(q)]
        BY <2>1, <2>2, <4>1 DEF DealOf
      <4>3. HandlerQuiet(q)
        BY DEF Quiet
      <4> QED
        BY <2>1, <4>2, <4>3 DEF HandlerQuiet
    <3> QED
      BY <3>1, <3>2
  <2>7. RequestsQuiet'
    <3>1. \A e \in Deals : status[e] # NoRow => status'[e] = status[e]
      BY <2>1 DEF Sound, TypeOK
    <3>2. NoRow \notin Reached \cup Scored
      BY DEF NoRow, Reached, Scored
    <3> QED
      BY <2>1, <3>1, <3>2 DEF Quiet, RequestsQuiet, Sound, TypeOK
  <2> QED
    BY <2>5, <2>6, <2>7 DEF Quiet
<1>2. ASSUME NEW i \in Jobs, NEW j \in Jobs, AdminRetry(i, j) PROVE Quiet'
  <2>1. /\ phase[i] = "dead" /\ phase[j] = "new"
        /\ phase' = [phase EXCEPT ![j] = "queued"]
        /\ deal_of' = [deal_of EXCEPT ![j] = deal_of[i]]
        /\ UNCHANGED <<status, working, stage, loaded, config_tx, desk>>
    BY <1>2 DEF AdminRetry, Queue!Submit, deal, handler
  <2>2. \A k \in Jobs \ {j} :
           deal_of'[k] = deal_of[k] /\ phase'[k] = phase[k]
    BY <2>1 DEF Sound, TypeOK
  <2>3. deal_of'[j] = deal_of[i] /\ phase'[j] = "queued"
    BY <2>1 DEF Sound, TypeOK
  <2>4. status[deal_of[i]] \in Scored
    BY <2>1 DEF Quiet, JobQuiet
  <2>5. ASSUME NEW k \in Jobs PROVE JobQuiet(k)'
    <3>1. CASE k = j
      BY <2>1, <2>3, <2>4, <3>1 DEF JobQuiet
    <3>2. CASE k # j
      <4>1. JobQuiet(k)
        BY DEF Quiet
      <4>2. ASSUME NEW l \in Jobs, l # k, phase'[l] # "new",
                   phase'[k] # "new", deal_of'[l] = deal_of'[k]
            PROVE  status[deal_of[k]] \in Scored
        <5>1. CASE l = j
          BY <2>2, <2>3, <2>4, <3>2, <4>2, <5>1
        <5>2. CASE l # j
          BY <2>2, <3>2, <4>1, <4>2, <5>2 DEF JobQuiet
        <5> QED
          BY <5>1, <5>2
      <4> QED
        BY <2>1, <2>2, <3>2, <4>1, <4>2 DEF JobQuiet
    <3> QED
      BY <3>1, <3>2
  <2>6. ASSUME NEW q \in Runners PROVE HandlerQuiet(q)'
    <3>1. CASE stage[q] = "idle"
      BY <2>1, <3>1, IdleHandlerQuiet
    <3>2. CASE stage[q] # "idle"
      <4>1. working[q] \in Jobs /\ phase[working[q]] # "new"
        BY <3>2 DEF Sound, PipelineInv
      <4>2. DealOf(q)' = DealOf(q)
        BY <2>1, <2>2, <4>1 DEF DealOf
      <4>3. HandlerQuiet(q)
        BY DEF Quiet
      <4> QED
        BY <2>1, <4>2, <4>3 DEF HandlerQuiet
    <3> QED
      BY <3>1, <3>2
  <2>7. RequestsQuiet'
    BY <2>1 DEF Quiet, RequestsQuiet
  <2> QED
    BY <2>5, <2>6, <2>7 DEF Quiet
<1>21. ASSUME NEW j \in Jobs, AdminDrop(j) PROVE Quiet'
  <2>1. /\ phase[j] = "dead"
        /\ phase' = [phase EXCEPT ![j] = "removed"]
        /\ UNCHANGED <<status, working, deal_of, stage, loaded, config_tx,
                       desk>>
    BY <1>21 DEF AdminDrop, Queue!Discard, deal, handler
  <2>2. phase'[j] = "removed" /\ \A i \in Jobs \ {j} : phase'[i] = phase[i]
    BY <2>1 DEF Sound, TypeOK
  <2>3. ASSUME NEW i \in Jobs PROVE JobQuiet(i)'
    <3>1. \A k \in Jobs : phase'[k] # "new" => phase[k] # "new"
      BY <2>1, <2>2
    <3>2. JobQuiet(i)
      BY DEF Quiet
    <3> QED
      BY <2>1, <2>2, <3>1, <3>2 DEF JobQuiet
  <2>4. \A q \in Runners : HandlerQuiet(q)'
    BY <2>1 DEF Quiet, HandlerQuiet, DealOf
  <2>5. RequestsQuiet'
    BY <2>1 DEF Quiet, RequestsQuiet
  <2> QED
    BY <2>3, <2>4, <2>5 DEF Quiet
<1>3. ASSUME NEW r \in Runners, NEW j \in Jobs, Take(r, j) PROVE Quiet'
  <2>1. /\ phase[j] = "queued" /\ working[r] = NoJob
        /\ phase' = [phase EXCEPT ![j] = "taken"]
        /\ working' = [working EXCEPT ![r] = j]
        /\ stage' = [stage EXCEPT ![r] = "start"]
        /\ UNCHANGED <<status, deal_of, loaded, config_tx, desk>>
    BY <1>3 DEF Take, GoTo, Queue!Take, deal
  <2>2. /\ working'[r] = j /\ stage'[r] = "start" /\ phase'[j] = "taken"
        /\ \A q \in Runners \ {r} :
              working'[q] = working[q] /\ stage'[q] = stage[q]
        /\ \A i \in Jobs \ {j} : phase'[i] = phase[i]
    BY <2>1 DEF Sound, TypeOK
  <2>3. \A i \in Jobs : phase'[i] # "new" => phase[i] # "new"
    BY <2>1, <2>2
  <2>4. ASSUME NEW i \in Jobs PROVE JobQuiet(i)'
    <3>1. JobQuiet(i)
      BY DEF Quiet
    <3>2. phase'[i] = "taken" => \E q \in Runners : working'[q] = i
      <4>1. CASE i = j
        BY <2>2, <4>1
      <4>2. CASE i # j
        <5>1. \A q \in Runners : working[q] = i => q # r
          BY <2>1, DealPipelineAssumption
        <5> QED
          BY <2>2, <3>1, <4>2, <5>1 DEF JobQuiet
      <4> QED
        BY <4>1, <4>2
    <3>3. phase'[i] # "taken" => phase'[i] = phase[i]
      BY <2>2
    <3> QED
      BY <2>1, <2>3, <3>1, <3>2, <3>3 DEF JobQuiet
  <2>5. ASSUME NEW q \in Runners PROVE HandlerQuiet(q)'
    <3>1. CASE q = r
      <4>1. JobQuiet(j)
        BY DEF Quiet
      <4> QED
        BY <2>1, <2>2, <3>1, <4>1 DEF HandlerQuiet, JobQuiet, DealOf
    <3>2. CASE q # r
      BY <2>1, <2>2, <3>2 DEF Quiet, HandlerQuiet, DealOf
    <3> QED
      BY <3>1, <3>2
  <2>6. RequestsQuiet'
    BY <2>1 DEF Quiet, RequestsQuiet
  <2> QED
    BY <2>4, <2>5, <2>6 DEF Quiet
<1>4. ASSUME NEW r \in Runners, Succeed(r) \/ Fail(r) PROVE Quiet'
  <2>1. PICK p \in {"succeeded", "queued", "dead"} :
           /\ phase' = [phase EXCEPT ![working[r]] = p]
           /\ p # "succeeded" => stage[r] = "raised"
    BY <1>4 DEF Succeed, Fail, Queue!Succeed, Queue!Retry, Queue!DeadLetter,
                Queue!Settle
  <2>2. /\ working[r] # NoJob
        /\ working' = [working EXCEPT ![r] = NoJob]
        /\ stage' = [stage EXCEPT ![r] = "idle"]
        /\ UNCHANGED <<status, deal_of, loaded, config_tx, desk>>
    BY <1>4 DEF Succeed, Fail, GoTo, Queue!Succeed, Queue!Retry,
                Queue!DeadLetter, Queue!Settle, deal
  <2>3. PICK j \in Jobs : j = working[r]
    BY <2>2 DEF Sound, TypeOK
  <2>4. /\ phase[j] = "taken"
        /\ phase'[j] = p
        /\ \A i \in Jobs \ {j} : phase'[i] = phase[i]
        /\ \A q \in Runners \ {r} :
              working'[q] = working[q] /\ stage'[q] = stage[q]
        /\ stage'[r] = "idle"
    BY <2>1, <2>2, <2>3 DEF Sound, TypeOK, RunnersApart
  <2>5. p # "succeeded" => status[deal_of[j]] \in Scored
    BY <2>1, <2>3 DEF Quiet, HandlerQuiet, DealOf
  <2>6. ASSUME NEW i \in Jobs PROVE JobQuiet(i)'
    <3>1. JobQuiet(i)
      BY DEF Quiet
    <3>2. \A k \in Jobs : phase'[k] # "new" => phase[k] # "new"
      BY <2>4
    <3>3. CASE i = j
      BY <2>2, <2>4, <2>5, <3>1, <3>2, <3>3 DEF JobQuiet
    <3>4. CASE i # j
      <4>1. phase'[i] = "taken" => \E q \in Runners : working'[q] = i
        BY <2>3, <2>4, <3>1, <3>4 DEF JobQuiet
      <4> QED
        BY <2>2, <2>4, <3>1, <3>2, <3>4, <4>1 DEF JobQuiet
    <3> QED
      BY <3>3, <3>4
  <2>7. ASSUME NEW q \in Runners PROVE HandlerQuiet(q)'
    <3>1. CASE q = r
      BY <2>4, <3>1, IdleHandlerQuiet
    <3>2. CASE q # r
      BY <2>2, <2>4, <3>2 DEF Quiet, HandlerQuiet, DealOf
    <3> QED
      BY <3>1, <3>2
  <2>8. RequestsQuiet'
    BY <2>2 DEF Quiet, RequestsQuiet
  <2> QED
    BY <2>6, <2>7, <2>8 DEF Quiet
(* A runner that is alive has every taken job: there is nothing to reap.   *)
<1>5. ASSUME NEW j \in Jobs, Recover(j) PROVE FALSE
  BY <1>5 DEF Recover, Queue!Recover, Queue!Executing, Quiet, JobQuiet
<1>6. ASSUME NEW r \in Runners, ExtractLoad(r) PROVE Quiet'
  <2> DEFINE s == IF Extractable(status[DealOf(r)]) THEN "extracting"
                                                    ELSE "raised"
  <2>1. /\ GoTo(r, s) /\ stage[r] = "start"
        /\ loaded' = [loaded EXCEPT ![r] = <<status[DealOf(r)],
                                             retry_count[DealOf(r)]>>]
        /\ UNCHANGED <<status, queue, deal_of, config_tx, desk>>
    BY <1>6 DEF ExtractLoad, deal
  <2>2. /\ \A q \in Runners \ {r} : loaded'[q] = loaded[q]
        /\ loaded'[r][1] = status[DealOf(r)]
    BY <2>1 DEF Sound, TypeOK
  <2>3. status[DealOf(r)] \in {"UPLOADED"} \cup Scored
    BY <2>1 DEF Quiet, HandlerQuiet
  <2>4. /\ s \in {"extracting", "raised"}
        /\ s = "extracting" => status[DealOf(r)] = "UPLOADED"
        /\ s = "raised" => status[DealOf(r)] \in Scored
    BY <2>3 DEF Extractable, Scored
  <2>5. s \in Stages
    BY DEF Stages
  <2> HIDE DEF s
  <2> QED
    BY <2>1, <2>2, <2>4, <2>5, QuietRead
<1>7. ASSUME NEW r \in Runners, ScoreLoadDeal(r) PROVE Quiet'
  <2> DEFINE s == IF Scorable(status[DealOf(r)]) THEN "scoring" ELSE "raised"
  <2>1. /\ GoTo(r, s) /\ stage[r] = "extracted"
        /\ \A q \in Runners \ {r} : loaded'[q] = loaded[q]
        /\ UNCHANGED <<status, queue, deal_of, config_tx, desk>>
    BY <1>7 DEF ScoreLoadDeal, deal, Sound, TypeOK
  <2>2. status[DealOf(r)] \in Reached
    BY <2>1 DEF Quiet, HandlerQuiet
  <2>3. /\ s \in {"scoring", "raised"}
        /\ s = "raised" => status[DealOf(r)] \in Scored
    BY <2>2 DEF Scorable, Scored, Reached
  <2>4. s \in Stages
    BY DEF Stages
  <2> HIDE DEF s
  <2> QED
    BY <2>1, <2>2, <2>3, <2>4, QuietRead
<1>8. ASSUME NEW r \in Runners, ScoreLoadConfig(r) PROVE Quiet'
  <2>1. PICK s \in {"returned", "configured"} : GoTo(r, s)
    BY <1>8 DEF ScoreLoadConfig
  <2>2. /\ stage[r] = "scoring"
        /\ UNCHANGED <<status, queue, deal_of, loaded, config_tx, desk>>
    BY <1>8 DEF ScoreLoadConfig, deal
  <2>3. status[DealOf(r)] \in Reached
    BY <2>2 DEF Quiet, HandlerQuiet
  <2>4. s \in Stages
    BY DEF Stages
  <2> QED
    BY <2>1, <2>2, <2>3, <2>4, QuietRead
<1>9. ASSUME NEW r \in Runners, ExtractSucceed(r) \/ ExtractFail(r)
      PROVE  Quiet'
  <2>1. PICK st \in {"EXTRACTED", "FAILED"} :
           /\ SetStatus(DealOf(r), loaded[r][1], st)
           /\ GoTo(r, IF st = "EXTRACTED" THEN "extracted" ELSE "returned")
    BY <1>9 DEF ExtractSucceed, ExtractFail
  <2>2. /\ stage[r] = "extracting"
        /\ UNCHANGED <<loaded, queue, deal_of, config_tx, desk>>
    BY <1>9 DEF ExtractSucceed, ExtractFail
  <2> QED
    BY <2>1, <2>2, QuietExtract
(* The steps that let a deal advance.                                      *)
<1>10. \A d \in Deals :
          status[d] \in Reached /\ status'[d] \in Scored => Advances(d)
  BY DEF Advances
<1>11. /\ \A d \in Deals :
             d = config_tx.reading \/ d \in config_tx.scored =>
                status[d] \in Reached
       /\ \A a \in Analysts :
             desk[a] # NoDeal =>
                desk[a] \in Deals /\ status[desk[a]] \in Scored
       /\ config_tx.reading \in Deals \cup {NoDeal}
       /\ NoDeal \notin Deals
  BY DealPipelineAssumption DEF Quiet, RequestsQuiet, Sound, TypeOK
<1>12. ASSUME NEW r \in Runners, ScoreCommit(r) PROVE Quiet'
  <2>1. /\ stage[r] = "configured"
        /\ SetStatus(DealOf(r), loaded[r][1], "SCORED")
        /\ GoTo(r, "returned")
        /\ UNCHANGED <<loaded, queue, deal_of, config_tx, desk>>
    BY <1>12 DEF ScoreCommit
  <2>2. DealOf(r) \in Deals /\ status[DealOf(r)] \in Reached
    BY <2>1, HandlersHaveDeals DEF Quiet, HandlerQuiet
  <2>3. status' = status \/ status' = [status EXCEPT ![DealOf(r)] = "SCORED"]
    BY <2>1 DEF SetStatus
  <2>4. \A d \in Deals : Advances(d)
    BY <2>2, <2>3 DEF Advances, Scored, Sound, TypeOK
  <2>5. /\ stage'[r] = "returned"
        /\ \A q \in Runners \ {r} : UNCHANGED <<stage[q], loaded[q]>>
    BY <2>1 DEF GoTo, Sound, TypeOK
  <2> QED
    BY <1>11, <2>1, <2>4, <2>5, IdleHandlerQuiet, QuietKept
<1>13. CASE ConfigOpen
  BY <1>11, <1>13, QuietKept
  DEF ConfigOpen, NoTx, deal, handler, Advances
<1>14. ASSUME NEW d \in Deals, ConfigLoad(d) PROVE Quiet'
  <2>1. /\ config_tx'.reading \in {d, NoDeal}
        /\ config_tx'.reading = d => Scorable(status[d])
        /\ config_tx'.scored = config_tx.scored
        /\ UNCHANGED <<status, queue, deal_of, stage, loaded, desk>>
    BY <1>14 DEF ConfigLoad, deal, handler, Sound, TypeOK
  <2>2. \A e \in Deals :
           e = config_tx'.reading \/ e \in config_tx'.scored =>
              status[e] \in Reached
    BY <1>11, <2>1 DEF Scorable, Reached
  <2>3. \A e \in Deals : Advances(e)
    BY <2>1 DEF Advances
  <2> QED
    BY <1>11, <2>1, <2>2, <2>3, QuietKept
<1>15. CASE ConfigScore
  <2>1. /\ config_tx'.reading = NoDeal
        /\ config_tx'.scored = config_tx.scored \cup {config_tx.reading}
        /\ UNCHANGED <<status, queue, deal_of, stage, loaded, desk>>
    BY <1>15 DEF ConfigScore, deal, handler, Sound, TypeOK
  <2>2. \A e \in Deals :
           e = config_tx'.reading \/ e \in config_tx'.scored =>
              status[e] \in Reached
    BY <1>11, <2>1
  <2>3. \A e \in Deals : Advances(e)
    BY <2>1 DEF Advances
  <2> QED
    BY <1>11, <2>1, <2>2, <2>3, QuietKept
<1>16. CASE ConfigCommit
  <2>1. /\ status' = [d \in Deals |-> IF d \in config_tx.scored THEN "SCORED"
                                                               ELSE status[d]]
        /\ config_tx' = NoTx
        /\ UNCHANGED <<queue, deal_of, stage, loaded, desk>>
    BY <1>16 DEF ConfigCommit, handler
  <2>2. \A d \in Deals : Advances(d)
    BY <1>11, <2>1 DEF Advances, Scored
  <2>3. \A e \in Deals :
           ~(e = config_tx'.reading \/ e \in config_tx'.scored)
    BY <1>11, <2>1 DEF NoTx
  <2> QED
    BY <1>11, <2>1, <2>2, <2>3, QuietKept
<1>17. ASSUME NEW a \in Analysts, NEW d \in Deals, DecideLoad(a, d)
       PROVE  Quiet'
  <2>1. /\ desk' = [desk EXCEPT ![a] = d]
        /\ status[d] = "SCORED"
        /\ UNCHANGED <<status, queue, deal_of, stage, loaded, config_tx>>
    BY <1>17 DEF DecideLoad, Decidable, deal, handler
  <2>2. \A b \in Analysts :
           desk'[b] # NoDeal =>
              desk'[b] \in Deals /\ status[desk'[b]] \in Scored
    BY <1>11, <2>1 DEF Scored, Sound, TypeOK
  <2>3. \A e \in Deals : Advances(e)
    BY <2>1 DEF Advances
  <2> QED
    BY <1>11, <2>1, <2>2, <2>3, QuietKept
<1>18. ASSUME NEW a \in Analysts, DecideCommit(a) \/ DecideAbort(a)
       PROVE  Quiet'
  <2>1. /\ desk[a] # NoDeal
        /\ desk' = [desk EXCEPT ![a] = NoDeal]
        /\ \/ UNCHANGED status
           \/ status' = [status EXCEPT ![desk[a]] = "DECIDED"]
        /\ UNCHANGED <<queue, deal_of, stage, loaded, config_tx>>
    BY <1>18 DEF DecideCommit, DecideAbort, SetStatus, deal, handler
  <2>2. \A b \in Analysts :
           desk'[b] # NoDeal =>
              desk'[b] \in Deals /\ status[desk'[b]] \in Scored
    BY <1>11, <2>1 DEF Sound, TypeOK
  <2>3. desk[a] \in Deals /\ status[desk[a]] \in Reached
    BY <1>11, <2>1 DEF Scored, Reached
  <2>4. \A e \in Deals : Advances(e)
    BY <2>1, <2>3 DEF Advances, Scored, Sound, TypeOK
  <2> QED
    BY <1>11, <2>1, <2>2, <2>4, QuietKept
(* The steps that are faults.                                              *)
<1>19. ASSUME \/ \E r \in Runners : HandlerError(r)
              \/ \E R \in SUBSET Runners : Crash(R)
              \/ ConfigSkip \/ ConfigAbort
       PROVE  FALSE
  <2>1. crashes \in Nat /\ errors \in Nat
    BY DealPipelineAssumption DEF Sound, TypeOK
  <2>2. \/ crashes' = crashes + 1 /\ errors' = errors
        \/ crashes' = crashes /\ errors' = errors + 1
    BY <1>19 DEF HandlerError, Crash, ConfigSkip, ConfigAbort
  <2> QED
    BY <2>1, <2>2 DEF Faultless
<1>20. CASE UNCHANGED vars
  BY <1>11, <1>20, QuietKept DEF vars, deal, handler, Advances
<1> QED
  BY <1>1, <1>2, <1>3, <1>4, <1>5, <1>6, <1>7, <1>8, <1>9, <1>12, <1>13,
     <1>14, <1>15, <1>16, <1>17, <1>18, <1>19, <1>20,
     <1>21
  DEF Next, RunnerStep, HandlerStep, ConfigStep

(* Faults are not undone.                                                  *)
LEMMA FaultsAreCounted ==
  ASSUME TypeOK, [Next]_vars, Faultless'
  PROVE  Faultless
<1>1. crashes \in Nat /\ errors \in Nat
  BY DealPipelineAssumption DEF TypeOK
<1>2. /\ crashes' \in {crashes, crashes + 1}
      /\ errors' \in {errors, errors + 1}
  BY DEF Next, RunnerStep, HandlerStep, ConfigStep, vars, bounds, Ingest,
         AdminRetry, AdminDrop, Take, ExtractLoad, ExtractSucceed, ExtractFail,
         ScoreLoadDeal, ScoreLoadConfig, ScoreCommit, HandlerError, Succeed,
         Fail, Crash, Recover, ConfigOpen, ConfigLoad, ConfigSkip,
         ConfigScore, ConfigCommit, ConfigAbort, DecideLoad, DecideCommit,
         DecideAbort
<1>3. /\ crashes' \in Nat /\ errors' \in Nat
      /\ crashes <= crashes' /\ errors <= errors'
  BY <1>1, <1>2
<1> QED
  BY <1>1, <1>3 DEF Faultless

(* The document's invariant 4 holds as far as redeliveries go: a dead      *)
(* letter that leaves its deal EXTRACTED needs a death or an exception.    *)
(* Configs created between the two transactions of handle_extraction make  *)
(* the second raise, but only on deals they have scored.                   *)
THEOREM OnlyFaultsStrandDeals == Spec => []StrandingNeedsAFault
<1> DEFINE Inv == Slots /\ Fed /\ (Faultless => Quiet)
<1>1. Init => Inv
  BY SlotsInit, FedInit, QuietInit
<1>2. Inv /\ [Next]_vars => Inv'
  <2> SUFFICES ASSUME Inv, [Next]_vars PROVE Inv'
    OBVIOUS
  <2>1. Slots' /\ Fed'
    BY SlotsStep, FedStep
  <2>2. ASSUME Faultless' PROVE Quiet'
    <3>1. Faultless
      BY <2>2, FaultsAreCounted DEF Slots, Sound
    <3> QED
      BY <2>2, <3>1, QuietStep
  <2> QED
    BY <2>1, <2>2
<1>3. Inv => StrandingNeedsAFault
  BY DEF StrandingNeedsAFault, RedeliveryIsHarmless, Faultless, Quiet,
         JobQuiet, Scored
<1> HIDE DEF Inv
<1> QED
  BY <1>1, <1>2, <1>3, PTL DEF Spec

-----------------------------------------------------------------------------
(* The declared state machine, while the config does not change.           *)

(* Only the first transaction of a handler makes a deal EXTRACTED.         *)
LEMMA OnlyExtractionExtracts ==
  ASSUME TypeOK, Next, NEW d \in Deals,
         status[d] # "EXTRACTED", status'[d] = "EXTRACTED"
  PROVE  \E r \in Runners : stage[r] = "extracting" /\ d = DealOf(r)
<1>1. ASSUME NEW r \in Runners, ExtractSucceed(r)
      PROVE  stage[r] = "extracting" /\ d = DealOf(r)
  BY <1>1 DEF ExtractSucceed, SetStatus, TypeOK
<1>2. ASSUME UNCHANGED status PROVE FALSE
  BY <1>2
<1>3. ASSUME NEW e, NEW b, NEW st, st # "EXTRACTED", SetStatus(e, b, st)
      PROVE  FALSE
  BY <1>3 DEF SetStatus, TypeOK
<1>4. ASSUME NEW e \in Deals, NEW j \in Jobs, Ingest(e, j) PROVE FALSE
  BY <1>4 DEF Ingest, TypeOK
<1>5. ASSUME NEW r \in Runners,
             \/ ExtractFail(r) \/ ScoreCommit(r)
      PROVE  FALSE
  BY <1>3, <1>5 DEF ExtractFail, ScoreCommit
<1>6. ASSUME NEW a \in Analysts, DecideCommit(a) PROVE FALSE
  BY <1>3, <1>6 DEF DecideCommit
<1>7. CASE ConfigCommit
  BY <1>7 DEF ConfigCommit, TypeOK
<1> QED
  BY <1>1, <1>2, <1>4, <1>5, <1>6, <1>7
  DEF Next, RunnerStep, HandlerStep, ConfigStep, deal, AdminRetry, AdminDrop,
      Take, ExtractLoad, ScoreLoadDeal, ScoreLoadConfig, HandlerError, Succeed,
      Fail, Crash, Recover, ConfigOpen, ConfigLoad, ConfigSkip, ConfigScore,
      ConfigAbort, DecideLoad, DecideAbort

(* Without a fault a handler that extracts has an UPLOADED deal.           *)
LEMMA ForwardStep ==
  ASSUME TypeOK, Faultless => Quiet, Next, NEW d \in Deals, Moves(d)
  PROVE  Forward(d)
<1>1. ASSUME status[d] = "FAILED", status'[d] = "EXTRACTED", Faultless
      PROVE  FALSE
  <2>1. PICK r \in Runners : stage[r] = "extracting" /\ d = DealOf(r)
    BY <1>1, OnlyExtractionExtracts
  <2> QED
    BY <1>1, <2>1 DEF Quiet, HandlerQuiet
<1>2. ~Faultless => crashes + errors > 0
  BY DealPipelineAssumption DEF Faultless, TypeOK
<1> QED
  BY <1>1, <1>2 DEF Forward, Moves, Made, Reextracted

(* deals.status only makes the transitions that enums.py declares, and the *)
(* re-extraction of a FAILED deal when a fault has made its job come       *)
(* again; the audit row of each names what was there.  No blind write by   *)
(* primary key undoes another's, while the config does not change.         *)
THEOREM StatusesMoveForward ==
  ASSUME FixedConfig
  PROVE  Spec => StatusMovesForward
<1> DEFINE Inv == Apart /\ ScoresHold /\ Slots /\ Fed /\ (Faultless => Quiet)
<1>1. Init => Inv
  BY FixedInit, SlotsInit, FedInit, QuietInit
<1>2. Inv /\ [Next]_vars => Inv' /\ [\A d \in Deals : Forward(d)]_vars
  <2> SUFFICES ASSUME Inv, [Next]_vars
               PROVE  Inv' /\ [\A d \in Deals : Forward(d)]_vars
    OBVIOUS
  <2>1. /\ Apart' /\ ScoresHold' /\ Slots' /\ Fed'
        /\ \A d \in Deals : Moves(d)
    BY FixedStep, SlotsStep, FedStep DEF Slots
  <2>2. ASSUME Faultless' PROVE Quiet'
    <3>1. Faultless
      BY <2>2, FaultsAreCounted DEF Slots, Sound
    <3> QED
      BY <2>2, <3>1, QuietStep
  <2>3. ASSUME Next, NEW d \in Deals PROVE Forward(d)
    BY <2>1, <2>3, ForwardStep DEF Slots, Sound
  <2> QED
    BY <2>1, <2>2, <2>3
<1> HIDE DEF Inv
<1> QED
  BY <1>1, <1>2, PTL DEF Spec, StatusMovesForward
=============================================================================
