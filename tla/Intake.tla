-------------------------------- MODULE Intake --------------------------------
(***************************************************************************)
(* What the users of one tenant put in: documents and criteria configs     *)
(* (src/app/api/deals.py, api/criteria.py, input_validation,               *)
(* services/ingestion_service.py, models/deal.py, models/criteria.py).     *)
(*                                                                         *)
(* Both requests read, decide and insert without locks, at READ COMMITTED; *)
(* what keeps them apart is a unique constraint, (tenant, content hash) or *)
(* (tenant, version).  An insert waits while another open transaction has  *)
(* inserted the same key, and fails once that one has committed.  Files    *)
(* are written to disk, outside any transaction, and the answer leaves     *)
(* before get_db() commits: FastAPI runs what follows the yield of a       *)
(* dependency after the response.                                          *)
(***************************************************************************)
EXTENDS Naturals

CONSTANTS
    Clients,        \* requests that can be in progress at once
    Contents,       \* the bytes of documents
    Ids,            \* deal ids
    NoId, NoContent,
    Partial,        \* what a write that fails half way leaves
    Uploads,        \* the upload requests that can arrive
    MaxVersions,    \* bound: criteria configs
    MaxFaults       \* bound: failed writes, commits and process deaths

(* A content is told apart by what the checks ask of it. *)
Traits == [size : {"empty", "fits", "too large"}, magic : BOOLEAN,
           pdf : {"fine", "unreadable", "encrypted", "too long", "scripted"},
           hash : Nat]

ASSUME IntakeAssumption ==
    /\ Contents \subseteq Traits
    /\ Uploads \subseteq [content : Contents,
                          declared : {"application/pdf", "Application/PDF",
                                      "text/plain", "none"},
                          suffix : {".pdf", "other"}]
    /\ NoId \notin Ids
    /\ NoContent \notin Contents
    /\ Partial \notin Contents \cup {NoContent}
    /\ MaxVersions \in Nat
    /\ MaxFaults \in Nat

VARIABLES
    disk,           \* uploads/<deal id>: the content of the file, if any
    deals,          \* the deals table: id to content, NoContent for no row
    jobs,           \* ids whose extraction job is in the queue
    configs,        \* versions in criteria_configs
    active,         \* those with is_active
    call,           \* per client: its request
    reply,          \* per client: the last answer it was given
    lost,           \* ids of uploads that failed or were cut off
    faults

records == <<disk, deals, jobs>>
versions == <<configs, active>>
vars == <<records, versions, call, reply, lost, faults>>

-----------------------------------------------------------------------------

Steps == {"idle",
          "new", "stored", "inserted", "accepted",      \* an upload
          "numbered", "updating", "updated", "written", \* a config
          "created"}

(* The steps at which the answer has left but nothing is committed. *)
Answered == {"accepted", "created"}

(* version, saw and locks: the number a config request will take, the      *)
(* active configs its UPDATE found, and those it has made inactive.        *)
NoCall == [step |-> "idle", content |-> NoContent, id |-> NoId, version |-> 0,
           saw |-> {}, locks |-> {}]

NoReply == [kind |-> "none", content |-> NoContent, id |-> NoId]

Versions == 1 .. MaxVersions

TypeOK ==
    /\ disk \in [Ids -> Contents \cup {NoContent, Partial}]
    /\ deals \in [Ids -> Contents \cup {NoContent}]
    /\ jobs \subseteq Ids
    /\ configs \subseteq Versions
    /\ active \subseteq configs
    /\ call \in [Clients -> [step : Steps, content : Contents \cup {NoContent},
                             id : Ids \cup {NoId}, version : 0 .. MaxVersions,
                             saw : SUBSET Versions, locks : SUBSET Versions]]
    /\ reply \in [Clients -> [kind : {"none", "accepted", "duplicate",
                                      "refused", "created", "error"},
                              content : Contents \cup {NoContent},
                              id : Ids \cup {NoId}]]
    /\ lost \subseteq Ids
    /\ faults \in 0 .. MaxFaults

Init ==
    /\ disk = [i \in Ids |-> NoContent]
    /\ deals = [i \in Ids |-> NoContent]
    /\ jobs = {}
    /\ configs = {}
    /\ active = {}
    /\ call = [c \in Clients |-> NoCall]
    /\ reply = [c \in Clients |-> NoReply]
    /\ lost = {}
    /\ faults = 0

-----------------------------------------------------------------------------
(* The checks of an upload: size, declared type and magic bytes            *)
(* (validate_file), structure (validate_pdf), then file suffix, content    *)
(* type as it was sent and emptiness (ingest_deal).                        *)

FileChecked(u) ==
    /\ u.content.size # "too large"
    /\ u.declared \in {"application/pdf", "Application/PDF"}
    /\ u.content.magic

PdfChecked(u) == u.content.pdf = "fine"

TypeChecked(u) ==
    /\ u.suffix = ".pdf"
    /\ u.declared \in {"application/pdf", "none"}

Acceptable(u) ==
    /\ FileChecked(u)
    /\ PdfChecked(u)
    /\ TypeChecked(u)
    /\ u.content.size # "empty"

(* Deals of the same bytes, and so of the same content hash. *)
Matching(content) == {i \in Ids : deals[i] = content}

Open(c) == call[c].step # "idle"

(* Ids are drawn at random: one that no file, deal or open request has.    *)
Fresh ==
    {i \in Ids : /\ disk[i] = NoContent
                 /\ deals[i] = NoContent
                 /\ \A c \in Clients : call[c].id # i}

(* A request that ends without having written anything.                    *)
Answer(c, kind, content, id) ==
    /\ reply' = [reply EXCEPT ![c] = [kind |-> kind, content |-> content,
                                      id |-> id]]
    /\ UNCHANGED call

(* A new request takes the place of the last one of its client. *)
Begin(c, request) ==
    /\ ~Open(c)
    /\ call' = [call EXCEPT ![c] = request]
    /\ reply' = [reply EXCEPT ![c] = NoReply]

Advance(c, step) == call' = [call EXCEPT ![c].step = step]

-----------------------------------------------------------------------------
(* POST /deals/upload *)

Refuse(c) ==
    /\ ~Open(c)
    /\ \E u \in Uploads : ~Acceptable(u)
    /\ Answer(c, "refused", NoContent, NoId)
    /\ UNCHANGED <<records, versions, lost, faults>>

(* _check_duplicate() *)
FindDuplicate(c, u) ==
    /\ ~Open(c)
    /\ Acceptable(u)
    /\ \E i \in Matching(u.content) : Answer(c, "duplicate", u.content, i)
    /\ UNCHANGED <<records, versions, lost, faults>>

(* A mistaken variant: the file is written before the duplicate is looked  *)
(* for.                                                                    *)
StartUploadStores(c, u, i) ==
    /\ ~Open(c)
    /\ Acceptable(u)
    /\ i \in Fresh
    /\ disk' = [disk EXCEPT ![i] = u.content]
    /\ IF Matching(u.content) = {}
       THEN Begin(c, [NoCall EXCEPT !.step = "new", !.content = u.content,
                                    !.id = i])
       ELSE \E k \in Matching(u.content) : Answer(c, "duplicate", u.content, k)
    /\ UNCHANGED <<deals, jobs, versions, lost, faults>>

StartUpload(c, u, i) ==
    /\ Acceptable(u)
    /\ Matching(u.content) = {}
    /\ i \in Fresh
    /\ Begin(c, [NoCall EXCEPT !.step = "new", !.content = u.content, !.id = i])
    /\ UNCHANGED <<records, versions, lost, faults>>

(* _store_file() *)
StoreFile(c) ==
    /\ call[c].step = "new"
    /\ disk' = [disk EXCEPT ![call[c].id] = call[c].content]
    /\ Advance(c, "stored")
    /\ UNCHANGED <<deals, jobs, versions, reply, lost, faults>>

(* A mistaken variant: the transaction is left open.                       *)
FailKeepsLocks(c) ==
    /\ call' = [call EXCEPT ![c] = [NoCall EXCEPT !.locks = call[c].locks]]
    /\ reply' = [reply EXCEPT ![c] = [NoReply EXCEPT !.kind = "error"]]
    /\ lost' = lost \cup ({call[c].id} \ {NoId})
    /\ UNCHANGED <<deals, jobs, versions>>

(* The request fails: get_db() rolls back, the file stays, and so does an  *)
(* answer that has left.                                                   *)
Fail(c) ==
    /\ call' = [call EXCEPT ![c] = NoCall]
    /\ reply' = IF call[c].step \in Answered THEN reply
                ELSE [reply EXCEPT ![c] = [NoReply EXCEPT !.kind = "error"]]
    /\ lost' = lost \cup ({call[c].id} \ {NoId})
    /\ UNCHANGED <<deals, jobs, versions>>

(* The disk is full half way through the file. *)
StoreFails(c) ==
    /\ call[c].step = "new"
    /\ faults < MaxFaults
    /\ faults' = faults + 1
    /\ disk' = [disk EXCEPT ![call[c].id] = Partial]
    /\ Fail(c)

(* The unique index on (tenant, content hash): nobody else has inserted    *)
(* this content and not yet committed.                                     *)
KeyFree(c) ==
    \A o \in Clients \ {c} :
        ~(/\ call[o].step \in {"inserted", "accepted"}
          /\ call[o].content = call[c].content)

(* Mistaken variants: no constraint in the database, and a deal inserted   *)
(* before its file is written.                                             *)
InsertDealUnchecked(c) ==
    /\ call[c].step = "stored"
    /\ Advance(c, "inserted")
    /\ UNCHANGED <<records, versions, reply, lost, faults>>

InsertDealEarly(c) ==
    /\ call[c].step \in {"new", "stored"}
    /\ KeyFree(c)
    /\ Matching(call[c].content) = {}
    /\ Advance(c, "inserted")
    /\ UNCHANGED <<records, versions, reply, lost, faults>>

(* The flush of the deal and its audit row, and enqueue() of its job.      *)
InsertDeal(c) ==
    /\ call[c].step = "stored"
    /\ KeyFree(c)
    /\ Matching(call[c].content) = {}
    /\ Advance(c, "inserted")
    /\ UNCHANGED <<records, versions, reply, lost, faults>>

(* A mistaken variant: the conflict is answered with the request's own id. *)
InsertConflictOwnId(c) ==
    /\ call[c].step = "stored"
    /\ KeyFree(c)
    /\ Matching(call[c].content) # {}
    /\ Answer(c, "duplicate", call[c].content, call[c].id)
    /\ UNCHANGED <<records, versions, lost, faults>>

(* The IntegrityError is not caught: the second of two uploads of one      *)
(* document fails.                                                         *)
InsertConflict(c) ==
    /\ call[c].step = "stored"
    /\ KeyFree(c)
    /\ Matching(call[c].content) # {}
    /\ Fail(c)
    /\ UNCHANGED <<disk, faults>>

(* The 202 leaves ... *)
AcceptUpload(c) ==
    /\ call[c].step = "inserted"
    /\ reply' = [reply EXCEPT ![c] = [kind |-> "accepted",
                                      content |-> call[c].content,
                                      id |-> call[c].id]]
    /\ Advance(c, "accepted")
    /\ UNCHANGED <<records, versions, lost, faults>>

(* ... and then the transaction commits. *)
CommitUpload(c) ==
    /\ call[c].step = "accepted"
    /\ deals' = [deals EXCEPT ![call[c].id] = call[c].content]
    /\ jobs' = jobs \cup {call[c].id}
    /\ call' = [call EXCEPT ![c] = NoCall]
    /\ UNCHANGED <<disk, versions, reply, lost, faults>>

-----------------------------------------------------------------------------
(* POST /criteria/config *)

(* Pydantic refuses a body without criteria, with an unknown operator or   *)
(* with a weight outside 0 .. 1; it does not look into target_value.       *)
RefuseConfig(c) ==
    /\ ~Open(c)
    /\ Answer(c, "refused", NoContent, NoId)
    /\ UNCHANGED <<records, versions, lost, faults>>

(* _get_latest_version() *)
Latest == IF configs = {} THEN 0
          ELSE CHOOSE v \in configs : \A w \in configs : w <= v

ReadVersion(c) ==
    /\ Latest < MaxVersions
    /\ Begin(c, [NoCall EXCEPT !.step = "numbered", !.version = Latest + 1])
    /\ UNCHANGED <<records, versions, lost, faults>>

(* UPDATE ... SET is_active = FALSE: it finds the rows active as it starts *)
(* ...                                                                     *)
StartUpdate(c) ==
    /\ call[c].step = "numbered"
    /\ call' = [call EXCEPT ![c] = [@ EXCEPT !.step = "updating",
                                             !.saw = active]]
    /\ UNCHANGED <<records, versions, reply, lost, faults>>

(* ... waits for those another transaction has locked, and changes the     *)
(* ones that are still active.                                             *)
FinishUpdate(c) ==
    /\ call[c].step = "updating"
    /\ \A o \in Clients \ {c} : call[o].locks \cap call[c].saw = {}
    /\ call' = [call EXCEPT ![c] = [@ EXCEPT !.step = "updated",
                                             !.locks = call[c].saw \cap active]]
    /\ UNCHANGED <<records, versions, reply, lost, faults>>

VersionFree(c) ==
    \A o \in Clients \ {c} :
        ~(/\ call[o].step \in {"written", "created"}
          /\ call[o].version = call[c].version)

(* A mistaken variant: a taken version is replaced by the next one, after  *)
(* the UPDATE.                                                             *)
InsertConfigRenumbered(c) ==
    /\ call[c].step = "updated"
    /\ VersionFree(c)
    /\ call' = [call EXCEPT ![c].step = "written",
                            ![c].version = IF call[c].version \in configs
                                           THEN Latest + 1 ELSE @]
    /\ UNCHANGED <<records, versions, reply, lost, faults>>

(* The config and its criteria; re-scoring follows (DealPipeline). *)
InsertConfig(c) ==
    /\ call[c].step = "updated"
    /\ VersionFree(c)
    /\ call[c].version \notin configs
    /\ Advance(c, "written")
    /\ UNCHANGED <<records, versions, reply, lost, faults>>

VersionConflict(c) ==
    /\ call[c].step = "updated"
    /\ VersionFree(c)
    /\ call[c].version \in configs
    /\ Fail(c)
    /\ UNCHANGED <<disk, faults>>

(* The 201 leaves ... *)
AnswerConfig(c) ==
    /\ call[c].step = "written"
    /\ reply' = [reply EXCEPT ![c] = [NoReply EXCEPT !.kind = "created"]]
    /\ Advance(c, "created")
    /\ UNCHANGED <<records, versions, lost, faults>>

(* ... and then the transaction commits. *)
CommitConfig(c) ==
    /\ call[c].step = "created"
    /\ configs' = configs \cup {call[c].version}
    /\ active' = (active \ call[c].locks) \cup {call[c].version}
    /\ call' = [call EXCEPT ![c] = NoCall]
    /\ UNCHANGED <<records, reply, lost, faults>>

-----------------------------------------------------------------------------

(* A statement or the commit fails. *)
DatabaseError(c) ==
    /\ Open(c)
    /\ faults < MaxFaults
    /\ faults' = faults + 1
    /\ Fail(c)
    /\ UNCHANGED disk

(* The process dies: every open transaction is rolled back, and no one is  *)
(* answered any more.                                                      *)
Crash ==
    /\ \E c \in Clients : Open(c)
    /\ faults < MaxFaults
    /\ faults' = faults + 1
    /\ call' = [c \in Clients |-> NoCall]
    /\ lost' = lost \cup ({call[c].id : c \in Clients} \ {NoId})
    /\ UNCHANGED <<records, versions, reply>>

UploadStep(c) ==
    \/ StoreFile(c)
    \/ InsertDeal(c)
    \/ InsertConflict(c)
    \/ AcceptUpload(c)
    \/ CommitUpload(c)

ConfigStep(c) ==
    \/ StartUpdate(c)
    \/ FinishUpdate(c)
    \/ InsertConfig(c)
    \/ VersionConflict(c)
    \/ AnswerConfig(c)
    \/ CommitConfig(c)

Request(c) ==
    \/ Refuse(c)
    \/ \E u \in Uploads : FindDuplicate(c, u) \/ \E i \in Ids : StartUpload(c, u, i)
    \/ RefuseConfig(c)
    \/ ReadVersion(c)

Next ==
    \/ \E c \in Clients :
         \/ Request(c)
         \/ UploadStep(c)
         \/ ConfigStep(c)
         \/ StoreFails(c)
         \/ DatabaseError(c)
    \/ Crash

Spec == Init /\ [][Next]_vars

(* A request that has been taken in is worked on. *)
FairSpec == Spec /\ \A c \in Clients : WF_vars(UploadStep(c) \/ ConfigStep(c))

-----------------------------------------------------------------------------
(* Properties *)

(* One deal per document, however many uploads of it overlap: the check    *)
(* for a duplicate alone would not do (models/deal.py, uq_deals_...).      *)
OneDealPerDocument ==
    \A i, k \in Ids : deals[i] # NoContent /\ deals[i] = deals[k] => i = k

(* The worker that picks up an extraction job finds its deal, and the file *)
(* of that deal holds what was uploaded, checked and whole.                *)
DealsAreComplete ==
    \A i \in Ids :
        /\ deals[i] # NoContent <=> i \in jobs
        /\ deals[i] # NoContent =>
             /\ disk[i] = deals[i]
             /\ deals[i].size = "fits" /\ deals[i].magic /\ deals[i].pdf = "fine"

(* A file without a deal is the trace of an upload that failed or was cut  *)
(* off; duplicates and refused documents leave none.                       *)
OrphansAreFailures ==
    \A i \in Ids :
        /\ disk[i] # NoContent
        /\ deals[i] = NoContent
        /\ \A c \in Clients : call[c].id # i
        => i \in lost

(* What a client was told stays true: the deal it was given is there and   *)
(* is the document it sent, at the latest when the request is over.  What  *)
(* can still go wrong is the commit after the 202, and nothing else.       *)
RepliesAreTrue ==
    \A c \in Clients :
        LET i == reply[c].id
        IN  reply[c].kind \in {"accepted", "duplicate"} =>
              /\ i \in Ids
              /\ \/ deals[i] = reply[c].content
                 \/ /\ reply[c].kind = "accepted"
                    /\ deals[i] = NoContent
                    /\ IF Open(c) THEN call[c].id = i ELSE i \in lost

(* Once there is a config exactly one is active, and it is the newest,     *)
(* whichever requests overlapped and failed; versions have no gap.         *)
NewestConfigIsActive ==
    /\ active = IF configs = {} THEN {} ELSE {Latest}
    /\ \A v \in configs : \A w \in Versions : w < v => w \in configs

(* Every request ends: waits on rows and index entries never become a      *)
(* circle.                                                                 *)
EveryRequestEnds == \A c \in Clients : Open(c) ~> ~Open(c)
=============================================================================
