----------------------------- MODULE IntakeProofs -----------------------------
(***************************************************************************)
(* Proofs about Intake for any number of requests, documents, ids and      *)
(* configs: the unique constraints keep documents and versions apart       *)
(* although every request decides on what it read before.                  *)
(***************************************************************************)
EXTENDS Intake, TLAPS

USE IntakeAssumption

Sound(content) ==
    /\ content \in Contents
    /\ content.size = "fits"
    /\ content.magic
    /\ content.pdf = "fine"

(* What an upload in progress may rely on: its id is its own and has no    *)
(* deal yet, its file stays as it was written, and once it has inserted    *)
(* its deal nobody else inserts one of the same content.                   *)
Uploading == {"new", "stored", "inserted", "accepted"}
Holding == {"inserted", "accepted"}

UploadInv ==
    /\ \A c \in Clients :
         /\ call[c].step \in Uploading =>
              /\ call[c].id \in Ids
              /\ Sound(call[c].content)
              /\ deals[call[c].id] = NoContent
         /\ call[c].step \notin Uploading => call[c].id = NoId
         /\ call[c].step \in Uploading \ {"new"} =>
              disk[call[c].id] = call[c].content
         /\ call[c].step \in Holding => Matching(call[c].content) = {}
    /\ \A c, o \in Clients :
         c # o =>
           /\ call[c].id # NoId => call[c].id # call[o].id
           /\ call[c].step \in Holding /\ call[o].step \in Holding
                => call[c].content # call[o].content

(* What a request was answered: an answer given before the commit names    *)
(* the upload that is being committed, and no other request ever gets its  *)
(* id.                                                                     *)
Promising == {"accepted", "duplicate"}

ReplyFits(c) ==
    LET i == reply[c].id
    IN  /\ call[c].step = "accepted" =>
             reply[c] = [kind |-> "accepted", content |-> call[c].content,
                         id |-> call[c].id]
        /\ Open(c) /\ call[c].step # "accepted" =>
             reply[c].kind \notin Promising
        /\ reply[c].kind = "duplicate" =>
             /\ i \in Ids
             /\ reply[c].content \in Contents
             /\ deals[i] = reply[c].content
        /\ reply[c].kind = "accepted" =>
             /\ i \in Ids
             /\ reply[c].content \in Contents
             /\ disk[i] # NoContent
             /\ \A o \in Clients \ {c} : call[o].id # i
             /\ \/ deals[i] = reply[c].content
                \/ /\ deals[i] = NoContent
                   /\ call[c].step # "accepted" => ~Open(c) /\ i \in lost

ReplyInv == \A c \in Clients : ReplyFits(c)

(* The versions are 1 .. n and the newest is active.  A config request has *)
(* taken n + 1 or a version that is already there; if it has taken n + 1,  *)
(* nothing has changed since, and it has locked the active row.            *)
Configuring == {"numbered", "updating", "updated", "written", "created"}
Writing == {"written", "created"}

Taken(n, c) ==
    /\ call[c].step \in Configuring => call[c].version \in 1 .. n + 1
    /\ call[c].step \notin Configuring => call[c].version = 0
    /\ call[c].version = n + 1 =>
         /\ call[c].step \in Configuring \ {"numbered"} => call[c].saw = active
         /\ call[c].step \in {"updated", "written", "created"} =>
               call[c].locks = active
    /\ call[c].step \in Writing => call[c].version = n + 1

ConfigsAre(n) ==
    /\ configs = 1 .. n
    /\ active = IF n = 0 THEN {} ELSE {n}
    /\ \A c \in Clients : Taken(n, c)
    /\ \A c, o \in Clients :
         call[c].step \in Writing /\ call[o].step \in Writing => c = o

ConfigInv == \E n \in 0 .. MaxVersions : ConfigsAre(n)

IInv ==
    /\ TypeOK
    /\ UploadInv
    /\ ReplyInv
    /\ ConfigInv
    /\ OneDealPerDocument
    /\ DealsAreComplete

-----------------------------------------------------------------------------
(* The newest version is the largest. *)

LEMMA LatestIs ==
    ASSUME NEW n \in Nat, configs = 1 .. n
    PROVE  Latest = n
<1>1. CASE n = 0
  BY <1>1 DEF Latest
<1>2. CASE n # 0
  <2>1. n \in configs /\ \A w \in configs : w <= n
    BY <1>2
  <2>2. \A v \in configs : (\A w \in configs : w <= v) => v = n
    BY <2>1
  <2>3. Latest = CHOOSE v \in configs : \A w \in configs : w <= v
    BY <2>1 DEF Latest
  <2>. QED
    BY <2>1, <2>2, <2>3
<1>. QED
  BY <1>1, <1>2

-----------------------------------------------------------------------------
(* Types *)

RepliesType == [kind : {"none", "accepted", "duplicate", "refused", "created",
                        "error"},
                content : Contents \cup {NoContent}, id : Ids \cup {NoId}]

CallType == [step : Steps, content : Contents \cup {NoContent},
             id : Ids \cup {NoId}, version : 0 .. MaxVersions,
             saw : SUBSET Versions, locks : SUBSET Versions]

LEMMA NoCallType == NoCall \in CallType /\ NoReply \in RepliesType
BY DEF NoCall, NoReply, CallType, RepliesType, Steps, Versions

LEMMA FailType ==
    ASSUME TypeOK, NEW c \in Clients, Fail(c)
    PROVE  /\ call' \in [Clients -> CallType]
           /\ reply' \in [Clients -> RepliesType]
           /\ lost' \subseteq Ids
           /\ UNCHANGED <<deals, jobs, configs, active>>
<1>1. [NoReply EXCEPT !.kind = "error"] \in RepliesType
  BY NoCallType DEF RepliesType
<1>2. call[c].id \in Ids \cup {NoId}
  BY DEF TypeOK
<1>. QED
  BY <1>1, <1>2, NoCallType DEF Fail, TypeOK, versions, CallType, RepliesType

(* Every action gives the variables values of their types. *)
LEMMA TypeStep ==
    ASSUME TypeOK, UploadInv, ConfigInv, [Next]_vars
    PROVE  TypeOK'
<1>. DEFINE Rest == /\ disk' \in [Ids -> Contents \cup {NoContent, Partial}]
                   /\ deals' \in [Ids -> Contents \cup {NoContent}]
                   /\ jobs' \subseteq Ids
                   /\ configs' \subseteq Versions
                   /\ active' \subseteq configs'
                   /\ lost' \subseteq Ids
                   /\ faults' \in 0 .. MaxFaults
<1>a. ASSUME Rest, call' \in [Clients -> CallType],
             reply' \in [Clients -> RepliesType]
      PROVE  TypeOK'
  BY <1>a DEF TypeOK, CallType, RepliesType
<1>b. call \in [Clients -> CallType] /\ reply \in [Clients -> RepliesType]
  BY DEF TypeOK, CallType, RepliesType
<1>c. ASSUME NEW c \in Clients, NEW step \in Steps, Advance(c, step)
      PROVE  call' \in [Clients -> CallType]
  BY <1>b, <1>c DEF Advance, CallType
<1>d. active \in SUBSET Versions
      /\ \A saw \in SUBSET Versions : saw \cap active \in SUBSET Versions
  BY DEF TypeOK
<1>1. ASSUME NEW c \in Clients, Request(c)
      PROVE  TypeOK'
  <2>1. CASE Refuse(c) \/ RefuseConfig(c)
    <3>1. Rest
      BY <2>1 DEF Refuse, RefuseConfig, TypeOK, records, versions
    <3>2. [kind |-> "refused", content |-> NoContent, id |-> NoId]
             \in RepliesType
      BY DEF RepliesType
    <3>. QED
      BY <1>a, <1>b, <2>1, <3>1, <3>2 DEF Refuse, RefuseConfig, Answer
  <2>2. ASSUME NEW u \in Uploads, FindDuplicate(c, u)
        PROVE  TypeOK'
    <3>1. Rest
      BY <2>2 DEF FindDuplicate, TypeOK, records, versions
    <3>2. PICK i \in Matching(u.content) : Answer(c, "duplicate", u.content, i)
      BY <2>2 DEF FindDuplicate
    <3>3. [kind |-> "duplicate", content |-> u.content, id |-> i]
             \in RepliesType
      BY DEF Matching, RepliesType
    <3>. QED
      BY <1>a, <1>b, <3>1, <3>2, <3>3 DEF Answer
  <2>3. ASSUME NEW u \in Uploads, NEW i \in Ids, StartUpload(c, u, i)
        PROVE  TypeOK'
    <3>1. Rest
      BY <2>3 DEF StartUpload, TypeOK, records, versions
    <3>2. [NoCall EXCEPT !.step = "new", !.content = u.content, !.id = i]
             \in CallType
      BY NoCallType DEF Steps, CallType
    <3>. QED
      BY <1>a, <1>b, <2>3, <3>1, <3>2, NoCallType DEF StartUpload, Begin
  <2>4. CASE ReadVersion(c)
    <3>1. Rest
      BY <2>4 DEF ReadVersion, TypeOK, records, versions
    <3>2. PICK n \in 0 .. MaxVersions : configs = 1 .. n
      BY DEF ConfigInv, ConfigsAre
    <3>3. Latest = n
      BY <3>2, LatestIs
    <3>4. Latest + 1 \in 0 .. MaxVersions
      BY <2>4, <3>2, <3>3 DEF ReadVersion
    <3>5. [NoCall EXCEPT !.step = "numbered", !.version = Latest + 1]
             \in CallType
      BY <3>4, NoCallType DEF Steps, CallType
    <3>. QED
      BY <1>a, <1>b, <2>4, <3>1, <3>5, NoCallType DEF ReadVersion, Begin
  <2>. QED
    BY <1>1, <2>1, <2>2, <2>3, <2>4 DEF Request
<1>2. ASSUME NEW c \in Clients, UploadStep(c)
      PROVE  TypeOK'
  <2>1. CASE StoreFile(c)
    <3>1. Rest
      BY <2>1 DEF StoreFile, TypeOK, versions
    <3>. QED
      BY <1>a, <1>b, <1>c, <2>1, <3>1 DEF StoreFile, Steps
  <2>2. CASE InsertDeal(c)
    <3>1. Rest
      BY <2>2 DEF InsertDeal, TypeOK, records, versions
    <3>. QED
      BY <1>a, <1>b, <1>c, <2>2, <3>1 DEF InsertDeal, Steps
  <2>3. CASE InsertConflict(c)
    BY <1>a, <2>3, FailType DEF InsertConflict, TypeOK
  <2>4. CASE AcceptUpload(c)
    <3>1. Rest
      BY <2>4 DEF AcceptUpload, TypeOK, records, versions
    <3>2. [kind |-> "accepted", content |-> call[c].content,
           id |-> call[c].id] \in RepliesType
      BY <1>b DEF RepliesType, CallType
    <3>. QED
      BY <1>a, <1>b, <1>c, <2>4, <3>1, <3>2 DEF AcceptUpload, Steps
  <2>5. CASE CommitUpload(c)
    <3>1. call[c].id \in Ids /\ call[c].content \in Contents
      BY <2>5 DEF CommitUpload, UploadInv, Sound, Uploading
    <3>2. Rest
      BY <2>5, <3>1 DEF CommitUpload, TypeOK, versions
    <3>. QED
      BY <1>a, <1>b, <2>5, <3>2, NoCallType DEF CommitUpload
  <2>. QED
    BY <1>2, <2>1, <2>2, <2>3, <2>4, <2>5 DEF UploadStep
<1>3. ASSUME NEW c \in Clients, ConfigStep(c)
      PROVE  TypeOK'
  <2>1. CASE StartUpdate(c)
    <3>1. Rest
      BY <2>1 DEF StartUpdate, TypeOK, records, versions
    <3>2. [call[c] EXCEPT !.step = "updating", !.saw = active] \in CallType
      BY <1>b, <1>d DEF Steps, CallType
    <3>. QED
      BY <1>a, <1>b, <2>1, <3>1, <3>2 DEF StartUpdate
  <2>2. CASE FinishUpdate(c)
    <3>1. Rest
      BY <2>2 DEF FinishUpdate, TypeOK, records, versions
    <3>2. [call[c] EXCEPT !.step = "updated",
                          !.locks = call[c].saw \cap active] \in CallType
      BY <1>b, <1>d DEF Steps, CallType
    <3>. QED
      BY <1>a, <1>b, <2>2, <3>1, <3>2 DEF FinishUpdate
  <2>3. CASE InsertConfig(c)
    <3>1. Rest
      BY <2>3 DEF InsertConfig, TypeOK, records, versions
    <3>. QED
      BY <1>a, <1>b, <1>c, <2>3, <3>1 DEF InsertConfig, Steps
  <2>4. CASE VersionConflict(c)
    BY <1>a, <2>4, FailType DEF VersionConflict, TypeOK
  <2>5. CASE AnswerConfig(c)
    <3>1. Rest
      BY <2>5 DEF AnswerConfig, TypeOK, records, versions
    <3>2. [NoReply EXCEPT !.kind = "created"] \in RepliesType
      BY NoCallType DEF RepliesType
    <3>. QED
      BY <1>a, <1>b, <1>c, <2>5, <3>1, <3>2 DEF AnswerConfig, Steps
  <2>6. CASE CommitConfig(c)
    <3>1. call[c].version \in Versions
      <4>1. PICK n \in 0 .. MaxVersions : ConfigsAre(n)
        BY DEF ConfigInv
      <4>2. call[c].version \in 1 .. n + 1
        BY <2>6, <4>1 DEF CommitConfig, ConfigsAre, Taken, Configuring
      <4>3. call[c].version \in 0 .. MaxVersions
        BY <1>b DEF CallType
      <4>. QED
        BY <4>2, <4>3 DEF Versions
    <3>2. Rest
      BY <2>6, <3>1 DEF CommitConfig, TypeOK, records
    <3>. QED
      BY <1>a, <1>b, <2>6, <3>2, NoCallType DEF CommitConfig
  <2>. QED
    BY <1>3, <2>1, <2>2, <2>3, <2>4, <2>5, <2>6 DEF ConfigStep
<1>4. ASSUME NEW c \in Clients, StoreFails(c) \/ DatabaseError(c)
      PROVE  TypeOK'
  <2>1. Fail(c)
    BY <1>4 DEF StoreFails, DatabaseError
  <2>2. faults' \in 0 .. MaxFaults
    BY <1>4 DEF StoreFails, DatabaseError, TypeOK
  <2>3. disk' \in [Ids -> Contents \cup {NoContent, Partial}]
    BY <1>4 DEF StoreFails, DatabaseError, TypeOK
  <2>. QED
    BY <1>a, <2>1, <2>2, <2>3, FailType DEF TypeOK
<1>5. CASE Crash
  <2>1. Rest
    BY <1>5, <1>b DEF Crash, TypeOK, records, versions, CallType
  <2>. QED
    BY <1>a, <1>b, <1>5, <2>1, NoCallType DEF Crash
<1>6. CASE UNCHANGED vars
  BY <1>6 DEF vars, records, versions, TypeOK
<1>. QED
  BY <1>1, <1>2, <1>3, <1>4, <1>5, <1>6 DEF Next

-----------------------------------------------------------------------------
(* Uploads *)

(* What a request does to its own call leaves the others as they were.     *)
LEMMA OwnCall ==
    ASSUME TypeOK, NEW c \in Clients, NEW r, call' = [call EXCEPT ![c] = r]
    PROVE  call'[c] = r /\ \A o \in Clients \ {c} : call'[o] = call[o]
BY DEF TypeOK

LEMMA Advanced ==
    ASSUME TypeOK, NEW c \in Clients, NEW step, Advance(c, step)
    PROVE  /\ call'[c].step = step
           /\ call'[c].id = call[c].id
           /\ call'[c].content = call[c].content
           /\ call'[c].version = call[c].version
           /\ call'[c].saw = call[c].saw
           /\ call'[c].locks = call[c].locks
           /\ \A o \in Clients \ {c} : call'[o] = call[o]
BY DEF TypeOK, Advance

(* The content a call holds is that of a checked document. *)
LEMMA UploadInvStep ==
    ASSUME IInv, [Next]_vars
    PROVE  UploadInv'
<1>. USE DEF IInv
<1>n. NoCall.step = "idle" /\ NoCall.id = NoId /\ "idle" \notin Uploading
  BY DEF NoCall, Uploading
<1>d. Holding \subseteq Uploading
  BY DEF Holding, Uploading
<1>q. ASSUME NEW c \in Clients, UNCHANGED <<disk, deals>>,
             call'[c].step \notin Uploading, call'[c].id = NoId,
             \A o \in Clients \ {c} : call'[o] = call[o]
      PROVE  UploadInv'
  BY <1>q, <1>d DEF UploadInv, Matching
<1>e. ASSUME NEW c \in Clients, Fail(c), UNCHANGED disk
      PROVE  UploadInv'
  <2>1. call'[c] = NoCall /\ \A o \in Clients \ {c} : call'[o] = call[o]
    BY <1>e, OwnCall DEF Fail
  <2>. QED
    BY <1>e, <1>n, <1>q, <2>1 DEF Fail
<1>u. ASSUME UNCHANGED <<disk, deals, call>>
      PROVE  UploadInv'
  BY <1>u DEF UploadInv, Matching
<1>1. ASSUME NEW c \in Clients, Refuse(c) \/ RefuseConfig(c)
      PROVE  UploadInv'
  BY <1>1, <1>u DEF Refuse, RefuseConfig, Answer, records
<1>2. ASSUME NEW c \in Clients, NEW u \in Uploads, FindDuplicate(c, u)
      PROVE  UploadInv'
  BY <1>2, <1>u DEF FindDuplicate, Answer, records
<1>3. ASSUME NEW c \in Clients, NEW u \in Uploads, NEW i \in Ids,
             StartUpload(c, u, i)
      PROVE  UploadInv'
  <2>1. /\ call'[c].step = "new"
        /\ call'[c].content = u.content
        /\ call'[c].id = i
        /\ \A o \in Clients \ {c} : call'[o] = call[o]
    <3>. DEFINE r == [NoCall EXCEPT !.step = "new", !.content = u.content,
                                    !.id = i]
    <3>1. call' = [call EXCEPT ![c] = r]
      BY <1>3 DEF StartUpload, Begin
    <3>2. r.step = "new" /\ r.content = u.content /\ r.id = i
      BY DEF NoCall
    <3>. HIDE DEF r
    <3>. QED
      BY <3>1, <3>2, OwnCall
  <2>2. Sound(u.content)
    BY <1>3 DEF StartUpload, Acceptable, FileChecked, PdfChecked, Sound, Traits
  <2>3. /\ deals[i] = NoContent
        /\ \A o \in Clients : call[o].id # i
    BY <1>3 DEF StartUpload, Fresh
  <2>4. UNCHANGED <<disk, deals>>
    BY <1>3 DEF StartUpload, records
  <2>. QED
    BY <2>1, <2>2, <2>3, <2>4 DEF UploadInv, Matching, Uploading, Holding
<1>4. ASSUME NEW c \in Clients, ReadVersion(c)
      PROVE  UploadInv'
  <2>1. /\ call'[c].step = "numbered"
        /\ call'[c].id = NoId
        /\ \A o \in Clients \ {c} : call'[o] = call[o]
    <3>. DEFINE r == [NoCall EXCEPT !.step = "numbered",
                                    !.version = Latest + 1]
    <3>1. call' = [call EXCEPT ![c] = r]
      BY <1>4 DEF ReadVersion, Begin
    <3>2. r.step = "numbered" /\ r.id = NoId
      BY DEF NoCall
    <3>. HIDE DEF r
    <3>. QED
      BY <3>1, <3>2, OwnCall
  <2>. QED
    BY <1>4, <1>q, <2>1 DEF ReadVersion, records, Uploading
<1>5. ASSUME NEW c \in Clients, StoreFile(c)
      PROVE  UploadInv'
  <2>1. Advance(c, "stored") /\ call[c].step = "new" /\ UNCHANGED deals
    BY <1>5 DEF StoreFile
  <2>2. disk' = [disk EXCEPT ![call[c].id] = call[c].content]
    BY <1>5 DEF StoreFile
  <2>3. \A o \in Clients \ {c} : call[o].id # call[c].id
    BY <2>1 DEF UploadInv, Uploading
  <2>4. disk'[call[c].id] = call[c].content
    BY <2>1, <2>2 DEF UploadInv, Uploading, TypeOK
  <2>5. \A o \in Clients \ {c} : disk'[call[o].id] = disk[call[o].id]
    BY <2>2, <2>3 DEF TypeOK
  <2>. QED
    BY <2>1, <2>3, <2>4, <2>5, Advanced
       DEF UploadInv, Uploading, Holding, Matching
<1>6. ASSUME NEW c \in Clients, StoreFails(c)
      PROVE  UploadInv'
  <2>1. call[c].step = "new" /\ UNCHANGED deals
    BY <1>6 DEF StoreFails, Fail
  <2>2. call'[c] = NoCall /\ \A o \in Clients \ {c} : call'[o] = call[o]
    BY <1>6, OwnCall DEF StoreFails, Fail
  <2>3. \A o \in Clients \ {c} : call[o].id # call[c].id
    BY <2>1 DEF UploadInv, Uploading
  <2>4. \A o \in Clients \ {c} : disk'[call[o].id] = disk[call[o].id]
    BY <1>6, <2>3 DEF StoreFails, TypeOK
  <2>. QED
    BY <1>n, <1>d, <2>1, <2>2, <2>4 DEF UploadInv, Matching
<1>7. ASSUME NEW c \in Clients, InsertDeal(c)
      PROVE  UploadInv'
  <2>1. /\ Advance(c, "inserted") /\ call[c].step = "stored"
        /\ Matching(call[c].content) = {}
        /\ UNCHANGED <<disk, deals>>
    BY <1>7 DEF InsertDeal, records
  <2>2. \A o \in Clients \ {c} :
            call[o].step \in Holding => call[o].content # call[c].content
    BY <1>7 DEF InsertDeal, KeyFree, Holding
  <2>. QED
    BY <2>1, <2>2, Advanced DEF UploadInv, Uploading, Holding, Matching
<1>8. ASSUME NEW c \in Clients, AcceptUpload(c)
      PROVE  UploadInv'
  <2>1. /\ Advance(c, "accepted") /\ call[c].step = "inserted"
        /\ UNCHANGED <<disk, deals>>
    BY <1>8 DEF AcceptUpload, records
  <2>. QED
    BY <2>1, Advanced DEF UploadInv, Uploading, Holding, Matching
<1>9. ASSUME NEW c \in Clients, CommitUpload(c)
      PROVE  UploadInv'
  <2>1. /\ call[c].step \in Holding
        /\ deals' = [deals EXCEPT ![call[c].id] = call[c].content]
        /\ UNCHANGED disk
    BY <1>9 DEF CommitUpload, Holding
  <2>2. call'[c] = NoCall /\ \A o \in Clients \ {c} : call'[o] = call[o]
    BY <1>9, OwnCall DEF CommitUpload
  <2>3. \A o \in Clients \ {c} :
            /\ call[o].id # call[c].id
            /\ call[o].step \in Holding => call[o].content # call[c].content
    BY <1>d, <2>1 DEF UploadInv
  <2>4. \A o \in Clients \ {c} : deals'[call[o].id] = deals[call[o].id]
    BY <2>1, <2>3 DEF TypeOK
  <2>5. \A o \in Clients \ {c} :
            call[o].step \in Holding => Matching(call[o].content)' = {}
    BY <2>1, <2>2, <2>3 DEF UploadInv, Matching, TypeOK
  <2>. QED
    BY <1>n, <1>d, <2>1, <2>2, <2>4, <2>5 DEF UploadInv
<1>10. ASSUME NEW c \in Clients, StartUpdate(c) \/ FinishUpdate(c)
       PROVE  UploadInv'
  <2>1. /\ call[c].step \notin Uploading
        /\ UNCHANGED <<disk, deals>>
    BY <1>10 DEF StartUpdate, FinishUpdate, Uploading, records
  <2>2. /\ call'[c].step \notin Uploading
        /\ call'[c].id = call[c].id
        /\ \A o \in Clients \ {c} : call'[o] = call[o]
    <3>1. CASE StartUpdate(c)
      BY <3>1 DEF StartUpdate, Uploading, TypeOK
    <3>2. CASE FinishUpdate(c)
      BY <3>2 DEF FinishUpdate, Uploading, TypeOK
    <3>. QED
      BY <1>10, <3>1, <3>2
  <2>. QED
    BY <1>q, <2>1, <2>2 DEF UploadInv
<1>11. ASSUME NEW c \in Clients, InsertConfig(c) \/ AnswerConfig(c)
       PROVE  UploadInv'
  <2>1. /\ call[c].step \notin Uploading
        /\ UNCHANGED <<disk, deals>>
        /\ Advance(c, "written") \/ Advance(c, "created")
    BY <1>11 DEF InsertConfig, AnswerConfig, Uploading, records
  <2>2. /\ call'[c].step \notin Uploading
        /\ call'[c].id = call[c].id
        /\ \A o \in Clients \ {c} : call'[o] = call[o]
    BY <2>1, Advanced DEF Uploading
  <2>. QED
    BY <1>q, <2>1, <2>2 DEF UploadInv
<1>12. ASSUME NEW c \in Clients, CommitConfig(c)
       PROVE  UploadInv'
  <2>1. call'[c] = NoCall /\ \A o \in Clients \ {c} : call'[o] = call[o]
    BY <1>12, OwnCall DEF CommitConfig
  <2>. QED
    BY <1>12, <1>n, <1>q, <2>1 DEF CommitConfig, records
<1>13. CASE Crash
  <2>1. \A c \in Clients : call'[c] = NoCall
    BY <1>13 DEF Crash
  <2>. QED
    BY <1>n, <1>d, <2>1 DEF UploadInv
<1>14. ASSUME NEW c \in Clients,
              InsertConflict(c) \/ VersionConflict(c) \/ DatabaseError(c)
       PROVE  UploadInv'
  BY <1>14, <1>e DEF InsertConflict, VersionConflict, DatabaseError
<1>15. CASE UNCHANGED vars
  BY <1>15, <1>u DEF vars, records
<1>. QED
  BY <1>1, <1>2, <1>3, <1>4, <1>5, <1>6, <1>7, <1>8, <1>9, <1>10, <1>11,
     <1>12, <1>13, <1>14, <1>15
     DEF Next, Request, UploadStep, ConfigStep

(* The rows and files change only when a file is written, when it cannot   *)
(* be written and when an upload commits.                                  *)
LEMMA RecordChanges ==
    ASSUME TypeOK, [Next]_vars
    PROVE  \/ UNCHANGED records
           \/ \E c \in Clients : StoreFile(c) \/ StoreFails(c) \/ CommitUpload(c)
BY DEF Next, Request, UploadStep, ConfigStep, Refuse, RefuseConfig,
       FindDuplicate, StartUpload, ReadVersion, InsertDeal, InsertConflict,
       AcceptUpload, StartUpdate, FinishUpdate, InsertConfig, VersionConflict,
       AnswerConfig, CommitConfig, DatabaseError, Crash, Fail, vars, records

LEMMA RecordsStep ==
    ASSUME IInv, [Next]_vars
    PROVE  OneDealPerDocument' /\ DealsAreComplete'
<1>. USE DEF IInv
<1>1. CASE UNCHANGED records
  BY <1>1 DEF OneDealPerDocument, DealsAreComplete, records
<1>2. ASSUME NEW c \in Clients, StoreFile(c) \/ StoreFails(c)
      PROVE  OneDealPerDocument' /\ DealsAreComplete'
  <2>1. deals[call[c].id] = NoContent /\ UNCHANGED <<deals, jobs>>
    BY <1>2 DEF StoreFile, StoreFails, Fail, UploadInv, Uploading
  <2>2. \A i \in Ids : i # call[c].id => disk'[i] = disk[i]
    BY <1>2 DEF StoreFile, StoreFails, TypeOK
  <2>. QED
    BY <2>1, <2>2 DEF OneDealPerDocument, DealsAreComplete
<1>3. ASSUME NEW c \in Clients, CommitUpload(c)
      PROVE  OneDealPerDocument' /\ DealsAreComplete'
  <2>1. /\ deals' = [deals EXCEPT ![call[c].id] = call[c].content]
        /\ jobs' = jobs \cup {call[c].id}
        /\ UNCHANGED disk
        /\ call[c].step = "accepted"
    BY <1>3 DEF CommitUpload
  <2>2. /\ Sound(call[c].content)
        /\ Matching(call[c].content) = {}
        /\ disk[call[c].id] = call[c].content
        /\ call[c].id \in Ids
    BY <2>1 DEF UploadInv, Uploading, Holding
  <2>3. call[c].content # NoContent
    BY <2>2 DEF Sound
  <2>4. /\ deals'[call[c].id] = call[c].content
        /\ \A i \in Ids : i # call[c].id => deals'[i] = deals[i]
    BY <2>1, <2>2 DEF TypeOK
  <2>5. OneDealPerDocument'
    BY <2>2, <2>4 DEF OneDealPerDocument, Matching
  <2>6. DealsAreComplete'
    BY <2>1, <2>2, <2>3, <2>4 DEF DealsAreComplete, Sound
  <2>. QED
    BY <2>5, <2>6
<1>. QED
  BY <1>1, <1>2, <1>3, RecordChanges

-----------------------------------------------------------------------------
(* Answers *)

(* A row, once committed, stays; a file is not lost.                       *)
LEMMA RecordsStay ==
    ASSUME IInv, [Next]_vars, NEW i \in Ids
    PROVE  /\ deals[i] # NoContent => deals'[i] = deals[i]
           /\ disk[i] # NoContent => disk'[i] # NoContent
           /\ deals'[i] # deals[i] =>
                \E c \in Clients : CommitUpload(c) /\ call[c].id = i
           /\ i \in lost => i \in lost'
<1>. USE DEF IInv
<1>1. i \in lost => i \in lost'
  BY DEF Next, Request, UploadStep, ConfigStep, Refuse, RefuseConfig, StoreFile,
         FindDuplicate, StartUpload, ReadVersion, InsertDeal, InsertConflict,
         AcceptUpload, CommitUpload, StartUpdate, FinishUpdate, InsertConfig,
         VersionConflict, AnswerConfig, CommitConfig, StoreFails, DatabaseError,
         Crash, Fail, vars
<1>2. CASE UNCHANGED records
  BY <1>1, <1>2 DEF records
<1>3. ASSUME NEW c \in Clients, StoreFile(c)
      PROVE  /\ UNCHANGED deals
             /\ disk[i] # NoContent => disk'[i] # NoContent
  <2>1. call[c].content # NoContent
    BY <1>3 DEF StoreFile, UploadInv, Uploading, Sound
  <2>. QED
    BY <1>3, <2>1 DEF StoreFile, TypeOK
<1>4. ASSUME NEW c \in Clients, StoreFails(c)
      PROVE  /\ UNCHANGED deals
             /\ disk[i] # NoContent => disk'[i] # NoContent
  BY <1>4 DEF StoreFails, Fail, TypeOK
<1>5. ASSUME NEW c \in Clients, CommitUpload(c)
      PROVE  /\ UNCHANGED disk
             /\ i # call[c].id => deals'[i] = deals[i]
             /\ deals[call[c].id] = NoContent
  BY <1>5 DEF CommitUpload, TypeOK, UploadInv, Uploading
<1>. QED
  BY <1>1, <1>2, <1>3, <1>4, <1>5, RecordChanges

(* Requests get no other ids than new ones. *)
LEMMA IdSteps ==
    ASSUME IInv, [Next]_vars, NEW o \in Clients
    PROVE  call'[o].id \in {call[o].id, NoId} \cup Fresh
<1>. USE DEF IInv
<1>n. NoCall.id = NoId
  BY DEF NoCall
<1>1. ASSUME NEW c \in Clients, Fail(c) \/ CommitUpload(c) \/ CommitConfig(c)
      PROVE  call'[o].id \in {call[o].id, NoId}
  BY <1>1, <1>n DEF Fail, CommitUpload, CommitConfig, TypeOK
<1>2. ASSUME NEW c \in Clients, NEW step, Advance(c, step)
      PROVE  call'[o].id = call[o].id
  BY <1>2 DEF Advance, TypeOK
<1>3. ASSUME NEW c \in Clients, Request(c)
      PROVE  call'[o].id \in {call[o].id, NoId} \cup Fresh
  <2>1. ASSUME NEW u \in Uploads, NEW i \in Ids, StartUpload(c, u, i)
        PROVE  call'[o].id \in {call[o].id} \cup Fresh
    BY <2>1 DEF StartUpload, Begin, NoCall, TypeOK
  <2>2. CASE ReadVersion(c)
    BY <2>2 DEF ReadVersion, Begin, NoCall, TypeOK
  <2>. QED
    BY <1>3, <2>1, <2>2 DEF Request, Refuse, RefuseConfig, FindDuplicate, Answer
<1>4. ASSUME NEW c \in Clients, StartUpdate(c) \/ FinishUpdate(c)
      PROVE  call'[o].id = call[o].id
  <2>1. CASE StartUpdate(c)
    BY <2>1 DEF StartUpdate, TypeOK
  <2>2. CASE FinishUpdate(c)
    BY <2>2 DEF FinishUpdate, TypeOK
  <2>. QED
    BY <1>4, <2>1, <2>2
<1>5. CASE Crash
  BY <1>5, <1>n DEF Crash
<1>. QED
  BY <1>1, <1>2, <1>3, <1>4, <1>5
     DEF Next, UploadStep, ConfigStep, StoreFile, InsertDeal, InsertConflict,
         AcceptUpload, InsertConfig, VersionConflict, AnswerConfig, StoreFails,
         DatabaseError, vars

(* An answer that promises nothing fits. *)
LEMMA Unsaid ==
    ASSUME NEW c \in Clients, reply'[c].kind \notin Promising,
           call'[c].step # "accepted"
    PROVE  ReplyFits(c)'
BY DEF ReplyFits, Promising

(* An answer stays true while its request is left alone, and when it ends  *)
(* without a commit.                                                       *)
LEMMA StillFits ==
    ASSUME IInv, [Next]_vars, NEW c \in Clients, ~CommitUpload(c),
           reply'[c] = reply[c],
           \/ call'[c] = call[c]
           \/ /\ call'[c] = NoCall
              /\ call[c].step = "accepted" => call[c].id \in lost'
    PROVE  ReplyFits(c)'
<1>. USE DEF IInv
<1>1. ReplyFits(c)
  BY DEF ReplyInv
<1>2. NoCall.step = "idle"
  BY DEF NoCall
<1>3. CASE reply[c].kind \notin Promising
  <2>1. call[c].step # "accepted"
    BY <1>1, <1>3 DEF ReplyFits, Promising
  <2>. QED
    BY <1>2, <1>3, <2>1, Unsaid
<1>4. CASE reply[c].kind = "duplicate"
  <2>1. call[c].step # "accepted" /\ ~Open(c)
    BY <1>1, <1>4 DEF ReplyFits, Promising
  <2>2. call'[c].step # "accepted" /\ ~Open(c)'
    BY <1>2, <2>1 DEF Open
  <2>3. deals'[reply[c].id] = deals[reply[c].id]
    BY <1>1, <1>4, RecordsStay DEF ReplyFits
  <2>. QED
    BY <1>1, <1>4, <2>2, <2>3 DEF ReplyFits
<1>5. CASE reply[c].kind = "accepted"
  <2>. DEFINE i == reply[c].id
  <2>1. /\ i \in Ids /\ reply[c].content \in Contents
        /\ disk[i] # NoContent
        /\ \A o \in Clients \ {c} : call[o].id # i
    BY <1>1, <1>5 DEF ReplyFits
  <2>2. disk'[i] # NoContent /\ (i \in lost => i \in lost')
    BY <2>1, RecordsStay
  <2>3. \A o \in Clients \ {c} : call'[o].id # i
    BY <2>1, IdSteps DEF Fresh
  <2>4. deals'[i] = deals[i]
    BY <2>1, RecordsStay
  <2>5. CASE call[c].step = "accepted"
    <3>1. call[c].id = i
      BY <1>1, <2>5 DEF ReplyFits
    <3>. QED
      BY <1>1, <1>2, <1>5, <2>1, <2>2, <2>3, <2>4, <2>5, <3>1 DEF ReplyFits, Open
  <2>6. CASE call[c].step # "accepted"
    <3>1. ~Open(c) /\ ~Open(c)' /\ call'[c].step # "accepted"
      BY <1>1, <1>2, <1>5, <2>6 DEF ReplyFits, Open, Promising
    <3>. QED
      BY <1>1, <1>5, <2>1, <2>2, <2>3, <2>4, <2>6, <3>1 DEF ReplyFits
  <2>. QED
    BY <2>5, <2>6
<1>. QED
  BY <1>3, <1>4, <1>5 DEF Promising

(* A request whose answer has not left promises nothing.                   *)
LEMMA ReplyInvStep ==
    ASSUME IInv, [Next]_vars
    PROVE  ReplyInv'
<1>. USE DEF IInv
<1>n. NoCall.step = "idle" /\ NoReply.kind = "none"
  BY DEF NoCall, NoReply
<1>s. ASSUME NEW o \in Clients, call'[o] = call[o], reply'[o] = reply[o]
      PROVE  ReplyFits(o)'
  <2>1. CASE CommitUpload(o)
    <3>1. call'[o] = NoCall /\ call[o].step = "accepted"
      BY <2>1 DEF CommitUpload, TypeOK
    <3>. QED
      BY <1>s, <1>n, <3>1
  <2>. QED
    BY <1>s, <2>1, StillFits
<1>o. ASSUME NEW c \in Clients, NEW r, NEW a,
             call' = [call EXCEPT ![c] = r],
             reply' = [reply EXCEPT ![c] = a] \/ UNCHANGED reply
      PROVE  \A o \in Clients \ {c} : ReplyFits(o)'
  BY <1>o, <1>s DEF TypeOK
<1>i. ASSUME NEW c \in Clients, ReplyFits(c)',
             \A o \in Clients \ {c} : ReplyFits(o)'
      PROVE  ReplyInv'
  BY <1>i DEF ReplyInv
<1>m. ASSUME NEW c \in Clients, NEW r, call' = [call EXCEPT ![c] = r],
             UNCHANGED reply, Open(c), call[c].step # "accepted",
             r.step # "accepted"
      PROVE  ReplyInv'
  <2>1. reply[c].kind \notin Promising
    BY <1>m DEF ReplyInv, ReplyFits
  <2>2. ReplyFits(c)'
    BY <1>m, <2>1, Unsaid DEF TypeOK
  <2>. QED
    BY <1>i, <1>m, <1>o, <2>2
<1>f. ASSUME NEW c \in Clients, Fail(c), Open(c)
      PROVE  ReplyInv'
  <2>1. call'[c] = NoCall
    BY <1>f DEF Fail, TypeOK
  <2>2. CASE call[c].step \in Answered
    <3>1. ~CommitUpload(c)
      BY <1>f, <2>2 DEF Fail, CommitUpload, TypeOK, UploadInv, Uploading, Sound
    <3>2. call[c].step = "accepted" => call[c].id \in lost'
      BY <1>f DEF Fail, UploadInv, Uploading
    <3>3. ReplyFits(c)'
      BY <1>f, <2>1, <2>2, <3>1, <3>2, StillFits DEF Fail
    <3>. QED
      BY <1>i, <1>f, <1>o, <2>2, <3>3 DEF Fail
  <2>3. CASE call[c].step \notin Answered
    <3>. DEFINE a == [NoReply EXCEPT !.kind = "error"]
    <3>1. reply' = [reply EXCEPT ![c] = a]
      BY <1>f, <2>3 DEF Fail
    <3>2. a.kind = "error"
      BY DEF NoReply
    <3>. HIDE DEF a
    <3>3. ReplyFits(c)'
      BY <1>n, <2>1, <3>1, <3>2, Unsaid DEF TypeOK, Promising
    <3>. QED
      BY <1>i, <1>f, <1>o, <3>1, <3>3 DEF Fail
  <2>. QED
    BY <2>2, <2>3
<1>1. ASSUME NEW c \in Clients, Refuse(c) \/ RefuseConfig(c)
      PROVE  ReplyInv'
  <2>. DEFINE a == [kind |-> "refused", content |-> NoContent, id |-> NoId]
  <2>1. /\ ~Open(c) /\ UNCHANGED call
        /\ reply' = [reply EXCEPT ![c] = a]
    BY <1>1 DEF Refuse, RefuseConfig, Answer
  <2>2. a.kind = "refused"
    OBVIOUS
  <2>. HIDE DEF a
  <2>3. ReplyFits(c)'
    BY <2>1, <2>2, Unsaid DEF TypeOK, Promising, Open
  <2>4. \A o \in Clients \ {c} : ReplyFits(o)'
    BY <1>s, <2>1 DEF TypeOK
  <2>. QED
    BY <1>i, <2>3, <2>4
<1>2. ASSUME NEW c \in Clients, NEW u \in Uploads, FindDuplicate(c, u)
      PROVE  ReplyInv'
  <2>1. PICK i \in Matching(u.content) : Answer(c, "duplicate", u.content, i)
    BY <1>2 DEF FindDuplicate
  <2>2. /\ reply'[c].kind = "duplicate"
        /\ reply'[c].content = u.content
        /\ reply'[c].id = i
        /\ \A o \in Clients \ {c} : reply'[o] = reply[o]
        /\ UNCHANGED call
    BY <2>1 DEF Answer, TypeOK
  <2>3. i \in Ids /\ deals'[i] = u.content /\ u.content \in Contents
    BY <1>2 DEF Matching, FindDuplicate, records
  <2>4. ReplyFits(c)'
    BY <1>2, <2>2, <2>3 DEF ReplyFits, FindDuplicate, Open
  <2>. QED
    BY <1>i, <1>s, <2>2, <2>4
<1>3. ASSUME NEW c \in Clients, NEW r, Begin(c, r), r.step # "accepted"
      PROVE  ReplyInv'
  <2>1. ReplyFits(c)'
    BY <1>3, <1>n, Unsaid DEF Begin, TypeOK, Promising
  <2>. QED
    BY <1>i, <1>3, <1>o, <2>1 DEF Begin
<1>4. ASSUME NEW c \in Clients, NEW u \in Uploads, NEW i \in Ids,
             StartUpload(c, u, i)
      PROVE  ReplyInv'
  <2>. DEFINE r == [NoCall EXCEPT !.step = "new", !.content = u.content,
                                  !.id = i]
  <2>1. r.step = "new" /\ Begin(c, r)
    BY <1>4 DEF StartUpload, NoCall
  <2>. HIDE DEF r
  <2>. QED
    BY <1>3, <2>1
<1>5. ASSUME NEW c \in Clients, ReadVersion(c)
      PROVE  ReplyInv'
  <2>. DEFINE r == [NoCall EXCEPT !.step = "numbered", !.version = Latest + 1]
  <2>1. r.step = "numbered" /\ Begin(c, r)
    BY <1>5 DEF ReadVersion, NoCall
  <2>. HIDE DEF r
  <2>. QED
    BY <1>3, <2>1
<1>6. ASSUME NEW c \in Clients,
             StoreFile(c) \/ InsertDeal(c) \/ InsertConfig(c)
      PROVE  ReplyInv'
  <2>1. PICK step \in {"stored", "inserted", "written"} : Advance(c, step)
    BY <1>6 DEF StoreFile, InsertDeal, InsertConfig
  <2>. DEFINE r == [call[c] EXCEPT !.step = step]
  <2>2. call' = [call EXCEPT ![c] = r] /\ r.step # "accepted"
    BY <2>1 DEF Advance, TypeOK
  <2>3. Open(c) /\ call[c].step # "accepted" /\ UNCHANGED reply
    BY <1>6 DEF StoreFile, InsertDeal, InsertConfig, Open
  <2>. HIDE DEF r
  <2>. QED
    BY <1>m, <2>2, <2>3
<1>7. ASSUME NEW c \in Clients, StartUpdate(c)
      PROVE  ReplyInv'
  <2>. DEFINE r == [call[c] EXCEPT !.step = "updating", !.saw = active]
  <2>1. call' = [call EXCEPT ![c] = r] /\ r.step # "accepted"
    BY <1>7 DEF StartUpdate, TypeOK
  <2>. HIDE DEF r
  <2>. QED
    BY <1>7, <1>m, <2>1 DEF StartUpdate, Open
<1>8. ASSUME NEW c \in Clients, FinishUpdate(c)
      PROVE  ReplyInv'
  <2>. DEFINE r == [call[c] EXCEPT !.step = "updated",
                                   !.locks = call[c].saw \cap active]
  <2>1. call' = [call EXCEPT ![c] = r] /\ r.step # "accepted"
    BY <1>8 DEF FinishUpdate, TypeOK
  <2>. HIDE DEF r
  <2>. QED
    BY <1>8, <1>m, <2>1 DEF FinishUpdate, Open
<1>9. ASSUME NEW c \in Clients, CommitConfig(c)
      PROVE  ReplyInv'
  BY <1>9, <1>m, <1>n DEF CommitConfig, Open
<1>10. ASSUME NEW c \in Clients, AnswerConfig(c)
       PROVE  ReplyInv'
  <2>1. reply'[c].kind = "created" /\ \A o \in Clients \ {c} : reply'[o] = reply[o]
    BY <1>10, NoCallType DEF AnswerConfig, TypeOK, RepliesType
  <2>2. call'[c].step = "created" /\ \A o \in Clients \ {c} : call'[o] = call[o]
    BY <1>10, Advanced DEF AnswerConfig
  <2>. QED
    BY <1>i, <1>s, <2>1, <2>2, Unsaid DEF Promising
<1>11. ASSUME NEW c \in Clients, AcceptUpload(c)
       PROVE  ReplyInv'
  <2>1. /\ reply'[c] = [kind |-> "accepted", content |-> call[c].content,
                        id |-> call[c].id]
        /\ \A o \in Clients \ {c} : reply'[o] = reply[o]
        /\ UNCHANGED <<disk, deals>>
    BY <1>11 DEF AcceptUpload, TypeOK, records
  <2>2. /\ call'[c].step = "accepted"
        /\ call'[c].content = call[c].content /\ call'[c].id = call[c].id
        /\ \A o \in Clients \ {c} : call'[o] = call[o]
    BY <1>11, Advanced DEF AcceptUpload
  <2>3. /\ call[c].id \in Ids /\ call[c].id # NoId
        /\ call[c].content \in Contents
        /\ deals[call[c].id] = NoContent
        /\ disk[call[c].id] = call[c].content
    BY <1>11 DEF AcceptUpload, UploadInv, Uploading, Sound
  <2>4. \A o \in Clients \ {c} : call[o].id # call[c].id
    BY <2>3 DEF UploadInv
  <2>5. ReplyFits(c)'
    <3>1. /\ reply'[c].kind = "accepted"
          /\ reply'[c].content = call[c].content
          /\ reply'[c].id = call[c].id
      BY <2>1
    <3>2. disk'[call[c].id] # NoContent /\ deals'[call[c].id] = NoContent
      BY <2>1, <2>3
    <3>3. \A o \in Clients \ {c} : call'[o].id # call[c].id
      BY <2>2, <2>4
    <3>4. reply'[c] = [kind |-> "accepted", content |-> call'[c].content,
                       id |-> call'[c].id]
      BY <2>1, <2>2
    <3>5. call'[c].step = "accepted"
      BY <2>2
    <3>. HIDE DEF IInv
    <3>. QED
      BY <2>3, <3>1, <3>2, <3>3, <3>4, <3>5 DEF ReplyFits
  <2>. QED
    BY <1>i, <1>s, <2>1, <2>2, <2>5
<1>12. ASSUME NEW c \in Clients, CommitUpload(c)
       PROVE  ReplyInv'
  <2>1. /\ call[c].step = "accepted" /\ call'[c] = NoCall
        /\ deals' = [deals EXCEPT ![call[c].id] = call[c].content]
        /\ UNCHANGED <<disk, reply>>
        /\ \A o \in Clients \ {c} : call'[o] = call[o]
    BY <1>12 DEF CommitUpload, TypeOK
  <2>2. /\ reply[c] = [kind |-> "accepted", content |-> call[c].content,
                       id |-> call[c].id]
        /\ ReplyFits(c)
    BY <2>1 DEF ReplyInv, ReplyFits
  <2>3. /\ call[c].id \in Ids /\ call[c].content \in Contents
        /\ disk[call[c].id] # NoContent
        /\ \A o \in Clients \ {c} : call[o].id # call[c].id
    BY <2>2 DEF ReplyFits
  <2>4. deals'[call[c].id] = call[c].content
    BY <2>1, <2>3 DEF TypeOK
  <2>5. ReplyFits(c)'
    BY <1>n, <2>1, <2>2, <2>3, <2>4 DEF ReplyFits, Open
  <2>. QED
    BY <1>i, <1>s, <2>1, <2>5
<1>13. CASE Crash
  <2>1. ASSUME NEW o \in Clients
        PROVE  ReplyFits(o)'
    <3>1. call'[o] = NoCall /\ reply'[o] = reply[o] /\ UNCHANGED deals
      BY <1>13 DEF Crash, records
    <3>2. ~CommitUpload(o)
      BY <3>1 DEF CommitUpload, TypeOK, UploadInv, Uploading, Sound
    <3>3. call[o].step = "accepted" => call[o].id \in lost'
      BY <1>13 DEF Crash, UploadInv, Uploading
    <3>. QED
      BY <3>1, <3>2, <3>3, StillFits
  <2>. QED
    BY <2>1 DEF ReplyInv
<1>14. ASSUME NEW c \in Clients,
              \/ StoreFails(c) \/ InsertConflict(c) \/ VersionConflict(c)
              \/ DatabaseError(c)
       PROVE  ReplyInv'
  BY <1>14, <1>f
     DEF StoreFails, InsertConflict, VersionConflict, DatabaseError, Open
<1>15. CASE UNCHANGED vars
  BY <1>15, <1>s DEF vars, ReplyInv
<1>. QED
  BY <1>1, <1>2, <1>4, <1>5, <1>6, <1>7, <1>8, <1>9, <1>10, <1>11, <1>12,
     <1>13, <1>14, <1>15
     DEF Next, Request, UploadStep, ConfigStep

-----------------------------------------------------------------------------
(* Criteria configs *)

LEMMA ConfigInvStep ==
    ASSUME IInv, [Next]_vars, TypeOK'
    PROVE  ConfigInv'
<1>. USE DEF IInv
<1>n. NoCall.step = "idle" /\ NoCall.version = 0 /\ "idle" \notin Configuring
  BY DEF NoCall, Configuring
<1>p. PICK n \in 0 .. MaxVersions : ConfigsAre(n)
  BY DEF ConfigInv
<1>w. Writing \subseteq Configuring /\ "numbered" \notin Writing
  BY DEF Writing, Configuring
<1>t. \A c \in Clients : call[c].version \in 0 .. MaxVersions
  BY DEF TypeOK
<1>u. ASSUME UNCHANGED <<call, versions>>
      PROVE  ConfigInv'
  BY <1>u, <1>p DEF ConfigInv, ConfigsAre, Taken, versions
<1>k. ASSUME NEW c \in Clients, UNCHANGED versions, Taken(n, c)',
             \A o \in Clients \ {c} : call'[o] = call[o],
             call'[c].step \in Writing =>
                \A o \in Clients \ {c} : call[o].step \notin Writing
      PROVE  ConfigInv'
  <2>1. \A o \in Clients \ {c} : Taken(n, o)'
    BY <1>k, <1>p DEF ConfigsAre, Taken, versions
  <2>2. ConfigsAre(n)'
    BY <1>k, <1>p, <2>1 DEF ConfigsAre, versions
  <2>. QED
    BY <2>2 DEF ConfigInv
<1>q. ASSUME NEW c \in Clients, UNCHANGED versions,
             call'[c].step \notin Configuring, call'[c].version = 0,
             \A o \in Clients \ {c} : call'[o] = call[o]
      PROVE  ConfigInv'
  <2>1. n + 1 # 0
    OBVIOUS
  <2>2. Taken(n, c)'
    BY <1>q, <1>w, <2>1 DEF Taken
  <2>. QED
    BY <1>k, <1>q, <1>w, <2>2
<1>e. ASSUME NEW c \in Clients, Fail(c) \/ CommitUpload(c)
      PROVE  ConfigInv'
  <2>1. call' = [call EXCEPT ![c] = NoCall] /\ UNCHANGED versions
    BY <1>e DEF Fail, CommitUpload
  <2>2. call'[c] = NoCall /\ \A o \in Clients \ {c} : call'[o] = call[o]
    BY <2>1, OwnCall
  <2>. QED
    BY <1>n, <1>q, <2>1, <2>2
<1>1. ASSUME NEW c \in Clients, Refuse(c) \/ RefuseConfig(c)
      PROVE  ConfigInv'
  BY <1>1, <1>u DEF Refuse, RefuseConfig, Answer
<1>2. ASSUME NEW c \in Clients, NEW u \in Uploads, FindDuplicate(c, u)
      PROVE  ConfigInv'
  BY <1>2, <1>u DEF FindDuplicate, Answer
<1>3. ASSUME NEW c \in Clients, NEW u \in Uploads, NEW i \in Ids,
             StartUpload(c, u, i)
      PROVE  ConfigInv'
  <2>. DEFINE r == [NoCall EXCEPT !.step = "new", !.content = u.content,
                                  !.id = i]
  <2>1. /\ call' = [call EXCEPT ![c] = r] /\ UNCHANGED versions
        /\ r.step = "new" /\ r.version = 0
    BY <1>3 DEF StartUpload, Begin, NoCall
  <2>. HIDE DEF r
  <2>. QED
    BY <1>q, <2>1, OwnCall DEF Configuring
<1>4. ASSUME NEW c \in Clients,
             StoreFile(c) \/ InsertDeal(c) \/ AcceptUpload(c)
      PROVE  ConfigInv'
  <2>1. /\ \E step \in {"stored", "inserted", "accepted"} : Advance(c, step)
        /\ call[c].step \in {"new", "stored", "inserted"}
        /\ UNCHANGED versions
    BY <1>4 DEF StoreFile, InsertDeal, AcceptUpload
  <2>2. call[c].version = 0
    BY <1>p, <2>1 DEF ConfigsAre, Taken, Configuring
  <2>3. /\ call'[c].step \notin Configuring /\ call'[c].version = 0
        /\ \A o \in Clients \ {c} : call'[o] = call[o]
    BY <2>1, <2>2, Advanced DEF Configuring
  <2>. QED
    BY <1>q, <2>1, <2>3
<1>5. ASSUME NEW c \in Clients, ReadVersion(c)
      PROVE  ConfigInv'
  <2>. DEFINE r == [NoCall EXCEPT !.step = "numbered", !.version = Latest + 1]
  <2>1. /\ call' = [call EXCEPT ![c] = r] /\ UNCHANGED versions
        /\ r.step = "numbered" /\ r.version = Latest + 1
    BY <1>5 DEF ReadVersion, Begin, NoCall
  <2>2. Latest = n
    BY <1>p, LatestIs DEF ConfigsAre
  <2>. HIDE DEF r
  <2>3. /\ call'[c].step = "numbered" /\ call'[c].version = n + 1
        /\ \A o \in Clients \ {c} : call'[o] = call[o]
    BY <2>1, <2>2, OwnCall
  <2>4. n + 1 \in 1 .. n + 1
    OBVIOUS
  <2>5. Taken(n, c)'
    BY <1>w, <2>3, <2>4 DEF Taken, Configuring
  <2>. QED
    BY <1>k, <1>w, <2>1, <2>3, <2>5
<1>6. ASSUME NEW c \in Clients, StartUpdate(c)
      PROVE  ConfigInv'
  <2>. DEFINE r == [call[c] EXCEPT !.step = "updating", !.saw = active]
  <2>1. /\ call' = [call EXCEPT ![c] = r] /\ UNCHANGED versions
        /\ r.step = "updating" /\ r.saw = active
        /\ r.version = call[c].version
    BY <1>6 DEF StartUpdate, TypeOK
  <2>. HIDE DEF r
  <2>2. /\ call'[c].step = "updating" /\ call'[c].saw = active
        /\ call'[c].version = call[c].version
        /\ \A o \in Clients \ {c} : call'[o] = call[o]
    BY <2>1, OwnCall
  <2>3. Taken(n, c)'
    BY <1>6, <1>p, <2>1, <2>2
       DEF ConfigsAre, Taken, StartUpdate, versions, Configuring, Writing
  <2>. QED
    BY <1>k, <2>1, <2>2, <2>3 DEF Writing
<1>7. ASSUME NEW c \in Clients, FinishUpdate(c)
      PROVE  ConfigInv'
  <2>. DEFINE r == [call[c] EXCEPT !.step = "updated",
                                   !.locks = call[c].saw \cap active]
  <2>1. /\ call' = [call EXCEPT ![c] = r] /\ UNCHANGED versions
        /\ r.step = "updated" /\ r.saw = call[c].saw
        /\ r.locks = call[c].saw \cap active
        /\ r.version = call[c].version
    BY <1>7 DEF FinishUpdate, TypeOK
  <2>. HIDE DEF r
  <2>2. /\ call'[c].step = "updated" /\ call'[c].saw = call[c].saw
        /\ call'[c].locks = call[c].saw \cap active
        /\ call'[c].version = call[c].version
        /\ \A o \in Clients \ {c} : call'[o] = call[o]
    BY <2>1, OwnCall
  <2>3. call[c].version = n + 1 => call[c].saw = active
    BY <1>7, <1>p DEF ConfigsAre, Taken, FinishUpdate, Configuring
  <2>4. Taken(n, c)'
    BY <1>7, <1>p, <2>1, <2>2, <2>3
       DEF ConfigsAre, Taken, FinishUpdate, versions, Configuring, Writing
  <2>. QED
    BY <1>k, <2>1, <2>2, <2>4 DEF Writing
<1>8. ASSUME NEW c \in Clients, InsertConfig(c)
      PROVE  ConfigInv'
  <2>1. call[c].version \in 1 .. n + 1 /\ configs = 1 .. n
    BY <1>8, <1>p DEF ConfigsAre, Taken, InsertConfig, Configuring
  <2>2. call[c].version = n + 1
    BY <1>8, <2>1 DEF InsertConfig
  <2>3. \A o \in Clients \ {c} : call[o].step \notin Writing
    BY <1>8, <1>p, <2>2
       DEF ConfigsAre, Taken, InsertConfig, VersionFree, Writing
  <2>4. /\ call'[c].step = "written" /\ call'[c].saw = call[c].saw
        /\ call'[c].locks = call[c].locks
        /\ call'[c].version = call[c].version
        /\ \A o \in Clients \ {c} : call'[o] = call[o]
    BY <1>8, Advanced DEF InsertConfig
  <2>5. /\ call[c].saw = active /\ call[c].locks = active
        /\ UNCHANGED versions
    BY <1>8, <1>p, <2>2 DEF ConfigsAre, Taken, InsertConfig, Configuring
  <2>6. n + 1 \in 1 .. n + 1
    OBVIOUS
  <2>7. Taken(n, c)'
    BY <2>2, <2>4, <2>5, <2>6 DEF Taken, versions, Configuring
  <2>. QED
    BY <1>k, <2>3, <2>4, <2>5, <2>7
<1>9. ASSUME NEW c \in Clients, AnswerConfig(c)
      PROVE  ConfigInv'
  <2>1. /\ call'[c].step = "created" /\ call'[c].saw = call[c].saw
        /\ call'[c].locks = call[c].locks
        /\ call'[c].version = call[c].version
        /\ \A o \in Clients \ {c} : call'[o] = call[o]
    BY <1>9, Advanced DEF AnswerConfig
  <2>2. /\ call[c].version = n + 1
        /\ call[c].saw = active /\ call[c].locks = active
        /\ UNCHANGED versions
        /\ \A o \in Clients \ {c} : call[o].step \notin Writing
    BY <1>9, <1>p DEF ConfigsAre, Taken, AnswerConfig, Configuring, Writing
  <2>3. n + 1 \in 1 .. n + 1
    OBVIOUS
  <2>4. Taken(n, c)'
    BY <2>1, <2>2, <2>3 DEF Taken, versions, Configuring
  <2>. QED
    BY <1>k, <2>1, <2>2, <2>4
<1>10. ASSUME NEW c \in Clients, CommitConfig(c)
       PROVE  ConfigInv'
  <2>1. call[c].version = n + 1 /\ call[c].locks = active
    BY <1>10, <1>p DEF ConfigsAre, Taken, CommitConfig, Writing
  <2>2. configs' = 1 .. n + 1 /\ active' = {n + 1}
    BY <1>10, <1>p, <2>1 DEF ConfigsAre, CommitConfig
  <2>3. n + 1 \in 1 .. MaxVersions
    BY <1>t, <2>1
  <2>4. call'[c] = NoCall /\ \A o \in Clients \ {c} : call'[o] = call[o]
    BY <1>10, OwnCall DEF CommitConfig
  <2>5. \A o \in Clients \ {c} : call[o].step \notin Writing
    BY <1>10, <1>p DEF ConfigsAre, CommitConfig, Writing
  <2>6. \A o \in Clients \ {c} :
            /\ call[o].step \in Configuring => call[o].version \in 1 .. n + 1
            /\ call[o].step \notin Configuring => call[o].version = 0
    BY <1>p DEF ConfigsAre, Taken
  <2>7. \A o \in Clients \ {c} : Taken(n + 1, o)'
    BY <2>4, <2>5, <2>6 DEF Taken
  <2>8. Taken(n + 1, c)'
    BY <1>n, <1>w, <2>4 DEF Taken
  <2>9. ConfigsAre(n + 1)'
    BY <1>n, <1>w, <2>2, <2>3, <2>4, <2>5, <2>7, <2>8 DEF ConfigsAre
  <2>. QED
    BY <2>3, <2>9 DEF ConfigInv
<1>11. CASE Crash
  <2>1. (\A c \in Clients : call'[c] = NoCall) /\ UNCHANGED versions
    BY <1>11 DEF Crash
  <2>2. \A c \in Clients : Taken(n, c)'
    BY <1>n, <1>w, <2>1 DEF Taken
  <2>3. ConfigsAre(n)'
    BY <1>n, <1>p, <1>w, <2>1, <2>2 DEF ConfigsAre, versions
  <2>. QED
    BY <2>3 DEF ConfigInv
<1>12. ASSUME NEW c \in Clients,
              \/ StoreFails(c) \/ InsertConflict(c) \/ VersionConflict(c)
              \/ DatabaseError(c) \/ CommitUpload(c)
       PROVE  ConfigInv'
  BY <1>12, <1>e DEF StoreFails, InsertConflict, VersionConflict, DatabaseError
<1>13. CASE UNCHANGED vars
  BY <1>13, <1>u DEF vars
<1>. QED
  BY <1>1, <1>2, <1>3, <1>4, <1>5, <1>6, <1>7, <1>8, <1>9, <1>10, <1>11,
     <1>12, <1>13
     DEF Next, Request, UploadStep, ConfigStep

-----------------------------------------------------------------------------
(* Theorems *)

LEMMA InitIInv ==
    ASSUME Init
    PROVE  IInv
<1>. USE DEF Init
<1>1. NoCall.step = "idle" /\ NoCall.id = NoId /\ NoCall.version = 0
  BY DEF NoCall
<1>2. \A c \in Clients : call[c] = NoCall /\ reply[c] = NoReply
  OBVIOUS
<1>3. TypeOK
  BY NoCallType DEF TypeOK, Versions, CallType, RepliesType
<1>4. UploadInv
  BY <1>1, <1>2 DEF UploadInv, Uploading, Holding
<1>5. ReplyInv
  BY <1>1, <1>2 DEF ReplyInv, ReplyFits, Open, NoReply
<1>6. ConfigInv
  <2>1. ConfigsAre(0)
    BY <1>1, <1>2 DEF ConfigsAre, Taken, Configuring, Writing
  <2>. QED
    BY <2>1 DEF ConfigInv
<1>7. OneDealPerDocument /\ DealsAreComplete
  BY DEF OneDealPerDocument, DealsAreComplete
<1>. QED
  BY <1>3, <1>4, <1>5, <1>6, <1>7 DEF IInv

LEMMA NextIInv ==
    ASSUME IInv, [Next]_vars
    PROVE  IInv'
<1>1. TypeOK'
  BY TypeStep DEF IInv
<1>. QED
  BY <1>1, UploadInvStep, ReplyInvStep, ConfigInvStep, RecordsStep DEF IInv

(* Intake's inductive invariant (ingest_deal and create_criteria_config):  *)
(* what requests that hold no locks may still rely on at each step.        *)
THEOREM IntakeInvariant == Spec => []IInv
  BY InitIInv, NextIInv, PTL DEF Spec

(* Every reachable state of uploads and configs is well typed; in          *)
(* particular the active configs are configs that exist.                   *)
THEOREM IntakeTypeCorrect == Spec => []TypeOK
<1>1. IInv => TypeOK
  BY DEF IInv
<1>. QED
  BY <1>1, IntakeInvariant, PTL

(* The unique constraint on (tenant, content hash) makes up for the check  *)
(* that ingest_deal makes too early, for any number of overlapping uploads.*)
THEOREM DocumentsAreNotDoubled == Spec => []OneDealPerDocument
<1>1. IInv => OneDealPerDocument
  BY DEF IInv
<1>. QED
  BY <1>1, IntakeInvariant, PTL

(* A deal that is committed has its job, and its file as it was uploaded.  *)
THEOREM DealsHaveFiles == Spec => []DealsAreComplete
<1>1. IInv => DealsAreComplete
  BY DEF IInv
<1>. QED
  BY <1>1, IntakeInvariant, PTL

(* What upload_deal answered holds once the request is over, unless its    *)
(* commit failed after the answer.                                         *)
THEOREM AnswersHold == Spec => []RepliesAreTrue
<1>1. ASSUME IInv
      PROVE  RepliesAreTrue
  <2>1. ASSUME NEW c \in Clients, reply[c].kind = "accepted", Open(c)
        PROVE  call[c].step = "accepted" /\ call[c].id = reply[c].id
    <3>1. call[c].step = "accepted"
      BY <1>1, <2>1 DEF IInv, ReplyInv, ReplyFits, Promising
    <3>2. reply[c] = [kind |-> "accepted", content |-> call[c].content,
                      id |-> call[c].id]
      BY <1>1, <3>1 DEF IInv, ReplyInv, ReplyFits
    <3>3. reply[c].id = call[c].id
      BY <3>2
    <3>. QED
      BY <3>1, <3>3
  <2>2. ASSUME NEW c \in Clients, reply[c].kind = "accepted", ~Open(c)
        PROVE  call[c].step # "accepted"
    BY <2>2 DEF Open
  <2>. QED
    BY <1>1, <2>1, <2>2 DEF IInv, ReplyInv, ReplyFits, RepliesAreTrue
<1>. QED
  BY <1>1, IntakeInvariant, PTL

(* create_criteria_config: the newest config and no other is active,       *)
(* however many requests overlap, because of two that took one version     *)
(* only the first is inserted.                                             *)
THEOREM NewestIsActive == Spec => []NewestConfigIsActive
<1>1. ASSUME IInv
      PROVE  NewestConfigIsActive
  <2>1. PICK n \in 0 .. MaxVersions : ConfigsAre(n)
    BY <1>1 DEF IInv, ConfigInv
  <2>2. configs = 1 .. n /\ active = IF n = 0 THEN {} ELSE {n}
    BY <2>1 DEF ConfigsAre
  <2>3. Latest = n
    BY <2>2, LatestIs
  <2>4. n = 0 <=> configs = {}
    BY <2>2
  <2>. QED
    BY <2>2, <2>3, <2>4 DEF NewestConfigIsActive, Versions
<1>. QED
  BY <1>1, IntakeInvariant, PTL

-----------------------------------------------------------------------------
(* Files without a deal *)

(* A request gives up its id only with its deal committed or as lost.      *)
LEMMA IdLeaves ==
    ASSUME IInv, [Next]_vars, NEW o \in Clients, call[o].id # NoId,
           call'[o].id # call[o].id
    PROVE  call[o].id \in lost' \/ deals'[call[o].id] # NoContent
<1>. USE DEF IInv
<1>1. call[o].step \in Uploading
  BY DEF UploadInv
<1>2. ASSUME NEW c \in Clients, Fail(c)
      PROVE  call[o].id \in lost'
  BY <1>2 DEF Fail, TypeOK
<1>3. ASSUME NEW c \in Clients, CommitUpload(c)
      PROVE  deals'[call[o].id] # NoContent
  <2>1. o = c
    BY <1>3 DEF CommitUpload, TypeOK
  <2>2. call[c].id \in Ids /\ call[c].content # NoContent
    BY <1>1, <2>1 DEF UploadInv, Sound
  <2>. QED
    BY <1>3, <2>1, <2>2 DEF CommitUpload, TypeOK
<1>4. ASSUME NEW c \in Clients, CommitConfig(c)
      PROVE  FALSE
  BY <1>1, <1>4 DEF CommitConfig, Uploading, TypeOK
<1>5. ASSUME NEW c \in Clients, NEW step, Advance(c, step)
      PROVE  FALSE
  BY <1>5 DEF Advance, TypeOK
<1>6. ASSUME NEW c \in Clients, Request(c)
      PROVE  FALSE
  <2>1. ASSUME NEW r, Begin(c, r)
        PROVE  FALSE
    BY <1>1, <2>1 DEF Begin, Open, Uploading, TypeOK
  <2>. QED
    BY <1>6, <2>1 DEF Request, Refuse, RefuseConfig, FindDuplicate, Answer,
                      StartUpload, ReadVersion
<1>7. ASSUME NEW c \in Clients, StartUpdate(c) \/ FinishUpdate(c)
      PROVE  FALSE
  <2>1. CASE StartUpdate(c)
    BY <2>1 DEF StartUpdate, TypeOK
  <2>2. CASE FinishUpdate(c)
    BY <2>2 DEF FinishUpdate, TypeOK
  <2>. QED
    BY <1>7, <2>1, <2>2
<1>8. CASE Crash
  BY <1>8 DEF Crash
<1>. QED
  BY <1>2, <1>3, <1>4, <1>5, <1>6, <1>7, <1>8
     DEF Next, UploadStep, ConfigStep, StoreFile, InsertDeal, InsertConflict,
         AcceptUpload, InsertConfig, VersionConflict, AnswerConfig, StoreFails,
         DatabaseError, vars

(* A file is written by the request that has its id. *)
LEMMA FilesHaveWriters ==
    ASSUME IInv, [Next]_vars, NEW i \in Ids, disk'[i] # disk[i]
    PROVE  \E c \in Clients : call[c].id = i
<1>. USE DEF IInv
<1>1. ASSUME NEW c \in Clients, StoreFile(c) \/ StoreFails(c)
      PROVE  call[c].id = i
  BY <1>1 DEF StoreFile, StoreFails, TypeOK
<1>2. \A c \in Clients : CommitUpload(c) => UNCHANGED disk
  BY DEF CommitUpload
<1>. QED
  BY <1>1, <1>2, RecordChanges DEF records

(* A file that no deal names is left by an upload that failed or was cut   *)
(* off, and by nothing else ingest_deal() does: a duplicate is found before *)
(* _store_file() writes.                                                   *)
THEOREM OrphansComeFromFailures == Spec => []OrphansAreFailures
<1>1. Init => OrphansAreFailures
  BY DEF Init, OrphansAreFailures
<1>2. ASSUME IInv, OrphansAreFailures, [Next]_vars
      PROVE  OrphansAreFailures'
  <2>. SUFFICES ASSUME NEW i \in Ids, disk'[i] # NoContent,
                       deals'[i] = NoContent,
                       \A c \in Clients : call'[c].id # i
                PROVE  i \in lost'
    BY DEF OrphansAreFailures
  <2>1. ASSUME NEW c \in Clients, call[c].id = i
        PROVE  i \in lost'
    BY <1>2, <2>1, IdLeaves, IntakeAssumption
  <2>2. ASSUME \A c \in Clients : call[c].id # i
        PROVE  i \in lost'
    <3>1. disk[i] # NoContent
      BY <1>2, <2>2, FilesHaveWriters
    <3>2. deals[i] = NoContent
      BY <1>2, RecordsStay
    <3>. QED
      BY <1>2, <2>2, <3>1, <3>2, RecordsStay DEF OrphansAreFailures
  <2>. QED
    BY <2>1, <2>2
<1>. QED
  BY <1>1, <1>2, InitIInv, NextIInv, PTL DEF Spec
=============================================================================
