-------------------------- MODULE AuthSessionsProofs --------------------------
(***************************************************************************)
(* Proofs about AuthSessions for any number of calls and tokens and any    *)
(* number of password changes and lost requests, replies and commits:      *)
(* rotation keeps its lineage, revocations stand, a password change finds  *)
(* the sessions of the old password, all but those of logins that overlap  *)
(* it, and the browser is left with tokens it can use.                     *)
(***************************************************************************)
EXTENDS AuthSessions, TLAPS

USE AuthSessionsAssumption

-----------------------------------------------------------------------------
(* The inductive invariant.  r, u and v stand for a call's request, the     *)
(* server's place in it and the reply.                                     *)

(* A request has an id of its own; refreshes and logouts name a token,     *)
(* logins and changes are about a user who exists.                         *)
RequestIsSound(r) ==
    /\ r.kind # "none" => r.new \in Ids
    /\ r.kind \in {"refresh", "logout"} => r.sent \in Ids
    /\ r.kind \in {"login", "change"} => password > 0
    /\ r.kind = "login" => r.pw > 0
    /\ \A s \in r.revokes : session[s] # "absent"

(* While the server works on a request its id is not in the table, and a   *)
(* refresh that will be committed has found the session of its token.      *)
AnswerIsSound(r, u, v) ==
    /\ u # "idle" => r.kind # "none" /\ family[r.new] = NoId
    /\ u = "writing" /\ r.kind = "refresh" => family[r.sent] = r.sid
    /\ v # "none" => r.kind # "none" /\ u # "received"
    /\ /\ v = "ok" \/ u = "writing"
       /\ r.kind \in {"login", "register", "refresh"}
       => r.sid \in Ids

IdsAreUnique ==
    \A c, d \in Calls :
        call[c].new = call[d].new /\ call[c].new # NoId => c = d

(* A session is opened with the token of the same id, for a user.          *)
SessionsHaveTokens ==
    \A s \in Ids : session[s] # "absent" => family[s] = s /\ password > 0

CallsAreSound ==
    /\ \A c \in Calls : /\ RequestIsSound(call[c])
                        /\ AnswerIsSound(call[c], server[c], reply[c])
    /\ IdsAreUnique

Sound == TypeOK /\ Lineage /\ CallsAreSound /\ SessionsHaveTokens

Places == {"idle", "received", "writing"}
Replies == {"none", "ok", "refused", "reused", "failed", "taken"}

-----------------------------------------------------------------------------

LEMMA SoundInit == Init => Sound
  BY DEF Init, Sound, TypeOK, Lineage, CallsAreSound, SessionsHaveTokens,
         RequestIsSound, AnswerIsSound, IdsAreUnique, AnyId, Request, Kinds,
         NoCall, Store

LEMMA NoCallIsSound ==
  /\ NoCall \in Request
  /\ RequestIsSound(NoCall)
  /\ AnswerIsSound(NoCall, "idle", "none")
  /\ NoCall.new = NoId
  BY DEF NoCall, Request, Kinds, AnyId, RequestIsSound, AnswerIsSound

(* A step that leaves the tables alone and changes the entries of one call *)
(* to sound ones.                                                          *)
LEMMA CallStepSound ==
  ASSUME Sound, NEW c \in Calls,
         NEW r \in Request, NEW u \in Places, NEW v \in Replies,
         call' = [call EXCEPT ![c] = r],
         server' = [server EXCEPT ![c] = u],
         reply' = [reply EXCEPT ![c] = v],
         UNCHANGED tables, stored' \in Store, late' \in SUBSET Ids,
         faults' \in 0 .. MaxFaults,
         RequestIsSound(r), AnswerIsSound(r, u, v),
         \A d \in Calls \ {c} : r.new = call[d].new => r.new = NoId
  PROVE  Sound'
<1>1. TypeOK'
  BY DEF Sound, TypeOK, tables, Places, Replies
<1>2. Lineage' /\ SessionsHaveTokens'
  BY DEF Sound, Lineage, SessionsHaveTokens, tables
<1>3. ASSUME NEW d \in Calls
      PROVE  /\ RequestIsSound(call[d])'
             /\ AnswerIsSound(call[d], server[d], reply[d])'
  <2>1. CASE d = c
    <3>1. call'[d] = r /\ server'[d] = u /\ reply'[d] = v
      BY <2>1 DEF Sound, TypeOK
    <3> QED
      BY <3>1 DEF RequestIsSound, AnswerIsSound, tables
  <2>2. CASE d # c
    <3>1. call'[d] = call[d] /\ server'[d] = server[d] /\ reply'[d] = reply[d]
      BY <2>2 DEF Sound, TypeOK
    <3> QED
      BY <3>1 DEF Sound, CallsAreSound, RequestIsSound, AnswerIsSound, tables
  <2> QED
    BY <2>1, <2>2
<1>4. IdsAreUnique'
  BY DEF Sound, TypeOK, CallsAreSound, IdsAreUnique
<1> QED
  BY <1>1, <1>2, <1>3, <1>4 DEF Sound, CallsAreSound

(* The id of a call belongs to no other.                                   *)
LEMMA OwnId ==
  ASSUME Sound, NEW c \in Calls
  PROVE  \A d \in Calls \ {c} :
            call[c].new = call[d].new => call[c].new = NoId
  BY DEF Sound, CallsAreSound, IdsAreUnique

(* A request is sent with an id no token, store or call knows.             *)
LEMMA SendSound ==
  ASSUME Sound, NEW c \in Calls, NEW k \in Kinds \ {"none"},
         NEW t \in AnyId, NEW s \in AnyId, NEW p \in Nat,
         Send(c, k, t, s, p),
         k \in {"refresh", "logout"} => t \in Ids,
         k \in {"login", "change"} => password > 0,
         k = "login" => p > 0
  PROVE  Sound'
<1> DEFINE n == CHOOSE m \in Fresh : TRUE
           r == [kind |-> k, sent |-> t, sid |-> s, pw |-> p, new |-> n,
                 revokes |-> {}]
<1>1. n \in Ids /\ ~InUse(n)
  BY DEF Send, Fresh
<1>2. /\ call' = [call EXCEPT ![c] = r]
      /\ server' = [server EXCEPT ![c] = "received"]
      /\ reply' = reply
      /\ UNCHANGED <<tables, stored, late, faults>>
      /\ call[c] = NoCall
  BY DEF Send
<1> HIDE DEF n
<1>3. r \in Request
  BY <1>1 DEF Request, AnyId
<1>4. RequestIsSound(r)
  BY <1>1 DEF RequestIsSound
<1>5. reply[c] = "none"
  BY <1>2 DEF Sound, CallsAreSound, AnswerIsSound, NoCall
<1>6. AnswerIsSound(r, "received", reply[c])
  BY <1>1, <1>5 DEF AnswerIsSound, InUse
<1>7. \A d \in Calls \ {c} : r.new = call[d].new => r.new = NoId
  BY <1>1 DEF InUse
<1>8. /\ reply' = [reply EXCEPT ![c] = reply[c]]
      /\ reply[c] \in Replies
      /\ stored' \in Store /\ late' \in SUBSET Ids
      /\ faults' \in 0 .. MaxFaults
      /\ "received" \in Places
  BY <1>2 DEF Sound, TypeOK, Replies, Places
<1> HIDE DEF r
<1> QED
  BY <1>2, <1>3, <1>4, <1>6, <1>7, <1>8, CallStepSound

(* What a handler finds out without having to write.                       *)
LEMMA RefuseSound ==
  ASSUME Sound, NEW c \in Calls, server[c] # "idle",
         NEW why \in {"refused", "reused", "ok", "failed"},
         reply' = [reply EXCEPT ![c] = why],
         server' = [server EXCEPT ![c] = "idle"],
         UNCHANGED <<tables, call, stored>>,
         late' \in SUBSET Ids, faults' \in 0 .. MaxFaults,
         why = "ok" => call[c].kind \notin {"login", "register", "refresh"}
  PROVE  Sound'
<1> DEFINE r == call[c]
<1>1. r \in Request /\ call' = [call EXCEPT ![c] = r]
  BY DEF Sound, TypeOK
<1>2. RequestIsSound(r) /\ AnswerIsSound(r, server[c], reply[c])
  BY DEF Sound, CallsAreSound
<1>3. \A d \in Calls \ {c} : r.new = call[d].new => r.new = NoId
  BY OwnId
<1> HIDE DEF r
<1>4. AnswerIsSound(r, "idle", why)
  BY <1>2 DEF AnswerIsSound, r
<1>5. stored' \in Store /\ why \in Replies /\ "idle" \in Places
  BY DEF Sound, TypeOK, Replies, Places
<1> QED
  BY <1>1, <1>2, <1>3, <1>4, <1>5, CallStepSound

(* What a handler finds out and will write; a registration has not replied *)
(* yet.                                                                    *)
LEMMA AnswerSound ==
  ASSUME Sound, NEW c \in Calls, server[c] = "received",
         NEW r \in Request, NEW v \in Replies,
         call' = [call EXCEPT ![c] = r],
         server' = [server EXCEPT ![c] = "writing"],
         reply' = [reply EXCEPT ![c] = v],
         UNCHANGED <<tables, stored, faults>>, late' \in SUBSET Ids,
         r.new = call[c].new, r.kind = call[c].kind,
         RequestIsSound(r),
         r.kind = "refresh" => family[r.sent] = r.sid,
         r.kind \in {"login", "register", "refresh"} => r.sid \in Ids
  PROVE  Sound'
<1>1. AnswerIsSound(call[c], "received", reply[c])
  BY DEF Sound, CallsAreSound
<1>2. AnswerIsSound(r, "writing", v)
  BY <1>1 DEF AnswerIsSound
<1>3. \A d \in Calls \ {c} : r.new = call[d].new => r.new = NoId
  BY OwnId
<1>4. /\ stored' \in Store /\ faults' \in 0 .. MaxFaults
      /\ "writing" \in Places
  BY DEF Sound, TypeOK, Places
<1> QED
  BY <1>2, <1>3, <1>4, CallStepSound

(* Only logins are ever marked late.                                       *)
LEMMA LateIds ==
  ASSUME Sound, NEW c \in Calls, Serve(c)
  PROVE  late' \in SUBSET Ids
<1>1. \A d \in Calls : server[d] # "idle" => call[d].new \in Ids
  BY DEF Sound, CallsAreSound, RequestIsSound, AnswerIsSound
<1>2. late \in SUBSET Ids /\ server[c] = "received"
  BY DEF Serve, Sound, TypeOK
<1>3. CASE ServeLogin(c)
  BY <1>1, <1>2, <1>3 DEF ServeLogin
<1>4. CASE ServeChange(c)
  BY <1>1, <1>2, <1>4 DEF ServeChange, Open
<1>5. CASE UNCHANGED late
  BY <1>2, <1>5
<1> QED
  BY <1>3, <1>4, <1>5 DEF Serve

LEMMA ServeSound ==
  ASSUME Sound, NEW c \in Calls, Serve(c)
  PROVE  Sound'
<1> DEFINE q == call[c]
<1>1. /\ server[c] = "received"
      /\ UNCHANGED <<tables, stored, faults>>
      /\ late' \in SUBSET Ids /\ faults' \in 0 .. MaxFaults
  BY LateIds DEF Serve, Sound, TypeOK
<1>2. /\ q \in Request /\ RequestIsSound(q)
      /\ q.kind # "none" /\ q.new \in Ids
      /\ reply[c] \in Replies
      /\ reply = [reply EXCEPT ![c] = reply[c]]
  BY <1>1 DEF Sound, TypeOK, CallsAreSound, AnswerIsSound, RequestIsSound,
              Replies
<1>3. ASSUME NEW why \in {"refused", "reused"}, Refuse(c, why)
      PROVE  Sound'
  BY <1>1, <1>3, RefuseSound DEF Refuse
<1>4. ASSUME NEW s \in Ids,
             q.kind = "refresh" => family[q.sent] = s,
             call' = [call EXCEPT ![c] = [q EXCEPT !.sid = s]],
             server' = [server EXCEPT ![c] = "writing"],
             \/ reply' = [reply EXCEPT ![c] = "ok"]
             \/ UNCHANGED reply
      PROVE  Sound'
  <2> DEFINE r == [q EXCEPT !.sid = s]
  <2> HIDE DEF q
  <2>1. /\ r \in Request
        /\ r.kind = q.kind /\ r.new = q.new /\ r.sent = q.sent
        /\ r.pw = q.pw /\ r.revokes = q.revokes /\ r.sid = s
    BY <1>2 DEF Request, AnyId
  <2> HIDE DEF r
  <2>2. RequestIsSound(r)
    BY <1>2, <2>1 DEF RequestIsSound
  <2>3. call' = [call EXCEPT ![c] = r]
    BY <1>4 DEF r
  <2>4. PICK v \in Replies : reply' = [reply EXCEPT ![c] = v]
    BY <1>2, <1>4 DEF Replies
  <2>5. r.new = call[c].new /\ r.kind = call[c].kind
    BY <2>1 DEF q
  <2> QED
    BY <1>1, <1>4, <2>1, <2>2, <2>3, <2>4, <2>5, AnswerSound
<1>5. ASSUME NEW R \in SUBSET Ids, \A s \in R : session[s] # "absent",
             q.kind \in {"logout", "change"},
             call' = [call EXCEPT ![c] = [q EXCEPT !.revokes = R]],
             server' = [server EXCEPT ![c] = "writing"],
             reply' = [reply EXCEPT ![c] = "ok"]
      PROVE  Sound'
  <2> DEFINE r == [q EXCEPT !.revokes = R]
  <2> HIDE DEF q
  <2>1. /\ r \in Request
        /\ r.kind = q.kind /\ r.new = q.new /\ r.sent = q.sent
        /\ r.pw = q.pw /\ r.revokes = R
    BY <1>2 DEF Request
  <2> HIDE DEF r
  <2>2. RequestIsSound(r)
    BY <1>2, <1>5, <2>1 DEF RequestIsSound
  <2>3. call' = [call EXCEPT ![c] = r] /\ "ok" \in Replies
    BY <1>5 DEF r, Replies
  <2>4. /\ r.new = call[c].new /\ r.kind = call[c].kind
        /\ r.kind \notin {"login", "register", "refresh"}
    BY <1>5, <2>1 DEF q
  <2> QED
    BY <1>1, <1>5, <2>1, <2>2, <2>3, <2>4, AnswerSound
<1>6. CASE ServeLogin(c)
  <2>1. Refuse(c, "refused") \/ Answer(c, [q EXCEPT !.sid = q.new])
    BY <1>6 DEF ServeLogin
  <2>2. q.kind # "refresh"
    BY <1>6 DEF ServeLogin
  <2> QED
    BY <1>2, <1>3, <1>4, <2>1, <2>2 DEF Answer
<1>7. CASE ServeRegister(c)
  <2>1. CASE password # 0
    BY <1>3, <1>7, <2>1 DEF ServeRegister
  <2>2. CASE password = 0
    <3>1. /\ call' = [call EXCEPT ![c] = [q EXCEPT !.sid = q.new]]
          /\ server' = [server EXCEPT ![c] = "writing"]
          /\ UNCHANGED reply
          /\ q.kind # "refresh"
      BY <1>7, <2>2 DEF ServeRegister
    <3> QED
      BY <1>2, <1>4, <3>1
  <2> QED
    BY <2>1, <2>2
<1>8. CASE ServeRefresh(c)
  <2> DEFINE s == family[q.sent]
  <2>1. q.kind = "refresh" /\ q.sent \in Ids /\ s \in AnyId
    BY <1>2, <1>8 DEF ServeRefresh, RequestIsSound, Sound, TypeOK
  <2>2. \/ \E why \in {"refused", "reused"} : Refuse(c, why)
        \/ s # NoId /\ Answer(c, [q EXCEPT !.sid = s])
    BY <1>8 DEF ServeRefresh
  <2>3. CASE s # NoId /\ Answer(c, [q EXCEPT !.sid = s])
    BY <1>4, <2>1, <2>3 DEF Answer, AnyId
  <2> QED
    BY <1>3, <2>2, <2>3
<1>9. CASE ServeLogout(c)
  <2> DEFINE s == family[q.sent]
  <2>1. q.kind = "logout" /\ q.sent \in Ids /\ s \in AnyId
    BY <1>2, <1>9 DEF ServeLogout, RequestIsSound, Sound, TypeOK
  <2>2. \/ Refuse(c, "refused")
        \/ Refuse(c, "ok")
        \/ Active(s) /\ Answer(c, [q EXCEPT !.revokes = {s}])
    BY <1>9 DEF ServeLogout
  <2>3. CASE Refuse(c, "ok")
    BY <1>1, <2>1, <2>3, RefuseSound DEF Refuse
  <2>4. CASE Active(s) /\ Answer(c, [q EXCEPT !.revokes = {s}])
    <3>1. s \in Ids /\ session[s] # "absent"
      BY <2>1, <2>4 DEF Active, AnyId
    <3>2. /\ call' = [call EXCEPT ![c] = [q EXCEPT !.revokes = {s}]]
          /\ server' = [server EXCEPT ![c] = "writing"]
          /\ reply' = [reply EXCEPT ![c] = "ok"]
      BY <2>4 DEF Answer
    <3> DEFINE R == {s}
    <3>3. R \in SUBSET Ids /\ \A x \in R : session[x] # "absent"
      BY <3>1
    <3>4. call' = [call EXCEPT ![c] = [q EXCEPT !.revokes = R]]
      BY <3>2
    <3>5. q.kind \in {"logout", "change"}
      BY <2>1
    <3> HIDE DEF R, s, q
    <3> QED
      BY <1>5, <3>2, <3>3, <3>4, <3>5
  <2> QED
    BY <1>3, <2>2, <2>3, <2>4
<1>10. CASE ServeChange(c)
  <2>1. q.kind = "change" /\ Answer(c, [q EXCEPT !.revokes = Victims])
    BY <1>10 DEF ServeChange
  <2> DEFINE R == Victims
  <2>2. /\ call' = [call EXCEPT ![c] = [q EXCEPT !.revokes = R]]
        /\ server' = [server EXCEPT ![c] = "writing"]
        /\ reply' = [reply EXCEPT ![c] = "ok"]
    BY <2>1 DEF Answer
  <2>3. R \in SUBSET Ids /\ \A x \in R : session[x] # "absent"
    BY DEF Victims
  <2>4. q.kind \in {"logout", "change"}
    BY <2>1
  <2> HIDE DEF R, q
  <2> QED
    BY <1>5, <2>2, <2>3, <2>4
<1> QED
  BY <1>6, <1>7, <1>8, <1>9, <1>10 DEF Serve

-----------------------------------------------------------------------------
(* Replies, faults and time. *)

LEMMA TakeReplySound ==
  ASSUME Sound, NEW c \in Calls, TakeReply(c)
  PROVE  Sound'
<1> DEFINE q == call[c]
<1>1. /\ q \in Request /\ RequestIsSound(q)
      /\ AnswerIsSound(q, server[c], reply[c])
      /\ server = [server EXCEPT ![c] = server[c]]
      /\ call = [call EXCEPT ![c] = q]
      /\ server[c] \in Places
      /\ late \in SUBSET Ids /\ faults \in 0 .. MaxFaults
  BY DEF Sound, TypeOK, CallsAreSound, Places
<1>2. stored' \in Store
  <2>1. NoStore \in Store /\ stored \in Store
    BY DEF Store, Sound, TypeOK
  <2>2. ASSUME reply[c] = "ok",
               q.kind \in {"login", "register", "refresh"}
        PROVE  Save(c) \in Store
    <3>1. q.new \in Ids /\ q.sid \in Ids
      BY <1>1, <2>2 DEF RequestIsSound, AnswerIsSound
    <3> QED
      BY <3>1 DEF Save, Store
  <2>3. stored' = NewStore(c)
    BY DEF TakeReply
  <2>4. CASE q.kind \in {"login", "register"}
    BY <2>1, <2>2, <2>3, <2>4 DEF NewStore
  <2>5. CASE q.kind = "refresh"
    BY <2>1, <2>2, <2>3, <2>5 DEF NewStore
  <2>6. CASE q.kind \notin {"login", "register", "refresh"}
    BY <2>1, <2>3, <2>6 DEF NewStore
  <2> QED
    BY <2>4, <2>5, <2>6
<1>3. CASE server[c] = "writing"
  <2>1. /\ reply' = [reply EXCEPT ![c] = "taken"]
        /\ UNCHANGED <<call, server, tables, late, faults>>
    BY <1>3 DEF TakeReply
  <2>2. AnswerIsSound(q, server[c], "taken") /\ "taken" \in Replies
    BY <1>1, <1>3 DEF AnswerIsSound, Replies
  <2>3. \A d \in Calls \ {c} : q.new = call[d].new => q.new = NoId
    BY OwnId
  <2> HIDE DEF q
  <2> QED
    BY <1>1, <1>2, <2>1, <2>2, <2>3, CallStepSound
<1>4. CASE server[c] # "writing"
  <2>1. /\ reply' = [reply EXCEPT ![c] = "none"]
        /\ call' = [call EXCEPT ![c] = NoCall]
        /\ UNCHANGED <<server, tables, late, faults>>
        /\ reply[c] # "none"
    BY <1>4 DEF TakeReply
  <2>2. server[c] = "idle"
    BY <1>1, <1>4, <2>1 DEF AnswerIsSound, Places
  <2>3. /\ server' = [server EXCEPT ![c] = "idle"]
        /\ "idle" \in Places /\ "none" \in Replies
    BY <1>1, <2>1, <2>2 DEF Places, Replies
  <2> QED
    BY <1>1, <1>2, <2>1, <2>3, NoCallIsSound, CallStepSound
<1> QED
  BY <1>3, <1>4

(* The end of a request at the server.                                     *)
LEMMA FinishEffect ==
  ASSUME Sound, NEW c \in Calls, Finish(c)
  PROVE  \E r \in {call[c], NoCall}, v \in Replies :
            /\ r \in Request /\ RequestIsSound(r)
            /\ AnswerIsSound(r, "idle", v)
            /\ call' = [call EXCEPT ![c] = r]
            /\ server' = [server EXCEPT ![c] = "idle"]
            /\ reply' = [reply EXCEPT ![c] = v]
            /\ r # NoCall => v = reply[c]
<1>1. CASE reply[c] = "taken"
  <2>1. /\ call' = [call EXCEPT ![c] = NoCall]
        /\ server' = [server EXCEPT ![c] = "idle"]
        /\ reply' = [reply EXCEPT ![c] = "none"]
        /\ "none" \in Replies
    BY <1>1 DEF Finish, Replies
  <2> QED
    BY <2>1, NoCallIsSound
<1>2. CASE reply[c] # "taken"
  <2> DEFINE r == call[c]
  <2>1. /\ call' = [call EXCEPT ![c] = r]
        /\ server' = [server EXCEPT ![c] = "idle"]
        /\ reply' = [reply EXCEPT ![c] = reply[c]]
        /\ r \in Request /\ reply[c] \in Replies
        /\ RequestIsSound(r) /\ AnswerIsSound(r, server[c], reply[c])
    BY <1>2 DEF Finish, Sound, TypeOK, CallsAreSound, Replies
  <2>2. AnswerIsSound(r, "idle", reply[c])
    BY <2>1 DEF AnswerIsSound
  <2> QED
    BY <2>1, <2>2
<1> QED
  BY <1>1, <1>2

LEMMA FaultSound ==
  ASSUME Sound, NEW c \in Calls,
         LoseRequest(c) \/ LoseReply(c) \/ LoseCommit(c)
  PROVE  Sound'
<1>1. /\ faults' \in 0 .. MaxFaults /\ late' \in SUBSET Ids
      /\ UNCHANGED <<tables, stored>>
  BY DEF LoseRequest, LoseReply, LoseCommit, Fault, Sound, TypeOK
<1>2. CASE LoseRequest(c)
  BY <1>1, <1>2, RefuseSound DEF LoseRequest
<1>3. CASE LoseReply(c)
  <2> DEFINE r == call[c]
  <2>1. /\ r \in Request /\ RequestIsSound(r)
        /\ AnswerIsSound(r, server[c], reply[c])
        /\ server' = [server EXCEPT ![c] = server[c]]
        /\ call' = [call EXCEPT ![c] = r]
        /\ reply' = [reply EXCEPT ![c] = "failed"]
        /\ server[c] \in Places /\ reply[c] # "none"
        /\ "failed" \in Replies /\ stored' \in Store
    BY <1>1, <1>3 DEF LoseReply, Sound, TypeOK, CallsAreSound, Places, Replies
  <2>2. AnswerIsSound(r, server[c], "failed")
    BY <2>1 DEF AnswerIsSound
  <2>3. \A d \in Calls \ {c} : r.new = call[d].new => r.new = NoId
    BY OwnId
  <2> HIDE DEF r
  <2> QED
    BY <1>1, <2>1, <2>2, <2>3, CallStepSound
<1>4. CASE LoseCommit(c)
  <2>1. PICK r \in {call[c], NoCall}, v \in Replies :
            /\ r \in Request /\ RequestIsSound(r)
            /\ AnswerIsSound(r, "idle", v)
            /\ call' = [call EXCEPT ![c] = r]
            /\ server' = [server EXCEPT ![c] = "idle"]
            /\ reply' = [reply EXCEPT ![c] = v]
    BY <1>4, FinishEffect DEF LoseCommit
  <2>2. \A d \in Calls \ {c} : r.new = call[d].new => r.new = NoId
    BY OwnId, NoCallIsSound
  <2>3. stored' \in Store /\ "idle" \in Places
    BY <1>1 DEF Sound, TypeOK, Places
  <2> QED
    BY <1>1, <2>1, <2>2, <2>3, CallStepSound
<1> QED
  BY <1>2, <1>3, <1>4

-----------------------------------------------------------------------------
(* Commits. *)

(* What the tables may do to the other calls: they grow by the id of the   *)
(* call that commits, no session disappears, and neither does the user.    *)
Grow(c) ==
    /\ \A s \in Ids : session[s] # "absent" => session'[s] # "absent"
    /\ \A t \in Ids : t # call[c].new => family'[t] = family[t]
    /\ password > 0 => password' > 0

LEMMA CommitKeepsCalls ==
  ASSUME Sound, NEW c \in Calls, server[c] = "writing", Grow(c),
         NEW r \in {call[c], NoCall}, NEW v \in Replies,
         RequestIsSound(r), AnswerIsSound(r, "idle", v),
         call' = [call EXCEPT ![c] = r],
         server' = [server EXCEPT ![c] = "idle"],
         reply' = [reply EXCEPT ![c] = v]
  PROVE  CallsAreSound'
<1>1. ASSUME NEW q \in Request, RequestIsSound(q) PROVE RequestIsSound(q)'
  BY <1>1 DEF RequestIsSound, Request, Grow
<1>2. call[c].new \in Ids /\ family[call[c].new] = NoId
  BY DEF Sound, CallsAreSound, RequestIsSound, AnswerIsSound
<1>3. ASSUME NEW d \in Calls
      PROVE  /\ RequestIsSound(call[d])'
             /\ AnswerIsSound(call[d], server[d], reply[d])'
  <2>1. CASE d = c
    <3>1. /\ call'[d] = r /\ server'[d] = "idle" /\ reply'[d] = v
          /\ r \in Request
      BY <2>1, NoCallIsSound DEF Sound, TypeOK
    <3>2. RequestIsSound(r)'
      BY <1>1, <3>1
    <3> QED
      BY <3>1, <3>2 DEF RequestIsSound, AnswerIsSound
  <2>2. CASE d # c
    <3> DEFINE q == call[d]
    <3>1. /\ call'[d] = q /\ server'[d] = server[d] /\ reply'[d] = reply[d]
          /\ q \in Request /\ server[d] \in Places
      BY <2>2 DEF Sound, TypeOK, Places
    <3>2. RequestIsSound(q) /\ AnswerIsSound(q, server[d], reply[d])
      BY DEF Sound, CallsAreSound
    <3>3. RequestIsSound(call[d])'
      BY <1>1, <3>1, <3>2
    <3>4. q.new # NoId => q.new # call[c].new
      BY <2>2 DEF Sound, CallsAreSound, IdsAreUnique
    <3>5. server[d] # "idle" => family'[q.new] = NoId
      BY <1>2, <3>2, <3>4 DEF Grow, RequestIsSound, AnswerIsSound
    <3>6. server[d] = "writing" /\ q.kind = "refresh" =>
             family'[q.sent] = q.sid
      BY <1>2, <3>2 DEF Grow, RequestIsSound, AnswerIsSound
    <3> QED
      BY <3>1, <3>2, <3>3, <3>5, <3>6 DEF AnswerIsSound
  <2> QED
    BY <2>1, <2>2
<1>4. IdsAreUnique'
  BY NoCallIsSound DEF Sound, TypeOK, CallsAreSound, IdsAreUnique
<1> QED
  BY <1>3, <1>4 DEF CallsAreSound

(* A session that opens has the id of its call, which nothing else bears.  *)
LEMMA OpenSound ==
  ASSUME Sound, NEW c \in Calls, server[c] = "writing",
         call[c].kind \in {"login", "register"}, NEW p \in Nat \ {0},
         OpenSession(c, p), password' \in Nat \ {0},
         UNCHANGED expired
  PROVE  /\ Lineage' /\ SessionsHaveTokens' /\ Grow(c)
         /\ session' \in [Ids -> {"absent", "active", "revoked"}]
         /\ verified' \in [Ids -> Nat]
         /\ family' \in [Ids -> AnyId]
         /\ parent' \in [Ids -> AnyId]
         /\ consumed' \in SUBSET Ids /\ expired' \in SUBSET Ids
<1> DEFINE n == call[c].new
<1>1. n \in Ids /\ family[n] = NoId
  BY DEF Sound, CallsAreSound, RequestIsSound, AnswerIsSound
<1>2. /\ session' = [session EXCEPT ![n] = "active"]
      /\ verified' = [verified EXCEPT ![n] = p]
      /\ family' = [family EXCEPT ![n] = n]
      /\ parent' = parent /\ consumed' = consumed /\ expired' = expired
  BY DEF OpenSession
<1> HIDE DEF n
<1>3. /\ session' \in [Ids -> {"absent", "active", "revoked"}]
      /\ verified' \in [Ids -> Nat]
      /\ family' \in [Ids -> AnyId]
      /\ parent' \in [Ids -> AnyId]
      /\ consumed' \in SUBSET Ids /\ expired' \in SUBSET Ids
  BY <1>1, <1>2 DEF Sound, TypeOK, AnyId
<1>4. Lineage'
  BY <1>1, <1>2, <1>3 DEF Sound, TypeOK, Lineage, AnyId
<1>5. SessionsHaveTokens'
  BY <1>1, <1>2, <1>3 DEF Sound, TypeOK, SessionsHaveTokens
<1>6. Grow(c)
  BY <1>1, <1>2 DEF Sound, TypeOK, Grow, n
<1> QED
  BY <1>3, <1>4, <1>5, <1>6

LEMMA CommitSound ==
  ASSUME Sound, NEW c \in Calls, Commit(c)
  PROVE  Sound'
<1> DEFINE q == call[c]
<1>1. /\ server[c] = "writing" /\ q.kind # "register"
      /\ Finish(c) /\ UNCHANGED <<expired, stored, late, faults>>
  BY DEF Commit
<1>2. /\ q \in Request /\ RequestIsSound(q)
      /\ AnswerIsSound(q, "writing", reply[c])
      /\ q.new \in Ids /\ family[q.new] = NoId
  BY <1>1 DEF Sound, TypeOK, CallsAreSound, RequestIsSound, AnswerIsSound
<1>3. /\ Lineage' /\ SessionsHaveTokens' /\ Grow(c)
      /\ password' \in Nat
      /\ session' \in [Ids -> {"absent", "active", "revoked"}]
      /\ verified' \in [Ids -> Nat]
      /\ family' \in [Ids -> AnyId]
      /\ parent' \in [Ids -> AnyId]
      /\ consumed' \in SUBSET Ids /\ expired' \in SUBSET Ids
  <2>1. CASE q.kind = "login"
    <3>1. OpenSession(c, q.pw) /\ password' = password
      BY <2>1 DEF Commit
    <3>2. password \in Nat \ {0} /\ q.pw \in Nat \ {0}
      BY <1>2, <2>1 DEF RequestIsSound, Request, Sound, TypeOK
    <3> QED
      BY <1>1, <2>1, <3>1, <3>2, OpenSound
  <2>2. CASE q.kind = "refresh"
    <3> DEFINE n == q.new  t == q.sent  s == q.sid
    <3>1. /\ consumed' = consumed \cup {t}
          /\ family' = [family EXCEPT ![n] = s]
          /\ parent' = [parent EXCEPT ![n] = t]
          /\ UNCHANGED <<password, session, verified, expired>>
      BY <1>1, <2>2 DEF Commit, WriteRefresh
    <3>2. /\ n \in Ids /\ t \in Ids /\ s \in Ids /\ n # t
          /\ family[n] = NoId /\ family[t] = s /\ s # NoId
      BY <1>2, <2>2 DEF RequestIsSound, AnswerIsSound
    <3> HIDE DEF n, t, s
    <3>3. /\ password' \in Nat
          /\ session' \in [Ids -> {"absent", "active", "revoked"}]
          /\ verified' \in [Ids -> Nat]
          /\ family' \in [Ids -> AnyId]
          /\ parent' \in [Ids -> AnyId]
          /\ consumed' \in SUBSET Ids /\ expired' \in SUBSET Ids
      BY <3>1, <3>2 DEF Sound, TypeOK, AnyId
    <3>4. Lineage'
      BY <3>1, <3>2 DEF Sound, TypeOK, Lineage, AnyId
    <3>5. SessionsHaveTokens'
      BY <3>1, <3>2 DEF Sound, TypeOK, SessionsHaveTokens
    <3>6. Grow(c)
      BY <3>1, <3>2 DEF Sound, TypeOK, Grow, n
    <3> QED
      BY <3>3, <3>4, <3>5, <3>6
  <2>3. CASE q.kind \notin {"login", "refresh"}
    <3>1. /\ session' = [s \in Ids |-> IF s \in q.revokes THEN "revoked"
                                                        ELSE session[s]]
          /\ password' \in {password, password + 1}
          /\ UNCHANGED <<verified, family, parent, consumed, expired>>
      BY <1>1, <2>3 DEF Commit, WriteRevocations
    <3>2. \A s \in q.revokes : session[s] # "absent"
      BY <1>2 DEF RequestIsSound
    <3> HIDE DEF q
    <3>3. \A s \in Ids : session'[s] = "absent" <=> session[s] = "absent"
      BY <3>1, <3>2
    <3>4. password \in Nat /\ (password > 0 => password' > 0)
      BY <3>1 DEF Sound, TypeOK
    <3>5. /\ password' \in Nat
          /\ session' \in [Ids -> {"absent", "active", "revoked"}]
          /\ verified' \in [Ids -> Nat]
          /\ family' \in [Ids -> AnyId]
          /\ parent' \in [Ids -> AnyId]
          /\ consumed' \in SUBSET Ids /\ expired' \in SUBSET Ids
      BY <3>1, <3>4 DEF Sound, TypeOK
    <3>6. Lineage' /\ SessionsHaveTokens'
      BY <3>1, <3>3, <3>4 DEF Sound, TypeOK, Lineage, SessionsHaveTokens, AnyId
    <3>7. Grow(c)
      BY <3>1, <3>3, <3>4 DEF Grow
    <3> QED
      BY <3>5, <3>6, <3>7
  <2> QED
    BY <1>1, <2>1, <2>2, <2>3
<1>4. PICK r \in {call[c], NoCall}, v \in Replies :
          /\ r \in Request /\ RequestIsSound(r) /\ AnswerIsSound(r, "idle", v)
          /\ call' = [call EXCEPT ![c] = r]
          /\ server' = [server EXCEPT ![c] = "idle"]
          /\ reply' = [reply EXCEPT ![c] = v]
  BY <1>1, FinishEffect
<1>5. CallsAreSound'
  BY <1>1, <1>3, <1>4, CommitKeepsCalls
<1>6. TypeOK'
  <2>1. /\ call' \in [Calls -> Request]
        /\ server' \in [Calls -> {"idle", "received", "writing"}]
        /\ reply' \in [Calls -> Replies]
    BY <1>4 DEF Sound, TypeOK, Replies
  <2>2. /\ stored' \in Store /\ late' \in SUBSET Ids
        /\ faults' \in 0 .. MaxFaults
    BY <1>1 DEF Sound, TypeOK
  <2> QED
    BY <1>3, <2>1, <2>2 DEF TypeOK, Replies
<1> QED
  BY <1>3, <1>5, <1>6 DEF Sound

LEMMA CommitRegisterSound ==
  ASSUME Sound, NEW c \in Calls, CommitRegister(c)
  PROVE  Sound'
<1> DEFINE r == call[c]
<1>1. /\ server[c] = "writing" /\ r.kind = "register"
      /\ server' = [server EXCEPT ![c] = "idle"]
      /\ UNCHANGED <<call, expired, stored, late, faults>>
  BY DEF CommitRegister
<1>2. /\ r \in Request /\ RequestIsSound(r)
      /\ AnswerIsSound(r, "writing", reply[c])
      /\ call' = [call EXCEPT ![c] = r]
      /\ late \in SUBSET Ids /\ faults \in 0 .. MaxFaults
      /\ stored \in Store
  BY <1>1 DEF Sound, TypeOK, CallsAreSound
<1>3. CASE password # 0
  <2>1. /\ reply' = [reply EXCEPT ![c] = "refused"]
        /\ UNCHANGED tables
    BY <1>1, <1>3 DEF CommitRegister, tables
  <2> QED
    BY <1>1, <1>2, <2>1, RefuseSound
<1>4. CASE password = 0
  <2>1. /\ password' = 1 /\ OpenSession(c, 1)
        /\ reply' = [reply EXCEPT ![c] = "ok"]
    BY <1>4 DEF CommitRegister
  <2>2. /\ Lineage' /\ SessionsHaveTokens' /\ Grow(c)
        /\ session' \in [Ids -> {"absent", "active", "revoked"}]
        /\ verified' \in [Ids -> Nat]
        /\ family' \in [Ids -> AnyId]
        /\ parent' \in [Ids -> AnyId]
        /\ consumed' \in SUBSET Ids /\ expired' \in SUBSET Ids
    BY <1>1, <2>1, OpenSound
  <2>3. AnswerIsSound(r, "idle", "ok") /\ "ok" \in Replies
    BY <1>1, <1>2 DEF AnswerIsSound, Replies
  <2>4. CallsAreSound'
    BY <1>1, <1>2, <2>1, <2>2, <2>3, CommitKeepsCalls
  <2>5. TypeOK'
    BY <1>1, <1>2, <2>1, <2>2 DEF Sound, TypeOK
  <2> QED
    BY <2>2, <2>4, <2>5 DEF Sound
<1> QED
  BY <1>3, <1>4

-----------------------------------------------------------------------------
(* Every step. *)

LEMMA ClockSound ==
  ASSUME Sound, \/ AccessAges
                \/ \E t \in Ids : Expire(t)
  PROVE  Sound'
<1>1. CASE AccessAges
  <2>1. stored # NoStore /\ stored \in Store
    BY <1>1 DEF AccessAges, Sound, TypeOK, NoStore
  <2>2. stored \in [refresh : Ids, access : Ids, fresh : BOOLEAN]
    BY <2>1 DEF Store
  <2>3. stored' \in Store
    BY <1>1, <2>2 DEF AccessAges, Store
  <2> QED
    BY <1>1, <2>3 DEF AccessAges, tables, Sound, TypeOK, Lineage,
       CallsAreSound, SessionsHaveTokens, RequestIsSound, AnswerIsSound,
       IdsAreUnique
<1>2. ASSUME NEW t \in Ids, Expire(t) PROVE Sound'
  BY <1>2 DEF Expire, Sound, TypeOK, Lineage,
     CallsAreSound, SessionsHaveTokens, RequestIsSound, AnswerIsSound,
     IdsAreUnique
<1> QED
  BY <1>1, <1>2

LEMMA SendsSound ==
  ASSUME Sound, NEW c \in Calls,
         \/ Register(c) \/ Login(c) \/ Refresh(c) \/ Logout(c)
         \/ ChangePassword(c)
  PROVE  Sound'
<1>1. /\ stored # NoStore => stored.refresh \in Ids /\ stored.access \in Ids
      /\ password \in Nat
      /\ NoId \in AnyId /\ Ids \subseteq AnyId
  BY DEF Sound, TypeOK, Store, AnyId
<1>2. CASE Register(c)
  BY <1>1, <1>2, SendSound DEF Register, Kinds
<1>3. CASE Login(c)
  BY <1>1, <1>3, SendSound DEF Login, Kinds
<1>4. CASE Refresh(c)
  BY <1>1, <1>4, SendSound DEF Refresh, Kinds
<1>5. CASE Logout(c)
  BY <1>1, <1>5, SendSound DEF Logout, Kinds
<1>6. CASE ChangePassword(c)
  BY <1>1, <1>6, SendSound DEF ChangePassword, Kinds
<1> QED
  BY <1>2, <1>3, <1>4, <1>5, <1>6

LEMMA SoundStep == Sound /\ [Next]_vars => Sound'
<1> SUFFICES ASSUME Sound, [Next]_vars PROVE Sound'
  OBVIOUS
<1>1. CASE UNCHANGED vars
  BY <1>1 DEF vars, tables, Sound, TypeOK, Lineage, CallsAreSound,
     SessionsHaveTokens, RequestIsSound, AnswerIsSound, IdsAreUnique
<1>2. ASSUME NEW c \in Calls, CallStep(c) PROVE Sound'
  BY <1>2, ServeSound, CommitSound, CommitRegisterSound, TakeReplySound
     DEF CallStep
<1> QED
  BY <1>1, <1>2, ClockSound, SendsSound, FaultSound DEF Next

-----------------------------------------------------------------------------
(* Revocations. *)

(* A call that is about to exchange a token did so before the step, or has *)
(* found its session active in it.                                         *)
NoLateExchange ==
    \A d \in Calls :
        server'[d] = "writing" /\ call'[d].kind = "refresh" =>
            \/ server[d] = "writing" /\ call'[d] = call[d]
            \/ session[call'[d].sid] = "active"

(* A step at one call, which it does not leave about to write unless it    *)
(* was or unless it serves something else than a refresh.                  *)
LEMMA OneCallMoves ==
  ASSUME Sound, NEW c \in Calls,
         \A d \in Calls \ {c} : call'[d] = call[d] /\ server'[d] = server[d],
         server'[c] = "writing" /\ call'[c].kind = "refresh" =>
            \/ server[c] = "writing" /\ call'[c] = call[c]
            \/ session[call'[c].sid] = "active"
  PROVE  NoLateExchange
  BY DEF NoLateExchange

LEMMA ServeExchanges ==
  ASSUME Sound, NEW c \in Calls, Serve(c)
  PROVE  NoLateExchange
<1> DEFINE q == call[c]
<1>1. q \in Request
  BY DEF Sound, TypeOK
<1>2. ASSUME NEW why, Refuse(c, why) PROVE NoLateExchange
  BY <1>2 DEF Refuse, Sound, TypeOK, NoLateExchange
<1>3. ASSUME NEW r, r.kind = "refresh" => Active(r.sid), Answer(c, r)
      PROVE  NoLateExchange
  BY <1>3, OneCallMoves DEF Answer, Sound, TypeOK, Active
<1>4. CASE ServeLogin(c)
  <2>1. [q EXCEPT !.sid = q.new].kind # "refresh"
    BY <1>1, <1>4 DEF ServeLogin, Request
  <2> QED
    BY <1>2, <1>3, <1>4, <2>1 DEF ServeLogin
<1>5. CASE ServeRegister(c)
  <2>1. CASE password # 0
    BY <1>2, <1>5, <2>1 DEF ServeRegister
  <2>2. CASE password = 0
    <3>1. /\ call' = [call EXCEPT ![c] = [q EXCEPT !.sid = q.new]]
          /\ server' = [server EXCEPT ![c] = "writing"]
          /\ q.kind = "register"
      BY <1>5, <2>2 DEF ServeRegister
    <3>2. [q EXCEPT !.sid = q.new].kind # "refresh"
      BY <1>1, <3>1 DEF Request
    <3> QED
      BY <3>1, <3>2, OneCallMoves DEF Sound, TypeOK
  <2> QED
    BY <2>1, <2>2
<1>6. CASE ServeRefresh(c)
  <2> DEFINE s == family[q.sent]
  <2>1. \/ \E why \in {"refused", "reused"} : Refuse(c, why)
        \/ Active(s) /\ Answer(c, [q EXCEPT !.sid = s])
    BY <1>6 DEF ServeRefresh
  <2>2. [q EXCEPT !.sid = s].sid = s
    BY <1>1 DEF Request
  <2> QED
    BY <1>2, <1>3, <2>1, <2>2
<1>7. CASE ServeLogout(c)
  <2> DEFINE s == family[q.sent]
  <2>1. \/ \E why \in {"refused", "ok"} : Refuse(c, why)
        \/ Answer(c, [q EXCEPT !.revokes = {s}])
    BY <1>7 DEF ServeLogout
  <2>2. [q EXCEPT !.revokes = {s}].kind # "refresh"
    BY <1>1, <1>7 DEF ServeLogout, Request
  <2> QED
    BY <1>2, <1>3, <2>1, <2>2
<1>8. CASE ServeChange(c)
  <2>1. [q EXCEPT !.revokes = Victims].kind # "refresh"
    BY <1>1, <1>8 DEF ServeChange, Request
  <2> QED
    BY <1>3, <1>8, <2>1 DEF ServeChange
<1> QED
  BY <1>4, <1>5, <1>6, <1>7, <1>8 DEF Serve

(* What the steps that neither serve nor commit do to the calls.           *)
LEMMA OtherStepsQuiet ==
  ASSUME Sound, NEW c \in Calls,
         \/ Register(c) \/ Login(c) \/ Refresh(c) \/ Logout(c)
         \/ ChangePassword(c) \/ TakeReply(c)
         \/ LoseRequest(c) \/ LoseReply(c) \/ LoseCommit(c)
  PROVE  /\ UNCHANGED tables
         /\ \A d \in Calls : server'[d] = "writing" =>
               server[d] = "writing" /\ call'[d] = call[d]
<1>1. ASSUME NEW k, NEW t, NEW s, NEW p, Send(c, k, t, s, p)
      PROVE  /\ UNCHANGED tables
             /\ \A d \in Calls : server'[d] = "writing" =>
                   server[d] = "writing" /\ call'[d] = call[d]
  BY <1>1 DEF Send, Sound, TypeOK
<1>2. CASE \/ Register(c) \/ Login(c) \/ Refresh(c) \/ Logout(c)
           \/ ChangePassword(c)
  BY <1>1, <1>2 DEF Register, Login, Refresh, Logout, ChangePassword
<1>3. CASE TakeReply(c)
  BY <1>3 DEF TakeReply, Sound, TypeOK
<1>4. CASE LoseRequest(c) \/ LoseReply(c) \/ LoseCommit(c)
  BY <1>4 DEF LoseRequest, LoseReply, LoseCommit, Fault, Finish, Sound, TypeOK
<1> QED
  BY <1>2, <1>3, <1>4

(* A revoked session stays revoked, and gets a token only from a call that *)
(* had read it as active.                                                  *)
LEMMA CommitsStand ==
  ASSUME Sound, NEW c \in Calls, Commit(c) \/ CommitRegister(c),
         NEW s \in Ids, session[s] = "revoked"
  PROVE  /\ session'[s] = "revoked"
         /\ Exchanging(s) = {} => TokensOf(s)' = TokensOf(s)
<1> DEFINE q == call[c]  n == q.new
<1>1. /\ server[c] = "writing" /\ n \in Ids /\ family[n] = NoId
      /\ n # s /\ NoId # s
  BY DEF Commit, CommitRegister, Sound, CallsAreSound, RequestIsSound,
         AnswerIsSound, SessionsHaveTokens
<1>2. ASSUME NEW p, OpenSession(c, p)
      PROVE  session'[s] = "revoked" /\ TokensOf(s)' = TokensOf(s)
  <2>1. /\ session' = [session EXCEPT ![n] = "active"]
        /\ family' = [family EXCEPT ![n] = n]
    BY <1>2 DEF OpenSession
  <2> HIDE DEF n
  <2> QED
    BY <1>1, <2>1 DEF Sound, TypeOK, TokensOf
<1>3. CASE Commit(c) /\ q.kind = "login"
  BY <1>2, <1>3 DEF Commit
<1>4. CASE Commit(c) /\ q.kind = "refresh"
  <2>1. family' = [family EXCEPT ![n] = q.sid] /\ session' = session
    BY <1>4 DEF Commit, WriteRefresh
  <2>2. Exchanging(s) = {} => q.sid # s
    BY <1>1, <1>4 DEF Exchanging
  <2> HIDE DEF n, q
  <2> QED
    BY <1>1, <2>1, <2>2 DEF Sound, TypeOK, TokensOf
<1>5. CASE Commit(c) /\ q.kind \notin {"login", "refresh"}
  BY <1>5 DEF Commit, WriteRevocations, TokensOf
<1>6. CASE CommitRegister(c)
  <2>1. CASE password = 0
    BY <1>2, <1>6, <2>1 DEF CommitRegister
  <2>2. CASE password # 0
    BY <1>6, <2>2 DEF CommitRegister, TokensOf
  <2> QED
    BY <2>1, <2>2
<1> QED
  BY <1>3, <1>4, <1>5, <1>6

LEMMA ClosedStep == Sound /\ [Next]_vars => \A s \in Ids : Closed(s)
<1> SUFFICES ASSUME Sound, [Next]_vars, NEW s \in Ids, session[s] = "revoked"
             PROVE  /\ session'[s] = "revoked"
                    /\ Exchanging(s)' \subseteq Exchanging(s)
                    /\ Exchanging(s) = {} => TokensOf(s)' = TokensOf(s)
  BY DEF Closed
<1>1. ASSUME NoLateExchange PROVE Exchanging(s)' \subseteq Exchanging(s)
  BY <1>1 DEF NoLateExchange, Exchanging
<1>2. ASSUME UNCHANGED <<session, family>>
      PROVE  session'[s] = "revoked" /\ TokensOf(s)' = TokensOf(s)
  BY <1>2 DEF TokensOf
<1>3. CASE UNCHANGED vars
  BY <1>1, <1>2, <1>3 DEF vars, tables, NoLateExchange
<1>4. ASSUME NEW c \in Calls,
             \/ Register(c) \/ Login(c) \/ Refresh(c) \/ Logout(c)
             \/ ChangePassword(c) \/ TakeReply(c)
             \/ LoseRequest(c) \/ LoseReply(c) \/ LoseCommit(c)
      PROVE  UNCHANGED <<session, family>> /\ NoLateExchange
  BY <1>4, OtherStepsQuiet DEF tables, NoLateExchange
<1>5. ASSUME NEW c \in Calls, Serve(c)
      PROVE  UNCHANGED <<session, family>> /\ NoLateExchange
  BY <1>5, ServeExchanges DEF Serve, tables
<1>6. ASSUME NEW c \in Calls, Commit(c) \/ CommitRegister(c)
      PROVE  NoLateExchange
  BY <1>6, OneCallMoves DEF Commit, CommitRegister, Finish, Sound, TypeOK
<1>7. CASE AccessAges \/ \E t \in Ids : Expire(t)
  <2>1. UNCHANGED <<session, family, call, server>>
    BY <1>7 DEF AccessAges, Expire, tables
  <2> QED
    BY <1>1, <1>2, <2>1 DEF NoLateExchange
<1> QED
  BY <1>1, <1>2, <1>3, <1>4, <1>5, <1>6, <1>7, CommitsStand
     DEF Next, CallStep

-----------------------------------------------------------------------------
(* Password changes. *)

Writing(c, kinds) == server[c] = "writing" /\ call[c].kind \in kinds

(* A login that will be committed has verified the password that holds or  *)
(* is late, and is late as long as a change is open; the active sessions   *)
(* that an open change has not listed are late.                            *)
OthersAreFound ==
    /\ \A c \in Calls :
          /\ Writing(c, {"login"}) =>
                call[c].pw = password \/ call[c].new \in late
          /\ Writing(c, {"change"}) =>
                \A s \in Ids :
                   session[s] = "active" => s \in call[c].revokes \cup late
    /\ \A c, d \in Calls :
          Writing(c, {"login"}) /\ Writing(d, {"change"}) =>
             call[c].new \in late

Current == OnlyLateLoginsSurvive /\ OthersAreFound

(* A step that leaves the password alone, opens no session and leaves no   *)
(* new login or change about to write.                                     *)
LEMMA QuietStep ==
  ASSUME Current,
         password' = password, verified' = verified, late' = late,
         \A s \in Ids : session'[s] = "active" => session[s] = "active",
         \A d \in Calls : Writing(d, {"login", "change"})' =>
            server[d] = "writing" /\ call'[d] = call[d]
  PROVE  Current'
<1>1. OnlyLateLoginsSurvive'
  BY DEF Current, OnlyLateLoginsSurvive
<1>2. OthersAreFound'
  BY DEF Current, OthersAreFound, Writing
<1> QED
  BY <1>1, <1>2 DEF Current

(* The id of a call that is being served is not the id of a session.       *)
LEMMA NewIsNoSession ==
  ASSUME Sound, NEW c \in Calls, server[c] # "idle"
  PROVE  /\ call[c].new \in Ids
         /\ session[call[c].new] = "absent"
         /\ \A d \in Calls \ {c} : call[d].new # call[c].new
<1>1. call[c].new \in Ids /\ family[call[c].new] = NoId
  BY DEF Sound, CallsAreSound, RequestIsSound, AnswerIsSound
<1> QED
  BY <1>1, OwnId DEF Sound, SessionsHaveTokens

LEMMA ServeCurrent ==
  ASSUME Sound, Current, NEW c \in Calls, Serve(c)
  PROVE  Current'
<1> DEFINE q == call[c]
<1>1. /\ UNCHANGED tables /\ q \in Request
      /\ password' = password /\ verified' = verified /\ session' = session
      /\ server[c] = "received"
  BY DEF Serve, tables, Sound, TypeOK
<1>2. ASSUME late \subseteq late' PROVE OnlyLateLoginsSurvive'
  BY <1>1, <1>2 DEF Current, OnlyLateLoginsSurvive
<1>3. ASSUME NEW why, Refuse(c, why), UNCHANGED late PROVE Current'
  BY <1>1, <1>3, QuietStep DEF Refuse, Sound, TypeOK, Writing
<1>4. ASSUME NEW r, Answer(c, r), r.kind \notin {"login", "change"},
             UNCHANGED late
      PROVE  Current'
  BY <1>1, <1>4, QuietStep DEF Answer, Sound, TypeOK, Writing
<1>5. CASE ServeLogin(c)
  <2> DEFINE r == [q EXCEPT !.sid = q.new]
  <2>1. CASE Refuse(c, "refused") /\ UNCHANGED late
    BY <1>3, <2>1
  <2>2. CASE /\ q.pw = password /\ Answer(c, r)
             /\ late' = IF Open("change") = {} THEN late \ {q.new}
                                              ELSE late \cup {q.new}
    <3>1. /\ r.kind = "login" /\ r.pw = password
          /\ r.new = q.new
      BY <1>1, <1>5, <2>2 DEF ServeLogin, Request
    <3>2. /\ q.new \in Ids
          /\ session[q.new] = "absent"
          /\ \A d \in Calls \ {c} : call[d].new # q.new
      BY <1>1, NewIsNoSession
    <3>3. /\ call' = [call EXCEPT ![c] = r]
          /\ server' = [server EXCEPT ![c] = "writing"]
      BY <2>2 DEF Answer
    <3>4. /\ \A d \in Calls : Writing(d, {"change"}) => q.new \in late'
          /\ \A s \in Ids \ {q.new} : s \in late <=> s \in late'
      BY <2>2 DEF Open, Writing
    <3>5. \A d \in Calls : Writing(d, {"login"}) => call[d].new \in Ids
      BY NewIsNoSession DEF Writing
    <3> HIDE DEF r, q
    <3>6. /\ call'[c] = r /\ server'[c] = "writing"
          /\ \A d \in Calls \ {c} :
                call'[d] = call[d] /\ server'[d] = server[d]
      BY <3>3 DEF Sound, TypeOK
    <3>7. OnlyLateLoginsSurvive'
      BY <1>1, <3>2, <3>4 DEF Current, OnlyLateLoginsSurvive
    <3>8. ASSUME NEW d \in Calls, Writing(d, {"login"})'
          PROVE  /\ call'[d].pw = password' \/ call'[d].new \in late'
                 /\ \A e \in Calls : Writing(e, {"change"})' =>
                       call'[d].new \in late'
      <4>1. \A e \in Calls : Writing(e, {"change"})' => Writing(e, {"change"})
        BY <3>1, <3>6 DEF Writing
      <4>2. CASE d = c
        BY <1>1, <3>1, <3>4, <3>6, <4>1, <4>2
      <4>3. CASE d # c
        <5>1. /\ call'[d] = call[d] /\ Writing(d, {"login"})
              /\ call[d].new \in Ids \ {q.new}
          BY <3>2, <3>5, <3>6, <3>8, <4>3 DEF Writing
        <5> QED
          BY <1>1, <3>4, <4>1, <5>1 DEF Current, OthersAreFound
      <4> QED
        BY <4>2, <4>3
    <3>9. ASSUME NEW d \in Calls, Writing(d, {"change"})',
                 NEW s \in Ids, session'[s] = "active"
          PROVE  s \in call'[d].revokes \cup late'
      <4>1. /\ Writing(d, {"change"}) /\ call'[d] = call[d]
            /\ s # q.new /\ session[s] = "active"
        BY <1>1, <3>1, <3>2, <3>6, <3>9 DEF Writing
      <4> QED
        BY <3>4, <4>1 DEF Current, OthersAreFound
    <3> QED
      BY <3>7, <3>8, <3>9 DEF Current, OthersAreFound
  <2> QED
    BY <1>5, <2>1, <2>2 DEF ServeLogin
<1>6. CASE ServeRegister(c) /\ UNCHANGED late
  <2>1. CASE password # 0
    BY <1>3, <1>6, <2>1 DEF ServeRegister
  <2>2. CASE password = 0
    <3>1. /\ call' = [call EXCEPT ![c] = [q EXCEPT !.sid = q.new]]
          /\ server' = [server EXCEPT ![c] = "writing"]
          /\ q.kind = "register"
      BY <1>6, <2>2 DEF ServeRegister
    <3>2. [q EXCEPT !.sid = q.new].kind = "register"
      BY <1>1, <3>1 DEF Request
    <3> QED
      BY <1>1, <1>6, <3>1, <3>2, QuietStep DEF Sound, TypeOK, Writing
  <2> QED
    BY <2>1, <2>2
<1>7. CASE ServeRefresh(c) /\ UNCHANGED late
  <2> DEFINE s == family[q.sent]
  <2>1. \/ \E why \in {"refused", "reused"} : Refuse(c, why)
        \/ Answer(c, [q EXCEPT !.sid = s])
    BY <1>7 DEF ServeRefresh
  <2>2. [q EXCEPT !.sid = s].kind = "refresh"
    BY <1>1, <1>7 DEF Request, ServeRefresh
  <2> QED
    BY <1>3, <1>4, <1>7, <2>1, <2>2
<1>8. CASE ServeLogout(c) /\ UNCHANGED late
  <2> DEFINE s == family[q.sent]
  <2>1. \/ \E why \in {"refused", "ok"} : Refuse(c, why)
        \/ Answer(c, [q EXCEPT !.revokes = {s}])
    BY <1>8 DEF ServeLogout
  <2>2. [q EXCEPT !.revokes = {s}].kind = "logout"
    BY <1>1, <1>8 DEF ServeLogout, Request
  <2> QED
    BY <1>3, <1>4, <1>8, <2>1, <2>2
<1>9. CASE ServeChange(c)
  <2> DEFINE r == [q EXCEPT !.revokes = Victims]
  <2>1. /\ call' = [call EXCEPT ![c] = r]
        /\ server' = [server EXCEPT ![c] = "writing"]
        /\ late' = late \cup {call[d].new : d \in Open("login")}
    BY <1>9 DEF ServeChange, Answer
  <2>2. r.kind = "change" /\ r.revokes = Victims
    BY <1>1, <1>9 DEF ServeChange, Request
  <2>3. /\ late \subseteq late'
        /\ \A d \in Calls : Writing(d, {"login"}) => call[d].new \in late'
    BY <2>1 DEF Open, Writing
  <2> HIDE DEF r, q
  <2>4. /\ call'[c] = r /\ server'[c] = "writing"
        /\ \A d \in Calls \ {c} :
              call'[d] = call[d] /\ server'[d] = server[d]
    BY <2>1 DEF Sound, TypeOK
  <2>5. \A d \in Calls : Writing(d, {"login"})' => call'[d].new \in late'
    BY <2>2, <2>3, <2>4 DEF Writing
  <2>6. ASSUME NEW d \in Calls, Writing(d, {"change"})',
               NEW s \in Ids, session'[s] = "active"
        PROVE  s \in call'[d].revokes \cup late'
    <3>1. CASE d = c
      BY <1>1, <2>2, <2>4, <2>6, <3>1 DEF Victims
    <3>2. CASE d # c
      BY <1>1, <2>3, <2>4, <2>6, <3>2 DEF Current, OthersAreFound, Writing
    <3> QED
      BY <3>1, <3>2
  <2> QED
    BY <1>2, <2>3, <2>5, <2>6 DEF Current, OthersAreFound
<1> QED
  BY <1>5, <1>6, <1>7, <1>8, <1>9 DEF Serve

LEMMA CommitCurrent ==
  ASSUME Sound, Current, NEW c \in Calls,
         Commit(c) \/ CommitRegister(c)
  PROVE  Current'
<1> DEFINE q == call[c]  n == q.new
<1>1. /\ server[c] = "writing" /\ q \in Request /\ n \in Ids
      /\ late' = late
  BY DEF Commit, CommitRegister, Sound, TypeOK, CallsAreSound,
         RequestIsSound, AnswerIsSound
<1>2. \A d \in Calls :
         Writing(d, {"login", "change"})' =>
            d # c /\ server[d] = "writing" /\ call'[d] = call[d]
  BY DEF Commit, CommitRegister, Finish, Sound, TypeOK, Writing
<1>3. /\ \A d \in Calls : Writing(d, {"login"})' =>
            /\ Writing(d, {"login"}) /\ call'[d] = call[d]
            /\ call[d].pw = password \/ call[d].new \in late
      /\ \A d \in Calls : Writing(d, {"change"})' =>
            /\ Writing(d, {"change"}) /\ call'[d] = call[d]
            /\ \A s \in Ids :
                  session[s] = "active" => s \in call[d].revokes \cup late
      /\ \A d, e \in Calls : Writing(d, {"login"})' /\ Writing(e, {"change"})'
            => call[d].new \in late
  BY <1>2 DEF Current, OthersAreFound, Writing
<1>4. CASE Commit(c) /\ q.kind = "login"
  <2>1. /\ session' = [session EXCEPT ![n] = "active"]
        /\ verified' = [verified EXCEPT ![n] = q.pw]
        /\ password' = password
    BY <1>4 DEF Commit, OpenSession
  <2>2. /\ q.pw = password \/ n \in late
        /\ \A d \in Calls : Writing(d, {"change"}) => n \in late
    BY <1>1, <1>4 DEF Current, OthersAreFound, Writing
  <2> HIDE DEF n, q
  <2>3. OnlyLateLoginsSurvive'
    BY <1>1, <2>1, <2>2 DEF Current, OnlyLateLoginsSurvive, Sound, TypeOK
  <2>4. \A s \in Ids \ {n} : session'[s] = session[s]
    BY <2>1 DEF Sound, TypeOK
  <2>5. OthersAreFound'
    BY <1>1, <1>3, <2>1, <2>2, <2>4 DEF OthersAreFound
  <2> QED
    BY <2>3, <2>5 DEF Current
<1>5. CASE Commit(c) /\ q.kind = "refresh"
  BY <1>1, <1>2, <1>5, QuietStep DEF Commit, WriteRefresh
<1>6. CASE Commit(c) /\ q.kind = "change"
  <2>1. \A s \in Ids : session'[s] = "active" => s \in late
    BY <1>1, <1>6 DEF Commit, WriteRevocations, Current, OthersAreFound,
       Writing
  <2>2. \A d \in Calls : Writing(d, {"login"})' => call[d].new \in late
    BY <1>1, <1>3, <1>6 DEF Current, OthersAreFound, Writing
  <2> QED
    BY <1>1, <1>3, <2>1, <2>2 DEF Current, OnlyLateLoginsSurvive,
                                  OthersAreFound
<1>7. CASE Commit(c) /\ q.kind \notin {"login", "refresh", "change"}
  BY <1>1, <1>2, <1>7, QuietStep DEF Commit, WriteRevocations
<1>8. CASE CommitRegister(c) /\ password # 0
  BY <1>1, <1>2, <1>8, QuietStep DEF CommitRegister
<1>9. CASE CommitRegister(c) /\ password = 0
  <2>1. /\ session' = [session EXCEPT ![n] = "active"]
        /\ verified' = [verified EXCEPT ![n] = 1]
        /\ password' = 1
    BY <1>9 DEF CommitRegister, OpenSession
  <2>2. \A s \in Ids : session[s] = "absent"
    BY <1>9 DEF Sound, SessionsHaveTokens
  <2>3. \A d \in Calls : ~Writing(d, {"login", "change"})
    BY <1>9 DEF Sound, CallsAreSound, RequestIsSound, Writing
  <2>4. \A d \in Calls : ~Writing(d, {"login", "change"})'
    BY <1>2, <2>3 DEF Writing
  <2> HIDE DEF n, q
  <2>5. OnlyLateLoginsSurvive'
    BY <1>1, <2>1, <2>2 DEF OnlyLateLoginsSurvive, Sound, TypeOK
  <2> QED
    BY <2>4, <2>5 DEF Current, OthersAreFound, Writing
<1> QED
  BY <1>4, <1>5, <1>6, <1>7, <1>8, <1>9

LEMMA CurrentStep ==
  ASSUME Sound, Current, [Next]_vars
  PROVE  Current'
<1>1. CASE UNCHANGED vars
  BY <1>1, QuietStep DEF vars, tables, Writing
<1>2. ASSUME NEW c \in Calls,
             \/ Register(c) \/ Login(c) \/ Refresh(c) \/ Logout(c)
             \/ ChangePassword(c) \/ TakeReply(c)
             \/ LoseRequest(c) \/ LoseReply(c) \/ LoseCommit(c)
      PROVE  Current'
  <2>1. /\ UNCHANGED tables
        /\ \A d \in Calls : server'[d] = "writing" =>
              server[d] = "writing" /\ call'[d] = call[d]
    BY <1>2, OtherStepsQuiet
  <2>2. UNCHANGED late
    BY <1>2 DEF Register, Login, Refresh, Logout, ChangePassword, Send,
                TakeReply, LoseRequest, LoseReply, LoseCommit, Fault
  <2> QED
    BY <2>1, <2>2, QuietStep DEF tables, Writing
<1>3. CASE AccessAges \/ \E t \in Ids : Expire(t)
  BY <1>3, QuietStep DEF AccessAges, Expire, tables, Writing
<1> QED
  BY <1>1, <1>2, <1>3, ServeCurrent, CommitCurrent DEF Next, CallStep

-----------------------------------------------------------------------------
(* The browser's tokens.                                                   *)

(* A call whose reply the page has not handled: the id it was sent with is *)
(* known to no one else.                                                   *)
Untaken(c) == call[c].kind # "none" /\ reply[c] # "taken"

NewTokensAreNew ==
    /\ \A c \in Calls : Untaken(c) =>
          /\ call[c].new \notin consumed
          /\ stored.refresh # call[c].new
          /\ \A d \in Calls : call[d].sent # call[c].new
    /\ \A t \in consumed : family[t] # NoId

(* What a grant announces is what its commit writes, has written or, after *)
(* a fault, may never write.                                               *)
Granting == {"login", "register", "refresh"}

GrantsAreTrue ==
    \A c \in Calls :
        /\ reply[c] = "taken" => server[c] = "writing"
        /\ server[c] = "writing" =>
              /\ call[c].kind \in {"login", "register"} =>
                    call[c].sid = call[c].new
              /\ call[c].kind = "register" => reply[c] = "none"
        /\ reply[c] = "ok" /\ call[c].kind \in Granting =>
              /\ family[call[c].new] \in {NoId, call[c].sid}
              /\ faults = 0 /\ family[call[c].new] = NoId =>
                    server[c] = "writing"
        /\ reply[c] = "taken" /\ stored.refresh = call[c].new =>
              stored.access = call[c].sid

(* The stored pair belongs together.  Its refresh token is spent only while *)
(* the reply that will replace it is on the way, and unknown to the server *)
(* only while its commit is.                                               *)
StoreIsTrue ==
    /\ stored # NoStore =>
          /\ family[stored.refresh] \in {NoId, stored.access}
          /\ Spent(stored.refresh) =>
                \E d \in Calls : /\ call[d].kind = "refresh"
                                 /\ call[d].sent = stored.refresh
                                 /\ reply[d] # "taken"
          /\ faults = 0 /\ family[stored.refresh] = NoId =>
                \E d \in Calls : /\ call[d].kind \in {"login", "refresh"}
                                 /\ call[d].new = stored.refresh
                                 /\ reply[d] = "taken"
    /\ \A d \in Calls :
          call[d].kind = "refresh" /\ reply[d] = "taken" =>
             call[d].sent # stored.refresh

Usable == NewTokensAreNew /\ GrantsAreTrue /\ StoreIsTrue

LEMMA UsableInit == Init => Usable
  BY DEF Init, Usable, NewTokensAreNew, GrantsAreTrue, StoreIsTrue, Untaken,
         NoCall, NoStore

(* What the other lemmas need to know of the calls.                        *)
LEMMA CallFacts ==
  ASSUME Sound, NEW c \in Calls
  PROVE  /\ call[c] \in Request
         /\ call[c].kind # "none" => call[c].new \in Ids
         /\ call[c].kind \in {"refresh", "logout"} => call[c].sent \in Ids
         /\ server[c] # "idle" =>
               call[c].kind # "none" /\ family[call[c].new] = NoId
         /\ server[c] = "writing" /\ call[c].kind = "refresh" =>
               family[call[c].sent] = call[c].sid /\ call[c].sid \in Ids
         /\ reply[c] # "none" => call[c].kind # "none"
         /\ \A d \in Calls \ {c} :
               call[c].kind # "none" => call[d].new # call[c].new
  BY DEF Sound, TypeOK, CallsAreSound, RequestIsSound, AnswerIsSound,
         IdsAreUnique

(* The server goes on with a request, or the reply to it is lost.          *)
LEMMA ServerStepUsable ==
  ASSUME Sound, Usable, NEW c \in Calls, reply[c] # "taken",
         NEW r \in Request, NEW u \in Places, NEW v \in Replies \ {"taken"},
         call' = [call EXCEPT ![c] = r],
         server' = [server EXCEPT ![c] = u],
         reply' = [reply EXCEPT ![c] = v],
         UNCHANGED <<family, consumed, stored>>, faults' = 0 => faults = 0,
         r.kind = call[c].kind, r.new = call[c].new, r.sent = call[c].sent,
         u = "writing" =>
            /\ r.kind \in {"login", "register"} => r.sid = r.new
            /\ r.kind = "register" => v = "none",
         v = "ok" /\ r.kind \in Granting =>
            /\ family[r.new] \in {NoId, r.sid}
            /\ faults' = 0 /\ family[r.new] = NoId => u = "writing"
  PROVE  Usable'
<1>1. /\ call'[c] = r /\ server'[c] = u /\ reply'[c] = v
      /\ \A d \in Calls \ {c} : /\ call'[d] = call[d]
                                /\ server'[d] = server[d]
                                /\ reply'[d] = reply[d]
  BY DEF Sound, TypeOK
<1>2. \A d \in Calls : /\ call'[d].kind = call[d].kind
                       /\ call'[d].new = call[d].new
                       /\ call'[d].sent = call[d].sent
                       /\ reply'[d] = "taken" <=> reply[d] = "taken"
  BY <1>1
<1>3. NewTokensAreNew'
  BY <1>2 DEF Usable, NewTokensAreNew, Untaken
<1>4. GrantsAreTrue'
  BY <1>1 DEF Usable, GrantsAreTrue
<1>5. StoreIsTrue'
  BY <1>2 DEF Usable, StoreIsTrue, Spent
<1> QED
  BY <1>3, <1>4, <1>5 DEF Usable

(* A request is sent with a new id and nothing but the stored token.       *)
LEMMA SendUsable ==
  ASSUME Sound, Usable, NEW c \in Calls, NEW k \in Kinds \ {"none"},
         NEW t \in {NoId, stored.refresh}, NEW s, NEW p, Send(c, k, t, s, p)
  PROVE  Usable'
<1> DEFINE n == CHOOSE m \in Fresh : TRUE
<1>1. n \in Ids /\ ~InUse(n)
  BY DEF Send, Fresh
<1>2. /\ call[c] = NoCall
      /\ call' = [call EXCEPT ![c] = [kind |-> k, sent |-> t, sid |-> s,
                                      pw |-> p, new |-> n, revokes |-> {}]]
      /\ server' = [server EXCEPT ![c] = "received"]
      /\ UNCHANGED <<family, consumed, stored, reply, faults>>
  BY DEF Send, tables
<1> HIDE DEF n
<1>3. /\ call'[c].kind = k /\ call'[c].sent = t /\ call'[c].new = n
      /\ server'[c] = "received"
      /\ \A d \in Calls \ {c} : call'[d] = call[d] /\ server'[d] = server[d]
  BY <1>2 DEF Sound, TypeOK
<1>4. reply[c] = "none" /\ call[c].kind = "none"
  BY <1>2, CallFacts DEF NoCall
<1>5. /\ family[n] = NoId /\ stored.refresh # n /\ n # NoId
      /\ \A d \in Calls : call[d].sent # n /\ call[d].new # n
  BY <1>1 DEF InUse
<1>6. NewTokensAreNew'
  <2>1. n \notin consumed
    BY <1>5 DEF Usable, NewTokensAreNew
  <2>2. ASSUME NEW d \in Calls, Untaken(d)'
        PROVE  /\ call'[d].new \notin consumed
               /\ stored.refresh # call'[d].new
               /\ \A e \in Calls : call'[e].sent # call'[d].new
    <3>1. CASE d = c
      BY <1>3, <1>5, <2>1, <3>1
    <3>2. CASE d # c
      <4>1. Untaken(d) /\ call'[d] = call[d] /\ call[d].new \in Ids
        BY <1>2, <1>3, <2>2, <3>2, CallFacts DEF Untaken
      <4>2. t # call[d].new
        BY <4>1 DEF Usable, NewTokensAreNew
      <4> QED
        BY <1>3, <4>1, <4>2 DEF Usable, NewTokensAreNew
    <3> QED
      BY <3>1, <3>2
  <2> QED
    BY <1>2, <2>2 DEF Usable, NewTokensAreNew
<1>7. GrantsAreTrue'
  BY <1>2, <1>3, <1>4 DEF Usable, GrantsAreTrue
<1>8. StoreIsTrue'
  BY <1>2, <1>3, <1>4 DEF Usable, StoreIsTrue, Spent
<1> QED
  BY <1>6, <1>7, <1>8 DEF Usable

(* The server is done with a call: its commit writes the token that was    *)
(* announced, or is lost.                                                  *)
LEMMA DoneUsable ==
  ASSUME Sound, Usable, NEW c \in Calls, server[c] = "writing",
         NEW r, NEW v \in Replies \ {"taken"},
         IF reply[c] = "taken" THEN r = NoCall /\ v = "none" ELSE r = call[c],
         call' = [call EXCEPT ![c] = r],
         server' = [server EXCEPT ![c] = "idle"],
         reply' = [reply EXCEPT ![c] = v],
         stored' = stored, faults' = 0 => faults = 0,
         \A t \in Ids : t # call[c].new => family'[t] = family[t],
         family'[call[c].new] \in {NoId, call[c].sid},
         v = "ok" \/ reply[c] = "taken" =>
            (family'[call[c].new] = NoId /\ faults' = 0 =>
                call[c].kind \notin Granting),
         consumed \subseteq consumed',
         \A t \in consumed' \ consumed :
            call[c].kind = "refresh" /\ t = call[c].sent
  PROVE  Usable'
<1> DEFINE n == call[c].new
<1>1. /\ call'[c] = r /\ server'[c] = "idle" /\ reply'[c] = v
      /\ \A d \in Calls \ {c} : /\ call'[d] = call[d]
                                /\ server'[d] = server[d]
                                /\ reply'[d] = reply[d]
  BY DEF Sound, TypeOK
<1>2. /\ n \in Ids /\ family[n] = NoId /\ n # NoId
      /\ call[c].kind # "none"
      /\ \A d \in Calls \ {c} : call[d].new # n
  BY CallFacts
<1>3. \A d \in Calls : \/ call'[d] = call[d]
                       \/ d = c /\ reply[c] = "taken" /\ call'[d] = NoCall
  BY <1>1
<1>4. NoCall.kind = "none" /\ NoCall.sent = NoId
  BY DEF NoCall
<1>5. n \notin consumed
  BY <1>2 DEF Usable, NewTokensAreNew
<1>6. NewTokensAreNew'
  <2>1. ASSUME NEW d \in Calls, Untaken(d)'
        PROVE  /\ call'[d].new \notin consumed'
               /\ stored'.refresh # call'[d].new
               /\ \A e \in Calls : call'[e].sent # call'[d].new
    <3>1. call'[d] = call[d] /\ Untaken(d)
      BY <1>1, <1>3, <1>4, <2>1 DEF Untaken
    <3>2. call[d].new \in Ids
      BY <3>1, CallFacts DEF Untaken
    <3>3. /\ call[d].new \notin consumed
          /\ stored.refresh # call[d].new
          /\ \A e \in Calls : call[e].sent # call[d].new
      BY <3>1 DEF Usable, NewTokensAreNew
    <3> QED
      BY <1>3, <1>4, <3>1, <3>2, <3>3
  <2>2. ASSUME NEW t \in consumed' PROVE family'[t] # NoId
    <3>1. CASE t \in consumed
      <4>1. t \in Ids /\ t # n /\ family[t] # NoId
        BY <1>5, <3>1 DEF Sound, TypeOK, Usable, NewTokensAreNew
      <4> QED
        BY <4>1
    <3>2. CASE t \notin consumed
      <4>1. call[c].kind = "refresh" /\ t = call[c].sent
        BY <2>2, <3>2
      <4>2. t \in Ids /\ family[t] \in Ids
        BY <4>1, CallFacts
      <4> QED
        BY <1>2, <4>2
    <3> QED
      BY <3>1, <3>2
  <2> QED
    BY <2>1, <2>2 DEF NewTokensAreNew
<1>7. GrantsAreTrue'
  <2>1. ASSUME NEW d \in Calls \ {c}, call[d].kind \in Granting
        PROVE  family'[call[d].new] = family[call[d].new]
    BY <1>2, <2>1, CallFacts DEF Granting
  <2>2. ASSUME NEW d \in Calls \ {c}
        PROVE  /\ reply'[d] = "taken" => server'[d] = "writing"
               /\ server'[d] = "writing" =>
                     /\ call'[d].kind \in {"login", "register"} =>
                           call'[d].sid = call'[d].new
                     /\ call'[d].kind = "register" => reply'[d] = "none"
               /\ reply'[d] = "ok" /\ call'[d].kind \in Granting =>
                     /\ family'[call'[d].new] \in {NoId, call'[d].sid}
                     /\ faults' = 0 /\ family'[call'[d].new] = NoId =>
                           server'[d] = "writing"
               /\ reply'[d] = "taken" /\ stored'.refresh = call'[d].new =>
                     stored'.access = call'[d].sid
    BY <1>1, <2>1 DEF Usable, GrantsAreTrue
  <2>3. /\ reply'[c] # "taken" /\ server'[c] # "writing"
        /\ reply'[c] = "ok" /\ call'[c].kind \in Granting =>
              /\ family'[call'[c].new] \in {NoId, call'[c].sid}
              /\ ~(faults' = 0 /\ family'[call'[c].new] = NoId)
    BY <1>1, <1>4 DEF Granting
  <2> QED
    BY <2>2, <2>3 DEF GrantsAreTrue
<1>8. StoreIsTrue'
  <2>1. ASSUME stored # NoStore
        PROVE  /\ family'[stored.refresh] \in {NoId, stored.access}
               /\ stored.refresh \in consumed' =>
                     \E d \in Calls : /\ call'[d].kind = "refresh"
                                      /\ call'[d].sent = stored.refresh
                                      /\ reply'[d] # "taken"
               /\ faults' = 0 /\ family'[stored.refresh] = NoId =>
                     \E d \in Calls : /\ call'[d].kind \in {"login", "refresh"}
                                      /\ call'[d].new = stored.refresh
                                      /\ reply'[d] = "taken"
    <3>1. stored.refresh \in Ids
      BY <2>1 DEF Sound, TypeOK, Store
    <3>2. stored.refresh = n => reply[c] = "taken" /\ stored.access = call[c].sid
      BY <1>2 DEF Usable, NewTokensAreNew, GrantsAreTrue, Untaken
    <3>3. family'[stored.refresh] \in {NoId, stored.access}
      BY <2>1, <3>1, <3>2 DEF Usable, StoreIsTrue
    <3>4. ASSUME stored.refresh \in consumed'
          PROVE  \E d \in Calls : /\ call'[d].kind = "refresh"
                                  /\ call'[d].sent = stored.refresh
                                  /\ reply'[d] # "taken"
      <4>1. PICK d \in Calls : /\ call[d].kind = "refresh"
                               /\ call[d].sent = stored.refresh
                               /\ reply[d] # "taken"
        <5>1. CASE stored.refresh \in consumed
          BY <2>1, <5>1 DEF Usable, StoreIsTrue, Spent
        <5>2. CASE stored.refresh \notin consumed
          BY <3>4, <5>2 DEF Usable, StoreIsTrue
        <5> QED
          BY <5>1, <5>2
      <4> QED
        BY <1>1, <4>1
    <3>5. ASSUME faults' = 0, family'[stored.refresh] = NoId
          PROVE  \E d \in Calls : /\ call'[d].kind \in {"login", "refresh"}
                                  /\ call'[d].new = stored.refresh
                                  /\ reply'[d] = "taken"
      <4>1. family[stored.refresh] = NoId
        BY <1>2, <3>1, <3>5
      <4>2. PICK d \in Calls : /\ call[d].kind \in {"login", "refresh"}
                               /\ call[d].new = stored.refresh
                               /\ reply[d] = "taken"
        BY <2>1, <3>5, <4>1 DEF Usable, StoreIsTrue
      <4>3. d # c
        BY <3>5, <4>2 DEF Granting
      <4> QED
        BY <1>1, <4>2, <4>3
    <3> QED
      BY <3>3, <3>4, <3>5
  <2>2. \A d \in Calls :
           call'[d].kind = "refresh" /\ reply'[d] = "taken" =>
              call'[d].sent # stored.refresh
    BY <1>1 DEF Usable, StoreIsTrue
  <2> QED
    BY <2>1, <2>2 DEF StoreIsTrue, Spent
<1> QED
  BY <1>6, <1>7, <1>8 DEF Usable

(* The page handles a reply: it keeps the new pair, nothing or what it had. *)
LEMMA TakeReplyUsable ==
  ASSUME Sound, Usable, NEW c \in Calls, TakeReply(c)
  PROVE  Usable'
<1> DEFINE q == call[c]  n == q.new
<1>1. /\ reply[c] \notin {"none", "taken"}
      /\ stored' = NewStore(c)
      /\ UNCHANGED <<family, consumed, server, faults>>
  BY DEF TakeReply, tables
<1>2. /\ q.kind # "none" /\ n \in Ids /\ n # NoId
      /\ \A d \in Calls \ {c} : call[d].new # n
  BY <1>1, CallFacts
<1>3. /\ n \notin consumed /\ stored.refresh # n
      /\ \A d \in Calls : call[d].sent # n
  BY <1>1, <1>2 DEF Usable, NewTokensAreNew, Untaken
<1>4. /\ \A d \in Calls \ {c} : call'[d] = call[d] /\ reply'[d] = reply[d]
      /\ \/ server[c] = "writing" /\ reply'[c] = "taken" /\ call'[c] = q
         \/ server[c] # "writing" /\ reply'[c] = "none" /\ call'[c] = NoCall
  BY DEF TakeReply, Sound, TypeOK
<1>5. /\ NoCall.kind = "none" /\ NoCall.sent = NoId /\ NoCall.new = NoId
      /\ NoStore.refresh = NoId
  BY DEF NoCall, NoStore
<1>6. \/ /\ stored' = Save(c) /\ reply[c] = "ok" /\ q.kind \in Granting
      \/ stored' = NoStore
      \/ stored' = stored /\ q.kind \notin {"refresh", "logout"}
  BY <1>1 DEF NewStore, Granting
<1>7. Save(c).refresh = n /\ Save(c).access = q.sid
  BY DEF Save
<1>8. stored'.refresh \in {stored.refresh, NoId, n}
  BY <1>5, <1>6, <1>7
<1> HIDE DEF n, q
<1>9. NewTokensAreNew'
  <2>1. ASSUME NEW d \in Calls, Untaken(d)'
        PROVE  /\ call'[d].new \notin consumed'
               /\ stored'.refresh # call'[d].new
               /\ \A e \in Calls : call'[e].sent # call'[d].new
    <3>1. d # c
      BY <1>4, <1>5, <2>1 DEF Untaken
    <3>2. call'[d] = call[d] /\ Untaken(d)
      BY <1>4, <2>1, <3>1 DEF Untaken
    <3>3. call[d].new \in Ids /\ call[d].new # n
      BY <1>2, <3>1, <3>2, CallFacts DEF Untaken
    <3>4. /\ call[d].new \notin consumed
          /\ stored.refresh # call[d].new
          /\ \A e \in Calls : call[e].sent # call[d].new
      BY <3>2 DEF Usable, NewTokensAreNew
    <3>5. \A e \in Calls : call'[e].sent \in {call[e].sent, NoId}
      BY <1>4, <1>5 DEF q
    <3> QED
      BY <1>1, <1>8, <3>2, <3>3, <3>4, <3>5
  <2> QED
    BY <1>1, <2>1 DEF Usable, NewTokensAreNew
<1>10. GrantsAreTrue'
  <2>1. ASSUME NEW d \in Calls, reply'[d] = "taken",
               stored'.refresh = call'[d].new
        PROVE  stored'.access = call'[d].sid
    <3>1. CASE d = c
      <4>1. call'[d] = q /\ stored'.refresh = n
        BY <1>4, <2>1, <3>1 DEF n
      <4>2. stored' = Save(c)
        BY <1>2, <1>3, <1>5, <1>6, <4>1
      <4> QED
        BY <1>7, <4>1, <4>2
    <3>2. CASE d # c
      <4>1. call'[d] = call[d] /\ reply[d] = "taken"
        BY <1>4, <2>1, <3>2
      <4>2. call[d].new \in Ids /\ call[d].new # n
        BY <1>2, <3>2, <4>1, CallFacts
      <4>3. stored' = stored
        BY <1>5, <1>6, <1>7, <2>1, <4>1, <4>2
      <4> QED
        BY <2>1, <4>1, <4>3 DEF Usable, GrantsAreTrue
    <3> QED
      BY <3>1, <3>2
  <2>2. ASSUME NEW d \in Calls
        PROVE  /\ reply'[d] = "taken" => server'[d] = "writing"
               /\ server'[d] = "writing" =>
                     /\ call'[d].kind \in {"login", "register"} =>
                           call'[d].sid = call'[d].new
                     /\ call'[d].kind = "register" => reply'[d] = "none"
               /\ reply'[d] = "ok" /\ call'[d].kind \in Granting =>
                     /\ family'[call'[d].new] \in {NoId, call'[d].sid}
                     /\ faults' = 0 /\ family'[call'[d].new] = NoId =>
                           server'[d] = "writing"
    <3>1. CASE d = c
      BY <1>1, <1>4, <1>5, <3>1 DEF Usable, GrantsAreTrue, q
    <3>2. CASE d # c
      BY <1>1, <1>4, <3>2 DEF Usable, GrantsAreTrue
    <3> QED
      BY <3>1, <3>2
  <2> QED
    BY <2>1, <2>2 DEF GrantsAreTrue
<1>11. StoreIsTrue'
  <2>1. ASSUME NEW d \in Calls, call'[d].kind = "refresh",
               reply'[d] = "taken"
        PROVE  /\ call'[d] = call[d] /\ call[d].sent \in Ids
               /\ d = c \/ reply[d] = "taken"
    BY <1>4, <1>5, <2>1, CallFacts DEF q
  <2>2. CASE stored' = Save(c) /\ reply[c] = "ok" /\ q.kind \in Granting
    <3>1. family'[n] \in {NoId, q.sid} /\ ~(n \in consumed')
      BY <1>1, <1>3, <2>2 DEF Usable, GrantsAreTrue, n, q
    <3>2. ASSUME faults' = 0, family'[n] = NoId
          PROVE  /\ call'[c].kind \in {"login", "refresh"}
                 /\ call'[c].new = n
                 /\ reply'[c] = "taken"
      <4>1. server[c] = "writing"
        BY <1>1, <2>2, <3>2 DEF Usable, GrantsAreTrue, n, q
      <4>2. q.kind # "register"
        BY <1>1, <4>1 DEF Usable, GrantsAreTrue, q
      <4> QED
        BY <1>4, <2>2, <4>1, <4>2 DEF Granting, n
    <3>3. \A d \in Calls : call'[d].kind = "refresh" /\ reply'[d] = "taken" =>
             call'[d].sent # n
      BY <1>3, <2>1
    <3> QED
      BY <1>7, <2>2, <3>1, <3>2, <3>3 DEF StoreIsTrue, Spent
  <2>3. CASE stored' = NoStore
    BY <1>5, <2>1, <2>3 DEF StoreIsTrue
  <2>4. CASE stored' = stored /\ q.kind \notin {"refresh", "logout"}
    <3>1. \A d \in Calls : call[d].kind = "refresh" => d # c
      BY <2>4 DEF q
    <3>2. \A d \in Calls : reply[d] = "taken" => d # c
      BY <1>1
    <3>3. \A d \in Calls : call'[d].kind = "refresh" => d # c
      BY <1>4, <1>5, <2>4
    <3> QED
      BY <1>1, <1>4, <2>4, <3>1, <3>2, <3>3 DEF Usable, StoreIsTrue, Spent
  <2> QED
    BY <1>6, <2>2, <2>3, <2>4
<1> QED
  BY <1>9, <1>10, <1>11 DEF Usable

LEMMA ServeUsable ==
  ASSUME Sound, Usable, NEW c \in Calls, Serve(c)
  PROVE  Usable'
<1> DEFINE q == call[c]
<1>1. /\ server[c] = "received"
      /\ UNCHANGED <<family, consumed, stored, faults>>
      /\ faults' = 0 => faults = 0
  BY DEF Serve, tables
<1>2. /\ q \in Request /\ q.kind # "none" /\ family[q.new] = NoId
      /\ q.new \in Ids /\ reply[c] = "none"
      /\ call = [call EXCEPT ![c] = q]
      /\ reply = [reply EXCEPT ![c] = "none"]
  BY <1>1, CallFacts DEF Sound, CallsAreSound, AnswerIsSound, TypeOK
<1>3. ASSUME NEW why \in {"refused", "reused", "ok"}, Refuse(c, why),
             why = "ok" => q.kind \notin Granting
      PROVE  Usable'
  <2>1. /\ call' = [call EXCEPT ![c] = q]
        /\ server' = [server EXCEPT ![c] = "idle"]
        /\ reply' = [reply EXCEPT ![c] = why]
        /\ "idle" \in Places /\ why \in Replies \ {"taken"}
        /\ q.kind = call[c].kind /\ q.new = call[c].new
        /\ q.sent = call[c].sent /\ reply[c] # "taken"
    BY <1>2, <1>3 DEF Refuse, Places, Replies
  <2> HIDE DEF q
  <2> QED
    BY <1>1, <1>2, <1>3, <2>1, ServerStepUsable
<1>4. ASSUME NEW r \in Request, NEW v \in {"none", "ok"},
             call' = [call EXCEPT ![c] = r],
             server' = [server EXCEPT ![c] = "writing"],
             reply' = [reply EXCEPT ![c] = v],
             r.kind = q.kind, r.new = q.new, r.sent = q.sent,
             r.kind \in {"login", "register"} => r.sid = r.new,
             r.kind = "register" => v = "none"
      PROVE  Usable'
  <2>1. /\ "writing" \in Places /\ v \in Replies \ {"taken"}
        /\ reply[c] # "taken" /\ family[r.new] = NoId
    BY <1>2, <1>4 DEF Places, Replies
  <2> QED
    BY <1>1, <1>4, <2>1, ServerStepUsable
<1>5. ASSUME NEW s \in AnyId
      PROVE  LET r == [q EXCEPT !.sid = s]
             IN  /\ r \in Request /\ r.kind = q.kind /\ r.new = q.new
                 /\ r.sent = q.sent /\ r.sid = s
  BY <1>2, <1>5 DEF Request
<1>6. ASSUME NEW R \in SUBSET Ids
      PROVE  LET r == [q EXCEPT !.revokes = R]
             IN  /\ r \in Request /\ r.kind = q.kind /\ r.new = q.new
                 /\ r.sent = q.sent
  BY <1>2, <1>6 DEF Request
<1>7. q.new \in AnyId
  BY <1>2 DEF AnyId
<1>8. CASE ServeLogin(c)
  <2>1. /\ q.kind = "login"
        /\ Refuse(c, "refused") \/ Answer(c, [q EXCEPT !.sid = q.new])
    BY <1>8 DEF ServeLogin
  <2>2. CASE Answer(c, [q EXCEPT !.sid = q.new])
    <3> DEFINE r == [q EXCEPT !.sid = q.new]
    <3>1. /\ r \in Request /\ r.kind = q.kind /\ r.new = q.new
          /\ r.sent = q.sent /\ r.sid = r.new /\ r.kind # "register"
      BY <1>5, <1>7, <2>1
    <3>2. /\ call' = [call EXCEPT ![c] = r]
          /\ server' = [server EXCEPT ![c] = "writing"]
          /\ reply' = [reply EXCEPT ![c] = "ok"]
      BY <2>2 DEF Answer
    <3> HIDE DEF r, q
    <3> QED
      BY <1>4, <3>1, <3>2
  <2> QED
    BY <1>3, <2>1, <2>2
<1>9. CASE ServeRegister(c)
  <2>1. CASE password # 0
    BY <1>3, <1>9, <2>1 DEF ServeRegister
  <2>2. CASE password = 0
    <3> DEFINE r == [q EXCEPT !.sid = q.new]
    <3>1. /\ r \in Request /\ r.kind = q.kind /\ r.new = q.new
          /\ r.sent = q.sent /\ r.sid = r.new
      BY <1>5, <1>7
    <3>2. /\ call' = [call EXCEPT ![c] = r]
          /\ server' = [server EXCEPT ![c] = "writing"]
          /\ reply' = [reply EXCEPT ![c] = "none"]
      BY <1>2, <1>9, <2>2 DEF ServeRegister
    <3> HIDE DEF r, q
    <3> QED
      BY <1>4, <3>1, <3>2
  <2> QED
    BY <2>1, <2>2
<1>10. CASE ServeRefresh(c)
  <2> DEFINE s == family[q.sent]
  <2>1. q.kind = "refresh" /\ q.sent \in Ids /\ s \in AnyId
    BY <1>2, <1>10, CallFacts DEF ServeRefresh, Sound, TypeOK
  <2>2. \/ \E why \in {"refused", "reused"} : Refuse(c, why)
        \/ Answer(c, [q EXCEPT !.sid = s])
    BY <1>10 DEF ServeRefresh
  <2>3. CASE Answer(c, [q EXCEPT !.sid = s])
    <3> DEFINE r == [q EXCEPT !.sid = s]
    <3>1. /\ r \in Request /\ r.kind = q.kind /\ r.new = q.new
          /\ r.sent = q.sent /\ r.kind = "refresh"
      BY <1>5, <2>1
    <3>2. /\ call' = [call EXCEPT ![c] = r]
          /\ server' = [server EXCEPT ![c] = "writing"]
          /\ reply' = [reply EXCEPT ![c] = "ok"]
      BY <2>3 DEF Answer
    <3> HIDE DEF r, q
    <3> QED
      BY <1>4, <3>1, <3>2
  <2> QED
    BY <1>3, <2>2, <2>3
<1>11. ASSUME NEW R \in SUBSET Ids, q.kind \in {"logout", "change"},
              Answer(c, [q EXCEPT !.revokes = R])
       PROVE  Usable'
  <2> DEFINE r == [q EXCEPT !.revokes = R]
  <2>1. /\ r \in Request /\ r.kind = q.kind /\ r.new = q.new
        /\ r.sent = q.sent
        /\ r.kind \notin {"login", "register"}
    BY <1>6, <1>11
  <2>2. /\ call' = [call EXCEPT ![c] = r]
        /\ server' = [server EXCEPT ![c] = "writing"]
        /\ reply' = [reply EXCEPT ![c] = "ok"]
    BY <1>11 DEF Answer
  <2> HIDE DEF r, q
  <2> QED
    BY <1>4, <2>1, <2>2
<1>12. CASE ServeLogout(c)
  <2> DEFINE s == family[q.sent]
  <2>1. /\ q.kind = "logout" /\ q.kind \notin Granting
        /\ q.sent \in Ids /\ s \in AnyId
    BY <1>2, <1>12, CallFacts DEF ServeLogout, Granting, Sound, TypeOK
  <2>2. \/ \E why \in {"refused", "ok"} : Refuse(c, why)
        \/ Active(s) /\ Answer(c, [q EXCEPT !.revokes = {s}])
    BY <1>12 DEF ServeLogout
  <2>3. Active(s) => {s} \in SUBSET Ids
    BY <2>1 DEF Active, AnyId
  <2> HIDE DEF s
  <2> QED
    BY <1>3, <1>11, <2>1, <2>2, <2>3
<1>13. CASE ServeChange(c)
  <2>1. Victims \in SUBSET Ids
    BY DEF Victims
  <2> QED
    BY <1>11, <1>13, <2>1 DEF ServeChange
<1> QED
  BY <1>8, <1>9, <1>10, <1>12, <1>13 DEF Serve

(* The call that the server is done with is over if the page was done.     *)
LEMMA FinishEnds ==
  ASSUME Sound, NEW c \in Calls, Finish(c)
  PROVE  \E r \in {call[c], NoCall}, v \in Replies \ {"taken"} :
            /\ IF reply[c] = "taken" THEN r = NoCall /\ v = "none"
                                     ELSE r = call[c]
            /\ call' = [call EXCEPT ![c] = r]
            /\ server' = [server EXCEPT ![c] = "idle"]
            /\ reply' = [reply EXCEPT ![c] = v]
<1>1. CASE reply[c] = "taken"
  BY <1>1 DEF Finish, Replies
<1>2. CASE reply[c] # "taken"
  <2>1. /\ call' = [call EXCEPT ![c] = call[c]]
        /\ server' = [server EXCEPT ![c] = "idle"]
        /\ reply' = [reply EXCEPT ![c] = reply[c]]
        /\ reply[c] \in Replies \ {"taken"}
    BY <1>2 DEF Finish, Sound, TypeOK, Replies
  <2> QED
    BY <1>2, <2>1
<1> QED
  BY <1>1, <1>2

LEMMA CommitUsable ==
  ASSUME Sound, Usable, NEW c \in Calls, Commit(c)
  PROVE  Usable'
<1> DEFINE q == call[c]  n == q.new
<1>1. /\ server[c] = "writing" /\ q.kind # "register" /\ Finish(c)
      /\ stored' = stored /\ faults' = faults
  BY DEF Commit
<1>2. PICK r \in {q, NoCall}, v \in Replies \ {"taken"} :
         /\ IF reply[c] = "taken" THEN r = NoCall /\ v = "none" ELSE r = q
         /\ call' = [call EXCEPT ![c] = r]
         /\ server' = [server EXCEPT ![c] = "idle"]
         /\ reply' = [reply EXCEPT ![c] = v]
  BY <1>1, FinishEnds
<1>3. /\ n \in Ids /\ family[n] = NoId /\ n # NoId
  BY <1>1, CallFacts
<1>4. /\ \A t \in Ids : t # n => family'[t] = family[t]
      /\ family'[n] \in {NoId, q.sid}
      /\ family'[n] = NoId => q.kind \notin Granting
      /\ consumed \subseteq consumed'
      /\ \A t \in consumed' \ consumed : q.kind = "refresh" /\ t = q.sent
  <2>1. CASE q.kind = "login"
    <3>1. q.sid = n
      BY <1>1, <2>1 DEF Usable, GrantsAreTrue
    <3>2. family' = [family EXCEPT ![n] = n] /\ consumed' = consumed
      BY <2>1 DEF Commit, OpenSession
    <3> HIDE DEF n
    <3> QED
      BY <1>3, <3>1, <3>2 DEF Sound, TypeOK
  <2>2. CASE q.kind = "refresh"
    <3>1. q.sid # NoId
      BY <1>1, <2>2, CallFacts
    <3>2. /\ family' = [family EXCEPT ![n] = q.sid]
          /\ consumed' = consumed \cup {q.sent}
      BY <2>2 DEF Commit, WriteRefresh
    <3> HIDE DEF n
    <3> QED
      BY <1>3, <2>2, <3>1, <3>2 DEF Sound, TypeOK
  <2>3. CASE q.kind \notin {"login", "refresh"}
    <3>1. UNCHANGED <<family, consumed>>
      BY <2>3 DEF Commit, WriteRevocations
    <3> QED
      BY <1>1, <1>3, <2>3, <3>1 DEF Granting
  <2> QED
    BY <2>1, <2>2, <2>3
<1> QED
  BY <1>1, <1>2, <1>4, DoneUsable

LEMMA CommitRegisterUsable ==
  ASSUME Sound, Usable, NEW c \in Calls, CommitRegister(c)
  PROVE  Usable'
<1> DEFINE q == call[c]  n == q.new
<1>1. /\ server[c] = "writing" /\ q.kind = "register"
      /\ server' = [server EXCEPT ![c] = "idle"]
      /\ call' = [call EXCEPT ![c] = q]
      /\ UNCHANGED <<stored, faults>>
      /\ faults' = 0 => faults = 0
  BY DEF CommitRegister, Sound, TypeOK
<1>2. reply[c] = "none" /\ q.sid = n
  BY <1>1 DEF Usable, GrantsAreTrue
<1>3. /\ n \in Ids /\ family[n] = NoId /\ n # NoId /\ q \in Request
  BY <1>1, CallFacts
<1>4. CASE password = 0
  <2>1. /\ family' = [family EXCEPT ![n] = n] /\ consumed' = consumed
        /\ reply' = [reply EXCEPT ![c] = "ok"]
        /\ "ok" \in Replies \ {"taken"}
    BY <1>4 DEF CommitRegister, OpenSession, Replies
  <2>2. /\ \A t \in Ids : t # n => family'[t] = family[t]
        /\ family'[n] = n
    BY <1>3, <2>1 DEF Sound, TypeOK
  <2> QED
    BY <1>1, <1>2, <1>3, <2>1, <2>2, DoneUsable
<1>5. CASE password # 0
  <2>1. /\ UNCHANGED <<family, consumed>>
        /\ reply' = [reply EXCEPT ![c] = "refused"]
        /\ "refused" \in Replies \ {"taken"} /\ "idle" \in Places
    BY <1>5 DEF CommitRegister, Replies, Places
  <2> QED
    BY <1>1, <1>2, <1>3, <2>1, ServerStepUsable
<1> QED
  BY <1>4, <1>5 DEF Sound, TypeOK

LEMMA FaultUsable ==
  ASSUME Sound, Usable, NEW c \in Calls,
         LoseRequest(c) \/ LoseReply(c) \/ LoseCommit(c)
  PROVE  Usable'
<1> DEFINE q == call[c]
<1>1. /\ faults' # 0 /\ UNCHANGED <<family, consumed, stored>>
      /\ q \in Request /\ call = [call EXCEPT ![c] = q]
  BY DEF LoseRequest, LoseReply, LoseCommit, Fault, tables, Sound, TypeOK
<1>2. CASE LoseRequest(c)
  <2>1. reply[c] = "none"
    BY <1>2 DEF LoseRequest, Sound, CallsAreSound, AnswerIsSound
  <2>2. /\ call' = [call EXCEPT ![c] = q]
        /\ server' = [server EXCEPT ![c] = "idle"]
        /\ reply' = [reply EXCEPT ![c] = "failed"]
        /\ "failed" \in Replies \ {"taken"} /\ "idle" \in Places
    BY <1>1, <1>2 DEF LoseRequest, Replies, Places
  <2> QED
    BY <1>1, <2>1, <2>2, ServerStepUsable
<1>3. CASE LoseReply(c)
  <2>1. reply[c] \in {"ok", "refused", "reused"}
    BY <1>3 DEF LoseReply
  <2>2. /\ call' = [call EXCEPT ![c] = q]
        /\ server' = [server EXCEPT ![c] = server[c]]
        /\ reply' = [reply EXCEPT ![c] = "failed"]
        /\ "failed" \in Replies \ {"taken"} /\ server[c] \in Places
    BY <1>1, <1>3 DEF LoseReply, Replies, Places, Sound, TypeOK
  <2>3. server[c] = "writing" =>
           /\ q.kind \in {"login", "register"} => q.sid = q.new
           /\ q.kind # "register"
    BY <2>1 DEF Usable, GrantsAreTrue
  <2> QED
    BY <1>1, <2>1, <2>2, <2>3, ServerStepUsable
<1>4. CASE LoseCommit(c)
  <2>1. server[c] = "writing" /\ Finish(c)
    BY <1>4 DEF LoseCommit
  <2>2. PICK r \in {q, NoCall}, v \in Replies \ {"taken"} :
           /\ IF reply[c] = "taken" THEN r = NoCall /\ v = "none" ELSE r = q
           /\ call' = [call EXCEPT ![c] = r]
           /\ server' = [server EXCEPT ![c] = "idle"]
           /\ reply' = [reply EXCEPT ![c] = v]
    BY <2>1, FinishEnds
  <2>3. family'[q.new] = NoId
    BY <1>1, <2>1, CallFacts
  <2> QED
    BY <1>1, <2>1, <2>2, <2>3, DoneUsable
<1> QED
  BY <1>2, <1>3, <1>4

LEMMA UsableStep == Sound /\ Usable /\ [Next]_vars => Usable'
<1> SUFFICES ASSUME Sound, Usable, [Next]_vars PROVE Usable'
  OBVIOUS
<1>1. ASSUME UNCHANGED <<family, consumed, call, server, reply, faults>>,
             UNCHANGED stored \/ AccessAges
      PROVE  Usable'
  <2>1. /\ stored'.refresh = stored.refresh /\ stored'.access = stored.access
        /\ stored' # NoStore => stored # NoStore
    <3>1. CASE AccessAges
      <4>1. /\ stored # NoStore
            /\ stored \in [refresh : Ids, access : Ids, fresh : BOOLEAN]
        BY <3>1 DEF AccessAges, Sound, TypeOK, Store, NoStore
      <4> QED
        BY <3>1, <4>1 DEF AccessAges
    <3> QED
      BY <1>1, <3>1
  <2> QED
    BY <1>1, <2>1 DEF Usable, NewTokensAreNew, GrantsAreTrue, StoreIsTrue,
                      Untaken, Spent
<1>2. CASE UNCHANGED vars
  BY <1>1, <1>2 DEF vars, tables
<1>3. CASE AccessAges
  BY <1>1, <1>3 DEF AccessAges, tables
<1>4. ASSUME NEW t \in Ids, Expire(t) PROVE Usable'
  BY <1>1, <1>4 DEF Expire
<1>5. ASSUME NEW c \in Calls,
             \/ Register(c) \/ Login(c) \/ Refresh(c) \/ Logout(c)
             \/ ChangePassword(c)
      PROVE  Usable'
  BY <1>5, SendUsable
  DEF Register, Login, Refresh, Logout, ChangePassword, Kinds
<1>6. ASSUME NEW c \in Calls, CallStep(c) PROVE Usable'
  BY <1>6, ServeUsable, CommitUsable, CommitRegisterUsable, TakeReplyUsable
  DEF CallStep
<1> QED
  BY <1>2, <1>3, <1>4, <1>5, <1>6, FaultUsable DEF Next

-----------------------------------------------------------------------------
(* Theorems. *)

(* Whatever interleaves, the tables and the calls keep their types, and    *)
(* every token its place: the invariant the other theorems rest on.        *)
THEOREM AuthInvariant == Spec => []Sound
<1>1. Init => Sound
  BY SoundInit
<1>2. Sound /\ [Next]_vars => Sound'
  BY SoundStep
<1> QED
  BY <1>1, <1>2, PTL DEF Spec

(* Rotation: an exchanged token is consumed, and its child is of the same, *)
(* existing session, with any number of tabs, lost replies and commits.    *)
THEOREM LineageKept == Spec => []Lineage
  BY AuthInvariant, PTL DEF Sound

(* No login, refresh, logout or commit reactivates a revoked session, and  *)
(* only exchanges already under way give it another token.                 *)
THEOREM RevocationsStand == Spec => RevocationStands
<1>1. Sound /\ [Next]_vars => \A s \in Ids : Closed(s)
  BY ClosedStep
<1> QED
  BY <1>1, AuthInvariant, PTL DEF Spec, RevocationStands

(* change_password() finds every session that was opened with the old      *)
(* password but those of logins that overlapped it, for any number of      *)
(* logins, changes, lost commits and calls of other kinds.                 *)
THEOREM PasswordChangesFind == Spec => []OnlyLateLoginsSurvive
<1>1. Init => Current
  BY DEF Init, Current, OnlyLateLoginsSurvive, OthersAreFound, Writing
<1>2. Sound /\ Current /\ [Next]_vars => Current'
  BY CurrentStep
<1>3. Current => OnlyLateLoginsSurvive
  BY DEF Current
<1> QED
  BY <1>1, <1>2, <1>3, AuthInvariant, PTL DEF Spec

(* However many tabs refresh, log in and log out at once, getAccessToken() *)
(* leaves the browser, when all is quiet, with a pair of one session whose *)
(* refresh token is not spent and, unless a request, a reply or a commit   *)
(* was lost, is in refresh_tokens.                                         *)
THEOREM StoredPairIsUsable == Spec => []StoredIsUsable
<1>1. Init => Usable
  BY UsableInit
<1>2. Sound /\ Usable /\ [Next]_vars => Usable'
  BY UsableStep
<1>3. ASSUME Sound, Usable PROVE StoredIsUsable
  <2>1. AtRest => \A d \in Calls : call[d].kind = "none"
    BY DEF AtRest, NoCall
  <2>2. \A d \in Calls : call[d].kind = "none" => reply[d] = "none"
    BY <1>3, CallFacts
  <2> QED
    BY <1>3, <2>1, <2>2 DEF StoredIsUsable, Usable, StoreIsTrue
<1> QED
  BY <1>1, <1>2, <1>3, AuthInvariant, PTL DEF Spec
=============================================================================
