---------------------------- MODULE AuthSessions ----------------------------
(***************************************************************************)
(* Sessions and rotating refresh tokens of one user                        *)
(* (src/app/auth, src/app/models/user.py), with the browser that keeps the *)
(* tokens (frontend/src/lib/auth.tsx).                                     *)
(*                                                                         *)
(* Calls are the browser's concurrent calls: tabs and requests of a page   *)
(* share one token store but no lock.  A request is served in three steps: *)
(* its handler reads committed rows (Serve), the reply leaves, and only    *)
(* then get_db() commits the handler's writes (Commit): FastAPI runs what  *)
(* follows the yield of a dependency after the response.  register()       *)
(* alone commits before it replies.  A handler that raises is rolled back, *)
(* with the audit rows it wrote; those of the others commit with their     *)
(* writes and are left out.                                                *)
(***************************************************************************)
EXTENDS Naturals, FiniteSets

CONSTANTS
    Ids,         \* uuids: of a refresh token, and of the session it opened
    Calls,       \* calls the browser can have open at a time
    NoId,
    MaxChanges,  \* bound: password changes
    MaxFaults    \* bound: lost requests, lost replies and failed commits

ASSUME AuthSessionsAssumption ==
    /\ NoId \notin Ids
    /\ MaxChanges \in Nat
    /\ MaxFaults \in Nat

VARIABLES
    password,  \* version of the user's password; 0: the user does not exist
    session,   \* sessions: absent, active, or revoked (revoked_at is set)
    verified,  \* the password version a session's login has verified
    family,    \* refresh_tokens.session_id; NoId: there is no such row
    parent,    \* refresh_tokens.parent_token_id
    consumed,  \* the tokens whose consumed_at is set
    expired,   \* the tokens whose expires_at is past
    stored,    \* the browser's localStorage
    call,      \* per call: its request
    server,    \* per call: what the server still has to do
    reply,     \* per call: the response
    late,      \* history: the ids of logins that overlapped a password change
    faults

tables == <<password, session, verified, family, parent, consumed, expired>>
vars == <<tables, stored, call, server, reply, late, faults>>

-----------------------------------------------------------------------------

AnyId == Ids \cup {NoId}
Kinds == {"none", "register", "login", "refresh", "logout", "change"}

(* A request: the refresh token it sends, the session of its access token  *)
(* (NoId: the token is not valid any more), the password it was typed, the *)
(* id its handler would generate, the sessions it is about to revoke.      *)
Request == [kind : Kinds, sent : AnyId, sid : AnyId, pw : Nat,
            new : AnyId, revokes : SUBSET Ids]
NoCall == [kind |-> "none", sent |-> NoId, sid |-> NoId, pw |-> 0,
           new |-> NoId, revokes |-> {}]

(* fresh: the access token has more than 60 s left. *)
NoStore == [refresh |-> NoId, access |-> NoId, fresh |-> FALSE]
Store == [refresh : Ids, access : Ids, fresh : BOOLEAN] \cup {NoStore}

TypeOK ==
    /\ password \in Nat
    /\ session \in [Ids -> {"absent", "active", "revoked"}]
    /\ verified \in [Ids -> Nat]
    /\ family \in [Ids -> AnyId]
    /\ parent \in [Ids -> AnyId]
    /\ consumed \in SUBSET Ids
    /\ expired \in SUBSET Ids
    /\ stored \in Store
    /\ call \in [Calls -> Request]
    /\ server \in [Calls -> {"idle", "received", "writing"}]
    /\ reply \in [Calls -> {"none", "ok", "refused", "reused", "failed",
                            "taken"}]
    /\ late \in SUBSET Ids
    /\ faults \in 0 .. MaxFaults

Init ==
    /\ password = 0
    /\ session = [s \in Ids |-> "absent"]
    /\ verified = [s \in Ids |-> 0]
    /\ family = [t \in Ids |-> NoId]
    /\ parent = [t \in Ids |-> NoId]
    /\ consumed = {}
    /\ expired = {}
    /\ stored = NoStore
    /\ call = [c \in Calls |-> NoCall]
    /\ server = [c \in Calls |-> "idle"]
    /\ reply = [c \in Calls |-> "none"]
    /\ late = {}
    /\ faults = 0

-----------------------------------------------------------------------------
(* The browser sends a request. *)

InUse(t) ==
    \/ family[t] # NoId
    \/ stored.refresh = t
    \/ \E c \in Calls : t \in {call[c].new, call[c].sent}

Fresh == {t \in Ids : ~InUse(t)}

(* Any fresh uuid is as good as another. *)
Send(c, k, t, s, p) ==
    /\ call[c] = NoCall
    /\ Fresh # {}
    /\ call' = [call EXCEPT ![c] = [kind |-> k, sent |-> t, sid |-> s, pw |-> p,
                                    new |-> CHOOSE n \in Fresh : TRUE,
                                    revokes |-> {}]]
    /\ server' = [server EXCEPT ![c] = "received"]
    /\ UNCHANGED <<tables, stored, reply, late, faults>>

Register(c) == Send(c, "register", NoId, NoId, 1)

(* The user types the current password or an old one. *)
Login(c) == \E p \in 1 .. password : Send(c, "login", NoId, NoId, p)

(* getAccessToken(): no request unless the stored token is about to expire. *)
Refresh(c) ==
    /\ stored # NoStore
    /\ ~stored.fresh
    /\ Send(c, "refresh", stored.refresh, NoId, 0)

(* logout() sends the stored access token as it is, valid or not. *)
Logout(c) ==
    /\ stored # NoStore
    /\ \/ Send(c, "logout", stored.refresh, stored.access, 0)
       \/ ~stored.fresh /\ Send(c, "logout", stored.refresh, NoId, 0)

Changing == Cardinality({c \in Calls : call[c].kind = "change"})

(* change_password() has no route: an operator's call beside the browser's. *)
ChangePassword(c) ==
    /\ password > 0
    /\ password + Changing <= MaxChanges
    /\ Send(c, "change", NoId, NoId, 0)

-----------------------------------------------------------------------------
(* The server reads. *)

Open(kind) == {c \in Calls : server[c] = "writing" /\ call[c].kind = kind}

(* What a handler finds out.  To answer means to reply, and to commit later *)
(* what there is to write.                                                  *)
Refuse(c, why) ==
    /\ reply' = [reply EXCEPT ![c] = why]
    /\ server' = [server EXCEPT ![c] = "idle"]
    /\ UNCHANGED call

Answer(c, r) ==
    /\ call' = [call EXCEPT ![c] = r]
    /\ reply' = [reply EXCEPT ![c] = "ok"]
    /\ server' = [server EXCEPT ![c] = "writing"]

(* Mistaken variants of what the handlers read and write and of what the   *)
(* browser keeps; the specification does not use them.                     *)
ActiveIfKnown(s) == s # NoId /\ session[s] # "absent"
VictimsRevoked == {s \in Ids : session[s] = "revoked"}
WriteRefreshKeepsToken(c) ==
    /\ family' = [family EXCEPT ![call[c].new] = call[c].sid]
    /\ parent' = [parent EXCEPT ![call[c].new] = call[c].sent]
    /\ UNCHANGED <<password, session, verified, consumed>>
SaveAccessOnly(c) ==
    IF stored = NoStore
       THEN [refresh |-> call[c].new, access |-> call[c].sid, fresh |-> TRUE]
       ELSE [stored EXCEPT !.access = call[c].sid, !.fresh = TRUE]
FinishKeepsCall(c) ==
    /\ server' = [server EXCEPT ![c] = "idle"]
    /\ UNCHANGED <<call, reply>>

Active(s) == s # NoId /\ session[s] = "active"

Spent(t) == t \in consumed

Victims == {s \in Ids : session[s] = "active"}

(* login(): an unknown email or another password is refused. *)
ServeLogin(c) ==
    /\ call[c].kind = "login"
    /\ IF call[c].pw = password
          THEN /\ Answer(c, [call[c] EXCEPT !.sid = call[c].new])
               /\ late' = IF Open("change") = {}
                             THEN late \ {call[c].new}
                             ELSE late \cup {call[c].new}
          ELSE Refuse(c, "refused") /\ UNCHANGED late

(* register(): refused when the email is known; otherwise it goes on to    *)
(* insert, and replies only once that has committed.                       *)
ServeRegister(c) ==
    /\ call[c].kind = "register"
    /\ IF password # 0
          THEN Refuse(c, "refused")
          ELSE /\ call' = [call EXCEPT ![c].sid = call[c].new]
               /\ server' = [server EXCEPT ![c] = "writing"]
               /\ UNCHANGED reply

(* refresh(): an unknown token, a consumed one, a revoked session and an   *)
(* expired token, in this order.  For a consumed token the handler revokes *)
(* the session and then raises: the route's 401 rolls the revocation back. *)
ServeRefresh(c) ==
    LET t == call[c].sent
        s == family[t]
    IN  /\ call[c].kind = "refresh"
        /\ IF s = NoId THEN Refuse(c, "refused")
           ELSE IF Spent(t) THEN Refuse(c, "reused")
           ELSE IF ~Active(s) \/ t \in expired THEN Refuse(c, "refused")
           ELSE Answer(c, [call[c] EXCEPT !.sid = s])

(* require_auth(), then logout(): an unknown token or a revoked session is *)
(* a success that writes nothing.                                          *)
ServeLogout(c) ==
    LET s == family[call[c].sent]
    IN  /\ call[c].kind = "logout"
        /\ IF ~Active(call[c].sid) THEN Refuse(c, "refused")
           ELSE IF Active(s) THEN Answer(c, [call[c] EXCEPT !.revokes = {s}])
           ELSE Refuse(c, "ok")

(* change_password() and revoke_user_sessions(): the sessions that are     *)
(* active now will be revoked.  The query that lists them flushes the      *)
(* UPDATE of the user first, which waits for that of another change.       *)
ServeChange(c) ==
    /\ call[c].kind = "change"
    /\ Open("change") = {}
    /\ Answer(c, [call[c] EXCEPT !.revokes = Victims])
    /\ late' = late \cup {call[d].new : d \in Open("login")}

Serve(c) ==
    /\ server[c] = "received"
    /\ \/ ServeLogin(c)
       \/ ServeRegister(c) /\ UNCHANGED late
       \/ ServeRefresh(c) /\ UNCHANGED late
       \/ ServeLogout(c) /\ UNCHANGED late
       \/ ServeChange(c)
    /\ UNCHANGED <<tables, stored, faults>>

-----------------------------------------------------------------------------
(* The server commits. *)

OpenSession(c, p) ==
    /\ session' = [session EXCEPT ![call[c].new] = "active"]
    /\ verified' = [verified EXCEPT ![call[c].new] = p]
    /\ family' = [family EXCEPT ![call[c].new] = call[c].new]
    /\ UNCHANGED <<parent, consumed>>

WriteRefresh(c) ==
    /\ consumed' = consumed \cup {call[c].sent}
    /\ family' = [family EXCEPT ![call[c].new] = call[c].sid]
    /\ parent' = [parent EXCEPT ![call[c].new] = call[c].sent]
    /\ UNCHANGED <<password, session, verified>>

WriteRevocations(c) ==
    /\ session' = [s \in Ids |-> IF s \in call[c].revokes THEN "revoked"
                                                          ELSE session[s]]
    /\ password' = IF call[c].kind = "change" THEN password + 1 ELSE password
    /\ UNCHANGED <<verified, family, parent, consumed>>

(* The server is done; the call ends once the browser is done as well. *)
Finish(c) ==
    /\ server' = [server EXCEPT ![c] = "idle"]
    /\ IF reply[c] = "taken"
          THEN /\ call' = [call EXCEPT ![c] = NoCall]
               /\ reply' = [reply EXCEPT ![c] = "none"]
          ELSE UNCHANGED <<call, reply>>

Commit(c) ==
    /\ server[c] = "writing"
    /\ call[c].kind # "register"
    /\ CASE call[c].kind = "login" -> /\ OpenSession(c, call[c].pw)
                                      /\ UNCHANGED password
         [] call[c].kind = "refresh" -> WriteRefresh(c)
         [] OTHER -> WriteRevocations(c)
    /\ Finish(c)
    /\ UNCHANGED <<expired, stored, late, faults>>

(* Of two registrations of one email the second violates uq_users_email    *)
(* and fails.                                                              *)
CommitRegister(c) ==
    /\ server[c] = "writing"
    /\ call[c].kind = "register"
    /\ IF password = 0
          THEN /\ password' = 1
               /\ OpenSession(c, 1)
               /\ reply' = [reply EXCEPT ![c] = "ok"]
          ELSE /\ UNCHANGED <<password, session, verified, family, parent,
                              consumed>>
               /\ reply' = [reply EXCEPT ![c] = "refused"]
    /\ server' = [server EXCEPT ![c] = "idle"]
    /\ UNCHANGED <<call, expired, stored, late, faults>>

-----------------------------------------------------------------------------
(* The browser takes the reply. *)

Save(c) == [refresh |-> call[c].new, access |-> call[c].sid, fresh |-> TRUE]

(* A refresh that fails in any way clears the store, whatever has been     *)
(* saved there since it was sent; so does every logout.                    *)
NewStore(c) ==
    CASE call[c].kind \in {"login", "register"} ->
            IF reply[c] = "ok" THEN Save(c) ELSE stored
      [] call[c].kind = "refresh" ->
            IF reply[c] = "ok" THEN Save(c) ELSE NoStore
      [] call[c].kind = "logout" -> NoStore
      [] OTHER -> stored

TakeReply(c) ==
    /\ reply[c] \notin {"none", "taken"}
    /\ stored' = NewStore(c)
    /\ IF server[c] = "writing"
          THEN reply' = [reply EXCEPT ![c] = "taken"] /\ UNCHANGED call
          ELSE /\ reply' = [reply EXCEPT ![c] = "none"]
               /\ call' = [call EXCEPT ![c] = NoCall]
    /\ UNCHANGED <<tables, server, late, faults>>

-----------------------------------------------------------------------------
(* Time and faults. *)

AccessAges ==
    /\ stored.fresh
    /\ stored' = [stored EXCEPT !.fresh = FALSE]
    /\ UNCHANGED <<tables, call, server, reply, late, faults>>

Expire(t) ==
    /\ family[t] # NoId
    /\ t \notin expired
    /\ expired' = expired \cup {t}
    /\ UNCHANGED <<password, session, verified, family, parent, consumed,
                   stored, call, server, reply, late, faults>>

Fault ==
    /\ faults < MaxFaults
    /\ faults' = faults + 1
    /\ UNCHANGED <<tables, stored, late>>

(* The request does not arrive, or its process dies before it replies. *)
LoseRequest(c) ==
    /\ \/ server[c] = "received"
       \/ server[c] = "writing" /\ reply[c] = "none"
    /\ server' = [server EXCEPT ![c] = "idle"]
    /\ reply' = [reply EXCEPT ![c] = "failed"]
    /\ UNCHANGED call
    /\ Fault

LoseReply(c) ==
    /\ reply[c] \in {"ok", "refused", "reused"}
    /\ reply' = [reply EXCEPT ![c] = "failed"]
    /\ UNCHANGED <<call, server>>
    /\ Fault

(* The commit that follows the reply fails. *)
LoseCommit(c) ==
    /\ server[c] = "writing"
    /\ reply[c] # "none"
    /\ Finish(c)
    /\ Fault

-----------------------------------------------------------------------------

CallStep(c) == Serve(c) \/ Commit(c) \/ CommitRegister(c) \/ TakeReply(c)

Next ==
    \/ \E c \in Calls :
          \/ Register(c) \/ Login(c) \/ Refresh(c) \/ Logout(c)
          \/ ChangePassword(c)
          \/ CallStep(c)
          \/ LoseRequest(c) \/ LoseReply(c) \/ LoseCommit(c)
    \/ AccessAges
    \/ \E t \in Ids : Expire(t)

Spec == Init /\ [][Next]_vars

(* The server serves and commits what has arrived, the page handles the    *)
(* replies; users, clocks and faults owe nothing.                          *)
Fairness == \A c \in Calls : WF_vars(CallStep(c))

FairSpec == Spec /\ Fairness

-----------------------------------------------------------------------------
(* Properties. *)

(* Rotation (auth_service.md, invariant 3): a token that has been exchanged *)
(* is consumed, its child belongs to the same session, and that session    *)
(* exists, whatever requests, replies and commits are lost.                *)
Lineage ==
    \A t \in Ids :
        /\ family[t] # NoId => session[family[t]] # "absent"
        /\ parent[t] # NoId =>
              /\ family[t] # NoId
              /\ parent[t] \in consumed
              /\ family[parent[t]] = family[t]

(* When the browser is at rest, the tokens it keeps are a pair of one      *)
(* session, and the refresh token can still be exchanged: no interleaving  *)
(* of tabs leaves it with a spent token, or, unless a commit was lost, with *)
(* one the server does not know.                                           *)
AtRest == \A c \in Calls : call[c] = NoCall

StoredIsUsable ==
    AtRest /\ stored # NoStore =>
        /\ ~Spent(stored.refresh)
        /\ family[stored.refresh] # NoId => family[stored.refresh] = stored.access
        /\ faults = 0 => family[stored.refresh] # NoId

(* A revoked session stays revoked (auth_service.md: it is never           *)
(* reactivated), no refresh that reads it afterwards is granted, and once  *)
(* those that had read it as active are through it gets no more tokens.    *)
Exchanging(s) ==
    {c \in Calls : /\ server[c] = "writing"
                   /\ call[c].kind = "refresh"
                   /\ call[c].sid = s}

TokensOf(s) == {t \in Ids : family[t] = s}

Closed(s) ==
    session[s] = "revoked" =>
        /\ session'[s] = "revoked"
        /\ Exchanging(s)' \subseteq Exchanging(s)
        /\ Exchanging(s) = {} => TokensOf(s)' = TokensOf(s)

RevocationStands == [][\A s \in Ids : Closed(s)]_vars

(* After a password change only sessions opened with the new password are  *)
(* active, but for those of logins that overlapped a change: such a login  *)
(* has read the old password and is not committed when the change lists    *)
(* the sessions to revoke.  All others are found, whatever else is open.   *)
OnlyLateLoginsSurvive ==
    \A s \in Ids :
        session[s] = "active" => verified[s] = password \/ s \in late

(* Every call of the browser comes to an end on both sides. *)
EveryCallEnds == \A c \in Calls : call[c] # NoCall ~> call[c] = NoCall

(* What the documents state and the code does not keep.                    *)

(* A password change ends every session (auth_service.md, invariant 9):    *)
(* those that are active were opened with the password of now.             *)
PasswordChangeHolds ==
    \A s \in Ids : session[s] = "active" => verified[s] = password

(* Reuse of a consumed token revokes its session (auth_service.md,         *)
(* invariant 4).                                                           *)
ReuseEndsSession ==
    \A c \in Calls :
        reply[c] = "reused" => session[family[call[c].sent]] = "revoked"
=============================================================================
