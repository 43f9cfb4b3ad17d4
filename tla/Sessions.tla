------------------------------- MODULE Sessions -------------------------------
(***************************************************************************)
(* The sessions of one user: logins make room and create a row in several  *)
(* writes, refreshes rotate its token, a block or a new password is        *)
(* written and then revokes them.  The process may end between two writes. *)
(***************************************************************************)
EXTENDS Integers, Sequences, FiniteSets, SequencesExt

CONSTANTS
    MaxActiveSessions, \* MAX_ACTIVE_SESSIONS
    MaxSessions,       \* bound: session ids are 1 .. MaxSessions
    MaxPasswords,      \* bound: changes of the password
    SessionRequests    \* logins, refreshes and changes in flight together

ASSUME SessionConstantsOK == MaxActiveSessions \in Nat \ {0} /\ MaxSessions \in Nat
                                /\ MaxPasswords \in Nat /\ IsFiniteSet(SessionRequests)

VARIABLES
    session,           \* the UserSession rows, by id
    activity,          \* the place of each by lastActivityAt, the oldest being 1
    isBlocked,
    password,          \* how often it was changed
    revoking,          \* blockUser has blocked and not yet revoked
    authReq,           \* the handlers in flight
    loginsCrossed,     \* history: the newest session was created on an outdated count
    leftPending,       \* history: the process ended between a session's two writes
    outlived           \* history: the sessions that may outlive their password

sessionsVars ==
    <<session, activity, isBlocked, password, revoking, authReq, loginsCrossed, leftPending, outlived>>
-------------------------------------------------------------------------------
Pending == "pending"   \* the token of a row before its tokens are signed; @unique

Signed == "signed"     \* the hash of a refresh token, unlike any other

\* under: the password a login has compared, or NoPassword for a code.
NoPassword == -1

IdleAuth == [phase |-> "idle", overflow |-> {}, id |-> 0, under |-> NoPassword, overtaken |-> FALSE]

SessionIds == DOMAIN session

ActiveSessions == {s \in SessionIds : session[s].isActive}

SessionsInit ==
    /\ session = <<>> /\ activity = <<>>
    /\ isBlocked = FALSE /\ revoking = FALSE /\ password = 0 /\ outlived = {}
    /\ authReq = [h \in SessionRequests |-> IdleAuth]
    /\ loginsCrossed = FALSE /\ leftPending = FALSE

\* The first n rows of findMany(orderBy lastActivityAt).
Oldest(n) ==
    {s \in ActiveSessions : Cardinality({t \in ActiveSessions : activity[t] <= activity[s]}) <= n}

\* Faulty: room for the new session is not counted.
OverflowWithoutNew == Oldest(Cardinality(ActiveSessions) - MaxActiveSessions)

\* Those beyond MAX_ACTIVE_SESSIONS - 1.
Overflow == Oldest(Cardinality(ActiveSessions) - MaxActiveSessions + 1)

Deactivated(ids) ==
    [s \in SessionIds |-> [session[s] EXCEPT !.isActive = @ /\ s \notin ids]]

\* A new password is written, its revocation not yet.
RevocationPending == \E h \in SessionRequests : authReq[h].phase = "revoke"

\* Faulty: only a change from within a session ends the others.
OthersOfHolder(s) == IF s = 0 THEN {} ELSE SessionIds \ {s}

\* revokeAllSessions: all, or all except s.
Others(s) == SessionIds \ {s}

Touched(s) ==
    [t \in SessionIds |-> IF t = s THEN Len(session)
                          ELSE IF activity[t] > activity[s] THEN activity[t] - 1
                          ELSE activity[t]]
-------------------------------------------------------------------------------
\* login compares the password, verifyLoginOtp and verifyRegisterOtp a code; the last does
\* not look at isBlocked.  Then enforceMaxActiveSessions reads the active sessions.
StartLogin(h, how) ==
    /\ authReq[h].phase = "idle"
    /\ Len(session) < MaxSessions
    /\ how = "register" \/ ~isBlocked
    /\ authReq' = [authReq EXCEPT ![h] =
            [IdleAuth EXCEPT !.phase = IF Overflow = {} THEN "create" ELSE "evict",
                             !.overflow = Overflow,
                             !.under = IF how = "password" THEN password ELSE NoPassword]]
    /\ UNCHANGED <<session, activity, isBlocked, password, revoking, loginsCrossed, leftPending, outlived>>

\* updateMany: isActive false.
EvictOldest(h) ==
    /\ authReq[h].phase = "evict"
    /\ session' = Deactivated(authReq[h].overflow)
    /\ authReq' = [authReq EXCEPT ![h].phase = "create"]
    /\ UNCHANGED <<activity, isBlocked, password, revoking, loginsCrossed, leftPending, outlived>>

\* The row is created with the token "pending"; the unique index allows one such row
\* among the sessions of every user.
CreateSession(h) ==
    LET id == Len(session) + 1
        under == IF authReq[h].under = NoPassword THEN password ELSE authReq[h].under
    IN  /\ authReq[h].phase = "create"
        /\ IF \E s \in SessionIds : session[s].token = Pending
           THEN /\ authReq' = [authReq EXCEPT ![h] = IdleAuth]
                /\ UNCHANGED <<session, activity, loginsCrossed, outlived>>
           ELSE /\ id <= MaxSessions
                /\ session' = Append(session, [isActive |-> TRUE, token |-> Pending, under |-> under])
                /\ activity' = Append(activity, id)
                /\ loginsCrossed' = authReq[h].overtaken
                /\ outlived' = outlived \cup (IF under = password \/ RevocationPending THEN {} ELSE {id})
                /\ authReq' = [g \in SessionRequests |->
                        IF g = h THEN [IdleAuth EXCEPT !.phase = "sign", !.id = id]
                        ELSE [authReq[g] EXCEPT !.overtaken = authReq[g].phase \in {"evict", "create"}]]
        /\ UNCHANGED <<isBlocked, password, revoking, leftPending>>

\* Faulty: the new row keeps the placeholder.
NewTokenForgotten(s) == session

NewToken(s) == [session EXCEPT ![s].token = Signed]

SignTokens(h) ==
    /\ authReq[h].phase = "sign"
    /\ session' = NewToken(authReq[h].id)
    /\ authReq' = [authReq EXCEPT ![h] = IdleAuth]
    /\ UNCHANGED <<activity, isBlocked, password, revoking, loginsCrossed, leftPending, outlived>>

\* refreshTokens checks the session, its token and the user ...
StartRefresh(h, s) ==
    /\ authReq[h].phase = "idle"
    /\ s \in ActiveSessions /\ session[s].token # Pending
    /\ ~isBlocked
    /\ authReq' = [authReq EXCEPT ![h] = [IdleAuth EXCEPT !.phase = "rotate", !.id = s]]
    /\ UNCHANGED <<session, activity, isBlocked, password, revoking, loginsCrossed, leftPending, outlived>>

\* ... and writes the row, revoked or not.
RotateToken(h) ==
    /\ authReq[h].phase = "rotate"
    /\ session' = NewToken(authReq[h].id)
    /\ activity' = Touched(authReq[h].id)
    /\ authReq' = [authReq EXCEPT ![h] = IdleAuth]
    /\ UNCHANGED <<isBlocked, password, revoking, loginsCrossed, leftPending, outlived>>

\* authenticate, in a request of the user: the write of lastActivityAt is not awaited.
Authenticate(s) ==
    /\ s \in ActiveSessions /\ session[s].token # Pending
    /\ ~isBlocked
    /\ activity' = Touched(s)
    /\ UNCHANGED <<session, isBlocked, password, revoking, authReq, loginsCrossed, leftPending, outlived>>

\* logout; revokeSession from the list of devices.
RevokeSession(s) ==
    /\ s \in ActiveSessions
    /\ session' = Deactivated({s})
    /\ UNCHANGED <<activity, isBlocked, password, revoking, authReq, loginsCrossed, leftPending, outlived>>

\* logoutAllDevices, except s; revokeAllUserSessionsAdmin, all.
RevokeAllSessions(s) ==
    /\ session' = Deactivated(Others(s))
    /\ UNCHANGED <<activity, isBlocked, password, revoking, authReq, loginsCrossed, leftPending, outlived>>

\* changeMyPassword, in session s, has compared the password; resetPassword (s = 0) has
\* accepted a code, of a blocked user too ...
StartPasswordChange(h, s) ==
    /\ authReq[h].phase = "idle"
    /\ s # 0 => s \in ActiveSessions /\ session[s].token # Pending /\ ~isBlocked
    /\ password < MaxPasswords
    /\ authReq' = [authReq EXCEPT ![h] = [IdleAuth EXCEPT !.phase = "change", !.id = s]]
    /\ UNCHANGED <<session, activity, isBlocked, password, revoking, loginsCrossed, leftPending, outlived>>

\* ... writes the user; s goes on under the new password ...
WritePassword(h) ==
    LET r == authReq[h]
    IN  /\ r.phase = "change" /\ password < MaxPasswords
        /\ password' = password + 1
        /\ session' = IF r.id = 0 THEN session ELSE [session EXCEPT ![r.id].under = password']
        /\ authReq' = [authReq EXCEPT ![h].phase = "revoke"]
        /\ UNCHANGED <<activity, isBlocked, revoking, loginsCrossed, leftPending, outlived>>

\* ... and then the sessions, in a statement of its own.
RevokeOthers(h) ==
    /\ authReq[h].phase = "revoke"
    /\ session' = Deactivated(Others(authReq[h].id))
    /\ authReq' = [authReq EXCEPT ![h] = IdleAuth]
    /\ UNCHANGED <<activity, isBlocked, password, revoking, loginsCrossed, leftPending, outlived>>

\* blockUser writes the user and then the sessions.
BlockUser ==
    /\ ~revoking
    /\ isBlocked' = TRUE /\ revoking' = TRUE
    /\ UNCHANGED <<session, activity, password, authReq, loginsCrossed, leftPending, outlived>>

RevokeBlocked ==
    /\ revoking
    /\ session' = Deactivated(SessionIds)
    /\ revoking' = FALSE
    /\ UNCHANGED <<activity, isBlocked, password, authReq, loginsCrossed, leftPending, outlived>>

UnblockUser ==
    /\ isBlocked' = FALSE
    /\ UNCHANGED <<session, activity, password, revoking, authReq, loginsCrossed, leftPending, outlived>>

\* The server is restarted: what the handlers had left to do is not done.
ServerRestarts ==
    /\ authReq' = [h \in SessionRequests |-> IdleAuth]
    /\ revoking' = FALSE
    /\ leftPending' = (leftPending \/ \E h \in SessionRequests : authReq[h].phase = "sign")
    /\ outlived' = outlived \cup
            (IF RevocationPending THEN {s \in ActiveSessions : session[s].under < password} ELSE {})
    /\ UNCHANGED <<session, activity, isBlocked, password, loginsCrossed>>

SessionsNext ==
    \/ \E h \in SessionRequests :
          \/ \E how \in {"password", "code", "register"} : StartLogin(h, how)
          \/ EvictOldest(h) \/ CreateSession(h) \/ SignTokens(h) \/ RotateToken(h)
          \/ WritePassword(h) \/ RevokeOthers(h)
          \/ \E s \in 1 .. MaxSessions : StartRefresh(h, s)
          \/ \E s \in 0 .. MaxSessions : StartPasswordChange(h, s)
    \/ \E s \in 1 .. MaxSessions : Authenticate(s) \/ RevokeSession(s)
    \/ \E s \in 0 .. MaxSessions : RevokeAllSessions(s)
    \/ BlockUser \/ RevokeBlocked \/ UnblockUser \/ ServerRestarts
-------------------------------------------------------------------------------
SessionsTypeOK ==
    /\ Len(session) <= MaxSessions
    /\ Range(activity) = SessionIds /\ Len(activity) = Len(session)
    /\ \A h \in SessionRequests : authReq[h].id \in SessionIds \cup {0}
    /\ password \in 0 .. MaxPasswords /\ outlived \subseteq SessionIds

\* A user keeps MAX_ACTIVE_SESSIONS sessions: the oldest give way to a new one, however
\* refreshes, logouts and blocks fall between the count and the new row.  Only a login
\* that counted before another one's row was there goes beyond, by less than the number
\* of logins in flight (session.service.ts 18-57).
SessionsWithinLimit ==
    Cardinality(ActiveSessions) <=
        MaxActiveSessions + (IF loginsCrossed THEN Cardinality(SessionRequests) - 1 ELSE 0)

\* A new password, changed or reset, ends the sessions opened under the old one, but for
\* the session it was changed in: unless the process ends between the two writes, or a
\* login that had compared the old password creates its row after the revocation
\* (auth.service.ts 212-238, profile.service.ts 35-52, session.service.ts 67-73).
SessionsFollowPassword ==
    RevocationPending \/ \A s \in ActiveSessions : session[s].under = password \/ s \in outlived

\* The placeholder token, which keeps every other login out while a row has it, is
\* there only while a login is between its two writes, or for good once the process
\* ended there (session.service.ts 21-37 and the unique token of schema.prisma 297).
PlaceholderIsTransient ==
    leftPending \/ \A s \in SessionIds : session[s].token = Pending =>
                      \E h \in SessionRequests : authReq[h].phase = "sign" /\ authReq[h].id = s
===============================================================================
