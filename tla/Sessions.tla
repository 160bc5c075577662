------------------------------ MODULE Sessions ------------------------------
(***************************************************************************)
(* The account of one phone and its sessions: sign in by a one-time code,  *)
(* registration, sign in by password, rotation of refresh tokens, logout,  *)
(* the first password, and the ban by an administrator.  A call begins     *)
(* here after its code was taken (OneTimeCodes); every later await is a    *)
(* step.  A refresh token carries the user and the second it was signed    *)
(* in, so two tokens signed in one second are the same token.              *)
(***************************************************************************)
EXTENDS Naturals

CONSTANTS
  Devices,       \* concurrent callers
  MaxSessions,   \* bound on the rows created in a behaviour
  MaxSecond      \* bound on the clock

ASSUME SessionsAssumption == MaxSessions \in Nat /\ MaxSecond \in Nat \ {0}

VARIABLES
  user,       \* the row of users with this phone
  row,        \* row[s]: the token in session s, or NoRow
  used,       \* the session ids given out
  second,     \* the clock that iat and exp are taken from
  req,        \* req[d]: the call in progress of device d
  revoked     \* sessions that a logout or a revocation deleted

sessionsVars == <<user, row, used, second, req, revoked>>

SessionIds == 1..MaxSessions
Tokens == 1..MaxSecond
NoRow == 0
NoUser == [exists |-> FALSE, banned |-> FALSE, password |-> FALSE]
\* barred: the account was banned when the call began and has been since.
NoReq == [op |-> "none", pc |-> "idle", seen |-> NoUser, session |-> 0,
          token |-> NoRow, barred |-> FALSE]
Live(s) == row[s] # NoRow

Users == [exists: BOOLEAN, banned: BOOLEAN, password: BOOLEAN]

SessionsTypeOK ==
  /\ user \in Users
  /\ row \in [SessionIds -> Tokens \cup {NoRow}]
  /\ used \subseteq SessionIds
  /\ second \in Tokens
  /\ req \in [Devices -> [op: {"none", "otp", "register", "login", "refresh", "password"},
                          pc: {"idle", "find", "create", "check", "session", "load",
                               "rotate", "setPassword"},
                          seen: Users, session: SessionIds \cup {0},
                          token: Tokens \cup {NoRow}, barred: BOOLEAN]]
  /\ revoked \subseteq used

SessionsInit ==
  /\ user = NoUser
  /\ row = [s \in SessionIds |-> NoRow]
  /\ used = {} /\ revoked = {}
  /\ second = 1
  /\ req = [d \in Devices |-> NoReq]

Move(d, pc) == req' = [req EXCEPT ![d].pc = pc]
Done(d) == req' = [req EXCEPT ![d] = NoReq]
\* issueTokens signs with the current second; the row is written a step later.
Sign(d, pc) == req' = [req EXCEPT ![d].pc = pc, ![d].token = second]
Is(d, op, pc) == req[d].op = op /\ req[d].pc = pc

Begin(d, op, pc) ==
  /\ req[d].pc = "idle"
  /\ req' = [req EXCEPT ![d] = [NoReq EXCEPT !.op = op, !.pc = pc, !.barred = user.banned]]

----------------------------------------------------------------------------
(* VerifyOtpUseCase, RegisterUseCase, LoginUseCase *)

BeginSignIn(d, op) ==
  /\ op \in {"otp", "register", "login"}
  /\ Begin(d, op, "find")
  /\ UNCHANGED <<user, row, used, second, revoked>>

\* Every later decision of the call is taken on the row read here.
FindByPhone(d) ==
  /\ req[d].pc = "find"
  /\ \/ /\ req[d].op = "login" /\ user.password
        /\ req' = [req EXCEPT ![d].seen = user, ![d].pc = "check"]
     \/ /\ req[d].op = "otp" /\ user.exists
        /\ req' = [req EXCEPT ![d].seen = user, ![d].pc = "check"]
     \/ /\ req[d].op \in {"otp", "register"} /\ ~user.exists
        /\ req' = [req EXCEPT ![d].seen = user, ![d].pc = "create"]
     \/ /\ req[d].op = "register" /\ user.exists
        /\ Done(d)
     \/ /\ req[d].op = "login" /\ ~user.password
        /\ Done(d)
  /\ UNCHANGED <<user, row, used, second, revoked>>

\* The phone is unique: the second of two creations fails.
CreateUser(d) ==
  /\ req[d].pc = "create"
  /\ \/ /\ ~user.exists
        /\ \E password \in BOOLEAN :
             /\ password => req[d].op = "register"
             /\ user' = [exists |-> TRUE, banned |-> FALSE, password |-> password]
        /\ Sign(d, "session")
     \/ user.exists /\ Done(d) /\ UNCHANGED user
  /\ UNCHANGED <<row, used, second, revoked>>

\* The password is compared and the ban is checked on the row that was read.
CheckBan(d) ==
  /\ req[d].pc = "check"
  /\ IF req[d].seen.banned THEN Done(d) ELSE Sign(d, "session")
  /\ UNCHANGED <<user, row, used, second, revoked>>

TokenFree(t) == \A s \in SessionIds : row[s] # t

\* sessions.token is unique: a second token of the same second is refused.
CreateSession(d) ==
  /\ req[d].pc = "session"
  /\ \/ /\ TokenFree(req[d].token)
        /\ \E s \in SessionIds :
             /\ s \notin used /\ 1..(s - 1) \subseteq used
             /\ row' = [row EXCEPT ![s] = req[d].token]
             /\ used' = used \cup {s}
     \/ ~TokenFree(req[d].token) /\ UNCHANGED <<row, used>>
  /\ Done(d)
  /\ UNCHANGED <<user, second, revoked>>

----------------------------------------------------------------------------
(* RefreshTokenUseCase *)

HasToken(s, t) == row[s] = t

FindByUserAndToken(d, t) ==
  /\ req[d].pc = "idle"
  /\ \E s \in SessionIds :
       /\ HasToken(s, t)
       /\ req' = [req EXCEPT ![d] = [NoReq EXCEPT !.op = "refresh", !.pc = "load",
                                       !.session = s, !.barred = user.banned]]
  /\ UNCHANGED <<user, row, used, second, revoked>>

\* Mutant of MayRefresh.
MayRefreshIfKnown(u) == u.exists
MayRefresh(u) == u.exists /\ ~u.banned

FindById(d) ==
  /\ Is(d, "refresh", "load")
  /\ IF MayRefresh(user) THEN Sign(d, "rotate") ELSE Done(d)
  /\ UNCHANGED <<user, row, used, second, revoked>>

\* Mutant of Rotatable.
RotatableAnyway(s, t) == \A o \in SessionIds \ {s} : row[o] # t
\* By id, and refused when the row is gone or when another row has the token.
Rotatable(s, t) == Live(s) /\ \A o \in SessionIds \ {s} : row[o] # t

RotateSession(d) ==
  /\ Is(d, "refresh", "rotate")
  /\ row' = IF Rotatable(req[d].session, req[d].token)
            THEN [row EXCEPT ![req[d].session] = req[d].token] ELSE row
  /\ Done(d)
  /\ UNCHANGED <<user, used, second, revoked>>

----------------------------------------------------------------------------
(* LogoutUseCase with a token, without one, and the revocation of a session. *)
(* The access token was validated an await before: the account may be banned *)
(* by now.                                                                   *)

Delete(S) ==
  /\ row' = [s \in SessionIds |-> IF s \in S THEN NoRow ELSE row[s]]
  /\ revoked' = revoked \cup S
  /\ UNCHANGED <<user, used, second, req>>

LogoutToken(t) == Delete({s \in SessionIds : HasToken(s, t)})
LogoutAll == Delete({s \in SessionIds : Live(s)})
DeleteByIdForUser(s) == Live(s) /\ Delete({s})

----------------------------------------------------------------------------
(* ChangePasswordUseCase; the code of a first password is checked between *)

Validated(u) == u.exists /\ ~u.banned

FindAuthUser(d) ==
  /\ Validated(user)
  /\ Begin(d, "password", "setPassword")
  /\ UNCHANGED <<user, row, used, second, revoked>>

UpdatePasswordHash(d) ==
  /\ Is(d, "password", "setPassword")
  /\ user' = [user EXCEPT !.password = TRUE]
  /\ Done(d)
  /\ UNCHANGED <<row, used, second, revoked>>

BanUser ==
  /\ user.exists /\ ~user.banned
  /\ user' = [user EXCEPT !.banned = TRUE]
  /\ UNCHANGED <<row, used, second, req, revoked>>

UnbanUser ==
  /\ user.banned
  /\ user' = [user EXCEPT !.banned = FALSE]
  /\ req' = [d \in Devices |-> [req[d] EXCEPT !.barred = FALSE]]
  /\ UNCHANGED <<row, used, second, revoked>>

Tick ==
  /\ second < MaxSecond
  /\ second' = second + 1
  /\ UNCHANGED <<user, row, used, req, revoked>>

SessionsNext ==
  \/ \E d \in Devices, op \in {"otp", "register", "login"} : BeginSignIn(d, op)
  \/ \E d \in Devices : \/ FindByPhone(d) \/ CreateUser(d) \/ CheckBan(d) \/ CreateSession(d)
                        \/ FindById(d) \/ RotateSession(d)
                        \/ FindAuthUser(d) \/ UpdatePasswordHash(d)
  \/ \E d \in Devices, t \in Tokens : FindByUserAndToken(d, t)
  \/ \E t \in Tokens : LogoutToken(t)
  \/ LogoutAll
  \/ \E s \in SessionIds : DeleteByIdForUser(s)
  \/ BanUser
  \/ UnbanUser
  \/ Tick

SessionsSpec == SessionsInit /\ [][SessionsNext]_sessionsVars

----------------------------------------------------------------------------
(* Properties *)

\* A refresh that found its session before a logout and writes after it does
\* not bring the session back.
LogoutIsFinal == \A s \in revoked : ~Live(s)

\* A call that begins while the account is banned, and is not overtaken by an
\* unban, neither opens a session nor rotates one: each path into a session
\* reads the ban after the call began.
BannedStaysOut ==
  \A d \in Devices : req[d].barred => req[d].pc \notin {"session", "rotate"}

\* Whatever clients refresh or sign in at the same time, a refresh token
\* belongs to one session, so a logout by token never ends another session.
TokensTellSessionsApart ==
  \A s, o \in SessionIds : Live(s) /\ row[s] = row[o] => s = o

\* A logout ends its session for good, and no other.
LogoutEndsOneSession == LogoutIsFinal /\ TokensTellSessionsApart
=============================================================================
