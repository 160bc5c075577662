---------------------------- MODULE AccountProofs ----------------------------
(***************************************************************************)
(* Theorems about the sessions of an account, its withdrawals, the         *)
(* campaigns that grant it credit and the codes it logs in with, for any   *)
(* number of devices, operators, granters, clients, codes, crashes, lost   *)
(* answers and failures of Redis.  The components share no state: each     *)
(* part has the invariant of its component, that it holds initially, that  *)
(* every step keeps it, and the theorems that follow.                      *)
(***************************************************************************)
EXTENDS Sessions, Withdrawals, Campaigns, OneTimeCodes, FiniteSetTheorems, TLAPS

(***************************************************************************)
(* Sessions                                                                *)
(***************************************************************************)

\* A call that began under a ban which still stands was refused, or will be:
\* the row it read carries the ban.
CallBarred(d) ==
  req[d].barred => /\ user.banned
                   /\ req[d].pc = "check" => req[d].seen.banned
                   /\ req[d].pc \notin {"session", "rotate"}

SessionsInv ==
  /\ SessionsTypeOK
  /\ user.banned => user.exists
  /\ \A s \in SessionIds : Live(s) => s \in used
  /\ LogoutEndsOneSession
  /\ \A d \in Devices : CallBarred(d)

LEMMA SessionsStarts == SessionsInit => SessionsInv
BY SessionsAssumption
   DEF SessionsInit, SessionsInv, SessionsTypeOK, NoUser, Users, NoReq, NoRow, Tokens,
       SessionIds, Live, CallBarred, LogoutEndsOneSession, LogoutIsFinal,
       TokensTellSessionsApart

Requests == [op: {"none", "otp", "register", "login", "refresh", "password"},
             pc: {"idle", "find", "create", "check", "session", "load", "rotate", "setPassword"},
             seen: Users, session: SessionIds \cup {0}, token: Tokens \cup {NoRow},
             barred: BOOLEAN]

LEMMA NoReqTyped == NoReq \in Requests /\ NoReq.barred = FALSE /\ NoReq.pc = "idle"
BY DEF NoReq, Requests, NoUser, Users

\* The ban that a call goes by, when the call alone moves.
LEMMA OneRequest ==
  ASSUME SessionsInv, NEW d \in Devices, NEW r \in Requests,
         req' = [req EXCEPT ![d] = r],
         user' \in Users, user.banned => user'.banned, user'.banned => user'.exists,
         r.barred => /\ user'.banned
                     /\ r.pc = "check" => r.seen.banned
                     /\ r.pc \notin {"session", "rotate"}
  PROVE  /\ req' \in [Devices -> Requests]
         /\ \A e \in Devices : CallBarred(e)'
<1>1. req \in [Devices -> Requests]
  BY DEF SessionsInv, SessionsTypeOK, Requests
<1>2. ASSUME NEW e \in Devices PROVE CallBarred(e)'
  <2>1. CASE e = d
    BY <1>1, <2>1 DEF CallBarred
  <2>2. CASE e # d
    <3>1. req'[e] = req[e] /\ CallBarred(e)
      BY <1>1, <2>2 DEF SessionsInv
    <3>2. QED
      BY <3>1 DEF CallBarred
  <2>3. QED
    BY <2>1, <2>2
<1>3. QED
  BY <1>1, <1>2

\* Such a call leaves the rows of sessions alone.
LEMMA RowsKept ==
  ASSUME SessionsInv, NEW d \in Devices, NEW r \in Requests,
         req' = [req EXCEPT ![d] = r],
         UNCHANGED <<row, used, second, revoked>>,
         user' \in Users, user.banned => user'.banned, user'.banned => user'.exists,
         r.barred => /\ user'.banned
                     /\ r.pc = "check" => r.seen.banned
                     /\ r.pc \notin {"session", "rotate"}
  PROVE  SessionsInv'
<1>1. /\ req' \in [Devices -> Requests]
      /\ \A e \in Devices : CallBarred(e)'
  BY OneRequest
<1>2. SessionsTypeOK'
  BY <1>1 DEF SessionsInv, SessionsTypeOK, Requests
<1>3. /\ \A s \in SessionIds : (Live(s) => s \in used)'
      /\ LogoutEndsOneSession'
  BY DEF SessionsInv, LogoutEndsOneSession, LogoutIsFinal, TokensTellSessionsApart, Live
<1>4. QED
  BY <1>1, <1>2, <1>3 DEF SessionsInv

\* A deletion takes only rows, all of which a call had created.
LEMMA DeleteKeeps ==
  ASSUME SessionsInv, NEW S \in SUBSET SessionIds, \A s \in S : Live(s), Delete(S)
  PROVE  SessionsInv'
<1>1. S \subseteq used
  BY DEF SessionsInv
<1>2. SessionsTypeOK'
  BY <1>1 DEF Delete, SessionsInv, SessionsTypeOK
<1>3. \A s \in SessionIds : row'[s] = IF s \in S THEN NoRow ELSE row[s]
  BY DEF Delete
<1>4. LogoutEndsOneSession' /\ \A s \in SessionIds : (Live(s) => s \in used)'
  BY <1>1, <1>3 DEF Delete, SessionsInv, SessionsTypeOK, LogoutEndsOneSession, LogoutIsFinal,
     TokensTellSessionsApart, Live
<1>5. \A d \in Devices : CallBarred(d)'
  BY DEF Delete, SessionsInv, CallBarred
<1>6. QED
  BY <1>2, <1>4, <1>5 DEF Delete, SessionsInv

LEMMA SessionsStep == SessionsInv /\ [SessionsNext]_sessionsVars => SessionsInv'
<1> SUFFICES ASSUME SessionsInv, [SessionsNext]_sessionsVars PROVE SessionsInv'
  OBVIOUS
<1>0. /\ SessionsTypeOK
      /\ user \in Users /\ (user.banned => user.exists)
      /\ \A d \in Devices : req[d] \in Requests /\ CallBarred(d)
  BY DEF SessionsInv, SessionsTypeOK, Requests
<1>1. ASSUME NEW d \in Devices, NEW r \in Requests, req' = [req EXCEPT ![d] = r],
             r.barred => /\ user.banned
                         /\ r.pc = "check" => r.seen.banned
                         /\ r.pc \notin {"session", "rotate"},
             UNCHANGED <<user, row, used, second, revoked>>
      PROVE  SessionsInv'
  BY <1>0, <1>1, RowsKept
<1>2. ASSUME NEW d \in Devices, NEW op \in {"otp", "register", "login"}, BeginSignIn(d, op)
      PROVE  SessionsInv'
  <2> DEFINE r == [NoReq EXCEPT !.op = op, !.pc = "find", !.barred = user.banned]
  <2>1. r \in Requests /\ r.pc = "find" /\ (r.barred => user.banned)
    BY <1>0, NoReqTyped DEF Requests, NoReq, Users
  <2>2. req' = [req EXCEPT ![d] = r] /\ UNCHANGED <<user, row, used, second, revoked>>
    BY <1>2 DEF BeginSignIn, Begin
  <2> HIDE DEF r
  <2>3. QED
    BY <1>1, <2>1, <2>2
<1>3. ASSUME NEW d \in Devices, FindByPhone(d) PROVE SessionsInv'
  <2> DEFINE r == req'[d]
  <2>1. /\ r \in Requests /\ req' = [req EXCEPT ![d] = r]
        /\ r.barred => user.banned
        /\ r.pc \in {"check", "create", "idle"}
        /\ r.pc = "check" => r.seen = user
    BY <1>0, <1>3, NoReqTyped DEF FindByPhone, Done, Requests, CallBarred, SessionsTypeOK
  <2>2. UNCHANGED <<user, row, used, second, revoked>>
    BY <1>3 DEF FindByPhone
  <2> HIDE DEF r
  <2>3. QED
    BY <1>1, <2>1, <2>2
<1>4. ASSUME NEW d \in Devices, CreateUser(d) PROVE SessionsInv'
  <2>1. CASE user.exists
    <3>1. /\ req' = [req EXCEPT ![d] = NoReq]
          /\ UNCHANGED <<user, row, used, second, revoked>>
      BY <1>4, <2>1 DEF CreateUser, Done
    <3>2. QED
      BY <1>1, <3>1, NoReqTyped
  <2>2. CASE ~user.exists
    <3> DEFINE r == [req[d] EXCEPT !.pc = "session", !.token = second]
    <3>1. ~req[d].barred
      BY <1>0, <2>2 DEF CallBarred
    <3>2. r \in Requests /\ r.barred = FALSE
      BY <1>0, <3>1 DEF Requests, SessionsTypeOK
    <3>3. /\ \E password \in BOOLEAN :
               user' = [exists |-> TRUE, banned |-> FALSE, password |-> password]
          /\ Sign(d, "session")
          /\ UNCHANGED <<row, used, second, revoked>>
      BY <1>4, <2>2 DEF CreateUser
    <3>4. req' = [req EXCEPT ![d] = r]
      BY <1>0, <3>3 DEF Sign, SessionsTypeOK
    <3>5. user' \in Users /\ user'.banned = FALSE
      BY <3>3 DEF Users
    <3>6. ~user.banned
      BY <1>0, <2>2
    <3> HIDE DEF r
    <3>7. QED
      BY <3>2, <3>3, <3>4, <3>5, <3>6, RowsKept
  <2>3. QED
    BY <2>1, <2>2
<1>5. ASSUME NEW d \in Devices, CheckBan(d) \/ FindById(d) PROVE SessionsInv'
  <2>1. UNCHANGED <<user, row, used, second, revoked>>
    BY <1>5 DEF CheckBan, FindById
  <2>2. CASE Done(d)
    BY <1>1, <2>1, <2>2, NoReqTyped DEF Done
  <2>3. CASE ~Done(d)
    <3> DEFINE r == req'[d]
    <3>1. ~req[d].barred
      BY <1>0, <1>5, <2>3 DEF CheckBan, FindById, CallBarred, MayRefresh
    <3>2. r \in Requests /\ r.barred = FALSE /\ req' = [req EXCEPT ![d] = r]
      BY <1>0, <1>5, <2>3, <3>1 DEF CheckBan, FindById, Sign, Requests, SessionsTypeOK
    <3> HIDE DEF r
    <3>3. QED
      BY <1>1, <2>1, <3>2
  <2>4. QED
    BY <2>2, <2>3
<1>6. ASSUME NEW d \in Devices, CreateSession(d) PROVE SessionsInv'
  <2>1. /\ req' \in [Devices -> Requests]
        /\ \A e \in Devices : CallBarred(e)'
    BY <1>0, <1>6, NoReqTyped, OneRequest DEF CreateSession, Done
  <2>2. CASE UNCHANGED <<row, used>>
    BY <1>0, <1>6, <2>1, <2>2
       DEF CreateSession, SessionsInv, SessionsTypeOK, Requests, LogoutEndsOneSession,
           LogoutIsFinal, TokensTellSessionsApart, Live
  <2>3. ASSUME NEW s \in SessionIds, s \notin used, TokenFree(req[d].token),
               row' = [row EXCEPT ![s] = req[d].token], used' = used \cup {s}
        PROVE  SessionsInv'
    <3>1. SessionsTypeOK'
      BY <1>0, <1>6, <2>1, <2>3 DEF CreateSession, SessionsTypeOK, Requests
    <3>2. /\ \A o \in SessionIds : row'[o] = IF o = s THEN req[d].token ELSE row[o]
          /\ revoked' = revoked /\ revoked \subseteq used
      BY <1>0, <1>6, <2>3 DEF CreateSession, SessionsTypeOK
    <3>3. LogoutEndsOneSession' /\ \A o \in SessionIds : (Live(o) => o \in used)'
      BY <2>3, <3>2 DEF SessionsInv, LogoutEndsOneSession, LogoutIsFinal,
         TokensTellSessionsApart, Live, TokenFree
    <3>4. QED
      BY <1>6, <2>1, <3>1, <3>3 DEF CreateSession, SessionsInv
  <2>4. QED
    BY <1>6, <2>2, <2>3 DEF CreateSession
<1>7. ASSUME NEW d \in Devices, RotateSession(d) PROVE SessionsInv'
  <2>1. /\ req' \in [Devices -> Requests]
        /\ \A e \in Devices : CallBarred(e)'
    BY <1>0, <1>7, NoReqTyped, OneRequest DEF RotateSession, Done
  <2> DEFINE s == req[d].session
             t == req[d].token
  <2>2. t \in Tokens \cup {NoRow} /\ UNCHANGED <<user, used, second, revoked>>
    BY <1>0, <1>7 DEF Requests, RotateSession
  <2>3. CASE Rotatable(s, t)
    <3>1. row' = [row EXCEPT ![s] = t]
      BY <1>7, <2>3 DEF RotateSession
    <3>2. SessionsTypeOK'
      BY <1>0, <2>1, <2>2, <3>1 DEF SessionsTypeOK, Requests
    <3>3. \A o \in SessionIds : row'[o] = IF o = s THEN t ELSE row[o]
      BY <1>0, <3>1 DEF SessionsTypeOK
    <3> HIDE DEF s, t
    <3>4. LogoutEndsOneSession' /\ \A o \in SessionIds : (Live(o) => o \in used)'
      BY <1>0, <2>2, <2>3, <3>3 DEF SessionsInv, SessionsTypeOK, LogoutEndsOneSession,
         LogoutIsFinal, TokensTellSessionsApart, Live, Rotatable
    <3>5. QED
      BY <2>1, <2>2, <3>2, <3>4 DEF SessionsInv
  <2>4. CASE ~Rotatable(s, t)
    <3>1. UNCHANGED row
      BY <1>7, <2>4 DEF RotateSession
    <3>2. QED
      BY <1>0, <2>1, <2>2, <3>1
         DEF SessionsInv, SessionsTypeOK, Requests, LogoutEndsOneSession, LogoutIsFinal,
             TokensTellSessionsApart, Live
  <2>5. QED
    BY <2>3, <2>4
<1>8. ASSUME NEW d \in Devices, FindAuthUser(d) PROVE SessionsInv'
  <2> DEFINE r == [NoReq EXCEPT !.op = "password", !.pc = "setPassword",
                                !.barred = user.banned]
  <2>1. r \in Requests /\ r.pc = "setPassword" /\ (r.barred => user.banned)
    BY <1>0, NoReqTyped DEF Requests, NoReq, Users
  <2>2. req' = [req EXCEPT ![d] = r] /\ UNCHANGED <<user, row, used, second, revoked>>
    BY <1>8 DEF FindAuthUser, Begin
  <2> HIDE DEF r
  <2>3. QED
    BY <1>1, <2>1, <2>2
<1>9. ASSUME NEW d \in Devices, UpdatePasswordHash(d) PROVE SessionsInv'
  <2>1. /\ user' \in Users /\ user'.banned = user.banned /\ user'.exists = user.exists
        /\ req' = [req EXCEPT ![d] = NoReq]
        /\ UNCHANGED <<row, used, second, revoked>>
    BY <1>0, <1>9 DEF UpdatePasswordHash, Done, Users
  <2>2. QED
    BY <1>0, <2>1, NoReqTyped, RowsKept
<1>10. ASSUME NEW d \in Devices, NEW t \in Tokens, FindByUserAndToken(d, t)
       PROVE  SessionsInv'
  <2>1. PICK s \in SessionIds :
          req' = [req EXCEPT ![d] = [NoReq EXCEPT !.op = "refresh", !.pc = "load",
                                       !.session = s, !.barred = user.banned]]
    BY <1>10 DEF FindByUserAndToken
  <2> DEFINE r == [NoReq EXCEPT !.op = "refresh", !.pc = "load", !.session = s,
                                !.barred = user.banned]
  <2>2. r \in Requests /\ r.pc = "load" /\ (r.barred => user.banned)
    BY <1>0, NoReqTyped DEF Requests, NoReq, Users
  <2>3. req' = [req EXCEPT ![d] = r] /\ UNCHANGED <<user, row, used, second, revoked>>
    BY <1>10, <2>1 DEF FindByUserAndToken
  <2> HIDE DEF r
  <2>4. QED
    BY <1>1, <2>2, <2>3
<1>11. ASSUME NEW t \in Tokens, LogoutToken(t) PROVE SessionsInv'
  <2>1. \A s \in SessionIds : HasToken(s, t) => Live(s)
    BY DEF HasToken, Live, NoRow, Tokens
  <2>2. QED
    BY <1>11, <2>1, DeleteKeeps DEF LogoutToken
<1>12. ASSUME LogoutAll PROVE SessionsInv'
  BY <1>12, DeleteKeeps DEF LogoutAll
<1>13. ASSUME NEW s \in SessionIds, DeleteByIdForUser(s) PROVE SessionsInv'
  BY <1>13, DeleteKeeps DEF DeleteByIdForUser
<1>14. ASSUME BanUser PROVE SessionsInv'
  <2>1. /\ user' \in Users /\ user'.banned /\ user'.exists
        /\ UNCHANGED <<row, used, second, req, revoked>>
    BY <1>0, <1>14 DEF BanUser, Users
  <2>2. QED
    BY <1>0, <2>1 DEF SessionsInv, SessionsTypeOK, CallBarred, LogoutEndsOneSession,
       LogoutIsFinal, TokensTellSessionsApart, Live
<1>15. ASSUME UnbanUser PROVE SessionsInv'
  <2>1. /\ user' \in Users /\ ~user'.banned
        /\ UNCHANGED <<row, used, second, revoked>>
    BY <1>0, <1>15 DEF UnbanUser, Users
  <2>2. ASSUME NEW d \in Devices PROVE req'[d] \in Requests /\ ~req'[d].barred
    BY <1>0, <1>15 DEF UnbanUser, Requests
  <2>3. req' \in [Devices -> Requests]
    BY <1>15, <2>2 DEF UnbanUser
  <2>4. QED
    BY <1>0, <2>1, <2>2, <2>3 DEF SessionsInv, SessionsTypeOK, Requests, CallBarred,
       LogoutEndsOneSession, LogoutIsFinal, TokensTellSessionsApart, Live
<1>16. ASSUME Tick PROVE SessionsInv'
  <2>1. second' \in Tokens
    BY <1>0, <1>16, SessionsAssumption DEF Tick, SessionsTypeOK, Tokens
  <2>2. QED
    BY <1>0, <1>16, <2>1 DEF Tick, SessionsInv, SessionsTypeOK, CallBarred,
       LogoutEndsOneSession, LogoutIsFinal, TokensTellSessionsApart, Live
<1>17. CASE UNCHANGED sessionsVars
  BY <1>0, <1>17 DEF sessionsVars, SessionsInv, SessionsTypeOK, CallBarred,
     LogoutEndsOneSession, LogoutIsFinal, TokensTellSessionsApart, Live
<1>18. QED
  BY <1>2, <1>3, <1>4, <1>5, <1>6, <1>7, <1>8, <1>9, <1>10, <1>11, <1>12, <1>13, <1>14,
     <1>15, <1>16, <1>17 DEF SessionsNext

LEMMA SessionsInvariant == SessionsSpec => []SessionsInv
BY SessionsStarts, SessionsStep, PTL DEF SessionsSpec

\* SessionsTypeOK: the user, the rows and every call stay in their ranges, and
\* only sessions that were created are revoked.
THEOREM SessionsTypeCorrect == SessionsSpec => []SessionsTypeOK
<1>1. SessionsInv => SessionsTypeOK
  BY DEF SessionsInv
<1>2. QED
  BY <1>1, SessionsInvariant, PTL

\* LogoutEndsOneSession: however many devices sign in, refresh and log out at
\* once, a session that ended stays ended and a refresh token belongs to one
\* session.
THEOREM LogoutEndsOne == SessionsSpec => []LogoutEndsOneSession
<1>1. SessionsInv => LogoutEndsOneSession
  BY DEF SessionsInv
<1>2. QED
  BY <1>1, SessionsInvariant, PTL

\* BannedStaysOut: a call that began while the account was banned is nowhere
\* about to write a session.
THEOREM BannedOut == SessionsSpec => []BannedStaysOut
<1>1. SessionsInv => BannedStaysOut
  BY DEF SessionsInv, CallBarred, BannedStaysOut
<1>2. QED
  BY <1>1, SessionsInvariant, PTL

(***************************************************************************)
(* Withdrawals                                                             *)
(***************************************************************************)

AnyRef == References \cup {NoRef}

\* A command took effect in a call that was answered, or in one that was not.
PerformedInACall ==
  \A p \in performed : p[1] \in unsure \/ <<p[1][1], p[1][2], p[2]>> \in answered

\* An answer follows an effect.
AnsweredTookEffect ==
  \A a \in answered : \E p \in performed : p[1] = <<a[1], a[2]>>

\* A row stands for a call that had no answer.
RowStandsForACall ==
  \A q \in queued : IF q[2] = "create" THEN submitted[q[1]] = "queued"
                    ELSE <<q[1], q[2]>> \in unsure

WithdrawalsInv ==
  /\ WithdrawalsTypeOK
  /\ performed \subseteq (Submissions \X Commands) \X AnyRef
  /\ told \subseteq Submissions \X Commands
  /\ answered \subseteq Submissions \X Commands \X AnyRef
  /\ \A o \in Operators : operator[o].on # {} => operator[o].cmd \in Commands
  /\ PerformedInACall
  /\ AnsweredTookEffect
  /\ RowStandsForACall
  /\ WithdrawalsAsTold

LEMMA WithdrawalsStarts == WithdrawalsInit => WithdrawalsInv
BY WithdrawalsAssumption
   DEF WithdrawalsInit, WithdrawalsInv, WithdrawalsTypeOK, States, NoCommand, NoRef,
       PerformedInACall, AnsweredTookEffect, RowStandsForACall, WithdrawalsAsTold, ToldWhatHappened,
       ReferenceOnRecord, OneWithdrawalPerSubmission

LEMMA AfterTyped == \A cmd \in Commands : After[cmd] \in States \ {"none"}
BY DEF After, Commands, States

\* A command takes effect once under its key, and only on a withdrawal.
LEMMA EffectOnce ==
  ASSUME WithdrawalsInv, NEW s \in Submissions, NEW cmd \in Commands, NEW ref \in AnyRef,
         TakesEffect(s, cmd, ref)
  PROVE  /\ state' \in [Submissions -> States]
         /\ \A t \in Submissions : (state'[t] = "none") = (state[t] = "none")
         /\ performed \subseteq performed'
         /\ performed' \subseteq performed \cup {<<<<s, cmd>>, ref>>}
         /\ \A p, q \in performed' : p[1] = q[1] => p = q
         /\ \E p \in performed' : p[1] = <<s, cmd>>
<1>1. CASE Known(s, cmd)
  BY <1>1 DEF TakesEffect, Known, KeyOf, WithdrawalsInv, WithdrawalsTypeOK
<1>2. CASE ~Known(s, cmd)
  <2>1. /\ performed' = performed \cup {<<<<s, cmd>>, ref>>}
        /\ state' = [state EXCEPT ![s] = After[cmd]]
        /\ Fits(cmd, state[s])
    BY <1>2 DEF TakesEffect, Accepts, KeyOf
  <2>2. state[s] # "none" /\ After[cmd] \in States \ {"none"}
    BY <2>1, AfterTyped DEF Fits
  <2>3. /\ state' \in [Submissions -> States]
        /\ \A t \in Submissions : (state'[t] = "none") = (state[t] = "none")
    BY <2>1, <2>2 DEF WithdrawalsInv, WithdrawalsTypeOK
  <2>4. \A p \in performed : p[1] # <<s, cmd>>
    BY <1>2 DEF Known, KeyOf
  <2>5. \A p, q \in performed' : p[1] = q[1] => p = q
    BY <2>1, <2>4 DEF WithdrawalsInv, WithdrawalsTypeOK
  <2>6. <<<<s, cmd>>, ref>> \in performed' /\ <<<<s, cmd>>, ref>>[1] = <<s, cmd>>
    BY <2>1
  <2>7. \E p \in performed' : p[1] = <<s, cmd>>
    BY <2>6, Zenon
  <2>8. QED
    BY <2>1, <2>3, <2>5, <2>7
<1>3. QED
  BY <1>1, <1>2

\* A submission that is under way creates one withdrawal.
LEMMA CreatesOne ==
  ASSUME WithdrawalsInv, NEW s \in Submissions, Creates(s)
  PROVE  /\ withdrawals' \in [Submissions -> Nat]
         /\ \A t \in Submissions : withdrawals'[t] = IF t = s THEN 1 ELSE withdrawals[t]
         /\ state' \in [Submissions -> States]
         /\ \A t \in Submissions : (state'[t] = "none") = (withdrawals'[t] = 0)
BY DEF Creates, CreatedBy, WithdrawalsInv, WithdrawalsTypeOK, States

\* What holds of the commands while they only gain effects, answers and rows.
LEMMA CommandsGain ==
  ASSUME WithdrawalsInv,
         NEW s \in Submissions, NEW cmd \in Commands, NEW ref \in AnyRef,
         performed \subseteq performed', performed' \subseteq performed \cup {<<<<s, cmd>>, ref>>},
         <<<<s, cmd>>, ref>> \in performed' =>
           <<<<s, cmd>>, ref>> \in performed \/ <<s, cmd>> \in unsure' \/ <<s, cmd, ref>> \in answered',
         told' \subseteq told \cup {<<s, cmd>>},
         <<s, cmd>> \in told' => \E p \in performed' : p[1] = <<s, cmd>>,
         answered \subseteq answered', answered' \subseteq answered \cup {<<s, cmd, ref>>},
         <<s, cmd, ref>> \in answered' => \E p \in performed' : p[1] = <<s, cmd>>,
         unsure \subseteq unsure'
  PROVE  /\ performed' \subseteq (Submissions \X Commands) \X AnyRef
         /\ told' \subseteq Submissions \X Commands
         /\ answered' \subseteq Submissions \X Commands \X AnyRef
         /\ PerformedInACall'
         /\ AnsweredTookEffect'
         /\ ToldWhatHappened'
         /\ ReferenceOnRecord'
<1>1. /\ performed' \subseteq (Submissions \X Commands) \X AnyRef
      /\ told' \subseteq Submissions \X Commands
      /\ answered' \subseteq Submissions \X Commands \X AnyRef
  BY DEF WithdrawalsInv
<1>2. PerformedInACall'
  <2>1. ASSUME NEW p \in performed'
        PROVE  p[1] \in unsure' \/ <<p[1][1], p[1][2], p[2]>> \in answered'
    <3>1. CASE p \in performed
      BY <3>1 DEF WithdrawalsInv, PerformedInACall
    <3>2. CASE p = <<<<s, cmd>>, ref>> /\ p \notin performed
      <4>1. p[1] = <<s, cmd>> /\ p[1][1] = s /\ p[1][2] = cmd /\ p[2] = ref
        BY <3>2
      <4>2. <<s, cmd>> \in unsure' \/ <<s, cmd, ref>> \in answered'
        BY <2>1, <3>2
      <4>3. QED
        BY <4>1, <4>2
    <3>3. QED
      BY <2>1, <3>1, <3>2
  <2>2. QED
    BY <2>1 DEF PerformedInACall
<1>3. ToldWhatHappened'
  BY DEF WithdrawalsInv, WithdrawalsAsTold, ToldWhatHappened
<1>4. ASSUME NEW a \in answered', a[2] \in Paying
      PROVE  \/ \E p \in performed' : p = <<<<a[1], a[2]>>, a[3]>>
             \/ <<a[1], a[2]>> \in unsure'
             \/ \E b \in answered' : b # a /\ b[1] = a[1] /\ b[2] = a[2]
  <2>1. CASE a \in answered
    BY <1>4, <2>1 DEF WithdrawalsInv, WithdrawalsAsTold, ReferenceOnRecord
  <2>2. CASE a = <<s, cmd, ref>>
    <3>1. PICK p \in performed' : p[1] = <<s, cmd>>
      BY <1>4, <2>2
    <3>2. PICK r \in AnyRef : p = <<<<s, cmd>>, r>>
      BY <1>1, <3>1
    <3>3. <<s, cmd>> \in unsure' \/ <<s, cmd, r>> \in answered'
      BY <1>2, <3>2 DEF PerformedInACall
    <3>4. QED
      BY <2>2, <3>2, <3>3
  <2>3. QED
    BY <1>4, <2>1, <2>2
<1>5. ReferenceOnRecord'
  BY <1>4 DEF ReferenceOnRecord
<1>6. AnsweredTookEffect'
  BY DEF WithdrawalsInv, AnsweredTookEffect
<1>7. QED
  BY <1>1, <1>2, <1>3, <1>5, <1>6

\* A step of the submissions leaves the commands as they are.
LEMMA CommandsKept ==
  ASSUME WithdrawalsInv, UNCHANGED <<performed, told, answered, unsure>>
  PROVE  /\ performed' \subseteq (Submissions \X Commands) \X AnyRef
         /\ told' \subseteq Submissions \X Commands
         /\ answered' \subseteq Submissions \X Commands \X AnyRef
         /\ PerformedInACall' /\ AnsweredTookEffect' /\ ToldWhatHappened' /\ ReferenceOnRecord'
BY DEF WithdrawalsInv, WithdrawalsAsTold, PerformedInACall, AnsweredTookEffect,
   ToldWhatHappened, ReferenceOnRecord

LEMMA NoCommandTyped ==
  NoCommand \in [on: SUBSET Submissions, cmd: Commands \cup {"none"}, ref: AnyRef]
BY DEF NoCommand, AnyRef

LEMMA WithdrawalsStep == WithdrawalsInv /\ [WithdrawalsNext]_withdrawalVars => WithdrawalsInv'
<1> SUFFICES ASSUME WithdrawalsInv, [WithdrawalsNext]_withdrawalVars PROVE WithdrawalsInv'
  OBVIOUS
<1>0. /\ WithdrawalsTypeOK /\ RowStandsForACall /\ OneWithdrawalPerSubmission
      /\ \A o \in Operators : operator[o].on # {} => operator[o].cmd \in Commands
  BY DEF WithdrawalsInv, WithdrawalsAsTold
<1>1. ASSUME NEW s \in Submissions, LoseStanding(s) \/ RequestWithdrawal(s)
      PROVE  WithdrawalsInv'
  <2>1. /\ UNCHANGED <<withdrawals, state, performed, operator, queued, rows, told, answered,
                       unsure, unanswered>>
        /\ active' \in [Submissions -> BOOLEAN]
        /\ submitted' \in [Submissions -> {"none", "checked", "answered", "queued", "refused"}]
        /\ \A t \in Submissions : submitted'[t] = submitted[t] \/ submitted[t] = "none"
    BY <1>0, <1>1 DEF LoseStanding, RequestWithdrawal, WithdrawalsTypeOK
  <2>2. WithdrawalsTypeOK'
    BY <1>0, <2>1 DEF WithdrawalsTypeOK
  <2>3. RowStandsForACall'
    BY <1>0, <2>1 DEF RowStandsForACall, WithdrawalsTypeOK
  <2>4. OneWithdrawalPerSubmission'
    BY <1>0, <2>1 DEF OneWithdrawalPerSubmission
  <2>5. QED
    BY <1>0, <2>1, <2>2, <2>3, <2>4, CommandsKept DEF WithdrawalsInv, WithdrawalsAsTold
<1>2. ASSUME NEW s \in Submissions, CreateAnswered(s) PROVE WithdrawalsInv'
  <2>1. /\ submitted[s] = "checked" /\ submitted' = [submitted EXCEPT ![s] = "answered"]
        /\ UNCHANGED <<active, performed, operator, queued, rows, told, answered, unsure,
                       unanswered>>
        /\ Creates(s)
    BY <1>2 DEF CreateAnswered
  <2>2. WithdrawalsTypeOK' /\ OneWithdrawalPerSubmission'
    BY <1>0, <2>1, CreatesOne DEF WithdrawalsTypeOK, OneWithdrawalPerSubmission
  <2>3. RowStandsForACall'
    BY <1>0, <2>1 DEF RowStandsForACall, WithdrawalsTypeOK
  <2>4. QED
    BY <1>0, <2>1, <2>2, <2>3, CommandsKept DEF WithdrawalsInv, WithdrawalsAsTold
<1>3. ASSUME NEW s \in Submissions, CreateUnanswered(s) PROVE WithdrawalsInv'
  <2>1. /\ submitted[s] = "checked" /\ submitted' = [submitted EXCEPT ![s] = "queued"]
        /\ unanswered < MaxUnanswered /\ unanswered' = unanswered + 1
        /\ queued' = queued \cup {<<s, "create", NoRef>>}
        /\ rows' = rows \cup {<<s, "create">>}
        /\ UNCHANGED <<active, performed, operator, told, answered, unsure>>
        /\ Creates(s) \/ UNCHANGED <<withdrawals, state>>
    BY <1>3 DEF CreateUnanswered
  <2>2. /\ withdrawals' \in [Submissions -> Nat] /\ state' \in [Submissions -> States]
        /\ \A t \in Submissions : (state'[t] = "none") = (withdrawals'[t] = 0)
        /\ \A t \in Submissions : withdrawals'[t] = withdrawals[t] \/ (t = s /\ withdrawals'[t] = 1)
    <3>1. CASE Creates(s)
      <4>1. /\ withdrawals' \in [Submissions -> Nat]
            /\ \A t \in Submissions : withdrawals'[t] = IF t = s THEN 1 ELSE withdrawals[t]
            /\ state' \in [Submissions -> States]
            /\ \A t \in Submissions : (state'[t] = "none") = (withdrawals'[t] = 0)
        BY <3>1, CreatesOne
      <4>2. QED
        BY <4>1
    <3>2. CASE UNCHANGED <<withdrawals, state>>
      BY <1>0, <3>2 DEF WithdrawalsTypeOK
    <3>3. QED
      BY <2>1, <3>1, <3>2
  <2>3. \A q \in queued : ~(q[1] = s /\ q[2] = "create")
    BY <1>0, <2>1 DEF RowStandsForACall
  <2>4. /\ queued' \subseteq Submissions \X (Commands \cup {"create"}) \X (References \cup {NoRef})
        /\ \A q \in queued' : <<q[1], q[2]>> \in rows'
        /\ \A p, q \in queued' : p[1] = q[1] /\ p[2] = q[2] => p = q
    BY <1>0, <2>1, <2>3 DEF WithdrawalsTypeOK
  <2>5. submitted' \in [Submissions -> {"none", "checked", "answered", "queued", "refused"}]
    BY <1>0, <2>1 DEF WithdrawalsTypeOK
  <2>6. unanswered' \in 0..MaxUnanswered
    BY <1>0, <2>1, WithdrawalsAssumption DEF WithdrawalsTypeOK
  <2>7. WithdrawalsTypeOK'
    <3>1. /\ active \in [Submissions -> BOOLEAN]
          /\ operator \in [Operators -> [on: SUBSET Submissions, cmd: Commands \cup {"none"},
                                          ref: References \cup {NoRef}]]
          /\ \A p, q \in performed : p[1] = q[1] => p = q
      BY <1>0 DEF WithdrawalsTypeOK
    <3>2. QED
      BY <2>1, <2>2, <2>4, <2>5, <2>6, <3>1 DEF WithdrawalsTypeOK
  <2>8. OneWithdrawalPerSubmission'
    BY <1>0, <2>1, <2>2 DEF WithdrawalsTypeOK, OneWithdrawalPerSubmission
  <2>9. RowStandsForACall'
    <3>1. ASSUME NEW q \in queued'
          PROVE  IF q[2] = "create" THEN submitted'[q[1]] = "queued"
                 ELSE <<q[1], q[2]>> \in unsure'
      <4>1. CASE q \in queued
        BY <1>0, <2>1, <4>1 DEF RowStandsForACall, WithdrawalsTypeOK
      <4>2. CASE q = <<s, "create", NoRef>>
        BY <1>0, <2>1, <4>2 DEF WithdrawalsTypeOK
      <4>3. QED
        BY <2>1, <3>1, <4>1, <4>2
    <3>2. QED
      BY <3>1 DEF RowStandsForACall
  <2>10. QED
    BY <1>0, <2>1, <2>7, <2>8, <2>9, CommandsKept DEF WithdrawalsInv, WithdrawalsAsTold
<1>4. ASSUME NEW o \in Operators, NEW s \in Submissions, NEW cmd \in Commands, NEW ref \in AnyRef,
             CallCommand(o, s, cmd, ref)
      PROVE  WithdrawalsInv'
  <2>1. /\ operator' = [operator EXCEPT ![o] = [on |-> {s}, cmd |-> cmd, ref |-> ref]]
        /\ UNCHANGED <<active, submitted, withdrawals, state, performed, queued, rows, told,
                       answered, unsure, unanswered>>
    BY <1>4 DEF CallCommand
  <2>2. WithdrawalsTypeOK'
    BY <1>0, <2>1 DEF WithdrawalsTypeOK, AnyRef
  <2>3. \A p \in Operators : operator'[p].on # {} => operator'[p].cmd \in Commands
    BY <1>0, <2>1 DEF WithdrawalsTypeOK
  <2>4. RowStandsForACall' /\ OneWithdrawalPerSubmission'
    BY <1>0, <2>1 DEF RowStandsForACall, OneWithdrawalPerSubmission
  <2>5. QED
    BY <2>1, <2>2, <2>3, <2>4, CommandsKept DEF WithdrawalsInv, WithdrawalsAsTold
<1>5. ASSUME NEW o \in Operators, operator' = [operator EXCEPT ![o] = NoCommand]
      PROVE  /\ operator' \in [Operators -> [on: SUBSET Submissions, cmd: Commands \cup {"none"},
                                             ref: References \cup {NoRef}]]
             /\ \A p \in Operators : operator'[p].on # {} => operator'[p].cmd \in Commands
  BY <1>0, <1>5, NoCommandTyped DEF WithdrawalsTypeOK, NoCommand, AnyRef
<1>6. ASSUME NEW o \in Operators, CommandAnswered(o) PROVE WithdrawalsInv'
  <2> DEFINE cmd == operator[o].cmd
             ref == operator[o].ref
  <2>1. PICK s \in operator[o].on :
          /\ TakesEffect(s, cmd, ref)
          /\ told' = told \cup {<<s, cmd>>} /\ answered' = answered \cup {<<s, cmd, ref>>}
    BY <1>6 DEF CommandAnswered
  <2>2. /\ operator' = [operator EXCEPT ![o] = NoCommand]
        /\ UNCHANGED <<active, submitted, withdrawals, queued, rows, unsure, unanswered>>
    BY <1>6 DEF CommandAnswered
  <2>3. s \in Submissions /\ cmd \in Commands /\ ref \in AnyRef
    BY <1>0, <2>1 DEF WithdrawalsTypeOK, AnyRef
  <2> HIDE DEF cmd, ref
  <2>4. /\ state' \in [Submissions -> States]
        /\ \A t \in Submissions : (state'[t] = "none") = (state[t] = "none")
        /\ performed \subseteq performed'
        /\ performed' \subseteq performed \cup {<<<<s, cmd>>, ref>>}
        /\ \A p, q \in performed' : p[1] = q[1] => p = q
        /\ \E p \in performed' : p[1] = <<s, cmd>>
    BY <2>1, <2>3, EffectOnce
  <2>5. /\ performed' \subseteq (Submissions \X Commands) \X AnyRef
        /\ told' \subseteq Submissions \X Commands
        /\ answered' \subseteq Submissions \X Commands \X AnyRef
        /\ PerformedInACall' /\ AnsweredTookEffect' /\ ToldWhatHappened' /\ ReferenceOnRecord'
    BY <2>1, <2>2, <2>3, <2>4, CommandsGain
  <2>6. WithdrawalsTypeOK'
    BY <1>0, <1>5, <2>2, <2>4 DEF WithdrawalsTypeOK
  <2>7. RowStandsForACall' /\ OneWithdrawalPerSubmission'
    BY <1>0, <2>2 DEF RowStandsForACall, OneWithdrawalPerSubmission
  <2>8. QED
    BY <1>5, <2>2, <2>5, <2>6, <2>7 DEF WithdrawalsInv, WithdrawalsAsTold
<1>7. ASSUME NEW o \in Operators, CommandRefused(o) PROVE WithdrawalsInv'
  <2>1. /\ operator' = [operator EXCEPT ![o] = NoCommand]
        /\ UNCHANGED <<active, submitted, withdrawals, state, performed, queued, rows, told,
                       answered, unsure, unanswered>>
    BY <1>7 DEF CommandRefused
  <2>2. WithdrawalsTypeOK'
    BY <1>0, <1>5, <2>1 DEF WithdrawalsTypeOK
  <2>3. RowStandsForACall' /\ OneWithdrawalPerSubmission'
    BY <1>0, <2>1 DEF RowStandsForACall, OneWithdrawalPerSubmission
  <2>4. QED
    BY <1>5, <2>1, <2>2, <2>3, CommandsKept DEF WithdrawalsInv, WithdrawalsAsTold
<1>8. ASSUME NEW o \in Operators, CommandUnanswered(o) PROVE WithdrawalsInv'
  <2> DEFINE cmd == operator[o].cmd
             ref == operator[o].ref
  <2>1. PICK s \in operator[o].on :
          /\ TakesEffect(s, cmd, ref) \/ UNCHANGED <<performed, state>>
          /\ queued' = QueuedAfter(s, cmd, ref)
          /\ rows' = rows \cup {<<s, cmd>>} /\ unsure' = unsure \cup {<<s, cmd>>}
          /\ told' = told
    BY <1>8 DEF CommandUnanswered, ToldWhenQueued
  <2>2. /\ operator' = [operator EXCEPT ![o] = NoCommand]
        /\ unanswered < MaxUnanswered /\ unanswered' = unanswered + 1
        /\ UNCHANGED <<active, submitted, withdrawals, answered>>
    BY <1>8 DEF CommandUnanswered
  <2>3. s \in Submissions /\ cmd \in Commands /\ ref \in AnyRef
    BY <1>0, <2>1 DEF WithdrawalsTypeOK, AnyRef
  <2> HIDE DEF cmd, ref
  <2>4. /\ state' \in [Submissions -> States]
        /\ \A t \in Submissions : (state'[t] = "none") = (state[t] = "none")
        /\ performed \subseteq performed'
        /\ performed' \subseteq performed \cup {<<<<s, cmd>>, ref>>}
        /\ \A p, q \in performed' : p[1] = q[1] => p = q
    <3>1. CASE TakesEffect(s, cmd, ref)
      BY <2>3, <3>1, EffectOnce
    <3>2. CASE UNCHANGED <<performed, state>>
      BY <1>0, <3>2 DEF WithdrawalsTypeOK
    <3>3. QED
      BY <2>1, <3>1, <3>2
  <2>5. \A t \in told' : t \in told
    BY <2>1
  <2>6. /\ performed' \subseteq (Submissions \X Commands) \X AnyRef
        /\ told' \subseteq Submissions \X Commands
        /\ answered' \subseteq Submissions \X Commands \X AnyRef
        /\ PerformedInACall' /\ AnsweredTookEffect' /\ ToldWhatHappened' /\ ReferenceOnRecord'
    <3>1. <<s, cmd>> \in told => \E p \in performed' : p[1] = <<s, cmd>>
      <4>1. <<s, cmd>> \in told => \E p \in performed : p[1] = <<<<s, cmd>>[1], <<s, cmd>>[2]>>
        BY Zenon DEF WithdrawalsInv, WithdrawalsAsTold, ToldWhatHappened
      <4>2. <<s, cmd>> = <<<<s, cmd>>[1], <<s, cmd>>[2]>>
        OBVIOUS
      <4>3. QED
        BY <2>4, <4>1, <4>2
    <3>2. <<s, cmd, ref>> \in answered => \E p \in performed : p[1] = <<s, cmd>>
      BY DEF WithdrawalsInv, AnsweredTookEffect
    <3>3. QED
      BY <2>1, <2>2, <2>3, <2>4, <3>1, <3>2, CommandsGain
  <2>7. /\ queued' \subseteq Submissions \X (Commands \cup {"create"}) \X (References \cup {NoRef})
        /\ \A q \in queued' : <<q[1], q[2]>> \in rows'
        /\ \A p, q \in queued' : p[1] = q[1] /\ p[2] = q[2] => p = q
        /\ \A q \in queued' : q \in queued \/ q = <<s, cmd, ref>>
    BY <1>0, <2>1, <2>3 DEF WithdrawalsTypeOK, QueuedAfter, AnyRef
  <2>8. WithdrawalsTypeOK'
    <3>1. /\ unanswered' \in 0..MaxUnanswered
          /\ active \in [Submissions -> BOOLEAN] /\ withdrawals \in [Submissions -> Nat]
          /\ submitted \in [Submissions -> {"none", "checked", "answered", "queued", "refused"}]
          /\ \A t \in Submissions : (state'[t] = "none") = (withdrawals[t] = 0)
      BY <1>0, <2>2, <2>4, WithdrawalsAssumption DEF WithdrawalsTypeOK
    <3>2. QED
      BY <1>5, <2>2, <2>4, <2>7, <3>1 DEF WithdrawalsTypeOK
  <2>9. RowStandsForACall' /\ OneWithdrawalPerSubmission'
    BY <1>0, <2>1, <2>2, <2>3, <2>7
       DEF RowStandsForACall, OneWithdrawalPerSubmission, Commands
  <2>10. QED
    BY <1>5, <2>2, <2>6, <2>8, <2>9 DEF WithdrawalsInv, WithdrawalsAsTold
<1>9. ASSUME NEW q \in queued, ExecuteRow(q) PROVE WithdrawalsInv'
  <2>1. /\ q[1] \in Submissions /\ q[2] \in Commands \cup {"create"} /\ q[3] \in AnyRef
        /\ UNCHANGED <<active, submitted, operator, queued, rows, told, answered, unsure,
                       unanswered>>
    BY <1>0, <1>9 DEF ExecuteRow, WithdrawalsTypeOK, AnyRef
  <2>2. RowStandsForACall'
    BY <1>0, <2>1 DEF RowStandsForACall
  <2>3. CASE q[2] = "create"
    <3>1. Creates(q[1]) /\ UNCHANGED performed /\ submitted[q[1]] = "queued"
      BY <1>0, <1>9, <2>3 DEF ExecuteRow, RowStandsForACall
    <3>2. WithdrawalsTypeOK' /\ OneWithdrawalPerSubmission'
      BY <1>0, <2>1, <3>1, CreatesOne DEF WithdrawalsTypeOK, OneWithdrawalPerSubmission
    <3>3. QED
      BY <1>0, <2>1, <2>2, <3>1, <3>2, CommandsKept DEF WithdrawalsInv, WithdrawalsAsTold
  <2>4. CASE q[2] # "create"
    <3>1. /\ TakesEffect(q[1], q[2], q[3]) /\ UNCHANGED withdrawals
          /\ <<q[1], q[2]>> \in unsure /\ q[2] \in Commands
      BY <1>0, <1>9, <2>1, <2>4 DEF ExecuteRow, RowStandsForACall
    <3>2. /\ state' \in [Submissions -> States]
          /\ \A t \in Submissions : (state'[t] = "none") = (state[t] = "none")
          /\ performed \subseteq performed'
          /\ performed' \subseteq performed \cup {<<<<q[1], q[2]>>, q[3]>>}
          /\ \A p, r \in performed' : p[1] = r[1] => p = r
          /\ \E p \in performed' : p[1] = <<q[1], q[2]>>
      BY <2>1, <3>1, EffectOnce
    <3>3. /\ performed' \subseteq (Submissions \X Commands) \X AnyRef
          /\ told' \subseteq Submissions \X Commands
          /\ answered' \subseteq Submissions \X Commands \X AnyRef
          /\ PerformedInACall' /\ AnsweredTookEffect' /\ ToldWhatHappened' /\ ReferenceOnRecord'
      BY <2>1, <3>1, <3>2, CommandsGain
    <3>4. WithdrawalsTypeOK' /\ OneWithdrawalPerSubmission'
      BY <1>0, <2>1, <3>1, <3>2 DEF WithdrawalsTypeOK, OneWithdrawalPerSubmission
    <3>5. QED
      BY <1>0, <2>1, <2>2, <3>3, <3>4 DEF WithdrawalsInv, WithdrawalsAsTold
  <2>5. QED
    BY <2>3, <2>4
<1>10. ASSUME NEW q \in queued, EndRow(q) PROVE WithdrawalsInv'
  <2>1. /\ queued' = queued \ {q}
        /\ UNCHANGED <<active, submitted, withdrawals, state, performed, operator, rows, told,
                       answered, unsure, unanswered>>
    BY <1>10 DEF EndRow
  <2>2. WithdrawalsTypeOK'
    BY <1>0, <2>1 DEF WithdrawalsTypeOK
  <2>3. RowStandsForACall' /\ OneWithdrawalPerSubmission'
    BY <1>0, <2>1 DEF RowStandsForACall, OneWithdrawalPerSubmission
  <2>4. QED
    BY <1>0, <2>1, <2>2, <2>3, CommandsKept DEF WithdrawalsInv, WithdrawalsAsTold
<1>11. CASE UNCHANGED withdrawalVars
  BY <1>0, <1>11, CommandsKept
     DEF withdrawalVars, WithdrawalsInv, WithdrawalsAsTold, WithdrawalsTypeOK,
         RowStandsForACall, OneWithdrawalPerSubmission
<1>12. QED
  BY <1>1, <1>2, <1>3, <1>4, <1>6, <1>7, <1>8, <1>9, <1>10, <1>11
     DEF WithdrawalsNext, AnyRef

LEMMA WithdrawalsInvariant == WithdrawalsSpec => []WithdrawalsInv
BY WithdrawalsStarts, WithdrawalsStep, PTL DEF WithdrawalsSpec

\* WithdrawalsTypeOK: a withdrawal has a state once it was created, a command
\* takes effect once under its key, and a key has one row.
THEOREM WithdrawalsTypeCorrect == WithdrawalsSpec => []WithdrawalsTypeOK
<1>1. WithdrawalsInv => WithdrawalsTypeOK
  BY DEF WithdrawalsInv
<1>2. QED
  BY <1>1, WithdrawalsInvariant, PTL

\* WithdrawalsAsTold: for any number of users, administrators and unanswered
\* calls, users are told of commands that took effect, an answer that names
\* another reference than the one on record follows a repetition, and a
\* submission creates at most one withdrawal.
THEOREM WithdrawalsTold == WithdrawalsSpec => []WithdrawalsAsTold
<1>1. WithdrawalsInv => WithdrawalsAsTold
  BY DEF WithdrawalsInv
<1>2. QED
  BY <1>1, WithdrawalsInvariant, PTL

(***************************************************************************)
(* Campaigns                                                               *)
(***************************************************************************)

Credited == {k \in GrantKeys : credit[k] > 0}
NewGrants == {a \in Granting : grant[a].new}

\* Every request ends at most once, as counted or as uncounted.
RequestsAccounted ==
  /\ IsFiniteSet(Granting) /\ IsFiniteSet(NewGrants) /\ IsFiniteSet(Credited)
  /\ campaign.grantCount + uncounted + Cardinality(Granting) <= grantRequests
  /\ recounted <= campaign.grantCount

\* A request that was never joined by another still has the room it was checked for.
RoomWhileAlone ==
  ~overlapped =>
    /\ \A a, b \in Granting : a = b
    /\ campaign.grantCount <= campaign.maxGrants
    /\ Granting # {} => campaign.grantCount < campaign.maxGrants

CampaignsInv ==
  /\ CampaignsTypeOK
  /\ \A a \in Admins : grant[a].at = "checked" => ~grant[a].new
  /\ RequestsAccounted
  /\ CountFollowsCredits
  /\ RoomWhileAlone

LEMMA NoGrantTyped ==
  /\ NoGrant \in [at: {"idle", "checked", "granted"}, keys: SUBSET GrantKeys, new: BOOLEAN]
  /\ Cardinality(NoGrant.keys) <= 1
  /\ NoGrant.at = "idle"
BY FS_EmptySet DEF NoGrant

LEMMA CampaignsStarts == CampaignsInit => CampaignsInv
<1> SUFFICES ASSUME CampaignsInit PROVE CampaignsInv
  OBVIOUS
<1>1. Granting = {} /\ NewGrants = {} /\ Credited = {} /\ Credits = Cardinality(Credited)
  BY DEF CampaignsInit, Granting, NewGrants, Credited, NoGrant, Credits
<1>2. Cardinality({}) = 0 /\ IsFiniteSet({})
  BY FS_EmptySet
<1>3. CampaignsTypeOK
  <2>0. MaxGrantRequests \in Nat
    BY CampaignsAssumption
  <2>1. campaign \in [active: BOOLEAN, expired: BOOLEAN, maxGrants: Caps,
                      grantCount: 0..MaxGrantRequests]
    <3>1. campaign \in [active: {TRUE}, expired: {FALSE}, maxGrants: Caps, grantCount: {0}]
      BY DEF CampaignsInit
    <3>2. 0 \in 0..MaxGrantRequests /\ TRUE \in BOOLEAN /\ FALSE \in BOOLEAN
      BY <2>0
    <3>3. QED
      BY <3>1, <3>2
  <2>2. {grantRequests, uncounted, recounted} \subseteq 0..MaxGrantRequests
    <3>1. grantRequests = 0 /\ uncounted = 0 /\ recounted = 0
      BY DEF CampaignsInit
    <3>2. QED
      BY <2>0, <3>1
  <2>4. credit \in [GrantKeys -> 0..1]
    BY DEF CampaignsInit
  <2>5. overlapped \in BOOLEAN
    BY Zenon DEF CampaignsInit
  <2>3. /\ grant \in [Admins -> [at: {"idle", "checked", "granted"}, keys: SUBSET GrantKeys,
                                 new: BOOLEAN]]
        /\ \A a \in Admins : Cardinality(grant[a].keys) <= 1
    BY NoGrantTyped DEF CampaignsInit
  <2>6. QED
    BY <2>1, <2>2, <2>3, <2>4, <2>5 DEF CampaignsTypeOK
<1>4. campaign.grantCount = 0 /\ campaign.maxGrants \in Nat
  BY CampaignsAssumption DEF CampaignsInit
<1>5. RequestsAccounted /\ RoomWhileAlone
  BY <1>1, <1>2, <1>4 DEF CampaignsInit, RequestsAccounted, RoomWhileAlone
<1>6. CountFollowsCredits
  BY <1>1, <1>2, <1>4 DEF CampaignsInit, CountFollowsCredits, NewGrants
<1>7. QED
  BY <1>3, <1>5, <1>6 DEF CampaignsInit, CampaignsInv, NoGrant

LEMMA CountsTyped ==
  ASSUME CampaignsInv
  PROVE  /\ Cardinality(Granting) \in Nat /\ Cardinality(NewGrants) \in Nat
         /\ Cardinality(Credited) \in Nat
         /\ campaign.grantCount \in Nat /\ campaign.maxGrants \in Nat
         /\ uncounted \in Nat /\ recounted \in Nat /\ grantRequests \in Nat
         /\ MaxGrantRequests \in Nat /\ grantRequests <= MaxGrantRequests
         /\ campaign.grantCount + uncounted + Cardinality(NewGrants)
              = Cardinality(Credited) + recounted
<1>1. /\ campaign.grantCount \in 0..MaxGrantRequests /\ campaign.maxGrants \in Caps
      /\ grantRequests \in 0..MaxGrantRequests /\ uncounted \in 0..MaxGrantRequests
      /\ recounted \in 0..MaxGrantRequests
  BY DEF CampaignsInv, CampaignsTypeOK
<1>2. IsFiniteSet(Granting) /\ IsFiniteSet(NewGrants) /\ IsFiniteSet(Credited)
  BY DEF CampaignsInv, RequestsAccounted
<1>3. Cardinality(Granting) \in Nat
  BY <1>2, FS_CardinalityType
<1>4. Cardinality(NewGrants) \in Nat
  BY <1>2, FS_CardinalityType
<1>5. Cardinality(Credited) \in Nat
  BY <1>2, FS_CardinalityType
<1>6. campaign.grantCount + uncounted + Cardinality(NewGrants)
        = Cardinality(Credited) + recounted
  BY DEF CampaignsInv, CountFollowsCredits, NewGrants, Credits, Credited
<1>7. MaxGrantRequests \in Nat /\ Caps \subseteq Nat
  BY CampaignsAssumption
<1>8. campaign.maxGrants \in Nat
  BY <1>1, <1>7, Zenon
<1>9. /\ campaign.grantCount \in Nat
      /\ uncounted \in Nat /\ recounted \in Nat /\ grantRequests \in Nat
      /\ grantRequests <= MaxGrantRequests
  BY <1>1, <1>7
<1>10. QED
  BY <1>3, <1>4, <1>5, <1>6, <1>7, <1>8, <1>9

\* The cap holds whenever no request met another and none went uncounted.
LEMMA CapHolds == CampaignsInv => CapExceededOnlyByRaces
<1> SUFFICES ASSUME CampaignsInv, ~overlapped, uncounted = 0 PROVE Credits <= campaign.maxGrants
  BY DEF CapExceededOnlyByRaces
<1>1. /\ campaign.grantCount \in Nat /\ recounted \in Nat /\ campaign.maxGrants \in Nat
      /\ Credits \in Nat /\ Cardinality(NewGrants) \in Nat
      /\ campaign.grantCount + Cardinality(NewGrants) = Credits + recounted
  BY CountsTyped DEF Credits, Credited
<1>2. CASE NewGrants = {}
  BY <1>1, <1>2, FS_EmptySet DEF CampaignsInv, RoomWhileAlone
<1>3. ASSUME NEW a \in NewGrants PROVE Credits <= campaign.maxGrants
  <2>1. NewGrants = {a} /\ Granting # {}
    BY <1>3 DEF CampaignsInv, RoomWhileAlone, NewGrants
  <2>2. Cardinality(NewGrants) = 1
    BY <2>1, FS_Singleton
  <2>3. QED
    BY <1>1, <2>1, <2>2 DEF CampaignsInv, RoomWhileAlone
<1>4. QED
  BY <1>2, <1>3

LEMMA CampaignsStep == CampaignsInv /\ [CampaignsNext]_campaignVars => CampaignsInv'
<1> SUFFICES ASSUME CampaignsInv, [CampaignsNext]_campaignVars PROVE CampaignsInv'
  OBVIOUS
<1>0. /\ CampaignsTypeOK /\ RequestsAccounted /\ RoomWhileAlone
      /\ \A a \in Admins : grant[a].at = "checked" => ~grant[a].new
      /\ campaign.grantCount + uncounted + Cardinality(NewGrants)
           = Cardinality(Credited) + recounted
  BY CountsTyped DEF CampaignsInv
<1>1. /\ Cardinality(Granting) \in Nat /\ Cardinality(NewGrants) \in Nat
      /\ Cardinality(Credited) \in Nat
      /\ campaign.grantCount \in Nat /\ campaign.maxGrants \in Nat
      /\ uncounted \in Nat /\ recounted \in Nat /\ grantRequests \in Nat
      /\ MaxGrantRequests \in Nat /\ grantRequests <= MaxGrantRequests
  BY CountsTyped
<1>2. ASSUME UNCHANGED <<credit, grant>>
      PROVE  Granting' = Granting /\ NewGrants' = NewGrants /\ Credited' = Credited
  BY <1>2 DEF Granting, NewGrants, Credited
\* What is left of the invariant once the sets and the counts of a step are known.
<1>3. ASSUME CampaignsTypeOK', RequestsAccounted', RoomWhileAlone',
             \A a \in Admins : grant'[a].at = "checked" => ~grant'[a].new,
             campaign'.grantCount + uncounted' + Cardinality(NewGrants')
               = Cardinality(Credited') + recounted'
      PROVE  CampaignsInv'
  BY <1>3 DEF CampaignsInv, CountFollowsCredits, NewGrants, Credits, Credited
<1>4. ASSUME UpdateCampaign \/ ExpireCampaign \/ UNCHANGED campaignVars
      PROVE  CampaignsInv'
  <2>1. /\ UNCHANGED <<credit, grant, grantRequests, uncounted, recounted>>
        /\ campaign' \in [active: BOOLEAN, expired: BOOLEAN, maxGrants: Caps,
                          grantCount: 0..MaxGrantRequests]
        /\ campaign'.grantCount = campaign.grantCount
        /\ overlapped' \in BOOLEAN /\ (overlapped => overlapped')
        /\ ~overlapped' => campaign'.maxGrants >= campaign.maxGrants
    <3>1. CASE UpdateCampaign
      <4>1. /\ campaign' \in [active: BOOLEAN, expired: BOOLEAN, maxGrants: Caps,
                              grantCount: 0..MaxGrantRequests]
            /\ campaign'.grantCount = campaign.grantCount
        BY <1>0, <3>1 DEF UpdateCampaign, CampaignsTypeOK
      <4>2. campaign'.maxGrants \in Nat
        BY <4>1, CampaignsAssumption
      <4>3. overlapped' = (overlapped \/ campaign'.maxGrants < campaign.maxGrants)
        BY <3>1 DEF UpdateCampaign
      <4>4. /\ overlapped' \in BOOLEAN /\ (overlapped => overlapped')
            /\ ~overlapped' => ~(campaign'.maxGrants < campaign.maxGrants)
        BY <4>3
      <4>5. UNCHANGED <<credit, grant, grantRequests, uncounted, recounted>>
        BY <3>1 DEF UpdateCampaign
      <4>6. QED
        BY <1>1, <4>1, <4>2, <4>4, <4>5
    <3>2. CASE ExpireCampaign
      <4>1. /\ campaign' \in [active: BOOLEAN, expired: BOOLEAN, maxGrants: Caps,
                              grantCount: 0..MaxGrantRequests]
            /\ campaign'.grantCount = campaign.grantCount
            /\ campaign'.maxGrants = campaign.maxGrants
        BY <1>0, <3>2 DEF ExpireCampaign, CampaignsTypeOK
      <4>2. QED
        BY <1>0, <1>1, <3>2, <4>1 DEF ExpireCampaign, CampaignsTypeOK
    <3>3. CASE UNCHANGED campaignVars
      BY <1>0, <1>1, <3>3 DEF campaignVars, CampaignsTypeOK
    <3>4. QED
      BY <1>4, <3>1, <3>2, <3>3
  <2>2. campaign'.maxGrants \in Nat
    BY <2>1, CampaignsAssumption
  <2>3. CampaignsTypeOK'
    BY <1>0, <2>1 DEF CampaignsTypeOK
  <2>4. RequestsAccounted' /\ RoomWhileAlone'
    BY <1>0, <1>1, <1>2, <2>1, <2>2 DEF RequestsAccounted, RoomWhileAlone
  <2>5. QED
    BY <1>0, <1>2, <1>3, <2>1, <2>3, <2>4
<1>5. ASSUME NEW a \in Admins, NEW k \in GrantKeys, CheckGrant(a, k) PROVE CampaignsInv'
  <2>1. /\ grant[a].at = "idle" /\ grantRequests < MaxGrantRequests /\ Grantable
        /\ grant' = [grant EXCEPT ![a] = [at |-> "checked", keys |-> {k}, new |-> FALSE]]
        /\ grantRequests' = grantRequests + 1
        /\ overlapped' = (overlapped \/ Granting # {})
        /\ UNCHANGED <<campaign, credit, uncounted, recounted>>
    BY <1>5 DEF CheckGrant
  <2>2. \A b \in Admins : grant'[b] = IF b = a THEN [at |-> "checked", keys |-> {k}, new |-> FALSE]
                                      ELSE grant[b]
    BY <1>0, <2>1 DEF CampaignsTypeOK
  <2>3. /\ Granting' = Granting \cup {a} /\ a \notin Granting
        /\ NewGrants' = NewGrants /\ Credited' = Credited
    BY <2>1, <2>2 DEF Granting, NewGrants, Credited
  <2>4. IsFiniteSet(Granting') /\ Cardinality(Granting') = Cardinality(Granting) + 1
    BY <1>0, <2>3, FS_AddElement DEF RequestsAccounted
  <2>5. Cardinality({k}) = 1
    BY FS_Singleton
  <2>6. CampaignsTypeOK'
    BY <1>0, <1>1, <2>1, <2>2, <2>5 DEF CampaignsTypeOK
  <2>7. RequestsAccounted'
    BY <1>0, <1>1, <2>1, <2>3, <2>4 DEF RequestsAccounted
  <2>8. RoomWhileAlone'
    BY <1>0, <1>1, <2>1, <2>3 DEF RoomWhileAlone, Grantable
  <2>9. QED
    BY <1>0, <1>3, <2>1, <2>2, <2>3, <2>6, <2>7, <2>8
\* A credit under a key that had one before changes nothing; a new key gains one.
<1>6. ASSUME NEW k \in GrantKeys, credit' = [credit EXCEPT ![k] = CreditAfter(k)]
      PROVE  /\ credit' \in [GrantKeys -> 0..1]
             /\ IsFiniteSet(Credited')
             /\ Cardinality(Credited')
                  = IF credit[k] = 0 THEN Cardinality(Credited) + 1 ELSE Cardinality(Credited)
  <2>1. credit' \in [GrantKeys -> 0..1] /\ credit[k] \in 0..1
    BY <1>0, <1>6 DEF CampaignsTypeOK, CreditAfter
  <2>2. Credited' = Credited \cup {k} /\ (k \in Credited) = (credit[k] # 0)
    BY <1>0, <1>6, <2>1 DEF CampaignsTypeOK, CreditAfter, Credited
  <2>3. QED
    BY <1>0, <2>1, <2>2, FS_AddElement DEF RequestsAccounted
<1>7. ASSUME NEW a \in Admins, GrantCredit(a) PROVE CampaignsInv'
  <2>1. PICK k \in grant[a].keys :
          /\ credit' = [credit EXCEPT ![k] = CreditAfter(k)]
          /\ grant' = [grant EXCEPT ![a].at = "granted", ![a].new = credit[k] = 0]
    BY <1>7 DEF GrantCredit
  <2>2. /\ grant[a].at = "checked" /\ k \in GrantKeys /\ ~grant[a].new
        /\ UNCHANGED <<campaign, grantRequests, uncounted, recounted, overlapped>>
    BY <1>0, <1>7 DEF GrantCredit, CampaignsTypeOK
  <2>3. /\ grant' \in [Admins -> [at: {"idle", "checked", "granted"}, keys: SUBSET GrantKeys,
                                  new: BOOLEAN]]
        /\ \A b \in Admins \ {a} : grant'[b] = grant[b]
        /\ grant'[a].at = "granted" /\ grant'[a].new = (credit[k] = 0)
        /\ grant'[a].keys = grant[a].keys
    BY <1>0, <2>1, ZenonT(60) DEF CampaignsTypeOK
  <2>4. /\ credit' \in [GrantKeys -> 0..1] /\ IsFiniteSet(Credited')
        /\ Cardinality(Credited')
             = IF credit[k] = 0 THEN Cardinality(Credited) + 1 ELSE Cardinality(Credited)
    BY <1>6, <2>1, <2>2
  <2>5. /\ Granting' = Granting /\ a \in Granting /\ a \notin NewGrants
        /\ NewGrants' = IF credit[k] = 0 THEN NewGrants \cup {a} ELSE NewGrants
    BY <2>2, <2>3 DEF Granting, NewGrants
  <2>6. /\ IsFiniteSet(NewGrants')
        /\ Cardinality(NewGrants')
             = IF credit[k] = 0 THEN Cardinality(NewGrants) + 1 ELSE Cardinality(NewGrants)
    BY <1>0, <2>5, FS_AddElement DEF RequestsAccounted
  <2>7. CampaignsTypeOK'
    <3>1. \A b \in Admins : grant'[b].keys = grant[b].keys
      BY <2>3
    <3>2. QED
      BY <1>0, <2>2, <2>3, <2>4, <3>1 DEF CampaignsTypeOK
  <2>8. RequestsAccounted' /\ RoomWhileAlone'
    BY <1>0, <2>2, <2>4, <2>5, <2>6 DEF RequestsAccounted, RoomWhileAlone
  <2>9. \A b \in Admins : grant'[b].at = "checked" => ~grant'[b].new
    BY <1>0, <2>3
  <2>10. QED
    BY <1>0, <1>1, <1>3, <2>2, <2>4, <2>6, <2>7, <2>8, <2>9
\* A request that ends leaves the requests under way, and the new grants if it had one.
<1>8. ASSUME NEW a \in Admins, grant[a].at # "idle", grant' = [grant EXCEPT ![a] = NoGrant]
      PROVE  /\ grant' \in [Admins -> [at: {"idle", "checked", "granted"},
                                       keys: SUBSET GrantKeys, new: BOOLEAN]]
             /\ \A b \in Admins : Cardinality(grant'[b].keys) <= 1
             /\ \A b \in Admins : grant'[b].at = "checked" => ~grant'[b].new
             /\ Granting' = Granting \ {a} /\ a \in Granting
             /\ IsFiniteSet(Granting') /\ Cardinality(Granting') = Cardinality(Granting) - 1
             /\ IsFiniteSet(NewGrants')
             /\ Cardinality(NewGrants')
                  = IF grant[a].new THEN Cardinality(NewGrants) - 1 ELSE Cardinality(NewGrants)
  <2>1. \A b \in Admins : grant'[b] = IF b = a THEN NoGrant ELSE grant[b]
    BY <1>0, <1>8 DEF CampaignsTypeOK
  <2>2. /\ Granting' = Granting \ {a} /\ a \in Granting
        /\ NewGrants' = NewGrants \ {a} /\ (a \in NewGrants) = grant[a].new
    BY <1>0, <1>8, <2>1, NoGrantTyped DEF Granting, NewGrants, CampaignsTypeOK
  <2>3. /\ IsFiniteSet(Granting') /\ Cardinality(Granting') = Cardinality(Granting) - 1
        /\ IsFiniteSet(NewGrants')
        /\ Cardinality(NewGrants')
             = IF grant[a].new THEN Cardinality(NewGrants) - 1 ELSE Cardinality(NewGrants)
    BY <1>0, <2>2, FS_RemoveElement DEF RequestsAccounted
  <2>4. grant' \in [Admins -> [at: {"idle", "checked", "granted"}, keys: SUBSET GrantKeys,
                               new: BOOLEAN]]
    BY <1>0, <1>8, NoGrantTyped DEF CampaignsTypeOK
  <2>5. /\ \A b \in Admins : Cardinality(grant'[b].keys) <= 1
        /\ \A b \in Admins : grant'[b].at = "checked" => ~grant'[b].new
    BY <1>0, <2>1, NoGrantTyped DEF CampaignsTypeOK
  <2>6. QED
    BY <2>2, <2>3, <2>4, <2>5
<1>9. ASSUME NEW a \in Admins, GrantCallFails(a) \/ IncrementLost(a) PROVE CampaignsInv'
  <2>1. /\ grant[a].at # "idle" /\ grant' = [grant EXCEPT ![a] = NoGrant]
        /\ UNCHANGED <<campaign, grantRequests, recounted, overlapped>>
    BY <1>9 DEF GrantCallFails, IncrementLost
  <2>2. /\ grant[a].at = "checked" => ~grant[a].new
        /\ grant[a].keys \subseteq GrantKeys
    BY <1>0 DEF CampaignsTypeOK
  <2>3. /\ grant' \in [Admins -> [at: {"idle", "checked", "granted"}, keys: SUBSET GrantKeys,
                                  new: BOOLEAN]]
        /\ \A b \in Admins : Cardinality(grant'[b].keys) <= 1
        /\ \A b \in Admins : grant'[b].at = "checked" => ~grant'[b].new
        /\ Granting' = Granting \ {a} /\ a \in Granting
        /\ IsFiniteSet(Granting') /\ Cardinality(Granting') = Cardinality(Granting) - 1
        /\ IsFiniteSet(NewGrants')
        /\ Cardinality(NewGrants')
             = IF grant[a].new THEN Cardinality(NewGrants) - 1 ELSE Cardinality(NewGrants)
    BY <1>8, <2>1
  <2>4. Cardinality(Granting') \in Nat /\ Cardinality(NewGrants') \in Nat
    BY <2>3, FS_CardinalityType
  <2>5. /\ credit' \in [GrantKeys -> 0..1] /\ IsFiniteSet(Credited')
        /\ uncounted' \in Nat /\ uncounted' <= uncounted + 1
        /\ uncounted' + Cardinality(NewGrants') + Cardinality(Credited)
             = uncounted + Cardinality(NewGrants) + Cardinality(Credited')
    <3>1. CASE IncrementLost(a)
      <4>1. /\ credit' = credit
            /\ uncounted' = IF grant[a].new THEN uncounted + 1 ELSE uncounted
        BY <3>1 DEF IncrementLost
      <4>2. Credited' = Credited
        BY <4>1 DEF Credited
      <4>3. credit \in [GrantKeys -> 0..1] /\ IsFiniteSet(Credited)
        BY <1>0 DEF CampaignsTypeOK, RequestsAccounted
      <4>4. CASE grant[a].new
        BY <1>1, <2>3, <4>1, <4>2, <4>3, <4>4
      <4>5. CASE ~grant[a].new
        BY <1>1, <2>3, <4>1, <4>2, <4>3, <4>5
      <4>6. QED
        BY <4>4, <4>5
    <3>2. CASE GrantCallFails(a)
      <4>1. ~grant[a].new
        BY <2>2, <3>2 DEF GrantCallFails
      <4>2. CASE UNCHANGED <<credit, uncounted>>
        <5>1. Credited' = Credited
          BY <4>2 DEF Credited
        <5>2. QED
          BY <1>0, <1>1, <2>3, <4>1, <4>2, <5>1 DEF CampaignsTypeOK, RequestsAccounted
      <4>3. ASSUME NEW k \in grant[a].keys,
                   credit' = [credit EXCEPT ![k] = CreditAfter(k)],
                   uncounted' = IF credit[k] = 0 THEN uncounted + 1 ELSE uncounted
            PROVE  /\ credit' \in [GrantKeys -> 0..1] /\ IsFiniteSet(Credited')
                   /\ uncounted' \in Nat /\ uncounted' <= uncounted + 1
                   /\ uncounted' + Cardinality(NewGrants') + Cardinality(Credited)
                        = uncounted + Cardinality(NewGrants) + Cardinality(Credited')
        <5>1. /\ credit' \in [GrantKeys -> 0..1] /\ IsFiniteSet(Credited')
              /\ Cardinality(Credited')
                   = IF credit[k] = 0 THEN Cardinality(Credited) + 1 ELSE Cardinality(Credited)
          BY <1>6, <2>2, <4>3
        <5>2. QED
          BY <1>1, <2>3, <4>1, <4>3, <5>1
      <4>4. QED
        BY <3>2, <4>2, <4>3 DEF GrantCallFails
    <3>3. QED
      BY <1>9, <3>1, <3>2
  <2>6. RequestsAccounted'
    BY <1>0, <1>1, <2>1, <2>3, <2>4, <2>5 DEF RequestsAccounted
  <2>7. uncounted' \in 0..MaxGrantRequests
    BY <1>1, <2>1, <2>4, <2>5, <2>6 DEF RequestsAccounted
  <2>8. CampaignsTypeOK'
    BY <1>0, <2>1, <2>3, <2>5, <2>7 DEF CampaignsTypeOK
  <2>9. RoomWhileAlone'
    BY <1>0, <2>1, <2>3 DEF RoomWhileAlone
  <2>10. Cardinality(Credited') \in Nat
    BY <2>5, FS_CardinalityType
  <2>11. campaign'.grantCount + uncounted' + Cardinality(NewGrants')
           = Cardinality(Credited') + recounted'
    BY <1>0, <1>1, <2>1, <2>4, <2>5, <2>10
  <2>12. QED
    BY <1>3, <2>3, <2>6, <2>8, <2>9, <2>11
<1>10. ASSUME NEW a \in Admins, IncrementCount(a) PROVE CampaignsInv'
  <2>1. /\ grant[a].at = "granted" /\ grant' = [grant EXCEPT ![a] = NoGrant]
        /\ campaign' = [campaign EXCEPT !.grantCount = campaign.grantCount + 1]
        /\ recounted' = IF grant[a].new THEN recounted ELSE recounted + 1
        /\ UNCHANGED <<credit, grantRequests, uncounted, overlapped>>
    BY <1>10 DEF IncrementCount, CountAfter
  <2>2. /\ campaign'.grantCount = campaign.grantCount + 1
        /\ campaign'.maxGrants = campaign.maxGrants
    BY <1>0, <2>1 DEF CampaignsTypeOK
  <2>3. /\ grant' \in [Admins -> [at: {"idle", "checked", "granted"}, keys: SUBSET GrantKeys,
                                  new: BOOLEAN]]
        /\ \A b \in Admins : Cardinality(grant'[b].keys) <= 1
        /\ \A b \in Admins : grant'[b].at = "checked" => ~grant'[b].new
        /\ Granting' = Granting \ {a} /\ a \in Granting
        /\ IsFiniteSet(Granting') /\ Cardinality(Granting') = Cardinality(Granting) - 1
        /\ IsFiniteSet(NewGrants')
        /\ Cardinality(NewGrants')
             = IF grant[a].new THEN Cardinality(NewGrants) - 1 ELSE Cardinality(NewGrants)
    BY <1>8, <2>1
  <2>4. Cardinality(Granting') \in Nat /\ Cardinality(NewGrants') \in Nat
    BY <2>3, FS_CardinalityType
  <2>5. Credited' = Credited
    BY <2>1 DEF Credited
  <2>6. recounted' \in Nat /\ recounted' <= recounted + 1
    BY <1>1, <2>1
  <2>7. RequestsAccounted'
    BY <1>0, <1>1, <2>1, <2>2, <2>3, <2>4, <2>5, <2>6 DEF RequestsAccounted
  <2>8. /\ campaign.grantCount + 1 \in 0..MaxGrantRequests
        /\ recounted' \in 0..MaxGrantRequests
    BY <1>1, <2>1, <2>2, <2>4, <2>6, <2>7 DEF RequestsAccounted
  <2>9. campaign' \in [active: BOOLEAN, expired: BOOLEAN, maxGrants: Caps,
                       grantCount: 0..MaxGrantRequests]
    BY <1>0, <2>1, <2>8 DEF CampaignsTypeOK
  <2>10. CampaignsTypeOK'
    BY <1>0, <2>1, <2>3, <2>8, <2>9 DEF CampaignsTypeOK
  <2>11. RoomWhileAlone'
    BY <1>0, <1>1, <2>1, <2>2, <2>3 DEF RoomWhileAlone
  <2>12. campaign'.grantCount + uncounted' + Cardinality(NewGrants')
           = Cardinality(Credited') + recounted'
    BY <1>0, <1>1, <2>1, <2>2, <2>3, <2>4, <2>5
  <2>13. QED
    BY <1>3, <2>3, <2>7, <2>10, <2>11, <2>12
<1>11. QED
  BY <1>4, <1>5, <1>7, <1>9, <1>10 DEF CampaignsNext

LEMMA CampaignsInvariant == CampaignsSpec => []CampaignsInv
BY CampaignsStarts, CampaignsStep, PTL DEF CampaignsSpec

\* CampaignsTypeOK: counts stay in their ranges, and a key has one credit.
THEOREM CampaignsTypeCorrect == CampaignsSpec => []CampaignsTypeOK
<1>1. CampaignsInv => CampaignsTypeOK
  BY DEF CampaignsInv
<1>2. QED
  BY <1>1, CampaignsInvariant, PTL

\* CreditsAccounted: for any number of administrators and grants, the count and the
\* credits differ by what was lost and what was repeated, and the cap is exceeded
\* only when requests overlapped, the cap was lowered or a count was lost.
THEOREM CreditsStayAccounted == CampaignsSpec => []CreditsAccounted
<1>1. CampaignsInv => CreditsAccounted
  BY CapHolds DEF CampaignsInv, CreditsAccounted
<1>2. QED
  BY <1>1, CampaignsInvariant, PTL

(***************************************************************************)
(* One-time codes: first the rows of otps, then the two keys of the rate   *)
(* limiter; each half needs what the calls under way carry.                *)
(***************************************************************************)

\* A refused guess is counted on the code while it can still be taken; a code
\* that was taken stays verified.
RowsSound ==
  /\ \A i \in accepted : codes[i].status = "verified"
  /\ \A i \in CodeIds : codes[i].status = "none" => wrong[i] = 0
  /\ \A i \in CodeIds : codes[i].status = "active" => wrong[i] = codes[i].attempts

CallsSound ==
  \A c \in Clients : call[c].pc \in {"sms", "undo", "mark"} => call[c].code \in CodeIds

CodesInv == CodesTypeOK /\ RowsSound /\ CallsSound

USE DEF SendSteps, CheckSteps

LEMMA NoCallCode == NoCall \in CodeCalls /\ NoCall.pc = "idle"
BY DEF NoCall, CodeCalls

LEMMA CodesStart == CodesInit => CodesInv
<1> SUFFICES ASSUME CodesInit PROVE CodesInv
  OBVIOUS
<1>1. codes \in [CodeIds -> CodeRows] /\ wrong \in [CodeIds -> Attempts]
  BY CodesAssumption DEF CodesInit, CodeRows, Attempts
<1>2. counter \in [count: Nat, expires: BOOLEAN]
  BY DEF CodesInit, Absent
<1>3. call \in [Clients -> CodeCalls] /\ CallsSound
  BY NoCallCode DEF CodesInit, CallsSound
<1>4. CodesTypeOK
  <2>1. failures \in 0..MaxRedisFailures /\ sent \in Nat
    BY CodesAssumption DEF CodesInit
  <2>2. accepted \subseteq CodeIds /\ cooldown \in BOOLEAN
    BY DEF CodesInit
  <2>3. QED
    BY <1>1, <1>2, <1>3, <2>1, <2>2 DEF CodesTypeOK
<1>5. RowsSound
  BY DEF CodesInit, RowsSound
<1>6. QED
  BY <1>3, <1>4, <1>5 DEF CodesInv

\* What a step of a call may carry on with.
Next1(c, r) ==
  /\ call' = [call EXCEPT ![c] = r]
  /\ r \in CodeCalls
  /\ r.pc \in {"sms", "undo", "mark"} => r.code \in CodeIds

LEMMA Going ==
  ASSUME CodesInv, NEW c \in Clients, NEW r, Next1(c, r)
  PROVE  call' \in [Clients -> CodeCalls] /\ CallsSound'
BY DEF CodesInv, CodesTypeOK, CallsSound, Next1

LEMMA Stopping ==
  ASSUME CodesInv, NEW c \in Clients, Finish(c)
  PROVE  call' \in [Clients -> CodeCalls] /\ CallsSound'
<1>1. Next1(c, NoCall)
  BY NoCallCode DEF Finish, Next1
<1>2. QED
  BY <1>1, Going

LEMMA Restarting ==
  ASSUME CodesInv, NEW c \in Clients, NEW pc \in {"limit", "incr", "count", "reset"},
         Restart(c, pc)
  PROVE  call' \in [Clients -> CodeCalls] /\ CallsSound'
<1>1. Next1(c, [NoCall EXCEPT !.pc = pc])
  BY NoCallCode DEF Restart, Next1, CodeCalls, NoCall
<1>2. QED
  BY <1>1, Going

LEMMA Moving ==
  ASSUME CodesInv, NEW c \in Clients, NEW pc \in {"idle"} \cup SendSteps \cup CheckSteps,
         Goto(c, pc), pc \in {"sms", "undo", "mark"} => call[c].code \in CodeIds
  PROVE  call' \in [Clients -> CodeCalls] /\ CallsSound'
<1>1. call[c] \in CodeCalls
  BY DEF CodesInv, CodesTypeOK
<1>2. Next1(c, [call[c] EXCEPT !.pc = pc])
  BY <1>1 DEF Goto, Next1, CodeCalls, CodesInv, CodesTypeOK
<1>3. QED
  BY <1>2, Going

\* Every step keeps the calls typed and sound.
LEMMA CallsStep ==
  ASSUME CodesInv, [CodesNext]_codesVars
  PROVE  call' \in [Clients -> CodeCalls] /\ CallsSound'
<1>0. \A c \in Clients : call[c] \in CodeCalls
  BY DEF CodesInv, CodesTypeOK
<1>1. ASSUME NEW c \in Clients, BeginSend(c) PROVE call' \in [Clients -> CodeCalls] /\ CallsSound'
  BY <1>1, Moving DEF BeginSend
<1>2. ASSUME NEW c \in Clients, CheckLimit(c) PROVE call' \in [Clients -> CodeCalls] /\ CallsSound'
  BY <1>2, Moving, Stopping DEF CheckLimit
<1>3. ASSUME NEW c \in Clients, InvalidateActive(c)
      PROVE  call' \in [Clients -> CodeCalls] /\ CallsSound'
  BY <1>3, Moving DEF InvalidateActive
<1>4. ASSUME NEW c \in Clients, CreateCode(c) PROVE call' \in [Clients -> CodeCalls] /\ CallsSound'
  <2>1. PICK i \in CodeIds : call' = [call EXCEPT ![c] = [pc |-> "sms", code |-> i]]
    BY <1>4 DEF CreateCode
  <2>2. Next1(c, [pc |-> "sms", code |-> i])
    BY <2>1 DEF Next1, CodeCalls
  <2>3. QED
    BY <2>2, Going
<1>5. ASSUME NEW c \in Clients, SmsSent(c) PROVE call' \in [Clients -> CodeCalls] /\ CallsSound'
  BY <1>5, Restarting DEF SmsSent
<1>6. ASSUME NEW c \in Clients, SmsRefused(c) PROVE call' \in [Clients -> CodeCalls] /\ CallsSound'
  BY <1>6, Moving DEF SmsRefused, At, CodesInv, CallsSound
<1>7. ASSUME NEW c \in Clients,
             \/ InvalidateByCode(c) \/ SetCooldown(c) \/ ResetAfterVerification(c)
             \/ IncrementAttempts(c) \/ RedisFails(c)
      PROVE  call' \in [Clients -> CodeCalls] /\ CallsSound'
  BY <1>7, Stopping
     DEF InvalidateByCode, SetCooldown, ResetAfterVerification, IncrementAttempts, RedisFails
<1>8. ASSUME NEW c \in Clients, Incr(c) \/ Expire(c)
      PROVE  call' \in [Clients -> CodeCalls] /\ CallsSound'
  BY <1>8, Moving DEF Incr, Expire
<1>9. ASSUME NEW c \in Clients, FindActive(c)
      PROVE  call' \in [Clients -> CodeCalls] /\ CallsSound'
  BY <1>9, Moving, Stopping, Restarting DEF FindActive, Found
<1>10. ASSUME NEW c \in Clients, MarkVerified(c)
       PROVE  call' \in [Clients -> CodeCalls] /\ CallsSound'
  BY <1>10, Stopping, Restarting DEF MarkVerified
<1>11. ASSUME NEW c \in Clients, NEW guess \in CodeIds \cup {WrongGuess}, BeginVerify(c, guess)
       PROVE  call' \in [Clients -> CodeCalls] /\ CallsSound'
  <2>1. Next1(c, [pc |-> "find", code |-> guess])
    BY <1>11 DEF BeginVerify, Next1, CodeCalls
  <2>2. QED
    BY <2>1, Going
<1>12. CASE UNCHANGED call
  BY <1>12 DEF CodesInv, CodesTypeOK, CallsSound
<1>13. QED
  BY <1>1, <1>2, <1>3, <1>4, <1>5, <1>6, <1>7, <1>8, <1>9, <1>10, <1>11, <1>12
     DEF CodesNext, CallStep, CodeExpires, WindowEnds, CooldownEnds, codesVars

\* Every step keeps the rows typed, and what is known of them.
LEMMA RowsStep ==
  ASSUME CodesInv, [CodesNext]_codesVars
  PROVE  /\ codes' \in [CodeIds -> CodeRows] /\ wrong' \in [CodeIds -> Attempts]
         /\ accepted' \subseteq CodeIds /\ RowsSound'
<1> DEFINE Kept == /\ codes' \in [CodeIds -> CodeRows] /\ wrong' \in [CodeIds -> Attempts]
                   /\ accepted' \subseteq CodeIds /\ RowsSound'
<1>0. /\ codes \in [CodeIds -> CodeRows] /\ wrong \in [CodeIds -> Attempts]
      /\ accepted \subseteq CodeIds /\ RowsSound /\ MaxAttempts \in Nat
  BY CodesAssumption DEF CodesInv, CodesTypeOK
<1>1. ASSUME NEW c \in Clients, InvalidateActive(c) PROVE Kept
  BY <1>0, <1>1 DEF InvalidateActive, RowsSound, CodeRows, Active
<1>2. ASSUME NEW c \in Clients, CreateCode(c) PROVE Kept
  BY <1>0, <1>2 DEF CreateCode, RowsSound, CodeRows, Created, Attempts
<1>3. ASSUME NEW c \in Clients, InvalidateByCode(c) PROVE Kept
  <2>1. call[c].code \in CodeIds
    BY <1>3 DEF CodesInv, CallsSound, InvalidateByCode, At
  <2>2. QED
    BY <1>0, <1>3, <2>1 DEF InvalidateByCode, RowsSound, CodeRows
<1>4. ASSUME NEW c \in Clients, IncrementAttempts(c) PROVE Kept
  <2>1. \A n \in Attempts : OneMore(n) \in Attempts
    BY <1>0 DEF OneMore, Attempts
  <2>2. \A i \in CodeIds : codes'[i] = IF Active(i) THEN [codes[i] EXCEPT !.attempts = OneMore(@)]
                                                  ELSE codes[i]
    BY <1>4 DEF IncrementAttempts, Counted
  <2>3. QED
    BY <1>0, <1>4, <2>1, <2>2 DEF IncrementAttempts, RowsSound, CodeRows, Active, Counted
<1>5. ASSUME NEW c \in Clients, MarkVerified(c) PROVE Kept
  <2>1. call[c].code \in CodeIds
    BY <1>5 DEF CodesInv, CallsSound, MarkVerified, At
  <2>2. QED
    BY <1>0, <1>5, <2>1 DEF MarkVerified, RowsSound, CodeRows
<1>6. ASSUME NEW i \in CodeIds, CodeExpires(i) PROVE Kept
  BY <1>0, <1>6 DEF CodeExpires, RowsSound, CodeRows, Active
<1>7. CASE UNCHANGED <<codes, wrong, accepted>>
  BY <1>0, <1>7 DEF RowsSound
<1>8. QED
  BY <1>1, <1>2, <1>3, <1>4, <1>5, <1>6, <1>7
     DEF CodesNext, CallStep, BeginSend, CheckLimit, SmsSent, SmsRefused, Incr, Expire,
         SetCooldown, ResetAfterVerification, RedisFails, FindActive, BeginVerify,
         WindowEnds, CooldownEnds, codesVars

LEMMA LimiterTypes ==
  ASSUME CodesInv, [CodesNext]_codesVars
  PROVE  /\ counter' \in [count: Nat, expires: BOOLEAN] /\ cooldown' \in BOOLEAN
         /\ failures' \in 0..MaxRedisFailures /\ sent' \in Nat
<1>0. /\ counter \in [count: Nat, expires: BOOLEAN] /\ cooldown \in BOOLEAN
      /\ failures \in 0..MaxRedisFailures /\ sent \in Nat /\ MaxRedisFailures \in Nat
  BY CodesAssumption DEF CodesInv, CodesTypeOK
<1>1. Absent \in [count: Nat, expires: BOOLEAN]
  BY DEF Absent
<1> DEFINE Kept == /\ counter' \in [count: Nat, expires: BOOLEAN] /\ cooldown' \in BOOLEAN
                   /\ failures' \in 0..MaxRedisFailures /\ sent' \in Nat
<1>2. ASSUME NEW c \in Clients, SmsSent(c) PROVE Kept
  BY <1>0, <1>2 DEF SmsSent
<1>3. ASSUME NEW c \in Clients, Incr(c) \/ Expire(c) PROVE Kept
  <2>1. CASE Incr(c)
    BY <1>0, <2>1 DEF Incr
  <2>2. CASE Expire(c)
    <3>1. (counter.count > 0) \in BOOLEAN
      OBVIOUS
    <3>2. counter' \in [count: Nat, expires: BOOLEAN]
      BY <1>0, <2>2, <3>1 DEF Expire
    <3>3. QED
      BY <1>0, <2>2, <3>2 DEF Expire
  <2>3. QED
    BY <1>3, <2>1, <2>2
<1>4. ASSUME NEW c \in Clients, SetCooldown(c) \/ ResetAfterVerification(c) PROVE Kept
  <2>1. CASE SetCooldown(c)
    BY <1>0, <2>1 DEF SetCooldown
  <2>2. CASE ResetAfterVerification(c)
    <3>1. counter' = Absent /\ cooldown' = FALSE /\ sent' = 0 /\ failures' = failures
      BY <2>2 DEF ResetAfterVerification
    <3>2. QED
      BY <1>0, <1>1, <3>1
  <2>3. QED
    BY <1>4, <2>1, <2>2
<1>5. ASSUME NEW c \in Clients, RedisFails(c) PROVE Kept
  BY <1>0, <1>5 DEF RedisFails
<1>6. CASE WindowEnds \/ CooldownEnds
  <2>1. CASE WindowEnds
    <3>1. counter' = Absent /\ sent' = 0 /\ failures' = failures /\ cooldown' = cooldown
      BY <2>1 DEF WindowEnds
    <3>2. QED
      BY <1>0, <1>1, <3>1
  <2>2. CASE CooldownEnds
    BY <1>0, <2>2 DEF CooldownEnds
  <2>3. QED
    BY <1>6, <2>1, <2>2
<1>7. CASE UNCHANGED <<counter, cooldown, failures, sent>>
  BY <1>0, <1>7
<1>8. QED
  BY <1>2, <1>3, <1>4, <1>5, <1>6, <1>7
     DEF CodesNext, CallStep, BeginSend, CheckLimit, InvalidateActive, CreateCode, SmsRefused,
         InvalidateByCode, FindActive, IncrementAttempts, MarkVerified, BeginVerify, CodeExpires,
         codesVars

LEMMA CodesInvariant == CodesSpec => []CodesInv
<1>1. CodesInv /\ [CodesNext]_codesVars => CodesInv'
  BY CallsStep, RowsStep, LimiterTypes DEF CodesInv, CodesTypeOK
<1>2. QED
  BY <1>1, CodesStart, PTL DEF CodesSpec

\* A verification takes a code only when it finds it active with attempts left.
LEMMA TakesActive ==
  ASSUME CodesInv, [CodesNext]_codesVars, NEW c \in Clients, Takes(c)
  PROVE  FindActive(c) /\ call'[c].code = call[c].code /\ Found(call[c].code)
         /\ codes[call[c].code].attempts < MaxAttempts
<1>0. call \in [Clients -> CodeCalls]
  BY DEF CodesInv, CodesTypeOK
<1>1. call'[c].pc = "mark" /\ call[c].pc # "mark"
  BY DEF Takes
<1>2. \A d \in Clients, r \in CodeCalls : call' = [call EXCEPT ![d] = r] => r.pc = "mark" /\ d = c
  BY <1>0, <1>1
<1>3. \A d \in Clients : ~Finish(d)
  BY <1>2, NoCallCode DEF Finish
<1>4. \A d \in Clients, pc \in {"incr", "count", "reset"} : ~Restart(d, pc)
  BY <1>2 DEF Restart, NoCall, CodeCalls
<1>5. \A d \in Clients, pc \in {"idle"} \cup SendSteps \cup CheckSteps : Goto(d, pc) => pc = "mark" /\ d = c
  BY <1>0, <1>1, <1>2 DEF Goto, CodeCalls
<1>6. FindActive(c)
  <2>1. \A d \in Clients : ~BeginSend(d) /\ ~RedisFails(d)
    BY <1>3, <1>5 DEF BeginSend, RedisFails
  <2>2. \A d \in Clients : ~CheckLimit(d) /\ ~InvalidateActive(d) /\ ~SmsSent(d) /\ ~SmsRefused(d)
                            /\ ~InvalidateByCode(d) /\ ~SetCooldown(d)
                            /\ ~ResetAfterVerification(d) /\ ~IncrementAttempts(d)
    BY <1>3, <1>4, <1>5
       DEF CheckLimit, InvalidateActive, SmsSent, SmsRefused, InvalidateByCode, SetCooldown,
           ResetAfterVerification, IncrementAttempts
  <2>3. \A d \in Clients : ~CreateCode(d)
    <3>1. \A i \in CodeIds : [pc |-> "sms", code |-> i] \in CodeCalls
      BY DEF CodeCalls
    <3>2. QED
      BY <1>2, <3>1 DEF CreateCode
  <2>4. \A d \in Clients : ~Incr(d) /\ ~Expire(d) /\ ~MarkVerified(d)
    BY <1>3, <1>4, <1>5 DEF Incr, Expire, MarkVerified
  <2>5. \A d \in Clients, guess \in CodeIds \cup {WrongGuess} : ~BeginVerify(d, guess)
    <3>1. \A guess \in CodeIds \cup {WrongGuess} : [pc |-> "find", code |-> guess] \in CodeCalls
      BY DEF CodeCalls
    <3>2. QED
      BY <1>2, <3>1 DEF BeginVerify
  <2>6. call' # call
    BY <1>1
  <2>7. PICK d \in Clients : FindActive(d)
    BY <2>1, <2>2, <2>3, <2>4, <2>5, <2>6
       DEF CodesNext, CallStep, CodeExpires, WindowEnds, CooldownEnds, codesVars
  <2>8. d = c
    BY <1>3, <1>4, <1>5, <2>7 DEF FindActive
  <2>9. QED
    BY <2>7, <2>8
<1>7. Goto(c, "mark") /\ Found(call[c].code) /\ codes[call[c].code].attempts < MaxAttempts
  BY <1>3, <1>4, <1>6 DEF FindActive
<1>8. QED
  BY <1>0, <1>6, <1>7 DEF Goto, CodeCalls

\* A code that a verification took is not found by a later one.
THEOREM CodesTakenOnce == CodesSpec => NoReuse
<1>1. CodesInv /\ [CodesNext]_codesVars
        => [\A c \in Clients : Takes(c) => call'[c].code \notin accepted]_codesVars
  <2> SUFFICES ASSUME CodesInv, [CodesNext]_codesVars, NEW c \in Clients, Takes(c)
               PROVE  call'[c].code \notin accepted
    OBVIOUS
  <2>1. QED
    BY TakesActive DEF CodesInv, RowsSound, Found, Active
<1>2. QED
  BY <1>1, CodesInvariant, PTL DEF CodesSpec, NoReuse

\* A code is taken only while fewer guesses than the limit were refused on it.
THEOREM GuessesBounded == CodesSpec => GuessBudget
<1>1. CodesInv /\ [CodesNext]_codesVars
        => [\A c \in Clients : Takes(c) => wrong[call'[c].code] < MaxAttempts]_codesVars
  <2> SUFFICES ASSUME CodesInv, [CodesNext]_codesVars, NEW c \in Clients, Takes(c)
               PROVE  wrong[call'[c].code] < MaxAttempts
    OBVIOUS
  <2>1. QED
    BY TakesActive DEF CodesInv, RowsSound, Found, Active
<1>2. QED
  BY <1>1, CodesInvariant, PTL DEF CodesSpec, GuessBudget

\* A code is taken neither twice, by calls that do not overlap, nor after too many
\* refused guesses.
THEOREM GuardedCodes == CodesSpec => CodesGuarded
BY CodesTakenOnce, GuessesBounded DEF CodesGuarded

-----------------------------------------------------------------------------
(* The rate limiter.  A message is counted by the client that sent it, so  *)
(* what was sent and not counted is either on its way to the counter or    *)
(* lost by a failure of Redis; and a client past the limit saw a count     *)
(* below it.                                                               *)

In(S) == {c \in Clients : call[c].pc \in S}
Passing == {"invalidate", "create", "sms"}
Counting == {"incr"}

LimiterSound ==
  /\ sent <= counter.count + Cardinality(In(Counting)) + failures
  /\ sent + Cardinality(In(Passing)) <= (MaxPerHour - 1) + Cardinality(Clients) + failures
  /\ CounterExpires

LEMMA InFinite ==
  ASSUME NEW S
  PROVE  /\ IsFiniteSet(In(S)) /\ Cardinality(In(S)) \in Nat
         /\ Cardinality(Clients) \in Nat /\ Cardinality(In(S)) <= Cardinality(Clients)
<1>1. In(S) \subseteq Clients
  BY DEF In
<1>2. QED
  BY <1>1, CodesAssumption, FS_Subset, FS_CardinalityType

LEMMA InFiniteNext ==
  ASSUME NEW S
  PROVE  Cardinality(In(S)') \in Nat /\ Cardinality(In(S)') <= Cardinality(Clients)
<1>1. In(S)' \subseteq Clients
  BY DEF In
<1>2. QED
  BY <1>1, CodesAssumption, FS_Subset, FS_CardinalityType

\* What a step of one call does to the number of calls at S.
LEMMA InStep ==
  ASSUME CodesInv, NEW c \in Clients, NEW r, Next1(c, r), NEW S
  PROVE  /\ (call[c].pc \in S <=> r.pc \in S) => In(S)' = In(S)
         /\ call[c].pc \in S /\ r.pc \notin S => Cardinality(In(S)') = Cardinality(In(S)) - 1
         /\ call[c].pc \notin S /\ r.pc \in S => Cardinality(In(S)') = Cardinality(In(S)) + 1
<1>1. /\ call \in [Clients -> CodeCalls]
      /\ call' = [call EXCEPT ![c] = r]
  BY DEF CodesInv, CodesTypeOK, Next1
<1>2. call'[c] = r /\ \A d \in Clients \ {c} : call'[d] = call[d]
  BY <1>1
<1>3. In(S)' = {d \in Clients : call'[d].pc \in S}
  BY DEF In
<1>4. CASE call[c].pc \in S <=> r.pc \in S
  BY <1>2, <1>3, <1>4 DEF In
<1>5. CASE call[c].pc \in S /\ r.pc \notin S
  <2>1. In(S)' = In(S) \ {c} /\ c \in In(S)
    BY <1>2, <1>3, <1>5 DEF In
  <2>2. QED
    BY <1>5, <2>1, InFinite, FS_RemoveElement
<1>6. CASE call[c].pc \notin S /\ r.pc \in S
  <2>1. In(S)' = In(S) \cup {c} /\ c \notin In(S)
    BY <1>2, <1>3, <1>6 DEF In
  <2>2. QED
    BY <1>6, <2>1, InFinite, FS_AddElement
<1>7. QED
  BY <1>4, <1>5, <1>6

\* A step of a call that neither sends nor counts, nor passes the limit.
LEMMA QuietStep ==
  ASSUME CodesInv, LimiterSound, NEW c \in Clients, NEW r, Next1(c, r),
         UNCHANGED <<counter, failures, sent>>,
         call[c].pc # "incr" /\ r.pc # "incr", call[c].pc # "expire",
         r.pc \in Passing => call[c].pc \in Passing
  PROVE  LimiterSound'
<1>0. /\ sent \in Nat /\ failures \in Nat /\ counter.count \in Nat /\ MaxPerHour \in Nat \ {0}
      /\ call \in [Clients -> CodeCalls]
  BY CodesAssumption DEF CodesInv, CodesTypeOK
<1>1. In(Counting)' = In(Counting)
  BY InStep DEF Counting
<1>2. Cardinality(In(Passing)') <= Cardinality(In(Passing))
  BY InStep, InFinite
<1>3. Cardinality(In(Passing)') \in Nat
  BY InFiniteNext
<1>4. CounterExpires'
  <2>1. \A d \in Clients : At(d, "expire") => At(d, "expire")'
    BY <1>0 DEF At, Next1
  <2>2. QED
    BY <2>1 DEF LimiterSound, CounterExpires
<1>5. QED
  BY <1>0, <1>1, <1>2, <1>3, <1>4, InFinite DEF LimiterSound

LEMMA LimiterStart == CodesInit => LimiterSound
<1> SUFFICES ASSUME CodesInit PROVE LimiterSound
  OBVIOUS
<1>1. counter.count = 0 /\ sent = 0 /\ failures = 0 /\ MaxPerHour \in Nat \ {0}
  BY CodesAssumption DEF CodesInit, Absent
<1>2. QED
  BY <1>1, InFinite DEF LimiterSound, CounterExpires

\* A client that passes the limit was let through by a count below it.
LEMMA PassingStep ==
  ASSUME CodesInv, LimiterSound, NEW c \in Clients, CheckLimit(c)
  PROVE  LimiterSound'
<1>0. /\ sent \in Nat /\ failures \in Nat /\ counter.count \in Nat /\ MaxPerHour \in Nat \ {0}
      /\ call[c] \in CodeCalls
  BY CodesAssumption DEF CodesInv, CodesTypeOK
<1>1. CASE counter.count >= MaxPerHour
  <2>1. Next1(c, NoCall)
    BY <1>0, <1>1, NoCallCode DEF CheckLimit, Finish, Next1
  <2>2. QED
    BY <1>0, <2>1, NoCallCode, QuietStep DEF CheckLimit, At, Passing
<1>2. CASE counter.count < MaxPerHour
  <2> DEFINE r == [call[c] EXCEPT !.pc = "invalidate"]
  <2>1. Next1(c, r) /\ r.pc = "invalidate" /\ call[c].pc = "limit"
        /\ UNCHANGED <<counter, failures, sent>>
    BY <1>0, <1>2 DEF CheckLimit, Goto, Next1, CodeCalls, At
  <2> HIDE DEF r
  <2>2. In(Counting)' = In(Counting)
    BY <2>1, InStep DEF Counting
  <2>3. Cardinality(In(Passing)') = Cardinality(In(Passing)) + 1
    BY <2>1, InStep DEF Passing
  <2>4. Cardinality(In(Passing)) + 1 + Cardinality(In(Counting)) <= Cardinality(Clients)
    <3>1. In(Passing) \cap In(Counting) = {} /\ In(Passing) \cup In(Counting) \subseteq Clients \ {c}
      BY <2>1 DEF In, Passing, Counting
    <3>2. Cardinality(In(Passing) \cup In(Counting))
            = Cardinality(In(Passing)) + Cardinality(In(Counting)) - Cardinality(In(Passing) \cap In(Counting))
      BY InFinite, FS_Union
    <3>3. IsFiniteSet(Clients \ {c}) /\ Cardinality(Clients \ {c}) = Cardinality(Clients) - 1
      BY CodesAssumption, FS_RemoveElement
    <3>4. Cardinality(In(Passing) \cup In(Counting)) <= Cardinality(Clients) - 1
      BY <3>1, <3>3, FS_Subset
    <3>5. Cardinality(In(Passing) \cap In(Counting)) = 0
      BY <3>1, FS_EmptySet
    <3>6. /\ Cardinality(In(Passing)) \in Nat /\ Cardinality(In(Counting)) \in Nat
          /\ Cardinality(Clients) \in Nat
      BY InFinite
    <3>7. QED
      BY <3>2, <3>4, <3>5, <3>6
  <2>5. CounterExpires'
    BY <2>1 DEF LimiterSound, CounterExpires, At, CodesInv, CodesTypeOK, Next1
  <2>6. QED
    BY <1>0, <1>2, <2>1, <2>2, <2>3, <2>4, <2>5, InFinite DEF LimiterSound
<1>3. QED
  BY <1>0, <1>1, <1>2

LEMMA SendingStep ==
  ASSUME CodesInv, LimiterSound, NEW c \in Clients, SmsSent(c)
  PROVE  LimiterSound'
<1>0. /\ sent \in Nat /\ failures \in Nat /\ counter.count \in Nat /\ MaxPerHour \in Nat \ {0}
      /\ call[c] \in CodeCalls
  BY CodesAssumption DEF CodesInv, CodesTypeOK
<1> DEFINE r == [NoCall EXCEPT !.pc = "incr"]
<1>1. Next1(c, r) /\ r.pc = "incr" /\ call[c].pc = "sms"
      /\ UNCHANGED <<counter, failures>> /\ sent' = sent + 1
  BY <1>0, NoCallCode DEF SmsSent, Restart, Next1, CodeCalls, At, NoCall
<1> HIDE DEF r
<1>2. Cardinality(In(Counting)') = Cardinality(In(Counting)) + 1
  BY <1>1, InStep DEF Counting
<1>3. Cardinality(In(Passing)') = Cardinality(In(Passing)) - 1
  BY <1>1, InStep DEF Passing
<1>4. CounterExpires'
  BY <1>1 DEF LimiterSound, CounterExpires, At, CodesInv, CodesTypeOK, Next1
<1>5. QED
  BY <1>0, <1>1, <1>2, <1>3, <1>4, InFinite DEF LimiterSound

LEMMA CountingStep ==
  ASSUME CodesInv, LimiterSound, NEW c \in Clients, Incr(c)
  PROVE  LimiterSound'
<1>0. /\ sent \in Nat /\ failures \in Nat /\ counter.count \in Nat /\ MaxPerHour \in Nat \ {0}
      /\ call[c] \in CodeCalls /\ counter \in [count: Nat, expires: BOOLEAN]
  BY CodesAssumption DEF CodesInv, CodesTypeOK
<1> DEFINE r == [call[c] EXCEPT !.pc = IF FirstInWindow THEN "expire" ELSE "setCooldown"]
<1>1. /\ Next1(c, r) /\ call[c].pc = "incr" /\ UNCHANGED <<failures, sent>>
      /\ r.pc = IF counter.count = 0 THEN "expire" ELSE "setCooldown"
  BY <1>0 DEF Incr, Goto, Next1, CodeCalls, At, FirstInWindow
<1> HIDE DEF r
<1>2. counter'.count = counter.count + 1 /\ counter'.expires = counter.expires
  BY <1>0 DEF Incr
<1>3. Cardinality(In(Counting)') = Cardinality(In(Counting)) - 1
  BY <1>1, InStep DEF Counting
<1>4. In(Passing)' = In(Passing)
  BY <1>1, InStep DEF Passing
<1>5. CounterExpires'
  <2>1. CASE counter.count = 0
    BY <1>1, <2>1 DEF CounterExpires, At, CodesInv, CodesTypeOK, Next1
  <2>2. CASE counter.count > 0
    <3>1. \A d \in Clients : At(d, "expire") => At(d, "expire")'
      BY <1>1 DEF At, CodesInv, CodesTypeOK, Next1
    <3>2. QED
      BY <1>1, <1>2, <2>2, <3>1 DEF LimiterSound, CounterExpires
  <2>3. QED
    BY <1>0, <2>1, <2>2
<1>6. QED
  BY <1>0, <1>1, <1>2, <1>3, <1>4, <1>5, InFinite DEF LimiterSound

LEMMA FailingStep ==
  ASSUME CodesInv, LimiterSound, NEW c \in Clients, RedisFails(c)
  PROVE  LimiterSound'
<1>0. /\ sent \in Nat /\ failures \in Nat /\ counter.count \in Nat /\ MaxPerHour \in Nat \ {0}
  BY CodesAssumption DEF CodesInv, CodesTypeOK
<1>1. /\ Next1(c, NoCall) /\ NoCall.pc = "idle" /\ UNCHANGED <<counter, sent>>
      /\ failures' = failures + 1 /\ call[c].pc \notin Passing
  BY NoCallCode DEF RedisFails, Finish, Next1, Passing
<1>2. Cardinality(In(Counting)') >= Cardinality(In(Counting)) - 1
  BY <1>1, InStep, InFinite DEF Counting
<1>3. In(Passing)' = In(Passing)
  BY <1>1, InStep DEF Passing
<1>4. Cardinality(In(Counting)') \in Nat
  BY InFiniteNext
<1>5. CounterExpires'
  BY <1>0, <1>1 DEF CounterExpires
<1>6. QED
  BY <1>0, <1>1, <1>2, <1>3, <1>4, <1>5, InFinite DEF LimiterSound

\* The counter is gone: by its TTL, or because a verification deleted it.
LEMMA ClearingStep ==
  ASSUME CodesInv, LimiterSound,
         WindowEnds \/ \E c \in Clients : ResetAfterVerification(c)
  PROVE  LimiterSound'
<1>0. failures \in Nat /\ MaxPerHour \in Nat \ {0}
  BY CodesAssumption DEF CodesInv, CodesTypeOK
<1>1. counter' = Absent /\ sent' = 0 /\ failures' = failures
  BY DEF WindowEnds, ResetAfterVerification
<1>2. counter'.count = 0
  BY <1>1 DEF Absent
<1>3. CounterExpires'
  BY <1>2 DEF CounterExpires
<1>4. QED
  BY <1>0, <1>1, <1>2, <1>3, InFinite, InFiniteNext DEF LimiterSound

LEMMA ExpireStep ==
  ASSUME CodesInv, LimiterSound, NEW c \in Clients, Expire(c)
  PROVE  LimiterSound'
<1>0. /\ sent \in Nat /\ failures \in Nat /\ counter.count \in Nat /\ MaxPerHour \in Nat \ {0}
      /\ call[c] \in CodeCalls /\ counter \in [count: Nat, expires: BOOLEAN]
  BY CodesAssumption DEF CodesInv, CodesTypeOK
<1> DEFINE r == [call[c] EXCEPT !.pc = "setCooldown"]
<1>1. /\ Next1(c, r) /\ call[c].pc = "expire" /\ r.pc = "setCooldown"
      /\ UNCHANGED <<failures, sent>>
  BY <1>0 DEF Expire, Goto, Next1, CodeCalls, At
<1> HIDE DEF r
<1>2. counter'.count = counter.count /\ (counter'.count > 0 => counter'.expires)
  BY <1>0 DEF Expire
<1>3. In(Counting)' = In(Counting) /\ In(Passing)' = In(Passing)
  BY <1>1, InStep DEF Counting, Passing
<1>4. CounterExpires'
  BY <1>2 DEF CounterExpires
<1>5. QED
  BY <1>0, <1>1, <1>2, <1>3, <1>4, InFinite DEF LimiterSound

LEMMA LimiterStep ==
  ASSUME CodesInv, LimiterSound, [CodesNext]_codesVars
  PROVE  LimiterSound'
<1>0. \A c \in Clients : call[c] \in CodeCalls
  BY DEF CodesInv, CodesTypeOK
<1> DEFINE Quiet(c) ==
      /\ UNCHANGED <<counter, failures, sent>>
      /\ \E r : /\ Next1(c, r) /\ call[c].pc # "incr" /\ r.pc # "incr" /\ call[c].pc # "expire"
                /\ r.pc \in Passing => call[c].pc \in Passing
<1>1. ASSUME NEW c \in Clients, NEW pc \in {"limit", "create", "undo", "mark"}, Goto(c, pc),
             UNCHANGED <<counter, failures, sent>>, call[c].pc \notin {"incr", "expire"},
             pc \in {"sms", "undo", "mark"} => call[c].code \in CodeIds,
             pc \in Passing => call[c].pc \in Passing
      PROVE  Quiet(c)
  <2>1. Next1(c, [call[c] EXCEPT !.pc = pc]) /\ [call[c] EXCEPT !.pc = pc].pc = pc
    BY <1>0, <1>1 DEF Goto, Next1, CodeCalls
  <2>2. QED
    BY <1>1, <2>1
<1>2. ASSUME NEW c \in Clients, Finish(c),
             UNCHANGED <<counter, failures, sent>>, call[c].pc \notin {"incr", "expire"}
      PROVE  Quiet(c)
  <2>1. Next1(c, NoCall) /\ NoCall.pc = "idle"
    BY <1>2, NoCallCode DEF Finish, Next1
  <2>2. QED
    BY <1>2, <2>1 DEF Passing
<1>3. ASSUME NEW c \in Clients, NEW pc \in {"count", "reset"}, Restart(c, pc),
             UNCHANGED <<counter, failures, sent>>, call[c].pc \notin {"incr", "expire"}
      PROVE  Quiet(c)
  <2>1. Next1(c, [NoCall EXCEPT !.pc = pc]) /\ [NoCall EXCEPT !.pc = pc].pc = pc
    BY <1>3, NoCallCode DEF Restart, Next1, CodeCalls, NoCall
  <2>2. QED
    BY <1>3, <2>1 DEF Passing
<1> HIDE DEF Quiet
<1>4. ASSUME NEW c \in Clients, BeginSend(c) \/ InvalidateActive(c) \/ SmsRefused(c) PROVE Quiet(c)
  BY <1>1, <1>4 DEF BeginSend, InvalidateActive, SmsRefused, At, Passing, CodesInv, CallsSound
<1>5. ASSUME NEW c \in Clients, InvalidateByCode(c) \/ SetCooldown(c) \/ IncrementAttempts(c)
      PROVE  Quiet(c)
  BY <1>2, <1>5 DEF InvalidateByCode, SetCooldown, IncrementAttempts, At
<1>6. ASSUME NEW c \in Clients, CreateCode(c) PROVE Quiet(c)
  <2>1. PICK i \in CodeIds : call' = [call EXCEPT ![c] = [pc |-> "sms", code |-> i]]
    BY <1>6 DEF CreateCode
  <2>2. Next1(c, [pc |-> "sms", code |-> i])
    BY <2>1 DEF Next1, CodeCalls
  <2>3. QED
    BY <1>6, <2>2 DEF Quiet, CreateCode, At, Passing
<1>7. ASSUME NEW c \in Clients, FindActive(c) PROVE Quiet(c)
  <2>1. Found(call[c].code) => call[c].code \in CodeIds
    BY DEF Found
  <2>2. QED
    BY <1>1, <1>2, <1>3, <1>7, <2>1 DEF FindActive, At, Passing
<1>8. ASSUME NEW c \in Clients, MarkVerified(c) PROVE Quiet(c)
  BY <1>2, <1>3, <1>8 DEF MarkVerified, At
<1>9. ASSUME NEW c \in Clients, NEW guess \in CodeIds \cup {WrongGuess}, BeginVerify(c, guess)
      PROVE  Quiet(c)
  <2>1. Next1(c, [pc |-> "find", code |-> guess])
    BY <1>9 DEF BeginVerify, Next1, CodeCalls
  <2>2. QED
    BY <1>9, <2>1 DEF Quiet, BeginVerify, At, Passing
<1>10. ASSUME NEW c \in Clients, Quiet(c) PROVE LimiterSound'
  BY <1>10, QuietStep DEF Quiet
<1>11. CASE UNCHANGED <<counter, call, failures, sent>>
  BY <1>11 DEF LimiterSound, CounterExpires, In, At
<1>12. QED
  BY <1>4, <1>5, <1>6, <1>7, <1>8, <1>9, <1>10, <1>11, PassingStep, SendingStep, CountingStep,
     FailingStep, ClearingStep, ExpireStep
     DEF CodesNext, CallStep, CodeExpires, CooldownEnds, codesVars

\* The limiter lets through its budget, one message for each other call under
\* way and one for each failure of Redis; and the counter ends, unless Redis
\* failed between its two commands.
THEOREM LimitedSending == CodesSpec => []SendLimited
<1>1. CodesInv /\ LimiterSound /\ [CodesNext]_codesVars => LimiterSound'
  BY LimiterStep
<1>2. CodesInv /\ LimiterSound => SendLimited
  <2> SUFFICES ASSUME CodesInv, LimiterSound PROVE SendLimited
    OBVIOUS
  <2>1. /\ sent \in Nat /\ failures \in Nat /\ MaxPerHour \in Nat \ {0}
    BY CodesAssumption DEF CodesInv, CodesTypeOK
  <2>2. QED
    BY <2>1, InFinite DEF LimiterSound, SendLimited, SendBudget
<1>3. QED
  BY <1>1, <1>2, LimiterStart, CodesInvariant, PTL DEF CodesSpec
=============================================================================
