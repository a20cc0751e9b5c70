------------------------- MODULE AuthServiceProofs -------------------------
(***************************************************************************)
(* The safety properties of AuthService, for any number of clients, users  *)
(* and refresh tokens and any threshold: first what holds outright, then   *)
(* what the races between requests are bounded by.                         *)
(***************************************************************************)
EXTENDS AuthService, TLAPS, FiniteSetTheorems

USE DEF InsertUser, RecordFailedAttempt, LockAccount, ResetFailedAttempts,
        InsertSession, Unauthorized

-----------------------------------------------------------------------------
(* Types.  TypeOK is not inductive: a row or a claim gets the type of what *)
(* a request captured, so the requests' contents are part of the argument. *)

NamesUser == Statements \ {"refreshFind", "logoutRevoke"}

RequestOK(r) ==
    /\ r.pc \in NamesUser => r.email \in Emails
    /\ r.pc \in {"registerCreate", "loginReset", "issueTokens"} => r.role \in Roles
    /\ r.pc \in {"refreshRevoke", "refreshUser"} => r.token \in RefreshTokens
    /\ r.pc \in {"loginFind", "loginRecord", "loginLock", "loginReset"} => r.token = Nil

TypeInv ==
    /\ TypeOK
    /\ \A c \in Clients : RequestOK(req[c])
    /\ \A t \in RefreshTokens :
          sessions[t].state # "absent" => sessions[t].user \in Emails

LEMMA TypeInit == Init => TypeInv
  <1> USE AuthAssumption
  <1> QED
    BY DEF Init, TypeInv, TypeOK, UserRow, SessionRow, Request, NoUser, NoSession,
           NoRequest, RequestOK, NamesUser, Statements, Statuses

\* The requests, without the tables.
ReqInv ==
    /\ req \in [Clients -> Request]
    /\ \A c \in Clients : RequestOK(req[c])

LEMMA BecomesOK ==
  ASSUME ReqInv, NEW c \in Clients, NEW r \in Request, RequestOK(r), Becomes(c, r)
  PROVE  ReqInv'
  BY DEF ReqInv, Becomes

LEMMA AnswerOK ==
  ASSUME ReqInv, NEW c \in Clients, NEW code \in Statuses, Answer(c, code)
  PROVE  ReqInv'
  <1> DEFINE r == [NoRequest EXCEPT !.status = code]
  <1>1. r \in Request /\ RequestOK(r)
    BY DEF Request, NoRequest, RequestOK, NamesUser, Statements
  <1>2. Becomes(c, r)
    BY DEF Answer
  <1> QED
    BY <1>1, <1>2, BecomesOK

LEMMA ContinueOK ==
  ASSUME ReqInv, NEW c \in Clients, NEW s \in Statements, Continue(c, s),
         RequestOK([req[c] EXCEPT !.pc = s])
  PROVE  ReqInv'
  <1> DEFINE r == [req[c] EXCEPT !.pc = s]
  <1>1. r \in Request /\ RequestOK(r)
    BY DEF Request, ReqInv
  <1>2. Becomes(c, r)
    BY DEF Continue
  <1> QED
    BY <1>1, <1>2, BecomesOK


LEMMA AskOK ==
  ASSUME ReqInv, NEW c \in Clients, NEW s \in {"registerFind", "loginFind", "meFind"},
         NEW e \in Emails, NEW pw \in Passwords \cup {Nil}, Ask(c, s, e, pw)
  PROVE  ReqInv'
  <1> DEFINE r == [NoRequest EXCEPT !.pc = s, !.email = e, !.password = pw]
  <1>0. NoRequest \in Request
    BY DEF Request, NoRequest, Statuses
  <1>a. s \in Statements
    BY DEF Statements
  <1>1. r \in Request
    BY <1>0, <1>a DEF Request
  <1>2. RequestOK(r)
    BY DEF RequestOK, NoRequest, NamesUser, Statements
  <1>3. Becomes(c, r)
    BY DEF Ask
  <1>4. QED
    BY <1>1, <1>2, <1>3, BecomesOK

LEMMA PresentOK ==
  ASSUME ReqInv, NEW c \in Clients, NEW s \in {"refreshFind", "logoutRevoke"},
         NEW t \in RefreshTokens \cup {Nil}, Present(c, s, t)
  PROVE  ReqInv'
  <1> DEFINE r == [NoRequest EXCEPT !.pc = s, !.token = t]
  <1>0. NoRequest \in Request
    BY DEF Request, NoRequest, Statuses
  <1>a. s \in Statements
    BY DEF Statements
  <1>1. r \in Request
    BY <1>0, <1>a DEF Request
  <1>2. RequestOK(r)
    BY DEF RequestOK, NoRequest, NamesUser, Statements
  <1>3. Becomes(c, r)
    BY DEF Present
  <1>4. QED
    BY <1>1, <1>2, <1>3, BecomesOK

LEMMA ContinueAsOK ==
  ASSUME ReqInv, NEW c \in Clients, NEW s \in Statements, NEW role \in Roles,
         ContinueAs(c, s, role),
         RequestOK([req[c] EXCEPT !.pc = s, !.role = role])
  PROVE  ReqInv'
  <1> DEFINE r == [req[c] EXCEPT !.pc = s, !.role = role]
  <1>1. r \in Request
    BY DEF ReqInv, Request
  <1>2. Becomes(c, r)
    BY DEF ContinueAs
  <1>3. QED
    BY <1>1, <1>2, BecomesOK

LEMMA ContinueForOK ==
  ASSUME ReqInv, NEW c \in Clients, NEW s \in Statements, NEW e \in Emails,
         ContinueFor(c, s, e),
         RequestOK([req[c] EXCEPT !.pc = s, !.email = e])
  PROVE  ReqInv'
  <1> DEFINE r == [req[c] EXCEPT !.pc = s, !.email = e]
  <1>1. r \in Request
    BY DEF ReqInv, Request
  <1>2. Becomes(c, r)
    BY DEF ContinueFor
  <1>3. QED
    BY <1>1, <1>2, BecomesOK

LEMMA RowRole ==
  ASSUME TypeOK, NEW e \in Emails, Exists(e)
  PROVE  users[e].role \in Roles
  BY DEF TypeOK, UserRow, Exists

LEMMA RequestsStep ==
  ASSUME TypeInv, NEW c \in Clients, Arrive(c) \/ Step(c)
  PROVE  ReqInv'
  <1>0. ReqInv /\ TypeOK /\ RequestOK(req[c]) /\ req[c] \in Request
    BY DEF TypeInv, ReqInv, TypeOK
  <1>1. CASE RegisterUser(c)
    BY <1>0, <1>1, AnswerOK, AskOK, AuthAssumption
    DEF RegisterUser, Statuses
  <1>2. CASE Login(c)
    BY <1>0, <1>2, AnswerOK, AskOK, AuthAssumption
    DEF Login, Statuses
  <1>3. CASE Refresh(c)
    BY <1>0, <1>3, AnswerOK, PresentOK
    DEF Refresh, TypeOK, Statuses
  <1>4. CASE Logout(c)
    BY <1>0, <1>4, AnswerOK, PresentOK
    DEF Logout, TypeOK, Statuses
  <1>5. CASE Me(c)
    BY <1>0, <1>5, AnswerOK, AskOK
    DEF Me, TypeOK, Claims, Statuses
  <1>6. CASE RegisterFind(c)
    BY <1>0, <1>6, AnswerOK, ContinueOK
    DEF RegisterFind, Waits, RequestOK, NamesUser, Request, Statements, Statuses
  <1>7. CASE RegisterCount(c)
    BY <1>0, <1>7, AnswerOK, ContinueAsOK
    DEF RegisterCount, Waits, RequestOK, NamesUser, Request, Statements, Statuses, FirstRole, Roles
  <1>8. CASE RegisterCreate(c)
    BY <1>0, <1>8, AnswerOK
    DEF RegisterCreate, Waits, RequestOK, NamesUser, Request, Statements, Statuses
  <1>9. CASE LoginFind(c)
    BY <1>0, <1>9, AnswerOK, ContinueOK, ContinueAsOK, RowRole
    DEF LoginFind, Waits, RequestOK, NamesUser, Request, Statements, Statuses
  <1>10. CASE LoginRecord(c)
    BY <1>0, <1>10, AnswerOK, ContinueOK
    DEF LoginRecord, Waits, RequestOK, NamesUser, Request, Statements, Statuses
  <1>11. CASE LoginLock(c)
    BY <1>0, <1>11, AnswerOK
    DEF LoginLock, Waits, RequestOK, NamesUser, Request, Statements, Statuses
  <1>12. CASE LoginReset(c)
    BY <1>0, <1>12, AnswerOK, ContinueOK
    DEF LoginReset, Waits, RequestOK, NamesUser, Request, Statements, Statuses
  <1>13. CASE IssueTokens(c)
    BY <1>0, <1>13, AnswerOK
    DEF IssueTokens, Waits, RequestOK, NamesUser, Request, Statements, Statuses
  <1>14. CASE RefreshFind(c)
    BY <1>0, <1>14, AnswerOK, ContinueForOK
    DEF RefreshFind, Waits, RequestOK, NamesUser, Request, Statements, Statuses, IsValid, TypeInv
  <1>15. CASE RefreshRevoke(c)
    BY <1>0, <1>15, AnswerOK, ContinueOK
    DEF RefreshRevoke, Waits, RequestOK, NamesUser, Request, Statements, Statuses
  <1>16. CASE RefreshUser(c)
    BY <1>0, <1>16, AnswerOK, ContinueAsOK, RowRole
    DEF RefreshUser, Waits, RequestOK, NamesUser, Request, Statements, Statuses
  <1>17. CASE LogoutRevoke(c)
    BY <1>0, <1>17, AnswerOK
    DEF LogoutRevoke, Waits, RequestOK, NamesUser, Request, Statements, Statuses
  <1>18. CASE MeFind(c)
    BY <1>0, <1>18, AnswerOK
    DEF MeFind, Waits, RequestOK, NamesUser, Request, Statements, Statuses
  <1> QED
    BY <1>1, <1>2, <1>3, <1>4, <1>5, <1>6, <1>7, <1>8, <1>9, <1>10, <1>11, <1>12, <1>13, <1>14, <1>15, <1>16, <1>17, <1>18 DEF Arrive, Step

\* The steps of a client that only read the tables.
ReadOnly(c) ==
    \/ Arrive(c) \/ RegisterFind(c) \/ RegisterCount(c) \/ LoginFind(c)
    \/ RefreshFind(c) \/ RefreshUser(c) \/ MeFind(c)

LEMMA ReadOnlySteps ==
  ASSUME NEW c \in Clients, ReadOnly(c)
  PROVE  UNCHANGED Tables
  BY DEF ReadOnly, Arrive, RegisterUser, Login, Refresh, Logout, Me, RegisterFind,
         RegisterCount, LoginFind, RefreshFind, RefreshUser, MeFind

LEMMA RevokeSessions ==
  ASSUME sessions \in [RefreshTokens -> SessionRow],
         NEW t \in RefreshTokens \cup {Nil}, Revoke(t) \/ UNCHANGED sessions
  PROVE  /\ sessions' \in [RefreshTokens -> SessionRow]
         /\ \A u \in RefreshTokens :
               /\ sessions'[u].user = sessions[u].user
               /\ sessions'[u].state # sessions[u].state =>
                     u = t /\ sessions[u].state = "active"
               /\ sessions'[u].state \in {sessions[u].state, "revoked"}
         /\ Revoke(t) /\ t \in RefreshTokens /\ sessions[t].state # "absent" =>
               sessions'[t].state = "revoked"
  BY DEF Revoke, SessionRow

\* The tables, and the history, without the requests.
TablesInv ==
    /\ users \in [Emails -> UserRow]
    /\ sessions \in [RefreshTokens -> SessionRow]
    /\ \A t \in RefreshTokens :
          sessions[t].state # "absent" => sessions[t].user \in Emails
    /\ held \subseteq RefreshTokens
    /\ access \subseteq Claims
    /\ parent \in [RefreshTokens -> RefreshTokens \cup {Nil}]
    /\ streak \in [Emails -> Nat]

LEMMA TablesStep == TypeInv /\ [Next]_vars => TablesInv'
  <1> SUFFICES ASSUME TypeInv, [Next]_vars PROVE TablesInv'
    OBVIOUS
  <1>0. TablesInv /\ TypeOK
    BY DEF TypeInv, TypeOK, TablesInv
  <1>a. \A c \in Clients : RequestOK(req[c]) /\ req[c] \in Request
    BY DEF TypeInv, TypeOK
  <1>b. MAX_FAILED_ATTEMPTS \in Nat /\ 0 \in 0..MAX_FAILED_ATTEMPTS
    BY AuthAssumption
  <1>1. ASSUME NEW c \in Clients, ReadOnly(c) PROVE TablesInv'
    BY <1>0, <1>1, ReadOnlySteps DEF Tables, TablesInv
  <1>2. ASSUME NEW c \in Clients, RegisterCreate(c) PROVE TablesInv'
    <2>1. req[c].role \in Roles /\ req[c].password \in Passwords \cup {Nil}
      BY <1>a, <1>2 DEF RegisterCreate, Waits, RequestOK, Request
    <2> DEFINE row == [NoUser EXCEPT !.role = req[c].role, !.password = req[c].password]
    <2>2. row \in UserRow
      BY <1>b, <2>1 DEF UserRow, NoUser
    <2>3. users' = users \/ users' = [users EXCEPT ![req[c].email] = row]
      BY <1>2 DEF RegisterCreate
    <2>4. users' \in [Emails -> UserRow]
      BY <1>0, <2>2, <2>3 DEF TablesInv
    <2>5. QED
      BY <1>0, <1>2, <2>4 DEF RegisterCreate, TablesInv, Tokens
  <1>3. ASSUME NEW c \in Clients, LoginRecord(c) PROVE TablesInv'
    <2>1. req[c].email \in Emails
      BY <1>a, <1>3 DEF LoginRecord, Waits, RequestOK, NamesUser, Statements
    <2>2. users[req[c].email] \in UserRow
      BY <1>0, <2>1 DEF TablesInv
    <2>3. NextFailed(req[c].email) \in 0..MAX_FAILED_ATTEMPTS
      BY <1>b, <2>2 DEF NextFailed, UserRow
    <2> DEFINE row == [users[req[c].email] EXCEPT !.failed = NextFailed(req[c].email)]
    <2>4. row \in UserRow
      BY <2>2, <2>3 DEF UserRow
    <2>5. users' = users \/ users' = [users EXCEPT ![req[c].email] = row]
      BY <1>3 DEF LoginRecord
    <2>6. users' \in [Emails -> UserRow]
      BY <1>0, <2>4, <2>5 DEF TablesInv
    <2>7. streak' \in [Emails -> Nat]
      BY <1>0, <1>3, <2>1 DEF LoginRecord, TablesInv
    <2>8. QED
      BY <1>0, <1>3, <2>6, <2>7 DEF LoginRecord, TablesInv, Tokens
  <1>4. ASSUME NEW c \in Clients, LoginLock(c) PROVE TablesInv'
    <2>1. req[c].email \in Emails
      BY <1>a, <1>4 DEF LoginLock, Waits, RequestOK, NamesUser, Statements
    <2> DEFINE row == [users[req[c].email] EXCEPT !.lockedUntil = "future"]
    <2>2. row \in UserRow
      BY <1>0, <2>1 DEF TablesInv, UserRow
    <2>3. users' = users \/ users' = [users EXCEPT ![req[c].email] = row]
      BY <1>4 DEF LoginLock
    <2>4. users' \in [Emails -> UserRow]
      BY <1>0, <2>2, <2>3 DEF TablesInv
    <2>5. streak' \in [Emails -> Nat]
      BY <1>0, <1>4, <2>1 DEF LoginLock, TablesInv
    <2>6. QED
      BY <1>0, <1>4, <2>4, <2>5 DEF LoginLock, TablesInv, Tokens
  <1>5. ASSUME NEW c \in Clients, LoginReset(c) PROVE TablesInv'
    <2>1. req[c].email \in Emails
      BY <1>a, <1>5 DEF LoginReset, Waits, RequestOK, NamesUser, Statements
    <2> DEFINE row == [users[req[c].email] EXCEPT !.failed = 0, !.lockedUntil = "null"]
    <2>2. row \in UserRow
      <3>1. users[req[c].email] \in UserRow
        BY <1>0, <2>1 DEF TablesInv
      <3>2. QED
        BY <1>b, <3>1 DEF UserRow
    <2>3. users' = users \/ users' = [users EXCEPT ![req[c].email] = row]
      BY <1>5 DEF LoginReset
    <2>4. users' \in [Emails -> UserRow]
      BY <1>0, <2>2, <2>3 DEF TablesInv
    <2>5. QED
      BY <1>0, <1>5, <2>4 DEF LoginReset, TablesInv, Tokens
  <1>6. ASSUME NEW c \in Clients, IssueTokens(c) PROVE TablesInv'
    <2>1. /\ req[c].email \in Emails
          /\ req[c].role \in Roles
          /\ req[c].token \in RefreshTokens \cup {Nil}
      BY <1>a, <1>6 DEF IssueTokens, Waits, RequestOK, Request, NamesUser, Statements
    <2> DEFINE row == [user |-> req[c].email, state |-> "active", expired |-> FALSE]
    <2>a. row \in SessionRow /\ row.user \in Emails
      BY <2>1 DEF SessionRow
    <2>b. \/ sessions' = sessions
          \/ \E t \in RefreshTokens : sessions' = [sessions EXCEPT ![t] = row]
      BY <1>6 DEF IssueTokens, Tokens
    <2>2. /\ sessions' \in [RefreshTokens -> SessionRow]
          /\ \A t \in RefreshTokens :
                sessions'[t].state # "absent" => sessions'[t].user \in Emails
      BY <1>0, <2>a, <2>b DEF TablesInv
    <2>3. held' \subseteq RefreshTokens /\ access' \subseteq Claims
      BY <1>0, <1>6, <2>1 DEF IssueTokens, TablesInv, Claims, Tokens
    <2>4. parent' \in [RefreshTokens -> RefreshTokens \cup {Nil}]
      BY <1>0, <1>6, <2>1 DEF IssueTokens, TablesInv, Tokens
    <2>5. QED
      BY <1>0, <1>6, <2>2, <2>3, <2>4 DEF IssueTokens, TablesInv
  <1>7. ASSUME NEW c \in Clients, RefreshRevoke(c) \/ LogoutRevoke(c) PROVE TablesInv'
    <2>1. req[c].token \in RefreshTokens \cup {Nil}
      BY <1>a DEF Request
    <2>2. Revoke(req[c].token) \/ UNCHANGED sessions
      BY <1>7 DEF RefreshRevoke, LogoutRevoke
    <2>3. UNCHANGED <<users, held, access, parent, streak>>
      BY <1>7 DEF RefreshRevoke, LogoutRevoke
    <2>4. /\ sessions' \in [RefreshTokens -> SessionRow]
          /\ \A u \in RefreshTokens :
                sessions'[u].state # "absent" => sessions'[u].user \in Emails
      BY <1>0, <2>1, <2>2, RevokeSessions DEF TablesInv
    <2>5. QED
      BY <1>0, <2>3, <2>4 DEF TablesInv
  <1>8. ASSUME NEW e \in Emails, LockExpires(e) PROVE TablesInv'
    BY <1>0, <1>8 DEF LockExpires, TablesInv, Tokens, UserRow
  <1>9. ASSUME NEW t \in RefreshTokens, SessionExpires(t) PROVE TablesInv'
    BY <1>0, <1>9 DEF SessionExpires, TablesInv, SessionRow
  <1>10. ASSUME NEW claim \in access, AccessExpires(claim) PROVE TablesInv'
    BY <1>0, <1>10 DEF AccessExpires, TablesInv
  <1>11. ASSUME Crash PROVE TablesInv'
    BY <1>0, <1>11 DEF Crash, TablesInv, Tokens
  <1>12. CASE UNCHANGED vars
    BY <1>0, <1>12 DEF vars, TablesInv
  <1>13. QED
    BY <1>1, <1>2, <1>3, <1>4, <1>5, <1>6, <1>7, <1>8, <1>9, <1>10, <1>11, <1>12
       DEF Next, Step, Clock, ReadOnly

LEMMA TypeStep == TypeInv /\ [Next]_vars => TypeInv'
  <1> SUFFICES ASSUME TypeInv, [Next]_vars PROVE TypeInv'
    OBVIOUS
  <1>1. TablesInv'
    BY TablesStep
  <1>2. ReqInv'
    <2>1. ReqInv
      BY DEF TypeInv, TypeOK, ReqInv
    <2>2. ASSUME NEW c \in Clients, Arrive(c) \/ Step(c) PROVE ReqInv'
      BY <2>2, RequestsStep
    <2>3. ASSUME UNCHANGED req PROVE ReqInv'
      BY <2>1, <2>3 DEF ReqInv
    <2>4. CASE Crash
      <3>1. NoRequest \in Request /\ RequestOK(NoRequest)
        BY DEF NoRequest, Request, Statuses, RequestOK, NamesUser, Statements
      <3>2. QED
        BY <2>4, <3>1 DEF Crash, ReqInv
    <2>5. CASE Clock
      BY <2>3, <2>5 DEF Clock, LockExpires, SessionExpires, AccessExpires
    <2>6. QED
      BY <2>2, <2>3, <2>4, <2>5 DEF Next, vars
  <1>3. QED
    BY <1>1, <1>2 DEF TypeInv, TypeOK, TablesInv, ReqInv

\* Every row, request, claim and counter always has its type.
THEOREM TypeCorrect == Spec => []TypeOK
  <1>1. TypeInv => TypeOK
    BY DEF TypeInv
  <1>2. QED
    BY TypeInit, TypeStep, <1>1, PTL DEF Spec

-----------------------------------------------------------------------------
(* What a request remembers.  A chain acts on what an earlier statement     *)
(* returned; the properties hold because nothing another request does can   *)
(* make these captured facts false.                                         *)

Captured(r) ==
    /\ r.pc = "registerCreate" /\ Registered = {} => r.role = "admin"
    /\ r.pc \in {"loginRecord", "loginLock", "loginReset"} => Exists(r.email)
    /\ r.pc \in {"loginReset", "issueTokens"} => users[r.email].role = r.role
    /\ r.pc \in {"refreshRevoke", "refreshUser", "issueTokens"} /\ r.token # Nil =>
          /\ sessions[r.token].state # "absent"
          /\ sessions[r.token].user = r.email
    /\ r.pc \in {"refreshUser", "issueTokens"} /\ r.token # Nil =>
          sessions[r.token].state = "revoked"

Lineage ==
    \A u \in RefreshTokens :
        parent[u] # Nil =>
            /\ sessions[u].state # "absent"
            /\ sessions[parent[u]].state = "revoked"
            /\ sessions[u].user = sessions[parent[u]].user

CaptureInv ==
    /\ TypeInv
    /\ \A c \in Clients : Captured(req[c])
    /\ Lineage
    /\ UsableOutOfTheBox
    /\ ClaimsMatchUsers

\* No row disappears, changes its owner or its role, or is un-revoked.
RowsStay ==
    /\ \A e \in Emails : Exists(e) => users'[e].role = users[e].role
    /\ \A t \in RefreshTokens : sessions[t].state # "absent" =>
          /\ sessions'[t].state # "absent"
          /\ sessions'[t].user = sessions[t].user
          /\ sessions[t].state = "revoked" => sessions'[t].state = "revoked"

LEMMA RowsStayStep == TypeInv /\ [Next]_vars => RowsStay
  <1> SUFFICES ASSUME TypeInv, [Next]_vars PROVE RowsStay
    OBVIOUS
  <1>0. /\ users \in [Emails -> UserRow]
        /\ sessions \in [RefreshTokens -> SessionRow]
    BY DEF TypeInv, TypeOK
  <1>1. ASSUME UNCHANGED users PROVE \A e \in Emails : users'[e].role = users[e].role
    BY <1>1
  <1>2. ASSUME NEW t \in RefreshTokens \cup {Nil}, UNCHANGED users,
               Revoke(t) \/ UNCHANGED sessions
        PROVE  RowsStay
    <2>1. \A u \in RefreshTokens :
             /\ sessions'[u].user = sessions[u].user
             /\ sessions'[u].state \in {sessions[u].state, "revoked"}
      BY <1>0, <1>2, RevokeSessions
    <2>2. QED
      BY <1>1, <1>2, <2>1 DEF RowsStay
  <1>3. ASSUME UNCHANGED <<users, sessions>> PROVE RowsStay
    BY <1>3 DEF RowsStay
  <1>4. ASSUME NEW c \in Clients, ReadOnly(c) PROVE RowsStay
    BY <1>3, <1>4, ReadOnlySteps DEF Tables
  <1>5. ASSUME NEW c \in Clients, RegisterCreate(c) PROVE RowsStay
    BY <1>0, <1>5 DEF RegisterCreate, RowsStay, Exists, Tokens
  <1>6. ASSUME NEW c \in Clients, LoginRecord(c) \/ LoginLock(c) \/ LoginReset(c)
        PROVE  RowsStay
    <2>1. \A e \in Emails : users'[e].role = users[e].role
      BY <1>0, <1>6 DEF LoginRecord, LoginLock, LoginReset, UserRow
    <2>2. QED
      BY <1>6, <2>1 DEF LoginRecord, LoginLock, LoginReset, RowsStay, Tokens
  <1>7. ASSUME NEW c \in Clients, IssueTokens(c) PROVE RowsStay
    BY <1>0, <1>7 DEF IssueTokens, RowsStay, Tokens
  <1>8. ASSUME NEW c \in Clients, RefreshRevoke(c) \/ LogoutRevoke(c) PROVE RowsStay
    <2>1. req[c].token \in RefreshTokens \cup {Nil}
      BY DEF TypeInv, TypeOK, Request
    <2>2. QED
      BY <1>2, <1>8, <2>1 DEF RefreshRevoke, LogoutRevoke
  <1>9. ASSUME NEW e \in Emails, LockExpires(e) PROVE RowsStay
    BY <1>0, <1>9 DEF LockExpires, RowsStay, Tokens, UserRow
  <1>10. ASSUME NEW t \in RefreshTokens, SessionExpires(t) PROVE RowsStay
    BY <1>0, <1>10 DEF SessionExpires, RowsStay, SessionRow
  <1>11. ASSUME NEW claim \in access, AccessExpires(claim) PROVE RowsStay
    BY <1>3, <1>11 DEF AccessExpires
  <1>12. ASSUME Crash PROVE RowsStay
    BY <1>3, <1>12 DEF Crash, Tokens
  <1>13. CASE UNCHANGED vars
    BY <1>3, <1>13 DEF vars
  <1>14. QED
    BY <1>4, <1>5, <1>6, <1>7, <1>8, <1>9, <1>10, <1>11, <1>12, <1>13
       DEF Next, Step, Clock, ReadOnly

\* A captured fact survives every step of anybody else.
LEMMA CapturedStays ==
  ASSUME TypeInv, RowsStay, NEW r \in Request, RequestOK(r), Captured(r)
  PROVE  Captured(r)'
  <1>1. r.token # Nil => r.token \in RefreshTokens
    BY DEF Request
  <1>2. r.pc \in {"loginRecord", "loginLock", "loginReset", "issueTokens"}
           => r.email \in Emails
    BY DEF RequestOK, NamesUser, Statements
  <1>3. Registered' = {} => Registered = {}
    BY DEF RowsStay, Registered, Exists
  <1>4. r.pc \in {"loginReset", "issueTokens"} => r.role \in Roles
    BY DEF RequestOK
  <1>5. r.pc \in {"loginReset", "issueTokens"} => Exists(r.email)
    BY <1>4 DEF Captured, Exists, Roles
  <1>6. \A e \in Emails : Exists(e) => Exists(e)' /\ users'[e].role = users[e].role
    BY DEF RowsStay, Exists
  <1>7. QED
    BY <1>1, <1>2, <1>3, <1>5, <1>6 DEF Captured, RowsStay

\* What a request is after each way of changing it.
LEMMA NextRequest ==
  ASSUME req \in [Clients -> Request], NEW c \in Clients
  PROVE  /\ \A code : Answer(c, code) => req'[c].pc = "idle"
         /\ \A s, e, pw : Ask(c, s, e, pw) => req'[c].pc = s
         /\ \A s, t : Present(c, s, t) => req'[c].pc = s
         /\ \A s : Continue(c, s) =>
               /\ req'[c].pc = s
               /\ req'[c].email = req[c].email
               /\ req'[c].role = req[c].role
               /\ req'[c].token = req[c].token
         /\ \A s, role : ContinueAs(c, s, role) =>
               /\ req'[c].pc = s
               /\ req'[c].email = req[c].email
               /\ req'[c].role = role
               /\ req'[c].token = req[c].token
         /\ \A s, e : ContinueFor(c, s, e) =>
               /\ req'[c].pc = s
               /\ req'[c].email = e
               /\ req'[c].role = req[c].role
               /\ req'[c].token = req[c].token
  <1>1. \A r : Becomes(c, r) => req'[c] = r
    BY DEF Becomes
  <1>2. \A code : Answer(c, code) => req'[c].pc = "idle"
    BY <1>1 DEF Answer, NoRequest
  <1>3. \A s, e, pw : Ask(c, s, e, pw) => req'[c].pc = s
    BY <1>1 DEF Ask, NoRequest
  <1>4. \A s, t : Present(c, s, t) => req'[c].pc = s
    BY <1>1 DEF Present, NoRequest
  <1>5. \A s : Continue(c, s) =>
           /\ req'[c].pc = s
           /\ req'[c].email = req[c].email
           /\ req'[c].role = req[c].role
           /\ req'[c].token = req[c].token
    BY <1>1 DEF Continue, Request
  <1>6. \A s, role : ContinueAs(c, s, role) =>
           /\ req'[c].pc = s
           /\ req'[c].email = req[c].email
           /\ req'[c].role = role
           /\ req'[c].token = req[c].token
    BY <1>1 DEF ContinueAs, Request
  <1>7. \A s, e : ContinueFor(c, s, e) =>
           /\ req'[c].pc = s
           /\ req'[c].email = e
           /\ req'[c].role = req[c].role
           /\ req'[c].token = req[c].token
    BY <1>1 DEF ContinueFor, Request
  <1>8. QED
    BY <1>2, <1>3, <1>4, <1>5, <1>6, <1>7

LEMMA OwnStep ==
  ASSUME CaptureInv, NEW c \in Clients, Arrive(c) \/ Step(c), RowsStay
  PROVE  Captured(req[c])'
  <1>0. /\ req \in [Clients -> Request]
        /\ Captured(req[c]) /\ RequestOK(req[c]) /\ req[c] \in Request
    BY DEF CaptureInv, TypeInv, TypeOK
  <1>a. ASSUME req'[c].pc \in {"idle", "registerFind", "registerCount", "loginFind",
                               "refreshFind", "logoutRevoke", "meFind"}
        PROVE  Captured(req[c])'
    BY <1>a DEF Captured
  <1>1. ASSUME Arrive(c) PROVE Captured(req[c])'
    BY <1>0, <1>1, <1>a, NextRequest
       DEF Arrive, RegisterUser, Login, Refresh, Logout, Me
  <1>2. CASE RegisterFind(c)
    BY <1>0, <1>2, <1>a, NextRequest DEF RegisterFind
  <1>3. CASE RegisterCount(c)
    <2>1. CASE ContinueAs(c, "registerCreate", FirstRole)
      <3>1. UNCHANGED users
        BY <1>3 DEF RegisterCount, Tables
      <3>2. Registered' = {} => Registered = {}
        BY <3>1 DEF Registered, Exists
      <3>3. QED
        BY <1>0, <2>1, <3>2, NextRequest DEF Captured, FirstRole
    <2>2. QED
      BY <1>0, <1>3, <1>a, <2>1, NextRequest DEF RegisterCount
  <1>4. CASE RegisterCreate(c)
    BY <1>0, <1>4, <1>a, NextRequest DEF RegisterCreate
  <1>5. CASE LoginFind(c)
    <2>1. UNCHANGED users
      BY <1>5 DEF LoginFind, Tables
    <2>2. CASE Exists(req[c].email) /\ Continue(c, "loginRecord")
      BY <1>0, <2>1, <2>2, NextRequest DEF Captured, Exists
    <2>3. CASE Exists(req[c].email) /\ ContinueAs(c, "loginReset", users[req[c].email].role)
      BY <1>0, <2>1, <2>3, NextRequest DEF Captured, Exists
    <2>4. QED
      BY <1>0, <1>5, <1>a, <2>2, <2>3, NextRequest DEF LoginFind
  <1>6. CASE LoginRecord(c)
    <2>1. CASE Continue(c, "loginLock")
      <3>1. Waits(c, "loginRecord") /\ req[c].email \in Emails
        BY <1>0, <1>6 DEF LoginRecord, Waits, RequestOK, NamesUser, Statements
      <3>2. users'[req[c].email].role # "none"
        BY <1>0, <3>1 DEF Captured, Waits, RowsStay, Exists
      <3>3. QED
        BY <1>0, <2>1, <3>2, NextRequest DEF Captured, Exists
    <2>2. QED
      BY <1>0, <1>6, <1>a, <2>1, NextRequest DEF LoginRecord
  <1>7. CASE LoginLock(c)
    BY <1>0, <1>7, <1>a, NextRequest DEF LoginLock
  <1>8. CASE LoginReset(c)
    <2>1. CASE Continue(c, "issueTokens")
      <3>1. /\ Waits(c, "loginReset")
            /\ req[c].email \in Emails
            /\ req[c].token = Nil
        BY <1>0, <1>8 DEF LoginReset, Waits, RequestOK, NamesUser, Statements
      <3>2. users'[req[c].email].role = req[c].role
        BY <1>0, <3>1 DEF Captured, Waits, RowsStay, Exists
      <3>3. QED
        BY <1>0, <2>1, <3>1, <3>2, NextRequest DEF Captured
    <2>2. QED
      BY <1>0, <1>8, <1>a, <2>1, NextRequest DEF LoginReset
  <1>9. CASE IssueTokens(c)
    BY <1>0, <1>9, <1>a, NextRequest DEF IssueTokens
  <1>10. CASE RefreshFind(c)
    <2>1. UNCHANGED sessions
      BY <1>10 DEF RefreshFind, Tables
    <2>2. CASE /\ IsValid(req[c].token)
               /\ ContinueFor(c, "refreshRevoke", sessions[req[c].token].user)
      BY <1>0, <2>1, <2>2, NextRequest DEF Captured, IsValid
    <2>3. QED
      BY <1>0, <1>10, <1>a, <2>2, NextRequest DEF RefreshFind
  <1>11. CASE RefreshRevoke(c)
    <2>1. CASE Revoke(req[c].token) /\ Continue(c, "refreshUser")
      <3>1. Waits(c, "refreshRevoke") /\ req[c].token \in RefreshTokens
        BY <1>0, <1>11 DEF RefreshRevoke, Waits, RequestOK
      <3>2. req[c].token # Nil
        BY <3>1, AuthAssumption
      <3>3. /\ sessions[req[c].token].state # "absent"
            /\ sessions[req[c].token].user = req[c].email
        BY <1>0, <3>1, <3>2 DEF Captured, Waits
      <3>4. /\ sessions'[req[c].token].state = "revoked"
            /\ sessions'[req[c].token].user = req[c].email
        BY <2>1, <3>1, <3>3, RevokeSessions DEF CaptureInv, TypeInv, TypeOK
      <3>5. QED
        BY <1>0, <2>1, <3>4, NextRequest DEF Captured
    <2>2. QED
      BY <1>0, <1>11, <1>a, <2>1, NextRequest DEF RefreshRevoke
  <1>12. CASE RefreshUser(c)
    <2>1. UNCHANGED <<users, sessions>> /\ Waits(c, "refreshUser")
      BY <1>12 DEF RefreshUser, Tables
    <2>2. CASE ContinueAs(c, "issueTokens", users[req[c].email].role)
      BY <1>0, <2>1, <2>2, NextRequest DEF Captured, Waits
    <2>3. QED
      BY <1>0, <1>12, <1>a, <2>2, NextRequest DEF RefreshUser
  <1>13. CASE LogoutRevoke(c)
    BY <1>0, <1>13, <1>a, NextRequest DEF LogoutRevoke
  <1>14. CASE MeFind(c)
    BY <1>0, <1>14, <1>a, NextRequest DEF MeFind
  <1>15. QED
    BY <1>1, <1>2, <1>3, <1>4, <1>5, <1>6, <1>7, <1>8, <1>9, <1>10, <1>11, <1>12,
       <1>13, <1>14 DEF Step

\* Only registerCreate adds a user.
LEMMA RolesStay ==
  ASSUME TypeInv, [Next]_vars, \A c \in Clients : ~RegisterCreate(c)
  PROVE  \A e \in Emails : users'[e].role = users[e].role
  <1>0. users \in [Emails -> UserRow]
    BY DEF TypeInv, TypeOK
  <1>1. ASSUME NEW c \in Clients, LoginRecord(c) \/ LoginLock(c) \/ LoginReset(c)
        PROVE  \A e \in Emails : users'[e].role = users[e].role
    BY <1>0, <1>1 DEF LoginRecord, LoginLock, LoginReset, UserRow
  <1>2. ASSUME NEW e \in Emails, LockExpires(e)
        PROVE  \A f \in Emails : users'[f].role = users[f].role
    BY <1>0, <1>2 DEF LockExpires, UserRow
  <1>3. ASSUME NEW c \in Clients, ReadOnly(c) PROVE UNCHANGED users
    BY <1>3, ReadOnlySteps DEF Tables
  <1>4. QED
    BY <1>1, <1>2, <1>3
       DEF Next, Step, Clock, ReadOnly, IssueTokens, RefreshRevoke, LogoutRevoke,
           SessionExpires, AccessExpires, Crash, vars

\* Only issueTokens adds a session, a claim, or a parent.
LEMMA OnlyIssueTokens ==
  ASSUME [Next]_vars, \A c \in Clients : ~IssueTokens(c)
  PROVE  UNCHANGED parent /\ access' \subseteq access
  <1>1. ASSUME NEW c \in Clients, ReadOnly(c) PROVE UNCHANGED <<parent, access>>
    BY <1>1, ReadOnlySteps DEF Tables
  <1>2. ASSUME NEW c \in Clients,
               \/ RegisterCreate(c) \/ LoginRecord(c) \/ LoginLock(c) \/ LoginReset(c)
               \/ RefreshRevoke(c) \/ LogoutRevoke(c)
        PROVE  UNCHANGED <<parent, access>>
    BY <1>2 DEF RegisterCreate, LoginRecord, LoginLock, LoginReset, RefreshRevoke,
                LogoutRevoke, Tokens
  <1>3. ASSUME NEW c \in Clients, Arrive(c) \/ Step(c) PROVE UNCHANGED <<parent, access>>
    BY <1>1, <1>2, <1>3 DEF Step, ReadOnly
  <1>4. CASE Clock \/ Crash
    BY <1>4 DEF Clock, LockExpires, SessionExpires, AccessExpires, Crash, Tokens
  <1>5. CASE UNCHANGED vars
    BY <1>5 DEF vars, Tokens
  <1>6. QED
    BY <1>3, <1>4, <1>5 DEF Next

\* A request's own step leaves the other requests alone.
LEMMA StepChangesOne ==
  ASSUME req \in [Clients -> Request], NEW c \in Clients, Arrive(c) \/ Step(c)
  PROVE  \A d \in Clients \ {c} : req'[d] = req[d]
  <1> DEFINE Others == \A d \in Clients \ {c} : req'[d] = req[d]
  <1>0. ASSUME NEW r, Becomes(c, r) PROVE Others
    BY <1>0 DEF Becomes
  <1>1. /\ \A code : Answer(c, code) => Others
        /\ \A s, e, pw : Ask(c, s, e, pw) => Others
        /\ \A s, t : Present(c, s, t) => Others
        /\ \A s : Continue(c, s) => Others
        /\ \A s, role : ContinueAs(c, s, role) => Others
        /\ \A s, e : ContinueFor(c, s, e) => Others
    BY <1>0 DEF Answer, Ask, Present, Continue, ContinueAs, ContinueFor
  <1> HIDE DEF Others
  <1>2. ASSUME Arrive(c) PROVE Others
    BY <1>1, <1>2 DEF Arrive, RegisterUser, Login, Refresh, Logout, Me
  <1>3. ASSUME RegisterFind(c) \/ RegisterCount(c) \/ RegisterCreate(c) PROVE Others
    BY <1>1, <1>3 DEF RegisterFind, RegisterCount, RegisterCreate
  <1>4. ASSUME LoginFind(c) \/ LoginRecord(c) \/ LoginLock(c) \/ LoginReset(c)
        PROVE  Others
    BY <1>1, <1>4 DEF LoginFind, LoginRecord, LoginLock, LoginReset
  <1>5. ASSUME IssueTokens(c) \/ RefreshFind(c) \/ RefreshRevoke(c) \/ RefreshUser(c)
        PROVE  Others
    BY <1>1, <1>5 DEF IssueTokens, RefreshFind, RefreshRevoke, RefreshUser
  <1>6. ASSUME LogoutRevoke(c) \/ MeFind(c) PROVE Others
    BY <1>1, <1>6 DEF LogoutRevoke, MeFind
  <1>7. Others
    BY <1>2, <1>3, <1>4, <1>5, <1>6 DEF Step
  <1>8. QED
    BY <1>7 DEF Others

\* A step changes the request of one client, or none, or forgets them all.
LEMMA OthersWait ==
  ASSUME req \in [Clients -> Request], [Next]_vars
  PROVE  \/ \E c \in Clients :
               /\ Arrive(c) \/ Step(c)
               /\ \A d \in Clients \ {c} : req'[d] = req[d]
         \/ UNCHANGED req
         \/ req' = [c \in Clients |-> NoRequest]
  BY StepChangesOne DEF Next, Clock, LockExpires, SessionExpires, AccessExpires, Crash, vars

LEMMA CaptureInit == Init => CaptureInv
  <1> SUFFICES ASSUME Init PROVE CaptureInv
    OBVIOUS
  <1>1. TypeInv
    BY TypeInit
  <1>2. \A c \in Clients : Captured(req[c])
    BY DEF Init, Captured, NoRequest
  <1>3. Lineage
    BY DEF Init, Lineage
  <1>4. UsableOutOfTheBox
    BY DEF Init, UsableOutOfTheBox, Registered, Exists, NoUser
  <1>5. ClaimsMatchUsers
    BY DEF Init, ClaimsMatchUsers
  <1>6. QED
    BY <1>1, <1>2, <1>3, <1>4, <1>5 DEF CaptureInv

LEMMA CaptureStep == CaptureInv /\ [Next]_vars => CaptureInv'
  <1> SUFFICES ASSUME CaptureInv, [Next]_vars PROVE CaptureInv'
    OBVIOUS
  <1>0. TypeInv /\ req \in [Clients -> Request]
    BY DEF CaptureInv, TypeInv, TypeOK
  <1>1. TypeInv'
    BY <1>0, TypeStep
  <1>2. RowsStay
    BY <1>0, RowsStayStep
  <1>3. \A c \in Clients : Captured(req[c])'
    <2>1. ASSUME NEW d \in Clients, req'[d] = req[d] PROVE Captured(req[d])'
      <3>1. PICK r \in Request : r = req[d]
        BY <1>0
      <3>2. Captured(r) /\ RequestOK(r)
        BY <3>1 DEF CaptureInv, TypeInv
      <3>3. Captured(r)'
        BY <1>0, <1>2, <3>2, CapturedStays
      <3>4. QED
        BY <2>1, <3>1, <3>3 DEF Captured
    <2>2. CASE req' = [c \in Clients |-> NoRequest]
      BY <2>2 DEF Captured, NoRequest
    <2>3. CASE UNCHANGED req
      BY <2>1, <2>3
    <2>4. ASSUME NEW c \in Clients, Arrive(c) \/ Step(c),
                 \A d \in Clients \ {c} : req'[d] = req[d]
          PROVE  \A d \in Clients : Captured(req[d])'
      BY <1>2, <2>1, <2>4, OwnStep
    <2>5. QED
      BY <1>0, <2>2, <2>3, <2>4, OthersWait
  <1>4. Lineage'
    <2>1. CASE \A c \in Clients : ~IssueTokens(c)
      BY <1>0, <1>2, <2>1, OnlyIssueTokens DEF CaptureInv, Lineage, RowsStay, TypeInv, TypeOK
    <2>2. ASSUME NEW c \in Clients, IssueTokens(c) PROVE Lineage'
      <3> DEFINE r == req[c]
      <3>0. /\ parent \in [RefreshTokens -> RefreshTokens \cup {Nil}]
            /\ sessions \in [RefreshTokens -> SessionRow]
            /\ r.token \in RefreshTokens \cup {Nil}
        BY <1>0 DEF TypeInv, TypeOK, Request
      <3>1. r.token # Nil =>
               /\ sessions[r.token].state = "revoked"
               /\ sessions[r.token].user = r.email
        BY <2>2 DEF IssueTokens, Waits, CaptureInv, Captured
      <3>2. CASE UNCHANGED <<sessions, parent>>
        BY <3>2 DEF CaptureInv, Lineage
      <3>3. ASSUME NEW t \in RefreshTokens, sessions[t].state = "absent",
                   sessions' = [sessions EXCEPT ![t] =
                      [user |-> r.email, state |-> "active", expired |-> FALSE]],
                   parent' = [parent EXCEPT ![t] = r.token]
            PROVE  Lineage'
        <4>1. ASSUME NEW u \in RefreshTokens, parent'[u] # Nil
              PROVE  /\ sessions'[u].state # "absent"
                     /\ sessions'[parent'[u]].state = "revoked"
                     /\ sessions'[u].user = sessions'[parent'[u]].user
          <5>1. CASE u = t
            BY <3>0, <3>1, <3>3, <4>1, <5>1
          <5>2. CASE u # t
            BY <3>0, <3>3, <4>1, <5>2 DEF CaptureInv, Lineage
          <5>3. QED
            BY <5>1, <5>2
        <4>2. QED
          BY <4>1 DEF Lineage
      <3>4. QED
        BY <2>2, <3>2, <3>3 DEF IssueTokens, Tokens
    <2>3. QED
      BY <2>1, <2>2
  <1>5. UsableOutOfTheBox'
    <2>1. CASE \A c \in Clients : ~RegisterCreate(c)
      BY <1>0, <2>1, RolesStay DEF CaptureInv, UsableOutOfTheBox, Registered, Admins, Exists
    <2>2. ASSUME NEW c \in Clients, RegisterCreate(c) PROVE UsableOutOfTheBox'
      <3>1. CASE Registered # {}
        BY <1>2, <3>1 DEF CaptureInv, UsableOutOfTheBox, Registered, Admins, Exists, RowsStay
      <3>2. CASE Registered = {} /\ UNCHANGED users
        BY <3>2 DEF UsableOutOfTheBox, Registered, Admins, Exists
      <3>3. CASE Registered = {} /\ ~UNCHANGED users
        <4>1. /\ Waits(c, "registerCreate")
              /\ req[c].email \in Emails
              /\ req[c].role = "admin"
          BY <1>0, <2>2, <3>3 DEF RegisterCreate, Waits, CaptureInv, Captured, TypeInv,
             RequestOK, NamesUser, Statements
        <4>2. users'[req[c].email].role = "admin"
          BY <1>0, <2>2, <3>3, <4>1 DEF RegisterCreate, TypeInv, TypeOK, NoUser
        <4>3. QED
          BY <4>1, <4>2 DEF UsableOutOfTheBox, Admins
      <3>4. QED
        BY <3>1, <3>2, <3>3
    <2>3. QED
      BY <2>1, <2>2
  <1>6. ClaimsMatchUsers'
    <2>1. ASSUME NEW claim \in access PROVE users'[claim.user].role = claim.role
      <3>1. claim \in Claims /\ users[claim.user].role = claim.role
        BY <1>0, <2>1 DEF CaptureInv, ClaimsMatchUsers, TypeInv, TypeOK
      <3>2. claim.user \in Emails /\ Exists(claim.user)
        BY <3>1 DEF Claims, Roles, Exists
      <3>3. QED
        BY <1>2, <3>1, <3>2 DEF RowsStay
    <2>2. CASE \A c \in Clients : ~IssueTokens(c)
      BY <2>1, <2>2, OnlyIssueTokens DEF ClaimsMatchUsers
    <2>3. ASSUME NEW c \in Clients, IssueTokens(c) PROVE ClaimsMatchUsers'
      <3>1. UNCHANGED users /\ users[req[c].email].role = req[c].role
        BY <2>3 DEF IssueTokens, Waits, CaptureInv, Captured
      <3>2. \A claim \in access' :
               claim \in access \/ claim = [user |-> req[c].email, role |-> req[c].role]
        BY <2>3 DEF IssueTokens, Tokens
      <3>3. QED
        BY <2>1, <3>1, <3>2 DEF ClaimsMatchUsers
    <2>4. QED
      BY <2>2, <2>3
  <1>7. QED
    BY <1>1, <1>3, <1>4, <1>5, <1>6 DEF CaptureInv

LEMMA CaptureInvariant == Spec => []CaptureInv
  BY CaptureInit, CaptureStep, PTL DEF Spec

\* As soon as one account exists, one account is an admin.
THEOREM AlwaysUsable == Spec => []UsableOutOfTheBox
  <1>1. CaptureInv => UsableOutOfTheBox
    BY DEF CaptureInv
  <1>2. QED
    BY CaptureInvariant, <1>1, PTL

\* Access tokens name existing users with their roles.
THEOREM ClaimsAreTrue == Spec => []ClaimsMatchUsers
  <1>1. CaptureInv => ClaimsMatchUsers
    BY DEF CaptureInv
  <1>2. QED
    BY CaptureInvariant, <1>1, PTL

\* A token has descendants only after it was revoked.
THEOREM RevokedBeforeIssued == Spec => []RotationRevokesFirst
  <1>1. CaptureInv => RotationRevokesFirst
    BY AuthAssumption DEF CaptureInv, Lineage, RotationRevokesFirst, Children
  <1>2. QED
    BY CaptureInvariant, <1>1, PTL

\* Rotation never changes the user.
THEOREM RotationKeepsTheUser == Spec => []RotationKeepsUser
  <1>1. CaptureInv => RotationKeepsUser
    BY AuthAssumption DEF CaptureInv, Lineage, RotationKeepsUser, Children
  <1>2. QED
    BY CaptureInvariant, <1>1, PTL

\* The row of an account keeps its role and its password.
LEMMA FirstStays ==
  ASSUME TypeInv, [Next]_vars, NEW e \in Emails, Exists(e)
  PROVE  users'[e].role = users[e].role /\ users'[e].password = users[e].password
  <1>0. users \in [Emails -> UserRow]
    BY DEF TypeInv, TypeOK
  <1>1. ASSUME NEW c \in Clients, ReadOnly(c) PROVE UNCHANGED users
    BY <1>1, ReadOnlySteps DEF Tables
  <1>2. ASSUME NEW c \in Clients, RegisterCreate(c) PROVE users'[e] = users[e]
    BY <1>0, <1>2 DEF RegisterCreate, Exists
  <1>3. ASSUME NEW c \in Clients, LoginRecord(c) \/ LoginLock(c) \/ LoginReset(c)
        PROVE  users'[e].role = users[e].role /\ users'[e].password = users[e].password
    BY <1>0, <1>3 DEF LoginRecord, LoginLock, LoginReset, UserRow
  <1>4. ASSUME NEW f \in Emails, LockExpires(f)
        PROVE  users'[e].role = users[e].role /\ users'[e].password = users[e].password
    BY <1>0, <1>4 DEF LockExpires, UserRow
  <1>5. QED
    BY <1>1, <1>2, <1>3, <1>4
       DEF Next, Step, Clock, ReadOnly, IssueTokens, RefreshRevoke, LogoutRevoke,
           SessionExpires, AccessExpires, Crash, vars

\* The first row of an email is never replaced.
THEOREM FirstWins == Spec => FirstRegistrationWins
  <1>1. TypeInv /\ [Next]_vars =>
           [\A e \in Emails : Exists(e) =>
              users'[e].role = users[e].role /\ users'[e].password = users[e].password]_vars
    BY FirstStays
  <1>2. QED
    BY TypeInit, TypeStep, <1>1, PTL DEF Spec, FirstRegistrationWins

-----------------------------------------------------------------------------
(* The bounds of AuthService: how far a burst of requests that run between *)
(* another request's check and its act can exceed what a single request    *)
(* could do.  Every argument counts together what has happened and the     *)
(* requests that can still make it happen.                                 *)

-----------------------------------------------------------------------------
(* Where a request can come from.                                          *)

LEMMA Moves ==
  ASSUME TypeInv, NEW c \in Clients, Arrive(c) \/ Step(c)
  PROVE  /\ req'[c].pc = "registerCreate" =>
               /\ RegisterCount(c)
               /\ req'[c].role = FirstRole
         /\ req'[c].pc = "loginRecord" =>
               /\ LoginFind(c)
               /\ req'[c].email = req[c].email
               /\ ~IsLocked(req[c].email)
         /\ req'[c].pc = "loginLock" =>
               /\ LoginRecord(c)
               /\ req'[c].email = req[c].email
         /\ req'[c].pc = "refreshRevoke" =>
               /\ Waits(c, "refreshFind")
               /\ req'[c].token = req[c].token
               /\ IsValid(req[c].token)
         /\ req'[c].pc = "refreshUser" =>
               /\ Waits(c, "refreshRevoke")
               /\ req'[c].token = req[c].token
         /\ req'[c].pc = "issueTokens" =>
               /\ Waits(c, "refreshUser") \/ req[c].token = Nil
               /\ req'[c].token = req[c].token
  <1>0. req \in [Clients -> Request] /\ RequestOK(req[c])
    BY DEF TypeInv, TypeOK
  <1>1. CASE Arrive(c)
    BY <1>0, <1>1, NextRequest DEF Arrive, RegisterUser, Login, Refresh, Logout, Me
  <1>2. CASE RegisterFind(c) \/ RegisterCount(c) \/ RegisterCreate(c)
    BY <1>0, <1>2, NextRequest DEF RegisterFind, RegisterCount, RegisterCreate
  <1>3. CASE LoginFind(c)
    BY <1>0, <1>3, NextRequest DEF LoginFind
  <1>4. CASE LoginRecord(c) \/ LoginLock(c)
    BY <1>0, <1>4, NextRequest DEF LoginRecord, LoginLock
  <1>5. CASE LoginReset(c)
    <2>1. req[c].token = Nil
      BY <1>0, <1>5 DEF LoginReset, Waits, RequestOK
    <2>2. QED
      BY <1>0, <1>5, <2>1, NextRequest DEF LoginReset
  <1>6. CASE IssueTokens(c)
    BY <1>0, <1>6, NextRequest DEF IssueTokens
  <1>7. CASE RefreshFind(c)
    BY <1>0, <1>7, NextRequest DEF RefreshFind
  <1>8. CASE RefreshRevoke(c) \/ RefreshUser(c)
    BY <1>0, <1>8, NextRequest DEF RefreshRevoke, RefreshUser
  <1>9. CASE LogoutRevoke(c) \/ MeFind(c)
    BY <1>0, <1>9, NextRequest DEF LogoutRevoke, MeFind
  <1>10. QED
    BY <1>1, <1>2, <1>3, <1>4, <1>5, <1>6, <1>7, <1>8, <1>9 DEF Step

LEMMA ClientSets ==
  ASSUME NEW S \in SUBSET Clients
  PROVE  IsFiniteSet(S) /\ Cardinality(S) \in Nat /\ Cardinality(S) <= Cardinality(Clients)
  BY AuthAssumption, FS_Subset, FS_CardinalityType

-----------------------------------------------------------------------------
(* Rotation.                                                               *)

LEMMA ExchangersShrink ==
  ASSUME TypeInv, [Next]_vars, NEW t \in RefreshTokens, sessions[t].state = "revoked"
  PROVE  Exchangers(t)' \subseteq Exchangers(t)
  <1>0. req \in [Clients -> Request]
    BY DEF TypeInv, TypeOK
  <1>1. ASSUME NEW c \in Clients, Arrive(c) \/ Step(c), c \in Exchangers(t)'
        PROVE  c \in Exchangers(t)
    <2>1. req'[c].token = t /\ t # Nil
      BY <1>1, AuthAssumption DEF Exchangers
    <2>2. req'[c].pc \in {"refreshRevoke", "refreshUser", "issueTokens"}
      BY <1>1 DEF Exchangers
    <2>3. CASE req'[c].pc = "refreshRevoke"
      BY <1>1, <2>1, <2>3, Moves DEF IsValid
    <2>4. CASE req'[c].pc = "refreshUser"
      BY <1>1, <2>1, <2>4, Moves DEF Exchangers, Waits
    <2>5. CASE req'[c].pc = "issueTokens"
      BY <1>1, <2>1, <2>5, Moves DEF Exchangers, Waits
    <2>6. QED
      BY <2>2, <2>3, <2>4, <2>5
  <1>2. CASE UNCHANGED req
    BY <1>2 DEF Exchangers
  <1>3. CASE req' = [c \in Clients |-> NoRequest]
    BY <1>3 DEF Exchangers, NoRequest
  <1>4. ASSUME NEW c \in Clients, Arrive(c) \/ Step(c),
               \A d \in Clients \ {c} : req'[d] = req[d]
        PROVE  Exchangers(t)' \subseteq Exchangers(t)
    BY <1>1, <1>4 DEF Exchangers
  <1>5. QED
    BY <1>0, <1>2, <1>3, <1>4, OthersWait

\* After logout or rotation a token is refused to whoever comes next.
THEOREM RevokedStaysRejected == Spec => RevokedIsRejected
  <1>1. TypeInv /\ [Next]_vars =>
           \A t \in RefreshTokens : sessions[t].state = "revoked" =>
              sessions'[t].state = "revoked" /\ Exchangers(t)' \subseteq Exchangers(t)
    BY RowsStayStep, ExchangersShrink DEF RowsStay
  <1>2. TypeInv /\ [Next]_vars =>
           [\A t \in RefreshTokens : sessions[t].state = "revoked" =>
              sessions'[t].state = "revoked" /\ Exchangers(t)' \subseteq Exchangers(t)]_vars
    BY <1>1
  <1>3. QED
    BY TypeInit, TypeStep, <1>2, PTL DEF Spec, RevokedIsRejected

\* Exchanges that happened and exchanges still under way.
ExchangesInv ==
    \A t \in RefreshTokens :
        /\ IsFiniteSet(Children(t))
        /\ Cardinality(Children(t)) + Cardinality(Exchangers(t)) <= Cardinality(Clients)

LEMMA ExchangesInit == Init => ExchangesInv
  <1> SUFFICES ASSUME Init, NEW t \in RefreshTokens
               PROVE  /\ IsFiniteSet(Children(t))
                      /\ Cardinality(Children(t)) + Cardinality(Exchangers(t))
                            <= Cardinality(Clients)
    BY DEF ExchangesInv
  <1>1. Children(t) = {}
    BY AuthAssumption DEF Init, Children
  <1>2. Exchangers(t) \in SUBSET Clients
    BY DEF Exchangers
  <1>3. QED
    BY <1>1, <1>2, ClientSets, FS_EmptySet

LEMMA ExchangesStep ==
  ASSUME CaptureInv, ExchangesInv, [Next]_vars
  PROVE  ExchangesInv'
  <1>0. TypeInv
    BY DEF CaptureInv
  <1>a. \A t \in RefreshTokens :
           /\ IsFiniteSet(Exchangers(t)) /\ Cardinality(Exchangers(t)) \in Nat
           /\ Cardinality(Exchangers(t)) <= Cardinality(Clients)
           /\ IsFiniteSet(Exchangers(t)') /\ Cardinality(Exchangers(t)') \in Nat
           /\ Cardinality(Exchangers(t)') <= Cardinality(Clients)
    <2>1. \A t \in RefreshTokens :
             Exchangers(t) \in SUBSET Clients /\ Exchangers(t)' \in SUBSET Clients
      BY DEF Exchangers
    <2>2. QED
      BY <2>1, ClientSets
  <1>b. Cardinality(Clients) \in Nat
    BY AuthAssumption, FS_CardinalityType
  <1> SUFFICES ASSUME NEW t \in RefreshTokens
               PROVE  /\ IsFiniteSet(Children(t)')
                      /\ Cardinality(Children(t)') + Cardinality(Exchangers(t)')
                            <= Cardinality(Clients)
    BY DEF ExchangesInv
  <1>c. /\ IsFiniteSet(Children(t)) /\ Cardinality(Children(t)) \in Nat
        /\ Cardinality(Children(t)) + Cardinality(Exchangers(t)) <= Cardinality(Clients)
    BY FS_CardinalityType DEF ExchangesInv
  <1>d. Children(t) # {} => sessions[t].state = "revoked"
    BY AuthAssumption DEF CaptureInv, Lineage, Children
  <1>1. CASE Children(t)' \subseteq Children(t)
    <2>1. CASE Children(t) = {}
      BY <1>1, <1>a, <1>b, <2>1, FS_EmptySet
    <2>2. CASE Children(t) # {}
      <3>1. Exchangers(t)' \subseteq Exchangers(t)
        BY <1>0, <1>d, <2>2, ExchangersShrink
      <3>2. Cardinality(Exchangers(t)') <= Cardinality(Exchangers(t))
        BY <1>a, <3>1, FS_Subset
      <3>3. /\ IsFiniteSet(Children(t)')
            /\ Cardinality(Children(t)') <= Cardinality(Children(t))
            /\ Cardinality(Children(t)') \in Nat
        BY <1>1, <1>c, FS_Subset, FS_CardinalityType
      <3>4. QED
        BY <1>a, <1>b, <1>c, <3>2, <3>3
    <2>3. QED
      BY <2>1, <2>2
  <1>2. CASE ~(Children(t)' \subseteq Children(t))
    <2>1. PICK c \in Clients : IssueTokens(c)
      BY <1>2, OnlyIssueTokens DEF Children
    <2>2. PICK u \in RefreshTokens : parent' = [parent EXCEPT ![u] = req[c].token]
      BY <1>2, <2>1 DEF IssueTokens, Children, Tokens
    <2>3. parent \in [RefreshTokens -> RefreshTokens \cup {Nil}]
      BY <1>0 DEF TypeInv, TypeOK
    <2>4. /\ req[c].token = t
          /\ Children(t)' \subseteq Children(t) \cup {u}
      BY <1>2, <2>2, <2>3 DEF Children
    <2>5. c \in Exchangers(t)
      BY <2>1, <2>4 DEF IssueTokens, Waits, Exchangers
    <2>6. req'[c].pc = "idle"
      BY <1>0, <2>1, NextRequest DEF IssueTokens, TypeInv, TypeOK
    <2>7. sessions[t].state = "revoked"
      BY <2>1, <2>4, AuthAssumption DEF IssueTokens, Waits, CaptureInv, Captured
    <2>8. Exchangers(t)' \subseteq Exchangers(t) \ {c}
      BY <1>0, <2>6, <2>7, ExchangersShrink DEF Exchangers
    <2>9. Cardinality(Exchangers(t)') <= Cardinality(Exchangers(t)) - 1
      <3>1. /\ IsFiniteSet(Exchangers(t) \ {c})
            /\ Cardinality(Exchangers(t) \ {c}) = Cardinality(Exchangers(t)) - 1
        BY <1>a, <2>5, FS_RemoveElement
      <3>2. QED
        BY <2>8, <3>1, FS_Subset
    <2>10. /\ IsFiniteSet(Children(t) \cup {u})
           /\ Cardinality(Children(t) \cup {u}) <= Cardinality(Children(t)) + 1
      <3>1. /\ IsFiniteSet(Children(t) \cup {u})
            /\ \/ Cardinality(Children(t) \cup {u}) = Cardinality(Children(t))
               \/ Cardinality(Children(t) \cup {u}) = Cardinality(Children(t)) + 1
        BY <1>c, FS_AddElement
      <3>2. QED
        BY <1>c, <3>1
    <2>11. /\ IsFiniteSet(Children(t)')
           /\ Cardinality(Children(t)') <= Cardinality(Children(t)) + 1
           /\ Cardinality(Children(t)') \in Nat
      <3>1. /\ IsFiniteSet(Children(t)')
            /\ Cardinality(Children(t)') <= Cardinality(Children(t) \cup {u})
        BY <2>4, <2>10, FS_Subset
      <3>2. Cardinality(Children(t)') \in Nat /\ Cardinality(Children(t) \cup {u}) \in Nat
        BY <2>10, <3>1, FS_CardinalityType
      <3>3. QED
        BY <1>c, <2>10, <3>1, <3>2
    <2>12. QED
      BY <1>a, <1>b, <1>c, <2>9, <2>11
  <1>3. QED
    BY <1>1, <1>2

\* A token is exchanged at most once per request in flight.
THEOREM RotationIsBounded == Spec => []RotationBounded
  <1>1. ExchangesInv => RotationBounded
    <2> SUFFICES ASSUME ExchangesInv, NEW t \in RefreshTokens
                 PROVE  Cardinality(Children(t)) <= Cardinality(Clients)
      BY DEF RotationBounded
    <2>1. Exchangers(t) \in SUBSET Clients
      BY DEF Exchangers
    <2>2. /\ Cardinality(Exchangers(t)) \in Nat /\ Cardinality(Children(t)) \in Nat
          /\ Cardinality(Clients) \in Nat
      BY <2>1, ClientSets, AuthAssumption, FS_CardinalityType DEF ExchangesInv
    <2>3. QED
      BY <2>2 DEF ExchangesInv
  <1>2. CaptureInv /\ ExchangesInv /\ [Next]_vars => ExchangesInv'
    BY ExchangesStep
  <1>3. QED
    BY CaptureInvariant, ExchangesInit, <1>1, <1>2, PTL DEF Spec

-----------------------------------------------------------------------------
(* Admins.                                                                 *)

Creators == {c \in Clients : req[c].pc = "registerCreate" /\ req[c].role = "admin"}

\* Admins that exist and admins that a request has decided to create.
AdminsInv ==
    /\ IsFiniteSet(Admins)
    /\ Cardinality(Admins) + Cardinality(Creators) <= Cardinality(Clients)

LEMMA CreatorsShrink ==
  ASSUME TypeInv, [Next]_vars, Registered # {}
  PROVE  Creators' \subseteq Creators
  <1>0. req \in [Clients -> Request]
    BY DEF TypeInv, TypeOK
  <1>1. ASSUME NEW c \in Clients, Arrive(c) \/ Step(c), c \in Creators'
        PROVE  FALSE
    BY <1>1, Moves DEF Creators, FirstRole
  <1>2. CASE UNCHANGED req
    BY <1>2 DEF Creators
  <1>3. CASE req' = [c \in Clients |-> NoRequest]
    BY <1>3 DEF Creators, NoRequest
  <1>4. ASSUME NEW c \in Clients, Arrive(c) \/ Step(c),
               \A d \in Clients \ {c} : req'[d] = req[d]
        PROVE  Creators' \subseteq Creators
    BY <1>1, <1>4 DEF Creators
  <1>5. QED
    BY <1>0, <1>2, <1>3, <1>4, OthersWait

LEMMA AdminsStep ==
  ASSUME CaptureInv, AdminsInv, [Next]_vars
  PROVE  AdminsInv'
  <1>0. TypeInv /\ TypeInv' /\ RowsStay
    BY TypeStep, RowsStayStep DEF CaptureInv
  <1>a. /\ IsFiniteSet(Creators) /\ Cardinality(Creators) \in Nat
        /\ IsFiniteSet(Creators') /\ Cardinality(Creators') \in Nat
        /\ Cardinality(Creators') <= Cardinality(Clients)
    <2>1. Creators \in SUBSET Clients /\ Creators' \in SUBSET Clients
      BY DEF Creators
    <2>2. QED
      BY <2>1, ClientSets
  <1>b. Cardinality(Clients) \in Nat /\ Cardinality(Admins) \in Nat
    BY AuthAssumption, FS_CardinalityType DEF AdminsInv
  <1>1. CASE Admins' = {}
    BY <1>1, <1>a, <1>b, FS_EmptySet DEF AdminsInv
  <1>2. CASE Admins' # {} /\ \A c \in Clients : ~RegisterCreate(c)
    <2>1. Admins' = Admins
      BY <1>0, <1>2, RolesStay DEF Admins
    <2>2. Registered # {}
      BY <1>2, <2>1 DEF Admins, Registered, Exists
    <2>3. Cardinality(Creators') <= Cardinality(Creators)
      BY <1>0, <1>a, <2>2, CreatorsShrink, FS_Subset
    <2>4. QED
      BY <1>a, <1>b, <2>1, <2>3 DEF AdminsInv
  <1>3. ASSUME NEW c \in Clients, RegisterCreate(c) PROVE AdminsInv'
    <2>0. /\ users \in [Emails -> UserRow] /\ req \in [Clients -> Request]
          /\ req[c].role \in Roles /\ req[c].email \in Emails
      BY <1>0, <1>3 DEF RegisterCreate, Waits, TypeInv, TypeOK, RequestOK, NamesUser, Statements
    <2>1. req'[c].pc = "idle" /\ \A d \in Clients \ {c} : req'[d] = req[d]
      BY <2>0, <1>3, NextRequest DEF RegisterCreate, Answer, Becomes
    <2>2. Creators' = Creators \ {c}
      BY <2>1 DEF Creators
    <2>3. CASE Admins' = Admins
      <3>1. Cardinality(Creators') <= Cardinality(Creators)
        BY <1>a, <2>2, FS_Subset
      <3>2. QED
        BY <1>a, <1>b, <2>3, <3>1 DEF AdminsInv
    <2>4. CASE Admins' # Admins
      <3>1. req[c].role = "admin" /\ Admins' = Admins \cup {req[c].email}
        <4>1. users' = users \/ InsertUser(req[c].email, req[c].password, req[c].role)
          BY <1>3 DEF RegisterCreate
        <4>2. users' # users
          BY <2>4 DEF Admins
        <4>3. users' = [users EXCEPT ![req[c].email] =
                          [NoUser EXCEPT !.password = req[c].password, !.role = req[c].role]]
          BY <4>1, <4>2 DEF InsertUser
        <4>4. /\ users'[req[c].email].role = req[c].role
              /\ \A e \in Emails \ {req[c].email} : users'[e] = users[e]
          BY <2>0, <4>3 DEF NoUser
        <4> QED
          BY <1>3, <2>0, <2>4, <4>4 DEF RegisterCreate, Admins, Exists
      <3>2. c \in Creators
        BY <1>3, <3>1 DEF RegisterCreate, Waits, Creators
      <3>3. Cardinality(Creators') = Cardinality(Creators) - 1
        BY <1>a, <2>2, <3>2, FS_RemoveElement
      <3>4. /\ IsFiniteSet(Admins')
            /\ \/ Cardinality(Admins') = Cardinality(Admins)
               \/ Cardinality(Admins') = Cardinality(Admins) + 1
        BY <3>1, FS_AddElement DEF AdminsInv
      <3>5. QED
        BY <1>a, <1>b, <3>3, <3>4 DEF AdminsInv
    <2>5. QED
      BY <2>3, <2>4
  <1>4. QED
    BY <1>1, <1>2, <1>3

LEMMA AdminsInit == Init => AdminsInv
  <1> SUFFICES ASSUME Init PROVE AdminsInv
    OBVIOUS
  <1>1. Admins = {} /\ Creators = {}
    BY DEF Init, Admins, NoUser, Creators, NoRequest
  <1>2. Cardinality(Clients) \in Nat
    BY AuthAssumption, FS_CardinalityType
  <1>3. QED
    BY <1>1, <1>2, FS_EmptySet DEF AdminsInv

LEMMA AdminsCounted == AdminsInv => AdminsBounded
  <1> SUFFICES ASSUME AdminsInv PROVE AdminsBounded
    OBVIOUS
  <1>1. Creators \in SUBSET Clients
    BY DEF Creators
  <1>2. /\ Cardinality(Creators) \in Nat /\ Cardinality(Admins) \in Nat
        /\ Cardinality(Clients) \in Nat
    BY <1>1, ClientSets, AuthAssumption, FS_CardinalityType DEF AdminsInv
  <1>3. QED
    BY <1>2 DEF AdminsInv, AdminsBounded

\* The race of the first registrations makes no more admins than it has runners.
THEOREM AdminsAreBounded == Spec => []AdminsBounded
  <1>1. CaptureInv /\ AdminsInv /\ [Next]_vars => AdminsInv'
    BY AdminsStep
  <1>2. QED
    BY CaptureInvariant, AdminsInit, AdminsCounted, <1>1, PTL DEF Spec

-----------------------------------------------------------------------------
(* The lockout.                                                            *)

\* Requests about to lock e, and requests about to count a failure of e.
Lockers(e) == {c \in Clients : req[c].pc = "loginLock" /\ req[c].email = e}
Counters(e) == {c \in Clients : req[c].pc = "loginRecord" /\ req[c].email = e}

\* While e is not locked, every failure beyond the threshold has its locker;
\* once e is locked, only the counters that passed the check before remain.
LockAt(e) ==
    /\ ~Exists(e) => streak[e] = 0
    /\ users[e].failed < MAX_FAILED_ATTEMPTS => streak[e] <= users[e].failed
    /\ ~IsLocked(e) =>
          streak[e] <= (MAX_FAILED_ATTEMPTS - 1) + Cardinality(Lockers(e))
    /\ IsLocked(e) =>
          streak[e] + Cardinality(Counters(e))
             <= (MAX_FAILED_ATTEMPTS - 1) + Cardinality(Clients)

LockInv == \A e \in Emails : LockAt(e)

LEMMA DisjointClients ==
  ASSUME NEW S \in SUBSET Clients, NEW T \in SUBSET Clients, S \cap T = {}
  PROVE  /\ IsFiniteSet(S) /\ Cardinality(S) \in Nat
         /\ IsFiniteSet(T) /\ Cardinality(T) \in Nat
         /\ Cardinality(S) + Cardinality(T) <= Cardinality(Clients)
  <1>1. /\ IsFiniteSet(S) /\ Cardinality(S) \in Nat
        /\ IsFiniteSet(T) /\ Cardinality(T) \in Nat
        /\ Cardinality(S \cup T) <= Cardinality(Clients)
    <2>1. S \cup T \in SUBSET Clients
      OBVIOUS
    <2>2. QED
      BY <2>1, ClientSets
  <1>2. Cardinality(S \cup T) = Cardinality(S) + Cardinality(T) - Cardinality({})
    BY <1>1, FS_Union
  <1>3. Cardinality(S \cup T) = Cardinality(S) + Cardinality(T)
    BY <1>1, <1>2, FS_EmptySet
  <1>4. QED
    BY <1>1, <1>3

LEMMA Bounds ==
  Cardinality(Clients) \in Nat /\ MAX_FAILED_ATTEMPTS \in Nat \ {0}
  BY AuthAssumption, FS_CardinalityType

LEMMA LockCounts ==
  ASSUME NEW e \in Emails
  PROVE  /\ IsFiniteSet(Lockers(e)) /\ Cardinality(Lockers(e)) \in Nat
         /\ IsFiniteSet(Counters(e)) /\ Cardinality(Counters(e)) \in Nat
         /\ Cardinality(Lockers(e)) + Cardinality(Counters(e)) <= Cardinality(Clients)
  <1>1. /\ Lockers(e) \in SUBSET Clients /\ Counters(e) \in SUBSET Clients
        /\ Lockers(e) \cap Counters(e) = {}
    BY DEF Lockers, Counters
  <1>2. QED
    BY <1>1, DisjointClients

\* Who joins and leaves the two sets in a step.
LEMMA LockMoves ==
  ASSUME TypeInv, [Next]_vars, NEW e \in Emails
  PROVE  /\ IsLocked(e) => Counters(e)' \subseteq Counters(e)
         /\ \/ Crash
            \/ \E c \in Clients : LoginLock(c) /\ req[c].email = e
            \/ Lockers(e) \subseteq Lockers(e)'
  <1>0. req \in [Clients -> Request]
    BY DEF TypeInv, TypeOK
  <1>1. CASE UNCHANGED req
    BY <1>1 DEF Counters, Lockers
  <1>2. CASE Crash
    BY <1>2 DEF Crash, Counters, NoRequest
  <1>3. ASSUME NEW c \in Clients, Arrive(c) \/ Step(c),
               \A d \in Clients \ {c} : req'[d] = req[d]
        PROVE  /\ IsLocked(e) => Counters(e)' \subseteq Counters(e)
               /\ (LoginLock(c) /\ req[c].email = e) \/ Lockers(e) \subseteq Lockers(e)'
    <2>1. IsLocked(e) => c \notin Counters(e)'
      BY <1>3, Moves DEF Counters
    <2>2. c \in Lockers(e) => LoginLock(c) /\ req[c].email = e
      BY <1>3 DEF Lockers, Arrive, Step, Idle, Waits, RegisterUser, Login, Refresh, Logout,
         Me, RegisterFind, RegisterCount, RegisterCreate, LoginFind, LoginRecord, LoginReset,
         IssueTokens, RefreshFind, RefreshRevoke, RefreshUser, LogoutRevoke, MeFind
    <2>3. QED
      BY <1>3, <2>1, <2>2 DEF Counters, Lockers
  <1>4. ASSUME NEW c \in Clients, Arrive(c) \/ Step(c)
        PROVE  \A d \in Clients \ {c} : req'[d] = req[d]
    BY <1>0, <1>4, StepChangesOne
  <1>5. QED
    BY <1>1, <1>2, <1>3, <1>4
       DEF Next, Clock, LockExpires, SessionExpires, AccessExpires, vars

\* What a step does to the row and the streak of one account.
LEMMA LockRows ==
  ASSUME CaptureInv, [Next]_vars, NEW e \in Emails, LockAt(e)
  PROVE  \/ streak'[e] = 0
         \/ users'[e] = users[e] /\ streak'[e] = streak[e]
         \/ \E c \in Clients : req[c].email = e /\ (LoginRecord(c) \/ LoginLock(c))
  <1>0. /\ users \in [Emails -> UserRow] /\ streak \in [Emails -> Nat]
    BY DEF CaptureInv, TypeInv, TypeOK
  <1>1. ASSUME NEW c \in Clients, ReadOnly(c) PROVE UNCHANGED <<users, streak>>
    BY <1>1, ReadOnlySteps DEF Tables
  <1>2. ASSUME NEW c \in Clients, RegisterCreate(c)
        PROVE  streak'[e] = 0 \/ (users'[e] = users[e] /\ streak'[e] = streak[e])
    BY <1>0, <1>2 DEF RegisterCreate, LockAt
  <1>3. ASSUME NEW c \in Clients, LoginReset(c)
        PROVE  streak'[e] = 0 \/ (users'[e] = users[e] /\ streak'[e] = streak[e])
    BY <1>0, <1>3 DEF LoginReset
  <1>4. ASSUME NEW c \in Clients, LoginRecord(c) \/ LoginLock(c), req[c].email # e
        PROVE  users'[e] = users[e] /\ streak'[e] = streak[e]
    BY <1>0, <1>4 DEF LoginRecord, LoginLock
  <1>5. ASSUME NEW c \in Clients, IssueTokens(c) \/ RefreshRevoke(c) \/ LogoutRevoke(c)
        PROVE  UNCHANGED <<users, streak>>
    BY <1>5 DEF IssueTokens, RefreshRevoke, LogoutRevoke
  <1>6. CASE Clock
    BY <1>0, <1>6 DEF Clock, LockExpires, SessionExpires, AccessExpires
  <1>7. CASE Crash
    BY <1>7 DEF Crash
  <1>8. QED
    BY <1>1, <1>2, <1>3, <1>4, <1>5, <1>6, <1>7 DEF Next, Step, ReadOnly, vars

LEMMA LockStep ==
  ASSUME CaptureInv, LockInv, [Next]_vars, NEW e \in Emails
  PROVE  LockAt(e)'
  <1>0. /\ TypeInv /\ LockAt(e) /\ TypeInv'
        /\ users[e] \in UserRow /\ streak[e] \in Nat
        /\ users'[e] \in UserRow /\ streak'[e] \in Nat
    BY TypeStep DEF CaptureInv, TypeInv, TypeOK, LockInv
  <1>a. /\ Cardinality(Clients) \in Nat
        /\ MAX_FAILED_ATTEMPTS \in Nat \ {0}
        /\ IsFiniteSet(Lockers(e)) /\ Cardinality(Lockers(e)) \in Nat
        /\ IsFiniteSet(Counters(e)) /\ Cardinality(Counters(e)) \in Nat
        /\ Cardinality(Lockers(e)) + Cardinality(Counters(e)) <= Cardinality(Clients)
    BY LockCounts, Bounds
  <1>b. /\ IsFiniteSet(Lockers(e)') /\ Cardinality(Lockers(e)') \in Nat
        /\ IsFiniteSet(Counters(e)') /\ Cardinality(Counters(e)') \in Nat
        /\ Cardinality(Lockers(e)') + Cardinality(Counters(e)') <= Cardinality(Clients)
    <2>1. /\ Lockers(e)' \in SUBSET Clients /\ Counters(e)' \in SUBSET Clients
          /\ Lockers(e)' \cap Counters(e)' = {}
      BY DEF Lockers, Counters
    <2>2. QED
      BY <2>1, DisjointClients
  <1>1. CASE streak'[e] = 0
    BY <1>0, <1>1, <1>a, <1>b DEF LockAt, UserRow
  <1>2. CASE users'[e] = users[e] /\ streak'[e] = streak[e] /\ streak'[e] # 0
    <2>1. ~Crash
      BY <1>2 DEF Crash
    <2>a. ASSUME NEW c \in Clients, LoginLock(c), req[c].email = e PROVE IsLocked(e)
      <3>1. streak \in [Emails -> Nat] /\ users \in [Emails -> UserRow]
        BY <1>0 DEF TypeInv, TypeOK
      <3>2. users' = [users EXCEPT ![e].lockedUntil = "future"]
        BY <1>2, <2>a, <3>1 DEF LoginLock
      <3>3. users'[e].lockedUntil = "future"
        BY <3>1, <3>2 DEF UserRow
      <3>4. QED
        BY <1>2, <3>3 DEF IsLocked
    <2>2. CASE IsLocked(e)
      <3>1. Cardinality(Counters(e)') <= Cardinality(Counters(e))
        BY <1>0, <1>a, <2>2, LockMoves, FS_Subset
      <3>2. QED
        BY <1>0, <1>2, <1>a, <1>b, <2>2, <3>1 DEF LockAt, IsLocked, Exists
    <2>3. CASE ~IsLocked(e)
      <3>1. Cardinality(Lockers(e)) <= Cardinality(Lockers(e)')
        BY <1>0, <1>b, <2>1, <2>a, <2>3, LockMoves, FS_Subset
      <3>2. QED
        BY <1>0, <1>2, <1>a, <1>b, <2>3, <3>1 DEF LockAt, IsLocked, Exists
    <2>4. QED
      BY <2>2, <2>3
  <1>3. ASSUME NEW c \in Clients, LoginRecord(c), req[c].email = e, streak'[e] # 0
        PROVE  LockAt(e)'
    <2>0. /\ users \in [Emails -> UserRow] /\ streak \in [Emails -> Nat]
          /\ req \in [Clients -> Request]
          /\ Exists(e)
          /\ c \in Counters(e)
      BY <1>0, <1>3 DEF TypeInv, TypeOK, CaptureInv, Captured, LoginRecord, Waits, Counters
    <2>1. CASE UNCHANGED <<users, streak>>
      BY <1>2, <1>3, <2>1
    <2>2. CASE ~UNCHANGED <<users, streak>>
      <3>1. /\ users'[e] = [users[e] EXCEPT !.failed = NextFailed(e)]
            /\ streak'[e] = streak[e] + 1
            /\ IF ReachesThreshold(e) THEN Continue(c, "loginLock") ELSE Answer(c, 401)
        BY <1>3, <2>0, <2>2 DEF LoginRecord
      <3>2. /\ users'[e].failed = NextFailed(e)
            /\ users'[e].lockedUntil = users[e].lockedUntil
            /\ users'[e].role = users[e].role
        BY <1>0, <3>1 DEF UserRow
      <3>3. CASE IsLocked(e)
        <4>1. c \notin Counters(e)'
          BY <2>0, <3>1, NextRequest DEF Counters
        <4>2. Counters(e)' \subseteq Counters(e) \ {c}
          BY <1>0, <3>3, <4>1, LockMoves
        <4>3. Cardinality(Counters(e)') <= Cardinality(Counters(e)) - 1
          <5>1. /\ IsFiniteSet(Counters(e) \ {c})
                /\ Cardinality(Counters(e) \ {c}) = Cardinality(Counters(e)) - 1
            BY <1>a, <2>0, FS_RemoveElement
          <5>2. QED
            BY <4>2, <5>1, FS_Subset
        <4>4. users'[e].failed < MAX_FAILED_ATTEMPTS => streak'[e] <= users'[e].failed
          BY <1>0, <1>a, <3>1, <3>2 DEF LockAt, NextFailed, UserRow
        <4>5. QED
          BY <1>0, <1>a, <1>b, <2>0, <3>1, <3>2, <3>3, <4>3, <4>4
             DEF LockAt, IsLocked, Exists
      <3>4. CASE ~IsLocked(e)
        <4>1. users'[e].failed < MAX_FAILED_ATTEMPTS => streak'[e] <= users'[e].failed
          BY <1>0, <1>a, <3>1, <3>2 DEF LockAt, NextFailed, UserRow
        <4>2. streak'[e] <= (MAX_FAILED_ATTEMPTS - 1) + Cardinality(Lockers(e)')
          <5>1. CASE ReachesThreshold(e)
            <6>1. req'[c].pc = "loginLock" /\ req'[c].email = e
              BY <1>3, <2>0, <3>1, <5>1, NextRequest
            <6>2. /\ c \in Lockers(e)' /\ c \notin Lockers(e)
                  /\ Lockers(e) \subseteq Lockers(e)'
              <7>1. \A d \in Clients \ {c} : req'[d] = req[d]
                BY <1>3, <2>0, StepChangesOne DEF Step
              <7>2. QED
                BY <1>3, <6>1, <7>1 DEF Lockers, LoginRecord, Waits
            <6>3. Cardinality(Lockers(e)) <= Cardinality(Lockers(e)') - 1
              <7>1. /\ IsFiniteSet(Lockers(e)' \ {c})
                    /\ Cardinality(Lockers(e)' \ {c}) = Cardinality(Lockers(e)') - 1
                BY <1>b, <6>2, FS_RemoveElement
              <7>2. Lockers(e) \subseteq Lockers(e)' \ {c}
                BY <6>2
              <7>3. QED
                BY <7>1, <7>2, FS_Subset
            <6>4. QED
              BY <1>0, <1>a, <1>b, <3>1, <3>4, <6>3 DEF LockAt
          <5>2. CASE ~ReachesThreshold(e)
            BY <1>0, <1>a, <1>b, <3>1, <3>2, <4>1, <5>2
               DEF ReachesThreshold, NextFailed, UserRow
          <5>3. QED
            BY <5>1, <5>2
        <4>3. QED
          BY <1>0, <2>0, <3>2, <3>4, <4>1, <4>2 DEF LockAt, IsLocked, Exists
      <3>5. QED
        BY <3>3, <3>4
    <2>3. QED
      BY <2>1, <2>2
  <1>4. ASSUME NEW c \in Clients, LoginLock(c), req[c].email = e, streak'[e] # 0
        PROVE  LockAt(e)'
    <2>0. /\ users \in [Emails -> UserRow] /\ streak \in [Emails -> Nat]
          /\ Exists(e)
      BY <1>0, <1>4 DEF TypeInv, TypeOK, CaptureInv, Captured, LoginLock, Waits
    <2>1. /\ users' = [users EXCEPT ![e].lockedUntil = "future"]
          /\ UNCHANGED streak
      BY <1>4, <2>0 DEF LoginLock
    <2>2. /\ users'[e].failed = users[e].failed
          /\ users'[e].role = users[e].role
          /\ IsLocked(e)'
      BY <1>0, <2>0, <2>1 DEF UserRow, IsLocked
    <2>3. streak[e] + Cardinality(Counters(e)')
             <= (MAX_FAILED_ATTEMPTS - 1) + Cardinality(Clients)
      <3>1. Counters(e)' \subseteq Counters(e)
        <4>1. /\ \A d \in Clients \ {c} : req'[d] = req[d]
              /\ req'[c].pc = "idle"
          <5>1. req \in [Clients -> Request]
            BY <1>0 DEF TypeInv, TypeOK
          <5>2. \E code : Answer(c, code)
            BY <1>4 DEF LoginLock
          <5>3. QED
            BY <1>4, <5>1, <5>2, StepChangesOne, NextRequest DEF Step
        <4>2. QED
          BY <4>1 DEF Counters
      <3>2. Cardinality(Counters(e)') <= Cardinality(Counters(e))
        BY <1>a, <3>1, FS_Subset
      <3>3. QED
        BY <1>0, <1>a, <1>b, <3>2 DEF LockAt
    <2>4. QED
      BY <1>0, <2>0, <2>1, <2>2, <2>3 DEF LockAt, Exists
  <1>5. QED
    BY <1>0, <1>1, <1>2, <1>3, <1>4, LockRows

LEMMA LockInit == Init => LockInv
  <1> SUFFICES ASSUME Init, NEW e \in Emails PROVE LockAt(e)
    BY DEF LockInv
  <1>1. users[e] = NoUser /\ streak[e] = 0
    BY DEF Init
  <1>2. QED
    BY <1>1, LockCounts, Bounds DEF LockAt, NoUser, IsLocked, Exists

LEMMA LockInvariant == Spec => []LockInv
  <1>1. CaptureInv /\ LockInv /\ [Next]_vars => LockInv'
    BY LockStep DEF LockInv
  <1>2. QED
    BY CaptureInvariant, LockInit, <1>1, PTL DEF Spec

LEMMA LockCounted == CaptureInv /\ LockInv => LockoutBounded
  <1> SUFFICES ASSUME CaptureInv, LockInv, NEW e \in Emails
               PROVE  streak[e] <= (MAX_FAILED_ATTEMPTS - 1) + Cardinality(Clients)
    BY DEF LockoutBounded
  <1>1. streak[e] \in Nat /\ LockAt(e)
    BY DEF CaptureInv, TypeInv, TypeOK, LockInv
  <1>2. QED
    BY <1>1, LockCounts, Bounds DEF LockAt

LEMMA LockUnderWay == CaptureInv /\ LockInv => ThresholdLeadsToLock
  <1> SUFFICES ASSUME CaptureInv, LockInv, NEW e \in Emails,
                      streak[e] >= MAX_FAILED_ATTEMPTS, ~IsLocked(e)
               PROVE  \E c \in Clients : Waits(c, "loginLock") /\ req[c].email = e
    BY DEF ThresholdLeadsToLock
  <1>1. streak[e] \in Nat /\ LockAt(e)
    BY DEF CaptureInv, TypeInv, TypeOK, LockInv
  <1>2. Cardinality(Lockers(e)) # 0
    BY <1>1, LockCounts, Bounds DEF LockAt
  <1>3. Lockers(e) # {}
    BY <1>2, FS_EmptySet
  <1>4. QED
    BY <1>3 DEF Lockers, Waits

\* A burst of logins exceeds the threshold by at most the requests in flight.
THEOREM LockoutIsBounded == Spec => []LockoutBounded
  BY CaptureInvariant, LockInvariant, LockCounted, PTL

\* An account over the threshold is locked or being locked.
THEOREM ThresholdLocks == Spec => []ThresholdLeadsToLock
  BY CaptureInvariant, LockInvariant, LockUnderWay, PTL
-----------------------------------------------------------------------------
(* AuthService implements Accounts.  Besides what each record captured,    *)
(* the mapping needs what the clients presented: only tokens that were     *)
(* handed out, and only valid addresses and strong passwords to register.  *)

Presented(r) ==
    /\ r.token # Nil => r.token \in held
    /\ r.pc \in {"registerFind", "registerCount", "registerCreate"} =>
          r.email \in ValidEmails /\ r.password \in StrongPasswords

PresentedInv == \A c \in Clients : Presented(req[c])

LEMMA HeldGrows ==
  ASSUME [Next]_vars
  PROVE  held \subseteq held'
  <1>1. ASSUME NEW c \in Clients, ReadOnly(c) PROVE UNCHANGED held
    BY <1>1, ReadOnlySteps DEF Tables
  <1>2. ASSUME NEW c \in Clients, Arrive(c) PROVE UNCHANGED held
    BY <1>1, <1>2 DEF ReadOnly
  <1>3. ASSUME NEW c \in Clients, Step(c) PROVE held \subseteq held'
    <2>1. CASE ReadOnly(c)
      BY <1>1, <2>1
    <2>2. CASE IssueTokens(c)
      BY <2>2 DEF IssueTokens, Tokens
    <2>3. CASE RegisterCreate(c) \/ LoginRecord(c) \/ LoginLock(c) \/ LoginReset(c)
      BY <2>3 DEF RegisterCreate, LoginRecord, LoginLock, LoginReset, Tokens
    <2>4. CASE RefreshRevoke(c) \/ LogoutRevoke(c)
      BY <2>4 DEF RefreshRevoke, LogoutRevoke, Tokens
    <2> QED
      BY <1>3, <2>1, <2>2, <2>3, <2>4 DEF Step, ReadOnly
  <1>4. CASE Clock \/ Crash
    BY <1>4 DEF Clock, LockExpires, SessionExpires, AccessExpires, Crash, Tokens
  <1>5. CASE UNCHANGED vars
    BY <1>5 DEF vars, Tokens
  <1> QED
    BY <1>2, <1>3, <1>4, <1>5 DEF Next

\* What a record presents after each way of changing it.
LEMMA NextPresented ==
  ASSUME req \in [Clients -> Request], NEW c \in Clients, Presented(req[c]),
         held \subseteq held'
  PROVE  /\ \A code : Answer(c, code) => Presented(req[c])'
         /\ \A s, e, pw : /\ Ask(c, s, e, pw)
                          /\ s = "registerFind" => e \in ValidEmails /\ pw \in StrongPasswords
                          /\ s \notin {"registerCount", "registerCreate"}
                          => Presented(req[c])'
         /\ \A s : \A t \in held \cup {Nil} :
               Present(c, s, t) /\ s \in {"refreshFind", "logoutRevoke"} => Presented(req[c])'
         /\ \A s : Continue(c, s) /\ (s = "registerCount" => Waits(c, "registerFind"))
                                  /\ s \notin {"registerFind", "registerCreate"}
                      => Presented(req[c])'
         /\ \A s, role : ContinueAs(c, s, role)
                            /\ (s = "registerCreate" => Waits(c, "registerCount"))
                            /\ s \notin {"registerFind", "registerCount"}
                      => Presented(req[c])'
         /\ \A s, e : ContinueFor(c, s, e) /\ s = "refreshRevoke" => Presented(req[c])'
  <1>1. \A r : Becomes(c, r) => req'[c] = r
    BY DEF Becomes
  <1>2. req[c] \in Request
    OBVIOUS
  <1>3. \A code : Answer(c, code) => req'[c].pc = "idle" /\ req'[c].token = Nil
    BY <1>1 DEF Answer, NoRequest
  <1>4. \A s, e, pw : Ask(c, s, e, pw) =>
           /\ req'[c].pc = s /\ req'[c].token = Nil
           /\ req'[c].email = e /\ req'[c].password = pw
    BY <1>1 DEF Ask, NoRequest
  <1>5. \A s, t : Present(c, s, t) => req'[c].pc = s /\ req'[c].token = t
    BY <1>1 DEF Present, NoRequest
  <1>6. \A s : Continue(c, s) =>
           /\ req'[c].pc = s /\ req'[c].token = req[c].token
           /\ req'[c].email = req[c].email /\ req'[c].password = req[c].password
    BY <1>1, <1>2 DEF Continue, Request
  <1>7. \A s, role : ContinueAs(c, s, role) =>
           /\ req'[c].pc = s /\ req'[c].token = req[c].token
           /\ req'[c].email = req[c].email /\ req'[c].password = req[c].password
    BY <1>1, <1>2 DEF ContinueAs, Request
  <1>8. \A s, e : ContinueFor(c, s, e) => req'[c].pc = s /\ req'[c].token = req[c].token
    BY <1>1, <1>2 DEF ContinueFor, Request
  <1> QED
    BY <1>3, <1>4, <1>5, <1>6, <1>7, <1>8 DEF Presented, Waits

LEMMA PresentedOwn ==
  ASSUME TypeInv, NEW c \in Clients, Arrive(c) \/ Step(c), Presented(req[c]),
         held \subseteq held'
  PROVE  Presented(req[c])'
  <1>0. req \in [Clients -> Request]
    BY DEF TypeInv, TypeOK
  <1>1. CASE RegisterUser(c) \/ Login(c)
    BY <1>0, <1>1, NextPresented DEF RegisterUser, Login
  <1>2. CASE Refresh(c) \/ Logout(c)
    BY <1>0, <1>2, NextPresented DEF Refresh, Logout, Unauthorized
  <1>3. CASE Me(c) \/ MeFind(c)
    BY <1>0, <1>3, NextPresented DEF Me, MeFind, Unauthorized
  <1>4. CASE RegisterFind(c) \/ RegisterCount(c) \/ RegisterCreate(c)
    BY <1>0, <1>4, NextPresented DEF RegisterFind, RegisterCount, RegisterCreate
  <1>5. CASE LoginFind(c) \/ LoginRecord(c) \/ LoginLock(c) \/ LoginReset(c)
    BY <1>0, <1>5, NextPresented DEF LoginFind, LoginRecord, LoginLock, LoginReset
  <1>6. CASE IssueTokens(c) \/ LogoutRevoke(c)
    BY <1>0, <1>6, NextPresented DEF IssueTokens, LogoutRevoke
  <1>7. CASE RefreshFind(c) \/ RefreshRevoke(c) \/ RefreshUser(c)
    BY <1>0, <1>7, NextPresented DEF RefreshFind, RefreshRevoke, RefreshUser
  <1> QED
    BY <1>1, <1>2, <1>3, <1>4, <1>5, <1>6, <1>7 DEF Arrive, Step

LEMMA PresentedStep ==
  ASSUME TypeInv, PresentedInv, [Next]_vars
  PROVE  PresentedInv'
  <1>0. req \in [Clients -> Request] /\ held \subseteq held'
    BY HeldGrows DEF TypeInv, TypeOK
  <1>1. ASSUME NEW d \in Clients, req'[d] = req[d] PROVE Presented(req[d])'
    BY <1>0, <1>1 DEF PresentedInv, Presented
  <1>2. CASE req' = [c \in Clients |-> NoRequest]
    BY <1>2 DEF PresentedInv, Presented, NoRequest
  <1>3. CASE UNCHANGED req
    BY <1>1, <1>3 DEF PresentedInv
  <1>4. ASSUME NEW c \in Clients, Arrive(c) \/ Step(c),
               \A d \in Clients \ {c} : req'[d] = req[d]
        PROVE  PresentedInv'
    BY <1>0, <1>1, <1>4, PresentedOwn DEF PresentedInv
  <1> QED
    BY <1>0, <1>2, <1>3, <1>4, OthersWait

-----------------------------------------------------------------------------


\* A step that only moves counters, locks and expiries is none of Accounts.
LEMMA AccountsStay ==
  ASSUME \A e \in Emails : users'[e].role = users[e].role /\ users'[e].password = users[e].password,
         \A t \in RefreshTokens : sessions'[t].user = sessions[t].user
                                  /\ sessions'[t].state = sessions[t].state,
         UNCHANGED <<held, access, parent>>
  PROVE  UNCHANGED Accounts!accountsVars
  BY DEF Accounts!accountsVars, Accounts!account, Accounts!session, Accounts!handed

LEMMA RegisterRefines ==
  ASSUME CaptureInv, PresentedInv, NEW c \in Clients, RegisterCreate(c)
  PROVE  [Accounts!AccountsNext]_Accounts!accountsVars
  <1>0. /\ users \in [Emails -> UserRow]
        /\ Waits(c, "registerCreate") /\ UNCHANGED <<sessions, held, access, parent>>
        /\ Captured(req[c]) /\ Presented(req[c]) /\ RequestOK(req[c])
    BY DEF CaptureInv, TypeInv, TypeOK, PresentedInv, RegisterCreate, Tokens
  <1>1. PICK e \in ValidEmails, pw \in StrongPasswords, role \in {"admin", "user"} :
           e \in Emails /\ e = req[c].email /\ pw = req[c].password /\ role = req[c].role
    BY <1>0, AuthAssumption DEF Waits, Presented, RequestOK, Roles
  <1>2. CASE UNCHANGED users
    BY <1>0, <1>2, AccountsStay
  <1>3. CASE ~Exists(e) /\ InsertUser(e, pw, role)
    <2>1. /\ users'[e].role = role /\ users'[e].password = pw
          /\ \A f \in Emails \ {e} : users'[f] = users[f]
      BY <1>0, <1>1, <1>3 DEF InsertUser, NoUser
    <2>2. [f \in Emails |-> users'[f].role] = [[f \in Emails |-> users[f].role] EXCEPT ![e] = role]
      BY <1>1, <2>1
    <2>3. [f \in Emails |-> users'[f].password]
             = [[f \in Emails |-> users[f].password] EXCEPT ![e] = pw]
      BY <1>1, <2>1
    <2>4. (\A f \in Emails : users[f].role = "none") => role = "admin"
      BY <1>0, <1>1 DEF Captured, Waits, Registered, Exists
    <2>5. [f \in Emails |-> users[f].role][e] = "none"
      BY <1>1, <1>3 DEF Exists
    <2>6. UNCHANGED <<[t \in RefreshTokens |-> sessions[t].user],
                      [t \in RefreshTokens |-> sessions[t].state], parent, held, access>>
      BY <1>0
    <2>7. Accounts!CreateAccount(e)
      <3>1. ~Accounts!Has(e)
        BY <2>5 DEF Accounts!Has
      <3>2. (\A f \in Emails : ~Accounts!Has(f)) => role = "admin"
        BY <2>4 DEF Accounts!Has
      <3> QED
        BY <1>1, <2>2, <2>3, <2>6, <3>1, <3>2
           DEF Accounts!CreateAccount, Accounts!session, Accounts!handed
    <2> QED
      BY <1>1, <2>7 DEF Accounts!AccountsNext
  <1> QED
    BY <1>1, <1>2, <1>3 DEF RegisterCreate

LEMMA IssueRefines ==
  ASSUME CaptureInv, PresentedInv, NEW c \in Clients, IssueTokens(c)
  PROVE  [Accounts!AccountsNext]_Accounts!accountsVars
  <1> DEFINE e == req[c].email
             p == req[c].token
  <1>0. /\ sessions \in [RefreshTokens -> SessionRow]
        /\ Waits(c, "issueTokens") /\ UNCHANGED users
        /\ parent \in [RefreshTokens -> RefreshTokens \cup {Nil}]
        /\ Captured(req[c]) /\ Presented(req[c]) /\ RequestOK(req[c])
        /\ p \in RefreshTokens \cup {Nil}
    BY DEF CaptureInv, TypeInv, TypeOK, PresentedInv, IssueTokens, Request
  <1>1. /\ e \in Emails /\ users[e].role = req[c].role /\ req[c].role \in Roles
        /\ p \in held \cup {Nil}
        /\ p # Nil => /\ p \in RefreshTokens
                      /\ sessions[p].state = "revoked" /\ sessions[p].user = e
    BY <1>0 DEF Waits, Presented, Captured, RequestOK, NamesUser, Statements
  <1>2. CASE UNCHANGED Tokens
    BY <1>0, <1>2, AccountsStay DEF Tokens
  <1>3. ASSUME NEW t \in RefreshTokens, sessions[t].state = "absent", InsertSession(t, e),
               parent' = [parent EXCEPT ![t] = p],
               \/ /\ held' = held \cup {t}
                  /\ access' = access \cup {[user |-> e, role |-> req[c].role]}
               \/ UNCHANGED <<held, access>>
        PROVE  Accounts!OpenSession(t)
    <2>1. /\ sessions'[t].user = e /\ sessions'[t].state = "active"
          /\ \A u \in RefreshTokens \ {t} : sessions'[u] = sessions[u]
      BY <1>0, <1>3 DEF InsertSession
    <2>2. [u \in RefreshTokens |-> sessions'[u].state]
             = [[u \in RefreshTokens |-> sessions[u].state] EXCEPT ![t] = "active"]
      BY <2>1
    <2>3. [u \in RefreshTokens |-> sessions'[u].user]
             = [[u \in RefreshTokens |-> sessions[u].user] EXCEPT ![t] = e]
      BY <2>1
    <2>4. Accounts!Entitled(e, p)
      BY <1>1 DEF Accounts!Entitled, Accounts!Has, Roles
    <2>5. [u \in RefreshTokens |-> sessions[u].state][t] = "absent"
      BY <1>3
    <2>6. [f \in Emails |-> users[f].role][e] = req[c].role
      BY <1>1
    <2>7. UNCHANGED Accounts!account
      BY <1>0 DEF Accounts!account
    <2>8. \/ /\ held' = held \cup {t}
             /\ access' = access \cup {[user |-> e, role |-> [f \in Emails |-> users[f].role][e]]}
          \/ UNCHANGED Accounts!handed
      BY <1>3, <2>6 DEF Accounts!handed
    <2> HIDE DEF e, p
    <2> QED
      BY <1>1, <1>3, <2>2, <2>3, <2>4, <2>5, <2>7, <2>8 DEF Accounts!OpenSession
  <1>4. \/ UNCHANGED Tokens
        \/ \E t \in RefreshTokens :
              /\ sessions[t].state = "absent" /\ InsertSession(t, e)
              /\ parent' = [parent EXCEPT ![t] = p]
              /\ \/ /\ held' = held \cup {t}
                    /\ access' = access \cup {[user |-> e, role |-> req[c].role]}
                 \/ UNCHANGED <<held, access>>
    BY DEF IssueTokens
  <1> HIDE DEF e, p
  <1> QED
    BY <1>2, <1>3, <1>4 DEF Accounts!AccountsNext

LEMMA RevokeRefines ==
  ASSUME CaptureInv, PresentedInv, NEW c \in Clients, RefreshRevoke(c) \/ LogoutRevoke(c)
  PROVE  [Accounts!AccountsNext]_Accounts!accountsVars
  <1>0. /\ sessions \in [RefreshTokens -> SessionRow]
        /\ UNCHANGED <<users, held, access, parent>>
        /\ Presented(req[c])
        /\ req[c].token \in RefreshTokens \cup {Nil}
    BY DEF CaptureInv, TypeInv, TypeOK, PresentedInv, RefreshRevoke, LogoutRevoke, Request
  <1> PICK t \in RefreshTokens \cup {Nil} : t = req[c].token
    BY <1>0
  <1>1. CASE UNCHANGED sessions
    BY <1>0, <1>1, AccountsStay
  <1>2. CASE /\ t \in RefreshTokens /\ sessions[t].state = "active"
             /\ sessions' = [sessions EXCEPT ![t].state = "revoked"]
    <2>0. t \in RefreshTokens
      BY <1>2
    <2>1. /\ sessions'[t].user = sessions[t].user /\ sessions'[t].state = "revoked"
          /\ \A u \in RefreshTokens \ {t} : sessions'[u] = sessions[u]
      BY <1>0, <1>2 DEF SessionRow
    <2>2. [u \in RefreshTokens |-> sessions'[u].state]
             = [[u \in RefreshTokens |-> sessions[u].state] EXCEPT ![t] = "revoked"]
      BY <2>0, <2>1
    <2>3. [u \in RefreshTokens |-> sessions'[u].user] = [u \in RefreshTokens |-> sessions[u].user]
      BY <2>0, <2>1
    <2>4. t \in held
      BY <1>0, <1>2, AuthAssumption DEF Presented
    <2>5. [u \in RefreshTokens |-> sessions[u].state][t] = "active"
      BY <1>2
    <2>6. UNCHANGED <<[f \in Emails |-> users[f].role], [f \in Emails |-> users[f].password],
                      parent, held, access>>
      BY <1>0
    <2>7. Accounts!RevokeSession(t)
      BY <2>2, <2>3, <2>4, <2>5, <2>6
         DEF Accounts!RevokeSession, Accounts!account, Accounts!handed
    <2> QED
      BY <1>2, <2>7 DEF Accounts!AccountsNext
  <1> QED
    BY <1>1, <1>2 DEF RefreshRevoke, LogoutRevoke, Revoke

LEMMA AccountsRefined ==
  ASSUME CaptureInv, PresentedInv, [Next]_vars
  PROVE  [Accounts!AccountsNext]_Accounts!accountsVars
  <1>0. users \in [Emails -> UserRow] /\ sessions \in [RefreshTokens -> SessionRow]
    BY DEF CaptureInv, TypeInv, TypeOK
  <1>1. ASSUME UNCHANGED <<users, sessions, held, access, parent>>
        PROVE  UNCHANGED Accounts!accountsVars
    BY <1>1, AccountsStay
  <1>2. ASSUME NEW c \in Clients, ReadOnly(c) PROVE UNCHANGED Accounts!accountsVars
    BY <1>1, <1>2, ReadOnlySteps DEF Tables
  <1>3. ASSUME NEW c \in Clients, LoginRecord(c) \/ LoginLock(c) \/ LoginReset(c)
        PROVE  UNCHANGED Accounts!accountsVars
    <2>1. \A e \in Emails : users'[e].role = users[e].role /\ users'[e].password = users[e].password
      BY <1>0, <1>3 DEF LoginRecord, LoginLock, LoginReset, RecordFailedAttempt, LockAccount,
         ResetFailedAttempts, UserRow
    <2>2. UNCHANGED <<sessions, held, access, parent>>
      BY <1>3 DEF LoginRecord, LoginLock, LoginReset, Tokens
    <2> QED
      BY <2>1, <2>2, AccountsStay
  <1>4. ASSUME NEW e \in Emails, LockExpires(e) PROVE UNCHANGED Accounts!accountsVars
    <2>1. \A f \in Emails : users'[f].role = users[f].role /\ users'[f].password = users[f].password
      BY <1>0, <1>4 DEF LockExpires, UserRow
    <2>2. UNCHANGED <<sessions, held, access, parent>>
      BY <1>4 DEF LockExpires, Tokens
    <2> QED
      BY <2>1, <2>2, AccountsStay
  <1>5. ASSUME NEW t \in RefreshTokens, SessionExpires(t) PROVE UNCHANGED Accounts!accountsVars
    <2>1. \A u \in RefreshTokens :
             sessions'[u].user = sessions[u].user /\ sessions'[u].state = sessions[u].state
      BY <1>0, <1>5 DEF SessionExpires, SessionRow
    <2>2. UNCHANGED <<users, held, access, parent>>
      BY <1>5 DEF SessionExpires
    <2> QED
      BY <2>1, <2>2, AccountsStay
  <1>6. ASSUME NEW claim \in access, AccessExpires(claim) PROVE Accounts!AccountsNext
    <2>1. Accounts!ExpireClaim(claim)
      BY <1>6 DEF AccessExpires, Accounts!ExpireClaim, Accounts!account, Accounts!session
    <2> QED
      BY <2>1 DEF Accounts!AccountsNext
  <1>7. CASE Crash \/ UNCHANGED vars
    BY <1>1, <1>7 DEF Crash, Tokens, vars
  <1> QED
    BY <1>2, <1>3, <1>4, <1>5, <1>6, <1>7, RegisterRefines, IssueRefines, RevokeRefines
       DEF Next, Step, Clock, ReadOnly

LEMMA AccountsStart == Init => Accounts!AccountsInit
  BY DEF Init, NoUser, NoSession, Accounts!AccountsInit

LEMMA PresentedStart == Init => PresentedInv
  BY DEF Init, NoRequest, PresentedInv, Presented

\* The service implements Accounts: whatever the interleaving of its statements, their
\* faults and restarts, accounts are made once and never changed, and sessions are
\* opened, revoked and handed out as the contract says.
THEOREM AuthImplementsAccounts == Spec => KeepsAccounts
  <1>1. CaptureInv /\ PresentedInv /\ [Next]_vars => PresentedInv'
    BY PresentedStep DEF CaptureInv
  <1>2. CaptureInv /\ PresentedInv /\ [Next]_vars => [Accounts!AccountsNext]_Accounts!accountsVars
    BY AccountsRefined
  <1> QED
    BY <1>1, <1>2, AccountsStart, PresentedStart, CaptureInvariant, PTL
       DEF Spec, KeepsAccounts, Accounts!AccountsSpec
=============================================================================
