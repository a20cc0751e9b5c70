---------------------------- MODULE AuthService ----------------------------
(***************************************************************************)
(* The authentication service of the middleware: AuthRoute, AuthService,   *)
(* UserRepository and SessionRepository over the tables `users` and        *)
(* `user_sessions`.                                                        *)
(*                                                                         *)
(* Every service method is a chain of callbacks, one per execSqlAsync.     *)
(* Nothing is held between two calls of a chain (no transaction, no lock), *)
(* so other requests run there.  The unit of atomicity is therefore one    *)
(* SQL statement together with the callback that consumes its result: the  *)
(* callback reads only the result and what the request captured.  What a   *)
(* request has captured is its record in `req`; req[c].pc names the        *)
(* statement it waits for.                                                 *)
(*                                                                         *)
(* A statement can fail in two ways, and the service cannot tell which:    *)
(* it was not executed, or it was and the reply was lost (a timeout, a     *)
(* broken connection).  In both the error callback runs.                   *)
(*                                                                         *)
(* The definitions marked "Mutation" are not part of the system: each is a *)
(* plausible mistake in the definition that follows it, kept to show that  *)
(* a property notices.                                                     *)
(***************************************************************************)
EXTENDS Naturals, FiniteSets

CONSTANTS
    Clients,             \* connections; each carries one request at a time
    Routes,              \* the endpoints these clients call
    RawEmails,           \* emails as the clients type them
    Emails,              \* normalized emails; a user is known by its own
    normalizeEmail,      \* trims and lower-cases: RawEmails -> Emails
    ValidEmails,         \* the normalized emails isValidEmail accepts
    Passwords,
    StrongPasswords,     \* the passwords validatePassword accepts
    RefreshTokens,       \* the values generateRefreshToken can return
    MAX_FAILED_ATTEMPTS,
    Nil                  \* no email, no password, no token, a junk token

AllRoutes == {"register", "login", "refresh", "logout", "me"}

ASSUME AuthAssumption ==
    /\ Routes \subseteq AllRoutes
    /\ IsFiniteSet(Clients)
    /\ normalizeEmail \in [RawEmails -> Emails]
    /\ ValidEmails \subseteq Emails
    /\ StrongPasswords \subseteq Passwords
    /\ MAX_FAILED_ATTEMPTS \in Nat \ {0}
    /\ Nil \notin Emails
    /\ Nil \notin Passwords
    /\ Nil \notin RefreshTokens

VARIABLES
    users,      \* the table users, by email
    sessions,   \* the table user_sessions, by refresh token
    req,        \* the request each client waits for, or its last answer
    held,       \* refresh tokens some client has received
    access,     \* claims of the unexpired access tokens in circulation
    parent,     \* history: the token whose exchange created a session
    streak      \* history: failed logins counted since the last successful
                \* login, the last lock expiry, or a fault on the way to a lock

vars == <<users, sessions, req, held, access, parent, streak>>

-----------------------------------------------------------------------------
(* Rows and requests.                                                      *)

Roles == {"admin", "user"}

\* locked_until is NULL, in the future, or in the past.
UserRow == [role: Roles \cup {"none"}, password: Passwords \cup {Nil},
            failed: 0..MAX_FAILED_ATTEMPTS,
            lockedUntil: {"null", "future", "past"}]

NoUser == [role |-> "none", password |-> Nil, failed |-> 0,
           lockedUntil |-> "null"]

\* is_active and revoked_at always change together: one field stands for both.
SessionRow == [user: Emails \cup {Nil}, state: {"absent", "active", "revoked"},
               expired: BOOLEAN]

NoSession == [user |-> Nil, state |-> "absent", expired |-> FALSE]

Claims == [user: Emails, role: Roles]

Statements == {"registerFind", "registerCount", "registerCreate",
               "loginFind", "loginRecord", "loginLock", "loginReset",
               "refreshFind", "refreshRevoke", "refreshUser",
               "logoutRevoke", "meFind", "issueTokens"}

Statuses == {0, 200, 201, 400, 401, 404, 409, 429, 500}

Request == [pc: Statements \cup {"idle"}, email: Emails \cup {Nil},
            password: Passwords \cup {Nil}, role: Roles \cup {"none"},
            token: RefreshTokens \cup {Nil}, status: Statuses]

NoRequest == [pc |-> "idle", email |-> Nil, password |-> Nil, role |-> "none",
              token |-> Nil, status |-> 0]

Exists(e) == users[e].role # "none"
IsLocked(e) == users[e].lockedUntil = "future"
Registered == {e \in Emails : Exists(e)}

\* Mutation: the WHERE clause without is_active and revoked_at.
IsValidAnyState(t) ==
    t \in RefreshTokens /\ sessions[t].state # "absent" /\ ~sessions[t].expired

\* findValidByHash: active, not revoked, not expired.
IsValid(t) ==
    t \in RefreshTokens /\ sessions[t].state = "active" /\ ~sessions[t].expired

\* Mutation: the first user is taken to be the one after the first.
FirstRoleOffByOne == IF Cardinality(Registered) = 1 THEN "admin" ELSE "user"

\* Mutation: the role does not depend on the count.
FirstRoleAlways == "admin"

\* registerUser: the first user becomes the admin.
FirstRole == IF Registered = {} THEN "admin" ELSE "user"

\* The counter is only compared with the threshold, so it may saturate there.
NextFailed(e) ==
    IF users[e].failed < MAX_FAILED_ATTEMPTS THEN users[e].failed + 1
                                             ELSE MAX_FAILED_ATTEMPTS

\* Mutation: one attempt too many.
ReachesThresholdLate(e) == NextFailed(e) > MAX_FAILED_ATTEMPTS

ReachesThreshold(e) == NextFailed(e) >= MAX_FAILED_ATTEMPTS

-----------------------------------------------------------------------------
(* The statements that change a table.                                     *)

InsertUser(e, pw, role) ==
    users' = [users EXCEPT ![e] = [NoUser EXCEPT !.role = role, !.password = pw]]

RecordFailedAttempt(e) == users' = [users EXCEPT ![e].failed = NextFailed(e)]

\* Mutation: locked until 15 minutes ago.
LockAccountBackwards(e) == users' = [users EXCEPT ![e].lockedUntil = "past"]

LockAccount(e) == users' = [users EXCEPT ![e].lockedUntil = "future"]

ResetFailedAttempts(e) ==
    users' = [users EXCEPT ![e].failed = 0, ![e].lockedUntil = "null"]

InsertSession(t, e) ==
    sessions' = [sessions EXCEPT ![t] =
                   [user |-> e, state |-> "active", expired |-> FALSE]]

\* Mutation: the UPDATE matches nothing.
RevokeNothing(t) == UNCHANGED sessions

\* revokeByHash: WHERE is_active = TRUE, whatever the expiry; no row is fine.
Revoke(t) ==
    sessions' = IF t \in RefreshTokens /\ sessions[t].state = "active"
                THEN [sessions EXCEPT ![t].state = "revoked"]
                ELSE sessions

-----------------------------------------------------------------------------
(* Answering and continuing a request.                                     *)

Idle(c) == req[c].pc = "idle"
Waits(c, statement) == req[c].pc = statement

Becomes(c, r) == req' = [req EXCEPT ![c] = r]
Answer(c, code) == Becomes(c, [NoRequest EXCEPT !.status = code])
Ask(c, statement, e, pw) ==
    Becomes(c, [NoRequest EXCEPT !.pc = statement, !.email = e, !.password = pw])
Present(c, statement, t) == Becomes(c, [NoRequest EXCEPT !.pc = statement, !.token = t])
Continue(c, statement) == Becomes(c, [req[c] EXCEPT !.pc = statement])
ContinueAs(c, statement, role) ==
    Becomes(c, [req[c] EXCEPT !.pc = statement, !.role = role])
ContinueFor(c, statement, e) ==
    Becomes(c, [req[c] EXCEPT !.pc = statement, !.email = e])

Tables == <<users, sessions, held, access, parent, streak>>
Tokens == <<sessions, held, access, parent>>

Init ==
    /\ users = [e \in Emails |-> NoUser]
    /\ sessions = [t \in RefreshTokens |-> NoSession]
    /\ req = [c \in Clients |-> NoRequest]
    /\ held = {}
    /\ access = {}
    /\ parent = [t \in RefreshTokens |-> Nil]
    /\ streak = [e \in Emails |-> 0]

-----------------------------------------------------------------------------
(* POST /api/auth/register                                                 *)

\* A body without both strings, a malformed email or a weak password is 400.
RegisterUser(c) ==
    /\ "register" \in Routes
    /\ Idle(c)
    /\ \/ Answer(c, 400)
       \/ \E raw \in RawEmails, pw \in StrongPasswords :
            /\ normalizeEmail[raw] \in ValidEmails
            /\ Ask(c, "registerFind", normalizeEmail[raw], pw)
    /\ UNCHANGED Tables

\* The error is the database's, or PasswordHasher::hash throwing.
RegisterFind(c) ==
    /\ Waits(c, "registerFind")
    /\ \/ Exists(req[c].email) /\ Answer(c, 409)
       \/ ~Exists(req[c].email) /\ Continue(c, "registerCount")
       \/ Answer(c, 500)
    /\ UNCHANGED Tables

\* The role is decided here, one statement before the row is created.
RegisterCount(c) ==
    /\ Waits(c, "registerCount")
    /\ \/ ContinueAs(c, "registerCreate", FirstRole)
       \/ Answer(c, 500)
    /\ UNCHANGED Tables

\* Mutation: the INSERT replaces the row of a duplicate email.
RegisterCreateUpsert(c) ==
    LET r == req[c] IN
    /\ Waits(c, "registerCreate")
    /\ \/ /\ InsertUser(r.email, r.password, r.role)
          /\ Answer(c, 201) \/ Answer(c, 500)
       \/ Answer(c, 500) /\ UNCHANGED users
    /\ UNCHANGED <<Tokens, streak>>

\* A duplicate email violates UNIQUE and takes the error callback: 500.
RegisterCreate(c) ==
    LET r == req[c] IN
    /\ Waits(c, "registerCreate")
    /\ \/ /\ ~Exists(r.email)
          /\ InsertUser(r.email, r.password, r.role)
          /\ Answer(c, 201) \/ Answer(c, 500)
       \/ Answer(c, 500) /\ UNCHANGED users
    /\ UNCHANGED <<Tokens, streak>>

-----------------------------------------------------------------------------
(* POST /api/auth/login                                                    *)

Login(c) ==
    /\ "login" \in Routes
    /\ Idle(c)
    /\ \/ Answer(c, 400)
       \/ \E raw \in RawEmails, pw \in Passwords :
            Ask(c, "loginFind", normalizeEmail[raw], pw)
    /\ UNCHANGED Tables

\* The row is read once: the lock, the hash and the role checked or captured
\* here are the ones of this moment.
LoginFind(c) ==
    LET e == req[c].email
        row == users[e]
    IN
    /\ Waits(c, "loginFind")
    /\ \/ ~Exists(e) /\ Answer(c, 401)
       \/ Exists(e) /\ IsLocked(e) /\ Answer(c, 429)
       \/ /\ Exists(e)
          /\ ~IsLocked(e)
          /\ row.password # req[c].password
          /\ Continue(c, "loginRecord")
       \/ /\ Exists(e)
          /\ ~IsLocked(e)
          /\ row.password = req[c].password
          /\ ContinueAs(c, "loginReset", row.role)
       \/ Answer(c, 500)
    /\ UNCHANGED Tables

\* recordFailedAttempt increments and returns the new value in one statement.
LoginRecord(c) ==
    LET e == req[c].email IN
    /\ Waits(c, "loginRecord")
    /\ \/ /\ RecordFailedAttempt(e)
          /\ streak' = [streak EXCEPT ![e] = @ + 1]
          /\ IF ReachesThreshold(e)
             THEN Continue(c, "loginLock")
             ELSE Answer(c, 401)
       \/ /\ RecordFailedAttempt(e)
          /\ streak' = [streak EXCEPT ![e] = 0]
          /\ Answer(c, 401)
       \/ Answer(c, 401) /\ UNCHANGED <<users, streak>>
    /\ UNCHANGED Tokens

LoginLock(c) ==
    LET e == req[c].email IN
    /\ Waits(c, "loginLock")
    /\ \/ /\ LockAccount(e)
          /\ Answer(c, 429) \/ Answer(c, 401)
          /\ UNCHANGED streak
       \/ /\ Answer(c, 401)
          /\ streak' = [streak EXCEPT ![e] = 0]
          /\ UNCHANGED users
    /\ UNCHANGED Tokens

LoginReset(c) ==
    LET e == req[c].email IN
    /\ Waits(c, "loginReset")
    /\ \/ /\ ResetFailedAttempts(e)
          /\ streak' = [streak EXCEPT ![e] = 0]
          /\ Continue(c, "issueTokens") \/ Answer(c, 500)
       \/ Answer(c, 500) /\ UNCHANGED <<users, streak>>
    /\ UNCHANGED Tokens

-----------------------------------------------------------------------------
(* issueTokens: the end of login and of refresh.                           *)

\* Mutation: the pair is handed out without waiting for the INSERT.
IssueTokensUnconfirmed(c) ==
    LET r == req[c] IN
    /\ Waits(c, "issueTokens")
    /\ \E t \in RefreshTokens :
         /\ sessions[t].state = "absent"
         /\ InsertSession(t, r.email) \/ UNCHANGED sessions
         /\ parent' = [parent EXCEPT ![t] = r.token]
         /\ Answer(c, 200)
         /\ held' = held \cup {t}
         /\ access' = access \cup {[user |-> r.email, role |-> r.role]}
    /\ UNCHANGED <<users, streak>>

\* Both tokens are made first (JWT_SECRET or /dev/urandom may fail: 500); the
\* client receives them only when the session row's INSERT is confirmed.
IssueTokens(c) ==
    LET r == req[c] IN
    /\ Waits(c, "issueTokens")
    /\ \/ \E t \in RefreshTokens :
            /\ sessions[t].state = "absent"
            /\ InsertSession(t, r.email)
            /\ parent' = [parent EXCEPT ![t] = r.token]
            /\ \/ /\ Answer(c, 200)
                  /\ held' = held \cup {t}
                  /\ access' = access \cup {[user |-> r.email, role |-> r.role]}
               \/ Answer(c, 500) /\ UNCHANGED <<held, access>>
       \/ Answer(c, 500) /\ UNCHANGED Tokens
    /\ UNCHANGED <<users, streak>>

-----------------------------------------------------------------------------
(* POST /api/auth/refresh                                                  *)

\* The presented token is one that was handed out, or junk (Nil).
Refresh(c) ==
    /\ "refresh" \in Routes
    /\ Idle(c)
    /\ \/ Answer(c, 400)
       \/ Answer(c, 500)      \* sha256Hex threw
       \/ \E t \in held \cup {Nil} :
            Present(c, "refreshFind", t)
    /\ UNCHANGED Tables

\* Mutation: the user id is not the one of the session that was found.
RefreshFindOtherUser(c) ==
    /\ Waits(c, "refreshFind")
    /\ IsValid(req[c].token)
    /\ \E e \in Registered :
         ContinueFor(c, "refreshRevoke", e)
    /\ UNCHANGED Tables

RefreshFind(c) ==
    LET t == req[c].token IN
    /\ Waits(c, "refreshFind")
    /\ \/ ~IsValid(t) /\ Answer(c, 401)
       \/ /\ IsValid(t)
          /\ ContinueFor(c, "refreshRevoke", sessions[t].user)
       \/ Answer(c, 500)
    /\ UNCHANGED Tables

\* The callback does not look at how many rows the UPDATE changed.
RefreshRevoke(c) ==
    /\ Waits(c, "refreshRevoke")
    /\ \/ Revoke(req[c].token) /\ (Continue(c, "refreshUser") \/ Answer(c, 500))
       \/ Answer(c, 500) /\ UNCHANGED sessions
    /\ UNCHANGED <<users, held, access, parent, streak>>

\* Mutation: the row's role is not read, User's default stays.
RefreshUserDefaultRole(c) ==
    /\ Waits(c, "refreshUser")
    /\ Exists(req[c].email)
    /\ ContinueAs(c, "issueTokens", "user")
    /\ UNCHANGED Tables

RefreshUser(c) ==
    LET e == req[c].email IN
    /\ Waits(c, "refreshUser")
    /\ \/ ~Exists(e) /\ Answer(c, 401)
       \/ /\ Exists(e)
          /\ ContinueAs(c, "issueTokens", users[e].role)
       \/ Answer(c, 500)
    /\ UNCHANGED Tables

-----------------------------------------------------------------------------
(* POST /api/auth/logout and GET /api/auth/me, behind JwtAuthFilter.       *)

\* JwtAuthFilter: no access token, a malformed one or an expired one.
Unauthorized(c) == Answer(c, 401)

\* Any valid access token opens logout, whoever owns the refresh token.
Logout(c) ==
    /\ "logout" \in Routes
    /\ Idle(c)
    /\ \/ Unauthorized(c)
       \/ access # {} /\ (Answer(c, 400) \/ Answer(c, 500))
       \/ /\ access # {}
          /\ \E t \in held \cup {Nil} :
               Present(c, "logoutRevoke", t)
    /\ UNCHANGED Tables

\* Mutation: no callback when there is no row to revoke.
LogoutRevokeSilent(c) ==
    /\ Waits(c, "logoutRevoke")
    /\ IsValid(req[c].token)
    /\ Revoke(req[c].token)
    /\ Answer(c, 200)
    /\ UNCHANGED <<users, held, access, parent, streak>>

LogoutRevoke(c) ==
    /\ Waits(c, "logoutRevoke")
    /\ \/ Revoke(req[c].token) /\ (Answer(c, 200) \/ Answer(c, 500))
       \/ Answer(c, 500) /\ UNCHANGED sessions
    /\ UNCHANGED <<users, held, access, parent, streak>>

Me(c) ==
    /\ "me" \in Routes
    /\ Idle(c)
    /\ \/ Unauthorized(c)
       \/ \E claim \in access :
            Ask(c, "meFind", claim.user, Nil)
    /\ UNCHANGED Tables

MeFind(c) ==
    /\ Waits(c, "meFind")
    /\ \/ Exists(req[c].email) /\ Answer(c, 200)
       \/ ~Exists(req[c].email) /\ Answer(c, 404)
       \/ Answer(c, 500)
    /\ UNCHANGED Tables

-----------------------------------------------------------------------------
(* The clock, and the process stopping.                                    *)

LockExpires(e) ==
    /\ IsLocked(e)
    /\ users' = [users EXCEPT ![e].lockedUntil = "past"]
    /\ streak' = [streak EXCEPT ![e] = 0]
    /\ UNCHANGED <<req, Tokens>>

SessionExpires(t) ==
    /\ IsValid(t)
    /\ sessions' = [sessions EXCEPT ![t].expired = TRUE]
    /\ UNCHANGED <<users, req, held, access, parent, streak>>

AccessExpires(claim) ==
    /\ claim \in access
    /\ access' = access \ {claim}
    /\ UNCHANGED <<users, sessions, req, held, parent, streak>>

\* The chains in flight are lost with the process; the tables are not.
Crash ==
    /\ \E c \in Clients : ~Idle(c)
    /\ req' = [c \in Clients |-> NoRequest]
    /\ streak' = [e \in Emails |-> 0]
    /\ UNCHANGED <<users, Tokens>>

-----------------------------------------------------------------------------

Arrive(c) == RegisterUser(c) \/ Login(c) \/ Refresh(c) \/ Logout(c) \/ Me(c)

Step(c) ==
    \/ RegisterFind(c) \/ RegisterCount(c) \/ RegisterCreate(c)
    \/ LoginFind(c) \/ LoginRecord(c) \/ LoginLock(c) \/ LoginReset(c)
    \/ IssueTokens(c)
    \/ RefreshFind(c) \/ RefreshRevoke(c) \/ RefreshUser(c)
    \/ LogoutRevoke(c) \/ MeFind(c)

Clock ==
    \/ \E e \in Emails : LockExpires(e)
    \/ \E t \in RefreshTokens : SessionExpires(t)
    \/ \E claim \in access : AccessExpires(claim)

Next ==
    \/ \E c \in Clients : Arrive(c) \/ Step(c)
    \/ Clock
    \/ Crash

Spec == Init /\ [][Next]_vars

\* Every execSqlAsync ends in one of its two callbacks (the client's timeout
\* is 30 s), so a request that waits for a statement does not wait for ever.
FairSpec == Spec /\ \A c \in Clients : WF_vars(Step(c))

-----------------------------------------------------------------------------
(* Properties.                                                             *)

\* Every row, request and counter has its type.
TypeOK ==
    /\ users \in [Emails -> UserRow]
    /\ sessions \in [RefreshTokens -> SessionRow]
    /\ req \in [Clients -> Request]
    /\ held \subseteq RefreshTokens
    /\ access \subseteq Claims
    /\ parent \in [RefreshTokens -> RefreshTokens \cup {Nil}]
    /\ streak \in [Emails -> Nat]

\* An account belongs to whoever's INSERT came first.  Two registrations of one
\* email, in any spelling, may both find it free, and both be told nothing of it
\* until their own INSERT; the second never changes what the first stored.
FirstRegistrationWins ==
    [][\A e \in Emails : Exists(e) =>
          users'[e].role = users[e].role /\ users'[e].password = users[e].password]_vars

Admins == {e \in Emails : users[e].role = "admin"}

\* As soon as one account exists, some account is an admin: however the
\* registrations interleave, the one that filled the empty table had counted
\* zero users ("so the system is usable out of the box").
UsableOutOfTheBox == Registered # {} => Admins # {}

\* The count and the INSERT are two statements, so several accounts may become
\* admin; never more than there were registrations in flight together.
AdminsBounded == Cardinality(Admins) <= Cardinality(Clients)

\* The lock is checked on a row read before the password is verified and the
\* failure counted, so a burst of logins can pass the threshold: between two
\* of the events that end a streak, the failures counted exceed
\* MAX_FAILED_ATTEMPTS - 1 by at most the number of requests in flight.
LockoutBounded ==
    \A e \in Emails :
        streak[e] <= (MAX_FAILED_ATTEMPTS - 1) + Cardinality(Clients)

Children(t) == {u \in RefreshTokens : parent[u] = t}

\* Rotation revokes before it issues: a session that came from exchanging a
\* token exists only once that token is revoked, whatever failed in between.
RotationRevokesFirst ==
    \A t \in RefreshTokens :
        Children(t) # {} => sessions[t].state = "revoked"

\* The check for validity and the revocation are two statements, so one token
\* may be exchanged several times; never more often than by as many requests
\* as were in flight together.
RotationBounded ==
    \A t \in RefreshTokens : Cardinality(Children(t)) <= Cardinality(Clients)

\* The requests that found t valid and may still issue a pair for it.
Exchangers(t) ==
    {c \in Clients : req[c].token = t
                     /\ req[c].pc \in {"refreshRevoke", "refreshUser", "issueTokens"}}

\* Once a token is revoked, by logout or by rotation, nobody starts to exchange
\* it: only requests that had found it valid before can still complete.
RevokedIsRejected ==
    [][\A t \in RefreshTokens : sessions[t].state = "revoked" =>
          sessions'[t].state = "revoked" /\ Exchangers(t)' \subseteq Exchangers(t)]_vars

\* A session belongs to the user its parent session belonged to: the user id
\* captured before the revocation is the one the new pair is issued to.
RotationKeepsUser ==
    \A t \in RefreshTokens :
        \A u \in Children(t) : sessions[u].user = sessions[t].user

\* An access token in circulation names an existing user and the role that
\* user's row has, though it was built from a row read several statements ago.
ClaimsMatchUsers ==
    \A claim \in access : users[claim.user].role = claim.role

\* An account whose failures reached the threshold is locked or has a lockAccount
\* under way, unless a fault, a success or the lock's expiry ended the streak.
ThresholdLeadsToLock ==
    \A e \in Emails :
        (streak[e] >= MAX_FAILED_ATTEMPTS /\ ~IsLocked(e))
            => \E c \in Clients : Waits(c, "loginLock") /\ req[c].email = e

\* Every request is answered: no path of the callback chains drops it.
RequestsAnswered ==
    \A c \in Clients : ~Idle(c) ~> Idle(c)

Accounts == INSTANCE Accounts WITH
    role <- [e \in Emails |-> users[e].role],
    password <- [e \in Emails |-> users[e].password],
    user <- [t \in RefreshTokens |-> sessions[t].user],
    state <- [t \in RefreshTokens |-> sessions[t].state]

\* The service keeps the promises of Accounts, though each of them rests on what
\* earlier statements of a chain had read: an account never changes and the first is
\* an admin's, and a session has a revoked parent of its own user, or none.
KeepsAccounts == Accounts!AccountsSpec

(* What the repository's documents say, and the code does not do.          *)

\* README: "The first registered user is automatically assigned the admin
\* role. All subsequent users get user."
OnlyFirstIsAdmin == Cardinality(Admins) <= 1

\* README: refresh is to "Exchange a refresh token for a new token pair".
OneExchangePerToken ==
    \A t \in RefreshTokens : Cardinality(Children(t)) <= 1
=============================================================================
