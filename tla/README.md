# WebHawk in TLA+

WebHawk is a reverse proxy with a web application firewall. Four programs make it
up: the **middleware** (authentication, registry of backends, proxy), the
**security engine** (rate limit, SQL-injection and XSS detection, attack log), a
PostgreSQL database and a Redis server. All of it is C++ on the Drogon framework,
and everything that leaves a process is asynchronous: a handler sends a statement,
a command or a request and continues in a callback, on one of four event loops.
There are no transactions and no locks around sequences of statements, so the
hard questions are all of one kind: what may have happened between two callbacks
of one chain, and what is left when one step of a chain fails.

This directory models those chains, checks them with TLC on small instances and
proves their safety properties with TLAPS for every value of the constants.

## Inventory

| Component | Source | State | Operations | Talks to |
|---|---|---|---|---|
| Authentication | `middleware/src/services/AuthService.cc`, `routes/AuthRoute.cc` | none of its own; what each chain captured | register, login, refresh, logout, me | user and session repositories |
| User repository | `repositories/UserRepository.cc` | table `users` (hash, role, failed attempts, lock) | find, count, create, record failure, lock, reset | PostgreSQL |
| Session repository | `repositories/SessionRepository.cc` | table `user_sessions` (hash, active, expiry) | create, find valid, revoke | PostgreSQL |
| Access-token filter, admin filter | `filters/*.cc`, `utils/JwtHelper.cc` | none (tokens carry their claims) | admit or refuse | routes behind them |
| Backend registry | `routes/RegistrationRoute.cc`, `services/RegistrationService.cc`, `repositories/BackendRepository.cc` | table `backend_registration` | register, list, deactivate, find by key | PostgreSQL, proxy |
| Proxy | `routes/ProxyRoute.cc`, `services/ProxyService.cc`, `services/SecurityClient.cc` | what each chain captured | lookup, scan, forward | registry, engine, backends |
| Scan endpoint, detectors | `security-engine/src/routes/ScanRoute.cc`, `services/*Detector.cc` | none | scan | limiter, log |
| Rate limiter | `services/RateLimiter.cc` | a Redis counter per address, an atomic flag per scan | checkBlocked | Redis, the main loop's timers |
| Security log | `repositories/SecurityLogRepository.cc` | table `security_logs` | log (not waited for) | PostgreSQL |
| Hashing, signatures, keys | `utils/*` | a once-flag, the signing key | hash, verify, sign, draw, digest | authentication, registry |
| Services made on first use | `routes/*.h` | a mutex and a pointer per route | get | all routes |
| Start-up, vulnerable backend, scripts | `main.cc`, `vulnerable-backend/`, `test_e2e.sh` | | | |

What is hard to test, and the properties that would catch it, is listed at its
line under `hazards` in `PROJECT.json`. In short:

* **Authentication.** Checks and the writes they justify are separate statements:
  the role of a first user, the lock of an account, the validity of a refresh
  token. Correct means: somebody is always admin; a burst of logins passes the
  lockout by a bounded number; a session from a rotation exists only once its
  parent is revoked; nobody *starts* to exchange a revoked token; captured user
  ids and roles still agree with the rows when they are used; every chain answers. All of
  this also when a statement executes long after its client was told that it failed.
* **Rate limiter.** Reply, error and timer race for one callback, on two loops; the
  TTL is a second command. Correct means: the callback runs once, the limit is
  exact, a counter lacks its TTL only by a fault, every scan is answered.
* **Scan endpoint.** Failing open must skip the limit and not the detectors; the log
  must agree with the answers.
* **Proxy.** Failing closed; no backend sees a request that was refused or has an
  attack in it; deactivation closes a backend to later requests; every path of
  three nested callback pairs answers; a registration that failed leaves at most one row.
* **Together.** What the log calls blocked was not forwarded; the limit bounds what reaches
  backends; rows of the registry were asked for by admins.
* **First use.** One service, one outcome of `sodium_init`, and a failure that releases what it held.
* **Texts.** Every spelling of an address is one account; a token finds its own session; the
  loops of the detectors miss nothing.

## Plan

In order of importance. Everything below is built.

1. `AuthService` with its runs and `AuthServiceProofs`; `Accounts` (abstract), refinement
   checked and proved.
2. `RateLimiter`, proved in `ScanRouteProofs` with what runs it.
3. `ScanContract` (abstract), `ScanRoute` over `RateLimiter`, refinement checked and
   proved.
4. `Gateway` (abstract), `Proxy` over `ScanContract`, refinement checked and proved.
5. Statements that execute after their error callback has run: `AuthLate` over
   `AuthService`, and in `Proxy` itself.
6. The whole way of a request as one module: `Pipeline`, `Proxy` over `ScanRoute`
   itself instead of its contract, with the log on the other side.
7. Admin authority across modules: `AdminAccess`, the registry of `Proxy` behind the
   filters, with the claims that `AuthLate` issues.
8. What is made on first use: `LazyInit`, `LazyInitProofs`.
9. What the modules above abstract from texts: `Detectors`, `Credentials`, `Tokens`, proved
   in `TextsProofs`.

What could follow: lengths of time (30 s against 10 s against 2 s, the 15 minutes of a lock),
and the evaluation order in `ProxyService.cc` (see *Not modelled*).

## Modules

| Module | Lines of code it stands for | Remarks |
|---|---|---|
| `AuthService` | the five endpoints and two repositories | one action per SQL statement with its callback |
| `MCAuthService` | | email spellings, passwords, view |
| `Accounts` | | what the service promises of accounts, sessions, tokens; abstract |
| `AuthServiceProofs` | | proofs |
| `AuthLate` | the 30 s timeout of the database client | extends `AuthService` with overdue statements |
| `MCAuthLate`, `AuthLateProofs` | | |
| `RateLimiter` | `checkBlocked` | one action per handler, and Redis |
| `MCRateLimiter` | | |
| `ScanContract` | | what a scan promises; abstract |
| `ScanRoute` | the scan handler, detectors, log | extends `RateLimiter` |
| `MCScanRoute`, `ScanRouteProofs` | | proofs of `RateLimiter` and `ScanRoute` |
| `Gateway` | | what the proxy promises; abstract |
| `Proxy` | proxy, client of the engine, registry, filters | instantiates `ScanContract` as its engine |
| `MCProxy`, `ProxyProofs` | | |
| `Pipeline` | what joins proxy and engine | extends `Proxy`, instantiates `ScanRoute` |
| `MCPipeline`, `PipelineProofs` | | |
| `AdminAccess` | the two filters, `verifyAccessToken` | extends `AuthLate`, instantiates `Proxy` |
| `MCAdminAccess`, `AdminAccessProofs` | | |
| `LazyInit` | `getService` of three routes, `ensureInit`, `secret` | threads, not callbacks |
| `LazyInitProofs` | | |
| `Detectors` | the two detectors, `StringUtils.h` | instantiates `ScanRoute` to compare with it |
| `Credentials` | `normalizeEmail`, `isValidEmail`, `validatePassword` | requests one at a time |
| `Tokens` | `generateRefreshToken`, `sha256Hex`, `ApiKeyGenerator` | |
| `MCUnits` | | the four units above in one run |
| `TextsProofs` | | proofs of `Detectors`, `Credentials`, `Tokens` |

How they compose: `AuthService` and `AuthLate` implement `Accounts`. `ScanRoute` EXTENDS `RateLimiter` and runs its handlers, so one
step of a handler that runs the callback is one step with what the callback does.
`ScanRoute` implements `ScanContract`; `Proxy` uses an instance of `ScanContract` as
the engine and implements `Gateway`. `Pipeline` puts the two together without the
contract between them and is shown to implement `Proxy`, so the chain from the client's
request to Redis is covered whichever way it is read. `AdminAccess` runs `AuthLate` and the registry of
`Proxy` in one process and replaces what `Proxy` leaves open, which calls the filters
refuse, by the access tokens in circulation; it is shown to implement both. `Detectors`
justifies the `hits` of `ScanRoute`, `Credentials` the `normalizeEmail`, `ValidEmails` and
`StrongPasswords` of `AuthService`, `Tokens` its fresh tokens and the fresh keys of `Proxy`.

### State and actions

**AuthService.** `users` and `sessions` are the tables (one row per normalized email,
one per token value). `req[c]` is the chain of client `c`: the statement it waits
for (`pc`) and what its lambdas captured. `held` and `access` are the refresh tokens
and access-token claims that clients were given. `parent` (which token a session was
exchanged for) and `streak` (failures since the last reset, lock, expiry, crash or
lost reply) are history. Every action except the clock's and `Crash` is one
statement together with the callback that consumes its result; the callback touches
only its result and its captures, so nothing finer could be observed. A statement
fails in two ways that the service cannot tell apart, not executed or executed with
the reply lost; both take the error callback.

**AuthLate.** The third way to fail: the client gives up after 30 s, the error callback
runs, and the server executes the statement at any later moment, with no callback to
follow. Some members of `Clients` are slots for such statements (`Overdue`); `GiveUp` moves
a connection's statement there, `Executes` runs it, and `Stops` (in place of `Crash`) keeps
those the server has begun. A late SELECT has no effect and is left out.

**RateLimiter.** `counter`, `ttl` are the Redis keys; `incr` says where each scan's INCR
is (sent, executed with the reply on its way, given up by the client but still to be
executed, closed); `expires`, `timers` are the EXPIREs and timers under way; `scan[s]`
holds the flag (`pc`), the callback's argument, how often and from which handler it
ran. `window`, `faults` are history. `CheckBlocked`, `IncrReplied`, `IncrFailed` and
`TimerFires` are the function and its three lambdas; `Fire` is the compare-exchange.
The lambdas share the flag alone, so each is one action although they run on two
threads. The branch for a missing Redis client is dead: `main.cc` creates the client
before the server runs.

**ScanRoute.** `reply`, `inserting` (INSERTs on their way) and `rows`. A request's content
is abstracted to the set of `<<location, kind>>` pairs it matches; the detectors look
at path, query values, body and the headers `isScannableHeader` accepts, and are given
neither skipped headers nor the names of parameters and headers.

**Proxy.** `backends` (is_active of each row), `told` (rows whose key a registration
returned), `req[r]`, `call[a]` (proxied requests and administrative calls), `verdict` (the
engine's answers), `sent`, `arrived` (requests on their way to and at their backend);
`late` is history. A row's id, key and target never change, so a backend stands for all
three. The backend answers with any status and the proxy passes its response on as it is, so a
403, 404, 502 or 503 may be either's; `req[r].by` records who gave it, and `Fate`, the mapping
to `Gateway`, takes a status for the proxy's word only if the proxy gave it. The engine answers
what the contract allows, also after the proxy gave up; a
forwarded request may arrive after its 502. `overdue` holds the calls whose INSERT or UPDATE
was given up and may still execute; `made` is history (which row a call's INSERT made).

**Pipeline.** The variables of `Proxy` and of `ScanRoute`; `verdict` is at the same time what
the engine answered and what the proxy waits for. A request is its own scan, made once its
backend was found. Either program stops without the other.

**AdminAccess.** The variables of `AuthLate` and of `Proxy`'s registry. A call presents some
token of `access`, or none that verifies (401); a role that is not admin ends it (403); else
its handler runs. `by` is history: whose token opened a call. Both parts stop together.

**LazyInit.** One action per step of a thread between two points where another may see the
difference. A mutex is its holder, a `once_flag` and the guard of a function-local static are
"unset", "running" or "set". What makes the object may fail, and the mutex or guard is released.

**Detectors.** `result` is what `scan` returns: the attack and the detail, that is the place (path,
query parameter, body, header), its name and the pattern; `ScanRoute.cc` puts the detail into the
response and nowhere else. `Values` says independently of the loops what is scanned and in which
order, and `DetailIsFirst` compares: the detail's place and name are those of a value that contains the
reported pattern, no pattern before it on the list is in that value, and no value before it
in the request contains any. Names are distinct, as the keys of a `std::map` are, so place and
name are of one value.

**Detectors, Credentials, Tokens.** Sequential code as operators on short sequences, wrapped in
the smallest state machine that uses them: one request scanned; a table of accounts; a list of tokens.

## Runs

| Run | Properties | Instance |
|---|---|---|
| `auth_lockout` | `LockoutBounded`, `ThresholdLeadsToLock`, `FirstRegistrationWins` | 3 connections, 1 overdue statement, one account, threshold 2 |
| `auth_sessions` | `IssuedAfterRevoked`, `RevokedIsFinal`, `KeepsAccounts` | 2 connections, 1 overdue statement, 3 refresh tokens |
| `auth_retry` | `ExchangesBounded`, `RotationKeepsUser`, `ClaimsMatchUsers` | 1 connection, 1 overdue statement, 2 users, 3 refresh tokens |
| `auth_answers` | `RequestsAnswered` | all endpoints, 2 clients, 2 spellings of an email and a malformed one |
| `auth_first_admin` | violation of `OnlyFirstIsAdmin` | 2 clients, 2 emails |
| `auth_one_exchange` | violation of `OneExchangePerToken` | 2 clients, 3 refresh tokens |
| `scan` | `ScanTypeOK`, `RowsAgree`, `FiresOnce`, `PassesBounded`, `BlockedAfterLimit`, `UnlimitedOnlyByFault`, `KeepsContract`, `ScansAnswered` | 3 scans of one address, limit 1: clean but for skipped places, both attacks, no body |
| `limiter_ttl` | violation of `CounterAutoExpires` | 3 scans of one address, limit 1 |
| `proxy` | `TypeOK`, `DeactivatedIsClosed`, `KeylessOnlyByFault`, `KeepsGateway`, `RequestsSettled` | 2 requests, 2 administrative calls, 2 backends that answer 200, 403, 404, 502 or 503 |
| `pipeline` | `LoggedIsNotForwarded`, `LogNamesBackend`, `KeepsProxy` | 1 clean request, 1 with XSS in a header, limit 1, 1 backend with the same answers |
| `admin` | `RowsMadeByAdmins`, `AdmittedHadSession`, `UsableOutOfTheBox`, `AdminsBounded`, `KeepsRegistry` | 1 connection, 1 overdue statement, 3 users, 1 administrative call, 1 backend |
| `units` | `DetectionAgrees`, `DetailIsFirst`; `OneAccountPerAddress`, `AnySpellingLogsIn`; `TokensDiffer`, `FindsItsSession`; `OneService`, `OneVerdict`, `CallsEnd` | 8788 requests of up to 5 texts; 16 spellings, 3 passwords; 2 tokens of 2 bytes, base 3; 3 calls |

`auth_lockout`, `auth_sessions` and `auth_retry` run `AuthLate`, whose connections and clock are
those of `AuthService`; `auth_answers` and the two violations run `AuthService` itself. `scan` and `admin`
run the modules that contain the rate limiter and the registrations. `units` runs `Detectors`,
`Credentials`, `Tokens` and `LazyInit` side by side: they share no state, and each behaviour
is one of the unit its first state names, so the states of the four add up and do not multiply.

**Bounds.** Nothing is cut by a state constraint. What bounds the instances is the
number of clients, token values, emails, scans and requests. Two connections give every
interleaving of two chains, which the races of `AuthService` need; the lockout has
three, so that two may guess while a third knows the password. A threshold of 1 or 2
attempts and a limit of 1 request put the boundary within reach; one address suffices
because keys of different addresses share nothing. In `auth_sessions` three token values allow
two exchanges of one token and an exchange of a result, and one overdue statement meets two
connections. `auth_retry` has one connection, so that a second exchange of a token can only come
of something late, and two users, so that a token may go to the wrong one; `KeepsAccounts` is checked
with one user, and with any number by `LateImplementsAccounts`. In `scan` two scans
meet at the limit, one passing and one blocked, and a key may be lost between them; the
theorems about them hold for any number. In `proxy`, one call registers and
one deactivates while a request is in flight, and another may come afterwards. `BackendStatuses`
is any set in the theorems; the runs take one status the proxy has no use for and four that it gives itself.
`pipeline` and `admin` are small because their parts have runs of their own and the theorems
have no bounds; three users and two statements at a time let `AdminsBounded` fail, and the one call of
`admin` suffices because calls only meet in the table. In `units`: of three calls one
builds, one waits and one comes later; the requests have a text that matches neither list, one or both
in every place, in both cases, and headers before and behind a skipped one; addresses have
blanks before, behind and inside; lengths are scaled (6 for 255, 2 and 3 for 8 and
256). Base 3 and two bytes are the smallest texts that run together without leading
zeros; `MaxTokens` is the bound on how many are issued.

**Symmetry and views.** Clients and refresh tokens are interchangeable in `AuthService`,
whose definitions mention none of them by name (in `AuthLate`: connections, overdue statements
and refresh tokens); neither symmetry nor a view is used where a liveness
property is checked. `View` leaves out the last status of an idle client, which no action
reads (`AccessView` does so in `AdminAccess`).

**Deadlock.** `AuthService`, `AuthLate` and `AdminAccess` never stop, and their runs check that. In the other runs each
scan, request and call is made once, so the system stops when all have run; their
configurations say `CHECK_DEADLOCK FALSE` and liveness is stated by
`ScansAnswered`, `RequestsSettled` and `CallsEnd` instead.

**Fairness.** `FairSpec` of `AuthService`: weak fairness of each client's current statement.
The database client is created with a timeout of 30 s (`middleware/main.cc`), so each
`execSqlAsync` ends in one of its callbacks. `FairScanSpec`: weak fairness of the
timers alone; Redis owes no answer. `FairSpec` of `Proxy`: weak fairness of what a chain
waits for, because the database times out after 30 s and both HTTP clients after 10 s.
No request is obliged to arrive, no process obliged to stop or not to. `LazyInit`: weak
fairness of each call's next step. Each call is a thread that runs on, and since calls are
made once, a mutex or guard that is free stays free until somebody waiting takes it.

## Findings

Three sentences of the repository that the code does not keep; each has a run that
shows a shortest history.

* README.md:157, "The first registered user is automatically assigned the `admin` role.
  All subsequent users get `user`": count and INSERT are two statements
  (`auth_first_admin`). What does hold: somebody is admin, and no more than there were
  clients.
* README.md:153 and AuthService.cc:225, one token is exchanged for one new pair: the
  check and the revocation are two statements and the row count is ignored
  (`auth_one_exchange`). What does hold: at most one exchange per client in flight, and
  none starts after the revocation.
* README.md:230 and 237, "The counter auto-expires after 60 seconds": the EXPIRE is a
  second command that may be lost, and no later INCR repeats it (`limiter_ttl`). What
  does hold: a counter without a TTL lost it to a fault.

README.md:280, "Every blocked request is written to `security_logs`", is true unless its INSERT fails
(`RowLost`), which nobody waits for; what is written is what was answered (`RowsAgree`).

The table at README.md:185-193 (401, 403, 404, 502, 503 and their meanings) holds of the answers
the proxy gives itself and is read so here. It is not a key to what a caller sees:
`ProxyService.cc:93-96` passes the backend's response on unchanged, and a backend's own 404
means neither an unknown key nor that the request did not arrive. `KeepsGateway` claims
of a status only what holds if the proxy gave it, and that the backend's answers, whatever
they are, are to requests that arrived.

## Proofs

All of them hold for any finite or infinite number of scans and requests their
assumptions allow: `AuthAssumption`, `LateAssumption`, `LimiterAssumption`, `ScanAssumption`,
`ProxyAssumption`, `PipelineAssumption`, `AccessAssumption`, `LazyAssumption`,
`DetectorAssumption`, `CredentialsAssumption` and `TokensAssumption` say that the constants have
their types, that clients (where a bound counts them) and scans are finite sets, that `Nil` is
none of the named things, that patterns are in lower case and not empty, and that blanks are no
letters. `DigestAssumption` is the one about cryptography: SHA-256 gives different tokens
different digests. TLC evaluates each of them in every run.

* **AuthServiceProofs.** `TypeCorrect` needs to know what each statement's record has
  captured (an email where the next statement uses one). `CaptureInv` then relates
  captures to rows: users, roles and parents never change once written, so a captured
  role stays true, and a chain past `refreshRevoke` knows its token is revoked. From it:
  `AlwaysUsable` (whoever inserted first had counted zero), `ClaimsAreTrue`,
  `RevokedBeforeIssued`, `RotationKeepsTheUser`.
  The bounds are counting arguments. `RotationIsBounded`: the children of a token
  plus the requests still able to exchange it never exceed the clients once it is
  revoked, for that set of requests only shrinks. `AdminsAreBounded` likewise with the
  registrations that carry the role admin. `LockoutIsBounded` and `ThresholdLocks`: the
  streak is at most the row's failures plus what may still be counted by logins that
  passed the check.
  `AuthImplementsAccounts`: three statements map to steps of `Accounts` (`RegisterRefines`,
  `IssueRefines`, `RevokeRefines`), all others to stutters. Besides `CaptureInv` it needs
  `PresentedInv`: a chain carries only tokens that were handed out, and a registration only a
  valid address and a strong password.
* **ScanRouteProofs.** Of the limiter: the counts handed out on one key are 1, 2, 3, ..., each held by
  one scan. So the scans that pass because of their count inject into 1..limit
  (`PassesAreBounded`), and those before a blocked one cover it (`BlockedOnlyAfterLimit`).
  `CallbackRunsOnce` and `UnlimitedIsAFault` come from the same invariant.
  Of the endpoint: `ScanRunsLimiter`, each behaviour is one of `RateLimiter`, so the
  limiter's invariant holds inside the endpoint. A scan has its reply exactly when its
  callback has run; `LogAgrees` and the refinement `ScanImplementsContract` follow.
* **ProxyProofs.** The invariant ties how far a chain is to what it captured and to where
  its request is: `sent` or `arrived` only with the verdict safe and the chain past the
  scan for good; a late request never gets a target because no row becomes active
  again; who answered is the backend only if the request arrived, and a request the proxy
  answered itself is nowhere unless the answer was 502. From it `DeactivatedStaysClosed`, and
  `ProxyImplementsGateway` under the mapping `Fate`, for any statuses of the backends.
* **AuthLateProofs.** A late statement is a step of the same action on a record that nobody
  waits for, so the invariants of `AuthServiceProofs`, whose lemmas are
  stated of single actions, carry over once `GiveUp`, `Executes` and `Stops` are shown to keep
  them; where they count clients they now count overdue statements too. `RevokedIsFinal` and
  `ExchangesBounded` need more: an overdue revocation continues no exchange, so only
  connections can be among those still able to exchange a token. `LateIssuesAfterRevoking`:
  `refreshUser` is reached from an executed revocation only. `LateImplementsAccounts`: moving a
  record to the overdue ones is no step of `Accounts`, and executing it later is the step it
  would have been. `NothingElseIsLate`: with no room for overdue statements the specification
  is that of `AuthService`, so nothing else was added.
* **PipelineProofs.** `PipelineRunsEndpoint` gives the endpoint's invariants, and with them that
  its replies are what `ScanContract` allows; hence `PipelineImplementsProxy`, and the proxy's
  invariants. `LoggedStaysOut` joins the two: a row agrees with the reply, and what is
  forwarded was answered safe. `ForwardsAreBounded` is `PassesAreBounded` for the scans that are
  also forwarded. `PipelineImplementsGateway` and `PipelineStaysClosed` follow from the refinement.
* **AdminAccessProofs.** `AccessRunsAuth` and `AccessKeepsRegistry` give the invariants of both
  parts. `RowsAreMadeByAdmins` needs that claims agree with the users table and that roles do
  not change, so that the role the filter read is the role of the row whenever the INSERT
  executes. `AdmittedHaveSessions`: claims enter circulation in the step that confirms the
  session row, and rows of sessions are never deleted. `AccessUsable`, `AccessAdminsAreBounded` and
  `AccessImplementsAccounts` are what `AccessRunsAuth` makes of the results about `AuthLate`.
* **LazyInitProofs.** For any number of calls. `LazyInv` says, for each of the mutex, the
  `once_flag` and the static, where its state allows calls to be: who is between lock and return
  holds the mutex, and while a guard is "running" one call is inside. `OneServiceForAll`
  and `OneVerdictForAll` follow. `SomebodyAlwaysWorks` is the safety half of `CallsEnd`: whoever
  holds something others wait for is at a step that waits for nothing. `SignedWithTheSecret`
  needed one more fact than it states, that a secret that is set came from a set variable.
* **TextsProofs.** For texts of any length. Loops are recursive functions of a position; a
  statement about them is proved at the least position where it would be wrong (`LeastNumber`),
  which takes the place of an induction. `DetectorsAgree`: the loop over patterns finds some pattern
  exactly if one occurs, the loop over headers skips exactly the listed ones, and the
  answer is that of `ScanRoute` for the hits. `DetailIsTheFirst` needs the orders as well: the header
  loop keeps the headers in their order (`ScannableOK`), hence every value that stands before
  another is at an earlier place (`PlaceIsValue`), and the pattern found is the least index
  (`MatchedOK`).
  `NormalizeDecides`: two texts are the same address, that is, equal in all but the blanks around
  them and the case of their letters, exactly if `normalizeEmail` makes them equal; from it `OneAccountForAll` and
  `AnySpellingForAll`. `NoTwoTokensAlike`: two digits per byte, with the leading zero, is one to
  one for bytes of any number in any base; `TokenFindsItsSession` adds `DigestAssumption`.

Proved and not checked by a run: `AuthService`'s and the limiter's type invariants; `RotationBounded`,
`RevokedIsRejected` and `RotationRevokesFirst`, which say of `AuthService` what `ExchangesBounded`,
`RevokedIsFinal` and `KeepsAccounts` say of `AuthLate`; `ForwardsBounded`; `SomebodyWorks` and
`SecretOnce` of `LazyInit`; and `NormalizeDecides`.

Only model-checked: the liveness properties `RequestsAnswered`, `ScansAnswered`,
`RequestsSettled` and `CallsEnd` (fairness is beyond the prover used). Every safety property of a
passing run is a theorem.

Definitions marked "Mutation" in the modules are plausible mistakes in the definition
that follows them. They are no part of the specifications; `PROJECT.json` pairs each with
a property that fails when it replaces the original.

## Not modelled, and why

* **Time.** Locks, sessions, access tokens and keys expire at any moment; lengths of time
  are not compared.
* **Cryptography and randomness.** Equal passwords verify, draws and digests differ, a
  valid access token is its claims.
* **The lists of patterns** themselves (they are parameters of `Detectors`), the JSON encoding of what
  the detectors are given, and the rewriting of path and headers on forwarding: data without control.
* **Exceptions inside a database callback** (`PasswordHasher::verify` at AuthService.cc:140 and 152):
  what the framework does with them is outside the source.
* **The cast of the count** at RateLimiter.cc:35: counts are natural numbers in the model, and it
  takes 2^31 scans on one key to tell the difference.
* **The order of evaluation of call arguments** in ProxyService.cc, where one lambda moves
  and another copies the same callback: the language leaves it open, the compiler of the
  Docker image takes the copy first, and that is the build modelled.
* **Redis restoring an old snapshot**: a restart without data is modelled, a restart with
  old counters is not.
* **Configuration and host lookup at start-up, the vulnerable backend, scripts and containers**: run
  once before any request, or no logic of the program.
* `SessionRepository::revokeAllForUser` is never called.
