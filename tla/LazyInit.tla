------------------------------ MODULE LazyInit ------------------------------
(***************************************************************************)
(* What the middleware makes on first use, while its event loops already   *)
(* serve requests: the service of a route (getService, under a mutex),     *)
(* libsodium (PasswordHasher::ensureInit, a once_flag) and the signing key *)
(* (JwtHelper::secret, a function-local static).  The three routes have    *)
(* the same getService; one of them is modelled.                           *)
(*                                                                         *)
(* A call is one request that needs all three in turn, as a registration   *)
(* followed by a login does.  It is made once.  The first two calls to     *)
(* come race; a call that waits for another blocks its event loop.         *)
(*                                                                         *)
(* The definitions marked "Mutation" are plausible mistakes in the         *)
(* definition that follows them; they are not part of the system.          *)
(***************************************************************************)
EXTENDS Naturals

CONSTANTS Calls, Nil

ASSUME LazyAssumption == Nil \notin Calls

VARIABLES
    pc,         \* where each call is
    mutex,      \* the call that holds the route's mutex
    service,    \* the route's service_: 0, or the number of the object
    built,      \* history: how many services were constructed
    got,        \* the service each call received
    sodium,     \* initFlag: "unset", "running" or "set"
    initOk,
    secret,     \* the guard of the static: "unset", "running" or "set"
    env         \* whether JWT_SECRET is set; fixed while the process runs

serviceVars == <<mutex, service, built, got>>
sodiumVars == <<sodium, initOk>>
secretVars == <<secret, env>>
lazyVars == <<pc, serviceVars, sodiumVars, secretVars>>

Goes(c, p) == pc' = [pc EXCEPT ![c] = p]
At(c, p) == pc[c] = p

FirstInit ==
    /\ pc = [c \in Calls |-> "lock"]
    /\ mutex = Nil /\ service = 0 /\ built = 0
    /\ got = [c \in Calls |-> 0]
    /\ sodium = "unset" /\ initOk = FALSE
    /\ secret = "unset" /\ env \in BOOLEAN

-----------------------------------------------------------------------------
(* getService.                                                             *)

\* Mutation: no lock_guard.
AcquireNothing(c) == At(c, "lock") /\ Goes(c, "locked") /\ UNCHANGED <<serviceVars, sodiumVars, secretVars>>

Acquire(c) ==
    /\ At(c, "lock")
    /\ mutex = Nil
    /\ mutex' = c
    /\ Goes(c, "locked")
    /\ UNCHANGED <<service, built, got, sodiumVars, secretVars>>

\* Leaving the function releases the mutex.
Return(c, s) ==
    /\ mutex' = Nil
    /\ got' = [got EXCEPT ![c] = s]
    /\ Goes(c, "init")

FindService(c) ==
    /\ At(c, "locked")
    /\ IF service = 0 THEN Goes(c, "build") /\ UNCHANGED <<mutex, got>>
                      ELSE Return(c, service)
    /\ UNCHANGED <<service, built, sodiumVars, secretVars>>

\* make_shared or getDbClient may throw; the lock_guard releases the mutex and
\* the next call tries again.
BuildService(c) ==
    /\ At(c, "build")
    /\ \/ service' = built + 1 /\ built' = built + 1 /\ Return(c, built + 1)
       \/ mutex' = Nil /\ Goes(c, "failed") /\ UNCHANGED <<service, built, got>>
    /\ UNCHANGED <<sodiumVars, secretVars>>

-----------------------------------------------------------------------------
(* PasswordHasher::ensureInit.                                             *)

\* Mutation: a flag instead of call_once: whoever comes second does not wait.
CallOnceNoWait(c) ==
    /\ At(c, "init")
    /\ IF sodium = "unset" THEN sodium' = "running" /\ Goes(c, "sodium")
                           ELSE Goes(c, "check") /\ UNCHANGED sodium
    /\ UNCHANGED <<serviceVars, initOk, secretVars>>

\* call_once: the first runs the lambda, the others wait until it has returned.
CallOnce(c) ==
    /\ At(c, "init")
    /\ \/ sodium = "unset" /\ sodium' = "running" /\ Goes(c, "sodium")
       \/ sodium = "set" /\ Goes(c, "check") /\ UNCHANGED sodium
    /\ UNCHANGED <<serviceVars, initOk, secretVars>>

\* A failed sodium_init is not tried again: the lambda does not throw.
SodiumInit(c) ==
    /\ At(c, "sodium")
    /\ initOk' \in BOOLEAN
    /\ sodium' = "set"
    /\ Goes(c, "check")
    /\ UNCHANGED <<serviceVars, secretVars>>

EnsureInit(c) ==
    /\ At(c, "check")
    /\ Goes(c, IF initOk THEN "sign" ELSE "unhashed")
    /\ UNCHANGED <<serviceVars, sodiumVars, secretVars>>

-----------------------------------------------------------------------------
(* JwtHelper::secret.                                                      *)

EnterStatic(c) ==
    /\ At(c, "sign")
    /\ \/ secret = "unset" /\ secret' = "running" /\ Goes(c, "getenv")
       \/ secret = "set" /\ Goes(c, "served") /\ UNCHANGED secret
    /\ UNCHANGED <<serviceVars, sodiumVars, env>>

\* Mutation: the guard stays taken when the initializer throws.
ReadSecretUnguarded(c) ==
    /\ At(c, "getenv")
    /\ IF env THEN secret' = "set" /\ Goes(c, "served")
              ELSE Goes(c, "unsigned") /\ UNCHANGED secret
    /\ UNCHANGED <<serviceVars, sodiumVars, env>>

\* An initializer that throws leaves the static uninitialized.
ReadSecret(c) ==
    /\ At(c, "getenv")
    /\ IF env THEN secret' = "set" /\ Goes(c, "served")
              ELSE secret' = "unset" /\ Goes(c, "unsigned")
    /\ UNCHANGED <<serviceVars, sodiumVars, env>>

-----------------------------------------------------------------------------

Step(c) ==
    \/ Acquire(c) \/ FindService(c) \/ BuildService(c)
    \/ CallOnce(c) \/ SodiumInit(c) \/ EnsureInit(c)
    \/ EnterStatic(c) \/ ReadSecret(c)

FirstNext == \E c \in Calls : Step(c)

\* Each call runs on a thread of its own, and a lock that stays free is taken.
FirstSpec == FirstInit /\ [][FirstNext]_lazyVars /\ \A c \in Calls : WF_lazyVars(Step(c))

-----------------------------------------------------------------------------
(* Properties.                                                             *)

\* "safe under concurrent first requests": one service is constructed, and whoever
\* got past getService has that one.
OneService ==
    /\ built <= 1
    /\ \A c \in Calls : pc[c] \notin {"lock", "locked", "build", "failed"} =>
           got[c] = service /\ service # 0

\* Whether libsodium is usable is decided once and the same for everybody: no call
\* hashes before sodium_init has returned, none is told it failed when it did not.
OneVerdict ==
    \A c, d \in Calls :
        pc[c] \in {"sign", "getenv", "served", "unsigned"} =>
            initOk /\ sodium = "set" /\ pc[d] # "unhashed"

Ended == {"served", "failed", "unhashed", "unsigned"}

\* Nobody waits for ever for something another call failed to make.
CallsEnd == \A c \in Calls : <>(pc[c] \in Ended)
=============================================================================
