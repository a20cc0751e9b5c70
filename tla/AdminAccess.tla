---------------------------- MODULE AdminAccess ----------------------------
(***************************************************************************)
(* Who may change the registry: AuthService, with its late statements, and *)
(* the registry of Proxy, joined by JwtAuthFilter and AdminOnlyFilter.     *)
(*                                                                         *)
(* Proxy answers an administrative call 401 or 403 at will.  Here the      *)
(* filters decide, by the access token the call presents: its claims were  *)
(* built by issueTokens from a row read statements earlier, and it stays   *)
(* valid until it expires, whatever has happened to the session since.     *)
(* Both parts run in one process and stop together.                        *)
(***************************************************************************)
EXTENDS AuthLate

CONSTANTS AdminCalls, Backends

VARIABLES
    backends, told, made, call, overdue,    \* Proxy's registry
    by                                      \* history: whose token opened a call

\* Nobody uses the proxy itself here.
Registry == INSTANCE Proxy WITH
    Requests <- {}, content <- [r \in {} |-> "safe"], BackendStatuses <- {},
    req <- [r \in {} |-> Nil],
    verdict <- [r \in {} |-> "none"], sent <- {}, arrived <- {}, late <- {}

ASSUME AccessAssumption == Nil \notin Backends

registryVars == <<backends, told, made, call, overdue>>
accessVars == <<vars, registryVars, by>>

AccessInit ==
    /\ LateInit
    /\ Registry!Init
    /\ by = [a \in AdminCalls |-> Nil]

-----------------------------------------------------------------------------

\* Mutation: the answer is sent and the chain goes on (no return after it).
RefuseAndGoOn(a, code) ==
    /\ call[a].pc = "new"
    /\ call' = [call EXCEPT ![a].pc = "save", ![a].status = code]
    /\ UNCHANGED <<backends, told, made, overdue, by, vars>>

\* A filter answers and the chain ends.
Refuse(a, code) ==
    /\ call[a].pc = "new"
    /\ Registry!Reply(a, code)
    /\ UNCHANGED <<backends, told, made, overdue, by, vars>>

\* verifyAccessToken: every other string fails to decode or to verify, has
\* expired, or is not of type "access".
Verified == access

\* No header, a malformed one, or a token that does not verify.
JwtAuthFilter(a) == Refuse(a, 401)

\* Mutation: any role passes.
IsAdminAny(claim) == claim.role \in Roles

IsAdmin(claim) == claim.role = "admin"

AdminOnlyFilter(a) == \E claim \in Verified : ~IsAdmin(claim) /\ Refuse(a, 403)

\* The route's handler, entered once both filters have passed the call on.
Handler(a) ==
    /\ Registry!RegisterBackend(a) \/ Registry!ListBackends(a) \/ Registry!DeactivateBackend(a)
    /\ call'[a].status \notin {401, 403}

Admit(a) ==
    /\ \E claim \in Verified :
         IsAdmin(claim) /\ by' = [by EXCEPT ![a] = claim.user]
    /\ Handler(a)
    /\ UNCHANGED vars

AdminCall(a) == JwtAuthFilter(a) \/ AdminOnlyFilter(a) \/ Admit(a)

\* What an admitted call waits for, and what it left with the database.
RegistryStep(a) ==
    /\ Registry!Statement(a) \/ Registry!Executes(a) \/ Registry!NeverExecutes(a)
    /\ UNCHANGED <<by, vars>>

AuthStep ==
    /\ \/ \E c \in Connections : Arrive(c) \/ Step(c) \/ \E s \in Overdue : GiveUp(c, s)
       \/ \E s \in Overdue : Executes(s)
       \/ Clock
    /\ UNCHANGED <<registryVars, by>>

\* One process: the calls of both parts are lost together.
ProcessStops ==
    /\ \/ Stops
       \/ (\A c \in Clients : Idle(c)) /\ UNCHANGED vars
    /\ \/ Registry!MiddlewareStops
       \/ /\ Stops
          /\ \A a \in AdminCalls : ~Registry!Pending(call[a].pc)
          /\ UNCHANGED registryVars
    /\ UNCHANGED by

AccessNext ==
    \/ \E a \in AdminCalls : AdminCall(a) \/ RegistryStep(a)
    \/ AuthStep
    \/ ProcessStops

AccessSpec == AccessInit /\ [][AccessNext]_accessVars

-----------------------------------------------------------------------------
(* Properties.                                                             *)

\* Every row of backend_registration, even one whose INSERT came late, was asked
\* for by the bearer of a token whose user is an admin in the table users, though
\* neither filter looks there and the session may be revoked by then.
RowsMadeByAdmins ==
    \A b \in Backends : backends[b] # "absent" =>
        \E a \in AdminCalls : made[a] = b /\ by[a] # Nil /\ users[by[a]].role = "admin"

\* Whoever was admitted has had a session: no access token leaves the service
\* before its session row is confirmed, whatever was given up or came late.
AdmittedHadSession ==
    \A a \in AdminCalls : by[a] # Nil =>
        \E t \in RefreshTokens : sessions[t].state # "absent" /\ sessions[t].user = by[a]

\* The registry behind the filters is Proxy's: a refused call has no effect, an
\* admitted one is answered once.
KeepsRegistry == Registry!Spec
=============================================================================
