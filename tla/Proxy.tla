------------------------------- MODULE Proxy -------------------------------
(***************************************************************************)
(* The proxy and the registry of backends: ProxyRoute, ProxyService and    *)
(* SecurityClient on one side, RegistrationRoute, RegistrationService and  *)
(* the two filters on the other, both over BackendRepository and the table *)
(* backend_registration.                                                   *)
(*                                                                         *)
(* A proxied request is a chain of three calls: the SELECT of the backend, *)
(* the scan, the request to the backend.  Each call and the callback that  *)
(* consumes its result is one action, and what the request captured is its *)
(* record in req.  The security engine is an instance of ScanContract,     *)
(* which ScanRoute is shown to implement: here it may answer anything the  *)
(* contract allows, late or never.                                         *)
(*                                                                         *)
(* A statement that fails was executed, was not, or is still to be: the    *)
(* database client gives it up after 30 seconds and the server may execute *)
(* it at any later moment, even after the middleware has restarted.  A     *)
(* request to a backend that failed may have arrived, or arrive later.     *)
(*                                                                         *)
(* A backend is its row: its id, its api_key and its target_url never      *)
(* change.  Requests and calls are made once each.                         *)
(*                                                                         *)
(* The definitions marked "Mutation" are plausible mistakes in the         *)
(* definition that follows them; they are not part of the system.          *)
(***************************************************************************)
EXTENDS Naturals, FiniteSets

CONSTANTS
    Requests,     \* requests to /proxy/...
    AdminCalls,   \* requests to /api/backends...
    Backends,     \* the rows the table can come to hold
    content,      \* what detection finds in each request
    BackendStatuses,    \* what a backend may answer with: any status
    Nil           \* no key, a key of no row, no row yet

Contents == {"safe", "SQLi", "XSS"}

ASSUME ProxyAssumption ==
    /\ content \in [Requests -> Contents]
    /\ Nil \notin Backends

VARIABLES
    backends,   \* is_active of each row, "absent" when there is none
    told,       \* the backends whose api_key a registration has returned
    req,        \* the proxied requests
    call,       \* the administrative calls
    overdue,    \* the calls whose statement was given up and may still execute
    verdict,    \* what the engine answered to each request's scan
    sent,       \* requests on their way to their backend
    arrived,    \* requests that reached it
    late,       \* history: requests that came when their backend was inactive
    made        \* history: the last row each call's INSERT has created

vars == <<backends, told, req, call, overdue, verdict, sent, arrived, late, made>>

-----------------------------------------------------------------------------

RequestPCs == {"new", "find", "scan", "forward", "done", "dropped"}
ProxyStatuses == {401, 403, 404, 500, 502, 503}
RequestStatuses == {0} \cup ProxyStatuses \cup BackendStatuses
CallPCs == {"new", "save", "list", "deactivate", "done", "dropped"}
CallStatuses == {0, 200, 201, 204, 400, 401, 403, 404, 500}

\* by is history: whose answer the caller got, which the status does not tell.
Request == [pc: RequestPCs, key: Backends \cup {Nil}, target: Backends \cup {Nil},
            by: {"nobody", "proxy", "backend"}, status: RequestStatuses]

NewRequest == [pc |-> "new", key |-> Nil, target |-> Nil, by |-> "nobody", status |-> 0]

Call == [pc: CallPCs, id: Backends \cup {Nil}, status: CallStatuses]

NewCall == [pc |-> "new", id |-> Nil, status |-> 0]

Exists(b) == backends[b] # "absent"

\* Mutation: a deactivated row is found too.
FoundInactive(k) == k \in Backends /\ Exists(k)

\* findByApiKey: WHERE api_key = $1 AND is_active = TRUE.
Found(k) == k \in Backends /\ backends[k] = "active"

Init ==
    /\ backends = [b \in Backends |-> "absent"]
    /\ told = {}
    /\ req = [r \in Requests |-> NewRequest]
    /\ call = [a \in AdminCalls |-> NewCall]
    /\ overdue = {}
    /\ verdict = [r \in Requests |-> "none"]
    /\ sent = {}
    /\ arrived = {}
    /\ late = {}
    /\ made = [a \in AdminCalls |-> Nil]

Becomes(r, record) == req' = [req EXCEPT ![r] = record]
AnsweredBy(r, who, code) ==
    Becomes(r, [req[r] EXCEPT !.pc = "done", !.by = who, !.status = code])
Answer(r, code) == AnsweredBy(r, "proxy", code)
Reply(a, code) == call' = [call EXCEPT ![a].pc = "done", ![a].status = code]
Ask(a, statement, b) == call' = [call EXCEPT ![a].pc = statement, ![a].id = b]

Table == <<backends, told, made>>
Registry == <<Table, call, overdue>>
Network == <<verdict, sent, arrived, late>>

-----------------------------------------------------------------------------
(* A proxied request.                                                      *)

\* The key is one that was handed out, or one of no row (Nil).
HandleRequest(r) ==
    /\ req[r].pc = "new"
    /\ \/ Answer(r, 401) /\ UNCHANGED late     \* no X-WebHawk-API-Key
       \/ \E k \in told \cup {Nil} :
            /\ Becomes(r, [req[r] EXCEPT !.pc = "find", !.key = k])
            /\ late' = IF k # Nil /\ backends[k] = "inactive" THEN late \cup {r} ELSE late
    /\ UNCHANGED <<Registry, verdict, sent, arrived>>

\* Mutation: an empty result is not told from a row.
FindByApiKeyUnchecked(r) ==
    /\ req[r].pc = "find"
    /\ \/ Becomes(r, [req[r] EXCEPT !.pc = "scan",
                            !.target = IF Found(req[r].key) THEN req[r].key ELSE Nil])
       \/ Answer(r, 500)
    /\ UNCHANGED <<Registry, Network>>

\* Mutation: the error callback does not answer.
FindByApiKeySilent(r) ==
    /\ req[r].pc = "find"
    /\ \/ /\ Found(req[r].key)
          /\ Becomes(r, [req[r] EXCEPT !.pc = "scan", !.target = req[r].key])
       \/ ~Found(req[r].key) /\ Answer(r, 404)
       \/ Becomes(r, [req[r] EXCEPT !.pc = "unanswered"])
    /\ UNCHANGED <<Registry, Network>>

\* The row is read once; the rest of the chain uses the captured target.
FindByApiKey(r) ==
    /\ req[r].pc = "find"
    /\ \/ /\ Found(req[r].key)
          /\ Becomes(r, [req[r] EXCEPT !.pc = "scan", !.target = req[r].key])
       \/ ~Found(req[r].key) /\ Answer(r, 404)
       \/ Answer(r, 500)
    /\ UNCHANGED <<Registry, Network>>

Forward(r) ==
    /\ Becomes(r, [req[r] EXCEPT !.pc = "forward"])
    /\ sent' = sent \cup {r}
    /\ UNCHANGED <<Registry, verdict, arrived, late>>

\* SecurityClient understood the answer.
Scanned(r) ==
    /\ req[r].pc = "scan"
    /\ \/ verdict[r] = "safe" /\ Forward(r)
       \/ /\ verdict[r] \notin {"none", "safe"}
          /\ Answer(r, 403)
          /\ UNCHANGED <<Registry, Network>>

\* Mutation: without a scan the request is let through.
ScanFailedOpen(r) == req[r].pc = "scan" /\ Forward(r)

\* Unreachable, ten seconds over, not 200 or not JSON: fail closed.
ScanFailed(r) ==
    /\ req[r].pc = "scan"
    /\ Answer(r, 503)
    /\ UNCHANGED <<Registry, Network>>

\* The backend's response is passed on whatever its status, one of the proxy's own
\* included.
BackendAnswered(r) ==
    /\ req[r].pc = "forward"
    /\ r \in arrived
    /\ \E code \in BackendStatuses : AnsweredBy(r, "backend", code)
    /\ UNCHANGED <<Registry, Network>>

BackendFailed(r) ==
    /\ req[r].pc = "forward"
    /\ Answer(r, 502)
    /\ UNCHANGED <<Registry, Network>>

-----------------------------------------------------------------------------
(* The engine, the network and the backends.                               *)

Engine == INSTANCE ScanContract WITH
    Scans <- Requests, verdict <- content, reply <- verdict

\* A scan the caller has given up on is still worked on.
EngineAnswers(r) ==
    /\ req[r].target # Nil
    /\ Engine!AnswerScan(r)
    /\ UNCHANGED <<Registry, req, sent, arrived, late>>

Arrives(r) ==
    /\ r \in sent
    /\ sent' = sent \ {r}
    /\ arrived' = arrived \cup {r}
    /\ UNCHANGED <<Registry, req, verdict, late>>

NeverArrives(r) ==
    /\ r \in sent
    /\ sent' = sent \ {r}
    /\ UNCHANGED <<Registry, req, verdict, arrived, late>>

-----------------------------------------------------------------------------
(* The registry.                                                           *)

\* JwtAuthFilter answers 401, AdminOnlyFilter 403.
Filtered(a) == Reply(a, 401) \/ Reply(a, 403)

RegisterBackend(a) ==
    /\ call[a].pc = "new"
    /\ \/ Filtered(a)
       \/ Reply(a, 400)     \* the two strings, or the scheme of targetUrl
       \/ Reply(a, 500)     \* ApiKeyGenerator threw
       \/ Ask(a, "save", Nil)
    /\ UNCHANGED <<Table, overdue, req, Network>>

\* The INSERT: a new id, an api_key of its own, is_active by default.
InsertRow(a, b) ==
    /\ ~Exists(b)
    /\ backends' = [backends EXCEPT ![b] = "active"]
    /\ made' = [made EXCEPT ![a] = b]

\* The UPDATE; affectedRows counts the row even if it was inactive already.
DeactivateRow(b) == Exists(b) /\ backends' = [backends EXCEPT ![b] = "inactive"]

\* Mutation: after an error the INSERT is sent again.
SaveAgain(a) ==
    /\ call[a].pc = "save"
    /\ \E b \in Backends :
         /\ InsertRow(a, b)
         /\ \/ Reply(a, 201) /\ told' = told \cup {b}
            \/ UNCHANGED <<told, call>>
    /\ UNCHANGED <<overdue, req, Network>>

\* The key is returned once, with the confirmed row.
Save(a) ==
    /\ call[a].pc = "save"
    /\ \/ \E b \in Backends :
            /\ InsertRow(a, b)
            /\ \/ Reply(a, 201) /\ told' = told \cup {b}
               \/ Reply(a, 500) /\ UNCHANGED told
       \/ Reply(a, 500) /\ UNCHANGED Table
    /\ UNCHANGED <<overdue, req, Network>>

ListBackends(a) ==
    /\ call[a].pc = "new"
    /\ Filtered(a) \/ Ask(a, "list", Nil)
    /\ UNCHANGED <<Table, overdue, req, Network>>

FindAll(a) ==
    /\ call[a].pc = "list"
    /\ Reply(a, 200) \/ Reply(a, 500)
    /\ UNCHANGED <<Table, overdue, req, Network>>

DeactivateBackend(a) ==
    /\ call[a].pc = "new"
    /\ \/ Filtered(a)
       \/ Reply(a, 400)     \* id <= 0
       \/ \E b \in Backends : Ask(a, "deactivate", b)
    /\ UNCHANGED <<Table, overdue, req, Network>>

Deactivate(a) ==
    LET b == call[a].id IN
    /\ call[a].pc = "deactivate"
    /\ \/ DeactivateRow(b) /\ (Reply(a, 204) \/ Reply(a, 500))
       \/ ~Exists(b) /\ Reply(a, 404) /\ UNCHANGED backends
       \/ Reply(a, 500) /\ UNCHANGED backends
    /\ UNCHANGED <<told, made, overdue, req, Network>>

Writing(a) == call[a].pc \in {"save", "deactivate"}

\* Thirty seconds are over: the error callback answers, the statement remains.
GiveUp(a) ==
    /\ Writing(a)
    /\ Reply(a, 500)
    /\ overdue' = overdue \cup {a}
    /\ UNCHANGED <<Table, req, Network>>

\* An overdue statement executes and nobody receives its result.
Executes(a) ==
    /\ a \in overdue
    /\ overdue' = overdue \ {a}
    /\ \/ call[a].id = Nil /\ \E b \in Backends : InsertRow(a, b)
       \/ call[a].id # Nil /\ DeactivateRow(call[a].id) /\ UNCHANGED made
    /\ UNCHANGED <<told, call, req, Network>>

\* It never does, or finds no row.
NeverExecutes(a) ==
    /\ a \in overdue
    /\ overdue' = overdue \ {a}
    /\ UNCHANGED <<Table, call, req, Network>>

-----------------------------------------------------------------------------

Pending(p) == p \notin {"new", "done", "dropped"}

\* The middleware stops and starts again: connections break, the callbacks of
\* statements and requests on their way are gone.  Statements the server has begun
\* may outlive the middleware.
MiddlewareStops ==
    /\ \/ \E r \in Requests : Pending(req[r].pc)
       \/ \E a \in AdminCalls : Pending(call[a].pc)
    /\ req' = [r \in Requests |-> IF Pending(req[r].pc)
                                  THEN [req[r] EXCEPT !.pc = "dropped"] ELSE req[r]]
    /\ call' = [a \in AdminCalls |-> IF Pending(call[a].pc)
                                     THEN [call[a] EXCEPT !.pc = "dropped"] ELSE call[a]]
    /\ \E begun \in SUBSET {a \in AdminCalls : Writing(a)} : overdue' = overdue \cup begun
    /\ UNCHANGED <<Table, Network>>

\* What a request waits for: each of its calls returns or times out.
Returns(r) ==
    \/ FindByApiKey(r)
    \/ Scanned(r) \/ ScanFailed(r)
    \/ BackendAnswered(r) \/ BackendFailed(r)

Statement(a) == Save(a) \/ FindAll(a) \/ Deactivate(a) \/ GiveUp(a)

Next ==
    \/ \E r \in Requests :
          HandleRequest(r) \/ Returns(r) \/ EngineAnswers(r) \/ Arrives(r) \/ NeverArrives(r)
    \/ \E a \in AdminCalls :
          \/ RegisterBackend(a) \/ ListBackends(a) \/ DeactivateBackend(a) \/ Statement(a)
          \/ Executes(a) \/ NeverExecutes(a)
    \/ MiddlewareStops

Spec == Init /\ [][Next]_vars

\* The database client times out after 30 seconds, both HTTP clients after 10.
FairSpec ==
    /\ Spec
    /\ \A r \in Requests : WF_vars(Returns(r))
    /\ \A a \in AdminCalls : WF_vars(Statement(a))

-----------------------------------------------------------------------------
(* Properties.                                                             *)

\* Rows, requests and calls have their types, and a request that was not refused
\* before its scan has a row as its target.
TypeOK ==
    /\ backends \in [Backends -> {"absent", "active", "inactive"}]
    /\ told \subseteq Backends
    /\ req \in [Requests -> Request]
    /\ call \in [AdminCalls -> Call]
    /\ overdue \subseteq AdminCalls
    /\ verdict \in [Requests -> {"none", "RateLimit"} \cup Contents]
    /\ sent \subseteq Requests
    /\ arrived \subseteq Requests
    /\ late \subseteq Requests
    /\ made \in [AdminCalls -> Backends \cup {Nil}]
    /\ \A r \in Requests : req[r].pc \in {"scan", "forward"} => req[r].target \in Backends

\* A request that comes after its backend was deactivated is never forwarded,
\* whatever requests of before the deactivation are still in flight.
DeactivatedIsClosed == late \cap (sent \cup arrived) = {}

\* Failed(a): whoever made the call was not told that it succeeded.
Failed(a) == call[a].pc = "dropped" \/ call[a].status = 500

\* A row whose api_key nobody was given was left by a registration that failed in
\* its caller's eyes, and each such call leaves at most one: a lost reply, a late
\* INSERT or a restart duplicates nothing.
KeylessOnlyByFault ==
    \A b \in Backends :
        Exists(b) /\ b \notin told => \E a \in AdminCalls : made[a] = b /\ Failed(a)

\* What became of a request in its caller's eyes.  A status says so only if it is
\* the proxy's own: the same status from a backend means that the request arrived.
OwnAnswer(r) ==
    CASE req[r].status = 502 -> "unknown"
      [] req[r].status = 403 -> verdict[r]
      [] OTHER -> "refused"

Fate(r) ==
    CASE req[r].by = "backend" -> "answered"
      [] req[r].by = "proxy" -> OwnAnswer(r)
      [] req[r].by = "nobody" -> IF req[r].pc = "dropped" THEN "unknown" ELSE "pending"

Gateway == INSTANCE Gateway WITH fate <- [r \in Requests |-> Fate(r)]

\* The proxy keeps the promises of Gateway: nothing but safe content reaches a
\* backend, at most once; what the proxy refuses itself never does, whatever becomes
\* of its calls later; and a backend's answer, of any status, is passed on only for a
\* request that arrived.
KeepsGateway == Gateway!GatewaySpec

\* Every request and call is answered, unless the middleware stops.
RequestsSettled ==
    /\ \A r \in Requests : Pending(req[r].pc) ~> ~Pending(req[r].pc)
    /\ \A a \in AdminCalls : Pending(call[a].pc) ~> ~Pending(call[a].pc)
=============================================================================
