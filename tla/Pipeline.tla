------------------------------ MODULE Pipeline ------------------------------
(***************************************************************************)
(* The way of a request through the whole system: Proxy with the scan      *)
(* endpoint itself, ScanRoute over RateLimiter, in the place of its        *)
(* contract.                                                               *)
(*                                                                         *)
(* A request is its own scan.  The verdict the proxy waits for is the      *)
(* endpoint's reply; what detection finds in a request is what the         *)
(* detectors make of its hits.  The two programs share nothing else, so a  *)
(* step of one leaves the other alone: the scan a proxy has given up on    *)
(* goes on, is counted and is logged, and either program may stop and      *)
(* start again without the other.                                          *)
(***************************************************************************)
EXTENDS Proxy

CONSTANTS
    Addresses,
    address,      \* the peer address of each request
    hits,         \* the <<location, kind>> pairs each request matches
    MAX_REQUESTS_PER_MINUTE

VARIABLES
    counter, ttl, window, incr, expires, timers, scan, faults,   \* RateLimiter
    inserting, rows                                              \* ScanRoute

\* SecurityClient always sends a JSON body.
Endpoint == INSTANCE ScanRoute WITH
    Scans <- Requests, malformed <- {}, reply <- verdict

ASSUME PipelineAssumption ==
    /\ IsFiniteSet(Requests)
    /\ address \in [Requests -> Addresses]
    /\ MAX_REQUESTS_PER_MINUTE \in Nat
    /\ hits \in [Requests -> SUBSET (Endpoint!Locations \X Endpoint!Kinds)]
    /\ content = [r \in Requests |-> Endpoint!Detection(r)]

front == <<Registry, req, sent, arrived, late>>
engine == <<counter, ttl, window, incr, expires, timers, scan, faults, inserting, rows>>
pipelineVars == <<front, engine, verdict>>

PipelineInit == Init /\ Endpoint!ScanInit

-----------------------------------------------------------------------------

\* The middleware, the backends and the network between them.
FrontStep ==
    /\ \/ \E r \in Requests :
             HandleRequest(r) \/ Returns(r) \/ Arrives(r) \/ NeverArrives(r)
       \/ \E a \in AdminCalls :
             \/ RegisterBackend(a) \/ ListBackends(a) \/ DeactivateBackend(a)
             \/ Statement(a) \/ Executes(a) \/ NeverExecutes(a)
       \/ MiddlewareStops
    /\ UNCHANGED engine

\* Mutation: the scan is made for every request, with or without a backend.
EngineScansUnknown(r) ==
    /\ req[r].pc # "new"
    /\ Endpoint!RunScan(r)
    /\ UNCHANGED front

\* The scan of a request whose backend was found; it may come late, or never.
EngineScans(r) ==
    /\ req[r].target # Nil
    /\ Endpoint!RunScan(r)
    /\ UNCHANGED front

\* The log, Redis, and the engine stopping.
EngineStep ==
    /\ \/ \E row \in inserting : Endpoint!RowStored(row) \/ Endpoint!RowLost(row)
       \/ Endpoint!Redis /\ UNCHANGED <<verdict, inserting, rows>>
       \/ Endpoint!EngineStops /\ UNCHANGED <<verdict, inserting, rows>>
    /\ UNCHANGED front

PipelineNext ==
    \/ FrontStep
    \/ \E r \in Requests : EngineScans(r)
    \/ EngineStep

PipelineSpec == PipelineInit /\ [][PipelineNext]_pipelineVars

-----------------------------------------------------------------------------
(* Properties.                                                             *)

\* The pipeline is Proxy: the endpoint, with its races and its log, answers
\* nothing that the contract the proxy relies on does not allow.
KeepsProxy == Spec

Forwarded == sent \cup arrived

\* A request the log calls blocked never reaches a backend, though the row is
\* written by another program, before the proxy knows the verdict, and stays when
\* the proxy has answered 503 meanwhile.
LoggedIsNotForwarded == \A row \in inserting \cup rows : row.scan \notin Forwarded

\* The backend_id of a row names a row of backend_registration (the foreign key):
\* a scan is made only for a backend that was found, and rows are never deleted.
LogNamesBackend == \A row \in inserting \cup rows :
    req[row.scan].target \in Backends /\ Exists(req[row.scan].target)

\* Of the requests counted on one key at most MAX_REQUESTS_PER_MINUTE go on to a
\* backend, apart from those let through because Redis failed or was late.
ForwardsBounded ==
    \A r \in Requests :
        Cardinality({u \in Endpoint!Counted(address[r], scan[r].window) :
                        u \in Forwarded /\ scan[u].by = "reply"})
            <= MAX_REQUESTS_PER_MINUTE
=============================================================================
