--------------------------- MODULE PipelineProofs ---------------------------
(***************************************************************************)
(* Pipeline implements Proxy and runs ScanRoute, so the invariants of both *)
(* hold of it; what they say of the verdict, which the two share, gives    *)
(* the properties of the whole.  For any number of requests and any limit. *)
(***************************************************************************)
EXTENDS Pipeline, ProxyProofs, FiniteSetTheorems

\* The endpoint again, with what is proved of it.
Ep == INSTANCE ScanRouteProofs WITH
    Scans <- Requests, malformed <- {}, reply <- verdict

\* What ScanRoute assumes of its constants.
LEMMA EpConstants ==
  /\ Ep!IsFiniteSet(Requests)
  /\ address \in [Requests -> Addresses]
  /\ MAX_REQUESTS_PER_MINUTE \in Nat
  /\ hits \in [Requests -> SUBSET (Ep!Locations \X Ep!Kinds)]
  /\ {} \subseteq Requests
  BY PipelineAssumption
     DEF Ep!Locations, Ep!Kinds, Endpoint!Locations, Endpoint!Kinds, IsFiniteSet, Ep!IsFiniteSet

LEMMA SameCardinality == \A S : Ep!Cardinality(S) = Cardinality(S)
  BY DEF Cardinality, Ep!Cardinality

-----------------------------------------------------------------------------
(* Endpoint and Ep are two instances of one module.                        *)

LEMMA SameInit == Endpoint!ScanInit <=> Ep!ScanInit
  BY DEF Endpoint!ScanInit, Ep!ScanInit, Endpoint!LimiterInit, Ep!LimiterInit,
         Endpoint!NewScan, Ep!NewScan

LEMMA SameRun == \A r \in Requests : Endpoint!RunScan(r) <=> Ep!RunScan(r)
  BY DEF Endpoint!RunScan, Ep!RunScan,
         Endpoint!Handler, Ep!Handler, Endpoint!CheckBlocked, Ep!CheckBlocked,
         Endpoint!IncrReplied, Ep!IncrReplied, Endpoint!IncrFailed, Ep!IncrFailed,
         Endpoint!TimerFires, Ep!TimerFires, Endpoint!Fire, Ep!Fire,
         Endpoint!OverLimit, Ep!OverLimit, Endpoint!redis, Ep!redis,
         Endpoint!Conclude, Ep!Conclude, Endpoint!Verdict, Ep!Verdict,
         Endpoint!Detection, Ep!Detection, Endpoint!Detects, Ep!Detects,
         Endpoint!Scanned, Ep!Scanned, Endpoint!Respond, Ep!Respond,
         Endpoint!Log, Ep!Log, Endpoint!Attacks, Ep!Attacks, Endpoint!Kinds, Ep!Kinds

LEMMA SameRest ==
  /\ \A row : /\ Endpoint!RowStored(row) <=> Ep!RowStored(row)
              /\ Endpoint!RowLost(row) <=> Ep!RowLost(row)
  /\ Endpoint!Redis <=> Ep!Redis
  /\ Endpoint!EngineStops <=> Ep!EngineStops
  BY DEF Endpoint!RowStored, Ep!RowStored, Endpoint!RowLost, Ep!RowLost,
         Endpoint!limiterVars, Ep!limiterVars, Endpoint!Redis, Ep!Redis,
         Endpoint!RedisIncr, Ep!RedisIncr, Endpoint!RedisExpire, Ep!RedisExpire,
         Endpoint!ExpireLost, Ep!ExpireLost, Endpoint!KeyExpires, Ep!KeyExpires,
         Endpoint!RedisForgets, Ep!RedisForgets, Endpoint!KeyGone, Ep!KeyGone,
         Endpoint!EngineStops, Ep!EngineStops, Endpoint!redis, Ep!redis

\* The front's steps are the proxy's own.
LEMMA FrontSteps ==
  ASSUME FrontStep
  PROVE  Next /\ UNCHANGED <<verdict, engine>>
  <1>1. Next
    <2>1. ASSUME NEW r \in Requests,
                 HandleRequest(r) \/ Returns(r) \/ Arrives(r) \/ NeverArrives(r)
          PROVE  Next
      BY <2>1 DEF Next
    <2>2. ASSUME NEW a \in AdminCalls,
                 \/ RegisterBackend(a) \/ ListBackends(a) \/ DeactivateBackend(a)
                 \/ Statement(a) \/ Executes(a) \/ NeverExecutes(a)
          PROVE  Next
      BY <2>2 DEF Next
    <2>3. CASE MiddlewareStops
      BY <2>3 DEF Next
    <2> QED
      BY <2>1, <2>2, <2>3 DEF FrontStep
  <1>2. UNCHANGED verdict
    <2>1. ASSUME NEW r \in Requests,
                 HandleRequest(r) \/ Returns(r) \/ Arrives(r) \/ NeverArrives(r)
          PROVE  UNCHANGED verdict
      BY <2>1 DEF HandleRequest, Returns, FindByApiKey, Scanned, Forward, ScanFailed,
                  BackendAnswered, BackendFailed, Arrives, NeverArrives, Network
    <2>2. ASSUME NEW a \in AdminCalls,
                 \/ RegisterBackend(a) \/ ListBackends(a) \/ DeactivateBackend(a)
                 \/ Statement(a) \/ Executes(a) \/ NeverExecutes(a)
          PROVE  UNCHANGED verdict
      BY <2>2 DEF RegisterBackend, ListBackends, DeactivateBackend, Statement, Save,
                  FindAll, Deactivate, GiveUp, Executes, NeverExecutes, Network
    <2>3. CASE MiddlewareStops
      BY <2>3 DEF MiddlewareStops, Network
    <2> QED
      BY <2>1, <2>2, <2>3 DEF FrontStep
  <1> QED
    BY <1>1, <1>2 DEF FrontStep

\* A step of the endpoint answers what the contract allows, or nothing.
LEMMA ScanSteps ==
  ASSUME NEW r \in Requests, EngineScans(r)
  PROVE  EngineAnswers(r) \/ UNCHANGED vars
  <1>1. UNCHANGED <<backends, told, made, call, overdue, req, sent, arrived, late>>
    BY DEF EngineScans, front, Registry, Table
  <1>2. CASE UNCHANGED verdict
    BY <1>1, <1>2 DEF vars
  <1>3. CASE verdict[r] = "none" /\ verdict' = [verdict EXCEPT ![r] = Endpoint!Verdict(r)]
    <2>1. content[r] = Endpoint!Detection(r) /\ content[r] # "400"
      BY PipelineAssumption, ProxyAssumption DEF Contents
    <2>2. Endpoint!Verdict(r) \in {content[r], "RateLimit"}
      BY <2>1 DEF Endpoint!Verdict
    <2>3. Engine!AnswerScan(r)
      BY <1>3, <2>1, <2>2 DEF Engine!AnswerScan, Engine!Allowed
    <2>4. req[r].target # Nil
      BY DEF EngineScans
    <2> QED
      BY <1>1, <2>3, <2>4 DEF EngineAnswers, Registry, Table
  <1> QED
    BY <1>2, <1>3 DEF EngineScans, Endpoint!RunScan, Endpoint!Conclude, Endpoint!Respond

LEMMA ProxyStep ==
  ASSUME [PipelineNext]_pipelineVars
  PROVE  [Next]_vars
  <1>1. CASE EngineStep
    BY <1>1 DEF EngineStep, Endpoint!RowStored, Endpoint!RowLost, vars, front, Registry, Table
  <1>2. CASE UNCHANGED pipelineVars
    BY <1>2 DEF pipelineVars, front, Registry, Table, vars
  <1> QED
    BY <1>1, <1>2, FrontSteps, ScanSteps DEF PipelineNext, Next

LEMMA EndpointStep ==
  ASSUME [PipelineNext]_pipelineVars
  PROVE  [Ep!ScanNext]_(Ep!vars)
  <1>1. CASE FrontStep
    BY <1>1, FrontSteps DEF engine, Ep!vars, Ep!limiterVars
  <1>2. CASE \E r \in Requests : EngineScans(r)
    BY <1>2, SameRun DEF EngineScans, Ep!ScanNext
  <1>3. CASE EngineStep
    BY <1>3, SameRest DEF EngineStep, Ep!ScanNext, Ep!outputs
  <1>4. CASE UNCHANGED pipelineVars
    BY <1>4 DEF pipelineVars, engine, Ep!vars, Ep!limiterVars
  <1> QED
    BY <1>1, <1>2, <1>3, <1>4 DEF PipelineNext

-----------------------------------------------------------------------------

\* The pipeline implements Proxy, and with it Gateway.
THEOREM PipelineImplementsProxy == PipelineSpec => KeepsProxy
  <1>1. PipelineInit => Init
    BY DEF PipelineInit
  <1>2. [PipelineNext]_pipelineVars => [Next]_vars
    BY ProxyStep
  <1> QED
    BY <1>1, <1>2, PTL DEF PipelineSpec, KeepsProxy, Spec

\* Whatever the middleware does, the engine runs as ScanRoute says.
THEOREM PipelineRunsEndpoint == PipelineSpec => Ep!ScanSpec
  <1>1. PipelineInit => Ep!ScanInit
    BY SameInit DEF PipelineInit
  <1>2. [PipelineNext]_pipelineVars => [Ep!ScanNext]_(Ep!vars)
    BY EndpointStep
  <1> QED
    BY <1>1, <1>2, PTL DEF PipelineSpec, Ep!ScanSpec

\* From the client's request to Redis and back: with the races of the limiter, a log
\* that may fail and an engine that may stop inside the scan, nothing but safe content
\* reaches a backend, at most once; what the proxy itself refuses never does; and a
\* backend's answer of any status is passed on only for a request that arrived.
THEOREM PipelineImplementsGateway == PipelineSpec => KeepsGateway
  BY PipelineImplementsProxy, ProxyImplementsGateway, PTL DEF KeepsProxy

\* A deactivated backend stays closed to later requests however long a scan takes.
THEOREM PipelineStaysClosed == PipelineSpec => []DeactivatedIsClosed
  BY PipelineImplementsProxy, DeactivatedStaysClosed, PTL DEF KeepsProxy

-----------------------------------------------------------------------------
(* Invariants of the whole.                                                *)

\* The row of a request that was found stays, and a request found safe is past
\* its rate limit.
LinkOK(r) ==
    /\ req[r].target # Nil => req[r].target \in Backends /\ Exists(req[r].target)
    /\ verdict[r] = "safe" => scan[r].pc = "done" /\ ~scan[r].blocked

PipelineInv ==
    /\ Inv
    /\ Ep!ScanInv
    /\ \A r \in Requests : LinkOK(r)

LEMMA PipelineInvInit == PipelineInit => PipelineInv
  <1> SUFFICES ASSUME PipelineInit PROVE PipelineInv
    OBVIOUS
  <1>1. Inv
    BY InvInit DEF PipelineInit
  <1>2. Ep!ScanInv
    BY EpConstants, SameInit, Ep!ScanInvInit DEF PipelineInit
  <1>3. ASSUME NEW r \in Requests PROVE LinkOK(r)
    BY <1>3, ProxyAssumption DEF PipelineInit, Init, NewRequest, LinkOK
  <1> QED
    BY <1>1, <1>2, <1>3 DEF PipelineInv

\* A handler of q leaves the other requests alone.
LEMMA RequestOwn ==
  ASSUME TypeOK, NEW q \in Requests, NEW r \in Requests, r # q,
         HandleRequest(q) \/ Returns(q)
  PROVE  req'[r] = req[r]
  <1>1. ASSUME NEW record, Becomes(q, record) PROVE req'[r] = req[r]
    BY <1>1 DEF Becomes, TypeOK
  <1>2. ASSUME NEW who, NEW code, AnsweredBy(q, who, code) PROVE req'[r] = req[r]
    BY <1>1, <1>2 DEF AnsweredBy
  <1>3. ASSUME HandleRequest(q) PROVE req'[r] = req[r]
    BY <1>1, <1>2, <1>3 DEF HandleRequest, Answer
  <1>4. ASSUME FindByApiKey(q) PROVE req'[r] = req[r]
    BY <1>1, <1>2, <1>4 DEF FindByApiKey, Answer
  <1>5. ASSUME Scanned(q) PROVE req'[r] = req[r]
    BY <1>1, <1>2, <1>5 DEF Scanned, Forward, Answer
  <1>6. ASSUME ScanFailed(q) \/ BackendAnswered(q) \/ BackendFailed(q) PROVE req'[r] = req[r]
    BY <1>2, <1>6 DEF ScanFailed, BackendAnswered, BackendFailed, Answer
  <1> QED
    BY <1>3, <1>4, <1>5, <1>6 DEF Returns

\* A request gets its target when its key is found, and keeps it.
LEMMA RequestTarget ==
  ASSUME TypeOK, NEW r \in Requests, HandleRequest(r) \/ Returns(r)
  PROVE  req'[r].target = req[r].target \/ Found(req'[r].target)
  <1>0. req \in [Requests -> Request] /\ req[r] \in Request
    BY DEF TypeOK
  <1>1. ASSUME NEW record, Becomes(r, record) PROVE req'[r] = record
    BY <1>0, <1>1 DEF Becomes
  <1>2. ASSUME NEW who, NEW code, AnsweredBy(r, who, code)
        PROVE  req'[r].target = req[r].target
    <2>1. req'[r] = [req[r] EXCEPT !.pc = "done", !.by = who, !.status = code]
      BY <1>1, <1>2 DEF AnsweredBy
    <2> QED
      BY <1>0, <2>1 DEF Request
  <1>3. ASSUME NEW k, Becomes(r, [req[r] EXCEPT !.pc = "find", !.key = k])
        PROVE  req'[r].target = req[r].target
    <2>1. req'[r] = [req[r] EXCEPT !.pc = "find", !.key = k]
      BY <1>1, <1>3
    <2> QED
      BY <1>0, <2>1 DEF Request
  <1>4. ASSUME NEW b, Becomes(r, [req[r] EXCEPT !.pc = "scan", !.target = b])
        PROVE  req'[r].target = b
    <2>1. req'[r] = [req[r] EXCEPT !.pc = "scan", !.target = b]
      BY <1>1, <1>4
    <2> QED
      BY <1>0, <2>1 DEF Request
  <1>5. ASSUME Becomes(r, [req[r] EXCEPT !.pc = "forward"])
        PROVE  req'[r].target = req[r].target
    <2>1. req'[r] = [req[r] EXCEPT !.pc = "forward"]
      BY <1>1, <1>5
    <2> QED
      BY <1>0, <2>1 DEF Request
  <1>6. ASSUME HandleRequest(r) PROVE req'[r].target = req[r].target
    BY <1>2, <1>3, <1>6 DEF HandleRequest, Answer
  <1>7. ASSUME FindByApiKey(r)
        PROVE  req'[r].target = req[r].target \/ Found(req'[r].target)
    <2>1. CASE Found(req[r].key)
               /\ Becomes(r, [req[r] EXCEPT !.pc = "scan", !.target = req[r].key])
      <3>1. req'[r].target = req[r].key
        BY <1>4, <2>1
      <3>2. Found(req[r].key)
        BY <2>1
      <3> QED
        BY <3>1, <3>2 DEF Found
    <2>2. CASE Answer(r, 404) \/ Answer(r, 500)
      BY <1>2, <2>2 DEF Answer
    <2> QED
      BY <1>7, <2>1, <2>2 DEF FindByApiKey
  <1>8. ASSUME Scanned(r) PROVE req'[r].target = req[r].target
    BY <1>2, <1>5, <1>8 DEF Scanned, Forward, Answer
  <1>9. ASSUME ScanFailed(r) \/ BackendAnswered(r) \/ BackendFailed(r)
        PROVE  req'[r].target = req[r].target
    BY <1>2, <1>9 DEF ScanFailed, BackendAnswered, BackendFailed, Answer
  <1> QED
    BY <1>6, <1>7, <1>8, <1>9 DEF Returns

\* No row of backend_registration goes away.
LEMMA RowsRemain ==
  ASSUME TypeOK, NEW a \in AdminCalls, NEW b \in Backends, backends[b] # "absent",
         \/ RegisterBackend(a) \/ ListBackends(a) \/ DeactivateBackend(a)
         \/ Statement(a) \/ Executes(a) \/ NeverExecutes(a)
  PROVE  backends'[b] # "absent"
  <1>1. ASSUME NEW c \in Backends, InsertRow(a, c) \/ DeactivateRow(c)
        PROVE  backends'[b] # "absent"
    BY <1>1 DEF TypeOK, InsertRow, DeactivateRow
  <1>2. ASSUME NEW c, InsertRow(a, c) \/ DeactivateRow(c) PROVE backends'[b] # "absent"
    BY <1>2 DEF TypeOK, InsertRow, DeactivateRow
  <1>3. CASE UNCHANGED backends
    BY <1>3
  <1>4. CASE RegisterBackend(a) \/ ListBackends(a) \/ DeactivateBackend(a) \/ FindAll(a)
             \/ GiveUp(a) \/ NeverExecutes(a)
    BY <1>3, <1>4 DEF RegisterBackend, ListBackends, DeactivateBackend, FindAll, GiveUp,
       NeverExecutes, Table
  <1>5. CASE Save(a)
    BY <1>2, <1>3, <1>5 DEF Save, Table
  <1>6. CASE Deactivate(a)
    BY <1>2, <1>3, <1>6 DEF Deactivate
  <1>7. CASE Executes(a)
    BY <1>2, <1>7 DEF Executes
  <1> QED
    BY <1>4, <1>5, <1>6, <1>7 DEF Statement

LEMMA TargetStep ==
  ASSUME TypeOK, [Next]_vars, NEW r \in Requests
  PROVE  /\ \A b \in Backends : backends[b] # "absent" => backends'[b] # "absent"
         /\ req'[r].target = req[r].target \/ Found(req'[r].target)
  <1>1. CASE UNCHANGED <<backends, req>>
    BY <1>1
  <1>2. ASSUME NEW q \in Requests, HandleRequest(q) \/ Returns(q)
        PROVE  UNCHANGED backends /\ (req'[r].target = req[r].target \/ Found(req'[r].target))
    <2>1. UNCHANGED backends
      BY <1>2 DEF HandleRequest, Returns, FindByApiKey, Scanned, Forward, ScanFailed,
                  BackendAnswered, BackendFailed, Registry, Table
    <2>2. CASE r # q
      <3>1. req'[r] = req[r]
        BY <1>2, <2>2, RequestOwn
      <3> QED
        BY <2>1, <3>1
    <2>3. CASE r = q
      <3>1. HandleRequest(r) \/ Returns(r)
        BY <1>2, <2>3
      <3> QED
        BY <2>1, <3>1, RequestTarget
    <2> QED
      BY <2>1, <2>2, <2>3
  <1>3. ASSUME NEW a \in AdminCalls,
               \/ RegisterBackend(a) \/ ListBackends(a) \/ DeactivateBackend(a)
               \/ Statement(a) \/ Executes(a) \/ NeverExecutes(a)
        PROVE  /\ UNCHANGED req
               /\ \A b \in Backends : backends[b] # "absent" => backends'[b] # "absent"
    <2>1. UNCHANGED req
      BY <1>3 DEF RegisterBackend, ListBackends, DeactivateBackend, Statement, Save,
          FindAll, Deactivate, GiveUp, Executes, NeverExecutes
    <2> QED
      BY <1>3, <2>1, RowsRemain
  <1>4. CASE MiddlewareStops
    <2>1. req[r] \in Request /\ UNCHANGED backends
      BY <1>4 DEF MiddlewareStops, Table, TypeOK
    <2>2. req'[r] = req[r] \/ req'[r] = [req[r] EXCEPT !.pc = "dropped"]
      BY <1>4 DEF MiddlewareStops
    <2>3. [req[r] EXCEPT !.pc = "dropped"].target = req[r].target
      BY <2>1 DEF Request
    <2> QED
      BY <2>1, <2>2, <2>3
  <1>5. CASE \E q \in Requests : EngineAnswers(q) \/ Arrives(q) \/ NeverArrives(q)
    BY <1>1, <1>5 DEF EngineAnswers, Arrives, NeverArrives, Registry, Table
  <1> QED
    BY <1>1, <1>2, <1>3, <1>4, <1>5 DEF Next, vars

\* Who is done stays done, with the same argument; who becomes safe was not blocked.
LEMMA SafeStep ==
  ASSUME PipelineInv, [PipelineNext]_pipelineVars, NEW r \in Requests, verdict'[r] = "safe"
  PROVE  scan'[r].pc = "done" /\ ~scan'[r].blocked
  <1>0. /\ scan \in [Requests -> Ep!Scan] /\ scan[r] \in Ep!Scan /\ LinkOK(r)
        /\ verdict[r] = "none" <=> scan[r].calls = 0
        /\ Ep!ScanInv /\ Ep!ScanOK(r)
    BY DEF PipelineInv, Ep!ScanInv, Ep!LimiterInv, Ep!LimiterTypeOK, Ep!AnsweredOK
  <1>1. CASE UNCHANGED <<scan, verdict>>
    BY <1>0, <1>1 DEF LinkOK
  <1>2. ASSUME NEW q \in Requests, Ep!RunScan(q)
        PROVE  scan'[r].pc = "done" /\ ~scan'[r].blocked
    <2>0. Ep!LimiterInv'
      <3>1. [Ep!LimiterNext]_(Ep!limiterVars)
        BY <1>2 DEF Ep!RunScan, Ep!LimiterNext
      <3> QED
        BY <1>0, <3>1, EpConstants, Ep!LimiterStep DEF Ep!ScanInv
    <2>1. \/ scan'[q].calls = scan[q].calls /\ UNCHANGED verdict
          \/ /\ scan[q].calls = 0 /\ scan'[q].calls = 1
             /\ verdict' = [verdict EXCEPT ![q] = Ep!Verdict(q)]
      BY <1>0, <1>2, <2>0, EpConstants, Ep!ConcludeFacts DEF Ep!outputs
    <2>2. \A u \in Requests \ {q} : scan'[u] = scan[u]
      BY <1>0, <1>2, EpConstants, Ep!HandlerOwn DEF Ep!ScanInv, Ep!LimiterInv, Ep!RunScan
    <2>3. CASE r # q
      BY <1>0, <2>1, <2>2, <2>3 DEF LinkOK, Ep!ScanInv, Ep!OutputsOK
    <2>4. CASE r = q /\ UNCHANGED verdict
      <3>1. scan[r].pc = "done" /\ ~scan[r].blocked
        BY <1>0, <2>4 DEF LinkOK
      <3>2. scan'[r] = scan[r]
        BY <1>2, <2>4, <3>1 DEF Ep!RunScan, Ep!Handler, Ep!CheckBlocked, Ep!IncrReplied,
            Ep!IncrFailed, Ep!TimerFires, Ep!Fire
      <3> QED
        BY <3>1, <3>2
    <2>5. CASE r = q /\ scan'[q].calls = 1 /\ verdict' = [verdict EXCEPT ![q] = Ep!Verdict(q)]
      <3>1. scan'[r].pc = "done"
        BY <2>0, <2>5 DEF Ep!LimiterInv, Ep!ScanOK
      <3>2. ~scan'[r].blocked
        BY <2>5 DEF Ep!Verdict, PipelineInv, Ep!ScanInv, Ep!OutputsOK
      <3> QED
        BY <3>1, <3>2
    <2> QED
      BY <2>1, <2>3, <2>4, <2>5
  <1>3. CASE EngineStep
    <2>1. UNCHANGED verdict
      BY <1>3 DEF EngineStep, Endpoint!RowStored, Endpoint!RowLost
    <2>2. scan[r].pc = "done" /\ ~scan[r].blocked
      BY <1>0, <2>1 DEF LinkOK
    <2>3. ASSUME NEW u \in Requests, Ep!RedisIncr(u)
          PROVE  scan'[r].pc = "done" /\ ~scan'[r].blocked
      BY <1>0, <2>2, <2>3 DEF Ep!RedisIncr, Ep!Scan
    <2>4. CASE Ep!EngineStops
      BY <1>0, <2>2, <2>4 DEF Ep!EngineStops, Ep!Scan
    <2>5. CASE UNCHANGED scan
      BY <2>2, <2>5
    <2>6. CASE Ep!Redis
      BY <2>3, <2>5, <2>6 DEF Ep!Redis, Ep!RedisExpire, Ep!ExpireLost, Ep!KeyExpires,
          Ep!RedisForgets, Ep!KeyGone
    <2>7. CASE \E row \in inserting : Endpoint!RowStored(row) \/ Endpoint!RowLost(row)
      BY <2>5, <2>7 DEF Endpoint!RowStored, Endpoint!RowLost, Endpoint!limiterVars
    <2> QED
      BY <1>3, <2>4, <2>6, <2>7, SameRest DEF EngineStep
  <1>4. CASE FrontStep \/ UNCHANGED pipelineVars
    BY <1>1, <1>4, FrontSteps DEF engine, pipelineVars
  <1> QED
    BY <1>2, <1>3, <1>4, SameRun DEF PipelineNext, EngineScans

LEMMA PipelineInvStep == PipelineInv /\ [PipelineNext]_pipelineVars => PipelineInv'
  <1> SUFFICES ASSUME PipelineInv, [PipelineNext]_pipelineVars PROVE PipelineInv'
    OBVIOUS
  <1>1. [Next]_vars
    BY ProxyStep
  <1>2. Inv'
    BY <1>1, InvStep DEF PipelineInv
  <1>3. Ep!ScanInv'
    BY EndpointStep, EpConstants, Ep!ScanInvStep DEF PipelineInv
  <1>4. ASSUME NEW r \in Requests PROVE LinkOK(r)'
    <2>1. verdict'[r] = "safe" => scan'[r].pc = "done" /\ ~scan'[r].blocked
      BY SafeStep
    <2>2. req'[r].target # Nil =>
              req'[r].target \in Backends /\ backends'[req'[r].target] # "absent"
      <3>0. TypeOK
        BY DEF PipelineInv, Inv
      <3>1. /\ \A b \in Backends : backends[b] # "absent" => backends'[b] # "absent"
            /\ req'[r].target = req[r].target \/ Found(req'[r].target)
        BY <1>1, <3>0, TargetStep
      <3>2. \A b : Found(b) => b \in Backends /\ backends[b] # "absent"
        BY DEF Found
      <3>3. req[r].target # Nil =>
                req[r].target \in Backends /\ backends[req[r].target] # "absent"
        BY DEF PipelineInv, LinkOK, Exists
      <3> QED
        BY <3>1, <3>2, <3>3
    <2> QED
      BY <2>1, <2>2 DEF LinkOK, Exists
  <1> QED
    BY <1>2, <1>3, <1>4 DEF PipelineInv

LEMMA PipelineInvariant == PipelineSpec => []PipelineInv
  BY PipelineInvInit, PipelineInvStep, PTL DEF PipelineSpec

\* What the log says of a request, its caller was answered or will be.
LEMMA LoggedVerdict ==
  ASSUME PipelineInv, NEW row \in inserting \cup rows
  PROVE  row.scan \in Requests /\ verdict[row.scan] \notin {"none", "safe"}
  BY DEF PipelineInv, Ep!ScanInv, Ep!OutputsOK, Ep!Row, Ep!RowsAgree, Ep!Attacks, Ep!Kinds

\* A request with a row in the log, stored or on its way, never reaches a backend.
THEOREM LoggedStaysOut == PipelineSpec => []LoggedIsNotForwarded
  <1>1. PipelineInv => LoggedIsNotForwarded
    BY LoggedVerdict DEF PipelineInv, Inv, RequestOK, LoggedIsNotForwarded, Forwarded
  <1> QED
    BY <1>1, PipelineInvariant, PTL

\* The foreign key of the log holds.
THEOREM LogsNameBackends == PipelineSpec => []LogNamesBackend
  <1>1. PipelineInv => LogNamesBackend
    BY LoggedVerdict DEF PipelineInv, Inv, RequestOK, LinkOK, LogNamesBackend
  <1> QED
    BY <1>1, PipelineInvariant, PTL

\* The rate limit bounds what reaches the backends, whatever runs in between.
THEOREM ForwardsAreBounded == PipelineSpec => []ForwardsBounded
  <1>1. ASSUME PipelineInv, Ep!PassesBounded, NEW r \in Requests
        PROVE  Cardinality({u \in Endpoint!Counted(address[r], scan[r].window) :
                               u \in Forwarded /\ scan[u].by = "reply"})
                   <= MAX_REQUESTS_PER_MINUTE
    <2> DEFINE F == {u \in Endpoint!Counted(address[r], scan[r].window) :
                        u \in Forwarded /\ scan[u].by = "reply"}
               P == {u \in Ep!Counted(address[r], scan[r].window) : Ep!Passed(u)}
    <2>1. F \subseteq P
      BY <1>1 DEF Endpoint!Counted, Ep!Counted, Ep!Passed, PipelineInv, Inv, RequestOK,
                  LinkOK, Forwarded
    <2>2. IsFiniteSet(P)
      BY PipelineAssumption, FS_Subset DEF Ep!Counted
    <2>3. Cardinality(P) <= MAX_REQUESTS_PER_MINUTE
      <3>1. Ep!Cardinality(P) <= MAX_REQUESTS_PER_MINUTE
        BY <1>1 DEF Ep!PassesBounded
      <3> QED
        BY <3>1, SameCardinality
    <2> HIDE DEF F, P
    <2>4. Cardinality(F) <= Cardinality(P) /\ IsFiniteSet(F)
      BY <2>1, <2>2, FS_Subset
    <2>5. Cardinality(F) \in Nat /\ Cardinality(P) \in Nat
      BY <2>2, <2>4, FS_CardinalityType
    <2> QED
      BY <2>3, <2>4, <2>5, EpConstants DEF F
  <1>2. PipelineInv /\ Ep!PassesBounded => ForwardsBounded
    BY <1>1 DEF ForwardsBounded
  <1>3. Ep!ScanSpec => Ep!LimiterSpec
    BY EpConstants, Ep!ScanRunsLimiter
  <1>4. Ep!LimiterSpec => []Ep!PassesBounded
    BY EpConstants, Ep!PassesAreBounded
  <1> QED
    BY <1>2, <1>3, <1>4, PipelineInvariant, PipelineRunsEndpoint, PTL
=============================================================================
