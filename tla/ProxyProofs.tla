---------------------------- MODULE ProxyProofs ----------------------------
(***************************************************************************)
(* The safety properties of Proxy, for any number of requests, calls and   *)
(* backends.  The argument: a request that is on its way or has arrived    *)
(* was scanned as safe and its chain is past the scan for good; one that   *)
(* came late never gets a target, for no row becomes active again.         *)
(***************************************************************************)
EXTENDS Proxy, TLAPS

\* What the engine may have answered to r's scan.
Verdicts(r) == {"none", content[r], "RateLimit"}

\* How far r's chain is tells what it captured and what became of it.
RequestOK(r) ==
    /\ req[r].pc = "new" => req[r].key = Nil
    /\ req[r].pc \in {"new", "find"} => req[r].target = Nil
    /\ req[r].target = Nil => verdict[r] = "none"
    /\ req[r].pc = "done" <=> req[r].by # "nobody"
    /\ req[r].pc = "forward" \/ r \in sent \cup arrived => verdict[r] = "safe"
    /\ r \in sent \cup arrived =>
          \/ req[r].pc \in {"forward", "dropped"}
          \/ req[r].by = "backend"
          \/ req[r].by = "proxy" /\ req[r].status = 502
    /\ r \notin sent \/ r \notin arrived
    /\ req[r].by = "backend" => r \in arrived
    /\ req[r].by = "proxy" /\ req[r].status = 403 => verdict[r] \notin {"none", "safe"}
    /\ verdict[r] \in Verdicts(r)

LateOK(r) ==
    r \in late =>
        /\ req[r].target = Nil
        /\ req[r].key \in Backends /\ backends[req[r].key] = "inactive"

Inv ==
    /\ TypeOK
    /\ \A r \in Requests : RequestOK(r) /\ LateOK(r)

\* What a chain's answer needs: who gives it, and for what.
Justified(r, who, code) ==
    \/ who = "backend" /\ req[r].pc = "forward" /\ r \in arrived
    \/ /\ who = "proxy"
       /\ code = 502 <=> req[r].pc = "forward"
       /\ code = 403 => verdict[r] \notin {"none", "safe"}

\* Records stay records when their fields change.
LEMMA AnsweredRecord ==
  ASSUME NEW q \in Request, NEW who \in {"proxy", "backend"}, NEW code \in RequestStatuses
  PROVE  [q EXCEPT !.pc = "done", !.by = who, !.status = code] \in Request
  BY DEF Request, RequestPCs

LEMMA AnsweredRequest ==
  ASSUME req \in [Requests -> Request], NEW r \in Requests,
         NEW who \in {"proxy", "backend"}, NEW code \in RequestStatuses,
         AnsweredBy(r, who, code)
  PROVE  /\ Becomes(r, req'[r])
         /\ req'[r] \in Request
         /\ req'[r].pc = "done" /\ req'[r].by = who /\ req'[r].status = code
         /\ req'[r].key = req[r].key /\ req'[r].target = req[r].target
  <1>1. req[r] \in Request
    OBVIOUS
  <1>2. /\ req'[r] = [req[r] EXCEPT !.pc = "done", !.by = who, !.status = code]
        /\ Becomes(r, req'[r])
    BY DEF AnsweredBy, Becomes
  <1>3. [req[r] EXCEPT !.pc = "done", !.by = who, !.status = code] \in Request
    BY <1>1, AnsweredRecord, Zenon
  <1> QED
    BY <1>1, <1>2, <1>3 DEF Request

LEMMA Codes ==
  /\ \A code \in ProxyStatuses \cup BackendStatuses : code \in RequestStatuses
  /\ 401 \in ProxyStatuses /\ 403 \in ProxyStatuses /\ 404 \in ProxyStatuses
  /\ 500 \in ProxyStatuses /\ 502 \in ProxyStatuses /\ 503 \in ProxyStatuses
  BY DEF RequestStatuses, ProxyStatuses

LEMMA KeyedRecord ==
  ASSUME NEW q \in Request, NEW k \in Backends \cup {Nil}
  PROVE  [q EXCEPT !.pc = "find", !.key = k] \in Request
  BY DEF Request, RequestPCs

LEMMA FoundRecord ==
  ASSUME NEW q \in Request, NEW p \in RequestPCs, NEW b \in Backends \cup {Nil}
  PROVE  [q EXCEPT !.pc = p, !.target = b] \in Request
  BY DEF Request

LEMMA AskedRecord ==
  ASSUME NEW q \in Call, NEW p \in CallPCs, NEW b \in Backends \cup {Nil}
  PROVE  [q EXCEPT !.pc = p, !.id = b] \in Call
  BY DEF Call

LEMMA InvInit == Init => Inv
  <1> USE ProxyAssumption
  <1> SUFFICES ASSUME Init PROVE Inv
    OBVIOUS
  <1>1. TypeOK
    BY DEF Init, TypeOK, NewRequest, NewCall, Request, Call, RequestPCs,
           RequestStatuses, CallPCs, CallStatuses
  <1>2. \A r \in Requests : RequestOK(r) /\ LateOK(r)
    BY DEF Init, RequestOK, LateOK, NewRequest, Verdicts
  <1> QED
    BY <1>1, <1>2 DEF Inv

\* A step that leaves the requests and the network alone, and no row active that
\* was not, keeps what is said of the requests.
LEMMA RegistryStep ==
  ASSUME Inv, TypeOK', UNCHANGED <<req, verdict, sent, arrived, late>>,
         \A b \in Backends : backends[b] = "inactive" => backends'[b] = "inactive"
  PROVE  Inv'
  <1>1. ASSUME NEW r \in Requests PROVE RequestOK(r)' /\ LateOK(r)'
    BY <1>1 DEF Inv, RequestOK, LateOK, Verdicts
  <1> QED
    BY <1>1 DEF Inv

LEMMA AdminStep ==
  ASSUME Inv, NEW a \in AdminCalls,
         \/ RegisterBackend(a) \/ ListBackends(a) \/ DeactivateBackend(a)
         \/ Statement(a) \/ Executes(a) \/ NeverExecutes(a)
  PROVE  Inv'
  <1> USE ProxyAssumption
  <1> DEFINE Rows == {"absent", "active", "inactive"}
  <1>0. TypeOK /\ call[a] \in Call
    BY DEF Inv, TypeOK
  <1>1. UNCHANGED <<req, verdict, sent, arrived, late>>
    BY DEF RegisterBackend, ListBackends, DeactivateBackend, Statement, Save, FindAll,
           Deactivate, GiveUp, Executes, NeverExecutes, Network
  <1>2. /\ backends' \in [Backends -> Rows]
        /\ \A b \in Backends : backends[b] = "inactive" => backends'[b] = "inactive"
    BY <1>0 DEF RegisterBackend, ListBackends, DeactivateBackend, Statement, Save, FindAll,
                Deactivate, GiveUp, Executes, NeverExecutes, TypeOK, Exists, Call,
                InsertRow, DeactivateRow, Table
  <1>3. /\ told' \subseteq Backends
        /\ made' \in [AdminCalls -> Backends \cup {Nil}]
        /\ overdue' \subseteq AdminCalls
    BY <1>0 DEF RegisterBackend, ListBackends, DeactivateBackend, Statement, Save, FindAll,
                Deactivate, GiveUp, Executes, NeverExecutes, TypeOK, InsertRow, Table
  <1>4. ASSUME NEW code \in CallStatuses, Reply(a, code)
        PROVE  call' \in [AdminCalls -> Call]
    <2> DEFINE record == [call[a] EXCEPT !.pc = "done", !.status = code]
    <2>1. record \in Call
      BY <1>0 DEF Call, CallPCs
    <2>2. call' = [call EXCEPT ![a] = record]
      BY <1>0, <1>4 DEF Reply, TypeOK
    <2> QED
      BY <1>0, <2>1, <2>2 DEF TypeOK
  <1>5. ASSUME NEW s \in {"save", "list", "deactivate"}, NEW b \in Backends \cup {Nil},
               Ask(a, s, b)
        PROVE  call' \in [AdminCalls -> Call]
    <2> DEFINE record == [call[a] EXCEPT !.pc = s, !.id = b]
    <2>1. record \in Call
      BY <1>0, AskedRecord DEF CallPCs
    <2>2. call' = [call EXCEPT ![a] = record]
      BY <1>0, <1>5 DEF Ask, TypeOK
    <2> QED
      BY <1>0, <2>1, <2>2 DEF TypeOK
  <1>6. call' \in [AdminCalls -> Call]
    <2>1. CASE UNCHANGED call
      BY <1>0, <2>1 DEF TypeOK
    <2> QED
      BY <1>4, <1>5, <2>1 DEF RegisterBackend, ListBackends, DeactivateBackend, Statement,
          Save, FindAll, Deactivate, GiveUp, Executes, NeverExecutes, Filtered, CallStatuses
  <1>7. TypeOK'
    BY <1>0, <1>1, <1>2, <1>3, <1>6 DEF TypeOK
  <1> QED
    BY <1>1, <1>2, <1>7, RegistryStep

\* A step of r's chain replaces r's record and nothing of the others'.
LEMMA OwnRequestStep ==
  ASSUME Inv, NEW r \in Requests, NEW record \in Request, Becomes(r, record),
         UNCHANGED <<backends, told, call, overdue, made, verdict, arrived>>,
         sent' \subseteq sent \cup {r}, sent \subseteq sent',
         late' \subseteq late \cup {r}, late \subseteq late',
         record.pc \in {"scan", "forward"} => record.target \in Backends,
         RequestOK(r)', LateOK(r)'
  PROVE  Inv'
  <1>1. /\ req' \in [Requests -> Request]
        /\ req'[r] = record
        /\ \A q \in Requests \ {r} : req'[q] = req[q]
    BY DEF Inv, TypeOK, Becomes
  <1>2. TypeOK'
    BY <1>1 DEF Inv, TypeOK
  <1>3. ASSUME NEW q \in Requests, q # r PROVE RequestOK(q)' /\ LateOK(q)'
    BY <1>1, <1>3 DEF Inv, RequestOK, LateOK, Verdicts
  <1> QED
    BY <1>2, <1>3 DEF Inv

LEMMA AnswerStep ==
  ASSUME Inv, NEW r \in Requests,
         NEW who \in {"proxy", "backend"}, NEW code \in RequestStatuses,
         AnsweredBy(r, who, code), Justified(r, who, code),
         UNCHANGED <<backends, told, call, overdue, made, verdict, sent, arrived, late>>,
         req[r].pc \in {"new", "find", "scan", "forward"}
  PROVE  Inv'
  <1>0. RequestOK(r) /\ LateOK(r)
    BY DEF Inv
  <1>1. /\ Becomes(r, req'[r]) /\ req'[r] \in Request
        /\ req'[r].pc = "done" /\ req'[r].by = who /\ req'[r].status = code
        /\ req'[r].key = req[r].key /\ req'[r].target = req[r].target
    BY AnsweredRequest DEF Inv, TypeOK
  <1>2. RequestOK(r)'
    BY <1>0, <1>1 DEF RequestOK, Justified, Verdicts
  <1>3. LateOK(r)'
    BY <1>0, <1>1 DEF LateOK
  <1> QED
    BY <1>1, <1>2, <1>3, OwnRequestStep

\* The same for the proxy's own answers.
LEMMA OwnAnswerStep ==
  ASSUME Inv, NEW r \in Requests, NEW code \in ProxyStatuses,
         Answer(r, code), Justified(r, "proxy", code),
         UNCHANGED <<backends, told, call, overdue, made, verdict, sent, arrived, late>>,
         req[r].pc \in {"new", "find", "scan", "forward"}
  PROVE  Inv'
  BY Codes, AnswerStep DEF Answer

LEMMA HandleStep ==
  ASSUME Inv, NEW r \in Requests, HandleRequest(r)
  PROVE  Inv'
  <1>0. /\ req \in [Requests -> Request] /\ req[r] \in Request
        /\ RequestOK(r) /\ told \subseteq Backends
        /\ UNCHANGED <<backends, told, call, overdue, made, verdict, sent, arrived>> /\ req[r].pc = "new"
    BY DEF Inv, TypeOK, HandleRequest, Registry, Table
  <1>1. CASE Answer(r, 401) /\ UNCHANGED late
    BY <1>0, <1>1, OwnAnswerStep, Codes DEF Justified
  <1>2. ASSUME NEW k \in told \cup {Nil},
               Becomes(r, [req[r] EXCEPT !.pc = "find", !.key = k]),
               late' = IF k # Nil /\ backends[k] = "inactive" THEN late \cup {r} ELSE late
        PROVE  Inv'
    <2> DEFINE record == [req[r] EXCEPT !.pc = "find", !.key = k]
    <2>1. k \in Backends \cup {Nil}
      BY <1>0, <1>2
    <2>2. record \in Request
      BY <1>0, <2>1, KeyedRecord
    <2>3. /\ record.pc = "find" /\ record.key = k
          /\ record.target = req[r].target /\ record.by = req[r].by
          /\ record.status = req[r].status
      BY <1>0 DEF Request
    <2>4. Becomes(r, record) /\ req'[r] = record
      BY <1>0, <1>2 DEF Becomes
    <2> HIDE DEF record
    <2>5. RequestOK(r)'
      BY <1>0, <2>3, <2>4 DEF RequestOK, Verdicts
    <2>6. r \notin late
      <3>1. LateOK(r) /\ req[r].key = Nil
        BY <1>0 DEF Inv, RequestOK
      <3> QED
        BY <3>1, ProxyAssumption DEF LateOK
    <2>7. LateOK(r)'
      BY <1>0, <1>2, <2>1, <2>3, <2>4, <2>6 DEF LateOK, RequestOK
    <2> QED
      BY <1>0, <1>2, <2>2, <2>3, <2>4, <2>5, <2>7, OwnRequestStep
  <1> QED
    BY <1>1, <1>2 DEF HandleRequest

LEMMA FindStep ==
  ASSUME Inv, NEW r \in Requests, FindByApiKey(r)
  PROVE  Inv'
  <1>0. /\ req \in [Requests -> Request] /\ req[r] \in Request
        /\ RequestOK(r) /\ LateOK(r)
    BY DEF Inv, TypeOK
  <1>1. CASE Answer(r, 404) \/ Answer(r, 500)
    BY <1>1, OwnAnswerStep, Codes DEF FindByApiKey, Registry, Table, Network, Justified
  <1>2. CASE /\ Found(req[r].key)
             /\ Becomes(r, [req[r] EXCEPT !.pc = "scan", !.target = req[r].key])
    <2> DEFINE record == [req[r] EXCEPT !.pc = "scan", !.target = req[r].key]
    <2>1. "scan" \in RequestPCs /\ req[r].key \in Backends
      BY <1>2 DEF RequestPCs, Found
    <2>2. record \in Request
      BY <1>0, <2>1, FoundRecord
    <2>3. /\ record.pc = "scan" /\ record.target = req[r].key
          /\ record.by = req[r].by /\ record.status = req[r].status
      BY <1>0 DEF Request
    <2>4. req'[r] = record
      BY <1>0, <1>2 DEF Becomes
    <2> HIDE DEF record
    <2>5. RequestOK(r)'
      BY <1>0, <2>1, <2>3, <2>4, ProxyAssumption
         DEF FindByApiKey, RequestOK, Verdicts, Registry, Table, Network
    <2>6. r \notin late'
      BY <1>0, <1>2 DEF LateOK, Found, FindByApiKey, Network
    <2>7. LateOK(r)'
      BY <2>6 DEF LateOK
    <2> QED
      BY <1>2, <2>1, <2>2, <2>3, <2>5, <2>7, OwnRequestStep
         DEF FindByApiKey, Registry, Table, Network, record
  <1> QED
    BY <1>1, <1>2 DEF FindByApiKey

LEMMA ScanStep ==
  ASSUME Inv, NEW r \in Requests, Scanned(r) \/ ScanFailed(r)
  PROVE  Inv'
  <1>0. /\ req \in [Requests -> Request] /\ req[r] \in Request
        /\ RequestOK(r) /\ LateOK(r) /\ req[r].pc = "scan" /\ req[r].target \in Backends
    BY DEF Inv, TypeOK, Scanned, ScanFailed
  <1>1. CASE Answer(r, 403) /\ verdict[r] \notin {"none", "safe"}
             /\ UNCHANGED <<Registry, Network>>
    BY <1>0, <1>1, OwnAnswerStep, Codes DEF Registry, Table, Network, Justified
  <1>2. CASE ScanFailed(r)
    BY <1>0, <1>2, OwnAnswerStep, Codes DEF ScanFailed, Registry, Table, Network, Justified
  <1>3. CASE verdict[r] = "safe" /\ Forward(r)
    <2> DEFINE record == [req[r] EXCEPT !.pc = "forward"]
    <2>1. "forward" \in RequestPCs
      BY DEF RequestPCs
    <2>2. record \in Request
      BY <1>0, <2>1 DEF Request
    <2>3. /\ record.pc = "forward" /\ record.target = req[r].target
          /\ record.by = req[r].by /\ record.status = req[r].status
          /\ record.key = req[r].key
      BY <1>0 DEF Request
    <2>4. Becomes(r, record) /\ req'[r] = record
      BY <1>0, <1>3 DEF Forward, Becomes
    <2> HIDE DEF record
    <2>5. r \notin sent \cup arrived
      BY <1>0 DEF RequestOK
    <2>6. RequestOK(r)'
      BY <1>0, <1>3, <2>3, <2>4, <2>5, ProxyAssumption
         DEF Forward, RequestOK, Verdicts, Registry, Table
    <2>7. LateOK(r)'
      BY <1>0, <1>3, <2>3, <2>4 DEF Forward, LateOK, Registry, Table
    <2>8. /\ UNCHANGED <<backends, told, call, overdue, made, verdict, arrived, late>>
          /\ sent' = sent \cup {r}
      BY <1>3 DEF Forward, Registry, Table
    <2> QED
      BY <1>0, <2>2, <2>3, <2>4, <2>6, <2>7, <2>8, OwnRequestStep
  <1> QED
    BY <1>1, <1>2, <1>3 DEF Scanned

LEMMA BackendStep ==
  ASSUME Inv, NEW r \in Requests, BackendAnswered(r) \/ BackendFailed(r)
  PROVE  Inv'
  <1>1. CASE BackendAnswered(r)
    BY <1>1, AnswerStep, Codes DEF BackendAnswered, Registry, Table, Network, Justified
  <1>2. CASE BackendFailed(r)
    BY <1>2, OwnAnswerStep, Codes DEF BackendFailed, Registry, Table, Network, Justified
  <1> QED
    BY <1>1, <1>2

\* What the engine and the network do to r concerns no other request.
LEMMA OutsideStep ==
  ASSUME Inv, NEW r \in Requests, EngineAnswers(r) \/ Arrives(r) \/ NeverArrives(r)
  PROVE  Inv'
  <1>0. RequestOK(r) /\ TypeOK /\ UNCHANGED <<backends, told, call, overdue, made, req, late>>
    BY DEF Inv, EngineAnswers, Arrives, NeverArrives, Registry, Table
  <1>1. CASE EngineAnswers(r)
    <2>1. /\ UNCHANGED <<sent, arrived>>
          /\ verdict[r] = "none" /\ req[r].target # Nil
          /\ \E v \in {content[r], "RateLimit"} : verdict' = [verdict EXCEPT ![r] = v]
      BY <1>1, ProxyAssumption DEF EngineAnswers, Engine!AnswerScan, Engine!Allowed
    <2>2. /\ verdict'[r] \in {content[r], "RateLimit"}
          /\ \A q \in Requests \ {r} : verdict'[q] = verdict[q]
          /\ verdict' \in [Requests -> {"none", "RateLimit"} \cup Contents]
      BY <1>0, <2>1, ProxyAssumption DEF TypeOK
    <2>3. RequestOK(r)'
      BY <1>0, <2>1, <2>2 DEF RequestOK, Verdicts
    <2>4. TypeOK'
      BY <1>0, <2>1, <2>2 DEF TypeOK
    <2>5. ASSUME NEW q \in Requests PROVE LateOK(q)'
      BY <1>0, <2>5 DEF Inv, LateOK
    <2>6. ASSUME NEW q \in Requests, q # r PROVE RequestOK(q)'
      BY <1>0, <2>1, <2>2, <2>6 DEF Inv, RequestOK, Verdicts
    <2> QED
      BY <2>3, <2>4, <2>5, <2>6 DEF Inv
  <1>2. CASE Arrives(r) \/ NeverArrives(r)
    <2>1. UNCHANGED verdict
      BY <1>2 DEF Arrives, NeverArrives
    <2>2. TypeOK'
      BY <1>0, <1>2, <2>1 DEF TypeOK, Arrives, NeverArrives
    <2>3. ASSUME NEW q \in Requests PROVE RequestOK(q)' /\ LateOK(q)'
      BY <1>0, <1>2, <2>1, <2>3 DEF Inv, RequestOK, LateOK, Verdicts, Arrives, NeverArrives
    <2> QED
      BY <2>2, <2>3 DEF Inv
  <1> QED
    BY <1>1, <1>2

LEMMA StopStep ==
  ASSUME Inv, MiddlewareStops
  PROVE  Inv'
  <1>0. /\ TypeOK
        /\ UNCHANGED <<backends, told, made, verdict, sent, arrived, late>>
        /\ overdue' \subseteq AdminCalls
    BY DEF Inv, MiddlewareStops, Network, Table, TypeOK
  <1>1. "dropped" \in RequestPCs /\ "dropped" \in CallPCs
    BY DEF RequestPCs, CallPCs
  <1>2. ASSUME NEW r \in Requests
        PROVE  /\ req'[r] \in Request
               /\ Pending(req[r].pc) => req'[r].pc = "dropped"
               /\ ~Pending(req[r].pc) => req'[r].pc = req[r].pc
               /\ req'[r].key = req[r].key /\ req'[r].target = req[r].target
               /\ req'[r].by = req[r].by /\ req'[r].status = req[r].status
    <2>1. req[r] \in Request
      BY <1>0 DEF TypeOK
    <2>2. req'[r] = IF Pending(req[r].pc) THEN [req[r] EXCEPT !.pc = "dropped"] ELSE req[r]
      BY DEF MiddlewareStops
    <2>3. CASE Pending(req[r].pc)
      BY <1>1, <2>1, <2>2, <2>3 DEF Request
    <2>4. CASE ~Pending(req[r].pc)
      BY <2>1, <2>2, <2>4
    <2> QED
      BY <2>3, <2>4
  <1>3. req' \in [Requests -> Request]
    BY <1>2 DEF MiddlewareStops
  <1>4. call' \in [AdminCalls -> Call]
    <2>1. ASSUME NEW a \in AdminCalls PROVE [call[a] EXCEPT !.pc = "dropped"] \in Call
      BY <1>0, <1>1, <2>1 DEF TypeOK, Call
    <2> QED
      BY <1>0, <2>1 DEF TypeOK, MiddlewareStops
  <1>5. ASSUME NEW r \in Requests
        PROVE  /\ RequestOK(r)' /\ LateOK(r)'
               /\ req'[r].pc \in {"scan", "forward"} => req'[r].target \in Backends
    BY <1>0, <1>2, <1>5 DEF Inv, TypeOK, RequestOK, LateOK, Verdicts, Pending
  <1>6. TypeOK'
    BY <1>0, <1>3, <1>4, <1>5 DEF TypeOK
  <1> QED
    BY <1>5, <1>6 DEF Inv

LEMMA InvStep == Inv /\ [Next]_vars => Inv'
  <1> SUFFICES ASSUME Inv, [Next]_vars PROVE Inv'
    OBVIOUS
  <1>1. CASE UNCHANGED vars
    <2>1. TypeOK'
      BY <1>1 DEF Inv, TypeOK, vars
    <2>2. UNCHANGED <<backends, req, verdict, sent, arrived, late>>
      BY <1>1 DEF vars
    <2> QED
      BY <2>1, <2>2, RegistryStep
  <1>2. CASE Next
    BY <1>2, HandleStep, FindStep, ScanStep, BackendStep, OutsideStep, AdminStep, StopStep
       DEF Next, Returns
  <1> QED
    BY <1>1, <1>2

LEMMA Invariant == Spec => []Inv
  BY InvInit, InvStep, PTL DEF Spec

-----------------------------------------------------------------------------

\* Rows, requests and calls have their types, and no request goes on to a scan
\* without a row.
THEOREM TypeCorrect == Spec => []TypeOK
  <1>1. Inv => TypeOK
    BY DEF Inv
  <1> QED
    BY <1>1, Invariant, PTL

\* No request that came after its backend was deactivated is forwarded.
THEOREM DeactivatedStaysClosed == Spec => []DeactivatedIsClosed
  <1>1. Inv => DeactivatedIsClosed
    BY DEF Inv, TypeOK, RequestOK, LateOK, DeactivatedIsClosed
  <1> QED
    BY <1>1, Invariant, PTL

-----------------------------------------------------------------------------
(* Rows and the calls that made them.                                      *)

\* A call makes its row while it waits for the INSERT or after it gave that up,
\* and then its caller takes it for failed.
CallOK(a) ==
    /\ call[a].status # 0 => call[a].pc = "done"
    /\ a \in overdue => Failed(a)
    /\ call[a].pc \notin {"done", "dropped"} \/ (a \in overdue /\ call[a].id = Nil)
          => made[a] = Nil

CallInv == (\A a \in AdminCalls : CallOK(a)) /\ KeylessOnlyByFault

LEMMA CallInvInit == Init => CallInv
  BY ProxyAssumption DEF Init, NewCall, CallInv, CallOK, KeylessOnlyByFault, Exists

LEMMA CallReply ==
  ASSUME TypeOK, NEW a \in AdminCalls, NEW code, Reply(a, code)
  PROVE  /\ call'[a].pc = "done" /\ call'[a].status = code /\ call'[a].id = call[a].id
         /\ \A c \in AdminCalls \ {a} : call'[c] = call[c]
  BY DEF TypeOK, Reply, Call

LEMMA CallAsk ==
  ASSUME TypeOK, NEW a \in AdminCalls, NEW s, NEW b, Ask(a, s, b)
  PROVE  /\ call'[a].pc = s /\ call'[a].status = call[a].status /\ call'[a].id = b
         /\ \A c \in AdminCalls \ {a} : call'[c] = call[c]
  BY DEF TypeOK, Ask, Call

\* A step of a that makes no row and leaves a's failure a failure.
LEMMA CallOwnStep ==
  ASSUME TypeOK, CallInv, NEW a \in AdminCalls,
         \A c \in AdminCalls \ {a} : call'[c] = call[c],
         \A c \in AdminCalls \ {a} : c \in overdue' <=> c \in overdue,
         UNCHANGED made,
         \A b \in Backends : Exists(b)' => Exists(b),
         told \subseteq told',
         Failed(a) => Failed(a)',
         CallOK(a)'
  PROVE  CallInv'
  <1>1. ASSUME NEW c \in AdminCalls PROVE CallOK(c)' /\ (Failed(c) => Failed(c)')
    BY <1>1 DEF CallInv, CallOK, Failed
  <1>2. KeylessOnlyByFault'
    BY <1>1 DEF CallInv, KeylessOnlyByFault
  <1> QED
    BY <1>1, <1>2 DEF CallInv

\* A row that a makes is told to the caller or a has failed.
LEMMA CallInsertStep ==
  ASSUME TypeOK, CallInv, NEW a \in AdminCalls, NEW b \in Backends, InsertRow(a, b),
         made[a] = Nil,
         \A c \in AdminCalls \ {a} : call'[c] = call[c],
         \A c \in AdminCalls \ {a} : c \in overdue' <=> c \in overdue,
         a \notin overdue', call'[a].pc \in {"done", "dropped"},
         call'[a].status # 0 => call'[a].pc = "done",
         \/ told' = told \cup {b}
         \/ told' = told /\ Failed(a)'
  PROVE  CallInv'
  <1>1. /\ made'[a] = b
        /\ \A c \in AdminCalls \ {a} : made'[c] = made[c]
        /\ \A d \in Backends \ {b} : Exists(d)' <=> Exists(d)
    BY DEF InsertRow, TypeOK, Exists
  <1>2. ASSUME NEW c \in AdminCalls PROVE CallOK(c)'
    <2>1. CASE c = a
      BY <2>1 DEF CallOK
    <2>2. CASE c # a
      BY <1>1, <2>2 DEF CallInv, CallOK, Failed
    <2> QED
      BY <2>1, <2>2
  <1>3. ASSUME NEW d \in Backends, Exists(d)', d \notin told'
        PROVE  \E c \in AdminCalls : made'[c] = d /\ Failed(c)'
    <2>1. CASE d = b
      BY <1>1, <1>3, <2>1
    <2>2. CASE d # b
      <3>1. PICK c \in AdminCalls : made[c] = d /\ Failed(c)
        BY <1>1, <1>3, <2>2 DEF CallInv, KeylessOnlyByFault
      <3>2. c # a
        BY <3>1, ProxyAssumption
      <3> QED
        BY <1>1, <3>1, <3>2 DEF Failed
    <2> QED
      BY <2>1, <2>2
  <1> QED
    BY <1>2, <1>3 DEF CallInv, KeylessOnlyByFault

LEMMA CallStep ==
  ASSUME TypeOK, CallInv, NEW a \in AdminCalls,
         \/ RegisterBackend(a) \/ ListBackends(a) \/ DeactivateBackend(a)
         \/ Statement(a) \/ Executes(a) \/ NeverExecutes(a)
  PROVE  CallInv'
  <1>0. CallOK(a)
    BY DEF CallInv
  <1>1. CASE RegisterBackend(a) \/ ListBackends(a) \/ DeactivateBackend(a)
    <2>0. call[a].pc = "new" /\ UNCHANGED <<backends, told, made, overdue>>
      BY <1>1 DEF RegisterBackend, ListBackends, DeactivateBackend, Table
    <2>1. ASSUME NEW code, Reply(a, code) PROVE CallInv'
      <3>1. CallOK(a)' /\ ~Failed(a)
        BY <1>0, <2>0, <2>1, CallReply DEF CallOK, Failed
      <3> QED
        BY <2>0, <2>1, <3>1, CallReply, CallOwnStep DEF Exists
    <2>2. ASSUME NEW s \in {"save", "list", "deactivate"}, NEW b, Ask(a, s, b) PROVE CallInv'
      <3>1. CallOK(a)' /\ ~Failed(a)
        BY <1>0, <2>0, <2>2, CallAsk DEF CallOK, Failed
      <3> QED
        BY <2>0, <2>2, <3>1, CallAsk, CallOwnStep DEF Exists
    <2> QED
      BY <1>1, <2>1, <2>2 DEF RegisterBackend, ListBackends, DeactivateBackend, Filtered
  <1>2. CASE FindAll(a) \/ Deactivate(a) \/ GiveUp(a)
    <2>0. /\ call[a].pc \in {"list", "save", "deactivate"} /\ UNCHANGED <<told, made>>
          /\ \A c \in AdminCalls \ {a} : c \in overdue' <=> c \in overdue
          /\ \A b \in Backends : Exists(b)' => Exists(b)
      BY <1>2 DEF FindAll, Deactivate, GiveUp, Writing, Table, Exists, DeactivateRow, TypeOK
    <2>1. ~Failed(a) /\ made[a] = Nil /\ a \notin overdue
      BY <1>0, <2>0 DEF CallOK, Failed
    <2>2. PICK code : Reply(a, code) /\ (a \in overdue' => code = 500)
      BY <1>2, <2>1 DEF FindAll, Deactivate, GiveUp
    <2>3. CallOK(a)'
      BY <2>0, <2>1, <2>2, CallReply DEF CallOK, Failed
    <2> QED
      BY <2>0, <2>1, <2>2, <2>3, CallReply, CallOwnStep
  <1>3. CASE Save(a)
    <2>0. call[a].pc = "save" /\ UNCHANGED overdue
      BY <1>3 DEF Save
    <2>1. ~Failed(a) /\ made[a] = Nil /\ a \notin overdue
      BY <1>0, <2>0 DEF CallOK, Failed
    <2>2. ASSUME Reply(a, 500), UNCHANGED Table PROVE CallInv'
      <3>1. CallOK(a)'
        BY <2>0, <2>1, <2>2, CallReply DEF CallOK, Table
      <3> QED
        BY <2>0, <2>1, <2>2, <3>1, CallReply, CallOwnStep DEF Table, Exists
    <2>3. ASSUME NEW b \in Backends, InsertRow(a, b),
                 \/ Reply(a, 201) /\ told' = told \cup {b}
                 \/ Reply(a, 500) /\ UNCHANGED told
          PROVE  CallInv'
      <3>1. Reply(a, 201) \/ (Reply(a, 500) /\ Failed(a)')
        BY <2>3, CallReply DEF Failed
      <3>2. call'[a].pc = "done" /\ \A c \in AdminCalls \ {a} : call'[c] = call[c]
        BY <2>3, CallReply
      <3>3. told' = told \cup {b} \/ (told' = told /\ Failed(a)')
        BY <2>3, CallReply DEF Failed
      <3> QED
        BY <2>0, <2>1, <2>3, <3>2, <3>3, CallInsertStep
    <2> QED
      BY <1>3, <2>2, <2>3 DEF Save
  <1>4. CASE Executes(a) \/ NeverExecutes(a)
    <2>0. a \in overdue /\ overdue' = overdue \ {a} /\ UNCHANGED <<told, call>> /\ Failed(a)
      BY <1>0, <1>4 DEF Executes, NeverExecutes, Table, CallOK
    <2>1. Failed(a)' /\ call[a].pc \in {"done", "dropped"}
      BY <1>0, <2>0 DEF Failed, CallOK
    <2>2. CASE UNCHANGED made /\ \A b \in Backends : Exists(b)' => Exists(b)
      <3>1. CallOK(a)'
        BY <1>0, <2>0, <2>1, <2>2 DEF CallOK
      <3> QED
        BY <2>0, <2>1, <2>2, <3>1, CallOwnStep
    <2>3. ASSUME NEW b \in Backends, InsertRow(a, b), call[a].id = Nil PROVE CallInv'
      <3>1. made[a] = Nil
        BY <1>0, <2>0, <2>3 DEF CallOK
      <3>2. call[a].status # 0 => call[a].pc = "done"
        BY <1>0 DEF CallOK
      <3> QED
        BY <2>0, <2>1, <2>3, <3>1, <3>2, CallInsertStep
    <2>4. CASE NeverExecutes(a)
      BY <2>2, <2>4 DEF NeverExecutes, Table, Exists
    <2>5. CASE DeactivateRow(call[a].id) /\ UNCHANGED made
      BY <2>2, <2>5 DEF DeactivateRow, Exists, TypeOK
    <2> QED
      BY <1>4, <2>3, <2>4, <2>5 DEF Executes
  <1> QED
    BY <1>1, <1>2, <1>3, <1>4 DEF Statement

LEMMA CallStopStep ==
  ASSUME TypeOK, CallInv, MiddlewareStops
  PROVE  CallInv'
  <1>1. ASSUME NEW a \in AdminCalls PROVE CallOK(a)' /\ (Failed(a) => Failed(a)')
    <2>0. call[a] \in Call /\ CallOK(a) /\ UNCHANGED made /\ (a \in overdue' => a \in overdue \/ Writing(a))
      BY <1>1 DEF MiddlewareStops, Table, CallInv, TypeOK
    <2>1. CASE Pending(call[a].pc)
      <3>1. /\ call'[a].pc = "dropped" /\ call'[a].status = call[a].status
            /\ call'[a].id = call[a].id
        BY <1>1, <2>0, <2>1 DEF MiddlewareStops, Call
      <3>2. made[a] = Nil /\ call[a].status = 0
        BY <2>0, <2>1 DEF Pending, CallOK
      <3> QED
        BY <2>0, <3>1, <3>2 DEF CallOK, Failed
    <2>2. CASE ~Pending(call[a].pc)
      <3>1. call'[a] = call[a]
        BY <1>1, <2>2 DEF MiddlewareStops
      <3>2. ~Writing(a)
        BY <2>2 DEF Writing, Pending
      <3> QED
        BY <2>0, <3>1, <3>2 DEF CallOK, Failed
    <2> QED
      BY <2>1, <2>2
  <1>2. UNCHANGED <<backends, told, made>>
    BY DEF MiddlewareStops, Table
  <1> QED
    BY <1>1, <1>2 DEF CallInv, KeylessOnlyByFault, Exists

LEMMA CallInvStep == TypeOK /\ CallInv /\ [Next]_vars => CallInv'
  <1> SUFFICES ASSUME TypeOK, CallInv, [Next]_vars PROVE CallInv'
    OBVIOUS
  <1>1. CASE UNCHANGED Registry
    BY <1>1 DEF CallInv, CallOK, KeylessOnlyByFault, Exists, Failed, Registry, Table
  <1>2. CASE \E r \in Requests :
               HandleRequest(r) \/ Returns(r) \/ EngineAnswers(r) \/ Arrives(r) \/ NeverArrives(r)
    BY <1>1, <1>2 DEF HandleRequest, Returns, FindByApiKey, Scanned, Forward, ScanFailed,
        BackendAnswered, BackendFailed, EngineAnswers, Arrives, NeverArrives
  <1>3. CASE UNCHANGED vars
    BY <1>1, <1>3 DEF vars, Registry, Table
  <1> QED
    BY <1>2, <1>3, CallStep, CallStopStep DEF Next

LEMMA CallInvariant == Spec => []CallInv
  BY CallInvInit, CallInvStep, TypeCorrect, PTL DEF Spec

\* A row nobody has the key of was left by a call that failed in its caller's eyes,
\* one row per call, however late its INSERT came.
THEOREM KeylessRowsAreFaults == Spec => []KeylessOnlyByFault
  <1>1. CallInv => KeylessOnlyByFault
    BY DEF CallInv
  <1> QED
    BY <1>1, CallInvariant, PTL

-----------------------------------------------------------------------------
(* The refinement.                                                         *)

LEMMA FatePending ==
  ASSUME NEW r \in Requests, req[r].pc # "dropped", req[r].by = "nobody"
  PROVE  Fate(r) = "pending"
  BY DEF Fate

\* A step of r's chain changes no other fate.
LEMMA OtherFates ==
  ASSUME NEW r \in Requests, UNCHANGED verdict,
         \A q \in Requests \ {r} : req'[q] = req[q]
  PROVE  \A q \in Requests \ {r} : Fate(q)' = Fate(q)
  BY DEF Fate, OwnAnswer

LEMMA Settles ==
  ASSUME NEW r \in Requests, NEW f, Fate(r) = "pending", Fate(r)' = f,
         \A q \in Requests \ {r} : Fate(q)' = Fate(q)
  PROVE  Gateway!Settle(r, f)
  BY DEF Gateway!Settle

\* Answering settles a pending request, as whoever gives the answer knows.
LEMMA AnswerSettles ==
  ASSUME Inv, NEW r \in Requests,
         NEW who \in {"proxy", "backend"}, NEW code \in RequestStatuses,
         AnsweredBy(r, who, code), Justified(r, who, code),
         UNCHANGED <<verdict, sent, arrived>>,
         req[r].pc \in {"new", "find", "scan", "forward"}
  PROVE  Gateway!GatewayNext
  <1>0. RequestOK(r) /\ req \in [Requests -> Request]
    BY DEF Inv, TypeOK
  <1>1. /\ req'[r].pc = "done" /\ req'[r].by = who /\ req'[r].status = code
        /\ \A q \in Requests \ {r} : req'[q] = req[q]
    BY <1>0, AnsweredRequest DEF Becomes
  <1>2. Fate(r) = "pending"
    BY <1>0, FatePending DEF RequestOK, Request
  <1>3. \A q \in Requests \ {r} : Fate(q)' = Fate(q)
    BY <1>1, OtherFates
  <1>4. CASE who = "backend"
    <2>1. Fate(r)' = "answered"
      BY <1>1, <1>4 DEF Fate
    <2>2. Gateway!Settle(r, "answered")
      BY <1>2, <1>3, <2>1, Settles
    <2> QED
      BY <1>4, <2>2 DEF Gateway!GatewayNext, Gateway!PassOn, Justified
  <1>5. CASE who = "proxy" /\ code = 502
    <2>1. Fate(r)' = "unknown"
      BY <1>1, <1>5 DEF Fate, OwnAnswer
    <2>2. Gateway!GiveUp({r})
      BY <1>2, <1>3, <2>1 DEF Gateway!GiveUp
    <2> QED
      BY <2>2 DEF Gateway!GatewayNext
  <1>6. CASE who = "proxy" /\ code = 403
    <2>1. Fate(r)' = verdict[r]
      BY <1>1, <1>6 DEF Fate, OwnAnswer
    <2>2. r \notin arrived /\ verdict[r] \in {content[r], "RateLimit"} \ {"safe"}
      BY <1>0, <1>6 DEF RequestOK, Verdicts, Justified
    <2>3. Gateway!Settle(r, verdict[r])
      BY <1>2, <1>3, <2>1, Settles
    <2> QED
      BY <2>2, <2>3 DEF Gateway!GatewayNext, Gateway!Block
  <1>7. CASE who = "proxy" /\ code \notin {403, 502}
    <2>1. Fate(r)' = "refused"
      BY <1>1, <1>7 DEF Fate, OwnAnswer
    <2>2. r \notin arrived
      BY <1>0, <1>7 DEF RequestOK, Justified
    <2>3. Gateway!Settle(r, "refused")
      BY <1>2, <1>3, <2>1, Settles
    <2> QED
      BY <2>2, <2>3 DEF Gateway!GatewayNext, Gateway!Refuse
  <1> QED
    BY <1>4, <1>5, <1>6, <1>7

LEMMA FatesStay ==
  ASSUME UNCHANGED arrived, \A r \in Requests : Fate(r)' = Fate(r)
  PROVE  UNCHANGED Gateway!gatewayVars
  BY DEF Gateway!gatewayVars

LEMMA ChainRefines ==
  ASSUME Inv, NEW r \in Requests, HandleRequest(r) \/ Returns(r)
  PROVE  [Gateway!GatewayNext]_Gateway!gatewayVars
  <1>0. RequestOK(r) /\ req \in [Requests -> Request] /\ req[r] \in Request
    BY DEF Inv, TypeOK
  <1>1. /\ UNCHANGED <<verdict, arrived>>
        /\ req[r].pc \in {"new", "find", "scan", "forward"}
    BY DEF HandleRequest, Returns, FindByApiKey, Scanned, Forward, ScanFailed,
           BackendAnswered, BackendFailed, Network
  <1>2. ASSUME NEW code \in ProxyStatuses, Answer(r, code), Justified(r, "proxy", code),
               UNCHANGED sent
        PROVE  Gateway!GatewayNext
    BY <1>1, <1>2, AnswerSettles, Codes DEF Answer
  <1>3. CASE \E record \in Request :
               /\ Becomes(r, record)
               /\ record.pc \in {"find", "scan", "forward"} /\ record.by = req[r].by
    <2> PICK record \in Request :
               /\ Becomes(r, record)
               /\ record.pc \in {"find", "scan", "forward"} /\ record.by = req[r].by
      BY <1>3
    <2>1. req'[r] = record /\ \A q \in Requests \ {r} : req'[q] = req[q]
      BY <1>0 DEF Becomes
    <2>2. req[r].by = "nobody" /\ req[r].pc # "dropped"
      BY <1>0, <1>1 DEF RequestOK
    <2>3. Fate(r) = "pending" /\ Fate(r)' = "pending"
      BY <2>1, <2>2 DEF Fate
    <2> QED
      BY <1>1, <2>1, <2>3, OtherFates, FatesStay
  <1>4. CASE HandleRequest(r)
    <2>1. CASE Answer(r, 401)
      <3>1. UNCHANGED sent /\ req[r].pc = "new"
        BY <1>4 DEF HandleRequest
      <3> QED
        BY <1>2, <2>1, <3>1, Codes DEF Justified
    <2>2. ASSUME NEW k \in told \cup {Nil}, Becomes(r, [req[r] EXCEPT !.pc = "find", !.key = k])
          PROVE  [Gateway!GatewayNext]_Gateway!gatewayVars
      <3>1. k \in Backends \cup {Nil}
        BY <2>2 DEF Inv, TypeOK
      <3>2. [req[r] EXCEPT !.pc = "find", !.key = k] \in Request
        BY <1>0, <3>1, KeyedRecord
      <3> QED
        BY <1>0, <1>3, <2>2, <3>2 DEF Request
    <2> QED
      BY <1>4, <2>1, <2>2 DEF HandleRequest
  <1>5. CASE FindByApiKey(r)
    <2>1. CASE Answer(r, 404) \/ Answer(r, 500)
      BY <1>2, <1>5, <2>1, Codes DEF FindByApiKey, Network, Justified
    <2>2. CASE /\ Found(req[r].key)
               /\ Becomes(r, [req[r] EXCEPT !.pc = "scan", !.target = req[r].key])
      <3>1. [req[r] EXCEPT !.pc = "scan", !.target = req[r].key] \in Request
        BY <1>0, <2>2, FoundRecord DEF Found, RequestPCs
      <3> QED
        BY <1>0, <1>3, <2>2, <3>1 DEF Request
    <2> QED
      BY <1>5, <2>1, <2>2 DEF FindByApiKey
  <1>6. CASE Scanned(r)
    <2>1. CASE Forward(r)
      <3>1. [req[r] EXCEPT !.pc = "forward"] \in Request
        BY <1>0 DEF Request, RequestPCs
      <3> QED
        BY <1>0, <1>3, <2>1, <3>1 DEF Request, Forward
    <2>2. CASE /\ verdict[r] \notin {"none", "safe"}
               /\ Answer(r, 403)
               /\ UNCHANGED <<Registry, Network>>
      BY <1>2, <1>6, <2>2, Codes DEF Scanned, Network, Justified
    <2> QED
      BY <1>6, <2>1, <2>2 DEF Scanned
  <1>7. CASE ScanFailed(r)
    BY <1>2, <1>7, Codes DEF ScanFailed, Network, Justified
  <1>8. CASE BackendAnswered(r)
    BY <1>1, <1>8, AnswerSettles, Codes DEF BackendAnswered, Network, Justified
  <1>9. CASE BackendFailed(r)
    BY <1>2, <1>9, Codes DEF BackendFailed, Network, Justified
  <1> QED
    BY <1>4, <1>5, <1>6, <1>7, <1>8, <1>9 DEF Returns

LEMMA OutsideRefines ==
  ASSUME Inv, NEW r \in Requests, EngineAnswers(r) \/ Arrives(r) \/ NeverArrives(r)
  PROVE  [Gateway!GatewayNext]_Gateway!gatewayVars
  <1>0. RequestOK(r) /\ TypeOK
    BY DEF Inv
  <1>1. CASE EngineAnswers(r)
    <2>1. /\ UNCHANGED <<req, arrived>> /\ verdict[r] = "none"
          /\ \A q \in Requests \ {r} : verdict'[q] = verdict[q]
      BY <1>0, <1>1 DEF EngineAnswers, Engine!AnswerScan, TypeOK
    <2>2. req[r].by # "proxy" \/ req[r].status # 403
      BY <1>0, <2>1 DEF RequestOK
    <2>3. ASSUME NEW q \in Requests PROVE Fate(q)' = Fate(q)
      BY <2>1, <2>2, <2>3 DEF Fate, OwnAnswer
    <2> QED
      BY <2>1, <2>3, FatesStay
  <1>2. CASE Arrives(r)
    <2>1. /\ UNCHANGED <<req, verdict>> /\ arrived' = arrived \cup {r}
          /\ r \in sent /\ r \notin arrived
      BY <1>0, <1>2 DEF Arrives, RequestOK
    <2>2. content[r] = "safe"
      BY <1>0, <2>1 DEF RequestOK, Verdicts
    <2>3. Fate(r) \in {"pending", "unknown"}
      BY <1>0, <2>1 DEF RequestOK, Request, Fate, OwnAnswer
    <2>4. \A q \in Requests : Fate(q)' = Fate(q)
      BY <2>1 DEF Fate, OwnAnswer
    <2> QED
      BY <2>1, <2>2, <2>3, <2>4 DEF Gateway!GatewayNext, Gateway!Arrive
  <1>3. CASE NeverArrives(r)
    BY <1>3, FatesStay DEF NeverArrives, Fate, OwnAnswer
  <1> QED
    BY <1>1, <1>2, <1>3

LEMMA StopRefines ==
  ASSUME Inv, MiddlewareStops
  PROVE  [Gateway!GatewayNext]_Gateway!gatewayVars
  <1> DEFINE R == {r \in Requests : Pending(req[r].pc)}
  <1>0. UNCHANGED <<verdict, arrived>>
    BY DEF MiddlewareStops, Network
  <1>1. ASSUME NEW r \in R PROVE Fate(r) = "pending" /\ Fate(r)' = "unknown"
    <2>1. req[r] \in Request /\ RequestOK(r) /\ Pending(req[r].pc)
      BY <1>1 DEF Inv, TypeOK
    <2>2. req'[r].pc = "dropped" /\ req'[r].by = req[r].by
      BY <1>1, <2>1 DEF MiddlewareStops, Request
    <2>3. req[r].by = "nobody" /\ req[r].pc # "dropped"
      BY <2>1 DEF RequestOK, Pending, Request
    <2>4. Fate(r) = "pending"
      BY <1>1, <2>3, FatePending
    <2>5. Fate(r)' = "unknown"
      BY <2>2, <2>3 DEF Fate
    <2> QED
      BY <2>4, <2>5
  <1>2. ASSUME NEW r \in Requests \ R PROVE Fate(r)' = Fate(r)
    BY <1>0, <1>2 DEF MiddlewareStops, Fate, OwnAnswer
  <1>3. Gateway!GiveUp(R)
    BY <1>0, <1>1, <1>2 DEF Gateway!GiveUp
  <1> QED
    BY <1>3 DEF Gateway!GatewayNext

LEMMA RegistryRefines ==
  ASSUME UNCHANGED <<req, verdict, arrived>>
  PROVE  UNCHANGED Gateway!gatewayVars
  BY FatesStay DEF Fate, OwnAnswer

\* The proxy implements Gateway: nothing but safe content reaches a backend, at
\* most once; a request that the proxy itself answers with 401, 403, 404, 500 or 503
\* never does, whatever becomes of its calls later; and an answer of the backend,
\* whatever its status, is passed on only for a request that arrived.
THEOREM ProxyImplementsGateway == Spec => KeepsGateway
  <1>1. Init => Gateway!GatewayInit
    BY DEF Init, NewRequest, Gateway!GatewayInit, Fate
  <1>2. Inv /\ [Next]_vars => [Gateway!GatewayNext]_Gateway!gatewayVars
    <2> SUFFICES ASSUME Inv, [Next]_vars
                 PROVE  [Gateway!GatewayNext]_Gateway!gatewayVars
      OBVIOUS
    <2>1. ASSUME NEW a \in AdminCalls,
                 \/ RegisterBackend(a) \/ ListBackends(a) \/ DeactivateBackend(a)
                 \/ Statement(a) \/ Executes(a) \/ NeverExecutes(a)
          PROVE  UNCHANGED <<req, verdict, arrived>>
      BY <2>1 DEF RegisterBackend, ListBackends, DeactivateBackend, Statement, Save,
                  FindAll, Deactivate, GiveUp, Executes, NeverExecutes, Network
    <2>2. CASE UNCHANGED vars
      BY <2>2, RegistryRefines DEF vars
    <2>3. CASE Next
      BY <2>1, <2>3, ChainRefines, OutsideRefines, StopRefines, RegistryRefines DEF Next
    <2> QED
      BY <2>2, <2>3
  <1> QED
    BY <1>1, <1>2, Invariant, PTL DEF Spec, KeepsGateway, Gateway!GatewaySpec
=============================================================================
