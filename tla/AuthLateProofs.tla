--------------------------- MODULE AuthLateProofs ---------------------------
(***************************************************************************)
(* What survives statements that execute after their error callback.  A    *)
(* step of AuthLate is a step of AuthService (an overdue statement         *)
(* executes as the statement of a client nobody answers), or it moves a    *)
(* request's record to an overdue one, or it stops the middleware.  The    *)
(* last two change no row, so the invariants of AuthServiceProofs which    *)
(* speak of each record by itself are kept; the counting arguments behind  *)
(* its bounds count the overdue statements with the requests.              *)
(***************************************************************************)
EXTENDS AuthLate, AuthServiceProofs

\* The two steps AuthService does not have.
Rearranged ==
    /\ UNCHANGED <<users, Tokens>>
    /\ \/ Stops
       \/ \E c \in Connections, s \in Overdue : GiveUp(c, s)

LEMMA LateSteps ==
  ASSUME [LateNext]_vars
  PROVE  [Next]_vars \/ Rearranged
  <1>1. ASSUME NEW s \in Overdue, Executes(s) PROVE Next
    BY <1>1, LateAssumption DEF Executes, Next, Step
  <1>2. ASSUME NEW c \in Connections, Arrive(c) \/ Step(c) PROVE Next
    BY <1>2 DEF Connections, Next
  <1>3. CASE Clock
    BY <1>3 DEF Next
  <1>4. CASE Stops
    BY <1>4 DEF Stops, Rearranged
  <1>5. ASSUME NEW c \in Connections, NEW s \in Overdue, GiveUp(c, s) PROVE Rearranged
    BY <1>5 DEF GiveUp, Rearranged
  <1>6. QED
    BY <1>1, <1>2, <1>3, <1>4, <1>5 DEF LateNext

\* AuthLate adds nothing but late statements: without room for any it is AuthService.
THEOREM NothingElseIsLate ==
  ASSUME Overdue = {}
  PROVE  LateSpec <=> Spec
  <1>1. Connections = Clients
    BY DEF Connections
  <1>2. Stops <=> Crash
    <2>1. \A begun \in SUBSET Overdue :
             [c \in Clients |-> IF c \in begun THEN req[c] ELSE NoRequest]
                = [c \in Clients |-> NoRequest]
      OBVIOUS
    <2>2. QED
      BY <2>1 DEF Stops, Crash
  <1>3. LateNext <=> Next
    BY <1>1, <1>2 DEF LateNext, Next
  <1>4. QED
    BY <1>3, PTL DEF LateSpec, LateInit, Spec

IdleRecord(r) == r \in Request /\ r.pc = "idle" /\ r.token = Nil

LEMMA NoRequestIdle ==
  /\ IdleRecord(NoRequest)
  /\ \A code \in Statuses : IdleRecord([NoRequest EXCEPT !.status = code])
  BY DEF IdleRecord, NoRequest, Request, Statuses

\* What giving up leaves in each record.
LEMMA GiveUpRecords ==
  ASSUME TypeInv, NEW c \in Connections, NEW s \in Overdue, GiveUp(c, s)
  PROVE  /\ c \in Clients /\ s \in Clients /\ c # s
         /\ req'[s] = req[c]
         /\ IdleRecord(req'[c])
         /\ \A d \in Clients \ {c, s} : req'[d] = req[d]
         /\ req' \in [Clients -> Request]
         /\ Idle(s)
  <1>1. c \in Clients /\ s \in Clients /\ c # s
    BY LateAssumption DEF Connections
  <1>2. req \in [Clients -> Request]
    BY DEF TypeInv, TypeOK
  <1> DEFINE code == IF req[c].pc \in {"loginRecord", "loginLock"} THEN 401 ELSE 500
  <1>a. code \in {401, 500}
    OBVIOUS
  <1>3. req' = [req EXCEPT ![s] = req[c], ![c] = [NoRequest EXCEPT !.status = code]]
    BY DEF GiveUp
  <1> HIDE DEF code
  <1>4. IdleRecord([NoRequest EXCEPT !.status = code])
    BY <1>a, NoRequestIdle DEF Statuses
  <1>5. QED
    BY <1>1, <1>2, <1>3, <1>4 DEF GiveUp, IdleRecord

\* Every record afterwards is an idle one or was some request's before.
LEMMA RecordsKept ==
  ASSUME TypeInv, Rearranged
  PROVE  /\ req' \in [Clients -> Request]
         /\ \A d \in Clients : IdleRecord(req'[d]) \/ \E k \in Clients : req'[d] = req[k]
  <1>0. req \in [Clients -> Request]
    BY DEF TypeInv, TypeOK
  <1>1. CASE Stops
    BY <1>0, <1>1, NoRequestIdle DEF Stops, IdleRecord
  <1>2. ASSUME NEW c \in Connections, NEW s \in Overdue, GiveUp(c, s)
        PROVE  /\ req' \in [Clients -> Request]
               /\ \A d \in Clients :
                     IdleRecord(req'[d]) \/ \E k \in Clients : req'[d] = req[k]
    BY <1>2, GiveUpRecords
  <1>3. QED
    BY <1>1, <1>2 DEF Rearranged

\* A connection keeps its request, or is idle; an overdue statement stays as it was
\* sent until it is executed or forgotten.
LEMMA RearrangedConnections ==
  ASSUME TypeInv, Rearranged, NEW d \in Connections
  PROVE  d \in Clients /\ (IdleRecord(req'[d]) \/ req'[d] = req[d])
  <1>0. d \in Clients /\ d \notin Overdue
    BY DEF Connections
  <1>1. CASE Stops
    BY <1>0, <1>1, NoRequestIdle DEF Stops
  <1>2. ASSUME NEW c \in Connections, NEW s \in Overdue, GiveUp(c, s)
        PROVE  IdleRecord(req'[d]) \/ req'[d] = req[d]
    <2>1. CASE d = c
      BY <1>2, <2>1, GiveUpRecords
    <2>2. CASE d # c
      BY <1>0, <1>2, <2>2, GiveUpRecords
    <2>3. QED
      BY <2>1, <2>2
  <1>3. QED
    BY <1>0, <1>1, <1>2 DEF Rearranged

LEMMA StreakKept ==
  ASSUME streak \in [Emails -> Nat], Rearranged
  PROVE  streak' \in [Emails -> Nat]
  BY DEF Rearranged, Stops, GiveUp

LEMMA TypeKept ==
  ASSUME TypeInv, Rearranged
  PROVE  TypeInv'
  <1>1. req' \in [Clients -> Request]
    BY RecordsKept
  <1>2. \A d \in Clients : RequestOK(req'[d])
    <2>1. ASSUME NEW r, IdleRecord(r) PROVE RequestOK(r)
      BY <2>1 DEF IdleRecord, RequestOK, NamesUser, Statements
    <2>2. \A k \in Clients : RequestOK(req[k])
      BY DEF TypeInv
    <2>3. QED
      BY <2>1, <2>2, RecordsKept
  <1>3. streak' \in [Emails -> Nat]
    BY StreakKept DEF TypeInv, TypeOK
  <1>4. UNCHANGED <<users, sessions, held, access, parent>>
    BY DEF Rearranged, Tokens
  <1>5. QED
    BY <1>1, <1>2, <1>3, <1>4 DEF TypeInv, TypeOK

LEMMA CaptureKept ==
  ASSUME CaptureInv, Rearranged
  PROVE  CaptureInv'
  <1>1. TypeInv'
    BY TypeKept DEF CaptureInv
  <1>2. UNCHANGED <<users, sessions, access, parent>>
    BY DEF Rearranged, Tokens
  <1>3. \A d \in Clients : Captured(req[d])'
    <2> SUFFICES ASSUME NEW d \in Clients PROVE Captured(req[d])'
      OBVIOUS
    <2>1. CASE IdleRecord(req'[d])
      BY <2>1 DEF Captured, IdleRecord
    <2>2. ASSUME NEW k \in Clients, req'[d] = req[k] PROVE Captured(req[d])'
      <3>1. Captured(req[k])
        BY DEF CaptureInv
      <3>2. QED
        BY <1>2, <2>2, <3>1 DEF Captured, Registered, Exists
    <2>3. QED
      BY <2>1, <2>2, RecordsKept DEF CaptureInv
  <1>4. Lineage' /\ UsableOutOfTheBox' /\ ClaimsMatchUsers'
    BY <1>2 DEF CaptureInv, Lineage, UsableOutOfTheBox, ClaimsMatchUsers, Registered,
       Admins, Exists
  <1>5. QED
    BY <1>1, <1>3, <1>4 DEF CaptureInv

LEMMA LateCapture == LateSpec => []CaptureInv
  <1>1. LateInit => CaptureInv
    BY CaptureInit DEF LateInit
  <1>2. CaptureInv /\ [LateNext]_vars => CaptureInv'
    BY LateSteps, CaptureStep, CaptureKept
  <1>3. QED
    BY <1>1, <1>2, PTL DEF LateSpec

\* Some account is an admin, however late an INSERT arrives.
THEOREM LateUsable == LateSpec => []UsableOutOfTheBox
  <1>1. CaptureInv => UsableOutOfTheBox
    BY DEF CaptureInv
  <1>2. QED
    BY LateCapture, <1>1, PTL

\* Claims stay true when resets and INSERTs are late.
THEOREM LateClaimsAreTrue == LateSpec => []ClaimsMatchUsers
  <1>1. CaptureInv => ClaimsMatchUsers
    BY DEF CaptureInv
  <1>2. QED
    BY LateCapture, <1>1, PTL

\* A session is its parent's user's, also when its INSERT is late.
THEOREM LateRotationKeepsUser == LateSpec => []RotationKeepsUser
  <1>1. CaptureInv => RotationKeepsUser
    BY AuthAssumption DEF CaptureInv, Lineage, RotationKeepsUser, Children
  <1>2. QED
    BY LateCapture, <1>1, PTL

\* No INSERT of a session is sent before the revocation was executed.
THEOREM LateIssuesAfterRevoking == LateSpec => []IssuedAfterRevoked
  <1>1. CaptureInv => IssuedAfterRevoked
    BY DEF CaptureInv, Captured, IssuedAfterRevoked, Waits
  <1>2. QED
    BY LateCapture, <1>1, PTL

\* The first row of an email is never replaced.
THEOREM LateFirstWins == LateSpec => FirstRegistrationWins
  <1>1. CaptureInv /\ [LateNext]_vars =>
           [\A e \in Emails : Exists(e) =>
              users'[e].role = users[e].role /\ users'[e].password = users[e].password]_vars
    <2> SUFFICES ASSUME CaptureInv, [LateNext]_vars, NEW e \in Emails, Exists(e)
                 PROVE  users'[e].role = users[e].role /\ users'[e].password = users[e].password
      OBVIOUS
    <2>1. CASE [Next]_vars
      BY <2>1, FirstStays DEF CaptureInv
    <2>2. CASE Rearranged
      BY <2>2 DEF Rearranged
    <2>3. QED
      BY <2>1, <2>2, LateSteps
  <1>2. QED
    BY LateCapture, <1>1, PTL DEF LateSpec, FirstRegistrationWins

\* A revoked token finds no new exchanger.
THEOREM LateRevokedIsFinal == LateSpec => RevokedIsFinal
  <1>1. CaptureInv /\ [LateNext]_vars =>
           [\A t \in RefreshTokens : sessions[t].state = "revoked" =>
              /\ sessions'[t].state = "revoked"
              /\ Connections \cap Exchangers(t)' \subseteq Exchangers(t)]_vars
    <2> SUFFICES ASSUME CaptureInv, [LateNext]_vars, NEW t \in RefreshTokens,
                        sessions[t].state = "revoked"
                 PROVE  /\ sessions'[t].state = "revoked"
                        /\ Connections \cap Exchangers(t)' \subseteq Exchangers(t)
      OBVIOUS
    <2>0. TypeInv
      BY DEF CaptureInv
    <2>1. CASE [Next]_vars
      BY <2>0, <2>1, RowsStayStep, ExchangersShrink DEF RowsStay
    <2>2. CASE Rearranged
      <3>1. sessions' = sessions
        BY <2>2 DEF Rearranged, Tokens
      <3>2. ASSUME NEW d \in Connections, d \in Exchangers(t)' PROVE d \in Exchangers(t)
        BY <2>0, <2>2, <3>2, RearrangedConnections DEF Exchangers, IdleRecord
      <3>3. QED
        BY <3>1, <3>2
    <2>3. QED
      BY <2>1, <2>2, LateSteps
  <1>2. QED
    BY LateCapture, <1>1, PTL DEF LateSpec, RevokedIsFinal

\* A token has descendants only after it was revoked, though a revocation may be late.
THEOREM LateRevokedBeforeIssued == LateSpec => []RotationRevokesFirst
  <1>1. CaptureInv => RotationRevokesFirst
    BY AuthAssumption DEF CaptureInv, Lineage, RotationRevokesFirst, Children
  <1>2. QED
    BY LateCapture, <1>1, PTL

LEMMA PresentedKept ==
  ASSUME TypeInv, PresentedInv, Rearranged
  PROVE  PresentedInv'
  <1>1. UNCHANGED held
    BY DEF Rearranged, Tokens
  <1>2. ASSUME NEW d \in Clients PROVE Presented(req[d])'
    <2>1. CASE IdleRecord(req'[d])
      BY <2>1 DEF IdleRecord, Presented
    <2>2. ASSUME NEW k \in Clients, req'[d] = req[k] PROVE Presented(req[d])'
      BY <1>1, <2>2 DEF PresentedInv, Presented
    <2>3. QED
      BY <2>1, <2>2, RecordsKept
  <1>3. QED
    BY <1>2 DEF PresentedInv

\* The service implements Accounts though a statement may execute long after its error
\* was answered: what it was sent with is still what the contract asks for.
THEOREM LateImplementsAccounts == LateSpec => KeepsAccounts
  <1>1. LateInit => Accounts!AccountsInit /\ PresentedInv
    BY AccountsStart, PresentedStart DEF LateInit
  <1>2. CaptureInv /\ PresentedInv /\ [LateNext]_vars => PresentedInv'
    BY LateSteps, PresentedStep, PresentedKept DEF CaptureInv
  <1>3. CaptureInv /\ PresentedInv /\ [LateNext]_vars
           => [Accounts!AccountsNext]_Accounts!accountsVars
    <2>1. Rearranged => UNCHANGED Accounts!accountsVars
      BY AccountsStay DEF Rearranged, Tokens
    <2>2. QED
      BY <2>1, LateSteps, AccountsRefined
  <1>4. QED
    BY <1>1, <1>2, <1>3, LateCapture, PTL DEF LateSpec, KeepsAccounts, Accounts!AccountsSpec

-----------------------------------------------------------------------------
(* Bounds: a request given up on and its overdue statement count once.      *)

\* Moving one member of a set elsewhere does not enlarge it.
LEMMA Swap ==
  ASSUME NEW S \in SUBSET Clients, NEW T \in SUBSET Clients,
         NEW c, NEW s \in Clients, T \subseteq (S \ {c}) \cup {s},
         c \in S \/ T \subseteq S
  PROVE  Cardinality(T) <= Cardinality(S)
  <1>0. /\ IsFiniteSet(S) /\ Cardinality(S) \in Nat
        /\ IsFiniteSet(T) /\ Cardinality(T) \in Nat
    BY ClientSets
  <1>1. CASE T \subseteq S
    BY <1>0, <1>1, FS_Subset
  <1>2. CASE c \in S
    <2>1. /\ IsFiniteSet(S \ {c})
          /\ Cardinality(S \ {c}) = Cardinality(S) - 1
      BY <1>0, <1>2, FS_RemoveElement
    <2>2. /\ IsFiniteSet((S \ {c}) \cup {s})
          /\ \/ Cardinality((S \ {c}) \cup {s}) = Cardinality(S \ {c})
             \/ Cardinality((S \ {c}) \cup {s}) = Cardinality(S \ {c}) + 1
      BY <2>1, FS_AddElement
    <2>3. Cardinality(T) <= Cardinality((S \ {c}) \cup {s})
      BY <2>2, FS_Subset
    <2>4. QED
      BY <1>0, <2>1, <2>2, <2>3
  <1>3. QED
    BY <1>1, <1>2

LEMMA AdminsKept ==
  ASSUME TypeInv, AdminsInv, Rearranged
  PROVE  AdminsInv'
  <1>1. Admins' = Admins
    BY DEF Rearranged, Admins
  <1>2. Creators \in SUBSET Clients /\ Creators' \in SUBSET Clients
    BY DEF Creators
  <1>3. Cardinality(Creators') <= Cardinality(Creators)
    <2>1. CASE Stops
      <3>1. Creators' \subseteq Creators
        BY <2>1 DEF Stops, Creators, NoRequest
      <3>2. QED
        BY <1>2, <3>1, ClientSets, FS_Subset
    <2>2. ASSUME NEW c \in Connections, NEW s \in Overdue, GiveUp(c, s)
          PROVE  Cardinality(Creators') <= Cardinality(Creators)
      <3>1. s \in Clients
        BY <2>2, GiveUpRecords
      <3>2. Creators' \subseteq (Creators \ {c}) \cup {s}
        BY <2>2, GiveUpRecords DEF Creators, IdleRecord
      <3>3. c \in Creators \/ Creators' \subseteq Creators
        BY <2>2, GiveUpRecords DEF Creators, IdleRecord
      <3>4. QED
        BY <1>2, <3>1, <3>2, <3>3, Swap
    <2>3. QED
      BY <2>1, <2>2 DEF Rearranged
  <1>4. Cardinality(Admins) \in Nat /\ Cardinality(Clients) \in Nat
    BY Bounds, FS_CardinalityType DEF AdminsInv
  <1>5. Cardinality(Creators) \in Nat /\ Cardinality(Creators') \in Nat
    BY <1>2, ClientSets
  <1>6. QED
    BY <1>1, <1>3, <1>4, <1>5 DEF AdminsInv

\* The race of the first registrations counts the INSERTs still to come.
THEOREM LateAdminsAreBounded == LateSpec => []AdminsBounded
  <1>1. LateInit => AdminsInv
    BY AdminsInit DEF LateInit
  <1>2. CaptureInv /\ AdminsInv /\ [LateNext]_vars => AdminsInv'
    BY LateSteps, AdminsStep, AdminsKept DEF CaptureInv
  <1>3. QED
    BY LateCapture, AdminsCounted, <1>1, <1>2, PTL DEF LateSpec

LEMMA LockKept ==
  ASSUME CaptureInv, LockInv, Rearranged, NEW e \in Emails
  PROVE  LockAt(e)'
  <1>0. /\ TypeInv /\ LockAt(e) /\ TypeInv'
        /\ users' = users
        /\ users[e] \in UserRow /\ streak[e] \in Nat /\ streak'[e] \in Nat
    BY TypeKept DEF CaptureInv, TypeInv, TypeOK, LockInv, Rearranged
  <1>a. /\ Cardinality(Clients) \in Nat
        /\ MAX_FAILED_ATTEMPTS \in Nat \ {0}
        /\ Lockers(e) \in SUBSET Clients /\ Counters(e) \in SUBSET Clients
        /\ Cardinality(Lockers(e)) \in Nat /\ Cardinality(Counters(e)) \in Nat
    BY LockCounts, Bounds DEF Lockers, Counters
  <1>b. /\ Lockers(e)' \in SUBSET Clients /\ Counters(e)' \in SUBSET Clients
        /\ IsFiniteSet(Lockers(e)') /\ Cardinality(Lockers(e)') \in Nat
        /\ Cardinality(Counters(e)') \in Nat
        /\ Cardinality(Lockers(e)') + Cardinality(Counters(e)') <= Cardinality(Clients)
    <2>1. /\ Lockers(e)' \in SUBSET Clients /\ Counters(e)' \in SUBSET Clients
          /\ Lockers(e)' \cap Counters(e)' = {}
      BY DEF Lockers, Counters
    <2>2. QED
      BY <2>1, DisjointClients
  <1>1. CASE streak'[e] = 0
    BY <1>0, <1>1, <1>a, <1>b DEF LockAt, UserRow
  <1>2. ASSUME NEW c \in Connections, NEW s \in Overdue, GiveUp(c, s), streak'[e] # 0
        PROVE  LockAt(e)'
    <2>0. s \in Clients
      BY <1>2, LateAssumption
    <2>1. streak'[e] = streak[e] /\ c \notin Lockers(e)
      <3>1. streak \in [Emails -> Nat]
        BY <1>0 DEF TypeInv, TypeOK
      <3>2. QED
        BY <1>2, <3>1 DEF GiveUp, Lockers
    <2>2. Lockers(e) \subseteq Lockers(e)'
      BY <1>0, <1>2, <2>1, GiveUpRecords DEF Lockers, Idle
    <2>3. Cardinality(Lockers(e)) <= Cardinality(Lockers(e)')
      BY <1>b, <2>2, FS_Subset
    <2>4. Counters(e)' \subseteq (Counters(e) \ {c}) \cup {s}
      BY <1>0, <1>2, GiveUpRecords DEF Counters, IdleRecord
    <2>5. c \in Counters(e) \/ Counters(e)' \subseteq Counters(e)
      BY <1>0, <1>2, GiveUpRecords DEF Counters, IdleRecord
    <2>6. Cardinality(Counters(e)') <= Cardinality(Counters(e))
      BY <1>a, <1>b, <2>0, <2>4, <2>5, Swap
    <2>7. QED
      BY <1>0, <1>a, <1>b, <2>1, <2>3, <2>6 DEF LockAt, IsLocked, Exists
  <1>3. CASE Stops
    BY <1>1, <1>3 DEF Stops
  <1>4. QED
    BY <1>1, <1>2, <1>3 DEF Rearranged

LEMMA LateLock == LateSpec => []LockInv
  <1>1. LateInit => LockInv
    BY LockInit DEF LateInit
  <1>2. CaptureInv /\ LockInv /\ [LateNext]_vars => LockInv'
    BY LateSteps, LockStep, LockKept DEF LockInv
  <1>3. QED
    BY LateCapture, <1>1, <1>2, PTL DEF LateSpec

\* The burst that passes the threshold counts the failures still to be recorded.
THEOREM LateLockoutIsBounded == LateSpec => []LockoutBounded
  BY LateCapture, LateLock, LockCounted, PTL

\* A lock that is late is under way.
THEOREM LateThresholdLocks == LateSpec => []ThresholdLeadsToLock
  BY LateCapture, LateLock, LockUnderWay, PTL

-----------------------------------------------------------------------------
(* Exchanges.  A revocation that is late issues nothing: only connections,  *)
(* and overdue INSERTs, can still make a child of a token.                   *)

Makers(t) ==
    {c \in Clients :
        /\ req[c].token = t
        /\ \/ req[c].pc = "issueTokens"
           \/ c \in Connections /\ req[c].pc \in {"refreshRevoke", "refreshUser"}}

LateExchangesInv ==
    \A t \in RefreshTokens :
        /\ IsFiniteSet(Children(t))
        /\ Cardinality(Children(t)) + Cardinality(Makers(t)) <= Cardinality(Connections)

\* Until t is revoked every maker is a connection.
LEMMA MakersConnected ==
  ASSUME CaptureInv, [LateNext]_vars, NEW t \in RefreshTokens, sessions[t].state # "revoked"
  PROVE  Makers(t)' \subseteq Connections
  <1>0. TypeInv /\ req \in [Clients -> Request] /\ t # Nil
    BY AuthAssumption DEF CaptureInv, TypeInv, TypeOK
  <1>1. \A k \in Clients : ~(req[k].pc \in {"refreshUser", "issueTokens"} /\ req[k].token = t)
    BY <1>0 DEF CaptureInv, Captured
  <1>2. \A d \in Clients : ~(req'[d].pc = "issueTokens" /\ req'[d].token = t)
    <2> SUFFICES ASSUME NEW d \in Clients, req'[d].pc = "issueTokens", req'[d].token = t
                 PROVE  FALSE
      OBVIOUS
    <2>1. CASE [Next]_vars
      <3>1. CASE Arrive(d) \/ Step(d)
        BY <1>0, <1>1, <3>1, Moves DEF Waits
      <3>2. CASE req'[d] = req[d]
        BY <1>1, <3>2
      <3>3. CASE req' = [c \in Clients |-> NoRequest]
        BY <3>3 DEF NoRequest
      <3>4. QED
        BY <1>0, <2>1, <3>1, <3>2, <3>3, OthersWait
    <2>2. CASE Rearranged
      BY <1>0, <1>1, <2>2, RecordsKept DEF IdleRecord
    <2>3. QED
      BY <2>1, <2>2, LateSteps
  <1>3. QED
    BY <1>2 DEF Makers

\* Once t is revoked nobody becomes a maker, but that an INSERT may be given up.
LEMMA MakersShrink ==
  ASSUME TypeInv, [LateNext]_vars, NEW t \in RefreshTokens, sessions[t].state = "revoked"
  PROVE  \/ Makers(t)' \subseteq Makers(t)
         \/ \E c \in Connections, s \in Overdue :
               /\ GiveUp(c, s)
               /\ Makers(t)' \subseteq (Makers(t) \ {c}) \cup {s}
               /\ c \in Makers(t) \/ Makers(t)' \subseteq Makers(t)
  <1>0. req \in [Clients -> Request] /\ t # Nil
    BY AuthAssumption DEF TypeInv, TypeOK
  <1>1. ASSUME NEW c \in Clients, Arrive(c) \/ Step(c), c \in Connections \/ Idle(c)'
        PROVE  Makers(t)' \subseteq Makers(t)
    <2>1. \A d \in Clients \ {c} : req'[d] = req[d]
      BY <1>0, <1>1, StepChangesOne
    <2>2. c \in Makers(t)' => c \in Makers(t)
      BY <1>0, <1>1, Moves DEF Makers, Idle, Waits, IsValid
    <2>3. QED
      BY <2>1, <2>2 DEF Makers
  <1>2. ASSUME NEW s \in Overdue, Executes(s) PROVE Makers(t)' \subseteq Makers(t)
    <2>1. s \in Clients /\ Step(s) /\ Idle(s)'
      BY <1>2, LateAssumption DEF Executes, Step
    <2>2. QED
      BY <1>1, <2>1
  <1>3. ASSUME NEW c \in Connections, Arrive(c) \/ Step(c)
        PROVE  Makers(t)' \subseteq Makers(t)
    BY <1>1, <1>3 DEF Connections
  <1>4. CASE UNCHANGED req
    BY <1>4 DEF Makers
  <1>5. CASE Stops
    BY <1>5 DEF Stops, Makers, NoRequest
  <1>6. ASSUME NEW c \in Connections, NEW s \in Overdue, GiveUp(c, s)
        PROVE  /\ Makers(t)' \subseteq (Makers(t) \ {c}) \cup {s}
               /\ c \in Makers(t) \/ Makers(t)' \subseteq Makers(t)
    <2>1. s \notin Connections
      BY DEF Connections
    <2>2. \A d \in Clients : d \in Makers(t)' =>
             /\ d # c
             /\ d # s => d \in Makers(t)
             /\ d = s => c \in Makers(t)
      BY <1>6, <2>1, GiveUpRecords DEF Makers, IdleRecord
    <2>3. QED
      BY <2>2 DEF Makers
  <1>7. QED
    BY <1>2, <1>3, <1>4, <1>5, <1>6
       DEF LateNext, Clock, LockExpires, SessionExpires, AccessExpires, vars

LEMMA LateExchangesStep ==
  ASSUME CaptureInv, LateExchangesInv, [LateNext]_vars
  PROVE  LateExchangesInv'
  <1>0. TypeInv
    BY DEF CaptureInv
  <1>b. Connections \in SUBSET Clients /\ Cardinality(Connections) \in Nat
    BY ClientSets DEF Connections
  <1> SUFFICES ASSUME NEW t \in RefreshTokens
               PROVE  /\ IsFiniteSet(Children(t)')
                      /\ Cardinality(Children(t)') + Cardinality(Makers(t)')
                            <= Cardinality(Connections)
    BY DEF LateExchangesInv
  <1>a. /\ Makers(t) \in SUBSET Clients /\ Makers(t)' \in SUBSET Clients
        /\ IsFiniteSet(Makers(t)) /\ Cardinality(Makers(t)) \in Nat
        /\ IsFiniteSet(Makers(t)') /\ Cardinality(Makers(t)') \in Nat
    <2>1. Makers(t) \in SUBSET Clients /\ Makers(t)' \in SUBSET Clients
      BY DEF Makers
    <2>2. QED
      BY <2>1, ClientSets
  <1>c. /\ IsFiniteSet(Children(t)) /\ Cardinality(Children(t)) \in Nat
        /\ Cardinality(Children(t)) + Cardinality(Makers(t)) <= Cardinality(Connections)
    BY FS_CardinalityType DEF LateExchangesInv
  <1>d. Children(t) # {} => sessions[t].state = "revoked"
    BY AuthAssumption DEF CaptureInv, Lineage, Children
  <1>1. CASE Children(t)' \subseteq Children(t) /\ sessions[t].state # "revoked"
    <2>1. Children(t)' = {}
      BY <1>1, <1>d
    <2>2. Cardinality(Makers(t)') <= Cardinality(Connections)
      <3>1. IsFiniteSet(Connections)
        BY <1>b, ClientSets
      <3>2. QED
        BY <1>1, <3>1, MakersConnected, FS_Subset
    <2>3. QED
      BY <1>a, <1>b, <2>1, <2>2, FS_EmptySet
  <1>2. CASE Children(t)' \subseteq Children(t) /\ sessions[t].state = "revoked"
    <2>1. Cardinality(Makers(t)') <= Cardinality(Makers(t))
      <3>1. CASE Makers(t)' \subseteq Makers(t)
        BY <1>a, <3>1, FS_Subset
      <3>2. ASSUME NEW c \in Connections, NEW s \in Overdue,
                   Makers(t)' \subseteq (Makers(t) \ {c}) \cup {s},
                   c \in Makers(t) \/ Makers(t)' \subseteq Makers(t)
            PROVE  Cardinality(Makers(t)') <= Cardinality(Makers(t))
        <4>1. s \in Clients
          BY LateAssumption
        <4>2. QED
          BY <1>a, <3>2, <4>1, Swap
      <3>3. QED
        BY <1>0, <1>2, <3>1, <3>2, MakersShrink
    <2>2. /\ IsFiniteSet(Children(t)')
          /\ Cardinality(Children(t)') <= Cardinality(Children(t))
          /\ Cardinality(Children(t)') \in Nat
      BY <1>2, <1>c, FS_Subset, FS_CardinalityType
    <2>3. QED
      BY <1>a, <1>b, <1>c, <2>1, <2>2
  <1>3. CASE ~(Children(t)' \subseteq Children(t))
    <2>1. ~Rearranged
      BY <1>3 DEF Rearranged, Tokens, Children
    <2>2. [Next]_vars
      BY <2>1, LateSteps
    <2>3. PICK c \in Clients : IssueTokens(c)
      BY <1>3, <2>2, OnlyIssueTokens DEF Children
    <2>4. PICK u \in RefreshTokens : parent' = [parent EXCEPT ![u] = req[c].token]
      BY <1>3, <2>3 DEF IssueTokens, Children, Tokens
    <2>5. parent \in [RefreshTokens -> RefreshTokens \cup {Nil}]
      BY <1>0 DEF TypeInv, TypeOK
    <2>6. /\ req[c].token = t
          /\ Children(t)' \subseteq Children(t) \cup {u}
      BY <1>3, <2>4, <2>5 DEF Children
    <2>7. c \in Makers(t)
      BY <2>3, <2>6 DEF IssueTokens, Waits, Makers
    <2>8. req'[c].pc = "idle" /\ \A d \in Clients \ {c} : req'[d] = req[d]
      BY <1>0, <2>3, NextRequest, StepChangesOne DEF IssueTokens, TypeInv, TypeOK, Step
    <2>9. Makers(t)' \subseteq Makers(t) \ {c}
      BY <2>8 DEF Makers
    <2>10. Cardinality(Makers(t)') <= Cardinality(Makers(t)) - 1
      <3>1. /\ IsFiniteSet(Makers(t) \ {c})
            /\ Cardinality(Makers(t) \ {c}) = Cardinality(Makers(t)) - 1
        BY <1>a, <2>7, FS_RemoveElement
      <3>2. QED
        BY <2>9, <3>1, FS_Subset
    <2>11. /\ IsFiniteSet(Children(t) \cup {u})
           /\ Cardinality(Children(t) \cup {u}) <= Cardinality(Children(t)) + 1
           /\ Cardinality(Children(t) \cup {u}) \in Nat
      <3>1. /\ IsFiniteSet(Children(t) \cup {u})
            /\ \/ Cardinality(Children(t) \cup {u}) = Cardinality(Children(t))
               \/ Cardinality(Children(t) \cup {u}) = Cardinality(Children(t)) + 1
        BY <1>c, FS_AddElement
      <3>2. QED
        BY <1>c, <3>1
    <2>12. /\ IsFiniteSet(Children(t)')
           /\ Cardinality(Children(t)') <= Cardinality(Children(t) \cup {u})
           /\ Cardinality(Children(t)') \in Nat
      BY <2>6, <2>11, FS_Subset, FS_CardinalityType
    <2>13. QED
      BY <1>a, <1>b, <1>c, <2>10, <2>11, <2>12
  <1>4. QED
    BY <1>1, <1>2, <1>3

\* A token is exchanged at most once per connection, however late the INSERTs.
THEOREM LateExchangesBounded == LateSpec => []ExchangesBounded
  <1>1. LateInit => LateExchangesInv
    <2> SUFFICES ASSUME Init, NEW t \in RefreshTokens
                 PROVE  /\ IsFiniteSet(Children(t))
                        /\ Cardinality(Children(t)) + Cardinality(Makers(t))
                              <= Cardinality(Connections)
      BY DEF LateInit, LateExchangesInv
    <2>1. Children(t) = {} /\ Makers(t) = {}
      BY AuthAssumption DEF Init, Children, Makers, NoRequest
    <2>2. Cardinality(Connections) \in Nat
      BY ClientSets DEF Connections
    <2>3. QED
      BY <2>1, <2>2, FS_EmptySet
  <1>2. CaptureInv /\ LateExchangesInv /\ [LateNext]_vars => LateExchangesInv'
    BY LateExchangesStep
  <1>3. LateExchangesInv => ExchangesBounded
    <2> SUFFICES ASSUME LateExchangesInv, NEW t \in RefreshTokens
                 PROVE  Cardinality(Children(t)) <= Cardinality(Connections)
      BY DEF ExchangesBounded
    <2>1. Makers(t) \in SUBSET Clients /\ Connections \in SUBSET Clients
      BY DEF Makers, Connections
    <2>2. /\ Cardinality(Makers(t)) \in Nat /\ Cardinality(Children(t)) \in Nat
          /\ Cardinality(Connections) \in Nat
      BY <2>1, ClientSets, FS_CardinalityType DEF LateExchangesInv
    <2>3. QED
      BY <2>2 DEF LateExchangesInv
  <1>4. QED
    BY LateCapture, <1>1, <1>2, <1>3, PTL DEF LateSpec
=============================================================================
