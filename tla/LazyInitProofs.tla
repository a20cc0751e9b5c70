--------------------------- MODULE LazyInitProofs ---------------------------
(***************************************************************************)
(* The safety properties of LazyInit, for any number of first calls.  The  *)
(* argument: of each of the three things made on first use, the state of   *)
(* its guard tells where every call can be.                                *)
(***************************************************************************)
EXTENDS LazyInit, TLAPS

Decided == {"check", "sign", "getenv", "served", "unsigned", "unhashed"}
Usable == {"sign", "getenv", "served", "unsigned"}
Waiting == {"lock", "locked", "build", "failed", "init", "sodium"}

LazyTypeOK ==
    /\ pc \in [Calls -> Waiting \cup Decided]
    /\ mutex \in Calls \cup {Nil}
    /\ service \in Nat
    /\ built \in Nat
    /\ got \in [Calls -> Nat]
    /\ sodium \in {"unset", "running", "set"}
    /\ initOk \in BOOLEAN
    /\ secret \in {"unset", "running", "set"}
    /\ env \in BOOLEAN

\* The mutex is held from the lock to the return of getService, and whoever is
\* about to build holds it and found nothing.
MutexHeld ==
    \A c \in Calls :
        /\ pc[c] \in {"locked", "build"} <=> mutex = c
        /\ pc[c] = "build" => service = 0

\* built counts the services, of which there is at most one.
BuiltOnce == service = built /\ built <= 1

\* call_once: one call runs the lambda, and none gets past it before that.
InitOnce ==
    \A c \in Calls :
        /\ pc[c] = "sodium" => sodium = "running" /\ \A d \in Calls : pc[d] = "sodium" => d = c
        /\ pc[c] \in Decided => sodium = "set"
        /\ pc[c] \in Usable => initOk
        /\ pc[c] = "unhashed" => ~initOk

\* The static: one call runs the initializer, and a token is signed only with a
\* secret that was set.
SecretOnce ==
    /\ secret = "set" => env
    /\ \A c \in Calls :
        /\ pc[c] = "getenv" => secret = "running" /\ \A d \in Calls : pc[d] = "getenv" => d = c
        /\ pc[c] = "served" => secret = "set" /\ env

\* Nobody waits for nobody: while one of the three is held, a call is at the step
\* that gives it free, and that step waits for nothing.
SomebodyWorks ==
    /\ mutex # Nil => \E c \in Calls : c = mutex /\ pc[c] \in {"locked", "build"}
    /\ sodium = "running" => \E c \in Calls : pc[c] = "sodium"
    /\ secret = "running" => \E c \in Calls : pc[c] = "getenv"

LazyInv ==
    /\ LazyTypeOK
    /\ MutexHeld
    /\ BuiltOnce
    /\ OneService
    /\ InitOnce
    /\ SecretOnce
    /\ SomebodyWorks


-----------------------------------------------------------------------------

LEMMA LazyInvInit == FirstInit => LazyInv
  <1> SUFFICES ASSUME FirstInit PROVE LazyInv
    OBVIOUS
  <1> USE DEF FirstInit
  <1>1. LazyTypeOK
    BY DEF LazyTypeOK, Waiting
  <1>2. MutexHeld /\ BuiltOnce /\ OneService
    BY LazyAssumption DEF MutexHeld, BuiltOnce, OneService
  <1>3. InitOnce /\ SecretOnce /\ SomebodyWorks
    BY DEF InitOnce, SecretOnce, SomebodyWorks, Decided, Usable
  <1> QED
    BY <1>1, <1>2, <1>3 DEF LazyInv

\* What a step on one of the three leaves alone stays as it was for all calls.
LEMMA ServiceStep ==
  ASSUME LazyInv, NEW c \in Calls, Acquire(c) \/ FindService(c) \/ BuildService(c)
  PROVE  LazyInv'
  <1> USE DEF LazyInv, LazyTypeOK, Goes, At, Return
  <1>1. CASE Acquire(c)
    <2> USE <1>1 DEF Acquire, sodiumVars, secretVars
    <2>1. LazyTypeOK'
      BY DEF Waiting
    <2>2. MutexHeld'
      BY LazyAssumption DEF MutexHeld
    <2>3. BuiltOnce' /\ OneService'
      BY DEF BuiltOnce, OneService
    <2>4. InitOnce' /\ SecretOnce'
      BY DEF InitOnce, SecretOnce, Decided, Usable
    <2>5. SomebodyWorks'
      BY DEF SomebodyWorks
    <2> QED
      BY <2>1, <2>2, <2>3, <2>4, <2>5
  <1>2. CASE FindService(c)
    <2> USE <1>2 DEF FindService, sodiumVars, secretVars
    <2>0. mutex = c
      BY DEF MutexHeld
    <2>1. LazyTypeOK'
      BY DEF Waiting
    <2>2. MutexHeld'
      BY <2>0, LazyAssumption DEF MutexHeld
    <2>3. BuiltOnce' /\ OneService'
      BY DEF BuiltOnce, OneService
    <2>4. InitOnce' /\ SecretOnce'
      BY DEF InitOnce, SecretOnce, Decided, Usable
    <2>5. SomebodyWorks'
      BY <2>0 DEF SomebodyWorks
    <2> QED
      BY <2>1, <2>2, <2>3, <2>4, <2>5
  <1>3. CASE BuildService(c)
    <2> USE <1>3 DEF BuildService, sodiumVars, secretVars
    <2>0. mutex = c /\ service = 0 /\ built = 0
      BY DEF MutexHeld, BuiltOnce
    <2>1. LazyTypeOK'
      BY DEF Waiting
    <2>2. MutexHeld'
      BY <2>0, LazyAssumption DEF MutexHeld
    <2>3. BuiltOnce'
      BY <2>0 DEF BuiltOnce
    <2>4. OneService'
      <3>1. \A d \in Calls : pc[d] \in {"lock", "locked", "build", "failed"}
        BY <2>0 DEF OneService
      <3> QED
        BY <3>1, <2>0, <2>3 DEF OneService, BuiltOnce
    <2>5. InitOnce' /\ SecretOnce'
      BY DEF InitOnce, SecretOnce, Decided, Usable
    <2>6. SomebodyWorks'
      BY <2>0 DEF SomebodyWorks
    <2> QED
      BY <2>1, <2>2, <2>3, <2>4, <2>5, <2>6
  <1> QED
    BY <1>1, <1>2, <1>3

LEMMA SodiumStep ==
  ASSUME LazyInv, NEW c \in Calls, CallOnce(c) \/ SodiumInit(c) \/ EnsureInit(c)
  PROVE  LazyInv'
  <1> USE DEF LazyInv, LazyTypeOK, Goes, At
  <1>1. CASE CallOnce(c)
    <2> USE <1>1 DEF CallOnce, serviceVars, secretVars
    <2>1. LazyTypeOK'
      BY DEF Waiting, Decided
    <2>2. MutexHeld' /\ BuiltOnce' /\ OneService'
      BY DEF MutexHeld, BuiltOnce, OneService
    <2>3. InitOnce'
      BY DEF InitOnce, Decided, Usable
    <2>4. SecretOnce'
      BY DEF SecretOnce
    <2>5. SomebodyWorks'
      BY DEF SomebodyWorks
    <2> QED
      BY <2>1, <2>2, <2>3, <2>4, <2>5
  <1>2. CASE SodiumInit(c)
    <2> USE <1>2 DEF SodiumInit, serviceVars, secretVars
    <2>0. \A d \in Calls : pc[d] \notin Decided
      BY DEF InitOnce
    <2>1. LazyTypeOK'
      BY DEF Waiting, Decided
    <2>2. MutexHeld' /\ BuiltOnce' /\ OneService'
      BY DEF MutexHeld, BuiltOnce, OneService
    <2>3. InitOnce'
      BY <2>0 DEF InitOnce, Decided, Usable
    <2>4. SecretOnce'
      BY DEF SecretOnce
    <2>5. SomebodyWorks'
      BY DEF SomebodyWorks
    <2> QED
      BY <2>1, <2>2, <2>3, <2>4, <2>5
  <1>3. CASE EnsureInit(c)
    <2> USE <1>3 DEF EnsureInit, serviceVars, sodiumVars, secretVars
    <2>1. LazyTypeOK'
      BY DEF Waiting, Decided
    <2>2. MutexHeld' /\ BuiltOnce' /\ OneService'
      BY DEF MutexHeld, BuiltOnce, OneService
    <2>3. InitOnce'
      BY DEF InitOnce, Decided, Usable
    <2>4. SecretOnce'
      BY DEF SecretOnce
    <2>5. SomebodyWorks'
      BY DEF SomebodyWorks
    <2> QED
      BY <2>1, <2>2, <2>3, <2>4, <2>5
  <1> QED
    BY <1>1, <1>2, <1>3

LEMMA SecretStep ==
  ASSUME LazyInv, NEW c \in Calls, EnterStatic(c) \/ ReadSecret(c)
  PROVE  LazyInv'
  <1> USE DEF LazyInv, LazyTypeOK, Goes, At
  <1>1. CASE EnterStatic(c)
    <2> USE <1>1 DEF EnterStatic, serviceVars, sodiumVars
    <2>1. LazyTypeOK'
      BY DEF Waiting, Decided
    <2>2. MutexHeld' /\ BuiltOnce' /\ OneService'
      BY DEF MutexHeld, BuiltOnce, OneService
    <2>3. InitOnce'
      BY DEF InitOnce, Decided, Usable
    <2>4. SecretOnce'
      BY DEF SecretOnce
    <2>5. SomebodyWorks'
      BY DEF SomebodyWorks
    <2> QED
      BY <2>1, <2>2, <2>3, <2>4, <2>5
  <1>2. CASE ReadSecret(c)
    <2> USE <1>2 DEF ReadSecret, serviceVars, sodiumVars
    <2>1. LazyTypeOK'
      BY DEF Waiting, Decided
    <2>2. MutexHeld' /\ BuiltOnce' /\ OneService'
      BY DEF MutexHeld, BuiltOnce, OneService
    <2>3. InitOnce'
      BY DEF InitOnce, Decided, Usable
    <2>4. SecretOnce'
      BY DEF SecretOnce
    <2>5. SomebodyWorks'
      BY DEF SomebodyWorks
    <2> QED
      BY <2>1, <2>2, <2>3, <2>4, <2>5
  <1> QED
    BY <1>1, <1>2

LEMMA LazyInvStep == LazyInv /\ [FirstNext]_lazyVars => LazyInv'
  <1> SUFFICES ASSUME LazyInv, [FirstNext]_lazyVars PROVE LazyInv'
    OBVIOUS
  <1>1. CASE FirstNext
    BY <1>1, ServiceStep, SodiumStep, SecretStep DEF FirstNext, Step
  <1>2. CASE UNCHANGED lazyVars
    BY <1>2 DEF lazyVars, serviceVars, sodiumVars, secretVars, LazyInv, LazyTypeOK,
        MutexHeld, BuiltOnce, OneService, InitOnce, SecretOnce, SomebodyWorks
  <1> QED
    BY <1>1, <1>2

LEMMA LazyInvariant == FirstSpec => []LazyInv
  BY LazyInvInit, LazyInvStep, PTL DEF FirstSpec

\* However many first requests race, getService constructs one service and gives it
\* to all that get past it, although some constructions failed before it.
THEOREM OneServiceForAll == FirstSpec => []OneService
  BY LazyInvariant, PTL DEF LazyInv

\* sodium_init runs once, before anybody hashes, and all calls learn the same from it.
THEOREM OneVerdictForAll == FirstSpec => []OneVerdict
  <1>1. LazyInv => OneVerdict
    BY DEF LazyInv, InitOnce, OneVerdict, Decided, Usable
  <1> QED
    BY <1>1, LazyInvariant, PTL

\* A call blocked at the mutex, the once_flag or the static waits for a call that is
\* inside and does not wait itself: there is no circle of calls waiting for each other.
THEOREM SomebodyAlwaysWorks == FirstSpec => []SomebodyWorks
  BY LazyInvariant, PTL DEF LazyInv

\* No token is signed before JWT_SECRET was read, once, and found to be set.
THEOREM SignedWithTheSecret == FirstSpec => []SecretOnce
  BY LazyInvariant, PTL DEF LazyInv
=============================================================================
