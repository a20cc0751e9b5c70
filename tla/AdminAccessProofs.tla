------------------------- MODULE AdminAccessProofs -------------------------
(***************************************************************************)
(* AdminAccess runs AuthLate and Proxy's registry, so what is proved of    *)
(* both holds of it.  Whoever is admitted is an admin and has a session at *)
(* that moment, by the invariants of AuthService; no row of its tables     *)
(* goes away and no role changes, so that stays true; and what is admitted *)
(* is all that ever makes a row of the registry.                           *)
(***************************************************************************)
EXTENDS AdminAccess, AuthLateProofs

\* The registry again, with what is proved of it.
Rg == INSTANCE ProxyProofs WITH
    Requests <- {}, content <- [r \in {} |-> "safe"], BackendStatuses <- {},
    req <- [r \in {} |-> Nil],
    verdict <- [r \in {} |-> "none"], sent <- {}, arrived <- {}, late <- {}

\* What Proxy assumes of its constants.
LEMMA RgConstants ==
  /\ [r \in {} |-> "safe"] \in [{} -> Rg!Contents]
  /\ Nil \notin Backends
  BY AccessAssumption

-----------------------------------------------------------------------------
(* Registry and Rg are two instances of one module.                        *)

LEMMA SameInit == Registry!Init <=> Rg!Init
  BY DEF Registry!Init, Rg!Init, Registry!NewRequest, Rg!NewRequest,
         Registry!NewCall, Rg!NewCall

LEMMA SameHandlers ==
  \A a \in AdminCalls :
      /\ Registry!RegisterBackend(a) <=> Rg!RegisterBackend(a)
      /\ Registry!ListBackends(a) <=> Rg!ListBackends(a)
      /\ Registry!DeactivateBackend(a) <=> Rg!DeactivateBackend(a)
  BY DEF Registry!RegisterBackend, Rg!RegisterBackend, Registry!ListBackends,
         Rg!ListBackends, Registry!DeactivateBackend, Rg!DeactivateBackend,
         Registry!Filtered, Rg!Filtered, Registry!Reply, Rg!Reply, Registry!Ask, Rg!Ask,
         Registry!Table, Rg!Table, Registry!Network, Rg!Network

LEMMA SameStatements ==
  \A a \in AdminCalls :
      /\ Registry!Statement(a) <=> Rg!Statement(a)
      /\ Registry!Executes(a) <=> Rg!Executes(a)
      /\ Registry!NeverExecutes(a) <=> Rg!NeverExecutes(a)
  BY DEF Registry!Statement, Rg!Statement, Registry!Save, Rg!Save, Registry!FindAll,
         Rg!FindAll, Registry!Deactivate, Rg!Deactivate, Registry!GiveUp, Rg!GiveUp,
         Registry!Executes, Rg!Executes, Registry!NeverExecutes, Rg!NeverExecutes,
         Registry!InsertRow, Rg!InsertRow, Registry!DeactivateRow, Rg!DeactivateRow,
         Registry!Exists, Rg!Exists, Registry!Writing, Rg!Writing,
         Registry!Reply, Rg!Reply, Registry!Table, Rg!Table, Registry!Network, Rg!Network

LEMMA SameStop == Registry!MiddlewareStops <=> Rg!MiddlewareStops
  BY DEF Registry!MiddlewareStops, Rg!MiddlewareStops, Registry!Pending, Rg!Pending,
         Registry!Writing, Rg!Writing, Registry!Table, Rg!Table,
         Registry!Network, Rg!Network

-----------------------------------------------------------------------------
(* The steps of the two parts.                                             *)

LEMMA LateStep ==
  ASSUME [AccessNext]_accessVars
  PROVE  [LateNext]_vars
  <1>1. CASE \E a \in AdminCalls : AdminCall(a) \/ RegistryStep(a)
    BY <1>1 DEF AdminCall, JwtAuthFilter, AdminOnlyFilter, Refuse, Admit, RegistryStep
  <1>2. CASE AuthStep
    BY <1>2 DEF AuthStep, LateNext
  <1>3. CASE ProcessStops
    BY <1>3 DEF ProcessStops, LateNext
  <1>4. CASE UNCHANGED accessVars
    BY <1>4 DEF accessVars
  <1> QED
    BY <1>1, <1>2, <1>3, <1>4 DEF AccessNext

\* A filter's answer is one the registry allows.
LEMMA RefuseStep ==
  ASSUME NEW a \in AdminCalls, NEW code \in {401, 403}, Refuse(a, code)
  PROVE  Registry!RegisterBackend(a)
  BY DEF Refuse, Registry!RegisterBackend, Registry!Filtered, Registry!Table,
         Registry!Network

LEMMA RegistryStepOK ==
  ASSUME [AccessNext]_accessVars
  PROVE  [Registry!Next]_(Registry!vars)
  <1>1. ASSUME NEW a \in AdminCalls, JwtAuthFilter(a) \/ AdminOnlyFilter(a)
        PROVE  Registry!Next
    BY <1>1, RefuseStep DEF JwtAuthFilter, AdminOnlyFilter, Registry!Next
  <1>2. ASSUME NEW a \in AdminCalls, Admit(a) PROVE Registry!Next
    BY <1>2 DEF Admit, Handler, Registry!Next
  <1>3. ASSUME NEW a \in AdminCalls, RegistryStep(a) PROVE Registry!Next
    BY <1>3 DEF RegistryStep, Registry!Next
  <1>4. CASE UNCHANGED registryVars
    BY <1>4 DEF registryVars, Registry!vars
  <1>5. CASE ProcessStops
    BY <1>4, <1>5 DEF ProcessStops, Registry!Next
  <1> QED
    BY <1>1, <1>2, <1>3, <1>4, <1>5 DEF AccessNext, AdminCall, AuthStep, accessVars

LEMMA RgStep ==
  ASSUME [AccessNext]_accessVars
  PROVE  [Rg!Next]_(Rg!vars)
  <1>1. ASSUME NEW a \in AdminCalls, JwtAuthFilter(a) \/ AdminOnlyFilter(a)
        PROVE  Rg!Next
    BY <1>1, RefuseStep, SameHandlers DEF JwtAuthFilter, AdminOnlyFilter, Rg!Next
  <1>2. ASSUME NEW a \in AdminCalls, Admit(a) PROVE Rg!Next
    BY <1>2, SameHandlers DEF Admit, Handler, Rg!Next
  <1>3. ASSUME NEW a \in AdminCalls, RegistryStep(a) PROVE Rg!Next
    BY <1>3, SameStatements DEF RegistryStep, Rg!Next
  <1>4. CASE UNCHANGED registryVars
    BY <1>4 DEF registryVars, Rg!vars
  <1>5. CASE ProcessStops
    BY <1>4, <1>5, SameStop DEF ProcessStops, Rg!Next
  <1> QED
    BY <1>1, <1>2, <1>3, <1>4, <1>5 DEF AccessNext, AdminCall, AuthStep, accessVars

-----------------------------------------------------------------------------

\* The authentication service behaves as it does alone.
THEOREM AccessRunsAuth == AccessSpec => LateSpec
  <1>1. AccessInit => LateInit
    BY DEF AccessInit
  <1>2. [AccessNext]_accessVars => [LateNext]_vars
    BY LateStep
  <1> QED
    BY <1>1, <1>2, PTL DEF AccessSpec, LateSpec

\* Whenever an account exists, somebody can use the registry.
THEOREM AccessUsable == AccessSpec => []UsableOutOfTheBox
  BY AccessRunsAuth, LateUsable, PTL

\* Behind the filters as alone, accounts and sessions are what Accounts says.
THEOREM AccessImplementsAccounts == AccessSpec => KeepsAccounts
  BY AccessRunsAuth, LateImplementsAccounts, PTL

\* Those who can are no more than the registrations that can be under way at once.
THEOREM AccessAdminsAreBounded == AccessSpec => []AdminsBounded
  BY AccessRunsAuth, LateAdminsAreBounded, PTL

\* With the filters in front, the registry is Proxy's.
THEOREM AccessKeepsRegistry == AccessSpec => KeepsRegistry
  <1>1. AccessInit => Registry!Init
    BY DEF AccessInit
  <1>2. [AccessNext]_accessVars => [Registry!Next]_(Registry!vars)
    BY RegistryStepOK
  <1> QED
    BY <1>1, <1>2, PTL DEF AccessSpec, KeepsRegistry, Registry!Spec

LEMMA RegistryInvariant == AccessSpec => [](Rg!TypeOK /\ Rg!CallInv)
  <1>1. AccessInit => Rg!Init
    BY SameInit DEF AccessInit
  <1>2. [AccessNext]_accessVars => [Rg!Next]_(Rg!vars)
    BY RgStep
  <1>3. Rg!Spec => []Rg!TypeOK
    BY RgConstants, Rg!TypeCorrect
  <1>4. Rg!Spec => []Rg!CallInv
    BY RgConstants, Rg!CallInvariant
  <1> QED
    BY <1>1, <1>2, <1>3, <1>4, PTL DEF AccessSpec, Rg!Spec

-----------------------------------------------------------------------------
(* The invariant.                                                          *)

HasSession(e) ==
    \E t \in RefreshTokens : sessions[t].state # "absent" /\ sessions[t].user = e

\* What is known of a user whose token is in circulation stays true.
Trusted(e) == users[e].role = "admin" /\ HasSession(e)

\* A call that got past the filters, or has done anything, has somebody to answer
\* for it.
Owned(a) ==
    call[a].pc \in {"save", "list", "deactivate"} \/ made[a] # Nil \/ a \in overdue
        => by[a] # Nil

RowsMade == \A b \in Backends : backends[b] # "absent" => \E a \in AdminCalls : made[a] = b

AccessInv ==
    /\ by \in [AdminCalls -> Emails \cup {Nil}]
    /\ \A claim \in access : HasSession(claim.user)
    /\ \A a \in AdminCalls : Owned(a) /\ (by[a] # Nil => Trusted(by[a]))
    /\ RowsMade

LEMMA AccessInvInit == AccessInit => AccessInv
  <1> SUFFICES ASSUME AccessInit PROVE AccessInv
    OBVIOUS
  <1>1. /\ by = [a \in AdminCalls |-> Nil] /\ access = {}
        /\ \A a \in AdminCalls : call[a].pc = "new" /\ made[a] = Nil
        /\ overdue = {} /\ \A b \in Backends : backends[b] = "absent"
    BY DEF AccessInit, LateInit, Init, Registry!Init, Registry!NewCall
  <1> QED
    BY <1>1 DEF AccessInv, Owned, RowsMade

\* No step of the service takes back what a token stood for.
LEMMA SessionsRemain ==
  ASSUME CaptureInv, [LateNext]_vars
  PROVE  RowsStay
  <1>1. CASE [Next]_vars
    BY <1>1, RowsStayStep DEF CaptureInv
  <1>2. CASE Rearranged
    BY <1>2 DEF Rearranged, RowsStay, Tokens
  <1> QED
    BY <1>1, <1>2, LateSteps

LEMMA TrustRemains ==
  ASSUME RowsStay, NEW e \in Emails
  PROVE  /\ HasSession(e) => HasSession(e)'
         /\ Trusted(e) => Trusted(e)'
  BY DEF RowsStay, HasSession, Trusted, Exists

\* A token leaves the service with its session.
LEMMA ClaimSession ==
  ASSUME CaptureInv, AccessInv, [LateNext]_vars, NEW claim \in access'
  PROVE  HasSession(claim.user)'
  <1>1. CASE claim \in access
    <2>1. claim.user \in Emails /\ HasSession(claim.user)
      BY <1>1 DEF AccessInv, CaptureInv, TypeInv, TypeOK, Claims
    <2> QED
      BY <2>1, SessionsRemain, TrustRemains
  <1>2. CASE claim \notin access
    <2>1. ~Rearranged
      BY <1>2 DEF Rearranged, Tokens
    <2>2. PICK c \in Clients : IssueTokens(c)
      BY <1>2, <2>1, LateSteps, OnlyIssueTokens
    <2>3. PICK t \in RefreshTokens :
             InsertSession(t, req[c].email)
             /\ access' = access \cup {[user |-> req[c].email, role |-> req[c].role]}
      BY <1>2, <2>2 DEF IssueTokens, Tokens
    <2>4. claim.user = req[c].email
      BY <1>2, <2>3
    <2>5. sessions'[t].state = "active" /\ sessions'[t].user = req[c].email
      BY <2>3 DEF InsertSession, CaptureInv, TypeInv, TypeOK
    <2> QED
      BY <2>4, <2>5 DEF HasSession
  <1> QED
    BY <1>1, <1>2

\* What the registry's own steps may do: only a call that waits for a statement or
\* has left one behind changes, it makes one row, and it made none before.
LEMMA RegistryOwn ==
  ASSUME Rg!TypeOK, Rg!CallInv, NEW a \in AdminCalls, RegistryStep(a)
  PROVE  /\ call[a].pc \in {"save", "list", "deactivate"} \/ a \in overdue
         /\ \A c \in AdminCalls \ {a} :
               call'[c] = call[c] /\ made'[c] = made[c] /\ (c \in overdue' => c \in overdue)
         /\ \/ UNCHANGED made /\ \A b \in Backends : backends'[b] # "absent" => backends[b] # "absent"
            \/ /\ made[a] = Nil
               /\ \E b \in Backends :
                     made'[a] = b /\ \A d \in Backends \ {b} : backends'[d] = backends[d]
  <1>0. /\ backends \in [Backends -> {"absent", "active", "inactive"}]
        /\ made \in [AdminCalls -> Backends \cup {Nil}]
        /\ overdue \subseteq AdminCalls
        /\ \E S : call \in [AdminCalls -> S]
        /\ Rg!CallOK(a)
    BY DEF Rg!TypeOK, Rg!CallInv
  <1>1. ASSUME NEW code, Rg!Reply(a, code)
        PROVE  \A c \in AdminCalls \ {a} : call'[c] = call[c]
    BY <1>0, <1>1 DEF Rg!Reply
  <1>2. ASSUME NEW b \in Backends, Rg!InsertRow(a, b)
        PROVE  /\ made'[a] = b /\ \A c \in AdminCalls \ {a} : made'[c] = made[c]
               /\ \A d \in Backends \ {b} : backends'[d] = backends[d]
    BY <1>0, <1>2 DEF Rg!InsertRow
  <1>3. ASSUME NEW b, Rg!DeactivateRow(b)
        PROVE  \A d \in Backends : backends'[d] # "absent" => backends[d] # "absent"
    BY <1>0, <1>3 DEF Rg!DeactivateRow, Rg!Exists
  <1>4. CASE Rg!Save(a)
    <2>1. call[a].pc = "save" /\ made[a] = Nil /\ UNCHANGED overdue
      BY <1>0, <1>4 DEF Rg!Save, Rg!CallOK
    <2>2. \A c \in AdminCalls \ {a} : call'[c] = call[c]
      BY <1>1, <1>4 DEF Rg!Save
    <2>3. CASE \E b \in Backends : Rg!InsertRow(a, b)
      BY <1>2, <2>1, <2>2, <2>3
    <2>4. CASE UNCHANGED <<backends, made>>
      BY <2>1, <2>2, <2>4
    <2> QED
      BY <1>4, <2>3, <2>4 DEF Rg!Save, Rg!Table
  <1>5. CASE Rg!FindAll(a)
    BY <1>1, <1>5 DEF Rg!FindAll, Rg!Table
  <1>6. CASE Rg!Deactivate(a)
    <2>1. call[a].pc = "deactivate" /\ UNCHANGED <<made, overdue>>
      BY <1>6 DEF Rg!Deactivate
    <2>2. \A c \in AdminCalls \ {a} : call'[c] = call[c]
      BY <1>1, <1>6 DEF Rg!Deactivate
    <2>3. \A d \in Backends : backends'[d] # "absent" => backends[d] # "absent"
      BY <1>3, <1>6 DEF Rg!Deactivate
    <2> QED
      BY <2>1, <2>2, <2>3
  <1>7. CASE Rg!GiveUp(a)
    BY <1>1, <1>7 DEF Rg!GiveUp, Rg!Writing, Rg!Table
  <1>8. CASE Rg!Executes(a)
    <2>1. a \in overdue /\ UNCHANGED call /\ overdue' = overdue \ {a}
      BY <1>8 DEF Rg!Executes
    <2>2. CASE call[a].id = Nil /\ \E b \in Backends : Rg!InsertRow(a, b)
      <3>1. made[a] = Nil
        BY <1>0, <2>1, <2>2 DEF Rg!CallOK
      <3> QED
        BY <1>2, <2>1, <2>2, <3>1
    <2>3. CASE Rg!DeactivateRow(call[a].id) /\ UNCHANGED made
      BY <1>3, <2>1, <2>3
    <2> QED
      BY <1>8, <2>2, <2>3 DEF Rg!Executes
  <1>9. CASE Rg!NeverExecutes(a)
    BY <1>9 DEF Rg!NeverExecutes, Rg!Table
  <1> QED
    BY <1>4, <1>5, <1>6, <1>7, <1>8, <1>9, SameStatements DEF RegistryStep, Rg!Statement

\* A row and whoever made it, after a step of the registry.
LEMMA RowsMadeStep ==
  ASSUME Rg!TypeOK, Rg!CallInv, AccessInv, NEW a \in AdminCalls, RegistryStep(a)
  PROVE  RowsMade'
  <1>1. ASSUME NEW b \in Backends, backends'[b] # "absent"
        PROVE  \E c \in AdminCalls : made'[c] = b
    <2>1. CASE UNCHANGED made /\ \A d \in Backends : backends'[d] # "absent" => backends[d] # "absent"
      BY <1>1, <2>1 DEF AccessInv, RowsMade
    <2>2. CASE /\ made[a] = Nil
               /\ \E d \in Backends :
                     made'[a] = d /\ \A u \in Backends \ {d} : backends'[u] = backends[u]
      <3>1. PICK d \in Backends :
               made'[a] = d /\ \A u \in Backends \ {d} : backends'[u] = backends[u]
        BY <2>2
      <3>2. CASE b = d
        BY <3>1, <3>2
      <3>3. CASE b # d
        <4>1. PICK c \in AdminCalls : made[c] = b
          BY <1>1, <3>1, <3>3 DEF AccessInv, RowsMade
        <4>2. c # a
          BY <2>2, <4>1, AccessAssumption
        <4>3. made'[c] = made[c]
          BY <4>2, RegistryOwn
        <4> QED
          BY <4>1, <4>3
      <3> QED
        BY <3>2, <3>3
    <2> QED
      BY <2>1, <2>2, RegistryOwn
  <1> QED
    BY <1>1 DEF RowsMade

\* An admitted call is its bearer's.
LEMMA AdmitStep ==
  ASSUME CaptureInv, Rg!TypeOK, AccessInv, NEW a \in AdminCalls, Admit(a)
  PROVE  AccessInv'
  <1>1. PICK claim \in access : claim.role = "admin" /\ by' = [by EXCEPT ![a] = claim.user]
    BY DEF Admit, Verified, IsAdmin
  <1>2. claim.user \in Emails /\ claim.user # Nil /\ Trusted(claim.user)
    BY <1>1, AuthAssumption
       DEF CaptureInv, ClaimsMatchUsers, TypeInv, TypeOK, Claims, AccessInv, Trusted
  <1>3. UNCHANGED <<users, sessions, access, backends, made, overdue>>
    BY DEF Admit, vars, Handler, Registry!RegisterBackend, Registry!ListBackends,
           Registry!DeactivateBackend, Registry!Table
  <1>4. \A c \in AdminCalls \ {a} : call'[c] = call[c]
    <2>1. \E S : call \in [AdminCalls -> S]
      BY DEF Rg!TypeOK
    <2> QED
      BY <2>1 DEF Admit, Handler, Registry!RegisterBackend, Registry!ListBackends,
             Registry!DeactivateBackend, Registry!Filtered, Registry!Reply, Registry!Ask
  <1>5. /\ by' \in [AdminCalls -> Emails \cup {Nil}]
        /\ by'[a] = claim.user /\ \A c \in AdminCalls \ {a} : by'[c] = by[c]
    BY <1>1, <1>2 DEF AccessInv
  <1>6. \A e : Trusted(e)' <=> Trusted(e)
    BY <1>3 DEF Trusted, HasSession
  <1>7. \A c \in AdminCalls : Owned(c)'
    BY <1>2, <1>3, <1>4, <1>5 DEF AccessInv, Owned
  <1>8. \A c \in AdminCalls : by'[c] # Nil => Trusted(by'[c])
    BY <1>2, <1>5 DEF AccessInv
  <1>9. \A c \in AdminCalls : (by[c] # Nil => Trusted(by[c]))'
    BY <1>3, <1>8 DEF Trusted, HasSession
  <1>10. (\A u \in access : HasSession(u.user))'
    BY <1>3 DEF AccessInv, HasSession
  <1> QED
    BY <1>3, <1>5, <1>7, <1>9, <1>10 DEF AccessInv, RowsMade

LEMMA AccessInvStep ==
  ASSUME CaptureInv, Rg!TypeOK, Rg!CallInv, AccessInv, [AccessNext]_accessVars
  PROVE  AccessInv'
  <1>0. [LateNext]_vars
    BY LateStep
  <1>1. \A claim \in access' : HasSession(claim.user)'
    BY <1>0, ClaimSession
  <1>2. ASSUME UNCHANGED by, \A a \in AdminCalls : Owned(a)', RowsMade' PROVE AccessInv'
    <2>1. \A a \in AdminCalls : by[a] # Nil => by[a] \in Emails /\ Trusted(by[a])
      BY DEF AccessInv
    <2>2. \A e \in Emails : Trusted(e) => Trusted(e)'
      BY <1>0, SessionsRemain, TrustRemains
    <2>3. \A a \in AdminCalls : (by[a] # Nil => Trusted(by[a]))'
      BY <1>2, <2>1, <2>2 DEF Trusted, HasSession
    <2>4. by' \in [AdminCalls -> Emails \cup {Nil}]
      BY <1>2 DEF AccessInv
    <2> QED
      BY <1>1, <1>2, <2>3, <2>4 DEF AccessInv
  <1>3. ASSUME UNCHANGED <<backends, made, call, overdue, by>> PROVE AccessInv'
    <2>1. RowsMade' /\ \A a \in AdminCalls : Owned(a)'
      BY <1>3 DEF AccessInv, RowsMade, Owned
    <2> QED
      BY <1>2, <1>3, <2>1
  <1>4. ASSUME NEW a \in AdminCalls, NEW code, Refuse(a, code) PROVE AccessInv'
    <2>1. /\ UNCHANGED <<backends, made, overdue, by>>
          /\ \A c \in AdminCalls : call'[c].pc \in {call[c].pc, "done"}
      <3>1. call \in [AdminCalls -> Rg!Call]
        BY DEF Rg!TypeOK
      <3> QED
        BY <1>4, <3>1 DEF Refuse, Registry!Reply, Rg!Call
    <2>2. RowsMade' /\ \A c \in AdminCalls : Owned(c)'
      BY <2>1 DEF AccessInv, RowsMade, Owned
    <2> QED
      BY <1>2, <2>1, <2>2
  <1>5. ASSUME NEW a \in AdminCalls, RegistryStep(a) PROVE AccessInv'
    <2>1. UNCHANGED by /\ by[a] # Nil
      BY <1>5, RegistryOwn DEF RegistryStep, AccessInv, Owned
    <2>2. \A c \in AdminCalls : Owned(c)'
      BY <1>5, <2>1, RegistryOwn DEF AccessInv, Owned
    <2> QED
      BY <1>2, <1>5, <2>1, <2>2, RowsMadeStep
  <1>6. ASSUME Registry!MiddlewareStops, UNCHANGED by PROVE AccessInv'
    <2>1. /\ UNCHANGED <<backends, made>>
          /\ \A a \in AdminCalls : a \in overdue' => a \in overdue \/ Rg!Writing(a)
      BY <1>6, SameStop DEF Rg!MiddlewareStops, Rg!Table
    <2>2. \A a \in AdminCalls : call'[a].pc \in {call[a].pc, "dropped"}
      <3>1. call \in [AdminCalls -> Rg!Call]
        BY DEF Rg!TypeOK
      <3> QED
        BY <1>6, <3>1, SameStop DEF Rg!MiddlewareStops, Rg!Call
    <2>3. RowsMade' /\ \A a \in AdminCalls : Owned(a)'
      BY <1>6, <2>1, <2>2 DEF AccessInv, RowsMade, Owned, Rg!Writing
    <2> QED
      BY <1>2, <1>6, <2>3
  <1>7. CASE \E a \in AdminCalls : AdminCall(a) \/ RegistryStep(a)
    BY <1>4, <1>5, <1>7, AdmitStep DEF AdminCall, JwtAuthFilter, AdminOnlyFilter
  <1>8. CASE AuthStep \/ UNCHANGED accessVars
    BY <1>3, <1>8 DEF AuthStep, accessVars, registryVars
  <1>9. CASE ProcessStops
    BY <1>3, <1>6, <1>9 DEF ProcessStops, registryVars
  <1> QED
    BY <1>7, <1>8, <1>9 DEF AccessNext

LEMMA AccessInvariant == AccessSpec => []AccessInv
  <1>1. AccessSpec => []CaptureInv
    BY AccessRunsAuth, LateCapture, PTL
  <1>2. CaptureInv /\ Rg!TypeOK /\ Rg!CallInv /\ AccessInv /\ [AccessNext]_accessVars
           => AccessInv'
    BY AccessInvStep
  <1> QED
    BY <1>1, <1>2, AccessInvInit, RegistryInvariant, PTL DEF AccessSpec

\* Only admins' tokens ever made a row of the registry.
THEOREM RowsAreMadeByAdmins == AccessSpec => []RowsMadeByAdmins
  <1>1. AccessInv => RowsMadeByAdmins
    <2> SUFFICES ASSUME AccessInv, NEW b \in Backends, backends[b] # "absent"
                 PROVE  \E a \in AdminCalls :
                           made[a] = b /\ by[a] # Nil /\ users[by[a]].role = "admin"
      BY DEF RowsMadeByAdmins
    <2>1. PICK a \in AdminCalls : made[a] = b
      BY DEF AccessInv, RowsMade
    <2>2. by[a] # Nil /\ Trusted(by[a])
      BY <2>1, AccessAssumption DEF AccessInv, Owned
    <2> QED
      BY <2>1, <2>2 DEF Trusted
  <1> QED
    BY <1>1, AccessInvariant, PTL

\* Nobody is admitted who never had a session.
THEOREM AdmittedHaveSessions == AccessSpec => []AdmittedHadSession
  <1>1. AccessInv => AdmittedHadSession
    BY DEF AccessInv, Trusted, HasSession, AdmittedHadSession
  <1> QED
    BY <1>1, AccessInvariant, PTL
=============================================================================
