------------------------------ MODULE AuthLate ------------------------------
(***************************************************************************)
(* AuthService when the database outlives the middleware's patience.  The  *)
(* database client gives a statement up after 30 seconds and runs its      *)
(* error callback; the statement is still in the server's hands and may    *)
(* execute at any later moment, after the client has retried, or after the *)
(* middleware has restarted.                                               *)
(*                                                                         *)
(* Some members of Clients stand for such statements: the record in req of *)
(* an overdue one is what it was sent with, and nobody waits for it.  The  *)
(* others are Connections and behave as in AuthService.  So all that is    *)
(* said of Clients there is said here of requests and overdue statements   *)
(* together.                                                               *)
(***************************************************************************)
EXTENDS AuthService

CONSTANT Overdue     \* room for statements that outlive their error callback

ASSUME LateAssumption == Overdue \subseteq Clients

Connections == Clients \ Overdue

\* The statements that change a table; a late SELECT has no effect.
Writes == {"registerCreate", "loginRecord", "loginLock", "loginReset",
           "refreshRevoke", "logoutRevoke", "issueTokens"}

LateInit == Init

\* Mutation: the error callback continues as if the revocation were done.
GiveUpRevoked(c, s) ==
    /\ Waits(c, "refreshRevoke")
    /\ Idle(s)
    /\ req' = [req EXCEPT ![s] = req[c], ![c].pc = "refreshUser"]
    /\ UNCHANGED Tables

\* The error callback runs after 30 seconds: 401 while a failed login is counted
\* or locked, 500 otherwise.  A lock given up ends the streak as a lost one does.
GiveUp(c, s) ==
    LET r == req[c] IN
    /\ r.pc \in Writes
    /\ Idle(s)
    /\ req' = [req EXCEPT ![s] = r,
                          ![c] = [NoRequest EXCEPT !.status =
                                    IF r.pc \in {"loginRecord", "loginLock"} THEN 401 ELSE 500]]
    /\ streak' = IF r.pc = "loginLock" THEN [streak EXCEPT ![r.email] = 0] ELSE streak
    /\ UNCHANGED <<users, Tokens>>

\* An overdue statement executes, or fails, and no callback follows: the chain it
\* belonged to does not go on and nobody receives what it made.
Executes(s) ==
    /\ \/ RegisterCreate(s)
       \/ LoginRecord(s) \/ LoginLock(s) \/ LoginReset(s)
       \/ RefreshRevoke(s) \/ LogoutRevoke(s)
       \/ IssueTokens(s)
    /\ Idle(s)'
    /\ UNCHANGED <<held, access>>

\* The middleware stops.  Statements the server has begun may outlive it; those
\* still queued in the client die with it.
Stops ==
    /\ \E c \in Clients : ~Idle(c)
    /\ \E begun \in SUBSET Overdue :
         req' = [c \in Clients |-> IF c \in begun THEN req[c] ELSE NoRequest]
    /\ streak' = [e \in Emails |-> 0]
    /\ UNCHANGED <<users, Tokens>>

LateNext ==
    \/ \E c \in Connections :
          \/ Arrive(c) \/ Step(c)
          \/ \E s \in Overdue : GiveUp(c, s)
    \/ \E s \in Overdue : Executes(s)
    \/ Clock
    \/ Stops

LateSpec == LateInit /\ [][LateNext]_vars

-----------------------------------------------------------------------------
(* Properties.  Those of AuthService are checked of LateSpec too; where    *)
(* they count Clients, the bound now counts the overdue statements.        *)

\* However late an INSERT arrives, the tokens made for one refresh token are no
\* more than there are connections: a late revocation continues no exchange.
ExchangesBounded ==
    \A t \in RefreshTokens : Cardinality(Children(t)) <= Cardinality(Connections)

\* A late statement revives nothing: once a token is revoked no connection starts
\* to exchange it, and no session row returns to active.
RevokedIsFinal ==
    [][\A t \in RefreshTokens : sessions[t].state = "revoked" =>
          /\ sessions'[t].state = "revoked"
          /\ Connections \cap Exchangers(t)' \subseteq Exchangers(t)]_vars

\* A pair is issued, in time or late, only for an exchange whose revocation was
\* executed before it was sent, even if other revocations of the token are late.
IssuedAfterRevoked ==
    \A c \in Clients :
        Waits(c, "issueTokens") /\ req[c].token # Nil
            => sessions[req[c].token].state = "revoked"
=============================================================================
