------------------------------ MODULE Accounts ------------------------------
(***************************************************************************)
(* What the authentication service promises of the accounts, the sessions  *)
(* and the tokens it hands out.  An account is made once, for a valid      *)
(* address and with a strong password, the first one for an admin, and     *)
(* never changes.  A session is opened for an account, or in exchange for  *)
(* a token that was handed out, belongs to the same user and is revoked by *)
(* then; its tokens are handed out as it is opened or never.  Only a token *)
(* that was handed out can be revoked, and it stays revoked.               *)
(*                                                                         *)
(* It says nothing of requests, of their statements, of locks and of time: *)
(* any number of exchanges of one token may be under way.                  *)
(***************************************************************************)
CONSTANTS Emails, ValidEmails, StrongPasswords, RefreshTokens, Nil

VARIABLES
    role, password,        \* the account of each email, role "none" when there is none
    user, state, parent,   \* the session of each refresh token
    held,                  \* the refresh tokens that were handed out
    access                 \* the claims of the access tokens in circulation

account == <<role, password>>
session == <<user, state, parent>>
handed == <<held, access>>
accountsVars == <<account, session, handed>>

Has(e) == role[e] # "none"

AccountsInit ==
    /\ role = [e \in Emails |-> "none"]
    /\ password = [e \in Emails |-> Nil]
    /\ user = [t \in RefreshTokens |-> Nil]
    /\ state = [t \in RefreshTokens |-> "absent"]
    /\ parent = [t \in RefreshTokens |-> Nil]
    /\ held = {}
    /\ access = {}

CreateAccount(e) ==
    /\ ~Has(e)
    /\ e \in ValidEmails
    /\ \E r \in {"admin", "user"} :
         /\ (\A other \in Emails : ~Has(other)) => r = "admin"
         /\ role' = [role EXCEPT ![e] = r]
    /\ \E pw \in StrongPasswords : password' = [password EXCEPT ![e] = pw]
    /\ UNCHANGED <<session, handed>>

\* For user e after a login (p = Nil), or in exchange for p.
Entitled(e, p) == Has(e) /\ (p # Nil => state[p] = "revoked" /\ user[p] = e)

OpenSession(t) ==
    /\ state[t] = "absent"
    /\ state' = [state EXCEPT ![t] = "active"]
    /\ \E e \in Emails, p \in held \cup {Nil} :
         /\ Entitled(e, p)
         /\ user' = [user EXCEPT ![t] = e]
         /\ parent' = [parent EXCEPT ![t] = p]
         /\ \/ /\ held' = held \cup {t}
               /\ access' = access \cup {[user |-> e, role |-> role[e]]}
            \/ UNCHANGED handed
    /\ UNCHANGED account

RevokeSession(t) ==
    /\ t \in held
    /\ state[t] = "active"
    /\ state' = [state EXCEPT ![t] = "revoked"]
    /\ UNCHANGED <<account, user, parent, handed>>

ExpireClaim(claim) ==
    /\ access' = access \ {claim}
    /\ UNCHANGED <<account, session, held>>

AccountsNext ==
    \/ \E e \in Emails : CreateAccount(e)
    \/ \E t \in RefreshTokens : OpenSession(t) \/ RevokeSession(t)
    \/ \E claim \in access : ExpireClaim(claim)

AccountsSpec == AccountsInit /\ [][AccountsNext]_accountsVars
=============================================================================
