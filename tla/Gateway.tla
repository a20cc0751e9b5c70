------------------------------ MODULE Gateway ------------------------------
(***************************************************************************)
(* What the proxy promises of a request to /proxy: it reaches a backend at *)
(* most once, and only if its content is safe; one that the proxy refuses  *)
(* or blocks never does; a backend's answer is passed on only after the    *)
(* request arrived; and the proxy's own 502, or a connection that breaks,  *)
(* leaves open whether it did.  Whose answer it is cannot be told by its   *)
(* status.  It says nothing about keys, the database or timeouts.          *)
(***************************************************************************)
CONSTANTS
    Requests,
    content     \* "safe", "SQLi" or "XSS"

VARIABLES
    fate,       \* "pending", how the request was answered, or the attack it was blocked for
    arrived     \* the requests a backend has received

gatewayVars == <<fate, arrived>>

GatewayInit ==
    /\ fate = [r \in Requests |-> "pending"]
    /\ arrived = {}

Settle(r, f) == fate[r] = "pending" /\ fate' = [fate EXCEPT ![r] = f]

Refuse(r) == r \notin arrived /\ Settle(r, "refused") /\ UNCHANGED arrived

Block(r) ==
    /\ r \notin arrived
    /\ \E attack \in {content[r], "RateLimit"} \ {"safe"} : Settle(r, attack)
    /\ UNCHANGED arrived

Arrive(r) ==
    /\ content[r] = "safe"
    /\ fate[r] \in {"pending", "unknown"}
    /\ r \notin arrived
    /\ arrived' = arrived \cup {r}
    /\ UNCHANGED fate

PassOn(r) == r \in arrived /\ Settle(r, "answered") /\ UNCHANGED arrived

\* Many at once when the process stops.
GiveUp(R) ==
    /\ \A r \in R : fate[r] = "pending"
    /\ fate' = [r \in Requests |-> IF r \in R THEN "unknown" ELSE fate[r]]
    /\ UNCHANGED arrived

GatewayNext ==
    \/ \E r \in Requests : Refuse(r) \/ Block(r) \/ Arrive(r) \/ PassOn(r)
    \/ \E R \in SUBSET Requests : GiveUp(R)

GatewaySpec == GatewayInit /\ [][GatewayNext]_gatewayVars
=============================================================================
