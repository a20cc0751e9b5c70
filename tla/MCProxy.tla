------------------------------ MODULE MCProxy ------------------------------
(***************************************************************************)
(* A small instance of Proxy: one request with an attack in it, the others *)
(* safe.                                                                   *)
(***************************************************************************)
EXTENDS Proxy

CONSTANTS plain, attack

MCContent == [r \in Requests |-> IF r = attack THEN "SQLi" ELSE "safe"]
=============================================================================
