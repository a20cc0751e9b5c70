----------------------------- MODULE MCPipeline -----------------------------
(***************************************************************************)
(* A small instance of Pipeline: requests of one address, one of them with *)
(* script in a header and SQL only where no detector looks, the others     *)
(* clean.                                                                  *)
(***************************************************************************)
EXTENDS Pipeline

CONSTANTS plain, attack, Ip

MCAddress == [r \in Requests |-> Ip]
MCHits == [r \in Requests |-> IF r = attack THEN {<<"header", "XSS">>, <<"name", "SQLi">>}
                              ELSE {<<"skipped", "SQLi">>}]
MCContent == [r \in Requests |-> IF r = attack THEN "XSS" ELSE "safe"]
=============================================================================
