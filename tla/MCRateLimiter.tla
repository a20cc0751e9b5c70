--------------------------- MODULE MCRateLimiter ---------------------------
(***************************************************************************)
(* Small instances of RateLimiter: every scan is about one address, so all *)
(* of them meet on its key.                                                *)
(***************************************************************************)
EXTENDS RateLimiter

CONSTANT Ip

MCAddress == [s \in Scans |-> Ip]
=============================================================================
