--------------------------- MODULE ScanContract ---------------------------
(***************************************************************************)
(* What POST /api/security/scan promises its caller: a scan is answered at *)
(* most once, with the first of SQLi and XSS its content has, with "safe"  *)
(* when it has neither, or with "RateLimit" whatever its content is.       *)
(* It says nothing about Redis, timers or the log.                         *)
(***************************************************************************)
CONSTANTS
    Scans,
    verdict     \* the outcome of detection for each scan, "400" if it has no body

VARIABLE reply

Allowed(s) == IF verdict[s] = "400" THEN {"400"} ELSE {verdict[s], "RateLimit"}

ContractInit == reply = [s \in Scans |-> "none"]

AnswerScan(s) ==
    /\ reply[s] = "none"
    /\ \E v \in Allowed(s) : reply' = [reply EXCEPT ![s] = v]

ContractNext == \E s \in Scans : AnswerScan(s)

ContractSpec == ContractInit /\ [][ContractNext]_reply
=============================================================================
