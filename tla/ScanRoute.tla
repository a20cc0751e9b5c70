----------------------------- MODULE ScanRoute -----------------------------
(***************************************************************************)
(* POST /api/security/scan: ScanRoute over RateLimiter, the two detectors  *)
(* and SecurityLogRepository.                                              *)
(*                                                                         *)
(* Everything after the rate limit happens inside the callback that        *)
(* checkBlocked runs: detection, the INSERT of a log row (sent, never      *)
(* waited for) and the response.  So a step of the limiter that runs the   *)
(* callback of s is one step with Conclude(s).                             *)
(*                                                                         *)
(* What a request contains is abstracted to where it matches which kind of *)
(* pattern.  "header" stands for the headers isScannableHeader accepts,    *)
(* "skipped" for those on its list, "name" for the names of parameters and *)
(* headers, which no detector is given.                                    *)
(***************************************************************************)
EXTENDS RateLimiter

CONSTANTS
    hits,         \* scan -> the <<location, kind>> pairs its content matches
    malformed     \* the scans without a JSON body

Locations == {"path", "query", "body", "header", "skipped", "name"}
Kinds == {"SQLi", "XSS"}

ASSUME ScanAssumption ==
    /\ hits \in [Scans -> SUBSET (Locations \X Kinds)]
    /\ malformed \subseteq Scans

VARIABLES
    reply,        \* the attack_type answered; "safe" and "400" for the others
    inserting,    \* log rows whose INSERT is on its way
    rows          \* the table security_logs

vars == <<limiterVars, reply, inserting, rows>>
outputs == <<reply, inserting, rows>>

Attacks == Kinds \cup {"RateLimit"}
Row == [scan: Scans, attack: Attacks]

Scanned == {"path", "query", "body", "header"}

Detects(kind, s) == \E l \in Scanned : <<l, kind>> \in hits[s]

\* The first detector that fires decides.
Detection(s) ==
    CASE Detects("SQLi", s) -> "SQLi"
      [] ~Detects("SQLi", s) /\ Detects("XSS", s) -> "XSS"
      [] OTHER -> "safe"

\* Mutation: a rate limiter that failed open ends the scan.
VerdictFailOpen(s) ==
    CASE scan'[s].blocked -> "RateLimit"
      [] scan'[s].by \in {"timer", "error"} -> "safe"
      [] OTHER -> Detection(s)

\* What the callback makes of its argument.
Verdict(s) == IF scan'[s].blocked THEN "RateLimit" ELSE Detection(s)

\* The INSERT is sent; main creates the database client before the server runs.
Log(s, attack) == inserting' = inserting \cup {[scan |-> s, attack |-> attack]}

\* Only the first response reaches the caller.
Respond(s, v) ==
    reply' = IF reply[s] = "none" THEN [reply EXCEPT ![s] = v] ELSE reply

ScanInit ==
    /\ LimiterInit
    /\ reply = [s \in Scans |-> "none"]
    /\ inserting = {}
    /\ rows = {}

-----------------------------------------------------------------------------

\* A scan without a JSON body never reaches the rate limiter.
RejectMalformed(s) ==
    /\ s \in malformed
    /\ reply[s] = "none"
    /\ Respond(s, "400")
    /\ UNCHANGED <<limiterVars, inserting, rows>>

\* Mutation: safe requests are logged too.
ConcludeLogsAll(s) ==
    LET v == Verdict(s) IN
    /\ IF scan'[s].calls = scan[s].calls
       THEN UNCHANGED <<reply, inserting>>
       ELSE Respond(s, v) /\ Log(s, v)
    /\ UNCHANGED rows

\* The callback given to checkBlocked, if this step of the limiter runs it.
Conclude(s) ==
    LET v == Verdict(s) IN
    /\ IF scan'[s].calls = scan[s].calls
       THEN UNCHANGED <<reply, inserting>>
       ELSE /\ Respond(s, v)
            /\ IF v \in Attacks THEN Log(s, v) ELSE UNCHANGED inserting
    /\ UNCHANGED rows

RunScan(s) ==
    /\ s \notin malformed
    /\ Handler(s)
    /\ Conclude(s)

RowStored(r) ==
    /\ r \in inserting
    /\ inserting' = inserting \ {r}
    /\ rows' = rows \cup {r}
    /\ UNCHANGED <<limiterVars, reply>>

\* The error callback writes to the log file.
RowLost(r) ==
    /\ r \in inserting
    /\ inserting' = inserting \ {r}
    /\ UNCHANGED <<limiterVars, reply, rows>>

ScanNext ==
    \/ \E s \in Scans : RejectMalformed(s) \/ RunScan(s)
    \/ \E r \in inserting : RowStored(r) \/ RowLost(r)
    \/ Redis /\ UNCHANGED outputs
    \/ EngineStops /\ UNCHANGED outputs

ScanSpec == ScanInit /\ [][ScanNext]_vars

\* The event loop runs its timers, and with them the callbacks; Redis owes nobody
\* an answer.
FairScanSpec == ScanSpec /\ \A s \in Scans : WF_vars(TimerFires(s) /\ Conclude(s))

-----------------------------------------------------------------------------
(* Properties.                                                             *)

\* Replies, INSERTs and rows have their types.
ScanTypeOK ==
    /\ LimiterTypeOK
    /\ reply \in [Scans -> Attacks \cup {"none", "safe", "400"}]
    /\ inserting \subseteq Row
    /\ rows \subseteq Row

\* The log never says of a scan what its caller was not told: a row, stored or on
\* its way, carries the attack_type of the one response, though the INSERT is sent
\* before it and the reply, the error and the timer race to run the callback.
RowsAgree == \A r \in inserting \cup rows : reply[r.scan] = r.attack

Contract == INSTANCE ScanContract WITH
    verdict <- [s \in Scans |-> IF s \in malformed THEN "400" ELSE Detection(s)]

\* The scan endpoint keeps its contract: in particular a limiter that fails open
\* skips the limit and never the detectors.
KeepsContract == Contract!ContractSpec
=============================================================================
