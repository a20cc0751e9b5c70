---------------------------- MODULE MCScanRoute ----------------------------
(***************************************************************************)
(* A small instance of ScanRoute: scans from one address, one of them      *)
(* clean but for what detectors are not given, one that both detectors     *)
(* match, and one without a body.                                          *)
(***************************************************************************)
EXTENDS ScanRoute

CONSTANTS clean, both, empty, Ip

MCAddress == [s \in Scans |-> Ip]

MCHits ==
    [s \in Scans |->
        CASE s = clean -> {<<"skipped", "SQLi">>, <<"name", "XSS">>}
          [] s = both -> {<<"query", "XSS">>, <<"body", "SQLi">>}
          [] OTHER -> {}]

MCMalformed == Scans \cap {empty}
=============================================================================
