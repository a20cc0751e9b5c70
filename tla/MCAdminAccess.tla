--------------------------- MODULE MCAdminAccess ---------------------------
(***************************************************************************)
(* A small instance of AdminAccess: the emails and passwords of            *)
(* MCAuthService, so that one user may be an admin and another may not.    *)
(***************************************************************************)
EXTENDS AdminAccess, MCAuthLate

\* No action reads the status of the last answer of AuthService.
AccessView == <<View, registryVars, by>>
=============================================================================
