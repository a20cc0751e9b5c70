--------------------------- MODULE MCAuthService ---------------------------
(***************************************************************************)
(* Small instances of AuthService.  Two spellings of one email, two more   *)
(* users, and an address isValidEmail rejects; a strong password, and one  *)
(* that is wrong for everybody because validatePassword rejects it.        *)
(***************************************************************************)
EXTENDS AuthService, TLC

CONSTANTS Strong, Weak

MCPasswords == {Strong, Weak}
OnePassword == {Strong}
MCStrong == {Strong}

MCNormalizeEmail ==
    [raw \in RawEmails |->
        CASE raw \in {"ALICE", "alice"} -> "alice"
          [] raw = "Bob" -> "bob"
          [] raw = "Carol" -> "carol"
          [] OTHER -> "malformed"]

MCValidEmails == Emails \ {"malformed"}

\* No action reads the status of the last answer.
View == <<users, sessions, [c \in Clients |-> [req[c] EXCEPT !.status = 0]],
          held, access, parent, streak>>
=============================================================================
