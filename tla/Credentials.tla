---------------------------- MODULE Credentials ----------------------------
(***************************************************************************)
(* What clients type and what the middleware makes of it: normalizeEmail,  *)
(* isValidEmail and validatePassword, with the registrations and logins    *)
(* that use them.  AuthService.tla is given these three as constants (a    *)
(* function and two sets); there the requests interleave, here they come   *)
(* one at a time and the texts have characters.                            *)
(***************************************************************************)
EXTENDS Naturals, Sequences, FiniteSetsExt

CONSTANTS
    Blanks, Upper, Lower, Digits, Signs,     \* the characters
    folded,                            \* tolower: Upper -> Lower
    RawEmails, Passwords,             \* sequences of characters
    MAX_EMAIL, MIN_PASSWORD, MAX_PASSWORD

Characters == Blanks \cup Upper \cup Lower \cup Digits \cup Signs

ASSUME CredentialsAssumption ==
    /\ folded \in [Upper -> Lower]
    /\ Blanks \cap (Upper \cup Lower) = {}
    /\ RawEmails \subseteq Seq(Characters)
    /\ MAX_EMAIL \in Nat
    /\ MIN_PASSWORD \in Nat \ {0}
    /\ MAX_PASSWORD \in Nat

VARIABLES
    accounts,   \* the table users; history: the email as it was typed
    answer      \* the last request and its status

credentialVars == <<accounts, answer>>

-----------------------------------------------------------------------------

Fold(c) == IF c \in Upper THEN folded[c] ELSE c

\* What notSpace is true of; the two calls of find_if stop at the first and the last.
Solid(raw) == {i \in DOMAIN raw : raw[i] \notin Blanks}

\* Mutation: the case is kept.
NormalizeEmailCase(raw) ==
    IF Solid(raw) = {} THEN <<>> ELSE SubSeq(raw, Min(Solid(raw)), Max(Solid(raw)))

NormalizeEmail(raw) ==
    LET first == Min(Solid(raw))
        last == Max(Solid(raw))
    IN  IF Solid(raw) = {} THEN <<>>
        ELSE [i \in 1..(last - first + 1) |-> Fold(raw[i + first - 1])]

\* ^[^@\s]+@[^@\s]+\.[^@\s]+$
IsValidEmail(email) ==
    /\ Len(email) <= MAX_EMAIL
    /\ \A i \in DOMAIN email : email[i] \notin Blanks
    /\ \E at \in DOMAIN email :
         /\ \A i \in DOMAIN email : email[i] = "@" <=> i = at
         /\ at > 1
         /\ \E dot \in (at + 2)..(Len(email) - 1) : email[dot] = "."

ValidatePassword(password) ==
    /\ Len(password) \in MIN_PASSWORD..MAX_PASSWORD
    /\ \E i \in DOMAIN password : password[i] \in Upper \cup Lower
    /\ \E i \in DOMAIN password : password[i] \in Digits

Answer(route, raw, password, status) ==
    answer' = [route |-> route, raw |-> raw, password |-> password, status |-> status]

FindByEmail(email) == {a \in accounts : a.email = email}

Register(raw, password) ==
    LET email == NormalizeEmail(raw) IN
    \/ /\ ~IsValidEmail(email) \/ ~ValidatePassword(password)
       /\ Answer("register", raw, password, 400)
       /\ UNCHANGED accounts
    \/ /\ IsValidEmail(email) /\ ValidatePassword(password)
       /\ IF FindByEmail(email) # {}
          THEN Answer("register", raw, password, 409) /\ UNCHANGED accounts
          ELSE /\ accounts' = accounts \cup
                    {[email |-> email, typed |-> raw, password |-> password]}
               /\ Answer("register", raw, password, 201)

\* Mutation: the email is looked up as typed.
LoginVerbatim(raw, password) ==
    /\ Answer("login", raw, password,
              IF \E a \in FindByEmail(raw) : a.password = password THEN 200 ELSE 401)
    /\ UNCHANGED accounts

\* login validates neither: what does not exist is not found.
Login(raw, password) ==
    /\ Answer("login", raw, password,
              IF \E a \in FindByEmail(NormalizeEmail(raw)) : a.password = password
              THEN 200 ELSE 401)
    /\ UNCHANGED accounts

CredentialInit ==
    /\ accounts = {}
    /\ answer = [route |-> "none", raw |-> <<>>, password |-> <<>>, status |-> 0]

CredentialNext == \E raw \in RawEmails, password \in Passwords :
            Register(raw, password) \/ Login(raw, password)

CredentialSpec == CredentialInit /\ [][CredentialNext]_credentialVars

-----------------------------------------------------------------------------
(* Properties.                                                             *)

\* raw without some of the blanks around it.
Trimmings(raw) ==
    {SubSeq(raw, p[1], p[2]) : p \in
        {q \in (1..(Len(raw) + 1)) \X (0..Len(raw)) :
            \A k \in DOMAIN raw : raw[k] \in Blanks \/ k \in q[1]..q[2]}}

\* Two spellings are of one address if they differ by surrounding blanks and case.
SameAddress(a, b) ==
    \E x \in Trimmings(a), y \in Trimmings(b) :
        Len(x) = Len(y) /\ \A i \in DOMAIN x : Fold(x[i]) = Fold(y[i])

\* An address has one account, however it is spelt, and one that is free can be
\* registered: 409 means that the address is taken, not that one like it is.
OneAccountPerAddress ==
    /\ \A a, b \in accounts : SameAddress(a.typed, b.typed) => a = b
    /\ answer.status = 409 => \E a \in accounts : SameAddress(a.typed, answer.raw)

\* A login succeeds exactly with the password of the account of its address,
\* though registration validates and login does not, and each normalizes for itself.
AnySpellingLogsIn ==
    answer.route = "login" =>
        (answer.status = 200 <=>
            \E a \in accounts : SameAddress(a.typed, answer.raw) /\ a.password = answer.password)
=============================================================================
