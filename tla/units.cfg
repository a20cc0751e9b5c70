SPECIFICATION UnitsSpec
CONSTANTS
    Chars <- MCChars
    lowerCase <- MCLowerCase
    SQLI_PATTERNS <- MCSqli
    XSS_PATTERNS <- MCXss
    Skip <- MCSkip
    Messages <- MCMessages
    Blanks = {" "}
    Upper = {"A", "B"}
    Lower = {"a", "b"}
    Digits = {"1"}
    Signs = {"@", "."}
    folded <- MCFolded
    RawEmails <- MCRawEmails
    Passwords <- MCPasswords
    MAX_EMAIL = 6
    MIN_PASSWORD = 2
    MAX_PASSWORD = 3
    Base = 3
    SIZE = 2
    MaxTokens = 2
    digest <- MCDigest
    Calls = {c1, c2, c3}
    Nil = Nil
    c1 = c1
    c2 = c2
    c3 = c3
CHECK_DEADLOCK FALSE
INVARIANTS
    DetectionAgrees
    DetailIsFirst
    OneAccountPerAddress
    AnySpellingLogsIn
    TokensDiffer
    FindsItsSession
    OneService
    OneVerdict
PROPERTY
    CallsEnd
