SPECIFICATION LateSpec
CONSTANTS
    Routes = {"register", "login"}
    RawEmails = {"alice"}
    Emails = {"alice"}
    Clients = {c1, c2, c3, s1}
    Overdue = {s1}
    RefreshTokens = {t1}
    MAX_FAILED_ATTEMPTS = 2
    normalizeEmail <- MCNormalizeEmail
    ValidEmails <- MCValidEmails
    Passwords <- MCPasswords
    StrongPasswords <- MCStrong
    Strong = Strong
    Weak = Weak
    Nil = Nil
    c1 = c1
    c2 = c2
    s1 = s1
    c3 = c3
    t1 = t1
SYMMETRY LateSymmetry
INVARIANTS
    LockoutBounded
    ThresholdLeadsToLock
PROPERTY
    FirstRegistrationWins
