SPECIFICATION LateSpec
CONSTANTS
    Routes = {"register", "login", "refresh", "logout"}
    RawEmails = {"alice"}
    Emails = {"alice"}
    Clients = {c1, c2, s1}
    Overdue = {s1}
    RefreshTokens = {t1, t2, t3}
    MAX_FAILED_ATTEMPTS = 1
    normalizeEmail <- MCNormalizeEmail
    ValidEmails <- MCValidEmails
    Passwords <- OnePassword
    StrongPasswords <- MCStrong
    Strong = Strong
    Weak = Weak
    Nil = Nil
    c1 = c1
    c2 = c2
    s1 = s1
    t1 = t1
    t2 = t2
    t3 = t3
SYMMETRY LateSymmetry
VIEW View
INVARIANTS
    IssuedAfterRevoked
PROPERTY
    RevokedIsFinal
    KeepsAccounts
