SPECIFICATION FairSpec
CONSTANTS
    Routes = {"register", "login", "refresh", "logout", "me"}
    RawEmails = {"ALICE", "alice", "junk"}
    Emails = {"alice", "malformed"}
    Clients = {c1, c2}
    RefreshTokens = {t1}
    MAX_FAILED_ATTEMPTS = 1
    normalizeEmail <- MCNormalizeEmail
    ValidEmails <- MCValidEmails
    Passwords <- MCPasswords
    StrongPasswords <- MCStrong
    Strong = Strong
    Weak = Weak
    Nil = Nil
    c1 = c1
    c2 = c2
    t1 = t1
PROPERTY
    RequestsAnswered
