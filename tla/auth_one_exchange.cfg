SPECIFICATION Spec
CONSTANTS
    Routes = {"register", "login", "refresh"}
    RawEmails = {"alice"}
    Emails = {"alice"}
    Clients = {c1, c2}
    RefreshTokens = {t1, t2, t3}
    MAX_FAILED_ATTEMPTS = 2
    normalizeEmail <- MCNormalizeEmail
    ValidEmails <- MCValidEmails
    Passwords <- MCPasswords
    StrongPasswords <- MCStrong
    Strong = Strong
    Weak = Weak
    Nil = Nil
    c1 = c1
    c2 = c2
    t1 = t1
    t2 = t2
    t3 = t3
INVARIANT
    OneExchangePerToken
