SPECIFICATION AccessSpec
CONSTANTS
    Routes = {"register", "login", "logout"}
    RawEmails = {"alice", "Bob", "Carol"}
    Emails = {"alice", "bob", "carol"}
    Clients = {c1, s1}
    Overdue = {s1}
    RefreshTokens = {t1}
    MAX_FAILED_ATTEMPTS = 1
    normalizeEmail <- MCNormalizeEmail
    ValidEmails <- MCValidEmails
    Passwords <- OnePassword
    StrongPasswords <- MCStrong
    Strong = Strong
    Weak = Weak
    Nil = Nil
    c1 = c1
    s1 = s1
    t1 = t1
    AdminCalls = {a1}
    Backends = {b1}
    a1 = a1
    b1 = b1
VIEW AccessView
INVARIANTS
    RowsMadeByAdmins
    AdmittedHadSession
    UsableOutOfTheBox
    AdminsBounded
PROPERTY
    KeepsRegistry
