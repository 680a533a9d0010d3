SPECIFICATION FairSpec
CONSTANTS
    Emails = {e1}
    Accounts = {a1, a2}
    LoginTokens = {t1, t2}
    SessionTokens = {s1, s2}
    Requests = {p1, p2}
    None = None
    LoginTtl = 1
    SessionTtl = 1
    Limit <- MCLimit
    Batch = 2
    MaxTime = 1
    MaxRequests = 4
INVARIANTS
    TokenOnce
    OwnAccountOnly
    NewestOnly
    ExpiryIndexed
PROPERTIES
    PurgesExpiredOnly
    ExpiredGo
