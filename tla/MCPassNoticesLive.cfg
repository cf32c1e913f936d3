SPECIFICATION NoticeLive
CONSTANTS
    Accounts = {a1}
    Requests = {r1}
    Mailers = {m1, m2}
    Nobody = Nobody
    NoNotice = NoNotice
    MaxTerms = 1
    MaxVersions = 1
    MaxAttempts = 2
    OutboxLimit = 1
PROPERTIES
    LeaseIsKept
    ExpiryIsSettled
CHECK_DEADLOCK FALSE
