SPECIFICATION NoticeSpec
CONSTANTS
    Accounts = {a1}
    Requests = {r1, r2}
    Mailers = {m1}
    Nobody = Nobody
    NoNotice = NoNotice
    MaxTerms = 2
    MaxVersions = 2
    MaxAttempts = 1
    OutboxLimit = 2
SYMMETRY NoticeSymmetry
INVARIANTS
    NoticeInv
PROPERTY ExpiryIsAnnounced
CHECK_DEADLOCK FALSE
