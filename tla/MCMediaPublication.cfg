SPECIFICATION PublicationSpec
CONSTANTS
    Jobs = {j1}
    Digests = {d1, d2}
    NoDigest = NoDigest
    Capacity = 1
    MaxAttempts = 2
    BatchLimit = 1
    Coordinators = {p1, p2}
    Reconciler = Reconciler
    Nobody = Nobody
SYMMETRY PublicationSymmetry
INVARIANTS
    PublicationInv
    ApprovedIsComplete
    NoUntrackedFile
    RemovalIsSafe
PROPERTY KeepsPromise
CHECK_DEADLOCK FALSE
