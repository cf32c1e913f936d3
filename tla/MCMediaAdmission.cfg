SPECIFICATION FairAdmissionSpec
CONSTANTS
    Jobs = {j1, j2}
    Digests = {d1}
    NoDigest = NoDigest
    Capacity = 1
    MaxAttempts = 3
    BatchLimit = 2
    Clients = {c1, c2}
    NoClient = NoClient
INVARIANTS
    AdmissionInv
PROPERTIES
    PublishedIsFinal
    ReservationsSettle
    ReservationIsAtomic
CHECK_DEADLOCK FALSE
