SPECIFICATION FairPublicationSpec
CONSTANTS
    Jobs = {j1}
    Digests = {d1}
    NoDigest = NoDigest
    Capacity = 1
    MaxAttempts = 1
    BatchLimit = 1
    Coordinators = {p1}
    Reconciler = Reconciler
    Nobody = Nobody
PROPERTY ReservationsEnd
CHECK_DEADLOCK FALSE
