SPECIFICATION FairIntakeSpec
CONSTANTS
    Jobs = {j1}
    Digests = {d1}
    NoDigest = NoDigest
    Capacity = 1
    MaxAttempts = 2
    BatchLimit = 1
    Receivers = {u1, u2, u3}
    NoBytes = NoBytes
    NoJob = NoJob
INVARIANTS
    IntakeInv
    InputIsDescribed
    NoOrphanFile
PROPERTIES
    InputIsOfferedOnce
    FilesGo
CHECK_DEADLOCK FALSE
