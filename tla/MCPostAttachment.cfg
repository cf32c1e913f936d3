SPECIFICATION FocusSpec
CONSTANTS
    t1 = t1
    t2 = t2
    t3 = t3
    b1 = b1
    b2 = b2
    u1 = u1
    u2 = u2
    r1 = r1
    r2 = r2
    Uploads = {u1, u2}
    Threads = {t1, t2, t3}
    Replies = {r1, r2}
    BoardOf <- ThreeThreads
    Writers = {w1, w2}
    Reconciler = rec
    ImageLimit = 1
    SwitchedBoards = {b2}
    None = None
SYMMETRY WriterSymmetry
INVARIANTS
    AttachmentInv
    AttachedOnce
    ShownFilesKept
PROPERTIES
    AttachedIsUsable
    PublicLimit
CHECK_DEADLOCK FALSE
