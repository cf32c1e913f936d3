SPECIFICATION AttachmentSpec
CONSTANTS
    Uploads = {u1}
    u1 = u1
    u2 = u2
    r1 = r1
    r2 = r2
    t1 = t1
    t2 = t2
    t3 = t3
    b1 = b1
    b2 = b2
    Threads = {t1, t2}
    Replies = {r1}
    BoardOf <- TwoBoards
    Writers = {w1, w2}
    Reconciler = rec
    ImageLimit = 1
    SwitchedBoards = {b2}
    None = None
INVARIANTS
    RetainedArchivesKept
CHECK_DEADLOCK FALSE
