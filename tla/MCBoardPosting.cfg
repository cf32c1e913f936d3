SPECIFICATION FocusSpec
CONSTANTS
    b1 = b1
    b2 = b2
    a1 = a1
    x1 = x1
    Boards = {b1, b2}
    Actors = {a1, a2}
    Texts = {x1, x2}
    Writers = {w1, w2}
    Robot = {b1}
    Late = {b1}
    Archiving = {b2}
    ThreadLimit = 1
    ReplyLimit = 2
    AutoarchiveCap = 2
    CrossSeconds = 1
    MuteSeconds = 1
    TextSeconds = 0
    Nobody = Nobody
    NoText = NoText
    MaxNumber = 4
    MaxTime = 2
SYMMETRY WriterSymmetry
INVARIANTS
    PostingInv
    RepliesAreBounded
    RobotPostsAreOriginal
PROPERTIES
    NumbersFollowCommits
    PostOrMark
    ThreadsArePaced
    AdmittedAtCommit
CHECK_DEADLOCK FALSE
