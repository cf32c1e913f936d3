------------------------ MODULE PostAttachmentProofs ------------------------
(***************************************************************************)
(* Why an upload is used once, a cancellation is final and no post loses   *)
(* or misses its file: the transaction that inserted an attachment holds   *)
(* the lock of its job, behind which nothing that it checked can change,   *)
(* and retirement decides behind the same lock.                            *)
(***************************************************************************)
EXTENDS PostAttachment, FiniteSetTheorems, TLAPS

-----------------------------------------------------------------------------
LEMMA InitAttachmentInv == AttachmentInit => AttachmentInv
  BY AttachmentAssumption
  DEF AttachmentInit, AttachmentInv, AttachmentTypeOK, PlaceInv, PolicyInv, JobInv, WriterInv,
      WriterOK, ReconcilerInv, FileInv, AttachedOnce, NoTx, Sessions, Boards, Steps

SessionEnds(s) ==
    /\ tx'[s] = NoTx /\ step'[s] = "idle"
    /\ \A r \in Sessions : r # s => tx'[r] = tx[r] /\ step'[r] = step[r]
    /\ \A u \in Uploads : jobLock[u] # s => jobLock'[u] = jobLock[u]
    /\ boardLock' \in [Boards -> Sessions \cup {None}]
    /\ jobLock' \in [Uploads -> Sessions \cup {None}]
    /\ step' \in [Sessions -> Steps]
    /\ tx' \in [Sessions -> [upload : Uploads \cup {None}, post : Posts \cup {None},
                             thread : Threads \cup {None}, authorized : BOOLEAN]]

\* A session that ends its transaction leaves all others alone.
LEMMA ReleaseFrees ==
  ASSUME AttachmentTypeOK, NEW s \in Sessions, Release(s)
  PROVE  SessionEnds(s)
  BY DEF SessionEnds, Release, AttachmentTypeOK, NoTx, Steps

\* A posting takes threads out of the index or deletes them; it brings none
\* back, and opens no thread but its own.
LEMMA ThreadsAfterPost ==
  ASSUME AttachmentTypeOK, NEW p, NEW t \in Threads, NEW after \in ThreadsAfter(p, t),
         (thread[t] = "absent") <=> (p = t)
  PROVE  /\ after \in [Threads -> {"absent", "active", "archived", "expired", "deleted"}]
         /\ \A x \in Threads : (after[x] = "absent") <=> (thread[x] = "absent" /\ x # t)
         /\ \A x \in Threads : thread[x] \in {"expired", "deleted"} => after[x] \in {"expired", "deleted"}
  <1>1. CASE p = t
    <2>1. PICK left \in SUBSET {x \in Threads : BoardOf[x] = BoardOf[t] /\ thread[x] = "active" /\ ~pinned[x]} :
             after = [RoomMade(BoardOf[t], left) EXCEPT ![t] = "active"]
      BY <1>1 DEF ThreadsAfter
    <2>2. QED
      BY <1>1, <2>1 DEF AttachmentTypeOK, RoomMade
  <1>2. CASE p # t
    <2>1. after = thread \/ (thread[t] = "active" /\ after = [thread EXCEPT ![t] = "archived"])
      BY <1>2 DEF ThreadsAfter
    <2>2. QED
      BY <1>2, <2>1 DEF AttachmentTypeOK
  <1>3. QED
    BY <1>1, <1>2

\* A writer locks a board.
LEMMA BeginPostKeeps ==
  ASSUME AttachmentInv, NEW s \in Writers, NEW u \in Uploads, NEW t \in Threads, NEW p \in Posts,
         NEW authorized \in BOOLEAN, BeginPost(s, u, p, t, authorized)
  PROVE  AttachmentInv'
  <1> USE AttachmentAssumption DEF mediaVars, contentVars, policyVars, txVars, Sessions, Steps, BeginPost, Posts, Start, Idle, Free, Boards
  <1>1. AttachmentTypeOK'
    BY DEF AttachmentInv, AttachmentTypeOK
  <1>2. PlaceInv' /\ PolicyInv' /\ JobInv'
    BY DEF AttachmentInv, AttachmentTypeOK, PlaceInv, PolicyInv, JobInv
  <1>3. WriterInv'
    BY DEF AttachmentInv, AttachmentTypeOK, WriterInv, WriterOK, Target, Checked, Consumed
  <1>4. ReconcilerInv'
    BY DEF AttachmentInv, AttachmentTypeOK, ReconcilerInv, GoneForGood
  <1>5. FileInv' /\ AttachedOnce'
    BY DEF AttachmentInv, AttachmentTypeOK, FileInv, GoneForGood, AttachedOnce
  <1>6. QED
    BY <1>1, <1>2, <1>3, <1>4, <1>5 DEF AttachmentInv

\* A writer locks the job and checks.
LEMMA InsertKeeps ==
  ASSUME AttachmentInv, NEW s \in Writers, InsertAttachment(s)
  PROVE  AttachmentInv'
  <1> USE AttachmentAssumption DEF mediaVars, contentVars, policyVars, txVars, Sessions, Steps, InsertAttachment, Usable, LockJob
  <1>1. AttachmentTypeOK'
    BY DEF AttachmentInv, AttachmentTypeOK
  <1>2. PlaceInv' /\ PolicyInv' /\ JobInv'
    BY DEF AttachmentInv, AttachmentTypeOK, PlaceInv, PolicyInv, JobInv
  <1>3. WriterInv'
    BY DEF AttachmentInv, AttachmentTypeOK, WriterInv, WriterOK, Target, Checked, Consumed
  <1>4. ReconcilerInv'
    BY DEF AttachmentInv, AttachmentTypeOK, ReconcilerInv, GoneForGood
  <1>5. FileInv' /\ AttachedOnce'
    BY DEF AttachmentInv, AttachmentTypeOK, FileInv, GoneForGood, AttachedOnce
  <1>6. QED
    BY <1>1, <1>2, <1>3, <1>4, <1>5 DEF AttachmentInv

\* What was checked under the lock holds when it commits.
LEMMA CommitPostKeeps ==
  ASSUME AttachmentInv, NEW s \in Writers, CommitPost(s)
  PROVE  AttachmentInv'
  <1> DEFINE p == tx[s].post
             t == tx[s].thread
             u == tx[s].upload
  <1> USE AttachmentAssumption DEF mediaVars, contentVars, policyVars, txVars, Posts, Sessions, Boards
  <1>0. SessionEnds(s)
    BY ReleaseFrees DEF AttachmentInv, CommitPost
  <1>1. /\ p \in Posts /\ t \in Threads /\ u \in Uploads
        /\ place[p] = None /\ media[p] = None /\ (p \in Threads => p = t)
        /\ (thread[t] = "absent") <=> (p = t)
        /\ \A r \in Sessions : r # s => tx[r].post # p
        /\ jobLock[u] = s /\ job[u] = "published" /\ asset[u] = "approved" /\ ~Consumed(u)
    BY DEF AttachmentInv, WriterInv, WriterOK, Target, Checked, CommitPost, PlaceInv
  <1>2. /\ place' = [place EXCEPT ![p] = t] /\ media' = [media EXCEPT ![p] = u]
        /\ thread' \in ThreadsAfter(p, t)
        /\ UNCHANGED <<mediaVars, pinned, text, fileDeleted, policyVars>>
    BY DEF CommitPost
  <1>t. /\ thread' \in [Threads -> {"absent", "active", "archived", "expired", "deleted"}]
        /\ \A x \in Threads : (thread'[x] = "absent") <=> (thread[x] = "absent" /\ x # t)
        /\ \A x \in Threads : thread[x] \in {"expired", "deleted"} => thread'[x] \in {"expired", "deleted"}
    BY <1>1, <1>2, ThreadsAfterPost DEF AttachmentInv
  <1>3. AttachmentTypeOK'
    BY <1>0, <1>1, <1>2, <1>t DEF SessionEnds, AttachmentInv, AttachmentTypeOK
  <1>4. /\ place'[p] = t /\ media'[p] = u
        /\ \A q \in Posts : q # p => place'[q] = place[q] /\ media'[q] = media[q]
        /\ \A x \in Threads : (thread'[x] = "absent") <=> (thread[x] = "absent" /\ x # t)
        /\ \A x \in Threads : thread[x] \in {"expired", "deleted"} => thread'[x] \in {"expired", "deleted"}
    <2>1. place \in [Posts -> Threads \cup {None}] /\ media \in [Posts -> Uploads \cup {None}]
      BY DEF AttachmentInv, AttachmentTypeOK
    <2>2. QED
      BY <1>1, <1>2, <1>t, <2>1
  <1>5. PlaceInv' /\ PolicyInv' /\ JobInv'
    <2>1. ASSUME NEW q \in Posts, q # p
          PROVE  /\ place'[q] = None => media'[q] = None
                 /\ place'[q] # None => thread'[place'[q]] # "absent"
                 /\ q \in Threads => place'[q] \in {None, q}
      BY <2>1, <1>4 DEF AttachmentInv, AttachmentTypeOK, PlaceInv
    <2>2. place'[p] # None /\ thread'[place'[p]] # "absent" /\ (p \in Threads => place'[p] = p)
      BY <1>1, <1>4
    <2>3. PolicyInv' /\ JobInv'
      BY <1>2 DEF AttachmentInv, PolicyInv, JobInv
    <2>4. QED
      BY <2>1, <2>2, <2>3 DEF PlaceInv
  <1>6. ASSUME NEW q \in Posts, q # p, media[q] # None, GoneForGood(q) PROVE GoneForGood(q)'
    BY <1>1, <1>2, <1>4, <1>6 DEF AttachmentInv, AttachmentTypeOK, PlaceInv, GoneForGood
  <1>7. WriterInv'
    <2>1. ASSUME NEW r \in Writers, r # s PROVE WriterOK(r)'
      <3>1. /\ tx'[r] = tx[r] /\ step'[r] = step[r] /\ WriterOK(r)
            /\ \A v \in Uploads : jobLock[v] = r => jobLock'[v] = r
        BY <1>0, <2>1 DEF SessionEnds, AttachmentInv, WriterInv
      <3>2. ASSUME Target(r) PROVE Target(r)'
        <4>1. /\ tx[r].upload \in Uploads /\ tx[r].post \in Posts /\ tx[r].thread \in Threads
              /\ tx[r].post # p
          BY <1>1, <2>1, <3>2 DEF Target
        <4>2. place'[tx[r].post] = None
          BY <1>4, <4>1, <3>2 DEF Target
        <4>3. (thread'[tx[r].thread] = "absent") <=> (tx[r].post = tx[r].thread)
          <5>1. CASE tx[r].thread = t
            BY <1>1, <1>4, <4>1, <5>1, <3>2 DEF Target
          <5>2. CASE tx[r].thread # t
            BY <1>4, <4>1, <5>2, <3>2 DEF Target
          <5>3. QED
            BY <5>1, <5>2
        <4>4. \A q \in Sessions : q # r => tx'[q].post # tx[r].post
          BY <1>0, <3>2, <4>1 DEF SessionEnds, Target, NoTx
        <4>5. QED
          BY <3>1, <3>2, <4>1, <4>2, <4>3, <4>4 DEF Target
      <3>3. ASSUME Target(r), Checked(r) PROVE Checked(r)'
        BY <1>1, <1>2, <1>4, <2>1, <3>1, <3>3 DEF Target, Checked, Consumed
      <3>4. QED
        BY <3>1, <3>2, <3>3 DEF WriterOK
    <2>2. WriterOK(s)'
      BY <1>0 DEF SessionEnds, WriterOK
    <2>3. QED
      BY <2>1, <2>2 DEF WriterInv
  <1>8. ReconcilerInv'
    <2>1. /\ tx'[Reconciler] = tx[Reconciler] /\ step'[Reconciler] = step[Reconciler]
          /\ \A v \in Uploads : jobLock[v] = Reconciler => jobLock'[v] = Reconciler
      BY <1>0 DEF SessionEnds
    <2>2. step[Reconciler] # "idle" => tx[Reconciler].upload # u
      BY <1>1 DEF AttachmentInv, ReconcilerInv
    <2>3. \A q \in Posts : media'[q] # u => media'[q] = media[q] /\ q # p
      BY <1>4
    <2>4. ASSUME step[Reconciler] = "retiring", NEW q \in Posts, media'[q] = tx[Reconciler].upload
          PROVE  GoneForGood(q)'
      <3>1. q # p /\ media[q] = tx[Reconciler].upload /\ media[q] # None
        BY <2>2, <2>3, <2>4 DEF AttachmentInv, ReconcilerInv
      <3>2. GoneForGood(q)
        BY <3>1, <2>4 DEF AttachmentInv, ReconcilerInv
      <3>3. QED
        BY <3>1, <3>2, <1>6
    <2>5. QED
      BY <2>1, <2>4, <1>2 DEF AttachmentInv, ReconcilerInv
  <1>9. FileInv'
    <2>1. ASSUME NEW q \in Posts, media'[q] # None, asset'[media'[q]] # "approved"
          PROVE  GoneForGood(q)'
      <3>1. q # p /\ media[q] # None /\ asset[media[q]] # "approved"
        BY <2>1, <1>1, <1>2, <1>4
      <3>2. QED
        BY <3>1, <1>6 DEF AttachmentInv, FileInv
    <2>2. QED
      BY <2>1 DEF FileInv
  <1>10. AttachedOnce'
    BY <1>1, <1>4 DEF AttachmentInv, AttachedOnce, Consumed
  <1>11. QED
    BY <1>3, <1>5, <1>7, <1>8, <1>9, <1>10 DEF AttachmentInv

\* A transaction that ends without effect.
LEMMA RollbackKeeps ==
  ASSUME AttachmentInv, NEW s \in Sessions, Rollback(s)
  PROVE  AttachmentInv'
  <1> USE AttachmentAssumption DEF mediaVars, contentVars, policyVars, txVars, Sessions, Steps, Rollback
  <1>0. SessionEnds(s)
    BY ReleaseFrees DEF AttachmentInv, SessionEnds, Rollback
  <1>1. AttachmentTypeOK'
    BY <1>0 DEF SessionEnds, AttachmentInv, AttachmentTypeOK
  <1>2. PlaceInv' /\ PolicyInv' /\ JobInv'
    BY <1>0 DEF SessionEnds, AttachmentInv, AttachmentTypeOK, PlaceInv, PolicyInv, JobInv
  <1>3. WriterInv'
    <2>1. ASSUME NEW r \in Writers, r # s PROVE WriterOK(r)'
      <3>1. /\ tx'[r] = tx[r] /\ step'[r] = step[r] /\ WriterOK(r)
            /\ \A v \in Uploads : jobLock[v] = r => jobLock'[v] = r
        BY <1>0, <2>1 DEF SessionEnds, AttachmentInv, WriterInv
      <3>2. ASSUME Target(r) PROVE Target(r)'
        BY <1>0, <3>1, <3>2 DEF SessionEnds, Target, NoTx
      <3>3. ASSUME Target(r), Checked(r) PROVE Checked(r)'
        BY <3>1, <3>3 DEF Target, Checked, Consumed
      <3>4. QED
        BY <3>1, <3>2, <3>3 DEF WriterOK
    <2>2. ASSUME s \in Writers PROVE WriterOK(s)'
      BY <1>0 DEF SessionEnds, WriterOK
    <2>3. QED
      BY <2>1, <2>2 DEF WriterInv
  <1>4. ReconcilerInv'
    BY <1>0 DEF SessionEnds, AttachmentInv, AttachmentTypeOK, ReconcilerInv, GoneForGood
  <1>5. FileInv' /\ AttachedOnce'
    BY <1>0 DEF SessionEnds, AttachmentInv, AttachmentTypeOK, FileInv, GoneForGood, AttachedOnce
  <1>6. QED
    BY <1>1, <1>2, <1>3, <1>4, <1>5 DEF AttachmentInv

\* Cancellation.
LEMMA CancelKeeps ==
  ASSUME AttachmentInv, NEW s \in Writers, NEW u \in Uploads, Cancel(s, u)
  PROVE  AttachmentInv'
  <1> USE AttachmentAssumption DEF mediaVars, contentVars, policyVars, txVars, Sessions, Steps, Cancel, Usable, Start, Idle, LockJob, JustUpload
  <1>1. AttachmentTypeOK'
    BY DEF AttachmentInv, AttachmentTypeOK
  <1>2. PlaceInv' /\ PolicyInv' /\ JobInv'
    BY DEF AttachmentInv, AttachmentTypeOK, PlaceInv, PolicyInv, JobInv
  <1>3. WriterInv'
    BY DEF AttachmentInv, AttachmentTypeOK, WriterInv, WriterOK, Target, Checked, Consumed
  <1>4. ReconcilerInv'
    BY DEF AttachmentInv, AttachmentTypeOK, ReconcilerInv, GoneForGood
  <1>5. FileInv' /\ AttachedOnce'
    BY DEF AttachmentInv, AttachmentTypeOK, FileInv, GoneForGood, AttachedOnce
  <1>6. QED
    BY <1>1, <1>2, <1>3, <1>4, <1>5 DEF AttachmentInv

\* No insertion is under way when a cancellation commits.
LEMMA CommitCancelKeeps ==
  ASSUME AttachmentInv, NEW s \in Writers, CommitCancel(s)
  PROVE  AttachmentInv'
  <1> USE AttachmentAssumption DEF mediaVars, contentVars, policyVars, txVars, Sessions, Steps, CommitCancel
  <1>0. SessionEnds(s)
    BY ReleaseFrees DEF AttachmentInv, SessionEnds, CommitCancel
  <1>1. AttachmentTypeOK'
    BY <1>0 DEF SessionEnds, AttachmentInv, AttachmentTypeOK
  <1>2. PlaceInv' /\ PolicyInv' /\ JobInv'
    BY <1>0 DEF SessionEnds, AttachmentInv, AttachmentTypeOK, PlaceInv, PolicyInv, JobInv
  <1>3. WriterInv'
    <2>1. ASSUME NEW r \in Writers, r # s PROVE WriterOK(r)'
      <3> USE <1>0, <2>1 DEF SessionEnds, AttachmentInv, AttachmentTypeOK, WriterInv, WriterOK
      <3>1. CASE step[r] = "idle"
        BY <3>1
      <3>2. CASE step[r] \in {"posting", "inserted"}
        <4>1. Target(r)'
          BY <3>2 DEF Target, NoTx
        <4>2. step[r] = "inserted" => Checked(r)'
          BY DEF Target, Checked, Consumed
        <4>3. QED
          BY <3>2, <4>1, <4>2
      <3>3. CASE step[r] = "cancelling"
        BY <3>3
      <3>4. QED
        BY <3>1, <3>2, <3>3
    <2>2. WriterOK(s)'
      BY <1>0 DEF SessionEnds, WriterOK
    <2>3. QED
      BY <2>1, <2>2 DEF WriterInv
  <1>4. ReconcilerInv'
    BY <1>0 DEF SessionEnds, AttachmentInv, AttachmentTypeOK, ReconcilerInv, GoneForGood
  <1>5. FileInv' /\ AttachedOnce'
    BY <1>0 DEF SessionEnds, AttachmentInv, AttachmentTypeOK, FileInv, GoneForGood, AttachedOnce
  <1>6. QED
    BY <1>1, <1>2, <1>3, <1>4, <1>5 DEF AttachmentInv

\* Retirement waits for the job.
LEMMA LockRetireKeeps ==
  ASSUME AttachmentInv, NEW u \in Uploads, LockRetire(u)
  PROVE  AttachmentInv'
  <1> USE AttachmentAssumption DEF mediaVars, contentVars, policyVars, txVars, Sessions, Steps, LockRetire, Start, Idle, LockJob, JustUpload
  <1>1. AttachmentTypeOK'
    BY DEF AttachmentInv, AttachmentTypeOK
  <1>2. PlaceInv' /\ PolicyInv' /\ JobInv'
    BY DEF AttachmentInv, AttachmentTypeOK, PlaceInv, PolicyInv, JobInv
  <1>3. WriterInv'
    BY DEF AttachmentInv, AttachmentTypeOK, WriterInv, WriterOK, Target, Checked, Consumed
  <1>4. ReconcilerInv'
    BY DEF AttachmentInv, AttachmentTypeOK, ReconcilerInv, GoneForGood
  <1>5. FileInv' /\ AttachedOnce'
    BY DEF AttachmentInv, AttachmentTypeOK, FileInv, GoneForGood, AttachedOnce
  <1>6. QED
    BY <1>1, <1>2, <1>3, <1>4, <1>5 DEF AttachmentInv

\* Retirement decides.
LEMMA DecideRetireKeeps ==
  ASSUME AttachmentInv, DecideRetire
  PROVE  AttachmentInv'
  <1> USE AttachmentAssumption DEF mediaVars, contentVars, policyVars, txVars, Sessions, Steps, DecideRetire, Retirable, Visible
  <1>1. AttachmentTypeOK'
    BY DEF AttachmentInv, AttachmentTypeOK
  <1>2. PlaceInv' /\ PolicyInv' /\ JobInv'
    BY DEF AttachmentInv, AttachmentTypeOK, PlaceInv, PolicyInv, JobInv
  <1>3. WriterInv'
    BY DEF AttachmentInv, AttachmentTypeOK, WriterInv, WriterOK, Target, Checked, Consumed
  <1>4. ReconcilerInv'
    BY DEF AttachmentInv, AttachmentTypeOK, ReconcilerInv, GoneForGood, AttachedOnce, Consumed, PlaceInv, PolicyInv, Posts, Boards
  <1>5. FileInv' /\ AttachedOnce'
    BY DEF AttachmentInv, AttachmentTypeOK, FileInv, GoneForGood, AttachedOnce
  <1>6. QED
    BY <1>1, <1>2, <1>3, <1>4, <1>5 DEF AttachmentInv

\* No insertion is under way when a retirement commits.
LEMMA CommitRetireKeeps ==
  ASSUME AttachmentInv, CommitRetire
  PROVE  AttachmentInv'
  <1> USE AttachmentAssumption DEF mediaVars, contentVars, policyVars, txVars, Sessions, Steps, CommitRetire
  <1>0. SessionEnds(Reconciler)
    BY ReleaseFrees DEF AttachmentInv, SessionEnds, CommitRetire
  <1>1. AttachmentTypeOK'
    BY <1>0 DEF SessionEnds, AttachmentInv, AttachmentTypeOK
  <1>2. PlaceInv' /\ PolicyInv' /\ JobInv'
    BY <1>0 DEF SessionEnds, AttachmentInv, AttachmentTypeOK, PlaceInv, PolicyInv, JobInv
  <1>3. WriterInv'
    BY <1>0 DEF SessionEnds, AttachmentInv, AttachmentTypeOK, WriterInv, WriterOK, Target, Checked, Consumed, ReconcilerInv, JobInv, NoTx
  <1>4. ReconcilerInv'
    BY <1>0 DEF SessionEnds, AttachmentInv, AttachmentTypeOK, ReconcilerInv, GoneForGood
  <1>5. FileInv' /\ AttachedOnce'
    BY <1>0 DEF SessionEnds, AttachmentInv, AttachmentTypeOK, ReconcilerInv, FileInv, GoneForGood, AttachedOnce
  <1>6. QED
    BY <1>1, <1>2, <1>3, <1>4, <1>5 DEF AttachmentInv

\* Approval: nobody has the output yet.
LEMMA ApproveKeeps ==
  ASSUME AttachmentInv, NEW u \in Uploads, Approve(u)
  PROVE  AttachmentInv'
  <1> USE AttachmentAssumption DEF mediaVars, contentVars, policyVars, txVars, Posts, Sessions, Boards, Approve
  <1>1. AttachmentTypeOK'
    BY DEF AttachmentInv, AttachmentTypeOK
  <1>2. PlaceInv' /\ PolicyInv' /\ JobInv'
    BY DEF AttachmentInv, AttachmentTypeOK, PlaceInv, PolicyInv, JobInv
  <1>3. WriterInv'
    <2>1. ASSUME NEW r \in Writers, Target(r) PROVE Target(r)'
      BY <2>1 DEF AttachmentInv, AttachmentTypeOK, PlaceInv, Target
    <2>2. ASSUME NEW r \in Writers, Target(r), Checked(r) PROVE Checked(r)'
      BY <2>2 DEF AttachmentInv, AttachmentTypeOK, Target, Checked, Consumed
    <2>3. QED
      BY <2>1, <2>2 DEF AttachmentInv, WriterInv, WriterOK
  <1>4. ReconcilerInv'
    BY DEF AttachmentInv, AttachmentTypeOK, PlaceInv, ReconcilerInv, GoneForGood
  <1>5. FileInv' /\ AttachedOnce'
    BY DEF AttachmentInv, AttachmentTypeOK, PlaceInv, FileInv, GoneForGood, AttachedOnce
  <1>6. QED
    BY <1>1, <1>2, <1>3, <1>4, <1>5 DEF AttachmentInv

\* Time.
LEMMA ElapseKeeps ==
  ASSUME AttachmentInv, NEW u \in Uploads, Elapse(u)
  PROVE  AttachmentInv'
  <1> USE AttachmentAssumption DEF mediaVars, contentVars, policyVars, txVars, Posts, Sessions, Boards, Elapse
  <1>1. AttachmentTypeOK'
    BY DEF AttachmentInv, AttachmentTypeOK
  <1>2. PlaceInv' /\ PolicyInv' /\ JobInv'
    BY DEF AttachmentInv, AttachmentTypeOK, PlaceInv, PolicyInv, JobInv
  <1>3. WriterInv'
    <2>1. ASSUME NEW r \in Writers, Target(r) PROVE Target(r)'
      BY <2>1 DEF AttachmentInv, AttachmentTypeOK, PlaceInv, Target
    <2>2. ASSUME NEW r \in Writers, Target(r), Checked(r) PROVE Checked(r)'
      BY <2>2 DEF AttachmentInv, AttachmentTypeOK, Target, Checked, Consumed
    <2>3. QED
      BY <2>1, <2>2 DEF AttachmentInv, WriterInv, WriterOK
  <1>4. ReconcilerInv'
    BY DEF AttachmentInv, AttachmentTypeOK, PlaceInv, ReconcilerInv, GoneForGood
  <1>5. FileInv' /\ AttachedOnce'
    BY DEF AttachmentInv, AttachmentTypeOK, PlaceInv, FileInv, GoneForGood, AttachedOnce
  <1>6. QED
    BY <1>1, <1>2, <1>3, <1>4, <1>5 DEF AttachmentInv

\* A job is forgotten only when nobody holds it.
LEMMA ForgetJobKeeps ==
  ASSUME AttachmentInv, NEW u \in Uploads, ForgetJob(u)
  PROVE  AttachmentInv'
  <1> USE AttachmentAssumption DEF mediaVars, contentVars, policyVars, txVars, Posts, Sessions, Boards, ForgetJob
  <1>1. AttachmentTypeOK'
    BY DEF AttachmentInv, AttachmentTypeOK
  <1>2. PlaceInv' /\ PolicyInv' /\ JobInv'
    BY DEF AttachmentInv, AttachmentTypeOK, PlaceInv, PolicyInv, JobInv
  <1>3. WriterInv'
    <2>1. ASSUME NEW r \in Writers, Target(r) PROVE Target(r)'
      BY <2>1 DEF AttachmentInv, AttachmentTypeOK, PlaceInv, Target
    <2>2. ASSUME NEW r \in Writers, Target(r), Checked(r) PROVE Checked(r)'
      BY <2>2 DEF AttachmentInv, AttachmentTypeOK, Target, Checked, Consumed
    <2>3. QED
      BY <2>1, <2>2 DEF AttachmentInv, WriterInv, WriterOK
  <1>4. ReconcilerInv'
    BY DEF AttachmentInv, AttachmentTypeOK, PlaceInv, ReconcilerInv, GoneForGood
  <1>5. FileInv' /\ AttachedOnce'
    BY DEF AttachmentInv, AttachmentTypeOK, PlaceInv, FileInv, GoneForGood, AttachedOnce
  <1>6. QED
    BY <1>1, <1>2, <1>3, <1>4, <1>5 DEF AttachmentInv

\* The output of a removal is forgotten.
LEMMA ForgetOutputKeeps ==
  ASSUME AttachmentInv, NEW u \in Uploads, ForgetOutput(u)
  PROVE  AttachmentInv'
  <1> USE AttachmentAssumption DEF mediaVars, contentVars, policyVars, txVars, Posts, Sessions, Boards, ForgetOutput
  <1>1. AttachmentTypeOK'
    BY DEF AttachmentInv, AttachmentTypeOK
  <1>2. PlaceInv' /\ PolicyInv' /\ JobInv'
    BY DEF AttachmentInv, AttachmentTypeOK, PlaceInv, PolicyInv, JobInv
  <1>3. WriterInv'
    <2>1. ASSUME NEW r \in Writers, Target(r) PROVE Target(r)'
      BY <2>1 DEF AttachmentInv, AttachmentTypeOK, PlaceInv, Target
    <2>2. ASSUME NEW r \in Writers, Target(r), Checked(r) PROVE Checked(r)'
      BY <2>2 DEF AttachmentInv, AttachmentTypeOK, Target, Checked, Consumed
    <2>3. QED
      BY <2>1, <2>2 DEF AttachmentInv, WriterInv, WriterOK
  <1>4. ReconcilerInv'
    BY DEF AttachmentInv, AttachmentTypeOK, PlaceInv, ReconcilerInv, GoneForGood
  <1>5. FileInv' /\ AttachedOnce'
    BY DEF AttachmentInv, AttachmentTypeOK, PlaceInv, FileInv, GoneForGood, AttachedOnce
  <1>6. QED
    BY <1>1, <1>2, <1>3, <1>4, <1>5 DEF AttachmentInv

\* A post loses its file for good.
LEMMA DeleteFileKeeps ==
  ASSUME AttachmentInv, NEW p \in Posts, DeleteFile(p)
  PROVE  AttachmentInv'
  <1> USE AttachmentAssumption DEF mediaVars, contentVars, policyVars, txVars, Posts, Sessions, Boards, DeleteFile, Free, Visible
  <1>1. AttachmentTypeOK'
    BY DEF AttachmentInv, AttachmentTypeOK
  <1>2. PlaceInv' /\ PolicyInv' /\ JobInv'
    BY DEF AttachmentInv, AttachmentTypeOK, PlaceInv, PolicyInv, JobInv
  <1>3. WriterInv'
    <2>1. ASSUME NEW r \in Writers, Target(r) PROVE Target(r)'
      BY <2>1 DEF AttachmentInv, AttachmentTypeOK, PlaceInv, Target
    <2>2. ASSUME NEW r \in Writers, Target(r), Checked(r) PROVE Checked(r)'
      BY <2>2 DEF AttachmentInv, AttachmentTypeOK, Target, Checked, Consumed
    <2>3. QED
      BY <2>1, <2>2 DEF AttachmentInv, WriterInv, WriterOK
  <1>4. ReconcilerInv'
    BY DEF AttachmentInv, AttachmentTypeOK, PlaceInv, ReconcilerInv, GoneForGood
  <1>5. FileInv' /\ AttachedOnce'
    BY DEF AttachmentInv, AttachmentTypeOK, PlaceInv, FileInv, GoneForGood, AttachedOnce
  <1>6. QED
    BY <1>1, <1>2, <1>3, <1>4, <1>5 DEF AttachmentInv

\* A post is deleted for good.
LEMMA DeletePostKeeps ==
  ASSUME AttachmentInv, NEW p \in Posts, DeletePost(p)
  PROVE  AttachmentInv'
  <1> USE AttachmentAssumption DEF mediaVars, contentVars, policyVars, txVars, Posts, Sessions, Boards, DeletePost, Free
  <1>1. AttachmentTypeOK'
    BY DEF AttachmentInv, AttachmentTypeOK
  <1>2. PlaceInv' /\ PolicyInv' /\ JobInv'
    BY DEF AttachmentInv, AttachmentTypeOK, PlaceInv, PolicyInv, JobInv
  <1>3. WriterInv'
    <2>1. ASSUME NEW r \in Writers, Target(r) PROVE Target(r)'
      BY <2>1 DEF AttachmentInv, AttachmentTypeOK, PlaceInv, Target
    <2>2. ASSUME NEW r \in Writers, Target(r), Checked(r) PROVE Checked(r)'
      BY <2>2 DEF AttachmentInv, AttachmentTypeOK, Target, Checked, Consumed
    <2>3. QED
      BY <2>1, <2>2 DEF AttachmentInv, WriterInv, WriterOK
  <1>4. ReconcilerInv'
    BY DEF AttachmentInv, AttachmentTypeOK, PlaceInv, ReconcilerInv, GoneForGood
  <1>5. FileInv' /\ AttachedOnce'
    BY DEF AttachmentInv, AttachmentTypeOK, PlaceInv, FileInv, GoneForGood, AttachedOnce
  <1>6. QED
    BY <1>1, <1>2, <1>3, <1>4, <1>5 DEF AttachmentInv

\* A thread without a file.
LEMMA OpenThreadKeeps ==
  ASSUME AttachmentInv, NEW t \in Threads, OpenThread(t)
  PROVE  AttachmentInv'
  <1> USE AttachmentAssumption DEF mediaVars, contentVars, policyVars, txVars, Posts, Sessions, Boards, OpenThread, Free
  <1>0. /\ thread' \in [Threads -> {"absent", "active", "archived", "expired", "deleted"}]
        /\ \A x \in Threads : (thread'[x] = "absent") <=> (thread[x] = "absent" /\ x # t)
        /\ \A x \in Threads : thread[x] \in {"expired", "deleted"} => thread'[x] \in {"expired", "deleted"}
    BY ThreadsAfterPost DEF AttachmentInv
  <1>1. AttachmentTypeOK'
    BY <1>0 DEF AttachmentInv, AttachmentTypeOK
  <1>2. PlaceInv' /\ PolicyInv' /\ JobInv'
    BY <1>0 DEF AttachmentInv, AttachmentTypeOK, PlaceInv, PolicyInv, JobInv
  <1>3. WriterInv'
    <2>1. ASSUME NEW r \in Writers, Target(r) PROVE Target(r)'
      BY <1>0, <2>1 DEF AttachmentInv, AttachmentTypeOK, PlaceInv, Target
    <2>2. ASSUME NEW r \in Writers, Target(r), Checked(r) PROVE Checked(r)'
      BY <2>2 DEF AttachmentInv, AttachmentTypeOK, Target, Checked, Consumed
    <2>3. QED
      BY <2>1, <2>2 DEF AttachmentInv, WriterInv, WriterOK
  <1>4. ASSUME NEW q \in Posts, media[q] # None
        PROVE  place'[q] = place[q] /\ place[q] \in Threads /\ thread[place[q]] # "absent"
    BY <1>4 DEF AttachmentInv, AttachmentTypeOK, PlaceInv
  <1>5. ASSUME NEW q \in Posts, media[q] # None, GoneForGood(q) PROVE GoneForGood(q)'
    BY <1>0, <1>5, <1>4 DEF GoneForGood, AttachmentInv, AttachmentTypeOK
  <1>6. ReconcilerInv'
    BY <1>5 DEF AttachmentInv, ReconcilerInv
  <1>7. FileInv' /\ AttachedOnce'
    BY <1>5 DEF AttachmentInv, FileInv, AttachedOnce
  <1>8. QED
    BY <1>1, <1>2, <1>3, <1>6, <1>7 DEF AttachmentInv

\* A thread is pinned or released.
LEMMA SetPinnedKeeps ==
  ASSUME AttachmentInv, NEW t \in Threads, SetPinned(t)
  PROVE  AttachmentInv'
  <1> USE AttachmentAssumption DEF mediaVars, contentVars, policyVars, txVars, Posts, Sessions, Boards, SetPinned, Free
  <1>1. AttachmentTypeOK'
    BY DEF AttachmentInv, AttachmentTypeOK
  <1>2. PlaceInv' /\ PolicyInv' /\ JobInv'
    BY DEF AttachmentInv, AttachmentTypeOK, PlaceInv, PolicyInv, JobInv
  <1>3. WriterInv'
    <2>1. ASSUME NEW r \in Writers, Target(r) PROVE Target(r)'
      BY <2>1 DEF AttachmentInv, AttachmentTypeOK, PlaceInv, Target
    <2>2. ASSUME NEW r \in Writers, Target(r), Checked(r) PROVE Checked(r)'
      BY <2>2 DEF AttachmentInv, AttachmentTypeOK, Target, Checked, Consumed
    <2>3. QED
      BY <2>1, <2>2 DEF AttachmentInv, WriterInv, WriterOK
  <1>4. ReconcilerInv'
    BY DEF AttachmentInv, AttachmentTypeOK, PlaceInv, ReconcilerInv, GoneForGood
  <1>5. FileInv' /\ AttachedOnce'
    BY DEF AttachmentInv, AttachmentTypeOK, PlaceInv, FileInv, GoneForGood, AttachedOnce
  <1>6. QED
    BY <1>1, <1>2, <1>3, <1>4, <1>5 DEF AttachmentInv

\* A thread is archived.
LEMMA ForceArchiveKeeps ==
  ASSUME AttachmentInv, NEW t \in Threads, ForceArchive(t)
  PROVE  AttachmentInv'
  <1> USE AttachmentAssumption DEF mediaVars, contentVars, policyVars, txVars, Posts, Sessions, Boards, ForceArchive, Free
  <1>1. AttachmentTypeOK'
    BY DEF AttachmentInv, AttachmentTypeOK
  <1>2. PlaceInv' /\ PolicyInv' /\ JobInv'
    BY DEF AttachmentInv, AttachmentTypeOK, PlaceInv, PolicyInv, JobInv
  <1>3. WriterInv'
    <2>1. ASSUME NEW r \in Writers, Target(r) PROVE Target(r)'
      BY <2>1 DEF AttachmentInv, AttachmentTypeOK, PlaceInv, Target
    <2>2. ASSUME NEW r \in Writers, Target(r), Checked(r) PROVE Checked(r)'
      BY <2>2 DEF AttachmentInv, AttachmentTypeOK, Target, Checked, Consumed
    <2>3. QED
      BY <2>1, <2>2 DEF AttachmentInv, WriterInv, WriterOK
  <1>4. ReconcilerInv'
    BY DEF AttachmentInv, AttachmentTypeOK, PlaceInv, ReconcilerInv, GoneForGood
  <1>5. FileInv' /\ AttachedOnce'
    BY DEF AttachmentInv, AttachmentTypeOK, PlaceInv, FileInv, GoneForGood, AttachedOnce
  <1>6. QED
    BY <1>1, <1>2, <1>3, <1>4, <1>5 DEF AttachmentInv

\* A deadline passes.
LEMMA ExpireKeeps ==
  ASSUME AttachmentInv, NEW t \in Threads, Expire(t)
  PROVE  AttachmentInv'
  <1> USE AttachmentAssumption DEF mediaVars, contentVars, policyVars, txVars, Posts, Sessions, Boards, Expire, Free
  <1>1. AttachmentTypeOK'
    BY DEF AttachmentInv, AttachmentTypeOK
  <1>2. PlaceInv' /\ PolicyInv' /\ JobInv'
    BY DEF AttachmentInv, AttachmentTypeOK, PlaceInv, PolicyInv, JobInv
  <1>3. WriterInv'
    <2>1. ASSUME NEW r \in Writers, Target(r) PROVE Target(r)'
      BY <2>1 DEF AttachmentInv, AttachmentTypeOK, PlaceInv, Target
    <2>2. ASSUME NEW r \in Writers, Target(r), Checked(r) PROVE Checked(r)'
      BY <2>2 DEF AttachmentInv, AttachmentTypeOK, Target, Checked, Consumed
    <2>3. QED
      BY <2>1, <2>2 DEF AttachmentInv, WriterInv, WriterOK
  <1>4. ReconcilerInv'
    BY DEF AttachmentInv, AttachmentTypeOK, PlaceInv, ReconcilerInv, GoneForGood
  <1>5. FileInv' /\ AttachedOnce'
    BY DEF AttachmentInv, AttachmentTypeOK, PlaceInv, FileInv, GoneForGood, AttachedOnce
  <1>6. QED
    BY <1>1, <1>2, <1>3, <1>4, <1>5 DEF AttachmentInv

\* The operator hides or shows a board.
LEMMA SwitchStaffOnlyKeeps ==
  ASSUME AttachmentInv, NEW b \in SwitchedBoards, SwitchStaffOnly(b)
  PROVE  AttachmentInv'
  <1> USE AttachmentAssumption DEF mediaVars, contentVars, policyVars, txVars, Posts, Sessions, Boards, SwitchStaffOnly, Free
  <1>1. AttachmentTypeOK'
    BY DEF AttachmentInv, AttachmentTypeOK
  <1>2. PlaceInv' /\ PolicyInv' /\ JobInv'
    BY DEF AttachmentInv, AttachmentTypeOK, PlaceInv, PolicyInv, JobInv
  <1>3. WriterInv'
    <2>1. ASSUME NEW r \in Writers, Target(r) PROVE Target(r)'
      BY <2>1 DEF AttachmentInv, AttachmentTypeOK, PlaceInv, Target
    <2>2. ASSUME NEW r \in Writers, Target(r), Checked(r) PROVE Checked(r)'
      BY <2>2 DEF AttachmentInv, AttachmentTypeOK, Target, Checked, Consumed
    <2>3. QED
      BY <2>1, <2>2 DEF AttachmentInv, WriterInv, WriterOK
  <1>4. ReconcilerInv'
    BY DEF AttachmentInv, AttachmentTypeOK, PlaceInv, ReconcilerInv, GoneForGood
  <1>5. FileInv' /\ AttachedOnce'
    BY DEF AttachmentInv, AttachmentTypeOK, PlaceInv, FileInv, GoneForGood, AttachedOnce
  <1>6. QED
    BY <1>1, <1>2, <1>3, <1>4, <1>5 DEF AttachmentInv

\* The operator changes the archive policy.
LEMMA SetRetentionKeeps ==
  ASSUME AttachmentInv, NEW b \in SwitchedBoards, SetRetention(b)
  PROVE  AttachmentInv'
  <1> USE AttachmentAssumption DEF mediaVars, contentVars, policyVars, txVars, Posts, Sessions, Boards, SetRetention, Free
  <1>1. AttachmentTypeOK'
    <2>1. archives' \in [Boards -> BOOLEAN]
      BY DEF AttachmentInv, AttachmentTypeOK
    <2>2. thread' \in [Threads -> {"absent", "active", "archived", "expired", "deleted"}]
      BY DEF AttachmentInv, AttachmentTypeOK
    <2>3. QED
      BY <2>1, <2>2 DEF AttachmentInv, AttachmentTypeOK
  <1>2. PlaceInv' /\ PolicyInv' /\ JobInv'
    BY DEF AttachmentInv, AttachmentTypeOK, PlaceInv, PolicyInv, JobInv
  <1>3. WriterInv'
    <2>1. ASSUME NEW r \in Writers, Target(r) PROVE Target(r)'
      BY <2>1 DEF AttachmentInv, AttachmentTypeOK, PlaceInv, Target
    <2>2. ASSUME NEW r \in Writers, Target(r), Checked(r) PROVE Checked(r)'
      BY <2>2 DEF AttachmentInv, AttachmentTypeOK, Target, Checked, Consumed
    <2>3. QED
      BY <2>1, <2>2 DEF AttachmentInv, WriterInv, WriterOK
  <1>4. ReconcilerInv'
    BY DEF AttachmentInv, AttachmentTypeOK, PlaceInv, ReconcilerInv, GoneForGood
  <1>5. FileInv' /\ AttachedOnce'
    BY DEF AttachmentInv, AttachmentTypeOK, PlaceInv, FileInv, GoneForGood, AttachedOnce
  <1>6. QED
    BY <1>1, <1>2, <1>3, <1>4, <1>5 DEF AttachmentInv

-----------------------------------------------------------------------------
LEMMA StutterKeepsAttachment == AttachmentInv /\ UNCHANGED vars => AttachmentInv'
  <1> SUFFICES ASSUME AttachmentInv, UNCHANGED vars PROVE AttachmentInv'
    OBVIOUS
  <1> USE DEF vars, mediaVars, contentVars, policyVars, txVars
  <1>1. AttachmentTypeOK' /\ PlaceInv' /\ PolicyInv' /\ JobInv' /\ AttachedOnce'
    BY DEF AttachmentInv, AttachmentTypeOK, PlaceInv, PolicyInv, JobInv, AttachedOnce
  <1>2. WriterInv'
    BY DEF AttachmentInv, WriterInv, WriterOK, Target, Checked, Consumed
  <1>3. ReconcilerInv' /\ FileInv'
    BY DEF AttachmentInv, ReconcilerInv, FileInv, GoneForGood
  <1>4. QED
    BY <1>1, <1>2, <1>3 DEF AttachmentInv

LEMMA NextKeepsAttachment == AttachmentInv /\ [AttachmentNext]_vars => AttachmentInv'
  <1> SUFFICES ASSUME AttachmentInv, [AttachmentNext]_vars PROVE AttachmentInv'
    OBVIOUS
  <1>1. CASE RetireStep
    BY <1>1, LockRetireKeeps, DecideRetireKeeps, CommitRetireKeeps, RollbackKeeps DEF RetireStep, Sessions
  <1>2. CASE OtherStep
    <2>1. ASSUME NEW u \in Uploads, Approve(u) \/ Elapse(u) \/ ForgetJob(u) \/ ForgetOutput(u)
          PROVE  AttachmentInv'
      BY <2>1, ApproveKeeps, ElapseKeeps, ForgetJobKeeps, ForgetOutputKeeps
    <2>2. ASSUME NEW p \in Posts, DeleteFile(p) \/ DeletePost(p) PROVE AttachmentInv'
      BY <2>2, DeleteFileKeeps, DeletePostKeeps
    <2>3. ASSUME NEW t \in Threads, OpenThread(t) \/ SetPinned(t) \/ ForceArchive(t) \/ Expire(t)
          PROVE  AttachmentInv'
      BY <2>3, OpenThreadKeeps, SetPinnedKeeps, ForceArchiveKeeps, ExpireKeeps
    <2>4. ASSUME NEW b \in SwitchedBoards, SwitchStaffOnly(b) \/ SetRetention(b) PROVE AttachmentInv'
      BY <2>4, SwitchStaffOnlyKeeps, SetRetentionKeeps
    <2>5. QED
      BY <1>2, <2>1, <2>2, <2>3, <2>4 DEF OtherStep
  <1>3. ASSUME NEW s \in Writers, WriterStep(s) PROVE AttachmentInv'
    BY <1>3, BeginPostKeeps, InsertKeeps, CommitPostKeeps, CancelKeeps, CommitCancelKeeps, RollbackKeeps
    DEF WriterStep, Sessions
  <1>4. CASE UNCHANGED vars
    BY <1>4, StutterKeepsAttachment
  <1>5. QED
    BY <1>1, <1>2, <1>3, <1>4 DEF AttachmentNext

\* The inductive invariant holds in every reachable state.
THEOREM AttachmentInvariant == AttachmentSpec => []AttachmentInv
  <1>1. QED
    BY InitAttachmentInv, NextKeepsAttachment, PTL DEF AttachmentSpec

\* Every variable keeps its type.
THEOREM AttachmentTypes == AttachmentSpec => []AttachmentTypeOK
  <1>1. AttachmentInv => AttachmentTypeOK
    BY DEF AttachmentInv
  <1>2. QED
    BY <1>1, AttachmentInvariant, PTL

\* An upload is the file of one post at most, for ever.
THEOREM UploadAttachedOnce == AttachmentSpec => []AttachedOnce
  <1>1. AttachmentInv => AttachedOnce
    BY DEF AttachmentInv
  <1>2. QED
    BY <1>1, AttachmentInvariant, PTL

\* No reconcile pass takes the file of a post that is up.
THEOREM NoShownFileRetired == AttachmentSpec => []ShownFilesKept
  <1>1. AttachmentInv => ShownFilesKept
    BY DEF AttachmentInv, FileInv, GoneForGood, ShownFilesKept
  <1>2. QED
    BY <1>1, AttachmentInvariant, PTL

\* Only the commit of a posting attaches anything, and behind its lock the
\* output is approved and the capability stored.
LEMMA OnlyCommitAttaches ==
  AttachmentInv /\ [AttachmentNext]_vars
  => \A p \in Posts : media'[p] # media[p] => asset[media'[p]] = "approved" /\ handle[media'[p]]
  <1> SUFFICES ASSUME AttachmentInv, [AttachmentNext]_vars, NEW p \in Posts, media'[p] # media[p]
               PROVE  asset[media'[p]] = "approved" /\ handle[media'[p]]
    OBVIOUS
  <1> USE DEF vars, mediaVars, contentVars, policyVars, txVars
  <1>1. CASE RetireStep
    BY <1>1 DEF RetireStep, LockRetire, DecideRetire, CommitRetire, Rollback
  <1>2. CASE OtherStep
    BY <1>2 DEF OtherStep, Approve, Elapse, ForgetJob, ForgetOutput, DeleteFile, DeletePost,
                OpenThread, SetPinned, ForceArchive, Expire, SwitchStaffOnly, SetRetention
  <1>3. ASSUME NEW s \in Writers, WriterStep(s)
        PROVE  asset[media'[p]] = "approved" /\ handle[media'[p]]
    <2>1. CASE CommitPost(s)
      <3>1. Target(s) /\ Checked(s) /\ media' = [media EXCEPT ![tx[s].post] = tx[s].upload]
        BY <2>1 DEF AttachmentInv, WriterInv, WriterOK, CommitPost
      <3>2. media \in [Posts -> Uploads \cup {None}]
        BY DEF AttachmentInv, AttachmentTypeOK
      <3>3. media'[p] = tx[s].upload
        BY <3>1, <3>2 DEF Target
      <3>4. QED
        BY <3>1, <3>3 DEF Checked
    <2>2. CASE ~CommitPost(s)
      BY <1>3, <2>2 DEF WriterStep, BeginPost, InsertAttachment, Cancel, CommitCancel, Rollback
    <2>3. QED
      BY <2>1, <2>2
  <1>4. QED
    BY <1>1, <1>2, <1>3 DEF AttachmentNext

\* A post never appears with a file that is being removed or an upload that was
\* cancelled.
THEOREM AttachedStaysUsable == AttachmentSpec => AttachedIsUsable
  <1>1. AttachmentInv /\ [AttachmentNext]_vars
        => [\A p \in Posts : media'[p] # media[p] =>
              asset[media'[p]] = "approved" /\ handle[media'[p]]]_vars
    BY OnlyCommitAttaches
  <1>2. QED
    BY <1>1, AttachmentInvariant, PTL DEF AttachmentSpec, AttachedIsUsable

-----------------------------------------------------------------------------
(* The limit of images. *)

\* A posting holds its board until it ends.
Holds(s) == step[s] \in {"posting", "inserted"} => boardLock[BoardOf[tx[s].thread]] = s

\* Whoever inserted a public reply still has the room it counted.
HasRoom(s) ==
    step[s] = "inserted" /\ ~tx[s].authorized /\ tx[s].post # tx[s].thread =>
        pinned[tx[s].thread] \/ Cardinality(Images(tx[s].thread)) < ImageLimit

LimitInv == \A s \in Writers : Holds(s) /\ HasRoom(s)

LEMMA ImagesAreFinite ==
  ASSUME NEW t PROVE IsFiniteSet(Images(t)) /\ Cardinality(Images(t)) \in Nat
  BY AttachmentAssumption, FS_Subset, FS_CardinalityType DEF Images

\* The images of a thread grow by the post of a reply that commits, and by
\* nothing else.
LEMMA ImagesStep ==
  ASSUME AttachmentInv, [AttachmentNext]_vars, NEW t \in Threads
  PROVE  \/ Images(t)' \subseteq Images(t)
         \/ \E s \in Writers : /\ CommitPost(s) /\ tx[s].thread = t /\ tx[s].post # t
                               /\ Images(t)' \subseteq Images(t) \cup {tx[s].post}
  <1> USE DEF vars, mediaVars, contentVars, policyVars, txVars
  <1>1. CASE RetireStep
    BY <1>1 DEF RetireStep, LockRetire, DecideRetire, CommitRetire, Rollback, Images
  <1>2. CASE OtherStep
    <2>1. ASSUME NEW u \in Threads, OpenThread(u) PROVE Images(t)' \subseteq Images(t)
      <3>1. media[u] = None
        BY <2>1 DEF OpenThread, AttachmentInv, PlaceInv, AttachmentTypeOK, Posts
      <3>2. place' = [place EXCEPT ![u] = u] /\ UNCHANGED <<media, text, fileDeleted>>
        BY <2>1 DEF OpenThread
      <3>3. QED
        BY <3>1, <3>2 DEF Images, AttachmentInv, AttachmentTypeOK, Posts
    <2>2. ASSUME NEW p \in Posts, DeleteFile(p) \/ DeletePost(p)
          PROVE  Images(t)' \subseteq Images(t)
      <3>1. UNCHANGED <<place, media>>
        BY <2>2 DEF DeleteFile, DeletePost
      <3>2. \A q \in Posts : /\ text'[q] = "live" => text[q] = "live"
                             /\ ~fileDeleted'[q] => ~fileDeleted[q]
        <4>1. CASE DeleteFile(p)
          BY <4>1 DEF DeleteFile, AttachmentInv, AttachmentTypeOK
        <4>2. CASE DeletePost(p)
          BY <4>2 DEF DeletePost
        <4>3. QED
          BY <2>2, <4>1, <4>2
      <3>3. ASSUME NEW q, q \in Images(t)' PROVE q \in Images(t)
        <4>1. q \in Posts \ {t} /\ place'[q] = t /\ media'[q] # None /\ text'[q] = "live" /\ ~fileDeleted'[q]
          BY <3>3 DEF Images
        <4>2. q \in Posts \ {t} /\ place[q] = t /\ media[q] # None /\ text[q] = "live" /\ ~fileDeleted[q]
          BY <3>1, <3>2, <4>1
        <4>3. QED
          BY <4>2 DEF Images
      <3>4. QED
        BY <3>3
    <2>3. CASE UNCHANGED <<place, media, text, fileDeleted>>
      BY <2>3 DEF Images
    <2>4. QED
      BY <1>2, <2>1, <2>2, <2>3
      DEF OtherStep, Approve, Elapse, ForgetJob, ForgetOutput, SetPinned, ForceArchive, Expire,
          SwitchStaffOnly, SetRetention
  <1>3. ASSUME NEW s \in Writers, CommitPost(s)
        PROVE  \/ Images(t)' \subseteq Images(t)
               \/ /\ tx[s].thread = t /\ tx[s].post # t
                  /\ Images(t)' \subseteq Images(t) \cup {tx[s].post}
    <2>1. /\ place' = [place EXCEPT ![tx[s].post] = tx[s].thread]
          /\ media' = [media EXCEPT ![tx[s].post] = tx[s].upload]
          /\ UNCHANGED <<text, fileDeleted>>
      BY <1>3 DEF CommitPost
    <2>2. tx[s].post \in Posts /\ place \in [Posts -> Threads \cup {None}]
          /\ media \in [Posts -> Uploads \cup {None}]
      BY <1>3 DEF CommitPost, AttachmentInv, AttachmentTypeOK, WriterInv, WriterOK, Target
    <2>3. Images(t)' \subseteq Images(t) \cup {tx[s].post}
      BY <2>1, <2>2 DEF Images
    <2>4. CASE tx[s].thread # t \/ tx[s].post = t
      BY <2>1, <2>2, <2>4 DEF Images
    <2>5. QED
      BY <2>3, <2>4
  <1>4. ASSUME NEW s \in Writers, WriterStep(s), ~CommitPost(s) PROVE Images(t)' \subseteq Images(t)
    BY <1>4 DEF WriterStep, BeginPost, InsertAttachment, Cancel, CommitCancel, Rollback, Images
  <1>5. CASE UNCHANGED vars
    BY <1>5 DEF Images
  <1>6. QED
    BY <1>1, <1>2, <1>3, <1>4, <1>5 DEF AttachmentNext

\* A lock that a writer keeps is taken by nobody and given up by nobody else.
LEMMA HoldsStep ==
  ASSUME AttachmentInv, LimitInv, [AttachmentNext]_vars, NEW s \in Writers
  PROVE  Holds(s)'
  <1> USE AttachmentAssumption DEF Holds, vars, mediaVars, contentVars, policyVars, txVars
  <1>0. Holds(s) /\ AttachmentTypeOK /\ WriterOK(s) /\ s \in Sessions /\ s # Reconciler
    BY DEF LimitInv, AttachmentInv, WriterInv, Sessions
  <1> USE <1>0 DEF AttachmentTypeOK, Steps
  <1>1. ASSUME NEW r \in Sessions, Release(r) PROVE Holds(s)'
    <2>1. CASE r = s
      BY <1>1, <2>1 DEF Release
    <2>2. CASE r # s
      <3>1. tx'[s] = tx[s] /\ step'[s] = step[s]
        BY <1>1, <2>2 DEF Release
      <3>2. ASSUME step[s] \in {"posting", "inserted"}
            PROVE  boardLock'[BoardOf[tx[s].thread]] = s
        BY <1>1, <2>2, <3>2 DEF Release, WriterOK, Target, Boards
      <3>3. QED
        BY <3>1, <3>2
    <2>3. QED
      BY <2>1, <2>2
  <1>2. ASSUME NEW r \in Writers, NEW u \in Uploads, NEW x \in Threads, NEW p \in Posts,
               NEW authorized \in BOOLEAN, BeginPost(r, u, p, x, authorized)
        PROVE  Holds(s)'
    <2>1. BoardOf[x] \in Boards /\ r \in Sessions
      BY DEF Boards, Sessions
    <2>2. CASE r = s
      BY <1>2, <2>1, <2>2 DEF BeginPost, Start
    <2>3. CASE r # s
      BY <1>2, <2>1, <2>3 DEF BeginPost, Start, Free
    <2>4. QED
      BY <2>2, <2>3
  <1>3. ASSUME NEW r \in Writers, InsertAttachment(r) PROVE Holds(s)'
    BY <1>3 DEF InsertAttachment, Sessions
  <1>4. ASSUME NEW r \in Writers, NEW u \in Uploads, Cancel(r, u) PROVE Holds(s)'
    BY <1>4 DEF Cancel, Start, Sessions
  <1>5. ASSUME NEW u \in Uploads, LockRetire(u) PROVE Holds(s)'
    BY <1>5 DEF LockRetire, Start, Sessions
  <1>6. CASE DecideRetire
    BY <1>6 DEF DecideRetire, Sessions
  <1>7. CASE OtherStep
    BY <1>7 DEF OtherStep, Approve, Elapse, ForgetJob, ForgetOutput, DeleteFile, DeletePost,
                OpenThread, SetPinned, ForceArchive, Expire, SwitchStaffOnly, SetRetention
  <1>8. CASE UNCHANGED vars
    BY <1>8
  <1>9. CASE RetireStep
    BY <1>1, <1>5, <1>6, <1>9 DEF RetireStep, CommitRetire, Rollback, Sessions
  <1>10. ASSUME NEW r \in Writers, WriterStep(r) PROVE Holds(s)'
    BY <1>1, <1>2, <1>3, <1>4, <1>10 DEF WriterStep, CommitPost, CommitCancel, Rollback, Sessions
  <1>11. QED
    BY <1>7, <1>8, <1>9, <1>10 DEF AttachmentNext

\* Who is about to commit has just inserted, or its transaction and the pin of
\* its thread are what they were.
LEMMA InsertedStays ==
  ASSUME AttachmentInv, LimitInv, [AttachmentNext]_vars, NEW s \in Writers, step'[s] = "inserted"
  PROVE  \/ InsertAttachment(s)
         \/ /\ step[s] = "inserted" /\ tx'[s] = tx[s]
            /\ pinned'[tx[s].thread] = pinned[tx[s].thread]
  <1> USE AttachmentAssumption DEF vars, mediaVars, contentVars, policyVars, txVars
  <1>0. Holds(s) /\ AttachmentTypeOK /\ WriterOK(s) /\ s \in Sessions /\ s # Reconciler /\ s # None
    BY DEF LimitInv, AttachmentInv, WriterInv, Sessions
  <1> USE <1>0 DEF AttachmentTypeOK, Steps
  <1>1. ASSUME NEW r \in Sessions, Release(r), UNCHANGED pinned
        PROVE  step[s] = "inserted" /\ tx'[s] = tx[s] /\ pinned'[tx[s].thread] = pinned[tx[s].thread]
    BY <1>1 DEF Release
  <1>2. ASSUME NEW t \in Threads, SetPinned(t)
        PROVE  step[s] = "inserted" /\ tx'[s] = tx[s] /\ pinned'[tx[s].thread] = pinned[tx[s].thread]
    <2>1. step[s] = "inserted" /\ tx'[s] = tx[s] /\ pinned' = [pinned EXCEPT ![t] = ~pinned[t]]
      BY <1>2 DEF SetPinned
    <2>2. tx[s].thread # t
      BY <1>2, <2>1 DEF SetPinned, Holds, Free
    <2>3. QED
      BY <2>1, <2>2
  <1>3. CASE OtherStep
    <2>1. CASE UNCHANGED <<pinned, step, tx>>
      BY <2>1
    <2>2. QED
      BY <1>2, <1>3, <2>1
      DEF OtherStep, Approve, Elapse, ForgetJob, ForgetOutput, DeleteFile, DeletePost,
          OpenThread, ForceArchive, Expire, SwitchStaffOnly, SetRetention
  <1>4. ASSUME NEW r \in Writers, WriterStep(r), ~InsertAttachment(s)
        PROVE  step[s] = "inserted" /\ tx'[s] = tx[s] /\ pinned'[tx[s].thread] = pinned[tx[s].thread]
    <2>1. CASE InsertAttachment(r)
      BY <1>4, <2>1 DEF InsertAttachment, Sessions
    <2>2. ASSUME NEW u \in Uploads, NEW x \in Threads, NEW p \in Posts,
                 NEW authorized \in BOOLEAN, BeginPost(r, u, p, x, authorized)
          PROVE  step[s] = "inserted" /\ tx'[s] = tx[s] /\ pinned'[tx[s].thread] = pinned[tx[s].thread]
      BY <2>2 DEF BeginPost, Start, Sessions
    <2>3. ASSUME NEW u \in Uploads, Cancel(r, u)
          PROVE  step[s] = "inserted" /\ tx'[s] = tx[s] /\ pinned'[tx[s].thread] = pinned[tx[s].thread]
      BY <2>3 DEF Cancel, Start, Sessions
    <2>4. QED
      BY <1>1, <1>4, <2>1, <2>2, <2>3 DEF WriterStep, CommitPost, CommitCancel, Rollback, Sessions
  <1>5. CASE RetireStep
    BY <1>1, <1>5 DEF RetireStep, LockRetire, DecideRetire, CommitRetire, Rollback, Start, Sessions
  <1>6. CASE UNCHANGED vars
    BY <1>6
  <1>7. QED
    BY <1>3, <1>4, <1>5, <1>6 DEF AttachmentNext

\* Nobody else adds an image to a thread while its board is held.
LEMMA HasRoomStep ==
  ASSUME AttachmentInv, LimitInv, [AttachmentNext]_vars, NEW s \in Writers
  PROVE  HasRoom(s)'
  <1> DEFINE t == tx[s].thread
  <1> SUFFICES ASSUME step'[s] = "inserted" PROVE HasRoom(s)'
    BY DEF HasRoom
  <1>1. CASE InsertAttachment(s)
    <2>1. /\ UNCHANGED <<tx, pinned, place, media, text, fileDeleted>>
          /\ tx[s].authorized \/ pinned[t] \/ tx[s].post = t \/ Cardinality(Images(t)) < ImageLimit
      BY <1>1 DEF InsertAttachment, contentVars
    <2>2. QED
      BY <2>1 DEF HasRoom, Images
  <1>2. CASE ~InsertAttachment(s)
    <2>1. /\ step[s] = "inserted" /\ tx'[s] = tx[s]
          /\ pinned'[t] = pinned[t]
      BY <1>2, InsertedStays
    <2>2. t \in Threads /\ HasRoom(s) /\ Holds(s)
      BY <2>1 DEF LimitInv, AttachmentInv, WriterInv, WriterOK, Target
    <2>3. PICK x \in Threads : x = t
      BY <2>2
    <2>4. Images(x)' \subseteq Images(x)
      <3>1. ASSUME NEW r \in Writers, CommitPost(r), tx[r].thread = x PROVE FALSE
        <4>1. boardLock[BoardOf[x]] = r
          BY <3>1 DEF LimitInv, Holds, CommitPost
        <4>2. r = s
          BY <2>1, <2>2, <2>3, <4>1 DEF Holds
        <4>3. QED
          BY <2>1, <3>1, <4>2 DEF CommitPost, Release, AttachmentInv, AttachmentTypeOK, Sessions
      <3>2. QED
        BY <3>1, ImagesStep
    <2>5. Cardinality(Images(x)') <= Cardinality(Images(x)) /\ Cardinality(Images(x)') \in Nat
      BY <2>4, ImagesAreFinite, FS_Subset, FS_CardinalityType
    <2>6. Cardinality(Images(x)) \in Nat /\ ImageLimit \in Nat
      BY ImagesAreFinite, AttachmentAssumption
    <2>7. ~tx'[s].authorized /\ tx'[s].post # x =>
             pinned'[x] \/ Cardinality(Images(x)') < ImageLimit
      BY <2>1, <2>2, <2>3, <2>5, <2>6 DEF HasRoom
    <2>8. tx'[s].thread = x
      BY <2>1, <2>3
    <2>9. QED
      BY <2>7, <2>8 DEF HasRoom, Images
  <1>3. QED
    BY <1>1, <1>2

LEMMA LimitInvariant == AttachmentSpec => []LimitInv
  <1>1. AttachmentInit => LimitInv
    BY DEF AttachmentInit, LimitInv, Holds, HasRoom, Sessions
  <1>2. AttachmentInv /\ LimitInv /\ [AttachmentNext]_vars => LimitInv'
    BY HoldsStep, HasRoomStep DEF LimitInv
  <1>3. QED
    BY <1>1, <1>2, AttachmentInvariant, PTL DEF AttachmentSpec

\* What was counted when the attachment was inserted is right at the commit, so
\* only staff authority exceeds the limit.
LEMMA LimitStep ==
  ASSUME AttachmentInv, LimitInv, [AttachmentNext]_vars, NEW t \in Threads,
         Cardinality(Images(t)') > ImageLimit, ~(Images(t)' \subseteq Images(t)), ~pinned[t]
  PROVE  \E s \in Writers : CommitPost(s) /\ tx[s].authorized
  <1>1. PICK s \in Writers : /\ CommitPost(s) /\ tx[s].thread = t /\ tx[s].post # t
                             /\ Images(t)' \subseteq Images(t) \cup {tx[s].post}
    BY ImagesStep
  <1>2. CASE ~tx[s].authorized
    <2>1. Cardinality(Images(t)) < ImageLimit
      BY <1>1, <1>2 DEF LimitInv, HasRoom, CommitPost
    <2>2. PICK more : more = Images(t) \cup {tx[s].post}
      OBVIOUS
    <2>4. IsFiniteSet(Images(t)) /\ Cardinality(Images(t)) \in Nat
      BY ImagesAreFinite
    <2>5. IsFiniteSet(more) /\ Cardinality(more) <= Cardinality(Images(t)) + 1
      <3>1. ASSUME NEW S, NEW x, IsFiniteSet(S), Cardinality(S) \in Nat
            PROVE  IsFiniteSet(S \cup {x}) /\ Cardinality(S \cup {x}) <= Cardinality(S) + 1
        <4>1. Cardinality(S \cup {x}) \in {Cardinality(S), Cardinality(S) + 1}
          BY <3>1, FS_AddElement
        <4>2. QED
          BY <3>1, <4>1, FS_AddElement
      <3>2. QED
        BY <2>2, <2>4, <3>1
    <2>6. Cardinality(more) \in Nat
      BY <2>5, FS_CardinalityType
    <2>7. Cardinality(Images(t)') <= Cardinality(more) /\ Cardinality(Images(t)') \in Nat
      BY <1>1, <2>2, <2>5, FS_Subset, FS_CardinalityType
    <2>8. QED
      BY <2>1, <2>4, <2>5, <2>6, <2>7, AttachmentAssumption
  <1>3. QED
    BY <1>1, <1>2

\* Whatever is posted at the same time, no public post takes an ordinary thread
\* beyond its limit of images.
THEOREM LimitIsPublic == AttachmentSpec => PublicLimit
  <1>1. AttachmentInv /\ LimitInv /\ [AttachmentNext]_vars
        => [\A t \in Threads :
              Cardinality(Images(t)') > ImageLimit /\ ~(Images(t)' \subseteq Images(t)) /\ ~pinned[t]
              => \E s \in Writers : CommitPost(s) /\ tx[s].authorized]_vars
    BY LimitStep
  <1>2. QED
    BY <1>1, AttachmentInvariant, LimitInvariant, PTL DEF AttachmentSpec, PublicLimit
=============================================================================
