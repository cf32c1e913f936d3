--------------------------- MODULE PostAttachment ---------------------------
(***************************************************************************)
(* How an approved upload becomes the file of a post and how its output is *)
(* retired: content.insert_post_attachment, consume_staff_attachment_      *)
(* receipt, cancel_attachment_upload, delete_post_attachment and media.    *)
(* retire_output, with the boards, threads and posts they read.            *)
(*                                                                         *)
(* A writer is a database transaction.  What it wrote is seen by others    *)
(* when it commits; until then it holds row locks, in the order board,     *)
(* thread, job.  Whoever locks a thread has locked its board, so one lock  *)
(* per board stands for both.  Retirement takes the job lock alone.        *)
(*                                                                         *)
(* A thread is named by its first post.  Refusals that only depend on the  *)
(* request (its size, its format, a closed thread) and every later failure *)
(* of the posting transaction are the same step, Rollback.                 *)
(***************************************************************************)
EXTENDS Naturals, FiniteSets

CONSTANTS
    Uploads,         \* media jobs, each with the output it may get
    Threads,         \* post numbers that open a thread
    Replies,         \* post numbers of replies
    BoardOf,         \* the board of a thread
    Writers,         \* connections that post or cancel
    Reconciler,      \* the one process of media-publish reconcile
    ImageLimit,      \* boards.image_limit
    SwitchedBoards,  \* boards whose visibility the operator changes
    None             \* no upload, no post, no lock holder

Posts == Threads \cup Replies
Sessions == Writers \cup {Reconciler}
Boards == {BoardOf[t] : t \in Threads}

ASSUME AttachmentAssumption ==
    /\ None \notin Uploads \cup Posts \cup Sessions
    /\ Reconciler \notin Writers
    /\ Threads \cap Replies = {}
    /\ DOMAIN BoardOf = Threads
    /\ ImageLimit \in Nat
    /\ IsFiniteSet(Posts)

VARIABLES
    job,          \* media.jobs.state, as far as attachments tell it apart
    handle,       \* media_intake.handles has the capability
    age,          \* since the reservation, then since the approval
    asset,        \* media.assets.state
    thread,       \* content.threads: absent, active, archived, expired, deleted
    pinned,       \* the thread is sticky or undead
    place,        \* content.posts.thread_id, None before the post
    text,         \* content.posts: live or deleted
    media,        \* content.post_media.job_id of a post
    fileDeleted,  \* content.post_media.file_deleted of a post
    staffOnly,    \* content.boards.staff_only
    archives,     \* content.boards.archive_retention_seconds <> 0
    boardLock,    \* who holds the row lock of a board
    jobLock,      \* who holds the row lock of a job
    step,         \* how far the transaction of a session is
    tx            \* what it is about

mediaVars == <<job, handle, age, asset>>
contentVars == <<thread, pinned, place, text, media, fileDeleted>>
policyVars == <<staffOnly, archives>>
txVars == <<boardLock, jobLock, step, tx>>
vars == <<mediaVars, contentVars, policyVars, txVars>>

Steps == {"idle", "posting", "inserted", "cancelling", "holding", "retiring"}
NoTx == [upload |-> None, post |-> None, thread |-> None, authorized |-> FALSE]

AttachmentInit ==
    /\ job = [u \in Uploads |-> "unfinished"]
    /\ handle = [u \in Uploads |-> TRUE]
    /\ age = [u \in Uploads |-> "fresh"]
    /\ asset = [u \in Uploads |-> "none"]
    /\ thread = [t \in Threads |-> "absent"]
    /\ pinned = [t \in Threads |-> FALSE]
    /\ place = [p \in Posts |-> None]
    /\ text = [p \in Posts |-> "live"]
    /\ media = [p \in Posts |-> None]
    /\ fileDeleted = [p \in Posts |-> FALSE]
    /\ staffOnly = [b \in Boards |-> FALSE]
    /\ archives = [b \in Boards |-> TRUE]
    /\ boardLock = [b \in Boards |-> None]
    /\ jobLock = [u \in Uploads |-> None]
    /\ step = [s \in Sessions |-> "idle"]
    /\ tx = [s \in Sessions |-> NoTx]

-----------------------------------------------------------------------------
(* What a statement sees. *)

\* Fault: an archived thread counts as gone.
VisibleWhileActive(t) == thread[t] = "active" /\ ~staffOnly[BoardOf[t]]

\* content.visible_threads, as any login but the staff's sees it.
Visible(t) ==
    /\ ~staffOnly[BoardOf[t]]
    /\ thread[t] = "active" \/ (thread[t] = "archived" /\ archives[BoardOf[t]])

\* Fault: the deletion of a file gives the upload back.
AttachedNow(u) == \E p \in Posts : media[p] = u /\ ~fileDeleted[p]

\* A committed row of content.post_media names the job.  Its rows are never
\* deleted.  The UNIQUE constraint on job_id is not part of the model:
\* AttachedOnce says that it never has anything to refuse.
Consumed(u) == \E p \in Posts : media[p] = u

\* The replies of a thread whose files are counted against the limit.
Images(t) == {p \in Posts \ {t} :
    place[p] = t /\ media[p] # None /\ text[p] = "live" /\ ~fileDeleted[p]}

\* The capability is stored and its two hours have not passed.
Usable(u) == job[u] # "forgotten" /\ handle[u] /\ age[u] = "fresh"

\* media.retirable_outputs: no post shows the output, or no post can.
Retirable(u) ==
    /\ asset[u] = "approved"
    /\ \/ \E p \in Posts : media[p] = u /\
            (fileDeleted[p] \/ text[p] = "deleted" \/ ~Visible(place[p]))
       \/ ~Consumed(u) /\ age[u] = "old" /\ ~Usable(u)

\* make_room for a new thread: as many of the board's oldest threads as the
\* limit asks for leave the index, and what is past its deadline is deleted.
RoomMade(b, left) == [x \in Threads |->
    IF BoardOf[x] # b THEN thread[x]
    ELSE IF x \in left THEN IF archives[b] THEN "archived" ELSE "deleted"
    ELSE IF thread[x] = "expired" /\ archives[b] THEN "deleted" ELSE thread[x]]

\* The threads once post p is in thread t: a first post makes room, a reply
\* may be the one that archives its thread (autoarchive_after_reply).
ThreadsAfter(p, t) ==
    LET b == BoardOf[t]
        victims == {x \in Threads : BoardOf[x] = b /\ thread[x] = "active" /\ ~pinned[x]}
    IN  IF p = t
        THEN {[RoomMade(b, left) EXCEPT ![t] = "active"] : left \in SUBSET victims}
        ELSE {thread} \cup {[thread EXCEPT ![x] = "archived"] :
                                x \in IF archives[b] THEN {t} \cap victims ELSE {}}

\* The transaction ends; its locks go with it.
Release(s) ==
    /\ step' = [step EXCEPT ![s] = "idle"]
    /\ tx' = [tx EXCEPT ![s] = NoTx]
    /\ boardLock' = [b \in Boards |-> IF boardLock[b] = s THEN None ELSE boardLock[b]]
    /\ jobLock' = [u \in Uploads |-> IF jobLock[u] = s THEN None ELSE jobLock[u]]

Idle(s) == step[s] = "idle"
JustUpload(u) == [upload |-> u, post |-> None, thread |-> None, authorized |-> FALSE]

Start(s, how, what) ==
    /\ step' = [step EXCEPT ![s] = how]
    /\ tx' = [tx EXCEPT ![s] = what]
Free(b) == boardLock[b] = None

\* SELECT ... FROM media.jobs FOR UPDATE: a row that is gone is not locked.
LockJob(s, u) ==
    /\ jobLock[u] = None
    /\ jobLock' = IF job[u] = "forgotten" THEN jobLock ELSE [jobLock EXCEPT ![u] = s]

-----------------------------------------------------------------------------
(* Posting with a file, by the public or by authorized staff. *)

\* Fault: the board is read and not locked.
BeginUnlocked(s, u, p, t, authorized) ==
    /\ Idle(s) /\ place[p] = None /\ \A r \in Sessions : tx[r].post # p
    /\ ~staffOnly[BoardOf[t]]
    /\ IF p = t THEN thread[t] = "absent" ELSE p \in Replies /\ thread[t] = "active"
    /\ Start(s, "posting", [upload |-> u, post |-> p, thread |-> t, authorized |-> authorized])
    /\ UNCHANGED <<mediaVars, contentVars, policyVars, boardLock, jobLock>>

\* Board and thread are locked.  The post number comes from a sequence; a
\* first post creates its thread in the same transaction.
BeginPost(s, u, p, t, authorized) ==
    LET b == BoardOf[t] IN
    /\ Idle(s) /\ place[p] = None /\ \A r \in Sessions : tx[r].post # p
    /\ Free(b) /\ ~staffOnly[b]
    /\ IF p = t THEN thread[t] = "absent" ELSE p \in Replies /\ thread[t] = "active"
    /\ boardLock' = [boardLock EXCEPT ![b] = s]
    /\ Start(s, "posting", [upload |-> u, post |-> p, thread |-> t, authorized |-> authorized])
    /\ UNCHANGED <<mediaVars, contentVars, policyVars, jobLock>>

\* The job is locked; handle, expiry, state, earlier use, approval and the
\* limit of the thread are read behind the lock; post and attachment are
\* inserted.  Staff authority lifts the limit; an opening post and a sticky
\* or undead thread have none.
InsertAttachment(s) ==
    LET u == tx[s].upload   t == tx[s].thread IN
    /\ step[s] = "posting"
    /\ LockJob(s, u)
    /\ Usable(u)
    /\ job[u] = "published" /\ ~Consumed(u) /\ asset[u] = "approved"
    /\ ImageLimit > 0
    /\ tx[s].authorized \/ pinned[t] \/ tx[s].post = t \/ Cardinality(Images(t)) < ImageLimit
    /\ step' = [step EXCEPT ![s] = "inserted"]
    /\ UNCHANGED <<mediaVars, contentVars, policyVars, boardLock, tx>>

CommitPost(s) ==
    LET p == tx[s].post   t == tx[s].thread IN
    /\ step[s] = "inserted"
    /\ place' = [place EXCEPT ![p] = t]
    /\ media' = [media EXCEPT ![p] = tx[s].upload]
    /\ thread' \in ThreadsAfter(p, t)
    /\ Release(s)
    /\ UNCHANGED <<mediaVars, pinned, text, fileDeleted, policyVars>>

\* A refusal, an error, a Robot9000 rejection or a lost connection.
Rollback(s) ==
    /\ ~Idle(s)
    /\ Release(s)
    /\ UNCHANGED <<mediaVars, contentVars, policyVars>>

-----------------------------------------------------------------------------
(* Cancelling an upload. *)

\* Fault: the row is read and not locked.
CancelUnlocked(s, u) ==
    /\ Idle(s)
    /\ Usable(u) /\ ~Consumed(u)
    /\ Start(s, "cancelling", JustUpload(u))
    /\ UNCHANGED <<mediaVars, contentVars, policyVars, boardLock, jobLock>>

\* cancel_attachment_upload: DELETE FROM media_intake.handles ...
Cancel(s, u) ==
    /\ Idle(s)
    /\ LockJob(s, u)
    /\ Usable(u) /\ ~Consumed(u)
    /\ Start(s, "cancelling", JustUpload(u))
    /\ UNCHANGED <<mediaVars, contentVars, policyVars, boardLock>>

\* ... COMMIT.
CommitCancel(s) ==
    /\ step[s] = "cancelling"
    /\ handle' = [handle EXCEPT ![tx[s].upload] = FALSE]
    /\ Release(s)
    /\ UNCHANGED <<job, age, asset, contentVars, policyVars>>

WriterStep(s) ==
    \/ \E u \in Uploads, t \in Threads, p \in Posts, authorized \in BOOLEAN :
            BeginPost(s, u, p, t, authorized)
    \/ InsertAttachment(s)
    \/ CommitPost(s)
    \/ \E u \in Uploads : Cancel(s, u)
    \/ CommitCancel(s)
    \/ Rollback(s)

-----------------------------------------------------------------------------
(* Retirement. *)

\* Fault: the decision is taken without the job lock.
RetireUnlocked(u) ==
    /\ Idle(Reconciler) /\ asset[u] \in {"approved", "deleting"}
    /\ Start(Reconciler, "holding", JustUpload(u))
    /\ UNCHANGED <<mediaVars, contentVars, policyVars, boardLock, jobLock>>

\* media.retire_output waits for the posting that holds the job.
LockRetire(u) ==
    /\ Idle(Reconciler) /\ asset[u] \in {"approved", "deleting"}
    /\ LockJob(Reconciler, u)
    /\ Start(Reconciler, "holding", JustUpload(u))
    /\ UNCHANGED <<mediaVars, contentVars, policyVars, boardLock>>

\* A statement of its own, after the locks: it sees a posting that committed
\* while retirement waited.  Otherwise the function returns (Rollback).
DecideRetire ==
    /\ step[Reconciler] = "holding"
    /\ Retirable(tx[Reconciler].upload)
    /\ step' = [step EXCEPT ![Reconciler] = "retiring"]
    /\ UNCHANGED <<mediaVars, contentVars, policyVars, boardLock, jobLock, tx>>

CommitRetire ==
    /\ step[Reconciler] = "retiring"
    /\ asset' = [asset EXCEPT ![tx[Reconciler].upload] = "deleting"]
    /\ Release(Reconciler)
    /\ UNCHANGED <<job, handle, age, contentVars, policyVars>>

RetireStep ==
    \/ \E u \in Uploads : LockRetire(u)
    \/ DecideRetire
    \/ CommitRetire
    \/ Rollback(Reconciler)

-----------------------------------------------------------------------------
(* The rest of the system, as far as it changes what is read above. *)

\* The coordinator's approval publishes row and job in one transaction.
Approve(u) ==
    /\ job[u] = "unfinished" /\ jobLock[u] = None
    /\ job' = [job EXCEPT ![u] = "published"]
    /\ asset' = [asset EXCEPT ![u] = "approved"]
    /\ UNCHANGED <<handle, age, contentVars, policyVars, txVars>>

\* Two hours pass since the reservation, or a day since the approval.
Elapse(u) ==
    /\ \/ age[u] = "fresh" /\ age' = [age EXCEPT ![u] = "expired"]
       \/ age[u] = "expired" /\ job[u] = "published" /\ age' = [age EXCEPT ![u] = "old"]
    /\ UNCHANGED <<job, handle, asset, contentVars, policyVars, txVars>>

\* forget_terminal deletes the job, and the handle by ON DELETE CASCADE.
ForgetJob(u) ==
    /\ job[u] = "published" /\ age[u] = "old" /\ jobLock[u] = None
    /\ job' = [job EXCEPT ![u] = "forgotten"]
    /\ handle' = [handle EXCEPT ![u] = FALSE]
    /\ UNCHANGED <<age, asset, contentVars, policyVars, txVars>>

\* forget_output, once the files are gone.
ForgetOutput(u) ==
    /\ asset[u] = "deleting" /\ jobLock[u] = None
    /\ asset' = [asset EXCEPT ![u] = "forgotten"]
    /\ UNCHANGED <<job, handle, age, contentVars, policyVars, txVars>>

\* delete_post_attachment.
DeleteFile(p) ==
    LET t == place[p] IN
    /\ t # None /\ text[p] = "live" /\ Free(BoardOf[t]) /\ Visible(t)
    /\ fileDeleted' = [fileDeleted EXCEPT ![p] = TRUE]
    /\ UNCHANGED <<mediaVars, thread, pinned, place, text, media, policyVars, txVars>>

\* The author (delete_post_in) or the staff: the first post takes the thread and
\* all its posts along.
DeletePost(p) ==
    LET t == place[p] IN
    /\ t # None /\ text[p] = "live" /\ Free(BoardOf[t]) /\ thread[t] # "deleted"
    /\ text' = [q \in Posts |-> IF q = p \/ (p = t /\ place[q] = t) THEN "deleted" ELSE text[q]]
    /\ thread' = IF p = t THEN [thread EXCEPT ![t] = "deleted"] ELSE thread
    /\ UNCHANGED <<mediaVars, pinned, place, media, fileDeleted, policyVars, txVars>>

\* A thread that starts without a file.
OpenThread(t) ==
    /\ thread[t] = "absent" /\ \A r \in Sessions : tx[r].post # t
    /\ Free(BoardOf[t]) /\ ~staffOnly[BoardOf[t]]
    /\ thread' \in ThreadsAfter(t, t)
    /\ place' = [place EXCEPT ![t] = t]
    /\ UNCHANGED <<mediaVars, pinned, text, media, fileDeleted, policyVars, txVars>>

\* The staff set or clear sticky or undead.
SetPinned(t) ==
    /\ thread[t] = "active" /\ Free(BoardOf[t])
    /\ pinned' = [pinned EXCEPT ![t] = ~pinned[t]]
    /\ UNCHANGED <<mediaVars, thread, place, text, media, fileDeleted, policyVars, txVars>>

\* The staff archive it, undead or not, or a reply without a file does.
ForceArchive(t) ==
    /\ thread[t] = "active" /\ Free(BoardOf[t]) /\ archives[BoardOf[t]]
    /\ thread' = [thread EXCEPT ![t] = "archived"]
    /\ UNCHANGED <<mediaVars, pinned, place, text, media, fileDeleted, policyVars, txVars>>

\* The deadline of an archived thread passes.
Expire(t) ==
    /\ thread[t] = "archived"
    /\ thread' = [thread EXCEPT ![t] = "expired"]
    /\ UNCHANGED <<mediaVars, pinned, place, text, media, fileDeleted, policyVars, txVars>>

SwitchStaffOnly(b) ==
    /\ Free(b)
    /\ staffOnly' = [staffOnly EXCEPT ![b] = ~staffOnly[b]]
    /\ UNCHANGED <<mediaVars, contentVars, archives, txVars>>

\* The operator sets archive_retention_seconds.  Zero leaves the deadlines
\* alone; any other value recomputes them (refresh_archive_age_policy).
SetRetention(b) ==
    /\ Free(b)
    /\ \E on \in BOOLEAN, kept \in SUBSET {t \in Threads : BoardOf[t] = b} :
          /\ archives' = [archives EXCEPT ![b] = on]
          /\ thread' = IF ~on THEN thread ELSE [t \in Threads |->
                IF BoardOf[t] = b /\ thread[t] \in {"archived", "expired"}
                THEN IF t \in kept THEN "archived" ELSE "expired"
                ELSE thread[t]]
    /\ UNCHANGED <<mediaVars, pinned, place, text, media, fileDeleted, staffOnly, txVars>>

OtherStep ==
    \/ \E u \in Uploads : Approve(u) \/ Elapse(u) \/ ForgetJob(u) \/ ForgetOutput(u)
    \/ \E p \in Posts : DeleteFile(p) \/ DeletePost(p)
    \/ \E t \in Threads : OpenThread(t) \/ SetPinned(t) \/ ForceArchive(t) \/ Expire(t)
    \/ \E b \in SwitchedBoards : SwitchStaffOnly(b) \/ SetRetention(b)

AttachmentNext == RetireStep \/ OtherStep \/ \E s \in Writers : WriterStep(s)

AttachmentSpec == AttachmentInit /\ [][AttachmentNext]_vars

-----------------------------------------------------------------------------
(* Properties. *)

AttachmentTypeOK ==
    /\ job \in [Uploads -> {"unfinished", "published", "forgotten"}]
    /\ handle \in [Uploads -> BOOLEAN]
    /\ age \in [Uploads -> {"fresh", "expired", "old"}]
    /\ asset \in [Uploads -> {"none", "approved", "deleting", "forgotten"}]
    /\ thread \in [Threads -> {"absent", "active", "archived", "expired", "deleted"}]
    /\ pinned \in [Threads -> BOOLEAN]
    /\ place \in [Posts -> Threads \cup {None}]
    /\ text \in [Posts -> {"live", "deleted"}]
    /\ media \in [Posts -> Uploads \cup {None}]
    /\ fileDeleted \in [Posts -> BOOLEAN]
    /\ staffOnly \in [Boards -> BOOLEAN]
    /\ archives \in [Boards -> BOOLEAN]
    /\ boardLock \in [Boards -> Sessions \cup {None}]
    /\ jobLock \in [Uploads -> Sessions \cup {None}]
    /\ step \in [Sessions -> Steps]
    /\ tx \in [Sessions -> [upload : Uploads \cup {None}, post : Posts \cup {None},
                            thread : Threads \cup {None}, authorized : BOOLEAN]]

\* An upload is the file of one post at most, for ever: not of a second one
\* on another board at the same time, nor after its first post lost it and
\* the queue forgot the job (migrations/0012: `a consumed capability cannot
\* be reused after either cleanup or deletion of its original post').
AttachedOnce == \A p, q \in Posts : media[p] # None /\ media[p] = media[q] => p = q

\* A post number that is not taken has nothing attached, and a thread with
\* posts has been opened.
PlaceInv == \A p \in Posts :
    /\ place[p] = None => media[p] = None
    /\ place[p] # None => thread[place[p]] # "absent"
    /\ p \in Threads => place[p] \in {None, p}

\* No operator touched the boards that are left alone.
PolicyInv == \A b \in Boards : b \notin SwitchedBoards => archives[b] /\ ~staffOnly[b]

\* The queue forgets the capability with the job.
JobInv == \A u \in Uploads : job[u] = "forgotten" => ~handle[u]

\* What a transaction that is going to insert works on.
Target(s) ==
    /\ tx[s].upload \in Uploads /\ tx[s].post \in Posts /\ tx[s].thread \in Threads
    /\ place[tx[s].post] = None
    /\ tx[s].post \in Threads => tx[s].post = tx[s].thread
    /\ (thread[tx[s].thread] = "absent") <=> (tx[s].post = tx[s].thread)
    /\ \A r \in Sessions : r # s => tx[r].post # tx[s].post

\* Everything the insertion checked still holds, because the job is locked.
Checked(s) ==
    LET u == tx[s].upload IN
    /\ jobLock[u] = s
    /\ job[u] = "published" /\ handle[u] /\ asset[u] = "approved" /\ ~Consumed(u)

\* What a writer may rely on at every point of its transaction.
WriterOK(s) ==
    /\ step[s] \in {"idle", "posting", "inserted", "cancelling"}
    /\ step[s] \in {"posting", "inserted"} => Target(s)
    /\ step[s] = "inserted" => Checked(s)
    /\ step[s] = "cancelling" => tx[s].upload \in Uploads /\ jobLock[tx[s].upload] = s

WriterInv == \A s \in Writers : WriterOK(s)

\* No post will show the file again, unless the operator acts.
GoneForGood(p) ==
    \/ fileDeleted[p] \/ text[p] = "deleted"
    \/ thread[place[p]] \notin {"active", "archived"}
    \/ BoardOf[place[p]] \in SwitchedBoards

\* The decision to retire stands until it commits.
ReconcilerInv ==
    LET u == tx[Reconciler].upload IN
    /\ step[Reconciler] \in {"idle", "holding", "retiring"}
    /\ step[Reconciler] # "idle" => u \in Uploads /\ (job[u] = "forgotten" \/ jobLock[u] = Reconciler)
    /\ step[Reconciler] = "retiring" => \A p \in Posts : media[p] = u => GoneForGood(p)

\* A file that is gone belongs to a post that will not show it again.
FileInv == \A p \in Posts :
    media[p] # None /\ asset[media[p]] # "approved" => GoneForGood(p)

\* The inductive invariant: what a posting, a cancellation or a retirement
\* established behind the lock of the job holds until it commits.
AttachmentInv ==
    /\ AttachmentTypeOK
    /\ PlaceInv
    /\ PolicyInv
    /\ JobInv
    /\ WriterInv
    /\ ReconcilerInv
    /\ FileInv
    /\ AttachedOnce

\* A post that is up shows its file: no reconcile pass takes the file of a
\* live post in a live or archived thread, as long as the operator leaves
\* the visibility settings of the board alone.
ShownFilesKept == \A p \in Posts :
    /\ media[p] # None /\ text[p] = "live" /\ ~fileDeleted[p]
    /\ thread[place[p]] \in {"active", "archived"}
    /\ BoardOf[place[p]] \notin SwitchedBoards
    => asset[media[p]] = "approved"

\* Disabling archives `hides archives but does not erase their storage or
\* replace deadlines with immediate expiry' (migrations/0138:75-76), and
\* `retained archives are not eligible, regardless of age' (docs/post-
\* attachments.md:81): an archived post whose deadline has not passed keeps
\* its file.
RetainedArchivesKept == \A p \in Posts :
    /\ media[p] # None /\ text[p] = "live" /\ ~fileDeleted[p]
    /\ thread[place[p]] = "archived" /\ ~staffOnly[BoardOf[place[p]]]
    => asset[media[p]] = "approved"

\* A post never appears with a file that is being removed, nor with an upload
\* whose cancellation succeeded: at the moment the posting transaction commits
\* the output is approved and the capability stored, however long ago they were
\* looked up.
AttachedIsUsable == [][\A p \in Posts : media'[p] # media[p] =>
    asset[media'[p]] = "approved" /\ handle[media'[p]]]_vars

\* Only staff authority takes an ordinary thread beyond its image limit,
\* whatever is posted at the same time.
PublicLimit == [][\A t \in Threads :
    Cardinality(Images(t)') > ImageLimit /\ ~(Images(t)' \subseteq Images(t)) /\ ~pinned[t]
    => \E s \in Writers : CommitPost(s) /\ tx[s].authorized]_vars
=============================================================================
