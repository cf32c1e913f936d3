-------------------------- MODULE MCPostAttachment --------------------------
(* Model checking of PostAttachment on small sets of boards and threads. *)
EXTENDS PostAttachment, TLC

CONSTANTS t1, t2, t3, b1, b2, u1, u2, r1, r2

\* A board with two threads, of which a new one may displace the other, and a
\* second board; or a thread on each of two boards.
ThreeThreads == t1 :> b1 @@ t2 :> b2 @@ t3 :> b1
TwoBoards == t1 :> b1 @@ t2 :> b2

WriterSymmetry == Permutations(Writers)

Posting == {s \in Writers : tx[s].post # None}

\* One upload opens threads on two boards, and nobody switches a board.
OneUpload ==
    /\ job[u2] = "unfinished" /\ age[u2] = "fresh" /\ handle[u2]
    /\ \A s \in Writers : tx[s].upload # u2
    /\ \A p \in Replies : place[p] = None
    /\ ~pinned[t2]
    /\ \A b \in Boards : ~staffOnly[b] /\ archives[b]
    /\ \A s \in Posting : tx[s].upload = u1 /\ tx[s].post \in Threads /\ ~tx[s].authorized

\* Two uploads that nobody cancels, each the file of its own reply to one
\* thread, on the board that is switched.
OneThread ==
    /\ \A u \in Uploads : age[u] = "fresh" /\ handle[u]
    /\ \A s \in Writers : step[s] # "cancelling"
    /\ \A t \in {t1, t3} : thread[t] = "absent"
    /\ \A s \in Posting : \/ tx[s].upload = u1 /\ tx[s].post = r1 /\ ~tx[s].authorized
                          \/ tx[s].upload = u2 /\ tx[s].post = r2

Focus == OneUpload \/ OneThread

FocusSpec == AttachmentInit /\ [][AttachmentNext /\ Focus']_vars
=============================================================================
