----------------------------- MODULE BoardPosting -----------------------------
(***************************************************************************)
(* How a public post gets onto a board: create_post_in_context of the      *)
(* store's write.rs, with the gates of content.lock_posting_actor, the     *)
(* rollover and autoarchive of archives.rs, Robot9000, and the moderation  *)
(* and deletion that compete with it for the row of the board.             *)
(*                                                                         *)
(* A writer is a database transaction under READ COMMITTED.  It works on   *)
(* the board as it stood when it got the lock of the board's row, and      *)
(* others see what it wrote when it commits.  Post numbers come from a     *)
(* sequence that all boards share and no rollback gives back.              *)
(*                                                                         *)
(* A thread is named by its first post.  A refusal that leaves nothing     *)
(* behind (a filter, a timer, a full thread, a lost connection) is the     *)
(* same step at any moment, Abandon.                                       *)
(***************************************************************************)
EXTENDS Integers, FiniteSets

CONSTANTS
    Boards,
    Actors,          \* posting identities, each with a gate of its own
    Texts,           \* comments as Robot9000 tells them apart
    Writers,         \* connections that post
    Robot,           \* boards with robot9000
    Late,            \* boards with captcha_enabled: classifiers run last
    Archiving,       \* boards with archive_retention_seconds <> 0
    ThreadLimit,     \* boards.thread_limit
    ReplyLimit,      \* boards.reply_limit
    AutoarchiveCap,  \* boards.autoarchive_cap, 0 when off
    CrossSeconds,    \* the 300 seconds between threads on different boards
    MuteSeconds,     \* how long Robot9000 mutes
    TextSeconds,     \* the two years after which a text may be forgotten
    Nobody,          \* no actor, no board
    NoText,          \* the comment of a post that is erased or not there
    MaxNumber,       \* bound: numbers of the sequence
    MaxTime          \* bound: seconds of the clock

Numbers == 1 .. MaxNumber
Times == 0 .. MaxTime
NewThread == 0                       \* the parent of a post that opens a thread
Never == -1

ASSUME PostingAssumption ==
    /\ Robot \subseteq Boards /\ Late \subseteq Boards /\ Archiving \subseteq Boards
    /\ ThreadLimit \in Nat \ {0} /\ ReplyLimit \in Nat \ {0} /\ AutoarchiveCap \in Nat
    /\ CrossSeconds \in Nat /\ MuteSeconds \in Nat \ {0} /\ TextSeconds \in Nat
    /\ MaxNumber \in Nat /\ MaxTime \in Nat
    /\ NoText \notin Texts /\ Nobody \notin Boards \cup Actors

VARIABLES
    number,   \* content.post_number: the last number it gave
    now,      \* the clock of the database
    content,  \* what is committed on each board
    actions,  \* post_secrets.posting_thread_actions.request_at
    step,     \* how far the transaction of a writer is
    req,      \* the post it is to write
    view,     \* the board as its transaction sees it
    saved,    \* the board as SAVEPOINT robot9000_post has it
    mark      \* the number it drew and what Robot9000 decided, and when

txVars == <<step, req, view, saved, mark>>
vars == <<number, now, content, actions, txVars>>

-----------------------------------------------------------------------------
(* A board: its threads; its posts, with created_at, and those of them that  *)
(* have the capcode 'verified'; when Robot9000 last saw a text, and until    *)
(* when it mutes.                                                            *)

Absent == [state |-> "absent", sticky |-> FALSE, undead |-> FALSE, closed |-> FALSE, count |-> 0]
Fresh == [Absent EXCEPT !.state = "active"]
\* guard_thread_erasure resets every column of a thread that goes.
Erased == [Absent EXCEPT !.state = "deleted"]

Empty == [thread |-> [n \in Numbers |-> Absent],
          place |-> [n \in Numbers |-> NewThread],
          live |-> {},
          verified |-> {},
          text |-> [n \in Numbers |-> NoText],
          born |-> [n \in Numbers |-> 0],
          seen |-> [x \in Texts |-> Never],
          mute |-> [a \in Actors |-> Never]]

Replies(c, t) == {p \in c.live : c.place[p] = t /\ p # t}
Active(c) == {t \in Numbers : c.thread[t].state = "active"}
Archived(c) == {t \in Numbers : c.thread[t].state = "archived"}
Pinned(h) == h.sticky /\ h.undead

\* Fault: a thread that must not die is displaced like any other.
OrdinaryUndead(c) == {t \in Active(c) : ~c.thread[t].sticky}

Ordinary(c) == {t \in Active(c) : ~c.thread[t].sticky /\ ~c.thread[t].undead}

\* The posts go, with all that is stored of them.
Drop(c, posts) ==
    [c EXCEPT !.live = @ \ posts,
              !.verified = @ \ posts,
              !.text = [p \in Numbers |-> IF p \in posts THEN NoText ELSE c.text[p]],
              !.born = [p \in Numbers |-> IF p \in posts THEN 0 ELSE c.born[p]]]

\* erase_thread_descendants: the posts of a thread that goes, go with it.
EraseThreads(c, gone) ==
    Drop([c EXCEPT !.thread = [t \in Numbers |-> IF t \in gone THEN Erased ELSE c.thread[t]]],
         {p \in c.live : c.place[p] \in gone})

Archive(c, old) ==
    [c EXCEPT !.thread = [t \in Numbers |->
        IF t \in old THEN [c.thread[t] EXCEPT !.state = "archived"] ELSE c.thread[t]]]

-----------------------------------------------------------------------------
(* Admission. *)

Autoarchives(b) == AutoarchiveCap > 0 /\ b \in Archiving
OrdinaryReplyLimit == IF ReplyLimit > AutoarchiveCap THEN ReplyLimit ELSE AutoarchiveCap

\* The oldest replies of a pinned thread make room for new ones.
Windowed(h) == Pinned(h) /\ ReplyLimit > 1

\* Threads whose ceiling counts the replies that are left, not all there were.
CountsSurvivors(b, h) == Autoarchives(b) /\ ~h.sticky /\ ~h.undead

HasRoom(c, b, t) ==
    IF CountsSurvivors(b, c.thread[t])
    THEN Cardinality(Replies(c, t)) < OrdinaryReplyLimit
    ELSE c.thread[t].count < ReplyLimit \/ Windowed(c.thread[t])

TakesReplies(c, b, t) == t \in Active(c) /\ ~c.thread[t].closed /\ HasRoom(c, b, t)

\* check_posting_cooldown, cross_board_thread, by the clock after the locks.
Paced(a, b) == \A d \in Boards \ {b} : actions[a][d] = Never \/ actions[a][d] + CrossSeconds < now

-----------------------------------------------------------------------------
(* What the post changes. *)

\* make_room: the threads that leave when there is no slot for another, and
\* the archives that have expired.  Which threads are the oldest, and which
\* archives have expired, is left open.
Leaves(c, old) ==
    Cardinality(old) = IF Cardinality(Ordinary(c)) < ThreadLimit
                       THEN 0 ELSE Cardinality(Ordinary(c)) - ThreadLimit + 1

MakeRoom(c, b, old, expired) ==
    IF b \in Archiving THEN EraseThreads(Archive(c, old), expired)
                       ELSE EraseThreads(c, old \cup expired)

Insert(c, t, n, r) ==
    [c EXCEPT !.place[n] = t, !.live = @ \cup {n}, !.text[n] = r.text, !.born[n] = r.at,
              !.verified = IF r.vip THEN @ \cup {n} ELSE @]

Open(c, n, r) == Insert([c EXCEPT !.thread[n] = Fresh], n, n, r)

\* Fault: the window makes no room for the reply to come.
OutlivedFull(c, t) ==
    {p \in Replies(c, t) : Cardinality({q \in Replies(c, t) : q > p}) >= ReplyLimit}

\* All but the newest ReplyLimit - 1 replies of a pinned thread.
Outlived(c, t) ==
    {p \in Replies(c, t) : Cardinality({q \in Replies(c, t) : q > p}) >= ReplyLimit - 1}
Window(c, t) == IF Windowed(c.thread[t]) THEN Drop(c, Outlived(c, t)) ELSE c

Counted(c, b, t) ==
    IF Windowed(c.thread[t]) \/ CountsSurvivors(b, c.thread[t])
    THEN Cardinality(Replies(c, t)) + 1 ELSE c.thread[t].count + 1

Reply(c, n, r) ==
    LET t == r.parent
        d == Window(c, t)
    IN  Insert([d EXCEPT !.thread[t].count = Counted(d, r.board, t)], t, n, r)

\* autoarchive_after_reply
Settled(c, b, t) ==
    IF Autoarchives(b) /\ t \in Ordinary(c) /\ Cardinality(Replies(c, t)) >= AutoarchiveCap
    THEN Archive(c, {t}) ELSE c

-----------------------------------------------------------------------------
(* content.check_robot9000: what it decides, and the board after it. *)

Verdict(c, a, x, at) ==
    IF c.mute[a] > at THEN "muted" ELSE IF c.seen[x] # Never THEN "duplicate" ELSE "allow"

Remember(c, a, x, at) ==
    CASE Verdict(c, a, x, at) = "muted" -> c
      [] Verdict(c, a, x, at) = "duplicate" -> [c EXCEPT !.mute[a] = at + MuteSeconds, !.seen[x] = at]
      [] OTHER -> [c EXCEPT !.seen[x] = at]

\* robot_applies: a public post with a VIP receipt is neither judged nor
\* remembered.
RobotApplies(r) == r.board \in Robot /\ ~r.vip

\* Fault: a text of that very age is forgotten.
OutdatedSooner(c, x, at) == c.seen[x] # Never /\ c.seen[x] + TextSeconds <= at

\* cleanup_robot9000 may forget it.
Outdated(c, x, at) == c.seen[x] # Never /\ c.seen[x] + TextSeconds < at

-----------------------------------------------------------------------------
(* The transaction. *)

Holding == {"admission", "written"}          \* the row of the board is locked

NoReq == [actor |-> Nobody, board |-> Nobody, parent |-> NewThread, text |-> NoText,
          vip |-> FALSE, at |-> 0]
NoMark == [verdict |-> "none", at |-> 0]

PostingInit ==
    /\ number = 0
    /\ now = 0
    /\ content = [b \in Boards |-> Empty]
    /\ actions = [a \in Actors |-> [b \in Boards |-> Never]]
    /\ step = [w \in Writers |-> "idle"]
    /\ req = [w \in Writers |-> NoReq]
    /\ view = [w \in Writers |-> Empty]
    /\ saved = [w \in Writers |-> Empty]
    /\ mark = [w \in Writers |-> NoMark]

\* Locks are kept until the transaction ends: the gate of the actor, the one
\* gate of all new threads, the row of the board.
HasActor(w, a) == step[w] \in {"capacity", "board"} \cup Holding /\ req[w].actor = a
HasCapacity(w) == step[w] \in {"board"} \cup Holding /\ req[w].parent = NewThread
HasBoard(w, b) == step[w] \in Holding /\ req[w].board = b

Ends(w) ==
    /\ step' = [step EXCEPT ![w] = "idle"]
    /\ req' = [req EXCEPT ![w] = NoReq]
    /\ view' = [view EXCEPT ![w] = Empty]
    /\ saved' = [saved EXCEPT ![w] = Empty]
    /\ mark' = [mark EXCEPT ![w] = NoMark]

\* A request arrives; request_start is taken before any lock.
Ask(w, a, b, parent, x, vip) ==
    /\ step[w] = "idle"
    /\ parent # NewThread => content[b].thread[parent].state # "absent"
    /\ step' = [step EXCEPT ![w] = "actor"]
    /\ req' = [req EXCEPT ![w] =
                [actor |-> a, board |-> b, parent |-> parent, text |-> x,
                 vip |-> vip, at |-> now]]
    /\ UNCHANGED <<number, now, content, actions, view, saved, mark>>

LockActor(w) ==
    /\ step[w] = "actor"
    /\ ~\E v \in Writers : HasActor(v, req[w].actor)
    /\ step' = [step EXCEPT ![w] = IF req[w].parent = NewThread THEN "capacity" ELSE "board"]
    /\ UNCHANGED <<number, now, content, actions, req, view, saved, mark>>

LockCapacity(w) ==
    /\ step[w] = "capacity"
    /\ ~\E v \in Writers : HasCapacity(v)
    /\ step' = [step EXCEPT ![w] = "board"]
    /\ UNCHANGED <<number, now, content, actions, req, view, saved, mark>>

\* Fault: the board is read without FOR UPDATE.
ReadBoard(w) ==
    /\ step[w] = "board"
    /\ step' = [step EXCEPT ![w] = "admission"]
    /\ view' = [view EXCEPT ![w] = content[req[w].board]]
    /\ UNCHANGED <<number, now, content, actions, req, saved, mark>>

LockBoard(w) ==
    /\ step[w] = "board"
    /\ ~\E v \in Writers : HasBoard(v, req[w].board)
    /\ step' = [step EXCEPT ![w] = "admission"]
    /\ view' = [view EXCEPT ![w] = content[req[w].board]]
    /\ UNCHANGED <<number, now, content, actions, req, saved, mark>>

\* Fault: the savepoint is set when the post is written.
WrittenFirst(w, d) ==
    LET r == req[w]
        robot == RobotApplies(r)
    IN  /\ number' = number + 1
        /\ step' = [step EXCEPT ![w] = "written"]
        /\ saved' = [saved EXCEPT ![w] = d]
        /\ view' = [view EXCEPT ![w] = IF robot THEN Remember(d, r.actor, r.text, now) ELSE d]
        /\ mark' = [mark EXCEPT ![w] =
                [at |-> now,
                 verdict |-> IF robot THEN Verdict(d, r.actor, r.text, now) ELSE "allow"]]
        /\ UNCHANGED <<now, content, actions, req>>

\* The savepoint is set on what the transaction found, the number is drawn, the
\* post written as d has it, and Robot9000 asked if it applies.
Written(w, d) ==
    LET r == req[w]
        robot == RobotApplies(r)
    IN  /\ number' = number + 1
        /\ step' = [step EXCEPT ![w] = "written"]
        /\ saved' = [saved EXCEPT ![w] = view[w]]
        /\ view' = [view EXCEPT ![w] = IF robot THEN Remember(d, r.actor, r.text, now) ELSE d]
        /\ mark' = [mark EXCEPT ![w] =
                [at |-> now,
                 verdict |-> IF robot THEN Verdict(d, r.actor, r.text, now) ELSE "allow"]]
        /\ UNCHANGED <<now, content, actions, req>>

WriteThread(w, old, expired) ==
    /\ step[w] = "admission" /\ req[w].parent = NewThread
    /\ number < MaxNumber
    /\ Paced(req[w].actor, req[w].board)
    /\ Leaves(view[w], old)
    /\ Written(w, Open(MakeRoom(view[w], req[w].board, old, expired), number + 1, req[w]))

WriteReply(w) ==
    /\ step[w] = "admission" /\ req[w].parent # NewThread
    /\ number < MaxNumber
    /\ TakesReplies(view[w], req[w].board, req[w].parent)
    /\ Written(w, Reply(view[w], number + 1, req[w]))

Commit(w, c) ==
    /\ content' = [content EXCEPT ![req[w].board] = c]
    /\ Ends(w)
    /\ UNCHANGED <<number, now>>

\* Both the check and its replay read the clock once, at the check.

\* Fault: the replay reads the clock again.
ReplayedNow(w) == Verdict(saved[w], req[w].actor, req[w].text, now)

Replayed(w) == Verdict(saved[w], req[w].actor, req[w].text, mark[w].at)
Restored(w) ==
    IF RobotApplies(req[w]) THEN Remember(saved[w], req[w].actor, req[w].text, mark[w].at)
                            ELSE saved[w]

Later(s, t) == IF s > t THEN s ELSE t

\* Fault: the last request to commit is taken for the latest.
AcceptLast(w) ==
    LET r == req[w]
    IN  /\ step[w] = "written" /\ mark[w].verdict = "allow"
        /\ IF r.parent = NewThread
           THEN /\ Commit(w, view[w])
                /\ actions' = [actions EXCEPT ![r.actor][r.board] = r.at]
           ELSE /\ Commit(w, Settled(view[w], r.board, r.parent))
                /\ UNCHANGED actions

Accept(w) ==
    LET r == req[w]
    IN  /\ step[w] = "written" /\ mark[w].verdict = "allow"
        /\ IF r.parent = NewThread
           THEN /\ Commit(w, view[w])
                /\ actions' = [actions EXCEPT ![r.actor][r.board] = Later(@, r.at)]
           ELSE /\ Commit(w, Settled(view[w], r.board, r.parent))
                /\ UNCHANGED actions

\* ROLLBACK TO SAVEPOINT, then the check again: the mute is all that remains.
Reject(w) ==
    /\ step[w] = "written" /\ mark[w].verdict # "allow"
    /\ Replayed(w) = mark[w].verdict
    /\ Commit(w, Restored(w))
    /\ UNCHANGED actions

\* A late classifier refuses the post: what Robot9000 was asked, it knows.
Filter(w) ==
    /\ step[w] = "written" /\ mark[w].verdict = "allow" /\ req[w].board \in Late
    /\ RobotApplies(req[w]) => Replayed(w) = "allow"
    /\ Commit(w, Restored(w))
    /\ UNCHANGED actions

\* The transaction ends without a commit, by its own decision or another's.
Abandon(w) ==
    /\ step[w] # "idle"
    /\ Ends(w)
    /\ UNCHANGED <<number, now, content, actions>>

-----------------------------------------------------------------------------
(* Transactions of moderators and authors.  Each is one step: it does all    *)
(* it does between the lock of the board and its commit.                     *)

Changes(b, c) ==
    /\ ~\E w \in Writers : HasBoard(w, b)
    /\ content' = [content EXCEPT ![b] = c]
    /\ UNCHANGED <<number, now, actions, txVars>>

\* The form of a thread's options.
SetOptions(b, t, sticky, undead, closed) ==
    /\ t \in Active(content[b])
    /\ Changes(b, [content[b] EXCEPT !.thread[t] =
            [@ EXCEPT !.sticky = sticky, !.undead = undead, !.closed = closed]])

ForceArchive(b, t) ==
    /\ b \in Archiving /\ t \in Active(content[b]) /\ ~content[b].thread[t].sticky
    /\ Changes(b, Archive([content[b] EXCEPT !.thread[t].closed = TRUE], {t}))

\* delete_post_in, for the author and for the staff.
Remove(b, p) ==
    /\ p \in content[b].live
    /\ Changes(b, IF content[b].place[p] = p THEN EraseThreads(content[b], {p})
                                             ELSE Drop(content[b], {p}))

\* The board cleanup of the staff, in batches.
Cleanup(b, old) ==
    Changes(b, [content[b] EXCEPT !.seen =
        [x \in Texts |-> IF x \in old THEN Never ELSE content[b].seen[x]]])

Tick ==
    /\ now < MaxTime
    /\ now' = now + 1
    /\ UNCHANGED <<number, content, actions, txVars>>

Locks(w) == LockActor(w) \/ LockCapacity(w) \/ LockBoard(w)
Writes(w) ==
    \/ \E old \in SUBSET Ordinary(view[w]), expired \in SUBSET Archived(view[w]) :
            WriteThread(w, old, expired)
    \/ WriteReply(w)
Decides(w) == Accept(w) \/ Reject(w) \/ Filter(w)

WriterStep(w) ==
    \/ \E a \in Actors, b \in Boards, parent \in 0 .. MaxNumber, x \in Texts, vip \in BOOLEAN :
            Ask(w, a, b, parent, x, vip)
    \/ Locks(w) \/ Writes(w) \/ Decides(w) \/ Abandon(w)

Moderation ==
    \E b \in Boards, t \in Numbers :
        \/ \E sticky, undead, closed \in BOOLEAN : SetOptions(b, t, sticky, undead, closed)
        \/ ForceArchive(b, t)
        \/ Remove(b, t)
        \/ \E old \in SUBSET {x \in Texts : Outdated(content[b], x, now)} : Cleanup(b, old)

PostingNext == (\E w \in Writers : WriterStep(w)) \/ Moderation \/ Tick

PostingSpec == PostingInit /\ [][PostingNext]_vars

-----------------------------------------------------------------------------
(* Properties. *)

ThreadRows == [state : {"absent", "active", "archived", "deleted"},
               sticky : BOOLEAN, undead : BOOLEAN, closed : BOOLEAN, count : Nat]
Contents == [thread : [Numbers -> ThreadRows], place : [Numbers -> Numbers \cup {NewThread}],
             live : SUBSET Numbers, verified : SUBSET Numbers, text : [Numbers -> Texts \cup {NoText}],
             born : [Numbers -> Times], seen : [Texts -> Times \cup {Never}], mute : [Actors -> Int]]
Requests == [actor : Actors, board : Boards, parent : Numbers \cup {NewThread},
             text : Texts, vip : BOOLEAN, at : Times]
Steps == {"idle", "actor", "capacity", "board", "admission", "written"}

PostingTypeOK ==
    /\ number \in 0 .. MaxNumber
    /\ now \in Times
    /\ content \in [Boards -> Contents]
    /\ actions \in [Actors -> [Boards -> Times \cup {Never}]]
    /\ step \in [Writers -> Steps]
    /\ req \in [Writers -> Requests \cup {NoReq}]
    /\ \A w \in Writers : step[w] # "idle" => req[w] # NoReq
    /\ view \in [Writers -> Contents]
    /\ saved \in [Writers -> Contents]
    /\ mark \in [Writers -> [verdict : {"none", "allow", "duplicate", "muted"}, at : Times]]

\* Every lock has one holder.
LocksAreExclusive == \A v, w \in Writers :
    \/ \E a \in Actors : HasActor(v, a) /\ HasActor(w, a)
    \/ HasCapacity(v) /\ HasCapacity(w)
    \/ \E b \in Boards : HasBoard(v, b) /\ HasBoard(w, b)
    => v = w

\* A post that is up belongs to a thread that is; a thread begins with a post;
\* an archived thread is not sticky; the counter of a thread never falls behind
\* the replies that are up; a number in use has been drawn.
BoardOK(b, c, drawn) ==
    /\ \A p \in c.live :
         /\ c.place[p] # NewThread
         /\ c.thread[c.place[p]].state \in {"active", "archived"}
    /\ \A n \in Numbers :
         /\ c.thread[n].state # "absent" => c.place[n] = n
         /\ c.thread[n].state = "archived" => ~c.thread[n].sticky /\ b \in Archiving
         /\ Cardinality(Replies(c, n)) <= c.thread[n].count
         /\ c.place[n] # NewThread => n <= drawn

RepliesFit(b, c) == \A t \in Numbers :
    Cardinality(Replies(c, t)) <=
        IF Autoarchives(b) THEN OrdinaryReplyLimit ELSE ReplyLimit

\* Robot9000 knows the text of every post that it has judged, is up and not old,
\* and none of those is up twice.
Judged(c) == c.live \ c.verified
Old(c, p, at) == c.born[p] + TextSeconds < at
Known(c, at) == \A p \in Judged(c) :
    /\ c.text[p] \in Texts /\ c.born[p] <= at
    /\ Old(c, p, at) \/ c.seen[c.text[p]] >= c.born[p]
Original(c, at) == \A p, q \in Judged(c) : c.text[p] = c.text[q] /\ p < q => Old(c, p, at)

\* Under the lock of the row, what a writer found is what is committed; what it
\* remembers of the clock has passed.
ViewIsCurrent(w) ==
    LET c == content[req[w].board]
    IN  /\ step[w] = "admission" => view[w] = c
        /\ step[w] = "written" => saved[w] = c /\ mark[w].at <= now
        /\ step[w] # "idle" => req[w].at <= now

\* What a writer has written is in order, and adds one post, with the highest
\* number of the board, under the conditions that admission set.
WrittenInOrder(w) == step[w] = "written" =>
    LET r == req[w]   c == saved[w]   d == view[w] IN
    /\ BoardOK(r.board, d, number) /\ RepliesFit(r.board, d)
    /\ r.board \in Robot =>
         /\ Known(c, mark[w].at)
         /\ mark[w].verdict = "allow" => Known(d, mark[w].at) /\ Original(d, mark[w].at)
    /\ r.vip => d.seen = c.seen /\ d.mute = c.mute
    /\ \E n \in d.live \ c.live :
         /\ d.live \subseteq c.live \cup {n}
         /\ \A m \in Numbers : c.place[m] # NewThread => m < n
         /\ d.place[n] = IF r.parent = NewThread THEN n ELSE r.parent
    /\ IF r.parent = NewThread
       THEN Cardinality(Ordinary(d)) <= ThreadLimit /\ Paced(r.actor, r.board)
       ELSE r.parent \in Active(c) /\ ~c.thread[r.parent].closed
    /\ \A u \in Active(c) : c.thread[u].sticky \/ c.thread[u].undead =>
         u \in Active(d) /\ u \notin Ordinary(d)

\* The decision of Robot9000 is the same when it is asked again: the refusal it
\* leads to is never lost to an error.
ReplayAgrees(w) ==
    step[w] = "written" => mark[w].verdict = IF RobotApplies(req[w]) THEN Replayed(w) ELSE "allow"

\* The inductive invariant, with the two properties after it.
PostingInv ==
    /\ PostingTypeOK
    /\ LocksAreExclusive
    /\ \A b \in Boards : BoardOK(b, content[b], number)
    /\ \A b \in Robot : Known(content[b], now)
    /\ \A w \in Writers : ViewIsCurrent(w) /\ WrittenInOrder(w) /\ ReplayAgrees(w)

\* The ceiling of a thread holds however its options are switched while replies
\* come and go: the window of a pinned thread, the count of survivors and the
\* counter that never goes down, each hand over to the others within the limit.
RepliesAreBounded == \A b \in Boards : RepliesFit(b, content[b])

\* No two posts that Robot9000 has judged say the same on its board within two
\* years, whoever writes them at the same time, and whatever the staff cleans up
\* meanwhile. Verified posts are exempt (write.rs:1594): they may repeat and be
\* repeated.
RobotPostsAreOriginal == \A b \in Robot : Original(content[b], now)

NewPosts(b) == content'[b].live \ content[b].live

\* The numbers of a board are in the order in which its posts appear: a reader
\* who has seen a number misses no lower one (write.rs draws them outside the
\* transaction, from a sequence for all boards).
NumbersFollowCommits == [][\A b \in Boards : \A n \in NewPosts(b), m \in Numbers :
    content[b].place[m] # NewThread => m < n]_vars

\* A transaction that commits has posted, or has changed nothing but what
\* Robot9000 remembers: no thread was displaced, no reply dropped for a post
\* that was refused. Of a verified post, Robot9000 remembers nothing, and mutes
\* nobody for it, whether it is posted or refused.
PostOrMark == [][\A w \in Writers : LET b == req[w].board IN
    step[w] = "written" /\ step'[w] = "idle" =>
       /\ mark[w].verdict # "allow" \/ NewPosts(b) = {} =>
            content'[b] = [content[b] EXCEPT !.seen = content'[b].seen,
                                             !.mute = content'[b].mute]
       /\ req[w].vip => content'[b].seen = content[b].seen
                        /\ content'[b].mute = content[b].mute]_vars

\* An actor opens threads on two boards with time between them, in whatever
\* order the requests get the locks, and a request that waited does not turn
\* the record back.
ThreadsArePaced == [][\A a \in Actors, b \in Boards :
    actions'[a][b] # actions[a][b] =>
        /\ actions'[a][b] > actions[a][b]
        /\ \A d \in Boards \ {b} : actions[a][d] = Never \/ actions[a][d] + CrossSeconds < now]_vars

\* What admission decided is true when the post appears.  A new thread has a
\* slot, for which no protected thread had to go; a reply comes to a thread that
\* is up and open.
AdmittedAtCommit == [][\A b \in Boards : \A n \in NewPosts(b) :
    LET t == content'[b].place[n] IN
    /\ t = n => Cardinality(Ordinary(content'[b])) <= ThreadLimit
    /\ t # n => t \in Active(content[b]) /\ ~content[b].thread[t].closed
    /\ \A u \in Active(content[b]) :
         content[b].thread[u].sticky \/ content[b].thread[u].undead => u \in Active(content'[b])]_vars
=============================================================================
