--------------------------- MODULE MCBoardPosting ---------------------------
\* An instance of BoardPosting: b1 has robot9000 and late classifiers, b2 has
\* archives.
EXTENDS BoardPosting, TLC

CONSTANTS b1, b2, a1, x1

WriterSymmetry == Permutations(Writers)

Busy == {w \in Writers : step[w] # "idle"}
Asked == {req[w] : w \in Busy}
Opening == {w \in Busy : req[w].parent = NewThread}
Exempt == {w \in Busy : req[w].vip}
Placed(b) == {n \in Numbers : content[b].place[n] # NewThread}
Threads(b) == {n \in Numbers : content[b].place[n] = n}
Plain(h) == ~h.sticky /\ ~h.undead /\ ~h.closed
PlainThreads == \A b \in Boards : \A t \in Threads(b) : Plain(content[b].thread[t])

Unused(b) == Placed(b) = {} /\ (\A x \in Texts : content[b].seen[x] = Never) /\ \A r \in Asked : r.board # b
OneText == \A r \in Asked : r.text = x1 /\ ~r.vip

\* One thread on the board with robot9000; different texts and actors, and time;
\* one verified post.
OnRobot ==
    /\ Unused(b2) /\ number < MaxNumber /\ now < MaxTime
    /\ Cardinality(Threads(b1)) + Cardinality(Opening) <= 1
    /\ \A w \in Opening : req[w].actor = a1 /\ req[w].text = x1
    /\ \A r \in Asked : r.actor = a1 \/ r.text = x1
    /\ \A w \in Exempt : req[w].actor = a1 /\ req[w].text = x1
    /\ Cardinality(Exempt) + Cardinality(content[b1].verified) <= 1
    /\ Exempt # {} => number <= 2
    /\ PlainThreads

\* Two threads on the board with archives and all options of a thread, of which
\* a closed one has no other; one post at a time, one text, no time.
OnArchive ==
    /\ now = 0 /\ Unused(b1)
    /\ OneText /\ \A r \in Asked : r.actor = a1
    /\ Cardinality(Busy) <= 1
    /\ Cardinality(Threads(b2)) + Cardinality(Opening) <= 2
    /\ \A t \in Threads(b2) : LET h == content[b2].thread[t] IN
            h.closed => ~h.sticky /\ ~h.undead

\* Threads on both boards, one text.
OnBoth ==
    /\ OneText /\ Asked = {req[w] : w \in Opening}
    /\ Cardinality(Placed(b1)) + Cardinality(Placed(b2)) + Cardinality(Busy) <= MaxNumber - 2
    /\ Placed(b1) = Threads(b1) /\ Placed(b2) = Threads(b2)
    /\ PlainThreads

Focus == OnRobot \/ OnArchive \/ OnBoth
FocusSpec == PostingInit /\ [][PostingNext /\ Focus']_vars
=============================================================================
