------------------------- MODULE BoardPostingProofs -------------------------
(***************************************************************************)
(* Why a board stays in order under concurrent posts: all that a writer    *)
(* found under the lock of the board's row is still true when it commits,  *)
(* what it drops and adds keeps the board in order, and the savepoint has  *)
(* all that a refused post must leave.                                     *)
(***************************************************************************)
EXTENDS BoardPosting, FiniteSetTheorems, WellFoundedInduction, TLAPS

-----------------------------------------------------------------------------
(* Sets of numbers. *)

LEMMA NumbersAreFinite == IsFiniteSet(Numbers) /\ Numbers \subseteq Nat
  BY PostingAssumption, FS_Interval DEF Numbers

LEMMA FewNumbers ==
  ASSUME NEW R \in SUBSET Numbers
  PROVE  IsFiniteSet(R) /\ Cardinality(R) \in Nat
  BY NumbersAreFinite, FS_Subset, FS_CardinalityType

LEMMA LeastNumber ==
  ASSUME NEW R \in SUBSET Numbers, R # {}
  PROVE  \E m \in R : \A p \in R : m <= p
  <1> DEFINE Less == {ss \in Nat \X Nat : ss[1] < ss[2]}
  <1>1. IsWellFoundedOn(Less, Nat)
    BY NatLessThanWellFounded DEF OpToRel
  <1>2. \A p, q \in Nat : p < q => <<p, q>> \in Less
    OBVIOUS
  <1> HIDE DEF Less
  <1>3. PICK m \in R : \A p \in R : ~(<<p, m>> \in Less)
    BY <1>1, NumbersAreFinite, WFMin
  <1>4. \A p \in R : p \in Nat
    BY NumbersAreFinite
  <1>5. ASSUME NEW p \in R PROVE m <= p
    <2>1. m \in Nat /\ p \in Nat
      BY <1>4
    <2>2. ~(p < m)
      BY <1>2, <1>3, <2>1, Zenon
    <2>3. QED
      BY <2>1, <2>2
  <1>6. QED
    BY <1>5

\* Those with fewer than K greater ones are at most K.
LEMMA NewestAreFew ==
  ASSUME NEW R \in SUBSET Numbers, NEW K \in Nat
  PROVE  Cardinality({p \in R : ~(Cardinality({q \in R : q > p}) >= K)}) <= K
  <1> DEFINE Above(p) == {q \in R : q > p}
             W == {p \in R : ~(Cardinality(Above(p)) >= K)}
  <1>1. W \in SUBSET R /\ \A p \in W : ~(Cardinality(Above(p)) >= K)
    OBVIOUS
  <1>2. SUFFICES Cardinality(W) <= K
    OBVIOUS
  <1> HIDE DEF W
  <1>3. CASE W = {}
    BY <1>3, FS_EmptySet
  <1>4. CASE W # {}
    <2>1. PICK m \in W : \A p \in W : m <= p
      BY <1>1, <1>4, LeastNumber
    <2>2. m \in R /\ \A p \in W : p \in R /\ m \in Nat /\ p \in Nat
      BY <1>1, NumbersAreFinite
    <2>3. W \ {m} \subseteq Above(m)
      BY <2>1, <2>2
    <2>4. Cardinality(Above(m)) \in Nat /\ Cardinality(Above(m)) < K
      BY <1>1, FewNumbers
    <2>5. Cardinality(W \ {m}) <= Cardinality(Above(m))
      BY <2>3, FewNumbers, FS_Subset
    <2>6. Cardinality(W \ {m}) = Cardinality(W) - 1 /\ Cardinality(W) \in Nat
      BY <1>1, FewNumbers, FS_RemoveElement
    <2>7. QED
      BY <2>4, <2>5, <2>6
  <1>5. QED
    BY <1>3, <1>4

-----------------------------------------------------------------------------
(* Boards that lose posts. *)

LEMMA RepliesAreFew ==
  ASSUME NEW c \in Contents, NEW t
  PROVE  Replies(c, t) \in SUBSET Numbers /\ Cardinality(Replies(c, t)) \in Nat
  <1>1. Replies(c, t) \in SUBSET Numbers
    BY DEF Replies, Contents
  <1>2. QED
    BY <1>1, FewNumbers

\* What a board that only loses posts keeps.
Shrinks(c, d) ==
    /\ d \in Contents /\ d.live \subseteq c.live
    /\ d.place = c.place /\ d.seen = c.seen /\ d.mute = c.mute
    /\ Judged(d) \subseteq Judged(c)
    /\ \A p \in d.live : d.text[p] = c.text[p] /\ d.born[p] = c.born[p]

LEMMA FewerReplies ==
  ASSUME NEW c \in Contents, NEW d \in Contents, d.live \subseteq c.live, d.place = c.place, NEW t
  PROVE  Cardinality(Replies(d, t)) <= Cardinality(Replies(c, t))
  <1>1. Replies(d, t) \subseteq Replies(c, t)
    BY DEF Replies
  <1>2. QED
    BY <1>1, RepliesAreFew, FewNumbers, FS_Subset

LEMMA LimitsType == OrdinaryReplyLimit \in Nat /\ ReplyLimit \in Nat /\ ReplyLimit <= OrdinaryReplyLimit
  BY PostingAssumption DEF OrdinaryReplyLimit

LEMMA ShrinkingKeeps ==
  ASSUME NEW c \in Contents, NEW d, Shrinks(c, d), NEW b
  PROVE  /\ RepliesFit(b, c) => RepliesFit(b, d)
         /\ \A at : Known(c, at) => Known(d, at)
         /\ \A at : Original(c, at) => Original(d, at)
  <1>1. ASSUME RepliesFit(b, c) PROVE RepliesFit(b, d)
    <2>1. \A t \in Numbers : /\ Cardinality(Replies(d, t)) <= Cardinality(Replies(c, t))
                             /\ Cardinality(Replies(d, t)) \in Nat /\ Cardinality(Replies(c, t)) \in Nat
      BY FewerReplies, RepliesAreFew DEF Shrinks
    <2>2. QED
      BY <1>1, <2>1, LimitsType DEF RepliesFit
  <1>2. /\ Judged(d) \subseteq Judged(c) /\ d.seen = c.seen
        /\ \A p \in Judged(d) : d.text[p] = c.text[p] /\ d.born[p] = c.born[p]
    BY DEF Shrinks, Judged
  <1>3. ASSUME NEW at, Known(c, at) PROVE Known(d, at)
    BY <1>2, <1>3 DEF Known, Old
  <1>4. ASSUME NEW at, Original(c, at) PROVE Original(d, at)
    BY <1>2, <1>4 DEF Original, Old
  <1>5. QED
    BY <1>1, <1>3, <1>4

LEMMA ShrinkingAgain ==
  ASSUME NEW c, NEW d, NEW e, Shrinks(c, d), Shrinks(d, e)
  PROVE  Shrinks(c, e)
  BY DEF Shrinks

LEMMA DropShrinks ==
  ASSUME NEW c \in Contents, NEW posts
  PROVE  /\ Shrinks(c, Drop(c, posts))
         /\ Drop(c, posts).live = c.live \ posts
         /\ Drop(c, posts).thread = c.thread
  <1> DEFINE text == [p \in Numbers |-> IF p \in posts THEN NoText ELSE c.text[p]]
             born == [p \in Numbers |-> IF p \in posts THEN 0 ELSE c.born[p]]
  <1>1. text \in [Numbers -> Texts \cup {NoText}] /\ born \in [Numbers -> Times]
    BY PostingAssumption DEF Contents, Times
  <1>2. Drop(c, posts) = [c EXCEPT !.live = c.live \ posts, !.verified = c.verified \ posts,
                                   !.text = text, !.born = born]
    BY DEF Drop
  <1>3. \A p \in c.live \ posts : text[p] = c.text[p] /\ born[p] = c.born[p]
    BY DEF Contents
  <1> HIDE DEF text, born
  <1>4. QED
    BY <1>1, <1>2, <1>3 DEF Shrinks, Judged, Contents

LEMMA EraseShrinks ==
  ASSUME NEW c \in Contents, NEW gone
  PROVE  LET d == EraseThreads(c, gone)
         IN  /\ Shrinks(c, d)
             /\ d.live = {p \in c.live : c.place[p] \notin gone}
             /\ d.thread = [t \in Numbers |-> IF t \in gone THEN Erased ELSE c.thread[t]]
  <1> DEFINE e == [c EXCEPT !.thread = [t \in Numbers |-> IF t \in gone THEN Erased ELSE c.thread[t]]]
             posts == {p \in c.live : c.place[p] \in gone}
  <1>1. Erased \in ThreadRows
    BY DEF Erased, Absent, ThreadRows
  <1>2. e.thread \in [Numbers -> ThreadRows]
    BY <1>1 DEF Contents
  <1>3. e \in Contents /\ Shrinks(c, e) /\ e.live = c.live
    BY <1>2 DEF Contents, Shrinks, Judged
  <1>4. Shrinks(e, Drop(e, posts)) /\ Drop(e, posts).live = c.live \ posts /\ Drop(e, posts).thread = e.thread
    BY <1>3, DropShrinks
  <1>5. Shrinks(c, Drop(e, posts))
    BY <1>3, <1>4, ShrinkingAgain
  <1>6. e.thread = [t \in Numbers |-> IF t \in gone THEN Erased ELSE c.thread[t]]
    BY DEF Contents
  <1>7. QED
    BY <1>4, <1>5, <1>6 DEF EraseThreads

LEMMA ArchiveShrinks ==
  ASSUME NEW c \in Contents, NEW old
  PROVE  LET d == Archive(c, old)
         IN  /\ Shrinks(c, d) /\ d.live = c.live
             /\ d.thread = [t \in Numbers |->
                    IF t \in old THEN [c.thread[t] EXCEPT !.state = "archived"] ELSE c.thread[t]]
  <1>1. [t \in Numbers |-> IF t \in old THEN [c.thread[t] EXCEPT !.state = "archived"] ELSE c.thread[t]]
            \in [Numbers -> ThreadRows]
    BY DEF Contents, ThreadRows
  <1>2. QED
    BY <1>1 DEF Archive, Contents, Shrinks, Judged

-----------------------------------------------------------------------------
(* Boards that stay in order. *)

LEMMA OrderKept ==
  ASSUME NEW b, NEW k, NEW c \in Contents, BoardOK(b, c, k), NEW d, Shrinks(c, d),
         \A p \in d.live : d.thread[c.place[p]].state \in {"active", "archived"},
         \A n \in Numbers :
            /\ d.thread[n].state # "absent" => c.thread[n].state # "absent"
            /\ d.thread[n].state = "archived" => ~d.thread[n].sticky /\ b \in Archiving
            /\ d.thread[n].count = c.thread[n].count \/ Replies(d, n) = {}
  PROVE  BoardOK(b, d, k)
  <1>1. \A p \in d.live : d.place[p] # NewThread /\ d.thread[d.place[p]].state \in {"active", "archived"}
    BY DEF BoardOK, Shrinks
  <1>2. ASSUME NEW n \in Numbers PROVE Cardinality(Replies(d, n)) <= d.thread[n].count
    <2>1. d.thread[n].count \in Nat /\ c.thread[n].count \in Nat
      BY DEF Shrinks, Contents, ThreadRows
    <2>2. CASE Replies(d, n) = {}
      BY <2>1, <2>2, FS_EmptySet
    <2>3. CASE d.thread[n].count = c.thread[n].count
      <3>1. Cardinality(Replies(d, n)) <= Cardinality(Replies(c, n))
        BY FewerReplies DEF Shrinks
      <3>2. Cardinality(Replies(d, n)) \in Nat /\ Cardinality(Replies(c, n)) \in Nat
        BY RepliesAreFew DEF Shrinks
      <3>3. QED
        BY <2>1, <2>3, <3>1, <3>2 DEF BoardOK
    <2>4. QED
      BY <2>2, <2>3
  <1>3. ASSUME NEW n \in Numbers
        PROVE  /\ d.thread[n].state # "absent" => d.place[n] = n
               /\ d.place[n] # NewThread => n <= k
    BY DEF BoardOK, Shrinks
  <1>4. QED
    BY <1>1, <1>2, <1>3 DEF BoardOK

LEMMA DropKeepsOrder ==
  ASSUME NEW b, NEW k, NEW c \in Contents, BoardOK(b, c, k), NEW posts
  PROVE  BoardOK(b, Drop(c, posts), k)
  <1> DEFINE d == Drop(c, posts)
  <1>1. Shrinks(c, d) /\ d.live \subseteq c.live /\ d.thread = c.thread
    BY DropShrinks
  <1> HIDE DEF d
  <1>2. \A p \in d.live : d.thread[c.place[p]].state \in {"active", "archived"}
    BY <1>1 DEF BoardOK
  <1>3. \A n \in Numbers :
            /\ d.thread[n].state # "absent" => c.thread[n].state # "absent"
            /\ d.thread[n].state = "archived" => ~d.thread[n].sticky /\ b \in Archiving
            /\ d.thread[n].count = c.thread[n].count \/ Replies(d, n) = {}
    BY <1>1 DEF BoardOK
  <1>4. BoardOK(b, d, k)
    BY <1>1, <1>2, <1>3, OrderKept
  <1>5. QED
    BY <1>4 DEF d

LEMMA EraseKeepsOrder ==
  ASSUME NEW b, NEW k, NEW c \in Contents, BoardOK(b, c, k),
         NEW gone, gone \subseteq Active(c) \cup Archived(c)
  PROVE  BoardOK(b, EraseThreads(c, gone), k)
  <1> DEFINE d == EraseThreads(c, gone)
  <1>1. /\ Shrinks(c, d) /\ d.live = {p \in c.live : c.place[p] \notin gone}
        /\ d.thread = [t \in Numbers |-> IF t \in gone THEN Erased ELSE c.thread[t]]
    BY EraseShrinks
  <1> HIDE DEF d
  <1>2. Erased.state = "deleted"
    BY DEF Erased, Absent
  <1>3. ASSUME NEW p \in d.live PROVE d.thread[c.place[p]].state \in {"active", "archived"}
    <2>1. p \in c.live /\ c.place[p] \notin gone
      BY <1>1
    <2>2. c.place[p] \in Numbers
      BY <2>1 DEF BoardOK, Contents
    <2>3. c.thread[c.place[p]].state \in {"active", "archived"}
      BY <2>1 DEF BoardOK
    <2>4. QED
      BY <1>1, <2>1, <2>2, <2>3
  <1>4. ASSUME NEW n \in Numbers
        PROVE  /\ d.thread[n].state # "absent" => c.thread[n].state # "absent"
               /\ d.thread[n].state = "archived" => ~d.thread[n].sticky /\ b \in Archiving
               /\ d.thread[n].count = c.thread[n].count \/ Replies(d, n) = {}
    <2>1. CASE n \in gone
      <3>1. Replies(d, n) = {}
        BY <1>1, <2>1 DEF Replies, Shrinks
      <3>2. d.thread[n] = Erased /\ c.thread[n].state # "absent"
        BY <1>1, <2>1 DEF Active, Archived
      <3>3. QED
        BY <1>2, <3>1, <3>2
    <2>2. CASE n \notin gone
      BY <1>1, <2>2 DEF BoardOK
    <2>3. QED
      BY <2>1, <2>2
  <1>5. BoardOK(b, d, k)
    BY <1>1, <1>3, <1>4, OrderKept
  <1>6. QED
    BY <1>5 DEF d

LEMMA ArchiveKeepsOrder ==
  ASSUME NEW b \in Archiving, NEW k, NEW c \in Contents, BoardOK(b, c, k),
         NEW old, old \subseteq Active(c), \A t \in old : ~c.thread[t].sticky
  PROVE  BoardOK(b, Archive(c, old), k)
  <1> DEFINE d == Archive(c, old)
  <1>1. /\ Shrinks(c, d) /\ d.live = c.live
        /\ d.thread = [t \in Numbers |->
               IF t \in old THEN [c.thread[t] EXCEPT !.state = "archived"] ELSE c.thread[t]]
    BY ArchiveShrinks
  <1> HIDE DEF d
  <1>2. \A n \in Numbers : c.thread[n] \in ThreadRows
    BY DEF Contents
  <1>3. ASSUME NEW n \in Numbers
        PROVE  /\ d.thread[n].state = IF n \in old THEN "archived" ELSE c.thread[n].state
               /\ d.thread[n].sticky = c.thread[n].sticky
               /\ d.thread[n].count = c.thread[n].count
    BY <1>1, <1>2 DEF ThreadRows
  <1>4. \A t \in old : c.thread[t].state = "active"
    BY DEF Active
  <1>5. \A p \in d.live : d.thread[c.place[p]].state \in {"active", "archived"}
    BY <1>1, <1>3 DEF BoardOK, Contents
  <1>6. \A n \in Numbers :
            /\ d.thread[n].state # "absent" => c.thread[n].state # "absent"
            /\ d.thread[n].state = "archived" => ~d.thread[n].sticky /\ b \in Archiving
            /\ d.thread[n].count = c.thread[n].count \/ Replies(d, n) = {}
    BY <1>3, <1>4 DEF BoardOK
  <1>7. BoardOK(b, d, k)
    BY <1>1, <1>5, <1>6, OrderKept
  <1>8. QED
    BY <1>7 DEF d

\* Threads leave, and every protected thread stays as it is.
HasMadeRoom(b, k, c, d, old) ==
    /\ Shrinks(c, d) /\ BoardOK(b, d, k)
    /\ Ordinary(d) = Ordinary(c) \ old
    /\ \A u \in Active(c) \ Ordinary(c) : d.thread[u] = c.thread[u]

LEMMA RoomIsMade ==
  ASSUME NEW b, NEW k, NEW c \in Contents, BoardOK(b, c, k),
         NEW old \in SUBSET Ordinary(c), NEW expired \in SUBSET Archived(c)
  PROVE  HasMadeRoom(b, k, c, MakeRoom(c, b, old, expired), old)
  <1> DEFINE d == MakeRoom(c, b, old, expired)
  <1>1. /\ old \subseteq Active(c) /\ \A t \in old : ~c.thread[t].sticky
        /\ Ordinary(c) \subseteq Active(c) /\ Active(c) \subseteq Numbers
        /\ Active(c) \cap Archived(c) = {}
    BY DEF Ordinary, Active, Archived
  <1>2. CASE b \in Archiving
    <2> DEFINE e == Archive(c, old)
    <2>1. /\ Shrinks(c, e)
          /\ e.thread = [t \in Numbers |->
                 IF t \in old THEN [c.thread[t] EXCEPT !.state = "archived"] ELSE c.thread[t]]
      BY ArchiveShrinks
    <2>2. BoardOK(b, e, k)
      BY <1>1, <1>2, ArchiveKeepsOrder
    <2>3. d = EraseThreads(e, expired)
      BY <1>2 DEF MakeRoom
    <2> HIDE DEF e, d
    <2>4. expired \subseteq Archived(e)
      BY <1>1, <2>1 DEF Archived
    <2>5. e \in Contents
      BY <2>1 DEF Shrinks
    <2>6. /\ Shrinks(e, d)
          /\ d.thread = [t \in Numbers |-> IF t \in expired THEN Erased ELSE e.thread[t]]
      BY <2>3, <2>5, EraseShrinks
    <2>7. BoardOK(b, d, k)
      BY <2>2, <2>3, <2>4, <2>5, EraseKeepsOrder
    <2>8. Shrinks(c, d)
      BY <2>1, <2>6, ShrinkingAgain
    <2>9. \A t \in Numbers : c.thread[t] \in ThreadRows
      BY DEF Contents
    <2>10. \A t \in Numbers : d.thread[t] = IF t \in expired THEN Erased
                                           ELSE IF t \in old THEN [c.thread[t] EXCEPT !.state = "archived"]
                                           ELSE c.thread[t]
      BY <2>1, <2>6
    <2>11. ASSUME NEW t \in Numbers PROVE t \in Ordinary(d) <=> t \in Ordinary(c) \ old
      <3>1. CASE t \in old \cup expired
        <4>1. d.thread[t].state \in {"deleted", "archived"}
          BY <2>9, <2>10, <3>1 DEF Erased, Absent, ThreadRows
        <4>2. t \notin Ordinary(c) \ old
          BY <1>1, <3>1
        <4>3. QED
          BY <4>1, <4>2 DEF Ordinary, Active
      <3>2. CASE t \notin old \cup expired
        BY <2>10, <3>2 DEF Ordinary, Active
      <3>3. QED
        BY <3>1, <3>2
    <2>12. Ordinary(d) = Ordinary(c) \ old
      BY <2>11 DEF Ordinary, Active
    <2>13. \A u \in Active(c) \ Ordinary(c) : d.thread[u] = c.thread[u]
      BY <1>1, <2>10
    <2>14. QED
      BY <2>7, <2>8, <2>12, <2>13 DEF HasMadeRoom, d
  <1>3. CASE b \notin Archiving
    <2>1. d = EraseThreads(c, old \cup expired)
      BY <1>3 DEF MakeRoom
    <2> HIDE DEF d
    <2>2. /\ Shrinks(c, d)
          /\ d.thread = [t \in Numbers |-> IF t \in old \cup expired THEN Erased ELSE c.thread[t]]
      BY <2>1, EraseShrinks
    <2>3. BoardOK(b, d, k)
      BY <1>1, <2>1, EraseKeepsOrder
    <2>4. ASSUME NEW t \in Numbers PROVE t \in Ordinary(d) <=> t \in Ordinary(c) \ old
      <3>1. CASE t \in old \cup expired
        <4>1. d.thread[t].state = "deleted"
          BY <2>2, <3>1 DEF Erased, Absent
        <4>2. t \notin Ordinary(c) \ old
          BY <1>1, <3>1
        <4>3. QED
          BY <4>1, <4>2 DEF Ordinary, Active
      <3>2. CASE t \notin old \cup expired
        BY <2>2, <3>2 DEF Ordinary, Active
      <3>3. QED
        BY <3>1, <3>2
    <2>5. Ordinary(d) = Ordinary(c) \ old
      BY <2>4 DEF Ordinary, Active
    <2>6. \A u \in Active(c) \ Ordinary(c) : d.thread[u] = c.thread[u]
      BY <1>1, <2>2
    <2>7. QED
      BY <2>2, <2>3, <2>5, <2>6 DEF HasMadeRoom, d
  <1>4. QED
    BY <1>2, <1>3

-----------------------------------------------------------------------------
(* Boards that gain a post. *)

\* The board d is c with post n in thread t, and perhaps without some others.
Posted(c, d, n, t, r) ==
    /\ d \in Contents /\ n \in d.live \ c.live /\ d.live \subseteq c.live \cup {n}
    /\ d.place = [c.place EXCEPT ![n] = t] /\ d.seen = c.seen /\ d.mute = c.mute
    /\ d.text[n] = r.text /\ d.born[n] = r.at
    /\ Judged(d) \subseteq Judged(c) \cup (IF r.vip THEN {} ELSE {n})
    /\ \A p \in d.live \ {n} : d.text[p] = c.text[p] /\ d.born[p] = c.born[p]
    /\ \A m \in Numbers : c.place[m] # NewThread => m < n

LEMMA NumberIsNew ==
  ASSUME NEW b, NEW k \in Nat, NEW c \in Contents, BoardOK(b, c, k), k + 1 \in Numbers
  PROVE  /\ k + 1 \notin c.live /\ c.thread[k + 1].state = "absent"
         /\ \A m \in Numbers : c.place[m] # NewThread => m < k + 1
         /\ \A p \in c.live : c.place[p] # k + 1
  <1>1. c.place[k + 1] = NewThread
    BY NumbersAreFinite DEF BoardOK
  <1>2. \A m \in Numbers : c.place[m] # NewThread => m < k + 1
    BY NumbersAreFinite DEF BoardOK
  <1>3. c.thread[k + 1].state = "absent"
    BY <1>1, NumbersAreFinite DEF BoardOK, NewThread
  <1>4. k + 1 \notin c.live
    BY <1>1 DEF BoardOK
  <1>5. \A p \in c.live : c.place[p] # k + 1
    BY <1>3 DEF BoardOK
  <1>6. QED
    BY <1>2, <1>3, <1>4, <1>5

LEMMA InsertIs ==
  ASSUME NEW c \in Contents, NEW t \in Numbers, NEW n \in Numbers, NEW r \in Requests
  PROVE  LET d == Insert(c, t, n, r)
         IN  /\ d \in Contents /\ d.live = c.live \cup {n} /\ d.thread = c.thread
             /\ d.place = [c.place EXCEPT ![n] = t] /\ d.seen = c.seen /\ d.mute = c.mute
             /\ d.text[n] = r.text /\ d.born[n] = r.at
             /\ Judged(d) \subseteq Judged(c) \cup (IF r.vip THEN {} ELSE {n})
             /\ \A p \in Numbers \ {n} : d.text[p] = c.text[p] /\ d.born[p] = c.born[p]
  <1> DEFINE marked == IF r.vip THEN c.verified \cup {n} ELSE c.verified
             place == [c.place EXCEPT ![n] = t]
             text == [c.text EXCEPT ![n] = r.text]
             born == [c.born EXCEPT ![n] = r.at]
             live == c.live \cup {n}
             d == Insert(c, t, n, r)
  <1>1. /\ marked \in SUBSET Numbers /\ live \in SUBSET Numbers
        /\ place \in [Numbers -> Numbers \cup {NewThread}]
        /\ text \in [Numbers -> Texts \cup {NoText}] /\ born \in [Numbers -> Times]
        /\ text[n] = r.text /\ born[n] = r.at
        /\ \A p \in Numbers \ {n} : text[p] = c.text[p] /\ born[p] = c.born[p]
    BY DEF Contents, Requests
  <1>2. live \ marked \subseteq (c.live \ c.verified) \cup (IF r.vip THEN {} ELSE {n})
    OBVIOUS
  <1>3. d = [c EXCEPT !.place = place, !.live = live, !.text = text, !.born = born,
                      !.verified = marked]
    BY DEF Insert
  <1> HIDE DEF marked, place, text, born, live, d
  <1>4. /\ d \in Contents /\ d.live = live /\ d.thread = c.thread /\ d.verified = marked
        /\ d.place = place /\ d.seen = c.seen /\ d.mute = c.mute /\ d.text = text /\ d.born = born
    BY <1>1, <1>3 DEF Contents
  <1>5. Judged(d) \subseteq Judged(c) \cup (IF r.vip THEN {} ELSE {n})
    BY <1>2, <1>4 DEF Judged
  <1>6. QED
    BY <1>1, <1>4, <1>5 DEF d, live, place

LEMMA PostedAfter ==
  ASSUME NEW b, NEW k, NEW c \in Contents, BoardOK(b, c, k), NEW e, Shrinks(c, e),
         NEW d, NEW n \in Numbers, NEW t, NEW r, Posted(e, d, n, t, r)
  PROVE  Posted(c, d, n, t, r)
  <1>1. \A m \in Numbers : c.place[m] # NewThread => m < n
    BY DEF Posted, Shrinks
  <1>2. n \notin c.live
    BY <1>1, NumbersAreFinite DEF BoardOK
  <1>3. QED
    BY <1>1, <1>2 DEF Posted, Shrinks

\* A thread opens: its post comes, and no thread has more replies than before.
LEMMA OpenPosts ==
  ASSUME NEW b, NEW k \in Nat, NEW c \in Contents, BoardOK(b, c, k),
         NEW n \in Numbers, n = k + 1, NEW r \in Requests
  PROVE  LET d == Open(c, n, r)
         IN  /\ Posted(c, d, n, n, r) /\ BoardOK(b, d, n)
             /\ RepliesFit(b, c) => RepliesFit(b, d)
             /\ d.thread = [c.thread EXCEPT ![n] = Fresh]
  <1> DEFINE e == [c EXCEPT !.thread[n] = Fresh]
             d == Open(c, n, r)
  <1>1. Fresh \in ThreadRows /\ Fresh.state = "active" /\ Fresh.count = 0
    BY DEF Fresh, Absent, ThreadRows
  <1>2. c.thread \in [Numbers -> ThreadRows]
    BY DEF Contents
  <1>3. [c.thread EXCEPT ![n] = Fresh] \in [Numbers -> ThreadRows]
    BY <1>1, <1>2
  <1>4. /\ e \in Contents /\ e.thread = [c.thread EXCEPT ![n] = Fresh]
        /\ e.live = c.live /\ e.place = c.place /\ e.seen = c.seen /\ e.mute = c.mute
        /\ e.text = c.text /\ e.born = c.born /\ e.verified = c.verified
    BY <1>3 DEF Contents
  <1>5. d = Insert(e, n, n, r)
    BY DEF Open
  <1> HIDE DEF e, d
  <1>6. /\ d \in Contents /\ d.live = c.live \cup {n} /\ d.thread = [c.thread EXCEPT ![n] = Fresh]
        /\ d.place = [c.place EXCEPT ![n] = n] /\ d.seen = c.seen /\ d.mute = c.mute
        /\ d.text[n] = r.text /\ d.born[n] = r.at
        /\ Judged(d) \subseteq Judged(c) \cup (IF r.vip THEN {} ELSE {n})
        /\ \A p \in Numbers \ {n} : d.text[p] = c.text[p] /\ d.born[p] = c.born[p]
    <2>1. Judged(e) = Judged(c)
      BY <1>4 DEF Judged
    <2>2. QED
      BY <1>4, <1>5, <2>1, InsertIs
  <1>7. /\ n \notin c.live /\ c.thread[n].state = "absent"
        /\ \A m \in Numbers : c.place[m] # NewThread => m < n
        /\ \A p \in c.live : c.place[p] # n
    BY NumberIsNew
  <1>8. Posted(c, d, n, n, r)
    BY <1>6, <1>7 DEF Posted, Contents
  <1>9. c.live \subseteq Numbers /\ c.place \in [Numbers -> Numbers \cup {NewThread}]
    BY DEF Contents
  <1>10. \A t \in Numbers : Replies(d, t) = Replies(c, t)
    BY <1>6, <1>7, <1>9 DEF Replies
  <1>11. n # NewThread
    BY DEF Numbers, NewThread
  <1>12. ASSUME NEW p \in d.live
         PROVE  d.place[p] # NewThread /\ d.thread[d.place[p]].state \in {"active", "archived"}
    <2>1. CASE p = n
      BY <1>1, <1>2, <1>6, <1>9, <1>11, <2>1
    <2>2. CASE p # n
      <3>1. p \in c.live /\ d.place[p] = c.place[p] /\ c.place[p] # n /\ c.place[p] # NewThread
        BY <1>6, <1>7, <1>9, <2>2 DEF BoardOK
      <3>2. c.place[p] \in Numbers /\ c.thread[c.place[p]].state \in {"active", "archived"}
        BY <1>9, <3>1 DEF BoardOK
      <3>3. QED
        BY <1>2, <1>6, <3>1, <3>2
    <2>3. QED
      BY <2>1, <2>2
  <1>13. ASSUME NEW m \in Numbers
         PROVE  /\ d.thread[m].state # "absent" => d.place[m] = m
                /\ d.thread[m].state = "archived" => ~d.thread[m].sticky /\ b \in Archiving
                /\ Cardinality(Replies(d, m)) <= d.thread[m].count
                /\ d.place[m] # NewThread => m <= n
    <2>1. CASE m = n
      <3>1. Replies(c, n) = {}
        BY <1>7 DEF Replies
      <3>2. d.thread[n] = Fresh /\ d.place[n] = n
        BY <1>2, <1>6, <1>9
      <3>3. Cardinality(Replies(d, n)) = 0
        BY <1>10, <3>1, FS_EmptySet
      <3>4. n <= n
        BY NumbersAreFinite
      <3>5. QED
        BY <1>1, <2>1, <3>2, <3>3, <3>4
    <2>2. CASE m # n
      <3>1. d.thread[m] = c.thread[m] /\ d.place[m] = c.place[m] /\ Replies(d, m) = Replies(c, m)
        BY <1>2, <1>6, <1>9, <1>10, <2>2
      <3>2. c.place[m] # NewThread => m <= n
        BY <1>7, NumbersAreFinite
      <3>3. QED
        BY <3>1, <3>2 DEF BoardOK
    <2>3. QED
      BY <2>1, <2>2
  <1>14. BoardOK(b, d, n)
    BY <1>12, <1>13 DEF BoardOK
  <1>15. RepliesFit(b, c) => RepliesFit(b, d)
    BY <1>10 DEF RepliesFit
  <1>16. QED
    BY <1>6, <1>8, <1>14, <1>15 DEF d

\* The window of a pinned thread makes room for one reply; any other thread that
\* takes replies has room.
LEMMA WindowMakesRoom ==
  ASSUME NEW b, NEW k, NEW c \in Contents, BoardOK(b, c, k), NEW t \in Numbers, HasRoom(c, b, t)
  PROVE  LET e == Window(c, t)
             left == Cardinality(Replies(e, t)) + 1
         IN  /\ Shrinks(c, e) /\ e.thread = c.thread /\ BoardOK(b, e, k)
             /\ Counted(e, b, t) \in Nat /\ left <= Counted(e, b, t)
             /\ left <= IF Autoarchives(b) THEN OrdinaryReplyLimit ELSE ReplyLimit
  <1> DEFINE e == Window(c, t)
             left == Cardinality(Replies(e, t))
  <1>1. CASE Windowed(c.thread[t])
    <2> DEFINE R == Replies(c, t)
    <2>1. e = Drop(c, Outlived(c, t))
      BY <1>1 DEF Window
    <2>2. Shrinks(c, e) /\ e.live = c.live \ Outlived(c, t) /\ e.thread = c.thread
      BY <2>1, DropShrinks
    <2>3. BoardOK(b, e, k)
      BY <2>1, DropKeepsOrder
    <2>4. R \in SUBSET Numbers
      BY RepliesAreFew
    <2>5. ReplyLimit - 1 \in Nat
      BY LimitsType, <1>1 DEF Windowed
    <2>6. Cardinality({p \in R : ~(Cardinality({q \in R : q > p}) >= ReplyLimit - 1)}) <= ReplyLimit - 1
      BY <2>4, <2>5, NewestAreFew
    <2>7. Replies(e, t) = {p \in R : p \notin Outlived(c, t)}
      BY <2>2 DEF Replies, Shrinks
    <2>8. {p \in R : p \notin Outlived(c, t)}
            = {p \in R : ~(Cardinality({q \in R : q > p}) >= ReplyLimit - 1)}
      BY DEF Outlived
    <2>9. left <= ReplyLimit - 1
      BY <2>6, <2>7, <2>8
    <2>10. left \in Nat
      BY <2>2, RepliesAreFew DEF Shrinks
    <2>11. Counted(e, b, t) = left + 1
      BY <1>1, <2>2 DEF Counted
    <2> HIDE DEF e, R
    <2>12. QED
      BY <2>2, <2>3, <2>9, <2>10, <2>11, LimitsType DEF e
  <1>2. CASE ~Windowed(c.thread[t])
    <2>1. e = c
      BY <1>2 DEF Window
    <2>2. Shrinks(c, e) /\ e.thread = c.thread /\ BoardOK(b, e, k)
      BY <2>1 DEF Shrinks
    <2>3. left \in Nat /\ c.thread[t].count \in Nat /\ left <= c.thread[t].count
      BY <2>1, RepliesAreFew DEF BoardOK, Contents, ThreadRows
    <2>4. CASE CountsSurvivors(b, c.thread[t])
      <3>1. left < OrdinaryReplyLimit /\ Autoarchives(b) /\ Counted(e, b, t) = left + 1
        BY <2>1, <2>4 DEF HasRoom, CountsSurvivors, Counted
      <3>2. QED
        BY <2>2, <2>3, <3>1, LimitsType
    <2>5. CASE ~CountsSurvivors(b, c.thread[t])
      <3>1. c.thread[t].count < ReplyLimit /\ Counted(e, b, t) = c.thread[t].count + 1
        BY <1>2, <2>1, <2>5 DEF HasRoom, Counted
      <3> HIDE DEF left
      <3>2. QED
        BY <2>2, <2>3, <3>1, LimitsType DEF left
    <2>6. QED
      BY <2>4, <2>5
  <1>3. QED
    BY <1>1, <1>2

\* A reply comes to a thread that takes replies, which stays within its limit.
LEMMA ReplyPosts ==
  ASSUME NEW b, NEW k \in Nat, NEW c \in Contents, BoardOK(b, c, k), RepliesFit(b, c),
         NEW n \in Numbers, n = k + 1, NEW r \in Requests, r.board = b,
         TakesReplies(c, b, r.parent)
  PROVE  LET d == Reply(c, n, r)
         IN  /\ Posted(c, d, n, r.parent, r) /\ BoardOK(b, d, n) /\ RepliesFit(b, d)
             /\ \A u \in Numbers : /\ d.thread[u].state = c.thread[u].state
                                   /\ d.thread[u].sticky = c.thread[u].sticky
                                   /\ d.thread[u].undead = c.thread[u].undead
  <1> DEFINE t == r.parent
             w == Window(c, t)
             e == [w EXCEPT !.thread[t].count = Counted(w, b, t)]
             d == Reply(c, n, r)
             limit == IF Autoarchives(b) THEN OrdinaryReplyLimit ELSE ReplyLimit
  <1>1. t \in Numbers /\ c.thread[t].state = "active" /\ HasRoom(c, b, t)
    BY DEF TakesReplies, Active
  <1>2. d = Insert(e, t, n, r)
    BY DEF Reply
  <1> HIDE DEF d, t
  <1>3. /\ Shrinks(c, w) /\ w.thread = c.thread /\ BoardOK(b, w, k)
        /\ Counted(w, b, t) \in Nat /\ Cardinality(Replies(w, t)) + 1 <= Counted(w, b, t)
        /\ Cardinality(Replies(w, t)) + 1 <= limit
    BY <1>1, WindowMakesRoom
  <1> HIDE DEF w
  <1>4. w \in Contents /\ w.thread \in [Numbers -> ThreadRows]
    BY <1>3 DEF Shrinks, Contents
  <1> DEFINE rows == [w.thread EXCEPT ![t].count = Counted(w, b, t)]
  <1>5. w.thread[t] \in ThreadRows
    BY <1>1, <1>4
  <1>6. [w.thread[t] EXCEPT !.count = Counted(w, b, t)] \in ThreadRows
    BY <1>3, <1>5 DEF ThreadRows
  <1>7. rows = [w.thread EXCEPT ![t] = [w.thread[t] EXCEPT !.count = Counted(w, b, t)]]
    OBVIOUS
  <1>8. rows \in [Numbers -> ThreadRows]
    BY <1>1, <1>4, <1>6, <1>7
  <1>9. e = [w EXCEPT !.thread = rows]
    OBVIOUS
  <1> HIDE DEF e
  <1>10. ASSUME NEW u \in Numbers
         PROVE  /\ rows[u].state = c.thread[u].state /\ rows[u].sticky = c.thread[u].sticky
                /\ rows[u].undead = c.thread[u].undead
                /\ rows[u].count = IF u = t THEN Counted(w, b, t) ELSE c.thread[u].count
    <2>1. CASE u = t
      BY <1>1, <1>3, <1>4, <1>5, <1>7, <2>1 DEF ThreadRows
    <2>2. CASE u # t
      BY <1>3, <1>4, <1>7, <2>2
    <2>3. QED
      BY <2>1, <2>2
  <1> HIDE DEF rows
  <1>11. /\ e \in Contents /\ e.thread = rows /\ e.live = w.live /\ e.place = w.place
         /\ e.seen = w.seen /\ e.mute = w.mute /\ e.text = w.text /\ e.born = w.born
         /\ e.verified = w.verified
    BY <1>4, <1>8, <1>9 DEF Contents
  <1>12. /\ d \in Contents /\ d.live = w.live \cup {n} /\ d.thread = rows
         /\ d.place = [w.place EXCEPT ![n] = t] /\ d.seen = w.seen /\ d.mute = w.mute
         /\ d.text[n] = r.text /\ d.born[n] = r.at
         /\ Judged(d) \subseteq Judged(w) \cup (IF r.vip THEN {} ELSE {n})
         /\ \A p \in Numbers \ {n} : d.text[p] = w.text[p] /\ d.born[p] = w.born[p]
    <2>1. Judged(e) = Judged(w)
      BY <1>11 DEF Judged
    <2>2. /\ d \in Contents /\ d.live = e.live \cup {n} /\ d.thread = e.thread
          /\ d.place = [e.place EXCEPT ![n] = t] /\ d.seen = e.seen /\ d.mute = e.mute
          /\ d.text[n] = r.text /\ d.born[n] = r.at
          /\ Judged(d) \subseteq Judged(e) \cup (IF r.vip THEN {} ELSE {n})
          /\ \A p \in Numbers \ {n} : d.text[p] = e.text[p] /\ d.born[p] = e.born[p]
      <3>1. e \in Contents
        BY <1>11
      <3>2. QED
        BY <1>1, <1>2, <3>1, InsertIs
    <2>3. QED
      BY <1>11, <2>1, <2>2
  <1>13. /\ n \notin w.live /\ w.thread[n].state = "absent"
         /\ \A m \in Numbers : w.place[m] # NewThread => m < n
         /\ \A p \in w.live : w.place[p] # n
    BY <1>3, <1>4, NumberIsNew
  <1>14. w.live \subseteq Numbers /\ w.place \in [Numbers -> Numbers \cup {NewThread}]
    BY <1>4 DEF Contents
  <1>15. Posted(w, d, n, t, r)
    BY <1>12, <1>13, <1>14 DEF Posted
  <1>16. Posted(c, d, n, t, r)
    BY <1>3, <1>15, PostedAfter
  <1>17. t # n
    BY <1>1, <1>3, <1>13
  <1>18. ASSUME NEW u \in Numbers
         PROVE  Replies(d, u) = IF u = t THEN Replies(w, t) \cup {n} ELSE Replies(w, u)
    BY <1>1, <1>12, <1>13, <1>14, <1>17 DEF Replies
  <1>19. Replies(w, t) \in SUBSET Numbers /\ n \notin Replies(w, t)
    BY <1>4, <1>13, RepliesAreFew DEF Replies
  <1>20. Cardinality(Replies(d, t)) = Cardinality(Replies(w, t)) + 1
    <2>1. IsFiniteSet(Replies(w, t)) /\ Cardinality(Replies(w, t)) \in Nat
      BY <1>19, FewNumbers
    <2>2. Cardinality(Replies(w, t) \cup {n}) = Cardinality(Replies(w, t)) + 1
      BY <1>19, <2>1, FS_AddElement
    <2>3. QED
      BY <1>1, <1>18, <2>2
  <1>21. ASSUME NEW p \in d.live
         PROVE  d.place[p] # NewThread /\ d.thread[d.place[p]].state \in {"active", "archived"}
    <2>1. CASE p = n
      <3>1. d.place[p] = t
        BY <1>12, <1>14, <2>1
      <3>2. t # NewThread
        BY <1>1 DEF Numbers, NewThread
      <3>3. QED
        BY <1>1, <1>10, <1>12, <3>1, <3>2
    <2>2. CASE p # n
      <3>1. p \in w.live /\ d.place[p] = w.place[p] /\ w.place[p] # NewThread
        BY <1>3, <1>12, <1>14, <2>2 DEF BoardOK
      <3>2. w.place[p] \in Numbers
        BY <1>14, <3>1
      <3>3. w.thread[w.place[p]].state \in {"active", "archived"}
        BY <1>3, <3>1 DEF BoardOK
      <3>4. d.thread[w.place[p]].state = w.thread[w.place[p]].state
        BY <1>3, <1>10, <1>12, <3>2
      <3>5. QED
        BY <3>1, <3>3, <3>4
    <2>3. QED
      BY <2>1, <2>2
  <1>22. ASSUME NEW m \in Numbers
         PROVE  /\ d.thread[m].state # "absent" => d.place[m] = m
                /\ d.thread[m].state = "archived" => ~d.thread[m].sticky /\ b \in Archiving
                /\ Cardinality(Replies(d, m)) <= d.thread[m].count
                /\ d.place[m] # NewThread => m <= n
    <2>1. d.thread[m].state # "absent" => d.place[m] = m
      BY <1>3, <1>10, <1>12, <1>13, <1>14 DEF BoardOK
    <2>2. d.thread[m].state = "archived" => ~d.thread[m].sticky /\ b \in Archiving
      BY <1>3, <1>10, <1>12 DEF BoardOK
    <2>3. CASE m = t
      <3>1. d.thread[m].count = Counted(w, b, t) /\ Replies(d, m) = Replies(d, t)
        BY <1>10, <1>12, <2>3
      <3>2. Cardinality(Replies(d, m)) <= d.thread[m].count
        BY <1>3, <1>20, <3>1
      <3>3. w.place[t] = t
        BY <1>1, <1>3 DEF BoardOK
      <3>4. w.place[m] # NewThread
        BY <1>1, <2>3, <3>3 DEF Numbers, NewThread
      <3>5. m <= n
        BY <1>13, <3>4, NumbersAreFinite
      <3>6. QED
        BY <2>1, <2>2, <3>2, <3>5
    <2>4. CASE m # t
      <3>1. Cardinality(Replies(w, m)) <= w.thread[m].count
        BY <1>3 DEF BoardOK
      <3>2. Replies(d, m) = Replies(w, m) /\ d.thread[m].count = w.thread[m].count
        BY <1>3, <1>10, <1>12, <1>18, <2>4
      <3>3. d.place[m] # NewThread => m <= n
        BY <1>12, <1>13, <1>14, NumbersAreFinite
      <3>4. QED
        BY <2>1, <2>2, <3>1, <3>2, <3>3
    <2>5. QED
      BY <2>3, <2>4
  <1>23. BoardOK(b, d, n)
    BY <1>21, <1>22 DEF BoardOK
  <1>24. ASSUME NEW u \in Numbers PROVE Cardinality(Replies(d, u)) <= limit
    <2>1. CASE u = t
      BY <1>3, <1>20, <2>1
    <2>2. CASE u # t
      <3>1. RepliesFit(b, w)
        BY <1>3, ShrinkingKeeps
      <3>2. QED
        BY <1>18, <2>2, <3>1 DEF RepliesFit
    <2>3. QED
      BY <2>1, <2>2
  <1>25. RepliesFit(b, d)
    BY <1>24 DEF RepliesFit
  <1>26. QED
    BY <1>10, <1>12, <1>16, <1>23, <1>25 DEF d, t

-----------------------------------------------------------------------------
(* Boards that differ only in what Robot9000 remembers. *)

SamePosts(c, d) ==
    /\ d \in Contents /\ d.thread = c.thread /\ d.place = c.place /\ d.live = c.live
    /\ d.text = c.text /\ d.born = c.born /\ d.verified = c.verified

LEMMA SamePostsKeep ==
  ASSUME NEW c \in Contents, NEW d, SamePosts(c, d), NEW b, NEW k
  PROVE  /\ BoardOK(b, c, k) => BoardOK(b, d, k)
         /\ RepliesFit(b, c) => RepliesFit(b, d)
         /\ \A at : Original(c, at) => Original(d, at)
         /\ Active(d) = Active(c) /\ Ordinary(d) = Ordinary(c)
  <1>1. \A t : Replies(d, t) = Replies(c, t)
    BY DEF SamePosts, Replies
  <1>2. BoardOK(b, c, k) => BoardOK(b, d, k)
    BY <1>1 DEF BoardOK, SamePosts
  <1>3. RepliesFit(b, c) => RepliesFit(b, d)
    BY <1>1 DEF RepliesFit
  <1>4. \A at : Original(c, at) => Original(d, at)
    BY DEF Original, Judged, Old, SamePosts
  <1>5. Active(d) = Active(c)
    BY DEF Active, SamePosts
  <1>6. Ordinary(d) = Ordinary(c)
    BY <1>5 DEF Ordinary, SamePosts
  <1>7. QED
    BY <1>2, <1>3, <1>4, <1>5, <1>6

LEMMA TimesAreNumbers == Times \subseteq Nat /\ \A s \in Times : Never < s /\ Never # s
  BY PostingAssumption DEF Times, Never

LEMMA VerdictIs ==
  ASSUME NEW c, NEW a, NEW x, NEW at
  PROVE  Verdict(c, a, x, at) \in {"allow", "duplicate", "muted"}
  BY DEF Verdict

\* What is decided depends on nothing else.
LEMMA VerdictRests ==
  ASSUME NEW c, NEW d, d.seen = c.seen, d.mute = c.mute, NEW a, NEW x, NEW at
  PROVE  Verdict(d, a, x, at) = Verdict(c, a, x, at)
  BY DEF Verdict

\* The board d is c but for what Robot9000 knows of x and of actors.
Remembers(c, d, x, at) ==
    /\ SamePosts(c, d)
    /\ d = [c EXCEPT !.seen = d.seen, !.mute = d.mute]
    /\ d.seen = c.seen \/ d.seen = [c.seen EXCEPT ![x] = at]

LEMMA RememberIs ==
  ASSUME NEW c \in Contents, NEW a \in Actors, NEW x \in Texts, NEW at \in Times
  PROVE  LET d == Remember(c, a, x, at)
         IN  /\ Remembers(c, d, x, at)
             /\ Verdict(c, a, x, at) = "allow" =>
                  c.seen[x] = Never /\ d.seen = [c.seen EXCEPT ![x] = at]
  <1> DEFINE d == Remember(c, a, x, at)
             seen == [c.seen EXCEPT ![x] = at]
             mute == [c.mute EXCEPT ![a] = at + MuteSeconds]
  <1>1. seen \in [Texts -> Times \cup {Never}] /\ mute \in [Actors -> Int]
    BY PostingAssumption, TimesAreNumbers DEF Contents
  <1>2. CASE Verdict(c, a, x, at) = "muted"
    <2>1. d = c
      BY <1>2 DEF Remember
    <2>2. QED
      BY <1>2, <2>1 DEF Remembers, SamePosts, Contents
  <1>3. CASE Verdict(c, a, x, at) = "duplicate"
    <2>1. d = [c EXCEPT !.mute[a] = at + MuteSeconds, !.seen[x] = at]
      BY <1>3 DEF Remember
    <2>2. d = [c EXCEPT !.mute = mute, !.seen = seen]
      BY <2>1
    <2> HIDE DEF d, seen, mute
    <2>3. QED
      BY <1>1, <1>3, <2>2 DEF Remembers, SamePosts, Contents, d, seen
  <1>4. CASE Verdict(c, a, x, at) = "allow"
    <2>1. d = [c EXCEPT !.seen[x] = at]
      BY <1>4 DEF Remember
    <2>2. d = [c EXCEPT !.seen = seen]
      BY <2>1
    <2>3. c.seen[x] = Never
      BY <1>4 DEF Verdict
    <2> HIDE DEF d, seen, mute
    <2>4. QED
      BY <1>1, <2>2, <2>3 DEF Remembers, SamePosts, Contents, d, seen
  <1>5. QED
    BY <1>2, <1>3, <1>4, VerdictIs

\* Time only makes posts old.
LEMMA TimePasses ==
  ASSUME NEW c \in Contents, NEW at \in Times, NEW to \in Times, at <= to
  PROVE  /\ Known(c, at) => Known(c, to)
         /\ Original(c, at) => Original(c, to)
  <1>1. \A p \in c.live : c.born[p] \in Nat
    BY TimesAreNumbers DEF Contents
  <1>2. at \in Nat /\ to \in Nat /\ TextSeconds \in Nat
    BY TimesAreNumbers, PostingAssumption
  <1>3. \A p \in c.live : Old(c, p, at) => Old(c, p, to)
    BY <1>1, <1>2 DEF Old
  <1>4. Known(c, at) => Known(c, to)
    BY <1>1, <1>2, <1>3 DEF Known, Judged
  <1>5. Original(c, at) => Original(c, to)
    BY <1>3 DEF Original, Judged
  <1>6. QED
    BY <1>4, <1>5

\* A text that is seen again is known for longer.
LEMMA RememberKnows ==
  ASSUME NEW c \in Contents, NEW d, SamePosts(c, d), NEW at \in Times, Known(c, at),
         NEW x \in Texts, d.seen = c.seen \/ d.seen = [c.seen EXCEPT ![x] = at]
  PROVE  Known(d, at)
  <1>1. ASSUME NEW p \in Judged(d)
        PROVE  /\ d.text[p] \in Texts /\ d.born[p] <= at
               /\ Old(d, p, at) \/ d.seen[d.text[p]] >= d.born[p]
    <2>1. /\ p \in c.live /\ p \in Judged(c) /\ d.text[p] = c.text[p] /\ d.born[p] = c.born[p]
          /\ c.text[p] \in Texts /\ c.born[p] <= at
          /\ Old(c, p, at) \/ c.seen[c.text[p]] >= c.born[p]
      BY DEF SamePosts, Known, Judged
    <2>2. c.born[p] \in Nat /\ at \in Nat
      BY <2>1, TimesAreNumbers DEF Contents
    <2>3. d.seen[c.text[p]] = c.seen[c.text[p]] \/ d.seen[c.text[p]] = at
      BY <2>1 DEF Contents
    <2>4. Old(d, p, at) <=> Old(c, p, at)
      BY <2>1 DEF Old
    <2>5. QED
      BY <2>1, <2>2, <2>3, <2>4
  <1>2. QED
    BY <1>1 DEF Known

\* A post that Robot9000 lets pass says what no recent post says, and is known.
LEMMA PostedIsOriginal ==
  ASSUME NEW b, NEW k, NEW c \in Contents, BoardOK(b, c, k), NEW at \in Times,
         Known(c, at), Original(c, at), NEW n \in Numbers, NEW r \in Requests, r.at <= at,
         NEW t, NEW d, Posted(c, d, n, t, r), c.seen[r.text] = Never,
         NEW e, SamePosts(d, e), e.seen = [d.seen EXCEPT ![r.text] = at]
  PROVE  Known(e, at) /\ Original(e, at)
  <1>1. /\ Judged(e) \subseteq Judged(c) \cup {n} /\ Judged(e) \subseteq c.live \cup {n}
        /\ e.text[n] = r.text /\ e.born[n] = r.at
        /\ \A p \in Judged(e) \ {n} : e.text[p] = c.text[p] /\ e.born[p] = c.born[p]
        /\ \A x \in Texts : e.seen[x] = IF x = r.text THEN at ELSE c.seen[x]
    <2>1. d.seen = c.seen /\ d.seen \in [Texts -> Times \cup {Never}]
      BY DEF Posted, Contents
    <2>2. \A x \in Texts : e.seen[x] = IF x = r.text THEN at ELSE c.seen[x]
      BY <2>1
    <2>3. e.text = d.text /\ e.born = d.born /\ Judged(e) = Judged(d)
      BY DEF SamePosts, Judged
    <2>4. /\ Judged(d) \subseteq Judged(c) \cup {n} /\ Judged(c) \subseteq c.live /\ Judged(d) \subseteq d.live
          /\ d.text[n] = r.text /\ d.born[n] = r.at
          /\ \A p \in Judged(d) \ {n} : d.text[p] = c.text[p] /\ d.born[p] = c.born[p]
      BY DEF Posted, Judged
    <2>5. QED
      BY <2>2, <2>3, <2>4
  <1>2. \A p \in c.live : p < n /\ p \in Nat /\ c.born[p] \in Nat
    BY NumbersAreFinite, TimesAreNumbers DEF Posted, BoardOK, Contents
  <1>3. r.text \in Texts /\ r.at \in Nat /\ at \in Nat /\ n \in Nat /\ Never < 0
    <2>1. r.text \in Texts /\ r.at \in Times
      BY DEF Requests
    <2>2. Never < 0
      BY DEF Never
    <2>3. QED
      BY <2>1, <2>2, NumbersAreFinite, TimesAreNumbers
  <1>4. ASSUME NEW p \in Judged(e) \ {n} PROVE Old(e, p, at) <=> Old(c, p, at)
    BY <1>1 DEF Old
  <1>5. ASSUME NEW p \in Judged(e)
        PROVE  /\ e.text[p] \in Texts /\ e.born[p] <= at
               /\ Old(e, p, at) \/ e.seen[e.text[p]] >= e.born[p]
    <2>1. CASE p = n
      BY <1>1, <1>3, <2>1
    <2>2. CASE p # n
      <3>1. /\ p \in Judged(c) /\ p \in c.live /\ e.text[p] = c.text[p] /\ e.born[p] = c.born[p]
            /\ c.text[p] \in Texts /\ c.born[p] <= at
            /\ Old(c, p, at) \/ c.seen[c.text[p]] >= c.born[p]
        BY <1>1, <2>2 DEF Known
      <3>2. CASE c.text[p] = r.text
        BY <1>1, <1>2, <1>3, <1>4, <2>2, <3>1, <3>2
      <3>3. CASE c.text[p] # r.text
        BY <1>1, <1>2, <1>3, <1>4, <2>2, <3>1, <3>3
      <3>4. QED
        BY <3>2, <3>3
    <2>3. QED
      BY <2>1, <2>2
  <1>6. Known(e, at)
    BY <1>5 DEF Known
  <1>7. ASSUME NEW p \in Judged(e), NEW q \in Judged(e), e.text[p] = e.text[q], p < q
        PROVE  Old(e, p, at)
    <2>1. p # n
      BY <1>1, <1>2, <1>3, <1>7
    <2>2. p \in Judged(c) /\ p \in c.live /\ e.text[p] = c.text[p] /\ (Old(e, p, at) <=> Old(c, p, at))
      BY <1>1, <1>4, <2>1
    <2>3. CASE q = n
      <3>1. c.text[p] = r.text
        BY <1>1, <1>7, <2>2, <2>3
      <3>2. Old(c, p, at) \/ Never >= c.born[p]
        BY <2>2, <3>1 DEF Known
      <3>3. QED
        BY <1>2, <2>2, <3>2 DEF Never
    <2>4. CASE q # n
      <3>1. q \in Judged(c) /\ e.text[q] = c.text[q]
        BY <1>1, <2>4
      <3>2. QED
        BY <1>7, <2>2, <3>1 DEF Original
    <2>5. QED
      BY <2>3, <2>4
  <1>8. Original(e, at)
    BY <1>7 DEF Original
  <1>9. QED
    BY <1>6, <1>8

\* A post of which Robot9000 is not asked and that it will not judge.
LEMMA ExemptIsLeftAlone ==
  ASSUME NEW c, NEW at, Known(c, at), Original(c, at),
         NEW n, NEW t, NEW r, r.vip, NEW d, Posted(c, d, n, t, r)
  PROVE  Known(d, at) /\ Original(d, at)
  <1>1. /\ Judged(d) \subseteq Judged(c) /\ d.seen = c.seen /\ n \notin Judged(d)
        /\ \A p \in Judged(d) : d.text[p] = c.text[p] /\ d.born[p] = c.born[p]
    BY DEF Posted, Judged
  <1>2. \A p \in Judged(d) : Old(d, p, at) <=> Old(c, p, at)
    BY <1>1 DEF Old
  <1>3. QED
    BY <1>1, <1>2 DEF Known, Original

\* The thread that is full goes to the archive, if it is one that may.
LEMMA SettledKeeps ==
  ASSUME NEW b, NEW k, NEW c \in Contents, BoardOK(b, c, k), NEW t
  PROVE  LET d == Settled(c, b, t)
         IN  /\ Shrinks(c, d) /\ d.live = c.live /\ BoardOK(b, d, k)
             /\ Active(c) \ Ordinary(c) \subseteq Active(d)
  <1> DEFINE d == Settled(c, b, t)
  <1>1. CASE d = c
    BY <1>1 DEF Shrinks
  <1>2. CASE d # c
    <2>1. b \in Archiving /\ t \in Ordinary(c) /\ d = Archive(c, {t})
      BY <1>2 DEF Settled, Autoarchives
    <2>2. {t} \subseteq Active(c) /\ \A u \in {t} : ~c.thread[u].sticky
      BY <2>1 DEF Ordinary
    <2>3. BoardOK(b, Archive(c, {t}), k)
      BY <2>1, <2>2, ArchiveKeepsOrder
    <2> HIDE DEF d
    <2>4. /\ Shrinks(c, d) /\ d.live = c.live
          /\ d.thread = [u \in Numbers |->
                 IF u \in {t} THEN [c.thread[u] EXCEPT !.state = "archived"] ELSE c.thread[u]]
      BY <2>1, ArchiveShrinks
    <2>5. Active(c) \ Ordinary(c) \subseteq Active(d)
      BY <2>1, <2>4 DEF Active
    <2>6. QED
      BY <2>1, <2>3, <2>4, <2>5 DEF d
  <1>3. QED
    BY <1>1, <1>2

-----------------------------------------------------------------------------
(* The inductive invariant: every board is good, and so is what every writer  *)
(* has seen and written.                                                     *)

GoodBoard(b, c, k, at) ==
    /\ c \in Contents /\ BoardOK(b, c, k) /\ RepliesFit(b, c)
    /\ b \in Robot => Known(c, at) /\ Original(c, at)

BoardsInv == \A b \in Boards : GoodBoard(b, content[b], number, now)

WriterInv(w) == ViewIsCurrent(w) /\ WrittenInOrder(w) /\ ReplayAgrees(w)

IndInv == PostingTypeOK /\ LocksAreExclusive /\ BoardsInv /\ \A w \in Writers : WriterInv(w)

LEMMA IndInvIs == IndInv <=> PostingInv /\ RepliesAreBounded /\ RobotPostsAreOriginal
  <1>1. Robot \subseteq Boards
    BY PostingAssumption
  <1>2. PostingTypeOK => \A b \in Boards : content[b] \in Contents
    BY DEF PostingTypeOK
  <1>3. QED
    BY <1>1, <1>2, Zenon DEF IndInv, PostingInv, RepliesAreBounded, RobotPostsAreOriginal,
       BoardsInv, WriterInv, GoodBoard

LEMMA EmptyIsGood ==
  ASSUME NEW b, NEW at \in Times
  PROVE  GoodBoard(b, Empty, 0, at)
  <1>1. Absent \in ThreadRows /\ Absent.state = "absent"
    BY DEF Absent, ThreadRows
  <1>2. 0 \in Times
    BY PostingAssumption DEF Times
  <1>3. Empty \in Contents
    BY <1>1, <1>2 DEF Empty, Contents, Never
  <1>4. Empty.live = {} /\ \A n \in Numbers : Empty.thread[n] = Absent /\ Empty.place[n] = NewThread
    BY DEF Empty
  <1>5. \A n : Replies(Empty, n) = {}
    BY <1>4 DEF Replies
  <1>6. \A n : Cardinality(Replies(Empty, n)) = 0
    BY <1>5, FS_EmptySet
  <1>7. Absent.count = 0
    BY DEF Absent
  <1>8. BoardOK(b, Empty, 0)
    BY <1>1, <1>4, <1>6, <1>7 DEF BoardOK
  <1>9. RepliesFit(b, Empty)
    BY <1>6, LimitsType DEF RepliesFit
  <1>10. Known(Empty, at) /\ Original(Empty, at)
    BY <1>4 DEF Known, Original, Judged
  <1>11. QED
    BY <1>3, <1>8, <1>9, <1>10 DEF GoodBoard

LEMMA GoodLater ==
  ASSUME NEW b, NEW c, NEW k \in Nat, NEW at \in Times, GoodBoard(b, c, k, at),
         NEW l \in Nat, k <= l, NEW to \in Times, at <= to
  PROVE  GoodBoard(b, c, l, to)
  <1>1. c \in Contents
    BY DEF GoodBoard
  <1>2. BoardOK(b, c, l)
    <2>1. \A n \in Numbers : c.place[n] # NewThread => n <= k
      BY DEF GoodBoard, BoardOK
    <2>2. \A n \in Numbers : c.place[n] # NewThread => n <= l
      BY <2>1, NumbersAreFinite
    <2>3. QED
      BY <2>2 DEF GoodBoard, BoardOK
  <1>3. QED
    BY <1>1, <1>2, TimePasses DEF GoodBoard

LEMMA GoodShrinks ==
  ASSUME NEW b, NEW c, NEW k, NEW at, GoodBoard(b, c, k, at),
         NEW d, Shrinks(c, d), BoardOK(b, d, k)
  PROVE  GoodBoard(b, d, k, at)
  <1>1. c \in Contents /\ d \in Contents
    BY DEF GoodBoard, Shrinks
  <1>2. QED
    BY <1>1, ShrinkingKeeps DEF GoodBoard

-----------------------------------------------------------------------------
(* What a step leaves alone. *)

LEMMA TypeParts ==
  ASSUME PostingTypeOK
  PROVE  /\ number \in Nat /\ now \in Times /\ now \in Nat
         /\ \A b \in Boards : content[b] \in Contents
         /\ \A w \in Writers : step[w] # "idle" => req[w] \in Requests
         /\ \A w \in Writers : view[w] \in Contents /\ saved[w] \in Contents
         /\ \A w \in Writers : mark[w].at \in Times
  <1>1. number \in 0 .. MaxNumber /\ now \in Times
    BY DEF PostingTypeOK
  <1>2. number \in Nat
    BY <1>1, PostingAssumption
  <1>3. now \in Nat
    BY <1>1, TimesAreNumbers
  <1>4. \A w \in Writers : step[w] # "idle" => req[w] \in Requests
    BY DEF PostingTypeOK
  <1>5. /\ \A b \in Boards : content[b] \in Contents
        /\ \A w \in Writers : view[w] \in Contents /\ saved[w] \in Contents
    BY DEF PostingTypeOK
  <1>6. \A w \in Writers : mark[w].at \in Times
    BY DEF PostingTypeOK
  <1>7. QED
    BY <1>1, <1>2, <1>3, <1>4, <1>5, <1>6

LEMMA NoReqIs ==
  ASSUME NEW r \in Requests
  PROVE  r # NoReq
  BY PostingAssumption DEF NoReq, Requests

\* What a transaction changes of its own.
LEMMA StepIs ==
  ASSUME PostingTypeOK, NEW w \in Writers, NEW s \in Steps, step' = [step EXCEPT ![w] = s]
  PROVE  /\ step' \in [Writers -> Steps]
         /\ \A v \in Writers : step'[v] = IF v = w THEN s ELSE step[v]
  <1>1. step \in [Writers -> Steps]
    BY DEF PostingTypeOK
  <1>2. QED
    BY <1>1

LEMMA ReqIs ==
  ASSUME PostingTypeOK, NEW w \in Writers, NEW r \in Requests \cup {NoReq}, req' = [req EXCEPT ![w] = r]
  PROVE  /\ req' \in [Writers -> Requests \cup {NoReq}]
         /\ \A v \in Writers : req'[v] = IF v = w THEN r ELSE req[v]
  <1>1. req \in [Writers -> Requests \cup {NoReq}]
    BY DEF PostingTypeOK
  <1>2. QED
    BY <1>1

LEMMA ViewIs ==
  ASSUME PostingTypeOK, NEW w \in Writers, NEW c \in Contents, view' = [view EXCEPT ![w] = c]
  PROVE  /\ view' \in [Writers -> Contents]
         /\ \A v \in Writers : view'[v] = IF v = w THEN c ELSE view[v]
  <1>1. view \in [Writers -> Contents]
    BY DEF PostingTypeOK
  <1>2. QED
    BY <1>1

LEMMA SavedIs ==
  ASSUME PostingTypeOK, NEW w \in Writers, NEW c \in Contents, saved' = [saved EXCEPT ![w] = c]
  PROVE  /\ saved' \in [Writers -> Contents]
         /\ \A v \in Writers : saved'[v] = IF v = w THEN c ELSE saved[v]
  <1>1. saved \in [Writers -> Contents]
    BY DEF PostingTypeOK
  <1>2. QED
    BY <1>1

Marks == [verdict : {"none", "allow", "duplicate", "muted"}, at : Times]

LEMMA MarkIs ==
  ASSUME PostingTypeOK, NEW w \in Writers, NEW m \in Marks, mark' = [mark EXCEPT ![w] = m]
  PROVE  /\ mark' \in [Writers -> Marks]
         /\ \A v \in Writers : mark'[v] = IF v = w THEN m ELSE mark[v]
  <1>1. mark \in [Writers -> Marks]
    BY DEF PostingTypeOK, Marks
  <1>2. QED
    BY <1>1

\* No transaction takes a lock.
LEMMA LocksRest ==
  ASSUME LocksAreExclusive,
         \A v \in Writers :
            \/ step'[v] \in {"idle", "actor"}
            \/ req'[v] = req[v] /\ (step'[v] = step[v] \/ {step[v], step'[v]} \subseteq Holding)
  PROVE  LocksAreExclusive'
  <1>1. ASSUME NEW v \in Writers
        PROVE  /\ \A a \in Actors : HasActor(v, a)' => HasActor(v, a)
               /\ HasCapacity(v)' => HasCapacity(v)
               /\ \A b \in Boards : HasBoard(v, b)' => HasBoard(v, b)
    <2>1. CASE step'[v] \in {"idle", "actor"}
      BY <2>1 DEF HasActor, HasCapacity, HasBoard, Holding
    <2>2. CASE step'[v] = step[v] /\ req'[v] = req[v]
      BY <2>2 DEF HasActor, HasCapacity, HasBoard
    <2>3. CASE {step[v], step'[v]} \subseteq Holding /\ req'[v] = req[v]
      BY <2>3 DEF HasActor, HasCapacity, HasBoard, Holding
    <2>4. QED
      BY <2>1, <2>2, <2>3
  <1>2. QED
    BY <1>1, Zenon DEF LocksAreExclusive

\* The boards are as they were; numbers and time go up.
LEMMA BoardsRest ==
  ASSUME PostingTypeOK, PostingTypeOK', BoardsInv, content' = content,
         number <= number', now <= now'
  PROVE  BoardsInv'
  <1>1. ASSUME NEW b \in Boards PROVE GoodBoard(b, content[b], number', now')
    <2>1. GoodBoard(b, content[b], number, now)
      BY DEF BoardsInv
    <2>2. number \in Nat /\ number' \in Nat /\ now \in Times /\ now' \in Times
      BY PostingAssumption DEF PostingTypeOK
    <2>3. QED
      BY <2>1, <2>2, GoodLater
  <1>2. QED
    BY <1>1 DEF BoardsInv

\* A transaction changes one board.
LEMMA BoardChanges ==
  ASSUME PostingTypeOK, BoardsInv, NEW b \in Boards, NEW c, GoodBoard(b, c, number, now),
         content' = [content EXCEPT ![b] = c], UNCHANGED <<number, now>>
  PROVE  BoardsInv' /\ content' \in [Boards -> Contents]
  <1>1. c \in Contents
    BY DEF GoodBoard
  <1>2. content' \in [Boards -> Contents]
    BY <1>1 DEF PostingTypeOK
  <1>3. ASSUME NEW d \in Boards PROVE GoodBoard(d, content'[d], number, now)
    BY DEF BoardsInv, PostingTypeOK
  <1>4. QED
    BY <1>2, <1>3 DEF BoardsInv

\* A writer whose transaction rests: its board is locked or not yet read.
LEMMA WriterRests ==
  ASSUME PostingTypeOK, PostingTypeOK', NEW w \in Writers, WriterInv(w),
         step'[w] = step[w], req'[w] = req[w], view'[w] = view[w], saved'[w] = saved[w],
         mark'[w] = mark[w],
         step[w] \in Holding => content'[req[w].board] = content[req[w].board],
         number <= number', now <= now',
         step[w] = "written" /\ req[w].parent = NewThread =>
            actions'[req[w].actor] = actions[req[w].actor]
  PROVE  WriterInv(w)'
  <1>1. /\ now \in Nat /\ now' \in Nat /\ number \in Nat /\ number' \in Nat /\ mark[w].at \in Nat
        /\ step[w] # "idle" => req[w].at \in Nat /\ req[w].actor \in Actors /\ req[w].board \in Boards
    <2>1. number \in Nat /\ now \in Nat /\ mark[w].at \in Nat
      BY TypeParts, TimesAreNumbers
    <2>2. number' \in Nat /\ now' \in Nat
      <3>1. number' \in 0 .. MaxNumber /\ now' \in Times
        BY DEF PostingTypeOK
      <3>2. number' \in Nat
        BY <3>1, PostingAssumption
      <3>3. now' \in Nat
        BY <3>1, TimesAreNumbers
      <3>4. QED
        BY <3>2, <3>3
    <2>3. step[w] # "idle" => req[w] \in Requests
      BY TypeParts
    <2>4. step[w] # "idle" => req[w].at \in Nat /\ req[w].actor \in Actors /\ req[w].board \in Boards
      BY <2>3, TimesAreNumbers DEF Requests
    <2>5. QED
      BY <2>1, <2>2, <2>4
  <1>2. ViewIsCurrent(w)'
    BY <1>1 DEF WriterInv, ViewIsCurrent, Holding
  <1>3. ReplayAgrees(w)'
    BY DEF WriterInv, ReplayAgrees, Replayed
  <1>4. ASSUME step[w] = "written" PROVE BoardOK(req[w].board, view[w], number')
    <2>1. BoardOK(req[w].board, view[w], number)
      BY <1>4 DEF WriterInv, WrittenInOrder
    <2>2. \A n \in Numbers : view[w].place[n] # NewThread => n <= number
      BY <2>1 DEF BoardOK
    <2>3. \A n \in Numbers : view[w].place[n] # NewThread => n <= number'
      BY <1>1, <2>2, NumbersAreFinite
    <2>4. QED
      BY <2>1, <2>3 DEF BoardOK
  <1>5. ASSUME step[w] = "written", req[w].parent = NewThread, Paced(req[w].actor, req[w].board)
        PROVE  Paced(req[w].actor, req[w].board)'
    <2>1. \A d \in Boards : actions[req[w].actor][d] \in Int
      <3>1. actions[req[w].actor] \in [Boards -> Times \cup {Never}]
        BY <1>1, <1>5 DEF PostingTypeOK
      <3>2. Never \in Int
        BY DEF Never
      <3>3. \A s \in Times \cup {Never} : s \in Int
        BY <3>2, TimesAreNumbers
      <3>4. QED
        BY <3>1, <3>3
    <2>2. CrossSeconds \in Nat
      BY PostingAssumption
    <2>3. QED
      BY <1>1, <1>5, <2>1, <2>2 DEF Paced
  <1>6. WrittenInOrder(w)'
    <2>1. CASE step[w] # "written"
      BY <2>1 DEF WrittenInOrder
    <2>2. CASE step[w] = "written"
      BY <1>4, <1>5, <2>2 DEF WriterInv, WrittenInOrder
    <2>3. QED
      BY <2>1, <2>2
  <1>7. QED
    BY <1>2, <1>3, <1>6 DEF WriterInv

\* A writer that has no lock of a board has seen and written nothing.
LEMMA WriterWaits ==
  ASSUME NEW w \in Writers, step'[w] \notin Holding, step'[w] # "idle" => (req'[w].at <= now')
  PROVE  WriterInv(w)'
  BY DEF WriterInv, ViewIsCurrent, WrittenInOrder, ReplayAgrees, Holding

-----------------------------------------------------------------------------
(* Requests and locks. *)

LEMMA AskKeeps ==
  ASSUME IndInv, NEW w \in Writers, NEW a \in Actors, NEW b \in Boards,
         NEW parent \in 0 .. MaxNumber, NEW x \in Texts, NEW vip \in BOOLEAN,
         Ask(w, a, b, parent, x, vip)
  PROVE  IndInv'
  <1> DEFINE r == [actor |-> a, board |-> b, parent |-> parent, text |-> x, vip |-> vip, at |-> now]
  <1>1. /\ PostingTypeOK /\ LocksAreExclusive /\ BoardsInv /\ \A v \in Writers : WriterInv(v)
        /\ number \in Nat /\ now \in Times /\ now \in Nat
    BY TypeParts DEF IndInv
  <1>2. parent \in Numbers \cup {NewThread}
    BY PostingAssumption DEF Numbers, NewThread
  <1>3. r \in Requests /\ r.at = now
    BY <1>1, <1>2 DEF Requests
  <1> HIDE DEF r
  <1>4. /\ step[w] = "idle" /\ step' = [step EXCEPT ![w] = "actor"] /\ req' = [req EXCEPT ![w] = r]
        /\ UNCHANGED <<number, now, content, actions, view, saved, mark>>
    BY DEF Ask, r
  <1>5. /\ step' \in [Writers -> Steps]
        /\ \A v \in Writers : step'[v] = IF v = w THEN "actor" ELSE step[v]
    BY <1>1, <1>4, StepIs DEF Steps
  <1>6. /\ req' \in [Writers -> Requests \cup {NoReq}]
        /\ \A v \in Writers : req'[v] = IF v = w THEN r ELSE req[v]
    BY <1>1, <1>3, <1>4, ReqIs
  <1>7. \A v \in Writers : step'[v] # "idle" => req'[v] # NoReq
    <2>1. r # NoReq
      BY <1>3, NoReqIs
    <2>2. \A v \in Writers : step[v] # "idle" => req[v] # NoReq
      BY <1>1 DEF PostingTypeOK
    <2>3. QED
      BY <1>5, <1>6, <2>1, <2>2
  <1>8. PostingTypeOK'
    BY <1>1, <1>4, <1>5, <1>6, <1>7 DEF PostingTypeOK
  <1>9. LocksAreExclusive'
    BY <1>1, <1>5, <1>6, LocksRest
  <1>10. BoardsInv'
    BY <1>1, <1>4, <1>8, BoardsRest
  <1>11. ASSUME NEW v \in Writers PROVE WriterInv(v)'
    <2>1. CASE v = w
      <3>1. step'[w] = "actor" /\ req'[w].at = now'
        BY <1>3, <1>4, <1>5, <1>6
      <3>2. step'[v] \notin Holding /\ req'[v].at <= now'
        BY <1>1, <1>4, <2>1, <3>1 DEF Holding
      <3>3. QED
        BY <3>2, WriterWaits
    <2>2. CASE v # w
      <3>1. /\ step'[v] = step[v] /\ req'[v] = req[v] /\ view'[v] = view[v] /\ saved'[v] = saved[v]
            /\ mark'[v] = mark[v] /\ content' = content /\ number <= number' /\ now <= now'
            /\ actions' = actions
        BY <1>1, <1>4, <1>5, <1>6, <2>2
      <3>2. QED
        BY <1>1, <1>8, <3>1, WriterRests
    <2>3. QED
      BY <2>1, <2>2
  <1>12. QED
    BY <1>8, <1>9, <1>10, <1>11 DEF IndInv

\* One transaction takes a lock that nobody has.
LEMMA LockTaken ==
  ASSUME LocksAreExclusive, NEW w \in Writers,
         \A v \in Writers : req'[v] = req[v] /\ (v # w => step'[v] = step[v]),
         \A a \in Actors : HasActor(w, a)' => HasActor(w, a) \/ \A v \in Writers : ~HasActor(v, a),
         HasCapacity(w)' => HasCapacity(w) \/ \A v \in Writers : ~HasCapacity(v),
         \A b \in Boards : HasBoard(w, b)' => HasBoard(w, b) \/ \A v \in Writers : ~HasBoard(v, b)
  PROVE  LocksAreExclusive'
  <1>1. ASSUME NEW v \in Writers, v # w
        PROVE  /\ \A a \in Actors : HasActor(v, a)' => HasActor(v, a)
               /\ HasCapacity(v)' => HasCapacity(v)
               /\ \A b \in Boards : HasBoard(v, b)' => HasBoard(v, b)
    BY <1>1 DEF HasActor, HasCapacity, HasBoard
  <1>2. ASSUME NEW u \in Writers, NEW v \in Writers, NEW a \in Actors, HasActor(u, a)', HasActor(v, a)'
        PROVE  u = v
    BY <1>1, <1>2, Zenon DEF LocksAreExclusive
  <1>3. ASSUME NEW u \in Writers, NEW v \in Writers, HasCapacity(u)', HasCapacity(v)'
        PROVE  u = v
    BY <1>1, <1>3, Zenon DEF LocksAreExclusive
  <1>4. ASSUME NEW u \in Writers, NEW v \in Writers, NEW b \in Boards, HasBoard(u, b)', HasBoard(v, b)'
        PROVE  u = v
    BY <1>1, <1>4, Zenon DEF LocksAreExclusive
  <1>5. QED
    BY <1>2, <1>3, <1>4, Zenon DEF LocksAreExclusive

\* A transaction comes nearer to the board, and has not read it yet.
LEMMA WaitingKeeps ==
  ASSUME IndInv, NEW w \in Writers, step[w] # "idle", NEW s \in {"capacity", "board"},
         step' = [step EXCEPT ![w] = s], LocksAreExclusive',
         UNCHANGED <<number, now, content, actions, req, view, saved, mark>>
  PROVE  IndInv'
  <1>1. /\ PostingTypeOK /\ LocksAreExclusive /\ BoardsInv /\ \A v \in Writers : WriterInv(v)
        /\ number \in Nat /\ now \in Nat
    BY TypeParts DEF IndInv
  <1>2. /\ step' \in [Writers -> Steps]
        /\ \A v \in Writers : step'[v] = IF v = w THEN s ELSE step[v]
    BY <1>1, StepIs DEF Steps
  <1>3. PostingTypeOK'
    <2>1. \A v \in Writers : step[v] # "idle" => req[v] # NoReq
      BY <1>1 DEF PostingTypeOK
    <2>2. \A v \in Writers : step'[v] # "idle" => req'[v] # NoReq
      BY <1>2, <2>1
    <2>3. QED
      BY <1>1, <1>2, <2>2 DEF PostingTypeOK
  <1>4. BoardsInv'
    BY <1>1, <1>3, BoardsRest
  <1>5. ASSUME NEW v \in Writers PROVE WriterInv(v)'
    <2>1. CASE v = w
      <3>1. req[w].at <= now
        BY <1>1 DEF WriterInv, ViewIsCurrent
      <3>2. step'[v] \notin Holding /\ req'[v].at <= now'
        BY <1>2, <2>1, <3>1 DEF Holding
      <3>3. QED
        BY <3>2, WriterWaits
    <2>2. CASE v # w
      <3>1. step'[v] = step[v] /\ number <= number' /\ now <= now'
        BY <1>1, <1>2, <2>2
      <3>2. QED
        BY <1>1, <1>3, <3>1, WriterRests
    <2>3. QED
      BY <2>1, <2>2
  <1>6. QED
    BY <1>3, <1>4, <1>5 DEF IndInv

LEMMA LockActorKeeps ==
  ASSUME IndInv, NEW w \in Writers, LockActor(w)
  PROVE  IndInv'
  <1> DEFINE s == IF req[w].parent = NewThread THEN "capacity" ELSE "board"
  <1>1. PostingTypeOK /\ LocksAreExclusive
    BY DEF IndInv
  <1>2. s \in {"capacity", "board"} /\ (s = "capacity" \/ req[w].parent # NewThread)
    OBVIOUS
  <1>3. /\ step[w] = "actor" /\ step' = [step EXCEPT ![w] = s] /\ req' = req
        /\ \A v \in Writers : ~HasActor(v, req[w].actor)
    BY DEF LockActor
  <1> HIDE DEF s
  <1>4. \A v \in Writers : step'[v] = IF v = w THEN s ELSE step[v]
    BY <1>1, <1>2, <1>3, StepIs DEF Steps
  <1>5. LocksAreExclusive'
    <2>1. \A a \in Actors : HasActor(w, a)' => \A v \in Writers : ~HasActor(v, a)
      BY <1>3 DEF HasActor
    <2>2. ~HasCapacity(w)' /\ \A b \in Boards : ~HasBoard(w, b)'
      BY <1>2, <1>3, <1>4 DEF HasCapacity, HasBoard, Holding
    <2>3. \A v \in Writers : req'[v] = req[v] /\ (v # w => step'[v] = step[v])
      BY <1>3, <1>4
    <2>4. QED
      BY <1>1, <2>1, <2>2, <2>3, LockTaken
  <1>6. QED
    BY <1>2, <1>3, <1>5, WaitingKeeps DEF LockActor

LEMMA LockCapacityKeeps ==
  ASSUME IndInv, NEW w \in Writers, LockCapacity(w)
  PROVE  IndInv'
  <1>1. PostingTypeOK /\ LocksAreExclusive
    BY DEF IndInv
  <1>2. /\ step[w] = "capacity" /\ step' = [step EXCEPT ![w] = "board"] /\ req' = req
        /\ \A v \in Writers : ~HasCapacity(v)
    BY DEF LockCapacity
  <1>3. \A v \in Writers : step'[v] = IF v = w THEN "board" ELSE step[v]
    BY <1>1, <1>2, StepIs DEF Steps
  <1>4. LocksAreExclusive'
    <2>1. \A a \in Actors : HasActor(w, a)' => HasActor(w, a)
      BY <1>2 DEF HasActor
    <2>2. \A b \in Boards : ~HasBoard(w, b)'
      BY <1>3 DEF HasBoard, Holding
    <2>3. \A v \in Writers : req'[v] = req[v] /\ (v # w => step'[v] = step[v])
      BY <1>2, <1>3
    <2>4. QED
      BY <1>1, <1>2, <2>1, <2>2, <2>3, LockTaken
  <1>5. QED
    BY <1>2, <1>4, WaitingKeeps DEF LockCapacity

LEMMA LockBoardKeeps ==
  ASSUME IndInv, NEW w \in Writers, LockBoard(w)
  PROVE  IndInv'
  <1>1. /\ PostingTypeOK /\ LocksAreExclusive /\ BoardsInv /\ \A v \in Writers : WriterInv(v)
        /\ number \in Nat /\ now \in Nat
    BY TypeParts DEF IndInv
  <1> DEFINE c == content[req[w].board]
  <1>2. /\ step[w] = "board" /\ step' = [step EXCEPT ![w] = "admission"]
        /\ \A v \in Writers : ~HasBoard(v, req[w].board)
        /\ view' = [view EXCEPT ![w] = c]
        /\ UNCHANGED <<number, now, content, actions, req, saved, mark>>
    BY DEF LockBoard
  <1>3. /\ step' \in [Writers -> Steps]
        /\ \A v \in Writers : step'[v] = IF v = w THEN "admission" ELSE step[v]
    BY <1>1, <1>2, StepIs DEF Steps
  <1>4. c \in Contents
    <2>1. req[w] \in Requests
      BY <1>1, <1>2, TypeParts
    <2>2. QED
      BY <1>1, <2>1, TypeParts DEF Requests
  <1> HIDE DEF c
  <1>5. /\ view' \in [Writers -> Contents]
        /\ \A v \in Writers : view'[v] = IF v = w THEN c ELSE view[v]
    BY <1>1, <1>2, <1>4, ViewIs
  <1>6. PostingTypeOK'
    <2>1. \A v \in Writers : step[v] # "idle" => req[v] # NoReq
      BY <1>1 DEF PostingTypeOK
    <2>2. \A v \in Writers : step'[v] # "idle" => req'[v] # NoReq
      BY <1>2, <1>3, <2>1
    <2>3. QED
      BY <1>1, <1>2, <1>3, <1>5, <2>2 DEF PostingTypeOK
  <1>7. LocksAreExclusive'
    <2>1. \A a \in Actors : HasActor(w, a)' => HasActor(w, a)
      BY <1>2 DEF HasActor
    <2>2. HasCapacity(w)' => HasCapacity(w)
      BY <1>2 DEF HasCapacity
    <2>3. \A b \in Boards : HasBoard(w, b)' => \A v \in Writers : ~HasBoard(v, b)
      BY <1>2 DEF HasBoard
    <2>4. \A v \in Writers : req'[v] = req[v] /\ (v # w => step'[v] = step[v])
      BY <1>2, <1>3
    <2>5. QED
      BY <1>1, <2>1, <2>2, <2>3, <2>4, LockTaken
  <1>8. BoardsInv'
    BY <1>1, <1>2, <1>6, BoardsRest
  <1>9. ASSUME NEW v \in Writers PROVE WriterInv(v)'
    <2>1. CASE v = w
      <3>1. req[w].at <= now
        BY <1>1, <1>2 DEF WriterInv, ViewIsCurrent
      <3>2. step'[w] = "admission" /\ view'[w] = content'[req'[w].board] /\ req'[w].at <= now'
        BY <1>2, <1>3, <1>5, <3>1 DEF c
      <3>3. QED
        BY <2>1, <3>2 DEF WriterInv, ViewIsCurrent, WrittenInOrder, ReplayAgrees
    <2>2. CASE v # w
      <3>1. step'[v] = step[v] /\ view'[v] = view[v] /\ number <= number' /\ now <= now'
        BY <1>1, <1>2, <1>3, <1>5, <2>2
      <3>2. QED
        BY <1>1, <1>2, <1>6, <3>1, WriterRests
    <2>3. QED
      BY <2>1, <2>2
  <1>10. QED
    BY <1>6, <1>7, <1>8, <1>9 DEF IndInv

-----------------------------------------------------------------------------
(* The end of a transaction, and time. *)

LEMMA EndsIs ==
  ASSUME PostingTypeOK, NEW w \in Writers, Ends(w)
  PROVE  /\ step' \in [Writers -> Steps] /\ req' \in [Writers -> Requests \cup {NoReq}]
         /\ view' \in [Writers -> Contents] /\ saved' \in [Writers -> Contents]
         /\ mark' \in [Writers -> Marks]
         /\ \A v \in Writers : step'[v] # "idle" => req'[v] # NoReq
         /\ step'[w] = "idle"
         /\ \A v \in Writers \ {w} :
              /\ step'[v] = step[v] /\ req'[v] = req[v] /\ view'[v] = view[v]
              /\ saved'[v] = saved[v] /\ mark'[v] = mark[v]
  <1>1. Empty \in Contents
    BY TypeParts, EmptyIsGood DEF GoodBoard
  <1>2. NoMark \in Marks
    BY PostingAssumption DEF NoMark, Marks, Times
  <1>3. /\ step' \in [Writers -> Steps]
        /\ \A v \in Writers : step'[v] = IF v = w THEN "idle" ELSE step[v]
    BY StepIs DEF Ends, Steps
  <1>4. /\ req' \in [Writers -> Requests \cup {NoReq}]
        /\ \A v \in Writers : req'[v] = IF v = w THEN NoReq ELSE req[v]
    BY ReqIs DEF Ends
  <1>5. /\ view' \in [Writers -> Contents]
        /\ \A v \in Writers : view'[v] = IF v = w THEN Empty ELSE view[v]
    BY <1>1, ViewIs DEF Ends
  <1>6. /\ saved' \in [Writers -> Contents]
        /\ \A v \in Writers : saved'[v] = IF v = w THEN Empty ELSE saved[v]
    BY <1>1, SavedIs DEF Ends
  <1>7. /\ mark' \in [Writers -> Marks]
        /\ \A v \in Writers : mark'[v] = IF v = w THEN NoMark ELSE mark[v]
    BY <1>2, MarkIs DEF Ends
  <1>8. \A v \in Writers : step'[v] # "idle" => req'[v] # NoReq
    <2>1. \A v \in Writers : step[v] # "idle" => req[v] # NoReq
      BY DEF PostingTypeOK
    <2>2. QED
      BY <1>3, <1>4, <2>1
  <1>9. QED
    BY <1>3, <1>4, <1>5, <1>6, <1>7, <1>8

\* A transaction ends, whatever it commits on its board.
LEMMA EndKeeps ==
  ASSUME IndInv, NEW w \in Writers, Ends(w), UNCHANGED <<number, now>>,
         content' \in [Boards -> Contents], BoardsInv',
         actions' \in [Actors -> [Boards -> Times \cup {Never}]],
         \A v \in Writers \ {w} :
            /\ step[v] \in Holding => content'[req[v].board] = content[req[v].board]
            /\ step[v] = "written" /\ req[v].parent = NewThread =>
                  actions'[req[v].actor] = actions[req[v].actor]
  PROVE  IndInv'
  <1>1. /\ PostingTypeOK /\ LocksAreExclusive /\ \A v \in Writers : WriterInv(v)
        /\ number \in Nat /\ now \in Nat
    BY TypeParts DEF IndInv
  <1>2. /\ step' \in [Writers -> Steps] /\ req' \in [Writers -> Requests \cup {NoReq}]
        /\ view' \in [Writers -> Contents] /\ saved' \in [Writers -> Contents]
        /\ mark' \in [Writers -> Marks]
        /\ \A v \in Writers : step'[v] # "idle" => req'[v] # NoReq
        /\ step'[w] = "idle"
        /\ \A v \in Writers \ {w} :
             /\ step'[v] = step[v] /\ req'[v] = req[v] /\ view'[v] = view[v]
             /\ saved'[v] = saved[v] /\ mark'[v] = mark[v]
    BY <1>1, EndsIs
  <1>3. PostingTypeOK'
    BY <1>1, <1>2 DEF PostingTypeOK, Marks
  <1>4. LocksAreExclusive'
    BY <1>1, <1>2, LocksRest
  <1>5. ASSUME NEW v \in Writers PROVE WriterInv(v)'
    <2>1. CASE v = w
      <3>1. step'[v] = "idle"
        BY <1>2, <2>1
      <3>2. step'[v] \notin Holding
        BY <3>1 DEF Holding
      <3>3. QED
        BY <3>1, <3>2, WriterWaits
    <2>2. CASE v # w
      <3>1. /\ step'[v] = step[v] /\ req'[v] = req[v] /\ view'[v] = view[v]
            /\ saved'[v] = saved[v] /\ mark'[v] = mark[v] /\ number <= number' /\ now <= now'
        BY <1>1, <1>2, <2>2
      <3>2. QED
        BY <1>1, <1>3, <2>2, <3>1, WriterRests
    <2>3. QED
      BY <2>1, <2>2
  <1>6. QED
    BY <1>3, <1>4, <1>5 DEF IndInv

LEMMA AbandonKeeps ==
  ASSUME IndInv, NEW w \in Writers, Abandon(w)
  PROVE  IndInv'
  <1>1. Ends(w) /\ UNCHANGED <<number, now, content, actions>>
    BY DEF Abandon
  <1>2. PostingTypeOK /\ BoardsInv
    BY DEF IndInv
  <1>3. BoardsInv'
    BY <1>1, <1>2 DEF BoardsInv
  <1>4. content' \in [Boards -> Contents] /\ actions' \in [Actors -> [Boards -> Times \cup {Never}]]
    BY <1>1, <1>2 DEF PostingTypeOK
  <1>5. QED
    BY <1>1, <1>3, <1>4, EndKeeps

\* Nobody else holds the board of a transaction that has it, or opens a thread.
LEMMA HeldAlone ==
  ASSUME PostingTypeOK, LocksAreExclusive, NEW v \in Writers, NEW w \in Writers, v # w,
         step[v] \in Holding, step[w] \in Holding
  PROVE  /\ req[v].board # req[w].board
         /\ ~(req[v].parent = NewThread /\ req[w].parent = NewThread)
  <1>1. req[w].board \in Boards
    <2>1. step[w] # "idle"
      BY DEF Holding
    <2>2. req[w] \in Requests
      BY <2>1, TypeParts
    <2>3. QED
      BY <2>2 DEF Requests
  <1>2. ASSUME req[v].board = req[w].board PROVE FALSE
    <2>1. HasBoard(v, req[w].board) /\ HasBoard(w, req[w].board)
      BY <1>2 DEF HasBoard
    <2>2. QED
      BY <1>1, <2>1 DEF LocksAreExclusive
  <1>3. ASSUME req[v].parent = NewThread, req[w].parent = NewThread PROVE FALSE
    <2>1. HasCapacity(v) /\ HasCapacity(w)
      BY <1>3 DEF HasCapacity
    <2>2. QED
      BY <2>1 DEF LocksAreExclusive
  <1>4. QED
    BY <1>2, <1>3

LEMMA CommitKeeps ==
  ASSUME IndInv, NEW w \in Writers, step[w] = "written", NEW c,
         GoodBoard(req[w].board, c, number, now), Commit(w, c),
         \/ actions' = actions
         \/ /\ req[w].parent = NewThread
            /\ \E s \in Times \cup {Never} :
                 actions' = [actions EXCEPT ![req[w].actor][req[w].board] = s]
  PROVE  IndInv'
  <1>1. PostingTypeOK /\ LocksAreExclusive /\ BoardsInv
    BY DEF IndInv
  <1>2. req[w].board \in Boards /\ req[w].actor \in Actors
    <2>1. req[w] \in Requests
      BY <1>1, TypeParts
    <2>2. QED
      BY <2>1 DEF Requests
  <1>3. content' = [content EXCEPT ![req[w].board] = c] /\ Ends(w) /\ UNCHANGED <<number, now>>
    BY DEF Commit
  <1>4. BoardsInv' /\ content' \in [Boards -> Contents]
    BY <1>1, <1>2, <1>3, BoardChanges
  <1>5. step[w] \in Holding
    BY DEF Holding
  <1>6. actions \in [Actors -> [Boards -> Times \cup {Never}]] /\ content \in [Boards -> Contents]
    BY <1>1 DEF PostingTypeOK
  <1>7. actions' \in [Actors -> [Boards -> Times \cup {Never}]]
    <2>1. CASE actions' = actions
      BY <1>6, <2>1
    <2>2. ASSUME NEW s \in Times \cup {Never},
                 actions' = [actions EXCEPT ![req[w].actor][req[w].board] = s]
          PROVE  actions' \in [Actors -> [Boards -> Times \cup {Never}]]
      <3>1. [actions[req[w].actor] EXCEPT ![req[w].board] = s] \in [Boards -> Times \cup {Never}]
        BY <1>2, <1>6
      <3>2. actions' = [actions EXCEPT ![req[w].actor] = [actions[req[w].actor] EXCEPT ![req[w].board] = s]]
        BY <2>2
      <3>3. QED
        BY <1>2, <1>6, <3>1, <3>2
    <2>3. QED
      BY <2>1, <2>2
  <1>8. ASSUME NEW v \in Writers \ {w}, step[v] \in Holding
        PROVE  /\ content'[req[v].board] = content[req[v].board]
               /\ req[v].parent = NewThread => actions'[req[v].actor] = actions[req[v].actor]
    <2>1. /\ req[v].board # req[w].board
          /\ ~(req[v].parent = NewThread /\ req[w].parent = NewThread)
      BY <1>1, <1>5, <1>8, HeldAlone
    <2>2. req[v].board \in Boards
      <3>1. step[v] # "idle"
        BY <1>8 DEF Holding
      <3>2. req[v] \in Requests
        BY <1>1, <3>1, TypeParts
      <3>3. QED
        BY <3>2 DEF Requests
    <2>3. QED
      BY <1>3, <1>6, <2>1, <2>2
  <1>9. \A v \in Writers \ {w} :
            /\ step[v] \in Holding => content'[req[v].board] = content[req[v].board]
            /\ step[v] = "written" /\ req[v].parent = NewThread =>
                  actions'[req[v].actor] = actions[req[v].actor]
    BY <1>8 DEF Holding
  <1>10. QED
    BY <1>3, <1>4, <1>7, <1>9, EndKeeps

LEMMA TickKeeps ==
  ASSUME IndInv, Tick
  PROVE  IndInv'
  <1>1. /\ PostingTypeOK /\ LocksAreExclusive /\ BoardsInv /\ \A v \in Writers : WriterInv(v)
        /\ number \in Nat /\ now \in Nat
    BY TypeParts DEF IndInv
  <1>2. now < MaxTime /\ now' = now + 1 /\ UNCHANGED <<number, content, actions, step, req, view, saved, mark>>
    BY DEF Tick, txVars
  <1>3. now' \in Times /\ now <= now'
    BY <1>1, <1>2, PostingAssumption DEF Times
  <1>4. PostingTypeOK'
    BY <1>1, <1>2, <1>3 DEF PostingTypeOK
  <1>5. LocksAreExclusive'
    BY <1>1, <1>2, LocksRest
  <1>6. BoardsInv'
    BY <1>1, <1>2, <1>3, <1>4, BoardsRest
  <1>7. ASSUME NEW v \in Writers PROVE WriterInv(v)'
    <2>1. /\ step'[v] = step[v] /\ req'[v] = req[v] /\ view'[v] = view[v] /\ saved'[v] = saved[v]
          /\ mark'[v] = mark[v] /\ content' = content /\ actions' = actions /\ number <= number'
      BY <1>1, <1>2
    <2>2. QED
      BY <1>1, <1>3, <1>4, <2>1, WriterRests
  <1>8. QED
    BY <1>4, <1>5, <1>6, <1>7 DEF IndInv

-----------------------------------------------------------------------------
(* What a transaction commits. *)

\* What a writer that has written knows.
LEMMA WrittenFacts ==
  ASSUME IndInv, NEW w \in Writers, step[w] = "written"
  PROVE  LET b == req[w].board IN
         /\ b \in Boards /\ req[w].actor \in Actors /\ req[w].text \in Texts /\ req[w].at \in Times
         /\ req[w].parent \in Numbers \cup {NewThread}
         /\ saved[w] = content[b] /\ view[w] \in Contents
         /\ mark[w].at \in Times /\ mark[w].at <= now /\ now \in Times /\ number \in Nat
         /\ GoodBoard(b, content[b], number, now)
         /\ WrittenInOrder(w) /\ ReplayAgrees(w)
  <1>1. PostingTypeOK /\ BoardsInv /\ WriterInv(w)
    BY DEF IndInv
  <1>2. req[w] \in Requests
    BY <1>1, TypeParts
  <1>3. /\ req[w].board \in Boards /\ req[w].actor \in Actors /\ req[w].text \in Texts
        /\ req[w].at \in Times /\ req[w].parent \in Numbers \cup {NewThread}
    BY <1>2 DEF Requests
  <1>4. GoodBoard(req[w].board, content[req[w].board], number, now)
    BY <1>1, <1>3 DEF BoardsInv
  <1>5. view[w] \in Contents /\ mark[w].at \in Times /\ now \in Times /\ number \in Nat
    BY <1>1, TypeParts
  <1>6. saved[w] = content[req[w].board] /\ mark[w].at <= now
    BY <1>1 DEF WriterInv, ViewIsCurrent
  <1>7. QED
    BY <1>1, <1>3, <1>4, <1>5, <1>6 DEF WriterInv

LEMMA WrittenIsGood ==
  ASSUME IndInv, NEW w \in Writers, step[w] = "written", mark[w].verdict = "allow"
  PROVE  GoodBoard(req[w].board, view[w], number, now)
  <1> DEFINE b == req[w].board
             d == view[w]
  <1>1. /\ d \in Contents /\ mark[w].at \in Times /\ mark[w].at <= now /\ now \in Times
        /\ WrittenInOrder(w)
    BY WrittenFacts
  <1>2. /\ BoardOK(b, d, number) /\ RepliesFit(b, d)
        /\ b \in Robot => Known(d, mark[w].at) /\ Original(d, mark[w].at)
    BY <1>1 DEF WrittenInOrder
  <1> HIDE DEF b, d
  <1>3. b \in Robot => Known(d, now) /\ Original(d, now)
    BY <1>1, <1>2, TimePasses
  <1>4. GoodBoard(b, d, number, now)
    BY <1>1, <1>2, <1>3 DEF GoodBoard
  <1>5. QED
    BY <1>4 DEF b, d

LEMMA RestoredIs ==
  ASSUME IndInv, NEW w \in Writers, step[w] = "written"
  PROVE  LET b == req[w].board
             d == Restored(w)
         IN  GoodBoard(b, d, number, now) /\ Remembers(content[b], d, req[w].text, mark[w].at)
  <1> DEFINE b == req[w].board
             c == content[b]
             d == Restored(w)
  <1>1. /\ req[w].actor \in Actors /\ req[w].text \in Texts /\ saved[w] = c
        /\ mark[w].at \in Times /\ mark[w].at <= now /\ now \in Times
        /\ GoodBoard(b, c, number, now) /\ WrittenInOrder(w)
    BY WrittenFacts
  <1>2. c \in Contents
    BY <1>1 DEF GoodBoard
  <1>3. CASE ~RobotApplies(req[w])
    <2>1. d = c
      BY <1>1, <1>3 DEF Restored
    <2> HIDE DEF b, c, d
    <2>2. Remembers(c, d, req[w].text, mark[w].at)
      BY <1>2, <2>1 DEF Remembers, SamePosts, Contents
    <2>3. QED
      BY <1>1, <2>1, <2>2 DEF b, c, d
  <1>4. CASE RobotApplies(req[w])
    <2>1. d = Remember(c, req[w].actor, req[w].text, mark[w].at)
      BY <1>1, <1>4 DEF Restored
    <2>2. Known(c, mark[w].at)
      BY <1>1, <1>4 DEF WrittenInOrder, RobotApplies
    <2> HIDE DEF b, c, d
    <2>3. Remembers(c, d, req[w].text, mark[w].at)
      BY <1>1, <1>2, <2>1, RememberIs
    <2>4. /\ SamePosts(c, d) /\ d \in Contents
          /\ d.seen = c.seen \/ d.seen = [c.seen EXCEPT ![req[w].text] = mark[w].at]
      BY <2>3 DEF Remembers, SamePosts
    <2>5. Known(d, mark[w].at)
      BY <1>1, <1>2, <2>2, <2>4, RememberKnows
    <2>6. Known(d, now)
      BY <1>1, <2>4, <2>5, TimePasses
    <2>7. BoardOK(b, d, number) /\ RepliesFit(b, d) /\ (b \in Robot => Original(d, now))
      BY <1>1, <1>2, <2>4, SamePostsKeep DEF GoodBoard
    <2>8. GoodBoard(b, d, number, now)
      BY <2>4, <2>6, <2>7 DEF GoodBoard
    <2>9. QED
      BY <2>3, <2>8 DEF b, c, d
  <1>5. QED
    BY <1>3, <1>4

\* What Accept makes of the board.
Accepted(w) ==
    IF req[w].parent = NewThread THEN view[w] ELSE Settled(view[w], req[w].board, req[w].parent)

LEMMA AcceptedIs ==
  ASSUME IndInv, NEW w \in Writers, step[w] = "written", mark[w].verdict = "allow"
  PROVE  /\ GoodBoard(req[w].board, Accepted(w), number, now)
         /\ Accepted(w).live = view[w].live /\ Accepted(w).place = view[w].place
         /\ Accepted(w).seen = view[w].seen /\ Accepted(w).mute = view[w].mute
         /\ Active(view[w]) \ Ordinary(view[w]) \subseteq Active(Accepted(w))
  <1> DEFINE b == req[w].board
             d == view[w]
  <1>1. GoodBoard(b, d, number, now) /\ d \in Contents /\ BoardOK(b, d, number)
    BY WrittenIsGood DEF GoodBoard
  <1>2. CASE req[w].parent = NewThread
    BY <1>1, <1>2 DEF Accepted
  <1>3. CASE req[w].parent # NewThread
    <2> DEFINE e == Settled(d, b, req[w].parent)
    <2>1. Accepted(w) = e
      BY <1>3 DEF Accepted
    <2>2. /\ Shrinks(d, e) /\ e.live = d.live /\ BoardOK(b, e, number)
          /\ Active(d) \ Ordinary(d) \subseteq Active(e)
      BY <1>1, SettledKeeps
    <2>3. GoodBoard(b, e, number, now)
      BY <1>1, <2>2, GoodShrinks
    <2> HIDE DEF e
    <2>4. e.place = d.place /\ e.seen = d.seen /\ e.mute = d.mute
      BY <2>2 DEF Shrinks
    <2>5. QED
      BY <2>1, <2>2, <2>3, <2>4
  <1>4. QED
    BY <1>2, <1>3

LEMMA LaterIs ==
  ASSUME NEW s \in Times \cup {Never}, NEW t \in Times
  PROVE  Later(s, t) \in Times \cup {Never} /\ (Later(s, t) # s => Later(s, t) > s)
  <1>1. t \in Nat
    BY TimesAreNumbers
  <1>2. s \in Int
    BY TimesAreNumbers DEF Never
  <1>3. QED
    BY <1>1, <1>2 DEF Later

LEMMA AcceptIs ==
  ASSUME NEW w \in Writers, Accept(w)
  PROVE  /\ step[w] = "written" /\ mark[w].verdict = "allow" /\ Commit(w, Accepted(w))
         /\ \/ actions' = actions
            \/ /\ req[w].parent = NewThread
               /\ actions' = [actions EXCEPT ![req[w].actor][req[w].board] =
                                Later(actions[req[w].actor][req[w].board], req[w].at)]
  BY DEF Accept, Accepted

LEMMA AcceptKeeps ==
  ASSUME IndInv, NEW w \in Writers, Accept(w)
  PROVE  IndInv'
  <1>1. /\ step[w] = "written" /\ mark[w].verdict = "allow" /\ Commit(w, Accepted(w))
        /\ \/ actions' = actions
           \/ /\ req[w].parent = NewThread
              /\ actions' = [actions EXCEPT ![req[w].actor][req[w].board] =
                               Later(actions[req[w].actor][req[w].board], req[w].at)]
    BY AcceptIs
  <1>2. GoodBoard(req[w].board, Accepted(w), number, now)
    BY <1>1, AcceptedIs
  <1>3. Later(actions[req[w].actor][req[w].board], req[w].at) \in Times \cup {Never}
    <2>1. req[w].board \in Boards /\ req[w].actor \in Actors /\ req[w].at \in Times
      BY <1>1, WrittenFacts
    <2>2. actions[req[w].actor][req[w].board] \in Times \cup {Never}
      BY <2>1 DEF IndInv, PostingTypeOK
    <2>3. QED
      BY <2>1, <2>2, LaterIs
  <1>4. \/ actions' = actions
        \/ /\ req[w].parent = NewThread
           /\ \E s \in Times \cup {Never} :
                actions' = [actions EXCEPT ![req[w].actor][req[w].board] = s]
    BY <1>1, <1>3
  <1>5. QED
    BY <1>1, <1>2, <1>4, CommitKeeps

LEMMA RestoreKeeps ==
  ASSUME IndInv, NEW w \in Writers, step[w] = "written", Commit(w, Restored(w)), UNCHANGED actions
  PROVE  IndInv'
  <1>1. GoodBoard(req[w].board, Restored(w), number, now)
    BY RestoredIs
  <1>2. QED
    BY <1>1, CommitKeeps

-----------------------------------------------------------------------------
(* What a transaction writes. *)

\* The board that a writer leaves in its transaction, after Robot9000.
WithRobot(w, d) == IF RobotApplies(req[w]) THEN Remember(d, req[w].actor, req[w].text, now) ELSE d
Decided(w, d) == IF RobotApplies(req[w]) THEN Verdict(d, req[w].actor, req[w].text, now) ELSE "allow"

\* The post is on the board under the conditions of admission.
Admits(w, d) ==
    LET r == req[w]   c == view[w] IN
    /\ Posted(c, d, number + 1, IF r.parent = NewThread THEN number + 1 ELSE r.parent, r)
    /\ BoardOK(r.board, d, number + 1) /\ RepliesFit(r.board, d)
    /\ IF r.parent = NewThread
       THEN Cardinality(Ordinary(d)) <= ThreadLimit /\ Paced(r.actor, r.board)
       ELSE r.parent \in Active(c) /\ ~c.thread[r.parent].closed
    /\ \A u \in Active(c) : c.thread[u].sticky \/ c.thread[u].undead =>
         u \in Active(d) /\ u \notin Ordinary(d)

\* What a writer that has the board knows.
LEMMA AdmissionFacts ==
  ASSUME IndInv, NEW w \in Writers, step[w] = "admission"
  PROVE  /\ req[w] \in Requests /\ req[w].board \in Boards /\ req[w].actor \in Actors
         /\ req[w].text \in Texts /\ req[w].at \in Times /\ req[w].at <= now
         /\ number \in Nat /\ now \in Times
         /\ view[w] = content[req[w].board] /\ view[w] \in Contents
         /\ GoodBoard(req[w].board, view[w], number, now)
  <1>1. PostingTypeOK /\ BoardsInv /\ WriterInv(w)
    BY DEF IndInv
  <1>2. req[w] \in Requests /\ number \in Nat /\ now \in Times /\ view[w] \in Contents
    BY <1>1, TypeParts
  <1>3. /\ req[w].board \in Boards /\ req[w].actor \in Actors /\ req[w].text \in Texts
        /\ req[w].at \in Times
    BY <1>2 DEF Requests
  <1>4. view[w] = content[req[w].board] /\ req[w].at <= now
    BY <1>1 DEF WriterInv, ViewIsCurrent
  <1>5. GoodBoard(req[w].board, view[w], number, now)
    BY <1>1, <1>3, <1>4 DEF BoardsInv
  <1>6. QED
    BY <1>2, <1>3, <1>4, <1>5

\* Robot9000 leaves the posts, and what it lets pass is original.
LEMMA RobotIs ==
  ASSUME IndInv, NEW w \in Writers, step[w] = "admission", number + 1 \in Numbers,
         NEW d, Admits(w, d)
  PROVE  LET b == req[w].board
             e == WithRobot(w, d)
         IN  /\ SamePosts(d, e)
             /\ b \in Robot /\ Decided(w, d) = "allow" => Known(e, now) /\ Original(e, now)
             /\ Decided(w, d) = IF RobotApplies(req[w])
                                THEN Verdict(view[w], req[w].actor, req[w].text, now) ELSE "allow"
             /\ req[w].vip => e.seen = view[w].seen /\ e.mute = view[w].mute
             /\ Decided(w, d) \in {"allow", "duplicate", "muted"}
  <1> DEFINE r == req[w]
             c == view[w]
             e == WithRobot(w, d)
             n == number + 1
             t == IF r.parent = NewThread THEN n ELSE r.parent
  <1>1. /\ r \in Requests /\ r.actor \in Actors /\ r.text \in Texts /\ r.at <= now /\ now \in Times
        /\ c \in Contents /\ GoodBoard(r.board, c, number, now)
    BY AdmissionFacts
  <1>2. Posted(c, d, n, t, r)
    BY DEF Admits
  <1>3. d \in Contents /\ d.seen = c.seen /\ d.mute = c.mute
    BY <1>2 DEF Posted
  <1>4. Decided(w, d) \in {"allow", "duplicate", "muted"}
    BY VerdictIs DEF Decided
  <1>5. CASE ~RobotApplies(r)
    <2>1. e = d /\ Decided(w, d) = "allow"
      BY <1>5 DEF WithRobot, Decided
    <2> HIDE DEF r, c, e, n, t
    <2>2. r.board \in Robot => Known(d, now) /\ Original(d, now)
      BY <1>1, <1>2, <1>5, ExemptIsLeftAlone DEF RobotApplies, GoodBoard
    <2>3. SamePosts(d, e)
      BY <1>3, <2>1 DEF SamePosts
    <2>4. QED
      BY <1>3, <1>4, <1>5, <2>1, <2>2, <2>3 DEF r, c, e
  <1>6. CASE RobotApplies(r)
    <2>1. e = Remember(d, r.actor, r.text, now) /\ Decided(w, d) = Verdict(d, r.actor, r.text, now)
      BY <1>6 DEF WithRobot, Decided
    <2> HIDE DEF r, c, e, n, t
    <2>2. /\ Remembers(d, e, r.text, now)
          /\ Verdict(d, r.actor, r.text, now) = "allow" =>
               d.seen[r.text] = Never /\ e.seen = [d.seen EXCEPT ![r.text] = now]
      BY <1>1, <1>3, <2>1, RememberIs
    <2>3. SamePosts(d, e)
      BY <2>2 DEF Remembers
    <2>4. Decided(w, d) = Verdict(c, r.actor, r.text, now)
      BY <1>3, <2>1, VerdictRests
    <2>5. ASSUME Decided(w, d) = "allow" PROVE Known(e, now) /\ Original(e, now)
      <3>1. c.seen[r.text] = Never /\ e.seen = [d.seen EXCEPT ![r.text] = now]
        BY <1>3, <2>1, <2>2, <2>5
      <3>2. BoardOK(r.board, c, number) /\ Known(c, now) /\ Original(c, now)
        BY <1>1, <1>6 DEF GoodBoard, RobotApplies
      <3>3. n \in Numbers
        BY DEF n
      <3>4. QED
        BY <1>1, <1>2, <2>3, <3>1, <3>2, <3>3, PostedIsOriginal
    <2>6. QED
      BY <1>4, <1>6, <2>3, <2>4, <2>5 DEF RobotApplies, r, c, e
  <1>7. QED
    BY <1>5, <1>6

LEMMA WrittenKeeps ==
  ASSUME IndInv, NEW w \in Writers, step[w] = "admission", number < MaxNumber,
         NEW d, Admits(w, d), Written(w, d)
  PROVE  IndInv'
  <1> DEFINE r == req[w]
             c == view[w]
             e == WithRobot(w, d)
             v == Decided(w, d)
             m == [at |-> now, verdict |-> v]
             n == number + 1
             t == IF r.parent = NewThread THEN n ELSE r.parent
  <1>1. /\ PostingTypeOK /\ LocksAreExclusive /\ BoardsInv /\ \A u \in Writers : WriterInv(u)
        /\ now \in Nat
    BY TypeParts DEF IndInv
  <1>2. /\ r \in Requests /\ r.board \in Boards /\ r.at <= now /\ number \in Nat /\ now \in Times
        /\ c = content[r.board] /\ c \in Contents /\ GoodBoard(r.board, c, number, now)
    BY AdmissionFacts
  <1>3. n \in Numbers /\ n \in 0 .. MaxNumber
    BY <1>2, PostingAssumption DEF Numbers
  <1>4. /\ SamePosts(d, e)
        /\ r.board \in Robot /\ v = "allow" => Known(e, now) /\ Original(e, now)
        /\ v = IF RobotApplies(r) THEN Verdict(c, r.actor, r.text, now) ELSE "allow"
        /\ r.vip => e.seen = c.seen /\ e.mute = c.mute
        /\ v \in {"allow", "duplicate", "muted"}
    BY <1>3, RobotIs
  <1>5. e \in Contents
    BY <1>4 DEF SamePosts
  <1>6. m \in Marks /\ m.at = now /\ m.verdict = v
    BY <1>2, <1>4 DEF Marks
  <1>7. /\ number' = n /\ step' = [step EXCEPT ![w] = "written"]
        /\ saved' = [saved EXCEPT ![w] = c] /\ view' = [view EXCEPT ![w] = e]
        /\ mark' = [mark EXCEPT ![w] = m] /\ UNCHANGED <<now, content, actions, req>>
    BY DEF Written, WithRobot, Decided
  <1>8. /\ Posted(c, d, n, t, r) /\ BoardOK(r.board, d, n) /\ RepliesFit(r.board, d)
        /\ IF r.parent = NewThread
           THEN Cardinality(Ordinary(d)) <= ThreadLimit /\ Paced(r.actor, r.board)
           ELSE r.parent \in Active(c) /\ ~c.thread[r.parent].closed
        /\ \A u \in Active(c) : c.thread[u].sticky \/ c.thread[u].undead =>
             u \in Active(d) /\ u \notin Ordinary(d)
    BY DEF Admits
  <1> HIDE DEF r, c, e, v, m, n, t
  <1>9. /\ step' \in [Writers -> Steps]
        /\ \A u \in Writers : step'[u] = IF u = w THEN "written" ELSE step[u]
    BY <1>1, <1>7, StepIs DEF Steps
  <1>10. /\ view' \in [Writers -> Contents]
         /\ \A u \in Writers : view'[u] = IF u = w THEN e ELSE view[u]
    BY <1>1, <1>5, <1>7, ViewIs
  <1>11. /\ saved' \in [Writers -> Contents]
         /\ \A u \in Writers : saved'[u] = IF u = w THEN c ELSE saved[u]
    BY <1>1, <1>2, <1>7, SavedIs
  <1>12. /\ mark' \in [Writers -> Marks]
         /\ \A u \in Writers : mark'[u] = IF u = w THEN m ELSE mark[u]
    BY <1>1, <1>6, <1>7, MarkIs
  <1>13. PostingTypeOK'
    <2>1. \A u \in Writers : step[u] # "idle" => req[u] # NoReq
      BY <1>1 DEF PostingTypeOK
    <2>2. \A u \in Writers : step'[u] # "idle" => req'[u] # NoReq
      BY <1>7, <1>9, <2>1
    <2>3. QED
      BY <1>1, <1>3, <1>7, <1>9, <1>10, <1>11, <1>12, <2>2 DEF PostingTypeOK, Marks
  <1>14. LocksAreExclusive'
    <2>1. \A u \in Writers : req'[u] = req[u] /\ (step'[u] = step[u] \/ {step[u], step'[u]} \subseteq Holding)
      BY <1>7, <1>9 DEF Holding
    <2>2. QED
      BY <1>1, <2>1, LocksRest
  <1>15. BoardsInv'
    <2>1. number <= number' /\ now <= now' /\ content' = content
      BY <1>1, <1>2, <1>7 DEF n
    <2>2. QED
      BY <1>1, <1>13, <2>1, BoardsRest
  <1>16. /\ step'[w] = "written" /\ view'[w] = e /\ saved'[w] = c /\ mark'[w] = m /\ req'[w] = r
    BY <1>7, <1>9, <1>10, <1>11, <1>12 DEF r
  <1>17. ViewIsCurrent(w)'
    <2>1. saved'[w] = content'[req'[w].board] /\ mark'[w].at <= now' /\ req'[w].at <= now'
      BY <1>1, <1>2, <1>6, <1>7, <1>16
    <2>2. QED
      BY <1>16, <2>1 DEF ViewIsCurrent
  <1>18. ReplayAgrees(w)'
    BY <1>4, <1>6, <1>16 DEF ReplayAgrees, Replayed
  <1>19. WrittenInOrder(w)'
    <2>1. /\ BoardOK(r.board, e, n) /\ RepliesFit(r.board, e) /\ Active(e) = Active(d)
          /\ Ordinary(e) = Ordinary(d) /\ e.live = d.live /\ e.place = d.place
      <3>1. d \in Contents
        BY <1>8 DEF Posted
      <3>2. QED
        BY <1>4, <1>8, <3>1, SamePostsKeep DEF SamePosts
    <2>2. r.board \in Robot => Known(c, now)
      BY <1>2 DEF GoodBoard
    <2>3. /\ n \in e.live \ c.live /\ e.live \subseteq c.live \cup {n}
          /\ \A k \in Numbers : c.place[k] # NewThread => k < n
      BY <1>8, <2>1 DEF Posted
    <2>4. e.place[n] = IF r.parent = NewThread THEN n ELSE r.parent
      <3>1. e.place = [c.place EXCEPT ![n] = t] /\ c.place \in [Numbers -> Numbers \cup {NewThread}]
        BY <1>2, <1>8, <2>1 DEF Posted, Contents
      <3>2. QED
        BY <1>3, <3>1 DEF t
    <2>5. BoardOK(req'[w].board, view'[w], number') /\ RepliesFit(req'[w].board, view'[w])
      BY <1>7, <1>16, <2>1
    <2>6. req'[w].board \in Robot =>
            /\ Known(saved'[w], mark'[w].at)
            /\ mark'[w].verdict = "allow" => Known(view'[w], mark'[w].at) /\ Original(view'[w], mark'[w].at)
      BY <1>4, <1>6, <1>16, <2>2
    <2>7. \E k \in view'[w].live \ saved'[w].live :
            /\ view'[w].live \subseteq saved'[w].live \cup {k}
            /\ \A l \in Numbers : saved'[w].place[l] # NewThread => l < k
            /\ view'[w].place[k] = IF req'[w].parent = NewThread THEN k ELSE req'[w].parent
      BY <1>16, <2>3, <2>4
    <2>8. IF req'[w].parent = NewThread
          THEN /\ Cardinality(Ordinary(view'[w])) <= ThreadLimit
               /\ \A b \in Boards \ {req'[w].board} :
                     \/ actions'[req'[w].actor][b] = Never
                     \/ actions'[req'[w].actor][b] + CrossSeconds < now'
          ELSE req'[w].parent \in Active(saved'[w]) /\ ~saved'[w].thread[req'[w].parent].closed
      BY <1>7, <1>8, <1>16, <2>1 DEF Paced
    <2>9. \A u \in Active(saved'[w]) : saved'[w].thread[u].sticky \/ saved'[w].thread[u].undead =>
            u \in Active(view'[w]) /\ u \notin Ordinary(view'[w])
      BY <1>8, <1>16, <2>1
    <2>10. req'[w].vip => view'[w].seen = saved'[w].seen /\ view'[w].mute = saved'[w].mute
      BY <1>4, <1>16
    <2>11. QED
      BY <2>5, <2>6, <2>7, <2>8, <2>9, <2>10 DEF WrittenInOrder, Paced
  <1>20. ASSUME NEW u \in Writers PROVE WriterInv(u)'
    <2>1. CASE u = w
      BY <1>17, <1>18, <1>19, <2>1 DEF WriterInv
    <2>2. CASE u # w
      <3>1. /\ step'[u] = step[u] /\ req'[u] = req[u] /\ view'[u] = view[u] /\ saved'[u] = saved[u]
            /\ mark'[u] = mark[u] /\ content' = content /\ actions' = actions
            /\ number <= number' /\ now <= now'
        BY <1>1, <1>2, <1>7, <1>9, <1>10, <1>11, <1>12, <2>2 DEF n
      <3>2. QED
        BY <1>1, <1>13, <3>1, WriterRests
    <2>3. QED
      BY <2>1, <2>2
  <1>21. QED
    BY <1>13, <1>14, <1>15, <1>20 DEF IndInv

\* The threads that leave make room for one.
LEMMA RoomForOne ==
  ASSUME NEW c, NEW old \in SUBSET Ordinary(c), Leaves(c, old), NEW n, n \notin Ordinary(c)
  PROVE  Cardinality((Ordinary(c) \ old) \cup {n}) <= ThreadLimit
  <1> DEFINE R == Ordinary(c)
  <1>1. R \in SUBSET Numbers /\ old \in SUBSET Numbers
    BY DEF Ordinary, Active
  <1>2. IsFiniteSet(R) /\ Cardinality(R) \in Nat /\ Cardinality(old) \in Nat
    BY <1>1, FewNumbers
  <1>3. R \cap old = old
    OBVIOUS
  <1>4. IsFiniteSet(R \ old) /\ Cardinality(R \ old) = Cardinality(R) - Cardinality(R \cap old)
    BY <1>2, FS_Difference
  <1>5. Cardinality((R \ old) \cup {n}) = Cardinality(R \ old) + 1
    BY <1>4, FS_AddElement
  <1>6. Cardinality(old) = IF Cardinality(R) < ThreadLimit THEN 0 ELSE Cardinality(R) - ThreadLimit + 1
    BY DEF Leaves
  <1>7. ThreadLimit \in Nat
    BY PostingAssumption
  <1>8. QED
    BY <1>2, <1>3, <1>4, <1>5, <1>6, <1>7

LEMMA ThreadIsAdmitted ==
  ASSUME IndInv, NEW w \in Writers, NEW old \in SUBSET Ordinary(view[w]),
         NEW expired \in SUBSET Archived(view[w]), WriteThread(w, old, expired)
  PROVE  Admits(w, Open(MakeRoom(view[w], req[w].board, old, expired), number + 1, req[w]))
  <1> DEFINE r == req[w]
             c == view[w]
             e == MakeRoom(c, r.board, old, expired)
             n == number + 1
             d == Open(e, n, r)
  <1>1. /\ r \in Requests /\ number \in Nat /\ c \in Contents
        /\ BoardOK(r.board, c, number) /\ RepliesFit(r.board, c)
    BY AdmissionFacts DEF WriteThread, GoodBoard
  <1>2. r.parent = NewThread /\ number < MaxNumber /\ Paced(r.actor, r.board) /\ Leaves(c, old)
    BY DEF WriteThread
  <1>3. n \in Numbers
    BY <1>1, <1>2, PostingAssumption DEF Numbers
  <1>4. /\ Shrinks(c, e) /\ BoardOK(r.board, e, number) /\ Ordinary(e) = Ordinary(c) \ old
        /\ \A u \in Active(c) \ Ordinary(c) : e.thread[u] = c.thread[u]
    <2>1. HasMadeRoom(r.board, number, c, e, old)
      BY <1>1, RoomIsMade
    <2>2. QED
      BY <2>1 DEF HasMadeRoom
  <1> HIDE DEF e
  <1>5. e \in Contents /\ e.thread \in [Numbers -> ThreadRows]
    BY <1>4 DEF Shrinks, Contents
  <1>6. RepliesFit(r.board, e)
    BY <1>1, <1>4, ShrinkingKeeps
  <1>7. /\ Posted(e, d, n, n, r) /\ BoardOK(r.board, d, n)
        /\ RepliesFit(r.board, d) /\ d.thread = [e.thread EXCEPT ![n] = Fresh]
    BY <1>1, <1>3, <1>4, <1>5, <1>6, OpenPosts
  <1> HIDE DEF d
  <1>8. Posted(c, d, n, n, r)
    BY <1>1, <1>3, <1>4, <1>7, PostedAfter
  <1>9. Fresh.state = "active" /\ ~Fresh.sticky /\ ~Fresh.undead
    BY DEF Fresh, Absent
  <1>10. c.thread[n].state = "absent" /\ e.thread[n].state = "absent"
    BY <1>1, <1>3, <1>4, <1>5, NumberIsNew
  <1>11. \A u \in Numbers : d.thread[u] = IF u = n THEN Fresh ELSE e.thread[u]
    BY <1>3, <1>5, <1>7
  <1>12. Ordinary(d) = Ordinary(e) \cup {n}
    <2>1. ASSUME NEW u \in Numbers PROVE u \in Ordinary(d) <=> u \in Ordinary(e) \cup {n}
      BY <1>3, <1>9, <1>11 DEF Ordinary, Active
    <2>2. QED
      BY <1>3, <2>1 DEF Ordinary, Active
  <1>13. Cardinality(Ordinary(d)) <= ThreadLimit
    <2>1. n \notin Ordinary(c)
      BY <1>10 DEF Ordinary, Active
    <2>2. QED
      BY <1>2, <1>4, <1>12, <2>1, RoomForOne
  <1>14. ASSUME NEW u \in Active(c), c.thread[u].sticky \/ c.thread[u].undead
         PROVE  u \in Active(d) /\ u \notin Ordinary(d)
    <2>1. u \in Numbers /\ u \notin Ordinary(c) /\ u # n /\ c.thread[u].state = "active"
      BY <1>10, <1>14 DEF Ordinary, Active
    <2>2. d.thread[u] = c.thread[u]
      BY <1>4, <1>11, <2>1
    <2>3. QED
      BY <1>14, <2>1, <2>2 DEF Ordinary, Active
  <1>15. Admits(w, d)
    BY <1>2, <1>7, <1>8, <1>13, <1>14 DEF Admits
  <1>16. QED
    BY <1>15 DEF d, e

LEMMA ReplyIsAdmitted ==
  ASSUME IndInv, NEW w \in Writers, WriteReply(w)
  PROVE  Admits(w, Reply(view[w], number + 1, req[w]))
  <1> DEFINE r == req[w]
             c == view[w]
             n == number + 1
             d == Reply(c, n, r)
  <1>1. /\ r \in Requests /\ number \in Nat /\ c \in Contents
        /\ BoardOK(r.board, c, number) /\ RepliesFit(r.board, c)
    BY AdmissionFacts DEF WriteReply, GoodBoard
  <1>2. r.parent # NewThread /\ number < MaxNumber /\ TakesReplies(c, r.board, r.parent)
    BY DEF WriteReply
  <1>3. n \in Numbers
    BY <1>1, <1>2, PostingAssumption DEF Numbers
  <1>4. /\ Posted(c, d, n, r.parent, r) /\ BoardOK(r.board, d, n) /\ RepliesFit(r.board, d)
        /\ \A u \in Numbers : /\ d.thread[u].state = c.thread[u].state
                              /\ d.thread[u].sticky = c.thread[u].sticky
                              /\ d.thread[u].undead = c.thread[u].undead
    BY <1>1, <1>2, <1>3, ReplyPosts
  <1> HIDE DEF d
  <1>5. r.parent \in Active(c) /\ ~c.thread[r.parent].closed
    BY <1>2 DEF TakesReplies
  <1>6. \A u \in Active(c) : c.thread[u].sticky \/ c.thread[u].undead =>
           u \in Active(d) /\ u \notin Ordinary(d)
    BY <1>4 DEF Active, Ordinary
  <1>7. Admits(w, d)
    BY <1>2, <1>4, <1>5, <1>6 DEF Admits
  <1>8. QED
    BY <1>7 DEF d

LEMMA WritesKeeps ==
  ASSUME IndInv, NEW w \in Writers, Writes(w)
  PROVE  IndInv'
  <1>1. ASSUME NEW old \in SUBSET Ordinary(view[w]), NEW expired \in SUBSET Archived(view[w]),
               WriteThread(w, old, expired)
        PROVE  IndInv'
    <2> DEFINE d == Open(MakeRoom(view[w], req[w].board, old, expired), number + 1, req[w])
    <2>1. Admits(w, d)
      BY <1>1, ThreadIsAdmitted
    <2>2. step[w] = "admission" /\ number < MaxNumber /\ Written(w, d)
      BY <1>1 DEF WriteThread
    <2> HIDE DEF d
    <2>3. QED
      BY <2>1, <2>2, WrittenKeeps
  <1>2. ASSUME WriteReply(w) PROVE IndInv'
    <2> DEFINE d == Reply(view[w], number + 1, req[w])
    <2>1. Admits(w, d)
      BY <1>2, ReplyIsAdmitted
    <2>2. step[w] = "admission" /\ number < MaxNumber /\ Written(w, d)
      BY <1>2 DEF WriteReply
    <2> HIDE DEF d
    <2>3. QED
      BY <2>1, <2>2, WrittenKeeps
  <1>3. QED
    BY <1>1, <1>2 DEF Writes

-----------------------------------------------------------------------------
(* Moderators and authors. *)

LEMMA ChangesKeep ==
  ASSUME IndInv, NEW b \in Boards, NEW c, GoodBoard(b, c, number, now), Changes(b, c)
  PROVE  IndInv'
  <1>1. /\ PostingTypeOK /\ LocksAreExclusive /\ BoardsInv /\ \A v \in Writers : WriterInv(v)
        /\ number \in Nat /\ now \in Nat
    BY TypeParts DEF IndInv
  <1>2. /\ \A w \in Writers : ~HasBoard(w, b)
        /\ content' = [content EXCEPT ![b] = c]
        /\ UNCHANGED <<number, now, actions, step, req, view, saved, mark>>
    BY DEF Changes, txVars
  <1>3. BoardsInv' /\ content' \in [Boards -> Contents]
    BY <1>1, <1>2, BoardChanges
  <1>4. PostingTypeOK'
    BY <1>1, <1>2, <1>3 DEF PostingTypeOK
  <1>5. LocksAreExclusive'
    BY <1>1, <1>2, LocksRest
  <1>6. ASSUME NEW v \in Writers PROVE WriterInv(v)'
    <2>1. step[v] \in Holding => req[v].board # b
      BY <1>2 DEF HasBoard
    <2>2. content \in [Boards -> Contents]
      BY <1>1 DEF PostingTypeOK
    <2>3. step[v] \in Holding => content'[req[v].board] = content[req[v].board]
      <3>1. ASSUME step[v] \in Holding PROVE req[v].board \in Boards
        <4>1. step[v] # "idle"
          BY <3>1 DEF Holding
        <4>2. req[v] \in Requests
          BY <1>1, <4>1, TypeParts
        <4>3. QED
          BY <4>2 DEF Requests
      <3>2. QED
        BY <1>2, <2>1, <2>2, <3>1
    <2>4. /\ step'[v] = step[v] /\ req'[v] = req[v] /\ view'[v] = view[v] /\ saved'[v] = saved[v]
          /\ mark'[v] = mark[v] /\ actions' = actions /\ number <= number' /\ now <= now'
      BY <1>1, <1>2
    <2>5. QED
      BY <1>1, <1>4, <2>3, <2>4, WriterRests
  <1>7. QED
    BY <1>3, <1>4, <1>5, <1>6 DEF IndInv

\* A row of an active thread changes, but for its state and its count.
LEMMA RowChanges ==
  ASSUME NEW b, NEW k, NEW c \in Contents, BoardOK(b, c, k), NEW t \in Active(c),
         NEW row \in ThreadRows, row.state = "active", row.count = c.thread[t].count
  PROVE  LET d == [c EXCEPT !.thread[t] = row]
         IN  /\ Shrinks(c, d) /\ BoardOK(b, d, k) /\ d.live = c.live
             /\ t \in Active(d) /\ d.thread[t] = row
  <1> DEFINE d == [c EXCEPT !.thread[t] = row]
             rows == [c.thread EXCEPT ![t] = row]
  <1>1. t \in Numbers /\ c.thread[t].state = "active" /\ c.thread \in [Numbers -> ThreadRows]
    BY DEF Active, Contents
  <1>2. rows \in [Numbers -> ThreadRows]
    BY <1>1
  <1>3. d = [c EXCEPT !.thread = rows]
    OBVIOUS
  <1>4. \A u \in Numbers : rows[u] = IF u = t THEN row ELSE c.thread[u]
    BY <1>1
  <1> HIDE DEF d, rows
  <1>5. Shrinks(c, d) /\ d.thread = rows /\ d.live = c.live
    BY <1>2, <1>3 DEF Shrinks, Judged, Contents
  <1>6. \A p \in d.live : d.thread[c.place[p]].state \in {"active", "archived"}
    <2>1. ASSUME NEW p \in d.live PROVE d.thread[c.place[p]].state \in {"active", "archived"}
      <3>1. c.place[p] \in Numbers
        BY <1>5 DEF BoardOK, Contents
      <3>2. c.thread[c.place[p]].state \in {"active", "archived"}
        BY <1>5 DEF BoardOK
      <3>3. QED
        BY <1>4, <1>5, <3>1, <3>2
    <2>2. QED
      BY <2>1
  <1>7. \A n \in Numbers :
            /\ d.thread[n].state # "absent" => c.thread[n].state # "absent"
            /\ d.thread[n].state = "archived" => ~d.thread[n].sticky /\ b \in Archiving
            /\ d.thread[n].count = c.thread[n].count \/ Replies(d, n) = {}
    BY <1>1, <1>4, <1>5 DEF BoardOK
  <1>8. BoardOK(b, d, k)
    BY <1>5, <1>6, <1>7, OrderKept
  <1>9. t \in Active(d) /\ d.thread[t] = row
    BY <1>1, <1>4, <1>5 DEF Active
  <1>10. QED
    BY <1>5, <1>8, <1>9 DEF d

LEMMA SetOptionsKeeps ==
  ASSUME IndInv, NEW b \in Boards, NEW t \in Numbers, NEW sticky \in BOOLEAN,
         NEW undead \in BOOLEAN, NEW closed \in BOOLEAN, SetOptions(b, t, sticky, undead, closed)
  PROVE  IndInv'
  <1> DEFINE c == content[b]
             row == [c.thread[t] EXCEPT !.sticky = sticky, !.undead = undead, !.closed = closed]
             d == [c EXCEPT !.thread[t] = row]
  <1>1. GoodBoard(b, c, number, now) /\ c \in Contents /\ BoardOK(b, c, number)
    BY DEF IndInv, BoardsInv, GoodBoard
  <1>2. t \in Active(c) /\ Changes(b, d)
    BY DEF SetOptions
  <1>3. c.thread[t] \in ThreadRows /\ c.thread[t].state = "active"
    BY <1>1, <1>2 DEF Active, Contents
  <1>4. row \in ThreadRows /\ row.state = "active" /\ row.count = c.thread[t].count
    BY <1>3 DEF ThreadRows
  <1> HIDE DEF row, c
  <1>5. Shrinks(c, d) /\ BoardOK(b, d, number)
    BY <1>1, <1>2, <1>4, RowChanges
  <1> HIDE DEF d
  <1>6. GoodBoard(b, d, number, now)
    BY <1>1, <1>5, GoodShrinks
  <1>7. QED
    BY <1>2, <1>6, ChangesKeep

LEMMA ForceArchiveKeeps ==
  ASSUME IndInv, NEW b \in Boards, NEW t \in Numbers, ForceArchive(b, t)
  PROVE  IndInv'
  <1> DEFINE c == content[b]
             row == [c.thread[t] EXCEPT !.closed = TRUE]
             e == [c EXCEPT !.thread[t] = row]
             d == Archive(e, {t})
  <1>1. GoodBoard(b, c, number, now) /\ c \in Contents /\ BoardOK(b, c, number)
    BY DEF IndInv, BoardsInv, GoodBoard
  <1>2. b \in Archiving /\ t \in Active(c) /\ ~c.thread[t].sticky /\ Changes(b, d)
    BY DEF ForceArchive
  <1>3. c.thread[t] \in ThreadRows /\ c.thread[t].state = "active"
    BY <1>1, <1>2 DEF Active, Contents
  <1>4. row \in ThreadRows /\ row.state = "active" /\ row.count = c.thread[t].count /\ ~row.sticky
    BY <1>2, <1>3 DEF ThreadRows
  <1> HIDE DEF row, c
  <1>5. Shrinks(c, e) /\ BoardOK(b, e, number) /\ t \in Active(e) /\ e.thread[t] = row
    BY <1>1, <1>2, <1>4, RowChanges
  <1> HIDE DEF e
  <1>6. e \in Contents /\ {t} \subseteq Active(e) /\ \A u \in {t} : ~e.thread[u].sticky
    BY <1>4, <1>5 DEF Shrinks
  <1>7. Shrinks(e, d) /\ BoardOK(b, d, number)
    BY <1>2, <1>5, <1>6, ArchiveShrinks, ArchiveKeepsOrder
  <1> HIDE DEF d
  <1>8. Shrinks(c, d)
    BY <1>5, <1>7, ShrinkingAgain
  <1>9. GoodBoard(b, d, number, now)
    BY <1>1, <1>7, <1>8, GoodShrinks
  <1>10. QED
    BY <1>2, <1>9, ChangesKeep

LEMMA RemoveKeeps ==
  ASSUME IndInv, NEW b \in Boards, NEW p \in Numbers, Remove(b, p)
  PROVE  IndInv'
  <1> DEFINE c == content[b]
             d == IF c.place[p] = p THEN EraseThreads(c, {p}) ELSE Drop(c, {p})
  <1>1. GoodBoard(b, c, number, now) /\ c \in Contents /\ BoardOK(b, c, number)
    BY DEF IndInv, BoardsInv, GoodBoard
  <1>2. p \in c.live /\ Changes(b, d)
    BY DEF Remove
  <1> HIDE DEF c
  <1>3. Shrinks(c, d) /\ BoardOK(b, d, number)
    <2>1. CASE c.place[p] = p
      <3>1. {p} \subseteq Active(c) \cup Archived(c)
        BY <1>1, <1>2, <2>1 DEF BoardOK, Active, Archived
      <3>2. QED
        BY <1>1, <2>1, <3>1, EraseShrinks, EraseKeepsOrder
    <2>2. CASE c.place[p] # p
      BY <1>1, <2>2, DropShrinks, DropKeepsOrder
    <2>3. QED
      BY <2>1, <2>2
  <1> HIDE DEF d
  <1>4. GoodBoard(b, d, number, now)
    BY <1>1, <1>3, GoodShrinks
  <1>5. QED
    BY <1>2, <1>4, ChangesKeep

\* A text is forgotten when no post that says it is recent.
LEMMA ForgettingKeeps ==
  ASSUME NEW c \in Contents, NEW at \in Times,
         NEW old \in SUBSET {x \in Texts : Outdated(c, x, at)}
  PROVE  LET d == [c EXCEPT !.seen = [x \in Texts |-> IF x \in old THEN Never ELSE c.seen[x]]]
         IN  SamePosts(c, d) /\ (Known(c, at) => Known(d, at))
  <1> DEFINE seen == [x \in Texts |-> IF x \in old THEN Never ELSE c.seen[x]]
             d == [c EXCEPT !.seen = seen]
  <1>1. seen \in [Texts -> Times \cup {Never}]
    BY DEF Contents
  <1>2. \A x \in Texts : seen[x] = IF x \in old THEN Never ELSE c.seen[x]
    OBVIOUS
  <1> HIDE DEF seen
  <1>3. SamePosts(c, d) /\ d.seen = seen
    BY <1>1 DEF SamePosts, Contents
  <1> HIDE DEF d
  <1>4. ASSUME Known(c, at), NEW p \in Judged(d)
        PROVE  /\ d.text[p] \in Texts /\ d.born[p] <= at
               /\ Old(d, p, at) \/ d.seen[d.text[p]] >= d.born[p]
    <2>1. /\ p \in c.live /\ p \in Judged(c) /\ d.text[p] = c.text[p] /\ d.born[p] = c.born[p]
          /\ c.text[p] \in Texts /\ c.born[p] <= at
          /\ Old(c, p, at) \/ c.seen[c.text[p]] >= c.born[p]
      BY <1>3, <1>4 DEF SamePosts, Known, Judged
    <2>2. Old(d, p, at) <=> Old(c, p, at)
      BY <2>1 DEF Old
    <2>3. CASE c.text[p] \notin old
      BY <1>2, <1>3, <2>1, <2>2, <2>3
    <2>4. CASE c.text[p] \in old /\ ~Old(c, p, at)
      <3>1. c.seen[c.text[p]] # Never /\ c.seen[c.text[p]] + TextSeconds < at
        BY <2>4 DEF Outdated
      <3>2. c.seen[c.text[p]] \in Times
        BY <2>1, <3>1 DEF Contents
      <3>3. c.seen[c.text[p]] \in Nat /\ c.born[p] \in Nat /\ at \in Nat /\ TextSeconds \in Nat
        BY <2>1, <3>2, TimesAreNumbers, PostingAssumption DEF Contents
      <3>4. c.born[p] + TextSeconds < at
        BY <2>1, <2>4, <3>1, <3>3
      <3>5. QED
        BY <2>4, <3>4 DEF Old
    <2>5. CASE Old(c, p, at)
      BY <2>1, <2>2, <2>5
    <2>6. QED
      BY <2>3, <2>4, <2>5
  <1>5. Known(c, at) => Known(d, at)
    BY <1>4 DEF Known
  <1>6. QED
    BY <1>3, <1>5 DEF d, seen

LEMMA CleanupKeeps ==
  ASSUME IndInv, NEW b \in Boards,
         NEW old \in SUBSET {x \in Texts : Outdated(content[b], x, now)}, Cleanup(b, old)
  PROVE  IndInv'
  <1> DEFINE c == content[b]
             d == [c EXCEPT !.seen = [x \in Texts |-> IF x \in old THEN Never ELSE c.seen[x]]]
  <1>1. GoodBoard(b, c, number, now) /\ c \in Contents /\ now \in Times
    BY TypeParts DEF IndInv, BoardsInv, GoodBoard
  <1>2. Changes(b, d)
    BY DEF Cleanup
  <1>3. SamePosts(c, d)
    BY <1>1, ForgettingKeeps
  <1>4. b \in Robot => Known(d, now)
    BY <1>1, ForgettingKeeps DEF GoodBoard
  <1> HIDE DEF c, d
  <1>5. d \in Contents /\ BoardOK(b, d, number) /\ RepliesFit(b, d) /\ (b \in Robot => Original(d, now))
    BY <1>1, <1>3, SamePostsKeep DEF GoodBoard, SamePosts
  <1>6. GoodBoard(b, d, number, now)
    BY <1>4, <1>5 DEF GoodBoard
  <1>7. QED
    BY <1>2, <1>6, ChangesKeep

-----------------------------------------------------------------------------
(* Every step. *)

LEMMA WriterKeeps ==
  ASSUME IndInv, NEW w \in Writers, WriterStep(w)
  PROVE  IndInv'
  <1>1. ASSUME NEW a \in Actors, NEW b \in Boards, NEW parent \in 0 .. MaxNumber, NEW x \in Texts,
               NEW vip \in BOOLEAN, Ask(w, a, b, parent, x, vip)
        PROVE  IndInv'
    BY <1>1, AskKeeps
  <1>2. ASSUME Locks(w) PROVE IndInv'
    BY <1>2, LockActorKeeps, LockCapacityKeeps, LockBoardKeeps DEF Locks
  <1>3. ASSUME Writes(w) PROVE IndInv'
    BY <1>3, WritesKeeps
  <1>4. ASSUME Decides(w) PROVE IndInv'
    <2>1. ASSUME Accept(w) PROVE IndInv'
      BY <2>1, AcceptKeeps
    <2>2. ASSUME Reject(w) PROVE IndInv'
      BY <2>2, RestoreKeeps DEF Reject
    <2>3. ASSUME Filter(w) PROVE IndInv'
      BY <2>3, RestoreKeeps DEF Filter
    <2>4. QED
      BY <1>4, <2>1, <2>2, <2>3 DEF Decides
  <1>5. ASSUME Abandon(w) PROVE IndInv'
    BY <1>5, AbandonKeeps
  <1>6. QED
    BY <1>1, <1>2, <1>3, <1>4, <1>5 DEF WriterStep

LEMMA ModerationKeeps ==
  ASSUME IndInv, Moderation
  PROVE  IndInv'
  <1>1. PICK b \in Boards, t \in Numbers :
          \/ \E sticky, undead, closed \in BOOLEAN : SetOptions(b, t, sticky, undead, closed)
          \/ ForceArchive(b, t)
          \/ Remove(b, t)
          \/ \E old \in SUBSET {x \in Texts : Outdated(content[b], x, now)} : Cleanup(b, old)
    BY DEF Moderation
  <1>2. QED
    BY <1>1, SetOptionsKeeps, ForceArchiveKeeps, RemoveKeeps, CleanupKeeps

LEMMA StutterKeeps ==
  ASSUME IndInv, UNCHANGED vars
  PROVE  IndInv'
  <1>1. UNCHANGED <<number, now, content, actions, step, req, view, saved, mark>>
    BY DEF vars, txVars
  <1>2. /\ PostingTypeOK /\ LocksAreExclusive /\ BoardsInv /\ \A v \in Writers : WriterInv(v)
        /\ number \in Nat /\ now \in Nat
    BY TypeParts DEF IndInv
  <1>3. PostingTypeOK'
    BY <1>1, <1>2 DEF PostingTypeOK
  <1>4. LocksAreExclusive'
    BY <1>1, <1>2, LocksRest
  <1>5. BoardsInv'
    BY <1>1, <1>2 DEF BoardsInv
  <1>6. ASSUME NEW v \in Writers PROVE WriterInv(v)'
    <2>1. number <= number' /\ now <= now'
      BY <1>1, <1>2
    <2>2. QED
      BY <1>1, <1>2, <1>3, <2>1, WriterRests
  <1>7. QED
    BY <1>3, <1>4, <1>5, <1>6 DEF IndInv

LEMMA InitIsGood == PostingInit => IndInv
  <1> SUFFICES ASSUME PostingInit PROVE IndInv
    OBVIOUS
  <1>1. 0 \in Times /\ 0 \in 0 .. MaxNumber
    BY PostingAssumption DEF Times
  <1>2. \A b \in Boards : GoodBoard(b, Empty, 0, 0)
    BY <1>1, EmptyIsGood
  <1>3. Empty \in Contents
    BY <1>1, EmptyIsGood DEF GoodBoard
  <1>4. NoMark \in Marks
    BY <1>1 DEF NoMark, Marks
  <1>5. PostingTypeOK
    BY <1>1, <1>3, <1>4 DEF PostingInit, PostingTypeOK, Marks, Steps
  <1>6. LocksAreExclusive
    BY DEF PostingInit, LocksAreExclusive, HasActor, HasCapacity, HasBoard, Holding
  <1>7. BoardsInv
    BY <1>2 DEF PostingInit, BoardsInv
  <1>8. \A w \in Writers : WriterInv(w)
    BY DEF PostingInit, WriterInv, ViewIsCurrent, WrittenInOrder, ReplayAgrees
  <1>9. QED
    BY <1>5, <1>6, <1>7, <1>8 DEF IndInv

LEMMA NextKeeps == IndInv /\ [PostingNext]_vars => IndInv'
  BY WriterKeeps, ModerationKeeps, TickKeeps, StutterKeeps DEF PostingNext

LEMMA AlwaysIndInv == PostingSpec => []IndInv
  BY InitIsGood, NextKeeps, PTL DEF PostingSpec

\* However many writers post, whatever moderators and authors do meanwhile:
\* locks have one holder, every board is in order, what a writer read under the
\* lock of the board is what is committed, and what it wrote and decided still
\* stands when it commits.
THEOREM PostingInvariant == PostingSpec => []PostingInv
  <1>1. IndInv => PostingInv
    BY IndInvIs
  <1>2. QED
    BY <1>1, AlwaysIndInv, PTL

\* No thread has more replies up than its ceiling, whichever of the three counts
\* stood for it when each reply came (create_post_in_context, the window of
\* pinned threads, the survivors of autoarchive).
THEOREM RepliesStayBounded == PostingSpec => []RepliesAreBounded
  <1>1. IndInv => RepliesAreBounded
    BY IndInvIs
  <1>2. QED
    BY <1>1, AlwaysIndInv, PTL

\* Robot9000 lets no text pass that a post of the last two years says on that
\* board, however its checks, replays and cleanups interleave.
THEOREM RobotPostsStayOriginal == PostingSpec => []RobotPostsAreOriginal
  <1>1. IndInv => RobotPostsAreOriginal
    BY IndInvIs
  <1>2. QED
    BY <1>1, AlwaysIndInv, PTL

-----------------------------------------------------------------------------
(* What a step may do. *)

LEMMA CommitIs ==
  ASSUME IndInv, NEW w \in Writers, step[w] = "written", NEW c, Commit(w, c)
  PROVE  \A b \in Boards : content'[b] = IF b = req[w].board THEN c ELSE content[b]
  <1>1. content \in [Boards -> Contents] /\ content' = [content EXCEPT ![req[w].board] = c]
    BY DEF IndInv, PostingTypeOK, Commit
  <1>2. QED
    BY <1>1

\* A refusal that is remembered changes no post.
LEMMA RestoringPostsNothing ==
  ASSUME IndInv, NEW w \in Writers, step[w] = "written", Commit(w, Restored(w))
  PROVE  \A b \in Boards : content'[b].live = content[b].live
  <1>1. SamePosts(content[req[w].board], Restored(w))
    BY RestoredIs DEF Remembers
  <1>2. \A b \in Boards : content'[b] = IF b = req[w].board THEN Restored(w) ELSE content[b]
    BY CommitIs
  <1>3. Restored(w).live = content[req[w].board].live
    BY <1>1 DEF SamePosts
  <1>4. QED
    BY <1>2, <1>3

LEMMA ChangesPostNothing ==
  ASSUME IndInv, NEW b \in Boards, NEW c, Changes(b, c), c.live \subseteq content[b].live
  PROVE  \A d \in Boards : content'[d].live \subseteq content[d].live
  <1>1. content \in [Boards -> Contents] /\ content' = [content EXCEPT ![b] = c]
    BY DEF IndInv, PostingTypeOK, Changes
  <1>2. \A d \in Boards : content'[d] = IF d = b THEN c ELSE content[d]
    BY <1>1
  <1>3. QED
    BY <1>2

LEMMA ModerationPostsNothing ==
  ASSUME IndInv, Moderation
  PROVE  actions' = actions /\ \A d \in Boards : content'[d].live \subseteq content[d].live
  <1>1. PICK b \in Boards, t \in Numbers :
          \/ \E sticky, undead, closed \in BOOLEAN : SetOptions(b, t, sticky, undead, closed)
          \/ ForceArchive(b, t)
          \/ Remove(b, t)
          \/ \E old \in SUBSET {x \in Texts : Outdated(content[b], x, now)} : Cleanup(b, old)
    BY DEF Moderation
  <1> DEFINE c == content[b]
  <1>2. c \in Contents
    BY DEF IndInv, PostingTypeOK
  <1>3. ASSUME NEW sticky \in BOOLEAN, NEW undead \in BOOLEAN, NEW closed \in BOOLEAN,
               SetOptions(b, t, sticky, undead, closed)
        PROVE  \E d : Changes(b, d) /\ d.live \subseteq c.live
    <2> DEFINE row == [c.thread[t] EXCEPT !.sticky = sticky, !.undead = undead, !.closed = closed]
               d == [c EXCEPT !.thread[t] = row]
    <2>1. Changes(b, d)
      BY <1>3 DEF SetOptions
    <2> HIDE DEF row, c
    <2>2. d.live = c.live
      BY <1>2 DEF Contents
    <2>3. QED
      BY <2>1, <2>2
  <1>4. ASSUME ForceArchive(b, t) PROVE \E d : Changes(b, d) /\ d.live \subseteq c.live
    <2> DEFINE d == Archive([c EXCEPT !.thread[t].closed = TRUE], {t})
    <2>1. Changes(b, d)
      BY <1>4 DEF ForceArchive
    <2> HIDE DEF c
    <2>2. d.live = c.live
      BY <1>2 DEF Archive, Contents
    <2> HIDE DEF d
    <2>3. QED
      BY <2>1, <2>2
  <1>5. ASSUME Remove(b, t) PROVE \E d : Changes(b, d) /\ d.live \subseteq c.live
    <2> DEFINE d == IF c.place[t] = t THEN EraseThreads(c, {t}) ELSE Drop(c, {t})
    <2>1. Changes(b, d)
      BY <1>5 DEF Remove
    <2> HIDE DEF c
    <2>2. d.live \subseteq c.live
      BY <1>2, EraseShrinks, DropShrinks DEF Shrinks
    <2> HIDE DEF d
    <2>3. QED
      BY <2>1, <2>2
  <1>6. ASSUME NEW old \in SUBSET {x \in Texts : Outdated(c, x, now)}, Cleanup(b, old)
        PROVE  \E d : Changes(b, d) /\ d.live \subseteq c.live
    <2> DEFINE d == [c EXCEPT !.seen = [x \in Texts |-> IF x \in old THEN Never ELSE c.seen[x]]]
    <2>1. Changes(b, d)
      BY <1>6 DEF Cleanup
    <2> HIDE DEF c
    <2>2. d.live = c.live
      BY <1>2 DEF Contents
    <2> HIDE DEF d
    <2>3. QED
      BY <2>1, <2>2
  <1>7. PICK d : Changes(b, d) /\ d.live \subseteq c.live
    BY <1>1, <1>3, <1>4, <1>5, <1>6
  <1>8. QED
    BY <1>7, ChangesPostNothing DEF Changes

\* Posts and the record of threads come by Accept alone.
LEMMA OnlyAcceptPosts ==
  ASSUME IndInv, [PostingNext]_vars
  PROVE  \/ \E w \in Writers : Accept(w)
         \/ actions' = actions /\ \A b \in Boards : content'[b].live \subseteq content[b].live
  <1>1. ASSUME NEW w \in Writers, WriterStep(w), ~Accept(w)
        PROVE  actions' = actions /\ \A b \in Boards : content'[b].live \subseteq content[b].live
    <2>1. CASE \E a \in Actors, b \in Boards, parent \in 0 .. MaxNumber, x \in Texts, vip \in BOOLEAN :
                Ask(w, a, b, parent, x, vip)
      BY <2>1 DEF Ask
    <2>2. CASE Locks(w)
      BY <2>2 DEF Locks, LockActor, LockCapacity, LockBoard
    <2>3. CASE Writes(w)
      BY <2>3 DEF Writes, WriteThread, WriteReply, Written
    <2>4. CASE Reject(w) \/ Filter(w)
      <3>1. step[w] = "written" /\ Commit(w, Restored(w)) /\ actions' = actions
        BY <2>4 DEF Reject, Filter
      <3>2. QED
        BY <3>1, RestoringPostsNothing
    <2>5. CASE Abandon(w)
      BY <2>5 DEF Abandon
    <2>6. QED
      BY <1>1, <2>1, <2>2, <2>3, <2>4, <2>5 DEF WriterStep, Decides
  <1>2. CASE Moderation
    BY <1>2, ModerationPostsNothing
  <1>3. CASE Tick
    BY <1>3 DEF Tick
  <1>4. CASE UNCHANGED vars
    BY <1>4 DEF vars
  <1>5. QED
    BY <1>1, <1>2, <1>3, <1>4 DEF PostingNext

\* The one post that Accept brings to its board.
LEMMA AcceptPosts ==
  ASSUME IndInv, NEW w \in Writers, Accept(w)
  PROVE  LET r == req[w]   b == r.board   c == content[b] IN
         /\ r.board \in Boards /\ r.actor \in Actors /\ r.at \in Times
         /\ r.parent \in Numbers \cup {NewThread}
         /\ \A d \in Boards \ {b} : content'[d] = content[d]
         /\ content'[b] = Accepted(w)
         /\ \E n \in content'[b].live \ c.live :
              /\ NewPosts(b) = {n} /\ n \in Numbers
              /\ \A m \in Numbers : c.place[m] # NewThread => m < n
              /\ content'[b].place[n] = IF r.parent = NewThread THEN n ELSE r.parent
         /\ WrittenInOrder(w) /\ saved[w] = c
         /\ BoardOK(b, c, number)
  <1> DEFINE b == req[w].board
  <1>1. step[w] = "written" /\ mark[w].verdict = "allow" /\ Commit(w, Accepted(w))
    BY AcceptIs
  <1>2. /\ b \in Boards /\ req[w].actor \in Actors /\ req[w].at \in Times
        /\ req[w].parent \in Numbers \cup {NewThread}
        /\ saved[w] = content[b] /\ view[w] \in Contents /\ WrittenInOrder(w)
        /\ GoodBoard(b, content[b], number, now)
    BY <1>1, WrittenFacts
  <1>3. \A d \in Boards : content'[d] = IF d = b THEN Accepted(w) ELSE content[d]
    BY <1>1, CommitIs
  <1>4. Accepted(w).live = view[w].live /\ Accepted(w).place = view[w].place
    BY <1>1, AcceptedIs
  <1>5. PICK n \in view[w].live \ saved[w].live :
          /\ view[w].live \subseteq saved[w].live \cup {n}
          /\ \A m \in Numbers : saved[w].place[m] # NewThread => m < n
          /\ view[w].place[n] = IF req[w].parent = NewThread THEN n ELSE req[w].parent
    BY <1>1, <1>2 DEF WrittenInOrder
  <1>6. n \in Numbers
    BY <1>2 DEF Contents
  <1>7. content'[b] = Accepted(w)
    BY <1>2, <1>3
  <1>8. NewPosts(b) = {n}
    BY <1>2, <1>4, <1>5, <1>7 DEF NewPosts
  <1>9. BoardOK(b, content[b], number)
    BY <1>2 DEF GoodBoard
  <1> HIDE DEF b
  <1>10. QED
    BY <1>2, <1>3, <1>4, <1>5, <1>6, <1>7, <1>8, <1>9 DEF b

\* Numbers come in order on a board, though the sequence is shared by all boards
\* and never rolled back: the row of the board is locked from the draw to the
\* commit.
THEOREM NumbersComeInOrder == PostingSpec => NumbersFollowCommits
  <1> DEFINE InOrder == \A b \in Boards : \A n \in NewPosts(b), m \in Numbers :
                content[b].place[m] # NewThread => m < n
  <1>1. IndInv /\ [PostingNext]_vars => InOrder
    <2> SUFFICES ASSUME IndInv, [PostingNext]_vars, NEW b \in Boards, NEW n \in NewPosts(b),
                        NEW m \in Numbers, content[b].place[m] # NewThread
                 PROVE  m < n
      OBVIOUS
    <2>1. PICK w \in Writers : Accept(w)
      BY OnlyAcceptPosts DEF NewPosts
    <2>2. /\ \A d \in Boards \ {req[w].board} : content'[d] = content[d]
          /\ \E k \in content'[req[w].board].live \ content[req[w].board].live :
               /\ NewPosts(req[w].board) = {k}
               /\ \A l \in Numbers : content[req[w].board].place[l] # NewThread => l < k
      BY <2>1, AcceptPosts
    <2>3. b = req[w].board
      BY <2>2 DEF NewPosts
    <2>4. QED
      BY <2>2, <2>3
  <1>2. QED
    BY <1>1, AlwaysIndInv, PTL DEF PostingSpec, NumbersFollowCommits

\* An actor's threads on different boards keep their distance in time, and a
\* request that waited for the gate does not turn the record back
\* (posting_thread_actions, GREATEST of the two).
THEOREM ThreadsKeepTheirPace == PostingSpec => ThreadsArePaced
  <1> DEFINE Pace == \A a \in Actors, b \in Boards :
                actions'[a][b] # actions[a][b] =>
                    /\ actions'[a][b] > actions[a][b]
                    /\ \A d \in Boards \ {b} :
                         actions[a][d] = Never \/ actions[a][d] + CrossSeconds < now
  <1>1. IndInv /\ [PostingNext]_vars => Pace
    <2> SUFFICES ASSUME IndInv, [PostingNext]_vars, NEW a \in Actors, NEW b \in Boards,
                        actions'[a][b] # actions[a][b]
                 PROVE  /\ actions'[a][b] > actions[a][b]
                        /\ \A d \in Boards \ {b} :
                             actions[a][d] = Never \/ actions[a][d] + CrossSeconds < now
      OBVIOUS
    <2>1. PICK w \in Writers : Accept(w)
      BY OnlyAcceptPosts
    <2>2. /\ step[w] = "written" /\ req[w].parent = NewThread
          /\ actions' = [actions EXCEPT ![req[w].actor][req[w].board] =
                           Later(actions[req[w].actor][req[w].board], req[w].at)]
      BY <2>1, AcceptIs
    <2>3. /\ req[w].actor \in Actors /\ req[w].board \in Boards /\ req[w].at \in Times
          /\ WrittenInOrder(w)
      BY <2>2, WrittenFacts
    <2>4. actions \in [Actors -> [Boards -> Times \cup {Never}]]
      BY DEF IndInv, PostingTypeOK
    <2>5. /\ a = req[w].actor /\ b = req[w].board
          /\ actions'[a][b] = Later(actions[a][b], req[w].at)
      BY <2>2, <2>3, <2>4
    <2>6. actions'[a][b] > actions[a][b]
      BY <2>3, <2>4, <2>5, LaterIs
    <2>7. Paced(a, b)
      BY <2>2, <2>3, <2>5 DEF WrittenInOrder
    <2>8. QED
      BY <2>6, <2>7 DEF Paced
  <1>2. QED
    BY <1>1, AlwaysIndInv, PTL DEF PostingSpec, ThreadsArePaced

\* The conditions of admission hold when the post appears: the slot of a new
\* thread, which no sticky or undead thread gave up, and the open thread of a
\* reply.
THEOREM AdmissionHolds == PostingSpec => AdmittedAtCommit
  <1> DEFINE Admitted(b, n) ==
        LET t == content'[b].place[n] IN
        /\ t = n => Cardinality(Ordinary(content'[b])) <= ThreadLimit
        /\ t # n => t \in Active(content[b]) /\ ~content[b].thread[t].closed
        /\ \A u \in Active(content[b]) :
             content[b].thread[u].sticky \/ content[b].thread[u].undead => u \in Active(content'[b])
  <1>1. IndInv /\ [PostingNext]_vars => \A b \in Boards : \A n \in NewPosts(b) : Admitted(b, n)
    <2> SUFFICES ASSUME IndInv, [PostingNext]_vars, NEW b \in Boards, NEW n \in NewPosts(b)
                 PROVE  Admitted(b, n)
      OBVIOUS
    <2>1. PICK w \in Writers : Accept(w)
      BY OnlyAcceptPosts DEF NewPosts
    <2> DEFINE r == req[w]
               c == content[r.board]
               d == view[w]
               e == content'[r.board]
    <2>2. /\ \A k \in Boards \ {r.board} : content'[k] = content[k]
          /\ e = Accepted(w)
          /\ \E k \in e.live \ c.live :
               /\ NewPosts(r.board) = {k} /\ k \in Numbers
               /\ \A m \in Numbers : c.place[m] # NewThread => m < k
               /\ e.place[k] = IF r.parent = NewThread THEN k ELSE r.parent
          /\ WrittenInOrder(w) /\ saved[w] = c /\ BoardOK(r.board, c, number)
      BY <2>1, AcceptPosts
    <2>3. b = r.board
      BY <2>2 DEF NewPosts
    <2>4. /\ n \in Numbers /\ \A m \in Numbers : c.place[m] # NewThread => m < n
          /\ e.place[n] = IF r.parent = NewThread THEN n ELSE r.parent
      BY <2>2, <2>3
    <2>5. /\ step[w] = "written" /\ mark[w].verdict = "allow"
          /\ Active(d) \ Ordinary(d) \subseteq Active(e)
      BY <2>1, <2>2, AcceptIs, AcceptedIs
    <2>6. /\ IF r.parent = NewThread
             THEN Cardinality(Ordinary(d)) <= ThreadLimit
             ELSE r.parent \in Active(c) /\ ~c.thread[r.parent].closed
          /\ \A u \in Active(c) : c.thread[u].sticky \/ c.thread[u].undead =>
               u \in Active(d) /\ u \notin Ordinary(d)
      BY <2>2, <2>5 DEF WrittenInOrder
    <2>7. r.parent = NewThread => e = d
      BY <2>2 DEF Accepted
    <2>8. ASSUME r.parent # NewThread PROVE r.parent # n
      <3>1. r.parent \in Numbers /\ c.thread[r.parent].state = "active"
        BY <2>6, <2>8 DEF Active
      <3>2. c.place[r.parent] # NewThread
        BY <2>2, <3>1 DEF BoardOK, Numbers, NewThread
      <3>3. r.parent < n
        BY <2>4, <3>1, <3>2
      <3>4. QED
        BY <2>4, <3>1, <3>3, NumbersAreFinite
    <2> HIDE DEF r, c, d, e
    <2>9. Admitted(b, n) <=>
            /\ e.place[n] = n => Cardinality(Ordinary(e)) <= ThreadLimit
            /\ e.place[n] # n => e.place[n] \in Active(c) /\ ~c.thread[e.place[n]].closed
            /\ \A u \in Active(c) : c.thread[u].sticky \/ c.thread[u].undead => u \in Active(e)
      BY <2>3 DEF c, e
    <2> HIDE DEF Admitted
    <2>10. QED
      BY <2>4, <2>5, <2>6, <2>7, <2>8, <2>9
  <1>2. QED
    BY <1>1, AlwaysIndInv, PTL DEF PostingSpec, AdmittedAtCommit

-----------------------------------------------------------------------------
(* A refused post. *)

LEMMA OnlyItEnds ==
  ASSUME IndInv, [PostingNext]_vars, NEW w \in Writers, step[w] = "written", step'[w] = "idle"
  PROVE  Accept(w) \/ Reject(w) \/ Filter(w) \/ Abandon(w)
  <1>1. step \in [Writers -> Steps]
    BY DEF IndInv, PostingTypeOK
  <1>2. ASSUME NEW v \in Writers, WriterStep(v), v # w PROVE step'[w] = step[w]
    <2>1. CASE \E a \in Actors, b \in Boards, parent \in 0 .. MaxNumber, x \in Texts, vip \in BOOLEAN :
                Ask(v, a, b, parent, x, vip)
      BY <1>1, <1>2, <2>1 DEF Ask
    <2>2. CASE Locks(v)
      BY <1>1, <1>2, <2>2 DEF Locks, LockActor, LockCapacity, LockBoard
    <2>3. CASE Writes(v)
      BY <1>1, <1>2, <2>3 DEF Writes, WriteThread, WriteReply, Written
    <2>4. CASE Decides(v)
      BY <1>1, <1>2, <2>4 DEF Decides, Accept, Reject, Filter, Commit, Ends
    <2>5. CASE Abandon(v)
      BY <1>1, <1>2, <2>5 DEF Abandon, Ends
    <2>6. QED
      BY <1>2, <2>1, <2>2, <2>3, <2>4, <2>5 DEF WriterStep
  <1>3. ASSUME WriterStep(w) PROVE Accept(w) \/ Reject(w) \/ Filter(w) \/ Abandon(w)
    <2>1. ~\E a \in Actors, b \in Boards, parent \in 0 .. MaxNumber, x \in Texts, vip \in BOOLEAN :
                Ask(w, a, b, parent, x, vip)
      BY DEF Ask
    <2>2. ~Locks(w)
      BY DEF Locks, LockActor, LockCapacity, LockBoard
    <2>3. ~Writes(w)
      BY DEF Writes, WriteThread, WriteReply
    <2>4. QED
      BY <1>3, <2>1, <2>2, <2>3 DEF WriterStep, Decides
  <1>4. CASE Moderation
    BY <1>4 DEF Moderation, SetOptions, ForceArchive, Remove, Cleanup, Changes, txVars
  <1>5. CASE Tick
    BY <1>5 DEF Tick, txVars
  <1>6. CASE UNCHANGED vars
    BY <1>6 DEF vars, txVars
  <1>7. QED
    BY <1>2, <1>3, <1>4, <1>5, <1>6 DEF PostingNext

\* Of a verified post, nothing is remembered.
LEMMA ExemptLeavesNoMark ==
  ASSUME IndInv, NEW w \in Writers, step[w] = "written", req[w].vip,
         Accept(w) \/ Reject(w) \/ Filter(w) \/ Abandon(w)
  PROVE  LET b == req[w].board IN
         content'[b].seen = content[b].seen /\ content'[b].mute = content[b].mute
  <1> DEFINE b == req[w].board
  <1>1. b \in Boards /\ saved[w] = content[b] /\ WrittenInOrder(w)
    BY WrittenFacts
  <1>2. CASE Accept(w)
    <2>1. content'[b] = Accepted(w) /\ Accepted(w).seen = view[w].seen /\ Accepted(w).mute = view[w].mute
      BY <1>2, AcceptIs, AcceptedIs, AcceptPosts
    <2>2. view[w].seen = saved[w].seen /\ view[w].mute = saved[w].mute
      BY <1>1 DEF WrittenInOrder
    <2>3. QED
      BY <1>1, <2>1, <2>2
  <1>3. CASE Reject(w) \/ Filter(w)
    <2>1. Commit(w, Restored(w))
      BY <1>3 DEF Reject, Filter
    <2>2. Restored(w) = saved[w]
      BY DEF Restored, RobotApplies
    <2>3. content'[b] = Restored(w)
      BY <1>1, <2>1, CommitIs
    <2>4. QED
      BY <1>1, <2>2, <2>3
  <1>4. CASE Abandon(w)
    BY <1>4 DEF Abandon
  <1>5. QED
    BY <1>2, <1>3, <1>4

\* A post that does not appear leaves at most what Robot9000 remembers, never a
\* thread displaced or a reply dropped: the savepoint precedes all it wrote. A
\* verified post leaves nothing with Robot9000, posted or refused.
THEOREM RefusalsLeaveNoTrace == PostingSpec => PostOrMark
  <1> DEFINE Mark(b) == content'[b] = [content[b] EXCEPT !.seen = content'[b].seen,
                                                         !.mute = content'[b].mute]
             Clean == \A w \in Writers : LET b == req[w].board IN
                step[w] = "written" /\ step'[w] = "idle" /\ (mark[w].verdict # "allow" \/ NewPosts(b) = {})
                => Mark(b)
             Silent == \A w \in Writers : LET b == req[w].board IN
                step[w] = "written" /\ step'[w] = "idle" /\ req[w].vip
                => content'[b].seen = content[b].seen /\ content'[b].mute = content[b].mute
  <1>1. IndInv /\ [PostingNext]_vars => Clean
    <2> SUFFICES ASSUME IndInv, [PostingNext]_vars, NEW w \in Writers,
                        step[w] = "written", step'[w] = "idle",
                        mark[w].verdict # "allow" \/ NewPosts(req[w].board) = {}
                 PROVE  Mark(req[w].board)
      OBVIOUS
    <2> DEFINE b == req[w].board
    <2>1. b \in Boards /\ content[b] \in Contents
      BY WrittenFacts DEF GoodBoard
    <2>2. CASE Accept(w)
      <3>1. mark[w].verdict = "allow" /\ NewPosts(b) # {}
        BY <2>2, AcceptIs, AcceptPosts
      <3>2. QED
        BY <3>1
    <2>3. CASE Reject(w) \/ Filter(w)
      <3>1. Commit(w, Restored(w))
        BY <2>3 DEF Reject, Filter
      <3>2. content'[b] = Restored(w)
        BY <2>1, <3>1, CommitIs
      <3>3. Restored(w) = [content[b] EXCEPT !.seen = Restored(w).seen, !.mute = Restored(w).mute]
        BY RestoredIs DEF Remembers
      <3>4. QED
        BY <3>2, <3>3
    <2>4. CASE Abandon(w)
      <3>1. content'[b] = content[b]
        BY <2>4 DEF Abandon
      <3> DEFINE c == content[b]
      <3>2. c \in Contents /\ content'[b] = c
        BY <2>1, <3>1
      <3> HIDE DEF c
      <3>3. c = [c EXCEPT !.seen = c.seen, !.mute = c.mute]
        BY <3>2 DEF Contents
      <3>4. QED
        BY <3>2, <3>3 DEF c
    <2>5. QED
      BY <2>2, <2>3, <2>4, OnlyItEnds
  <1>2. IndInv /\ [PostingNext]_vars => Silent
    BY OnlyItEnds, ExemptLeavesNoMark
  <1> DEFINE Post == \A w \in Writers : LET b == req[w].board IN
                step[w] = "written" /\ step'[w] = "idle" =>
                   /\ mark[w].verdict # "allow" \/ NewPosts(b) = {} =>
                        content'[b] = [content[b] EXCEPT !.seen = content'[b].seen,
                                                         !.mute = content'[b].mute]
                   /\ req[w].vip => content'[b].seen = content[b].seen
                                    /\ content'[b].mute = content[b].mute
  <1>3. IndInv /\ [PostingNext]_vars => Post
    BY <1>1, <1>2
  <1>4. QED
    BY <1>3, AlwaysIndInv, PTL DEF PostingSpec, PostOrMark
=============================================================================
