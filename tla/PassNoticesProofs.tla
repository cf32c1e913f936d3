------------------------- MODULE PassNoticesProofs -------------------------
(***************************************************************************)
(* For any number of accounts, mailers, renewals and addresses: one mail   *)
(* is pending for an account, marks tell of notices that were really sent, *)
(* a membership ends only after its notice, and leases are kept.           *)
(***************************************************************************)
EXTENDS PassNotices, TLAPS

LEMMA InitNoticeInv == NoticeInit => NoticeInv
  <1> SUFFICES ASSUME NoticeInit PROVE NoticeInv
    OBVIOUS
  <1> USE NoticeAssumption, NullAssumption
  <1>1. Queued = {}
    BY DEF NoticeInit, Queued, NoRow, NewRow
  <1>2. NoRow \in Rows
    BY DEF NoRow, NewRow, Rows
  <1>3. NoticeTypeOK
    BY <1>2 DEF NoticeInit, NoticeTypeOK, Statuses, Terms, Ages, Phases
  <1>4. QED
    BY <1>1, <1>3
    DEF NoticeInit, NoticeInv, MailerInv, OneRowPerAccount, MarksAreTrue, DoneIsNotQueued

-----------------------------------------------------------------------------
(* Types. *)

LEMMA NewRowType == ASSUME NEW n \in Notices \cup {NoNotice} PROVE NewRow(n) \in Rows
  BY NoticeAssumption DEF NewRow, Rows

LEMMA KeptType ==
  ASSUME NoticeTypeOK, NEW gone PROVE Kept(gone) \in [Requests -> Rows]
  BY NewRowType DEF NoticeTypeOK, Kept, NoRow

LEMMA TypeStepProduce == ASSUME NoticeTypeOK, Produce PROVE NoticeTypeOK'
  <1>1. CASE ListDue
    BY <1>1 DEF ListDue, NoticeTypeOK, accountVars, mailerVars
  <1>2. ASSUME NEW n \in Notices, DropCandidate(n) PROVE NoticeTypeOK'
    BY <1>2 DEF DropCandidate, NoticeTypeOK, accountVars, mailerVars
  <1>3. ASSUME NEW n \in Notices, QueueNotice(n) PROVE NoticeTypeOK'
    <2>1. row' \in [Requests -> Rows]
      BY <1>3, KeptType, NewRowType DEF QueueNotice, NoticeTypeOK
    <2>2. QED
      BY <1>3, <2>1 DEF QueueNotice, NoticeTypeOK, accountVars, mailerVars
  <1>4. QED
    BY <1>1, <1>2, <1>3 DEF Produce

LEMMA IdleType ==
  ASSUME NoticeTypeOK, NEW m \in Mailers, Idle(m)
  PROVE  /\ job' \in [Mailers -> Requests \cup {NoNotice}]
         /\ letter' \in [Mailers -> Notices \cup {NoNotice}]
         /\ phase' \in [Mailers -> Phases]
  BY DEF NoticeTypeOK, Idle, Phases

LEMMA TypeStepClaim == ASSUME NoticeTypeOK, NEW m \in Mailers, Claim(m) PROVE NoticeTypeOK'
  <1>1. Kept(Outdated) \in [Requests -> Rows]
    BY KeptType
  <1>2. ASSUME NEW r \in Queued, Claimable(r)
        PROVE  [row[r] EXCEPT !.holder = m, !.live = TRUE, !.tries = @ + 1] \in Rows
    <2>1. row[r] \in Rows
      BY DEF NoticeTypeOK, Queued
    <2>2. row[r].tries + 1 \in 0..MaxAttempts
      BY <1>2, <2>1, NoticeAssumption DEF Rows, Claimable
    <2>3. QED
      BY <2>1, <2>2 DEF Rows
  <1>3. row' \in [Requests -> Rows]
    BY <1>1, <1>2 DEF Claim, Queued
  <1>4. ASSUME NEW r \in Queued PROVE row[r].notice \in Notices
    BY <1>4 DEF NoticeTypeOK, Rows, Queued
  <1>5. /\ job' \in [Mailers -> Requests \cup {NoNotice}]
        /\ letter' \in [Mailers -> Notices \cup {NoNotice}]
        /\ phase' \in [Mailers -> Phases]
    BY <1>4 DEF Claim, NoticeTypeOK, Phases, mailerVars, Queued
  <1>6. QED
    BY <1>3, <1>5 DEF Claim, NoticeTypeOK, accountVars

LEMMA TypeStepDeliver ==
  ASSUME NoticeInv, NEW m \in Mailers, Deliver(m) \/ DeliverFails(m) PROVE NoticeTypeOK'
  <1>1. letter[m] \in Notices
    BY DEF NoticeInv, MailerInv, Deliver, DeliverFails
  <1>2. QED
    BY <1>1 DEF NoticeInv, Deliver, DeliverFails, NoticeTypeOK, Phases, accountVars

LEMMA TypeStepAcknowledge ==
  ASSUME NoticeInv, NEW m \in Mailers, Acknowledge(m) PROVE NoticeTypeOK'
  <1> NoticeTypeOK /\ letter[m] \in Notices
    BY DEF NoticeInv, MailerInv, Acknowledge
  <1>1. row' \in [Requests -> Rows]
    <2>1. CASE ~Leased(m)
      BY <2>1 DEF Acknowledge, NoticeTypeOK
    <2>2. CASE Leased(m) /\ phase[m] = "refused"
      <3>1. job[m] \in Requests /\ row[job[m]] \in Rows
        BY <2>2 DEF Leased, Queued, NoticeTypeOK
      <3>2. [row[job[m]] EXCEPT !.holder = Nobody, !.live = FALSE, !.waiting = TRUE] \in Rows
        BY <3>1 DEF Rows
      <3>3. QED
        BY <2>2, <3>1, <3>2 DEF Acknowledge, NoticeTypeOK
    <2>3. CASE Leased(m) /\ phase[m] # "refused"
      BY <2>3, KeptType DEF Acknowledge
    <2>4. QED
      BY <2>1, <2>2, <2>3
  <1>2. /\ reminded' \in [Accounts -> Terms] /\ announced' \in [Accounts -> Terms]
        /\ status' \in [Accounts -> Statuses]
    BY DEF Acknowledge, Mark, NoticeTypeOK, Notices, Terms, Statuses
  <1>3. QED
    BY <1>1, <1>2, IdleType DEF Acknowledge, NoticeTypeOK

LEMMA TypeStepTime == ASSUME NoticeTypeOK, Time PROVE NoticeTypeOK'
  <1>1. ASSUME NEW r \in Requests, LeaseEnds(r) \/ RetryDue(r) \/ RowAges(r) PROVE NoticeTypeOK'
    <2>1. row[r] \in Rows
      BY DEF NoticeTypeOK
    <2>2. /\ [row[r] EXCEPT !.live = FALSE] \in Rows
          /\ [row[r] EXCEPT !.waiting = FALSE] \in Rows
          /\ [row[r] EXCEPT !.old = TRUE, !.live = FALSE] \in Rows
      BY <2>1 DEF Rows
    <2>3. row' \in [Requests -> Rows]
      BY <1>1, <2>2 DEF LeaseEnds, RetryDue, RowAges, NoticeTypeOK
    <2>4. QED
      BY <1>1, <2>3 DEF LeaseEnds, RetryDue, RowAges, NoticeTypeOK, accountVars, mailerVars
  <1>2. ASSUME NEW a \in Accounts, Approach(a) PROVE NoticeTypeOK'
    BY <1>2 DEF Approach, NoticeTypeOK, Ages, mailerVars
  <1>3. QED
    BY <1>1, <1>2 DEF Time

LEMMA TypeStepChange == ASSUME NoticeTypeOK, Change PROVE NoticeTypeOK'
  <1> USE NoticeAssumption DEF NoticeTypeOK, accountFrame, mailerVars
  <1>1. ASSUME NEW a \in Accounts, NEW s \in Statuses, NEW g \in Ages, NewTerm(a, s, g)
        PROVE  NoticeTypeOK'
    BY <1>1 DEF NewTerm, Terms
  <1>2. ASSUME NEW a \in Accounts, Renew(a) \/ PaymentHold(a) \/ Login(a) PROVE NoticeTypeOK'
    BY <1>1, <1>2 DEF Renew, PaymentHold, Login, Statuses, Ages
  <1>3. ASSUME NEW a \in Accounts, ChangeContact(a) PROVE NoticeTypeOK'
    BY <1>3 DEF ChangeContact
  <1>4. ASSUME NEW a \in Accounts, NEW s \in Statuses, OperatorStatus(a, s) PROVE NoticeTypeOK'
    BY <1>4 DEF OperatorStatus
  <1>5. QED
    BY <1>2, <1>3, <1>4 DEF Change, Statuses

LEMMA NoticeTypeStep == ASSUME NoticeInv, [NoticeNext]_vars PROVE NoticeTypeOK'
  <1> NoticeTypeOK
    BY DEF NoticeInv
  <1>1. ASSUME NEW m \in Mailers, Die(m) PROVE NoticeTypeOK'
    BY <1>1, IdleType DEF Die, NoticeTypeOK, accountVars
  <1>2. CASE Mail
    BY <1>1, <1>2, TypeStepClaim, TypeStepDeliver, TypeStepAcknowledge DEF Mail
  <1>3. CASE UNCHANGED vars
    BY <1>3 DEF vars, NoticeTypeOK, accountVars
  <1>4. QED
    BY <1>2, <1>3, TypeStepProduce, TypeStepTime, TypeStepChange DEF NoticeNext

-----------------------------------------------------------------------------
(* The rows: a step removes some, and only queueing adds one. *)

RowsFade == \A r \in Requests :
    row'[r].notice = row[r].notice \/ row'[r].notice = NoNotice

\* A row for n is added, and it is the only one of the account.
RowAdded(n) ==
    /\ Valid(n)
    /\ \E r \in Requests :
         /\ Fresh(r) /\ row'[r].notice = n
         /\ \A s \in Requests \ {r} : row'[s].notice # NoNotice =>
              /\ row'[s].notice = row[s].notice
              /\ row[s].notice.account # n.account

LEMMA KeptFades == ASSUME NoticeTypeOK, NEW gone, row' = Kept(gone) PROVE RowsFade
  BY DEF NoticeTypeOK, Kept, NoRow, NewRow, RowsFade

LEMMA QueueAddsOne ==
  ASSUME NoticeTypeOK, NEW n \in Notices, QueueNotice(n) PROVE RowsFade \/ RowAdded(n)
  <1>1. CASE UNCHANGED row \/ row' = Kept(Replaced(n))
    BY <1>1, KeptFades DEF RowsFade
  <1>2. ASSUME NEW r \in Requests, Fresh(r), Valid(n),
               row' = [Kept(Replaced(n)) EXCEPT ![r] = NewRow(n)],
               \A s \in Queued \ Replaced(n) : row[s].notice # n
        PROVE  RowAdded(n)
    <2>1. row'[r].notice = n
      BY <1>2 DEF Kept, NewRow
    <2>2. ASSUME NEW s \in Requests \ {r}, row'[s].notice # NoNotice
          PROVE  row'[s].notice = row[s].notice /\ row[s].notice.account # n.account
      <3>1. s \notin Replaced(n) /\ row'[s] = row[s]
        BY <1>2, <2>2 DEF Kept, NoRow, NewRow
      <3>2. QED
        BY <1>2, <2>2, <3>1 DEF Replaced, Queued
    <2>3. QED
      BY <1>2, <2>1, <2>2 DEF RowAdded
  <1>3. QED
    BY <1>1, <1>2 DEF QueueNotice

LEMMA ClaimFades == ASSUME NoticeTypeOK, NEW m \in Mailers, Claim(m) PROVE RowsFade
  <1>1. ASSUME NEW r \in Queued,
               row' = [Kept(Outdated) EXCEPT ![r] =
                 [row[r] EXCEPT !.holder = m, !.live = TRUE, !.tries = @ + 1]]
        PROVE  RowsFade
    <2>1. row[r] \in Rows
      BY DEF NoticeTypeOK, Queued
    <2>2. row'[r].notice = row[r].notice
      <3>1. row'[r] = [row[r] EXCEPT !.holder = m, !.live = TRUE, !.tries = @ + 1]
        BY <1>1 DEF Kept, Queued
      <3>2. QED
        BY <2>1, <3>1 DEF Rows
    <2>3. QED
      BY <1>1, <2>2 DEF Kept, NoRow, NewRow, RowsFade
  <1>2. QED
    BY <1>1, KeptFades DEF Claim

LEMMA AcknowledgeFades ==
  ASSUME NoticeTypeOK, NEW m \in Mailers, Acknowledge(m) PROVE RowsFade
  <1>1. CASE Leased(m) /\ phase[m] = "refused"
    <2>1. job[m] \in Requests /\ row[job[m]] \in Rows
      BY <1>1 DEF Leased, Queued, NoticeTypeOK
    <2>2. row'[job[m]].notice = row[job[m]].notice
      <3>1. row'[job[m]] =
              [row[job[m]] EXCEPT !.holder = Nobody, !.live = FALSE, !.waiting = TRUE]
        BY <1>1, <2>1 DEF Acknowledge, NoticeTypeOK
      <3>2. QED
        BY <2>1, <3>1 DEF Rows
    <2>3. QED
      BY <1>1, <2>1, <2>2 DEF Acknowledge, NoticeTypeOK, RowsFade
  <1>2. QED
    BY <1>1, KeptFades DEF Acknowledge, RowsFade

LEMMA TimeFades == ASSUME NoticeTypeOK, Time PROVE RowsFade
  <1>1. ASSUME NEW r \in Requests, LeaseEnds(r) \/ RetryDue(r) \/ RowAges(r) PROVE RowsFade
    <2>1. row[r] \in Rows
      BY DEF NoticeTypeOK
    <2>2. row'[r].notice = row[r].notice
      <3>1. \/ row'[r] = [row[r] EXCEPT !.live = FALSE]
            \/ row'[r] = [row[r] EXCEPT !.waiting = FALSE]
            \/ row'[r] = [row[r] EXCEPT !.old = TRUE, !.live = FALSE]
        BY <1>1 DEF LeaseEnds, RetryDue, RowAges, NoticeTypeOK
      <3>2. QED
        BY <2>1, <3>1 DEF Rows
    <2>3. QED
      BY <1>1, <2>2 DEF LeaseEnds, RetryDue, RowAges, NoticeTypeOK, RowsFade
  <1>2. ASSUME NEW a \in Accounts, Approach(a) PROVE RowsFade
    BY <1>2 DEF Approach, RowsFade
  <1>3. QED
    BY <1>1, <1>2 DEF Time

LEMMA ChangeKeepsRows == Change => UNCHANGED <<row, mailerVars, accepted, reminded, announced>>
  BY DEF Change, Renew, NewTerm, PaymentHold, Login, ChangeContact, OperatorStatus, accountFrame,
     mailerVars

LEMMA StepOfRows ==
  ASSUME NoticeInv, [NoticeNext]_vars PROVE RowsFade \/ \E n \in Notices : RowAdded(n)
  <1> NoticeTypeOK
    BY DEF NoticeInv
  <1>1. CASE Produce
    BY <1>1, QueueAddsOne DEF Produce, ListDue, DropCandidate, RowsFade
  <1>2. CASE Mail
    BY <1>2, ClaimFades, AcknowledgeFades DEF Mail, Deliver, DeliverFails, Die, RowsFade
  <1>3. CASE Change \/ UNCHANGED vars
    BY <1>3, ChangeKeepsRows DEF vars, RowsFade
  <1>4. QED
    BY <1>1, <1>2, <1>3, TimeFades DEF NoticeNext

LEMMA OneRowStep == ASSUME NoticeInv, [NoticeNext]_vars PROVE OneRowPerAccount'
  <1> NoticeTypeOK /\ OneRowPerAccount
    BY DEF NoticeInv
  <1>1. CASE RowsFade
    BY <1>1 DEF RowsFade, OneRowPerAccount, Queued
  <1>2. ASSUME NEW n \in Notices, RowAdded(n) PROVE OneRowPerAccount'
    BY <1>2 DEF RowAdded, OneRowPerAccount, Queued
  <1>3. QED
    BY <1>1, <1>2, StepOfRows

-----------------------------------------------------------------------------
(* The mailers. *)

\* Nothing but a mailer's own step touches what it has in hand.
Untouched(m) ==
    job'[m] = job[m] /\ letter'[m] = letter[m] /\ phase'[m] = phase[m]

LEMMA UntouchedMailer ==
  ASSUME NoticeInv, [NoticeNext]_vars, NEW m \in Mailers, Untouched(m), accepted \subseteq accepted'
  PROVE  MailerInv(m)'
  <1>1. MailerInv(m)
    BY DEF NoticeInv
  <1>2. CASE RowsFade
    BY <1>1, <1>2 DEF MailerInv, Untouched, RowsFade, Queued
  <1>3. ASSUME NEW n \in Notices, RowAdded(n) PROVE MailerInv(m)'
    BY <1>1, <1>3 DEF MailerInv, Untouched, RowAdded, Fresh, Queued
  <1>4. QED
    BY <1>2, <1>3, StepOfRows

LEMMA AcceptedGrows == [NoticeNext]_vars => accepted \subseteq accepted'
  <1>1. Mail => accepted \subseteq accepted'
    BY DEF Mail, Claim, Deliver, DeliverFails, Acknowledge, Die
  <1>2. Produce => accepted \subseteq accepted'
    BY DEF Produce, ListDue, DropCandidate, QueueNotice
  <1>3. Time => accepted \subseteq accepted'
    BY DEF Time, LeaseEnds, RetryDue, RowAges, Approach
  <1>4. QED
    BY <1>1, <1>2, <1>3, ChangeKeepsRows DEF NoticeNext, vars

LEMMA OwnStep ==
  ASSUME NoticeInv, NEW m \in Mailers,
         Claim(m) \/ Deliver(m) \/ DeliverFails(m) \/ Acknowledge(m) \/ Die(m)
  PROVE  MailerInv(m)' /\ \A o \in Mailers \ {m} : Untouched(o)
  <1> NoticeTypeOK /\ MailerInv(m)
    BY DEF NoticeInv
  <1> USE DEF NoticeTypeOK, Untouched
  <1>1. CASE Acknowledge(m) \/ Die(m)
    BY <1>1 DEF Acknowledge, Die, Idle, MailerInv
  <1>2. CASE Deliver(m) \/ DeliverFails(m)
    BY <1>2 DEF Deliver, DeliverFails, MailerInv, Queued
  <1>3. CASE Claim(m)
    <2>1. ASSUME NEW r \in Queued,
                 job' = [job EXCEPT ![m] = r],
                 letter' = [letter EXCEPT ![m] = row[r].notice],
                 phase' = [phase EXCEPT ![m] = "claimed"]
          PROVE  MailerInv(m)'
      <3>1. r \in Requests /\ row[r].notice \in Notices
        BY DEF Queued, Rows
      <3>2. RowsFade
        BY <1>3, ClaimFades
      <3>3. QED
        BY <2>1, <3>1, <3>2 DEF MailerInv, RowsFade, Queued
    <2>2. CASE row' = Kept(Outdated) /\ UNCHANGED mailerVars
      BY <1>3, <2>2 DEF Claim, MailerInv, mailerVars
    <2>3. QED
      BY <1>3, <2>1, <2>2 DEF Claim, mailerVars
  <1>4. QED
    BY <1>1, <1>2, <1>3

LEMMA MailersStep ==
  ASSUME NoticeInv, [NoticeNext]_vars PROVE \A m \in Mailers : MailerInv(m)'
  <1>1. ASSUME NEW m \in Mailers,
               Claim(m) \/ Deliver(m) \/ DeliverFails(m) \/ Acknowledge(m) \/ Die(m)
        PROVE  \A o \in Mailers : MailerInv(o)'
    BY <1>1, OwnStep, UntouchedMailer, AcceptedGrows
  <1>2. CASE Produce \/ Time \/ Change \/ UNCHANGED vars
    <2>1. UNCHANGED mailerVars
      BY <1>2, ChangeKeepsRows DEF Produce, ListDue, DropCandidate, QueueNotice, Time, LeaseEnds,
         RetryDue, RowAges, Approach, vars, mailerVars
    <2>2. QED
      BY <2>1, UntouchedMailer, AcceptedGrows DEF mailerVars, Untouched
  <1>3. QED
    BY <1>1, <1>2 DEF NoticeNext, Mail

-----------------------------------------------------------------------------
(* The marks. *)

LEMMA OthersKeepMarks ==
  ASSUME [NoticeNext]_vars, \A m \in Mailers : ~Acknowledge(m)
  PROVE  UNCHANGED <<reminded, announced>>
  <1>1. CASE Mail
    BY <1>1 DEF Mail, Claim, Deliver, DeliverFails, Die
  <1>2. CASE Produce \/ Time
    BY <1>2 DEF Produce, ListDue, DropCandidate, QueueNotice, Time, LeaseEnds, RetryDue, RowAges,
       Approach
  <1>3. QED
    BY <1>1, <1>2, ChangeKeepsRows DEF NoticeNext, vars

\* An acknowledgement that marks is of an accepted notice, whose row goes.
LEMMA MarkedNotice ==
  ASSUME NoticeInv, NEW m \in Mailers, Acknowledge(m), ~UNCHANGED <<reminded, announced, status>>
  PROVE  /\ Leased(m) /\ Counts(letter[m]) /\ Mark(letter[m])
         /\ letter[m] \in Notices /\ letter[m] \in accepted
         /\ row[job[m]].notice = letter[m] /\ row' = Kept({job[m]})
  BY DEF NoticeInv, MailerInv, Acknowledge, Leased

LEMMA MarkEffect ==
  ASSUME NoticeTypeOK, NEW n \in Notices, Mark(n), NEW a \in Accounts
  PROVE  /\ reminded'[a] = IF a = n.account /\ n.kind = "reminder" THEN n.term ELSE reminded[a]
         /\ announced'[a] = IF a = n.account /\ n.kind = "expired" THEN n.term ELSE announced[a]
         /\ status'[a] = IF a = n.account /\ n.kind = "expired" /\ age[a] = "past"
                         THEN "expired" ELSE status[a]
  BY DEF NoticeTypeOK, Mark

\* Told, with the notices accepted after the step.
ToldNow(a, k, t) == \E n \in accepted' : n.account = a /\ n.kind = k /\ n.term = t

LEMMA MarksStep == ASSUME NoticeInv, [NoticeNext]_vars PROVE MarksAreTrue'
  <1> NoticeTypeOK /\ MarksAreTrue /\ accepted \subseteq accepted'
    BY AcceptedGrows DEF NoticeInv
  <1>1. CASE UNCHANGED <<reminded, announced>>
    BY <1>1 DEF MarksAreTrue, Told
  <1>2. ASSUME NEW m \in Mailers, Acknowledge(m), ~UNCHANGED <<reminded, announced>>
        PROVE  MarksAreTrue'
    <2> DEFINE n == letter[m]
    <2>1. Mark(n) /\ n \in Notices /\ n \in accepted'
      BY <1>2, MarkedNotice
    <2> HIDE DEF n
    <2>2. ASSUME NEW a \in Accounts, NEW k, NEW t, Told(a, k, t) PROVE ToldNow(a, k, t)
      BY <2>2 DEF Told, ToldNow
    <2>3. ASSUME NEW a \in Accounts, reminded'[a] # 0 PROVE ToldNow(a, "reminder", reminded'[a])
      <3>1. CASE a = n.account /\ n.kind = "reminder"
        BY <2>1, <3>1, MarkEffect DEF ToldNow
      <3>2. CASE ~(a = n.account /\ n.kind = "reminder")
        BY <2>1, <2>2, <2>3, <3>2, MarkEffect DEF MarksAreTrue
      <3>3. QED
        BY <3>1, <3>2
    <2>4. ASSUME NEW a \in Accounts, announced'[a] # 0 PROVE ToldNow(a, "expired", announced'[a])
      <3>1. CASE a = n.account /\ n.kind = "expired"
        BY <2>1, <3>1, MarkEffect DEF ToldNow
      <3>2. CASE ~(a = n.account /\ n.kind = "expired")
        BY <2>1, <2>2, <2>4, <3>2, MarkEffect DEF MarksAreTrue
      <3>3. QED
        BY <3>1, <3>2
    <2>5. QED
      BY <2>3, <2>4 DEF MarksAreTrue, Told, ToldNow
  <1>3. QED
    BY <1>1, <1>2, OthersKeepMarks

LEMMA DoneStep == ASSUME NoticeInv, [NoticeNext]_vars PROVE DoneIsNotQueued'
  <1> NoticeTypeOK /\ OneRowPerAccount /\ DoneIsNotQueued
    BY DEF NoticeInv
  <1>1. CASE UNCHANGED <<reminded, announced>>
    <2>1. CASE RowsFade
      BY <1>1, <2>1 DEF RowsFade, DoneIsNotQueued, Queued
    <2>2. ASSUME NEW n \in Notices, RowAdded(n) PROVE DoneIsNotQueued'
      BY <1>1, <2>2 DEF RowAdded, Valid, IsDue, Current, DoneIsNotQueued, Queued
    <2>3. QED
      BY <2>1, <2>2, StepOfRows
  <1>2. ASSUME NEW m \in Mailers, Acknowledge(m), ~UNCHANGED <<reminded, announced>>
        PROVE  DoneIsNotQueued'
    <2>1. ASSUME NEW r \in Queued'
          PROVE  r \in Queued /\ row'[r] = row[r] /\ row[r].notice.account # letter[m].account
      BY <1>2, MarkedNotice DEF Kept, NoRow, NewRow, Queued, OneRowPerAccount, Leased
    <2>2. ASSUME NEW a \in Accounts, a # letter[m].account
          PROVE  reminded'[a] = reminded[a] /\ announced'[a] = announced[a]
      <3>1. Mark(letter[m]) /\ letter[m] \in Notices
        BY <1>2, MarkedNotice
      <3>2. QED
        BY <2>2, <3>1, MarkEffect
    <2>3. ASSUME NEW r \in Queued PROVE row[r].notice.account \in Accounts
      BY DEF NoticeTypeOK, Rows, Notices, Queued
    <2>4. QED
      BY <2>1, <2>2, <2>3 DEF DoneIsNotQueued
  <1>3. QED
    BY <1>1, <1>2, OthersKeepMarks

LEMMA NoticeInvStep == NoticeInv /\ [NoticeNext]_vars => NoticeInv'
  BY NoticeTypeStep, MailersStep, OneRowStep, MarksStep, DoneStep DEF NoticeInv

\* Outbox, marks and mailers agree, whatever interleaves.
THEOREM NoticeInvariant == NoticeSpec => []NoticeInv
  BY InitNoticeInv, NoticeInvStep, PTL DEF NoticeSpec

-----------------------------------------------------------------------------
(* What the invariant gives. *)

\* The state keeps its shape: no row is claimed more often than allowed (0232:138).
THEOREM NoticesKeepTypes == NoticeSpec => []NoticeTypeOK
  <1>1. NoticeInv => NoticeTypeOK
    BY DEF NoticeInv
  <1>2. QED
    BY <1>1, NoticeInvariant, PTL

\* One mail is pending for an account, whatever producers queue (0232:107-113).
THEOREM NoticesAreSingle == NoticeSpec => []OneRowPerAccount
  <1>1. NoticeInv => OneRowPerAccount
    BY DEF NoticeInv
  <1>2. QED
    BY <1>1, NoticeInvariant, PTL

\* A flag tells of a notice that the relay took (0232:159-167).
THEOREM FlagsTellTheTruth == NoticeSpec => []MarksAreTrue
  <1>1. NoticeInv => MarksAreTrue
    BY DEF NoticeInv
  <1>2. QED
    BY <1>1, NoticeInvariant, PTL

\* What has been acknowledged is not pending again (0232:103-111, 171).
THEOREM NoticesAreNotRepeated == NoticeSpec => []DoneIsNotQueued
  <1>1. NoticeInv => DoneIsNotQueued
    BY DEF NoticeInv
  <1>2. QED
    BY <1>1, NoticeInvariant, PTL

\* The step form of ExpiryIsAnnounced for one account.
Ends(a) == status[a] # "expired" /\ status'[a] = "expired"

EndsRightly(a) ==
    \/ OperatorStatus(a, "expired")
    \/ /\ age[a] = "past" /\ announced'[a] = term[a]
       /\ [account |-> a, version |-> version[a], term |-> term[a], kind |-> "expired"]
            \in accepted

LEMMA AcknowledgedEnd ==
  ASSUME NoticeInv, NEW m \in Mailers, Acknowledge(m), NEW a \in Accounts, Ends(a)
  PROVE  EndsRightly(a)
  <1> NoticeTypeOK
    BY DEF NoticeInv
  <1> DEFINE n == letter[m]
  <1>1. Mark(n) /\ Counts(n) /\ n \in Notices /\ n \in accepted
    BY MarkedNotice DEF Ends
  <1> HIDE DEF n
  <1>2. a = n.account /\ n.kind = "expired" /\ age[a] = "past" /\ announced'[a] = n.term
    BY <1>1, MarkEffect DEF Ends
  <1>3. n = [account |-> a, version |-> version[a], term |-> term[a], kind |-> "expired"]
    BY <1>1, <1>2 DEF Counts, Current, Notices
  <1>4. term[a] = n.term
    BY <1>1, <1>2 DEF Counts, Current
  <1>5. QED
    BY <1>1, <1>2, <1>3, <1>4 DEF EndsRightly

LEMMA ChangeEnds ==
  ASSUME NoticeTypeOK, Change, NEW a \in Accounts, Ends(a) PROVE EndsRightly(a)
  <1> USE DEF NoticeTypeOK, Ends, accountFrame
  <1>1. ASSUME NEW o \in Accounts, Renew(o) \/ PaymentHold(o) \/ Login(o) \/ ChangeContact(o)
        PROVE  FALSE
    BY <1>1 DEF Renew, NewTerm, PaymentHold, Login, ChangeContact
  <1>2. ASSUME NEW o \in Accounts, NEW s \in {"active", "expired", "held"}, OperatorStatus(o, s)
        PROVE  o = a /\ s = "expired"
    BY <1>2 DEF OperatorStatus
  <1>3. QED
    BY <1>1, <1>2 DEF Change, EndsRightly

LEMMA EndStep ==
  ASSUME NoticeInv, [NoticeNext]_vars, NEW a \in Accounts, Ends(a) PROVE EndsRightly(a)
  <1> NoticeTypeOK
    BY DEF NoticeInv
  <1>1. CASE Mail
    BY <1>1, AcknowledgedEnd DEF Mail, Ends, Claim, Deliver, DeliverFails, Die, accountVars
  <1>2. CASE Produce \/ Time \/ UNCHANGED vars
    BY <1>2 DEF Produce, ListDue, DropCandidate, QueueNotice, Time, LeaseEnds, RetryDue, RowAges,
       Approach, Ends, accountVars, vars
  <1>3. QED
    BY <1>1, <1>2, ChangeEnds DEF NoticeNext

\* A membership that was renewed, held or readdressed while its notice was on
\* the way is not ended by the late acknowledgement (0232:160-170).
THEOREM ExpiryNeedsNotice == NoticeSpec => ExpiryIsAnnounced
  <1>1. NoticeInv /\ [NoticeNext]_vars => [\A a \in Accounts : Ends(a) => EndsRightly(a)]_vars
    BY EndStep
  <1>2. [\A a \in Accounts : Ends(a) => EndsRightly(a)]_vars <=>
        [\A a \in Accounts :
           status[a] # "expired" /\ status'[a] = "expired" =>
             \/ OperatorStatus(a, "expired")
             \/ /\ age[a] = "past" /\ announced'[a] = term[a]
                /\ [account |-> a, version |-> version[a], term |-> term[a], kind |-> "expired"]
                     \in accepted]_vars
    BY DEF Ends, EndsRightly
  <1>3. QED
    BY <1>1, <1>2, NoticeInvariant, PTL DEF NoticeSpec, ExpiryIsAnnounced

-----------------------------------------------------------------------------
(* Leases. *)

\* No lease reaches beyond the life of its row (0232:47, 144).
LiveIsYoung == \A r \in Requests : row[r].live => ~row[r].old

LEMMA KeptYoung ==
  ASSUME NoticeTypeOK, LiveIsYoung, NEW gone, row' = Kept(gone) PROVE LiveIsYoung'
  BY DEF NoticeTypeOK, LiveIsYoung, Kept, NoRow, NewRow

LEMMA ClaimedRow ==
  ASSUME NoticeTypeOK, NEW m \in Mailers, NEW r \in Queued,
         row' = [Kept(Outdated) EXCEPT ![r] =
           [row[r] EXCEPT !.holder = m, !.live = TRUE, !.tries = @ + 1]]
  PROVE  /\ row'[r].old = row[r].old
         /\ \A s \in Requests \ {r} : row'[s] = IF s \in Outdated THEN NoRow ELSE row[s]
  <1>1. row[r] \in Rows /\ r \in Requests
    BY DEF NoticeTypeOK, Queued
  <1>2. [row[r] EXCEPT !.holder = m, !.live = TRUE, !.tries = @ + 1].old = row[r].old
    BY <1>1 DEF Rows
  <1>3. QED
    BY <1>1, <1>2 DEF Kept

LEMMA YoungClaim ==
  ASSUME NoticeTypeOK, LiveIsYoung, NEW m \in Mailers, Claim(m) PROVE LiveIsYoung'
  <1>1. ASSUME NEW r \in Queued \ Outdated,
               row' = [Kept(Outdated) EXCEPT ![r] =
                 [row[r] EXCEPT !.holder = m, !.live = TRUE, !.tries = @ + 1]]
        PROVE  LiveIsYoung'
    <2>1. ~row'[r].old
      BY <1>1, ClaimedRow DEF Outdated, Queued, NoticeTypeOK, Rows
    <2>2. \A s \in Requests \ {r} : row'[s] = IF s \in Outdated THEN NoRow ELSE row[s]
      BY <1>1, ClaimedRow
    <2>3. QED
      BY <2>1, <2>2 DEF LiveIsYoung, NoRow, NewRow
  <1>2. QED
    BY <1>1, KeptYoung DEF Claim

LEMMA YoungStep == NoticeInv /\ LiveIsYoung /\ [NoticeNext]_vars => LiveIsYoung'
  <1> SUFFICES ASSUME NoticeInv, LiveIsYoung, [NoticeNext]_vars PROVE LiveIsYoung'
    OBVIOUS
  <1> NoticeTypeOK
    BY DEF NoticeInv
  <1>1. CASE UNCHANGED row
    BY <1>1 DEF LiveIsYoung
  <1>2. ASSUME NEW n \in Notices, QueueNotice(n) PROVE LiveIsYoung'
    <2>1. ASSUME NEW r \in Requests, row' = [Kept(Replaced(n)) EXCEPT ![r] = NewRow(n)]
          PROVE  LiveIsYoung'
      BY <2>1 DEF Kept, NewRow, NoRow, LiveIsYoung, NoticeTypeOK
    <2>2. QED
      BY <1>2, <2>1, <1>1, KeptYoung DEF QueueNotice
  <1>3. ASSUME NEW m \in Mailers, Acknowledge(m) PROVE LiveIsYoung'
    <2>1. CASE Leased(m) /\ phase[m] = "refused"
      <3>1. job[m] \in Requests /\ row[job[m]] \in Rows
        BY <2>1 DEF Leased, Queued, NoticeTypeOK
      <3>2. ~row'[job[m]].live
        <4>1. row'[job[m]] =
                [row[job[m]] EXCEPT !.holder = Nobody, !.live = FALSE, !.waiting = TRUE]
          BY <1>3, <2>1, <3>1 DEF Acknowledge, NoticeTypeOK
        <4>2. QED
          BY <3>1, <4>1 DEF Rows
      <3>3. QED
        BY <1>3, <2>1, <3>1, <3>2 DEF Acknowledge, NoticeTypeOK, LiveIsYoung
    <2>2. QED
      BY <1>3, <2>1, <1>1, KeptYoung DEF Acknowledge
  <1>4. ASSUME NEW r \in Requests, LeaseEnds(r) \/ RetryDue(r) \/ RowAges(r) PROVE LiveIsYoung'
    <2>1. row[r] \in Rows
      BY DEF NoticeTypeOK
    <2>2. ~row'[r].live \/ (row'[r].live = row[r].live /\ row'[r].old = row[r].old)
      <3>1. CASE LeaseEnds(r) \/ RowAges(r)
        BY <2>1, <3>1 DEF LeaseEnds, RowAges, NoticeTypeOK, Rows
      <3>2. CASE RetryDue(r)
        BY <2>1, <3>2 DEF RetryDue, NoticeTypeOK, Rows
      <3>3. QED
        BY <1>4, <3>1, <3>2
    <2>3. QED
      BY <1>4, <2>2 DEF LeaseEnds, RetryDue, RowAges, NoticeTypeOK, LiveIsYoung
  <1>5. CASE Produce
    BY <1>1, <1>2, <1>5 DEF Produce, ListDue, DropCandidate
  <1>6. CASE Mail
    BY <1>1, <1>3, <1>6, YoungClaim DEF Mail, Deliver, DeliverFails, Die
  <1>7. CASE Time
    BY <1>1, <1>4, <1>7 DEF Time, Approach
  <1>8. QED
    BY <1>1, <1>5, <1>6, <1>7, ChangeKeepsRows DEF NoticeNext, vars

LEMMA YoungInvariant == NoticeSpec => [](NoticeInv /\ LiveIsYoung)
  <1>1. NoticeInit => LiveIsYoung
    BY DEF NoticeInit, LiveIsYoung, NoRow, NewRow
  <1>2. QED
    BY <1>1, InitNoticeInv, NoticeInvStep, YoungStep, PTL DEF NoticeSpec

\* How a lease may be lost, for one mailer.
LosesRightly(m) ==
    \/ job'[m] # job[m]
    \/ LeaseEnds(job[m]) \/ RowAges(job[m])
    \/ ~Valid(letter[m])

LEMMA LeasedMailer ==
  ASSUME NoticeInv, NEW m \in Mailers, Leased(m)
  PROVE  /\ phase[m] # "idle" /\ job[m] \in Requests /\ row[job[m]].notice = letter[m]
         /\ letter[m] \in Notices /\ row[job[m]] \in Rows
  BY NoticeAssumption DEF NoticeInv, MailerInv, NoticeTypeOK, Leased, Queued

LEMMA OneValid ==
  ASSUME NEW n \in Notices, NEW o \in Notices, n.account = o.account, Valid(n), Valid(o)
  PROVE  n = o
  BY DEF Notices, Kinds, Valid, Current, IsDue

LEMMA LeaseStep ==
  ASSUME NoticeInv, LiveIsYoung, [NoticeNext]_vars, NEW m \in Mailers,
         Leased(m), ~LosesRightly(m)
  PROVE  Leased(m)'
  <1> DEFINE r == job[m]
  <1>1. /\ phase[m] # "idle" /\ r \in Requests /\ row[r].notice = letter[m]
        /\ letter[m] \in Notices /\ row[r] \in Rows /\ Valid(letter[m]) /\ job'[m] = r
        /\ row[r].holder = m /\ row[r].live /\ ~row[r].old /\ r \in Queued
    BY LeasedMailer DEF LosesRightly, LiveIsYoung, Leased
  <1>2. NoticeTypeOK
    BY DEF NoticeInv
  <1>3. r \notin Outdated
    BY <1>1 DEF Outdated
  <1> HIDE DEF r
  <1>4. SUFFICES row'[r].holder = m /\ row'[r].live /\ row'[r].notice # NoNotice
    BY <1>1 DEF Leased, Queued
  <1>5. ASSUME row'[r] = row[r]
        PROVE  row'[r].holder = m /\ row'[r].live /\ row'[r].notice # NoNotice
    BY <1>1, <1>5, NullAssumption
  <1>6. ASSUME NEW n \in Notices, QueueNotice(n) PROVE row'[r] = row[r]
    <2>1. CASE ~Valid(n)
      BY <1>6, <2>1 DEF QueueNotice
    <2>2. CASE Valid(n)
      <3>1. r \notin Replaced(n)
        BY <1>1, <2>2, OneValid DEF Replaced
      <3>2. \A s : Fresh(s) => s # r
        BY <1>1, NullAssumption DEF Fresh
      <3>3. QED
        BY <1>1, <1>6, <2>2, <3>1, <3>2 DEF QueueNotice, Kept
    <2>3. QED
      BY <2>1, <2>2
  <1>7. ASSUME NEW o \in Mailers, Claim(o) PROVE row'[r] = row[r]
    <2>1. ~Claimable(r)
      BY <1>1 DEF Claimable
    <2>2. QED
      BY <1>1, <1>3, <1>7, <2>1, <1>2, ClaimedRow DEF Claim, Kept
  <1>8. ASSUME NEW o \in Mailers, Acknowledge(o) PROVE row'[r] = row[r]
    <2>1. CASE o = m
      BY <1>1, <1>2, <1>8, <2>1, NoticeAssumption DEF Acknowledge, Idle, NoticeTypeOK
    <2>2. CASE o # m
      <3>1. Leased(o) => job[o] # r
        BY <1>1, <2>2 DEF Leased
      <3>2. QED
        BY <1>1, <1>2, <1>8, <3>1 DEF Acknowledge, Kept, NoticeTypeOK
    <2>3. QED
      BY <2>1, <2>2
  <1>9. CASE Produce
    BY <1>5, <1>6, <1>9 DEF Produce, ListDue, DropCandidate
  <1>10. CASE Mail
    BY <1>5, <1>7, <1>8, <1>10 DEF Mail, Deliver, DeliverFails, Die
  <1>11. CASE Time
    <2>1. ASSUME NEW s \in Requests, LeaseEnds(s) \/ RowAges(s) PROVE row'[r] = row[r]
      <3>1. s # r
        BY <2>1 DEF LosesRightly, r
      <3>2. QED
        BY <1>1, <1>2, <2>1, <3>1 DEF LeaseEnds, RowAges, NoticeTypeOK
    <2>2. ASSUME NEW s \in Requests, RetryDue(s)
          PROVE  row'[r].holder = m /\ row'[r].live /\ row'[r].notice # NoNotice
      <3>1. CASE s # r
        BY <1>1, <1>2, <1>5, <2>2, <3>1 DEF RetryDue, NoticeTypeOK
      <3>2. CASE s = r
        <4>1. row'[r] = [row[r] EXCEPT !.waiting = FALSE]
          BY <1>1, <1>2, <2>2, <3>2 DEF RetryDue, NoticeTypeOK
        <4>2. QED
          BY <1>1, <4>1, NullAssumption DEF Rows
      <3>3. QED
        BY <3>1, <3>2
    <2>3. QED
      BY <1>5, <1>11, <2>1, <2>2 DEF Time, Approach
  <1>12. QED
    BY <1>5, <1>9, <1>10, <1>11, ChangeKeepsRows DEF NoticeNext, vars

\* No other mailer and no producer takes a live lease away (0232:105-111, 135-147).
THEOREM LeasesAreKept == NoticeSpec => LeaseIsKept
  <1>1. NoticeInv /\ LiveIsYoung /\ [NoticeNext]_vars =>
        [\A m \in Mailers : Leased(m) /\ ~Leased(m)' =>
            \/ job'[m] # job[m]
            \/ LeaseEnds(job[m]) \/ RowAges(job[m])
            \/ ~Valid(letter[m])]_vars
    BY LeaseStep DEF LosesRightly
  <1>2. QED
    BY <1>1, YoungInvariant, PTL DEF NoticeSpec, LeaseIsKept
=============================================================================
