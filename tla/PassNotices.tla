---------------------------- MODULE PassNotices ----------------------------
\* Expiry notices of pass memberships: a producer lists the accounts that are
\* due and queues one encrypted mail each (migrations/0232, board-pass-notices),
\* mailers claim a mail under a lease, hand it to the relay outside any
\* transaction and acknowledge it (apps/verification-mailer). Meanwhile the
\* account may be renewed, held, or given another address. The acknowledgement
\* of the last notice is what marks the account as expired.
\*
\* Every database function takes the row of pass_policy first, so each is one
\* step. Renewals only ever extend the expiry: terms are numbered, and the age
\* of the current term says how far its expiry is (0232:67-70).
EXTENDS Integers, FiniteSets

CONSTANTS
    Accounts,       \* rows of pass_entitlements
    Requests,       \* identifiers of outbox rows
    Mailers,        \* processes running verification-mailer --once
    Nobody,         \* lease_hash IS NULL
    NoNotice,       \* no row, or a mailer without a job
    MaxTerms,       \* bound: renewals of an account
    MaxVersions,    \* bound: changes of its address
    MaxAttempts,    \* 60 in the code
    OutboxLimit     \* pass_policy.mail_outbox_limit

ASSUME NoticeAssumption ==
    /\ Nobody \notin Mailers
    /\ NoNotice \notin Requests
    /\ MaxTerms \in Nat \ {0} /\ MaxVersions \in Nat \ {0} /\ MaxAttempts \in Nat \ {0}
    /\ OutboxLimit \in Nat \ {0}

VARIABLES
    status,         \* pass_entitlements.status
    term,           \* number of the expires_at, 0 for NULL
    age,            \* of the current term: more than a week left, less, over
    version,        \* pass_contacts.version, 0 without a contact
    reminded,       \* pass_contacts.reminded_expiry, a term
    announced,      \* pass_contacts.expired_expiry, a term
    candidates,     \* notices that some producer has listed and still holds
    row,            \* pass_mail_outbox
    job,            \* the request each mailer works on
    letter,         \* the notice it has in hand, whatever becomes of the row
    phase,          \* how far it is with it
    accepted        \* notices that the relay has taken

accountVars == <<status, term, age, version>>
vars == <<status, term, age, version, reminded, announced, candidates, row, job, letter, phase,
          accepted>>
mailerVars == <<job, letter, phase>>

\* 0 active, 1 expired, 2-5 refunded, disputed or revoked, 6 new, 7 delayed.
Statuses == {"active", "expired", "held", "new", "delayed"}
Ages == {"far", "soon", "past"}
Terms == 0..MaxTerms
Kinds == {"reminder", "expired"}
Notices == [account : Accounts, version : 1..MaxVersions, term : 1..MaxTerms, kind : Kinds]
Phases == {"idle", "claimed", "sent", "refused"}

Rows == [notice : Notices \cup {NoNotice}, holder : Mailers \cup {Nobody}, live : BOOLEAN,
         tries : 0..MaxAttempts, waiting : BOOLEAN, old : BOOLEAN]

ASSUME NullAssumption == NoNotice \notin Notices

\* A row as it is inserted; NoRow stands for its absence.
NewRow(n) == [notice |-> n, holder |-> Nobody, live |-> FALSE, tries |-> 0,
              waiting |-> FALSE, old |-> FALSE]
NoRow == NewRow(NoNotice)

Queued == {r \in Requests : row[r].notice # NoNotice}

\* A membership is created active, new or delayed, with any expiry.
NoticeInit ==
    /\ status \in [Accounts -> {"active", "new", "delayed"}]
    /\ term = [a \in Accounts |-> IF status[a] = "delayed" THEN 0 ELSE 1]
    /\ age \in [Accounts -> Ages]
    /\ \A a \in Accounts : term[a] = 0 => age[a] = "far"
    /\ version \in [Accounts -> {0, 1}]
    /\ reminded = [a \in Accounts |-> 0]
    /\ announced = [a \in Accounts |-> 0]
    /\ candidates = {}
    /\ row = [r \in Requests |-> NoRow]
    /\ job = [m \in Mailers |-> NoNotice]
    /\ letter = [m \in Mailers |-> NoNotice]
    /\ phase = [m \in Mailers |-> "idle"]
    /\ accepted = {}

\* The notice that the account is due for, if any.
Served(a) == status[a] \in {"active", "new"} /\ term[a] # 0

IsDue(a, k) ==
    /\ Served(a) /\ announced[a] # term[a]
    /\ \/ k = "expired" /\ age[a] = "past"
       \/ k = "reminder" /\ age[a] = "soon" /\ reminded[a] # term[a]

Current(n) == version[n.account] = n.version /\ term[n.account] = n.term

\* A notice that may be queued, claimed and sent.
Valid(n) == Current(n) /\ IsDue(n.account, n.kind)

-----------------------------------------------------------------------------
\* The producer.

\* Rows that are over do not hide a candidate.
ListDue ==
    /\ candidates' = candidates \cup
         {n \in Notices : Valid(n) /\ \A r \in Requests : row[r].notice = n => row[r].old}
    /\ UNCHANGED <<accountVars, reminded, announced, row, mailerVars, accepted>>

\* The last producer that holds a candidate has queued it, could not make its
\* envelope, or ends.
DropCandidate(n) ==
    /\ n \in candidates
    /\ candidates' = candidates \ {n}
    /\ UNCHANGED <<accountVars, reminded, announced, row, mailerVars, accepted>>

\* No mailer remembers the identifier: identifiers are random.
Fresh(r) == row[r].notice = NoNotice /\ \A m \in Mailers : job[m] # r

\* Rows that queueing n removes: what is over, and other notices of the account.
Replaced(n) == {r \in Queued :
    \/ row[r].old
    \/ row[r].notice.account = n.account /\ row[r].notice # n}

Kept(gone) == [r \in Requests |-> IF r \in gone THEN NoRow ELSE row[r]]

\* Fault: what was listed is queued without another look.
QueueListed(n) ==
    /\ n \in candidates
    /\ IF \E r \in Queued \ Replaced(n) : row[r].notice = n THEN row' = Kept(Replaced(n))
       ELSE \E r \in Requests :
              /\ Fresh(r)
              /\ row' = [Kept(Replaced(n)) EXCEPT ![r] = NewRow(n)]
    /\ UNCHANGED <<accountVars, reminded, announced, candidates, mailerVars, accepted>>

\* A stale candidate is refused and changes nothing. A pending notice is not
\* doubled and a full outbox takes nothing, but what was removed stays removed.
\* The candidate is kept, as another producer may have listed it too.
QueueNotice(n) ==
    LET gone == Replaced(n)
        left == Queued \ gone
    IN
    /\ n \in candidates
    /\ IF ~Valid(n) THEN UNCHANGED row
       ELSE IF (\E r \in left : row[r].notice = n) \/ Cardinality(left) >= OutboxLimit
       THEN row' = Kept(gone)
       ELSE \E r \in Requests :
              /\ Fresh(r)
              /\ row' = [Kept(gone) EXCEPT ![r] = NewRow(n)]
    /\ UNCHANGED <<accountVars, reminded, announced, candidates, mailerVars, accepted>>

-----------------------------------------------------------------------------
\* The mailers: claim, deliver outside any transaction, acknowledge.

Idle(m) ==
    /\ job' = [job EXCEPT ![m] = NoNotice]
    /\ letter' = [letter EXCEPT ![m] = NoNotice]
    /\ phase' = [phase EXCEPT ![m] = "idle"]

Outdated == {r \in Queued : row[r].old \/ ~Valid(row[r].notice)}

\* Fault: a leased row can be claimed.
ClaimableLeased(r) == ~row[r].waiting /\ row[r].tries < MaxAttempts

Claimable(r) == ~row[r].waiting /\ ~row[r].live /\ row[r].tries < MaxAttempts

\* Every claim first removes what is over or overtaken, leased or not.
Claim(m) ==
    LET ready == {r \in Queued \ Outdated : Claimable(r)} IN
    /\ phase[m] = "idle"
    /\ IF ready = {} THEN row' = Kept(Outdated) /\ UNCHANGED mailerVars
       ELSE \E r \in ready :
              /\ row' = [Kept(Outdated) EXCEPT ![r] =
                   [row[r] EXCEPT !.holder = m, !.live = TRUE, !.tries = @ + 1]]
              /\ job' = [job EXCEPT ![m] = r]
              /\ letter' = [letter EXCEPT ![m] = row[r].notice]
              /\ phase' = [phase EXCEPT ![m] = "claimed"]
    /\ UNCHANGED <<accountVars, reminded, announced, candidates, accepted>>

\* The relay takes the mail and its reply arrives.
Deliver(m) ==
    /\ phase[m] = "claimed"
    /\ accepted' = accepted \cup {letter[m]}
    /\ phase' = [phase EXCEPT ![m] = "sent"]
    /\ UNCHANGED <<accountVars, reminded, announced, candidates, row, job, letter>>

\* Anything else counts as refused, a mail whose final reply is lost included.
DeliverFails(m) ==
    /\ phase[m] = "claimed"
    /\ accepted' \in {accepted, accepted \cup {letter[m]}}
    /\ phase' = [phase EXCEPT ![m] = "refused"]
    /\ UNCHANGED <<accountVars, reminded, announced, candidates, row, job, letter>>

\* The lease of the mailer's own claim.
Leased(m) == job[m] \in Queued /\ row[job[m]].holder = m /\ row[job[m]].live

\* The flags of an acknowledged notice, and the end of the membership with them.
Mark(n) ==
    /\ reminded' = [reminded EXCEPT ![n.account] = IF n.kind = "reminder" THEN n.term ELSE @]
    /\ announced' = [announced EXCEPT ![n.account] = IF n.kind = "expired" THEN n.term ELSE @]
    /\ status' = [status EXCEPT ![n.account] =
         IF n.kind = "expired" /\ age[n.account] = "past" THEN "expired" ELSE @]

\* Fault: the address and the expiry of the account are not compared.
CountsLoosely(n) == Served(n.account)

\* Whether the acknowledged notice is still about the account as it is.
Counts(n) == Current(n) /\ Served(n.account)

\* Fault: a sent mail leaves no mark.
AcknowledgeUnmarked(m) ==
    /\ phase[m] # "idle" /\ phase[m] # "claimed"
    /\ IF Leased(m) THEN row' = Kept({job[m]}) ELSE UNCHANGED row
    /\ Idle(m)
    /\ UNCHANGED <<accountVars, reminded, announced, candidates, accepted>>

\* Success removes the row even when the notice no longer counts. Without the
\* lease nothing changes.
Acknowledge(m) ==
    /\ phase[m] \in {"sent", "refused"}
    /\ IF ~Leased(m) THEN UNCHANGED <<row, reminded, announced, status>>
       ELSE IF phase[m] = "refused"
       THEN /\ row' = [row EXCEPT ![job[m]] = [@ EXCEPT !.holder = Nobody, !.live = FALSE, !.waiting = TRUE]]
            /\ UNCHANGED <<reminded, announced, status>>
       ELSE /\ row' = Kept({job[m]})
            /\ IF Counts(letter[m]) THEN Mark(letter[m])
               ELSE UNCHANGED <<reminded, announced, status>>
    /\ Idle(m)
    /\ UNCHANGED <<term, age, version, candidates, accepted>>

\* The process ends, or cannot reach the database to acknowledge.
Die(m) ==
    /\ phase[m] # "idle"
    /\ Idle(m)
    /\ UNCHANGED <<accountVars, reminded, announced, candidates, row, accepted>>

-----------------------------------------------------------------------------
\* Time.

LeaseEnds(r) ==
    /\ row[r].live
    /\ row' = [row EXCEPT ![r] = [@ EXCEPT !.live = FALSE]]
    /\ UNCHANGED <<accountVars, reminded, announced, candidates, mailerVars, accepted>>

RetryDue(r) ==
    /\ row[r].waiting
    /\ row' = [row EXCEPT ![r] = [@ EXCEPT !.waiting = FALSE]]
    /\ UNCHANGED <<accountVars, reminded, announced, candidates, mailerVars, accepted>>

\* An hour after the insertion; no lease reaches further.
RowAges(r) ==
    /\ r \in Queued /\ ~row[r].old
    /\ row' = [row EXCEPT ![r] = [@ EXCEPT !.old = TRUE, !.live = FALSE]]
    /\ UNCHANGED <<accountVars, reminded, announced, candidates, mailerVars, accepted>>

Approach(a) ==
    /\ term[a] # 0 /\ age[a] # "past"
    /\ age' = [age EXCEPT ![a] = IF @ = "far" THEN "soon" ELSE "past"]
    /\ UNCHANGED <<status, term, version, reminded, announced, candidates, row, mailerVars, accepted>>

-----------------------------------------------------------------------------
\* What the holder, the operator and the payment provider do meanwhile.

accountFrame == <<version, reminded, announced, candidates, row, mailerVars, accepted>>

NewTerm(a, s, g) ==
    /\ term[a] < MaxTerms
    /\ status' = [status EXCEPT ![a] = s]
    /\ term' = [term EXCEPT ![a] = @ + 1]
    /\ age' = [age EXCEPT ![a] = g]
    /\ UNCHANGED accountFrame

\* Always beyond the current expiry and in the future, whatever the status.
Renew(a) == \E g \in {"far", "soon"} : NewTerm(a, "active", g)

OperatorStatus(a, s) ==
    /\ term[a] # 0
    /\ status' = [status EXCEPT ![a] = s]
    /\ UNCHANGED <<term, age, accountFrame>>

\* A refund or a dispute; one that was never used gets an expiry with it.
PaymentHold(a) ==
    /\ status[a] # "held"
    /\ IF term[a] = 0 THEN NewTerm(a, "held", "past")
       ELSE status' = [status EXCEPT ![a] = "held"] /\ UNCHANGED <<term, age, accountFrame>>

\* The first login activates a membership, and starts a delayed one.
Login(a) ==
    \/ status[a] = "new" /\ status' = [status EXCEPT ![a] = "active"]
       /\ UNCHANGED <<term, age, accountFrame>>
    \/ status[a] = "delayed" /\ NewTerm(a, "active", "far")

\* A first address, or another one; the flags stay.
ChangeContact(a) ==
    /\ version[a] < MaxVersions
    /\ version' = [version EXCEPT ![a] = @ + 1]
    /\ UNCHANGED <<status, term, age, reminded, announced, candidates, row, mailerVars, accepted>>

-----------------------------------------------------------------------------
Produce == ListDue \/ \E n \in Notices : DropCandidate(n) \/ QueueNotice(n)

Mail == \E m \in Mailers :
    Claim(m) \/ Deliver(m) \/ DeliverFails(m) \/ Acknowledge(m) \/ Die(m)

Time ==
    \/ \E r \in Requests : LeaseEnds(r) \/ RetryDue(r) \/ RowAges(r)
    \/ \E a \in Accounts : Approach(a)

Change == \E a \in Accounts :
    \/ Renew(a) \/ PaymentHold(a) \/ Login(a) \/ ChangeContact(a)
    \/ \E s \in {"active", "expired", "held"} : OperatorStatus(a, s)

NoticeNext == Produce \/ Mail \/ Time \/ Change

NoticeSpec == NoticeInit /\ [][NoticeNext]_vars

-----------------------------------------------------------------------------
\* What the notices promise.

\* Shapes and limits of the state: no row is tried more often than allowed.
NoticeTypeOK ==
    /\ status \in [Accounts -> Statuses] /\ term \in [Accounts -> Terms]
    /\ age \in [Accounts -> Ages] /\ version \in [Accounts -> 0..MaxVersions]
    /\ reminded \in [Accounts -> Terms] /\ announced \in [Accounts -> Terms]
    /\ candidates \subseteq Notices /\ accepted \subseteq Notices
    /\ row \in [Requests -> Rows]
    /\ job \in [Mailers -> Requests \cup {NoNotice}]
    /\ letter \in [Mailers -> Notices \cup {NoNotice}]
    /\ phase \in [Mailers -> Phases]

\* However often producers list and queue, an account has one mail pending: a
\* reminder goes when the expiry notice comes, and a row for an old address or
\* a renewed expiry goes when the account is queued again (0232:107-111).
OneRowPerAccount == \A r, s \in Queued :
    row[r].notice.account = row[s].notice.account => r = s

Told(a, k, t) == \E n \in accepted : n.account = a /\ n.kind = k /\ n.term = t

\* A flag that stops further notices is set only after the relay took a notice
\* of that kind for that expiry: a failure or a lost lease sets none (0232:161).
MarksAreTrue == \A a \in Accounts :
    /\ reminded[a] # 0 => Told(a, "reminder", reminded[a])
    /\ announced[a] # 0 => Told(a, "expired", announced[a])

\* A notice that has been acknowledged is never pending again, even when a
\* producer still holds the candidate it listed before (0232:103-106).
DoneIsNotQueued == \A r \in Queued : LET n == row[r].notice IN
    IF n.kind = "expired" THEN announced[n.account] # n.term ELSE reminded[n.account] # n.term

\* A mailer at work knows the notice of its row for as long as the row lasts.
MailerInv(m) ==
    /\ phase[m] = "idle" => job[m] = NoNotice
    /\ phase[m] # "idle" =>
         /\ job[m] \in Requests /\ letter[m] \in Notices
         /\ job[m] \in Queued => row[job[m]].notice = letter[m]
    /\ phase[m] = "sent" => letter[m] \in accepted

\* The inductive invariant: outbox, marks and mailers tell the same story.
NoticeInv ==
    /\ NoticeTypeOK
    /\ \A m \in Mailers : MailerInv(m)
    /\ OneRowPerAccount
    /\ MarksAreTrue
    /\ DoneIsNotQueued

\* Besides the operator, only the acknowledgement of the expiry notice for the
\* present expiry, mailed to the present address, ends a membership, and never
\* before its time: not for one renewed or readdressed meanwhile (0232:160-170).
ExpiryIsAnnounced == [][\A a \in Accounts :
    status[a] # "expired" /\ status'[a] = "expired" =>
        \/ OperatorStatus(a, "expired")
        \/ /\ age[a] = "past" /\ announced'[a] = term[a]
           /\ [account |-> a, version |-> version[a], term |-> term[a], kind |-> "expired"]
                \in accepted]_vars

\* A mailer with a lease loses it by its own acknowledgement or end, by time, or
\* because the account is no longer due for this notice; never to another
\* mailer, nor to a producer that queues again (0232:105-111, 135-147, 158).
LeaseIsKept == [][\A m \in Mailers :
    Leased(m) /\ ~Leased(m)' =>
        \/ job'[m] # job[m]
        \/ LeaseEnds(job[m]) \/ RowAges(job[m])
        \/ ~Valid(letter[m])]_vars

-----------------------------------------------------------------------------
\* Fairness. A timer starts a mailer each minute while a row stays for an hour; a
\* delivery takes at most five seconds of a lease of sixty, so it is timely
\* whenever the process lives, and the relay takes mail again and again. That
\* the producer is run again and again is left to the operator: the repository
\* deploys no timer for it.

TimelyClaim(m) == Claim(m) /\ job'[m] # NoNotice
TimelyDelivery(m) == Leased(m) /\ Deliver(m)
TimelyAcknowledgement(m) == Leased(m) /\ phase[m] = "sent" /\ Acknowledge(m)

NoticeLive ==
    /\ NoticeSpec
    /\ SF_vars(ListDue)
    /\ \A n \in Notices : SF_vars(QueueNotice(n))
    /\ \A m \in Mailers :
         /\ WF_vars(Claim(m)) /\ WF_vars(Deliver(m) \/ DeliverFails(m)) /\ WF_vars(Acknowledge(m))
         /\ SF_vars(TimelyClaim(m)) /\ SF_vars(TimelyDelivery(m)) /\ SF_vars(TimelyAcknowledgement(m))
    /\ \A r \in Requests : WF_vars(LeaseEnds(r)) /\ WF_vars(RetryDue(r)) /\ WF_vars(RowAges(r))

\* A membership that is over does not stay unannounced: mails that are refused,
\* mailers that die and rows out of attempts only delay it (0232:75-92, 116-176).
ExpiryIsSettled == \A a \in Accounts :
    IsDue(a, "expired") /\ version[a] # 0 ~> ~IsDue(a, "expired")
=============================================================================
