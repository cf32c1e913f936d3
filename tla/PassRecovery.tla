---------------------------- MODULE PassRecovery ----------------------------
\* The one-use links that set the PIN of a membership (migrations/0233). A
\* recovery request takes a snapshot of the account, seals a letter outside any
\* transaction, and queues it if the snapshot still holds; a completed purchase
\* queues a letter of its own (PassCheckout). Mailers claim a letter under a
\* lease, hand it to the relay, and report back; whoever reads the letter may
\* then follow its link. Meanwhile the account gets another status, PIN or
\* address, each of which must make outstanding links worthless.
\*
\* Every function takes the row of pass_policy first, so each is one step.
EXTENDS Integers, FiniteSets

CONSTANTS
    Accounts,       \* rows of pass_entitlements, present or yet to be inserted
    Tickets,        \* identifiers of recovery attempts
    Links,          \* random tokens; the letter's request_id is derived from it
    Mailers,        \* processes running verification-mailer --once
    Nobody,         \* lease_hash IS NULL
    NoAccount,      \* entitlement_id IS NULL
    NoLetter,       \* no row, or a mailer without a job
    RecoveryLimit,  \* pass_policy.recovery_limit
    MaxAttempts,    \* 30 in the code
    MaxContacts,    \* bound: addresses of an account
    MaxChanges      \* bound: credential version from which the operator rests

ASSUME RecoveryAssumption ==
    /\ Nobody \notin Mailers /\ NoAccount \notin Accounts /\ IsFiniteSet(Accounts)
    /\ RecoveryLimit \in Nat \ {0} /\ MaxAttempts \in Nat \ {0}
    /\ MaxContacts \in Nat \ {0} /\ MaxChanges \in Nat \ {0}

VARIABLES
    pin,            \* pass_entitlements.credential_version, 0 without a row
    contact,        \* pass_contacts.version, 0 without a row
    attempt,        \* pass_recovery_attempts
    row,            \* pass_recoveries, whose entitlement_id is UNIQUE
    held,           \* the letter each mailer has in hand
    phase,          \* how far it is with it
    inbox           \* letters that the relay has taken

recoveryVars == <<pin, contact, attempt, row, held, phase, inbox>>
mailerVars == <<held, phase>>

\* A letter carries its link; the account and the versions are the columns
\* stored with it.
Letters == [link : Links, account : Accounts, pin : Nat \ {0}, contact : 1..MaxContacts]

ASSUME NoLetterAssumption == NoLetter \notin Letters

\* created_at: less than 30 seconds ago, less than an hour, more.
Ages == {"fresh", "stale", "over"}
Phases == {"idle", "claimed", "sent", "refused"}

\* "pending" as long as the attempt may queue a letter for its account.
Attempts == [account : Accounts \cup {NoAccount}, pin : Nat, contact : 0..MaxContacts,
             age : Ages, pending : BOOLEAN, present : BOOLEAN]
NoAttempt == [account |-> NoAccount, pin |-> 0, contact |-> 0,
              age |-> "over", pending |-> FALSE, present |-> FALSE]

Rows == [letter : Letters \cup {NoLetter}, delivered : BOOLEAN, used : BOOLEAN,
         tries : 0..MaxAttempts, holder : Mailers \cup {Nobody}, live : BOOLEAN,
         waiting : BOOLEAN, over : BOOLEAN]
NewRow(m) == [letter |-> m, delivered |-> FALSE, used |-> FALSE, tries |-> 0,
              holder |-> Nobody, live |-> FALSE, waiting |-> FALSE, over |-> FALSE]
NoRow == NewRow(NoLetter)

Known(a) == pin[a] > 0
Queued == {a \in Accounts : row[a].letter # NoLetter}

\* Memberships that the operator created, with or without an address.
RecoveryInit ==
    /\ pin \in [Accounts -> {0, 1}]
    /\ contact \in [Accounts -> {0, 1}]
    /\ \A a \in Accounts : contact[a] > 0 => pin[a] > 0
    /\ attempt = [t \in Tickets |-> NoAttempt]
    /\ row = [a \in Accounts |-> NoRow]
    /\ held = [m \in Mailers |-> NoLetter]
    /\ phase = [m \in Mailers |-> "idle"]
    /\ inbox = {}

\* A random token that no letter has, wherever it is.
FreshLink(k) ==
    /\ \A a \in Accounts : row[a].letter # NoLetter => row[a].letter.link # k
    /\ \A m \in Mailers : held[m] # NoLetter => held[m].link # k
    /\ \A i \in inbox : i.link # k

NewLetter(k, a, p, c) == [link |-> k, account |-> a, pin |-> p, contact |-> c]

-----------------------------------------------------------------------------
\* Requests.

\* Fault: only letters that were used make room.
KeptRowsUnused == [a \in Accounts |-> IF row[a].over /\ row[a].used THEN NoRow ELSE row[a]]

KeptAttempts == [t \in Tickets |-> IF attempt[t].age = "over" THEN NoAttempt ELSE attempt[t]]
KeptRows == [a \in Accounts |-> IF row[a].over THEN NoRow ELSE row[a]]

\* Every request removes what is over. That is all when its network or address
\* asks too often, or when a table is full: this is the only place where rows of
\* pass_recoveries go away without a successor.
RefuseRecovery ==
    /\ attempt' = KeptAttempts
    /\ row' = KeptRows
    /\ UNCHANGED <<pin, contact, mailerVars, inbox>>

\* The same account and address a minute ago.
Flooded(a) == \E t \in Tickets :
    attempt[t].account = a /\ attempt[t].contact = contact[a] /\ attempt[t].age = "fresh"

\* An identifier and an address that belong together, or not (NoAccount): both
\* get the same answer and a row.
BeginRecovery(t, a) ==
    /\ ~attempt[t].present
    /\ a # NoAccount => contact[a] > 0 /\ ~Flooded(a)
    /\ Cardinality({u \in Tickets : KeptAttempts[u].present}) < RecoveryLimit
    /\ Cardinality({b \in Queued : ~row[b].over}) < RecoveryLimit
    /\ attempt' = [KeptAttempts EXCEPT ![t] =
         [account |-> a, pin |-> IF a = NoAccount THEN 0 ELSE pin[a],
          contact |-> IF a = NoAccount THEN 0 ELSE contact[a],
          age |-> "fresh", pending |-> a # NoAccount, present |-> TRUE]]
    /\ row' = KeptRows
    /\ UNCHANGED <<pin, contact, mailerVars, inbox>>

\* The account is as the attempt found it.
Unchanged(t) ==
    /\ pin[attempt[t].account] = attempt[t].pin
    /\ contact[attempt[t].account] = attempt[t].contact

\* The sealed letter replaces the account's previous one. A late, repeated or
\* overtaken call changes nothing, nor does one that finds the table full.
QueueRecovery(t) ==
    LET a == attempt[t].account IN
    /\ attempt[t].present /\ attempt[t].pending /\ attempt[t].age = "fresh"
    /\ Unchanged(t)
    /\ a \in Queued \/ Cardinality(Queued) < RecoveryLimit
    /\ \E k \in Links :
         /\ FreshLink(k)
         /\ row' = [row EXCEPT ![a] = NewRow(NewLetter(k, a, attempt[t].pin, attempt[t].contact))]
    /\ attempt' = [attempt EXCEPT ![t].pending = FALSE]
    /\ UNCHANGED <<pin, contact, mailerVars, inbox>>

\* Fault: the address the letter went to is not compared.
OpenForReader(a) ==
    /\ ~row[a].used /\ row[a].delivered /\ ~row[a].over
    /\ row[a].letter.pin = pin[a]

\* Whether the link in the account's row may set the PIN.
Open(a) ==
    /\ ~row[a].used /\ row[a].delivered /\ ~row[a].over
    /\ row[a].letter.pin = pin[a] /\ row[a].letter.contact = contact[a]

\* Somebody who has read a letter follows its link and chooses a PIN. The page
\* checks the link first and hashes the PIN; only the second look counts.
CompleteRecovery(i) ==
    LET a == i.account IN
    /\ i \in inbox
    /\ a \in Queued /\ row[a].letter.link = i.link /\ Open(a)
    /\ row' = [row EXCEPT ![a].used = TRUE]
    /\ pin' = [pin EXCEPT ![a] = @ + 1]
    /\ UNCHANGED <<contact, attempt, mailerVars, inbox>>

-----------------------------------------------------------------------------
\* Mailers.

Idle(m) ==
    /\ held' = [held EXCEPT ![m] = NoLetter]
    /\ phase' = [phase EXCEPT ![m] = "idle"]

ClaimMail(m, a) ==
    /\ phase[m] = "idle"
    /\ a \in Queued
    /\ ~row[a].over /\ ~row[a].used /\ ~row[a].delivered
    /\ ~row[a].waiting /\ row[a].tries < MaxAttempts /\ ~row[a].live
    /\ row[a].letter.pin = pin[a] /\ row[a].letter.contact = contact[a]
    /\ row' = [row EXCEPT ![a] = [@ EXCEPT !.holder = m, !.live = TRUE, !.tries = row[a].tries + 1]]
    /\ held' = [held EXCEPT ![m] = row[a].letter]
    /\ phase' = [phase EXCEPT ![m] = "claimed"]
    /\ UNCHANGED <<pin, contact, attempt, inbox>>

\* The relay takes the letter and its reply arrives.
Deliver(m) ==
    /\ phase[m] = "claimed"
    /\ inbox' = inbox \cup {held[m]}
    /\ phase' = [phase EXCEPT ![m] = "sent"]
    /\ UNCHANGED <<pin, contact, attempt, row, held>>

\* Anything else counts as refused, a letter whose final reply is lost included.
DeliverFails(m) ==
    /\ phase[m] = "claimed"
    /\ inbox' \in {inbox, inbox \cup {held[m]}}
    /\ phase' = [phase EXCEPT ![m] = "refused"]
    /\ UNCHANGED <<pin, contact, attempt, row, held>>

\* Fault: the row is found by the account, not by the request.
LeasedByAccount(m) ==
    LET r == row[held[m].account] IN
    r.letter # NoLetter /\ ~r.over /\ ~r.delivered /\ ~r.used

\* The mailer's own claim on the row of the very letter it sent.
Leased(m) ==
    LET r == row[held[m].account] IN
    /\ r.letter = held[m] /\ r.holder = m /\ r.live
    /\ ~r.over /\ ~r.delivered /\ ~r.used

\* Without the lease nothing changes, and the run ends.
FinishMail(m) ==
    /\ phase[m] \in {"sent", "refused"}
    /\ IF Leased(m)
       THEN row' = [row EXCEPT ![held[m].account] = [@ EXCEPT
              !.holder = Nobody, !.live = FALSE, !.waiting = TRUE,
              !.delivered = phase[m] = "sent"]]
       ELSE UNCHANGED row
    /\ Idle(m)
    /\ UNCHANGED <<pin, contact, attempt, inbox>>

\* The process ends, or cannot reach the database.
Die(m) ==
    /\ phase[m] # "idle"
    /\ Idle(m)
    /\ UNCHANGED <<pin, contact, attempt, row, inbox>>

-----------------------------------------------------------------------------
\* Time.

AttemptAges(t) ==
    /\ attempt[t].present /\ attempt[t].age # "over"
    /\ attempt' = [attempt EXCEPT ![t].age = IF @ = "fresh" THEN "stale" ELSE "over"]
    /\ UNCHANGED <<pin, contact, row, mailerVars, inbox>>

LeaseEnds(a) ==
    /\ row[a].live
    /\ row' = [row EXCEPT ![a].live = FALSE]
    /\ UNCHANGED <<pin, contact, attempt, mailerVars, inbox>>

RetryDue(a) ==
    /\ row[a].waiting
    /\ row' = [row EXCEPT ![a].waiting = FALSE]
    /\ UNCHANGED <<pin, contact, attempt, mailerVars, inbox>>

\* Half an hour after the insertion; no lease reaches further.
LinkExpires(a) ==
    /\ a \in Queued /\ ~row[a].over
    /\ row' = [row EXCEPT ![a] = [@ EXCEPT !.over = TRUE, !.live = FALSE]]
    /\ UNCHANGED <<pin, contact, attempt, mailerVars, inbox>>

-----------------------------------------------------------------------------
\* The operator's tool.

\* Another PIN.
ResetPin(a) ==
    /\ Known(a) /\ pin[a] < MaxChanges
    /\ pin' = [pin EXCEPT ![a] = @ + 1]
    /\ UNCHANGED <<contact, attempt, row, mailerVars, inbox>>

\* A first address, or another one.
ChangeContact(a) ==
    /\ Known(a) /\ contact[a] < MaxContacts
    /\ contact' = [contact EXCEPT ![a] = @ + 1]
    /\ UNCHANGED <<pin, attempt, row, mailerVars, inbox>>

Request ==
    \/ RefuseRecovery
    \/ \E t \in Tickets :
         QueueRecovery(t) \/ \E a \in Accounts \cup {NoAccount} : BeginRecovery(t, a)
    \/ \E i \in inbox : CompleteRecovery(i)

Mail == \E m \in Mailers :
    \/ Deliver(m) \/ DeliverFails(m) \/ FinishMail(m) \/ Die(m)
    \/ \E a \in Accounts : ClaimMail(m, a)

LetterTime ==
    \/ \E t \in Tickets : AttemptAges(t)
    \/ \E a \in Accounts : LeaseEnds(a) \/ RetryDue(a) \/ LinkExpires(a)

RecoveryNext == Request \/ Mail \/ LetterTime \/ \E a \in Accounts : ResetPin(a) \/ ChangeContact(a)

-----------------------------------------------------------------------------
\* What the links promise.

\* Shapes of the state. No letter is tried more often than allowed.
RecoveryTypeOK ==
    /\ pin \in [Accounts -> Nat]
    /\ contact \in [Accounts -> 0..MaxContacts]
    /\ attempt \in [Tickets -> Attempts]
    /\ row \in [Accounts -> Rows]
    /\ held \in [Mailers -> Letters \cup {NoLetter}]
    /\ phase \in [Mailers -> Phases]
    /\ inbox \subseteq Letters

\* A row holds a letter to its own account, which was sealed for credentials and
\* an address that the account has now or had before.
RowsAreTheirs == \A a \in Queued :
    /\ row[a].letter.account = a
    /\ row[a].letter.pin <= pin[a] /\ row[a].letter.contact <= contact[a]

\* An attempt that may queue a letter has an account and an address for it.
AttemptsAreTheirs == \A t \in Tickets :
    attempt[t].pending =>
        attempt[t].account \in Accounts /\ attempt[t].pin > 0 /\ attempt[t].contact > 0

InPlay == {row[a].letter : a \in Queued} \cup ({held[m] : m \in Mailers} \ {NoLetter}) \cup inbox

\* A link belongs to one letter, wherever that is.
LinksAreUnique == \A x, y \in InPlay : x.link = y.link => x = y

\* A mailer that is not idle has a letter in hand.
HandsAreFull == \A m \in Mailers : phase[m] = "idle" <=> held[m] = NoLetter

\* What a mailer reports as sent was taken by the relay.
SentIsTaken == \A m \in Mailers : phase[m] = "sent" => held[m] \in inbox

\* The row is marked as delivered only when the very letter it holds was taken
\* by the relay: neither the previous letter of the account nor the claim of a
\* mailer whose lease ran out may report for it (0233:157-159).
DeliveredIsSent == \A a \in Queued : row[a].delivered => row[a].letter \in inbox

\* A PIN is set through a link at most once, by a letter that went to the
\* address the account has now, and that was asked for under the credentials it
\* has now: a reset, a payment hold, a renewal or another address in between
\* makes every earlier link worthless (0233:97-98, 121-125; 0216:58-59).
LinkIsRightful == [][\A a \in Accounts :
    row'[a].used /\ ~row[a].used =>
        \E i \in inbox : /\ i = row[a].letter /\ i.account = a
                         /\ i.pin = pin[a] /\ i.contact = contact[a]
                         /\ pin'[a] > pin[a]]_row
=============================================================================
