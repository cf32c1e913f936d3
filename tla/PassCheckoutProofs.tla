------------------------- MODULE PassCheckoutProofs -------------------------
(***************************************************************************)
(* For any number of accounts, orders, mailers, links and events: links    *)
(* are rightful, letters marked as delivered were sent, an answered event  *)
(* was acted on, restricted accounts stay restricted, and the orders keep  *)
(* the ledger.                                                             *)
(***************************************************************************)
EXTENDS PassCheckout, FiniteSetTheorems, TLAPS

QueueFits == Cardinality(Queued) <= RecoveryLimit

RowsAreKnown ==
    /\ \A a \in Queued : Known(a)
    /\ \A a \in Accounts : contact[a] > 0 => Known(a)

(* What holds of the letters, whatever orders there are. *)
RecoveryInv ==
    /\ RecoveryTypeOK /\ RowsAreTheirs /\ AttemptsAreTheirs /\ LinksAreUnique /\ HandsAreFull
    /\ SentIsTaken /\ DeliveredIsSent /\ RowsAreKnown /\ QueueFits

USE RecoveryAssumption, NoLetterAssumption

-----------------------------------------------------------------------------
(* Rows. *)

LEMMA NewRowType == ASSUME NEW l \in Letters \cup {NoLetter} PROVE NewRow(l) \in Rows
  BY DEF NewRow, Rows

LEMMA RowUpdates ==
  ASSUME NEW r \in Rows
  PROVE  /\ [r EXCEPT !.used = TRUE] \in Rows
         /\ [r EXCEPT !.live = FALSE] \in Rows
         /\ [r EXCEPT !.waiting = FALSE] \in Rows
         /\ [r EXCEPT !.over = TRUE, !.live = FALSE] \in Rows
         /\ \A d \in BOOLEAN :
              [r EXCEPT !.holder = Nobody, !.live = FALSE, !.waiting = TRUE, !.delivered = d] \in Rows
         /\ \A m \in Mailers : r.tries < MaxAttempts =>
              [r EXCEPT !.holder = m, !.live = TRUE, !.tries = r.tries + 1] \in Rows
  <1>1. ASSUME NEW m \in Mailers, r.tries < MaxAttempts
        PROVE  [r EXCEPT !.holder = m, !.live = TRUE, !.tries = r.tries + 1] \in Rows
    <2>1. r.tries + 1 \in 0..MaxAttempts
      BY <1>1 DEF Rows
    <2>2. QED
      BY <2>1 DEF Rows
  <1>2. /\ [r EXCEPT !.used = TRUE] \in Rows
        /\ [r EXCEPT !.live = FALSE] \in Rows
        /\ [r EXCEPT !.waiting = FALSE] \in Rows
        /\ [r EXCEPT !.over = TRUE, !.live = FALSE] \in Rows
    BY DEF Rows
  <1>3. ASSUME NEW d \in BOOLEAN
        PROVE  [r EXCEPT !.holder = Nobody, !.live = FALSE, !.waiting = TRUE, !.delivered = d] \in Rows
    BY DEF Rows
  <1>4. QED
    BY <1>1, <1>2, <1>3

LEMMA KeptRowsType ==
  ASSUME RecoveryTypeOK
  PROVE  /\ KeptRows \in [Accounts -> Rows]
         /\ \A a \in Accounts : KeptRows[a] \in {row[a], NoRow}
         /\ KeptAttempts \in [Tickets -> Attempts]
         /\ \A t \in Tickets : KeptAttempts[t] \in {attempt[t], NoAttempt}
  <1>1. NoRow \in Rows
    BY NewRowType DEF NoRow
  <1>2. NoAttempt \in Attempts
    BY DEF NoAttempt, Attempts, Ages
  <1>3. QED
    BY <1>1, <1>2 DEF RecoveryTypeOK, KeptRows, KeptAttempts

LEMMA LetterFields ==
  ASSUME NEW k \in Links, NEW a \in Accounts, NEW p \in Nat \ {0}, NEW c \in 1..MaxContacts
  PROVE  /\ NewLetter(k, a, p, c) \in Letters /\ NewLetter(k, a, p, c) # NoLetter
         /\ NewLetter(k, a, p, c).link = k /\ NewLetter(k, a, p, c).account = a
         /\ NewLetter(k, a, p, c).pin = p /\ NewLetter(k, a, p, c).contact = c
  BY DEF NewLetter, Letters

LEMMA QueuedFinite == IsFiniteSet(Queued) /\ Cardinality(Queued) \in Nat
  BY FS_Subset, FS_CardinalityType DEF Queued

(* Steps that add no letter. *)
LEMMA NoNewLetter ==
  ASSUME RecoveryInv, RecoveryTypeOK', inbox \subseteq inbox', InPlay' \subseteq InPlay,
         \A a \in Accounts :
            /\ pin'[a] >= pin[a] /\ contact'[a] >= contact[a]
            /\ row'[a].letter \in {row[a].letter, NoLetter}
  PROVE  RowsAreTheirs' /\ LinksAreUnique' /\ QueueFits' /\ \A a \in Queued' : Known(a)'
  <1>1. Queued' \subseteq Queued /\ \A a \in Queued' : row'[a].letter = row[a].letter
    BY DEF Queued
  <1>2. \A a \in Accounts : pin[a] \in Nat /\ pin'[a] \in Nat /\ contact[a] \in Nat /\ contact'[a] \in Nat
    BY DEF RecoveryInv, RecoveryTypeOK
  <1>3. \A a \in Queued : a \in Accounts /\ row[a].letter \in Letters
    BY DEF Queued, RecoveryInv, RecoveryTypeOK, Rows
  <1>4. \A a \in Queued : row[a].letter.pin \in Nat /\ row[a].letter.contact \in Nat
    BY <1>3 DEF Letters
  <1>5. RowsAreTheirs'
    BY <1>1, <1>2, <1>3, <1>4 DEF RecoveryInv, RowsAreTheirs
  <1>6. LinksAreUnique'
    BY DEF RecoveryInv, LinksAreUnique
  <1>7. QueueFits'
    <2>1. Cardinality(Queued') <= Cardinality(Queued) /\ Cardinality(Queued') \in Nat
      BY <1>1, QueuedFinite, FS_Subset, FS_CardinalityType
    <2>2. QED
      BY <2>1, QueuedFinite DEF RecoveryInv, QueueFits
  <1>8. \A a \in Queued' : Known(a)'
    BY <1>1, <1>2, <1>3 DEF RecoveryInv, RowsAreKnown, Known
  <1>9. QED
    BY <1>5, <1>6, <1>7, <1>8

(* Steps that change rows, versions and attempts but send nothing. *)
LEMMA QuietStep ==
  ASSUME RecoveryInv, UNCHANGED <<held, phase, inbox>>,
         row' \in [Accounts -> Rows], attempt' \in [Tickets -> Attempts], AttemptsAreTheirs',
         pin' \in [Accounts -> Nat], contact' \in [Accounts -> 0..MaxContacts],
         \A a \in Accounts :
            /\ pin'[a] >= pin[a] /\ contact'[a] >= contact[a]
            /\ contact'[a] > 0 => pin'[a] > 0
            /\ row'[a].letter \in {row[a].letter, NoLetter}
            /\ row'[a].letter # NoLetter /\ row'[a].delivered => row[a].delivered
  PROVE  RecoveryInv'
  <1>1. RecoveryTypeOK'
    BY DEF RecoveryInv, RecoveryTypeOK
  <1>2. Queued' \subseteq Queued /\ \A a \in Queued' : row'[a].letter = row[a].letter
    BY DEF Queued
  <1>3. InPlay' \subseteq InPlay
    BY <1>2 DEF InPlay
  <1>4. DeliveredIsSent'
    BY <1>2 DEF RecoveryInv, DeliveredIsSent, Queued
  <1>5. HandsAreFull' /\ SentIsTaken'
    BY DEF RecoveryInv, HandsAreFull, SentIsTaken
  <1>6. /\ RowsAreTheirs' /\ LinksAreUnique' /\ QueueFits'
        /\ \A a \in Queued' : Known(a)'
    BY <1>1, <1>3, NoNewLetter
  <1>7. RowsAreKnown'
    BY <1>6 DEF RowsAreKnown, Known
  <1>8. QED
    BY <1>1, <1>4, <1>5, <1>6, <1>7 DEF RecoveryInv

(* A letter for one account. *)
LEMMA NewLetterStep ==
  ASSUME RecoveryInv, UNCHANGED <<held, phase, inbox>>,
         NEW a \in Accounts, NEW k \in Links, FreshLink(k),
         NEW p \in Nat \ {0}, NEW c \in 1..MaxContacts,
         row' = [row EXCEPT ![a] = NewRow(NewLetter(k, a, p, c))],
         attempt' \in [Tickets -> Attempts], AttemptsAreTheirs',
         pin' \in [Accounts -> Nat], contact' \in [Accounts -> 0..MaxContacts],
         \A b \in Accounts :
            /\ pin'[b] >= pin[b] /\ contact'[b] >= contact[b]
            /\ contact'[b] > 0 => pin'[b] > 0,
         pin'[a] >= p, contact'[a] >= c,
         a \in Queued \/ Cardinality(Queued) < RecoveryLimit
  PROVE  RecoveryInv'
  <1> DEFINE l == NewLetter(k, a, p, c)
  <1>1. /\ l \in Letters /\ l # NoLetter
        /\ l.link = k /\ l.account = a /\ l.pin = p /\ l.contact = c
    BY LetterFields
  <1> HIDE DEF l
  <1>2. /\ NewRow(l) \in Rows /\ NewRow(l).letter = l /\ NewRow(l).delivered = FALSE
    BY <1>1, NewRowType DEF NewRow
  <1>3. /\ row'[a] = NewRow(l) /\ \A b \in Accounts \ {a} : row'[b] = row[b]
        /\ row' \in [Accounts -> Rows]
    BY <1>2 DEF RecoveryInv, RecoveryTypeOK, l
  <1>4. RecoveryTypeOK'
    BY <1>3 DEF RecoveryInv, RecoveryTypeOK
  <1>5. Queued' = Queued \cup {a}
    BY <1>1, <1>2, <1>3 DEF Queued
  <1>6. \A b \in Accounts : pin[b] \in Nat /\ pin'[b] \in Nat /\ contact[b] \in Nat /\ contact'[b] \in Nat
    <2>1. \A b \in Accounts : pin[b] \in Nat /\ contact[b] \in Nat
      BY DEF RecoveryInv, RecoveryTypeOK
    <2>2. \A b \in Accounts : pin'[b] \in Nat /\ contact'[b] \in Nat
      BY <1>4 DEF RecoveryTypeOK
    <2>3. QED
      BY <2>1, <2>2
  <1>7. \A b \in Queued : row[b].letter.pin \in Nat /\ row[b].letter.contact \in Nat
    BY DEF Queued, RecoveryInv, RecoveryTypeOK, Rows, Letters
  <1>8. RowsAreTheirs'
    <2>1. \A b \in Queued \ {a} : /\ row'[b].letter.account = b
                                  /\ row'[b].letter.pin <= pin'[b]
                                  /\ row'[b].letter.contact <= contact'[b]
      BY <1>3, <1>6, <1>7 DEF RecoveryInv, RowsAreTheirs, Queued
    <2>2. /\ row'[a].letter.account = a
          /\ row'[a].letter.pin <= pin'[a] /\ row'[a].letter.contact <= contact'[a]
      BY <1>1, <1>2, <1>3, <1>6
    <2>3. QED
      BY <1>5, <2>1, <2>2 DEF RowsAreTheirs
  <1>9. LinksAreUnique'
    <2>1. InPlay' \subseteq InPlay \cup {l}
      BY <1>2, <1>3, <1>5 DEF InPlay, Queued
    <2>2. \A x \in InPlay : x.link # k
      BY DEF InPlay, FreshLink, Queued
    <2>3. QED
      BY <1>1, <2>1, <2>2 DEF RecoveryInv, LinksAreUnique
  <1>10. HandsAreFull' /\ SentIsTaken'
    BY DEF RecoveryInv, HandsAreFull, SentIsTaken
  <1>11. DeliveredIsSent'
    BY <1>2, <1>3, <1>5 DEF RecoveryInv, DeliveredIsSent, Queued
  <1>12. RowsAreKnown'
    <2>1. pin'[a] > 0
      BY <1>6
    <2>2. \A b \in Queued : Known(b)'
      BY <1>6 DEF RecoveryInv, RowsAreKnown, Known, Queued
    <2>3. QED
      BY <1>5, <2>1, <2>2 DEF RowsAreKnown, Known
  <1>13. QueueFits'
    <2>1. CASE a \in Queued
      BY <1>5, <2>1 DEF RecoveryInv, QueueFits
    <2>2. CASE a \notin Queued
      <3>1. Cardinality(Queued \cup {a}) = Cardinality(Queued) + 1
        BY <2>2, QueuedFinite, FS_AddElement
      <3>2. QED
        BY <1>5, <2>2, <3>1, QueuedFinite DEF QueueFits
    <2>3. QED
      BY <2>1, <2>2
  <1>14. QED
    BY <1>4, <1>8, <1>9, <1>10, <1>11, <1>12, <1>13 DEF RecoveryInv

-----------------------------------------------------------------------------
(* Requests. *)

LEMMA RefuseStep == ASSUME RecoveryInv, RefuseRecovery PROVE RecoveryInv'
  <1> USE DEF RefuseRecovery, mailerVars
  <1>1. AttemptsAreTheirs'
    BY KeptRowsType DEF RecoveryInv, RecoveryTypeOK, AttemptsAreTheirs, NoAttempt
  <1>2. NoRow.letter = NoLetter
    BY DEF NoRow, NewRow
  <1>3. QED
    BY <1>1, <1>2, KeptRowsType, QuietStep DEF RecoveryInv, RecoveryTypeOK, RowsAreKnown, Known

LEMMA BeginStep ==
  ASSUME RecoveryInv, NEW t \in Tickets, NEW a \in Accounts \cup {NoAccount}, BeginRecovery(t, a)
  PROVE  RecoveryInv'
  <1> USE DEF BeginRecovery, mailerVars
  <1> DEFINE new == [account |-> a, pin |-> IF a = NoAccount THEN 0 ELSE pin[a],
                     contact |-> IF a = NoAccount THEN 0 ELSE contact[a],
                     age |-> "fresh", pending |-> a # NoAccount, present |-> TRUE]
  <1>1. new \in Attempts
    BY DEF Attempts, Ages, RecoveryInv, RecoveryTypeOK
  <1>2. new.pending => new.account \in Accounts /\ new.pin > 0 /\ new.contact > 0
    BY DEF RecoveryInv, RowsAreKnown, Known
  <1>3. attempt' = [KeptAttempts EXCEPT ![t] = new]
    OBVIOUS
  <1> HIDE DEF new
  <1>4. /\ attempt' \in [Tickets -> Attempts] /\ attempt'[t] = new
        /\ \A u \in Tickets \ {t} : attempt'[u] \in {attempt[u], NoAttempt}
    BY <1>1, <1>3, KeptRowsType DEF RecoveryInv
  <1>5. AttemptsAreTheirs'
    BY <1>2, <1>4 DEF RecoveryInv, AttemptsAreTheirs, NoAttempt
  <1>6. NoRow.letter = NoLetter
    BY DEF NoRow, NewRow
  <1>7. QED
    BY <1>4, <1>5, <1>6, KeptRowsType, QuietStep DEF RecoveryInv, RecoveryTypeOK, RowsAreKnown, Known

LEMMA PendingUpdate ==
  ASSUME RecoveryInv, NEW t \in Tickets, attempt' = [attempt EXCEPT ![t].pending = FALSE]
  PROVE  attempt' \in [Tickets -> Attempts] /\ AttemptsAreTheirs'
  <1>1. attempt' = [attempt EXCEPT ![t] = [attempt[t] EXCEPT !.pending = FALSE]]
    BY DEF RecoveryInv, RecoveryTypeOK
  <1>2. [attempt[t] EXCEPT !.pending = FALSE] \in Attempts
    <2>1. attempt[t] \in Attempts
      BY DEF RecoveryInv, RecoveryTypeOK
    <2>2. QED
      BY <2>1 DEF Attempts
  <1>3. [attempt[t] EXCEPT !.pending = FALSE].pending = FALSE
    BY DEF RecoveryInv, RecoveryTypeOK, Attempts
  <1>4. QED
    BY <1>1, <1>2, <1>3 DEF RecoveryInv, RecoveryTypeOK, AttemptsAreTheirs

LEMMA QueueStep == ASSUME RecoveryInv, NEW t \in Tickets, QueueRecovery(t) PROVE RecoveryInv'
  <1> DEFINE a == attempt[t].account
  <1>1. a \in Accounts /\ attempt[t].pin \in Nat \ {0} /\ attempt[t].contact \in 1..MaxContacts
    BY DEF QueueRecovery, RecoveryInv, RecoveryTypeOK, AttemptsAreTheirs, Attempts
  <1>2. PICK k \in Links :
          /\ FreshLink(k)
          /\ row' = [row EXCEPT ![a] = NewRow(NewLetter(k, a, attempt[t].pin, attempt[t].contact))]
    BY DEF QueueRecovery
  <1>3. pin[a] = attempt[t].pin /\ contact[a] = attempt[t].contact
    BY DEF QueueRecovery, Unchanged
  <1>4. a \in Queued \/ Cardinality(Queued) < RecoveryLimit
    BY DEF QueueRecovery
  <1>5. /\ UNCHANGED <<held, phase, inbox, pin, contact>>
        /\ attempt' = [attempt EXCEPT ![t].pending = FALSE]
    BY DEF QueueRecovery, mailerVars
  <1>6. attempt' \in [Tickets -> Attempts] /\ AttemptsAreTheirs'
    BY <1>5, PendingUpdate
  <1>7. /\ pin' \in [Accounts -> Nat] /\ contact' \in [Accounts -> 0..MaxContacts]
        /\ \A b \in Accounts :
             /\ pin'[b] >= pin[b] /\ contact'[b] >= contact[b]
             /\ contact'[b] > 0 => pin'[b] > 0
    BY <1>5 DEF RecoveryInv, RecoveryTypeOK, RowsAreKnown, Known
  <1> HIDE DEF a
  <1>8. pin'[a] >= attempt[t].pin /\ contact'[a] >= attempt[t].contact
    BY <1>1, <1>3, <1>5
  <1>9. QED
    BY <1>1, <1>2, <1>4, <1>5, <1>6, <1>7, <1>8, NewLetterStep

LEMMA CompleteStep == ASSUME RecoveryInv, NEW i \in inbox, CompleteRecovery(i) PROVE RecoveryInv'
  <1> DEFINE a == i.account
  <1>1. a \in Accounts /\ i \in Letters
    BY DEF RecoveryInv, RecoveryTypeOK, Letters
  <1>2. /\ row' = [row EXCEPT ![a] = [row[a] EXCEPT !.used = TRUE]]
        /\ pin' = [pin EXCEPT ![a] = pin[a] + 1]
        /\ UNCHANGED <<contact, attempt, held, phase, inbox>>
    BY <1>1 DEF CompleteRecovery, mailerVars, RecoveryInv, RecoveryTypeOK
  <1> HIDE DEF a
  <1>3. row[a] \in Rows /\ [row[a] EXCEPT !.used = TRUE] \in Rows
    BY <1>1, RowUpdates DEF RecoveryInv, RecoveryTypeOK
  <1>4. /\ [row[a] EXCEPT !.used = TRUE].letter = row[a].letter
        /\ [row[a] EXCEPT !.used = TRUE].delivered = row[a].delivered
    BY <1>3 DEF Rows
  <1>5. AttemptsAreTheirs'
    BY <1>2 DEF RecoveryInv, AttemptsAreTheirs
  <1>6. QED
    BY <1>1, <1>2, <1>3, <1>4, <1>5, QuietStep DEF RecoveryInv, RecoveryTypeOK, RowsAreKnown, Known

-----------------------------------------------------------------------------
(* Mailers. *)

LEMMA MailStep ==
  ASSUME RecoveryInv, UNCHANGED <<pin, contact, attempt>>,
         row' \in [Accounts -> Rows], held' \in [Mailers -> Letters \cup {NoLetter}],
         phase' \in [Mailers -> Phases], inbox \subseteq inbox', inbox' \subseteq InPlay,
         \A a \in Accounts :
            /\ row'[a].letter = row[a].letter
            /\ row[a].letter # NoLetter /\ row'[a].delivered => row[a].letter \in inbox',
         \A m \in Mailers :
            /\ held'[m] \in InPlay \cup {NoLetter}
            /\ phase'[m] = "idle" <=> held'[m] = NoLetter
            /\ phase'[m] = "sent" => held'[m] \in inbox'
  PROVE  RecoveryInv'
  <1>1. InPlay \subseteq Letters
    BY DEF InPlay, Queued, RecoveryInv, RecoveryTypeOK, Rows
  <1>2. RecoveryTypeOK'
    BY <1>1 DEF RecoveryInv, RecoveryTypeOK
  <1>3. Queued' = Queued
    BY DEF Queued
  <1>4. InPlay' \subseteq InPlay
    BY <1>3 DEF InPlay, Queued
  <1>5. \A a \in Accounts : /\ pin'[a] >= pin[a] /\ contact'[a] >= contact[a]
                            /\ row'[a].letter \in {row[a].letter, NoLetter}
    BY DEF RecoveryInv, RecoveryTypeOK
  <1>6. /\ RowsAreTheirs' /\ LinksAreUnique' /\ QueueFits'
        /\ \A a \in Queued' : Known(a)'
    BY <1>2, <1>4, <1>5, NoNewLetter
  <1>7. AttemptsAreTheirs' /\ RowsAreKnown'
    BY <1>6 DEF RecoveryInv, AttemptsAreTheirs, RowsAreKnown, Known
  <1>8. HandsAreFull' /\ SentIsTaken' /\ DeliveredIsSent'
    BY DEF HandsAreFull, SentIsTaken, DeliveredIsSent, Queued
  <1>9. QED
    BY <1>2, <1>6, <1>7, <1>8 DEF RecoveryInv

(* What the invariant says of the letters in hand and in the rows. *)
LEMMA LettersInPlay ==
  ASSUME RecoveryInv
  PROVE  /\ inbox \subseteq InPlay
         /\ \A a \in Queued : row[a].letter \in InPlay
         /\ \A m \in Mailers : held[m] \in InPlay \cup {NoLetter}
         /\ \A m \in Mailers : phase[m] # "idle" => held[m] \in InPlay
         /\ \A a \in Accounts : row[a].letter # NoLetter /\ row[a].delivered => row[a].letter \in inbox
         /\ \A m \in Mailers : phase[m] = "idle" <=> held[m] = NoLetter
         /\ \A m \in Mailers : phase[m] = "sent" => held[m] \in inbox
         /\ "idle" \in Phases /\ "claimed" \in Phases /\ "sent" \in Phases /\ "refused" \in Phases
  BY DEF InPlay, RecoveryInv, HandsAreFull, SentIsTaken, DeliveredIsSent, Queued, Phases

LEMMA ClaimStep ==
  ASSUME RecoveryInv, NEW m \in Mailers, NEW a \in Accounts, ClaimMail(m, a)
  PROVE  RecoveryInv'
  <1>1. row[a] \in Rows /\ row[a].tries < MaxAttempts /\ a \in Queued
    BY DEF ClaimMail, RecoveryInv, RecoveryTypeOK
  <1>2. row' = [row EXCEPT ![a] = [row[a] EXCEPT !.holder = m, !.live = TRUE, !.tries = row[a].tries + 1]]
    BY DEF ClaimMail
  <1>3. [row[a] EXCEPT !.holder = m, !.live = TRUE, !.tries = row[a].tries + 1] \in Rows
    BY <1>1, RowUpdates
  <1>4. /\ row' \in [Accounts -> Rows]
        /\ \A b \in Accounts : row'[b].letter = row[b].letter /\ row'[b].delivered = row[b].delivered
    <2>1. /\ [row[a] EXCEPT !.holder = m, !.live = TRUE, !.tries = row[a].tries + 1].letter = row[a].letter
          /\ [row[a] EXCEPT !.holder = m, !.live = TRUE, !.tries = row[a].tries + 1].delivered = row[a].delivered
      BY <1>1 DEF Rows
    <2>2. QED
      BY <1>2, <1>3, <2>1 DEF RecoveryInv, RecoveryTypeOK
  <1>5. row[a].letter \in Letters /\ row[a].letter # NoLetter /\ row[a].letter \in InPlay
    BY <1>1, LettersInPlay DEF Rows, Queued
  <1>6. /\ held' = [held EXCEPT ![m] = row[a].letter]
        /\ phase' = [phase EXCEPT ![m] = "claimed"]
        /\ UNCHANGED <<pin, contact, attempt, inbox>>
    BY DEF ClaimMail
  <1>7. /\ held' \in [Mailers -> Letters \cup {NoLetter}] /\ phase' \in [Mailers -> Phases]
        /\ \A n \in Mailers :
             /\ held'[n] \in InPlay \cup {NoLetter}
             /\ phase'[n] = "idle" <=> held'[n] = NoLetter
             /\ phase'[n] = "sent" => held'[n] \in inbox'
    BY <1>5, <1>6, LettersInPlay DEF RecoveryInv, RecoveryTypeOK
  <1>8. QED
    BY <1>4, <1>6, <1>7, LettersInPlay, MailStep

LEMMA DeliverStep ==
  ASSUME RecoveryInv, NEW m \in Mailers, Deliver(m) \/ DeliverFails(m)
  PROVE  RecoveryInv'
  <1>1. /\ phase[m] = "claimed" /\ UNCHANGED <<pin, contact, attempt, row, held>>
        /\ inbox \subseteq inbox' /\ inbox' \subseteq inbox \cup {held[m]}
        /\ \/ phase' = [phase EXCEPT ![m] = "sent"] /\ held[m] \in inbox'
           \/ phase' = [phase EXCEPT ![m] = "refused"]
    BY DEF Deliver, DeliverFails
  <1>2. held[m] \in InPlay /\ held[m] # NoLetter
    BY <1>1, LettersInPlay
  <1>3. /\ row' \in [Accounts -> Rows] /\ held' \in [Mailers -> Letters \cup {NoLetter}]
        /\ phase' \in [Mailers -> Phases]
    BY <1>1, LettersInPlay DEF RecoveryInv, RecoveryTypeOK
  <1>4. \A n \in Mailers :
             /\ held'[n] \in InPlay \cup {NoLetter}
             /\ phase'[n] = "idle" <=> held'[n] = NoLetter
             /\ phase'[n] = "sent" => held'[n] \in inbox'
    BY <1>1, <1>2, LettersInPlay DEF RecoveryInv, RecoveryTypeOK
  <1>5. QED
    BY <1>1, <1>2, <1>3, <1>4, LettersInPlay, MailStep

LEMMA IdleType ==
  ASSUME RecoveryInv, NEW m \in Mailers, Idle(m)
  PROVE  /\ held' \in [Mailers -> Letters \cup {NoLetter}] /\ phase' \in [Mailers -> Phases]
         /\ \A n \in Mailers :
              /\ held'[n] \in InPlay \cup {NoLetter}
              /\ phase'[n] = "idle" <=> held'[n] = NoLetter
              /\ phase'[n] = "sent" => held'[n] \in inbox
  BY LettersInPlay DEF Idle, RecoveryInv, RecoveryTypeOK

LEMMA DieStep == ASSUME RecoveryInv, NEW m \in Mailers, Die(m) PROVE RecoveryInv'
  <1>1. row' \in [Accounts -> Rows] /\ UNCHANGED <<pin, contact, attempt, row, inbox>> /\ Idle(m)
    BY DEF Die, RecoveryInv, RecoveryTypeOK
  <1>2. QED
    BY <1>1, IdleType, LettersInPlay, MailStep

LEMMA FinishStep == ASSUME RecoveryInv, NEW m \in Mailers, FinishMail(m) PROVE RecoveryInv'
  <1>1. UNCHANGED <<pin, contact, attempt, inbox>> /\ Idle(m) /\ phase[m] \in {"sent", "refused"}
    BY DEF FinishMail
  <1>2. CASE UNCHANGED row
    <2>1. row' \in [Accounts -> Rows]
      BY <1>2 DEF RecoveryInv, RecoveryTypeOK
    <2>2. QED
      BY <1>1, <1>2, <2>1, IdleType, LettersInPlay, MailStep
  <1>3. CASE Leased(m) /\ ~UNCHANGED row
    <2> DEFINE a == held[m].account
               d == phase[m] = "sent"
               r == [row[a] EXCEPT !.holder = Nobody, !.live = FALSE, !.waiting = TRUE, !.delivered = d]
    <2>1. held[m] \in InPlay /\ held[m] # NoLetter /\ held[m] \in Letters
      BY <1>1, LettersInPlay DEF RecoveryInv, RecoveryTypeOK
    <2>2. a \in Accounts /\ row[a] \in Rows
      BY <2>1 DEF Letters, RecoveryInv, RecoveryTypeOK
    <2>3. row' = [row EXCEPT ![a] = r]
      BY <1>3, <2>2 DEF FinishMail, RecoveryInv, RecoveryTypeOK
    <2>4. row[a].letter = held[m]
      BY <1>3 DEF Leased
    <2> HIDE DEF a
    <2>5. r \in Rows /\ r.letter = row[a].letter /\ r.delivered = d
      <3>1. r.letter = row[a].letter /\ r.delivered = d
        BY <2>2 DEF Rows
      <3>2. QED
        BY <2>2, <3>1, RowUpdates
    <2> HIDE DEF r
    <2>6. row' \in [Accounts -> Rows] /\ row'[a] = r /\ \A b \in Accounts \ {a} : row'[b] = row[b]
      BY <2>2, <2>3, <2>5 DEF RecoveryInv, RecoveryTypeOK
    <2>7. \A b \in Accounts :
            /\ row'[b].letter = row[b].letter
            /\ row[b].letter # NoLetter /\ row'[b].delivered => row[b].letter \in inbox'
      BY <1>1, <2>4, <2>5, <2>6, LettersInPlay
    <2>8. QED
      BY <1>1, <2>6, <2>7, IdleType, LettersInPlay, MailStep
  <1>4. QED
    BY <1>2, <1>3 DEF FinishMail

-----------------------------------------------------------------------------
(* Time and the operator. *)

LEMMA AttemptAgesStep == ASSUME RecoveryInv, NEW t \in Tickets, AttemptAges(t) PROVE RecoveryInv'
  <1> USE DEF AttemptAges, mailerVars
  <1> DEFINE age == IF attempt[t].age = "fresh" THEN "stale" ELSE "over"
  <1>1. attempt[t] \in Attempts
    BY DEF RecoveryInv, RecoveryTypeOK
  <1>2. attempt' = [attempt EXCEPT ![t] = [attempt[t] EXCEPT !.age = age]]
    BY DEF RecoveryInv, RecoveryTypeOK
  <1>3. age \in Ages
    BY DEF Ages
  <1> HIDE DEF age
  <1>4. /\ [attempt[t] EXCEPT !.age = age] \in Attempts
        /\ [attempt[t] EXCEPT !.age = age].pending = attempt[t].pending
        /\ [attempt[t] EXCEPT !.age = age].account = attempt[t].account
        /\ [attempt[t] EXCEPT !.age = age].pin = attempt[t].pin
        /\ [attempt[t] EXCEPT !.age = age].contact = attempt[t].contact
    BY <1>1, <1>3 DEF Attempts
  <1>5. attempt' \in [Tickets -> Attempts] /\ AttemptsAreTheirs'
    BY <1>2, <1>4 DEF RecoveryInv, RecoveryTypeOK, AttemptsAreTheirs
  <1>6. QED
    BY <1>5, QuietStep DEF RecoveryInv, RecoveryTypeOK, RowsAreKnown, Known

LEMMA RowTimeStep ==
  ASSUME RecoveryInv, NEW a \in Accounts, LeaseEnds(a) \/ RetryDue(a) \/ LinkExpires(a)
  PROVE  RecoveryInv'
  <1>1. row[a] \in Rows
    BY DEF RecoveryInv, RecoveryTypeOK
  <1>2. PICK r \in Rows : /\ row' = [row EXCEPT ![a] = r]
                          /\ r.letter = row[a].letter /\ r.delivered = row[a].delivered
    <2>1. \/ row' = [row EXCEPT ![a] = [row[a] EXCEPT !.live = FALSE]]
          \/ row' = [row EXCEPT ![a] = [row[a] EXCEPT !.waiting = FALSE]]
          \/ row' = [row EXCEPT ![a] = [row[a] EXCEPT !.over = TRUE, !.live = FALSE]]
      BY DEF LeaseEnds, RetryDue, LinkExpires, RecoveryInv, RecoveryTypeOK
    <2>2. /\ [row[a] EXCEPT !.live = FALSE] \in Rows
          /\ [row[a] EXCEPT !.waiting = FALSE] \in Rows
          /\ [row[a] EXCEPT !.over = TRUE, !.live = FALSE] \in Rows
      BY <1>1, RowUpdates
    <2>3. /\ [row[a] EXCEPT !.live = FALSE].letter = row[a].letter
          /\ [row[a] EXCEPT !.waiting = FALSE].letter = row[a].letter
          /\ [row[a] EXCEPT !.over = TRUE, !.live = FALSE].letter = row[a].letter
          /\ [row[a] EXCEPT !.live = FALSE].delivered = row[a].delivered
          /\ [row[a] EXCEPT !.waiting = FALSE].delivered = row[a].delivered
          /\ [row[a] EXCEPT !.over = TRUE, !.live = FALSE].delivered = row[a].delivered
      BY <1>1 DEF Rows
    <2>4. QED
      BY <2>1, <2>2, <2>3
  <1>3. UNCHANGED <<pin, contact, attempt, held, phase, inbox>>
    BY DEF LeaseEnds, RetryDue, LinkExpires, mailerVars
  <1>4. AttemptsAreTheirs'
    BY <1>3 DEF RecoveryInv, AttemptsAreTheirs
  <1>5. row' \in [Accounts -> Rows] /\ \A b \in Accounts :
           row'[b].letter = row[b].letter /\ row'[b].delivered = row[b].delivered
    BY <1>2 DEF RecoveryInv, RecoveryTypeOK
  <1>6. QED
    BY <1>3, <1>4, <1>5, QuietStep DEF RecoveryInv, RecoveryTypeOK, RowsAreKnown, Known

(* Steps that change only the versions, upwards. *)
LEMMA VersionStep ==
  ASSUME RecoveryInv, UNCHANGED <<attempt, row, held, phase, inbox>>,
         pin' \in [Accounts -> Nat], contact' \in [Accounts -> 0..MaxContacts],
         \A a \in Accounts : /\ pin'[a] >= pin[a] /\ contact'[a] >= contact[a]
                             /\ contact'[a] > 0 => pin'[a] > 0
  PROVE  RecoveryInv'
  <1>1. AttemptsAreTheirs'
    BY DEF RecoveryInv, AttemptsAreTheirs
  <1>2. QED
    BY <1>1, QuietStep DEF RecoveryInv, RecoveryTypeOK

LEMMA OperatorStep ==
  ASSUME RecoveryInv, NEW a \in Accounts, ResetPin(a) \/ ChangeContact(a)
  PROVE  RecoveryInv'
  <1>1. CASE ResetPin(a)
    <2>1. pin' = [pin EXCEPT ![a] = pin[a] + 1] /\ UNCHANGED <<contact, attempt, row, held, phase, inbox>>
      BY <1>1 DEF ResetPin, mailerVars
    <2>2. QED
      BY <2>1, VersionStep DEF RecoveryInv, RecoveryTypeOK, RowsAreKnown, Known
  <1>2. CASE ChangeContact(a)
    <2>1. contact' = [contact EXCEPT ![a] = contact[a] + 1] /\ UNCHANGED <<pin, attempt, row, held, phase, inbox>>
      BY <1>2 DEF ChangeContact, mailerVars
    <2>2. contact[a] < MaxContacts /\ pin[a] > 0
      BY <1>2 DEF ChangeContact, Known
    <2>3. /\ contact' \in [Accounts -> 0..MaxContacts]
          /\ \A b \in Accounts : contact'[b] >= contact[b] /\ (contact'[b] > 0 => pin[b] > 0)
      BY <2>1, <2>2 DEF RecoveryInv, RecoveryTypeOK, RowsAreKnown, Known
    <2>4. QED
      BY <2>1, <2>3, VersionStep DEF RecoveryInv, RecoveryTypeOK
  <1>3. QED
    BY <1>1, <1>2

LEMMA RecoveryStep == ASSUME RecoveryInv, RecoveryNext PROVE RecoveryInv'
  <1>1. CASE Request
    BY <1>1, RefuseStep, QueueStep, BeginStep, CompleteStep DEF Request
  <1>2. CASE Mail
    BY <1>2, DeliverStep, FinishStep, DieStep, ClaimStep DEF Mail
  <1>3. CASE LetterTime
    BY <1>3, AttemptAgesStep, RowTimeStep DEF LetterTime
  <1>4. CASE \E a \in Accounts : ResetPin(a) \/ ChangeContact(a)
    BY <1>4, OperatorStep
  <1>5. QED
    BY <1>1, <1>2, <1>3, <1>4 DEF RecoveryNext

-----------------------------------------------------------------------------
(* Orders. *)

USE CheckoutAssumption

OrderTypeOK ==
    /\ status \in [Accounts -> Statuses]
    /\ limit \in 1..MaxAccounts
    /\ credits \in [Accounts -> Nat]
    /\ product \in [Orders -> Products]
    /\ state \in [Orders -> Kinds \cup {"pending"}]
    /\ prepared \in [Orders -> BOOLEAN]
    /\ ticket \in [Orders -> Handlers \cup {Nobody}]
    /\ ticketLive \in [Orders -> BOOLEAN]
    /\ expired \in [Orders -> BOOLEAN]
    /\ envelope \in [Orders -> Accounts \cup {NoAccount}]
    /\ owner \in [Orders -> Accounts \cup {NoAccount}]
    /\ fulfilled \in [Orders -> BOOLEAN]
    /\ review \in [Orders -> BOOLEAN]
    /\ recorded \in [Orders -> SUBSET (Kinds \X Events)]
    /\ work \in [Handlers -> Orders \cup {NoOrder}]
    /\ shown \subseteq Orders
    /\ payment \in [Orders -> {"none", "captured", "late"} \cup Failures]
    /\ reversal \in [Orders -> Reversals \cup {"none"}]
    /\ acked \in [Orders -> SUBSET Kinds]

MemberSet == {a \in Accounts : Known(a)}

StatusesExist == \A a \in Accounts : status[a] = "none" <=> ~Known(a)
OwnersExist == \A o \in Orders : owner[o] # NoAccount => Known(owner[o])
MembersFit == Cardinality(MemberSet) <= limit

(* What holds of the orders, given the accounts. *)
OrderInv ==
    /\ OrderTypeOK /\ StatusesExist /\ OwnersExist /\ EnvelopesAreNew
    /\ PayableIsPrepared /\ PaidIsSettled /\ EventsTellState /\ AckIsTrue /\ MembersFit

FullInv == RecoveryInv /\ OrderInv

SameMembers == \A a \in Accounts : Known(a)' <=> Known(a)

LEMMA InvariantParts == FullInv <=> CheckoutInv /\ SentIsTaken /\ AckIsTrue
  <1>1. CheckoutTypeOK <=> RecoveryTypeOK /\ OrderTypeOK
    BY DEF CheckoutTypeOK, OrderTypeOK
  <1>2. MembersExist <=> RowsAreKnown /\ StatusesExist /\ OwnersExist
    BY DEF MembersExist, RowsAreKnown, StatusesExist, OwnersExist
  <1>3. TablesFit <=> QueueFits /\ MembersFit
    BY DEF TablesFit, QueueFits, MembersFit, MemberSet
  <1>4. QED
    BY <1>1, <1>2, <1>3 DEF FullInv, RecoveryInv, OrderInv, CheckoutInv

(* The four facts that depend on who is a member. *)
LEMMA SameMembersKeep ==
  ASSUME OrderInv, OrderTypeOK', SameMembers, limit' >= limit,
         \A a \in Accounts : status'[a] = "none" <=> status[a] = "none",
         \A o \in Orders : owner'[o] # owner[o] => Known(owner'[o])
  PROVE  StatusesExist' /\ OwnersExist' /\ MembersFit'
  <1>1. MemberSet' = MemberSet
    BY DEF MemberSet, SameMembers
  <1>2. Cardinality(MemberSet) \in Nat
    BY FS_Subset, FS_CardinalityType DEF MemberSet
  <1>3. limit \in Nat /\ limit' \in Nat
    BY DEF OrderInv, OrderTypeOK
  <1>4. MembersFit'
    BY <1>1, <1>2, <1>3 DEF OrderInv, MembersFit
  <1>5. StatusesExist'
    BY DEF OrderInv, StatusesExist, SameMembers
  <1>6. OwnersExist'
    BY DEF OrderInv, OrderTypeOK, OwnersExist, SameMembers
  <1>7. QED
    BY <1>4, <1>5, <1>6

(* Steps that leave the orders alone. *)
LEMMA OrderFrame ==
  ASSUME OrderInv, UNCHANGED <<orderVars, worldVars>>, SameMembers,
         status' \in [Accounts -> Statuses], limit' \in 1..MaxAccounts, limit' >= limit, UNCHANGED credits,
         \A a \in Accounts : status'[a] = "none" <=> status[a] = "none"
  PROVE  OrderInv'
  <1> USE DEF orderVars, worldVars
  <1>1. OrderTypeOK'
    BY DEF OrderInv, OrderTypeOK
  <1>2. StatusesExist' /\ OwnersExist' /\ MembersFit'
    BY <1>1, SameMembersKeep
  <1>3. EnvelopesAreNew'
    BY DEF OrderInv, OrderTypeOK, EnvelopesAreNew, SameMembers
  <1>4. PayableIsPrepared' /\ PaidIsSettled' /\ AckIsTrue'
    BY DEF OrderInv, PayableIsPrepared, PaidIsSettled, AckIsTrue
  <1>5. EventsTellState'
    BY DEF OrderInv, EventsTellState, Emitted
  <1>6. QED
    BY <1>1, <1>2, <1>3, <1>4, <1>5 DEF OrderInv

LEMMA RecoveryUnchanged ==
  ASSUME RecoveryInv, UNCHANGED recoveryVars
  PROVE  RecoveryInv' /\ SameMembers
  <1> USE DEF recoveryVars
  <1>1. SameMembers
    BY DEF SameMembers, Known
  <1>2. AttemptsAreTheirs'
    BY DEF RecoveryInv, AttemptsAreTheirs
  <1>3. QED
    BY <1>1, <1>2, QuietStep DEF RecoveryInv, RecoveryTypeOK, RowsAreKnown, Known

LEMMA RecoveryKeepsMembers ==
  ASSUME RecoveryInv, RecoveryNext
  PROVE  SameMembers
  <1>1. \A a \in Accounts : pin[a] \in Nat
    BY DEF RecoveryInv, RecoveryTypeOK
  <1>2. CASE UNCHANGED pin
    BY <1>2 DEF SameMembers, Known
  <1>3. ASSUME NEW i \in inbox, CompleteRecovery(i) PROVE SameMembers
    <2>1. i.account \in Accounts
      BY DEF RecoveryInv, RecoveryTypeOK, Letters
    <2>2. i.account \in Queued /\ pin' = [pin EXCEPT ![i.account] = @ + 1]
      BY <1>3 DEF CompleteRecovery
    <2>3. QED
      BY <1>1, <2>1, <2>2 DEF SameMembers, Known, RecoveryInv, RecoveryTypeOK, RowsAreKnown
  <1>4. ASSUME NEW a \in Accounts, ResetPin(a) PROVE SameMembers
    BY <1>1, <1>4 DEF ResetPin, SameMembers, Known, RecoveryInv, RecoveryTypeOK
  <1>5. \/ UNCHANGED pin
        \/ \E i \in inbox : CompleteRecovery(i)
        \/ \E a \in Accounts : ResetPin(a)
    <2>1. CASE Request
      BY <2>1 DEF Request, RefuseRecovery, QueueRecovery, BeginRecovery
    <2>2. CASE Mail
      BY <2>2 DEF Mail, Deliver, DeliverFails, FinishMail, Die, ClaimMail
    <2>3. CASE LetterTime
      BY <2>3 DEF LetterTime, AttemptAges, LeaseEnds, RetryDue, LinkExpires
    <2>4. CASE \E a \in Accounts : ResetPin(a) \/ ChangeContact(a)
      BY <2>4 DEF ChangeContact
    <2>5. QED
      BY <2>1, <2>2, <2>3, <2>4 DEF RecoveryNext
  <1>6. QED
    BY <1>2, <1>3, <1>4, <1>5

LEMMA LetterStep ==
  ASSUME FullInv, RecoveryNext, UNCHANGED <<memberVars, orderVars, worldVars>>
  PROVE  FullInv'
  <1>1. RecoveryInv' /\ SameMembers
    BY RecoveryStep, RecoveryKeepsMembers DEF FullInv
  <1>2. limit \in 1..MaxAccounts /\ status' \in [Accounts -> Statuses]
    BY DEF FullInv, OrderInv, OrderTypeOK, memberVars
  <1>3. limit' \in 1..MaxAccounts /\ limit' >= limit
    BY <1>2 DEF memberVars
  <1>4. OrderInv'
    BY <1>1, <1>2, <1>3, OrderFrame DEF FullInv, memberVars
  <1>5. QED
    BY <1>1, <1>4 DEF FullInv

-----------------------------------------------------------------------------
(* The owner and the operator. *)

LEMMA StatusStep ==
  ASSUME RecoveryInv, OrderInv, NEW a \in Accounts, NEW s \in Statuses \ {"none"},
         Known(a), SetStatus(a, s),
         UNCHANGED <<contact, attempt, row, held, phase, inbox>>
  PROVE  /\ RecoveryInv' /\ SameMembers /\ status' \in [Accounts -> Statuses]
         /\ status'[a] = s /\ \A b \in Accounts \ {a} : status'[b] = status[b]
         /\ \A b \in Accounts : status'[b] = "none" <=> status[b] = "none"
  <1>1. pin \in [Accounts -> Nat] /\ status \in [Accounts -> Statuses] /\ pin[a] > 0
    BY DEF RecoveryInv, RecoveryTypeOK, OrderInv, OrderTypeOK, Known
  <1>2. /\ pin' \in [Accounts -> Nat] /\ pin'[a] \in {pin[a], pin[a] + 1}
        /\ \A b \in Accounts \ {a} : pin'[b] = pin[b]
    BY <1>1 DEF SetStatus
  <1>3. SameMembers /\ \A b \in Accounts : pin'[b] >= pin[b]
    BY <1>1, <1>2 DEF SameMembers, Known
  <1>4. RecoveryInv'
    BY <1>2, <1>3, VersionStep DEF RecoveryInv, RecoveryTypeOK, RowsAreKnown, Known, SameMembers
  <1>5. /\ status' \in [Accounts -> Statuses]
        /\ status'[a] = s /\ \A b \in Accounts \ {a} : status'[b] = status[b]
    BY <1>1 DEF SetStatus
  <1>6. status[a] # "none"
    BY DEF OrderInv, StatusesExist
  <1>7. QED
    BY <1>3, <1>4, <1>5, <1>6

LEMMA MembershipStep == ASSUME FullInv, Membership PROVE FullInv'
  <1>1. limit \in 1..MaxAccounts /\ status \in [Accounts -> Statuses]
    BY DEF FullInv, OrderInv, OrderTypeOK
  <1>2. CASE RaiseLimit
    <2>1. /\ UNCHANGED <<orderVars, worldVars, credits, status, recoveryVars>>
          /\ limit' \in 1..MaxAccounts /\ limit' >= limit
      BY <1>1, <1>2 DEF RaiseLimit
    <2>2. RecoveryInv' /\ SameMembers
      BY <2>1, RecoveryUnchanged DEF FullInv
    <2>3. OrderInv'
      BY <1>1, <2>1, <2>2, OrderFrame DEF FullInv
    <2>4. QED
      BY <2>2, <2>3 DEF FullInv
  <1>3. ASSUME NEW a \in Accounts,
               \/ Login(a) \/ ExpiryNoticed(a) \/ OperatorRenews(a)
               \/ \E s \in OperatorStatuses : OperatorSets(a, s)
        PROVE  FullInv'
    <2>1. Known(a)
      BY <1>3 DEF FullInv, OrderInv, StatusesExist, Login, ExpiryNoticed, OperatorRenews, OperatorSets
    <2>2. PICK s \in OperatorStatuses : Standing(a, s)
      BY <1>3 DEF Login, ExpiryNoticed, OperatorRenews, OperatorSets, OperatorStatuses
    <2>3. /\ SetStatus(a, s)
          /\ UNCHANGED <<contact, attempt, row, held, phase, inbox, limit, credits, orderVars, worldVars>>
      BY <2>2 DEF Standing, mailerVars
    <2>4. s \in Statuses \ {"none"}
      BY DEF Statuses, OperatorStatuses
    <2>5. /\ RecoveryInv' /\ SameMembers /\ status' \in [Accounts -> Statuses]
          /\ \A b \in Accounts : status'[b] = "none" <=> status[b] = "none"
      BY <2>1, <2>3, <2>4, StatusStep DEF FullInv
    <2>6. limit' \in 1..MaxAccounts /\ limit' >= limit
      BY <1>1, <2>3
    <2>7. OrderInv'
      BY <2>3, <2>5, <2>6, OrderFrame DEF FullInv
    <2>8. QED
      BY <2>5, <2>7 DEF FullInv
  <1>4. QED
    BY <1>2, <1>3 DEF Membership

-----------------------------------------------------------------------------
(* Time, the provider and the forms: steps that leave the accounts alone. *)

LEMMA AccountsFrame ==
  ASSUME FullInv, UNCHANGED <<recoveryVars, memberVars>>, OrderTypeOK',
         \A o \in Orders : owner'[o] # owner[o] => Known(owner'[o]),
         EnvelopesAreNew', PayableIsPrepared', PaidIsSettled', EventsTellState', AckIsTrue'
  PROVE  FullInv'
  <1>1. RecoveryInv' /\ SameMembers
    BY RecoveryUnchanged DEF FullInv
  <1>2. limit' >= limit
    BY DEF FullInv, OrderInv, OrderTypeOK, memberVars
  <1>3. StatusesExist' /\ OwnersExist' /\ MembersFit'
    BY <1>1, <1>2, SameMembersKeep DEF FullInv, memberVars
  <1>4. QED
    BY <1>1, <1>3 DEF FullInv, OrderInv

LEMMA CheckoutTimeStep == ASSUME FullInv, CheckoutTime PROVE FullInv'
  <1>1. UNCHANGED <<recoveryVars, memberVars, product, state, prepared, ticket, envelope,
                    owner, fulfilled, review, recorded, work, shown, payment, reversal, acked>>
    BY DEF CheckoutTime, OrderExpires, TicketExpires, worldVars
  <1>2. /\ expired' \in [Orders -> BOOLEAN] /\ ticketLive' \in [Orders -> BOOLEAN]
        /\ \A o \in Orders : expired[o] => expired'[o]
    BY DEF CheckoutTime, OrderExpires, TicketExpires, FullInv, OrderInv, OrderTypeOK
  <1>3. OrderTypeOK'
    BY <1>1, <1>2 DEF FullInv, OrderInv, OrderTypeOK, memberVars
  <1>4. EnvelopesAreNew' /\ PaidIsSettled' /\ AckIsTrue'
    BY <1>1 DEF FullInv, OrderInv, EnvelopesAreNew, PaidIsSettled, AckIsTrue, Known, recoveryVars
  <1>5. EventsTellState'
    BY <1>1 DEF FullInv, OrderInv, EventsTellState, Emitted
  <1>6. PayableIsPrepared'
    BY <1>1, <1>2 DEF FullInv, OrderInv, PayableIsPrepared
  <1>7. QED
    BY <1>1, <1>3, <1>4, <1>5, <1>6, AccountsFrame

LEMMA ProviderStep == ASSUME FullInv, Provider PROVE FullInv'
  <1>1. UNCHANGED <<recoveryVars, memberVars, product, state, prepared, ticket, ticketLive, expired,
                    envelope, owner, fulfilled, review, recorded, work, shown, acked>>
    BY DEF Provider, Pay, FailPayment, Reverse, orderVars
  <1>2. /\ payment' \in [Orders -> {"none", "captured", "late"} \cup Failures]
        /\ reversal' \in [Orders -> Reversals \cup {"none"}]
        /\ \A o \in Orders : payment'[o] # payment[o] =>
              payment[o] = "none" /\ o \in shown /\ (payment'[o] = "captured" => ~expired[o])
        /\ \A o \in Orders : reversal'[o] # reversal[o] => reversal[o] = "none"
    BY DEF Provider, Pay, FailPayment, Reverse, FullInv, OrderInv, OrderTypeOK, Failures
  <1>3. OrderTypeOK'
    BY <1>1, <1>2 DEF FullInv, OrderInv, OrderTypeOK, memberVars
  <1>4. EnvelopesAreNew' /\ PaidIsSettled' /\ AckIsTrue'
    BY <1>1 DEF FullInv, OrderInv, EnvelopesAreNew, PaidIsSettled, AckIsTrue, Known, recoveryVars
  <1>5. EventsTellState'
    <2>1. \A o \in Orders, k \in Kinds : Emitted(o, k) => Emitted(o, k)'
      BY <1>2 DEF Emitted, Failures, Reversals
    <2>2. \A o \in Orders : recorded[o] \in SUBSET (Kinds \X Events)
      BY DEF FullInv, OrderInv, OrderTypeOK
    <2>3. \A o \in Orders : \A r \in recorded[o] : r[1] \in Kinds
      BY <2>2
    <2>4. \A o \in Orders : \A r \in recorded[o] : Emitted(o, r[1])'
      BY <2>1, <2>3 DEF FullInv, OrderInv, EventsTellState
    <2>5. QED
      BY <1>1, <2>4 DEF FullInv, OrderInv, EventsTellState
  <1>6. PayableIsPrepared'
    BY <1>1, <1>2 DEF FullInv, OrderInv, PayableIsPrepared
  <1>7. QED
    BY <1>1, <1>3, <1>4, <1>5, <1>6, AccountsFrame

LEMMA RenewalFormStep ==
  ASSUME FullInv, NEW o \in Orders, NEW a \in Accounts, CreateRenewal(o, a)
  PROVE  FullInv'
  <1>1. UNCHANGED <<recoveryVars, memberVars, state, ticket, ticketLive, expired,
                    envelope, fulfilled, review, recorded, work, payment, reversal, acked>>
    BY DEF CreateRenewal
  <1>2. /\ product' \in [Orders -> Products] /\ prepared' \in [Orders -> BOOLEAN]
        /\ owner' \in [Orders -> Accounts \cup {NoAccount}]
        /\ shown' \in {shown, shown \cup {o}}
        /\ product'[o] = "renewal" /\ product[o] \in {"none", "renewal"}
        /\ owner'[o] = a /\ (product[o] = "none" => prepared'[o] /\ contact[a] > 0)
        /\ product[o] # "none" => UNCHANGED <<product, prepared, owner>>
        /\ \A u \in Orders \ {o} :
              product'[u] = product[u] /\ prepared'[u] = prepared[u] /\ owner'[u] = owner[u]
    <2>1. /\ product \in [Orders -> Products] /\ prepared \in [Orders -> BOOLEAN]
          /\ owner \in [Orders -> Accounts \cup {NoAccount}] /\ "renewal" \in Products
          /\ shown' \in {shown, shown \cup {o}}
      BY DEF CreateRenewal, Answer, FullInv, OrderInv, OrderTypeOK, Products
    <2>2. CASE product[o] = "none"
      <3>1. /\ contact[a] > 0
            /\ product' = [product EXCEPT ![o] = "renewal"]
            /\ prepared' = [prepared EXCEPT ![o] = TRUE]
            /\ owner' = [owner EXCEPT ![o] = a]
        BY <2>2 DEF CreateRenewal
      <3>2. QED
        BY <2>1, <2>2, <3>1
    <2>3. CASE product[o] # "none"
      <3>1. product[o] = "renewal" /\ owner[o] = a /\ UNCHANGED <<product, prepared, owner>>
        BY <2>3 DEF CreateRenewal
      <3>2. QED
        BY <2>1, <2>3, <3>1
    <2>4. QED
      BY <2>2, <2>3
  <1>3. prepared'[o] /\ owner'[o] # NoAccount
    BY <1>2 DEF FullInv, OrderInv, PayableIsPrepared
  <1>4. OrderTypeOK'
    BY <1>1, <1>2 DEF FullInv, OrderInv, OrderTypeOK, memberVars
  <1>5. EnvelopesAreNew'
    BY <1>1, <1>2, <1>3 DEF FullInv, OrderInv, EnvelopesAreNew, Known, recoveryVars
  <1>6. PayableIsPrepared'
    <2>1. \A u \in Orders \ {o} : u \in shown' => u \in shown
      BY <1>2
    <2>2. ticket'[o] = Nobody
      BY <1>1, <1>2 DEF FullInv, OrderInv, PayableIsPrepared, Purchases
    <2>3. payment'[o] # "none" => o \in shown'
      BY <1>1, <1>2 DEF FullInv, OrderInv, PayableIsPrepared
    <2>4. "renewal" \notin Purchases /\ "renewal" # "none"
      BY DEF Purchases
    <2>5. QED
      BY <1>1, <1>2, <1>3, <2>1, <2>2, <2>3, <2>4 DEF FullInv, OrderInv, PayableIsPrepared
  <1>7. PaidIsSettled'
    BY <1>1, <1>2, <1>3 DEF FullInv, OrderInv, PaidIsSettled
  <1>8. AckIsTrue'
    BY <1>1 DEF FullInv, OrderInv, AckIsTrue
  <1>9. EventsTellState'
    BY <1>1 DEF FullInv, OrderInv, EventsTellState, Emitted
  <1>10. \A u \in Orders : owner'[u] # owner[u] => Known(owner'[u])
    BY <1>2 DEF FullInv, RecoveryInv, RowsAreKnown
  <1>11. QED
    BY <1>1, <1>4, <1>5, <1>6, <1>7, <1>8, <1>9, <1>10, AccountsFrame

LEMMA PurchaseFormStep ==
  ASSUME FullInv, NEW h \in Handlers, NEW o \in Orders, NEW p \in Purchases, BeginPurchase(h, o, p)
  PROVE  FullInv'
  <1>1. UNCHANGED <<recoveryVars, memberVars, state, prepared, expired, envelope, owner,
                    fulfilled, review, recorded, shown, payment, reversal, acked>>
    BY DEF BeginPurchase
  <1>2. /\ work' \in [Handlers -> Orders \cup {NoOrder}] /\ ticket' \in [Orders -> Handlers \cup {Nobody}]
        /\ ticketLive' \in [Orders -> BOOLEAN] /\ product' \in [Orders -> Products]
        /\ product'[o] = p /\ product[o] \in {"none", p}
        /\ product[o] = p => ~prepared[o] /\ state[o] = "pending" /\ ~expired[o]
        /\ \A u \in Orders \ {o} : product'[u] = product[u] /\ ticket'[u] = ticket[u]
    <2>1. p \in Products
      BY DEF Products
    <2>2. product' \in [Orders -> Products] /\ product'[o] = p /\ product[o] \in {"none", p}
      BY <2>1 DEF BeginPurchase, FullInv, OrderInv, OrderTypeOK
    <2>3. product[o] = p => ~prepared[o] /\ state[o] = "pending" /\ ~expired[o]
      BY DEF BeginPurchase, Purchases
    <2>4. \A u \in Orders \ {o} : product'[u] = product[u] /\ ticket'[u] = ticket[u]
      BY DEF BeginPurchase, TakeTicket, FullInv, OrderInv, OrderTypeOK
    <2>5. /\ work' \in [Handlers -> Orders \cup {NoOrder}] /\ ticket' \in [Orders -> Handlers \cup {Nobody}]
          /\ ticketLive' \in [Orders -> BOOLEAN]
      BY DEF BeginPurchase, TakeTicket, FullInv, OrderInv, OrderTypeOK
    <2>6. QED
      BY <2>2, <2>3, <2>4, <2>5
  <1>3. ~prepared[o] /\ p # "none" /\ p # "renewal"
    BY <1>2 DEF FullInv, OrderInv, PayableIsPrepared, Purchases
  <1>4. OrderTypeOK'
    BY <1>1, <1>2 DEF FullInv, OrderInv, OrderTypeOK, memberVars
  <1>5. EnvelopesAreNew'
    BY <1>1 DEF FullInv, OrderInv, EnvelopesAreNew, Known, recoveryVars
  <1>6. PayableIsPrepared'
    BY <1>1, <1>2, <1>3 DEF FullInv, OrderInv, PayableIsPrepared
  <1>7. PaidIsSettled' /\ AckIsTrue'
    BY <1>1 DEF FullInv, OrderInv, PaidIsSettled, AckIsTrue
  <1>8. EventsTellState'
    BY <1>1 DEF FullInv, OrderInv, EventsTellState, Emitted
  <1>9. QED
    BY <1>1, <1>4, <1>5, <1>6, <1>7, <1>8, AccountsFrame

LEMMA RepeatFormStep == ASSUME FullInv, NEW o \in Orders, RepeatPurchase(o) PROVE FullInv'
  <1>1. UNCHANGED <<recoveryVars, memberVars, product, state, prepared, ticket, ticketLive, expired,
                    envelope, owner, fulfilled, review, recorded, work, payment, reversal, acked>>
    BY DEF RepeatPurchase, orderVars
  <1>2. /\ shown' \in {shown, shown \cup {o}} /\ product[o] \in Purchases
        /\ prepared[o] \/ state[o] # "pending" \/ expired[o]
    BY DEF RepeatPurchase, Answer
  <1>3. OrderTypeOK'
    BY <1>1, <1>2 DEF FullInv, OrderInv, OrderTypeOK, memberVars
  <1>4. EnvelopesAreNew'
    BY <1>1 DEF FullInv, OrderInv, EnvelopesAreNew, Known, recoveryVars
  <1>5. PayableIsPrepared'
    BY <1>1, <1>2 DEF FullInv, OrderInv, PayableIsPrepared, Purchases
  <1>6. PaidIsSettled' /\ AckIsTrue'
    BY <1>1 DEF FullInv, OrderInv, PaidIsSettled, AckIsTrue
  <1>7. EventsTellState'
    BY <1>1 DEF FullInv, OrderInv, EventsTellState, Emitted
  <1>8. QED
    BY <1>1, <1>3, <1>4, <1>5, <1>6, <1>7, AccountsFrame

LEMMA AbandonStep == ASSUME FullInv, NEW h \in Handlers, AbandonPurchase(h) PROVE FullInv'
  <1>1. /\ UNCHANGED <<recoveryVars, memberVars, orderVars, shown, payment, reversal, acked>>
        /\ work' = [work EXCEPT ![h] = NoOrder]
    BY DEF AbandonPurchase
  <1>2. OrderTypeOK'
    BY <1>1 DEF FullInv, OrderInv, OrderTypeOK, memberVars, orderVars
  <1>3. EnvelopesAreNew'
    BY <1>1 DEF FullInv, OrderInv, EnvelopesAreNew, Known, recoveryVars, orderVars
  <1>4. PayableIsPrepared' /\ PaidIsSettled' /\ AckIsTrue'
    BY <1>1 DEF FullInv, OrderInv, PayableIsPrepared, PaidIsSettled, AckIsTrue, orderVars
  <1>5. EventsTellState'
    BY <1>1 DEF FullInv, OrderInv, EventsTellState, Emitted, orderVars
  <1>6. QED
    BY <1>1, <1>2, <1>3, <1>4, <1>5, AccountsFrame DEF orderVars

LEMMA PrepareStep == ASSUME FullInv, NEW h \in Handlers, PreparePurchase(h) PROVE FullInv'
  <1> DEFINE o == work[h]
  <1>1. /\ UNCHANGED <<recoveryVars, memberVars, product, state, expired, owner,
                       fulfilled, review, recorded, payment, reversal, acked>>
        /\ work' = [work EXCEPT ![h] = NoOrder]
        /\ state[o] = "pending" /\ ~prepared[o] /\ ~expired[o] /\ ticket[o] = h
        /\ prepared' = [prepared EXCEPT ![o] = TRUE]
        /\ ticket' = [ticket EXCEPT ![o] = Nobody]
        /\ ticketLive' = [ticketLive EXCEPT ![o] = FALSE]
        /\ shown' \in {shown, shown \cup {o}}
    BY DEF PreparePurchase, Answer
  <1>2. o \in Orders
    BY DEF PreparePurchase, FullInv, OrderInv, OrderTypeOK
  <1>3. PICK a \in Accounts : /\ ~Known(a) /\ \A u \in Orders : envelope[u] # a
                              /\ envelope' = [envelope EXCEPT ![o] = a]
    BY DEF PreparePurchase
  <1> HIDE DEF o
  <1>4. product[o] \in Purchases
    BY <1>1, <1>2 DEF FullInv, OrderInv, PayableIsPrepared
  <1>5. OrderTypeOK'
    BY <1>1, <1>2, <1>3 DEF FullInv, OrderInv, OrderTypeOK, memberVars
  <1>6. /\ envelope'[o] = a /\ prepared'[o] /\ ticket'[o] = Nobody
        /\ \A u \in Orders \ {o} : /\ envelope'[u] = envelope[u] /\ prepared'[u] = prepared[u]
                                   /\ ticket'[u] = ticket[u] /\ (u \in shown' => u \in shown)
    BY <1>1, <1>2, <1>3 DEF FullInv, OrderInv, OrderTypeOK
  <1>7. EnvelopesAreNew'
    BY <1>1, <1>3, <1>6 DEF FullInv, OrderInv, EnvelopesAreNew, Known, recoveryVars
  <1>8. PayableIsPrepared'
    <2>1. product[o] # "none" /\ product[o] # "renewal"
      BY <1>4 DEF Purchases
    <2>2. payment'[o] # "none" => o \in shown'
      BY <1>1, <1>2 DEF FullInv, OrderInv, PayableIsPrepared
    <2>3. QED
      BY <1>1, <1>2, <1>3, <1>6, <2>1, <2>2 DEF FullInv, OrderInv, PayableIsPrepared
  <1>9. PaidIsSettled' /\ AckIsTrue'
    BY <1>1 DEF FullInv, OrderInv, PaidIsSettled, AckIsTrue
  <1>10. EventsTellState'
    BY <1>1 DEF FullInv, OrderInv, EventsTellState, Emitted
  <1>11. QED
    BY <1>1, <1>5, <1>7, <1>8, <1>9, <1>10, AccountsFrame

-----------------------------------------------------------------------------
(* Events. *)

(* The order of an event that may be applied has no such event on record, and  *)
(* was answered nothing that the event could make untrue.                      *)
LEMMA OpenOrder ==
  ASSUME FullInv, NEW o \in Orders, NEW k \in Kinds, NEW e \in Events, Admissible(o, k, e)
  PROVE  /\ state[o] \in {"pending", "paid"}
         /\ state[o] = "paid" => k \in Reversals
         /\ state[o] = "pending" =>
              /\ recorded[o] = {} /\ ~fulfilled[o] /\ ~review[o] /\ "paid" \notin acked[o]
         /\ acked[o] \cap Reversals = {}
         /\ \A r \in recorded[o] : r[1] = "paid" /\ state[o] = "paid"
  <1>1. /\ state[o] \in {"pending", "paid"} /\ (state[o] = "paid" => k \in Reversals)
        /\ Emitted(o, k) /\ InTime(o, k)
    BY DEF Admissible
  <1>2. recorded[o] \subseteq Kinds \X Events
    BY DEF FullInv, OrderInv, OrderTypeOK
  <1>3. \A r \in recorded[o] : r[1] = "paid" /\ state[o] = "paid"
    BY <1>1, <1>2 DEF FullInv, OrderInv, EventsTellState, Kinds, Failures, Reversals
  <1>4. state[o] = "pending" => ~fulfilled[o] /\ ~review[o]
    BY DEF FullInv, OrderInv, PaidIsSettled, Reversals
  <1>5. state[o] = "pending" => "paid" \notin acked[o]
    BY <1>4 DEF FullInv, OrderInv, AckIsTrue
  <1>6. acked[o] \cap Reversals = {}
    BY <1>1 DEF FullInv, OrderInv, AckIsTrue, Reversals
  <1>7. state[o] = "pending" => recorded[o] = {}
    BY <1>3
  <1>8. QED
    BY <1>1, <1>3, <1>4, <1>5, <1>6, <1>7

(* What every applied event does to its order. *)
LEMMA RecordStep ==
  ASSUME FullInv, NEW o \in Orders, NEW k \in Kinds, NEW e \in Events,
         Admissible(o, k, e), Record(o, k, e),
         status' \in [Accounts -> Statuses], credits' \in [Accounts -> Nat],
         owner' \in [Orders -> Accounts \cup {NoAccount}],
         fulfilled' \in [Orders -> BOOLEAN], review' \in [Orders -> BOOLEAN],
         \A u \in Orders \ {o} :
            /\ owner'[u] = owner[u] /\ fulfilled'[u] = fulfilled[u] /\ review'[u] = review[u]
            /\ envelope[u] # NoAccount => ~(pin'[envelope[u]] > 0),
         product[o] = "renewal" => owner'[o] # NoAccount,
         k = "paid" => fulfilled'[o] \/ review'[o],
         k # "paid" => fulfilled'[o] = fulfilled[o] /\ review'[o] = review[o],
         fulfilled'[o] => ~review'[o] /\ owner'[o] # NoAccount
  PROVE  /\ OrderTypeOK' /\ EnvelopesAreNew' /\ PayableIsPrepared'
         /\ PaidIsSettled' /\ EventsTellState' /\ AckIsTrue'
  <1>1. OrderTypeOK
    BY DEF FullInv, OrderInv
  <1>2. /\ UNCHANGED <<limit, product, prepared, expired, work, shown, payment, reversal>>
        /\ state' = [state EXCEPT ![o] = k]
        /\ recorded' = [recorded EXCEPT ![o] = @ \cup {<<k, e>>}]
        /\ envelope' = [envelope EXCEPT ![o] = NoAccount]
        /\ ticket' = [ticket EXCEPT ![o] = Nobody]
        /\ ticketLive' = [ticketLive EXCEPT ![o] = FALSE]
        /\ acked' = [acked EXCEPT ![o] = @ \cup {k}]
    BY DEF Record, Answered
  <1>3. /\ state'[o] = k /\ envelope'[o] = NoAccount /\ ticket'[o] = Nobody
        /\ recorded'[o] = recorded[o] \cup {<<k, e>>} /\ acked'[o] = acked[o] \cup {k}
        /\ \A u \in Orders \ {o} :
              /\ state'[u] = state[u] /\ envelope'[u] = envelope[u] /\ ticket'[u] = ticket[u]
              /\ recorded'[u] = recorded[u] /\ acked'[u] = acked[u]
    BY <1>1, <1>2 DEF OrderTypeOK
  <1>4. k # "pending"
    BY DEF Kinds, Failures, Reversals
  <1>5. OrderTypeOK'
    <2>1. <<k, e>> \in Kinds \X Events
      OBVIOUS
    <2>2. /\ state' \in [Orders -> Kinds \cup {"pending"}]
          /\ envelope' \in [Orders -> Accounts \cup {NoAccount}]
          /\ ticket' \in [Orders -> Handlers \cup {Nobody}]
          /\ ticketLive' \in [Orders -> BOOLEAN]
      BY <1>1, <1>2 DEF OrderTypeOK
    <2>3. recorded' \in [Orders -> SUBSET (Kinds \X Events)] /\ acked' \in [Orders -> SUBSET Kinds]
      BY <1>1, <1>2, <2>1 DEF OrderTypeOK
    <2>4. QED
      BY <1>1, <1>2, <2>2, <2>3 DEF OrderTypeOK
  <1>6. EnvelopesAreNew'
    BY <1>2, <1>3 DEF FullInv, OrderInv, EnvelopesAreNew, Known
  <1>7. PayableIsPrepared'
    BY <1>2, <1>3, <1>4 DEF FullInv, OrderInv, PayableIsPrepared
  <1>8. PaidIsSettled'
    <2>1. state'[o] = "paid" => fulfilled'[o] \/ review'[o]
      BY <1>3
    <2>2. k \in Failures => ~fulfilled'[o] /\ ~review'[o]
      BY OpenOrder DEF Failures, Reversals
    <2>3. k \in {"paid"} \cup Reversals \/ k \in Failures
      BY DEF Kinds
    <2>4. QED
      BY <1>3, <2>1, <2>2, <2>3 DEF FullInv, OrderInv, PaidIsSettled
  <1>9. EventsTellState'
    <2>1. Emitted(o, k)
      BY DEF Admissible
    <2>2. ASSUME NEW r \in recorded'[o]
          PROVE  /\ Emitted(o, r[1])'
                 /\ r[1] = state'[o] \/ (r[1] = "paid" /\ state'[o] \in Reversals)
                 /\ r[1] = "paid" => fulfilled'[o] \/ review'[o]
      <3>1. CASE r = <<k, e>>
        BY <1>2, <1>3, <2>1, <3>1 DEF Emitted
      <3>2. CASE r \in recorded[o]
        <4>1. r[1] = "paid" /\ k \in Reversals /\ Emitted(o, r[1]) /\ (fulfilled[o] \/ review[o])
          BY <3>2, OpenOrder DEF FullInv, OrderInv, EventsTellState
        <4>2. QED
          BY <1>2, <1>3, <4>1 DEF Emitted, Reversals
      <3>3. QED
        BY <1>3, <3>1, <3>2
    <2>3. ASSUME NEW u \in Orders \ {o}, NEW r \in recorded'[u]
          PROVE  /\ Emitted(u, r[1])'
                 /\ r[1] = state'[u] \/ (r[1] = "paid" /\ state'[u] \in Reversals)
                 /\ r[1] = "paid" => fulfilled'[u] \/ review'[u]
      BY <1>2, <1>3 DEF FullInv, OrderInv, EventsTellState, Emitted
    <2>4. QED
      BY <2>2, <2>3 DEF EventsTellState
  <1>10. AckIsTrue'
    <2>1. "paid" \in acked'[o] => fulfilled'[o] \/ review'[o]
      <3>1. CASE k = "paid"
        BY <3>1
      <3>2. CASE k # "paid"
        BY <1>3, <3>2 DEF FullInv, OrderInv, AckIsTrue
      <3>3. QED
        BY <3>1, <3>2
    <2>2. \A j \in Reversals \cap acked'[o] : state'[o] = j
      BY <1>3, OpenOrder
    <2>3. QED
      BY <1>3, <2>1, <2>2 DEF FullInv, OrderInv, AckIsTrue
  <1>11. QED
    BY <1>5, <1>6, <1>7, <1>8, <1>9, <1>10

(* Events that make no member. *)
LEMMA EventFrame ==
  ASSUME FullInv, NEW o \in Orders, NEW k \in Kinds, NEW e \in Events,
         Admissible(o, k, e), Record(o, k, e), RecoveryInv', SameMembers, UNCHANGED owner,
         status' \in [Accounts -> Statuses], credits' \in [Accounts -> Nat],
         \A a \in Accounts : status'[a] = "none" <=> status[a] = "none",
         fulfilled' \in [Orders -> BOOLEAN], review' \in [Orders -> BOOLEAN],
         \A u \in Orders \ {o} : fulfilled'[u] = fulfilled[u] /\ review'[u] = review[u],
         k = "paid" => fulfilled'[o] \/ review'[o],
         k # "paid" => fulfilled'[o] = fulfilled[o] /\ review'[o] = review[o],
         fulfilled'[o] => ~review'[o] /\ owner[o] # NoAccount
  PROVE  FullInv'
  <1>1. owner \in [Orders -> Accounts \cup {NoAccount}] /\ envelope \in [Orders -> Accounts \cup {NoAccount}]
    BY DEF FullInv, OrderInv, OrderTypeOK
  <1>2. \A u \in Orders : envelope[u] # NoAccount => ~(pin'[envelope[u]] > 0)
    BY <1>1 DEF FullInv, OrderInv, EnvelopesAreNew, SameMembers, Known
  <1>3. product[o] = "renewal" => owner[o] # NoAccount
    BY DEF FullInv, OrderInv, PayableIsPrepared
  <1>4. /\ OrderTypeOK' /\ EnvelopesAreNew' /\ PayableIsPrepared'
        /\ PaidIsSettled' /\ EventsTellState' /\ AckIsTrue'
    BY <1>1, <1>2, <1>3, RecordStep
  <1>5. limit' >= limit
    BY DEF Record, FullInv, OrderInv, OrderTypeOK
  <1>6. StatusesExist' /\ OwnersExist' /\ MembersFit'
    BY <1>4, <1>5, SameMembersKeep DEF FullInv
  <1>7. QED
    BY <1>4, <1>6 DEF FullInv, OrderInv

LEMMA HearAgainStep ==
  ASSUME FullInv, NEW o \in Orders, NEW k \in Kinds, NEW e \in Events, HearAgain(o, k, e)
  PROVE  FullInv'
  <1>1. /\ UNCHANGED <<recoveryVars, memberVars, orderVars, work, shown, payment, reversal>>
        /\ acked' = [acked EXCEPT ![o] = @ \cup {k}]
    BY DEF HearAgain, Answered
  <1>2. OrderTypeOK'
    BY <1>1 DEF FullInv, OrderInv, OrderTypeOK, memberVars, orderVars
  <1>3. EnvelopesAreNew'
    BY <1>1 DEF FullInv, OrderInv, EnvelopesAreNew, Known, recoveryVars, orderVars
  <1>4. PayableIsPrepared' /\ PaidIsSettled'
    BY <1>1 DEF FullInv, OrderInv, PayableIsPrepared, PaidIsSettled, orderVars
  <1>5. EventsTellState'
    BY <1>1 DEF FullInv, OrderInv, EventsTellState, Emitted, orderVars
  <1>6. AckIsTrue'
    <2>1. <<k, e>> \in recorded[o] \/ state[o] = k
      BY DEF HearAgain, Repeated
    <2>2. ASSUME <<k, e>> \in recorded[o]
          PROVE  /\ k = state[o] \/ (k = "paid" /\ state[o] \in Reversals)
                 /\ k = "paid" => fulfilled[o] \/ review[o]
      <3>1. PICK r \in recorded[o] : r = <<k, e>>
        BY <2>2
      <3>2. r[1] = k
        BY <3>1
      <3>3. QED
        BY <3>2 DEF FullInv, OrderInv, EventsTellState
    <2>3. k = "paid" => fulfilled[o] \/ review[o]
      BY <2>1, <2>2 DEF FullInv, OrderInv, PaidIsSettled
    <2>4. k \in Reversals => state[o] = k
      BY <2>1, <2>2 DEF Reversals
    <2>5. acked'[o] = acked[o] \cup {k} /\ \A u \in Orders \ {o} : acked'[u] = acked[u]
      BY <1>1 DEF FullInv, OrderInv, OrderTypeOK
    <2>6. UNCHANGED <<state, fulfilled, review>>
      BY <1>1 DEF orderVars
    <2>7. QED
      BY <2>3, <2>4, <2>5, <2>6 DEF FullInv, OrderInv, AckIsTrue
  <1>7. QED
    BY <1>1, <1>2, <1>3, <1>4, <1>5, <1>6, AccountsFrame DEF orderVars

(* A granted purchase makes a member, with room for it and its letter. *)
LEMMA FulfilPurchaseStep ==
  ASSUME FullInv, NEW o \in Orders, NEW e \in Events, FulfilPurchase(o, e)
  PROVE  FullInv' /\ envelope[o] \in Accounts /\ ~Known(envelope[o])
  <1> DEFINE a == envelope[o]
  <1>1. /\ Admissible(o, "paid", e) /\ Record(o, "paid", e)
        /\ product[o] \in Purchases /\ prepared[o] /\ ~Full
        /\ status' = [status EXCEPT ![a] = IF product[o] = "delayed" THEN "delayed" ELSE "new"]
        /\ pin' = [pin EXCEPT ![a] = 1] /\ contact' = [contact EXCEPT ![a] = 1]
        /\ credits' = [credits EXCEPT ![a] = @ + 1]
        /\ owner' = [owner EXCEPT ![o] = a]
        /\ fulfilled' = [fulfilled EXCEPT ![o] = TRUE] /\ UNCHANGED review
    BY DEF FulfilPurchase
  <1>2. PICK l \in Links : FreshLink(l) /\ row' = [row EXCEPT ![a] = NewRow(NewLetter(l, a, 1, 1))]
    BY DEF FulfilPurchase
  <1>3. state[o] = "pending" /\ "paid" \in Kinds /\ "paid" \notin Reversals
    BY <1>1, OpenOrder DEF Kinds, Reversals
  <1>4. a \in Accounts /\ ~Known(a)
    BY <1>1, <1>3 DEF FullInv, OrderInv, OrderTypeOK, PayableIsPrepared, EnvelopesAreNew
  <1>5. \A u \in Orders \ {o} : envelope[u] # a
    BY <1>4 DEF FullInv, OrderInv, EnvelopesAreNew
  <1> HIDE DEF a
  <1>6. /\ pin \in [Accounts -> Nat] /\ contact \in [Accounts -> 0..MaxContacts]
        /\ 1 \in 1..MaxContacts /\ 1 \in Nat \ {0} /\ pin[a] = 0 /\ contact[a] = 0 /\ a \notin Queued
    BY <1>4 DEF FullInv, RecoveryInv, RecoveryTypeOK, RowsAreKnown, Known
  <1>7. /\ pin'[a] = 1 /\ contact'[a] = 1
        /\ \A b \in Accounts \ {a} : pin'[b] = pin[b] /\ contact'[b] = contact[b]
        /\ pin' \in [Accounts -> Nat] /\ contact' \in [Accounts -> 0..MaxContacts]
    BY <1>1, <1>4, <1>6
  <1>8. \A b \in Accounts : /\ pin'[b] >= pin[b] /\ contact'[b] >= contact[b]
                            /\ contact'[b] > 0 => pin'[b] > 0
    BY <1>6, <1>7 DEF FullInv, RecoveryInv, RowsAreKnown, Known
  <1>9. /\ UNCHANGED <<attempt, held, phase, inbox, limit>>
        /\ attempt' \in [Tickets -> Attempts] /\ AttemptsAreTheirs'
    BY <1>1 DEF Record, mailerVars, FullInv, RecoveryInv, RecoveryTypeOK, AttemptsAreTheirs
  <1>10. Cardinality(Queued) < RecoveryLimit /\ Cardinality(MemberSet) < limit
    <2>1. Cardinality(MemberSet) \in Nat /\ limit \in Nat
      BY FS_Subset, FS_CardinalityType DEF MemberSet, FullInv, OrderInv, OrderTypeOK
    <2>2. QED
      BY <1>1, <2>1, QueuedFinite DEF Full, MemberSet
  <1>11. RecoveryInv'
    <2>1. pin'[a] >= 1 /\ contact'[a] >= 1
      BY <1>7
    <2>2. QED
      BY <1>2, <1>4, <1>6, <1>7, <1>8, <1>9, <1>10, <2>1, NewLetterStep DEF FullInv
  <1>12. /\ status' \in [Accounts -> Statuses] /\ status'[a] # "none"
         /\ \A b \in Accounts \ {a} : status'[b] = status[b]
         /\ credits' \in [Accounts -> Nat] /\ owner' \in [Orders -> Accounts \cup {NoAccount}]
         /\ fulfilled' \in [Orders -> BOOLEAN] /\ review' \in [Orders -> BOOLEAN]
         /\ fulfilled'[o] /\ owner'[o] = a
         /\ \A u \in Orders \ {o} : owner'[u] = owner[u] /\ fulfilled'[u] = fulfilled[u]
    BY <1>1, <1>4 DEF FullInv, OrderInv, OrderTypeOK, Statuses
  <1>13. ~review'[o] /\ a # NoAccount
    BY <1>1, <1>3, <1>4, OpenOrder
  <1>14. \A u \in Orders \ {o} : envelope[u] # NoAccount => ~(pin'[envelope[u]] > 0)
    BY <1>5, <1>7 DEF FullInv, OrderInv, OrderTypeOK, EnvelopesAreNew, Known
  <1>15. /\ OrderTypeOK' /\ EnvelopesAreNew' /\ PayableIsPrepared'
         /\ PaidIsSettled' /\ EventsTellState' /\ AckIsTrue'
    BY <1>1, <1>3, <1>12, <1>13, <1>14, RecordStep
  <1>16. StatusesExist'
    BY <1>6, <1>7, <1>12 DEF FullInv, OrderInv, StatusesExist, Known
  <1>17. OwnersExist'
    <2>1. owner'[o] # NoAccount => pin'[owner'[o]] > 0
      BY <1>7, <1>12
    <2>2. \A u \in Orders \ {o} : owner'[u] # NoAccount => pin'[owner'[u]] > 0
      BY <1>6, <1>7, <1>12 DEF FullInv, OrderInv, OrderTypeOK, OwnersExist, Known
    <2>3. QED
      BY <2>1, <2>2 DEF OwnersExist, Known
  <1>18. MembersFit'
    <2>1. MemberSet' = MemberSet \cup {a} /\ a \notin MemberSet
      BY <1>4, <1>6, <1>7 DEF MemberSet, Known
    <2>2. IsFiniteSet(MemberSet) /\ Cardinality(MemberSet) \in Nat /\ limit \in Nat
      BY FS_Subset, FS_CardinalityType DEF MemberSet, FullInv, OrderInv, OrderTypeOK
    <2>3. Cardinality(MemberSet') = Cardinality(MemberSet) + 1
      BY <2>1, <2>2, FS_AddElement
    <2>4. QED
      BY <1>9, <1>10, <2>2, <2>3 DEF MembersFit
  <1>19. QED
    BY <1>4, <1>11, <1>15, <1>16, <1>17, <1>18 DEF FullInv, OrderInv, a

LEMMA FulfilRenewalStep ==
  ASSUME FullInv, NEW o \in Orders, NEW e \in Events, FulfilRenewal(o, e)
  PROVE  FullInv' /\ \A a \in Accounts : status'[a] = status[a] \/ ~Restricted(a)
  <1>1. /\ Admissible(o, "paid", e) /\ Record(o, "paid", e) /\ Extendable(o)
        /\ SetStatus(owner[o], "active")
        /\ credits' = [credits EXCEPT ![owner[o]] = @ + 1]
        /\ fulfilled' = [fulfilled EXCEPT ![o] = TRUE]
        /\ UNCHANGED <<contact, row, owner, review>>
    BY DEF FulfilRenewal
  <1>2. "paid" \in Kinds /\ "active" \in Statuses \ {"none"}
    BY DEF Kinds, Statuses
  <1>3. owner[o] \in Accounts /\ Known(owner[o]) /\ InGoodStanding(owner[o])
    BY <1>1 DEF Extendable, FullInv, OrderInv, OrderTypeOK, OwnersExist
  <1>4. UNCHANGED <<contact, attempt, row, held, phase, inbox>>
    BY <1>1 DEF Record, mailerVars
  <1>5. /\ RecoveryInv' /\ SameMembers /\ status' \in [Accounts -> Statuses]
        /\ \A b \in Accounts \ {owner[o]} : status'[b] = status[b]
        /\ \A b \in Accounts : status'[b] = "none" <=> status[b] = "none"
    BY <1>1, <1>2, <1>3, <1>4, StatusStep DEF FullInv
  <1>6. /\ credits' \in [Accounts -> Nat]
        /\ fulfilled' \in [Orders -> BOOLEAN] /\ fulfilled'[o] /\ review' \in [Orders -> BOOLEAN]
        /\ \A u \in Orders \ {o} : fulfilled'[u] = fulfilled[u] /\ review'[u] = review[u]
    BY <1>1, <1>3 DEF FullInv, OrderInv, OrderTypeOK
  <1>7. ~review'[o] /\ owner[o] # NoAccount
    BY <1>1, <1>2, <1>3, OpenOrder DEF Reversals
  <1>8. FullInv'
    BY <1>1, <1>2, <1>5, <1>6, <1>7, EventFrame
  <1>9. ~Restricted(owner[o])
    BY <1>3 DEF InGoodStanding, Restricted
  <1>10. QED
    BY <1>5, <1>8, <1>9

LEMMA ReviewRenewalStep ==
  ASSUME FullInv, NEW o \in Orders, NEW e \in Events, ReviewRenewal(o, e)
  PROVE  FullInv'
  <1>1. /\ Admissible(o, "paid", e) /\ Record(o, "paid", e)
        /\ review' = [review EXCEPT ![o] = TRUE]
        /\ UNCHANGED <<pin, contact, row, status, credits, owner, fulfilled>>
    BY DEF ReviewRenewal
  <1>2. "paid" \in Kinds
    BY DEF Kinds
  <1>3. UNCHANGED recoveryVars
    BY <1>1 DEF Record, recoveryVars, mailerVars
  <1>4. RecoveryInv' /\ SameMembers
    BY <1>3, RecoveryUnchanged DEF FullInv
  <1>5. /\ status' \in [Accounts -> Statuses] /\ credits' \in [Accounts -> Nat]
        /\ fulfilled' \in [Orders -> BOOLEAN] /\ review'[o] /\ review' \in [Orders -> BOOLEAN]
        /\ \A u \in Orders \ {o} : fulfilled'[u] = fulfilled[u] /\ review'[u] = review[u]
    BY <1>1 DEF FullInv, OrderInv, OrderTypeOK
  <1>6. ~fulfilled'[o]
    BY <1>1, <1>2, OpenOrder DEF Reversals
  <1>7. QED
    BY <1>1, <1>2, <1>4, <1>5, <1>6, EventFrame

LEMMA ReversalStep ==
  ASSUME FullInv, NEW o \in Orders, NEW k \in Kinds, NEW e \in Events, ApplyReversal(o, k, e)
  PROVE  /\ FullInv'
         /\ \A a \in Accounts : status'[a] = status[a] \/ ~Restricted(a)
         /\ fulfilled[o] => owner[o] \in Accounts /\ status'[owner[o]] \in {"refunded", "disputed", "revoked"}
  <1>1. /\ k \in Reversals /\ Admissible(o, k, e) /\ Record(o, k, e)
        /\ UNCHANGED <<contact, row, credits, owner, fulfilled, review>>
    BY DEF ApplyReversal
  <1>2. k \in Statuses \ {"none"} /\ k # "paid" /\ k \in {"refunded", "disputed", "revoked"}
    BY <1>1 DEF Reversals, Statuses
  <1>3. UNCHANGED <<contact, attempt, row, held, phase, inbox>>
    BY <1>1 DEF Record, mailerVars
  <1>4. /\ status \in [Accounts -> Statuses] /\ credits' \in [Accounts -> Nat]
        /\ fulfilled' \in [Orders -> BOOLEAN] /\ review' \in [Orders -> BOOLEAN]
        /\ UNCHANGED <<owner, fulfilled, review>>
    BY <1>1 DEF FullInv, OrderInv, OrderTypeOK
  <1>5. fulfilled[o] => /\ ~review[o] /\ owner[o] # NoAccount
                        /\ owner[o] \in Accounts /\ Known(owner[o]) /\ status[owner[o]] # "none"
    BY DEF FullInv, OrderInv, OrderTypeOK, PaidIsSettled, OwnersExist, StatusesExist
  <1>6. CASE fulfilled[o] /\ (InGoodStanding(owner[o]) \/ status[owner[o]] = "delayed")
    <2>1. SetStatus(owner[o], k)
      BY <1>6 DEF ApplyReversal
    <2>2. /\ RecoveryInv' /\ SameMembers /\ status' \in [Accounts -> Statuses]
          /\ status'[owner[o]] = k
          /\ \A b \in Accounts \ {owner[o]} : status'[b] = status[b]
          /\ \A b \in Accounts : status'[b] = "none" <=> status[b] = "none"
      BY <1>2, <1>3, <1>5, <1>6, <2>1, StatusStep DEF FullInv
    <2>3. FullInv'
      BY <1>1, <1>2, <1>4, <1>5, <2>2, EventFrame
    <2>4. ~Restricted(owner[o])
      BY <1>6 DEF InGoodStanding, Restricted
    <2>5. QED
      BY <1>2, <1>5, <2>2, <2>3, <2>4
  <1>7. CASE ~(fulfilled[o] /\ (InGoodStanding(owner[o]) \/ status[owner[o]] = "delayed"))
    <2>1. UNCHANGED <<pin, status>>
      BY <1>7 DEF ApplyReversal
    <2>2. RecoveryInv' /\ SameMembers
      BY <1>3, <2>1, RecoveryUnchanged DEF FullInv, recoveryVars
    <2>3. FullInv'
      BY <1>1, <1>2, <1>4, <1>5, <2>1, <2>2, EventFrame
    <2>4. fulfilled[o] => status[owner[o]] \in {"refunded", "disputed", "revoked"}
      BY <1>4, <1>5, <1>7 DEF InGoodStanding, Statuses
    <2>5. QED
      BY <1>5, <2>1, <2>3, <2>4
  <1>8. QED
    BY <1>6, <1>7

LEMMA FailureStep ==
  ASSUME FullInv, NEW o \in Orders, NEW k \in Kinds, NEW e \in Events, ApplyFailure(o, k, e)
  PROVE  FullInv'
  <1>1. /\ k # "paid" /\ k \notin Reversals /\ Admissible(o, k, e) /\ Record(o, k, e)
        /\ UNCHANGED <<pin, contact, row, status, credits, owner, fulfilled, review>>
    BY DEF ApplyFailure, Failures, Reversals
  <1>2. UNCHANGED recoveryVars
    BY <1>1 DEF Record, recoveryVars, mailerVars
  <1>3. RecoveryInv' /\ SameMembers
    BY <1>2, RecoveryUnchanged DEF FullInv
  <1>4. /\ status' \in [Accounts -> Statuses] /\ credits' \in [Accounts -> Nat]
        /\ fulfilled' \in [Orders -> BOOLEAN] /\ review' \in [Orders -> BOOLEAN]
    BY <1>1 DEF FullInv, OrderInv, OrderTypeOK
  <1>5. ~fulfilled[o]
    BY <1>1, OpenOrder
  <1>6. QED
    BY <1>1, <1>3, <1>4, <1>5, EventFrame

-----------------------------------------------------------------------------
(* The invariant. *)

LEMMA InitialInvariant == CheckoutInit => FullInv
  <1> SUFFICES ASSUME CheckoutInit PROVE FullInv
    OBVIOUS
  <1>1. /\ NoRow \in Rows /\ NoRow.letter = NoLetter
        /\ NoAttempt \in Attempts /\ NoAttempt.pending = FALSE
    <2>1. NoRow \in Rows /\ NoRow.letter = NoLetter
      BY NewRowType DEF NoRow, NewRow
    <2>2. NoAttempt \in Attempts /\ NoAttempt.pending = FALSE
      BY DEF NoAttempt, Attempts, Ages
    <2>3. QED
      BY <2>1, <2>2
  <1>2. RecoveryTypeOK
    BY <1>1 DEF CheckoutInit, RecoveryInit, RecoveryTypeOK, Phases
  <1>3. Queued = {}
    BY <1>1 DEF CheckoutInit, RecoveryInit, Queued
  <1>4. /\ RowsAreTheirs /\ AttemptsAreTheirs /\ HandsAreFull /\ SentIsTaken /\ DeliveredIsSent
        /\ RowsAreKnown
    BY <1>1, <1>3 DEF CheckoutInit, RecoveryInit, RowsAreTheirs, AttemptsAreTheirs, HandsAreFull,
                      SentIsTaken, DeliveredIsSent, RowsAreKnown, Known
  <1>5. LinksAreUnique
    BY <1>3 DEF CheckoutInit, RecoveryInit, LinksAreUnique, InPlay
  <1>6. QueueFits
    BY <1>3, FS_EmptySet DEF QueueFits
  <1>7. OrderTypeOK
    BY DEF CheckoutInit, OrderTypeOK, Statuses, Products, Kinds, Failures, Reversals
  <1>8. StatusesExist /\ OwnersExist /\ MembersFit
    BY DEF CheckoutInit, StatusesExist, OwnersExist, MembersFit, MemberSet
  <1>9. EnvelopesAreNew /\ EventsTellState /\ AckIsTrue
    BY DEF CheckoutInit, EnvelopesAreNew, EventsTellState, AckIsTrue
  <1>10. PayableIsPrepared /\ PaidIsSettled
    BY DEF CheckoutInit, PayableIsPrepared, PaidIsSettled, Purchases, Reversals
  <1>11. QED
    BY <1>2, <1>4, <1>5, <1>6, <1>7, <1>8, <1>9, <1>10 DEF FullInv, RecoveryInv, OrderInv

LEMMA EndpointStep == ASSUME FullInv, Endpoint PROVE FullInv'
  <1>1. PICK o \in Orders, k \in Kinds, e \in Events : ApplyEvent(o, k, e)
    BY DEF Endpoint
  <1>2. QED
    BY <1>1, FulfilPurchaseStep, FulfilRenewalStep, ReviewRenewalStep, ReversalStep, FailureStep,
       HearAgainStep DEF ApplyEvent

LEMMA StutterStep == ASSUME FullInv, UNCHANGED vars PROVE FullInv'
  <1> USE DEF vars
  <1>1. RecoveryInv' /\ SameMembers
    BY RecoveryUnchanged DEF FullInv
  <1>2. /\ status' \in [Accounts -> Statuses] /\ limit' \in 1..MaxAccounts /\ limit' >= limit
        /\ UNCHANGED <<orderVars, worldVars, credits, status>>
    BY DEF FullInv, OrderInv, OrderTypeOK, memberVars
  <1>3. OrderInv'
    BY <1>1, <1>2, OrderFrame DEF FullInv
  <1>4. QED
    BY <1>1, <1>3 DEF FullInv

LEMMA InvariantStep == FullInv /\ [CheckoutNext]_vars => FullInv'
  <1> SUFFICES ASSUME FullInv, [CheckoutNext]_vars PROVE FullInv'
    OBVIOUS
  <1>1. CASE RecoveryNext /\ UNCHANGED <<memberVars, orderVars, worldVars>>
    BY <1>1, LetterStep
  <1>2. CASE Shop
    BY <1>2, RepeatFormStep, RenewalFormStep, PurchaseFormStep DEF Shop
  <1>3. CASE Prepare
    BY <1>3, PrepareStep, AbandonStep DEF Prepare
  <1>4. CASE Provider
    BY <1>4, ProviderStep
  <1>5. CASE Endpoint
    BY <1>5, EndpointStep
  <1>6. CASE CheckoutTime
    BY <1>6, CheckoutTimeStep
  <1>7. CASE Membership
    BY <1>7, MembershipStep
  <1>8. CASE UNCHANGED vars
    BY <1>8, StutterStep
  <1>9. QED
    BY <1>1, <1>2, <1>3, <1>4, <1>5, <1>6, <1>7, <1>8 DEF CheckoutNext

\* The inductive invariant holds in every reachable state.
THEOREM Invariance == CheckoutSpec => []FullInv
  BY InitialInvariant, InvariantStep, PTL DEF CheckoutSpec

(* Whatever the limits and however forms, events, mailers and readers          *)
(* interleave: rows, identities and orders stay consistent and the tables fit. *)
THEOREM CheckoutInvariant == CheckoutSpec => []CheckoutInv
  BY Invariance, InvariantParts, PTL

(* A letter marked as delivered was taken by the relay. *)
THEOREM OnlySentIsDelivered == CheckoutSpec => []DeliveredIsSent
  <1>1. FullInv => DeliveredIsSent
    BY DEF FullInv, RecoveryInv
  <1>2. QED
    BY Invariance, <1>1, PTL

(* What the provider was told need not be repeated was acted on. *)
THEOREM AcknowledgedIsTrue == CheckoutSpec => []AckIsTrue
  BY Invariance, InvariantParts, PTL

-----------------------------------------------------------------------------
(* What a step may not do. *)

(* Only the endpoint settles orders or adds periods. *)
LEMMA OnlyEventsSettle ==
  ASSUME [CheckoutNext]_vars
  PROVE  \/ UNCHANGED <<state, fulfilled, credits>>
         \/ \E o \in Orders, k \in Kinds, e \in Events :
              FulfilPurchase(o, e) \/ FulfilRenewal(o, e) \/ ReviewRenewal(o, e)
              \/ ApplyReversal(o, k, e) \/ ApplyFailure(o, k, e)
  <1>1. CASE RecoveryNext /\ UNCHANGED <<memberVars, orderVars, worldVars>>
    BY <1>1 DEF memberVars, orderVars
  <1>2. CASE Shop
    BY <1>2 DEF Shop, RepeatPurchase, CreateRenewal, BeginPurchase, memberVars, orderVars
  <1>3. CASE Prepare
    BY <1>3 DEF Prepare, PreparePurchase, AbandonPurchase, memberVars, orderVars
  <1>4. CASE Provider
    BY <1>4 DEF Provider, Pay, FailPayment, Reverse, memberVars, orderVars
  <1>5. CASE Endpoint
    BY <1>5 DEF Endpoint, ApplyEvent, HearAgain, memberVars, orderVars
  <1>6. CASE CheckoutTime
    BY <1>6 DEF CheckoutTime, OrderExpires, TicketExpires, memberVars
  <1>7. CASE Membership
    BY <1>7 DEF Membership, RaiseLimit, Login, ExpiryNoticed, OperatorRenews, OperatorSets,
                Standing, orderVars
  <1>8. CASE UNCHANGED vars
    BY <1>8 DEF vars, memberVars, orderVars
  <1>9. QED
    BY <1>1, <1>2, <1>3, <1>4, <1>5, <1>6, <1>7, <1>8 DEF CheckoutNext

(* No event brings a restricted account back. *)
THEOREM HoldsAreKept == CheckoutSpec => HeldStaysHeld
  <1> DEFINE Kept == (\A a \in Accounts : Restricted(a) => status'[a] = status[a])
                     /\ (\A o \in Orders :
                           fulfilled[o] /\ state'[o] \in Reversals /\ state[o] # state'[o] =>
                             Restricted(owner[o])')
  <1>1. ASSUME FullInv, [CheckoutNext]_vars PROVE [Kept]_state
    <2>1. CASE UNCHANGED state
      BY <2>1
    <2>2. ASSUME NEW o \in Orders, NEW k \in Kinds, NEW e \in Events,
                 FulfilPurchase(o, e) \/ FulfilRenewal(o, e) \/ ReviewRenewal(o, e)
                 \/ ApplyReversal(o, k, e) \/ ApplyFailure(o, k, e)
          PROVE  Kept
      <3>1. PICK j \in Kinds : Record(o, j, e) /\ ((ApplyReversal(o, k, e) /\ j = k) \/ j \notin Reversals)
        BY <2>2 DEF FulfilPurchase, FulfilRenewal, ReviewRenewal, ApplyReversal, ApplyFailure,
                    Kinds, Failures, Reversals
      <3>2. state'[o] = j /\ \A u \in Orders \ {o} : state'[u] = state[u]
        BY <1>1, <3>1 DEF Record, FullInv, OrderInv, OrderTypeOK
      <3>3. \A a \in Accounts : Restricted(a) => status'[a] = status[a]
        <4>1. CASE FulfilPurchase(o, e)
          <5>1. envelope[o] \in Accounts /\ status[envelope[o]] = "none"
            BY <1>1, <4>1, FulfilPurchaseStep DEF FullInv, OrderInv, StatusesExist
          <5>2. \A a \in Accounts \ {envelope[o]} : status'[a] = status[a]
            BY <1>1, <4>1 DEF FulfilPurchase, FullInv, OrderInv, OrderTypeOK
          <5>3. QED
            BY <5>1, <5>2 DEF Restricted
        <4>2. CASE FulfilRenewal(o, e)
          BY <1>1, <4>2, FulfilRenewalStep
        <4>3. CASE ReviewRenewal(o, e)
          BY <4>3 DEF ReviewRenewal
        <4>4. CASE ApplyReversal(o, k, e)
          BY <1>1, <4>4, ReversalStep
        <4>5. CASE ApplyFailure(o, k, e)
          BY <4>5 DEF ApplyFailure
        <4>6. QED
          BY <2>2, <4>1, <4>2, <4>3, <4>4, <4>5
      <3>4. ASSUME NEW u \in Orders, fulfilled[u], state'[u] \in Reversals, state[u] # state'[u]
            PROVE  status'[owner'[u]] \in {"refunded", "disputed", "revoked"}
        <4>1. u = o /\ ApplyReversal(o, k, e)
          BY <3>1, <3>2, <3>4
        <4>2. owner'[o] = owner[o]
          BY <4>1 DEF ApplyReversal
        <4>3. QED
          BY <1>1, <3>4, <4>1, <4>2, ReversalStep
      <3>5. QED
        BY <3>3, <3>4 DEF Restricted
    <2>3. QED
      BY <1>1, <2>1, <2>2, OnlyEventsSettle
  <1>2. QED
    BY <1>1, Invariance, PTL DEF CheckoutSpec, HeldStaysHeld

(* Nothing but a completed recovery marks a letter as used. *)
LEMMA OnlyCompletionUses ==
  ASSUME FullInv, [CheckoutNext]_vars, NEW a \in Accounts, row'[a].used, ~row[a].used
  PROVE  \E i \in inbox : CompleteRecovery(i)
  <1>1. row \in [Accounts -> Rows] /\ NoRow.used = FALSE
    BY DEF FullInv, RecoveryInv, RecoveryTypeOK, NoRow, NewRow
  <1>2. \A l \in Letters : NewRow(l).used = FALSE
    BY DEF NewRow
  <1>3. row' # row
    OBVIOUS
  <1>4. ASSUME NEW b \in Accounts, NEW r, row' = [row EXCEPT ![b] = r], r.used = row[b].used \/ ~r.used
        PROVE  FALSE
    BY <1>1, <1>4
  <1>5. ASSUME NEW b \in Accounts, NEW k, NEW p, NEW c, row' = [row EXCEPT ![b] = NewRow(NewLetter(k, b, p, c))]
        PROVE  FALSE
    <2>1. ~NewRow(NewLetter(k, b, p, c)).used
      BY DEF NewRow
    <2>2. QED
      BY <1>4, <1>5, <2>1
  <1>6. ASSUME NEW m \in Mailers, FinishMail(m) PROVE FALSE
    <2> DEFINE b == held[m].account
               d == phase[m] = "sent"
               r == [row[b] EXCEPT !.holder = Nobody, !.live = FALSE, !.waiting = TRUE, !.delivered = d]
    <2>1. b \in Accounts
      <3>1. phase[m] # "idle"
        BY <1>6 DEF FinishMail
      <3>2. held[m] \in Letters
        BY <3>1 DEF FullInv, RecoveryInv, RecoveryTypeOK, HandsAreFull
      <3>3. QED
        BY <3>2 DEF Letters
    <2>2. row' = [row EXCEPT ![b] = r]
      BY <1>1, <1>3, <1>6, <2>1 DEF FinishMail
    <2>3. row[b] \in Rows
      BY <1>1, <2>1
    <2> HIDE DEF b
    <2>4. r.used = row[b].used
      BY <2>3 DEF Rows
    <2> HIDE DEF r
    <2>5. QED
      BY <1>4, <2>1, <2>2, <2>4
  <1>7. ASSUME NEW m \in Mailers, NEW b \in Accounts, ClaimMail(m, b) PROVE FALSE
    <2> DEFINE r == [row[b] EXCEPT !.holder = m, !.live = TRUE, !.tries = row[b].tries + 1]
    <2>1. row' = [row EXCEPT ![b] = r]
      BY <1>7 DEF ClaimMail
    <2>2. r.used = row[b].used
      BY <1>1 DEF Rows
    <2> HIDE DEF r
    <2>3. QED
      BY <1>4, <2>1, <2>2
  <1>8. ASSUME NEW b \in Accounts, LeaseEnds(b) \/ RetryDue(b) \/ LinkExpires(b) PROVE FALSE
    <2>1. PICK r : row' = [row EXCEPT ![b] = r] /\ r.used = row[b].used
      <3>1. \/ row' = [row EXCEPT ![b] = [row[b] EXCEPT !.live = FALSE]]
            \/ row' = [row EXCEPT ![b] = [row[b] EXCEPT !.waiting = FALSE]]
            \/ row' = [row EXCEPT ![b] = [row[b] EXCEPT !.over = TRUE, !.live = FALSE]]
        BY <1>1, <1>8 DEF LeaseEnds, RetryDue, LinkExpires
      <3>2. /\ [row[b] EXCEPT !.live = FALSE].used = row[b].used
            /\ [row[b] EXCEPT !.waiting = FALSE].used = row[b].used
            /\ [row[b] EXCEPT !.over = TRUE, !.live = FALSE].used = row[b].used
        BY <1>1 DEF Rows
      <3>3. QED
        BY <3>1, <3>2
    <2>2. QED
      BY <1>4, <2>1
  <1>9. ASSUME row' = KeptRows PROVE FALSE
    BY <1>1, <1>9 DEF KeptRows
  <1>10. CASE RecoveryNext
    <2>1. CASE Request
      <3>1. ASSUME NEW t \in Tickets, QueueRecovery(t) PROVE FALSE
        <4>1. attempt[t].account \in Accounts
          BY <3>1 DEF QueueRecovery, FullInv, RecoveryInv, AttemptsAreTheirs
        <4>2. QED
          BY <1>5, <3>1, <4>1 DEF QueueRecovery
      <3>2. QED
        BY <1>9, <2>1, <3>1 DEF Request, RefuseRecovery, BeginRecovery
    <2>2. CASE Mail
      BY <1>3, <1>6, <1>7, <2>2 DEF Mail, Deliver, DeliverFails, Die
    <2>3. CASE LetterTime
      BY <1>3, <1>8, <2>3 DEF LetterTime, AttemptAges
    <2>4. CASE \E b \in Accounts : ResetPin(b) \/ ChangeContact(b)
      BY <1>3, <2>4 DEF ResetPin, ChangeContact
    <2>5. QED
      BY <1>10, <2>1, <2>2, <2>3, <2>4 DEF RecoveryNext
  <1>11. ASSUME Endpoint PROVE FALSE
    <2>1. PICK o \in Orders, k \in Kinds, e \in Events : ApplyEvent(o, k, e)
      BY <1>11 DEF Endpoint
    <2>2. FulfilPurchase(o, e)
      BY <1>3, <2>1 DEF ApplyEvent, FulfilRenewal, ReviewRenewal, ApplyReversal, ApplyFailure, HearAgain,
                        recoveryVars
    <2>3. QED
      BY <1>5, <2>2, FulfilPurchaseStep DEF FulfilPurchase
  <1>12. QED
    <2>1. \/ RecoveryNext \/ Endpoint \/ UNCHANGED row
      <3>1. Shop => UNCHANGED row
        BY DEF Shop, RepeatPurchase, CreateRenewal, BeginPurchase, recoveryVars
      <3>2. Prepare => UNCHANGED row
        BY DEF Prepare, PreparePurchase, AbandonPurchase, recoveryVars
      <3>3. Provider => UNCHANGED row
        BY DEF Provider, Pay, FailPayment, Reverse, recoveryVars
      <3>4. CheckoutTime => UNCHANGED row
        BY DEF CheckoutTime, OrderExpires, TicketExpires, recoveryVars
      <3>5. Membership => UNCHANGED row
        BY DEF Membership, RaiseLimit, Login, ExpiryNoticed, OperatorRenews, OperatorSets,
               Standing, recoveryVars
      <3>6. UNCHANGED vars => UNCHANGED row
        BY DEF vars, recoveryVars
      <3>7. QED
        BY <3>1, <3>2, <3>3, <3>4, <3>5, <3>6 DEF CheckoutNext
    <2>2. QED
      BY <1>3, <1>10, <1>11, <2>1

(* A link sets the PIN once, for the credentials and the address it was made for. *)
THEOREM LinksAreRightful == CheckoutSpec => LinkIsRightful
  <1> DEFINE Rightful == \A a \in Accounts :
        row'[a].used /\ ~row[a].used =>
          \E i \in inbox : /\ i = row[a].letter /\ i.account = a
                           /\ i.pin = pin[a] /\ i.contact = contact[a]
                           /\ pin'[a] > pin[a]
  <1>1. ASSUME FullInv, [CheckoutNext]_vars PROVE Rightful
    <2> SUFFICES ASSUME NEW a \in Accounts, row'[a].used, ~row[a].used
                 PROVE  \E i \in inbox : /\ i = row[a].letter /\ i.account = a
                                         /\ i.pin = pin[a] /\ i.contact = contact[a]
                                         /\ pin'[a] > pin[a]
      OBVIOUS
    <2>1. PICK i \in inbox : CompleteRecovery(i)
      BY <1>1, OnlyCompletionUses
    <2>2. /\ i.account \in Queued /\ row[i.account].letter.link = i.link /\ Open(i.account)
          /\ row' = [row EXCEPT ![i.account].used = TRUE]
          /\ pin' = [pin EXCEPT ![i.account] = @ + 1]
      BY <2>1 DEF CompleteRecovery
    <2>3. i.account \in Accounts /\ row \in [Accounts -> Rows] /\ pin \in [Accounts -> Nat]
      BY <1>1, <2>2 DEF Queued, FullInv, RecoveryInv, RecoveryTypeOK
    <2>4. a = i.account
      BY <2>2, <2>3
    <2>5. row[a].letter \in InPlay /\ i \in InPlay
      BY <2>2, <2>4 DEF InPlay
    <2>6. i = row[a].letter
      BY <1>1, <2>2, <2>4, <2>5 DEF FullInv, RecoveryInv, LinksAreUnique
    <2>7. i.pin = pin[a] /\ i.contact = contact[a] /\ pin'[a] > pin[a]
      <3>1. i.pin = pin[a] /\ i.contact = contact[a]
        BY <2>2, <2>4, <2>6 DEF Open
      <3>2. pin[a] \in Nat /\ pin'[a] = pin[a] + 1
        BY <2>2, <2>3, <2>4
      <3>3. QED
        BY <3>1, <3>2
    <2>8. QED
      BY <2>4, <2>6, <2>7
  <1>2. QED
    BY <1>1, Invariance, PTL DEF CheckoutSpec, LinkIsRightful

-----------------------------------------------------------------------------
(* The ledger. *)

(* Where neither the state nor the grants change, neither do the outcomes. *)
LEMMA OutcomeFrame ==
  ASSUME UNCHANGED <<state, fulfilled, credits>>
  PROVE  UNCHANGED Ledger!ledgerVars
  BY DEF Ledger!ledgerVars, Outcome

LEMMA LedgerStep ==
  ASSUME FullInv, [CheckoutNext]_vars
  PROVE  [Ledger!LedgerNext]_(Ledger!ledgerVars)
  <1> DEFINE outcome == [u \in Orders |-> Outcome(u)]
  <1>1. ASSUME NEW o \in Orders, NEW k \in Kinds, NEW e \in Events, Admissible(o, k, e), Record(o, k, e),
               \A u \in Orders \ {o} : fulfilled'[u] = fulfilled[u]
        PROVE  /\ outcome' = [outcome EXCEPT ![o] = Outcome(o)']
               /\ state'[o] = k /\ outcome[o] \in {"open", "granted", "review"}
               /\ state[o] = "pending" => outcome[o] = "open"
               /\ state[o] = "pending" \/ k \in Reversals
    <2>1. state'[o] = k /\ \A u \in Orders \ {o} : state'[u] = state[u]
      BY <1>1 DEF Record, FullInv, OrderInv, OrderTypeOK
    <2>2. \A u \in Orders \ {o} : Outcome(u)' = Outcome(u)
      BY <1>1, <2>1 DEF Outcome
    <2>3. outcome' = [outcome EXCEPT ![o] = Outcome(o)']
      BY <2>2
    <2>4. state[o] = "pending" \/ (state[o] = "paid" /\ k \in Reversals)
      BY <1>1 DEF Admissible
    <2>5. /\ outcome[o] \in {"open", "granted", "review"}
          /\ state[o] = "pending" => outcome[o] = "open"
      BY <2>4 DEF Outcome, Failures, Reversals
    <2>6. QED
      BY <2>1, <2>3, <2>4, <2>5
  <1>2. "paid" \in Kinds /\ "paid" \notin Reversals
    BY DEF Kinds, Reversals
  <1>3. ASSUME NEW o \in Orders, NEW e \in Events, FulfilPurchase(o, e) \/ FulfilRenewal(o, e)
        PROVE  Ledger!LedgerNext
    <2>1. PICK a \in Accounts : credits' = [credits EXCEPT ![a] = @ + 1]
      <3>1. FulfilPurchase(o, e) => envelope[o] \in Accounts
        BY FulfilPurchaseStep
      <3>2. FulfilRenewal(o, e) => owner[o] \in Accounts
        BY DEF FulfilRenewal, Extendable, FullInv, OrderInv, OrderTypeOK
      <3>3. QED
        BY <1>3, <3>1, <3>2 DEF FulfilPurchase, FulfilRenewal
    <2>2. /\ Admissible(o, "paid", e) /\ Record(o, "paid", e)
          /\ fulfilled' = [fulfilled EXCEPT ![o] = TRUE]
      BY <1>3 DEF FulfilPurchase, FulfilRenewal
    <2>3. fulfilled'[o] /\ \A u \in Orders \ {o} : fulfilled'[u] = fulfilled[u]
      BY <2>2 DEF FullInv, OrderInv, OrderTypeOK
    <2>4. /\ outcome' = [outcome EXCEPT ![o] = Outcome(o)']
          /\ state'[o] = "paid" /\ outcome[o] = "open"
      BY <1>1, <1>2, <2>2, <2>3
    <2>5. Outcome(o)' = "granted"
      BY <2>3, <2>4 DEF Outcome, Failures, Reversals
    <2>6. Ledger!Grant(o, a)
      BY <2>1, <2>4, <2>5 DEF Ledger!Grant
    <2>7. QED
      BY <2>6 DEF Ledger!LedgerNext
  <1>4. ASSUME NEW o \in Orders, NEW e \in Events, ReviewRenewal(o, e)
        PROVE  Ledger!LedgerNext
    <2>1. /\ Admissible(o, "paid", e) /\ Record(o, "paid", e) /\ UNCHANGED <<fulfilled, credits>>
      BY <1>4 DEF ReviewRenewal
    <2>2. /\ outcome' = [outcome EXCEPT ![o] = Outcome(o)']
          /\ state'[o] = "paid" /\ outcome[o] = "open" /\ state[o] = "pending"
      BY <1>1, <1>2, <2>1
    <2>3. ~fulfilled'[o]
      BY <1>2, <2>1, <2>2, OpenOrder
    <2>4. Outcome(o)' = "review"
      BY <2>2, <2>3 DEF Outcome, Failures, Reversals
    <2>5. Ledger!Review(o)
      BY <2>1, <2>2, <2>4 DEF Ledger!Review
    <2>6. QED
      BY <2>5 DEF Ledger!LedgerNext
  <1>5. ASSUME NEW o \in Orders, NEW k \in Kinds, NEW e \in Events, ApplyReversal(o, k, e)
        PROVE  Ledger!LedgerNext
    <2>1. /\ k \in Reversals /\ Admissible(o, k, e) /\ Record(o, k, e) /\ UNCHANGED <<fulfilled, credits>>
      BY <1>5 DEF ApplyReversal
    <2>2. /\ outcome' = [outcome EXCEPT ![o] = Outcome(o)']
          /\ state'[o] = k /\ outcome[o] \in {"open", "granted", "review"}
      BY <1>1, <2>1
    <2>3. Outcome(o)' = "withdrawn"
      BY <2>1, <2>2 DEF Outcome, Failures, Reversals
    <2>4. Ledger!Withdraw(o)
      BY <2>1, <2>2, <2>3 DEF Ledger!Withdraw
    <2>5. QED
      BY <2>4 DEF Ledger!LedgerNext
  <1>6. ASSUME NEW o \in Orders, NEW k \in Kinds, NEW e \in Events, ApplyFailure(o, k, e)
        PROVE  Ledger!LedgerNext
    <2>1. /\ k \in Failures /\ Admissible(o, k, e) /\ Record(o, k, e) /\ UNCHANGED <<fulfilled, credits>>
      BY <1>6 DEF ApplyFailure
    <2>2. k \notin Reversals
      BY <2>1 DEF Failures, Reversals
    <2>3. /\ outcome' = [outcome EXCEPT ![o] = Outcome(o)']
          /\ state'[o] = k /\ outcome[o] = "open"
      BY <1>1, <2>1, <2>2
    <2>4. Outcome(o)' = "failed"
      BY <2>1, <2>2, <2>3 DEF Outcome, Failures, Reversals
    <2>5. Ledger!Fail(o)
      BY <2>1, <2>3, <2>4 DEF Ledger!Fail
    <2>6. QED
      BY <2>5 DEF Ledger!LedgerNext
  <1>7. CASE UNCHANGED <<state, fulfilled, credits>>
    BY <1>7, OutcomeFrame
  <1>8. QED
    BY <1>3, <1>4, <1>5, <1>6, <1>7, OnlyEventsSettle

(* Events that come twice, late or out of order settle an order once, and add *)
(* one period for it at most.                                                 *)
THEOREM CheckoutKeepsLedger == CheckoutSpec => KeepsLedger
  <1>1. CheckoutInit => Ledger!LedgerInit
    <2>1. ASSUME CheckoutInit, NEW o \in Orders PROVE Outcome(o) = "open"
      <3>1. state[o] = "pending"
        BY <2>1 DEF CheckoutInit
      <3>2. QED
        BY <3>1 DEF Outcome, Failures, Reversals
    <2>2. QED
      BY <2>1 DEF CheckoutInit, Ledger!LedgerInit
  <1>2. QED
    BY <1>1, LedgerStep, Invariance, PTL DEF CheckoutSpec, KeepsLedger, Ledger!LedgerSpec
=============================================================================
