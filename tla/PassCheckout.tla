---------------------------- MODULE PassCheckout ----------------------------
\* Buying and renewing a membership (migrations/0234, 0235; apps/verification,
\* apps/checkout). A form creates an order; a purchase is prepared in a second
\* transaction, after hashing and sealing, under a ticket of half a minute. The
\* payment provider captures the money of an order that was shown, and its
\* signed events arrive late, repeatedly, out of order, or with their answer
\* lost. A paid purchase inserts the account and queues the letter with its
\* first link (PassRecovery) in one transaction, or answers that it cannot; a
\* paid renewal extends the account it was made for, or is left for review.
EXTENDS PassRecovery

CONSTANTS
    Orders,         \* identifiers derived from the nonce of a form
    Handlers,       \* requests of the purchase form
    Events,         \* identifiers that the provider gives to its events
    NoOrder,        \* a handler without work
    MaxAccounts     \* bound: how far the operator raises the account limit

ASSUME CheckoutAssumption ==
    /\ Nobody \notin Handlers /\ NoOrder \notin Orders
    /\ MaxAccounts \in Nat \ {0}

VARIABLES
    status,         \* pass_entitlements.status
    limit,          \* pass_policy.entitlement_limit
    credits,        \* periods that payments have added to expires_at
    product,        \* pass_checkout_orders.product, with delayed
    state,          \* .state
    prepared,       \* .prepared
    ticket,         \* .preparation_hash
    ticketLive,     \* .preparation_until is ahead
    expired,        \* .expires_at is past
    envelope,       \* the identity in the .new_* columns
    owner,          \* .entitlement_id
    fulfilled,      \* .fulfilled
    review,         \* .review_required
    recorded,       \* pass_checkout_events
    work,           \* the order that each handler was told to prepare
    shown,          \* orders whose payment page a customer has
    payment,        \* what the provider did about an order
    reversal,       \* and whether it took that back
    acked           \* kinds of events it need not repeat

orderVars == <<product, state, prepared, ticket, ticketLive, expired, envelope,
               owner, fulfilled, review, recorded>>
memberVars == <<status, limit, credits>>
worldVars == <<work, shown, payment, reversal, acked>>
vars == <<recoveryVars, orderVars, memberVars, worldVars>>

\* 6 new, 7 delayed, 0 active, 1 expired, 2 refunded, 3 disputed, 4-5 revoked.
Statuses == {"none", "new", "delayed", "active", "expired", "refunded", "disputed", "revoked"}
Purchases == {"purchase", "delayed"}
Products == Purchases \cup {"none", "renewal"}
\* declined and cancelled, which differ in nothing else.
Failures == {"failed"}
Reversals == {"refunded", "disputed"}
Kinds == {"paid"} \cup Failures \cup Reversals

CheckoutInit ==
    /\ RecoveryInit
    /\ status \in [Accounts -> {"none", "new", "delayed", "active"}]
    /\ \A a \in Accounts : status[a] = "none" <=> ~Known(a)
    /\ limit \in 1..MaxAccounts
    /\ Cardinality({a \in Accounts : Known(a)}) <= limit
    /\ credits = [a \in Accounts |-> 0]
    /\ product = [o \in Orders |-> "none"]
    /\ state = [o \in Orders |-> "pending"]
    /\ prepared = [o \in Orders |-> FALSE]
    /\ ticket = [o \in Orders |-> Nobody]
    /\ ticketLive = [o \in Orders |-> FALSE]
    /\ expired = [o \in Orders |-> FALSE]
    /\ envelope = [o \in Orders |-> NoAccount]
    /\ owner = [o \in Orders |-> NoAccount]
    /\ fulfilled = [o \in Orders |-> FALSE]
    /\ review = [o \in Orders |-> FALSE]
    /\ recorded = [o \in Orders |-> {}]
    /\ work = [h \in Handlers |-> NoOrder]
    /\ shown = {}
    /\ payment = [o \in Orders |-> "none"]
    /\ reversal = [o \in Orders |-> "none"]
    /\ acked = [o \in Orders |-> {}]

\* The trigger that counts changes of pin_hash or status (0216:58-59).
SetStatus(a, s) ==
    /\ status' = [status EXCEPT ![a] = s]
    /\ pin' = [pin EXCEPT ![a] = IF status[a] = s THEN @ ELSE @ + 1]

-----------------------------------------------------------------------------
\* The forms. An answer that reaches the browser shows the payment page.

Answer(o) == shown' \in {shown, shown \cup {o}}

\* An order for an account in good standing, found by its renewal reference; the
\* form that is sent again is told the same.
CreateRenewal(o, a) ==
    /\ IF product[o] = "none"
       THEN /\ contact[a] > 0 /\ status[a] \in {"active", "expired", "new"}
            /\ product' = [product EXCEPT ![o] = "renewal"]
            /\ prepared' = [prepared EXCEPT ![o] = TRUE]
            /\ owner' = [owner EXCEPT ![o] = a]
       ELSE /\ product[o] = "renewal" /\ owner[o] = a
            /\ UNCHANGED <<product, prepared, owner>>
    /\ Answer(o)
    /\ UNCHANGED <<recoveryVars, memberVars, state, ticket, ticketLive, expired,
                   envelope, fulfilled, review, recorded, work, payment, reversal, acked>>

TakeTicket(h, o) ==
    /\ work' = [work EXCEPT ![h] = o]
    /\ ticket' = [ticket EXCEPT ![o] = h]
    /\ ticketLive' = [ticketLive EXCEPT ![o] = TRUE]

\* The first form inserts the order, a later one takes over from a preparation
\* that is late. The count of preparations is left out: a form that comes a sixth
\* time is told to come later, as is one that comes while a ticket is live.
BeginPurchase(h, o, p) ==
    /\ work[h] = NoOrder
    /\ IF product[o] = "none" THEN product' = [product EXCEPT ![o] = p]
       ELSE /\ product[o] = p /\ UNCHANGED product
            /\ ~prepared[o] /\ state[o] = "pending" /\ ~expired[o]
            /\ ~ticketLive[o]
    /\ TakeTicket(h, o)
    /\ UNCHANGED <<recoveryVars, memberVars, state, prepared, expired, envelope, owner,
                   fulfilled, review, recorded, shown, payment, reversal, acked>>

\* The form of an order that is past preparing, or too late for it.
RepeatPurchase(o) ==
    /\ product[o] \in Purchases
    /\ prepared[o] \/ state[o] # "pending" \/ expired[o]
    /\ Answer(o)
    /\ UNCHANGED <<recoveryVars, memberVars, orderVars, work, payment, reversal, acked>>

\* The identity is random, and refused if it is taken.
PreparePurchase(h) ==
    LET o == work[h] IN
    /\ o # NoOrder
    /\ work' = [work EXCEPT ![h] = NoOrder]
    /\ state[o] = "pending" /\ ~prepared[o] /\ ~expired[o]
    /\ ticket[o] = h /\ ticketLive[o]
    /\ \E a \in Accounts :
         /\ ~Known(a) /\ \A u \in Orders : envelope[u] # a
         /\ envelope' = [envelope EXCEPT ![o] = a]
    /\ prepared' = [prepared EXCEPT ![o] = TRUE]
    /\ ticket' = [ticket EXCEPT ![o] = Nobody]
    /\ ticketLive' = [ticketLive EXCEPT ![o] = FALSE]
    /\ Answer(o)
    /\ UNCHANGED <<recoveryVars, memberVars, product, state, expired, owner,
                   fulfilled, review, recorded, payment, reversal, acked>>

\* No permit for hashing, a stale ticket, or the process ends.
AbandonPurchase(h) ==
    /\ work[h] # NoOrder
    /\ work' = [work EXCEPT ![h] = NoOrder]
    /\ UNCHANGED <<recoveryVars, memberVars, orderVars, shown, payment, reversal, acked>>

-----------------------------------------------------------------------------
\* The provider.

\* The money of an order whose page was shown is captured while the order is
\* open or after it ran out, or the payment fails for good.
Pay(o) ==
    /\ o \in shown /\ payment[o] = "none"
    /\ payment' = [payment EXCEPT ![o] = IF expired[o] THEN "late" ELSE "captured"]
    /\ UNCHANGED <<recoveryVars, memberVars, orderVars, work, shown, reversal, acked>>

FailPayment(o, k) ==
    /\ o \in shown /\ payment[o] = "none"
    /\ payment' = [payment EXCEPT ![o] = k]
    /\ UNCHANGED <<recoveryVars, memberVars, orderVars, work, shown, reversal, acked>>

Reverse(o, k) ==
    /\ payment[o] \in {"captured", "late"} /\ reversal[o] = "none"
    /\ reversal' = [reversal EXCEPT ![o] = k]
    /\ UNCHANGED <<recoveryVars, memberVars, orderVars, work, shown, payment, acked>>

\* Its events about an order; any of them may arrive at any time, and again.
Emitted(o, k) ==
    \/ k = "paid" /\ payment[o] \in {"captured", "late"}
    \/ k \in Failures /\ payment[o] = k
    \/ k \in Reversals /\ reversal[o] = k

-----------------------------------------------------------------------------
\* The endpoint for events. Events that fail these conditions are refused and
\* change nothing. Whether an answer arrives makes no difference to what follows,
\* as the provider may repeat an event either way.

Answered(o, k) == acked' = [acked EXCEPT ![o] = @ \cup {k}]

\* A payment dated after the order ran out is refused before anything else.
InTime(o, k) == k = "paid" => payment[o] # "late"

\* Fault: an event is applied whatever has become of the order.
AdmissibleAlways(o, k, e) == Emitted(o, k) /\ InTime(o, k) /\ <<k, e>> \notin recorded[o]

\* A first event of its kind that the state of the order allows.
Admissible(o, k, e) ==
    /\ Emitted(o, k) /\ InTime(o, k)
    /\ <<k, e>> \notin recorded[o]
    /\ state[o] = "pending" \/ (state[o] = "paid" /\ k \in Reversals)

\* The very event again, or another one that says the same.
Repeated(o, k, e) ==
    /\ Emitted(o, k) /\ InTime(o, k)
    /\ <<k, e>> \in recorded[o] \/ state[o] = k

HearAgain(o, k, e) ==
    /\ Repeated(o, k, e)
    /\ Answered(o, k)
    /\ UNCHANGED <<recoveryVars, memberVars, orderVars, work, shown, payment, reversal>>

\* Every applied event is recorded and clears what was prepared.
Record(o, k, e) ==
    /\ state' = [state EXCEPT ![o] = k]
    /\ recorded' = [recorded EXCEPT ![o] = @ \cup {<<k, e>>}]
    /\ envelope' = [envelope EXCEPT ![o] = NoAccount]
    /\ ticket' = [ticket EXCEPT ![o] = Nobody]
    /\ ticketLive' = [ticketLive EXCEPT ![o] = FALSE]
    /\ Answered(o, k)
    /\ UNCHANGED <<limit, product, prepared, expired, attempt, mailerVars, inbox,
                   work, shown, payment, reversal>>

Full ==
    \/ Cardinality({a \in Accounts : Known(a)}) >= limit
    \/ Cardinality(Queued) >= RecoveryLimit

\* Fault: a purchase that finds a table full is recorded and answered all the
\* same.
FulfilFull(o, e) ==
    /\ Admissible(o, "paid", e)
    /\ product[o] \in Purchases /\ prepared[o]
    /\ Full
    /\ Record(o, "paid", e)
    /\ UNCHANGED <<pin, contact, row, status, credits, owner, fulfilled, review>>

\* The account, its address and its first letter, with the order's mark. When a
\* table is full nothing changes and the provider is told to come again.
FulfilPurchase(o, e) ==
    LET a == envelope[o] IN
    /\ Admissible(o, "paid", e)
    /\ product[o] \in Purchases /\ prepared[o]
    /\ ~Full
    /\ Record(o, "paid", e)
    /\ status' = [status EXCEPT ![a] = IF product[o] = "delayed" THEN "delayed" ELSE "new"]
    /\ pin' = [pin EXCEPT ![a] = 1]
    /\ contact' = [contact EXCEPT ![a] = 1]
    /\ credits' = [credits EXCEPT ![a] = @ + 1]
    /\ \E l \in Links :
         FreshLink(l) /\ row' = [row EXCEPT ![a] = NewRow(NewLetter(l, a, 1, 1))]
    /\ owner' = [owner EXCEPT ![o] = a]
    /\ fulfilled' = [fulfilled EXCEPT ![o] = TRUE]
    /\ UNCHANGED review

InGoodStanding(a) == status[a] \in {"active", "expired", "new"}

\* Fault: whatever has become of the account since the order was made.
ExtendableAlways(o) == owner[o] # NoAccount

Extendable(o) == owner[o] # NoAccount /\ InGoodStanding(owner[o])

\* From the present expiry or from the payment on, whichever is later.
FulfilRenewal(o, e) ==
    /\ Admissible(o, "paid", e)
    /\ product[o] = "renewal" /\ Extendable(o)
    /\ Record(o, "paid", e)
    /\ SetStatus(owner[o], "active")
    /\ credits' = [credits EXCEPT ![owner[o]] = @ + 1]
    /\ fulfilled' = [fulfilled EXCEPT ![o] = TRUE]
    /\ UNCHANGED <<contact, row, owner, review>>

\* The account was restricted since, or never started.
ReviewRenewal(o, e) ==
    /\ Admissible(o, "paid", e)
    /\ product[o] = "renewal" /\ ~Extendable(o)
    /\ Record(o, "paid", e)
    /\ review' = [review EXCEPT ![o] = TRUE]
    /\ UNCHANGED <<pin, contact, row, status, credits, owner, fulfilled>>

\* A payment that was granted puts the account on hold, unless it is restricted
\* already; one that was not is only marked.
ApplyReversal(o, k, e) ==
    /\ k \in Reversals /\ Admissible(o, k, e)
    /\ Record(o, k, e)
    /\ IF fulfilled[o] /\ (InGoodStanding(owner[o]) \/ status[owner[o]] = "delayed")
       THEN SetStatus(owner[o], k)
       ELSE UNCHANGED <<pin, status>>
    /\ UNCHANGED <<contact, row, credits, owner, fulfilled, review>>

ApplyFailure(o, k, e) ==
    /\ k \in Failures /\ Admissible(o, k, e)
    /\ Record(o, k, e)
    /\ UNCHANGED <<pin, contact, row, status, credits, owner, fulfilled, review>>

ApplyEvent(o, k, e) ==
    \/ k = "paid" /\ (FulfilPurchase(o, e) \/ FulfilRenewal(o, e) \/ ReviewRenewal(o, e))
    \/ ApplyReversal(o, k, e) \/ ApplyFailure(o, k, e)
    \/ HearAgain(o, k, e)

-----------------------------------------------------------------------------
\* Time, the owner and the operator.

\* Nothing looks at the time of an order that is settled.
OrderExpires(o) ==
    /\ product[o] # "none" /\ state[o] = "pending" /\ ~expired[o]
    /\ expired' = [expired EXCEPT ![o] = TRUE]
    /\ UNCHANGED <<recoveryVars, memberVars, product, state, prepared, ticket, ticketLive,
                   envelope, owner, fulfilled, review, recorded, worldVars>>

TicketExpires(o) ==
    /\ ticketLive[o]
    /\ ticketLive' = [ticketLive EXCEPT ![o] = FALSE]
    /\ UNCHANGED <<recoveryVars, memberVars, product, state, prepared, ticket, expired, envelope, owner, fulfilled, review, recorded, worldVars>>

Standing(a, s) ==
    /\ SetStatus(a, s)
    /\ UNCHANGED <<contact, attempt, row, mailerVars, inbox, limit, credits, orderVars, worldVars>>

\* The first login activates a membership and starts a delayed one.
Login(a) == status[a] \in {"new", "delayed"} /\ Standing(a, "active")

\* The last notice of the expiry was sent (PassNotices).
ExpiryNoticed(a) == status[a] \in {"new", "active"} /\ pin[a] < MaxChanges /\ Standing(a, "expired")

OperatorRenews(a) == Known(a) /\ pin[a] < MaxChanges /\ Standing(a, "active")

\* Any status but those of a membership that has not started; one that has not
\* started has no expiry, and a constraint keeps it as it is (0216:25).
OperatorStatuses == {"active", "expired", "refunded", "disputed", "revoked"}

OperatorSets(a, s) ==
    /\ Known(a) /\ status[a] \notin {"delayed", s}
    /\ s = "revoked" \/ pin[a] < MaxChanges
    /\ Standing(a, s)

RaiseLimit ==
    /\ limit < MaxAccounts
    /\ limit' = limit + 1
    /\ UNCHANGED <<recoveryVars, orderVars, status, credits, worldVars>>

-----------------------------------------------------------------------------
Shop == \E o \in Orders :
    \/ RepeatPurchase(o)
    \/ \E a \in Accounts : CreateRenewal(o, a)
    \/ \E h \in Handlers, p \in Purchases : BeginPurchase(h, o, p)

Prepare == \E h \in Handlers : PreparePurchase(h) \/ AbandonPurchase(h)

Provider == \E o \in Orders :
    \/ Pay(o)
    \/ \E k \in Failures : FailPayment(o, k)
    \/ \E k \in Reversals : Reverse(o, k)

Endpoint == \E o \in Orders, k \in Kinds, e \in Events : ApplyEvent(o, k, e)

CheckoutTime == \E o \in Orders : OrderExpires(o) \/ TicketExpires(o)

Membership ==
    \/ RaiseLimit
    \/ \E a \in Accounts :
         \/ Login(a) \/ ExpiryNoticed(a) \/ OperatorRenews(a)
         \/ \E s \in OperatorStatuses : OperatorSets(a, s)

CheckoutNext ==
    \/ RecoveryNext /\ UNCHANGED <<memberVars, orderVars, worldVars>>
    \/ Shop \/ Prepare \/ Provider \/ Endpoint \/ CheckoutTime \/ Membership

CheckoutSpec == CheckoutInit /\ [][CheckoutNext]_vars

\* The provider sends an event again until it is answered, requests for recovery
\* keep coming, time passes, and the operator raises a limit that is in the way.
CheckoutFairness ==
    /\ WF_vars(RaiseLimit)
    /\ WF_vars(RefuseRecovery /\ UNCHANGED <<memberVars, orderVars, worldVars>>)
    /\ \A a \in Accounts : WF_vars(LinkExpires(a) /\ UNCHANGED <<memberVars, orderVars, worldVars>>)
    /\ \A o \in Orders, e \in Events :
         /\ SF_vars(ApplyEvent(o, "paid", e))
         /\ \A k \in Reversals : SF_vars(ApplyEvent(o, k, e))

FairCheckoutSpec == CheckoutSpec /\ CheckoutFairness

-----------------------------------------------------------------------------
\* What the checkout promises.

\* Shapes of the state, together with those of the letters.
CheckoutTypeOK ==
    /\ RecoveryTypeOK
    /\ status \in [Accounts -> Statuses]
    /\ limit \in 1..MaxAccounts
    /\ credits \in [Accounts -> Nat]
    /\ product \in [Orders -> Products]
    /\ state \in [Orders -> Kinds \cup {"pending"}]
    /\ prepared \in [Orders -> BOOLEAN]
    /\ ticket \in [Orders -> Handlers \cup {Nobody}]
    /\ ticketLive \in [Orders -> BOOLEAN]
    /\ expired \in [Orders -> BOOLEAN]
    /\ envelope \in [Orders -> Accounts \cup {NoAccount}]
    /\ owner \in [Orders -> Accounts \cup {NoAccount}]
    /\ fulfilled \in [Orders -> BOOLEAN]
    /\ review \in [Orders -> BOOLEAN]
    /\ recorded \in [Orders -> SUBSET (Kinds \X Events)]
    /\ work \in [Handlers -> Orders \cup {NoOrder}]
    /\ shown \subseteq Orders
    /\ payment \in [Orders -> {"none", "captured", "late"} \cup Failures]
    /\ reversal \in [Orders -> Reversals \cup {"none"}]
    /\ acked \in [Orders -> SUBSET Kinds]

\* A membership exists with a status, and whoever owns an order or a letter exists.
MembersExist ==
    /\ \A a \in Accounts : status[a] = "none" <=> ~Known(a)
    /\ \A a \in Accounts : contact[a] > 0 => Known(a)
    /\ \A o \in Orders : owner[o] # NoAccount => Known(owner[o])
    /\ \A a \in Queued : Known(a)

\* An identity is sealed for one order only, and nobody has it yet.
EnvelopesAreNew == \A o \in Orders :
    envelope[o] # NoAccount =>
        /\ ~Known(envelope[o])
        /\ state[o] = "pending" /\ prepared[o]
        /\ \A u \in Orders : envelope[u] = envelope[o] => u = o

\* A purchase that can still be paid has everything its account needs
\* (0235:48-49), and a page is shown only for an order that can be paid or is over.
PayableIsPrepared == \A o \in Orders :
    /\ product[o] \in Purchases /\ prepared[o] /\ state[o] = "pending" => envelope[o] # NoAccount
    /\ o \in shown /\ state[o] = "pending" /\ ~expired[o] => prepared[o]
    /\ payment[o] = "captured" /\ state[o] = "pending" => prepared[o]
    /\ payment[o] # "none" => o \in shown
    /\ o \in shown \/ prepared[o] => product[o] # "none"
    /\ ticket[o] # Nobody => product[o] \in Purchases
    /\ product[o] = "renewal" => prepared[o] /\ owner[o] # NoAccount

\* A paid order was either granted to somebody or left for review, not both.
PaidIsSettled == \A o \in Orders :
    /\ state[o] = "paid" => fulfilled[o] \/ review[o]
    /\ fulfilled[o] => ~review[o] /\ owner[o] # NoAccount /\ state[o] \in {"paid"} \cup Reversals
    /\ review[o] => state[o] \in {"paid"} \cup Reversals

\* The events of an order are the history of its state.
EventsTellState == \A o \in Orders : \A r \in recorded[o] :
    /\ Emitted(o, r[1])
    /\ r[1] = state[o] \/ (r[1] = "paid" /\ state[o] \in Reversals)
    /\ r[1] = "paid" => fulfilled[o] \/ review[o]

\* Neither table outgrows its limit, however payments and requests interleave.
TablesFit ==
    /\ Cardinality({a \in Accounts : Known(a)}) <= limit
    /\ Cardinality(Queued) <= RecoveryLimit

CheckoutInv ==
    /\ CheckoutTypeOK /\ RowsAreTheirs /\ AttemptsAreTheirs /\ LinksAreUnique
    /\ HandsAreFull /\ DeliveredIsSent /\ MembersExist /\ EnvelopesAreNew
    /\ PayableIsPrepared /\ PaidIsSettled /\ EventsTellState /\ TablesFit

\* The provider stops repeating an event once it is answered: an answered
\* payment was granted or waits for a person, and of an answered refund or
\* dispute the order bears the mark (apps/checkout/src/lib.rs:139-145).
AckIsTrue == \A o \in Orders :
    /\ "paid" \in acked[o] => fulfilled[o] \/ review[o]
    /\ \A k \in Reversals \cap acked[o] : state[o] = k

Restricted(a) == status[a] \in {"refunded", "disputed", "revoked"}

\* No order, old or new, brings a restricted account back or changes why it is
\* restricted, and an order that is taken back leaves its account restricted
\* (0235:159, 164-167).
HeldStaysHeld == [][
    /\ \A a \in Accounts : Restricted(a) => status'[a] = status[a]
    /\ \A o \in Orders : fulfilled[o] /\ state'[o] \in Reversals /\ state[o] # state'[o] =>
         Restricted(owner[o])']_state

\* The orders seen as entries of the ledger.
Outcome(o) ==
    CASE state[o] = "pending" -> "open"
      [] state[o] \in Failures -> "failed"
      [] state[o] \in Reversals -> "withdrawn"
      [] OTHER -> IF fulfilled[o] THEN "granted" ELSE "review"

Ledger == INSTANCE PaymentLedger WITH outcome <- [o \in Orders |-> Outcome(o)]

\* Duplicated, late, reordered and half-answered events add one period to one
\* account per paid order, and never settle an order twice (0235:137-142).
KeepsLedger == Ledger!LedgerSpec

\* Money that was captured in time for an order whose page was shown is granted,
\* left for review, or was taken back before the payment was heard of, although
\* the tables may be full when the event first arrives (0235:145-148).
PaymentSettles == \A o \in Orders :
    payment[o] = "captured" ~> (fulfilled[o] \/ review[o] \/ state[o] \in Reversals)
=============================================================================
