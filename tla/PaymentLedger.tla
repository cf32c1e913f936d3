---------------------------- MODULE PaymentLedger ----------------------------
\* What the checkout owes its customers, without pages, envelopes, events or
\* retries: an order is settled once, a settled order that was granted has added
\* exactly one period to exactly one account, and it is only ever taken back.
EXTENDS Integers

CONSTANTS Orders, Accounts

VARIABLES
    outcome,        \* what has become of an order
    credits         \* periods of twelve months that payments added

ledgerVars == <<outcome, credits>>

Outcomes == {"open", "granted", "review", "withdrawn", "failed"}

LedgerInit ==
    /\ outcome = [o \in Orders |-> "open"]
    /\ credits = [a \in Accounts |-> 0]

Grant(o, a) ==
    /\ outcome[o] = "open"
    /\ outcome' = [outcome EXCEPT ![o] = "granted"]
    /\ credits' = [credits EXCEPT ![a] = @ + 1]

\* The account cannot take the period; a person has to decide.
Review(o) ==
    /\ outcome[o] = "open"
    /\ outcome' = [outcome EXCEPT ![o] = "review"]
    /\ UNCHANGED credits

Fail(o) ==
    /\ outcome[o] = "open"
    /\ outcome' = [outcome EXCEPT ![o] = "failed"]
    /\ UNCHANGED credits

\* Refunded or disputed, before or after the payment was heard of.
Withdraw(o) ==
    /\ outcome[o] \in {"open", "granted", "review"}
    /\ outcome' = [outcome EXCEPT ![o] = "withdrawn"]
    /\ UNCHANGED credits

LedgerNext == \E o \in Orders :
    Review(o) \/ Fail(o) \/ Withdraw(o) \/ \E a \in Accounts : Grant(o, a)

LedgerSpec == LedgerInit /\ [][LedgerNext]_ledgerVars
=============================================================================
