--------------------------- MODULE MCPassCheckout ---------------------------
\* Instances of PassCheckout.
EXTENDS PassCheckout, TLC

CheckoutSymmetry == Permutations(Links) \cup Permutations(Orders) \cup Permutations(Accounts)
                    \cup Permutations(Handlers)

Touched == {o \in Orders : product[o] # "none"}
Members == {a \in Accounts : Known(a)}

\* Members that no purchase has made.
Founders == {a \in Members : \A o \in Touched : product[o] = "renewal" \/ owner[o] # a}

\* No recovery request, nothing claimed or sent, first addresses only.
MailRests ==
    /\ \A t \in Tickets : ~attempt[t].present
    /\ \A m \in Mailers : phase[m] = "idle"
    /\ \A a \in Accounts : row[a].tries = 0 /\ contact[a] <= 1
    /\ inbox = {} /\ Queued \cap Founders = {}
    /\ \A a \in Accounts : pin[a] <= 2

\* A single member, who had the membership before or has bought it in time.
OrdersRest ==
    /\ Cardinality(Members) <= 1 /\ Cardinality(Touched) <= 1
    /\ \A o \in Touched :
         /\ fulfilled[o] /\ product[o] = "purchase" /\ state[o] = "paid"
         /\ ~expired[o] /\ reversal[o] = "none"

\* Of two orders one is a renewal, or both are purchases that start at once, and
\* neither is disputed.
MixedOrders ==
    \/ Cardinality(Touched) <= 1
    \/ /\ \/ \E o \in Touched : product[o] = "renewal"
          \/ \A o \in Touched : product[o] = "purchase"
       /\ \A o \in Touched : reversal[o] # "disputed"

\* Forms overtake each other only over a single order that nobody has paid.
CalmForms ==
    \/ Cardinality(Touched) <= 1 /\ \A o \in Orders : payment[o] = "none"
    \/ \E h \in Handlers :
         /\ \A g \in Handlers \ {h} : work[g] = NoOrder
         /\ work[h] # NoOrder => ticket[work[h]] = h

\* The operator holds a membership as refunded, or revokes it.
PlainHolds == \A a \in Accounts :
    status[a] = "disputed" => \E o \in Orders : reversal[o] = "disputed"

\* Bound: one member at most was there before, who has logged in if the membership
\* was to start at once; orders and letters in motion are explored one at a time.
Focus ==
    /\ Cardinality(Founders) <= 1 /\ \A a \in Founders : status[a] # "new"
    /\ PlainHolds /\ MixedOrders /\ CalmForms /\ (MailRests \/ OrdersRest)

\* Bound: one member with an address was there before, to compete for the tables.
LiveInit ==
    /\ CheckoutInit
    /\ limit = 1 /\ Members = {CHOOSE a \in Accounts : TRUE}
    /\ \A a \in Members : status[a] = "active" /\ contact[a] = 1

LiveSpec == LiveInit /\ [][CheckoutNext]_vars /\ CheckoutFairness
=============================================================================
