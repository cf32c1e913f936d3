--------------------------- MODULE MCHttpServing ---------------------------
\* Instances of HttpServing.
EXTENDS HttpServing

\* Bound: each listener takes one connection at a time, into the slot and with
\* the lease of its number.
Home == \A c \in Connections :
    listener[c] = c /\ slot[c] \in {c, NoSlot} /\ lease[c] \in {c, NoLease}

HomeInit == HttpInit /\ Home

HomeSpec == HomeInit /\ [][HttpNext /\ Home']_vars /\ HttpFairness
=============================================================================
