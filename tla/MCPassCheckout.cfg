SPECIFICATION CheckoutSpec
CONSTANTS
    Accounts = {a1, a2}
    Tickets = {t1}
    Links = {l1, l2}
    Mailers = {m1}
    Nobody = Nobody
    NoAccount = NoAccount
    NoLetter = NoLetter
    RecoveryLimit = 1
    MaxAttempts = 1
    MaxContacts = 2
    MaxChanges = 2
    Orders = {o1, o2}
    Handlers = {h1, h2}
    Events = {e1}
    NoOrder = NoOrder
    MaxAccounts = 2
SYMMETRY CheckoutSymmetry
CONSTRAINT Focus
INVARIANTS
    CheckoutInv
    AckIsTrue
PROPERTIES
    KeepsLedger
    HeldStaysHeld
    LinkIsRightful
CHECK_DEADLOCK FALSE
