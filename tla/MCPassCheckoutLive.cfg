SPECIFICATION LiveSpec
CONSTANTS
    Accounts = {a1, a2}
    Tickets = {t1}
    Links = {l1, l2}
    Mailers = {}
    Nobody = Nobody
    NoAccount = NoAccount
    NoLetter = NoLetter
    RecoveryLimit = 1
    MaxAttempts = 1
    MaxContacts = 1
    MaxChanges = 2
    Orders = {o1}
    Handlers = {h1}
    Events = {e1}
    NoOrder = NoOrder
    MaxAccounts = 2
PROPERTY PaymentSettles
CHECK_DEADLOCK FALSE
