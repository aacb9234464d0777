SPECIFICATION Spec
CONSTANTS
    None = None
    Bookings = {b1, b2}
    WithPhone = {}
    Linked = {b1}
    MaxInvoices = 2
INVARIANTS
    SentToOwnGuest
CHECK_DEADLOCK FALSE
