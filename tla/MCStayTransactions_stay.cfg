SPECIFICATION Spec
CONSTANTS
    Rooms = {1, 2}
    Bookings = {b1, b2}
    Windows <- NightWindows
    Requests = {p1, p2}
    Kinds = {"create", "walk_in", "replace", "add", "check_in", "transfer", "check_out", "bill_out", "set_available"}
    Today = 0
    NoBooking = NoBooking
SYMMETRY Symmetry
INVARIANTS TypeOK NoDoubleBooking
PROPERTIES CheckedOutStays
CHECK_DEADLOCK FALSE
