SPECIFICATION FairSpec
CONSTANTS
    Rooms = {1, 2}
    Bookings = {b1, b2}
    Windows <- OneWindow
    Requests = {p1, p2}
    Kinds = {"walk_in", "update_dates", "transfer", "check_out", "reverse"}
    Today = 0
    NoBooking = NoBooking
INVARIANTS NoDeadlock
PROPERTIES EveryRequestEnds
CHECK_DEADLOCK FALSE
