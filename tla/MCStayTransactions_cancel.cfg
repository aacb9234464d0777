SPECIFICATION Spec
CONSTANTS
    Rooms = {1, 2}
    Bookings = {b1, b2}
    Windows <- OneWindow
    Requests = {p1, p2}
    Kinds = {"create", "check_in", "cancel"}
    Today = 0
    NoBooking = NoBooking
SYMMETRY Symmetry
PROPERTIES CancelledBeforeArrival
CHECK_DEADLOCK FALSE
