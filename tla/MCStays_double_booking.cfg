CONSTANTS
    Rooms = {r1}
    Bookings = {b1, b2}
    Windows <- CalendarWindows
    UsualIn = 1
    UsualOut = 0
    ManualStatuses <- NoStatus
    LastDay = 1
    MaxMaintenance = 0
SPECIFICATION Spec
CHECK_DEADLOCK FALSE
INVARIANT
    NoDoubleBooking
