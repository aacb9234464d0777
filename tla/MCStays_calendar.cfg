CONSTANTS
    Rooms = {r1, r2}
    Bookings = {b1, b2}
    Windows <- CalendarWindows
    UsualIn = 1
    UsualOut = 0
    ManualStatuses <- NoStatus
    LastDay = 1
    MaxMaintenance = 0
SPECIFICATION Spec
SYMMETRY Symmetry
CHECK_DEADLOCK FALSE
INVARIANTS
    OverlapOnlyUnchecked
    BookingHoldsRoom
PROPERTIES
    VacatedRoomQueued
    CalendarSpec
